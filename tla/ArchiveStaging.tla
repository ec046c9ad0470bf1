---------------------------- MODULE ArchiveStaging ----------------------------
(***************************************************************************)
(* The archive staging lifecycle of plugins/archive_lifecycle.go.  A pass  *)
(* goes through the staging groups of a source in their order, verifies    *)
(* each one against the archive until the budget of groups is spent, and   *)
(* then retires the verified and aged groups: each is verified again and   *)
(* removed file by file.  Meanwhile programs stage and archive files.      *)
(*                                                                         *)
(* A file is the version it holds, 0 for none; versions of one size are    *)
(* the same to the plugin.  A verification is one instant: what changes    *)
(* behind its walk is taken as a change after it.                          *)
(***************************************************************************)
EXTENDS Naturals, FiniteSets

CONSTANTS NGroups,     \* groups, in the order of their paths
          AFiles,      \* file names in a group
          Versions,    \* contents a file may have
          SizeOf,      \* their sizes
          GroupBudget, \* max_groups_per_cycle
          RetireAge    \* retire_after, in ticks

ASSUME ArchiveAssumption ==
  /\ NGroups \in Nat /\ GroupBudget \in Nat /\ RetireAge \in Nat
  /\ 0 \notin Versions /\ SizeOf \in [Versions -> Nat]

VARIABLES staged,   \* staged[g][f]: the version staged, 0 when there is none
          archived, \* archived[g][f]: [form, version] of the counterpart
          gage,     \* age of the newest file of the group, up to RetireAge
          mounted,  \* the target directory is there
          apass,    \* the pass: [phase, next, budget, retire, at]
          lateFile  \* files staged or rearchived since their group was verified again

avars == <<staged, archived, gage, mounted, apass, lateFile>>

AGroups == 1..NGroups

\* A counterpart under the file's own name, a compressed one that declares its
\* size, or one that does not (a stream, a gzip of 4 GiB or more, not a file).
Forms == {"none", "plain", "declared", "mute"}

AQuiet == [phase |-> "idle", next |-> 1, budget |-> GroupBudget, retire |-> {}, at |-> 0]

AInit ==
  /\ staged \in [AGroups -> [AFiles -> {0} \cup Versions]]
  /\ archived \in [AGroups -> [AFiles -> {[form |-> "none", version |-> 0]}
                     \cup [form : Forms \ {"none"}, version : Versions]]]
  /\ gage \in [AGroups -> {RetireAge}]
  /\ mounted = TRUE
  /\ apass = AQuiet
  /\ lateFile = {}
-----------------------------------------------------------------------------
Holds(g) == {f \in AFiles : staged[g][f] # 0}

\* The directories of the group's depth; an emptied one is pruned.
GroupExists(g) == Holds(g) # {}

\* archiveCounterpartProvesSize: the counterpart declares the size of the file.
ProvesSize(g, f) ==
  /\ archived[g][f].form \in {"plain", "declared"}
  /\ SizeOf[archived[g][f].version] = SizeOf[staged[g][f]]

\* verifyArchiveStagingGroup: it holds a file and every file has a proof.
VerifiedGroup(g) ==
  /\ mounted
  /\ Holds(g) # {}
  /\ \A f \in Holds(g) : ProvesSize(g, f)

\* archiveSourceRetireAfter has passed since the newest file of the group.
Aged(g) == gage[g] = RetireAge

\* A pass at moderate level and above; without a target nothing is looked at.
AStart ==
  /\ apass.phase = "idle"
  /\ apass' = [AQuiet EXCEPT !.phase = IF mounted THEN "reconcile" ELSE "idle"]
  /\ UNCHANGED <<staged, archived, gage, mounted, lateFile>>

\* The next group: verified or not, it costs one unit of the budget.
Reconcile ==
  /\ apass.phase = "reconcile"
  /\ apass.next \in AGroups
  /\ GroupExists(apass.next) => apass.budget > 0
  /\ apass' = [apass EXCEPT !.next = @ + 1,
                 !.budget = IF GroupExists(apass.next) THEN @ - 1 ELSE @,
                 !.retire = IF VerifiedGroup(apass.next) /\ Aged(apass.next)
                            THEN @ \cup {apass.next} ELSE @]
  /\ UNCHANGED <<staged, archived, gage, mounted, lateFile>>

\* No group is left, or the budget is spent: the rest waits for another pass.
ReconcileDone ==
  /\ apass.phase = "reconcile"
  /\ apass.next \in AGroups => GroupExists(apass.next) /\ apass.budget = 0
  /\ apass' = [apass EXCEPT !.phase = "retire"]
  /\ UNCHANGED <<staged, archived, gage, mounted, lateFile>>

\* Mutant: the plan's verdict is good enough.
Reverify_Planned(g) ==
  /\ apass.phase = "retire"
  /\ g \in apass.retire
  /\ apass' = [apass EXCEPT !.retire = @ \ {g}, !.phase = "remove", !.at = g]
  /\ lateFile' = {}
  /\ UNCHANGED <<staged, archived, gage, mounted>>

\* Prove it again, not its age, before the group goes.
Reverify(g) ==
  /\ apass.phase = "retire"
  /\ g \in apass.retire
  /\ apass' = [apass EXCEPT !.retire = @ \ {g},
                 !.phase = IF VerifiedGroup(g) THEN "remove" ELSE "retire",
                 !.at = IF VerifiedGroup(g) THEN g ELSE 0]
  /\ lateFile' = {}
  /\ UNCHANGED <<staged, archived, gage, mounted>>

\* removeArchiveStagingTree, one file: what it finds now, not what was verified.
RemoveStaged(f) ==
  /\ apass.phase = "remove"
  /\ f \in Holds(apass.at)
  /\ staged' = [staged EXCEPT ![apass.at][f] = 0]
  /\ UNCHANGED <<archived, gage, mounted, apass, lateFile>>

\* The group is empty and pruned, or an entry could not be removed.
RemoveEnds ==
  /\ apass.phase = "remove"
  /\ apass' = [apass EXCEPT !.phase = "retire", !.at = 0]
  /\ lateFile' = {}
  /\ UNCHANGED <<staged, archived, gage, mounted>>

\* The plan is done, or the pass is cancelled.
ADone ==
  /\ apass.phase = "retire"
  /\ apass' = AQuiet
  /\ UNCHANGED <<staged, archived, gage, mounted, lateFile>>
-----------------------------------------------------------------------------
(* The programs that stage and archive, and the volume of the archive.     *)

Late(g, f) == lateFile' = IF apass.at = g THEN lateFile \cup {f} ELSE lateFile

Stage(g, f, v) ==
  /\ staged' = [staged EXCEPT ![g][f] = v]
  /\ gage' = [gage EXCEPT ![g] = 0]
  /\ Late(g, f)
  /\ UNCHANGED <<archived, mounted, apass>>

ArchiveFile(g, f, form) ==
  /\ mounted /\ staged[g][f] # 0
  /\ archived' = [archived EXCEPT ![g][f] = [form |-> form, version |-> staged[g][f]]]
  /\ Late(g, f)
  /\ UNCHANGED <<staged, gage, mounted, apass>>

Mount ==
  /\ mounted' = ~ mounted
  /\ UNCHANGED <<staged, archived, gage, apass, lateFile>>

ATick ==
  /\ gage' = [g \in AGroups |-> IF gage[g] < RetireAge THEN gage[g] + 1 ELSE gage[g]]
  /\ UNCHANGED <<staged, archived, mounted, apass, lateFile>>

Pass == AStart \/ Reconcile \/ ReconcileDone \/ RemoveEnds \/ ADone
        \/ \E g \in AGroups : Reverify(g)
        \/ \E f \in AFiles : RemoveStaged(f)

ANext ==
  \/ Pass \/ Mount \/ ATick
  \/ \E g \in AGroups, f \in AFiles :
       \/ \E v \in Versions : Stage(g, f, v)
       \/ \E form \in Forms \ {"none"} : ArchiveFile(g, f, form)

ASpec == AInit /\ [][ANext]_avars
-----------------------------------------------------------------------------
\* removeArchiveStagingTree takes a file only when the archive holds one that
\* declares its size, unless the file or its counterpart changed between the
\* second verification of the group and the removal of the file: whatever
\* changes between the plan and that verification saves the group.  That is less
\* than the repository says.  "Nothing is retired that has not been proved
\* byte-for-byte redundant" (docs/archive-staging-lifecycle.md:39, config.go:245) is
\* false, since another content of that size passes (archive_lifecycle.go:420), and
\* so is "a file that appears between planning and deletion saves its group"
\* (docs:106) of one that appears after that verification (archive_lifecycle.go:714).
RetiredIsSized ==
  [][\A g \in AGroups, f \in AFiles :
       staged[g][f] # 0 /\ staged'[g][f] = 0 => ProvesSize(g, f) \/ f \in lateFile]_avars

=============================================================================
