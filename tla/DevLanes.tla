------------------------------ MODULE DevLanes ------------------------------
(***************************************************************************)
(* What the deleting lanes of plugins/devartifacts.go, temp_custody.go and *)
(* shm_scratch.go do to one tree: a look at the processes when the pass    *)
(* (or the lane) begins, the rules of the lane, a walk that measures the   *)
(* tree, the checks the lane repeats after it, the removal.  Each is a     *)
(* step, and processes use, write, commit or replace the tree in between.  *)
(*                                                                         *)
(* The tree is not covered by protect_paths or agent-session data: no lane *)
(* looks at such a tree any further.                                       *)
(***************************************************************************)
EXTENDS Naturals

CONSTANTS Lanes,      \* the lanes a tree may belong to
          GitMayFail  \* git may fail or run out of its time

ASSUME LanesAssumption ==
  /\ Lanes \subseteq {"disposable", "session", "nix", "generated", "worktree", "artifact", "zig", "shm"}
  /\ GitMayFail \in BOOLEAN

VARIABLES dtree,       \* [lane, here, content, top, use, git, receipt]
          pass,        \* [at, young, seen, blind, same, held, late]
          undeletable \* the tree is in the memory of paths that cannot be deleted

dvars == <<dtree, pass, undeletable>>

Artifacts == {"artifact", "zig"}

\* content: how deep the newest change of the lane's idle time lies; top: the
\* directory itself changed in that time (a session: or its transcript; an
\* artifact: its project's marker file); use: how a process has the tree, for
\* artifacts a tool of the family: its command line names it, its directory is in
\* it (stray: and its command line names another project), a file is open; git:
\* whether something is kept there that nobody else has (changes, commits; for
\* artifacts: tracked files); receipt: the owner's receipt.
Uses == {"none", "argv", "cwd", "stray", "open"}
TreeNow == [lane: Lanes, here: {TRUE}, content: {"old", "deep", "shallow"}, top: BOOLEAN,
            use: Uses, git: {"none", "clean", "precious"},
            receipt: {"none", "claimed", "released"}]

\* young: the age of the project's marker counts, as it does below critical;
\* seen: the look found the tree in use; blind: because its commands failed it
\* did not. History: held is how the tree is used ever since that look, late
\* that something changed after the last check.
NoPass == [at |-> "idle", young |-> FALSE, seen |-> FALSE, blind |-> FALSE,
           same |-> TRUE, held |-> "none", late |-> FALSE]

Receipts == dtree.lane \in {"disposable", "generated"}

DInit ==
  /\ dtree \in TreeNow /\ (~ Receipts => dtree.receipt = "none")
  /\ pass = NoPass
  /\ undeletable = FALSE
-----------------------------------------------------------------------------
(* What the looks find: TRUE keeps the tree.                               *)

\* inspectTemporaryRootActivity, bbScanProc: incomplete keeps every tree.
TempLooks == {dtree.use # "none", TRUE}

\* activeHarnessScratchSessions: without ps nobody is active, without lsof
\* only command lines count.
SessionLooks == {dtree.use \in {"argv", "cwd", "stray"}, dtree.use = "argv", FALSE}

\* Mutant: a tool for which no project is found is left out.
FamilyLooks_NoFallback == IF dtree.use = "argv" THEN {TRUE} ELSE BOOLEAN

\* devArtifactActivityFromProcessEvidence: a tool for which no project is found makes
\* its whole family active.  One whose command line names a project counts for that
\* one alone when lsof does not tell its directory, or no marker its project.
FamilyLooks == IF dtree.use \in {"argv", "cwd"} THEN {TRUE} ELSE BOOLEAN

\* activeAgentPathReferences: command lines, or nobody without ps.
WorktreeLooks == {dtree.use = "argv", FALSE}

Looks ==
  CASE dtree.lane \in Artifacts -> FamilyLooks
    [] dtree.lane = "session" -> SessionLooks
    [] dtree.lane = "worktree" -> WorktreeLooks
    [] OTHER -> TempLooks

\* A lane sees this use unless its look failed.
Visible(use) ==
  CASE dtree.lane \in Artifacts \cup {"session"} -> use \in {"argv", "cwd", "stray"}
    [] dtree.lane = "worktree" -> use = "argv"
    [] OTHER -> use # "none"

IdleTree == dtree.content = "old" /\ ~ dtree.top

\* gitWorktreeProtectReason: no work tree when rev-parse fails or times out,
\* kept when a later command does.
WorktreeGuards ==
  IF dtree.git = "none" THEN {FALSE}
  ELSE {dtree.git = "precious"} \cup (IF GitMayFail THEN BOOLEAN ELSE {})

\* ContainsTrackedFiles: none when ls-files fails.
TrackedLooks == {dtree.git = "precious"} \cup (IF GitMayFail THEN {FALSE} ELSE {})

\* temporaryRootCustodyReason: Git, mounts, owners; it fails closed.
InCustody == dtree.git # "none"

\* Mutant: the idle age is not measured again.
Rechecked_NoAge(used) == pass.same /\ ~ InCustody /\ ~ used

\* recheckTemporaryRoot, and recheck of shm_scratch: identity, custody, processes,
\* idle walk and mounts one after another within ten seconds, here one instant.
Rechecked(used) == pass.same /\ ~ InCustody /\ ~ used /\ IdleTree
-----------------------------------------------------------------------------
\* The level at which a lane deletes.
Deletes(level) ==
  CASE dtree.lane \in {"disposable", "session", "nix"} -> level >= 3
    [] dtree.lane = "worktree" -> level = 4
    [] dtree.lane = "shm" -> TRUE
    [] OTHER -> level >= 2

\* Cleanup (a worktree: the lane) looks at the processes; without ps no lane
\* runs (activeDevArtifactActivity).
DStart ==
  /\ pass.at = "idle" /\ dtree.here
  /\ \E level \in 1..4, seen \in Looks :
       /\ Deletes(level)
       /\ pass' = [NoPass EXCEPT !.at = "plan", !.young = dtree.lane \in Artifacts /\ level < 4,
                     !.seen = seen, !.blind = Visible(dtree.use) /\ ~ seen, !.held = dtree.use]
  /\ UNCHANGED <<dtree, undeletable>>

(* The rules of each lane before its walk; again is a look of its own,     *)
(* tracked that of git.                                                    *)

\* planDisposableTemporaryRoots
PlanDisposable(again) == dtree.receipt = "released" /\ ~ pass.seen /\ Rechecked(again)

\* forEachStaleHarnessScratchSession
PlanSession == ~ pass.seen /\ dtree.content # "shallow" /\ ~ dtree.top

\* cleanNixTemporaryRoots
PlanNix == ~ pass.seen /\ ~ dtree.top

\* forEachStaleTemporaryRoot
PlanGenerated(tracked) == dtree.receipt = "none" /\ ~ InCustody /\ ~ pass.seen /\ IdleTree /\ ~ tracked

\* forEachAgentWorktreeRoot
PlanWorktree == ~ dtree.top

\* plan and keepReason of shm_scratch
PlanShm == ~ InCustody /\ IdleTree /\ ~ pass.seen

Planned(again, tracked) ==
  CASE dtree.lane = "disposable" -> PlanDisposable(again)
    [] dtree.lane = "session" -> PlanSession
    [] dtree.lane = "nix" -> PlanNix
    [] dtree.lane = "generated" -> PlanGenerated(tracked)
    [] dtree.lane = "worktree" -> PlanWorktree
    [] dtree.lane = "shm" -> PlanShm
    [] OTHER -> TRUE

Plan ==
  /\ pass.at = "plan"
  /\ \E again \in TempLooks, tracked \in TrackedLooks :
       pass' = IF dtree.here /\ Planned(again, tracked) THEN [pass EXCEPT !.at = "measured"] ELSE NoPass
  /\ UNCHANGED <<dtree, undeletable>>

(* After the walk: what each lane looks at again before it removes.        *)

\* cleanDisposableTemporaryRoots
ConfirmDisposable(used) == dtree.receipt = "released" /\ Rechecked(used)

\* cleanHarnessScratchSessions and harnessSessionRevived
ConfirmSession == ~ dtree.top

\* cleanTemporaryGeneratedArtifacts
ConfirmGenerated(used, tracked) == Rechecked(used) /\ ~ tracked

\* cleanAgentWorktreeRoots
ConfirmWorktree(guard) == ~ pass.seen /\ ~ guard

\* cleanNodeModules, cleanPythonVenvs and, alike, cleanRustTargets
ConfirmArtifact(tracked) == ~ pass.seen /\ ~ tracked /\ (pass.young => ~ dtree.top)

\* cleanZigArtifacts: not what was built lately either.
ConfirmZig(tracked) == ConfirmArtifact(tracked) /\ dtree.content = "old"

Confirmed(used, guard, tracked) ==
  CASE dtree.lane = "disposable" -> ConfirmDisposable(used)
    [] dtree.lane = "session" -> ConfirmSession
    [] dtree.lane = "generated" -> ConfirmGenerated(used, tracked)
    [] dtree.lane = "worktree" -> ConfirmWorktree(guard)
    [] dtree.lane = "shm" -> Rechecked(used)
    [] dtree.lane = "artifact" -> ConfirmArtifact(tracked)
    [] dtree.lane = "zig" -> ConfirmZig(tracked)
    [] OTHER -> TRUE

Confirm ==
  /\ pass.at = "measured"
  /\ \E used \in TempLooks, guard \in WorktreeGuards, tracked \in TrackedLooks :
       pass' = IF dtree.here /\ ~ undeletable /\ Confirmed(used, guard, tracked)
               THEN [pass EXCEPT !.at = "remove", !.late = FALSE] ELSE NoPass
  /\ UNCHANGED <<dtree, undeletable>>

\* removeDevArtifactPath: gone, or kept for an error that is remembered when it
\* is one of permission and the memory is not full.
RemovePath ==
  /\ pass.at = "remove"
  /\ \/ dtree' = [dtree EXCEPT !.here = FALSE] /\ UNCHANGED undeletable
     \/ undeletable' \in {undeletable, dtree.lane # "shm"} /\ UNCHANGED dtree
  /\ pass' = NoPass

\* The walk fails or the context ends.
PassEnds ==
  /\ pass.at \in {"plan", "measured"}
  /\ pass' = NoPass
  /\ UNCHANGED <<dtree, undeletable>>

LanesRestart ==
  /\ pass' = NoPass
  /\ undeletable' = FALSE
  /\ UNCHANGED dtree
-----------------------------------------------------------------------------
(* Processes and owners.                                                   *)

Meanwhile == [pass EXCEPT !.late = pass.at = "remove"]

UseChanges ==
  /\ dtree.here
  /\ \E u \in Uses \ {dtree.use} : dtree' = [dtree EXCEPT !.use = u]
  /\ pass' = [Meanwhile EXCEPT !.held = "none"]
  /\ UNCHANGED undeletable

Writes ==
  /\ dtree.here
  /\ \E c \in {"old", "deep", "shallow"}, t \in BOOLEAN : dtree' = [dtree EXCEPT !.content = c, !.top = t]
  /\ pass' = Meanwhile
  /\ UNCHANGED undeletable

GitWork ==
  /\ dtree.here
  /\ \E g \in {"none", "clean", "precious"} : dtree' = [dtree EXCEPT !.git = g]
  /\ pass' = Meanwhile
  /\ UNCHANGED undeletable

ReceiptChanges ==
  /\ dtree.here /\ Receipts
  /\ \E r \in {"none", "claimed", "released"} : dtree' = [dtree EXCEPT !.receipt = r]
  /\ pass' = Meanwhile
  /\ UNCHANGED undeletable

\* A new tree of the same name.
Rebuilt ==
  /\ dtree' = [dtree EXCEPT !.here = TRUE, !.content = "shallow", !.top = TRUE, !.use = "none",
                 !.git = "none", !.receipt = "none"]
  /\ pass' = [Meanwhile EXCEPT !.same = FALSE, !.held = "none"]
  /\ UNCHANGED undeletable

DNext ==
  \/ DStart \/ Plan \/ Confirm \/ RemovePath \/ PassEnds \/ LanesRestart
  \/ UseChanges \/ Writes \/ GitWork \/ ReceiptChanges \/ Rebuilt

DSpec == DInit /\ [][DNext]_dvars
-----------------------------------------------------------------------------
\* The plugin removes the tree.
Removes == pass.at = "remove" /\ dtree.here /\ ~ dtree'.here

\* "A planning decision is no lease" (cleanDisposableTemporaryRoots,
\* cleanTemporaryGeneratedArtifacts, ShmScratchPlugin): these lanes remove a
\* tree only if it is the one they planned and idle, unused and in nobody's
\* custody, but for what happens after the last check of each of these; a session
\* only if neither it nor its transcript changed while it was measured.
PlanIsNoLease ==
  [][Removes /\ ~ pass.late =>
       /\ dtree.lane \in {"disposable", "generated", "shm"} => pass.same /\ IdleTree /\ dtree.use = "none" /\ dtree.git = "none"
       /\ dtree.lane = "disposable" => dtree.receipt = "released"
       /\ dtree.lane = "session" => ~ dtree.top]_dvars

\* Where a look may miss a use that the lane can see: ps or lsof fails for a session
\* or a worktree, and an artifact's tool names another project while its directory is
\* not known: that project alone is then protected (devartifacts.go:2323), where "the
\* plan keeps the conservative family-wide protection fallback" by
\* docs/operator-workflow.md:226.
MayMiss(use) == dtree.lane \in {"session", "worktree"} \/ (dtree.lane \in Artifacts /\ use = "stray")

\* No lane removes a tree that a process had since before the pass looked, in a
\* way the lane can see, but where its look may miss that use and did.
SteadyUseKept == [][Removes /\ Visible(pass.held) => pass.blind /\ MayMiss(pass.held)]_dvars

\* "Dirty git worktree should remain" (devartifacts_test.go): a worktree that
\* has changes or commits of its own when it is checked is not removed.
DirtyWorktreeKept ==
  [][Removes /\ dtree.lane = "worktree" /\ ~ pass.late => dtree.git # "precious"]_dvars
=============================================================================
