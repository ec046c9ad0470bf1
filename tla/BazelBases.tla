---------------------------- MODULE BazelBases ----------------------------
(***************************************************************************)
(* The output-base reaper: BazelBasesPlugin.run and apply in               *)
(* plugins/bazel_bases.go, its lock in bazel_bases_unix.go and its process *)
(* inventory in bazel_bases_linux.go.                                      *)
(*                                                                         *)
(* One pass surveys the bases (walk, inventory, decision), then removes    *)
(* the eligible ones: re-check the use signals, re-check the path and the  *)
(* processes, take Bazel's lock, rename the base aside, look again, and    *)
(* only then delete, or rename it back.  Bazel clients open, lock, use and *)
(* leave their bases between any two of these steps, and the daemon may    *)
(* stop at any of them, which leaves the aside for a later pass.           *)
(*                                                                         *)
(* The survey is one step: what changes between its parts changes as well  *)
(* between it and the removal, which looks again.  The bases share one     *)
(* file system.  A path has at most one aside, where the code keeps one    *)
(* per second: a second rename of the path waits for the first to go.      *)
(***************************************************************************)
EXTENDS Integers, FiniteSets

CONSTANTS
  Paths,         \* output bases the walk may find
  Sib,           \* the sibling user root beside SibBase, another tree
  SibBase,
  SibUsers,      \* bases whose install link points into Sib
  Clients,       \* Bazel clients, each with the server it starts
  AgentPaths,    \* trees in which agent sessions may keep their per-repository directory
  NoLockFile,    \* bases without a regular lock file: DO_NOT_BUILD_HERE or javalog.properties
  HeldPaths,     \* held copies and denied stores: safe refuses them
  GuardedPaths,  \* .git, a tracked file or a mount point inside: bbGuard refuses them
  Listed,        \* the rows of only_listed, Paths when the option is empty
  BasesOnly,     \* bases in a bases_only root
  IdleAfter, PressureIdleAfter, BasesOnlyIdleAfter,
  KindIdle, KindPressure,  \* idle_after and pressure_idle_after of each base's kind, 0 for none
  RootStart, RootStop,  \* the root's pressure lines: root_pressure, else the plugin's
  WideStop,      \* pressure_stop_percent, the plugin-wide line
  MaxBaseClock, MaxUsage    \* bounds

VARIABLES
  tree,       \* the directory at each place, or NoTree
  client,     \* what each client does
  bclock, usage,
  bpc,         \* where the pass is
  job,        \* the tree removeTree works on
  survey,     \* what the pass found: the rows and asides still to do
  pressured,  \* p.pressured of the device
  crashed     \* history: the daemon stopped inside removeTree

bbVars == <<tree, client, bclock, usage, bpc, job, survey, pressured, crashed>>

Names == Paths \cup {Sib}
Place == Names \X {"base", "aside"}
Base(n) == <<n, "base">>
Aside(n) == <<n, "aside">>

\* use: the newest use signal; fds: clients that hold something open below; lock:
\* who holds <base>/lock, if there is one; agent: an agent-session directory lies
\* inside, "seen" by the next scan of the tree, or "unseen" since it came after the
\* last one that a removal waits for.
Reaper == "reaper"
Free == "free"
NoFile == "nofile"
Tree == [use: 0 .. MaxBaseClock, fds: SUBSET Clients, lock: Clients \cup {Free, Reaper, NoFile},
         agent: {"none", "seen", "unseen"}]
NoTree == [use |-> 0, fds |-> {}, lock |-> "none", agent |-> "none"]

ASSUME BasesAssumption ==
  /\ SibBase \in Paths /\ Sib \notin Paths
  /\ Clients \cap {Free, Reaper, NoFile, NoTree.lock} = {}
  /\ MaxBaseClock \in Nat /\ {RootStart, RootStop} \subseteq Nat

Exists(pl) == tree[pl] # NoTree
NewTree(c) == [use |-> bclock, fds |-> {c}, lock |-> Free, agent |-> "none"]
Opened(pl, c) ==
  IF Exists(pl) THEN [tree[pl] EXCEPT !.fds = @ \cup {c}, !.lock = IF @ = NoFile THEN Free ELSE @]
  ELSE NewTree(c)

\* The rows still eligible, and what the pass knows of them.
NoSurvey == [rows |-> {}, press |-> FALSE, relieved |-> FALSE, over |-> {}, measured |-> {},
             sibling |-> FALSE, asides |-> {}]

BBInit ==
  /\ tree = [pl \in Place |->
               IF pl[2] = "aside" THEN NoTree
               ELSE [use |-> 0, fds |-> {}, lock |-> IF pl[1] \in NoLockFile THEN NoFile ELSE Free,
                     agent |-> "none"]]
  /\ client = [c \in Clients |-> "off"]
  /\ bclock = 0 /\ usage \in {RootStop, RootStart}
  /\ bpc = "idle" /\ job = Sib /\ survey = NoSurvey
  /\ pressured = FALSE /\ crashed = FALSE
-----------------------------------------------------------------------------
(* Bazel (external): what the code expects of a client. *)

\* The client opens <base>/lock, creating the file and the base when they are not there.
ClientOpens(c, p) ==
  /\ client[c] = "off"
  /\ client' = [client EXCEPT ![c] = "waiting"]
  /\ tree' = [tree EXCEPT ![Base(p)] = Opened(Base(p), c)]
  /\ UNCHANGED <<bclock, usage, bpc, job, survey, pressured, crashed>>

\* It gets the lock of the file it opened, wherever that is now, and writes its
\* logs; its server maps the install base of the sibling user root.
ClientLocks(c, pl) ==
  /\ client[c] = "waiting" /\ pl[1] \in Paths /\ c \in tree[pl].fds
  /\ tree[pl].lock = Free
  /\ client' = [client EXCEPT ![c] = "running"]
  /\ tree' = [tree EXCEPT
       ![pl] = [@ EXCEPT !.lock = c, !.use = bclock],
       ![Base(Sib)] = IF pl[1] \in SibUsers THEN Opened(Base(Sib), c) ELSE @]
  /\ UNCHANGED <<bclock, usage, bpc, job, survey, pressured, crashed>>

\* The command ends; the server stays, with its files open.
ClientUnlocks(c, pl) ==
  /\ client[c] = "running" /\ tree[pl].lock = c
  /\ client' = [client EXCEPT ![c] = "server"]
  /\ tree' = [tree EXCEPT ![pl] = [@ EXCEPT !.lock = Free, !.use = bclock]]
  /\ UNCHANGED <<bclock, usage, bpc, job, survey, pressured, crashed>>

\* The server exits, or a waiting client is interrupted.
ClientExits(c) ==
  /\ client[c] \in {"waiting", "server"}
  /\ client' = [client EXCEPT ![c] = "off"]
  /\ tree' = [pl \in Place |-> [tree[pl] EXCEPT !.fds = @ \ {c}]]
  /\ UNCHANGED <<bclock, usage, bpc, job, survey, pressured, crashed>>

BaseTick ==
  /\ bclock < MaxBaseClock /\ bclock' = bclock + 1
  /\ UNCHANGED <<tree, client, usage, bpc, job, survey, pressured, crashed>>

OthersWrite ==
  /\ usage < MaxUsage /\ usage' = usage + 1
  /\ UNCHANGED <<tree, client, bclock, bpc, job, survey, pressured, crashed>>
-----------------------------------------------------------------------------
(* The survey. *)

\* windows: a kind may lengthen both windows, the pressure window is never the longer
\* one, and no window of a bases-only tree is shorter than its own.
Longer(a, b) == IF a > b THEN a ELSE b
IdleWindow(p) ==
  Longer(Longer(IdleAfter, KindIdle[p]), IF p \in BasesOnly THEN BasesOnlyIdleAfter ELSE 0)
PressureWindow(p) ==
  LET idle == Longer(IdleAfter, KindIdle[p])
      pressure == Longer(PressureIdleAfter, KindPressure[p])
  IN  Longer(IF pressure > idle THEN idle ELSE pressure,
             IF p \in BasesOnly THEN BasesOnlyIdleAfter ELSE 0)
WindowOf(p, press) == IF press THEN PressureWindow(p) ELSE IdleWindow(p)

\* pressureState: on at the start line, off only below the stop line.
PressureState == usage >= RootStart \/ (pressured /\ usage >= RootStop)

Idle(p) == bclock - tree[Base(p)].use

\* The inventory of the processes: who has a file open below, who holds the lock.
HoldsFiles(pl) == tree[pl].fds # {}
LockHeld(pl) == tree[pl].lock \in Clients

\* liveReasons
Live(pl) == HoldsFiles(pl) \/ LockHeld(pl)

\* What keeps a path whoever uses it.
Unsafe(n) == n \in HeldPaths
Guarded(n) == n \in GuardedPaths

\* bbMeasureTree meets an agent-session directory.
HoldsAgentData(n) == tree[Base(n)].agent # "none"

\* bbSiblingUserRoot: nothing else that was found links into it.
SiblingFree(found) ==
  /\ Exists(Base(Sib)) /\ ~ Unsafe(Sib) /\ ~ Guarded(Sib) /\ ~ HoldsFiles(Base(Sib))
  /\ SibBase \in SibUsers /\ found \cap SibUsers = {SibBase}

\* The decision on a base that was found, before it is measured.
Removable(p, press) ==
  /\ Idle(p) > WindowOf(p, press) /\ ~ Unsafe(p) /\ ~ Guarded(p) /\ ~ Live(Base(p))
  /\ p \in Listed

\* discover: bases below the roots, held copies skipped.
Discoverable == {p \in Paths : Exists(Base(p)) /\ p \notin HeldPaths}

\* What the last pass's scans missed is there for this one's.
Rescanned(pl) ==
  [tree[pl] EXCEPT !.agent = IF pl[2] = "base" /\ @ = "unseen" THEN "seen" ELSE @]

\* found: a walk cut short finds fewer bases; measured: the rows that the measuring
\* budget lasts for are scanned for agent-session data; complete: the inventory could
\* read every process of this user, else nothing is removed.
Survey(found, measured, complete) ==
  LET press == PressureState
      due == {p \in found : Removable(p, press)}
  IN  /\ bpc = "idle"
      /\ found \subseteq Discoverable
      /\ measured \subseteq due
      /\ survey' = [NoSurvey EXCEPT
           !.rows = {p \in due : p \in measured => ~ HoldsAgentData(p)},
           !.press = press,
           !.over = {p \in due : Idle(p) > IdleWindow(p)},
           !.measured = measured,
           !.sibling = SiblingFree(found) /\ (SibBase \in measured => ~ HoldsAgentData(Sib)),
           !.asides = IF Listed = Paths THEN {n \in Names : Exists(Aside(n))} ELSE {}]
      /\ tree' = [pl \in Place |-> Rescanned(pl)]
      /\ bpc' = IF complete THEN "asides" ELSE "done"
      /\ UNCHANGED <<client, bclock, usage, job, pressured, crashed>>
-----------------------------------------------------------------------------
(* apply *)

\* removeAside: a leftover is looked at once and deleted when nothing holds it;
\* nobody can come to it by name.
CheckAside(n, complete) ==
  /\ bpc = "asides" /\ n \in survey.asides
  /\ survey' = [survey EXCEPT !.asides = @ \ {n}]
  /\ IF Unsafe(n) \/ ~ complete \/ Live(Aside(n)) THEN UNCHANGED <<bpc, job>>
     ELSE bpc' = "purge" /\ job' = n
  /\ UNCHANGED <<tree, client, bclock, usage, pressured, crashed>>

PurgeAside(deleted) ==
  /\ bpc = "purge"
  /\ tree' = IF deleted THEN [tree EXCEPT ![Aside(job)] = NoTree] ELSE tree
  /\ bpc' = "asides"
  /\ UNCHANGED <<client, bclock, usage, job, survey, pressured, crashed>>

AsidesDone ==
  /\ bpc = "asides" /\ survey.asides = {}
  /\ bpc' = "rows"
  /\ UNCHANGED <<tree, client, bclock, usage, job, survey, pressured, crashed>>

Without(n) == [survey EXCEPT !.rows = @ \ {n}]

\* The cycle's time is spent: what is left is deferred.
Defer ==
  /\ bpc = "rows" /\ survey.rows # {}
  /\ survey' = [survey EXCEPT !.rows = {}]
  /\ bpc' = "done"
  /\ UNCHANGED <<tree, client, bclock, usage, job, pressured, crashed>>

\* Mutant: a base the measuring budget did not reach is removed unscanned.
LateMeasure_Skipped(p, ok) == TRUE

\* A base not measured by the survey is measured now with its sibling, and its answer
\* binds.  What the survey measured is not looked at again.
LateMeasure(p, ok) == p \in survey.measured \/ (ok /\ ~ HoldsAgentData(p))

\* Below the plugin's stop line only the idle window counts, and the use signals
\* are read again.
TakeRow(p, ok) ==
  LET relieved == survey.press /\ (survey.relieved \/ usage < WideStop)
      limit == WindowOf(p, survey.press /\ ~ relieved)
      keep == \/ relieved /\ p \notin survey.over
              \/ ~ Exists(Base(p)) \/ Idle(p) <= limit
              \/ ~ LateMeasure(p, ok)
  IN  /\ bpc = "rows" /\ p \in survey.rows
      /\ survey' = [(IF keep THEN Without(p) ELSE survey) EXCEPT
                      !.relieved = relieved,
                      !.sibling = @ /\ (p = SibBase /\ ~ keep =>
                                          p \in survey.measured \/ ~ HoldsAgentData(Sib))]
      /\ bpc' = (IF keep THEN "rows" ELSE "check") /\ job' = (IF keep THEN job ELSE p)
      /\ UNCHANGED <<tree, client, bclock, usage, pressured, crashed>>

RowsDone ==
  /\ bpc = "rows" /\ survey.rows = {}
  /\ bpc' = "done"
  /\ UNCHANGED <<tree, client, bclock, usage, job, survey, pressured, crashed>>

\* The pass ends with the pressure of the device as it is now.
Finish ==
  /\ bpc = "done"
  /\ bpc' = "idle" /\ job' = Sib /\ survey' = NoSurvey /\ pressured' = PressureState
  /\ UNCHANGED <<tree, client, bclock, usage, crashed>>
-----------------------------------------------------------------------------
(* removeTree, for a base or its sibling. *)

Kept == IF job \in Paths THEN Without(job) ELSE [survey EXCEPT !.sibling = FALSE]
NextRow == bpc' = "rows" /\ survey' = Kept

Check(complete) ==
  /\ bpc = "check"
  /\ IF complete /\ Exists(Base(job)) /\ ~ Unsafe(job) /\ ~ Live(Base(job))
     THEN bpc' = (IF job \in Paths THEN "lock" ELSE "rename") /\ UNCHANGED survey
     ELSE NextRow
  /\ UNCHANGED <<tree, client, bclock, usage, job, pressured, crashed>>

\* bbTakeLock does not block.  A base without a lock file is removed without a lock.
TakeLock ==
  /\ bpc = "lock"
  /\ IF tree[Base(job)].lock \in {Free, NoFile}
     THEN /\ tree' = [tree EXCEPT ![Base(job)].lock = IF @ = Free THEN Reaper ELSE @]
          /\ bpc' = "rename" /\ UNCHANGED survey
     ELSE NextRow /\ UNCHANGED tree
  /\ UNCHANGED <<client, bclock, usage, job, pressured, crashed>>

ReleasedNow(t) == [t EXCEPT !.lock = IF t.lock = Reaper THEN Free ELSE t.lock]

\* Mutant: the aside is deleted without a second look.
RenameAside_Blind ==
  /\ bpc = "rename"
  /\ tree' = [tree EXCEPT ![Aside(job)] = tree[Base(job)], ![Base(job)] = NoTree]
  /\ bpc' = "delete"
  /\ UNCHANGED <<client, bclock, usage, job, survey, pressured, crashed>>

RenameAside ==
  /\ bpc = "rename"
  /\ IF Exists(Aside(job))
     THEN tree' = [tree EXCEPT ![Base(job)] = ReleasedNow(tree[Base(job)])] /\ NextRow
     ELSE /\ tree' = [tree EXCEPT ![Aside(job)] = tree[Base(job)], ![Base(job)] = NoTree]
          /\ bpc' = "late" /\ UNCHANGED survey
  /\ UNCHANGED <<client, bclock, usage, job, pressured, crashed>>

\* clear: the inventory is complete, and the lock that is held shows no other holder
\* and no unknown state.
LateLook(clear) ==
  /\ bpc = "late"
  /\ bpc' = IF clear /\ ~ HoldsFiles(Aside(job)) THEN "delete" ELSE "undo"
  /\ UNCHANGED <<tree, client, bclock, usage, job, survey, pressured, crashed>>

\* Mutant: the lock is released before the base is back.
RenameBack_LockFirst ==
  /\ bpc = "undo"
  /\ IF tree[Aside(job)].lock = Reaper
     THEN tree' = [tree EXCEPT ![Aside(job)] = ReleasedNow(tree[Aside(job)])] /\ UNCHANGED <<bpc, survey>>
     ELSE /\ tree' = IF Exists(Base(job)) THEN tree
                     ELSE [tree EXCEPT ![Base(job)] = tree[Aside(job)], ![Aside(job)] = NoTree]
          /\ NextRow
  /\ UNCHANGED <<client, bclock, usage, job, pressured, crashed>>

\* The base goes back, unless a client has made another one there; then it stays
\* aside.  The lock is released last.
RenameBack ==
  /\ bpc = "undo"
  /\ tree' = IF Exists(Base(job)) THEN [tree EXCEPT ![Aside(job)] = ReleasedNow(tree[Aside(job)])]
             ELSE [tree EXCEPT ![Base(job)] = ReleasedNow(tree[Aside(job)]), ![Aside(job)] = NoTree]
  /\ NextRow
  /\ UNCHANGED <<client, bclock, usage, job, pressured, crashed>>

\* A deletion that fails leaves the aside.  The sibling goes after its base.
DeleteAside(deleted) ==
  /\ bpc = "delete"
  /\ tree' = [tree EXCEPT ![Aside(job)] = IF deleted THEN NoTree ELSE ReleasedNow(tree[Aside(job)])]
  /\ usage' = IF deleted /\ usage > 0 THEN usage - 1 ELSE usage
  /\ IF deleted /\ job = SibBase /\ survey.sibling
     THEN bpc' = "check" /\ job' = Sib /\ survey' = Without(job)
     ELSE NextRow /\ UNCHANGED job
  /\ UNCHANGED <<client, bclock, pressured, crashed>>

\* The daemon stops: its locks and what it had in memory are gone.
Crash ==
  /\ bpc # "idle"
  /\ tree' = [pl \in Place |-> ReleasedNow(tree[pl])]
  /\ bpc' = "idle" /\ job' = Sib /\ survey' = NoSurvey /\ pressured' = FALSE
  /\ crashed' = (crashed \/ bpc \in {"late", "undo", "delete"})
  /\ UNCHANGED <<client, bclock, usage>>
-----------------------------------------------------------------------------
(* Agent sessions (external). *)

\* The scan that decides about n is over: the survey's, or the one of the row at hand.
Scanned(n) ==
  LET base == IF n = Sib THEN SibBase ELSE n
  IN  \/ base \in survey.measured
      \/ job \in {n, base} /\ bpc \in {"check", "lock", "rename", "late", "undo", "delete"}

\* A session makes its directory: by name in a tree at its path, and in one that was
\* moved aside when something still has it open.
AgentWrites(pl) ==
  /\ pl[1] \in AgentPaths /\ Exists(pl) /\ tree[pl].agent = "none"
  /\ pl[2] = "base" \/ HoldsFiles(pl)
  /\ tree' = [tree EXCEPT ![pl].agent = IF pl[2] = "aside" \/ Scanned(pl[1]) THEN "unseen" ELSE "seen"]
  /\ UNCHANGED <<client, bclock, usage, bpc, job, survey, pressured, crashed>>

BBNext ==
  \/ \E c \in Clients, p \in Paths : ClientOpens(c, p)
  \/ \E c \in Clients, pl \in Place : ClientLocks(c, pl) \/ ClientUnlocks(c, pl)
  \/ \E c \in Clients : ClientExits(c)
  \/ BaseTick
  \/ OthersWrite
  \/ \E found, measured \in SUBSET Paths, complete \in BOOLEAN : Survey(found, measured, complete)
  \/ \E n \in Names, complete \in BOOLEAN : CheckAside(n, complete)
  \/ \E deleted \in BOOLEAN : PurgeAside(deleted) \/ DeleteAside(deleted)
  \/ AsidesDone
  \/ Defer
  \/ \E p \in Paths, ok \in BOOLEAN : TakeRow(p, ok)
  \/ RowsDone
  \/ Finish
  \/ \E pl \in Place : AgentWrites(pl)
  \/ \E complete \in BOOLEAN : Check(complete)
  \/ \E clear \in BOOLEAN : LateLook(clear)
  \/ TakeLock
  \/ RenameAside
  \/ RenameBack
  \/ Crash

BBSpec == BBInit /\ [][BBNext]_bbVars
-----------------------------------------------------------------------------
(* Properties. *)

\* A tree is deleted: it is neither where it was nor back at its path.
Deleted(n) ==
  /\ Exists(Aside(n)) /\ tree'[Aside(n)] = NoTree
  /\ \/ Exists(Base(n))
     \/ tree'[Base(n)] = NoTree

\* "A live server, a process that ... holds anything under it, or a held lock
\* always keeps it" (bazel_bases.go): whatever clients do between the checks and
\* whenever the daemon stopped before, no tree is deleted while a client has a
\* file open in it or holds its lock.
NothingDeletedInUse ==
  [][\A n \in Names : Deleted(n) => ~ Live(Aside(n))]_bbVars

\* A base that held an agent-session directory when it was last scanned outlives every
\* pass (bbMeasureTree, TIN-5268), also one whose measuring budget ends before the base,
\* one that takes its rows long after the survey, and one after a crash.  A directory made
\* after the scan goes with its base, and one in a leftover aside with the aside: nothing
\* looks for them before the rename and the deletion (lines 1157 and 1296), although
\* "agent-session data is never deleted" (agentsession.go:5).
AgentDataKept == [][\A n \in Names : Deleted(n) => tree[Aside(n)].agent # "seen"]_bbVars

\* "While the reaper holds it a starting Bazel client waits ... instead of finding its
\* base gone" (bbTakeLock): a client never runs in a base that was moved away from its
\* path, where the next command would not find its lock, but when the daemon stopped
\* halfway, or another client made a new base at the path in the meantime.  A base
\* without a lock file is moved unlocked (line 1256), and a client that has just started
\* in it runs aside until the second look puts it back.
RunsInPlace ==
  \A p \in Paths : tree[Aside(p)].lock \in Clients =>
    \/ Exists(Base(p)) \/ crashed
    \/ p \in NoLockFile /\ p = job /\ bpc \in {"late", "undo"}
=============================================================================
