---------------------------- MODULE BazelPlan ----------------------------
(***************************************************************************)
(* The bazel plugin: plan and apply of plugins/bazel.go, with the age rule *)
(* of bazel_disk_cache_age.go.                                             *)
(*                                                                         *)
(* A pass inspects the processes, classifies every candidate and then      *)
(* works through the targets, minutes after they were classified: clients  *)
(* start and end, servers exit and removed worktrees come back meanwhile.  *)
(* An orphaned base and an expired cache entry are looked at again when    *)
(* their turn comes, and a base whose idle server was stopped before it    *)
(* goes; the other targets go by the plan.  A look and the removal after   *)
(* it are two steps.  Thresholds are days and a pass is short: ages are    *)
(* classes that only a use changes.  Targets go largest first; their order *)
(* plays no part here and any is allowed.                                  *)
(***************************************************************************)
EXTENDS Integers, FiniteSets

CONSTANTS
  Bases,          \* output bases
  Partial,        \* those with an execroot only
  Pidless,        \* those in which no server/server.pid can be read
  Caches,         \* cache tiers and server logs
  Logs,           \* the server logs among them
  Entries,        \* entries of a disk cache
  ProtectedBases, \* reachable from protect_workspaces
  DeniedItems,    \* in, or around, the agent-session deny set
  KeepRecent,     \* keep_recent_output_bases
  Levels,         \* warning, moderate, aggressive, critical: 1 to 4
  OptionSets      \* the configurations

VARIABLES
  level, opts,    \* the pass's level and the plugin's options
  left,           \* candidates and entries that exist
  age,            \* age class of each: OrphanAge passes orphan_stale_after, StaleAge stale_after
  proc,           \* what uses each base: a client whose command line names it or not, an idle server
  fresh,          \* bases whose lock file is younger than 15 minutes
  ws,             \* the workspace each base's DO_NOT_BUILD_HERE names
  over,           \* the footprint exceeds max_total_gb
  at,             \* where the pass is
  target,         \* the plan
  hand,           \* the target or entry whose turn it is
  look,           \* whether the plan's ps worked, and whether it marked the disk cache
  since           \* what was used, or had its worktree back, since it was last looked at

planVars == <<level, opts, left, age, proc, fresh, ws, over, at, target, hand, look, since>>

Items == Bases \cup Caches
Young == 0
OrphanAge == 1
StaleAge == 2
Ages == Young .. StaleAge
Clienting == {"client", "quiet"}
Use == {"none", "server"} \cup Clienting
Workspace == {"here", "gone", "offline", "unmarked"}
Options == [stopIdle: BOOLEAN, orphans: BOOLEAN, deleteActive: BOOLEAN, owned: BOOLEAN,
            ageDelete: BOOLEAN]

ASSUME PlanAssumption ==
  /\ Bases \cap Caches = {} /\ Items \cap Entries = {} /\ Pidless \cup ProtectedBases \subseteq Bases
  /\ "none" \notin Items \cup Entries
  /\ Levels \subseteq 1 .. 4 /\ OptionSets \subseteq Options

NoTarget == [action |-> "none", protected |-> TRUE, active |-> FALSE]
NoPlan == [i \in Items |-> NoTarget]

PlanInit ==
  /\ level \in Levels /\ opts \in OptionSets
  /\ left = Items \cup Entries
  /\ age \in [Items \cup Entries -> Ages] /\ (\A i \in Caches \cup Entries : age[i] = StaleAge)
  /\ proc \in [Bases -> Use] /\ fresh \in SUBSET Bases /\ ws \in [Bases -> Workspace]
  /\ over \in BOOLEAN
  /\ at = "idle" /\ target = NoPlan /\ hand = "none"
  /\ look = [ps |-> FALSE, due |-> FALSE] /\ since = {}
-----------------------------------------------------------------------------
(* The world around the pass. *)

PassRuns == at \notin {"idle", "end"}
planPass == <<level, opts, left, over, at, target, hand, look>>

\* A command runs in the base, and reads the cache entry e and the cache tiers.
ClientRuns(b, u, e) ==
  /\ PassRuns /\ b \in left /\ proc[b] \notin Clienting
  /\ proc' = [proc EXCEPT ![b] = u]
  /\ fresh' = fresh \cup {b}
  /\ age' = [age EXCEPT ![b] = Young, ![e] = Young]
  /\ since' = since \cup {b, e} \cup Caches
  /\ UNCHANGED <<planPass, ws>>

\* It ends and leaves a server; the server exits.
UseEnds(b) ==
  /\ PassRuns /\ proc[b] # "none"
  /\ proc' = [proc EXCEPT ![b] = IF @ = "server" THEN "none" ELSE "server"]
  /\ UNCHANGED <<planPass, age, fresh, ws, since>>

\* A command takes long: its lock file ages while it runs.
LockAges(b) ==
  /\ PassRuns /\ b \in fresh
  /\ fresh' = fresh \ {b}
  /\ UNCHANGED <<planPass, age, proc, ws, since>>

\* A worktree is added again where the removed one was, or its volume mounted.
WorkspaceReturns(b) ==
  /\ PassRuns /\ ws[b] \in {"gone", "offline"}
  /\ ws' = [ws EXCEPT ![b] = "here"]
  /\ since' = since \cup {b}
  /\ UNCHANGED <<planPass, age, proc, fresh>>
-----------------------------------------------------------------------------
(* The plan. *)

\* bazelOutputBaseWorkspaceClaim: no marker says nothing; a workspace that is gone
\* below a mount point, or cannot be probed, is not known to be removed.
WorkspaceClaim(b) ==
  CASE ws[b] = "unmarked" -> "unknown"
    [] ws[b] = "here"     -> "present"
    [] ws[b] = "offline"  -> "unreachable"
    [] ws[b] = "gone"     -> "removed"

\* bazelBusyProcessInfo: of a client whose command line does not name the base, ps
\* shows only the server it talks to.
PsClient(b, ps) == ps /\ proc[b] = "client" /\ b \notin Partial
PsServer(b, ps) == ps /\ proc[b] \in {"server", "quiet"} /\ b \notin Partial
GlobalActive(ps) == ps /\ \E b \in Bases : proc[b] \in Clienting

\* Mutant: only the lock file tells.
LocalActive_Lock(b) == b \in fresh

\* bazelOutputBaseActivity: a live server.pid, or a lock file younger than 15 minutes.
LocalActive(b) == (proc[b] # "none" /\ b \notin Pidless) \/ b \in fresh

\* newestBazelOutputBases, ties in any order.
Newest(keep) ==
  LET present == Bases \cap left
  IN  {s \in SUBSET present :
         /\ Cardinality(s) = IF keep < Cardinality(present) THEN keep ELSE Cardinality(present)
         /\ \A b \in s, c \in present \ s : age[b] <= age[c]}

OrphanEligible(b, active) ==
  /\ opts.orphans /\ WorkspaceClaim(b) = "removed" /\ b \notin ProtectedBases
  /\ level >= 2 /\ age[b] >= OrphanAge
  /\ ~ active \/ opts.deleteActive

\* bazelTargetForCandidate of an output base, in the order of its switch.
BaseTarget(b, ps, recent) ==
  LET active == PsClient(b, ps) \/ PsServer(b, ps) \/ LocalActive(b)
      stoppable == /\ b \notin Partial /\ PsServer(b, ps)
                   /\ opts.stopIdle /\ level >= 3 /\ age[b] = StaleAge
      T(action, protected) == [action |-> action, protected |-> protected, active |-> active]
      guarded == b \in recent \/ (active /\ ~ opts.deleteActive)
  IN  IF b \in ProtectedBases THEN T("keep", TRUE)
      ELSE IF OrphanEligible(b, active) THEN T("orphan", FALSE)
      ELSE IF b \in recent THEN T("keep", TRUE)
      ELSE IF stoppable THEN T("stop", FALSE)
      ELSE IF active /\ ~ opts.deleteActive THEN T("keep", TRUE)
      ELSE IF level = 1 THEN T("review", guarded)
      ELSE IF age[b] # StaleAge THEN T("keep", TRUE)
      ELSE T("delete", guarded)

\* The same for a cache tier, which goes only over budget, and for a server log.
CacheTarget(c, ps) ==
  LET active == GlobalActive(ps)
      T(action, protected) == [action |-> action, protected |-> protected, active |-> active]
      guarded == active /\ ~ opts.deleteActive
  IN  IF guarded THEN T("keep", TRUE)
      ELSE IF level = 1 \/ (c \notin Logs /\ ~ over) THEN T("review", guarded)
      ELSE IF age[c] # StaleAge THEN T("keep", TRUE)
      ELSE T("delete", guarded)

\* bazelHandOffTargets: agent-session data, and the bases bazel_bases owns.
HandOff(i, t) ==
  IF i \in DeniedItems \/ (opts.owned /\ i \in Bases)
  THEN [t EXCEPT !.action = "keep", !.protected = TRUE] ELSE t

\* planBazelDiskCacheAge marks the cache only while the process listing works and no
\* client is visible.
AgeDue(ps) == opts.ageDelete /\ ps /\ ~ GlobalActive(ps) /\ \E e \in Entries : age[e] = StaleAge

\* At warning only the age rule runs.
BuildPlan(ps, recent) ==
  /\ at = "idle" /\ recent \in Newest(KeepRecent)
  /\ target' = [i \in Items |->
                  IF i \notin left THEN NoTarget
                  ELSE HandOff(i, IF i \in Bases THEN BaseTarget(i, ps, recent) ELSE CacheTarget(i, ps))]
  /\ at' = IF level = 1 THEN "age" ELSE "targets"
  /\ look' = [ps |-> ps, due |-> AgeDue(ps)]
  /\ since' = {}
  /\ UNCHANGED <<level, opts, left, age, proc, fresh, ws, over, hand>>
-----------------------------------------------------------------------------
(* applyBazelCleanupTargetsWithConfig *)

\* Mutant: allow_delete_active_output_bases is honoured here too.
ForDeletion_Active(i) ==
  ~ target[i].protected /\ target[i].action \in {"delete", "orphan", "stop"}

\* bazelTargetEligibleForDeletion: an active target never goes, but by "stop".
ForDeletion(i) ==
  /\ ~ target[i].protected
  /\ target[i].active => target[i].action = "stop"
  /\ target[i].action \in {"delete", "orphan", "stop"}
Done(i) == target' = [target EXCEPT ![i] = NoTarget]

world == <<level, opts, age, fresh, ws, over, look>>

\* The claim is read again, and the local activity.
OrphanStill(b) == WorkspaceClaim(b) = "removed" /\ (LocalActive(b) => opts.deleteActive)

\* An orphan's turn begins with a new look; a plain target goes by the plan.
TakeTarget(i) ==
  /\ at = "targets" /\ ForDeletion(i) /\ target[i].action # "stop"
  /\ IF target[i].action = "orphan" /\ ~ OrphanStill(i)
     THEN Done(i) /\ UNCHANGED <<at, hand, since>>
     ELSE /\ at' = "remove" /\ hand' = i
          /\ since' = IF target[i].action = "orphan" THEN since \ {i} ELSE since
          /\ UNCHANGED target
  /\ UNCHANGED <<world, left, proc>>

\* deleteBazelTarget refuses what no longer looks like its type, and may fail.
RemoveTarget(ok) ==
  /\ at = "remove"
  /\ left' = IF ok THEN left \ {hand} ELSE left
  /\ at' = "targets" /\ hand' = "none" /\ Done(hand)
  /\ UNCHANGED <<world, proc, since>>

\* shutdownBazelOutputBase signals whatever server the pid file or ps names now.
StopServer(b, ok) ==
  /\ at = "targets" /\ b \in Bases /\ ForDeletion(b) /\ target[b].action = "stop"
  /\ proc' = IF ok THEN [proc EXCEPT ![b] = "none"] ELSE proc
  /\ IF ok THEN at' = "stopped" /\ hand' = b /\ UNCHANGED target
     ELSE Done(b) /\ UNCHANGED <<at, hand>>
  /\ UNCHANGED <<world, left, since>>

\* bazelOutputBasePostShutdownActivity: a process that still refers to the base,
\* or a listing that fails, keeps it.
PostShutdown(ps) ==
  /\ at = "stopped"
  /\ IF ps /\ proc[hand] = "none"
     THEN at' = "remove" /\ since' = since \ {hand} /\ UNCHANGED <<target, hand>>
     ELSE at' = "targets" /\ hand' = "none" /\ Done(hand) /\ UNCHANGED since
  /\ UNCHANGED <<world, left, proc>>

\* All targets had their turn, or the plugin's context ended.
TargetsDone(ended) ==
  /\ at = "targets" /\ (ended \/ \A i \in Items : ~ ForDeletion(i))
  /\ at' = IF ended THEN "end" ELSE "age"
  /\ UNCHANGED <<world, left, proc, target, hand, since>>

\* applyBazelDiskCacheAge: only what the plan marked, and while no client is visible.
BeginAge(ps) ==
  /\ at = "age"
  /\ at' = IF look.due /\ ps /\ ~ GlobalActive(ps) THEN "entries" ELSE "end"
  /\ UNCHANGED <<world, left, proc, target, hand, since>>

\* Every entry is looked at again just before it goes.
LookAtEntry(e) ==
  /\ at = "entries" /\ e \in Entries \cap left /\ age[e] = StaleAge
  /\ at' = "unlink" /\ hand' = e /\ since' = since \ {e}
  /\ UNCHANGED <<world, left, proc, target>>

RemoveEntry(ok) ==
  /\ at = "unlink"
  /\ left' = IF ok THEN left \ {hand} ELSE left
  /\ at' = "entries" /\ hand' = "none"
  /\ UNCHANGED <<world, proc, target, since>>

EndPass ==
  /\ at = "entries" /\ at' = "end"
  /\ UNCHANGED <<world, left, proc, target, hand, since>>

PlanNext ==
  \/ \E b \in Bases, u \in Clienting, e \in Entries : ClientRuns(b, u, e)
  \/ \E b \in Bases : UseEnds(b) \/ LockAges(b) \/ WorkspaceReturns(b)
  \/ \E ps \in BOOLEAN, recent \in SUBSET Bases : BuildPlan(ps, recent)
  \/ \E i \in Items : TakeTarget(i)
  \/ \E i \in Items, ok \in BOOLEAN : StopServer(i, ok)
  \/ \E ps \in BOOLEAN : PostShutdown(ps) \/ BeginAge(ps)
  \/ \E ok \in BOOLEAN : RemoveTarget(ok) \/ TargetsDone(ok) \/ RemoveEntry(ok)
  \/ \E e \in Entries : LookAtEntry(e)
  \/ EndPass

PlanSpec == PlanInit /\ [][PlanNext]_planVars
-----------------------------------------------------------------------------
(* Properties. *)

\* "Protect active output bases, protected workspace output bases, and newest
\* output bases" (buildCleanupPlan), read off the plan and not off the switch:
\* whatever the level and the options, nothing due for deletion is reachable from
\* a protected workspace, agent-session data or bazel_bases' to remove, nothing goes
\* at warning, and what was in use goes only by having its idle server stopped.
PlanSound ==
  \A i \in Items : (at # "idle" /\ ForDeletion(i)) =>
    /\ i \notin ProtectedBases \cup DeniedItems
    /\ level >= 2 /\ ~ (opts.owned /\ i \in Bases)
    /\ target[i].active => target[i].action = "stop" /\ opts.stopIdle

\* What is in use is kept, but for a use that began after the last look at it, and the
\* looks are: for a plain target the plan alone, for an orphan the one its turn begins
\* with, for a stopped base the one after the shutdown, for a cache entry the one before
\* its unlink ("a restored worktree or a resumed server that appears between planning and
\* deletion survives", docs/bazel-cache-policy.md:131-134, is said of orphans; a plain one
\* goes by a plan that may be minutes old, bazel.go:1088).  Seen
\* without ps, a base in use needs a server.pid that can be read; a cache tier is kept
\* for a client only by a listing that worked.
UsedIsKept ==
  [][\A i \in (left \ left') \ since :
       /\ (i \in Bases \ Pidless /\ proc[i] # "none") =>
            target[i].action = "orphan" /\ opts.deleteActive
       /\ (i \in Bases /\ target[i].action = "orphan") => ws[i] = "gone"
       /\ (i \in Caches /\ look.ps) => \A b \in Bases : proc[b] \notin Clienting
       /\ i \in Entries => age[i] = StaleAge]_planVars
=============================================================================
