------------------------------ MODULE Retention ------------------------------
(***************************************************************************)
(* The age retention of plugins/retention.go.  A pass takes one inventory  *)
(* of the processes, decides on every tree, and then goes through the      *)
(* trees it decided to delete: it takes the inventory again when the last  *)
(* one is too old, decides again, and removes the tree.  Between any two   *)
(* steps processes come, write, go and replace a tree by another.          *)
(*                                                                         *)
(* Ages stand for times: the age of a tree is the time since anything in   *)
(* it changed, counted up to MaxAge, where the rule stops telling apart.   *)
(***************************************************************************)
EXTENDS Naturals, FiniteSets

CONSTANTS RTrees,          \* top-level temp directories and Cargo target directories
          RRootOf,         \* the configured root each one lies under
          CargoTargets,    \* the trees the cargo_targets rule owns, tmp_agents the others
          DeleteRules,     \* rules whose delete flag is set: "tmp_agents", "cargo_targets"
          RMaxAge,         \* max_age of both rules, in ticks
          RInterval,       \* retention.interval, in ticks
          InventoryMaxAge, \* retentionActivityMaxAge, in ticks
          MaxDirs          \* max_dirs_per_cycle

ASSUME RetentionAssumption ==
  /\ CargoTargets \subseteq RTrees
  /\ RMaxAge \in Nat /\ RInterval \in Nat /\ InventoryMaxAge \in Nat

VARIABLES rtree,      \* the trees: [here, age, use, custody]
          rpass,      \* the pass: [phase, todo, chosen, same, at]
          inventory,  \* the inventory in hand: [age, within, blocked]
          sinceRun,   \* time since lastRun, up to RInterval
          steady,     \* trees in use without a break since the inventory in hand
          late        \* the tree at hand changed since its recheck

rvars == <<rtree, rpass, inventory, sinceRun, steady, late>>

\* A process holds a file in the tree, or only names it on its command line.
RUse == {"none", "held", "named"}

\* What a walk of the tree may meet: something that keeps it (another owner or
\* mount, a repository, agent data, a protected path, too many entries), or no
\* more than test repositories without a remote under a fixture parent.
Claim == {"none", "fixture", "kept"}

RTree == [here : BOOLEAN, age : 0..RMaxAge, use : RUse, custody : Claim]

RuleOf(t) == IF t \in CargoTargets THEN "cargo_targets" ELSE "tmp_agents"

NoInventory == [age |-> 0, within |-> {}, blocked |-> {}]

RQuiet == [phase |-> "idle", todo |-> {}, chosen |-> {}, same |-> {}, at |-> "none"]

RInit ==
  /\ rtree = [t \in RTrees |-> [here |-> TRUE, age |-> RMaxAge, use |-> "none", custody |-> "none"]]
  /\ rpass = RQuiet
  /\ inventory = NoInventory
  /\ sinceRun = RInterval
  /\ steady = {}
  /\ late = FALSE
-----------------------------------------------------------------------------
(* The inventory: open files, directories, mappings and temp variables are *)
(* kept only for paths under the roots asked for, command lines always.    *)
(* A running cargo or rustc blocks every Cargo target, and a process that  *)
(* cannot be inspected blocks every tree.                                  *)

Roots == {RRootOf[t] : t \in RTrees}

RInUse(t) == rtree[t].here /\ rtree[t].use # "none"

TreesReferenced(roots) == {t \in RTrees : RInUse(t) /\ (rtree[t].use = "held" => RRootOf[t] \in roots)}

Scan(roots) ==
  \E more \in {{}, CargoTargets, RTrees} :
    inventory' = [age |-> 0, within |-> roots, blocked |-> TreesReferenced(roots) \cup more]

\* Fixture repositories go with a temp tree only.
Custody(t) == rtree[t].custody = "kept" \/ (rtree[t].custody = "fixture" /\ t \in CargoTargets)

\* The tree may go: no custody, nothing changed within max_age, and nothing
\* in the inventory against it.
Stale(t) ==
  /\ ~ Custody(t)
  /\ rtree[t].age = RMaxAge
  /\ t \notin inventory.blocked

\* evaluateTmpAgents: the oldest of a root, no more than MaxDirs of them.
OldestOf(root, picked) ==
  LET all == {t \in RTrees : rtree[t].here /\ RRootOf[t] = root /\ t \notin CargoTargets}
      got == all \cap picked
  IN  /\ Cardinality(got) = IF MaxDirs > 0 /\ Cardinality(all) > MaxDirs THEN MaxDirs ELSE Cardinality(all)
      /\ \A t \in got, u \in all \ got : rtree[t].age >= rtree[u].age

\* evaluateCargoTargets: all that findCargoTargetDirs meets.
EveryCargoTarget(picked) == {t \in CargoTargets : rtree[t].here} \subseteq picked

\* A pass is due: list the trees of each root and scan.
RStart ==
  /\ rpass.phase = "idle"
  /\ sinceRun = RInterval
  /\ sinceRun' = 0
  /\ \E picked \in SUBSET {t \in RTrees : rtree[t].here} :
       /\ \A root \in Roots : OldestOf(root, picked)
       /\ EveryCargoTarget(picked)
       /\ rpass' = [phase |-> "evaluate", todo |-> picked, chosen |-> {},
                    same |-> picked, at |-> "none"]
  /\ Scan(Roots)
  /\ UNCHANGED <<rtree, steady, late>>

\* decide on one tree; a rule without its delete flag only reports.
Evaluate(t) ==
  /\ rpass.phase = "evaluate"
  /\ t \in rpass.todo
  /\ rpass' = [rpass EXCEPT !.todo = @ \ {t},
                 !.chosen = IF rtree[t].here /\ Stale(t) /\ RuleOf(t) \in DeleteRules THEN @ \cup {t} ELSE @]
  /\ UNCHANGED <<rtree, inventory, sinceRun, steady, late>>

EvaluateDone ==
  /\ rpass.phase = "evaluate"
  /\ rpass.todo = {}
  /\ rpass' = [rpass EXCEPT !.phase = "apply"]
  /\ inventory' = NoInventory
  /\ UNCHANGED <<rtree, sinceRun, steady, late>>

\* The next tree to delete: look at the processes again, unless the last
\* look is recent enough, whatever root it was made for.
TakeTree(t) ==
  /\ rpass.phase = "apply"
  /\ t \in rpass.chosen
  /\ rpass' = [rpass EXCEPT !.phase = "recheck", !.at = t, !.chosen = @ \ {t}]
  /\ IF inventory.within = {} \/ inventory.age > InventoryMaxAge
     THEN Scan({RRootOf[t]}) /\ steady' = {u \in RTrees : RInUse(u)}
     ELSE UNCHANGED <<inventory, steady>>
  /\ UNCHANGED <<rtree, sinceRun, late>>

\* The loop goes on to the next tree.
NextTree == [rpass EXCEPT !.phase = "apply", !.at = "none"]

\* Mutant: the age measured for the plan is used again at removal.
Recheck_PlanAge ==
  /\ rpass.phase = "recheck"
  /\ rpass' = IF rtree[rpass.at].here /\ rpass.at \notin inventory.blocked
              THEN [rpass EXCEPT !.phase = "remove"] ELSE NextTree
  /\ UNCHANGED <<rtree, inventory, sinceRun, steady, late>>

\* recheck: the same tree, and every rule again.
Recheck ==
  /\ rpass.phase = "recheck"
  /\ rpass' = IF rtree[rpass.at].here /\ rpass.at \in rpass.same /\ Stale(rpass.at)
              THEN [rpass EXCEPT !.phase = "remove"] ELSE NextTree
  /\ UNCHANGED <<rtree, inventory, sinceRun, steady, late>>

\* The tree is gone, or what could not be removed stays behind.
RemoveTree ==
  /\ rpass.phase = "remove"
  /\ rpass' = NextTree
  /\ late' = FALSE
  /\ \/ rtree' = [rtree EXCEPT ![rpass.at] = [here |-> FALSE, age |-> 0, use |-> "none", custody |-> "none"]]
     \/ UNCHANGED rtree
  /\ UNCHANGED <<inventory, sinceRun, steady>>

\* The list is done, or the pass is cancelled at its deadline.
RDone ==
  /\ rpass.phase \in {"evaluate", "apply"}
  /\ rpass' = RQuiet
  /\ inventory' = NoInventory
  /\ steady' = {}
  /\ UNCHANGED <<rtree, sinceRun, late>>
-----------------------------------------------------------------------------
(* The other processes of the host.                                        *)

Enter(t) ==
  /\ rtree[t].here /\ rtree[t].use = "none"
  /\ \E u \in RUse \ {"none"} : rtree' = [rtree EXCEPT ![t].use = u]
  /\ UNCHANGED <<rpass, inventory, sinceRun, steady, late>>

Leave(t) ==
  /\ rtree[t].use # "none"
  /\ rtree' = [rtree EXCEPT ![t].use = "none"]
  /\ steady' = steady \ {t}
  /\ UNCHANGED <<rpass, inventory, sinceRun, late>>

\* A file changes; the tree may come under custody (a repository, agent data).
Touch(t) ==
  /\ rtree[t].here
  /\ \E c \in {rtree[t].custody, "fixture", "kept"} : rtree' = [rtree EXCEPT ![t].age = 0, ![t].custody = c]
  /\ late' = (late \/ (rpass.phase = "remove" /\ rpass.at = t))
  /\ UNCHANGED <<rpass, inventory, sinceRun, steady>>

\* Another tree takes the place of this one, of one that is gone too; the
\* move or the creation is a change of it.
Replace(t) ==
  /\ rtree[t].use = "none"
  /\ rtree' = [rtree EXCEPT ![t] = [here |-> TRUE, age |-> 0, use |-> "none", custody |-> "none"]]
  /\ rpass' = [rpass EXCEPT !.same = @ \ {t}]
  /\ late' = (late \/ (rpass.phase = "remove" /\ rpass.at = t))
  /\ UNCHANGED <<inventory, sinceRun, steady>>

RTick ==
  LET older(age, cap) == IF age < cap THEN age + 1 ELSE age
  IN  /\ rtree' = [t \in RTrees |-> [rtree[t] EXCEPT !.age = IF rtree[t].here THEN older(@, RMaxAge) ELSE 0]]
      /\ inventory' = [inventory EXCEPT !.age = IF inventory.within = {} THEN 0 ELSE older(@, InventoryMaxAge + 1)]
      /\ sinceRun' = older(sinceRun, RInterval)
      /\ UNCHANGED <<rpass, steady, late>>

RNext ==
  \/ RStart \/ EvaluateDone \/ Recheck \/ RemoveTree \/ RDone
  \/ \E t \in RTrees : Evaluate(t) \/ TakeTree(t) \/ Enter(t) \/ Leave(t) \/ Touch(t) \/ Replace(t)
  \/ RTick

RSpec == RInit /\ [][RNext]_rvars
-----------------------------------------------------------------------------
RTypeOK ==
  /\ rtree \in [RTrees -> RTree]
  /\ rpass \in [phase : {"idle", "evaluate", "apply", "recheck", "remove"},
                todo : SUBSET RTrees, chosen : SUBSET RTrees, same : SUBSET RTrees,
                at : RTrees \cup {"none"}]
  /\ inventory \in [age : 0..(InventoryMaxAge + 1), within : SUBSET Roots, blocked : SUBSET RTrees]
  /\ sinceRun \in 0..RInterval
  /\ steady \subseteq RTrees /\ late \in BOOLEAN

RGone(t) == rtree[t].here /\ ~ rtree'[t].here

\* RemoveTree takes only trees nothing changed in for max_age and without a
\* claim of custody: a change younger than that came after the tree had been
\* walked again at its removal, however long the plan was old by then.
StaleWhenRemoved ==
  [][\A t \in RTrees : RGone(t) => late \/ (rtree[t].age = RMaxAge /\ ~ Custody(t))]_rvars

\* A tree that a process uses without a break since the processes were looked
\* at is not removed, when the look covered its root or the process names the
\* tree on its command line.
SeenUseKept ==
  [][\A t \in RTrees :
       RGone(t) /\ t \in steady => rtree[t].use = "held" /\ RRootOf[t] \notin inventory.within]_rvars

\* What the rechecks of retention.go promise about a tree that goes.
RetentionSafe == StaleWhenRemoved /\ SeenUseKept

\* "Every check runs again immediately before removal" (retention.go): no tree
\* is removed that is in use since before the look at the processes, whichever
\* root it lies under.  TakeTree looks at one root and keeps the result for
\* trees of the others.
RecheckSeesUse == [][\A t \in RTrees : RGone(t) => t \notin steady]_rvars
=============================================================================
