---------------------------- MODULE ProfilePrune ----------------------------
(***************************************************************************)
(* The root job profile-prune (rootjobs/profile_prune.go) on the Home      *)
(* Manager profile of one user, against activations that the user starts   *)
(* and leaves unfinished at any moment: an activation sets the profile     *)
(* first and the root current-home later.                                  *)
(***************************************************************************)
EXTENDS Naturals, FiniteSets

CONSTANTS MaxGeneration, \* the bound of the model on generations
          Homes          \* store paths a generation may have

ASSUME PruneAssumption == MaxGeneration \in Nat \ {0}

VARIABLES generations, \* those that exist
          homeOf,      \* [generation -> store path]
          selected,    \* the generation the profile selects
          currentHome, \* the path the root current-home selects
          prune        \* [at, keep, before, good]

pvars == <<generations, homeOf, selected, currentHome, prune>>

Numbers == 1..MaxGeneration
Pruneless == [at |-> "idle", keep |-> 0, before |-> "none", good |-> FALSE]

PInit ==
  /\ generations = {1}
  /\ \E h \in Homes : homeOf = [n \in Numbers |-> h] /\ currentHome = h
  /\ selected = 1
  /\ prune = Pruneless
-----------------------------------------------------------------------------
\* homeManagerRootsAgree
RootsAgree == homeOf[selected] = currentHome

\* A step of the job that fails ends it with an error.
Continue(holds, at) == prune' = IF holds THEN [prune EXCEPT !.at = at] ELSE Pruneless

BeginPrune ==
  /\ prune.at = "idle"
  /\ RootsAgree
  /\ \E keep \in 0..1 : prune' = [Pruneless EXCEPT !.at = "before", !.keep = keep]
  /\ UNCHANGED <<generations, homeOf, selected, currentHome>>

\* generationTarget; --report-only ends here.
TargetBefore ==
  /\ prune.at = "before"
  /\ prune' \in {Pruneless, [prune EXCEPT !.at = "delete", !.before = homeOf[selected]]}
  /\ UNCHANGED <<generations, homeOf, selected, currentHome>>

\* nix-env --delete-generations: "old" keeps the selected one, "+2" the one
\* before it as well, and those that are newer.
Pruned(keep) ==
  {g \in generations :
     IF keep = 0 THEN g = selected
     ELSE Cardinality({o \in generations : g < o /\ o <= selected}) <= 1}

DeleteGenerations ==
  /\ prune.at = "delete"
  /\ \/ generations' = Pruned(prune.keep) /\ Continue(TRUE, "after")
     \/ Continue(FALSE, "idle") /\ UNCHANGED generations
  /\ UNCHANGED <<homeOf, selected, currentHome>>

TargetAfter ==
  /\ prune.at = "after"
  /\ Continue(homeOf[selected] = prune.before, "agree")
  /\ UNCHANGED <<generations, homeOf, selected, currentHome>>

\* Mutant: the roots are not compared again.
AgreeAgain_Skipped ==
  /\ prune.at = "agree"
  /\ prune' = [Pruneless EXCEPT !.good = TRUE]
  /\ UNCHANGED <<generations, homeOf, selected, currentHome>>

AgreeAgain ==
  /\ prune.at = "agree"
  /\ prune' = [Pruneless EXCEPT !.good = RootsAgree]
  /\ UNCHANGED <<generations, homeOf, selected, currentHome>>

\* An activation, or a rollback, sets the profile ...
Activate(h) ==
  /\ homeOf[selected] # h
  /\ \E next \in Numbers :
       /\ next - 1 \in generations /\ \A g \in generations : g < next
       /\ generations' = generations \cup {next}
       /\ homeOf' = [homeOf EXCEPT ![next] = h]
       /\ selected' = next
  /\ UNCHANGED <<currentHome, prune>>

RollBack(g) ==
  /\ g \in generations \ {selected}
  /\ selected' = g
  /\ UNCHANGED <<generations, homeOf, currentHome, prune>>

\* ... and current-home after it.
FinishActivation ==
  /\ currentHome' = homeOf[selected]
  /\ UNCHANGED <<generations, homeOf, selected, prune>>

PNext ==
  \/ BeginPrune \/ TargetBefore \/ DeleteGenerations \/ TargetAfter \/ AgreeAgain
  \/ \E h \in Homes : Activate(h)
  \/ \E g \in generations : RollBack(g)
  \/ FinishActivation

PSpec == PInit /\ [][PNext]_pvars
-----------------------------------------------------------------------------
\* "An unfinished activation" (ProfilePrune): a run that ends well leaves a
\* generation for what current-home selects, whatever the user activated or
\* rolled back between its steps; one that deleted it says so.
HomeHeld ==
  [][prune'.good /\ ~ prune.good => currentHome \in {homeOf[g] : g \in generations}]_pvars
=============================================================================
