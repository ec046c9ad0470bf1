------------------------------ MODULE MCBazel ------------------------------
(***************************************************************************)
(* The Bazel machines for TLC.  The reaper's pass, its walk schedule and   *)
(* the older plugin's pass share no variable (BazelPlan hands its bases    *)
(* over by an option), so a behaviour of the run is one of one of them:    *)
(* interleaving them would only multiply states.  The reaper's pass meets  *)
(* several clients in one half of its behaviours, where nobody else fills  *)
(* the disk and no session writes (so that what was measured when makes no *)
(* difference), and in the other sessions, writers and a client at a time  *)
(* in the bases of the sessions.                                           *)
(***************************************************************************)
EXTENDS BazelBases, BazelWalks, BazelPlan, TLC

VARIABLE machine

bazelVars == <<bbVars, walkVars, planVars, machine>>

ClientSymmetry == Permutations(Clients)

NoKinds == [p \in Paths |-> 0]
LongerB2 == [p \in Paths |-> IF p = "b2" THEN 2 ELSE 0]

AllOn == [stopIdle |-> TRUE, orphans |-> TRUE, deleteActive |-> FALSE, owned |-> FALSE,
          ageDelete |-> TRUE]
SomeOptions == {AllOn, [AllOn EXCEPT !.deleteActive = TRUE, !.owned = TRUE]}

\* A machine that does not run stands in one of its initial states.
BazelInit ==
  /\ machine \in {"bases", "sessions", "walks", "plan"}
  /\ BBInit /\ (machine = "bases" \/ usage = (IF machine = "sessions" THEN RootStart ELSE RootStop))
  /\ WalksInit /\ (machine = "walks" \/ (mode = "report" /\ \A d \in Devs : load[d] = "low"))
  /\ level \in (IF machine = "plan" THEN Levels ELSE {1})
  /\ opts \in (IF machine = "plan" THEN OptionSets ELSE {AllOn})
  /\ over \in (IF machine = "plan" /\ level # 1 /\ opts = AllOn THEN BOOLEAN ELSE {TRUE})
  /\ PlanInit /\ (\A b \in ProtectedBases : machine = "plan" =>
        ws[b] = "gone" /\ age[b] # OrphanAge /\ proc[b] \in {"none", "client"} /\ b \notin fresh)
  /\ machine = "plan" \/ \A b \in Bases : age[b] = Young /\ proc[b] = "none" /\ ws[b] = "here" /\ fresh = {}

ClientsOnly ==
  /\ \A pl \in Place : tree'[pl].agent = "none"
  /\ usage' <= usage /\ survey'.rows \subseteq survey'.measured

OneClient ==
  /\ Cardinality({c \in Clients : client'[c] # "off"}) <= 1
  /\ \A p \in Paths \ AgentPaths : tree'[Base(p)].fds = {}

\* A protected base has one kind of workspace and of client: it is refused before either counts.
ProtectedPlain == \A b \in ProtectedBases : ws'[b] = "gone" /\ proc'[b] # "quiet"

BazelNext ==
  \/ /\ machine \in {"bases", "sessions"} /\ BBNext
     /\ IF machine = "bases" THEN ClientsOnly ELSE OneClient
     /\ UNCHANGED <<walkVars, planVars, machine>>
  \/ machine = "walks" /\ WalksNext /\ UNCHANGED <<bbVars, planVars, machine>>
  \/ machine = "plan" /\ PlanNext /\ ProtectedPlain /\ UNCHANGED <<bbVars, walkVars, machine>>

BazelSpec == BazelInit /\ [][BazelNext]_bazelVars
=============================================================================
