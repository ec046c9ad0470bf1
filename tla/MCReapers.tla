------------------------------ MODULE MCReapers ------------------------------
(***************************************************************************)
(* The Bazel machines, the hook pins and the Nix roots for TLC.  They      *)
(* share no variable: a behaviour of the run is one of one of them, while  *)
(* the others stay in one initial state.                                   *)
(***************************************************************************)
EXTENDS MCBazel, NixHookPins, MCNixRoots

VARIABLE reaper

reapersVars == <<bazelVars, vars, gvars, reaper>>

ReapersInit ==
  /\ reaper \in {"bazel", "hooks", "roots"}
  /\ BazelInit /\ (reaper = "bazel" \/ (machine = "bases" /\ usage = RootStop))
  /\ Init /\ (reaper = "hooks" \/ conf = {})
  /\ GInit

ReapersNext ==
  \/ reaper = "bazel" /\ BazelNext /\ UNCHANGED <<vars, gvars, reaper>>
  \/ reaper = "hooks" /\ Next /\ UNCHANGED <<bazelVars, gvars, reaper>>
  \/ reaper = "roots" /\ GNext /\ UNCHANGED <<bazelVars, vars, reaper>>

ReapersSpec == ReapersInit /\ [][ReapersNext]_reapersVars
=============================================================================
