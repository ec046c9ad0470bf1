------------------------------ MODULE MCParts ------------------------------
(***************************************************************************)
(* The state file, the mount ladders and the Nix collector's cadence for   *)
(* TLC.  They share no variable: a behaviour of the run is one of one of   *)
(* them, while the others stay in one initial state.                       *)
(***************************************************************************)
EXTENDS StateFile, MCMountLevels, MCNixGC

VARIABLE part

partsVars == <<fileVars, levelVars, nixVars, part>>

PartsInit ==
  /\ part \in {"file", "levels", "nix"}
  /\ FileInit /\ LevelsInit /\ NixInit
  /\ part # "file" => tmp = CHOOSE t \in Temps : TRUE
  /\ part # "nix" => cfg = Bounded

File_(A) == part = "file" /\ A /\ UNCHANGED <<levelVars, nixVars, part>>
Nix_(A) == part = "nix" /\ A /\ UNCHANGED <<fileVars, levelVars, part>>

PartsNext ==
  \/ File_(FileNext)
  \/ part = "levels" /\ LevelsNext /\ UNCHANGED <<fileVars, nixVars, part>>
  \/ Nix_(NixNext)

\* The fairness of each part's own specification, when it is the one that runs.
PartsSpec ==
  /\ PartsInit /\ [][PartsNext]_partsVars
  /\ WF_partsVars(File_(Step))
  /\ WF_partsVars(Nix_(PassStep)) /\ WF_partsVars(Nix_(Elapse))
=============================================================================
