--------------------------- MODULE MCMountLevels --------------------------
(***************************************************************************)
(* Small instances of MountLevels: the default thresholds.                 *)
(***************************************************************************)
EXTENDS MountLevels

Defaults == [warning |-> 75, moderate |-> 85, aggressive |-> 90, critical |-> 95]
NoInodeSteps == [warning |-> 0, moderate |-> 0, aggressive |-> 0, critical |-> 0]
=============================================================================
