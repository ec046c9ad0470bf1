----------------------------- MODULE MCNixRoots -----------------------------
(* NixRoots for TLC.                                                        *)
EXTENDS NixRoots, TLC

LinkThresholds == [l \in Links |-> IF l \in TempLinks THEN 1 ELSE 2]
=============================================================================
