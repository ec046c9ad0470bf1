-------------------------------- MODULE MCWalks --------------------------------
(* DevWalks for TLC: roots of different sizes. *)
EXTENDS DevWalks, TLC

ThreeSizes == <<3, 1, 2>>
=============================================================================
