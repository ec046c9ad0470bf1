----------------------------- MODULE MCRetention -----------------------------
(* Retention for TLC: two temp roots and a Cargo target under a third.       *)
EXTENDS Retention, TLC

TreeRoots == "a1" :> "/a" @@ "a2" :> "/a" @@ "b1" :> "/b" @@ "c1" :> "/c"
==============================================================================
