------------------------------ MODULE MCArchive ------------------------------
(* ArchiveStaging for TLC: three contents, two of which have one size.       *)
EXTENDS ArchiveStaging, TLC

TwoSizes == 1 :> 1 @@ 2 :> 2 @@ 3 :> 2
=============================================================================
