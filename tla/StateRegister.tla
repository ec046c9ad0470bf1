-------------------------- MODULE StateRegister ---------------------------
(***************************************************************************)
(* What the state file promises to the cleanup cycle: a register that is   *)
(* saved at once or not at all.  The value counts the saves that a reader  *)
(* would find accounted for, 0 when there is no file.  Only damage from    *)
(* outside makes it undecodable, and only a loss of power takes it back,   *)
(* to a value of before the last directory sync.                           *)
(***************************************************************************)
EXTENDS Integers

Torn == -1

VARIABLES
  value,   \* what a reader finds
  undo     \* what a reader may find after a loss of power

Init == value = 0 /\ undo = {0}

\* A save adds to what it found, unless the file was damaged meanwhile.
Save ==
  /\ value' \in Nat \ {0}
  /\ value # Torn => value' = value + 1
  /\ undo' = undo \cup {value'}

Quarantine ==
  /\ value = Torn
  /\ value' = 0 /\ undo' = undo \cup {0}

Settle == undo' = {value} /\ UNCHANGED value

Damage == value' = Torn /\ undo' = {Torn}

PowerLoss == value' \in undo /\ undo' = {value'}

Next == Save \/ Quarantine \/ Settle \/ Damage \/ PowerLoss

Spec == Init /\ [][Next]_<<value, undo>>
=============================================================================
