------------------------------ MODULE MCNixGC ------------------------------
(***************************************************************************)
(* Small instances of NixGC: the constants of its configurations.          *)
(***************************************************************************)
EXTENDS NixGC

\* A host with everything configured and a count bound, one that bounds the
\* duration of a run of deferrals instead, and one that keeps its state in
\* memory and collects under pressure only.
Bounded == [stateFile |-> TRUE, pinsRequired |-> TRUE, lockFile |-> TRUE, skipWhenBusy |-> TRUE,
            optimize |-> TRUE, minGap |-> 1, periodic |-> 2, maxDeferrals |-> 2, maxHold |-> 0]
Timed == [Bounded EXCEPT !.pinsRequired = FALSE, !.maxDeferrals = 0, !.maxHold = 2]
Plain == [Bounded EXCEPT !.stateFile = FALSE, !.lockFile = FALSE, !.optimize = FALSE,
                         !.periodic = 0, !.minGap = 2]

Hosts == {Bounded, Timed, Plain}

\* Both bounds, as in config/default.yaml.
OneHost == {[Bounded EXCEPT !.maxHold = 2]}
=============================================================================
