---------------------------- MODULE BazelWalks ----------------------------
(***************************************************************************)
(* When the output-base reaper walks: due, earlyGap, noteWork and          *)
(* pressureState of BazelBasesPlugin (plugins/bazel_bases.go).             *)
(*                                                                         *)
(* Every poll of the daemon calls Cleanup, which walks the roots when the  *)
(* discovery interval has passed, and in apply mode also earlier while a   *)
(* mount is under pressure and the last walk left something an early one   *)
(* could take.  What a walk finds is chosen here: BazelBases decides it.   *)
(***************************************************************************)
EXTENDS Integers, FiniteSets

CONSTANTS
  Devs,             \* file systems of the roots
  MinInterval,      \* bbPressureMinInterval
  Interval,         \* discovery_interval
  Duty,             \* early_walk_max_duty_percent
  MaxWalkTime,      \* bound: the longest walk
  MaxWalkClock      \* bound: the latest time

ASSUME EarlyWalksAssumption ==
  /\ MinInterval \in Nat \ {0} /\ Interval \in Nat /\ Duty \in 1 .. 100
  /\ MaxWalkTime \in Nat /\ MaxWalkClock \in Nat

VARIABLES
  now,
  mode,             \* bazel_bases.mode
  load,             \* each device: below the stop line, between the lines, at the start line
  underPressure,    \* p.pressured
  lastDiscovery, lastWalk,
  earlyAt,          \* when an early walk could take something from each device
  lastPartial, emptyWalks,
  barren            \* history: ends of the walks since the last one with a yield

walkVars == <<now, mode, load, underPressure, lastDiscovery, lastWalk, earlyAt, lastPartial,
              emptyWalks, barren>>

Never == -1         \* no walk yet; nothing to take on the device
Unknown == -2       \* earlyAt before the first cycle has completed
Load == {"low", "between", "high"}

Forgotten ==
  /\ underPressure' = {} /\ lastDiscovery' = Never /\ lastWalk' = 0
  /\ earlyAt' = [d \in Devs |-> Unknown] /\ lastPartial' = FALSE /\ emptyWalks' = 0
  /\ barren' = {}

WalksInit ==
  /\ now = 0 /\ mode \in {"report", "apply"} /\ load \in [Devs -> Load]
  /\ underPressure = {} /\ lastDiscovery = Never /\ lastWalk = 0
  /\ earlyAt = [d \in Devs |-> Unknown] /\ lastPartial = FALSE /\ emptyWalks = 0
  /\ barren = {}
-----------------------------------------------------------------------------
\* The wait doubles with every empty walk until it reaches the interval, and is
\* never shorter than the last walk's own time allows for its share.
Doubled[n \in Nat] ==
  IF n = 0 THEN MinInterval
  ELSE IF Doubled[n - 1] < Interval THEN 2 * Doubled[n - 1] ELSE Doubled[n - 1]

EarlyGap ==
  LET share == IF Duty < 100 THEN (lastWalk * (100 - Duty)) \div Duty ELSE 0
  IN  IF share > Doubled[emptyWalks] THEN share ELSE Doubled[emptyWalks]

WalkPressure(d) == load[d] = "high" \/ (d \in underPressure /\ load[d] = "between")

WorkFor(d) == earlyAt[d] = Unknown \/ lastPartial \/ (earlyAt[d] # Never /\ now >= earlyAt[d])

Due ==
  \/ lastDiscovery = Never \/ now - lastDiscovery >= Interval
  \/ /\ mode = "apply" /\ now - lastDiscovery >= EarlyGap
     /\ \E d \in Devs : WalkPressure(d) /\ WorkFor(d)

\* Mutant: one removal, however small, starts the waits again.
NoteYield_AnyRemoval(removed, enough) ==
  emptyWalks' = IF mode = "apply" /\ ~ removed THEN emptyWalks + 1 ELSE 0

\* noteWork: a walk that removes less than early_walk_min_yield_mb is empty.
NoteYield(removed, enough) ==
  emptyWalks' = IF mode = "apply" /\ ~ enough THEN emptyWalks + 1 ELSE 0

\* A cycle over the devices of found; left says when each could yield again, at
\* once for a base that was deferred.  Only apply mode sees the pressure end.
Walk(found, left, partial, removed, enough, time) ==
  LET end == now + time
  IN  /\ Due /\ end <= MaxWalkClock
      /\ (removed \/ enough) => mode = "apply" /\ found # {}
      /\ enough => removed
      /\ now' = end /\ lastDiscovery' = end /\ lastWalk' = time
      /\ earlyAt' = [d \in Devs |-> IF d \in found THEN left[d] ELSE Never]
      /\ lastPartial' = partial
      /\ NoteYield(removed, enough)
      /\ underPressure' = IF mode = "apply"
                          THEN (underPressure \ found) \cup {d \in found : WalkPressure(d)}
                          ELSE underPressure \cup {d \in found : WalkPressure(d)}
      /\ barren' = IF enough \/ mode = "report" THEN {} ELSE barren \cup {end}
      /\ UNCHANGED <<mode, load>>

\* Time passes, the mounts fill and empty.
WalkTick(l) ==
  /\ now < MaxWalkClock /\ now' = now + 1 /\ load' = l
  /\ UNCHANGED <<mode, underPressure, lastDiscovery, lastWalk, earlyAt, lastPartial, emptyWalks,
                 barren>>

\* The plugin keeps all of this in memory.
WalkRestart == Forgotten /\ UNCHANGED <<now, mode, load>>

WalksNext ==
  \/ \E found \in SUBSET Devs, left \in [Devs -> {Never, 0, now + 1}], time \in 0 .. MaxWalkTime,
        partial, removed, enough \in BOOLEAN : Walk(found, left, partial, removed, enough, time)
  \/ \E l \in [Devs -> Load] : WalkTick(l)
  \/ WalkRestart

WalksSpec == WalksInit /\ [][WalksNext]_walkVars
-----------------------------------------------------------------------------
\* 2, 4, 8... times the least wait: the time that k waits in a row take.
Waits[k \in Nat] == IF k = 0 THEN 0 ELSE 2 * (Waits[k - 1] + MinInterval)

\* The walks that fit into one interval with those waits between them.
AllowedBarren == 1 + Cardinality({k \in 1 .. Interval : Waits[k] < Interval})

\* "A run of walks that remove nothing, whatever the cause, thins out to the
\* discovery interval" (due): however mounts and bases change, only so many
\* walks without a yield fall into any stretch as long as the interval.
BarrenWalksThinOut ==
  \A t \in barren : Cardinality({u \in barren : t <= u /\ u < t + Interval}) <= AllowedBarren

\* The clock has passed every walk.
WalkTimesOK ==
  /\ now \in Nat /\ lastDiscovery \in {Never} \cup 0 .. now /\ lastWalk \in Nat
  /\ emptyWalks \in Nat /\ mode \in {"report", "apply"}

\* The barren walks end with the last one, and each counts as empty.
BarrenCounted ==
  /\ \A u \in barren : u \in Nat /\ u <= lastDiscovery
  /\ barren # {} => mode = "apply" /\ lastDiscovery \in barren
  /\ Cardinality(barren) <= emptyWalks

\* Until an interval has passed since a barren walk, the ones after it were as
\* far apart as the waits.
BarrenSpaced ==
  \A t \in barren :
    \/ lastDiscovery >= t + Interval
    \/ lastDiscovery >= t + Waits[Cardinality({u \in barren : t <= u}) - 1]

\* The inductive invariant behind BarrenWalksThinOut.
BarrenInv == WalkTimesOK /\ BarrenCounted /\ BarrenSpaced /\ BarrenWalksThinOut
=============================================================================
