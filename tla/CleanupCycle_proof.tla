------------------------ MODULE CleanupCycle_proof ------------------------
(***************************************************************************)
(* Proofs about CleanupCycle, for every value of its constants: that the   *)
(* backoffs grow as documented, that none holds a plugin longer than its   *)
(* cap, and that holds and runs are what the plugins have earned.          *)
(***************************************************************************)
EXTENDS CleanupCycle, NatRecursion, TLAPS

\* Formatting a time never moves it forward.
LEMMA StampType ==
  ASSUME NEW t \in Nat
  PROVE  Stamp(t) \in Nat /\ Stamp(t) <= t
<1>1. t % TicksPerSecond \in Nat /\ t % TicksPerSecond <= t
  BY StateAssumption
<1> QED BY <1>1 DEF Stamp

\* What the loop of zeroYieldBackoff computes, from the base to the cap.
LEMMA ZeroYieldIntervalIs ==
  /\ ZeroYieldInterval[0] = ZeroYieldBase
  /\ \A n \in Nat :
       /\ ZeroYieldInterval[n] \in ZeroYieldBase .. ZeroYieldMax
       /\ ZeroYieldInterval[n + 1] =
            IF ZeroYieldInterval[n] >= ZeroYieldMax THEN ZeroYieldInterval[n]
            ELSE IF ZeroYieldInterval[n] > ZeroYieldMax \div 2 THEN ZeroYieldMax
            ELSE 2 * ZeroYieldInterval[n]
<1> DEFINE Round(v) == IF v >= ZeroYieldMax THEN v
                       ELSE IF v > ZeroYieldMax \div 2 THEN ZeroYieldMax ELSE 2 * v
           F == [v \in Nat |-> Round(v)]
           Rec(f) == f = [n \in Nat |-> IF n = 0 THEN ZeroYieldBase
                            ELSE IF f[n - 1] >= ZeroYieldMax THEN f[n - 1]
                            ELSE IF f[n - 1] > ZeroYieldMax \div 2 THEN ZeroYieldMax
                            ELSE 2 * f[n - 1]]
<1>1. F \in [Nat -> Nat] /\ ZeroYieldBase \in Nat /\ \A v \in Nat : F[v] = Round(v)
  BY StateAssumption
<1> HIDE DEF F
<1>2. PICK f : f \in [Nat -> Nat] /\ f = [n \in Nat |-> IF n = 0 THEN ZeroYieldBase ELSE F[f[n - 1]]]
  BY <1>1, Recursion
<1>3. \A n \in Nat : n # 0 => F[f[n - 1]] = Round(f[n - 1])
  <2>1. \A n \in Nat : n # 0 => n - 1 \in Nat
    OBVIOUS
  <2>2. \A n \in Nat : n # 0 => f[n - 1] \in Nat
    BY <1>2, <2>1
  <2> HIDE DEF Round
  <2> QED BY <1>1, <2>2
<1>4. Rec(f)
  BY <1>2, <1>3
<1> HIDE DEF Rec
<1>5. Rec(CHOOSE g : Rec(g))
  BY <1>4, Zenon
<1>6. Rec(ZeroYieldInterval)
  BY <1>5 DEF ZeroYieldInterval, Rec
<1>7. \A n \in Nat : ZeroYieldInterval[n] =
        IF n = 0 THEN ZeroYieldBase ELSE Round(ZeroYieldInterval[n - 1])
  BY <1>6, Zenon DEF Rec
<1> HIDE DEF Round
<1>8. ZeroYieldInterval[0] = ZeroYieldBase
  BY <1>7
<1>9. \A n \in Nat : ZeroYieldInterval[n + 1] = Round(ZeroYieldInterval[n])
  <2>1. \A n \in Nat : n + 1 \in Nat /\ n + 1 # 0 /\ (n + 1) - 1 = n
    OBVIOUS
  <2> QED BY <1>7, <2>1
<1> DEFINE T == {n \in Nat : ZeroYieldInterval[n] \in ZeroYieldBase .. ZeroYieldMax}
<1>10. 0 \in T
  BY <1>8, StateAssumption
<1>11. \A v \in ZeroYieldBase .. ZeroYieldMax : Round(v) \in ZeroYieldBase .. ZeroYieldMax
  BY StateAssumption DEF Round
<1>12. \A n \in Nat : n \in T => n + 1 \in T
  BY <1>9, <1>11
<1> HIDE DEF T
<1>13. \A n \in Nat : n \in T
  BY <1>10, <1>12, SetInduction
<1> QED BY <1>8, <1>9, <1>13 DEF Round, T

\* What the loop of byteBackoffIntervalFor computes: it starts within the cap, and
\* ends with less than twice the cap.
LEMMA ByteDoubledIs ==
  /\ byteBackoffInterval \in 1 .. ByteMax /\ ByteDoubled[0] = byteBackoffInterval
  /\ \A n \in Nat :
       /\ ByteDoubled[n] \in 1 .. 2 * ByteMax - 1
       /\ ByteDoubled[n + 1] = IF ByteDoubled[n] < ByteMax THEN 2 * ByteDoubled[n] ELSE ByteDoubled[n]
<1> DEFINE Round(v) == IF v < ByteMax THEN 2 * v ELSE v
           F == [v \in Nat |-> Round(v)]
           Rec(f) == f = [n \in Nat |-> IF n = 0 THEN byteBackoffInterval
                            ELSE IF f[n - 1] < ByteMax THEN 2 * f[n - 1] ELSE f[n - 1]]
<1>1. F \in [Nat -> Nat] /\ \A v \in Nat : F[v] = Round(v)
  BY CycleAssumption
<1>2. byteBackoffInterval \in 1 .. ByteMax
  BY CycleAssumption DEF byteBackoffInterval
<1> HIDE DEF F
<1>3. PICK f : f \in [Nat -> Nat]
               /\ f = [n \in Nat |-> IF n = 0 THEN byteBackoffInterval ELSE F[f[n - 1]]]
  <2>1. byteBackoffInterval \in Nat
    BY <1>2
  <2> QED BY <1>1, <2>1, Recursion
<1>4. \A n \in Nat : n # 0 => F[f[n - 1]] = Round(f[n - 1])
  <2>1. \A n \in Nat : n # 0 => n - 1 \in Nat
    OBVIOUS
  <2>2. \A n \in Nat : n # 0 => f[n - 1] \in Nat
    BY <1>3, <2>1
  <2> HIDE DEF Round
  <2> QED BY <1>1, <2>2
<1>5. Rec(f)
  BY <1>3, <1>4
<1> HIDE DEF Rec
<1>6. Rec(CHOOSE g : Rec(g))
  BY <1>5, Zenon
<1>7. Rec(ByteDoubled)
  BY <1>6 DEF ByteDoubled, Rec
<1>8. \A n \in Nat : ByteDoubled[n] =
        IF n = 0 THEN byteBackoffInterval ELSE Round(ByteDoubled[n - 1])
  BY <1>7, Zenon DEF Rec
<1> HIDE DEF Round
<1>9. ByteDoubled[0] = byteBackoffInterval
  BY <1>8
<1>10. \A n \in Nat : ByteDoubled[n + 1] = Round(ByteDoubled[n])
  <2>1. \A n \in Nat : n + 1 \in Nat /\ n + 1 # 0 /\ (n + 1) - 1 = n
    OBVIOUS
  <2> QED BY <1>8, <2>1
<1> DEFINE T == {n \in Nat : ByteDoubled[n] \in 1 .. 2 * ByteMax - 1}
<1>11. 0 \in T
  BY <1>2, <1>9, CycleAssumption
<1>12. \A v \in 1 .. 2 * ByteMax - 1 : Round(v) \in 1 .. 2 * ByteMax - 1
  BY CycleAssumption DEF Round
<1>13. \A n \in Nat : n \in T => n + 1 \in T
  BY <1>10, <1>12
<1> HIDE DEF T
<1>14. \A n \in Nat : n \in T
  BY <1>11, <1>13, SetInduction
<1> QED BY <1>2, <1>9, <1>10, <1>14 DEF Round, T

\* The intervals doubled without a cap.
LEMMA EscalatedIs ==
  /\ Escalated[0] = ZeroYieldBase
  /\ \A n \in Nat : Escalated[n] \in Nat /\ Escalated[n + 1] = 2 * Escalated[n]
<1> DEFINE F == [v \in Nat |-> 2 * v]
           Rec(f) == f = [n \in Nat |-> IF n = 0 THEN ZeroYieldBase ELSE 2 * f[n - 1]]
<1>1. F \in [Nat -> Nat] /\ ZeroYieldBase \in Nat /\ \A v \in Nat : F[v] = 2 * v
  BY StateAssumption
<1> HIDE DEF F
<1>2. PICK f : f \in [Nat -> Nat] /\ f = [n \in Nat |-> IF n = 0 THEN ZeroYieldBase ELSE F[f[n - 1]]]
  BY <1>1, Recursion
<1>3. \A n \in Nat : n # 0 => F[f[n - 1]] = 2 * f[n - 1]
  <2>1. \A n \in Nat : n # 0 => n - 1 \in Nat
    OBVIOUS
  <2>2. \A n \in Nat : n # 0 => f[n - 1] \in Nat
    BY <1>2, <2>1
  <2> QED BY <1>1, <2>2
<1>4. Rec(f)
  BY <1>2, <1>3
<1> HIDE DEF Rec
<1>5. Rec(CHOOSE g : Rec(g))
  BY <1>4, Zenon
<1>6. Rec(Escalated)
  BY <1>5 DEF Escalated, Rec
<1>7. \A n \in Nat : Escalated[n] = IF n = 0 THEN ZeroYieldBase ELSE 2 * Escalated[n - 1]
  BY <1>6, Zenon DEF Rec
<1>8. Escalated[0] = ZeroYieldBase
  BY <1>7
<1>9. \A n \in Nat : Escalated[n + 1] = 2 * Escalated[n]
  <2>1. \A n \in Nat : n + 1 \in Nat /\ n + 1 # 0 /\ (n + 1) - 1 = n
    OBVIOUS
  <2> QED BY <1>7, <2>1
<1> DEFINE T == {n \in Nat : Escalated[n] \in Nat}
<1>10. 0 \in T
  BY <1>1, <1>8
<1>11. \A n \in Nat : n \in T => n + 1 \in T
  BY <1>9
<1> HIDE DEF T
<1>12. \A n \in Nat : n \in T
  BY <1>10, <1>11, SetInduction
<1> QED BY <1>8, <1>9, <1>12 DEF T

\* The loop stops exactly where doubling would pass the cap.
LEMMA IntervalIsCapped ==
  ASSUME NEW n \in Nat
  PROVE  ZeroYieldInterval[n] = Smaller(Escalated[n], ZeroYieldMax)
<1> DEFINE T == {k \in Nat : ZeroYieldInterval[k] = Smaller(Escalated[k], ZeroYieldMax)}
<1>1. 0 \in T
  BY ZeroYieldIntervalIs, EscalatedIs, StateAssumption DEF Smaller
<1>2. ASSUME NEW k \in Nat, k \in T PROVE k + 1 \in T
  <2>1. /\ Escalated[k] \in Nat /\ Escalated[k + 1] = 2 * Escalated[k]
        /\ ZeroYieldInterval[k] = Smaller(Escalated[k], ZeroYieldMax)
        /\ ZeroYieldInterval[k + 1] =
             IF ZeroYieldInterval[k] >= ZeroYieldMax THEN ZeroYieldInterval[k]
             ELSE IF ZeroYieldInterval[k] > ZeroYieldMax \div 2 THEN ZeroYieldMax
             ELSE 2 * ZeroYieldInterval[k]
    BY <1>2, ZeroYieldIntervalIs, EscalatedIs
  <2>2. ZeroYieldInterval[k + 1] = Smaller(Escalated[k + 1], ZeroYieldMax)
    BY <2>1, StateAssumption DEF Smaller
  <2> QED BY <2>2
<1> HIDE DEF T
<1>3. n \in T
  BY <1>1, <1>2, SetInduction
<1> QED BY <1>3 DEF T

\* "Base at the limit, doubling per further run, capped at max": the interval of
\* zeroYieldBackoff is the hold the runs have earned, for every policy and however
\* many runs there were, and no value on the way passes the cap.
THEOREM BackoffIsEarnedHold ==
  ASSUME NEW count \in Nat
  PROVE  IF ZeroYieldLimit > 0 /\ count >= ZeroYieldLimit
         THEN zeroYieldBackoff(count) = EarnedHold(count)
         ELSE zeroYieldBackoff(count) = 0
<1>1. CASE ZeroYieldLimit > 0 /\ count >= ZeroYieldLimit
  <2>1. count - ZeroYieldLimit \in Nat /\ ~ (ZeroYieldLimit <= 0 \/ count < ZeroYieldLimit)
    BY <1>1, StateAssumption
  <2> QED BY <1>1, <2>1, IntervalIsCapped DEF zeroYieldBackoff, EarnedHold
<1>2. CASE ~ (ZeroYieldLimit > 0 /\ count >= ZeroYieldLimit)
  BY <1>2, StateAssumption DEF zeroYieldBackoff
<1> QED BY <1>1, <1>2

\* A zero-yield suppression never exceeds zero_yield_backoff_max.
LEMMA BackoffType ==
  ASSUME NEW count \in Nat
  PROVE  zeroYieldBackoff(count) \in 0 .. ZeroYieldMax
<1>1. CASE ZeroYieldLimit > 0 /\ count >= ZeroYieldLimit
  <2>1. count - ZeroYieldLimit \in Nat
    BY <1>1, StateAssumption
  <2> QED BY <1>1, <2>1, ZeroYieldIntervalIs, StateAssumption DEF zeroYieldBackoff
<1>2. CASE ~ (ZeroYieldLimit > 0 /\ count >= ZeroYieldLimit)
  BY <1>2, StateAssumption DEF zeroYieldBackoff
<1> QED BY <1>1, <1>2

\* Byte backoff never exceeds byte_backoff_max.
LEMMA ByteIntervalType ==
  ASSUME NEW count \in Nat
  PROVE  byteBackoffIntervalFor(count) \in 0 .. ByteMax
<1>1. CASE count <= ByteLimit
  BY <1>1, ByteDoubledIs, CycleAssumption DEF byteBackoffIntervalFor
<1>2. CASE ~ (count <= ByteLimit)
  <2>1. count - ByteLimit \in Nat
    BY <1>2, CycleAssumption
  <2>2. ByteDoubled[count - ByteLimit] \in 1 .. 2 * ByteMax - 1
    BY <2>1, ByteDoubledIs
  <2> QED BY <1>2, <2>2, CycleAssumption DEF byteBackoffIntervalFor, Smaller
<1> QED BY <1>1, <1>2

\* "Doubles with every further attempt, up to byte_backoff_max" (byteBackoffIntervalFor):
\* for every policy and however many attempts there were; the loop's own value,
\* which passes the cap, stays below twice the cap.
THEOREM ByteIntervalDoubles ==
  ASSUME NEW count \in Nat
  PROVE  /\ count <= ByteLimit => byteBackoffIntervalFor(count) = byteBackoffInterval
         /\ count >= ByteLimit =>
              /\ byteBackoffIntervalFor(count + 1) = Smaller(2 * byteBackoffIntervalFor(count), ByteMax)
              /\ ByteDoubled[count - ByteLimit] < 2 * ByteMax
<1>1. count <= ByteLimit => byteBackoffIntervalFor(count) = byteBackoffInterval
  BY DEF byteBackoffIntervalFor
<1>2. ASSUME count >= ByteLimit
      PROVE  /\ byteBackoffIntervalFor(count + 1) = Smaller(2 * byteBackoffIntervalFor(count), ByteMax)
             /\ ByteDoubled[count - ByteLimit] < 2 * ByteMax
  <2> DEFINE k == count - ByteLimit
  <2>1. k \in Nat /\ (count + 1) - ByteLimit = k + 1 /\ ~ (count + 1 <= ByteLimit)
    BY <1>2, CycleAssumption
  <2>2. byteBackoffIntervalFor(count + 1) = Smaller(ByteDoubled[k + 1], ByteMax)
    BY <2>1 DEF byteBackoffIntervalFor
  <2>3. byteBackoffIntervalFor(count) = Smaller(ByteDoubled[k], ByteMax)
    <3>1. CASE count <= ByteLimit
      <4>1. k = 0
        BY <1>2, <3>1, CycleAssumption
      <4>2. Smaller(ByteDoubled[k], ByteMax) = byteBackoffInterval
        <5>1. ByteDoubled[k] = byteBackoffInterval
          BY <4>1, ByteDoubledIs
        <5>2. byteBackoffInterval \in 1 .. ByteMax
          BY ByteDoubledIs
        <5> QED BY <5>1, <5>2, CycleAssumption DEF Smaller
      <4> QED BY <1>1, <3>1, <4>2
    <3>2. CASE ~ (count <= ByteLimit)
      BY <3>2 DEF byteBackoffIntervalFor
    <3> QED BY <3>1, <3>2
  <2> HIDE DEF k
  <2>4. /\ ByteDoubled[k] \in 1 .. 2 * ByteMax - 1
        /\ ByteDoubled[k + 1] = IF ByteDoubled[k] < ByteMax THEN 2 * ByteDoubled[k] ELSE ByteDoubled[k]
    BY <2>1, ByteDoubledIs
  <2>5. Smaller(ByteDoubled[k + 1], ByteMax) = Smaller(2 * Smaller(ByteDoubled[k], ByteMax), ByteMax)
    BY <2>4, CycleAssumption DEF Smaller
  <2>6. ByteDoubled[k] < 2 * ByteMax
    BY <2>4, CycleAssumption
  <2> QED BY <2>2, <2>3, <2>5, <2>6 DEF k
<1> QED BY <1>1, <1>2

LEMMA HighestLevelType ==
  ASSUME NEW levels \in SUBSET CleanupLevel
  PROVE  HighestLevel(levels) \in CleanupLevel
<1>1. \E l \in CleanupLevel : (l = LevelNone \/ l \in levels) /\ \A k \in levels : k <= l
  BY DEF CleanupLevel, LevelNone, LevelCritical
<1> QED BY <1>1 DEF HighestLevel

LEMMA LevelTypes ==
  ASSUME NEW path \in Paths, NEW s \in Reading
  PROVE  /\ byteLevelForPath(path, s) \in CleanupLevel
         /\ inodeLevelForPath(path, s) \in CleanupLevel
         /\ mountLevel(path, s) \in CleanupLevel
BY DEF byteLevelForPath, inodeLevelForPath, mountLevel, Higher, levelForPercent,
       CheckInodeLevel, CleanupLevel, LevelNone, LevelWarning, LevelModerate,
       LevelAggressive, LevelCritical

LEMMA MountsArePaths == Mounts \subseteq Paths
<1>1. MountOrder \in Seq(Paths)
  BY CycleAssumption
<1> QED BY <1>1 DEF Mounts

LEMMA FirstMountType ==
  ASSUME NEW S, NEW fallback \in Paths
  PROVE  FirstMount(S, fallback) \in Paths
<1>1. CASE \E i \in 1 .. Len(MountOrder) : IsFirst(i, S)
  <2> DEFINE first == CHOOSE i \in 1 .. Len(MountOrder) : IsFirst(i, S)
  <2>1. first \in 1 .. Len(MountOrder)
    BY <1>1
  <2>2. MountOrder[first] \in Paths
    BY <2>1, CycleAssumption
  <2> QED BY <1>1, <2>2 DEF FirstMount
<1>2. CASE ~ \E i \in 1 .. Len(MountOrder) : IsFirst(i, S)
  BY <1>2 DEF FirstMount
<1> QED BY <1>1, <1>2

LEMMA AssessmentTypes ==
  ASSUME NEW seen \in [Mounts -> Reading]
  PROVE  /\ assessedLevel(seen) \in CleanupLevel
         /\ assessedInodeLevel(seen) \in CleanupLevel
         /\ primaryMonitorPath(seen) \in Paths
         /\ pressuredMount(seen) \in BOOLEAN
<1>1. {mountLevel(m, seen[m]) : m \in Mounts} \in SUBSET CleanupLevel
  BY LevelTypes, MountsArePaths
<1>2. {inodeLevelForPath(m, seen[m]) : m \in Mounts} \in SUBSET CleanupLevel
  BY LevelTypes, MountsArePaths
<1>3. assessedLevel(seen) \in CleanupLevel
  BY <1>1, HighestLevelType DEF assessedLevel
<1>4. assessedInodeLevel(seen) \in CleanupLevel
  BY <1>2, HighestLevelType DEF assessedInodeLevel
<1>5. primaryMonitorPath(seen) \in Paths
  BY FirstMountType, CycleAssumption DEF primaryMonitorPath
<1> QED BY <1>3, <1>4, <1>5 DEF pressuredMount

-----------------------------------------------------------------------------
(* The operations of CleanupState keep it a state. *)

LEMMA FreshState == newCleanupState \in State
BY DEF newCleanupState, State, PluginRecord, InodeRecord, ByteRecord, ZeroRecord, ZeroBytes,
       MaybeTime, Time, NoTime

\* What recordRun leaves of a plugin's record: the run is dated no later than the
\* cycle, and the retry time at most zero_yield_backoff_max later.
LEMMA RunRecord ==
  ASSUME NEW r \in PluginRecord, NEW level \in 0 .. 4, NEW now \in Nat,
         NEW zero \in BOOLEAN, NEW d \in Digests, NEW suppressible \in BOOLEAN,
         NEW n, n = recordPluginYield(recordPluginRun(r, level, now), zero, now, d, suppressible)
  PROVE  /\ n \in PluginRecord
         /\ n.run \in Nat /\ n.run <= now
         /\ n.until # NoTime => n.until <= now + ZeroYieldMax
<1> DEFINE r1 == recordPluginRun(r, level, now)
           before == IF r1.digest = d THEN r1.zero ELSE 0
           count == IF zero /\ ZeroYieldLimit > 0 THEN before + 1 ELSE 0
           hold == IF suppressible THEN zeroYieldBackoff(count) ELSE 0
<1>1. r1 \in PluginRecord /\ r1.run \in Nat /\ r1.run <= now
  BY StampType DEF recordPluginRun, PluginRecord, MaybeTime, Time
<1>2. count \in Nat
  BY <1>1, StateAssumption DEF PluginRecord
<1>3. hold \in 0 .. ZeroYieldMax
  BY <1>2, BackoffType, StateAssumption
<1> HIDE DEF r1, count, hold
<1>4. Stamp(now + hold) \in Nat /\ Stamp(now + hold) <= now + ZeroYieldMax
  <2>1. now + hold \in Nat /\ now + hold <= now + ZeroYieldMax
    BY <1>3, StateAssumption
  <2>2. Stamp(now + hold) \in Nat /\ Stamp(now + hold) <= now + hold
    BY <2>1, StampType
  <2> QED BY <2>1, <2>2, StateAssumption
<1>5. n = [r1 EXCEPT !.digest = d, !.zero = count,
                     !.until = IF hold > 0 THEN Stamp(now + hold) ELSE NoTime]
  BY DEF recordPluginYield, r1, count, hold
<1> HIDE DEF r1
<1> QED BY <1>1, <1>2, <1>4, <1>5 DEF PluginRecord, MaybeTime, Time, NoTime

\* Replacing the byte record of a path leaves the plugins' records alone.
LEMMA ByteRecordUpdate ==
  ASSUME NEW s \in State, NEW path \in Paths, NEW b \in ByteRecord
  PROVE  LET n == [s EXCEPT !.bytes[path] = b]
         IN  n \in State /\ n.plugins = s.plugins
BY DEF State

LEMMA InodeProgressType ==
  ASSUME NEW s \in State, NEW path \in Paths, NEW improved \in BOOLEAN
  PROVE  LET n == recordInodeProgress(s, path, improved)
         IN  n \in State /\ n.plugins = s.plugins
BY DEF recordInodeProgress, State, InodeRecord

LEMMA LiftType ==
  ASSUME NEW s \in State
  PROVE  LET n == liftZeroYieldSuppression(s)
         IN  /\ n \in State
             /\ \A p \in Plugins : n.plugins[p].run = s.plugins[p].run
                                   /\ n.plugins[p].until = NoTime
<1> DEFINE g(p) == [s.plugins[p] EXCEPT !.until = NoTime]
           n == liftZeroYieldSuppression(s)
<1>1. ASSUME NEW p \in Plugins
      PROVE  g(p) \in PluginRecord /\ g(p).run = s.plugins[p].run /\ g(p).until = NoTime
  <2>1. s.plugins[p] \in PluginRecord
    BY DEF State
  <2> QED BY <2>1 DEF PluginRecord, MaybeTime
<1>2. n = [s EXCEPT !.plugins = [p \in Plugins |-> g(p)]]
  BY DEF liftZeroYieldSuppression
<1> HIDE DEF g, n
<1>3. [p \in Plugins |-> g(p)] \in [Plugins -> PluginRecord]
  BY <1>1
<1>4. n \in State
  BY <1>2, <1>3 DEF State
<1>5. \A p \in Plugins : n.plugins[p] = g(p)
  BY <1>2 DEF State
<1> QED BY <1>1, <1>4, <1>5 DEF n

-----------------------------------------------------------------------------
(* The actions keep the types and the soundness of the records. *)

LEMMA NoReading == Unreadable \in Reading
BY DEF Reading

LEMMA IdleCycleType == IdleCycle \in Cycle
BY FreshState, NoReading, CycleAssumption DEF IdleCycle, Cycle, Time, CleanupLevel, LevelNone, LevelCritical

\* A measurement changes the latest reading of a cycle, and nothing else.
LEMMA MeasureType ==
  ASSUME NEW c \in Cycle, NEW s \in Reading
  PROVE  LET n == updateHostFreeAfter(c, s)
         IN  /\ n \in Cycle
             /\ n.st = c.st /\ n.now = c.now /\ n.pressured = c.pressured /\ n.path = c.path
             /\ n.level = c.level
BY DEF updateHostFreeAfter, Cycle

\* recordRun rewrites one plugin's record, as RunRecord says.
LEMMA RecordRunType ==
  ASSUME NEW c \in Cycle, NEW p \in Plugins, NEW bytes \in Nat, proc \in Processes
  PROVE  LET n == recordRun(c, p, bytes)
             r == n.st.plugins[p]
         IN  /\ n \in Cycle
             /\ n.now = c.now /\ n.pressured = c.pressured /\ n.freed = c.freed
             /\ \A q \in Plugins : q # p => n.st.plugins[q] = c.st.plugins[q]
             /\ ~ c.readable => n = c
             /\ c.readable => /\ r.run \in Nat /\ r.run <= c.now
                              /\ r.until # NoTime => r.until <= c.now + ZeroYieldMax
<1>1. CASE ~ c.readable
  BY <1>1 DEF recordRun
<1>2. CASE c.readable
  <2> DEFINE y == recordPluginYield(recordPluginRun(c.st.plugins[p], c.level, c.now),
                                    bytes < MinYield, c.now, proc.digest, p \notin Exempt)
             n == recordRun(c, p, bytes)
  <2>1. c.st.plugins[p] \in PluginRecord /\ c.level \in 0 .. 4 /\ c.now \in Nat
    BY DEF Cycle, State, CleanupLevel, LevelNone, LevelCritical, Time
  <2>2. proc.digest \in Digests
    BY DEF Processes
  <2>3. (bytes < MinYield) \in BOOLEAN /\ (p \notin Exempt) \in BOOLEAN
    OBVIOUS
  <2>4. /\ y \in PluginRecord
        /\ y.run \in Nat /\ y.run <= c.now
        /\ y.until # NoTime => y.until <= c.now + ZeroYieldMax
    BY <2>1, <2>2, <2>3, RunRecord
  <2> HIDE DEF y
  <2>5. n = [c EXCEPT !.st.plugins[p] = y]
    BY <1>2 DEF recordRun, y
  <2> HIDE DEF n
  <2>6. n \in Cycle
    BY <2>4, <2>5 DEF Cycle, State
  <2>7. n.st.plugins[p] = y
    BY <2>5 DEF Cycle, State
  <2>8. \A q \in Plugins : q # p => n.st.plugins[q] = c.st.plugins[q]
    BY <2>5 DEF Cycle, State
  <2>9. n.now = c.now /\ n.pressured = c.pressured /\ n.freed = c.freed
    BY <2>5 DEF Cycle
  <2> QED BY <1>2, <2>4, <2>6, <2>7, <2>8, <2>9 DEF n
<1> QED BY <1>1, <1>2

\* The none branch only forgets.
LEMMA QuietStateType ==
  ASSUME NEW c \in Cycle
  PROVE  /\ quietState(c) \in State
         /\ \A p \in Plugins :
              /\ quietState(c).plugins[p].run = c.st.plugins[p].run
              /\ quietState(c).plugins[p].until \in {NoTime, c.st.plugins[p].until}
<1> DEFINE released == IF c.before.ok /\ (byteBackoffEngaged(c.st, c.path)
                                            \/ byteNoProgressPending(c.st, c.path))
                       THEN recordByteProgress(c.st, c.path, LevelNone, TRUE, FALSE, FALSE)
                       ELSE c.st
<1>1. c.st \in State /\ c.path \in Paths
  BY DEF Cycle
<1>2. released \in State /\ released.plugins = c.st.plugins
  <2> DEFINE b == [level |-> 0, count |-> 0, engaged |-> FALSE]
             n == recordByteProgress(c.st, c.path, LevelNone, TRUE, FALSE, FALSE)
  <2>1. b \in ByteRecord
    BY DEF ByteRecord
  <2>2. n = [c.st EXCEPT !.bytes[c.path] = b]
    BY Zenon DEF recordByteProgress, LevelNone
  <2>3. released = n \/ released = c.st
    OBVIOUS
  <2> HIDE DEF b, n, released
  <2>4. n \in State /\ n.plugins = c.st.plugins
    BY <1>1, <2>1, <2>2, ByteRecordUpdate
  <2> QED BY <1>1, <2>3, <2>4
<1>3. LET n == liftZeroYieldSuppression(released)
      IN  /\ n \in State
          /\ \A p \in Plugins : n.plugins[p].run = released.plugins[p].run
                                /\ n.plugins[p].until = NoTime
  BY <1>2, LiftType
<1>4. quietState(c) = IF proc.mode # "dry" /\ c.readable
                      THEN liftZeroYieldSuppression(released) ELSE c.st
  BY DEF quietState
<1> HIDE DEF released
<1> QED BY <1>1, <1>2, <1>3, <1>4

\* The two progress records leave the plugins' records alone.
LEMMA ProgressType ==
  ASSUME NEW c \in Cycle
  PROVE  LET n == withByteProgress(withInodeProgress(c))
         IN  n \in Cycle /\ n.st.plugins = c.st.plugins
<1> DEFINE i == withInodeProgress(c)
<1>1. i \in Cycle /\ i.st.plugins = c.st.plugins
  <2> DEFINE improved == \/ c.before.ok /\ c.last.inodes > c.before.inodes
                         \/ inodeLevelForPath(c.path, c.last) = LevelNone
  <2>1. c.st \in State /\ c.path \in Paths /\ improved \in BOOLEAN
    BY DEF Cycle
  <2>2. LET n == recordInodeProgress(c.st, c.path, improved)
        IN  n \in State /\ n.plugins = c.st.plugins
    BY <2>1, InodeProgressType
  <2>3. LET n == recordInodeProgress(c.st, c.path, TRUE)
        IN  n \in State /\ n.plugins = c.st.plugins
    BY <2>1, InodeProgressType
  <2>4. i \in {c, [c EXCEPT !.st = recordInodeProgress(c.st, c.path, improved)],
               [c EXCEPT !.st = recordInodeProgress(c.st, c.path, TRUE)]}
    BY DEF withInodeProgress
  <2> HIDE DEF improved, i
  <2> QED BY <2>2, <2>3, <2>4 DEF Cycle
<1> HIDE DEF i
<1>2. LET n == withByteProgress(i)
      IN  n \in Cycle /\ n.st.plugins = i.st.plugins
  <2> DEFINE was == byteBackoffEngaged(i.st, i.path)
             engaged == ByteBackoff(i) \/ (proc.mode = "level" /\ was)
             r == recordByteProgress(i.st, i.path, hostByteLevel(i), byteProgressMade(i),
                                     anyLadderPluginRan, engaged)
  <2>1. i.st \in State /\ i.path \in Paths /\ i.before \in Reading
    BY <1>1 DEF Cycle
  <2>2. hostByteLevel(i) \in 0 .. 4
    BY <2>1, LevelTypes DEF hostByteLevel, CleanupLevel, LevelNone, LevelCritical
  <2>5. engaged \in BOOLEAN
    BY DEF ByteBackoff
  <2> HIDE DEF engaged
  <2>6. r \in State /\ r.plugins = i.st.plugins
    <3> DEFINE counted == byteNoProgressCount(i.st, i.path, hostByteLevel(i))
               count == IF byteProgressMade(i) THEN 0
                        ELSE IF anyLadderPluginRan THEN counted + 1 ELSE counted
               b == [level |-> hostByteLevel(i), count |-> count, engaged |-> engaged]
    <3>1. counted \in Nat
      BY <2>1 DEF byteNoProgressCount, State, ByteRecord
    <3> HIDE DEF counted
    <3>2. count \in Nat
      BY <3>1
    <3> HIDE DEF count
    <3>3. b \in ByteRecord
      BY <2>2, <2>5, <3>2 DEF ByteRecord
    <3>4. r = [i.st EXCEPT !.bytes[i.path] = b]
      BY Zenon DEF recordByteProgress, counted, count
    <3> HIDE DEF b, r
    <3> QED BY <2>1, <3>3, <3>4, ByteRecordUpdate
  <2>7. withByteProgress(i) \in {i, [i EXCEPT !.st = r]}
    BY DEF withByteProgress, engaged
  <2> HIDE DEF r
  <2> QED BY <1>1, <2>6, <2>7 DEF Cycle
<1> QED BY <1>1, <1>2 DEF i

-----------------------------------------------------------------------------
(* The gates hold a plugin back no longer than their caps. *)

\* A record that is not ahead of the history holds a plugin back for less than
\* the interval after its real run.
LEMMA CooldownBounded ==
  ASSUME NEW r \in PluginRecord, NEW level \in 0 .. 4, NEW now \in Nat, NEW interval \in Nat,
         NEW real \in MaybeTime,
         r.run # NoTime => real # NoTime /\ r.run <= real,
         cooldownRemaining(r, level, now, interval) > 0
  PROVE  real # NoTime /\ now < real + interval
<1>1. r.run # NoTime /\ r.run \in Nat
  BY DEF cooldownRemaining, PluginRecord, MaybeTime, Time, NoTime
<1>2. real \in Nat /\ real # NoTime /\ r.run <= real
  BY <1>1 DEF MaybeTime, Time, NoTime
<1>3. CASE now < r.run
  BY <1>1, <1>2, <1>3 DEF cooldownRemaining
<1>4. CASE ~ (now < r.run)
  <2>1. ~ (now - r.run >= interval)
    BY <1>1, <1>4 DEF cooldownRemaining
  <2> QED BY <1>1, <1>2, <1>4, <2>1
<1> QED BY <1>3, <1>4

LEMMA GateBounded ==
  ASSUME TypeOK, RecordsSound(cyc.st, hist), NEW p \in Plugins,
         Gate(cyc, p) \in {"cooldown", "byte_backoff", "zero_yield_backoff"}
  PROVE  hist[p].now # NoTime /\ cyc.now < hist[p].now + LongestHold(Gate(cyc, p))
<1> DEFINE r == cyc.st.plugins[p]
           g == Gate(cyc, p)
           interval == pluginCooldown(cyc).interval
<1>1. /\ cyc \in Cycle /\ cyc.now \in Nat /\ cyc.level \in 0 .. 4 /\ cyc.st \in State
      /\ r \in PluginRecord /\ hist[p].now \in MaybeTime /\ cyc.before \in Reading
      /\ cyc.path \in Paths
  BY DEF TypeOK, Cycle, State, History, Time, CleanupLevel, LevelNone, LevelCritical
<1>2. /\ r.run # NoTime => hist[p].now # NoTime /\ r.run <= hist[p].now
      /\ r.until # NoTime => r.run # NoTime /\ r.until <= hist[p].now + ZeroYieldMax
  BY DEF RecordsSound
<1>3. reportedByteCount(cyc) \in Nat
  BY <1>1 DEF reportedByteCount, byteNoProgressCount, State, ByteRecord
<1>4. CASE g = "zero_yield_backoff"
  <2>1. zeroYieldHolds(cyc, p)
    BY <1>4 DEF Gate, pluginCooldown
  <2>2. r.until # NoTime /\ cyc.now < r.until
    BY <2>1 DEF zeroYieldHolds, zeroYieldSuppressed
  <2>3. ~ (cyc.pressured /\ cyc.now >= r.run + PressureMin)
    BY <2>1 DEF zeroYieldHolds, zeroYieldExempt
  <2>4. r.run \in Nat /\ r.until \in Nat /\ hist[p].now \in Nat
    BY <1>1, <1>2, <2>2 DEF PluginRecord, MaybeTime, Time, NoTime
  <2>5. cyc.now < hist[p].now + ZeroYieldMax
    BY <1>1, <1>2, <2>2, <2>4, StateAssumption
  <2>6. cyc.pressured => cyc.now < hist[p].now + PressureMin
    BY <1>1, <1>2, <2>2, <2>3, <2>4, StateAssumption
  <2>7. LongestHold(g) = IF cyc.pressured THEN Smaller(PressureMin, ZeroYieldMax)
                         ELSE ZeroYieldMax
    BY <1>4 DEF LongestHold
  <2> QED BY <1>2, <2>2, <2>5, <2>6, <2>7 DEF Smaller
<1>5. CASE g \in {"cooldown", "byte_backoff"}
  <2>1. cooldownHolds(cyc, p) /\ g = pluginCooldown(cyc).reason
    BY <1>5 DEF Gate
  <2>2. /\ g = "cooldown" => pluginCooldown(cyc).interval = Cooldown
        /\ g = "byte_backoff" =>
             pluginCooldown(cyc).interval = byteBackoffIntervalFor(reportedByteCount(cyc))
    BY <2>1 DEF pluginCooldown
  <2>3. byteBackoffIntervalFor(reportedByteCount(cyc)) \in 0 .. ByteMax
    BY <1>3, ByteIntervalType
  <2>4. interval \in Nat /\ interval <= LongestHold(g) /\ LongestHold(g) \in Nat
    <3>1. CASE g = "cooldown"
      <4>1. LongestHold(g) = Cooldown /\ interval = Cooldown
        BY <2>2, <3>1 DEF LongestHold
      <4>2. Cooldown \in Nat
        BY CycleAssumption
      <4> HIDE DEF interval, g
      <4> QED BY <4>1, <4>2
    <3>2. CASE g = "byte_backoff"
      <4>1. LongestHold(g) = ByteMax /\ interval \in 0 .. ByteMax
        BY <2>2, <2>3, <3>2 DEF LongestHold
      <4>2. ByteMax \in Nat
        BY CycleAssumption
      <4> HIDE DEF interval, g
      <4> QED BY <4>1, <4>2
    <3> QED BY <1>5, <3>1, <3>2
  <2>5. hist[p].now # NoTime /\ cyc.now < hist[p].now + interval
    BY <1>1, <1>2, <2>1, <2>4, CooldownBounded DEF cooldownHolds
  <2>6. hist[p].now \in Nat
    BY <1>1, <2>5 DEF MaybeTime, Time, NoTime
  <2> HIDE DEF g, interval
  <2>7. hist[p].now # NoTime /\ cyc.now < hist[p].now + LongestHold(g)
    BY <1>1, <2>4, <2>5, <2>6
  <2> QED BY <2>7 DEF g
<1> QED BY <1>4, <1>5

-----------------------------------------------------------------------------
(* The inductive invariant. *)

LEMMA InitInv == Init => CycleInv
<1> SUFFICES ASSUME Init PROVE CycleInv
  OBVIOUS
<1>1. TypeOK
  BY FreshState, IdleCycleType
     DEF Init, TypeOK, History, NoRun, NoReport, Verdicts, MaybeTime, Time, NoTime, CleanupLevel,
         LevelNone, LevelCritical
<1>2. RecordsSound(disk, hist) /\ RecordsSound(cyc.st, hist)
  BY DEF Init, RecordsSound, IdleCycle, newCleanupState, ZeroRecord
<1>3. HistoryPast /\ IdleClean
  BY DEF Init, HistoryPast, IdleClean, NoRun, NoTime
<1>4. HoldBounded
  BY DEF Init, HoldBounded, NoReport
<1> QED BY <1>1, <1>2, <1>3, <1>4 DEF CycleInv

\* The beginning of a cycle keeps the dates of the history.
LEMMA BeganHistory ==
  ASSUME hist \in [Plugins -> History], NEW lost \in BOOLEAN, NEW quiet \in BOOLEAN
  PROVE  /\ HistoryAfterBegin(lost, quiet) \in [Plugins -> History]
         /\ \A p \in Plugins : HistoryAfterBegin(lost, quiet)[p].now = hist[p].now
<1> DEFINE g(p) == [hist[p] EXCEPT !.saved = hist[p].saved /\ ~ lost,
                                   !.episode = hist[p].episode /\ ~ quiet,
                                   !.barren = IF lost THEN 0 ELSE hist[p].barren]
<1>1. ASSUME NEW p \in Plugins PROVE g(p) \in History /\ g(p).now = hist[p].now
  <2>1. hist[p] \in History
    OBVIOUS
  <2>2. /\ (hist[p].saved /\ ~ lost) \in BOOLEAN /\ (hist[p].episode /\ ~ quiet) \in BOOLEAN
        /\ (IF lost THEN 0 ELSE hist[p].barren) \in Nat
    BY <2>1 DEF History
  <2> QED BY <2>1, <2>2 DEF History
<1>2. HistoryAfterBegin(lost, quiet) = [p \in Plugins |-> g(p)]
  BY DEF HistoryAfterBegin
<1> HIDE DEF g
<1> QED BY <1>1, <1>2

\* A state stays sound when its runs keep their dates and the history moves on.
LEMMA SoundStable ==
  ASSUME NEW S \in State, NEW T \in State, NEW h \in [Plugins -> History],
         NEW k \in [Plugins -> History], RecordsSound(S, h),
         \A p \in Plugins : /\ h[p].now <= k[p].now
                            /\ T.plugins[p].run = S.plugins[p].run
                            /\ T.plugins[p].until \in {NoTime, S.plugins[p].until}
  PROVE  RecordsSound(T, k)
<1> SUFFICES ASSUME NEW p \in Plugins
             PROVE  /\ T.plugins[p].run # NoTime => k[p].now # NoTime /\ T.plugins[p].run <= k[p].now
                    /\ T.plugins[p].until # NoTime => /\ T.plugins[p].run # NoTime
                                                      /\ T.plugins[p].until <= k[p].now + ZeroYieldMax
  BY DEF RecordsSound
<1>1. /\ S.plugins[p].run # NoTime => h[p].now # NoTime /\ S.plugins[p].run <= h[p].now
      /\ S.plugins[p].until # NoTime => /\ S.plugins[p].run # NoTime
                                        /\ S.plugins[p].until <= h[p].now + ZeroYieldMax
  BY DEF RecordsSound
<1>2. /\ h[p].now \in Nat \cup {-1} /\ k[p].now \in Nat \cup {-1}
      /\ S.plugins[p].run \in Nat \cup {-1} /\ S.plugins[p].until \in Nat \cup {-1}
  BY DEF History, State, PluginRecord, MaybeTime, Time, NoTime
<1> QED BY <1>1, <1>2, StateAssumption DEF NoTime

LEMMA FreshSound ==
  ASSUME NEW h \in [Plugins -> History]
  PROVE  RecordsSound(newCleanupState, h)
BY DEF RecordsSound, newCleanupState, ZeroRecord

\* What BeginCycle works on is a cycle.
LEMMA BegunType ==
  ASSUME TypeOK, NEW seen \in [Mounts -> Reading], NEW before \in Reading, NEW load
  PROVE  LET level == IF proc.forced = LevelNone THEN assessedLevel(seen) ELSE proc.forced
         IN  [now |-> clock, level |-> level, path |-> primaryMonitorPath(seen),
              maxInode |-> assessedInodeLevel(seen), pressured |-> pressuredMount(seen),
              before |-> before, last |-> before, measureErr |-> FALSE,
              readable |-> proc.mode = "dry" \/ load # "error",
              st |-> StateInMemory(load), freed |-> 0] \in Cycle
<1> DEFINE level == IF proc.forced = LevelNone THEN assessedLevel(seen) ELSE proc.forced
<1>1. level \in CleanupLevel
  <2>1. proc.forced \in ForcedLevels \cup {LevelNone}
    BY DEF TypeOK, Processes
  <2>2. ForcedLevels \cup {LevelNone} \subseteq CleanupLevel
    BY CycleAssumption DEF CleanupLevel, LevelNone, LevelCritical
  <2>3. assessedLevel(seen) \in CleanupLevel
    BY AssessmentTypes
  <2> QED BY <2>1, <2>2, <2>3
<1>2. StateInMemory(load) \in State
  BY FreshState DEF StateInMemory, FileAfterLoad, TypeOK
<1> HIDE DEF level
<1>3. [now |-> clock, level |-> level, path |-> primaryMonitorPath(seen),
       maxInode |-> assessedInodeLevel(seen), pressured |-> pressuredMount(seen),
       before |-> before, last |-> before, measureErr |-> FALSE,
       readable |-> proc.mode = "dry" \/ load # "error",
       st |-> StateInMemory(load), freed |-> 0] \in Cycle
  BY <1>1, <1>2, AssessmentTypes DEF TypeOK, Cycle, Time
<1> QED BY <1>3 DEF level

LEMMA BeginCycleInv ==
  ASSUME CycleInv, NEW seen \in [Mounts -> Reading], NEW before \in Reading, NEW load \in LoadOutcomes,
         NEW saved \in SaveOutcomes, BeginCycle(seen, before, load, saved)
  PROVE  CycleInv'
<1> DEFINE level == IF proc.forced = LevelNone THEN assessedLevel(seen) ELSE proc.forced
           c == [now |-> clock, level |-> level, path |-> primaryMonitorPath(seen),
                 maxInode |-> assessedInodeLevel(seen), pressured |-> pressuredMount(seen),
                 before |-> before, last |-> before, measureErr |-> FALSE,
                 readable |-> proc.mode = "dry" \/ load # "error",
                 st |-> StateInMemory(load), freed |-> 0]
           file == FileAfterLoad(load)
<1>1. file \in State /\ RecordsSound(file, hist)
  BY FreshState, FreshSound DEF CycleInv, TypeOK, FileAfterLoad
<1>2. StateInMemory(load) \in State /\ RecordsSound(StateInMemory(load), hist)
  BY <1>1, FreshState, FreshSound DEF StateInMemory, CycleInv, TypeOK
<1>4. c \in Cycle
  BY BegunType DEF CycleInv
<1> HIDE DEF level
<1>5. c.st = StateInMemory(load) /\ c.now = clock
  OBVIOUS
<1>6. /\ hist' \in [Plugins -> History]
      /\ \A p \in Plugins : hist'[p].now = hist[p].now /\ hist[p].now <= hist'[p].now
  <2> DEFINE lost == proc.mode # "dry" /\ load = "corrupt"
  <2>1. PICK quiet \in BOOLEAN : hist' = HistoryAfterBegin(lost, quiet)
    BY DEF BeginCycle
  <2>3. lost \in BOOLEAN /\ hist \in [Plugins -> History]
    BY DEF CycleInv, TypeOK
  <2> HIDE DEF lost
  <2>2. /\ hist' \in [Plugins -> History]
        /\ \A p \in Plugins : hist'[p].now = hist[p].now
    BY <2>1, <2>3, BeganHistory
  <2> QED BY <2>2 DEF History, MaybeTime, Time, NoTime
<1>7. disk' \in {quietState(c), file}
  BY DEF BeginCycle, level
<1>8. cyc' \in {c, [c EXCEPT !.st = quietState(c)]}
  BY DEF BeginCycle, level
<1>9. report' \in [Plugins -> {"pending", "excluded"}]
  BY DEF BeginCycle
<1> HIDE DEF c, file
<1>10. quietState(c) \in State /\ RecordsSound(quietState(c), hist')
  <2>1. /\ quietState(c) \in State
        /\ \A p \in Plugins :
             /\ quietState(c).plugins[p].run = c.st.plugins[p].run
             /\ quietState(c).plugins[p].until \in {NoTime, c.st.plugins[p].until}
    BY <1>4, QuietStateType
  <2>2. c.st \in State /\ RecordsSound(c.st, hist) /\ hist \in [Plugins -> History]
    BY <1>2, <1>5 DEF CycleInv, TypeOK
  <2>3. \A p \in Plugins : /\ hist[p].now <= hist'[p].now
                            /\ quietState(c).plugins[p].run = c.st.plugins[p].run
                            /\ quietState(c).plugins[p].until \in {NoTime, c.st.plugins[p].until}
    BY <1>6, <2>1
  <2> QED BY <1>6, <2>1, <2>2, <2>3, SoundStable, SMTT(30)
<1>11. RecordsSound(file, hist') /\ RecordsSound(c.st, hist')
  <2>1. hist \in [Plugins -> History] /\ c.st \in State
        /\ file \in State /\ RecordsSound(file, hist) /\ RecordsSound(c.st, hist)
    BY <1>1, <1>2, <1>5 DEF CycleInv, TypeOK
  <2>2. RecordsSound(file, hist')
    BY <1>6, <2>1, SoundStable
  <2>3. RecordsSound(c.st, hist')
    BY <1>6, <2>1, SoundStable
  <2> QED BY <2>2, <2>3
<1>12. disk' \in State /\ RecordsSound(disk', hist')
  BY <1>1, <1>7, <1>10, <1>11
<1>13. cyc' \in Cycle /\ RecordsSound(cyc'.st, hist') /\ cyc'.now = clock
  BY <1>4, <1>5, <1>8, <1>10, <1>11 DEF Cycle
<1>14. phase' = "plugins" /\ UNCHANGED <<clock, wake, proc, wedged>>
  BY DEF BeginCycle
<1>15. tries' \in [Paths -> Nat]
  BY DEF BeginCycle, CycleInv, TypeOK
<1>16. TypeOK'
  BY <1>6, <1>9, <1>12, <1>13, <1>14, <1>15 DEF CycleInv, TypeOK, Verdicts
<1>17. HistoryPast'
  BY <1>6, <1>13, <1>14 DEF CycleInv, TypeOK, HistoryPast, Time
<1>18. IdleClean' /\ HoldBounded'
  BY <1>9, <1>14 DEF IdleClean, HoldBounded
<1> QED BY <1>12, <1>13, <1>16, <1>17, <1>18 DEF CycleInv

\* What the visits of a plugin share: a verdict on one plugin, which was pending.
LEMMA VisitInv ==
  ASSUME CycleInv, NEW p \in Plugins, NEW v \in Verdicts,
         phase = "plugins", Verdict(p, v), wedged' \subseteq Plugins,
         UNCHANGED <<disk, clock, wake, proc, phase, tries>>,
         cyc' \in Cycle, cyc'.now = cyc.now, cyc'.pressured = cyc.pressured,
         hist' \in [Plugins -> History], RecordsSound(cyc'.st, hist'),
         \A q \in Plugins : hist'[q].now = hist[q].now \/ (q = p /\ hist'[q].now = cyc.now),
         v \in {"cooldown", "byte_backoff", "zero_yield_backoff"} =>
           hist'[p].now # NoTime /\ cyc.now < hist'[p].now + LongestHold(v)
  PROVE  CycleInv'
<1>1. report' = [report EXCEPT ![p] = v] /\ report' \in [Plugins -> Verdicts]
  BY DEF Verdict, CycleInv, TypeOK
<1>2. TypeOK'
  BY <1>1 DEF CycleInv, TypeOK
<1>3. \A q \in Plugins : hist[q].now <= hist'[q].now /\ hist'[q].now <= cyc.now
  <2>1. \A q \in Plugins : hist[q].now <= cyc.now
    BY DEF CycleInv, HistoryPast
  <2>2. cyc.now \in Nat /\ \A q \in Plugins : hist[q].now \in Nat \cup {-1}
    BY DEF CycleInv, TypeOK, Cycle, History, MaybeTime, Time, NoTime
  <2> QED BY <2>1, <2>2
<1>4. HistoryPast'
  <2>1. cyc.now <= clock
    BY DEF CycleInv, HistoryPast
  <2>2. clock \in Nat /\ cyc.now \in Nat /\ \A q \in Plugins : hist'[q].now \in Nat \cup {-1}
    BY DEF CycleInv, TypeOK, Cycle, History, MaybeTime, Time, NoTime
  <2>3. \A q \in Plugins : hist'[q].now <= clock
    BY <1>3, <2>1, <2>2
  <2> QED BY <1>3, <2>1, <2>3 DEF HistoryPast
<1>5. IdleClean'
  BY DEF IdleClean
<1>6. RecordsSound(disk', hist')
  <2>1. disk' \in State /\ disk' = disk /\ RecordsSound(disk, hist) /\ hist \in [Plugins -> History]
    BY DEF CycleInv, TypeOK
  <2> QED BY <1>3, <2>1, SoundStable
<1>7. HoldBounded'
  <2> SUFFICES ASSUME NEW q \in Plugins,
                      report'[q] \in {"cooldown", "byte_backoff", "zero_yield_backoff"}
               PROVE  hist'[q].now # NoTime /\ cyc.now < hist'[q].now + LongestHold(report'[q])
    BY DEF HoldBounded, LongestHold
  <2>1. CASE q = p
    BY <1>1, <2>1 DEF CycleInv, TypeOK
  <2>2. CASE q # p
    <3>1. report'[q] = report[q] /\ hist'[q].now = hist[q].now
      BY <1>1, <2>2 DEF CycleInv, TypeOK
    <3> QED BY <3>1 DEF CycleInv, HoldBounded
  <2> QED BY <2>1, <2>2
<1> QED BY <1>2, <1>4, <1>5, <1>6, <1>7 DEF CycleInv

\* The watchdog's verdicts say whether a run is left behind.
LEMMA WatchdogWedged ==
  ASSUME TypeOK, NEW p \in Plugins, NEW v, StillWedged(p) \/ Started(p, v)
  PROVE  wedged' \subseteq Plugins
BY DEF TypeOK, StillWedged, Started

LEMMA VisitIndependentInv ==
  ASSUME CycleInv, NEW p \in Plugins, NEW s \in Reading, VisitIndependent(p, s)
  PROVE  CycleInv'
<1>1. PICK v \in {"plugin_wedged", "planned", "ran", "failed", "abandoned"} :
        Verdict(p, v) /\ (StillWedged(p) \/ Started(p, v))
  BY DEF VisitIndependent, StillWedged, Started
<1>2. wedged' \subseteq Plugins
  BY <1>1, WatchdogWedged DEF CycleInv
<1>3. cyc \in Cycle /\ clock \in Time
  BY DEF CycleInv, TypeOK
<1> DEFINE n == IF cyc.level = LevelNone THEN cyc ELSE updateHostFreeAfter(cyc, s)
<1>4. n \in Cycle /\ n.st = cyc.st /\ n.now = cyc.now /\ n.pressured = cyc.pressured
  BY <1>3, MeasureType
<1>5. cyc' = n
  BY DEF VisitIndependent
<1> HIDE DEF n
<1>6. cyc' \in Cycle /\ cyc'.st = cyc.st /\ cyc'.now = cyc.now /\ cyc'.pressured = cyc.pressured
  BY <1>3, <1>4, <1>5
<1>7. phase = "plugins" /\ UNCHANGED <<disk, clock, wake, proc, phase, tries, hist>>
  BY DEF VisitIndependent, Reached
<1>8. hist' \in [Plugins -> History] /\ RecordsSound(cyc'.st, hist')
  BY <1>6, <1>7 DEF CycleInv, TypeOK
<1>9. v \in Verdicts /\ v \notin {"cooldown", "byte_backoff", "zero_yield_backoff"}
  BY DEF Verdicts, Ran
<1> QED BY <1>1, <1>2, <1>6, <1>7, <1>8, <1>9, VisitInv

LEMMA SkipPluginInv ==
  ASSUME CycleInv, NEW p \in Plugins, SkipPlugin(p)
  PROVE  CycleInv'
<1> DEFINE v == Gate(cyc, p)
<1>1. /\ Verdict(p, v) /\ phase = "plugins" /\ v # "open" /\ UNCHANGED cyc
      /\ UNCHANGED <<disk, clock, wake, proc, phase, tries, hist, wedged>>
  BY DEF SkipPlugin, Reached
<1>2. cyc \in Cycle /\ clock \in Time /\ wedged \subseteq Plugins
  BY DEF CycleInv, TypeOK
<1>3. cyc' \in Cycle /\ cyc'.st = cyc.st /\ cyc'.now = cyc.now /\ cyc'.pressured = cyc.pressured
  BY <1>1, <1>2
<1>4. hist' \in [Plugins -> History] /\ RecordsSound(cyc'.st, hist')
  BY <1>1, <1>3 DEF CycleInv, TypeOK
<1>5. v \in Verdicts
  <2>1. pluginCooldown(cyc).reason \in {"cooldown", "byte_backoff", "none"}
    BY DEF pluginCooldown
  <2>2. cooldownHolds(cyc, p) => pluginCooldown(cyc).reason # "none"
    <3> SUFFICES ASSUME cooldownHolds(cyc, p), pluginCooldown(cyc).reason = "none"
                 PROVE  FALSE
      OBVIOUS
    <3>1. pluginCooldown(cyc).interval = 0
      BY DEF pluginCooldown
    <3>2. cooldownRemaining(cyc.st.plugins[p], cyc.level, cyc.now, 0) > 0
      BY <3>1 DEF cooldownHolds
    <3>3. cyc.now \in Nat /\ cyc.st.plugins[p].run \in Nat \cup {-1}
      BY <1>2 DEF Cycle, State, PluginRecord, MaybeTime, Time, NoTime
    <3> QED BY <3>2, <3>3 DEF cooldownRemaining, NoTime
  <2> QED BY <1>1, <2>1, <2>2 DEF Gate, Verdicts, Skips
<1>6. v \in {"cooldown", "byte_backoff", "zero_yield_backoff"} =>
        hist'[p].now # NoTime /\ cyc.now < hist'[p].now + LongestHold(v)
  BY <1>1, GateBounded DEF CycleInv
<1> HIDE DEF v
<1> QED BY <1>1, <1>2, <1>3, <1>4, <1>5, <1>6, VisitInv

LEMMA PlanPluginInv ==
  ASSUME CycleInv, NEW p \in Plugins, PlanPlugin(p)
  PROVE  CycleInv'
<1>1. PICK v \in {"plugin_wedged", "planned", "abandoned"} :
        Verdict(p, v) /\ (StillWedged(p) \/ Started(p, v))
  BY DEF PlanPlugin, StillWedged, Started
<1>2. wedged' \subseteq Plugins
  BY <1>1, WatchdogWedged DEF CycleInv
<1>3. /\ phase = "plugins" /\ UNCHANGED cyc
      /\ UNCHANGED <<disk, clock, wake, proc, phase, tries, hist>>
  BY DEF PlanPlugin, Reached
<1>4. cyc' \in Cycle /\ cyc'.st = cyc.st /\ cyc'.now = cyc.now /\ cyc'.pressured = cyc.pressured
  BY <1>3 DEF CycleInv, TypeOK
<1>5. hist' \in [Plugins -> History] /\ RecordsSound(cyc'.st, hist')
  BY <1>3, <1>4 DEF CycleInv, TypeOK
<1>6. v \in Verdicts /\ v \notin {"cooldown", "byte_backoff", "zero_yield_backoff"}
  BY DEF Verdicts, Ran
<1> QED BY <1>1, <1>2, <1>3, <1>4, <1>5, <1>6, VisitInv

\* A run leaves a sound record: it is dated by the cycle, as the history is, or
\* not at all when the state could not be loaded.
LEMMA RunSound ==
  ASSUME CycleInv, NEW p \in Plugins, NEW b \in Nat, phase = "plugins",
         hist' = HistoryAfterRun(p, b), NEW c \in Cycle, c.st = recordRun(cyc, p, b).st
  PROVE  /\ hist' \in [Plugins -> History]
         /\ \A q \in Plugins : hist'[q].now = hist[q].now \/ (q = p /\ hist'[q].now = cyc.now)
         /\ RecordsSound(c.st, hist')
<1> DEFINE n == recordRun(cyc, p, b)
<1>1. cyc \in Cycle /\ cyc.now \in Nat /\ cyc.level \in CleanupLevel
      /\ hist \in [Plugins -> History] /\ proc \in Processes /\ RecordsSound(cyc.st, hist)
  BY DEF CycleInv, TypeOK, Cycle, Time
<1>2. /\ hist' \in [Plugins -> History] /\ hist'[p].now = cyc.now
      /\ \A q \in Plugins : q # p => hist'[q] = hist[q]
  <2> DEFINE h == [hist[p] EXCEPT !.now = cyc.now, !.level = cyc.level,
                                  !.freed = b >= MinYield, !.saved = FALSE, !.episode = TRUE]
  <2>1. (b >= MinYield) \in BOOLEAN
    OBVIOUS
  <2>2. h \in History /\ h.now = cyc.now
    BY <1>1, <2>1 DEF History, MaybeTime, Time
  <2>3. hist' = [hist EXCEPT ![p] = h]
    BY DEF HistoryAfterRun
  <2> HIDE DEF h
  <2> QED BY <1>1, <2>2, <2>3
<1>3. /\ n \in Cycle
      /\ \A q \in Plugins : q # p => n.st.plugins[q] = cyc.st.plugins[q]
      /\ ~ cyc.readable => n = cyc
      /\ cyc.readable => /\ n.st.plugins[p].run \in Nat /\ n.st.plugins[p].run <= cyc.now
                         /\ n.st.plugins[p].until # NoTime =>
                              n.st.plugins[p].until <= cyc.now + ZeroYieldMax
  BY <1>1, RecordRunType
<1> HIDE DEF n
<1>4. RecordsSound(n.st, hist')
  <2>1. CASE cyc.readable
    <3> SUFFICES ASSUME NEW q \in Plugins
                 PROVE  LET r == n.st.plugins[q]
                        IN  /\ r.run # NoTime => hist'[q].now # NoTime /\ r.run <= hist'[q].now
                            /\ r.until # NoTime => r.run # NoTime /\ r.until <= hist'[q].now + ZeroYieldMax
      BY DEF RecordsSound
    <3>1. CASE q = p
      BY <1>1, <1>2, <1>3, <2>1, <3>1 DEF NoTime
    <3>2. CASE q # p
      BY <1>1, <1>2, <1>3, <3>2 DEF RecordsSound
    <3> QED BY <3>1, <3>2
  <2>2. CASE ~ cyc.readable
    <3>1. \A q \in Plugins : hist[q].now <= hist'[q].now
      <4>1. \A q \in Plugins : hist[q].now <= cyc.now /\ hist[q].now \in Nat \cup {-1}
        BY <1>1 DEF CycleInv, HistoryPast, History, MaybeTime, Time, NoTime
      <4> QED BY <1>1, <1>2, <4>1
    <3>2. n.st = cyc.st /\ cyc.st \in State
      BY <1>1, <1>3, <2>2 DEF Cycle
    <3> QED BY <1>1, <1>2, <3>1, <3>2, SoundStable
  <2> QED BY <2>1, <2>2
<1> QED BY <1>1, <1>2, <1>4 DEF n

LEMMA RunPluginInv ==
  ASSUME CycleInv, NEW p \in Plugins, NEW bytes \in Yields, NEW s \in Reading,
         RunPlugin(p, bytes, s)
  PROVE  CycleInv'
<1>1. phase = "plugins" /\ UNCHANGED <<disk, clock, wake, proc, phase, tries>>
  BY DEF RunPlugin, Reached
<1>2. cyc \in Cycle /\ clock \in Time /\ proc \in Processes /\ bytes \in Nat
  BY CycleAssumption DEF CycleInv, TypeOK
<1>3. ASSUME NEW b \in Nat, NEW v \in Ran, NEW c \in Cycle, Started(p, v),
             c.st = recordRun(cyc, p, b).st, c.now = cyc.now, c.pressured = cyc.pressured,
             cyc' = c, hist' = HistoryAfterRun(p, b)
      PROVE  CycleInv'
  <2>1. cyc' \in Cycle /\ cyc'.st = c.st /\ cyc'.now = cyc.now /\ cyc'.pressured = cyc.pressured
    BY <1>2, <1>3
  <2>2. /\ hist' \in [Plugins -> History]
        /\ \A q \in Plugins : hist'[q].now = hist[q].now \/ (q = p /\ hist'[q].now = cyc.now)
        /\ RecordsSound(cyc'.st, hist')
    BY <1>1, <1>3, <2>1, RunSound
  <2>3. wedged' \subseteq Plugins /\ Verdict(p, v)
    <3>1. Verdict(p, v)
      BY <1>3 DEF Started
    <3>2. wedged' \subseteq Plugins
      BY <1>3, WatchdogWedged DEF CycleInv
    <3> QED BY <3>1, <3>2
  <2>4. v \in Verdicts /\ v \notin {"cooldown", "byte_backoff", "zero_yield_backoff"}
    BY DEF Verdicts, Ran
  <2> QED BY <1>1, <2>1, <2>2, <2>3, <2>4, VisitInv
<1>4. CASE /\ Started(p, "ran")
           /\ cyc' = updateHostFreeAfter([recordRun(cyc, p, bytes) EXCEPT !.freed = @ + bytes], s)
           /\ hist' = HistoryAfterRun(p, bytes)
  <2> DEFINE n == recordRun(cyc, p, bytes)
             m == [n EXCEPT !.freed = @ + bytes]
             c == updateHostFreeAfter(m, s)
  <2>1. n \in Cycle /\ n.now = cyc.now /\ n.pressured = cyc.pressured
    BY <1>2, RecordRunType
  <2> HIDE DEF n
  <2>2. m \in Cycle /\ m.st = n.st /\ m.now = cyc.now /\ m.pressured = cyc.pressured
    BY <1>2, <2>1 DEF Cycle
  <2> HIDE DEF m
  <2>3. c \in Cycle /\ c.st = n.st /\ c.now = cyc.now /\ c.pressured = cyc.pressured
    BY <2>2, MeasureType
  <2>4. cyc' = c
    BY <1>4 DEF c, m, n
  <2>5. c.st = recordRun(cyc, p, bytes).st
    BY <2>3 DEF n
  <2>6. "ran" \in Ran
    BY DEF Ran
  <2> HIDE DEF c
  <2> QED BY <1>2, <1>3, <1>4, <2>3, <2>4, <2>5, <2>6
<1>5. ASSUME NEW v \in {"failed", "abandoned"}, NEW b \in Nat, Started(p, v),
             cyc' = recordRun(cyc, p, b), hist' = HistoryAfterRun(p, b)
      PROVE  CycleInv'
  <2> DEFINE n == recordRun(cyc, p, b)
  <2>1. n \in Cycle /\ n.now = cyc.now /\ n.pressured = cyc.pressured
    BY <1>2, RecordRunType
  <2>2. v \in Ran
    BY DEF Ran
  <2> QED BY <1>3, <1>5, <2>1, <2>2
<1>6. CASE StillWedged(p) /\ UNCHANGED <<cyc, hist>>
  <2>1. Verdict(p, "plugin_wedged") /\ wedged' \subseteq Plugins
    BY <1>6 DEF StillWedged, CycleInv, TypeOK
  <2>2. cyc' \in Cycle /\ cyc'.st = cyc.st /\ cyc'.now = cyc.now /\ cyc'.pressured = cyc.pressured
    BY <1>2, <1>6
  <2>3. hist' \in [Plugins -> History] /\ RecordsSound(cyc'.st, hist')
    BY <1>6, <2>2 DEF CycleInv, TypeOK
  <2>4. "plugin_wedged" \in Verdicts
    BY DEF Verdicts
  <2> QED BY <1>1, <1>6, <2>1, <2>2, <2>3, <2>4, VisitInv
<1> QED BY <1>2, <1>4, <1>5, <1>6 DEF RunPlugin

LEMMA IdleReport ==
  /\ NoReport \in [Plugins -> Verdicts]
  /\ \A p \in Plugins : NoReport[p] \notin {"cooldown", "byte_backoff", "zero_yield_backoff"}
BY DEF NoReport, Verdicts

\* Ending a cycle or a process leaves the records of the state file sound.
LEMMA IdleInv ==
  ASSUME CycleInv, disk' \in State, hist' \in [Plugins -> History], RecordsSound(disk', hist'),
         \A p \in Plugins : hist'[p].now = hist[p].now,
         clock' = clock, wake' \in Time, proc' \in Processes, wedged' \subseteq Plugins,
         phase' \in {"idle", "exited"}, cyc' = IdleCycle, report' = NoReport,
         tries' \in [Paths -> Nat]
  PROVE  CycleInv'
<1>1. TypeOK'
  BY IdleCycleType, IdleReport DEF CycleInv, TypeOK
<1>2. RecordsSound(cyc'.st, hist')
  <2>1. cyc'.st = newCleanupState
    BY DEF IdleCycle
  <2> QED BY <2>1, FreshSound
<1>3. HistoryPast'
  BY DEF CycleInv, HistoryPast
<1>4. IdleClean'
  BY DEF IdleClean, IdleCycle, NoReport, newCleanupState
<1>5. HoldBounded'
  BY IdleReport DEF HoldBounded
<1> QED BY <1>1, <1>2, <1>3, <1>4, <1>5 DEF CycleInv

LEMMA EndCycleInv ==
  ASSUME CycleInv, NEW s \in Reading, NEW save \in SaveOutcomes, EndCycle(s, save)
  PROVE  CycleInv'
<1> DEFINE c == updateHostFreeAfter(cyc, s)
           n == withByteProgress(withInodeProgress(c))
<1>1. cyc \in Cycle /\ hist \in [Plugins -> History] /\ clock \in Nat
  BY DEF CycleInv, TypeOK, Time
<1>2. c \in Cycle /\ c.st = cyc.st /\ c.path \in Paths
  BY <1>1, MeasureType DEF Cycle
<1>3. disk' \in {n.st, disk} /\ hist' \in {HistoryAfterSave, hist}
  BY DEF EndCycle
<1>4. tries' \in [Paths -> Nat]
  <2>1. tries' = tries \/ \E saved : tries' = TriesAfter(c, saved)
    BY DEF EndCycle
  <2>2. tries \in [Paths -> Nat]
    BY DEF CycleInv, TypeOK
  <2> HIDE DEF c
  <2> QED BY <1>2, <2>1, <2>2 DEF TriesAfter
<1> HIDE DEF c
<1>5. n \in Cycle /\ n.st.plugins = c.st.plugins
  BY <1>2, ProgressType
<1> HIDE DEF n
<1>6. /\ hist' \in [Plugins -> History]
      /\ \A p \in Plugins : hist'[p].now = hist[p].now
  <2>1. \A p \in Plugins : BarrenRuns(hist[p]) \in Nat
    BY <1>1, StateAssumption DEF BarrenRuns, History
  <2>2. proc.digest \in Digests
    BY DEF CycleInv, TypeOK, Processes
  <2> DEFINE g(p) == [hist[p] EXCEPT !.saved = TRUE, !.digest = proc.digest,
                                     !.barren = BarrenRuns(hist[p])]
  <2>3. \A p \in Plugins : g(p) \in History /\ g(p).now = hist[p].now
    BY <1>1, <2>1, <2>2 DEF History
  <2>4. HistoryAfterSave = [p \in Plugins |-> IF report[p] \in Ran /\ p \notin Independent
                                              THEN g(p) ELSE hist[p]]
    BY DEF HistoryAfterSave
  <2> HIDE DEF g
  <2> QED BY <1>1, <1>3, <2>3, <2>4
<1>7. disk' \in State /\ RecordsSound(disk', hist')
  <2>1. n.st \in State /\ cyc.st \in State /\ disk \in State
    BY <1>1, <1>5 DEF Cycle, CycleInv, TypeOK
  <2>2. \A p \in Plugins : hist[p].now <= hist'[p].now
    BY <1>1, <1>6 DEF History, MaybeTime, Time, NoTime
  <2>3. RecordsSound(cyc.st, hist) /\ RecordsSound(disk, hist)
    BY DEF CycleInv
  <2>4. RecordsSound(n.st, hist')
    <3>1. n.st.plugins = cyc.st.plugins
      BY <1>2, <1>5
    <3> QED BY <1>1, <1>6, <2>1, <2>2, <2>3, <3>1, SoundStable
  <2>5. RecordsSound(disk, hist')
    BY <1>1, <1>6, <2>1, <2>2, <2>3, SoundStable
  <2> QED BY <1>3, <2>1, <2>4, <2>5
<1>8. /\ clock' = clock /\ wake' \in Time /\ proc' \in Processes /\ wedged' \subseteq Plugins
      /\ phase' \in {"idle", "exited"} /\ cyc' = IdleCycle /\ report' = NoReport
  BY <1>1, CycleAssumption DEF EndCycle, CycleInv, TypeOK, Time
<1> QED BY <1>4, <1>6, <1>7, <1>8, IdleInv

LEMMA RestartInv ==
  ASSUME CycleInv, Restart
  PROVE  CycleInv'
<1>1. /\ disk' \in State /\ hist' \in [Plugins -> History] /\ RecordsSound(disk', hist')
      /\ \A p \in Plugins : hist'[p].now = hist[p].now
      /\ tries' \in [Paths -> Nat] /\ clock' = clock
  BY DEF Restart, CycleInv, TypeOK
<1>2. /\ wake' \in Time /\ proc' \in Processes /\ wedged' \subseteq Plugins
      /\ phase' \in {"idle", "exited"} /\ cyc' = IdleCycle /\ report' = NoReport
  BY DEF Restart, CycleInv, TypeOK, Time
<1> QED BY <1>1, <1>2, IdleInv

\* Time passing and the return of an abandoned run leave the cycle alone.
LEMMA EnvironmentInv ==
  ASSUME CycleInv, clock' \in Time, clock <= clock', wedged' \subseteq Plugins,
         UNCHANGED <<disk, wake, proc, phase, cyc, report, hist, tries>>
  PROVE  CycleInv'
<1>1. TypeOK'
  BY DEF CycleInv, TypeOK
<1>2. RecordsSound(disk', hist') /\ RecordsSound(cyc'.st, hist') /\ IdleClean'
  BY DEF CycleInv, IdleClean, IdleCycle, NoReport, newCleanupState
<1>3. HistoryPast'
  <2>1. /\ clock \in Nat /\ clock' \in Nat /\ cyc.now \in Nat
        /\ \A p \in Plugins : hist[p].now \in Nat \cup {-1}
    BY DEF CycleInv, TypeOK, Cycle, History, MaybeTime, Time, NoTime
  <2> QED BY <2>1 DEF CycleInv, HistoryPast
<1>4. HoldBounded'
  BY DEF CycleInv, HoldBounded, LongestHold
<1> QED BY <1>1, <1>2, <1>3, <1>4 DEF CycleInv

LEMMA NextInv == CycleInv /\ [Next]_vars => CycleInv'
<1> SUFFICES ASSUME CycleInv, [Next]_vars PROVE CycleInv'
  OBVIOUS
<1>1. ASSUME NEW seen \in [Mounts -> Reading], NEW before \in Reading, NEW load \in LoadOutcomes,
             NEW saved \in SaveOutcomes, BeginCycle(seen, before, load, saved)
      PROVE  CycleInv'
  BY <1>1, BeginCycleInv
<1>2. ASSUME NEW p \in Plugins, NEW s \in Reading, VisitIndependent(p, s) PROVE CycleInv'
  BY <1>2, VisitIndependentInv
<1>3. ASSUME NEW p \in Plugins, SkipPlugin(p) PROVE CycleInv'
  BY <1>3, SkipPluginInv
<1>4. ASSUME NEW p \in Plugins, PlanPlugin(p) PROVE CycleInv'
  BY <1>4, PlanPluginInv
<1>5. ASSUME NEW p \in Plugins, NEW bytes \in Yields, NEW s \in Reading, RunPlugin(p, bytes, s)
      PROVE  CycleInv'
  BY <1>5, RunPluginInv
<1>6. ASSUME NEW s \in Reading, NEW saved \in SaveOutcomes, EndCycle(s, saved) PROVE CycleInv'
  BY <1>6, EndCycleInv
<1>7. CASE Restart
  BY <1>7, RestartInv
<1>8. ASSUME NEW p \in Plugins, WedgedRunReturns(p) PROVE CycleInv'
  <2>1. clock \in Nat /\ wedged \subseteq Plugins
    BY DEF CycleInv, TypeOK, Time
  <2>2. /\ wedged' \subseteq Plugins /\ clock' \in Time /\ clock <= clock'
        /\ UNCHANGED <<disk, wake, proc, phase, cyc, report, hist, tries>>
    BY <1>8, <2>1 DEF WedgedRunReturns, Time
  <2> QED BY <2>2, EnvironmentInv
<1>9. CASE Tick
  <2>1. clock \in Nat /\ wedged \subseteq Plugins
    BY DEF CycleInv, TypeOK, Time
  <2> QED BY <1>9, <2>1, EnvironmentInv DEF Tick, Time
<1>10. CASE UNCHANGED vars
  <2>1. clock \in Nat /\ wedged \subseteq Plugins
    BY DEF CycleInv, TypeOK, Time
  <2> QED BY <1>10, <2>1, EnvironmentInv DEF vars, Time
<1> QED BY <1>1, <1>2, <1>3, <1>4, <1>5, <1>6, <1>7, <1>8, <1>9, <1>10 DEF Next

\* The inductive invariant holds in every state of the cycle.
THEOREM CycleInvariant == Spec => []CycleInv
BY InitInv, NextInv, PTL DEF Spec

\* Every variable of runCycle and of the state file keeps its type.
THEOREM CycleTypes == Spec => []TypeOK
<1>1. CycleInv => TypeOK
  BY DEF CycleInv
<1> QED BY <1>1, CycleInvariant, PTL

\* No backoff starves a plugin: for any number of plugins and mounts and any
\* policy, a plugin held back by pluginCooldown or zeroYieldSuppression really
\* ran, less than the cap of that backoff before the cycle began, whatever
\* restarts, failed saves and corrupt state files came between.
THEOREM HoldsAreBounded == Spec => []HoldBounded
<1>1. CycleInv => HoldBounded
  BY DEF CycleInv
<1> QED BY <1>1, CycleInvariant, PTL

-----------------------------------------------------------------------------
(* Intervals. *)

\* A plugin that has reached the limit has earned a hold,
LEMMA EarnedHoldType ==
  ASSUME NEW count \in Nat, count >= ZeroYieldLimit
  PROVE  EarnedHold(count) \in Nat \ {0}
<1>1. count - ZeroYieldLimit \in Nat
  BY StateAssumption
<1>2. ZeroYieldInterval[count - ZeroYieldLimit] \in Nat \ {0}
  BY <1>1, ZeroYieldIntervalIs, StateAssumption
<1>3. EarnedHold(count) = ZeroYieldInterval[count - ZeroYieldLimit]
  BY <1>1, IntervalIsCapped DEF EarnedHold
<1> QED BY <1>2, <1>3

\* and is held back for it when there is a limit.
LEMMA BackoffHolds ==
  ASSUME NEW count \in Nat, ZeroYieldLimit > 0, count >= ZeroYieldLimit
  PROVE  zeroYieldBackoff(count) = EarnedHold(count) /\ EarnedHold(count) \in Nat \ {0}
BY BackoffIsEarnedHold, EarnedHoldType

\* Below the limit, or with suppression disabled, there is no suppression.
LEMMA BackoffNeedsLimit ==
  ASSUME NEW count \in Nat, zeroYieldBackoff(count) > 0
  PROVE  count >= ZeroYieldLimit /\ ZeroYieldLimit > 0
BY StateAssumption DEF zeroYieldBackoff

-----------------------------------------------------------------------------
(* What happens to the history of one plugin. *)

LEMMA RunHistory ==
  ASSUME hist \in [Plugins -> History], NEW p \in Plugins, NEW b \in Nat,
         NEW k, k = HistoryAfterRun(p, b)
  PROVE  /\ \A q \in Plugins : q # p => k[q] = hist[q]
         /\ k[p].now = cyc.now /\ k[p].level = cyc.level
         /\ k[p].digest = hist[p].digest /\ k[p].barren = hist[p].barren
         /\ k[p].freed <=> b >= MinYield
         /\ ~ k[p].saved /\ k[p].episode
<1> DEFINE h == [hist[p] EXCEPT !.now = cyc.now, !.level = cyc.level,
                                !.freed = b >= MinYield, !.saved = FALSE, !.episode = TRUE]
<1>1. k = [hist EXCEPT ![p] = h]
  BY DEF HistoryAfterRun
<1>2. /\ h.now = cyc.now /\ h.level = cyc.level
      /\ h.digest = hist[p].digest /\ h.barren = hist[p].barren
      /\ h.freed <=> b >= MinYield
      /\ ~ h.saved /\ h.episode
  BY DEF History
<1> HIDE DEF h
<1> QED BY <1>1, <1>2

LEMMA SaveHistory ==
  ASSUME hist \in [Plugins -> History], NEW p \in Plugins
  PROVE  LET h == HistoryAfterSave[p]
         IN  /\ report[p] \notin Ran \/ p \in Independent => h = hist[p]
             /\ report[p] \in Ran /\ p \notin Independent =>
                  /\ h.now = hist[p].now /\ h.level = hist[p].level
                  /\ h.episode = hist[p].episode
                  /\ h.saved /\ h.digest = proc.digest /\ h.barren = BarrenRuns(hist[p])
<1> DEFINE g == [hist[p] EXCEPT !.saved = TRUE, !.digest = proc.digest,
                                !.barren = BarrenRuns(hist[p])]
<1>1. HistoryAfterSave[p] = IF report[p] \in Ran /\ p \notin Independent THEN g ELSE hist[p]
  BY DEF HistoryAfterSave
<1>2. /\ g.now = hist[p].now /\ g.level = hist[p].level /\ g.episode = hist[p].episode
      /\ g.saved /\ g.digest = proc.digest /\ g.barren = BarrenRuns(hist[p])
  BY DEF History
<1> HIDE DEF g
<1> QED BY <1>1, <1>2

-----------------------------------------------------------------------------
(* What records know of the history. *)

\* A state file set aside knows nothing, and nothing is expected of it.
LEMMA FreshKnown ==
  ASSUME NEW p \in Plugins, NEW h, ~ h.saved, h.barren = 0
  PROVE  RecordKnown(p, ZeroRecord, h)
BY StateAssumption DEF RecordKnown, ZeroRecord

\* Less may be known of a record: that its run was saved, or that it belongs to
\* the present episode, unless the record holds a retry time, and later runs.
LEMMA KnownLess ==
  ASSUME NEW p \in Plugins, NEW r, NEW h, NEW k, RecordKnown(p, r, h),
         k.digest = h.digest, k.barren = h.barren,
         k.saved => h.saved /\ k.now = h.now /\ k.level = h.level /\ (k.episode => h.episode),
         r.until # NoTime => k.episode /\ r.until <= k.now + EarnedHold(k.barren)
  PROVE  RecordKnown(p, r, k)
BY DEF RecordKnown

\* The end of an episode clears the retry time.
LEMMA KnownLifted ==
  ASSUME NEW p \in Plugins, NEW r, NEW n, NEW h, NEW k, RecordKnown(p, r, h),
         n.run = r.run, n.level = r.level, n.digest = r.digest, n.zero = r.zero, n.until = NoTime,
         k.digest = h.digest, k.barren = h.barren, ~ k.episode,
         k.saved => h.saved /\ k.now = h.now /\ k.level = h.level
  PROVE  RecordKnown(p, n, k)
BY DEF RecordKnown

LEMMA YieldCases ==
  ASSUME NEW b \in Nat
  PROVE  b >= MinYield <=> ~ (b < MinYield)
<1>1. MinYield \in Nat
  BY CycleAssumption
<1> QED BY <1>1

\* recordRun keeps up with the history that a save of the cycle will make.
LEMMA RunKnown ==
  ASSUME NEW p \in Plugins, NEW r \in PluginRecord, NEW h \in History, RecordKnown(p, r, h),
         NEW level \in 0 .. 4, NEW now \in Nat, NEW zero \in BOOLEAN, NEW d \in Digests,
         NEW n, n = recordPluginYield(recordPluginRun(r, level, now), zero, now, d, p \notin Exempt),
         NEW k, k.saved, k.now = now, k.level = level, k.digest = d, k.episode,
         NEW before, before = IF h.digest = d THEN h.barren ELSE 0,
         k.barren = IF ~ zero \/ ZeroYieldLimit = 0 THEN 0 ELSE before + 1
  PROVE  RecordKnown(p, n, k)
<1> DEFINE r1 == recordPluginRun(r, level, now)
           old == IF r1.digest = d THEN r1.zero ELSE 0
           count == IF zero /\ ZeroYieldLimit > 0 THEN old + 1 ELSE 0
           hold == IF p \notin Exempt THEN zeroYieldBackoff(count) ELSE 0
           until == IF hold > 0 THEN Stamp(now + hold) ELSE NoTime
<1>1. r1 \in PluginRecord /\ r1.run = Stamp(now) /\ r1.level = level
      /\ r1.digest = r.digest /\ r1.zero = r.zero
  BY StampType DEF recordPluginRun, PluginRecord, MaybeTime, Time
<1>2. n = [r1 EXCEPT !.digest = d, !.zero = count, !.until = until]
  BY DEF recordPluginYield
<1>3. old = (IF r.digest = d THEN r.zero ELSE 0) /\ r.zero \in Nat
  BY <1>1 DEF PluginRecord
<1> HIDE DEF r1
<1>4. count \in Nat
  BY <1>3
<1> HIDE DEF count, until
<1>5. n.run = Stamp(now) /\ n.level = level /\ n.digest = d /\ n.zero = count /\ n.until = until
  BY <1>1, <1>2 DEF PluginRecord
<1>6. d # NoDigest
  BY CycleAssumption
<1>7. before = old /\ old \in Nat
  BY <1>3, <1>6 DEF RecordKnown
<1>8. k.barren = count
  BY <1>7, StateAssumption DEF count
<1>9. hold > 0 => count >= ZeroYieldLimit /\ ZeroYieldLimit > 0 /\ p \notin Exempt
  BY <1>4, BackoffNeedsLimit
<1>10. count >= ZeroYieldLimit /\ ZeroYieldLimit > 0 /\ p \notin Exempt =>
         /\ until = Stamp(now + EarnedHold(count)) /\ until \in Nat
         /\ until <= now + EarnedHold(count)
  <2> SUFFICES ASSUME count >= ZeroYieldLimit, ZeroYieldLimit > 0, p \notin Exempt
               PROVE  /\ until = Stamp(now + EarnedHold(count)) /\ until \in Nat
                      /\ until <= now + EarnedHold(count)
    OBVIOUS
  <2>1. hold = EarnedHold(count) /\ hold \in Nat \ {0}
    BY <1>4, BackoffHolds
  <2> HIDE DEF hold
  <2>2. until = Stamp(now + hold) /\ now + hold \in Nat
    BY <2>1 DEF until
  <2> QED BY <2>1, <2>2, StampType
<1>11. until # NoTime => hold > 0
  BY DEF until
<1> HIDE DEF hold
<1>12. k.now # NoTime
  BY DEF NoTime
<1> QED BY <1>5, <1>8, <1>9, <1>10, <1>11, <1>12 DEF RecordKnown

-----------------------------------------------------------------------------
(* The records know the history: the inductive invariant of the backoffs. *)

\* The none branch lifts the suppressions and keeps the rest of the records.
LEMMA QuietRecords ==
  ASSUME NEW c \in Cycle
  PROVE  /\ ~ (proc.mode # "dry" /\ c.readable) => quietState(c) = c.st
         /\ proc.mode # "dry" /\ c.readable =>
              \A p \in Plugins :
                LET n == quietState(c).plugins[p]
                    r == c.st.plugins[p]
                IN  /\ n.run = r.run /\ n.level = r.level /\ n.digest = r.digest
                    /\ n.zero = r.zero /\ n.until = NoTime
<1> DEFINE released == IF c.before.ok /\ (byteBackoffEngaged(c.st, c.path)
                                            \/ byteNoProgressPending(c.st, c.path))
                       THEN recordByteProgress(c.st, c.path, LevelNone, TRUE, FALSE, FALSE)
                       ELSE c.st
<1>1. quietState(c) = IF proc.mode # "dry" /\ c.readable
                      THEN liftZeroYieldSuppression(released) ELSE c.st
  BY DEF quietState
<1>2. released \in State /\ released.plugins = c.st.plugins
  <2> DEFINE b == [level |-> 0, count |-> 0, engaged |-> FALSE]
             n == recordByteProgress(c.st, c.path, LevelNone, TRUE, FALSE, FALSE)
  <2>1. b \in ByteRecord /\ c.st \in State /\ c.path \in Paths
    BY DEF ByteRecord, Cycle
  <2>2. n = [c.st EXCEPT !.bytes[c.path] = b]
    BY Zenon DEF recordByteProgress, LevelNone
  <2>3. released = n \/ released = c.st
    OBVIOUS
  <2> HIDE DEF b, n, released
  <2>4. n \in State /\ n.plugins = c.st.plugins
    BY <2>1, <2>2, ByteRecordUpdate
  <2> QED BY <2>1, <2>3, <2>4
<1> HIDE DEF released
<1>3. ASSUME NEW p \in Plugins
      PROVE  LET n == liftZeroYieldSuppression(released).plugins[p]
                 r == c.st.plugins[p]
             IN  /\ n.run = r.run /\ n.level = r.level /\ n.digest = r.digest
                 /\ n.zero = r.zero /\ n.until = NoTime
  <2>1. released.plugins[p] \in PluginRecord
    BY <1>2 DEF State
  <2>2. liftZeroYieldSuppression(released).plugins[p] = [released.plugins[p] EXCEPT !.until = NoTime]
    BY <1>2 DEF liftZeroYieldSuppression, State
  <2> QED BY <1>2, <2>1, <2>2 DEF PluginRecord
<1> QED BY <1>1, <1>3

LEMMA EarnedInit == Init => EarnedInv
<1> SUFFICES ASSUME Init PROVE EarnedInv
  OBVIOUS
<1>1. ASSUME NEW p \in Plugins PROVE RecordKnown(p, disk.plugins[p], hist[p])
  <2>1. disk.plugins[p] = ZeroRecord /\ ~ hist[p].saved /\ hist[p].barren = 0
    BY DEF Init, newCleanupState, NoRun
  <2> QED BY <2>1, FreshKnown
<1>2. phase = "idle" /\ \A p \in Plugins : report[p] = "excluded"
  BY DEF Init, NoReport
<1> QED BY <1>1, <1>2 DEF EarnedInv, RecordsInv, Recording, HoldJustified, ZeroYieldEarned

\* A report that holds nothing back needs no justification.
LEMMA NothingHeld ==
  ASSUME \A p \in Plugins : report'[p] \notin {"cooldown", "byte_backoff", "zero_yield_backoff"}
  PROVE  HoldJustified' /\ ZeroYieldEarned'
BY DEF HoldJustified, ZeroYieldEarned

\* The state file, as a cycle loads it, knows the history that the load leaves.
LEMMA LoadKnown ==
  ASSUME CycleInv, RecordsInv, NEW load, NEW p \in Plugins, NEW h,
         h = HistoryAfterBegin(proc.mode # "dry" /\ load = "corrupt", FALSE)[p]
  PROVE  RecordKnown(p, FileAfterLoad(load).plugins[p], h)
<1> DEFINE lost == proc.mode # "dry" /\ load = "corrupt"
<1>1. /\ h.now = hist[p].now /\ h.level = hist[p].level /\ h.digest = hist[p].digest
      /\ h.saved <=> hist[p].saved /\ ~ lost
      /\ h.episode <=> hist[p].episode
      /\ h.barren = IF lost THEN 0 ELSE hist[p].barren
  <2>1. hist[p] \in History
    BY DEF CycleInv, TypeOK
  <2>2. h = [hist[p] EXCEPT !.saved = hist[p].saved /\ ~ lost,
                            !.episode = hist[p].episode /\ ~ FALSE,
                            !.barren = IF lost THEN 0 ELSE hist[p].barren]
    BY DEF HistoryAfterBegin
  <2> HIDE DEF lost
  <2> QED BY <2>1, <2>2 DEF History
<1>2. RecordKnown(p, disk.plugins[p], hist[p])
  BY DEF RecordsInv
<1>3. CASE lost
  <2>1. FileAfterLoad(load).plugins[p] = ZeroRecord
    BY <1>3 DEF FileAfterLoad, newCleanupState
  <2> QED BY <1>1, <1>3, <2>1, FreshKnown
<1>4. CASE ~ lost
  <2>1. FileAfterLoad(load) = disk
    BY <1>4 DEF FileAfterLoad
  <2>2. disk.plugins[p].until # NoTime =>
          h.episode /\ disk.plugins[p].until <= h.now + EarnedHold(h.barren)
    BY <1>1, <1>2, <1>4 DEF RecordKnown
  <2> QED BY <1>1, <1>2, <1>4, <2>1, <2>2, KnownLess
<1> QED BY <1>3, <1>4

LEMMA BeginCycleEarned ==
  ASSUME CycleInv, EarnedInv, NEW seen \in [Mounts -> Reading], NEW before \in Reading,
         NEW load \in LoadOutcomes, NEW saved \in SaveOutcomes,
         BeginCycle(seen, before, load, saved)
  PROVE  EarnedInv'
<1> DEFINE level == IF proc.forced = LevelNone THEN assessedLevel(seen) ELSE proc.forced
           c == [now |-> clock, level |-> level, path |-> primaryMonitorPath(seen),
                 maxInode |-> assessedInodeLevel(seen), pressured |-> pressuredMount(seen),
                 before |-> before, last |-> before, measureErr |-> FALSE,
                 readable |-> proc.mode = "dry" \/ load # "error",
                 st |-> StateInMemory(load), freed |-> 0]
           file == FileAfterLoad(load)
           lost == proc.mode # "dry" /\ load = "corrupt"
           quiet == level = LevelNone /\ proc.mode # "dry" /\ c.readable
           kept == quiet /\ (saved \/ quietState(c) = file)
<1>1. /\ phase' = "plugins" /\ proc' = proc
      /\ cyc' = IF level = LevelNone THEN [c EXCEPT !.st = quietState(c)] ELSE c
      /\ report' = [p \in Plugins |->
                      IF p \in proc.filter /\ (level # LevelNone \/ p \in Independent)
                      THEN "pending" ELSE "excluded"]
      /\ disk' = IF kept THEN quietState(c) ELSE file
      /\ hist' = HistoryAfterBegin(lost, kept)
  BY DEF BeginCycle
<1>2. c \in Cycle
  BY BegunType DEF CycleInv
<1>3. /\ c.st = StateInMemory(load) /\ c.level = level
      /\ c.readable <=> proc.mode = "dry" \/ load # "error"
  OBVIOUS
<1>4. proc.mode # "dry" /\ c.readable => c.st = file
  BY <1>3 DEF StateInMemory
<1>5. kept \in BOOLEAN /\ lost \in BOOLEAN /\ hist \in [Plugins -> History]
  BY DEF CycleInv, TypeOK
<1> HIDE DEF c
<1>6. \A p \in Plugins : RecordKnown(p, file.plugins[p], HistoryAfterBegin(lost, FALSE)[p])
  BY LoadKnown DEF EarnedInv
<1>7. kept => level = LevelNone /\ proc.mode # "dry" /\ c.readable
  OBVIOUS
<1> HIDE DEF kept, lost, level, file
<1>8. cyc'.level = level /\ (cyc'.readable <=> c.readable)
      /\ cyc'.st = IF level = LevelNone THEN quietState(c) ELSE c.st
  BY <1>1, <1>2, <1>3 DEF Cycle
<1>9. \A p \in Plugins : RecordKnown(p, disk'.plugins[p], hist'[p])
  <2> SUFFICES ASSUME NEW p \in Plugins PROVE RecordKnown(p, disk'.plugins[p], hist'[p])
    OBVIOUS
  <2> DEFINE h == HistoryAfterBegin(lost, FALSE)[p]
             k == HistoryAfterBegin(lost, TRUE)[p]
  <2>1. RecordKnown(p, file.plugins[p], h)
    BY <1>6
  <2>2. /\ h.now = hist[p].now /\ h.level = hist[p].level /\ h.digest = hist[p].digest
        /\ h.saved <=> hist[p].saved /\ ~ lost
        /\ h.barren = IF lost THEN 0 ELSE hist[p].barren
    BY <1>5 DEF HistoryAfterBegin, History
  <2>3. /\ k.now = hist[p].now /\ k.level = hist[p].level /\ k.digest = hist[p].digest
        /\ k.saved <=> hist[p].saved /\ ~ lost
        /\ ~ k.episode
        /\ k.barren = IF lost THEN 0 ELSE hist[p].barren
    BY <1>5 DEF HistoryAfterBegin, History
  <2> HIDE DEF h, k
  <2>4. CASE kept
    <3>1. hist'[p] = k
      BY <1>1, <1>5, <2>4 DEF k
    <3> DEFINE n == quietState(c).plugins[p]
               r == file.plugins[p]
    <3>2. n.run = r.run /\ n.level = r.level /\ n.digest = r.digest
          /\ n.zero = r.zero /\ n.until = NoTime
      BY <1>2, <1>4, <1>7, <2>4, QuietRecords
    <3>3. disk'.plugins[p] = n
      BY <1>1, <2>4
    <3> HIDE DEF n, r
    <3>4. RecordKnown(p, r, h)
      BY <2>1 DEF r
    <3> QED BY <2>2, <2>3, <3>1, <3>2, <3>3, <3>4, KnownLifted
  <2>5. CASE ~ kept
    <3>1. hist'[p] = h
      BY <1>1, <1>5, <2>5 DEF h
    <3> QED BY <1>1, <2>1, <2>5, <3>1
  <2> QED BY <2>4, <2>5
<1>10. \A p \in Plugins : report'[p] \in {"pending", "excluded"}
  BY <1>1
<1>11. ASSUME Recording', NEW p \in Plugins
       PROVE  RecordKnown(p, cyc'.st.plugins[p], HistoryAfterSave'[p])
  <2>1. cyc'.readable /\ proc.mode # "dry" /\ level # LevelNone
    BY <1>1, <1>8, <1>11 DEF Recording
  <2>2. cyc'.st = file /\ ~ kept
    BY <1>4, <1>7, <1>8, <2>1
  <2>3. hist' \in [Plugins -> History] /\ hist' = HistoryAfterBegin(lost, FALSE)
    <3>1. hist' = HistoryAfterBegin(lost, FALSE)
      BY <1>1, <1>5, <2>2
    <3>2. HistoryAfterBegin(lost, FALSE) \in [Plugins -> History]
      BY <1>5, BeganHistory
    <3> QED BY <3>1, <3>2
  <2>4. HistoryAfterSave'[p] = hist'[p]
    BY <1>10 DEF HistoryAfterSave, Ran
  <2> QED BY <1>6, <2>2, <2>3, <2>4
<1>12. ASSUME proc'.mode = "dry", NEW p \in Plugins PROVE cyc'.st.plugins[p] = ZeroRecord
  <2>1. c.st = newCleanupState /\ quietState(c) = c.st
    BY <1>1, <1>2, <1>3, <1>12, QuietRecords DEF StateInMemory
  <2> QED BY <1>8, <2>1 DEF newCleanupState
<1>13. ASSUME cyc'.level = LevelNone, NEW p \in LadderPlugins PROVE report'[p] # "pending"
  BY <1>1, <1>8, <1>13 DEF LadderPlugins
<1>14. HoldJustified' /\ ZeroYieldEarned'
  BY <1>10, NothingHeld
<1> QED BY <1>9, <1>11, <1>12, <1>13, <1>14 DEF EarnedInv, RecordsInv

\* A measurement keeps what the gates and the records go by.
LEMMA MeasureKeeps ==
  ASSUME NEW c \in Cycle, NEW s \in Reading
  PROVE  LET n == updateHostFreeAfter(c, s)
         IN  n.st = c.st /\ n.level = c.level /\ (n.readable <=> c.readable) /\ n.now = c.now
BY DEF updateHostFreeAfter, Cycle

\* A visit that leaves the records and the history alone.
LEMMA VisitEarned ==
  ASSUME CycleInv, EarnedInv, NEW p \in Plugins, NEW v \in Verdicts, phase = "plugins",
         Verdict(p, v), UNCHANGED <<disk, proc, phase, hist>>,
         cyc'.st = cyc.st, cyc'.level = cyc.level, cyc'.readable <=> cyc.readable, cyc'.now = cyc.now,
         report[p] = "pending", v # "pending",
         p \in Independent \/ v \notin Ran \/ proc.mode = "dry",
         v \in {"cooldown", "byte_backoff", "zero_yield_backoff"} /\ hist[p].saved
           => hist[p].level >= cyc.level,
         v = "zero_yield_backoff" =>
           /\ hist[p].digest = proc.digest
           /\ hist[p].barren >= ZeroYieldLimit /\ hist[p].episode /\ p \notin Exempt
           /\ cyc.now < hist[p].now + EarnedHold(hist[p].barren)
  PROVE  EarnedInv'
<1>1. /\ report'[p] = v /\ hist \in [Plugins -> History]
      /\ \A q \in Plugins : q # p => report'[q] = report[q]
  BY DEF Verdict, CycleInv, TypeOK
<1>2. Recording' <=> Recording
  BY DEF Recording
<1>3. ASSUME Recording', NEW q \in Plugins
      PROVE  RecordKnown(q, cyc'.st.plugins[q], HistoryAfterSave'[q])
  <2>1. HistoryAfterSave'[q] = HistoryAfterSave[q]
    <3>1. proc.mode # "dry" /\ "pending" \notin Ran
      BY <1>2, <1>3 DEF Recording, Ran
    <3>2. (report'[q] \in Ran /\ q \notin Independent) <=> (report[q] \in Ran /\ q \notin Independent)
      BY <1>1, <3>1
    <3>3. BarrenRuns(hist'[q]) = BarrenRuns(hist[q]) /\ BarrenRuns(hist[q])' = BarrenRuns(hist[q])
      BY DEF BarrenRuns
    <3> QED BY <3>2, <3>3 DEF HistoryAfterSave
  <2> QED BY <1>2, <1>3, <2>1 DEF EarnedInv, RecordsInv
<1>4. RecordsInv'
  <2>1. \A q \in Plugins : RecordKnown(q, disk'.plugins[q], hist'[q])
    BY DEF EarnedInv, RecordsInv
  <2>2. \A q \in Plugins : report'[q] = "pending" => report[q] = "pending"
    BY <1>1
  <2> QED BY <1>3, <2>1, <2>2 DEF EarnedInv, RecordsInv, LadderPlugins
<1>5. HoldJustified' /\ ZeroYieldEarned'
  BY <1>1 DEF EarnedInv, HoldJustified, ZeroYieldEarned
<1> QED BY <1>4, <1>5 DEF EarnedInv

\* A plugin that a gate holds back really ran at this level or above; one that is
\* suppressed has earned it, under this configuration.
LEMMA GateJustified ==
  ASSUME CycleInv, RecordsInv, NEW p \in Plugins, p \notin Independent,
         phase = "plugins", report[p] = "pending",
         Gate(cyc, p) \in {"cooldown", "byte_backoff", "zero_yield_backoff"}
  PROVE  /\ hist[p].saved => hist[p].level >= cyc.level
         /\ Gate(cyc, p) = "zero_yield_backoff" =>
              /\ hist[p].digest = proc.digest
              /\ hist[p].barren >= ZeroYieldLimit /\ hist[p].episode /\ p \notin Exempt
              /\ cyc.now < hist[p].now + EarnedHold(hist[p].barren)
<1> DEFINE r == cyc.st.plugins[p]
           h == hist[p]
<1>1. /\ cyc.readable
      /\ IF Gate(cyc, p) = "zero_yield_backoff" THEN zeroYieldHolds(cyc, p)
                                                ELSE cooldownHolds(cyc, p)
  <2>1. pluginCooldown(cyc).reason \in {"cooldown", "byte_backoff", "none"}
    BY DEF pluginCooldown
  <2> QED BY <2>1 DEF Gate
<1>2. /\ cyc.level \in 0 .. 4 /\ r \in PluginRecord /\ cyc.now \in Nat /\ h \in History
      /\ hist \in [Plugins -> History]
  BY DEF CycleInv, TypeOK, Cycle, State, Time, CleanupLevel, LevelNone, LevelCritical
<1>3. /\ r.run # NoTime
      /\ r.level >= cyc.level
      /\ zeroYieldHolds(cyc, p) => r.until # NoTime
  <2>1. CASE zeroYieldHolds(cyc, p)
    <3>1. r.until # NoTime /\ cyc.level <= r.level
      BY <2>1 DEF zeroYieldHolds, zeroYieldSuppressed
    <3>2. r.until # NoTime => r.run # NoTime
      BY DEF CycleInv, RecordsSound
    <3> QED BY <1>2, <3>1, <3>2 DEF PluginRecord
  <2>2. CASE cooldownHolds(cyc, p) /\ ~ zeroYieldHolds(cyc, p)
    <3>1. r.run # NoTime /\ ~ (r.level < cyc.level)
      BY <2>2 DEF cooldownHolds, cooldownRemaining
    <3> QED BY <1>2, <2>2, <3>1 DEF PluginRecord
  <2> QED BY <1>1, <2>1, <2>2
<1>4. Recording
  <2>1. proc.mode # "dry"
    <3> SUFFICES ASSUME proc.mode = "dry" PROVE FALSE
      OBVIOUS
    <3>1. r.run = NoTime
      BY DEF RecordsInv, ZeroRecord
    <3> QED BY <1>3, <3>1
  <2>2. cyc.level # LevelNone
    BY DEF RecordsInv, LadderPlugins
  <2> QED BY <1>1, <2>1, <2>2 DEF Recording
<1>5. RecordKnown(p, r, h)
  <2>1. HistoryAfterSave[p] = hist[p]
    BY <1>2, SaveHistory DEF Ran
  <2> QED BY <1>4, <2>1 DEF RecordsInv
<1>6. zeroYieldHolds(cyc, p) => r.digest = proc.digest /\ p \notin Exempt /\ cyc.now < r.until
  BY DEF zeroYieldHolds, zeroYieldSuppressed, zeroYieldExempt
<1> HIDE DEF r, h
<1>7. (h.saved => h.level >= cyc.level)
      /\ (zeroYieldHolds(cyc, p) => h.digest = proc.digest /\ h.barren >= ZeroYieldLimit
                                    /\ h.episode /\ p \notin Exempt)
  BY <1>3, <1>5, <1>6 DEF RecordKnown
<1>8. ASSUME zeroYieldHolds(cyc, p) PROVE cyc.now < h.now + EarnedHold(h.barren)
  <2>1. r.until \in Int /\ h.now \in Int /\ h.barren \in Nat
    BY <1>2 DEF PluginRecord, History, MaybeTime, Time, NoTime
  <2>2. EarnedHold(h.barren) \in Nat
    BY <1>7, <1>8, <2>1, EarnedHoldType
  <2>3. r.until <= h.now + EarnedHold(h.barren)
    BY <1>3, <1>5, <1>8 DEF RecordKnown
  <2> QED BY <1>2, <1>6, <1>8, <2>1, <2>2, <2>3
<1> QED BY <1>1, <1>7, <1>8 DEF h

\* A run is recorded in memory as a save will make it known, or not recorded at
\* all when the state could not be loaded; the state file does not know it yet.
LEMMA RunEarned ==
  ASSUME CycleInv, EarnedInv, NEW p \in Plugins, NEW b \in Nat, NEW v \in Ran,
         p \notin Independent, phase = "plugins", report[p] = "pending", proc.mode # "dry",
         Verdict(p, v), UNCHANGED <<disk, proc, phase>>, hist' = HistoryAfterRun(p, b),
         cyc'.st = recordRun(cyc, p, b).st, cyc'.level = cyc.level, cyc'.readable <=> cyc.readable,
         cyc'.now = cyc.now
  PROVE  EarnedInv'
<1>1. /\ report'[p] = v /\ hist \in [Plugins -> History] /\ cyc \in Cycle /\ proc \in Processes
      /\ \A q \in Plugins : q # p => report'[q] = report[q]
  BY DEF Verdict, CycleInv, TypeOK
<1>2. /\ \A q \in Plugins : q # p => hist'[q] = hist[q]
      /\ hist'[p].now = cyc.now /\ hist'[p].level = cyc.level
      /\ hist'[p].digest = hist[p].digest /\ hist'[p].barren = hist[p].barren
      /\ hist'[p].freed <=> b >= MinYield
      /\ ~ hist'[p].saved /\ hist'[p].episode
  BY <1>1, RunHistory
<1>3. hist' \in [Plugins -> History]
  <2>1. recordRun(cyc, p, b) \in Cycle
    BY <1>1, RecordRunType
  <2> QED BY <2>1, RunSound
<1>4. \A q \in Plugins : RecordKnown(q, disk'.plugins[q], hist'[q])
  <2> SUFFICES ASSUME NEW q \in Plugins PROVE RecordKnown(q, disk.plugins[q], hist'[q])
    OBVIOUS
  <2>1. RecordKnown(q, disk.plugins[q], hist[q])
    BY DEF EarnedInv, RecordsInv
  <2>2. CASE q = p
    <3> DEFINE r == disk.plugins[p]
               h == hist[p]
    <3>1. r \in PluginRecord /\ h \in History /\ h.now <= cyc.now /\ cyc.now \in Nat
      BY <1>1 DEF CycleInv, TypeOK, HistoryPast, State, Cycle, Time
    <3>2. RecordKnown(p, r, h)
      BY <2>1, <2>2
    <3> HIDE DEF r, h
    <3>3. r.until # NoTime => r.until <= cyc.now + EarnedHold(h.barren)
      <4> SUFFICES ASSUME r.until # NoTime PROVE r.until <= cyc.now + EarnedHold(h.barren)
        OBVIOUS
      <4>1. r.until \in Int /\ h.now \in Int /\ h.barren \in Nat
        BY <3>1 DEF PluginRecord, History, MaybeTime, Time, NoTime
      <4>2. h.barren >= ZeroYieldLimit /\ r.until <= h.now + EarnedHold(h.barren)
        BY <3>2 DEF RecordKnown
      <4>3. EarnedHold(h.barren) \in Nat
        BY <4>1, <4>2, EarnedHoldType
      <4> QED BY <3>1, <4>1, <4>2, <4>3
    <3>4. /\ hist'[p].now = cyc.now /\ hist'[p].digest = h.digest /\ hist'[p].barren = h.barren
          /\ ~ hist'[p].saved /\ hist'[p].episode
      BY <1>2 DEF h
    <3>5. RecordKnown(p, r, hist'[p])
      BY <3>2, <3>3, <3>4, KnownLess
    <3> QED BY <2>2, <3>5 DEF r
  <2>3. CASE q # p
    BY <1>2, <2>1, <2>3
  <2> QED BY <2>2, <2>3
<1>5. ASSUME Recording', NEW q \in Plugins
      PROVE  RecordKnown(q, cyc'.st.plugins[q], HistoryAfterSave'[q])
  <2>1. Recording /\ cyc.readable
    BY <1>5 DEF Recording
  <2> DEFINE n == recordRun(cyc, p, b)
             y == recordPluginYield(recordPluginRun(cyc.st.plugins[p], cyc.level, cyc.now),
                                    b < MinYield, cyc.now, proc.digest, p \notin Exempt)
  <2>2. n = [cyc EXCEPT !.st.plugins[p] = y]
    BY <2>1 DEF recordRun
  <2>3. n.st.plugins[p] = y /\ \A t \in Plugins : t # p => n.st.plugins[t] = cyc.st.plugins[t]
    BY <1>1, <2>2 DEF Cycle, State
  <2> HIDE DEF n, y
  <2>4. cyc'.st.plugins[p] = y /\ \A t \in Plugins : t # p => cyc'.st.plugins[t] = cyc.st.plugins[t]
    BY <2>3 DEF n
  <2>5. CASE q # p
    <3>1. HistoryAfterSave'[q] = HistoryAfterSave[q]
      <4>1. report'[q] = report[q] /\ hist'[q] = hist[q]
        BY <1>1, <1>2, <2>5
      <4>2. BarrenRuns(hist[q])' = BarrenRuns(hist[q])
        BY <4>1 DEF BarrenRuns
      <4> QED BY <4>1, <4>2 DEF HistoryAfterSave
    <3>2. RecordKnown(q, cyc.st.plugins[q], HistoryAfterSave[q])
      BY <2>1 DEF EarnedInv, RecordsInv
    <3> QED BY <2>4, <2>5, <3>1, <3>2
  <2>6. CASE q = p
    <3> DEFINE h == hist[p]
               k == HistoryAfterSave'[p]
               before == IF h.digest = proc.digest THEN h.barren ELSE 0
               zero == b < MinYield
    <3>1. RecordKnown(p, cyc.st.plugins[p], h)
      <4>1. HistoryAfterSave[p] = hist[p]
        BY <1>1, SaveHistory DEF Ran
      <4> QED BY <2>1, <4>1 DEF EarnedInv, RecordsInv
    <3>2. /\ cyc.st.plugins[p] \in PluginRecord /\ cyc.level \in 0 .. 4 /\ cyc.now \in Nat
          /\ proc.digest \in Digests /\ h \in History /\ zero \in BOOLEAN
      BY <1>1 DEF Cycle, State, Time, CleanupLevel, LevelNone, LevelCritical, Processes
    <3>3. /\ k.now = cyc.now /\ k.level = cyc.level /\ k.episode
          /\ k.saved /\ k.digest = proc.digest /\ k.barren = BarrenRuns(hist[p])'
      <4> DEFINE g == [hist'[p] EXCEPT !.saved = TRUE, !.digest = proc.digest,
                                       !.barren = BarrenRuns(hist[p])']
      <4>1. k = g
        BY <1>1 DEF HistoryAfterSave
      <4>2. /\ g.now = hist'[p].now /\ g.level = hist'[p].level
            /\ g.episode = hist'[p].episode
            /\ g.saved /\ g.digest = proc.digest /\ g.barren = BarrenRuns(hist[p])'
        BY <1>3 DEF History
      <4> HIDE DEF k, g
      <4> QED BY <1>2, <4>1, <4>2
    <3>4. BarrenRuns(hist[p])' = IF ~ zero \/ ZeroYieldLimit = 0 THEN 0 ELSE before + 1
      <4>0. b >= MinYield <=> ~ (b < MinYield)
        BY YieldCases
      <4>1. hist'[p].freed <=> ~ zero
        BY <1>2, <4>0
      <4> HIDE DEF zero
      <4> QED BY <1>2, <4>1 DEF BarrenRuns
    <3>5. y = recordPluginYield(recordPluginRun(cyc.st.plugins[p], cyc.level, cyc.now),
                                zero, cyc.now, proc.digest, p \notin Exempt)
      BY DEF y
    <3> HIDE DEF h, k, zero
    <3>6. RecordKnown(p, y, k)
      BY <3>1, <3>2, <3>3, <3>4, <3>5, RunKnown
    <3> QED BY <2>4, <2>6, <3>6 DEF k
  <2> QED BY <2>5, <2>6
<1>6. RecordsInv'
  <2>1. \A q \in Plugins : report'[q] = "pending" => report[q] = "pending"
    BY <1>1
  <2>2. proc'.mode # "dry"
    OBVIOUS
  <2> QED BY <1>4, <1>5, <2>1, <2>2 DEF EarnedInv, RecordsInv, LadderPlugins
<1>7. HoldJustified' /\ ZeroYieldEarned'
  <2>1. v \notin {"cooldown", "byte_backoff", "zero_yield_backoff"}
    BY DEF Ran
  <2> QED BY <1>1, <1>2, <2>1 DEF EarnedInv, HoldJustified, ZeroYieldEarned
<1> QED BY <1>6, <1>7 DEF EarnedInv

\* Nothing is held back while no cycle runs.
LEMMA IdleEarned ==
  ASSUME \A p \in Plugins : RecordKnown(p, disk'.plugins[p], hist'[p]),
         phase' \in {"idle", "exited"}, report' = NoReport
  PROVE  EarnedInv'
<1>1. HoldJustified' /\ ZeroYieldEarned'
  BY IdleReport, NothingHeld
<1> QED BY <1>1 DEF EarnedInv, RecordsInv, Recording

LEMMA EndCycleEarned ==
  ASSUME CycleInv, EarnedInv, NEW s \in Reading, NEW save \in SaveOutcomes, EndCycle(s, save)
  PROVE  EarnedInv'
<1> DEFINE c == updateHostFreeAfter(cyc, s)
           n == withByteProgress(withInodeProgress(c))
           saved == save /\ c.readable /\ proc.mode # "dry" /\ c.level # LevelNone
<1>1. /\ disk' = (IF saved THEN n.st ELSE disk) /\ hist' = (IF saved THEN HistoryAfterSave ELSE hist)
      /\ phase = "plugins" /\ phase' \in {"idle", "exited"} /\ report' = NoReport
  BY DEF EndCycle
<1>2. cyc \in Cycle /\ c \in Cycle /\ c.st = cyc.st /\ c.level = cyc.level
      /\ (c.readable <=> cyc.readable)
  BY MeasureType, MeasureKeeps DEF CycleInv, TypeOK
<1>3. saved => Recording
  BY <1>1, <1>2 DEF Recording
<1> HIDE DEF c
<1>4. n.st.plugins = cyc.st.plugins
  BY <1>2, ProgressType
<1> HIDE DEF n, saved
<1>5. CASE saved
  <2>1. \A p \in Plugins : RecordKnown(p, cyc.st.plugins[p], HistoryAfterSave[p])
    BY <1>3, <1>5 DEF EarnedInv, RecordsInv
  <2> QED BY <1>1, <1>4, <1>5, <2>1, IdleEarned
<1>6. CASE ~ saved
  BY <1>1, <1>6, IdleEarned DEF EarnedInv, RecordsInv
<1> QED BY <1>5, <1>6

LEMMA EarnedStep == CycleInv /\ EarnedInv /\ [Next]_vars => EarnedInv'
<1> SUFFICES ASSUME CycleInv, EarnedInv, [Next]_vars PROVE EarnedInv'
  OBVIOUS
<1>0. cyc \in Cycle
  BY DEF CycleInv, TypeOK
<1>1. ASSUME NEW seen \in [Mounts -> Reading], NEW before \in Reading, NEW load \in LoadOutcomes,
             NEW saved \in SaveOutcomes, BeginCycle(seen, before, load, saved)
      PROVE  EarnedInv'
  BY <1>1, BeginCycleEarned
<1>2. ASSUME NEW p \in Plugins, NEW s \in Reading, VisitIndependent(p, s) PROVE EarnedInv'
  <2>1. PICK v \in {"plugin_wedged", "planned", "ran", "failed", "abandoned"} : Verdict(p, v)
    BY <1>2 DEF VisitIndependent, StillWedged, Started
  <2>2. /\ p \in Independent /\ phase = "plugins" /\ report[p] = "pending"
        /\ UNCHANGED <<disk, proc, phase, hist>>
        /\ cyc' = IF cyc.level = LevelNone THEN cyc ELSE updateHostFreeAfter(cyc, s)
    BY <1>2 DEF VisitIndependent, Reached
  <2>3. cyc'.st = cyc.st /\ cyc'.level = cyc.level /\ (cyc'.readable <=> cyc.readable)
        /\ cyc'.now = cyc.now
    BY <1>0, <2>2, MeasureKeeps
  <2>4. v \in Verdicts /\ v # "pending"
        /\ v \notin {"cooldown", "byte_backoff", "zero_yield_backoff"}
    BY DEF Verdicts, Ran
  <2> QED BY <2>1, <2>2, <2>3, <2>4, VisitEarned
<1>3. ASSUME NEW p \in Plugins, SkipPlugin(p) PROVE EarnedInv'
  <2> DEFINE v == Gate(cyc, p)
  <2>1. /\ p \notin Independent /\ phase = "plugins" /\ report[p] = "pending"
        /\ UNCHANGED <<disk, proc, phase, hist, cyc>> /\ Verdict(p, v) /\ v # "open"
    BY <1>3 DEF SkipPlugin, Reached
  <2>2. v \in {"target_free_met", "zero_yield_backoff", "cooldown", "byte_backoff", "none"}
    BY <2>1 DEF Gate, pluginCooldown
  <2>3. v # "none"
    <3>1. report' \in [Plugins -> Verdicts] /\ report'[p] = v
      <4>1. CycleInv'
        BY <1>3, SkipPluginInv
      <4>2. report \in [Plugins -> Verdicts]
        BY DEF CycleInv, TypeOK
      <4> QED BY <2>1, <4>1, <4>2 DEF CycleInv, TypeOK, Verdict
    <3> QED BY <3>1 DEF Verdicts, Skips, Ran
  <2>4. /\ v \in {"cooldown", "byte_backoff", "zero_yield_backoff"} /\ hist[p].saved
             => hist[p].level >= cyc.level
        /\ v = "zero_yield_backoff" =>
             /\ hist[p].digest = proc.digest
             /\ hist[p].barren >= ZeroYieldLimit /\ hist[p].episode /\ p \notin Exempt
             /\ cyc.now < hist[p].now + EarnedHold(hist[p].barren)
    BY <2>1, GateJustified DEF EarnedInv
  <2> HIDE DEF v
  <2>5. v \in Verdicts /\ v # "pending" /\ v \notin Ran
    BY <2>2, <2>3 DEF Verdicts, Skips, Ran
  <2> QED BY <2>1, <2>4, <2>5, VisitEarned
<1>4. ASSUME NEW p \in Plugins, PlanPlugin(p) PROVE EarnedInv'
  <2>1. PICK v \in {"plugin_wedged", "planned", "abandoned"} : Verdict(p, v)
    BY <1>4 DEF PlanPlugin, StillWedged, Started
  <2>2. /\ proc.mode = "dry" /\ phase = "plugins" /\ report[p] = "pending"
        /\ UNCHANGED <<disk, proc, phase, hist, cyc>>
    BY <1>4 DEF PlanPlugin, Reached
  <2>3. v \in Verdicts /\ v # "pending"
        /\ v \notin {"cooldown", "byte_backoff", "zero_yield_backoff"}
    BY DEF Verdicts, Ran
  <2> QED BY <2>1, <2>2, <2>3, VisitEarned
<1>5. ASSUME NEW p \in Plugins, NEW bytes \in Yields, NEW s \in Reading, RunPlugin(p, bytes, s)
      PROVE  EarnedInv'
  <2>1. /\ p \notin Independent /\ phase = "plugins" /\ report[p] = "pending" /\ proc.mode # "dry"
        /\ UNCHANGED <<disk, proc, phase>> /\ bytes \in Nat /\ 0 \in Nat
        /\ proc \in Processes
    BY <1>5, CycleAssumption DEF RunPlugin, Reached, CycleInv, TypeOK
  <2>2. ASSUME NEW b \in Nat
        PROVE  LET n == recordRun(cyc, p, b)
               IN  n \in Cycle /\ n.level = cyc.level /\ (n.readable <=> cyc.readable)
                   /\ n.now = cyc.now
    <3>1. recordRun(cyc, p, b) \in Cycle
      BY <1>0, <2>1, <2>2, RecordRunType
    <3>2. recordRun(cyc, p, b).level = cyc.level
          /\ (recordRun(cyc, p, b).readable <=> cyc.readable)
          /\ recordRun(cyc, p, b).now = cyc.now
      BY <1>0 DEF recordRun, Cycle
    <3> QED BY <3>1, <3>2
  <2>3. ASSUME NEW b \in Nat, NEW v \in {"failed", "abandoned"}, Started(p, v),
               cyc' = recordRun(cyc, p, b), hist' = HistoryAfterRun(p, b)
        PROVE  EarnedInv'
    <3>1. v \in Ran /\ Verdict(p, v)
      BY <2>3 DEF Ran, Started
    <3> QED BY <2>1, <2>2, <2>3, <3>1, RunEarned
  <2>4. CASE /\ Started(p, "ran")
             /\ cyc' = updateHostFreeAfter([recordRun(cyc, p, bytes) EXCEPT !.freed = @ + bytes], s)
             /\ hist' = HistoryAfterRun(p, bytes)
    <3> DEFINE n == recordRun(cyc, p, bytes)
               m == [n EXCEPT !.freed = @ + bytes]
    <3>1. n \in Cycle /\ n.level = cyc.level /\ (n.readable <=> cyc.readable)
          /\ n.now = cyc.now
      BY <2>1, <2>2
    <3>2. m \in Cycle /\ m.st = n.st /\ m.level = n.level /\ (m.readable <=> n.readable)
          /\ m.now = n.now
      <4> HIDE DEF n
      <4> QED BY <2>1, <3>1 DEF Cycle
    <3>3. cyc' = updateHostFreeAfter(m, s)
      BY <2>4
    <3> HIDE DEF m
    <3>4. cyc'.st = m.st /\ cyc'.level = m.level /\ (cyc'.readable <=> m.readable)
          /\ cyc'.now = m.now
      BY <3>2, <3>3, MeasureKeeps
    <3>5. "ran" \in Ran /\ Verdict(p, "ran")
      BY <2>4 DEF Ran, Started
    <3> QED BY <2>1, <2>4, <3>1, <3>2, <3>4, <3>5, RunEarned
  <2>5. CASE StillWedged(p) /\ UNCHANGED <<cyc, hist>>
    <3>1. Verdict(p, "plugin_wedged") /\ "plugin_wedged" \in Verdicts /\ "plugin_wedged" \notin Ran
      BY <2>5 DEF StillWedged, Verdicts, Ran
    <3> QED BY <2>1, <2>5, <3>1, VisitEarned
  <2> QED BY <1>5, <2>1, <2>3, <2>4, <2>5 DEF RunPlugin
<1>6. ASSUME NEW s \in Reading, NEW saved \in SaveOutcomes, EndCycle(s, saved) PROVE EarnedInv'
  BY <1>6, EndCycleEarned
<1>7. CASE Restart
  <2>1. /\ \A p \in Plugins : RecordKnown(p, disk'.plugins[p], hist'[p])
        /\ phase' \in {"idle", "exited"} /\ report' = NoReport
    BY <1>7 DEF Restart, EarnedInv, RecordsInv
  <2> QED BY <2>1, IdleEarned
<1>8. ASSUME UNCHANGED <<disk, proc, phase, cyc, report, hist>> PROVE EarnedInv'
  <2>1. HistoryAfterSave' = HistoryAfterSave /\ (Recording' <=> Recording)
    BY <1>8 DEF HistoryAfterSave, BarrenRuns, Recording
  <2>2. RecordsInv'
    BY <1>8, <2>1 DEF EarnedInv, RecordsInv
  <2> QED BY <1>8, <2>2 DEF EarnedInv, HoldJustified, ZeroYieldEarned
<1>9. ASSUME NEW p \in Plugins, WedgedRunReturns(p) PROVE EarnedInv'
  BY <1>8, <1>9 DEF WedgedRunReturns
<1>10. CASE Tick
  BY <1>8, <1>10 DEF Tick
<1>11. CASE UNCHANGED vars
  BY <1>8, <1>11 DEF vars
<1> QED BY <1>1, <1>2, <1>3, <1>4, <1>5, <1>6, <1>7, <1>9, <1>10, <1>11 DEF Next

\* In every reachable state the state file, and the state in memory, agree with
\* what the plugins really did, however saves failed, files were set aside and
\* processes were killed.
THEOREM EarnedInvariant == Spec => []EarnedInv
BY EarnedInit, EarnedStep, CycleInvariant, PTL DEF Spec

\* An escalation or a new configuration earns a fresh attempt, for any policy and
\* any number of plugins (cooldownRemaining, zeroYieldSuppression).
THEOREM HoldsAreJustified == Spec => []HoldJustified
<1>1. EarnedInv => HoldJustified
  BY DEF EarnedInv
<1> QED BY <1>1, EarnedInvariant, PTL

\* No plugin is suppressed that has not freed too little zero_yield_limit times
\* in a row since the pressure last cleared, nor for longer than those runs earned
\* (recordPluginYield, liftZeroYieldSuppression, zeroYieldBackoff).
THEOREM SuppressionIsEarned == Spec => []ZeroYieldEarned
<1>1. EarnedInv => ZeroYieldEarned
  BY DEF EarnedInv
<1> QED BY <1>1, EarnedInvariant, PTL

\* A ladder plugin starts only through an open gate, and outside a dry run.  (In
\* a dry run only a plan is made, which may be abandoned.)
LEMMA StartsAtOpenGate ==
  ASSUME CycleInv, [Next]_vars, NEW p \in Plugins, Starts(p)
  PROVE  phase = "plugins" /\ report[p] = "pending" /\ p \notin Independent
         /\ Gate(cyc, p) = "open"
<1>1. /\ p \notin Independent /\ report[p] = "pending" /\ report'[p] \in Ran
      /\ report \in [Plugins -> Verdicts]
  BY DEF Starts, LadderPlugins, CycleInv, TypeOK
<1>2. "pending" \notin Ran /\ "excluded" \notin Ran
  BY DEF Ran
<1>3. ASSUME NEW q \in Plugins, NEW v, Verdict(q, v), q # p \/ v \notin Ran PROVE FALSE
  BY <1>1, <1>2, <1>3 DEF Verdict
<1>4. ASSUME NEW q \in Plugins, NEW v, Started(q, v) \/ StillWedged(q) PROVE q = p
  BY <1>3, <1>4 DEF Started, StillWedged
<1>5. ASSUME NEW seen \in [Mounts -> Reading], NEW before \in Reading, NEW load \in LoadOutcomes,
             NEW saved \in SaveOutcomes, BeginCycle(seen, before, load, saved)
      PROVE  FALSE
  <2>1. report'[p] \in {"pending", "excluded"}
    BY <1>5 DEF BeginCycle
  <2> QED BY <1>1, <1>2, <2>1
<1>6. ASSUME NEW q \in Plugins, NEW s \in Reading, VisitIndependent(q, s) PROVE FALSE
  <2>1. q \in Independent /\ \E v : Started(q, v) \/ StillWedged(q)
    BY <1>6 DEF VisitIndependent
  <2> QED BY <1>1, <1>4, <2>1
<1>7. ASSUME NEW q \in Plugins, SkipPlugin(q) PROVE FALSE
  <2>1. Verdict(q, Gate(cyc, q)) /\ Gate(cyc, q) \notin Ran
    BY <1>7 DEF SkipPlugin, Gate, pluginCooldown, Ran
  <2> QED BY <1>3, <2>1
<1>8. ASSUME NEW q \in Plugins, PlanPlugin(q)
      PROVE  phase = "plugins" /\ Gate(cyc, p) = "open"
  <2>1. \E v : Started(q, v) \/ StillWedged(q)
    BY <1>8 DEF PlanPlugin
  <2> QED BY <1>4, <1>8, <2>1 DEF PlanPlugin, Reached
<1>9. ASSUME NEW q \in Plugins, NEW bytes \in Yields, NEW s \in Reading, RunPlugin(q, bytes, s)
      PROVE  phase = "plugins" /\ Gate(cyc, p) = "open"
  <2>1. \E v : Started(q, v) \/ StillWedged(q)
    BY <1>9 DEF RunPlugin
  <2> QED BY <1>4, <1>9, <2>1 DEF RunPlugin, Reached
<1>10. ASSUME report' = NoReport PROVE FALSE
  BY <1>1, <1>2, <1>10 DEF NoReport
<1>11. ASSUME UNCHANGED report PROVE FALSE
  BY <1>1, <1>2, <1>11
<1> QED BY <1>1, <1>5, <1>6, <1>7, <1>8, <1>9, <1>10, <1>11
        DEF Next, EndCycle, Restart, WedgedRunReturns, Tick, vars

\* What an open gate says of the record it looks at: with a readable state, the
\* interval is over and the suppression, unless lifted, too.
LEMMA OpenGate ==
  ASSUME CycleInv, EarnedInv, NEW p \in Plugins, p \notin Independent, phase = "plugins",
         report[p] = "pending", Gate(cyc, p) = "open", cyc.readable, proc.mode # "dry"
  PROVE  /\ RecordKnown(p, cyc.st.plugins[p], hist[p])
         /\ ~ zeroYieldHolds(cyc, p) /\ ~ cooldownHolds(cyc, p)
<1>1. Recording
  BY DEF EarnedInv, RecordsInv, LadderPlugins, Recording
<1>2. HistoryAfterSave[p] = hist[p]
  BY SaveHistory DEF CycleInv, TypeOK, Ran
<1>3. RecordKnown(p, cyc.st.plugins[p], hist[p])
  BY <1>1, <1>2 DEF EarnedInv, RecordsInv
<1>4. ~ zeroYieldHolds(cyc, p) /\ ~ cooldownHolds(cyc, p)
  BY DEF Gate, pluginCooldown
<1> QED BY <1>3, <1>4

LEMMA CadenceStep ==
  ASSUME CycleInv, EarnedInv, [Next]_vars, NEW p \in Plugins, Starts(p), cyc.readable,
         hist[p].saved, hist[p].level >= cyc.level
  PROVE  cyc.now - Stamp(hist[p].now) >= pluginCooldown(cyc).interval
<1> DEFINE r == cyc.st.plugins[p]
           h == hist[p]
           interval == pluginCooldown(cyc).interval
<1>1. phase = "plugins" /\ report[p] = "pending" /\ p \notin Independent /\ Gate(cyc, p) = "open"
  BY StartsAtOpenGate
<1>2. /\ cyc.now \in Nat /\ cyc.level \in 0 .. 4 /\ r \in PluginRecord /\ h \in History
      /\ h.now <= cyc.now
  BY <1>1 DEF CycleInv, TypeOK, HistoryPast, Cycle, State, Time, CleanupLevel, LevelNone,
              LevelCritical
<1>3. h.now \in Nat /\ RecordKnown(p, disk.plugins[p], h)
  <2>1. RecordKnown(p, disk.plugins[p], h)
    BY DEF EarnedInv, RecordsInv
  <2>2. h.now # NoTime
    BY <2>1 DEF RecordKnown
  <2> QED BY <1>2, <2>1, <2>2 DEF History, MaybeTime, Time
<1>4. Stamp(h.now) \in Nat /\ Stamp(h.now) <= cyc.now
  <2>1. Stamp(h.now) \in Nat /\ Stamp(h.now) <= h.now
    BY <1>3, StampType
  <2> QED BY <1>2, <1>3, <2>1
<1>5. interval \in Nat
  <2>1. reportedByteCount(cyc) \in Nat
    BY DEF reportedByteCount, byteNoProgressCount, State, ByteRecord, CycleInv, TypeOK, Cycle
  <2>2. byteBackoffIntervalFor(reportedByteCount(cyc)) \in Nat
    BY <2>1, ByteIntervalType, CycleAssumption
  <2> QED BY <2>2, CycleAssumption DEF pluginCooldown
<1>6. CASE proc.mode = "dry"
  <2>1. interval = 0
    BY <1>6 DEF pluginCooldown, shouldApplyCooldown, ByteBackoff
  <2> QED BY <1>2, <1>4, <2>1
<1>7. CASE proc.mode # "dry"
  <2>1. RecordKnown(p, r, h) /\ ~ cooldownHolds(cyc, p)
    BY <1>1, <1>7, OpenGate
  <2>2. r.run = Stamp(h.now) /\ r.level = h.level
    BY <2>1 DEF RecordKnown
  <2>3. ~ (cooldownRemaining(r, cyc.level, cyc.now, interval) > 0)
    BY <2>1 DEF cooldownHolds
  <2> HIDE DEF r, interval, h
  <2>4. r.run \in Nat /\ r.run <= cyc.now /\ r.run # NoTime /\ ~ (r.level < cyc.level)
    BY <1>2, <1>4, <2>2 DEF NoTime, PluginRecord, h
  <2>5. cyc.now - r.run >= interval
    BY <1>2, <1>5, <2>3, <2>4 DEF cooldownRemaining
  <2> QED BY <2>2, <2>5 DEF h, interval
<1> QED BY <1>6, <1>7

\* The daemon keeps its cadence: whatever restarts, failed saves and reloads came
\* between, a plugin whose last run is known to the state file starts again only
\* when the cooldown or byte backoff interval is over, for every policy.
THEOREM CadenceIsKept == Spec => CadenceKept
<1>1. CycleInv /\ EarnedInv /\ [Next]_vars =>
        [\A p \in Plugins :
           Starts(p) /\ cyc.readable /\ hist[p].saved /\ hist[p].level >= cyc.level
             => cyc.now - Stamp(hist[p].now) >= pluginCooldown(cyc).interval]_vars
  BY CadenceStep
<1> QED BY <1>1, CycleInvariant, EarnedInvariant, PTL DEF Spec, CadenceKept

LEMMA SpacingStep ==
  ASSUME CycleInv, EarnedInv, [Next]_vars, NEW p \in Plugins, Starts(p), SuppressionInForce(p)
  PROVE  \/ cyc.now >= Stamp(hist[p].now + EarnedHold(hist[p].barren))
         \/ cyc.pressured /\ cyc.now >= Stamp(hist[p].now) + PressureMin
<1> DEFINE r == cyc.st.plugins[p]
           h == hist[p]
<1>1. phase = "plugins" /\ report[p] = "pending" /\ p \notin Independent /\ Gate(cyc, p) = "open"
  BY StartsAtOpenGate
<1>2. /\ ZeroYieldLimit > 0 /\ p \notin Exempt
      /\ h.saved /\ h.episode /\ h.barren >= ZeroYieldLimit
      /\ h.level >= cyc.level /\ h.digest = proc.digest
      /\ proc.mode = "daemon" /\ cyc.readable
      /\ cyc.before.ok /\ ~ belowEmergencyFloor(cyc)
  BY DEF SuppressionInForce
<1>3. RecordKnown(p, r, h) /\ ~ zeroYieldHolds(cyc, p)
  BY <1>1, <1>2, OpenGate
<1>4. /\ cyc.now \in Nat /\ cyc.level \in 0 .. 4 /\ r \in PluginRecord /\ h \in History
  BY DEF CycleInv, TypeOK, Cycle, State, Time, CleanupLevel, LevelNone, LevelCritical
<1>5. /\ h.now # NoTime /\ r.run = Stamp(h.now) /\ r.level = h.level /\ r.digest = h.digest
      /\ r.until >= Stamp(h.now + EarnedHold(h.barren))
  BY <1>2, <1>3 DEF RecordKnown
<1>6. Stamp(h.now + EarnedHold(h.barren)) \in Nat
  <2>1. h.now \in Nat /\ h.barren \in Nat
    BY <1>4, <1>5 DEF History, MaybeTime, Time
  <2>2. EarnedHold(h.barren) \in Nat
    BY <1>2, <2>1, BackoffHolds
  <2> QED BY <2>1, <2>2, StampType
<1>7. CASE zeroYieldExempt(cyc, p)
  BY <1>2, <1>5, <1>7 DEF zeroYieldExempt
<1>8. CASE ~ zeroYieldExempt(cyc, p)
  <2>1. ~ zeroYieldSuppressed(r, cyc.level, cyc.now, proc.digest)
    BY <1>2, <1>3, <1>8 DEF zeroYieldHolds
  <2> HIDE DEF r, h
  <2>2. r.until \in Nat /\ r.until # NoTime /\ cyc.level <= r.level
    BY <1>2, <1>4, <1>5, <1>6 DEF PluginRecord, History, MaybeTime, Time, NoTime, CleanupLevel,
                                  LevelNone, LevelCritical
  <2>3. ~ (cyc.now < r.until)
    BY <1>2, <1>5, <2>1, <2>2 DEF zeroYieldSuppressed
  <2>4. cyc.now >= Stamp(h.now + EarnedHold(h.barren))
    BY <1>4, <1>5, <1>6, <2>2, <2>3
  <2> QED BY <2>4 DEF h
<1> QED BY <1>7, <1>8

\* A plugin that keeps freeing nothing is rerun ever more rarely, for every
\* policy: the hold it has earned, doubled with every barren run up to the cap,
\* passes first, or under mount pressure the pressure interval.
THEOREM BarrenRunsAreSpaced == Spec => BarrenRunsSpaced
<1>1. CycleInv /\ EarnedInv /\ [Next]_vars =>
        [\A p \in Plugins :
           Starts(p) /\ SuppressionInForce(p) =>
             \/ cyc.now >= Stamp(hist[p].now + EarnedHold(hist[p].barren))
             \/ cyc.pressured /\ cyc.now >= Stamp(hist[p].now) + PressureMin]_vars
  BY SpacingStep
<1> QED BY <1>1, CycleInvariant, EarnedInvariant, PTL DEF Spec, BarrenRunsSpaced

-----------------------------------------------------------------------------
(* The byte counters: the inductive invariant of ByteBackoffEarned. *)

\* With fewer counted attempts, or more real ones, a state stays sound.
LEMMA CountsStable ==
  ASSUME TypeOK, TypeOK', NEW S \in State, NEW T \in State, CountsSound(S),
         \A m \in Paths : T.bytes[m].count <= S.bytes[m].count /\ tries[m] <= tries'[m]
  PROVE  \A m \in Paths : T.bytes[m].count <= tries'[m] \/ ByteLimit <= tries'[m]
<1> SUFFICES ASSUME NEW m \in Paths PROVE T.bytes[m].count <= tries'[m] \/ ByteLimit <= tries'[m]
  OBVIOUS
<1>1. /\ T.bytes[m].count \in Nat /\ S.bytes[m].count \in Nat /\ tries[m] \in Nat
      /\ tries'[m] \in Nat /\ ByteLimit \in Int
  BY CycleAssumption DEF State, ByteRecord, TypeOK
<1>2. /\ T.bytes[m].count <= S.bytes[m].count /\ tries[m] <= tries'[m]
      /\ S.bytes[m].count <= tries[m] \/ ByteLimit <= tries[m]
  BY DEF CountsSound
<1> QED BY <1>1, <1>2

\* A fresh state counts nothing.
LEMMA FreshCounts ==
  ASSUME NEW t \in [Paths -> Nat]
  PROVE  \A m \in Paths : newCleanupState.bytes[m].count <= t[m] \/ ByteLimit <= t[m]
BY DEF newCleanupState, ZeroBytes

\* The none branch leaves no count on the cycle's path that it could measure, and
\* advances none.
LEMMA QuietCounts ==
  ASSUME NEW c \in Cycle
  PROVE  /\ quietState(c) \in State
         /\ \A m \in Paths : quietState(c).bytes[m].count <= c.st.bytes[m].count
         /\ proc.mode # "dry" /\ c.readable /\ c.before.ok =>
              quietState(c).bytes[c.path].count = 0
<1> DEFINE reset == c.before.ok /\ (byteBackoffEngaged(c.st, c.path)
                                      \/ byteNoProgressPending(c.st, c.path))
           n == recordByteProgress(c.st, c.path, LevelNone, TRUE, FALSE, FALSE)
           released == IF reset THEN n ELSE c.st
           b == [level |-> 0, count |-> 0, engaged |-> FALSE]
<1>1. c.st \in State /\ c.path \in Paths
      /\ \A m \in Paths : c.st.bytes[m] \in ByteRecord /\ c.st.bytes[m].count \in Nat
  BY DEF Cycle, State, ByteRecord
<1>2. n = [c.st EXCEPT !.bytes[c.path] = b]
  BY Zenon DEF recordByteProgress, LevelNone
<1>3. quietState(c) = IF proc.mode # "dry" /\ c.readable
                      THEN liftZeroYieldSuppression(released) ELSE c.st
  BY DEF quietState
<1>4. b \in ByteRecord /\ b.count = 0
  BY DEF ByteRecord
<1> HIDE DEF b, n
<1>5. n \in State /\ n.bytes = [c.st.bytes EXCEPT ![c.path] = b]
  <2>1. n \in State
    BY <1>1, <1>2, <1>4, ByteRecordUpdate
  <2>2. n.bytes = [c.st.bytes EXCEPT ![c.path] = b]
    BY <1>1, <1>2 DEF State
  <2> QED BY <2>1, <2>2
<1>6. \A m \in Paths : n.bytes[m].count <= c.st.bytes[m].count
  <2> SUFFICES ASSUME NEW m \in Paths PROVE n.bytes[m].count <= c.st.bytes[m].count
    OBVIOUS
  <2>1. c.st.bytes \in [Paths -> ByteRecord]
    BY <1>1 DEF State
  <2>2. CASE m = c.path
    BY <1>1, <1>4, <1>5, <2>1, <2>2
  <2>3. CASE m # c.path
    BY <1>1, <1>5, <2>1, <2>3
  <2> QED BY <2>2, <2>3
<1>7. n.bytes[c.path].count = 0
  BY <1>1, <1>4, <1>5 DEF State
<1>8. c.before.ok /\ ~ reset => c.st.bytes[c.path].count = 0
  BY <1>1 DEF byteNoProgressPending
<1> HIDE DEF reset
<1>9. /\ released \in State
      /\ \A m \in Paths : released.bytes[m].count <= c.st.bytes[m].count
      /\ c.before.ok => released.bytes[c.path].count = 0
  <2>1. CASE reset
    <3>1. released = n
      BY <2>1
    <3> QED BY <1>5, <1>6, <1>7, <3>1
  <2>2. CASE ~ reset
    <3>1. released = c.st
      BY <2>2
    <3> HIDE DEF released
    <3> QED BY <1>1, <1>8, <2>2, <3>1
  <2> QED BY <2>1, <2>2
<1> HIDE DEF released
<1>10. liftZeroYieldSuppression(released).bytes = released.bytes
       /\ liftZeroYieldSuppression(released) \in State
  <2>1. liftZeroYieldSuppression(released) \in State
    BY <1>9, LiftType
  <2>2. liftZeroYieldSuppression(released).bytes = released.bytes
    BY <1>9 DEF liftZeroYieldSuppression, State
  <2> QED BY <2>1, <2>2
<1> QED BY <1>1, <1>3, <1>9, <1>10

\* On a host with one monitored path, a quiet cycle that forgets the attempts
\* also resets the only counter.
LEMMA BeginCycleCounts ==
  ASSUME \A m, n \in Paths : m = n,
         CycleInv, CycleInv', CountsInv, NEW seen \in [Mounts -> Reading], NEW before \in Reading,
         NEW load \in LoadOutcomes, NEW saved \in SaveOutcomes,
         BeginCycle(seen, before, load, saved)
  PROVE  CountsInv'
<1> DEFINE level == IF proc.forced = LevelNone THEN assessedLevel(seen) ELSE proc.forced
           c == [now |-> clock, level |-> level, path |-> primaryMonitorPath(seen),
                 maxInode |-> assessedInodeLevel(seen), pressured |-> pressuredMount(seen),
                 before |-> before, last |-> before, measureErr |-> FALSE,
                 readable |-> proc.mode = "dry" \/ load # "error",
                 st |-> StateInMemory(load), freed |-> 0]
           file == FileAfterLoad(load)
           quiet == level = LevelNone /\ proc.mode # "dry" /\ c.readable
           kept == quiet /\ (saved \/ quietState(c) = file)
<1>1. /\ cyc' = IF level = LevelNone THEN [c EXCEPT !.st = quietState(c)] ELSE c
      /\ disk' = IF kept THEN quietState(c) ELSE file
      /\ tries' = IF kept /\ before.ok THEN [m \in Paths |-> 0] ELSE tries
  BY DEF BeginCycle
<1>2. c \in Cycle
  BY BegunType DEF CycleInv
<1>3. c.st = StateInMemory(load) /\ c.before = before
  OBVIOUS
<1>4. kept => level = LevelNone /\ proc.mode # "dry" /\ c.readable
  OBVIOUS
<1> HIDE DEF c, kept, level
<1>5. cyc'.st \in {quietState(c), c.st} /\ (kept => cyc'.st = quietState(c))
  BY <1>1, <1>2, <1>4 DEF Cycle
<1>6. /\ quietState(c) \in State /\ c.st \in State /\ c.path \in Paths
      /\ \A m \in Paths : quietState(c).bytes[m].count <= c.st.bytes[m].count
      /\ kept /\ before.ok => quietState(c).bytes[c.path].count = 0
  BY <1>2, <1>3, <1>4, QuietCounts DEF Cycle
<1>7. file \in State /\ CountsSound(file) /\ CountsSound(c.st)
  <2>1. CountsSound(newCleanupState)
    BY FreshCounts DEF CountsSound, CycleInv, TypeOK
  <2>2. file \in State /\ CountsSound(file)
    BY <2>1, FreshState DEF FileAfterLoad, CountsInv, CycleInv, TypeOK
  <2> QED BY <1>3, <2>1, <2>2 DEF StateInMemory
<1> HIDE DEF file
<1>8. TypeOK /\ TypeOK' /\ tries \in [Paths -> Nat]
  BY DEF CycleInv, TypeOK
<1>9. CASE kept /\ before.ok
  <2>1. \A m \in Paths : quietState(c).bytes[m].count = 0 /\ tries'[m] = 0
    BY <1>1, <1>6, <1>9
  <2>2. disk' = quietState(c) /\ cyc'.st = quietState(c)
    BY <1>1, <1>5, <1>9
  <2> QED BY <2>1, <2>2 DEF CountsInv, CountsSound
<1>10. CASE ~ (kept /\ before.ok)
  <2>1. \A m \in Paths : tries[m] <= tries'[m]
    BY <1>1, <1>8, <1>10
  <2>2. ASSUME NEW T \in {quietState(c), c.st}
        PROVE  \A m \in Paths : T.bytes[m].count <= tries'[m] \/ ByteLimit <= tries'[m]
    <3>1. T \in State /\ \A m \in Paths : T.bytes[m].count <= c.st.bytes[m].count
      BY <1>6, <2>2 DEF State, ByteRecord
    <3> QED BY <1>6, <1>7, <1>8, <2>1, <3>1, CountsStable
  <2>3. \A m \in Paths : file.bytes[m].count <= tries'[m] \/ ByteLimit <= tries'[m]
    <3>1. \A m \in Paths : file.bytes[m].count <= file.bytes[m].count
      BY <1>7 DEF State, ByteRecord
    <3> QED BY <1>7, <1>8, <2>1, <3>1, CountsStable
  <2>4. disk' \in {quietState(c), file}
    BY <1>1
  <2> QED BY <1>5, <2>2, <2>3, <2>4 DEF CountsInv, CountsSound
<1> QED BY <1>9, <1>10

\* Inode progress leaves the byte counters, and everything they go by, alone.
LEMMA InodeKeepsBytes ==
  ASSUME NEW c \in Cycle
  PROVE  LET i == withInodeProgress(c)
         IN  /\ i \in Cycle /\ i.st.bytes = c.st.bytes
             /\ i.path = c.path /\ i.before = c.before /\ i.last = c.last /\ i.freed = c.freed
             /\ i.measureErr <=> c.measureErr
             /\ i.readable <=> c.readable
<1> DEFINE improved == \/ c.before.ok /\ c.last.inodes > c.before.inodes
                       \/ inodeLevelForPath(c.path, c.last) = LevelNone
           i == withInodeProgress(c)
<1>1. c.st \in State /\ c.path \in Paths /\ improved \in BOOLEAN /\ TRUE \in BOOLEAN
  BY DEF Cycle
<1>2. ASSUME NEW x \in BOOLEAN
      PROVE  LET n == recordInodeProgress(c.st, c.path, x)
             IN  n \in State /\ n.bytes = c.st.bytes
  <2>1. recordInodeProgress(c.st, c.path, x) \in State
    BY <1>1, <1>2, InodeProgressType
  <2>2. recordInodeProgress(c.st, c.path, x).bytes = c.st.bytes
    BY <1>1 DEF recordInodeProgress, State
  <2> QED BY <2>1, <2>2
<1>3. i = c \/ i = [c EXCEPT !.st = recordInodeProgress(c.st, c.path, improved)]
            \/ i = [c EXCEPT !.st = recordInodeProgress(c.st, c.path, TRUE)]
  BY DEF withInodeProgress
<1> HIDE DEF improved, i
<1>4. PICK st \in State : st.bytes = c.st.bytes /\ i = [c EXCEPT !.st = st]
  <2>1. c = [c EXCEPT !.st = c.st]
    BY DEF Cycle
  <2> QED BY <1>1, <1>2, <1>3, <2>1
<1>5. i \in Cycle /\ i.st = st
      /\ i.path = c.path /\ i.before = c.before /\ i.last = c.last /\ i.freed = c.freed
      /\ i.measureErr = c.measureErr /\ i.readable = c.readable
  BY <1>4 DEF Cycle
<1> QED BY <1>4, <1>5 DEF i

\* The byte counter that a cycle saves: it advances by at most one, only in a
\* cycle that ran ladder plugins, and progress that was measured resets it.
LEMMA ProgressCounts ==
  ASSUME NEW c \in Cycle, c.readable
  PROVE  LET n == withByteProgress(withInodeProgress(c)).st
         IN  /\ \A m \in Paths : m # c.path => n.bytes[m] = c.st.bytes[m]
             /\ byteProgressMade(c) /\ ~ c.measureErr /\ c.before.ok => n.bytes[c.path].count = 0
             /\ n.bytes[c.path].count <= c.st.bytes[c.path].count
                  \/ (anyLadderPluginRan
                      /\ n.bytes[c.path].count <= c.st.bytes[c.path].count + 1)
<1> DEFINE i == withInodeProgress(c)
           n == withByteProgress(i)
           was == byteBackoffEngaged(i.st, i.path)
           guard == /\ i.readable /\ i.before.ok /\ ~ i.measureErr
                    /\ hostByteLevel(i) # LevelNone \/ was \/ byteNoProgressPending(i.st, i.path)
           engaged == ByteBackoff(i) \/ (proc.mode = "level" /\ was)
           counted == byteNoProgressCount(i.st, i.path, hostByteLevel(i))
           count == IF byteProgressMade(i) THEN 0
                    ELSE IF anyLadderPluginRan THEN counted + 1 ELSE counted
           b == [level |-> hostByteLevel(i), count |-> count, engaged |-> engaged]
           r == recordByteProgress(i.st, i.path, hostByteLevel(i), byteProgressMade(i),
                                   anyLadderPluginRan, engaged)
<1>1. /\ i \in Cycle /\ i.st.bytes = c.st.bytes
      /\ i.path = c.path /\ i.before = c.before /\ i.last = c.last /\ i.freed = c.freed
      /\ i.measureErr <=> c.measureErr
      /\ i.readable <=> c.readable
  BY InodeKeepsBytes
<1> HIDE DEF i
<1>2. byteProgressMade(i) <=> byteProgressMade(c)
  BY <1>1 DEF byteProgressMade, hostByteLevel
<1>3. n = IF guard THEN [i EXCEPT !.st = r] ELSE i
  BY DEF withByteProgress
<1>4. r = [i.st EXCEPT !.bytes[i.path] = b]
  BY Zenon DEF recordByteProgress
<1>5. b.count = count
  OBVIOUS
<1>6. /\ i.st \in State /\ i.path \in Paths /\ i.st.bytes \in [Paths -> ByteRecord]
      /\ i.st.bytes[i.path].count \in Nat
  BY <1>1 DEF Cycle, State, ByteRecord
<1>7. counted \in Nat /\ counted <= i.st.bytes[i.path].count
  BY <1>6 DEF byteNoProgressCount
<1> HIDE DEF b, r, counted, engaged, n
<1>8. r.bytes = [i.st.bytes EXCEPT ![i.path] = b]
  BY <1>4, <1>6 DEF State
<1>9. r.bytes[i.path].count = count /\ \A m \in Paths : m # i.path => r.bytes[m] = i.st.bytes[m]
  BY <1>5, <1>6, <1>8
<1>10. CASE guard
  <2>1. n.st = r
    BY <1>1, <1>3, <1>10 DEF Cycle
  <2>2. \/ count <= i.st.bytes[i.path].count
        \/ anyLadderPluginRan /\ count <= i.st.bytes[i.path].count + 1
    BY <1>6, <1>7
  <2>3. byteProgressMade(i) => count = 0
    OBVIOUS
  <2> HIDE DEF count, guard
  <2> QED BY <1>1, <1>2, <1>9, <2>1, <2>2, <2>3 DEF i, n
<1>11. CASE ~ guard
  <2>1. n.st = i.st
    BY <1>3, <1>11
  <2>2. c.before.ok /\ ~ c.measureErr => ~ byteNoProgressPending(i.st, i.path)
    BY <1>1, <1>11
  <2>3. c.before.ok /\ ~ c.measureErr => i.st.bytes[i.path].count = 0
    BY <1>6, <2>2 DEF byteNoProgressPending
  <2> HIDE DEF guard, count
  <2> QED BY <1>1, <1>6, <2>1, <2>3 DEF i, n
<1> QED BY <1>10, <1>11

LEMMA EndCycleCounts ==
  ASSUME CycleInv, CycleInv', CountsInv, NEW s \in Reading, NEW save \in SaveOutcomes,
         EndCycle(s, save)
  PROVE  CountsInv'
<1> DEFINE c == updateHostFreeAfter(cyc, s)
           n == withByteProgress(withInodeProgress(c)).st
           saved == save /\ c.readable /\ proc.mode # "dry" /\ c.level # LevelNone
           real == c.level # LevelNone /\ proc.mode # "dry"
           better == byteProgressMade(c) /\ ~ c.measureErr /\ c.before.ok
<1>1. /\ disk' = (IF saved THEN n ELSE disk) /\ cyc' = IdleCycle
      /\ tries' = IF real THEN TriesAfter(c, saved) ELSE tries
  BY DEF EndCycle
<1>2. cyc \in Cycle /\ c \in Cycle /\ c.st = cyc.st /\ c.path \in Paths
  BY MeasureType DEF CycleInv, TypeOK, Cycle
<1>3. saved => c.readable /\ real
  OBVIOUS
<1>4. TriesAfter(c, saved) =
        IF saved /\ better THEN [tries EXCEPT ![c.path] = 0]
        ELSE [tries EXCEPT ![c.path] =
                IF anyLadderPluginRan /\ tries[c.path] < ByteLimit THEN tries[c.path] + 1
                ELSE tries[c.path]]
  BY DEF TriesAfter
<1> HIDE DEF c
<1>5. saved => /\ \A m \in Paths : m # c.path => n.bytes[m] = c.st.bytes[m]
               /\ better => n.bytes[c.path].count = 0
               /\ \/ n.bytes[c.path].count <= c.st.bytes[c.path].count
                  \/ anyLadderPluginRan /\ n.bytes[c.path].count <= c.st.bytes[c.path].count + 1
  BY <1>2, <1>3, ProgressCounts
<1> HIDE DEF saved, better, n, real
<1>6. TypeOK /\ TypeOK' /\ tries \in [Paths -> Nat] /\ tries' \in [Paths -> Nat]
      /\ disk \in State /\ disk' \in State /\ c.st \in State /\ ByteLimit \in Int
  BY <1>2, CycleAssumption DEF CycleInv, TypeOK, Cycle
<1>7. CountsSound(disk) /\ CountsSound(c.st)
  BY <1>2 DEF CountsInv
<1>8. \A m \in Paths : newCleanupState.bytes[m].count <= tries'[m] \/ ByteLimit <= tries'[m]
  BY <1>6, FreshCounts
<1>9. CASE ~ saved
  <2>1. \A m \in Paths : tries[m] <= tries'[m]
    BY <1>1, <1>2, <1>4, <1>6, <1>9
  <2>2. \A m \in Paths : disk.bytes[m].count <= disk.bytes[m].count
    BY <1>6 DEF State, ByteRecord
  <2>3. \A m \in Paths : disk.bytes[m].count <= tries'[m] \/ ByteLimit <= tries'[m]
    BY <1>6, <1>7, <2>1, <2>2, CountsStable
  <2> QED BY <1>1, <1>8, <1>9, <2>3 DEF CountsInv, CountsSound, IdleCycle
<1>10. CASE saved
  <2>1. disk' = n /\ n \in State /\ tries' = TriesAfter(c, saved)
    BY <1>1, <1>3, <1>6, <1>10
  <2>2. ASSUME NEW m \in Paths PROVE n.bytes[m].count <= tries'[m] \/ ByteLimit <= tries'[m]
    <3>1. /\ n.bytes[m].count \in Nat /\ c.st.bytes[m].count \in Nat
          /\ tries[m] \in Nat /\ tries'[m] \in Nat
          /\ c.st.bytes[m].count <= tries[m] \/ ByteLimit <= tries[m]
      BY <1>6, <1>7, <2>1 DEF State, ByteRecord, CountsSound
    <3>2. CASE m # c.path
      <4>1. tries'[m] = tries[m]
        BY <1>4, <1>6, <2>1, <3>2
      <4> QED BY <1>5, <1>10, <3>1, <3>2, <4>1
    <3>3. CASE m = c.path /\ better
      BY <1>5, <1>10, <3>1, <3>3
    <3>4. CASE m = c.path /\ ~ better
      <4>1. tries'[m] = IF anyLadderPluginRan /\ tries[m] < ByteLimit THEN tries[m] + 1
                        ELSE tries[m]
        BY <1>4, <1>6, <2>1, <3>4
      <4>2. \/ n.bytes[m].count <= c.st.bytes[m].count
            \/ anyLadderPluginRan /\ n.bytes[m].count <= c.st.bytes[m].count + 1
        BY <1>5, <1>10, <3>4
      <4> QED BY <1>6, <3>1, <4>1, <4>2
    <3> QED BY <3>2, <3>3, <3>4
  <2> QED BY <1>1, <1>8, <2>1, <2>2 DEF CountsInv, CountsSound, IdleCycle
<1> QED BY <1>9, <1>10

LEMMA CountsStep ==
  ASSUME \A m, n \in Paths : m = n, CycleInv, CycleInv', CountsInv, [Next]_vars
  PROVE  CountsInv'
<1>0. cyc \in Cycle /\ proc \in Processes /\ tries \in [Paths -> Nat]
  BY DEF CycleInv, TypeOK
<1>1. ASSUME NEW seen \in [Mounts -> Reading], NEW before \in Reading, NEW load \in LoadOutcomes,
             NEW saved \in SaveOutcomes, BeginCycle(seen, before, load, saved)
      PROVE  CountsInv'
  BY <1>1, BeginCycleCounts
<1>2. ASSUME UNCHANGED <<disk, tries>>, cyc'.st.bytes = cyc.st.bytes PROVE CountsInv'
  BY <1>2 DEF CountsInv, CountsSound
<1>3. ASSUME NEW p \in Plugins, NEW s \in Reading, VisitIndependent(p, s) PROVE CountsInv'
  <2>1. cyc'.st = cyc.st /\ UNCHANGED <<disk, tries>>
    BY <1>0, <1>3, MeasureKeeps DEF VisitIndependent
  <2> QED BY <1>2, <2>1
<1>4. ASSUME NEW p \in Plugins, SkipPlugin(p) \/ PlanPlugin(p) PROVE CountsInv'
  BY <1>2, <1>4 DEF SkipPlugin, PlanPlugin
<1>5. ASSUME NEW p \in Plugins, NEW bytes \in Yields, NEW s \in Reading, RunPlugin(p, bytes, s)
      PROVE  CountsInv'
  <2>1. ASSUME NEW b \in Nat
        PROVE  recordRun(cyc, p, b) \in Cycle /\ recordRun(cyc, p, b).st.bytes = cyc.st.bytes
    <3>1. recordRun(cyc, p, b) \in Cycle
      BY <1>0, <2>1, RecordRunType
    <3>2. recordRun(cyc, p, b).st.bytes = cyc.st.bytes
      <4> DEFINE y == recordPluginYield(recordPluginRun(cyc.st.plugins[p], cyc.level, cyc.now),
                                        b < MinYield, cyc.now, proc.digest, p \notin Exempt)
      <4>1. recordRun(cyc, p, b) = IF cyc.readable THEN [cyc EXCEPT !.st.plugins[p] = y] ELSE cyc
        BY DEF recordRun
      <4> HIDE DEF y
      <4> QED BY <1>0, <4>1 DEF Cycle, State
    <3> QED BY <3>1, <3>2
  <2>2. bytes \in Nat /\ 0 \in Nat /\ UNCHANGED <<disk, tries>>
    BY <1>5, CycleAssumption DEF RunPlugin
  <2>3. CASE cyc' = updateHostFreeAfter([recordRun(cyc, p, bytes) EXCEPT !.freed = @ + bytes], s)
    <3> DEFINE n == recordRun(cyc, p, bytes)
               m == [n EXCEPT !.freed = @ + bytes]
    <3>1. n \in Cycle /\ n.st.bytes = cyc.st.bytes
      BY <2>1, <2>2
    <3>2. cyc' = updateHostFreeAfter(m, s)
      BY <2>3
    <3> HIDE DEF n
    <3>3. m \in Cycle /\ m.st = n.st
      BY <2>2, <3>1 DEF Cycle
    <3> HIDE DEF m
    <3>4. cyc'.st = m.st
      BY <3>2, <3>3, MeasureKeeps
    <3> QED BY <1>2, <2>2, <3>1, <3>3, <3>4
  <2>4. CASE cyc' = recordRun(cyc, p, bytes) \/ cyc' = recordRun(cyc, p, 0) \/ cyc' = cyc
    BY <1>2, <2>1, <2>2, <2>4
  <2> QED BY <1>5, <2>3, <2>4 DEF RunPlugin
<1>6. ASSUME NEW s \in Reading, NEW saved \in SaveOutcomes, EndCycle(s, saved) PROVE CountsInv'
  BY <1>6, EndCycleCounts
<1>7. CASE Restart
  <2>1. UNCHANGED <<disk, tries>> /\ cyc'.st = newCleanupState
    BY <1>7 DEF Restart, IdleCycle
  <2>2. \A m \in Paths : newCleanupState.bytes[m].count <= tries[m] \/ ByteLimit <= tries[m]
    BY <1>0, FreshCounts
  <2> QED BY <2>1, <2>2 DEF CountsInv, CountsSound
<1>8. CASE Tick \/ (\E p \in Plugins : WedgedRunReturns(p)) \/ UNCHANGED vars
  BY <1>2, <1>8 DEF Tick, WedgedRunReturns, vars
<1> QED BY <1>1, <1>3, <1>4, <1>5, <1>6, <1>7, <1>8 DEF Next

\* On a host that monitors one path, byte backoff is engaged only after
\* byte_no_progress_limit cycles that really ran ladder plugins there since
\* progress was last saved or the pressure last cleared.  With several paths this
\* is false: the none branch of runCycle resets the counter of the cycle's own
\* path only.
THEOREM BackoffIsEarned ==
  ASSUME \A m, n \in Paths : m = n
  PROVE  Spec => []ByteBackoffEarned
<1>1. Init => CountsInv
  <2> SUFFICES ASSUME Init PROVE CountsInv
    OBVIOUS
  <2>1. disk = newCleanupState /\ cyc.st = newCleanupState /\ tries \in [Paths -> Nat]
    BY DEF Init, IdleCycle
  <2> QED BY <2>1, FreshCounts DEF CountsInv, CountsSound
<1>2. CycleInv /\ CycleInv' /\ CountsInv /\ [Next]_vars => CountsInv'
  BY CountsStep
<1>3. CycleInv /\ CountsInv => ByteBackoffEarned
  <2> SUFFICES ASSUME CycleInv, CountsInv, ByteBackoff(cyc) PROVE tries[cyc.path] >= ByteLimit
    BY DEF ByteBackoffEarned
  <2>1. reportedByteCount(cyc) >= ByteLimit /\ ByteLimit > 0
    BY DEF ByteBackoff, byteBackoffActive
  <2>2. /\ cyc.path \in Paths /\ cyc.st.bytes[cyc.path].count \in Nat
        /\ tries[cyc.path] \in Nat /\ ByteLimit \in Int
    BY CycleAssumption DEF CycleInv, TypeOK, Cycle, State, ByteRecord
  <2>3. reportedByteCount(cyc) \in {0, cyc.st.bytes[cyc.path].count}
    BY DEF reportedByteCount, byteNoProgressCount
  <2> QED BY <2>1, <2>2, <2>3 DEF CountsInv, CountsSound
<1> QED BY <1>1, <1>2, <1>3, CycleInvariant, PTL DEF Spec
=============================================================================
