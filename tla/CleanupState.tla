--------------------------- MODULE CleanupState ---------------------------
(***************************************************************************)
(* The persisted cleanup state of state.go: what the daemon remembers      *)
(* between cycles about every plugin and every monitored path, and the     *)
(* functions that read and update it.  A state is a record                 *)
(*   [plugins |-> [Plugins -> PluginRecord],                               *)
(*    inodes  |-> [Paths -> InodeRecord], bytes |-> [Paths -> ByteRecord]] *)
(* A Go map entry that is absent reads as the zero record, so the maps are *)
(* total here and an absent entry is the zero record; the only readers     *)
(* that test for presence also test the run time, which only a zero record *)
(* lacks.                                                                  *)
(*                                                                         *)
(* Time is counted in ticks.  Times are persisted with RFC 3339's          *)
(* resolution of one second, which is TicksPerSecond ticks.                *)
(***************************************************************************)
EXTENDS Integers

CONSTANTS
  Plugins,          \* names of the enabled plugins
  Paths,            \* monitored mount paths, and the home directory
  Digests,          \* configuration digests (configDigest)
  TicksPerSecond,   \* clock ticks per second
  ZeroYieldLimit,   \* zeroYieldPolicy.limit; 0 when suppression is disabled
  ZeroYieldBase,    \* zeroYieldPolicy.base
  ZeroYieldMax,     \* zeroYieldPolicy.max
  PressureMin       \* zeroYieldPolicy.pressureMin

\* zeroYieldPolicy() resolves every value to a positive one and raises the cap
\* to the base, whatever the configuration says.
ASSUME StateAssumption ==
  /\ TicksPerSecond \in Nat \ {0}
  /\ ZeroYieldLimit \in Nat
  /\ ZeroYieldBase \in Nat \ {0} /\ ZeroYieldMax \in Nat /\ ZeroYieldBase <= ZeroYieldMax
  /\ PressureMin \in Nat \ {0}

-----------------------------------------------------------------------------
NoTime == -1
NoDigest == "no digest"

Time == Nat
MaybeTime == Time \cup {NoTime}

PluginRecord == [run: MaybeTime, level: 0 .. 4, zero: Nat, until: MaybeTime,
                 digest: Digests \cup {NoDigest}]
InodeRecord == Nat
ByteRecord == [level: 0 .. 4, count: Nat, engaged: BOOLEAN]

State == [plugins: [Plugins -> PluginRecord], inodes: [Paths -> InodeRecord],
          bytes: [Paths -> ByteRecord]]

ZeroRecord == [run |-> NoTime, level |-> 0, zero |-> 0, until |-> NoTime, digest |-> NoDigest]
ZeroBytes == [level |-> 0, count |-> 0, engaged |-> FALSE]

newCleanupState ==
  [plugins |-> [p \in Plugins |-> ZeroRecord], inodes |-> [m \in Paths |-> 0],
   bytes |-> [m \in Paths |-> ZeroBytes]]

\* Formatting a time as RFC 3339 drops the fraction of a second.
Stamp(t) == t - (t % TicksPerSecond)

\* The loop of zeroYieldBackoff after n rounds: it stops at the cap, and half the
\* cap is the most it doubles.
ZeroYieldInterval[n \in Nat] ==
  IF n = 0 THEN ZeroYieldBase
  ELSE IF ZeroYieldInterval[n - 1] >= ZeroYieldMax THEN ZeroYieldInterval[n - 1]
  ELSE IF ZeroYieldInterval[n - 1] > ZeroYieldMax \div 2 THEN ZeroYieldMax
  ELSE 2 * ZeroYieldInterval[n - 1]

\* Mutant: every further run is held back for the base interval only.
zeroYieldBackoff_Flat(count) ==
  IF ZeroYieldLimit <= 0 \/ count < ZeroYieldLimit THEN 0 ELSE ZeroYieldBase

\* zeroYieldBackoff: base at the limit, doubled per further run, capped.
zeroYieldBackoff(count) ==
  IF ZeroYieldLimit <= 0 \/ count < ZeroYieldLimit THEN 0
  ELSE ZeroYieldInterval[count - ZeroYieldLimit]

\* Mutant: rounds the remaining time up, past the end of the interval.
cooldownRemaining_RoundsUp(r, level, now, cooldown) ==
  LET elapsed == IF now < r.run THEN 0 ELSE now - r.run
  IN  IF r.run = NoTime \/ r.level < level \/ elapsed > cooldown
      THEN 0 ELSE cooldown - elapsed + 1

(***************************************************************************)
(* cooldownRemaining: how long the record holds a plugin back at a level.  *)
(* A run at a lower level does not count, and a clock behind the record    *)
(* reads as no time elapsed.                                               *)
(***************************************************************************)
cooldownRemaining(r, level, now, cooldown) ==
  LET elapsed == IF now < r.run THEN 0 ELSE now - r.run
  IN  IF r.run = NoTime \/ r.level < level \/ elapsed >= cooldown
      THEN 0 ELSE cooldown - elapsed

\* Mutant: keeps the date of the first run.
recordPluginRun_KeepsFirst(r, level, now) ==
  [r EXCEPT !.run = IF @ = NoTime THEN Stamp(now) ELSE @, !.level = level]

\* Mutant: rounds the date up to the next second.
recordPluginRun_RoundsUp(r, level, now) ==
  [r EXCEPT !.run = Stamp(now + TicksPerSecond), !.level = level]

(***************************************************************************)
(* recordPluginRun followed by recordPluginYield, as recordRun calls them. *)
(***************************************************************************)
recordPluginRun(r, level, now) == [r EXCEPT !.run = Stamp(now), !.level = level]

recordPluginYield(r, zeroYield, now, digest, suppressible) ==
  LET before == IF r.digest = digest THEN r.zero ELSE 0
      count  == IF zeroYield /\ ZeroYieldLimit > 0 THEN before + 1 ELSE 0
      hold   == IF suppressible THEN zeroYieldBackoff(count) ELSE 0
  IN  [r EXCEPT !.digest = digest, !.zero = count,
                !.until = IF hold > 0 THEN Stamp(now + hold) ELSE NoTime]

\* Mutant: lifts nothing.
liftZeroYieldSuppression_Noop(s) == s

\* liftZeroYieldSuppression clears every retry time and keeps the counts.
liftZeroYieldSuppression(s) ==
  [s EXCEPT !.plugins = [p \in Plugins |-> [s.plugins[p] EXCEPT !.until = NoTime]]]

\* Mutant: a new configuration does not lift a suppression.
zeroYieldSuppressed_AnyConfig(r, level, now, digest) ==
  r.until # NoTime /\ now < r.until /\ level <= r.level

\* zeroYieldSuppression: the level rising above the plugin's last run, or a new
\* configuration digest, lifts a suppression whose retry time is still ahead.
zeroYieldSuppressed(r, level, now, digest) ==
  /\ r.until # NoTime /\ now < r.until
  /\ level <= r.level /\ r.digest = digest

recordInodeProgress(s, path, improved) ==
  [s EXCEPT !.inodes[path] = IF improved THEN 0 ELSE @ + 1]

\* byteNoProgressCount: a level above the recorded one earns a fresh attempt.
byteNoProgressCount(s, path, level) ==
  IF level > s.bytes[path].level THEN 0 ELSE s.bytes[path].count

byteNoProgressPending(s, path) == s.bytes[path].count > 0

byteBackoffEngaged(s, path) == s.bytes[path].engaged

\* Mutant: a cycle in which every plugin was held back counts as an attempt.
recordByteProgress_EveryCycle(s, path, level, progress, cleanupRan, engaged) ==
  LET counted == byteNoProgressCount(s, path, level)
      count   == IF progress THEN 0 ELSE counted + 1
  IN  [s EXCEPT !.bytes[path] = [level |-> level, count |-> count, engaged |-> engaged]]

(***************************************************************************)
(* recordByteProgress: progress resets the counter, a cycle that ran       *)
(* cleanup without it advances the counter, and a cycle in which every     *)
(* plugin was held back leaves it alone.                                   *)
(***************************************************************************)
recordByteProgress(s, path, level, progress, cleanupRan, engaged) ==
  LET counted == byteNoProgressCount(s, path, level)
      count   == IF progress THEN 0 ELSE IF cleanupRan THEN counted + 1 ELSE counted
  IN  [s EXCEPT !.bytes[path] = [level |-> level, count |-> count, engaged |-> engaged]]
=============================================================================
