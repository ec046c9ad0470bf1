--------------------------- MODULE CleanupCycle ---------------------------
(***************************************************************************)
(* The daemon's cleanup cycle: runCycle in main.go, over the persisted     *)
(* state of CleanupState and the pressure ladder of DiskMonitor.           *)
(*                                                                         *)
(* A cycle assesses the mounts, loads the state, decides the two backoffs, *)
(* visits the enabled plugins in registry order, records progress and      *)
(* saves the state.  The actions are the parts of runCycle between which   *)
(* other things can happen: time passes, the process is killed, an         *)
(* abandoned plugin run returns.  Other programs fill and drain the disks  *)
(* at any moment, so every reading of a disk is an arbitrary one.          *)
(***************************************************************************)
EXTENDS CleanupState, DiskMonitor, Sequences

CONSTANTS
  PluginOrder,      \* the registry's order, a sequence of all of Plugins
  Independent,      \* plugins that run outside the level ladder
  Exempt,           \* plugins that are never suppressed for zero yield
  MountOrder,       \* monitored_mounts, in configuration order
  Home,             \* the path used when no mount can be read
  Monitors,         \* per path: [bytes |-> ladder, inode |-> ladder, floor |-> n]
  InodesTotal,      \* per path: inodes the filesystem reports, 0 for none
  InodesDynamic,    \* per path: inodes are allocated on demand
  TargetUsed,       \* per path: targetUsedPercent
  Cooldown,         \* policy.cooldown
  BypassLevel,      \* policy.cooldown_bypass_level
  InodeLimit,       \* policy.inode_no_progress_limit
  ByteLimit,        \* policy.byte_no_progress_limit; not positive: disabled
  ByteMax,          \* policy.byte_backoff_max
  EmergencyFree,    \* policy.emergency_free_gb
  MinimumFree,      \* policy.minimum_free_gb
  MinYield,         \* policy.byte_progress_min_mb
  Poll,             \* poll_interval
  Modes,            \* kinds of process: "daemon", "level", "plugins", "dry"
  ForcedLevels,     \* levels an operator passes with --level
  FreeValues,       \* free space, in percent of a filesystem
  InodeValues,      \* free inodes, in percent
  Yields,           \* bytes a plugin run reports as freed
  LoadOutcomes,     \* "ok", "error", "corrupt"
  SaveOutcomes,     \* TRUE for a save that succeeds
  PluginsTakeTime,  \* bound: whether the clock advances while plugins run
  MaxClock          \* bound: the latest time

ASSUME CycleAssumption ==
  /\ PluginOrder \in Seq(Plugins)
  /\ \A p \in Plugins : \E i \in 1 .. Len(PluginOrder) : PluginOrder[i] = p
  /\ Independent \subseteq Plugins /\ Exempt \subseteq Plugins
  /\ MountOrder \in Seq(Paths) /\ Home \in Paths
  /\ Monitors \in [Paths -> [bytes: Ladder(Nat), inode: Ladder(Nat), floor: Nat]]
  /\ InodesTotal \in [Paths -> Nat] /\ InodesDynamic \in [Paths -> BOOLEAN]
  /\ TargetUsed \in [Paths -> Nat]
  /\ Cooldown \in Nat /\ BypassLevel \in 1 .. 4 /\ InodeLimit \in Nat \ {0}
  /\ ByteLimit \in Int /\ ByteMax \in Nat \ {0}
  /\ EmergencyFree \in Nat /\ MinimumFree \in Nat /\ MinYield \in Nat \ {0}
  /\ Poll \in Nat \ {0} /\ ForcedLevels \subseteq 1 .. 4
  /\ FreeValues \subseteq 0 .. 100 /\ InodeValues \subseteq 0 .. 100
  /\ Yields \subseteq Nat /\ SaveOutcomes \subseteq BOOLEAN
  /\ MaxClock \in Nat /\ PluginsTakeTime \in BOOLEAN
  /\ NoDigest \notin Digests

VARIABLES
  disk,     \* the content of the state file
  clock,    \* the current time
  wake,     \* when the next cycle may begin
  proc,     \* the running process: its kind, options and configuration digest
  wedged,   \* plugins whose abandoned run has not returned (daemon.inFlight)
  phase,    \* "idle", "plugins" or "exited"
  cyc,      \* the running cycle's locals and report fields
  report,   \* the running cycle's outcome per plugin (report.Plugins)
  hist,     \* history: each plugin's last real run
  tries     \* history: real cleanup attempts without progress, per path

vars == <<disk, clock, wake, proc, wedged, phase, cyc, report, hist, tries>>

Mounts == {MountOrder[i] : i \in 1 .. Len(MountOrder)}
LadderPlugins == Plugins \ Independent

Statistics == [ok: {TRUE}, free: FreeValues, inodes: InodeValues]
Unreadable == [ok |-> FALSE, free |-> 0, inodes |-> 0]
Reading == Statistics \cup {Unreadable}

(***************************************************************************)
(* The command lines: the daemon, a forced level (--level), a plugin       *)
(* filter (--plugins) and a dry run (--dry-run).                           *)
(***************************************************************************)
Processes ==
  {q \in [mode: Modes, forced: ForcedLevels \cup {LevelNone}, filter: SUBSET Plugins,
          digest: Digests] :
     /\ q.mode = "level" <=> q.forced # LevelNone
     /\ q.mode # "plugins" => q.filter = Plugins
     /\ q.filter # {}}

Skips == {"target_free_met", "zero_yield_backoff", "cooldown", "byte_backoff"}
Ran == {"ran", "failed", "abandoned"}
Verdicts == Skips \cup Ran \cup {"excluded", "pending", "plugin_wedged", "planned"}

-----------------------------------------------------------------------------
(* Levels and targets of a path for a reading. *)

byteLevelForPath(path, s) ==
  IF s.ok THEN levelForPercent(100 - s.free, Monitors[path].bytes) ELSE LevelNone

inodeLevelForPath(path, s) ==
  IF s.ok
  THEN CheckInodeLevel([total |-> InodesTotal[path], free |-> s.inodes,
                        usedPercent |-> 100 - s.inodes, dynamic |-> InodesDynamic[path]],
                       Monitors[path])
  ELSE LevelNone

Higher(a, b) == IF a > b THEN a ELSE b
Smaller(a, b) == IF a < b THEN a ELSE b

mountLevel(path, s) == Higher(byteLevelForPath(path, s), inodeLevelForPath(path, s))

\* The highest of a set of levels, starting from none.
HighestLevel(levels) ==
  CHOOSE l \in CleanupLevel :
    /\ l = LevelNone \/ l \in levels
    /\ \A k \in levels : k <= l

(***************************************************************************)
(* assessMounts: the level of the cycle, the highest inode level, and      *)
(* whether some mount is at moderate or higher (pressuredMount).  A mount  *)
(* that cannot be read counts as none.                                     *)
(***************************************************************************)
assessedLevel(seen) == HighestLevel({mountLevel(m, seen[m]) : m \in Mounts})
assessedInodeLevel(seen) == HighestLevel({inodeLevelForPath(m, seen[m]) : m \in Mounts})
pressuredMount(seen) ==
  \E m \in Mounts : seen[m].ok /\ mountLevel(m, seen[m]) >= LevelModerate

\* The first mount of a set in configuration order, or a fallback.
IsFirst(i, S) == MountOrder[i] \in S /\ \A j \in 1 .. i - 1 : MountOrder[j] \notin S

FirstMount(S, fallback) ==
  IF \E i \in 1 .. Len(MountOrder) : IsFirst(i, S)
  THEN MountOrder[CHOOSE i \in 1 .. Len(MountOrder) : IsFirst(i, S)]
  ELSE fallback

\* primaryMonitorPath: the first readable mount at the cycle's assessed level,
\* else the first readable one, else the home directory.
primaryMonitorPath(seen) ==
  LET readable == {m \in Mounts : seen[m].ok}
      worst    == {m \in readable : mountLevel(m, seen[m]) = assessedLevel(seen)}
  IN  FirstMount(worst, FirstMount(readable, Home))

\* targetFreeBytes of a filesystem of size 100, when the target is a usable one.
targetFreeMet(c) ==
  /\ c.last.ok
  /\ TargetUsed[c.path] \in 1 .. 99
  /\ c.last.free >= 100 - TargetUsed[c.path]

minimumFreeMet(c) == c.last.ok /\ c.last.free >= MinimumFree

\* cleanupTargetMet: the highest inode level is the one seen by the assessment
\* at the start of the cycle; it is not measured again while plugins run.
cleanupTargetMet(c) == targetFreeMet(c) /\ c.maxInode = LevelNone

belowEmergencyFloor(c) == EmergencyFree > 0 /\ c.before.free < EmergencyFree
-----------------------------------------------------------------------------
(* Backoffs and holds. *)

hostByteLevel(c) == byteLevelForPath(c.path, c.before)
reportedByteCount(c) == byteNoProgressCount(c.st, c.path, hostByteLevel(c))

inodeBackoffActive(c) ==
  /\ inodeLevelForPath(c.path, c.before) >= BypassLevel
  /\ hostByteLevel(c) < BypassLevel
  /\ c.st.inodes[c.path] >= InodeLimit

InodeBackoff(c) == proc.mode # "level" /\ Cooldown > 0 /\ c.readable /\ inodeBackoffActive(c)

byteBackoffActive(c) ==
  /\ ByteLimit > 0
  /\ c.before.ok /\ hostByteLevel(c) # LevelNone
  /\ reportedByteCount(c) >= ByteLimit
  /\ ~ belowEmergencyFloor(c)

ByteBackoff(c) == proc.mode \notin {"level", "dry"} /\ c.readable /\ byteBackoffActive(c)

byteBackoffInterval == IF Cooldown <= 0 \/ Cooldown > ByteMax THEN ByteMax ELSE Cooldown

\* The loop of byteBackoffIntervalFor after n rounds: it may end past the cap.
ByteDoubled[n \in Nat] ==
  IF n = 0 THEN byteBackoffInterval
  ELSE IF ByteDoubled[n - 1] < ByteMax THEN 2 * ByteDoubled[n - 1] ELSE ByteDoubled[n - 1]

\* byteBackoffIntervalFor: doubled per attempt beyond the limit, up to the cap.
byteBackoffIntervalFor(count) ==
  IF count <= ByteLimit THEN byteBackoffInterval
  ELSE Smaller(ByteDoubled[count - ByteLimit], ByteMax)

\* shouldApplyCooldown: an unmet minimum free space and a level at or above the
\* bypass level ignore cooldown, the latter unless the inode breaker is engaged.
shouldApplyCooldown(c) ==
  /\ MinimumFree > 0 => minimumFreeMet(c)
  /\ proc.mode \notin {"level", "dry"} /\ Cooldown > 0
  /\ c.level >= BypassLevel => InodeBackoff(c)

\* pluginCooldown: the interval that holds plugins back, with its reason.
pluginCooldown(c) ==
  IF shouldApplyCooldown(c) THEN [reason |-> "cooldown", interval |-> Cooldown]
  ELSE IF ByteBackoff(c)
       THEN [reason |-> "byte_backoff", interval |-> byteBackoffIntervalFor(reportedByteCount(c))]
       ELSE [reason |-> "none", interval |-> 0]

\* zeroYieldExemption, with the pressure interval runCycle adds to it: mount
\* pressure lifts a suppression once PressureMin has passed since the last run.
zeroYieldExempt(c, p) ==
  \/ proc.mode # "daemon"
  \/ p \in Exempt
  \/ ~ c.before.ok
  \/ belowEmergencyFloor(c)
  \/ c.pressured /\ c.now >= c.st.plugins[p].run + PressureMin

zeroYieldHolds(c, p) ==
  /\ ZeroYieldLimit > 0
  /\ zeroYieldSuppressed(c.st.plugins[p], c.level, c.now, proc.digest)
  /\ ~ zeroYieldExempt(c, p)

cooldownHolds(c, p) ==
  cooldownRemaining(c.st.plugins[p], c.level, c.now, pluginCooldown(c).interval) > 0

\* The tests a ladder plugin passes before it is planned or run, in their order.
Gate(c, p) ==
  IF proc.mode # "dry" /\ cleanupTargetMet(c) THEN "target_free_met"
  ELSE IF c.readable /\ zeroYieldHolds(c, p) THEN "zero_yield_backoff"
  ELSE IF c.readable /\ cooldownHolds(c, p) THEN pluginCooldown(c).reason
  ELSE "open"
-----------------------------------------------------------------------------
(* Beginning a cycle. *)

IdleCycle ==
  [now |-> 0, level |-> LevelNone, path |-> Home, maxInode |-> LevelNone,
   pressured |-> FALSE, before |-> Unreadable, last |-> Unreadable, measureErr |-> FALSE,
   readable |-> FALSE, st |-> newCleanupState, freed |-> 0]

NoReport == [p \in Plugins |-> "excluded"]

\* No plugin has run, as far as the history goes.
NoRun == [now |-> NoTime, level |-> 0, digest |-> NoDigest,
          freed |-> FALSE, saved |-> FALSE, episode |-> FALSE, barren |-> 0]

Init ==
  /\ disk = newCleanupState
  /\ clock = 0 /\ wake = 0
  /\ proc \in Processes
  /\ wedged = {}
  /\ phase = "idle" /\ cyc = IdleCycle /\ report = NoReport
  /\ hist = [p \in Plugins |-> NoRun]
  /\ tries = [m \in Paths |-> 0]

\* The part of the none branch that updates the state: byte backoff is released
\* on the cycle's path and every zero-yield suppression is lifted.
quietState(c) ==
  LET released == IF c.before.ok /\ (byteBackoffEngaged(c.st, c.path)
                                       \/ byteNoProgressPending(c.st, c.path))
                  THEN recordByteProgress(c.st, c.path, LevelNone, TRUE, FALSE, FALSE)
                  ELSE c.st
  IN  IF proc.mode # "dry" /\ c.readable THEN liftZeroYieldSuppression(released) ELSE c.st

\* loadStateForCycle: a dry run starts from fresh state; an undecodable file is
\* set aside, which leaves no state file behind.
FileAfterLoad(load) ==
  IF proc.mode # "dry" /\ load = "corrupt" THEN newCleanupState ELSE disk
StateInMemory(load) ==
  IF proc.mode = "dry" \/ load = "error" THEN newCleanupState ELSE FileAfterLoad(load)

\* History: what the beginning of a cycle does to what is known of past runs.
HistoryAfterBegin(lost, quiet) ==
  [p \in Plugins |->
     [hist[p] EXCEPT !.saved = @ /\ ~ lost, !.episode = @ /\ ~ quiet,
                     !.barren = IF lost THEN 0 ELSE @]]

(***************************************************************************)
(* BeginCycle: from the top of runCycle to its plugin loop.  The level is  *)
(* the operator's, or the assessed one.  With no pressure the state is     *)
(* released, saved if anything changed, and only level-independent plugins *)
(* are left to visit.                                                      *)
(***************************************************************************)
BeginCycle(seen, before, load, saved) ==
  LET level == IF proc.forced = LevelNone THEN assessedLevel(seen) ELSE proc.forced
      c == [now |-> clock, level |-> level, path |-> primaryMonitorPath(seen),
            maxInode |-> assessedInodeLevel(seen), pressured |-> pressuredMount(seen),
            before |-> before, last |-> before, measureErr |-> FALSE,
            readable |-> proc.mode = "dry" \/ load # "error",
            st |-> StateInMemory(load), freed |-> 0]
      file  == FileAfterLoad(load)
      quiet == level = LevelNone /\ proc.mode # "dry" /\ c.readable
      kept  == quiet /\ (saved \/ quietState(c) = file)
  IN  /\ phase = "idle" /\ clock >= wake
      /\ phase' = "plugins"
      /\ cyc' = IF level = LevelNone THEN [c EXCEPT !.st = quietState(c)] ELSE c
      /\ report' = [p \in Plugins |->
                      IF p \in proc.filter /\ (level # LevelNone \/ p \in Independent)
                      THEN "pending" ELSE "excluded"]
      /\ disk' = IF kept THEN quietState(c) ELSE file
      /\ hist' = HistoryAfterBegin(proc.mode # "dry" /\ load = "corrupt", kept)
      /\ tries' = IF kept /\ before.ok THEN [m \in Paths |-> 0] ELSE tries
      /\ UNCHANGED <<clock, wake, proc, wedged>>
-----------------------------------------------------------------------------
(* Visiting the plugins. *)

\* The plugin the loop has reached: the first pending one in registry order.
Reached(p) ==
  /\ phase = "plugins"
  /\ report[p] = "pending"
  /\ \E i \in 1 .. Len(PluginOrder) :
       /\ PluginOrder[i] = p
       /\ \A j \in 1 .. i - 1 : report[PluginOrder[j]] # "pending"

Verdict(p, v) == report' = [report EXCEPT ![p] = v]

\* updateHostFreeAfter: a failed reading is remembered and changes nothing else.
updateHostFreeAfter(c, s) ==
  IF s.ok THEN [c EXCEPT !.last = s] ELSE [c EXCEPT !.measureErr = TRUE]

\* watchPlugin: a plugin whose abandoned run is still going is not started.
\* Otherwise the run returns, in time or after its deadline, or is abandoned.
StillWedged(p) ==
  /\ p \in wedged
  /\ Verdict(p, "plugin_wedged")
  /\ UNCHANGED wedged

Started(p, v) ==
  /\ p \notin wedged
  /\ Verdict(p, v)
  /\ wedged' = IF v = "abandoned" THEN wedged \cup {p} ELSE wedged

(***************************************************************************)
(* VisitIndependent: a level-independent plugin runs, or is planned,       *)
(* whatever the level, the targets and the backoffs say, and none of it is *)
(* recorded.  Under pressure the disk is measured again afterwards.        *)
(***************************************************************************)
VisitIndependent(p, s) ==
  /\ Reached(p) /\ p \in Independent
  /\ \/ StillWedged(p)
     \/ Started(p, IF proc.mode = "dry" THEN "planned" ELSE "ran")
     \/ proc.mode # "dry" /\ Started(p, "failed")
     \/ Started(p, "abandoned")
  /\ cyc' = IF cyc.level = LevelNone THEN cyc ELSE updateHostFreeAfter(cyc, s)
  /\ UNCHANGED <<disk, clock, wake, proc, phase, hist, tries>>

\* A ladder plugin that a gate holds back.
SkipPlugin(p) ==
  /\ Reached(p) /\ p \notin Independent
  /\ Gate(cyc, p) # "open"
  /\ Verdict(p, Gate(cyc, p))
  /\ UNCHANGED <<disk, clock, wake, proc, wedged, phase, cyc, hist, tries>>

\* In a dry run an open gate leads to a plan, itself under the watchdog.
PlanPlugin(p) ==
  /\ Reached(p) /\ p \notin Independent
  /\ proc.mode = "dry" /\ Gate(cyc, p) = "open"
  /\ StillWedged(p) \/ Started(p, "planned") \/ Started(p, "abandoned")
  /\ UNCHANGED <<disk, clock, wake, proc, phase, cyc, hist, tries>>

\* recordRun: the run and its yield, at the time the cycle began.
recordRun(c, p, bytes) ==
  LET r == recordPluginRun(c.st.plugins[p], c.level, c.now)
  IN  IF c.readable
      THEN [c EXCEPT !.st.plugins[p] =
                recordPluginYield(r, bytes < MinYield, c.now, proc.digest, p \notin Exempt)]
      ELSE c

\* History: p started now; its run is not yet on disk.
HistoryAfterRun(p, bytes) ==
  [hist EXCEPT ![p] =
     [@ EXCEPT !.now = cyc.now, !.level = cyc.level,
               !.freed = bytes >= MinYield, !.saved = FALSE, !.episode = TRUE]]

(***************************************************************************)
(* RunPlugin: an open gate leads to a run under the watchdog.  A run that  *)
(* fails, or is cancelled at its deadline, is recorded with the bytes it   *)
(* reports but adds nothing to the cycle's totals; an abandoned run is     *)
(* recorded as one that freed nothing; a plugin still wedged is not        *)
(* recorded.  Only a run without error is followed by a measurement.       *)
(***************************************************************************)
RunPlugin(p, bytes, s) ==
  /\ Reached(p) /\ p \notin Independent
  /\ proc.mode # "dry" /\ Gate(cyc, p) = "open"
  /\ \/ /\ Started(p, "ran")
        /\ cyc' = updateHostFreeAfter([recordRun(cyc, p, bytes) EXCEPT !.freed = @ + bytes], s)
        /\ hist' = HistoryAfterRun(p, bytes)
     \/ /\ Started(p, "failed")
        /\ cyc' = recordRun(cyc, p, bytes)
        /\ hist' = HistoryAfterRun(p, bytes)
     \/ /\ Started(p, "abandoned")
        /\ cyc' = recordRun(cyc, p, 0)
        /\ hist' = HistoryAfterRun(p, 0)
     \/ StillWedged(p) /\ UNCHANGED <<cyc, hist>>
  /\ UNCHANGED <<disk, clock, wake, proc, phase, tries>>
-----------------------------------------------------------------------------
(* Ending a cycle. *)

anyLadderPluginRan == \E p \in LadderPlugins : report[p] \in Ran

\* byteProgressMade: the byte level dropped or cleared, the ladder plugins freed
\* enough, or enough space appeared in a cycle where one of them ran.
byteProgressMade(c) ==
  \/ hostByteLevel(c) = LevelNone
  \/ byteLevelForPath(c.path, c.last) < hostByteLevel(c)
  \/ c.freed >= MinYield
  \/ anyLadderPluginRan /\ c.last.free - c.before.free >= MinYield

\* The inode progress record: under inode pressure on some mount a cycle counts
\* as progress when free inodes grew or the path's inode level cleared.
withInodeProgress(c) ==
  LET improved == \/ c.before.ok /\ c.last.inodes > c.before.inodes
                  \/ inodeLevelForPath(c.path, c.last) = LevelNone
  IN  IF ~ c.readable \/ ~ c.last.ok \/ InodesTotal[c.path] = 0 THEN c
      ELSE IF c.maxInode # LevelNone
           THEN [c EXCEPT !.st = recordInodeProgress(c.st, c.path, improved)]
           ELSE IF c.st.inodes[c.path] > 0
                THEN [c EXCEPT !.st = recordInodeProgress(c.st, c.path, TRUE)]
                ELSE c

\* The byte progress record.  A forced run neither engages backoff nor releases it.
withByteProgress(c) ==
  LET was == byteBackoffEngaged(c.st, c.path)
  IN  IF /\ c.readable /\ c.before.ok /\ ~ c.measureErr
         /\ hostByteLevel(c) # LevelNone \/ was \/ byteNoProgressPending(c.st, c.path)
      THEN [c EXCEPT !.st = recordByteProgress(c.st, c.path, hostByteLevel(c), byteProgressMade(c),
                                               anyLadderPluginRan,
                                               ByteBackoff(c) \/ (proc.mode = "level" /\ was))]
      ELSE c

\* History: a save makes this cycle's runs known to later cycles.  barren counts
\* the consecutive saved runs that freed too little, when there is a limit to them.
BarrenRuns(h) ==
  LET before == IF h.digest = proc.digest THEN h.barren ELSE 0
  IN  IF h.freed \/ ZeroYieldLimit = 0 THEN 0 ELSE before + 1

HistoryAfterSave ==
  [p \in Plugins |->
     IF report[p] \in Ran /\ p \notin Independent
     THEN [hist[p] EXCEPT !.saved = TRUE, !.digest = proc.digest, !.barren = BarrenRuns(hist[p])]
     ELSE hist[p]]

\* History: attempts on the cycle's path since progress was last made and saved.
TriesAfter(c, saved) ==
  IF saved /\ byteProgressMade(c) /\ ~ c.measureErr /\ c.before.ok
  THEN [tries EXCEPT ![c.path] = 0]
  ELSE [tries EXCEPT ![c.path] = IF anyLadderPluginRan /\ @ < ByteLimit THEN @ + 1 ELSE @]

(***************************************************************************)
(* EndCycle: the last measurement, the two progress records and the save.  *)
(* Afterwards the loop waits a full poll interval; a --level run exits.    *)
(***************************************************************************)
EndCycle(s, save) ==
  LET c     == updateHostFreeAfter(cyc, s)
      saved == save /\ c.readable /\ proc.mode # "dry" /\ c.level # LevelNone
  IN  /\ phase = "plugins"
      /\ \A p \in Plugins : report[p] # "pending"
      /\ disk' = IF saved THEN withByteProgress(withInodeProgress(c)).st ELSE disk
      /\ hist' = IF saved THEN HistoryAfterSave ELSE hist
      /\ tries' = IF c.level # LevelNone /\ proc.mode # "dry" THEN TriesAfter(c, saved) ELSE tries
      /\ phase' = IF proc.mode = "level" THEN "exited" ELSE "idle"
      /\ cyc' = IdleCycle /\ report' = NoReport
      /\ wake' = clock + Poll
      /\ UNCHANGED <<clock, proc, wedged>>
-----------------------------------------------------------------------------
(* The environment. *)

\* The process stops at any moment and starts again, perhaps with another
\* configuration or version; a start takes time.
Restart ==
  /\ proc' \in Processes
  /\ wake' = clock + 1
  /\ wedged' = {}
  /\ phase' = "idle" /\ cyc' = IdleCycle /\ report' = NoReport
  /\ UNCHANGED <<disk, clock, hist, tries>>

\* An abandoned run finally returns.
WedgedRunReturns(p) ==
  /\ p \in wedged
  /\ wedged' = wedged \ {p}
  /\ UNCHANGED <<disk, clock, wake, proc, phase, cyc, report, hist, tries>>

Tick ==
  /\ clock < MaxClock
  /\ phase = "plugins" => PluginsTakeTime
  /\ clock' = clock + 1
  /\ UNCHANGED <<disk, wake, proc, wedged, phase, cyc, report, hist, tries>>

Next ==
  \/ \E seen \in [Mounts -> Reading], before \in Reading, load \in LoadOutcomes,
        saved \in SaveOutcomes : BeginCycle(seen, before, load, saved)
  \/ \E p \in Plugins, s \in Reading : VisitIndependent(p, s)
  \/ \E p \in Plugins : SkipPlugin(p)
  \/ \E p \in Plugins : PlanPlugin(p)
  \/ \E p \in Plugins, bytes \in Yields, s \in Reading : RunPlugin(p, bytes, s)
  \/ \E s \in Reading, saved \in SaveOutcomes : EndCycle(s, saved)
  \/ Restart
  \/ \E p \in Plugins : WedgedRunReturns(p)
  \/ Tick

Spec == Init /\ [][Next]_vars
-----------------------------------------------------------------------------
(* Properties. *)

History == [now: MaybeTime, level: CleanupLevel,
            digest: Digests \cup {NoDigest}, freed: BOOLEAN, saved: BOOLEAN,
            episode: BOOLEAN, barren: Nat]

Cycle == [now: Time, level: CleanupLevel, path: Paths, maxInode: CleanupLevel,
          pressured: BOOLEAN, before: Reading, last: Reading, measureErr: BOOLEAN,
          readable: BOOLEAN, st: State, freed: Nat]

\* The values the variables of runCycle and of the state file range over.
TypeOK ==
  /\ disk \in State
  /\ clock \in Time /\ wake \in Time
  /\ proc \in Processes
  /\ wedged \subseteq Plugins
  /\ phase \in {"idle", "plugins", "exited"}
  /\ cyc \in Cycle
  /\ report \in [Plugins -> Verdicts]
  /\ hist \in [Plugins -> History]
  /\ tries \in [Paths -> Nat]

\* The longest a plugin may be held back after its last real run, per reason.
LongestHold(reason) ==
  CASE reason = "cooldown"           -> Cooldown
    [] reason = "byte_backoff"       -> ByteMax
    [] reason = "zero_yield_backoff" -> IF cyc.pressured THEN Smaller(PressureMin, ZeroYieldMax)
                                        ELSE ZeroYieldMax

\* No backoff starves a plugin (pluginCooldown, zeroYieldSuppression): a plugin
\* that a cycle holds back did run, and less than the cap of that backoff ago.
\* The run is the real one, whether or not its record survived restarts, failed
\* saves and quarantined files; under mount pressure the zero-yield cap shrinks
\* to zero_yield_pressure_min_interval.
HoldBounded ==
  \A p \in Plugins :
    report[p] \in {"cooldown", "byte_backoff", "zero_yield_backoff"} =>
      /\ hist[p].now # NoTime
      /\ cyc.now < hist[p].now + LongestHold(report[p])

\* What a state, on disk or in memory, knows of the real runs: a recorded run
\* happened, and neither its date nor its retry time is ahead of the real ones.
RecordsSound(S, h) ==
  \A p \in Plugins :
    LET r == S.plugins[p]
    IN  /\ r.run # NoTime => h[p].now # NoTime /\ r.run <= h[p].now
        /\ r.until # NoTime => r.run # NoTime /\ r.until <= h[p].now + ZeroYieldMax

\* The real runs are in the past, and not after the running cycle's start.
HistoryPast ==
  /\ \A p \in Plugins : hist[p].now <= clock
  /\ phase = "plugins" => cyc.now <= clock /\ \A p \in Plugins : hist[p].now <= cyc.now

\* Between cycles nothing is left of the last one.
IdleClean == phase # "plugins" => cyc = IdleCycle /\ report = NoReport

\* The inductive invariant of HoldBounded: the records bound the holds only
\* because no path, through saves that fail or files set aside, leaves a record
\* that is ahead of the history.
CycleInv ==
  /\ TypeOK
  /\ RecordsSound(disk, hist) /\ RecordsSound(cyc.st, hist)
  /\ HistoryPast
  /\ IdleClean
  /\ HoldBounded

\* An escalation or a new configuration earns a fresh attempt (cooldownRemaining,
\* zeroYieldSuppression): a plugin held back last ran at this level or above, and
\* one suppressed for zero yield ran under this configuration.
HoldJustified ==
  \A p \in Plugins :
    /\ report[p] \in {"cooldown", "byte_backoff", "zero_yield_backoff"} /\ hist[p].saved
         => hist[p].level >= cyc.level
    /\ report[p] = "zero_yield_backoff" => hist[p].digest = proc.digest

\* The base interval doubled n times.
Escalated[n \in Nat] == IF n = 0 THEN ZeroYieldBase ELSE 2 * Escalated[n - 1]

\* "Base at the limit, doubling per further run, capped at max" (zeroYieldBackoff).
EarnedHold(count) == Smaller(Escalated[count - ZeroYieldLimit], ZeroYieldMax)

\* Zero-yield suppression is earned (recordPluginYield, liftZeroYieldSuppression):
\* a suppressed plugin has zero_yield_limit consecutive saved runs that freed too
\* little, the last of them after the pressure last cleared, and is not exempt; and
\* it is not held back longer than those runs earned.
ZeroYieldEarned ==
  \A p \in Plugins :
    report[p] = "zero_yield_backoff" =>
      /\ hist[p].barren >= ZeroYieldLimit
      /\ cyc.now < hist[p].now + EarnedHold(hist[p].barren)
      /\ hist[p].episode
      /\ p \notin Exempt

\* Byte backoff is earned (recordByteProgress and the none branch of runCycle):
\* it is engaged on a path only after byte_no_progress_limit cycles that really
\* ran ladder plugins there, with no progress saved and no quiet cycle between.
ByteBackoffEarned ==
  phase = "plugins" /\ ByteBackoff(cyc) => tries[cyc.path] >= ByteLimit

\* A ladder plugin's run starts in this step.
Starts(p) == p \in LadderPlugins /\ report[p] = "pending" /\ report'[p] \in Ran

\* The cadence a daemon keeps (runCycle's gates over a state that went through
\* saves, restarts and reloads): unless its last run is unknown to the state
\* file, or the level has risen since, a plugin starts only when the cooldown or
\* byte backoff interval has passed between the two cycles, to the second.
CadenceKept ==
  [][\A p \in Plugins :
       Starts(p) /\ cyc.readable /\ hist[p].saved /\ hist[p].level >= cyc.level
         => cyc.now - Stamp(hist[p].now) >= pluginCooldown(cyc).interval]_vars

\* p is suppressed as far as its real runs go, and nothing but time or mount
\* pressure may lift the suppression.
SuppressionInForce(p) ==
  /\ ZeroYieldLimit > 0 /\ p \notin Exempt
  /\ hist[p].saved /\ hist[p].episode /\ hist[p].barren >= ZeroYieldLimit
  /\ hist[p].level >= cyc.level /\ hist[p].digest = proc.digest
  /\ proc.mode = "daemon" /\ cyc.readable
  /\ cyc.before.ok /\ ~ belowEmergencyFloor(cyc)

\* A plugin that keeps freeing nothing is rerun ever more rarely (zeroYieldBackoff
\* and the mount pressure lift): with its suppression in force, a daemon that can
\* measure free space above the emergency floor starts it only after the hold that
\* its barren runs have earned, or under mount pressure after
\* zero_yield_pressure_min_interval.
BarrenRunsSpaced ==
  [][\A p \in Plugins :
       Starts(p) /\ SuppressionInForce(p) =>
         \/ cyc.now >= Stamp(hist[p].now + EarnedHold(hist[p].barren))
         \/ cyc.pressured /\ cyc.now >= Stamp(hist[p].now) + PressureMin]_vars

(***************************************************************************)
(* The inductive invariants of the properties above.                       *)
(***************************************************************************)

\* What the record of a plugin says of its real runs: the date, the level and
\* the configuration of a saved run, the number of runs that freed too little,
\* and a retry time exactly while they suppress the plugin.
RecordKnown(p, r, h) ==
  /\ h.saved => /\ h.now # NoTime /\ r.run = Stamp(h.now)
                /\ r.level = h.level /\ r.digest = h.digest
  /\ r.digest = h.digest \/ (r.digest = NoDigest /\ r.zero = 0)
  /\ h.barren = r.zero
  /\ r.until # NoTime =>
       /\ r.digest = h.digest /\ h.barren >= ZeroYieldLimit /\ h.episode
       /\ r.until <= h.now + EarnedHold(h.barren)
  /\ h.saved /\ h.episode /\ h.barren >= ZeroYieldLimit /\ ZeroYieldLimit > 0 /\ p \notin Exempt
       => r.until >= Stamp(h.now + EarnedHold(h.barren))

\* The records of this cycle are the ones its save will leave.
Recording ==
  phase = "plugins" /\ cyc.readable /\ proc.mode # "dry" /\ cyc.level # LevelNone

\* The state file knows the real runs, and the state in memory knows them as they
\* will stand once the cycle is saved.  A dry run works on fresh state, and with
\* no pressure no ladder plugin is visited.
RecordsInv ==
  /\ \A p \in Plugins : RecordKnown(p, disk.plugins[p], hist[p])
  /\ Recording => \A p \in Plugins : RecordKnown(p, cyc.st.plugins[p], HistoryAfterSave[p])
  /\ phase = "plugins" /\ proc.mode = "dry" => \A p \in Plugins : cyc.st.plugins[p] = ZeroRecord
  /\ phase = "plugins" /\ cyc.level = LevelNone =>
       \A p \in LadderPlugins : report[p] # "pending"

\* The backoffs a cycle applies are earned and justified.
EarnedInv == RecordsInv /\ HoldJustified /\ ZeroYieldEarned

\* A state counts no attempt on a path that was not really made.
CountsSound(S) ==
  \A m \in Paths : S.bytes[m].count <= tries[m] \/ ByteLimit <= tries[m]

CountsInv == CountsSound(disk) /\ CountsSound(cyc.st)
=============================================================================
