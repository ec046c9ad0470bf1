# tinyland-cleanup in TLA+

TLA+ modules for tinyland-cleanup, a daemon that watches disk and inode usage and
runs cleanup plugins at a level chosen by pressure. The modules follow the Go
source under `src/`; `PROJECT.json` maps every definition to the lines it stands
for. TLC checks small instances, TLAPS proves the main theorems for every value of
the constants.

    cd tla
    tlc -workers 2 -config MCByteBackoff.cfg MCCleanupCycle
    tlapm CleanupCycle_proof.tla

## The system

One process, `main.go`, runs in one of four ways: as a daemon (`--daemon`), once
(`--once`), at a forced level (`--level`), or planning only (`--dry-run`);
`--plugins` restricts any of them. Each poll it runs one *cycle*: assess the
mounts, load the persisted state, decide which plugins may run, run them one after
the other under a watchdog, measure, record, save.

| Component | State | Operations | Hard about it |
|---|---|---|---|
| cleanup cycle (`main.go` runCycle) | report and locals of the cycle | assess, quiet branch, gates, run, account, save | decisions taken from state that went through failed saves, restarts, other processes and readings that change within a cycle |
| cleanup state (`state.go`) | per plugin: last run, level, zero-yield count, retry time; per path: inode and byte counters | cooldown, zero-yield suppression, progress counters | times in whole seconds against a clock with fractions; counters that outlive what they count |
| state file (`state.go`) | JSON file, temporary files, quarantined files | load, save, quarantine | crash and power loss between write, sync, rename and directory sync |
| disk monitor (`monitor/disk.go`, `monitorForMount`) | byte and inode ladders per mount | level of a reading | partial overrides of a ladder |
| watchdog (`watchdog.go`) | inFlight, one goroutine per plugin run | start, wait, grace, abandon | deadline, result and shutdown in any order; runs that never return |
| command deadlines (`plugins/exec_deadline.go`) | RunScope per run: programs that hung | newCommand, recordKill | hung programs, VM starts that outlive their context |
| log throttle (`logthrottle.go`) | bounded table of lines | decide, evict, full report | eviction at the limit, concurrent writers |
| nix GC (`plugins/nix*.go`) | gc_state_file, memState, lastGCAttempt, lock | poll, defer, collect, record | markers, another collector, failed saves, busy hosts |
| nix hook pins (`plugins/nix_hookpins.go`, `nix_sessions*.go`) | state.json, links in hook_pin_dir | refresh: pin, date, release | sessions and switches between two reads; hooks that come and go |
| nix GC roots (`plugins/nix_gcroots.go`) with the root job `rootjobs/gcroot_unregister.go` | candidate list | classify, publish; check a line, unregister | a list that is older than what it names; check and removal are separate steps |
| root job `rootjobs/profile_prune.go` | none of its own | look, delete generations, look again | activations that are unfinished or come in between |
| bazel output bases (`plugins/bazel_bases*.go`) | asides on disk, pressure state, early-walk backoff | survey, re-check, lock, rename aside, look, delete or rename back | clients that open and lock a base between any two steps; a daemon that stops halfway |
| bazel cache policy (`plugins/bazel.go`, `bazel_disk_cache_age.go`) | none between passes | classify, plan, delete, stop idle servers | a plan that is minutes old when applied |
| podman (`plugins/podman.go`, `podman_keep.go`) | the machine's disk, its backup and copies | compaction with rollback; prunes by level, keep rule | failing commands and renames, an ended context, a copy that does not boot |
| retention (`plugins/retention.go`) | last run, inventory of the processes | evaluate, recheck, remove | trees that come into use or change between decision and removal |
| archive lifecycle (`plugins/archive_lifecycle.go`) | none between passes | verify groups within a budget, retire | staging and archiving go on meanwhile; a volume that is away |
| dev-artifacts (`plugins/devartifacts.go`, `scan_budget.go`, `temp_custody.go`) and shm scratch (`plugins/shm_scratch.go`) | cursor file, memory of undeletable paths | walks by family, lanes, transcript compression | budgets, cursors across crashes, liveness of what is removed |
| command plugins (docker, lima, etcd, rke2, yum, ...) | none of their own | external commands by level | partial failure |

The components meet in few places. `runCycle` reads and writes `cleanupState`
through the state file; it calls each plugin through `watchPlugin`; plugins run
their programs through `newCommand`; everything logs through the throttle. The
cycle loop, the goroutines of plugin runs (abandoned ones included), their child
processes and the signal handler are the only threads. Two processes on one state
file are outside the supported use ("Pick one mode", README.md:51); successive
processes with different options are not, and are modelled.

## Modules

| Module | Models | Checked by | Proved in |
|---|---|---|---|
| `DiskMonitor` | `levelForPercent`, `CheckInodeLevel`, `withinMountBand`, ladders | through the modules below | |
| `MountLevels` | `LoadConfig`/`Validate` of `monitored_mounts`, `monitorForMount`, `CheckLevel` | `parts` | `Daemon_proof` |
| `CleanupState` | the methods of `cleanupState` on records, with RFC3339 rounding (`Stamp`) | through `CleanupCycle` | `CleanupCycle_proof` |
| `CleanupCycle` | `runCycle`, over `CleanupState` and `DiskMonitor` | `byte_backoff`, `zero_yield`, `modes`, `clean_slate` | `CleanupCycle_proof` |
| `Watchdog` | `run`, `watchPlugin`, `newCommand`, `RunScope`, signals | `watchdog` | `Watchdog_proof` |
| `StateFile` | load, save and quarantine, one action per call | `parts` | `Daemon_proof` |
| `StateRegister` | abstract: an atomic register with save, loss of power, damage | `Refines` of `parts` | `Daemon_proof` |
| `LogThrottle` | `logThrottle.decide`, `evictLocked`, `reportThrottle.full` | `plugins` | `Daemon_proof` |
| `NixGC` | `NixPlugin.Cleanup`, `busyGate`, `runGC`, cadence, lock and markers | `parts`, `nix_deferral` | `Daemon_proof` |
| `NixHookPins` | `nixHookPinner.refresh`, session listing, around them switches, sessions and the collector | `reapers` | `NixRoots_proof` |
| `NixRoots` | `collect` of the GC root candidates, the published list, `processList` and `checkEntry` of the root job | `reapers` | `NixRoots_proof` |
| `ProfilePrune` | `pruneUser` of the root job profile-prune | `plugins` | `NixRoots_proof` |
| `BazelBases` | `run`, `apply`, `removeTree`, `removeAside`, `measure` of the output-base reaper | `reapers` | `Bazel_proof` |
| `BazelWalks` | `due`, `earlyGap`, `noteWork`, `pressureState`: when it walks | `reapers` | `Bazel_proof` |
| `BazelPlan` | `plan` and `apply` of the bazel plugin, the disk-cache age rule | `reapers` | `Bazel_proof` |
| `PodmanDisk` | `compactRawDisk`, its preflight and its rollbacks | `plugins`, `cut_short` | `Podman_proof` |
| `PodmanStore` | `Cleanup` and the `clean*` methods of podman, the keep rule | `plugins` | `Podman_proof` |
| `Retention` | `due`, `evaluate*`, `decide`, `Cleanup`, `recheck` | `plugins`, `late_look` | `Reclaim_proof` |
| `ArchiveStaging` | reconcile, verify, retire of the archive lifecycle | `plugins` | `Reclaim_proof` |
| `DevWalks` | the lanes of a dev_artifacts pass in their order, budgets, the workspace cursor | `plugins` | `Reclaim_proof` |
| `DevLanes` | what each deleting lane, and shm_scratch, does to one tree | `plugins`, `dirty_worktree` | `Reclaim_proof` |
| `Transcripts` | `compressAgentTranscript` call by call | `plugins` | `Reclaim_proof` |

The modules from `NixRoots` down do not read or write each other's state in the code:
they meet only in the processes and files of the host. `MCParts`, `MCBazel`,
`MCReapers` and `MCPlugins` are sums: a behaviour of such a run is a behaviour of one of the summands,
chosen in the initial state, while the others stay in one initial state. This is what
separate runs would check, and interleaving machines that share nothing would only
multiply states. The other `MC` modules only hold constants of the configurations.

### CleanupCycle

`disk` is the content of the state file, `cyc` the locals of the running cycle,
`report` the outcome per plugin, `proc` the command line and configuration digest
of the process. `BeginCycle` is `runCycle` down to the plugin loop, including the
quiet branch and its save; `VisitIndependent`, `SkipPlugin`, `PlanPlugin` and
`RunPlugin` are one iteration of the loop each, with every call it makes;
`EndCycle` is the rest: last measurement, both progress records, the save, and the
wait. Between them time passes (`Tick`), the process is stopped and started with
any options (`Restart`), and an abandoned run returns. Every reading of a disk is
arbitrary, since other programs use the disks too; a mount may also be unreadable.
`hist` and `tries` are history variables: what really happened, for the properties
to compare records with. `--once` is a daemon that is restarted after its cycle;
the fallback of `assessMounts` to the home directory is `MountOrder = <<Home>>`.
Free space is in percent of a filesystem.

### Watchdog

A *slot* is a goroutine with its done channel, context and RunScope. Timers are
events that may come at any moment once armed, which covers every setting of the
deadlines. A run's commands are sequential. Nothing forces a plugin to return or a
command to exit unless it is killed.

### StateFile and StateRegister

A file's content is the number of saves it accounts for, or `Torn`. `old` holds
every directory content since the last directory sync; `PowerLoss` brings one of
them back, with anything in place of files that were not synced. The register
`StateRegister` has one atomic `Save`; the refinement mapping is the state file of
the current directory and of the ones a loss of power may bring back.

### NixGC

Each poll is `Poll` (pins, load, `nixGCDue`), then the unbypassable checks, the
lock, the busy gate, the generation policies, preflight, recheck, collection,
optimization and `RecordAttempt`, one action each, since another collector, a
switch, a restart or time may come between any two. Time stamps are represented by
their ages, which stop at `Horizon`, and the count of deferrals stops at
`DeferralCap`: no comparison of the code tells values beyond them apart, so the
state space is finite without bounding the number of polls. `trouble` says
whether the causes no deferral bound bypasses may still occur (failed pins, an
unreadable file, a marker, a foreign or unusable lock, missing binaries, failing
generation policies, restarts); it ends at some arbitrary moment and is there only
to state the liveness property. `DiskFull` lets saves fail after that as well. A
process that is killed is assumed to take its `nix-collect-garbage` with it, as a
service manager does; the kernel releases the lock in any case.

### NixHookPins

`refresh` is a step for the clock, one for the configuration files and state.json,
one per root, one for the dates, one for the session listing, one per release and
one for the save; `Fail` ends it anywhere before the save, which also stands for a
process that stops. `pins` is state.json: for each hook the time it stopped being
referenced, `Referenced`, or `NoPin`. `PinRef` asks whether the path is valid, and a query that
is not answered reads as "not valid" in the code: the hook is passed over, and the refresh goes
on and succeeds (`answers`). The active generation roots what `conf` names,
`roots` are the links in hook_pin_dir; the collector may run at any moment, which
covers the daemon's own pass. `seen` and the sessions' `sure` are history: what a
session may rely on by the rule the documentation gives. The several files of
hook_pin_files are read in one step: a hook that moves from one file to another
between two reads is `conf` without it and with it again. A session starts and takes
its hooks in one step; that the process table may report an earlier start is
`StartSlack`.

### BazelBases, BazelWalks and BazelPlan

`BazelBases` has a tree at each base's path and one at its aside (`tree`), with the newest
use signal, the clients that hold something open in it, the owner of its lock and whether agent
sessions keep data in it. The clients (`ClientOpens`, `ClientLocks`, `ClientUnlocks`,
`ClientExits`) are external and do what the code's comments expect of Bazel: open the lock file by
path, creating it when it is not there, wait for it, and hold it while they run. The pass is one
action per call that another process can get in front of: `Survey`, `CheckAside` and `PurgeAside`
for asides of earlier passes, `Defer`, `TakeRow`, `Check`, `TakeLock`, `RenameAside`, `LateLook`,
then `DeleteAside` or `RenameBack`. A base in `NoLockFile` has no lock file until a client makes
one: `TakeLock` then goes on without a lock, as the code does with `bbNoLock`. `AgentWrites` makes
an agent-session directory at any moment. A base is scanned once before its removal, by the survey
or when its row is taken: a directory that is there by then is "seen", and one made later is
"unseen" until the next pass scans the tree again. `Crash` drops what is in memory and the locks.
The sibling user root, into which bases are linked, goes after the last base that uses it.
`BazelWalks` abstracts what a walk finds and keeps the schedule.

`BazelPlan` plans in one step and then takes the targets one at a time; a look (`TakeTarget` of an
orphan, `PostShutdown`, `LookAtEntry`) and the removal after it (`RemoveTarget`, `RemoveEntry`) are
two steps, and clients, servers and worktrees change in front of each. `proc` is what runs in a
base: a client whose command line names it (`client`) or not (`quiet`), an idle server. What the
plugin sees of that is `PsClient`, `PsServer` and `LocalActive`: a server whose server.pid can be
read, or a lock file younger than 15 minutes (`fresh`). A long command outlives that (`LockAges`),
and the bases in `Pidless` have no pid file to read. `since` is history: what was used, or had its
worktree back, since it was last looked at. Ages are classes, since thresholds are days and a pass
is minutes.

### PodmanDisk and PodmanStore

An image is a version of the machine's data with a flag that says whether it is whole; `file`
holds the disk, the temporary copy, the backup and the failed image, and `vm` is the path of the
image the running machine has open, which a rename moves and a removal turns into "gone". Each
qemu-img or podman command and each rename is an action with its failures; `SilentDamage` names the
copies that may be damaged although the command succeeded (a copy that is checked is then refused).
A start may fail and leave the machine up, when it is killed at its deadline (`Starts`); a user may
start the machine at any step, during a compaction when `Intrusions` is set; the machine may end at
any moment. `ContextEnds` is the plugin's deadline: what runs on that context fails from then on,
and what runs on a detached one does not. `gaps` is history, and records the two things the code
does not guard against: "up", the machine was up while its disk was replaced, and "backup", the
copied backup was damaged in silence. `PodmanStore` is the list of prunes of a level; where the
keep rule lists first and removes one by one, other clients act in between.

### Retention and ArchiveStaging

`Retention` keeps the age of each tree, what uses it (a file held, or only a command line)
and what claims it. `Scan` is the inventory with its limits: held files only under the roots
asked for, a running cargo blocks all targets, an unreadable process blocks everything.
`steady` and `late` are history: used without a break since the last look; changed since the
recheck. `ArchiveStaging` has files as versions, two of which have one size; what an archive
proves is the size it declares, so that those two are equal to the plugin. `lateFile` is history:
the files that changed, or whose counterpart did, since the second verification.

### NixRoots and ProfilePrune

`NixRoots` has the daemon's half (`Classify`, `Publish`) and the root job's (`OpenList`,
`CheckLine`, `Unregister`) with links that are touched, rebuilt and deleted in between, and a
list that outlives the daemon up to `MaxListAge`. `ProfilePrune` sets the profile and
current-home in two steps, as an activation does.

### DevWalks, DevLanes and Transcripts

`DevWalks` walks the families over their roots with the cursor file, which may fail to be
written. The list that the code rotates is a set and the `Turn` of each root in it: the roots
after the cursor come first, and `IsNext` is the one at the head of what is left. `watched` and `ahead` watch one pair of roots of one family, chosen in the initial
state. `DevLanes` follows one tree of one lane through look, plan, measure, confirm and
remove; which checks a lane repeats is a definition of its own per lane (`PlanSession`,
`ConfirmSession`, ...). `use` says how a process has the tree. A build tool whose directory is in
the tree and whose command line names another project is `stray`: the code then protects the other
project alone unless lsof tells the directory (`FamilyLooks`). `Rechecked` is one instant, where
the code looks at identity, custody, processes, age and mounts in turn, within ten seconds: "after
the last check" is to be read per aspect. `Transcripts` has contents as sets of lines.

## Runs

| Run | Expect | Shows |
|---|---|---|
| `byte_backoff` | pass | One plugin, one mount, failed saves, damaged state files and restarts: byte backoff is engaged only after enough real attempts (`ByteBackoffEarned`), holds are bounded by the real last run (`HoldBounded`), and no run comes before its interval (`CadenceKept`). |
| `zero_yield` | pass | Two ticks per second, so that rounding matters: suppression is earned by consecutive barren runs and lasts no longer than they earned (`ZeroYieldEarned`), and no run comes before that, the interval doubling up to its cap, but for the spacing that mount pressure allows (`BarrenRunsSpaced`). |
| `modes` | pass | Processes with all four kinds of command line and two configurations take turns on one state file, under byte and inode pressure: `CycleInv` is inductive, holds respect escalations, configurations and the inode breaker (`HoldJustified`). |
| `watchdog` | pass | Two plugins, two goroutines, one program: no overlap, one deadline per hung program, verdicts that blame a deadline only when it passed, and progress of cycles, commands and shutdown. |
| `parts` | pass | State file: an atomic register (`Refines`), replaced when damaged (`Recovers`), litter only after crashes. Mounts: a fuller mount is never at a lower level, a mount with its own band is quiet below it. Nix: `MinGapKept`, and active work alone never holds collection off for good (`GCEventuallyRuns`). |
| `reapers` | pass | No output base is deleted while a client uses it (`NothingDeletedInUse`), and none runs where its path does not lead, but in the cases `RunsInPlace` names; agent-session data that a scan could meet survives every pass, sessions writing at any moment (`AgentDataKept`); early walks thin out; the older plugin plans nothing that is protected, denied or handed over (`PlanSound`), and what it removes although it is used came into use after its last look (`UsedIsKept`); sessions keep the hooks they rely on; roots in use keep their entries. |
| `plugins` | pass | Podman's data survives a compaction and the machine never runs on older data (`DataKept`, `NoRollback`, but for what `gaps` records); what is never pruned; what retention and archive retirement remove; fair walks, no lane trusts an old look; no transcript line is lost; a prune that succeeds left the home a generation; the log says what happened. |
| `clean_slate` | violation | `ByteBackoffEarned` fails with two mounts: the quiet branch resets only the counter of the cycle's own path (main.go:558). |
| `nix_deferral` | violation | `GCEventuallyRuns` fails when the state file stays unwritable: the count of deferrals is read back from it on every poll (nix.go:268). |
| `cut_short` | violation | `CutShortComesBack` fails across devices: a compaction whose deadline passes during the write-back runs its rollback on the ended context and leaves the machine without a disk (podman.go:1993). |
| `late_look` | violation | `RecheckSeesUse` fails with two roots: the look before a removal covers the candidate's own root and is used for the next candidates too (retention.go:851). |
| `dirty_worktree` | violation | `DirtyWorktreeKept` fails when git rev-parse fails for any reason: the tree then counts as no worktree (devartifacts.go:3000). |

Why the bounds are enough. The cycle's state is a handful of small counters and two
times per plugin; limits of one or two and intervals of two to four ticks let every
counter pass its limit, reset and pass it again within `MaxClock`, and plugins have
no influence on each other's records, so that one ladder plugin beside one
level-independent plugin shows every kind of visit. `FreeValues` and `InodeValues` have one
value in each band a run is about, including one below the emergency floor's complement where it
matters; `Yields` one value on each side of `MinYield`, except in `modes`, which is about holds
and has barren runs only. Two mounts are in `clean_slate` alone. `PluginsTakeTime` is FALSE only
in `zero_yield`, where two ticks per second already separate the times of a cycle,
and in `clean_slate`; its zero-yield interval goes from one over two to a cap of three. In `watchdog` two slots are the least with which an overlap
could happen; a third plugin would repeat the second.

In `parts` two temporary names allow one left behind and one in use, and the Nix intervals are
one and two against a horizon of two. In `reapers` two bases are one with a sibling and one
without a lock file, and two clients allow one that waits in a renamed base while the other makes a
new one; the half of its behaviours in which agent sessions write and the disk fills
again has one client at a time, in the base of the sessions; `MaxBaseClock` reaches both idle thresholds, usage has a value below the two pressure lines,
one between and one at the upper one; walks run over two intervals. The hook pins have three refreshes or starts,
enough for a hook to be referenced, dropped and released; longer histories are the theorem's.
In `plugins` retention has a temp tree and a Cargo target under two roots; archive staging more
groups than a pass's budget, and three contents of two sizes; the walks three roots, of which a pass selects two and one has more
entries than its share, an odd number of entries so that shares are rounded, and a watched family
whose cursor is also saved by the family before it; the log throttle three lines over a table of
two, for as long as the longer window. Compaction, prunes,
transcripts, lanes and the prune job have no numeric bound but `MaxData`, `MaxLines` and
`MaxGeneration`, each one more than it takes to go around once and differ. What small
instances cannot show is what the theorems are for.

Fairness. `Watchdog`: weak fairness of the loop (it is a running thread), of timers
that are armed, and of the end of a child that was sent SIGKILL; none of plugins or
of commands. `StateFile` (`FileFairSpec`): the process keeps running cycles. `NixGC`
(`NixFairSpec`): weak fairness of the pass, because the poll loop calls the plugin on every
cycle (it is level-independent) and the watchdog ends its commands, and of time; `PartsSpec`
gives each of the two the same fairness in the sum. Where the environment must stop interfering
for good (`trouble`), the property says so. The other modules are checked for safety only:
a deleting plugin owes its users what it does not delete, and the code makes no promise
about when a candidate goes. Deadlock is not checked in `reapers` and `plugins`, nor in
the runs of findings about them: bounded clocks, versions and lines run out there.

## Proofs

| Module | Theorem | Statement |
|---|---|---|
| `CleanupCycle_proof` | `CycleTypes`, `CycleInvariant`, `HoldsAreBounded` | `Spec => []TypeOK`, `[]CycleInv`, `[]HoldBounded` |
| | `EarnedInvariant`, `HoldsAreJustified`, `SuppressionIsEarned` | `Spec => []EarnedInv`, `[]HoldJustified`, `[]ZeroYieldEarned` |
| | `CadenceIsKept`, `BarrenRunsAreSpaced` | `Spec => CadenceKept`, `BarrenRunsSpaced` |
| | `BackoffIsEarned` | `Spec => []ByteBackoffEarned` when there is one path |
| | `BackoffIsEarnedHold`, `ByteIntervalDoubles` | what `zeroYieldBackoff` and `byteBackoffIntervalFor` return for every count |
| `Watchdog_proof` | `WatchInvariant`, `NeverTwice`, `HangsOnce` | `Spec => []WatchInv`, `[]NoOverlap`, `[]HungOnce` |
| | `EndedForAReason`, `BlamedWasLate` | `Spec => []LateInv`, `CancelledWasLate` |
| `Daemon_proof` | `FileInvariant`, `StateFileIsRegister`, `LitterIsBounded` | `FileSpec => []FileInv`, `Refines`, `[]LitterBounded` |
| | `FullerIsNotLower`, `QuietBelow` | `LevelsSpec => LevelFollowsUsage`, `[]QuietBelowWarning` |
| | `LogInvariant`, `LogIsTruthful` | `ThrottleSpec => []LogInv`, `LogTruthful` |
| | `NixInvariant`, `MinGap` | `NixSpec => []NixInv`, `MinGapKept` |
| `NixRoots_proof` | `PinInvariant`, `HooksKept` | `Spec => []PinInv`, `[]SessionsKeepHooks` |
| | `RootsInvariant`, `RootsAreKept` | `GSpec => []RootsInv`, `RootsKept` |
| | `HomeIsHeld` | `PSpec => HomeHeld` |
| `Bazel_proof` | `BasesInvariant`, `NeverDeletedInUse`, `AgentDataIsKept`, `ClientsRunInPlace` | `BBSpec => []BBInv`, `NothingDeletedInUse`, `AgentDataKept`, `[]RunsInPlace` |
| | `BarrenInvariant`, `WalksThinOut` | `WalksSpec => []BarrenInv`, `[]BarrenWalksThinOut` |
| | `PlanInvariant`, `PlanIsSound`, `UsedStays` | `PlanSpec => []PlanInv`, `[]PlanSound`, `UsedIsKept` |
| `Podman_proof` | `StoreInvariant`, `StoreIsKept` | `StoreSpec => []StoreInv`, `StoreKept` |
| | `DiskInvariant`, `NeverRolledBack`, `DataIsKept` | `DiskSpec => []DiskInv`, `[]NoRollback`, `[]DataKept` |
| `Reclaim_proof` | `RetentionIsSafe` | `RSpec => RetentionSafe` |
| | `TranscriptIsKept` | `TSpec => []TranscriptKept` |
| | `StagingIsSized` | `ASpec => RetiredIsSized` |
| | `LanesInvariant`, `NoLeaseGiven`, `SteadyUseIsKept` | `DSpec => []LanesInv`, `PlanIsNoLease`, `SteadyUseKept` |
| | `WalksInvariant`, `WalksAreFair` | `WSpec => []WalksInv`, `WalksFair` |

Each rests on the named assumption about the constants in the component's module
(`CycleAssumption`, `BasesAssumption`, `WalksAssumption`, ...): types, the ranges the
configuration's parsers guarantee and names that are told apart, nothing about sizes. TLC
evaluates them in the runs. One theorem has a premise besides: `BackoffIsEarned` has one path.
With several the statement is false, because the quiet branch resets the counter of the cycle's
own path only; the run `clean_slate` shows it.

Some properties except by name what the code leaves open. Each exception is a case that the model
contains, that TLC meets when the exception is taken out, and that the theorem is not about. Most
are at odds with a sentence of the repository:

* `SessionsKeepHooks`: a hook whose validity query was not answered when it was to be rooted.
  nixStorePathValid (nix_hookpins.go:203) is false when the path is not valid and also when nix-store
  cannot be started, runs out of its minute or meets a busy daemon; the refresh warns, succeeds, and
  the collector runs with a named, valid hook unrooted. nix_hookpins.go:11 says "Before every GC pass
  the plugin roots each store path its hook config files reference".
* `AgentDataKept`: data written after the last scan. A base is measured once before its removal
  (bazel_bases.go:982, 1148); nothing looks for agent data again before the rename and the deletion
  (1157, 1296). agentsession.go:5 says that such data "is never deleted".
* `RunsInPlace`: a base without a lock file, until the second look, and a crash. removeTree goes on
  without a lock when there is no regular lock file (bazel_bases.go:1256), as in a base accepted for
  its DO_NOT_BUILD_HERE or javalog.properties (1583); bazel_bases.go:24 says that removal "takes
  Bazel's own lock". `NothingDeletedInUse` has no exception: the second look finds the client.
* `UsedIsKept`: a use that begins after the last look, which for a plain target is the plan. Only an
  orphan is looked at again when its turn comes (bazel.go:1073-1087, which says itself that "The plan
  can be minutes old"); docs/bazel-cache-policy.md:4 says that cleanup "deletes only stale inactive
  output bases".
* `DataKept`, `NoRollback`: the machine was up while its disk was replaced. A start that is killed at
  its own deadline (exec_deadline.go:308) may leave the machine up; the code takes it for down,
  renames the disk it runs on to .failed and puts the backup back (podman.go:2041), where
  podman.go:1911 speaks of "offline disk compaction". For `DataKept` also a copied backup that is
  damaged: nothing verifies it before the disk is removed (podman.go:1986), though podman.go:1748
  announces the removal "after rollback backup is verified".
* `RetiredIsSized`: the content, and what changes after the second verification. Sizes alone are
  compared (archive_lifecycle.go:420), where docs/archive-staging-lifecycle.md:39 and
  config/config.go:245 say "proved byte-for-byte redundant"; and the removal takes what its walk finds
  (archive_lifecycle.go:714), where docs/archive-staging-lifecycle.md:106 says that "a file that
  appears between planning and deletion saves its group".
* `SteadyUseKept`: a tool whose command line names another project while lsof does not tell its
  directory: only that project is protected (devartifacts.go:2323), where
  docs/operator-workflow.md:226 says that "the plan keeps the conservative family-wide protection
  fallback". And a session or worktree without `ps`.

The arguments:

* **Cycle, holds.** `HoldBounded` compares a hold with the real last run, but the code only
  sees records. `CycleInv` closes the gap: every record on disk and in memory is of a
  run that happened and is not dated after it (`RecordsSound`), the history is in the past
  (`HistoryPast`), and nothing is left over between cycles. It survives failed saves and
  quarantined files because old or no records are sound too.
* **Cycle, what is earned.** For `HoldJustified`, `ZeroYieldEarned`, `CadenceKept` and
  `BarrenRunsSpaced` soundness in one direction is not enough: a record must be *the* record
  of the last saved run. `RecordKnown` relates one record to one history (date, level, digest,
  the count, and a date of retry that is there when it is earned, and neither before nor after
  the hold that the count has earned); `RecordsInv` has it of the file against `hist`, and of the memory of a cycle that
  will save against the history as the save will leave it (`HistoryAfterSave`), so that the
  save at the end of a cycle is no step at all for the invariant. `CountsInv` does the same for
  the byte counters, whose limit may be reached before the counter stops.
* **Watchdog.** Two runs of one plugin would need a goroutine that neither the loop waits
  for nor `inFlight` knows; `SlotInv` excludes one. `ScopeInv` ties the deadlines waited
  out to `RunScope.killed`, and no probe of a killed program is ever running. `LateInv` gives
  every ended context its reason, a deadline that passed or a shutdown, and `CancelledWasLate`
  follows because watchPlugin asks which of the two it was.
* **State file.** The register maps to the current state file and to the ones a loss of
  power may restore; `FileInv` says that each of those is synced, which is what sync before
  rename gives, and that what is about to be renamed is whole and one save newer. The litter
  is counted: the name in use is the only temporary file that is not yet accounted for.
* **Mount levels.** Operator lemmas: `levelForPercent` is monotone on any ladder, and what
  `withinMountBand` leaves in the band.
* **Log throttle.** A line that is absent from the table was evicted, and since the least
  recent line goes first, `MaxKeys` others have been emitted since (`EvictedInv`); the set of
  those others (`Since`) only grows until the line is emitted again.
* **Nix GC.** `MinGapKept` compares the record used by `nixGCDue` with the real last attempt.
  `RecordsSound` needs all three copies (file, `memState`, the running pass) and
  `lastGCAttempt`, since each may be the one that is left; `PassGuarded` and `LockHeldByPass`
  carry the lock through the phases.
* **Hook pins.** A session keeps a path as long as it is rooted, and it is rooted as long as no
  refresh gives it a date that is not after the session's start. `PinInv` follows that date
  through its three places: on disk, in the memory of a refresh, and the clock of a refresh that
  has not given it yet (`ReliedOn`). The proof covers any number of sessions, of which TLC sees one.
* **Nix roots and prune.** A line of the list vouches for a link as it was when the daemon looked;
  `RootsInv` keeps what each later reader may still conclude from it (`AgeInv`, `ListInv`,
  `SettledInv`). For the prune, the selected generation exists at every moment (`SelectedInv`), and
  a run that succeeds found current-home in agreement with it at the end.
* **Bazel output bases.** `BBInv` says that the owner of a lock runs and has the tree open
  (`HolderInv`), that the reaper's lock, where there is a file to lock, travels with the renamed tree
  (`ReaperInv`), that nothing with agent data a scan could meet is aside or on its way there
  (`AgentInv`), and that a tree about to be deleted is open nowhere (`QuietInv`), since a client that
  comes after the last look opens the path and finds another tree. `MovedInv` is what `RunsInPlace`
  needs: a moved base has a successor, or is about to go back.
* **Bazel plan.** `PlanInv` keeps for each target that may go what the plan established and the
  apply does not look at again: not protected, not denied, at a level that deletes
  (`TargetsSound`), and unused unless `since` says otherwise (`PlainInv`); `HandInv` does so for the
  target in hand after the look of its own.
* **Podman.** A prune runs under the rule the configuration asks for, with the pins or the knowledge
  that they could not be read (`RuleInv`), and what was listed under it may go (`ListedInv`);
  containers go last (`DroppedInv`). For the disk, as long as the machine was never up while its disk
  was replaced, it is up only at steps that leave the disk alone (`VmInv`); `FreshInv` says of each
  step of `compactRawDisk` which images are no older than the disk was, and `DataInv` where a whole
  one of them is.
* **Transcripts.** While a copy is made no archived one exists (`CopyInv`), and from the rename on
  the archived copy holds whatever the original holds, but for lines that slipped in; with that no
  step can lose a line or leave a second copy.
* **Retention.** A tree goes only by `RemoveTree`, after its recheck: `RecheckInv` says what still
  holds of it, or that `late` does not. `SteadyInv` ties the trees in use since the last look to
  what that look has recorded or could not see. It speaks of the trees still to be removed only:
  a tree that was removed and made again is no longer the one that was looked at.
* **Archive staging and lanes.** The same pattern: what the last check proved holds until the
  removal, or the history variable says that it changed after that check. `SeenInv` says of a use
  that goes on since the look that it was seen, or is one which that look may miss.
* **Walks.** Seen from a root that comes before two others, those two keep their order
  (`TurnsKeepOrder`). So the order fixed when the roots are selected is the order by the cursor
  that moves (`TurnInv`), the cursor on disk puts the waiter before the root that overtook it
  (`AheadInv`), and the share that is rounded up leaves an even share to those that follow
  (`PoolInv`, `ShareIsEven`).
* **Intervals that double.** The loops of `zeroYieldBackoff`, `byteBackoffIntervalFor` and
  `earlyGap` are recursive functions of the number of rounds, and `NatRecursion` is what it takes
  to reason about them: that a recursive definition over the naturals defines a function
  (`Recursion`), and induction (`SetInduction`). Both come from the least element of a set of
  naturals, with sets where the library's induction theorems take predicates. The zero-yield loop
  is the doubling without a cap (`Escalated`), cut off at the cap, which no value on the way
  passes; the byte loop passes its cap, but stays below twice the cap, so that only a cap
  above half the largest duration could overflow.
* **Early walks.** Until it reaches the interval, the gap is the next of the waits 2, 4, 8... times
  the least one (`GapIsNextWait`). `BarrenSpaced` says of every barren walk that an interval has
  passed since, or as much time as the waits for the walks after it take, `BarrenCounted` that each
  was counted as empty; the walks that fit into an interval are then as many as waits do
  (`AllowedBarren`).

Only model-checked: the liveness properties (`CyclesEnd`, `EligibleAgain`, `ShutdownEnds`,
`CommandsEnd`, `Recovers`, `GCEventuallyRuns`). They rest on fairness, which is stated with
ENABLED, and the prover does not handle that. Every other property of a passing run has a theorem.

## Findings and observations

Findings, each shown by the run of a property that states the quoted sentence: `clean_slate`,
`nix_deferral`, `cut_short`, `late_look` and `dirty_worktree` above. The properties of the passing
runs state what is left without the quoted claim (`RetentionSafe`, for instance, excepts exactly the
trees outside the roots of the last look), and the exceptions above are of the same kind.

Smaller differences between documents and code, seen while modelling and not given a
run of their own:

* A quiet cycle leaves the inode no-progress streak standing; docs/json-report-schema.md:37
  calls it "consecutive cycles with no inode relief".
* A run is dated by the start of its cycle, so that a plugin reached late in a long cycle
  may start again less than one interval later; docs/configuration.md:117.
* A failed run that reports freed bytes resets the zero-yield count (main.go:652);
  docs/configuration.md:149 counts a failed run as zero-yield.
* A run that outlasts the grace period after a shutdown is reported as past its deadline
  (watchdog.go:182 and :195).
* A shutdown signal ends the process with status 0; docs/usage.md:77 lists 1.
* A mount whose band excludes the global moderate step may lose the global aggressive
  step inside the band (main.go:1267; config/config.go:151).
* A pass deferred by the second look at the markers, after the preflight, is recorded as an
  attempt (nix.go:454) and retried only after min_gc_interval; docs/nix-cleanup-policy.md:157
  says "A deferred pass is not counted as an attempt, so the next poll retries it".
* hookPinner reads the clock before the files (nix_hookpins.go:62): a session that starts, and a
  switch that happens, between the two leave the session's hook unprotected.
* A refresh that sees a hook referenced again and then fails to save state.json leaves the older
  date there; a later refresh releases the hook under sessions that started after that date.
* Contention in the preflight counts as an attempt (nix.go:439; docs/nix-cleanup-policy.md:196).
* `byteBackoffIntervalFor` would overflow for a cap above half the largest duration.
* planGenerationTargets returns nothing when the user age and both maxima are unset (nix.go:790),
  although a Home Manager age may be set by which the apply deletes (nix.go:750): the plan then
  leaves out Home Manager generations that a run removes. Read in the code, not model-checked.
* Bazel: the stop path signals whatever process server.pid names at that moment (bazel.go:1229), where
  the document describes `bazel shutdown`; `allow_delete_active_output_bases` lets an orphan pass its
  second look, but what the plan found active is refused before (bazel.go:1111).
* The output-base reaper's apply compares usage with the plugin-wide stop line
  (bazel_bases.go:1115), pressureState with the root's own (docs/configuration.md:349). `WideStop`
  and `RootStop` are separate constants for this reason.
* The reaper does not see a client that starts and ends between two looks, agent data in a leftover
  aside, or a second user of a sibling that a partial walk missed; /proc is not read in one moment.
* Podman: the `.failed` image stays; containers started between the check and the stop are stopped; a
  start by the user during a compaction is not prevented (`Intrusions`); an image pinned without a
  name goes with the dangling ones.
* Archive: a group_depth of 0 is the default of 3; the age is not looked at again before the removal;
  groups that never verify use up the budget of every pass in the order of their paths
  (archive_lifecycle.go:260), so that later ones may never be retired
  (docs/archive-staging-lifecycle.md:58).
* Retention: retentionGitReason has the same gap as the worktree lane; a git ls-files that fails counts
  as no tracked files.
* shm_scratch and temporary roots: max_roots_per_cycle counts kept directories, which may starve later
  ones (shm_scratch.go:240; docs/operator-workflow.md:247).
* dev-artifacts: Nix temporary roots, agent worktrees and workspace artifacts go by the look taken
  when the pass begins; a `ps` that fails means that nobody is active in the session, worktree and
  transcript lanes (`SteadyUseKept` excepts it); the session's second look is at the top directory
  and the transcript only.
* Transcripts: lines appended during a compression are lost (`slipped`); nothing is synced; a daemon
  that stops between rename and remove leaves a transcript that is never compressed again.
* Walks: a family that selects all its roots and is cut off by its deadline starts with the first one
  in every pass; a cursor file that cannot be read once loses the cursors of the other families.
* profile-prune compares store paths before and after: two switches that end at the same path go
  unseen. `HomeHeld` holds all the same.
* Markers and locks: a marker made after the last look at gc_defer_paths does not stop the
  collection; a process that stops between collection and record collects again; a clock set back
  delays the next pass; two processes may choose one quarantine name (state.go:170).

## Not modelled

Report text, JSON layout, log wording, hashing of log records and directory sizing are
left out: no property depends on them. `statfs`, the file system, child processes, other
collectors and the clock are external and nondeterministic; the clock does not go
backwards. `PlanCleanup` of the plugins is read-only. Also left out:

* docker, lima, etcd, rke2, yum and github runner: lists of external commands chosen by the level, with
  no state of their own and no second look; a model would repeat the list.
* cache, debris report, and the caches of go, pnpm, Haskell and LM Studio: one directory or one
  command each, sized and removed.
* Darwin caches and APFS snapshots, the lsof inventory: Darwin only. The control of the lsof
  inventory is that of /proc in `BazelBases`.
* Discovery: which directories, bases, users and processes exist is chosen by the models'
  environment; parsing of command output is left out.
* The defaults and the other Validate methods of the configuration: constants with assumptions here.
* Bazel receipts, repository links to a deleted base; podman's BuildKit prune and fstrim; the
  retention rules that only report.

## Plan

1. `NixGenerations`: the retention policy against a reference definition (newest kept,
   minimum, maximum, current never deleted).
2. Composition: `CleanupCycle`'s abandoned runs from `Watchdog`, `NixGC` as the
   level-independent plugin of a cycle, and `StateRegister` in place of the cycle's `disk`.
3. Proofs: `CycleInv` and `EarnedInv` over `StateRegister` in place of `disk`, once the two are
   composed.
4. The command plugins as one module parameterized by each plugin's table of commands per
   level, and the Darwin plugins.
