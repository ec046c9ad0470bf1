------------------------------- MODULE NixGC -------------------------------
(***************************************************************************)
(* The Nix plugin's garbage collection: NixPlugin.Cleanup in plugins/nix.go*)
(* with the cadence of nix_cadence.go and the serialization of             *)
(* nix_gclock.go.  The daemon calls it on every poll.  A due pass goes     *)
(* through the checks no bound bypasses, the serialization lock, the busy  *)
(* gate, generation deletion, a dry-run preflight and the collection, and  *)
(* ends by recording the attempt.                                          *)
(*                                                                         *)
(* Around it other collectors take the lock, switches and deliveries come  *)
(* and go with their markers, the process stops and starts again, and the  *)
(* state file may fail to be read or written.                              *)
(*                                                                         *)
(* A time stamp is represented by its age.  Ages stop growing at Horizon,  *)
(* which no interval of the configuration exceeds, so that no comparison   *)
(* the code makes can tell two ages beyond it apart.  The count of         *)
(* deferrals stops at DeferralCap for the same reason.                     *)
(***************************************************************************)
EXTENDS DiskMonitor

CONSTANTS
  Configs,      \* the configurations a process may start with
  Levels,       \* levels the daemon calls the plugin with
  DiskFull,     \* whether the state file may stay unwritable for good
  Horizon,      \* bound: the age at which ages stop growing
  DeferralCap   \* bound: where the count of deferrals stops

\* The part of NixConfig that decides a pass; 0 disables an interval or a bound.
NixConfig ==
  [stateFile: BOOLEAN, pinsRequired: BOOLEAN, lockFile: BOOLEAN, skipWhenBusy: BOOLEAN,
   optimize: BOOLEAN, minGap: 0 .. Horizon, periodic: 0 .. Horizon,
   maxDeferrals: 0 .. DeferralCap, maxHold: 0 .. Horizon]

ASSUME NixAssumption ==
  /\ Horizon \in Nat /\ DeferralCap \in Nat \ {0}
  /\ Configs \subseteq NixConfig
  /\ Levels \subseteq LevelNone .. LevelCritical /\ DiskFull \in BOOLEAN

VARIABLES
  cfg,      \* the running process's configuration
  file,     \* the content of gc_state_file
  mem,      \* p.memState
  last,     \* p.lastGCAttempt
  phase,    \* where the running pass is; "idle" between passes
  pass,     \* the running pass's locals
  lock,     \* who holds gc_lock_file: "free", "daemon" or "other"
  marker,   \* whether some gc_defer_paths entry exists
  trouble,  \* whether the causes that no bound bypasses can still occur
  hist      \* history: the last attempted pass, and who knows of it

nixVars == <<cfg, file, mem, last, phase, pass, lock, marker, trouble, hist>>
-----------------------------------------------------------------------------
(* Ages. *)

Never == -1
Age == 0 .. Horizon
MaybeAge == Age \cup {Never}

Older(a) == IF a \in 0 .. Horizon - 1 THEN a + 1 ELSE a

\* One time stamp is after another; an unset one is before all others.
After(a, b) == a # Never /\ (b = Never \/ a < b)
-----------------------------------------------------------------------------
(* nixGCState: the last attempt and the current run of deferrals. *)

nixGCState == [attempt: MaybeAge, deferred: 0 .. DeferralCap, first: MaybeAge]

ZeroState == [attempt |-> Never, deferred |-> 0, first |-> Never]

\* Mutant: every deferral begins a run of its own.
recordDeferral_Restarts(st) == [st EXCEPT !.first = 0, !.deferred = 1]

recordDeferral(st) ==
  [st EXCEPT !.first = IF st.deferred = 0 \/ @ = Never THEN 0 ELSE @,
             !.deferred = IF @ < DeferralCap THEN @ + 1 ELSE @]

\* recordAttempt ends the run of deferrals.
recordAttempt(st) == [attempt |-> 0, deferred |-> 0, first |-> Never]

\* nixBusyDeferralBound: either bound releases a pass that active work holds.
nixBusyDeferralBound(st) ==
  \/ cfg.maxDeferrals > 0 /\ st.deferred >= cfg.maxDeferrals
  \/ cfg.maxHold > 0 /\ st.deferred > 0 /\ st.first # Never /\ st.first >= cfg.maxHold

\* nixGCDue: the level to collect at, or none.
nixGCDue(level, st) ==
  IF st.attempt # Never /\ cfg.minGap > 0 /\ st.attempt < cfg.minGap THEN LevelNone
  ELSE IF level >= LevelWarning THEN level
  ELSE IF cfg.periodic > 0 /\ (st.attempt = Never \/ st.attempt >= cfg.periodic)
       THEN LevelWarning
       ELSE LevelNone

\* The state a poll starts from.  A file that cannot be read or decoded counts
\* as none; without a file the state is kept in memory; a later attempt of this
\* process stands whatever the file says.
loadNixGCState(readable) ==
  LET st == IF ~ cfg.stateFile THEN mem ELSE IF readable THEN file ELSE ZeroState
  IN  IF After(last, st.attempt) THEN [st EXCEPT !.attempt = last] ELSE st

\* saveState, in Cleanup: to memory, and to the file if there is one.
saveState(st, written) ==
  /\ mem' = st
  /\ file' = IF cfg.stateFile /\ written THEN st ELSE file
-----------------------------------------------------------------------------
(* A pass. *)

NoPass == [st |-> ZeroState, level |-> LevelNone, pinErr |-> FALSE, deleted |-> FALSE,
           known |-> FALSE]

\* Phases in which Cleanup holds the serialization lock.
Serialized == {"gate", "generations", "preflight", "recheck", "collect", "optimize", "record"}
Phases == {"idle", "checks", "lock"} \cup Serialized

NixInit ==
  /\ cfg \in Configs
  /\ file = ZeroState /\ mem = ZeroState /\ last = Never
  /\ phase = "idle" /\ pass = NoPass
  /\ lock = "free" /\ marker = FALSE /\ trouble = TRUE
  /\ hist = [age |-> Never, inMemory |-> FALSE, onDisk |-> FALSE]

Released == IF lock = "daemon" THEN "free" ELSE lock

\* History: whether a written state file tells of the last attempted pass.
HistoryAfterSave(written, known) ==
  [hist EXCEPT !.onDisk = IF cfg.stateFile /\ written THEN known ELSE @]

(***************************************************************************)
(* Poll: Cleanup up to nixGCDue.  The hook pins are refreshed first, with  *)
(* or without success.  A pass that is not due leaves nothing behind.      *)
(***************************************************************************)
Poll(level, pinned, readable) ==
  LET st  == loadNixGCState(readable)
      due == nixGCDue(level, st)
  IN  /\ phase = "idle"
      /\ trouble \/ (pinned /\ readable)
      /\ phase' = IF due = LevelNone THEN "idle" ELSE "checks"
      /\ pass' = IF due = LevelNone THEN NoPass
                 ELSE [NoPass EXCEPT !.st = st, !.level = due, !.pinErr = ~ pinned,
                                     !.known = hist.inMemory \/ (cfg.stateFile /\ readable /\ hist.onDisk)]
      /\ UNCHANGED <<cfg, file, mem, last, lock, marker, trouble, hist>>

\* A deferral ends the pass: it is counted, saved, and the lock is let go.
Deferral(written) ==
  /\ trouble \/ DiskFull \/ written
  /\ saveState(recordDeferral(pass.st), written)
  /\ phase' = "idle" /\ pass' = NoPass /\ lock' = Released
  /\ hist' = HistoryAfterSave(written, pass.known)
  /\ UNCHANGED <<cfg, last, marker, trouble>>

\* The causes Cleanup tests before it takes the lock, none of them bypassed.
Unbypassable(available) == ~ available \/ (pass.pinErr /\ cfg.pinsRequired) \/ marker

\* deferUnbypassable for a missing nix-collect-garbage, failed pins or a marker.
DeferUnbypassable(available, written) ==
  /\ phase = "checks" /\ Unbypassable(available)
  /\ trouble \/ available
  /\ Deferral(written)

PassChecks ==
  /\ phase = "checks" /\ ~ Unbypassable(TRUE)
  /\ phase' = "lock"
  /\ UNCHANGED <<cfg, file, mem, last, pass, lock, marker, trouble, hist>>

\* nixAcquireGCLock succeeds at once when no lock file is configured.
AcquireGCLock ==
  /\ phase = "lock"
  /\ cfg.lockFile => lock = "free"
  /\ lock' = IF cfg.lockFile THEN "daemon" ELSE lock
  /\ phase' = "gate"
  /\ UNCHANGED <<cfg, file, mem, last, pass, marker, trouble, hist>>

\* deferUnbypassable for a lock that is held, or unusable.
DeferLock(written) ==
  /\ phase = "lock" /\ cfg.lockFile
  /\ lock = "other" \/ trouble
  /\ Deferral(written)

(***************************************************************************)
(* busyGate: work that is detected, or an inspection that fails, holds the *)
(* pass back until a bound is reached.                                     *)
(***************************************************************************)
HeldByBusy(available, idle) ==
  cfg.skipWhenBusy /\ available /\ ~ idle /\ ~ nixBusyDeferralBound(pass.st)

BusyGateHolds(available, idle, written) ==
  /\ phase = "gate" /\ HeldByBusy(available, idle)
  /\ Deferral(written)

BusyGateOpens(available, idle) ==
  /\ phase = "gate" /\ ~ HeldByBusy(available, idle)
  /\ trouble \/ available
  /\ phase' = "generations"
  /\ UNCHANGED <<cfg, file, mem, last, pass, lock, marker, trouble, hist>>

\* A pass that ends without an attempt: nothing is recorded.
Abandon ==
  /\ phase' = "idle" /\ pass' = NoPass /\ lock' = Released
  /\ UNCHANGED <<cfg, file, mem, last, marker, trouble, hist>>

\* runGC without nix-collect-garbage, or with generations it fails to delete.
GCNotAttempted ==
  /\ phase = "generations" /\ trouble
  /\ Abandon

\* The two generation policies, at moderate and above.
DeleteGenerations(deleted) ==
  /\ phase = "generations"
  /\ deleted => pass.level >= LevelModerate
  /\ phase' = "preflight" /\ pass' = [pass EXCEPT !.deleted = deleted]
  /\ UNCHANGED <<cfg, file, mem, last, lock, marker, trouble, hist>>

(***************************************************************************)
(* Preflight: the dry run may report contention, fail, or find nothing to  *)
(* do; each of them ends the pass as an attempted one.                     *)
(***************************************************************************)
Preflight(outcome) ==
  LET nothing == /\ outcome = "no work" /\ ~ pass.deleted
                 /\ ~ (pass.level = LevelCritical /\ cfg.optimize)
  IN  /\ phase = "preflight"
      /\ phase' = IF outcome \in {"contention", "failed"} \/ nothing THEN "record" ELSE "recheck"
      /\ UNCHANGED <<cfg, file, mem, last, pass, lock, marker, trouble, hist>>

\* The markers are looked at again just before the collection; a pass deferred
\* here counts as an attempted one.
Recheck ==
  /\ phase = "recheck"
  /\ phase' = IF marker THEN "record" ELSE "collect"
  /\ UNCHANGED <<cfg, file, mem, last, pass, lock, marker, trouble, hist>>

\* collectGarbage, followed at critical by nix-store --optimize if it may.
Collect(ok) ==
  /\ phase = "collect"
  /\ phase' = IF pass.level = LevelCritical /\ ok /\ cfg.optimize THEN "optimize" ELSE "record"
  /\ UNCHANGED <<cfg, file, mem, last, pass, lock, marker, trouble, hist>>

Optimize ==
  /\ phase = "optimize"
  /\ phase' = "record"
  /\ UNCHANGED <<cfg, file, mem, last, pass, lock, marker, trouble, hist>>

\* Mutant: the attempt is kept in the state file only.
RecordAttempt_FileOnly(written) ==
  /\ phase = "record"
  /\ trouble \/ DiskFull \/ written
  /\ saveState(recordAttempt(pass.st), written)
  /\ phase' = "idle" /\ pass' = NoPass /\ lock' = Released
  /\ hist' = [age |-> 0, inMemory |-> TRUE, onDisk |-> cfg.stateFile /\ written]
  /\ UNCHANGED <<cfg, last, marker, trouble>>

\* The end of an attempted pass.
RecordAttempt(written) ==
  /\ phase = "record"
  /\ trouble \/ DiskFull \/ written
  /\ saveState(recordAttempt(pass.st), written)
  /\ last' = 0
  /\ phase' = "idle" /\ pass' = NoPass /\ lock' = Released
  /\ hist' = [age |-> 0, inMemory |-> TRUE, onDisk |-> cfg.stateFile /\ written]
  /\ UNCHANGED <<cfg, marker, trouble>>
-----------------------------------------------------------------------------
(* The environment. *)

\* The process stops, or is killed, and starts again; the kernel lets its lock
\* go, and its commands end with it.
Restart ==
  /\ trouble
  /\ cfg' \in Configs
  /\ mem' = ZeroState /\ last' = Never
  /\ phase' = "idle" /\ pass' = NoPass /\ lock' = Released
  /\ hist' = [hist EXCEPT !.inMemory = FALSE]
  /\ UNCHANGED <<file, marker, trouble>>

\* Another collector takes and releases the lock.
OtherCollector ==
  /\ \/ trouble /\ lock = "free" /\ lock' = "other"
     \/ lock = "other" /\ lock' = "free"
  /\ UNCHANGED <<cfg, file, mem, last, phase, pass, marker, trouble, hist>>

\* A switch or a delivery creates and removes its marker.
Switch ==
  /\ trouble \/ marker
  /\ marker' = ~ marker
  /\ UNCHANGED <<cfg, file, mem, last, phase, pass, lock, trouble, hist>>

Elapse ==
  LET Grown(st) == [st EXCEPT !.attempt = Older(@), !.first = Older(@)]
  IN  /\ file' = Grown(file) /\ mem' = Grown(mem) /\ last' = Older(last)
      /\ pass' = [pass EXCEPT !.st = Grown(pass.st)]
      /\ hist' = [hist EXCEPT !.age = Older(@)]
      /\ UNCHANGED <<cfg, phase, lock, marker, trouble>>

\* From here on the causes no bound bypasses stay away; Nix work does not.
TroubleEnds ==
  /\ trouble /\ lock # "other" /\ ~ marker
  /\ trouble' = FALSE
  /\ UNCHANGED <<cfg, file, mem, last, phase, pass, lock, marker, hist>>

PassStep ==
  \/ \E level \in Levels, pinned, readable \in BOOLEAN : Poll(level, pinned, readable)
  \/ \E available, written \in BOOLEAN : DeferUnbypassable(available, written)
  \/ PassChecks
  \/ AcquireGCLock
  \/ \E written \in BOOLEAN : DeferLock(written)
  \/ \E available, idle, written \in BOOLEAN : BusyGateHolds(available, idle, written)
  \/ \E available, idle \in BOOLEAN : BusyGateOpens(available, idle)
  \/ GCNotAttempted
  \/ \E deleted \in BOOLEAN : DeleteGenerations(deleted)
  \/ \E outcome \in {"work", "no work", "contention", "failed"} : Preflight(outcome)
  \/ Recheck
  \/ \E ok \in BOOLEAN : Collect(ok)
  \/ Optimize
  \/ \E written \in BOOLEAN : RecordAttempt(written)

NixNext == PassStep \/ Restart \/ OtherCollector \/ Switch \/ Elapse \/ TroubleEnds

NixSpec == NixInit /\ [][NixNext]_nixVars

\* The poll loop keeps calling the plugin, the watchdog ends its commands, and
\* time passes.
NixFairSpec == NixSpec /\ WF_nixVars(PassStep) /\ WF_nixVars(Elapse)
-----------------------------------------------------------------------------
(* Properties. *)

Pass == [st: nixGCState, level: LevelNone .. LevelCritical, pinErr: BOOLEAN, deleted: BOOLEAN,
         known: BOOLEAN]

\* The values Cleanup's state and locals range over.
NixTypeOK ==
  /\ cfg \in Configs
  /\ file \in nixGCState /\ mem \in nixGCState /\ last \in MaybeAge
  /\ phase \in Phases /\ pass \in Pass
  /\ lock \in {"free", "daemon", "other"} /\ marker \in BOOLEAN /\ trouble \in BOOLEAN
  /\ hist \in [age: MaybeAge, inMemory: BOOLEAN, onDisk: BOOLEAN]

\* From the lock to the end of a pass nothing the code calls a safety invariant
\* is bypassed (Cleanup, nixAcquireGCLock): the daemon holds the serialization
\* lock, so no other collector runs with it, and required hook pins were
\* established in this very poll, also when a deferral bound released the pass.
PassGuarded ==
  /\ phase \in Serialized /\ cfg.lockFile => lock = "daemon"
  /\ phase \in Serialized \cup {"lock"} /\ cfg.pinsRequired => ~ pass.pinErr

\* The records the two intervals are measured against: none is ahead of the
\* last attempt, the process's own memory of it is exact, and so is the file
\* unless a save was lost.
RecordsSound ==
  /\ last = IF hist.inMemory THEN hist.age ELSE Never
  /\ hist.onDisk => file.attempt = hist.age
  /\ \A st \in {file, mem, pass.st} : st.attempt # Never => hist.age # Never /\ hist.age <= st.attempt
  /\ pass.known => pass.st.attempt = hist.age

\* The lock is not left behind: only a running pass holds it.
LockHeldByPass == lock = "daemon" => phase \in Serialized

\* The inductive invariant of the cadence and of the guards.
NixInv == NixTypeOK /\ PassGuarded /\ RecordsSound /\ LockHeldByPass

\* "Never twice within nix.min_gc_interval, even at critical" (nix_cadence.go):
\* a pass becomes due only when min_gc_interval has passed since the last
\* attempted one, unless neither this process nor the state file knows of it.
\* One side is the record, which goes through failed saves, unreadable files
\* and deferrals; the other is the time the last attempt really ended.
MinGapKept ==
  [][phase = "idle" /\ phase' = "checks" /\ pass'.known
       => hist.age = Never \/ hist.age >= cfg.minGap]_nixVars

\* "No single process, readable or not, can hold the store's GC off
\* indefinitely" (busyGate, issue #160): with a deferral bound and a periodic
\* interval a pass is attempted again and again, however busy the store is, once
\* the causes no bound bypasses stay away.  Cleanup reads the count of deferrals
\* back from the state file on every poll, so this takes a file that can be
\* written: with DiskFull it fails.
GCEventuallyRuns ==
  ~ trouble /\ cfg.periodic > 0 /\ (cfg.maxDeferrals > 0 \/ cfg.maxHold > 0)
    ~> phase = "record"
=============================================================================
