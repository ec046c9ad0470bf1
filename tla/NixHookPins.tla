---------------------------- MODULE NixHookPins ----------------------------
(***************************************************************************)
(* Hook-path safety of the Nix plugin: nixHookPinner.refresh in            *)
(* plugins/nix_hookpins.go, with the session listing of nix_sessions*.go.  *)
(*                                                                         *)
(* A session takes the hook paths its configuration files name when it     *)
(* starts, and uses them until it ends.  A switch replaces the names, and  *)
(* with them the root of the old path.  Every poll refreshes the pins: it  *)
(* reads the clock, the configuration files and its state, roots what is   *)
(* referenced, dates what no longer is, lists the live sessions and        *)
(* releases what none of them can need.  Switches, sessions and the        *)
(* collector come between any two of these steps, any of them may fail,    *)
(* and the process may stop.                                               *)
(*                                                                         *)
(* Every reading of the clock is later than the ones before: the code      *)
(* compares times of nanosecond precision.                                 *)
(***************************************************************************)
EXTENDS Integers

CONSTANTS
  Hooks,       \* store paths of hooks
  Sessions,    \* bound: sessions alive at a time
  StartSlack,  \* how much earlier than it was a session's start may be reported
  MaxClock     \* bound: the latest time

ASSUME PinsAssumption == StartSlack \in Nat /\ MaxClock \in Nat

VARIABLES
  clock,     \* the current time
  conf,      \* hooks the configuration files name; the active generation roots them
  store,     \* hooks that are valid store paths
  roots,     \* links in hook_pin_dir, which the collector follows
  pins,      \* the content of hook_pin_dir/state.json
  sessions,  \* the session processes
  pc,        \* where refresh is: "idle", "read", "pin", "list", "release"
  ref,       \* refresh's locals
  seen       \* history: hooks named without a break since a refresh that succeeded

vars == <<clock, conf, store, roots, pins, sessions, pc, ref, seen>>

\* The time a pin stopped being referenced: none yet, or not pinned at all.
Referenced == -1
NoPin == -2
Time == Nat
Pin == Time \cup {Referenced, NoPin}
NoPins == [h \in Hooks |-> NoPin]

(***************************************************************************)
(* start is what the process table reports; hooks what the session uses.   *)
(* sure is history: the hooks it may rely on, see SessionsKeepHooks.       *)
(***************************************************************************)
Session == [alive: BOOLEAN, start: Time, hooks: SUBSET Hooks, sure: SUBSET Hooks]
NoSession == [alive |-> FALSE, start |-> 0, hooks |-> {}, sure |-> {}]

\* refs, st and todo are the references read, the pins in memory and what is left
\* to root; drop what is left to release; steady is history: refs still named.
Refresh == [now: Time, refs: SUBSET Hooks, st: [Hooks -> Pin], todo: SUBSET Hooks,
            drop: SUBSET Hooks, steady: SUBSET Hooks]
NoRefresh == [now |-> 0, refs |-> {}, st |-> NoPins, todo |-> {}, drop |-> {}, steady |-> {}]

Init ==
  /\ clock = 0
  /\ conf \in SUBSET Hooks /\ store = conf /\ roots = {} /\ pins = NoPins
  /\ sessions = [s \in Sessions |-> NoSession]
  /\ pc = "idle" /\ ref = NoRefresh /\ seen = {}
-----------------------------------------------------------------------------
(* refresh *)

\* hookPinner reads the clock before anything else.
BeginRefresh ==
  /\ pc = "idle" /\ clock < MaxClock
  /\ clock' = clock + 1
  /\ pc' = "read" /\ ref' = [NoRefresh EXCEPT !.now = clock + 1]
  /\ UNCHANGED <<conf, store, roots, pins, sessions, seen>>

\* Any error ends refresh before the state is saved.
Fail ==
  /\ pc # "idle"
  /\ pc' = "idle" /\ ref' = NoRefresh
  /\ UNCHANGED <<clock, conf, store, roots, pins, sessions, seen>>

\* A referenced path is tracked, and no longer counts as unreferenced.
Rereferenced(st, refs) == [h \in Hooks |-> IF h \in refs THEN Referenced ELSE st[h]]

\* A state file that cannot be read or decoded counts as empty.
ReadConfig(readable) ==
  /\ pc = "read"
  /\ pc' = "pin"
  /\ ref' = [ref EXCEPT !.refs = conf, !.steady = conf, !.todo = conf,
                        !.st = Rereferenced(IF readable THEN pins ELSE NoPins, conf)]
  /\ UNCHANGED <<clock, conf, store, roots, pins, sessions, seen>>

\* One reference: a path whose link stands is passed over; nix-store adds the root of
\* one that is valid.  A query that does not answer (its minute is over, it cannot be
\* started, the daemon is busy) reads as "not valid": a warning, and the path stays
\* unrooted while refresh goes on.
PinRef(h, answers) ==
  /\ pc = "pin" /\ h \in ref.todo
  /\ ref' = [ref EXCEPT !.todo = @ \ {h}]
  /\ roots' = roots \cup {g \in {h} \cap store : answers}
  /\ UNCHANGED <<clock, conf, store, pins, sessions, pc, seen>>

\* What is tracked and no longer referenced is dated by refresh's clock.
Unreferenced ==
  [h \in Hooks |-> IF h \notin ref.refs /\ ref.st[h] = Referenced THEN ref.now ELSE ref.st[h]]

MarkUnreferenced ==
  /\ pc = "pin" /\ ref.todo = {}
  /\ pc' = "list" /\ ref' = [ref EXCEPT !.st = Unreferenced]
  /\ UNCHANGED <<clock, conf, store, roots, pins, sessions, seen>>

\* A live session that started before the path stopped being referenced.
Held(h) == \E s \in Sessions : sessions[s].alive /\ sessions[s].start < ref.st[h]

\* Mutant: a listing that fails counts as one without sessions.
Released_Uninspected(inspected) ==
  {h \in Hooks : ref.st[h] \in Time /\ (inspected => ~ Held(h))}

\* When the sessions cannot be inspected every pin is kept.
Released(inspected) == {h \in Hooks : ref.st[h] \in Time /\ inspected /\ ~ Held(h)}

ListSessions(inspected) ==
  /\ pc = "list"
  /\ pc' = "release" /\ ref' = [ref EXCEPT !.drop = Released(inspected)]
  /\ UNCHANGED <<clock, conf, store, roots, pins, sessions, seen>>

ReleasePin(h) ==
  /\ pc = "release" /\ h \in ref.drop
  /\ roots' = roots \ {h}
  /\ ref' = [ref EXCEPT !.drop = @ \ {h}, !.st = [@ EXCEPT ![h] = NoPin]]
  /\ UNCHANGED <<clock, conf, store, pins, sessions, pc, seen>>

\* The state is written to a temporary file and renamed.  From here on what was
\* referenced, and rooted, is known to be.
SaveState ==
  LET known == ref.refs \cap roots
  IN  /\ pc = "release" /\ ref.drop = {}
      /\ pins' = ref.st
      /\ sessions' = [s \in Sessions |->
                        IF sessions[s].alive
                        THEN [sessions[s] EXCEPT !.sure = @ \cup (sessions[s].hooks \cap known)]
                        ELSE sessions[s]]
      /\ seen' = seen \cup (ref.steady \cap known)
      /\ pc' = "idle" /\ ref' = NoRefresh
      /\ UNCHANGED <<clock, conf, store, roots>>
-----------------------------------------------------------------------------
(* The environment. *)

\* A switch names other hooks, which it has built.
Switch(new) ==
  /\ conf' = new /\ store' = store \cup new
  /\ seen' = seen \cap new /\ ref' = [ref EXCEPT !.steady = @ \cap new]
  /\ UNCHANGED <<clock, roots, pins, sessions, pc>>

\* A session starts under the current configuration.
StartSession(s, start) ==
  /\ ~ sessions[s].alive /\ clock < MaxClock
  /\ clock' = clock + 1
  /\ start <= clock + 1 /\ clock + 1 <= start + StartSlack
  /\ sessions' = [sessions EXCEPT ![s] =
                    [alive |-> TRUE, start |-> start, hooks |-> conf,
                     sure |-> IF pc = "read" THEN {} ELSE seen]]
  /\ UNCHANGED <<conf, store, roots, pins, pc, ref, seen>>

EndSession(s) ==
  /\ sessions[s].alive
  /\ sessions' = [sessions EXCEPT ![s] = NoSession]
  /\ UNCHANGED <<clock, conf, store, roots, pins, pc, ref, seen>>

\* The daemon's own pass or another collector: what no root holds is deleted.
CollectGarbage ==
  /\ store' = store \cap (conf \cup roots)
  /\ UNCHANGED <<clock, conf, roots, pins, sessions, pc, ref, seen>>

Next ==
  \/ BeginRefresh
  \/ Fail
  \/ \E readable \in BOOLEAN : ReadConfig(readable)
  \/ \E h \in Hooks, answers \in BOOLEAN : PinRef(h, answers)
  \/ MarkUnreferenced
  \/ \E inspected \in BOOLEAN : ListSessions(inspected)
  \/ \E h \in Hooks : ReleasePin(h)
  \/ SaveState
  \/ \E new \in SUBSET Hooks : Switch(new)
  \/ \E s \in Sessions, start \in 0 .. MaxClock : StartSession(s, start)
  \/ \E s \in Sessions : EndSession(s)
  \/ CollectGarbage

Spec == Init /\ [][Next]_vars
-----------------------------------------------------------------------------
(* Properties. *)

\* The values of refresh's state and of the processes around it.
TypeOK ==
  /\ clock \in Time
  /\ conf \in SUBSET Hooks /\ store \in SUBSET Hooks /\ roots \in SUBSET Hooks
  /\ pins \in [Hooks -> Pin] /\ sessions \in [Sessions -> Session]
  /\ pc \in {"idle", "read", "pin", "list", "release"}
  /\ ref \in Refresh /\ seen \in SUBSET Hooks

\* "A pinned path that the config no longer references is released only once no
\* session process that started before the path stopped being referenced is still
\* alive" (nix_hookpins.go): a live session keeps the hooks it started under,
\* through any number of switches, failed refreshes, lost state files and
\* restarts.  It may rely on a hook that a successful refresh saw and rooted while
\* the path stayed named, before or after the session started, unless the session
\* started while a refresh had read the clock and not yet the files.  A hook whose
\* validity query goes unanswered (line 136) is named and valid, and not rooted by a
\* refresh that succeeds all the same.
SessionsKeepHooks ==
  \A s \in Sessions : sessions[s].alive => sessions[s].sure \subseteq store

\* The inductive invariant, part by part.  Times are in the past; a session
\* whose hooks are relied on started before the refresh that is about to read.
Times ==
  /\ ref.now <= clock
  /\ \A s \in Sessions : sessions[s].start <= clock
  /\ pc = "read" => \A s \in Sessions : sessions[s].sure # {} => sessions[s].start < ref.now

\* What is rooted is valid; what is seen is named, rooted and undated.
SeenRooted ==
  /\ roots \subseteq store
  /\ seen \subseteq conf \cap roots
  /\ \A h \in seen : pins[h] = Referenced

\* A refresh knows what it read, what is seen is part of that, and it releases
\* only what has a date.
RefreshSound ==
  pc \in {"pin", "list", "release"} =>
    /\ seen \subseteq ref.refs
    /\ ref.steady \subseteq ref.refs \cap conf
    /\ \A h \in ref.refs : ref.st[h] = Referenced
    /\ pc = "release" => \A h \in ref.drop : ref.st[h] \in Time

\* A date that does not release h as long as a session of that start is alive.
Keeps(pin, start) == pin \in Time => start < pin

\* What a session relies on is rooted, no date on disk or in memory releases it,
\* and no date about to be given will.
ReliedOn(s, h) ==
  /\ h \in roots
  /\ Keeps(pins[h], sessions[s].start)
  /\ pc \in {"pin", "list", "release"} => Keeps(ref.st[h], sessions[s].start)
  /\ pc = "pin" /\ h \notin ref.refs /\ ref.st[h] = Referenced => sessions[s].start < ref.now
  /\ pc = "release" => h \notin ref.drop

\* No session that is relied upon loses its hook, because no record forgets it.
PinInv ==
  /\ TypeOK
  /\ Times
  /\ SeenRooted
  /\ RefreshSound
  /\ \A s \in Sessions : ~ sessions[s].alive => sessions[s].sure = {}
  /\ \A s \in Sessions : \A h \in sessions[s].sure : ReliedOn(s, h)
=============================================================================
