---------------------------- MODULE LogThrottle ---------------------------
(***************************************************************************)
(* Bounded duplicate log emission: logThrottle and reportThrottle of       *)
(* logthrottle.go.                                                         *)
(*                                                                         *)
(* A log record is its line identity (the key: level, message, mount,      *)
(* plugin, path) and its content, what the fingerprint covers.  Readings   *)
(* that drift from cycle to cycle are in neither and are left out, and so  *)
(* are debug records, which pass through.  Records come in any order: the  *)
(* cycle loop and abandoned plugin runs log at the same time, and a mutex  *)
(* makes each decision one step.                                           *)
(***************************************************************************)
EXTENDS Integers, FiniteSets

CONSTANTS
  Keys,           \* line identities
  ErrorKeys,      \* those of error records
  Contents,       \* contents of a line, and of a cycle report
  Window,         \* policy.log_repeat_window
  ErrorWindow,    \* the cap on the window of error records
  MaxKeys,        \* entries that the throttle holds at most
  MaxLogClock,       \* bound: the latest time
  MaxCopies       \* bound: copies held back between two emissions

ASSUME ThrottleAssumption ==
  /\ ErrorKeys \subseteq Keys /\ IsFiniteSet(Keys)
  /\ Window \in Nat \ {0} /\ ErrorWindow \in Nat \ {0} /\ MaxKeys \in Nat \ {0}
  /\ MaxLogClock \in Nat /\ MaxCopies \in Nat /\ "none" \notin Contents

NoContent == "none"

VARIABLES
  logClock,
  entries,   \* logThrottle.entries; content NoContent where there is none
  full,      \* reportThrottle
  latest,    \* the decision on the latest record or report
  shown,     \* history: each line's last emission, and the copies held back since
  wrote      \* history: the last full report

throttleVars == <<logClock, entries, full, latest, shown, wrote>>

NoEntry == [content |-> NoContent, emit |-> 0, held |-> 0]
Entry == [content: Contents \cup {NoContent}, emit: Nat, held: Nat]

\* What decide returns, or what is written of a cycle.
Decision(did, k, content, held) == [did |-> did, key |-> k, content |-> content, held |-> held]
Quiet == Decision("none", "none", NoContent, 0)

HeldKeys == {k \in Keys : entries[k] # NoEntry}

ThrottleInit ==
  /\ logClock = 0
  /\ entries = [k \in Keys |-> NoEntry]
  /\ full = NoEntry
  /\ shown = [k \in Keys |-> NoEntry]
  /\ latest = Quiet /\ wrote = NoEntry

windowFor(k) == IF k \in ErrorKeys /\ ErrorWindow < Window THEN ErrorWindow ELSE Window

\* What is left after evictLocked for some choice among the oldest entries: the
\* range over a map has no order.
Evictions ==
  IF Cardinality(HeldKeys) < MaxKeys THEN {entries}
  ELSE {[entries EXCEPT ![k] = NoEntry] :
          k \in {o \in HeldKeys : \A h \in HeldKeys : entries[o].emit <= entries[h].emit}}

\* The record is emitted: history starts anew for its line.
Emitted(k, content, held) ==
  /\ shown' = [shown EXCEPT ![k] = [content |-> content, emit |-> logClock, held |-> 0]]
  /\ latest' = Decision("emit", k, content, held)

\* decide: the first record of a line.
EmitNew(k, content) ==
  /\ k \notin HeldKeys
  /\ \E kept \in Evictions :
       entries' = [kept EXCEPT ![k] = [content |-> content, emit |-> logClock, held |-> 0]]
  /\ Emitted(k, content, 0)
  /\ UNCHANGED <<logClock, full, wrote>>

\* decide: the record says what the line said, within its window.
Repeats(k, content) ==
  /\ k \in HeldKeys /\ entries[k].content = content
  /\ logClock - entries[k].emit < windowFor(k)

\* Mutant: the copies held back are counted from the start.
EmitAgain_KeepsCount(k, content) ==
  /\ k \in HeldKeys /\ ~ Repeats(k, content)
  /\ entries' = [entries EXCEPT ![k].content = content, ![k].emit = logClock]
  /\ Emitted(k, content, entries[k].held)
  /\ UNCHANGED <<logClock, full, wrote>>

\* decide: the content changed, or the window is over.
EmitAgain(k, content) ==
  /\ k \in HeldKeys /\ ~ Repeats(k, content)
  /\ entries' = [entries EXCEPT ![k] = [content |-> content, emit |-> logClock, held |-> 0]]
  /\ Emitted(k, content, entries[k].held)
  /\ UNCHANGED <<logClock, full, wrote>>

HoldBack(k, content) ==
  /\ Repeats(k, content)
  /\ entries[k].held < MaxCopies
  /\ entries' = [entries EXCEPT ![k].held = @ + 1]
  /\ shown' = [shown EXCEPT ![k].held = @ + 1]
  /\ latest' = Decision("hold", k, content, 0)
  /\ UNCHANGED <<logClock, full, wrote>>

\* reportThrottle.full: a cycle's report is written in full, or as one line.
FullReport(content) ==
  /\ full = NoEntry \/ content # full.content \/ logClock - full.emit >= Window
  /\ full' = [content |-> content, emit |-> logClock, held |-> 0]
  /\ wrote' = [content |-> content, emit |-> logClock, held |-> 0]
  /\ latest' = Decision("full", "report", content, 0)
  /\ UNCHANGED <<logClock, entries, shown>>

CompactReport(content) ==
  /\ full # NoEntry /\ content = full.content /\ logClock - full.emit < Window
  /\ full.held < MaxCopies
  /\ full' = [full EXCEPT !.held = @ + 1]
  /\ latest' = Decision("compact", "report", content, full.held + 1)
  /\ UNCHANGED <<logClock, entries, shown, wrote>>

Tick ==
  /\ logClock < MaxLogClock
  /\ logClock' = logClock + 1
  /\ latest' = Quiet
  /\ UNCHANGED <<entries, full, shown, wrote>>

ThrottleNext ==
  \/ \E k \in Keys, content \in Contents :
       \/ EmitNew(k, content)
       \/ EmitAgain(k, content)
       \/ HoldBack(k, content)
  \/ \E content \in Contents : FullReport(content) \/ CompactReport(content)
  \/ Tick

ThrottleSpec == ThrottleInit /\ [][ThrottleNext]_throttleVars
-----------------------------------------------------------------------------
(* Properties. *)

\* "Emits a line when its content changes and otherwise at most once per repeat
\* window" (logThrottle): the same content comes again within its window only
\* after the line was evicted, which takes MaxKeys other lines in that time.
RepeatsAreSpaced ==
  [][\A k \in Keys :
       latest'.did = "emit" /\ latest'.key = k
       /\ shown[k] # NoEntry /\ latest'.content = shown[k].content
       /\ logClock - shown[k].emit < windowFor(k)
         => Cardinality({o \in Keys \ {k} : shown[o] # NoEntry /\ shown[o].emit >= shown[k].emit})
              >= MaxKeys]_throttleVars

\* "Carrying a count of the copies it held back" (decide): a line that was not
\* evicted is emitted with the number of copies held back since it was last.
CountIsExact ==
  [][\A k \in HeldKeys :
       latest'.did = "emit" /\ latest'.key = k => latest'.held = shown[k].held]_throttleVars

\* A level change, a new reason or a new retry time is logged at once: a record
\* is held back only if it says what its line said last.
ChangesAreShown ==
  [][latest'.did = "hold" => shown[latest'.key].content = latest'.content]_throttleVars

\* "An unchanged cycle writes one line instead of the full report" (full): the
\* same report is written in full again only after a window.
FullReportsAreSpaced ==
  [][latest'.did = "full" /\ wrote # NoEntry /\ wrote.content = latest'.content
       => logClock - wrote.emit >= Window]_throttleVars

\* What a reader of the log may conclude from the lines that are there.
LogTruthful == RepeatsAreSpaced /\ CountIsExact /\ ChangesAreShown /\ FullReportsAreSpaced
=============================================================================
