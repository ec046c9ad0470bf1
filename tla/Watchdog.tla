----------------------------- MODULE Watchdog -----------------------------
(***************************************************************************)
(* The plugin watchdog: the daemon loop of main.go (run), watchPlugin of   *)
(* watchdog.go, and the commands a plugin starts (exec_deadline.go).       *)
(*                                                                         *)
(* Three kinds of threads interleave: the daemon's cycle loop, one         *)
(* goroutine per plugin run, and the child process that a run waits for.   *)
(* A goroutine together with its done channel, its context and its         *)
(* RunScope is a slot.  Timers are events that may happen once they are    *)
(* armed, so no clock is needed: a deadline may come at any moment.        *)
(***************************************************************************)
EXTENDS Integers, Sequences

CONSTANTS
  Plugins,       \* the plugins
  PluginOrder,   \* the enabled plugins, in registry order
  Binaries,      \* programs that plugins start
  Slots,         \* bound: goroutines at a time
  NoSlot         \* no goroutine

ASSUME WatchdogAssumption ==
  /\ PluginOrder \in Seq(Plugins)
  /\ \A i, j \in 1 .. Len(PluginOrder) : PluginOrder[i] = PluginOrder[j] => i = j
  /\ NoSlot \notin Slots

VARIABLES
  pc,        \* where the loop is: "cycle", "watch", "grace", "wait", "exited"
  at,        \* the plugin it has reached, an index of PluginOrder
  cur,       \* the slot it waits for
  slots,     \* the goroutines
  flight,    \* daemon.inFlight
  shutdown,  \* the signal handler has cancelled the daemon's context
  polled,    \* the poll timer has fired
  verdict,   \* what the current cycle reports of each plugin
  exit,      \* the exit status
  daemon     \* the process runs with --daemon, not with --once or --level

vars == <<pc, at, cur, slots, flight, shutdown, polled, verdict, exit, daemon>>

\* The deadline of a command: "probe" covers probes, listings and reclaim
\* commands; "offline" a VM stop or an image conversion; "restart" a VM start.
Classes == {"probe", "offline", "restart"}

(***************************************************************************)
(* A command belongs to its context until the context ends, then it is     *)
(* being terminated (SIGTERM, then SIGKILL).  own: the caller set its own  *)
(* deadline.                                                               *)
(***************************************************************************)
NoCommand == [class |-> "none", binary |-> "none", own |-> FALSE, dying |-> FALSE]
Command == [class: Classes, binary: Binaries, own: BOOLEAN, dying: BOOLEAN] \cup {NoCommand}

(***************************************************************************)
(* ended: the run's context has ended; late: because of its deadline.      *)
(* killed is RunScope.killed; hung is history: the deadlines the run has   *)
(* waited out, per binary.                                                 *)
(***************************************************************************)
NoPlugin == "none"
Slot == [plugin: Plugins \cup {NoPlugin}, state: {"free", "running", "returned"},
         ended: BOOLEAN, late: BOOLEAN, killed: SUBSET Binaries, cmd: Command,
         hung: [Binaries -> Nat]]
FreeSlot == [plugin |-> NoPlugin, state |-> "free", ended |-> FALSE, late |-> FALSE,
             killed |-> {}, cmd |-> NoCommand, hung |-> [b \in Binaries |-> 0]]

Reached == PluginOrder[at]

Init ==
  /\ pc = "cycle" /\ at = 1 /\ cur = NoSlot
  /\ slots = [s \in Slots |-> FreeSlot]
  /\ flight = [p \in Plugins |-> NoSlot]
  /\ shutdown = FALSE /\ polled = FALSE
  /\ verdict = [p \in Plugins |-> "none"]
  /\ exit = "none"
  /\ daemon \in BOOLEAN
-----------------------------------------------------------------------------
(* The cycle loop. *)

\* The loop goes on to the next plugin with a verdict on this one.
Report(v) ==
  /\ verdict' = [verdict EXCEPT ![Reached] = v]
  /\ at' = at + 1
  /\ pc' = "cycle" /\ cur' = NoSlot

\* Mutant: a plugin once abandoned is never eligible again.
StillInFlight_Forever(p) == flight[p] # NoSlot

\* The abandoned run of p has not closed its done channel.
StillInFlight(p) == flight[p] # NoSlot /\ slots[flight[p]].state # "returned"

\* runCycle does not get as far as watchPlugin: the level is too low, the plugin
\* is cooling down or suppressed, or the target is met (module CleanupCycle).
HoldBack ==
  /\ pc = "cycle" /\ at <= Len(PluginOrder)
  /\ at' = at + 1
  /\ UNCHANGED <<pc, cur, slots, flight, shutdown, polled, verdict, exit, daemon>>

\* watchPlugin, early return.
SkipWedged ==
  /\ pc = "cycle" /\ at <= Len(PluginOrder)
  /\ StillInFlight(Reached)
  /\ Report("plugin_wedged")
  /\ UNCHANGED <<slots, flight, shutdown, polled, exit, daemon>>

(***************************************************************************)
(* watchPlugin starts the run in a goroutine of its own, under a context   *)
(* that ends with the daemon's.  The entry of a run that has returned is   *)
(* deleted first.                                                          *)
(***************************************************************************)
StartPlugin(s) ==
  LET collected == IF flight[Reached] = NoSlot THEN slots
                   ELSE [slots EXCEPT ![flight[Reached]] = FreeSlot]
  IN  /\ pc = "cycle" /\ at <= Len(PluginOrder)
      /\ ~ StillInFlight(Reached)
      /\ collected[s].state = "free"
      /\ slots' = [collected EXCEPT ![s] =
                     [FreeSlot EXCEPT !.plugin = Reached, !.state = "running", !.ended = shutdown]]
      /\ flight' = [flight EXCEPT ![Reached] = NoSlot]
      /\ pc' = "watch" /\ cur' = s
      /\ UNCHANGED <<at, shutdown, polled, verdict, exit, daemon>>

\* The first select: the run returns, or its context ends.
RunReturnsInTime ==
  /\ pc = "watch" /\ slots[cur].state = "returned"
  /\ Report("ran")
  /\ slots' = [slots EXCEPT ![cur] = FreeSlot]
  /\ UNCHANGED <<flight, shutdown, polled, exit, daemon>>

ContextEnds ==
  /\ pc = "watch" /\ slots[cur].ended
  /\ pc' = "grace"
  /\ UNCHANGED <<at, cur, slots, flight, shutdown, polled, verdict, exit, daemon>>

\* Mutant: a run ended by a shutdown is reported as past its deadline.
GraceVerdict_Blames == "deadline_cancelled"

\* A result that comes within the grace period is kept.  The plugin is called
\* cancelled only if no shutdown is under way.
GraceVerdict == IF shutdown THEN "ran" ELSE "deadline_cancelled"

\* The second select: the run returns, or the grace period is over.
RunReturnsInGrace ==
  /\ pc = "grace" /\ slots[cur].state = "returned"
  /\ Report(GraceVerdict)
  /\ slots' = [slots EXCEPT ![cur] = FreeSlot]
  /\ UNCHANGED <<flight, shutdown, polled, exit, daemon>>

\* Mutant: the loop waits for the run however long it takes.
GraceExpires_Never == FALSE /\ UNCHANGED vars

\* Mutant: the abandoned run is not entered in inFlight.
GraceExpires_Unrecorded ==
  /\ pc = "grace"
  /\ Report("deadline_abandoned")
  /\ UNCHANGED <<slots, flight, shutdown, polled, exit, daemon>>

GraceExpires ==
  /\ pc = "grace"
  /\ Report("deadline_abandoned")
  /\ flight' = [flight EXCEPT ![Reached] = cur]
  /\ UNCHANGED <<slots, shutdown, polled, exit, daemon>>

\* The process is gone, and its goroutines with it.
Exit(status) ==
  /\ pc' = "exited" /\ exit' = status
  /\ slots' = [s \in Slots |-> FreeSlot]
  /\ flight' = [p \in Plugins |-> NoSlot]

\* runCycle has visited every plugin, whether or not a shutdown came meanwhile.
\* The daemon arms the poll timer; a one-shot run ends, with an error if its
\* report cannot be written.
EndCycle ==
  /\ pc = "cycle" /\ at > Len(PluginOrder)
  /\ \/ daemon /\ pc' = "wait" /\ UNCHANGED <<slots, flight, exit>>
     \/ ~ daemon /\ \E status \in {"0", "1"} : Exit(status)
  /\ polled' = FALSE
  /\ UNCHANGED <<at, cur, shutdown, verdict, daemon>>

NextCycle ==
  /\ pc = "wait" /\ polled
  /\ pc' = "cycle" /\ at' = 1 /\ polled' = FALSE
  /\ verdict' = [p \in Plugins |-> "none"]
  /\ UNCHANGED <<cur, slots, flight, shutdown, exit, daemon>>

\* Mutant: the loop does not look at its context between cycles.
LeaveLoop_Ignored == FALSE /\ UNCHANGED vars

\* run returns context.Canceled, which main does not treat as an error.
LeaveLoop ==
  /\ pc = "wait" /\ shutdown
  /\ Exit("0")
  /\ UNCHANGED <<at, cur, shutdown, polled, verdict, daemon>>
-----------------------------------------------------------------------------
(* The runs and their commands. *)

Live(s) == slots[s].state = "running" /\ pc # "exited"

RunReturns(s) ==
  /\ Live(s) /\ slots[s].cmd = NoCommand
  /\ slots' = [slots EXCEPT ![s].state = "returned"]
  /\ UNCHANGED <<pc, at, cur, flight, shutdown, polled, verdict, exit, daemon>>

\* Mutant: a program that hung is tried again.
Refused_Never(s, class, b) == class # "restart" /\ slots[s].ended

(***************************************************************************)
(* newCommand: nothing but a VM start is started once the context has      *)
(* ended, and a program that was killed at a deadline earlier in this run  *)
(* is refused, offline commands and VM starts excepted.                    *)
(***************************************************************************)
Refused(s, class, b) ==
  \/ class # "restart" /\ slots[s].ended
  \/ class = "probe" /\ b \in slots[s].killed

StartCommand(s, class, b, own) ==
  /\ Live(s) /\ slots[s].cmd = NoCommand
  /\ ~ Refused(s, class, b)
  /\ class = "restart" => ~ own
  /\ slots' = [slots EXCEPT ![s].cmd = [class |-> class, binary |-> b, own |-> own, dying |-> FALSE]]
  /\ UNCHANGED <<pc, at, cur, flight, shutdown, polled, verdict, exit, daemon>>

\* recordKill: only a deadline that the caller did not choose is recorded.
Killed(r, recorded) ==
  [r EXCEPT !.cmd = [@ EXCEPT !.dying = TRUE],
            !.killed = IF recorded THEN @ \cup {r.cmd.binary} ELSE @,
            !.hung = [b \in Binaries |->
                        IF recorded /\ r.cmd.class = "probe" /\ b = r.cmd.binary
                        THEN r.hung[b] + 1 ELSE r.hung[b]]]

Running(s) == Live(s) /\ slots[s].cmd # NoCommand /\ ~ slots[s].cmd.dying

\* Mutant: only the deadlines that callers set are applied.
CommandDeadline_OwnOnly(s) ==
  /\ Running(s) /\ slots[s].cmd.own
  /\ slots' = [slots EXCEPT ![s] = Killed(slots[s], FALSE)]
  /\ UNCHANGED <<pc, at, cur, flight, shutdown, polled, verdict, exit, daemon>>

\* The command's own timer.
CommandDeadline(s) ==
  /\ Running(s)
  /\ slots' = [slots EXCEPT ![s] = Killed(slots[s], ~ slots[s].cmd.own)]
  /\ UNCHANGED <<pc, at, cur, flight, shutdown, polled, verdict, exit, daemon>>

\* The run's context ends under a command.  A VM start is detached from it.
CommandCancelled(s) ==
  /\ Running(s) /\ slots[s].ended
  /\ slots[s].cmd.class # "restart"
  /\ slots' = [slots EXCEPT ![s] = Killed(slots[s], slots[s].late /\ ~ slots[s].cmd.own)]
  /\ UNCHANGED <<pc, at, cur, flight, shutdown, polled, verdict, exit, daemon>>

CommandExits(s) ==
  /\ Live(s) /\ slots[s].cmd # NoCommand
  /\ slots' = [slots EXCEPT ![s].cmd = NoCommand]
  /\ UNCHANGED <<pc, at, cur, flight, shutdown, polled, verdict, exit, daemon>>
-----------------------------------------------------------------------------
(* Timers and signals. *)

PluginDeadline ==
  /\ pc = "watch" /\ ~ slots[cur].ended
  /\ slots' = [slots EXCEPT ![cur].ended = TRUE, ![cur].late = TRUE]
  /\ UNCHANGED <<pc, at, cur, flight, shutdown, polled, verdict, exit, daemon>>

\* A select that already has a cancelled context to choose does not wait for
\* the timer.
PollElapses ==
  /\ pc = "wait" /\ ~ shutdown /\ ~ polled
  /\ polled' = TRUE
  /\ UNCHANGED <<pc, at, cur, slots, flight, shutdown, verdict, exit, daemon>>

\* SIGINT or SIGTERM: every run's context is a child of the daemon's.
Shutdown ==
  /\ ~ shutdown /\ pc # "exited"
  /\ shutdown' = TRUE
  /\ slots' = [s \in Slots |-> IF slots[s].state = "free" THEN slots[s]
                               ELSE [slots[s] EXCEPT !.ended = TRUE]]
  /\ UNCHANGED <<pc, at, cur, flight, polled, verdict, exit, daemon>>

\* The process has ended.
Ended == pc = "exited" /\ UNCHANGED vars

Loop ==
  \/ HoldBack
  \/ SkipWedged
  \/ \E s \in Slots : StartPlugin(s)
  \/ RunReturnsInTime
  \/ ContextEnds
  \/ RunReturnsInGrace
  \/ GraceExpires
  \/ EndCycle
  \/ NextCycle
  \/ LeaveLoop

Next ==
  \/ Loop
  \/ \E s \in Slots : RunReturns(s)
  \/ \E s \in Slots, class \in Classes, b \in Binaries, own \in BOOLEAN :
       StartCommand(s, class, b, own)
  \/ \E s \in Slots : CommandDeadline(s)
  \/ \E s \in Slots : CommandCancelled(s)
  \/ \E s \in Slots : CommandExits(s)
  \/ PluginDeadline
  \/ PollElapses
  \/ Shutdown
  \/ Ended

Spec == Init /\ [][Next]_vars

(***************************************************************************)
(* The loop keeps running and timers fire; a child that was sent SIGKILL   *)
(* dies.  Nothing says that a plugin, or a command left alone, ever ends.  *)
(***************************************************************************)
Fairness ==
  /\ WF_vars(Loop)
  /\ WF_vars(PluginDeadline)
  /\ WF_vars(PollElapses)
  /\ \A s \in Slots :
       /\ WF_vars(CommandDeadline(s))
       /\ WF_vars(slots[s].cmd.dying /\ CommandExits(s))

FairSpec == Spec /\ Fairness
-----------------------------------------------------------------------------
(* Properties. *)

\* The values of the loop's variables, of the goroutines and of inFlight.
TypeOK ==
  /\ pc \in {"cycle", "watch", "grace", "wait", "exited"}
  /\ at \in 1 .. Len(PluginOrder) + 1
  /\ pc \in {"watch", "grace"} => at <= Len(PluginOrder)
  /\ cur \in Slots \cup {NoSlot}
  /\ slots \in [Slots -> Slot]
  /\ flight \in [Plugins -> Slots \cup {NoSlot}]
  /\ shutdown \in BOOLEAN /\ polled \in BOOLEAN
  /\ verdict \in [Plugins -> {"none", "ran", "deadline_cancelled", "deadline_abandoned", "plugin_wedged"}]
  /\ exit \in {"none", "0", "1"} /\ daemon \in BOOLEAN

\* "The same plugin never runs twice at once" (watchdog.go): two goroutines that
\* have not returned belong to different plugins, however long one was abandoned.
NoOverlap ==
  \A s, t \in Slots :
    slots[s].state = "running" /\ slots[t].state = "running" /\ slots[s].plugin = slots[t].plugin
      => s = t

\* A program that hangs costs a run one deadline at most (RunScope.killed): no
\* probe waits out a second deadline on the same binary.
HungOnce == \A s \in Slots, b \in Binaries : slots[s].hung[b] <= 1

(***************************************************************************)
(* The inductive invariant behind NoOverlap and HungOnce.                  *)
(***************************************************************************)
Watching == pc \in {"watch", "grace"}

\* Every goroutine is accounted for: the loop waits for it, or inFlight has it.
SlotInv ==
  /\ \A s \in Slots :
       slots[s].state # "free" =>
         /\ slots[s].plugin \in Plugins
         /\ flight[slots[s].plugin] = s \/ (Watching /\ cur = s)
  /\ \A p \in Plugins :
       flight[p] # NoSlot => slots[flight[p]].plugin = p /\ slots[flight[p]].state # "free"
  /\ Watching =>
       /\ cur \in Slots
       /\ slots[cur].plugin = Reached /\ slots[cur].state # "free"
       /\ flight[Reached] = NoSlot

\* A program that hung is marked, and no probe of a marked program is running.
ScopeInv ==
  \A s \in Slots, b \in Binaries :
    /\ slots[s].hung[b] \in {0, 1}
    /\ slots[s].hung[b] = 1 => b \in slots[s].killed
    /\ slots[s].cmd.class = "probe" /\ slots[s].cmd.binary = b /\ ~ slots[s].cmd.dying
         => b \notin slots[s].killed

\* Every goroutine that has not been collected is the one the loop waits for or
\* an entry of inFlight, and no program is started again after it hung.
WatchInv == TypeOK /\ SlotInv /\ ScopeInv

\* What the loop knows of a run whose context has ended: its deadline passed or
\* a shutdown is under way, and the grace period begins only with that.
LateInv ==
  /\ \A s \in Slots : slots[s].ended => slots[s].late \/ shutdown
  /\ pc = "grace" => slots[cur].ended

\* The report blames a deadline only when it passed (watchPlugin's second
\* select): a cancelled verdict is given to a run that was late.
CancelledWasLate ==
  [][\A p \in Plugins :
       verdict[p] # "deadline_cancelled" /\ verdict'[p] = "deadline_cancelled"
         => slots[cur].late]_vars

\* A run keeps the processor of the cycle only so long (watchPlugin): every
\* cycle comes to its end although plugins may never return.
CyclesEnd == []<>(pc \in {"wait", "exited"})

\* An abandoned plugin is eligible again (watchPlugin's first select): once its
\* run has returned, the entry in inFlight goes away, or no cycle ever gets as
\* far as this plugin again.
EligibleAgain ==
  \A p \in Plugins :
    (flight[p] # NoSlot /\ slots[flight[p]].state = "returned")
      ~> (flight[p] = NoSlot \/ [](verdict[p] = "none"))

\* A shutdown signal ends the process although plugins may never return (run).
ShutdownEnds == shutdown ~> pc = "exited"

\* Every command comes to an end (newCommand): one that hangs is killed at a
\* deadline, even when the plugin that started it was abandoned.
CommandsEnd == \A s \in Slots : (slots[s].cmd # NoCommand) ~> (slots[s].cmd = NoCommand)
=============================================================================
