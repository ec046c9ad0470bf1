-------------------------- MODULE Watchdog_proof --------------------------
(***************************************************************************)
(* Proofs about Watchdog: for any plugins, programs and number of          *)
(* goroutines, a plugin never runs twice at once, a program that hangs     *)
(* costs a run one deadline at most, and no run that kept its deadline is  *)
(* reported as cancelled.                                                  *)
(***************************************************************************)
EXTENDS Watchdog, TLAPS

\* The plugin the loop has reached is one of the plugins.
LEMMA ReachedInPlugins ==
  ASSUME TypeOK, at <= Len(PluginOrder)
  PROVE  Reached \in Plugins
BY WatchdogAssumption DEF TypeOK, Reached

\* A free slot has a slot's type.
LEMMA FreeSlotType == FreeSlot \in Slot
BY DEF FreeSlot, Slot, Command, NoCommand, NoPlugin

\* Initially nothing runs and nothing hung.
LEMMA WatchInit == Init => WatchInv
<1> SUFFICES ASSUME Init PROVE WatchInv
    OBVIOUS
<1>1. TypeOK
  <2>1. slots \in [Slots -> Slot] /\ flight \in [Plugins -> Slots \cup {NoSlot}]
      BY FreeSlotType DEF Init
  <2>2. verdict \in [Plugins -> {"none", "ran", "deadline_cancelled", "deadline_abandoned", "plugin_wedged"}]
      BY DEF Init
  <2>3. at \in 1 .. Len(PluginOrder) + 1
      BY WatchdogAssumption DEF Init
  <2> QED
      BY <2>1, <2>2, <2>3 DEF Init, TypeOK
<1>2. SlotInv
    BY DEF Init, SlotInv, FreeSlot, Watching
<1>3. ScopeInv
    BY DEF Init, ScopeInv, FreeSlot, NoCommand
<1> QED
    BY <1>1, <1>2, <1>3 DEF WatchInv

\* A step that leaves the goroutines alone keeps what is said of their commands.
LEMMA ScopeUnchanged ==
  ASSUME ScopeInv, UNCHANGED slots
  PROVE  ScopeInv'
BY DEF ScopeInv

\* A step that only frees slots keeps what is said of their commands.
LEMMA ScopeFreed ==
  ASSUME ScopeInv,
         \A s \in Slots : \/ slots'[s] = slots[s] \/ slots'[s] = FreeSlot
                          \/ slots'[s].hung = FreeSlot.hung /\ slots'[s].cmd = NoCommand
  PROVE  ScopeInv'
BY DEF ScopeInv, FreeSlot, NoCommand

\* A step of one goroutine's commands, or its return, keeps every goroutine
\* accounted for.
LEMMA SlotKept ==
  ASSUME TypeOK, SlotInv, UNCHANGED <<pc, at, cur, flight>>,
         \A s \in Slots : /\ slots'[s].plugin = slots[s].plugin
                          /\ slots'[s].state = "free" <=> slots[s].state = "free"
  PROVE  SlotInv'
BY DEF SlotInv, TypeOK, Watching, Reached

\* When the loop has dealt with the goroutine it waited for, the others are in
\* inFlight.
LEMMA Collected ==
  ASSUME TypeOK, SlotInv, Watching, UNCHANGED flight,
         pc' = "cycle", slots' = [slots EXCEPT ![cur] = FreeSlot]
  PROVE  SlotInv'
<1>1. cur \in Slots /\ flight[Reached] = NoSlot /\ slots[cur].plugin = Reached
    BY DEF SlotInv
<1>2. ASSUME NEW p \in Plugins, flight[p] # NoSlot PROVE flight[p] \in Slots /\ flight[p] # cur
    BY <1>1, <1>2 DEF SlotInv, TypeOK
<1> QED
    BY <1>1, <1>2 DEF SlotInv, TypeOK, Watching, FreeSlot

\* Every step keeps every goroutine accounted for.
LEMMA WatchStep == WatchInv /\ [Next]_vars => WatchInv'
<1> SUFFICES ASSUME WatchInv, [Next]_vars PROVE WatchInv'
    OBVIOUS
<1> USE WatchdogAssumption
<1>0. TypeOK /\ SlotInv /\ ScopeInv
    BY DEF WatchInv
<1>L. Len(PluginOrder) \in Nat /\ at \in Nat
    BY <1>0 DEF TypeOK
<1>1. CASE HoldBack
  <2>1. TypeOK'
      BY <1>0, <1>1, <1>L DEF TypeOK, HoldBack
  <2>2. SlotInv'
      BY <1>0, <1>1 DEF SlotInv, HoldBack, Watching
  <2> QED
      BY <1>0, <1>1, <2>1, <2>2, ScopeUnchanged DEF HoldBack, WatchInv
<1>2. CASE SkipWedged
  <2>1. TypeOK'
      BY <1>0, <1>2, <1>L, ReachedInPlugins DEF TypeOK, SkipWedged, Report
  <2>2. SlotInv'
      BY <1>0, <1>2 DEF SlotInv, SkipWedged, Report, Watching
  <2> QED
      BY <1>0, <1>2, <2>1, <2>2, ScopeUnchanged DEF SkipWedged, WatchInv
<1>3. ASSUME NEW s \in Slots, StartPlugin(s) PROVE WatchInv'
  <2> DEFINE old == flight[Reached]
             collected == IF old = NoSlot THEN slots ELSE [slots EXCEPT ![old] = FreeSlot]
             new == [FreeSlot EXCEPT !.plugin = Reached, !.state = "running", !.ended = shutdown]
  <2>1. /\ pc = "cycle" /\ at <= Len(PluginOrder) /\ collected[s].state = "free"
        /\ slots' = [collected EXCEPT ![s] = new]
        /\ flight' = [flight EXCEPT ![Reached] = NoSlot]
        /\ pc' = "watch" /\ cur' = s /\ UNCHANGED <<at, shutdown, polled, verdict, exit, daemon>>
      BY <1>3 DEF StartPlugin
  <2>2. Reached \in Plugins /\ Reached' = Reached
      BY <1>0, <2>1, ReachedInPlugins DEF Reached
  <2>3. new \in Slot /\ new.plugin = Reached /\ new.state = "running"
        /\ new.hung = FreeSlot.hung /\ new.killed = {} /\ new.cmd = NoCommand
      BY <1>0, <2>2, FreeSlotType DEF FreeSlot, Slot, TypeOK
  <2>4. collected \in [Slots -> Slot]
      BY <1>0, <2>2, FreeSlotType DEF TypeOK
  <2>5. \A t \in Slots : collected[t] = slots[t] \/ (t = old /\ collected[t] = FreeSlot)
      BY <1>0 DEF TypeOK
  <2> HIDE DEF new
  <2>6. TypeOK'
      BY <1>0, <2>1, <2>2, <2>3, <2>4 DEF TypeOK
  <2>7. SlotInv'
    <3>1. old # NoSlot => collected[old].state = "free"
        BY <1>0, <2>2 DEF TypeOK, FreeSlot
    <3>2. ASSUME NEW t \in Slots, slots'[t].state # "free"
          PROVE  /\ slots'[t].plugin \in Plugins
                 /\ flight'[slots'[t].plugin] = t \/ (Watching' /\ cur' = t)
      <4>1. CASE t = s
          BY <2>1, <2>2, <2>3, <2>4, <4>1 DEF Watching
      <4>2. CASE t # s
        <5>1. slots'[t] = collected[t]
            BY <2>1, <2>4, <4>2
        <5>2. collected[t] = slots[t] /\ t # old
            BY <1>0, <2>2, <2>5, <3>1, <3>2, <5>1 DEF FreeSlot, TypeOK
        <5>3. slots[t].plugin \in Plugins /\ flight[slots[t].plugin] = t
            BY <1>0, <2>1, <3>2, <5>1, <5>2 DEF SlotInv, Watching
        <5> QED
            BY <1>0, <2>1, <2>2, <5>1, <5>2, <5>3 DEF TypeOK
      <4> QED
          BY <4>1, <4>2
    <3>3. ASSUME NEW p \in Plugins, flight'[p] # NoSlot
          PROVE  slots'[flight'[p]].plugin = p /\ slots'[flight'[p]].state # "free"
      <4>1. p # Reached /\ flight'[p] = flight[p] /\ flight[p] \in Slots
          BY <1>0, <2>1, <2>2, <3>3 DEF TypeOK
      <4>2. slots[flight[p]].plugin = p /\ slots[flight[p]].state # "free"
          BY <1>0, <4>1, <3>3 DEF SlotInv
      <4>3. flight[p] # old
          BY <1>0, <2>2, <4>1, <4>2, <3>3 DEF SlotInv
      <4>4. collected[flight[p]] = slots[flight[p]]
          BY <2>5, <4>1, <4>3
      <4>5. flight[p] # s
          BY <2>1, <4>2, <4>4
      <4> QED
          BY <2>1, <2>4, <4>1, <4>2, <4>4, <4>5
    <3>4. slots'[s] = new
        BY <2>1, <2>4
    <3> QED
        BY <1>0, <2>1, <2>2, <2>3, <3>2, <3>3, <3>4 DEF SlotInv, TypeOK
  <2>8. ScopeInv'
    <3>1. slots'[s] = new /\ \A t \in Slots \ {s} : slots'[t] = slots[t] \/ slots'[t] = FreeSlot
        BY <2>1, <2>4, <2>5
    <3>2. \A t \in Slots : \/ slots'[t] = slots[t] \/ slots'[t] = FreeSlot
                           \/ slots'[t].hung = FreeSlot.hung /\ slots'[t].cmd = NoCommand
        BY <2>3, <3>1
    <3> QED
        BY <1>0, <3>2, ScopeFreed
  <2> QED
      BY <2>6, <2>7, <2>8 DEF WatchInv
<1>4. CASE RunReturnsInTime
  <2>1. Watching /\ cur \in Slots /\ at <= Len(PluginOrder) /\ Reached \in Plugins
      BY <1>0, <1>4, ReachedInPlugins DEF TypeOK, SlotInv, Watching, RunReturnsInTime
  <2>2. TypeOK'
      BY <1>0, <1>4, <1>L, <2>1, FreeSlotType DEF TypeOK, RunReturnsInTime, Report, GraceVerdict
  <2>3. SlotInv'
      BY <1>0, <1>4, <2>1, Collected DEF RunReturnsInTime, Report
  <2>4. \A s \in Slots : slots'[s] = slots[s] \/ slots'[s] = FreeSlot
      BY <1>0, <1>4, <2>1 DEF RunReturnsInTime, TypeOK
  <2> QED
      BY <1>0, <2>2, <2>3, <2>4, ScopeFreed DEF WatchInv
<1>5. CASE ContextEnds
  <2>1. TypeOK'
      BY <1>0, <1>5 DEF TypeOK, ContextEnds
  <2>2. SlotInv'
      BY <1>0, <1>5 DEF SlotInv, TypeOK, ContextEnds, Watching, Reached
  <2> QED
      BY <1>0, <1>5, <2>1, <2>2, ScopeUnchanged DEF ContextEnds, WatchInv
<1>6. CASE RunReturnsInGrace
  <2>1. Watching /\ cur \in Slots /\ at <= Len(PluginOrder) /\ Reached \in Plugins
      BY <1>0, <1>6, ReachedInPlugins DEF TypeOK, SlotInv, Watching, RunReturnsInGrace
  <2>2. TypeOK'
      BY <1>0, <1>6, <1>L, <2>1, FreeSlotType DEF TypeOK, RunReturnsInGrace, Report, GraceVerdict
  <2>3. SlotInv'
      BY <1>0, <1>6, <2>1, Collected DEF RunReturnsInGrace, Report
  <2>4. \A s \in Slots : slots'[s] = slots[s] \/ slots'[s] = FreeSlot
      BY <1>0, <1>6, <2>1 DEF RunReturnsInGrace, TypeOK
  <2> QED
      BY <1>0, <2>2, <2>3, <2>4, ScopeFreed DEF WatchInv
<1>7. CASE GraceExpires
  <2>1. cur \in Slots /\ at <= Len(PluginOrder) /\ Reached \in Plugins /\ Watching
      BY <1>0, <1>7, ReachedInPlugins DEF TypeOK, SlotInv, Watching, GraceExpires
  <2>2. TypeOK'
      BY <1>0, <1>7, <1>L, <2>1 DEF TypeOK, GraceExpires, Report
  <2>3. SlotInv'
      BY <1>0, <1>7, <2>1 DEF SlotInv, TypeOK, GraceExpires, Report, Watching
  <2> QED
      BY <1>0, <1>7, <2>2, <2>3, ScopeUnchanged DEF GraceExpires, WatchInv
<1>8. ASSUME NEW status \in {"0", "1"}, Exit(status),
             UNCHANGED <<at, cur, shutdown, verdict, daemon>>,
             polled' \in BOOLEAN
      PROVE  WatchInv'
  <2>1. TypeOK'
      BY <1>0, <1>8, FreeSlotType DEF TypeOK, Exit
  <2>2. SlotInv'
      BY <1>8 DEF SlotInv, Exit, FreeSlot, Watching
  <2>3. ScopeInv'
      BY <1>8 DEF ScopeInv, Exit, FreeSlot, NoCommand
  <2> QED
      BY <2>1, <2>2, <2>3 DEF WatchInv
<1>9. CASE EndCycle
  <2>1. CASE daemon /\ pc' = "wait" /\ UNCHANGED <<slots, flight, exit>>
    <3>1. TypeOK'
        BY <1>0, <1>9, <2>1 DEF TypeOK, EndCycle
    <3>2. SlotInv'
        BY <1>0, <1>9, <2>1 DEF SlotInv, EndCycle, Watching
    <3> QED
        BY <1>0, <2>1, <3>1, <3>2, ScopeUnchanged DEF WatchInv
  <2>2. CASE ~ daemon /\ \E status \in {"0", "1"} : Exit(status)
      BY <1>8, <1>9, <2>2 DEF EndCycle
  <2> QED
      BY <1>9, <2>1, <2>2 DEF EndCycle
<1>10. CASE NextCycle
  <2>1. TypeOK'
    <3>1. verdict' \in [Plugins -> {"none", "ran", "deadline_cancelled", "deadline_abandoned",
                                    "plugin_wedged"}]
        BY <1>10 DEF NextCycle
    <3>2. at' \in 1 .. Len(PluginOrder) + 1
        BY <1>10, <1>L DEF NextCycle
    <3> QED
        BY <1>0, <1>10, <3>1, <3>2 DEF TypeOK, NextCycle
  <2>2. SlotInv'
      BY <1>0, <1>10 DEF SlotInv, NextCycle, Watching
  <2> QED
      BY <1>0, <1>10, <2>1, <2>2, ScopeUnchanged DEF NextCycle, WatchInv
<1>11. CASE LeaveLoop
    BY <1>0, <1>8, <1>11 DEF LeaveLoop, TypeOK
<1>12. ASSUME NEW s \in Slots, NEW r \in Slot, slots' = [slots EXCEPT ![s] = r],
              slots[s].state # "free", r.state # "free", r.plugin = slots[s].plugin,
              UNCHANGED <<pc, at, cur, flight, shutdown, polled, verdict, exit, daemon>>,
              \A b \in Binaries :
                /\ r.hung[b] \in {0, 1}
                /\ r.hung[b] = 1 => b \in r.killed
                /\ r.cmd.class = "probe" /\ r.cmd.binary = b /\ ~ r.cmd.dying => b \notin r.killed
       PROVE  WatchInv'
  <2>1. slots'[s] = r /\ \A t \in Slots \ {s} : slots'[t] = slots[t]
      BY <1>0, <1>12 DEF TypeOK
  <2>2. TypeOK'
      BY <1>0, <1>12 DEF TypeOK
  <2>3. SlotInv'
      BY <1>0, <1>12, <2>1, SlotKept
  <2>4. ScopeInv'
      BY <1>0, <1>12, <2>1 DEF ScopeInv
  <2> QED
      BY <2>2, <2>3, <2>4 DEF WatchInv
<1>13. ASSUME NEW s \in Slots, RunReturns(s) PROVE WatchInv'
  <2> DEFINE r == [slots[s] EXCEPT !.state = "returned"]
  <2>1. slots[s] \in Slot
      BY <1>0 DEF TypeOK
  <2>2. r \in Slot /\ r.state # "free" /\ r.plugin = slots[s].plugin /\ r.cmd = slots[s].cmd
        /\ r.hung = slots[s].hung /\ r.killed = slots[s].killed
      BY <2>1 DEF Slot
  <2>3. slots' = [slots EXCEPT ![s] = r] /\ slots[s].state # "free"
      BY <1>13 DEF RunReturns, Live
  <2> HIDE DEF r
  <2>4. \A b1 \in Binaries :
          /\ r.hung[b1] \in {0, 1}
          /\ r.hung[b1] = 1 => b1 \in r.killed
          /\ r.cmd.class = "probe" /\ r.cmd.binary = b1 /\ ~ r.cmd.dying => b1 \notin r.killed
      BY <1>0, <2>2 DEF ScopeInv
  <2>5. UNCHANGED <<pc, at, cur, flight, shutdown, polled, verdict, exit, daemon>>
      BY <1>13 DEF RunReturns
  <2> QED
      BY <1>12, <2>2, <2>3, <2>4, <2>5
<1>14. ASSUME NEW s \in Slots, NEW class \in Classes, NEW b \in Binaries, NEW own \in BOOLEAN,
              StartCommand(s, class, b, own)
       PROVE  WatchInv'
  <2> DEFINE c == [class |-> class, binary |-> b, own |-> own, dying |-> FALSE]
             r == [slots[s] EXCEPT !.cmd = c]
  <2>1. slots[s] \in Slot
      BY <1>0 DEF TypeOK
  <2>2. c \in Command /\ c.class = class /\ c.binary = b
      BY DEF Command
  <2>3. r \in Slot /\ r.state = slots[s].state /\ r.plugin = slots[s].plugin /\ r.cmd = c
        /\ r.hung = slots[s].hung /\ r.killed = slots[s].killed
      BY <2>1, <2>2 DEF Slot
  <2>4. slots' = [slots EXCEPT ![s] = r] /\ slots[s].state # "free"
      BY <1>14 DEF StartCommand, Live
  <2>5. class = "probe" => b \notin slots[s].killed
      BY <1>14 DEF StartCommand, Refused
  <2> HIDE DEF r, c
  <2>6. \A b1 \in Binaries :
          /\ r.hung[b1] \in {0, 1}
          /\ r.hung[b1] = 1 => b1 \in r.killed
          /\ r.cmd.class = "probe" /\ r.cmd.binary = b1 /\ ~ r.cmd.dying => b1 \notin r.killed
      BY <1>0, <2>2, <2>3, <2>5 DEF ScopeInv
  <2>7. UNCHANGED <<pc, at, cur, flight, shutdown, polled, verdict, exit, daemon>>
      BY <1>14 DEF StartCommand
  <2> QED
      BY <1>12, <2>3, <2>4, <2>6, <2>7
<1>15. ASSUME NEW s \in Slots, NEW recorded \in BOOLEAN, Running(s),
              slots' = [slots EXCEPT ![s] = Killed(slots[s], recorded)],
              UNCHANGED <<pc, at, cur, flight, shutdown, polled, verdict, exit, daemon>>
       PROVE  WatchInv'
  <2> DEFINE c == slots[s].cmd
             r == Killed(slots[s], recorded)
             hung == [b \in Binaries |->
                        IF recorded /\ c.class = "probe" /\ b = c.binary
                        THEN slots[s].hung[b] + 1 ELSE slots[s].hung[b]]
             killed == IF recorded THEN slots[s].killed \cup {c.binary} ELSE slots[s].killed
  <2>1. slots[s] \in Slot
      BY <1>0 DEF TypeOK
  <2>2. c \in Command /\ c # NoCommand /\ ~ c.dying /\ slots[s].state = "running"
      BY <1>15, <2>1 DEF Running, Live, Slot
  <2>3. c \in [class: Classes, binary: Binaries, own: BOOLEAN, dying: BOOLEAN]
      BY <2>2 DEF Command
  <2>4. c.binary \in Binaries /\ [c EXCEPT !.dying = TRUE] \in Command
        /\ [c EXCEPT !.dying = TRUE].dying = TRUE
      BY <2>3 DEF Command
  <2>5. hung \in [Binaries -> Nat] /\ killed \in SUBSET Binaries
      BY <2>1, <2>4 DEF Slot
  <2>6. r = [slots[s] EXCEPT !.cmd = [c EXCEPT !.dying = TRUE], !.killed = killed, !.hung = hung]
      BY DEF Killed
  <2>7. r \in Slot /\ r.state = "running" /\ r.plugin = slots[s].plugin /\ r.cmd.dying
        /\ r.hung = hung /\ r.killed = killed
      BY <2>1, <2>2, <2>4, <2>5, <2>6 DEF Slot
  <2>8. \A b \in Binaries : hung[b] \in {0, 1} /\ (hung[b] = 1 => b \in killed)
    <3>1. c.class = "probe" => slots[s].hung[c.binary] = 0
        BY <1>0, <2>2, <2>4 DEF ScopeInv
    <3>2. slots[s].hung \in [Binaries -> Nat]
        BY <2>1 DEF Slot
    <3> QED
        BY <1>0, <2>4, <3>1, <3>2 DEF ScopeInv
  <2> HIDE DEF r, hung, killed
  <2>9. \A b1 \in Binaries :
          /\ r.hung[b1] \in {0, 1}
          /\ r.hung[b1] = 1 => b1 \in r.killed
          /\ r.cmd.class = "probe" /\ r.cmd.binary = b1 /\ ~ r.cmd.dying => b1 \notin r.killed
      BY <2>7, <2>8
  <2>10. slots' = [slots EXCEPT ![s] = r] /\ slots[s].state # "free" /\ r.state # "free"
      BY <1>15, <2>2, <2>7 DEF r
  <2> QED
      BY <1>12, <1>15, <2>7, <2>9, <2>10
<1>16. ASSUME NEW s \in Slots, CommandDeadline(s) PROVE WatchInv'
    BY <1>15, <1>16 DEF CommandDeadline
<1>17. ASSUME NEW s \in Slots, CommandCancelled(s) PROVE WatchInv'
    BY <1>15, <1>17 DEF CommandCancelled
<1>18. ASSUME NEW s \in Slots, CommandExits(s) PROVE WatchInv'
  <2> DEFINE r == [slots[s] EXCEPT !.cmd = NoCommand]
  <2>1. slots[s] \in Slot /\ NoCommand \in Command /\ NoCommand.class # "probe"
      BY <1>0 DEF TypeOK, Command, NoCommand
  <2>2. r \in Slot /\ r.state = slots[s].state /\ r.plugin = slots[s].plugin /\ r.cmd = NoCommand
        /\ r.hung = slots[s].hung /\ r.killed = slots[s].killed
      BY <2>1 DEF Slot
  <2>3. slots' = [slots EXCEPT ![s] = r] /\ slots[s].state # "free"
      BY <1>18 DEF CommandExits, Live
  <2> HIDE DEF r
  <2>4. \A b1 \in Binaries :
          /\ r.hung[b1] \in {0, 1}
          /\ r.hung[b1] = 1 => b1 \in r.killed
          /\ r.cmd.class = "probe" /\ r.cmd.binary = b1 /\ ~ r.cmd.dying => b1 \notin r.killed
      BY <1>0, <2>1, <2>2 DEF ScopeInv
  <2>5. UNCHANGED <<pc, at, cur, flight, shutdown, polled, verdict, exit, daemon>>
      BY <1>18 DEF CommandExits
  <2> QED
      BY <1>12, <2>2, <2>3, <2>4, <2>5
<1>19. CASE PluginDeadline
  <2> DEFINE r == [slots[cur] EXCEPT !.ended = TRUE, !.late = TRUE]
  <2>1. cur \in Slots /\ slots[cur].state # "free" /\ slots[cur] \in Slot
      BY <1>0, <1>19 DEF PluginDeadline, SlotInv, Watching, TypeOK
  <2>2. r \in Slot /\ r.state = slots[cur].state /\ r.plugin = slots[cur].plugin
        /\ r.cmd = slots[cur].cmd /\ r.hung = slots[cur].hung /\ r.killed = slots[cur].killed
      BY <2>1 DEF Slot
  <2>3. slots' = [slots EXCEPT ![cur] = r]
      BY <1>0, <1>19, <2>1 DEF PluginDeadline, TypeOK
  <2> HIDE DEF r
  <2>4. \A b1 \in Binaries :
          /\ r.hung[b1] \in {0, 1}
          /\ r.hung[b1] = 1 => b1 \in r.killed
          /\ r.cmd.class = "probe" /\ r.cmd.binary = b1 /\ ~ r.cmd.dying => b1 \notin r.killed
      BY <1>0, <2>1, <2>2 DEF ScopeInv
  <2>5. UNCHANGED <<pc, at, cur, flight, shutdown, polled, verdict, exit, daemon>>
      BY <1>19 DEF PluginDeadline
  <2> QED
      BY <1>12, <2>1, <2>2, <2>3, <2>4, <2>5
<1>20. CASE PollElapses
  <2>1. TypeOK'
      BY <1>0, <1>20 DEF TypeOK, PollElapses
  <2>2. SlotInv'
      BY <1>0, <1>20 DEF SlotInv, PollElapses, Watching
  <2> QED
      BY <1>0, <1>20, <2>1, <2>2, ScopeUnchanged DEF PollElapses, WatchInv
<1>21. CASE Shutdown
  <2>1. \A s \in Slots : /\ slots'[s] \in Slot
                         /\ slots'[s].state = slots[s].state /\ slots'[s].plugin = slots[s].plugin
                         /\ slots'[s].cmd = slots[s].cmd /\ slots'[s].hung = slots[s].hung
                         /\ slots'[s].killed = slots[s].killed
    <3> SUFFICES ASSUME NEW s \in Slots
                 PROVE  /\ slots'[s] \in Slot
                        /\ slots'[s].state = slots[s].state /\ slots'[s].plugin = slots[s].plugin
                        /\ slots'[s].cmd = slots[s].cmd /\ slots'[s].hung = slots[s].hung
                        /\ slots'[s].killed = slots[s].killed
        OBVIOUS
    <3>1. slots[s] \in Slot
        BY <1>0 DEF TypeOK
    <3>2. slots'[s] = slots[s] \/ slots'[s] = [slots[s] EXCEPT !.ended = TRUE]
        BY <1>21 DEF Shutdown
    <3>3. CASE slots'[s] = slots[s]
        BY <3>1, <3>3
    <3>4. CASE slots'[s] = [slots[s] EXCEPT !.ended = TRUE]
        BY <3>1, <3>4 DEF Slot
    <3> QED
        BY <3>2, <3>3, <3>4
  <2>2. slots' \in [Slots -> Slot]
      BY <1>21, <2>1 DEF Shutdown
  <2>3. TypeOK'
      BY <1>0, <1>21, <2>2 DEF TypeOK, Shutdown
  <2>4. SlotInv'
      BY <1>0, <1>21, <2>1, SlotKept DEF Shutdown
  <2>5. ScopeInv'
      BY <1>0, <2>1 DEF ScopeInv
  <2> QED
      BY <2>3, <2>4, <2>5 DEF WatchInv
<1>22. CASE UNCHANGED vars
    BY <1>0, <1>22 DEF vars, WatchInv, TypeOK, SlotInv, ScopeInv, Watching, Reached
<1> QED
    BY <1>1, <1>2, <1>3, <1>4, <1>5, <1>6, <1>7, <1>9, <1>10, <1>11, <1>13, <1>14, <1>16, <1>17,
       <1>18, <1>19, <1>20, <1>21, <1>22
    DEF Next, Loop, Ended

\* In every reachable state of the daemon every goroutine is the one the loop
\* waits for or an entry of inFlight, and every program that hung is marked.
THEOREM WatchInvariant == Spec => []WatchInv
BY WatchInit, WatchStep, PTL DEF Spec

\* The same plugin never runs twice at once, for any number of plugins and
\* however long abandoned runs stay wedged (watchPlugin, inFlight).
THEOREM NeverTwice == Spec => []NoOverlap
<1>1. WatchInv => NoOverlap
  <2> SUFFICES ASSUME WatchInv, NEW s \in Slots, NEW t \in Slots,
                      slots[s].state = "running", slots[t].state = "running",
                      slots[s].plugin = slots[t].plugin
               PROVE  s = t
      BY DEF NoOverlap
  <2> QED
      BY WatchdogAssumption DEF WatchInv, SlotInv
<1> QED
    BY <1>1, WatchInvariant, PTL

\* A program that hangs costs a run one deadline at most (RunScope).
THEOREM HangsOnce == Spec => []HungOnce
<1>1. WatchInv => HungOnce
    BY DEF WatchInv, ScopeInv, HungOnce
<1> QED
    BY <1>1, WatchInvariant, PTL

-----------------------------------------------------------------------------
(* The verdicts. *)

\* A step that ends no context, moves no run to its grace period and lifts no
\* shutdown keeps what the loop knows of ended runs.
LEMMA LateKept ==
  ASSUME LateInv, shutdown' <=> shutdown,
         \A s \in Slots : slots'[s].ended => slots[s].ended /\ (slots[s].late => slots'[s].late),
         pc' = "grace" => pc = "grace" /\ cur' = cur /\ (slots[cur].ended => slots'[cur].ended)
  PROVE  LateInv'
BY DEF LateInv

\* Killing a command says nothing of the run's own context.
LEMMA KilledKeepsContext ==
  ASSUME NEW r \in Slot, NEW recorded
  PROVE  Killed(r, recorded).ended = r.ended /\ Killed(r, recorded).late = r.late
BY DEF Killed, Slot

LEMMA LateStep == WatchInv /\ LateInv /\ [Next]_vars => LateInv'
<1> SUFFICES ASSUME WatchInv, LateInv, [Next]_vars PROVE LateInv'
    OBVIOUS
<1>0. TypeOK /\ SlotInv
    BY DEF WatchInv
<1>1. \A s \in Slots : slots[s] \in Slot
    BY <1>0 DEF TypeOK
<1>2. FreeSlot.ended = FALSE
    BY DEF FreeSlot
<1>3. ASSUME UNCHANGED <<slots, shutdown>>, pc' # "grace" PROVE LateInv'
    BY <1>3, LateKept
<1>4. ASSUME \A s \in Slots : slots'[s] = slots[s] \/ slots'[s] = FreeSlot,
             UNCHANGED shutdown, pc' # "grace"
      PROVE  LateInv'
    BY <1>2, <1>4, LateKept
<1>5. ASSUME NEW s \in Slots, NEW r, slots' = [slots EXCEPT ![s] = r],
             r.ended = slots[s].ended, r.late = slots[s].late, UNCHANGED <<pc, cur, shutdown>>
      PROVE  LateInv'
  <2>1. \A t \in Slots : slots'[t].ended = slots[t].ended /\ slots'[t].late = slots[t].late
      BY <1>0, <1>5 DEF TypeOK
  <2>2. pc = "grace" => cur \in Slots
      BY <1>0 DEF SlotInv, Watching
  <2> QED
      BY <1>5, <2>1, <2>2, LateKept
<1>6. CASE HoldBack \/ SkipWedged \/ GraceExpires \/ NextCycle \/ PollElapses
    BY <1>3, <1>6 DEF HoldBack, SkipWedged, GraceExpires, NextCycle, PollElapses, Report
<1>7. ASSUME NEW s \in Slots, StartPlugin(s) PROVE LateInv'
  <2> DEFINE new == [FreeSlot EXCEPT !.plugin = Reached, !.state = "running", !.ended = shutdown]
             old == flight[Reached]
             collected == IF old = NoSlot THEN slots ELSE [slots EXCEPT ![old] = FreeSlot]
  <2>1. slots' = [collected EXCEPT ![s] = new] /\ pc' = "watch" /\ shutdown' = shutdown
      BY <1>7 DEF StartPlugin
  <2>2. new.ended <=> shutdown
      BY <1>0 DEF FreeSlot, TypeOK
  <2>3. \A t \in Slots : collected[t] = slots[t] \/ collected[t] = FreeSlot
      BY <1>0 DEF TypeOK
  <2>4. \A t \in Slots : slots'[t] = new \/ slots'[t] = collected[t]
      BY <1>0, <2>1 DEF TypeOK
  <2> HIDE DEF new, collected
  <2>5. ASSUME NEW t \in Slots, slots'[t].ended PROVE slots'[t].late \/ shutdown
      BY <1>2, <2>2, <2>3, <2>4, <2>5 DEF LateInv
  <2> QED
      BY <2>1, <2>5 DEF LateInv
<1>8. CASE RunReturnsInTime \/ RunReturnsInGrace
    BY <1>0, <1>4, <1>8 DEF RunReturnsInTime, RunReturnsInGrace, Report, TypeOK
<1>9. CASE ContextEnds
    BY <1>9 DEF ContextEnds, LateInv
<1>10. CASE EndCycle \/ LeaveLoop
    BY <1>3, <1>4, <1>10 DEF EndCycle, LeaveLoop, Exit
<1>11. ASSUME NEW s \in Slots, RunReturns(s) PROVE LateInv'
  <2> DEFINE r == [slots[s] EXCEPT !.state = "returned"]
  <2>1. r.ended = slots[s].ended /\ r.late = slots[s].late
      BY <1>1 DEF Slot
  <2>2. slots' = [slots EXCEPT ![s] = r] /\ UNCHANGED <<pc, cur, shutdown>>
      BY <1>11 DEF RunReturns
  <2> QED
      BY <1>5, <2>1, <2>2
<1>12. ASSUME NEW s \in Slots, NEW class \in Classes, NEW b \in Binaries, NEW own \in BOOLEAN,
              StartCommand(s, class, b, own)
       PROVE  LateInv'
  <2> DEFINE r == [slots[s] EXCEPT !.cmd = [class |-> class, binary |-> b, own |-> own,
                                            dying |-> FALSE]]
  <2>1. r.ended = slots[s].ended /\ r.late = slots[s].late
      BY <1>1 DEF Slot
  <2>2. slots' = [slots EXCEPT ![s] = r] /\ UNCHANGED <<pc, cur, shutdown>>
      BY <1>12 DEF StartCommand
  <2> QED
      BY <1>5, <2>1, <2>2
<1>13. ASSUME NEW s \in Slots, CommandDeadline(s) \/ CommandCancelled(s) PROVE LateInv'
  <2>1. PICK recorded : slots' = [slots EXCEPT ![s] = Killed(slots[s], recorded)]
      BY <1>13 DEF CommandDeadline, CommandCancelled
  <2>2. UNCHANGED <<pc, cur, shutdown>>
      BY <1>13 DEF CommandDeadline, CommandCancelled
  <2> QED
      BY <1>1, <1>5, <2>1, <2>2, KilledKeepsContext
<1>14. ASSUME NEW s \in Slots, CommandExits(s) PROVE LateInv'
  <2> DEFINE r == [slots[s] EXCEPT !.cmd = NoCommand]
  <2>1. r.ended = slots[s].ended /\ r.late = slots[s].late
      BY <1>1 DEF Slot
  <2>2. slots' = [slots EXCEPT ![s] = r] /\ UNCHANGED <<pc, cur, shutdown>>
      BY <1>14 DEF CommandExits
  <2> QED
      BY <1>5, <2>1, <2>2
<1>15. CASE PluginDeadline
  <2> DEFINE r == [slots[cur] EXCEPT !.ended = TRUE, !.late = TRUE]
  <2>1. cur \in Slots /\ pc = "watch" /\ UNCHANGED <<pc, cur, shutdown>>
      BY <1>0, <1>15 DEF PluginDeadline, SlotInv, Watching
  <2>2. slots' = [slots EXCEPT ![cur] = r]
      BY <1>0, <1>15, <2>1 DEF PluginDeadline, TypeOK
  <2>3. r.late
      BY <1>1, <2>1 DEF Slot
  <2> HIDE DEF r
  <2>4. \A t \in Slots : slots'[t] = slots[t] \/ slots'[t] = r
      BY <1>0, <2>2 DEF TypeOK
  <2> QED
      BY <2>1, <2>3, <2>4 DEF LateInv
<1>16. CASE Shutdown
  <2>1. shutdown' /\ UNCHANGED <<pc, cur>>
      BY <1>16 DEF Shutdown
  <2>2. ASSUME pc = "grace" PROVE slots'[cur].ended
    <3>1. cur \in Slots /\ slots[cur].ended /\ slots[cur] \in Slot
        BY <1>0, <1>1, <2>2 DEF SlotInv, Watching, LateInv
    <3>2. slots'[cur] = slots[cur] \/ slots'[cur] = [slots[cur] EXCEPT !.ended = TRUE]
        BY <1>16, <3>1 DEF Shutdown
    <3> QED
        BY <3>1, <3>2 DEF Slot
  <2> QED
      BY <2>1, <2>2 DEF LateInv
<1>17. CASE UNCHANGED vars
    BY <1>17 DEF vars, LateInv
<1> QED
    BY <1>6, <1>7, <1>8, <1>9, <1>10, <1>11, <1>12, <1>13, <1>14, <1>15, <1>16, <1>17
    DEF Next, Loop, Ended

\* Only the return of a run within its grace period, with no shutdown under way,
\* is reported as a cancellation.
LEMMA CancelledBy ==
  ASSUME TypeOK, [Next]_vars, NEW p \in Plugins,
         verdict[p] # "deadline_cancelled", verdict'[p] = "deadline_cancelled"
  PROVE  pc = "grace" /\ ~ shutdown
<1>1. ASSUME NEW v, Report(v), v # "deadline_cancelled" PROVE FALSE
    BY <1>1 DEF Report, TypeOK
<1>2. verdict' # verdict
    OBVIOUS
<1>3. CASE SkipWedged
    BY <1>1, <1>3 DEF SkipWedged
<1>4. CASE RunReturnsInTime
    BY <1>1, <1>4 DEF RunReturnsInTime
<1>5. CASE RunReturnsInGrace
    BY <1>1, <1>5 DEF RunReturnsInGrace, GraceVerdict
<1>6. CASE GraceExpires
    BY <1>1, <1>6 DEF GraceExpires
<1>7. CASE NextCycle
    BY <1>7 DEF NextCycle
<1> QED
    BY <1>2, <1>3, <1>4, <1>5, <1>6, <1>7
    DEF Next, Loop, Ended, vars, HoldBack, StartPlugin, ContextEnds, EndCycle, LeaveLoop, Exit,
        RunReturns, StartCommand, CommandDeadline, CommandCancelled, CommandExits, PluginDeadline,
        PollElapses, Shutdown

\* In every reachable state a run whose context has ended is past its deadline,
\* or a shutdown is under way.
THEOREM EndedForAReason == Spec => []LateInv
<1>1. Init => LateInv
    BY DEF Init, LateInv, FreeSlot
<1> QED
    BY <1>1, LateStep, WatchInvariant, PTL DEF Spec

\* No plugin is blamed for a deadline it met: whatever the interleaving of its
\* return with its timer and with a signal, a run reported as cancelled was late
\* (watchPlugin's second select).
THEOREM BlamedWasLate == Spec => CancelledWasLate
<1>1. WatchInv /\ LateInv /\ [Next]_vars =>
        [\A p \in Plugins : verdict[p] # "deadline_cancelled" /\ verdict'[p] = "deadline_cancelled"
           => slots[cur].late]_vars
  <2> SUFFICES ASSUME WatchInv, LateInv, [Next]_vars, NEW p \in Plugins,
                      verdict[p] # "deadline_cancelled", verdict'[p] = "deadline_cancelled"
               PROVE  slots[cur].late
      OBVIOUS
  <2>1. pc = "grace" /\ ~ shutdown
      BY CancelledBy DEF WatchInv
  <2>2. cur \in Slots
      BY <2>1 DEF WatchInv, SlotInv, Watching
  <2> QED
      BY <2>1, <2>2 DEF LateInv
<1> QED
    BY <1>1, WatchInvariant, EndedForAReason, PTL DEF Spec, CancelledWasLate
=============================================================================
