--------------------------- MODULE TimerScreen_proofs ---------------------------
(***************************************************************************)
(* Theorems about TimerScreen and TimerTitle, for any number of tabs, any  *)
(* settings and every bound: the types and the sheet first, then the time  *)
(* in saved blocks, and what one tab that is closed and reopened keeps.    *)
(***************************************************************************)
EXTENDS TimerTitle, FiniteSetTheorems, TLAPS

-------------------------------------------------------------------------------
(* The engine's types. *)

Effects == [saves : Seq(SaveEffects), alerts : Nat, showLabelSheet : BOOLEAN,
            setCycle : Seq(Cycles)]
Results == [state : Timers, effects : Effects]
Events  == [kind : {"start"}, type : BlockTypes]
           \cup [kind : {"labelSave"}, label : Labels \cup {NoLabel}]
           \cup [kind : {"pause", "resume", "stop", "skipBreak", "resetCycle", "tick"}]

LEMMA CloseBlockType ==
  ASSUME NEW intervals \in Seq(Intervals), NEW at \in Nat
  PROVE  /\ CloseBlock(intervals, at).intervals \in Seq(Intervals)
         /\ CloseBlock(intervals, at).endedAt \in Nat
<1> DEFINE n   == Len(intervals)
           end == IF n # 0 /\ intervals[n].endedAt # Open THEN intervals[n].endedAt ELSE at
<1>1. n \in Nat /\ DOMAIN intervals = 1..n
  OBVIOUS
<1>2. n # 0 => intervals[n] \in Intervals
  BY <1>1
<1>3. end \in Nat
  BY <1>2 DEF Intervals
<1>4. n # 0 => [intervals EXCEPT ![n].endedAt = end] \in Seq(Intervals)
  <2> HIDE DEF end
  <2> SUFFICES ASSUME n # 0 PROVE [intervals EXCEPT ![n].endedAt = end] \in Seq(Intervals)
    OBVIOUS
  <2> DEFINE last == [intervals[n] EXCEPT !.endedAt = end]
  <2>1. last \in Intervals
    BY <1>2, <1>3 DEF Intervals
  <2>2. [intervals EXCEPT ![n].endedAt = end] = [intervals EXCEPT ![n] = last]
    OBVIOUS
  <2> HIDE DEF last
  <2>3. [intervals EXCEPT ![n] = last] \in Seq(Intervals)
    BY <2>1
  <2> QED
    BY <2>2, <2>3
<1> QED
  BY <1>3, <1>4 DEF CloseBlock

LEMMA NewBlockType ==
  ASSUME NEW id \in Nat, NEW type \in BlockTypes, NEW at \in Nat, NEW set \in TimerSettings,
         NEW completed \in Nat
  PROVE  NewBlock(id, type, at, set, completed) \in Blocks
<1>1. << [startedAt |-> at, endedAt |-> Open] >> \in Seq(Intervals)
  BY DEF Intervals
<1>2. NextDuration(type, set) \in Nat
  BY DEF NextDuration, TimerSettings
<1> QED
  BY <1>1, <1>2 DEF NewBlock, Blocks

LEMMA NoEffectsType == NoEffects \in Effects
BY DEF NoEffects, Effects

LEMMA SetCycleType ==
  ASSUME NEW completed \in Nat, NEW owed \in BOOLEAN
  PROVE  SetCycle(completed, owed) \in Effects
<1>1. << Cycle(completed, owed) >> \in Seq(Cycles)
  BY DEF Cycle, Cycles
<1> QED
  BY <1>1, NoEffectsType DEF SetCycle, Effects

LEMMA SaveEffectType ==
  ASSUME NEW block \in Blocks, NEW at \in Nat
  PROVE  /\ SaveAndAlert(SaveEffect(block, at)) \in Effects
         /\ \A completed \in Nat, owed \in BOOLEAN :
              SaveAndAdvance(SaveEffect(block, at), completed, owed) \in Effects
<1>1. << SaveEffect(block, at) >> \in Seq(SaveEffects)
  BY DEF SaveEffect, SaveEffects
<1>2. SaveAndAlert(SaveEffect(block, at)) \in Effects
  BY <1>1, NoEffectsType DEF SaveAndAlert, Effects
<1>3. ASSUME NEW completed \in Nat, NEW owed \in BOOLEAN
      PROVE  SaveAndAdvance(SaveEffect(block, at), completed, owed) \in Effects
  <2>1. SetCycle(completed, owed) \in Effects
    BY SetCycleType
  <2> QED
    BY <1>1, <2>1 DEF SaveAndAdvance, Effects
<1> QED
  BY <1>2, <1>3

LEMMA NextBreakTypeType ==
  \A completed, blocksPerCycle : NextBreakType(completed, blocksPerCycle) \in BreakTypes
BY DEF NextBreakType, BreakTypes

LEMMA EndedType ==
  ASSUME NEW state \in Blocks, NEW at \in Nat, NEW status \in {"completed", "aborted"}
  PROVE  Result(PrepareFocusEnd(state, at, status), SheetAndAlert) \in Results
<1>1. CloseBlock(state.intervals, at).intervals \in Seq(Intervals)
  BY CloseBlockType DEF Blocks
<1>2. PrepareFocusEnd(state, at, status) \in Blocks
  BY <1>1 DEF PrepareFocusEnd, Blocks
<1>3. SheetAndAlert \in Effects
  BY NoEffectsType DEF SheetAndAlert, Effects
<1> QED
  BY <1>2, <1>3 DEF Result, Results, Timers

LEMMA IgnoredType ==
  ASSUME NEW state \in Timers
  PROVE  Ignored(state) \in Results
BY NoEffectsType DEF Ignored, Result, Results

\* The engine maps typed inputs to typed results, whatever the event.
LEMMA TransitionType ==
  ASSUME NEW state \in Timers, NEW event \in Events, NEW at \in Nat, NEW id \in Nat,
         NEW set \in TimerSettings, NEW completed \in Nat, NEW pendingBreak \in BOOLEAN
  PROVE  Transition(state, event, at, id, set, completed, pendingBreak) \in Results
<1> DEFINE result == Transition(state, event, at, id, set, completed, pendingBreak)
<1>1. ASSUME NEW block \in Timers, NEW effects \in Effects PROVE Result(block, effects) \in Results
  BY DEF Result, Results
<1>2. NoBlock \in Timers /\ NoEffects \in Effects
  BY NoEffectsType DEF Timers
<1>3. state # NoBlock \/ state.phase # "idle" => state \in Blocks
  BY DEF Timers, NoBlock
<1>4. ASSUME NEW type \in BlockTypes, NEW count \in Nat
      PROVE  NewBlock(id, type, at, set, count) \in Timers
  BY NewBlockType DEF Timers
<1>5. CASE event.kind = "start"
  <2>1. event.type \in BlockTypes /\ result = OnStart(event.type, at, id, set, completed, pendingBreak)
    BY <1>5 DEF Events, Transition
  <2>2. SetCycle(completed, FALSE) \in Effects
    BY SetCycleType
  <2> QED
    BY <1>1, <1>2, <1>4, <2>1, <2>2 DEF OnStart
<1>6. CASE event.kind = "pause"
  <2>1. result = OnPause(state, at)
    BY <1>6 DEF Transition
  <2>2. CASE state.phase = "running"
    <3>1. CloseBlock(state.intervals, at).intervals \in Seq(Intervals) /\ state \in Blocks
      BY <1>3, <2>2, CloseBlockType DEF Blocks
    <3>2. [state EXCEPT !.phase = "paused",
                        !.intervals = CloseBlock(@, at).intervals] \in Timers
      BY <3>1 DEF Blocks, Timers
    <3> QED
      BY <2>1, <2>2, <3>2, IgnoredType DEF OnPause
  <2> QED
    BY <2>1, <2>2, IgnoredType DEF OnPause
<1>7. CASE event.kind = "resume"
  <2>1. result = OnResume(state, at)
    BY <1>7 DEF Transition
  <2>2. CASE state.phase = "paused"
    <3>1. state \in Blocks /\ [startedAt |-> at, endedAt |-> Open] \in Intervals
      BY <1>3, <2>2 DEF Intervals
    <3>2. Append(state.intervals, [startedAt |-> at, endedAt |-> Open]) \in Seq(Intervals)
      BY <3>1 DEF Blocks
    <3>3. [state EXCEPT !.phase = "running",
                        !.intervals = Append(@, [startedAt |-> at, endedAt |-> Open])] \in Timers
      BY <3>1, <3>2 DEF Blocks, Timers
    <3> QED
      BY <2>1, <2>2, <3>3, IgnoredType DEF OnResume
  <2> QED
    BY <2>1, <2>2, IgnoredType DEF OnResume
<1>8. CASE event.kind = "stop"
  <2>1. result = OnStop(state, at)
    BY <1>8 DEF Transition
  <2>2. CASE state.phase \notin {"idle", "ended"}
    <3> DEFINE closed == CloseBlock(state.intervals, at)
               block  == [state EXCEPT !.phase = "ended", !.blockStatus = "aborted",
                                       !.intervals = closed.intervals]
    <3>1. state \in Blocks /\ closed.intervals \in Seq(Intervals) /\ closed.endedAt \in Nat
      BY <1>3, <2>2, CloseBlockType DEF Blocks
    <3>2. block \in Blocks
      <4> HIDE DEF closed
      <4> QED
        BY <3>1 DEF Blocks
    <3>3. SaveAndAlert(SaveEffect(block, closed.endedAt)) \in Effects
      <4> HIDE DEF block, closed
      <4> QED
        BY <3>1, <3>2, SaveEffectType
    <3>4. Result(NoBlock, SaveAndAlert(SaveEffect(block, closed.endedAt))) \in Results
      BY <1>1, <1>2, <3>3
    <3>5. Result(PrepareFocusEnd(state, at, "aborted"), SheetAndAlert) \in Results
      BY <3>1, EndedType
    <3> QED
      BY <2>1, <2>2, <3>4, <3>5 DEF OnStop
  <2> QED
    BY <2>1, <2>2, IgnoredType DEF OnStop
<1>9. CASE event.kind = "labelSave"
  <2>1. event.label \in Labels \cup {NoLabel} /\ result = OnLabelSave(state, event.label, at, id, set)
    BY <1>9 DEF Events, Transition
  <2>2. CASE state # NoBlock
    <3> DEFINE closed == CloseBlock(state.intervals, at)
               block  == [state EXCEPT !.label = event.label, !.intervals = closed.intervals]
               count  == state.focusBlocksCompleted + 1
               auto   == set.autoStartBreaks /\ state.blockStatus = "completed"
               next   == NewBlock(id, NextBreakType(count, set.blocksPerCycle), at, set, count)
    <3>1. /\ state \in Blocks /\ closed.intervals \in Seq(Intervals) /\ closed.endedAt \in Nat
          /\ count \in Nat
      BY <1>3, <2>2, CloseBlockType DEF Blocks
    <3>2. block \in Blocks
      <4> HIDE DEF closed
      <4> QED
        BY <2>1, <3>1 DEF Blocks
    <3>3. \A owed \in BOOLEAN : SaveAndAdvance(SaveEffect(block, closed.endedAt), count, owed) \in Effects
      <4> HIDE DEF block, closed, count
      <4> QED
        BY <3>1, <3>2, SaveEffectType
    <3>4. next \in Timers
      <4>1. NextBreakType(count, set.blocksPerCycle) \in BlockTypes
        BY NextBreakTypeType DEF BlockTypes
      <4> QED
        BY <1>4, <3>1, <4>1
    <3>5. result = Result(IF auto THEN next ELSE NoBlock,
                          SaveAndAdvance(SaveEffect(block, closed.endedAt), count, ~auto))
      BY <2>1, <2>2 DEF OnLabelSave
    <3>6. (~auto) \in BOOLEAN
      OBVIOUS
    <3> HIDE DEF block, closed, count, auto, next
    <3> QED
      BY <1>1, <1>2, <3>3, <3>4, <3>5, <3>6
  <2> QED
    BY <1>2, <2>1, <2>2, IgnoredType DEF OnLabelSave
<1>10. CASE event.kind = "skipBreak"
  <2>1. result = OnSkipBreak(state, completed, pendingBreak)
    BY <1>10 DEF Transition
  <2>2. Result(NoBlock, SetCycle(completed, FALSE)) \in Results /\ Result(NoBlock, NoEffects) \in Results
    BY <1>1, <1>2, SetCycleType
  <2> QED
    BY <2>1, <2>2, IgnoredType DEF OnSkipBreak
<1>11. CASE event.kind = "resetCycle"
  <2>1. result = OnResetCycle(state)
    BY <1>11 DEF Transition
  <2>2. Result(NoBlock, SetCycle(0, FALSE)) \in Results
    BY <1>1, <1>2, SetCycleType
  <2> QED
    BY <2>1, <2>2, IgnoredType DEF OnResetCycle
<1>12. CASE event.kind = "tick"
  <2>1. result = OnTick(state, at, id, set, completed)
    BY <1>12 DEF Transition
  <2>2. CASE TickGate(state)
    <3> DEFINE closed == CloseBlock(state.intervals, at)
               block  == [state EXCEPT !.intervals = closed.intervals]
               auto   == set.autoStartNext /\ WithinGrace(Overrun(state, at))
    <3>1. state \in Blocks /\ closed.intervals \in Seq(Intervals) /\ closed.endedAt \in Nat
      BY <1>3, <2>2, CloseBlockType DEF Blocks, TickGate
    <3>2. block \in Blocks
      <4> HIDE DEF closed
      <4> QED
        BY <3>1 DEF Blocks
    <3>3. SaveAndAlert(SaveEffect(block, closed.endedAt)) \in Effects
      <4> HIDE DEF block, closed
      <4> QED
        BY <3>1, <3>2, SaveEffectType
    <3>4. NewBlock(id, "focus", at, set, completed) \in Timers
      BY <1>4 DEF BlockTypes
    <3>5. Result(IF auto THEN NewBlock(id, "focus", at, set, completed) ELSE NoBlock,
                 SaveAndAlert(SaveEffect(block, closed.endedAt))) \in Results
      <4> HIDE DEF block, closed, auto
      <4> QED
        BY <1>1, <1>2, <3>3, <3>4
    <3>6. Result(PrepareFocusEnd(state, at, "completed"), SheetAndAlert) \in Results
      BY <3>1, EndedType
    <3> QED
      BY <2>1, <2>2, <3>5, <3>6, IgnoredType DEF OnTick
  <2> QED
    BY <2>1, <2>2, IgnoredType DEF OnTick
<1> QED
  BY <1>5, <1>6, <1>7, <1>8, <1>9, <1>10, <1>11, <1>12 DEF Events

-------------------------------------------------------------------------------
(* The reducer's types. *)

LEMMA UnlabelledEvent == Unlabelled \in Events
BY DEF Unlabelled, Events

LEMMA ReduceOnceType ==
  ASSUME TypeOK, NEW m \in Machines, NEW event \in Events, NEW id \in Nat,
         NEW set \in TimerSettings
  PROVE  ReduceOnce(m, event, id, set) \in Machines
<1> DEFINE result == Transition(m.timer, event, now, id, set, m.completed, m.pendingBreak)
           cycle  == result.effects.setCycle
           next   == ReduceOnce(m, event, id, set)
<1>1. /\ m.timer \in Timers /\ m.completed \in Nat /\ m.pendingBreak \in BOOLEAN
      /\ m.pending.saves \in Seq(SaveEffects) /\ m.pending.alerts \in Nat /\ now \in Nat
  BY DEF Machines, TypeOK
<1>2. result \in Results
  BY <1>1, TransitionType
<1>3. next = [timer          |-> result.state,
              completed      |-> IF cycle = << >> THEN m.completed ELSE cycle[1].completed,
              pendingBreak   |-> IF cycle = << >> THEN m.pendingBreak ELSE cycle[1].pendingBreak,
              labelSheetOpen |-> SheetAfter(m.labelSheetOpen, event, result.effects),
              pending        |-> [saves  |-> m.pending.saves \o result.effects.saves,
                                  alerts |-> m.pending.alerts + result.effects.alerts]]
  BY DEF ReduceOnce
<1> HIDE DEF result, next
<1>4. /\ result.state \in Timers /\ cycle \in Seq(Cycles)
      /\ result.effects.saves \in Seq(SaveEffects) /\ result.effects.alerts \in Nat
  BY <1>2 DEF Results, Effects
<1>5. cycle # << >> => cycle[1].completed \in Nat /\ cycle[1].pendingBreak \in BOOLEAN
  <2>1. cycle # << >> => cycle[1] \in Cycles
    BY <1>4
  <2> QED
    BY <2>1 DEF Cycles
<1>6. SheetAfter(m.labelSheetOpen, event, result.effects) \in BOOLEAN
  BY DEF SheetAfter
<1>7. [saves  |-> m.pending.saves \o result.effects.saves,
       alerts |-> m.pending.alerts + result.effects.alerts] \in [saves : Seq(SaveEffects), alerts : Nat]
  BY <1>1, <1>4
<1> HIDE DEF cycle
<1>8. /\ (IF cycle = << >> THEN m.completed ELSE cycle[1].completed) \in Nat
      /\ (IF cycle = << >> THEN m.pendingBreak ELSE cycle[1].pendingBreak) \in BOOLEAN
  BY <1>1, <1>5
<1> QED
  BY <1>3, <1>4, <1>6, <1>7, <1>8 DEF Machines, next

LEMMA ReduceType ==
  ASSUME TypeOK, NEW m \in Machines, NEW event \in Events, NEW id \in Nat,
         NEW set \in TimerSettings
  PROVE  Reduce(m, event, id, set) \in Machines
<1>1. ReduceOnce(m, event, id, set) \in Machines
  BY ReduceOnceType
<1>2. ReduceOnce(ReduceOnce(m, event, id, set), Unlabelled, id, set) \in Machines
  BY <1>1, UnlabelledEvent, ReduceOnceType
<1> QED
  BY <1>1, <1>2 DEF Reduce

\* What a fresh tab reads, before a guest's sheet is dismissed.
LEMMA InitMachineParts ==
  ASSUME TypeOK
  PROVE  [timer          |-> stored.clock,
          completed      |-> IF stored.cycle # NoCycle THEN stored.cycle.completed
                             ELSE IF stored.clock # NoBlock THEN stored.clock.focusBlocksCompleted
                             ELSE 0,
          pendingBreak   |-> stored.cycle.pendingBreak,
          labelSheetOpen |-> SheetOnLoad(stored.clock),
          pending        |-> Drained] \in Machines
<1> DEFINE block     == stored.clock
           completed == IF stored.cycle # NoCycle THEN stored.cycle.completed
                        ELSE IF block # NoBlock THEN block.focusBlocksCompleted ELSE 0
<1>1. /\ block \in Timers /\ stored.cycle \in Cycles \cup {NoCycle}
  BY DEF TypeOK
<1>2. stored.cycle.pendingBreak \in BOOLEAN
  <2>1. CASE stored.cycle \in Cycles
    BY <2>1 DEF Cycles
  <2>2. CASE stored.cycle = NoCycle
    <3>1. NoCycle.pendingBreak = FALSE
      BY DEF NoCycle
    <3> QED
      BY <2>2, <3>1
  <2> QED
    BY <1>1, <2>1, <2>2
<1>3. completed \in Nat
  BY <1>1 DEF Cycles, Timers, Blocks
<1>4. SheetOnLoad(block) \in BOOLEAN
  BY DEF SheetOnLoad
<1>5. Drained \in [saves : Seq(SaveEffects), alerts : Nat]
  BY DEF Drained
<1> HIDE DEF completed
<1> QED
  BY <1>1, <1>2, <1>3, <1>4, <1>5 DEF Machines, completed

LEMMA InitMachineType ==
  ASSUME TypeOK, NEW id \in Nat
  PROVE  InitMachine(id) \in Machines
<1> DEFINE machine == [timer          |-> stored.clock,
                       completed      |-> IF stored.cycle # NoCycle THEN stored.cycle.completed
                                          ELSE IF stored.clock # NoBlock
                                          THEN stored.clock.focusBlocksCompleted
                                          ELSE 0,
                       pendingBreak   |-> stored.cycle.pendingBreak,
                       labelSheetOpen |-> SheetOnLoad(stored.clock),
                       pending        |-> Drained]
<1>1. machine \in Machines
  BY InitMachineParts
<1>2. ReduceOnce(machine, Unlabelled, id, DefaultSettings) \in Machines
  <2>1. DefaultSettings \in TimerSettings
    BY SettingsAssumption
  <2> HIDE DEF machine
  <2> QED
    BY <1>1, <2>1, UnlabelledEvent, ReduceOnceType
<1> QED
  BY <1>1, <1>2 DEF InitMachine

LEMMA PayloadType ==
  ASSUME NEW effect \in SaveEffects
  PROVE  Payload(effect) \in SavedBlocks
<1>1. effect.state \in Blocks /\ effect.endedAt \in Nat
  BY DEF SaveEffects
<1> DEFINE intervals == effect.state.intervals
           closed(i) == [intervals[i] EXCEPT !.endedAt = IF @ = Open THEN effect.endedAt ELSE @]
<1>2. intervals \in Seq(Intervals)
  BY <1>1 DEF Blocks
<1>3. \A i \in DOMAIN intervals : closed(i) \in Intervals
  <2> SUFFICES ASSUME NEW i \in DOMAIN intervals PROVE closed(i) \in Intervals
    OBVIOUS
  <2>1. intervals[i] \in Intervals
    BY <1>2
  <2> HIDE DEF intervals
  <2> QED
    BY <1>1, <2>1 DEF Intervals
<1>4. [i \in DOMAIN intervals |-> closed(i)] \in Seq(Intervals)
  <2>1. DOMAIN intervals = 1..Len(intervals) /\ Len(intervals) \in Nat
    BY <1>2
  <2> HIDE DEF intervals, closed
  <2> QED
    BY <1>3, <2>1
<1> QED
  BY <1>1, <1>4 DEF Payload, SavedBlocks, Blocks

LEMMA PayloadsType ==
  ASSUME NEW saves \in Seq(SaveEffects)
  PROVE  Payloads(saves) \in Seq(SavedBlocks)
<1>1. DOMAIN saves = 1..Len(saves) /\ Len(saves) \in Nat
  OBVIOUS
<1>2. \A i \in DOMAIN saves : Payload(saves[i]) \in SavedBlocks
  BY PayloadType
<1>3. [i \in DOMAIN saves |-> Payload(saves[i])] \in Seq(SavedBlocks)
  BY <1>1, <1>2
<1> QED
  BY <1>3 DEF Payloads

LEMMA CommitMachineType ==
  ASSUME TypeOK, NEW t \in Tabs, NEW m \in Machines, CommitMachine(t, m)
  PROVE  /\ tab' \in [Tabs -> Machines \cup {Closed}]
         /\ screen' \in [Tabs -> Machines \cup {Closed}]
         /\ stored' \in [clock : Timers, cycle : Cycles \cup {NoCycle}]
         /\ saved' \in Seq(SavedBlocks)
         /\ alerts' \in Nat
<1>1. Drained \in [saves : Seq(SaveEffects), alerts : Nat]
  BY DEF Drained
<1>2. [m EXCEPT !.pending = Drained] \in Machines
  BY <1>1 DEF Machines
<1>3. m.timer \in Timers /\ CycleOf(m) \in Cycles
  BY DEF Machines, CycleOf, Cycle, Cycles
<1>4. ClockToStore(t, m) \in Timers
  BY <1>3 DEF ClockToStore, TypeOK
<1>5. CycleToStore(t, m) \in Cycles \cup {NoCycle}
  BY <1>3 DEF CycleToStore, TypeOK
<1>6. Payloads(m.pending.saves) \in Seq(SavedBlocks) /\ m.pending.alerts \in Nat
  BY PayloadsType DEF Machines
<1> QED
  BY <1>2, <1>4, <1>5, <1>6 DEF CommitMachine, TypeOK

LEMMA IdAfterType ==
  ASSUME TypeOK, NEW m
  PROVE  IdAfter(m) \in Nat
BY DEF IdAfter, TypeOK

\* An open tab's machine is never mistaken for a closed tab.
LEMMA OpenIsNotClosed ==
  ASSUME NEW m \in Machines
  PROVE  m # Closed
<1>1. "closed" \in DOMAIN Closed
  BY DEF Closed
<1>2. "closed" \notin DOMAIN m
  BY DEF Machines
<1> QED
  BY <1>1, <1>2

LEMMA DispatchType ==
  ASSUME TypeOK, NEW t \in Tabs, tab[t] \in Machines, NEW event \in Events, Dispatch(t, event)
  PROVE  /\ tab' \in [Tabs -> Machines \cup {Closed}]
         /\ screen' \in [Tabs -> Machines \cup {Closed}]
         /\ stored' \in [clock : Timers, cycle : Cycles \cup {NoCycle}]
         /\ saved' \in Seq(SavedBlocks)
         /\ alerts' \in Nat /\ nextId' \in Nat
         /\ UNCHANGED <<now, backSteps, opens, settings>>
<1>1. settings[t] \in TimerSettings /\ nextId \in Nat
  BY SettingsAssumption DEF TypeOK
<1>2. Reduce(tab[t], event, nextId, settings[t]) \in Machines
  BY <1>1, ReduceType
<1> QED
  BY <1>2, CommitMachineType, IdAfterType DEF Dispatch, clockVars

-------------------------------------------------------------------------------
(* The invariant.  SheetIffEnded and BreakCarriesNoLabel are not inductive:    *)
(* labelSave labels whatever block it is given, so what matters is that the    *)
(* sheet the user dismisses is the sheet of the block the reducer holds.       *)

\* Only a tick runs ahead of the render: a tab that shows no running block has
\* nothing reduced that its user has not seen.
OnlyTicksRunAhead ==
  \A t \in Tabs : screen[t] # Closed =>
    tab[t] # Closed /\ (tab[t] = screen[t] \/ screen[t].timer.phase = "running")

Ended(block) == block.phase = "ended" /\ block.type = "focus"

\* No label is attached before the sheet hands the block over.
Plain(block) == block # NoBlock => block.label = NoLabel

UnlabelledBreaks(saves) ==
  \A i \in DOMAIN saves : saves[i].state.type \in BreakTypes => saves[i].state.label = NoLabel

Sound(m) ==
  /\ m.labelSheetOpen <=> Ended(m.timer)
  /\ Plain(m.timer)
  /\ UnlabelledBreaks(m.pending.saves)

ScreenInv ==
  /\ TypeOK
  /\ OnlyTicksRunAhead
  /\ \A t \in Tabs : tab[t] # Closed => Sound(tab[t])
  /\ \A t \in Tabs : screen[t] # Closed => Sound(screen[t])
  /\ Plain(stored.clock)
  /\ BreakCarriesNoLabel

-------------------------------------------------------------------------------
(* The engine keeps blocks plain, saved breaks unlabelled and the sheet in     *)
(* step with the block, if a start finds no block and a label finds its sheet. *)

Fits(event, block) ==
  /\ event.kind = "start" => block = NoBlock
  /\ event.kind = "labelSave" => Ended(block)

Keeps(block, event, result) ==
  /\ Plain(result.state)
  /\ UnlabelledBreaks(result.effects.saves)
  /\ SheetAfter(Ended(block), event, result.effects) <=> Ended(result.state)

LEMMA NewBlockPlain ==
  ASSUME NEW id, NEW type, NEW at, NEW set, NEW completed
  PROVE  /\ Plain(NewBlock(id, type, at, set, completed))
         /\ ~Ended(NewBlock(id, type, at, set, completed))
BY DEF NewBlock, Plain, Ended

LEMMA NoBlockPlain == Plain(NoBlock) /\ ~Ended(NoBlock)
BY DEF NoBlock, Plain, Ended

LEMMA EffectsOfSaves ==
  /\ NoEffects.saves = << >> /\ ~NoEffects.showLabelSheet
  /\ SheetAndAlert.saves = << >> /\ SheetAndAlert.showLabelSheet
  /\ \A save : SaveAndAlert(save).saves = << save >> /\ ~SaveAndAlert(save).showLabelSheet
  /\ \A completed, owed : /\ SetCycle(completed, owed).saves = << >>
                         /\ ~SetCycle(completed, owed).showLabelSheet
  /\ \A save, completed, owed : /\ SaveAndAdvance(save, completed, owed).saves = << save >>
                               /\ ~SaveAndAdvance(save, completed, owed).showLabelSheet
BY DEF NoEffects, SheetAndAlert, SaveAndAlert, SetCycle, SaveAndAdvance

LEMMA NoSaves == UnlabelledBreaks(<< >>)
BY DEF UnlabelledBreaks

LEMMA OneSave ==
  ASSUME NEW save, save.state.type \in BreakTypes => save.state.label = NoLabel
  PROVE  UnlabelledBreaks(<< save >>)
<1>1. \A i \in DOMAIN << save >> : << save >>[i] = save
  OBVIOUS
<1> QED
  BY <1>1 DEF UnlabelledBreaks

LEMMA IgnoredKeeps ==
  ASSUME NEW block, Plain(block), NEW event, event.kind # "labelSave"
  PROVE  Keeps(block, event, Ignored(block))
BY EffectsOfSaves, NoSaves DEF Keeps, Ignored, Result, SheetAfter

\* A step that moves a block that had not ended to one that has not.
LEMMA QuietKeeps ==
  ASSUME NEW block, NEW event, NEW state, NEW effects,
         ~Ended(block), Plain(state), ~Ended(state), ~effects.showLabelSheet,
         UnlabelledBreaks(effects.saves)
  PROVE  Keeps(block, event, Result(state, effects))
BY DEF Keeps, Result, SheetAfter

LEMMA EndedKeeps ==
  ASSUME NEW block \in Blocks, Plain(block), block.type = "focus", NEW at \in Nat,
         NEW status \in {"completed", "aborted"}, NEW event, event.kind # "labelSave"
  PROVE  Keeps(block, event, Result(PrepareFocusEnd(block, at, status), SheetAndAlert))
<1> DEFINE next == PrepareFocusEnd(block, at, status)
<1>1. next.phase = "ended" /\ next.type = block.type /\ next.label = block.label
  BY DEF PrepareFocusEnd, Blocks
<1>2. block # NoBlock
  <2>1. "label" \in DOMAIN block
    BY DEF Blocks
  <2>2. "label" \notin DOMAIN NoBlock
    BY DEF NoBlock
  <2> QED
    BY <2>1, <2>2
<1>3. Plain(next) /\ Ended(next)
  BY <1>1, <1>2 DEF Plain, Ended
<1> HIDE DEF next
<1>4. UnlabelledBreaks(SheetAndAlert.saves) /\ SheetAndAlert.showLabelSheet
  BY EffectsOfSaves, NoSaves
<1> QED
  BY <1>3, <1>4 DEF Keeps, Result, SheetAfter, next

LEMMA TransitionKeeps ==
  ASSUME NEW block \in Timers, Plain(block), NEW event \in Events, Fits(event, block),
         NEW at \in Nat, NEW id \in Nat, NEW set \in TimerSettings,
         NEW completed \in Nat, NEW pendingBreak \in BOOLEAN
  PROVE  Keeps(block, event, Transition(block, event, at, id, set, completed, pendingBreak))
<1> DEFINE result == Transition(block, event, at, id, set, completed, pendingBreak)
<1>1. block.phase # "idle" => block \in Blocks /\ block # NoBlock
  BY DEF Timers, NoBlock
<1>2. block.phase # "idle" => block.label = NoLabel
  BY <1>1 DEF Plain
<1>3. block = NoBlock \/ block.phase \in {"running", "paused"} => ~Ended(block)
  BY NoBlockPlain DEF Ended
<1>4. CASE event.kind = "start"
  <2>1. result = OnStart(event.type, at, id, set, completed, pendingBreak)
    BY <1>4 DEF Transition
  <2>2. ~Ended(block)
    BY <1>3, <1>4 DEF Fits
  <2> QED
    BY <2>1, <2>2, NewBlockPlain, EffectsOfSaves, NoSaves, QuietKeeps DEF OnStart
<1>5. CASE event.kind = "pause"
  <2>1. result = OnPause(block, at)
    BY <1>5 DEF Transition
  <2>2. CASE block.phase = "running"
    <3> DEFINE next == [block EXCEPT !.phase = "paused",
                                     !.intervals = CloseBlock(@, at).intervals]
    <3>1. next.phase = "paused" /\ next.label = NoLabel
      BY <1>1, <1>2, <2>2 DEF Blocks
    <3>2. Plain(next) /\ ~Ended(next)
      BY <3>1 DEF Plain, Ended
    <3>3. result = Result(next, NoEffects)
      BY <2>1, <2>2 DEF OnPause, Ignored
    <3> HIDE DEF next, result
    <3> QED
      BY <1>3, <2>2, <3>2, <3>3, EffectsOfSaves, NoSaves, QuietKeeps DEF result
  <2> QED
    BY <1>5, <2>1, <2>2, IgnoredKeeps DEF OnPause
<1>6. CASE event.kind = "resume"
  <2>1. result = OnResume(block, at)
    BY <1>6 DEF Transition
  <2>2. CASE block.phase = "paused"
    <3> DEFINE next == [block EXCEPT !.phase = "running",
                          !.intervals = Append(@, [startedAt |-> at, endedAt |-> Open])]
    <3>1. next.phase = "running" /\ next.label = NoLabel
      BY <1>1, <1>2, <2>2 DEF Blocks
    <3>2. Plain(next) /\ ~Ended(next)
      BY <3>1 DEF Plain, Ended
    <3>3. result = Result(next, NoEffects)
      BY <2>1, <2>2 DEF OnResume, Ignored
    <3> HIDE DEF next, result
    <3> QED
      BY <1>3, <2>2, <3>2, <3>3, EffectsOfSaves, NoSaves, QuietKeeps DEF result
  <2> QED
    BY <1>6, <2>1, <2>2, IgnoredKeeps DEF OnResume
<1>7. CASE event.kind = "stop"
  <2>1. result = OnStop(block, at)
    BY <1>7 DEF Transition
  <2>2. CASE block.phase \in {"idle", "ended"}
    BY <1>7, <2>1, <2>2, IgnoredKeeps DEF OnStop
  <2>3. CASE block.phase \notin {"idle", "ended"} /\ EndsOnSheet(block)
    BY <1>1, <1>7, <2>1, <2>3, EndedKeeps DEF OnStop, EndsOnSheet
  <2>4. CASE block.phase \notin {"idle", "ended"} /\ ~EndsOnSheet(block)
    <3> DEFINE closed == CloseBlock(block.intervals, at)
               ended  == [block EXCEPT !.phase = "ended", !.blockStatus = "aborted",
                                       !.intervals = closed.intervals]
               save   == SaveEffect(ended, closed.endedAt)
    <3>1. save.state.label = NoLabel
      BY <1>1, <1>2, <2>4 DEF SaveEffect, Blocks
    <3>2. result = Result(NoBlock, SaveAndAlert(save))
      BY <2>1, <2>4 DEF OnStop
    <3>3. ~Ended(block)
      BY <2>4 DEF Ended
    <3> HIDE DEF save, result
    <3>4. UnlabelledBreaks(SaveAndAlert(save).saves) /\ ~SaveAndAlert(save).showLabelSheet
      BY <3>1, EffectsOfSaves, OneSave
    <3> QED
      BY <3>2, <3>3, <3>4, NoBlockPlain, QuietKeeps DEF result
  <2> QED
    BY <2>2, <2>3, <2>4
<1>8. CASE event.kind = "labelSave"
  <2>1. result = OnLabelSave(block, event.label, at, id, set)
    BY <1>8 DEF Transition
  <2>2. Ended(block) /\ block # NoBlock
    BY <1>8, NoBlockPlain DEF Fits
  <2>3. block \in Blocks /\ block.type = "focus"
    BY <1>1, <2>2 DEF Ended, Timers
  <2> DEFINE closed == CloseBlock(block.intervals, at)
             save   == SaveEffect([block EXCEPT !.label = event.label,
                                                !.intervals = closed.intervals], closed.endedAt)
             count  == block.focusBlocksCompleted + 1
             auto   == set.autoStartBreaks /\ block.blockStatus = "completed"
             next   == IF auto
                       THEN NewBlock(id, NextBreakType(count, set.blocksPerCycle), at, set, count)
                       ELSE NoBlock
  <2>4. save.state.type = "focus"
    BY <2>3 DEF SaveEffect, Blocks
  <2>5. result = Result(next, SaveAndAdvance(save, count, ~auto))
    BY <2>1, <2>2 DEF OnLabelSave
  <2>6. Plain(next) /\ ~Ended(next)
    <3> HIDE DEF auto
    <3> QED
      BY NewBlockPlain, NoBlockPlain
  <2> HIDE DEF save, next, auto, result, count
  <2>7. SaveAndAdvance(save, count, ~auto).saves = << save >>
    BY EffectsOfSaves
  <2>8. UnlabelledBreaks(<< save >>)
    <3>1. "focus" \notin BreakTypes
      BY DEF BreakTypes
    <3> QED
      BY <2>4, <3>1, OneSave
  <2> QED
    BY <1>8, <2>5, <2>6, <2>7, <2>8 DEF Keeps, Result, SheetAfter, result
<1>9. CASE event.kind = "skipBreak"
  <2>1. result = OnSkipBreak(block, completed, pendingBreak)
    BY <1>9 DEF Transition
  <2>2. CASE block = NoBlock \/ (block.type # "focus" /\ block.phase \in {"running", "paused"})
    <3>1. result \in {Result(NoBlock, NoEffects), Result(NoBlock, SetCycle(completed, FALSE))}
      BY <2>1, <2>2 DEF OnSkipBreak
    <3> HIDE DEF result
    <3> QED
      BY <1>3, <2>2, <3>1, NoBlockPlain, EffectsOfSaves, NoSaves, QuietKeeps DEF result
  <2>3. CASE ~(block = NoBlock \/ (block.type # "focus" /\ block.phase \in {"running", "paused"}))
    <3>1. result = Ignored(block)
      BY <2>1, <2>3 DEF OnSkipBreak
    <3> QED
      BY <1>9, <3>1, IgnoredKeeps
  <2> QED
    BY <2>2, <2>3
<1>10. CASE event.kind = "resetCycle"
  <2>1. result = OnResetCycle(block)
    BY <1>10 DEF Transition
  <2>2. CASE block = NoBlock
    <3>1. result = Result(NoBlock, SetCycle(0, FALSE))
      BY <2>1, <2>2 DEF OnResetCycle
    <3> HIDE DEF result
    <3> QED
      BY <1>3, <2>2, <3>1, NoBlockPlain, EffectsOfSaves, NoSaves, QuietKeeps DEF result
  <2> QED
    BY <1>10, <2>1, <2>2, IgnoredKeeps DEF OnResetCycle
<1>11. CASE event.kind = "tick"
  <2>1. result = OnTick(block, at, id, set, completed)
    BY <1>11 DEF Transition
  <2>2. CASE TickGate(block) /\ TimeIsUp(Overrun(block, at)) /\ EndsOnSheet(block)
    BY <1>1, <1>11, <2>1, <2>2, EndedKeeps DEF OnTick, EndsOnSheet, TickGate
  <2>3. CASE TickGate(block) /\ TimeIsUp(Overrun(block, at)) /\ ~EndsOnSheet(block)
    <3> DEFINE closed == CloseBlock(block.intervals, at)
               save   == SaveEffect([block EXCEPT !.intervals = closed.intervals], closed.endedAt)
               auto   == set.autoStartNext /\ WithinGrace(Overrun(block, at))
               next   == IF auto THEN NewBlock(id, "focus", at, set, completed) ELSE NoBlock
    <3>1. save.state.label = NoLabel
      BY <1>1, <1>2, <2>3 DEF SaveEffect, Blocks, TickGate
    <3>2. result = Result(next, SaveAndAlert(save))
      BY <2>1, <2>3 DEF OnTick
    <3>3. ~Ended(block)
      BY <1>3, <2>3 DEF TickGate
    <3>4. Plain(next) /\ ~Ended(next)
      <4> HIDE DEF auto
      <4> QED
        BY NewBlockPlain, NoBlockPlain
    <3> HIDE DEF save, result, next
    <3>5. UnlabelledBreaks(SaveAndAlert(save).saves) /\ ~SaveAndAlert(save).showLabelSheet
      BY <3>1, EffectsOfSaves, OneSave
    <3> QED
      BY <3>2, <3>3, <3>4, <3>5, QuietKeeps DEF result
  <2>4. CASE ~(TickGate(block) /\ TimeIsUp(Overrun(block, at)))
    <3>1. result = Ignored(block)
      BY <2>1, <2>4 DEF OnTick
    <3> QED
      BY <1>11, <3>1, IgnoredKeeps
  <2> QED
    BY <2>2, <2>3, <2>4
<1> QED
  BY <1>4, <1>5, <1>6, <1>7, <1>8, <1>9, <1>10, <1>11 DEF Events

-------------------------------------------------------------------------------
(* The reducer and the tab keep machines sound.                                *)

LEMMA UnlabelledConcat ==
  ASSUME NEW s1 \in Seq(SaveEffects), NEW s2 \in Seq(SaveEffects),
         UnlabelledBreaks(s1), UnlabelledBreaks(s2)
  PROVE  UnlabelledBreaks(s1 \o s2)
<1> SUFFICES ASSUME NEW i \in DOMAIN (s1 \o s2)
             PROVE  (s1 \o s2)[i].state.type \in BreakTypes => (s1 \o s2)[i].state.label = NoLabel
  BY DEF UnlabelledBreaks
<1>1. \/ i \in DOMAIN s1 /\ (s1 \o s2)[i] = s1[i]
      \/ i - Len(s1) \in DOMAIN s2 /\ (s1 \o s2)[i] = s2[i - Len(s1)]
  OBVIOUS
<1> QED
  BY <1>1 DEF UnlabelledBreaks

LEMMA ReduceOnceSound ==
  ASSUME TypeOK, NEW m \in Machines, Sound(m), NEW event \in Events, Fits(event, m.timer),
         NEW id \in Nat, NEW set \in TimerSettings
  PROVE  Sound(ReduceOnce(m, event, id, set))
<1> DEFINE result == Transition(m.timer, event, now, id, set, m.completed, m.pendingBreak)
           next   == ReduceOnce(m, event, id, set)
<1>1. /\ m.timer \in Timers /\ m.completed \in Nat /\ m.pendingBreak \in BOOLEAN
      /\ m.labelSheetOpen \in BOOLEAN /\ m.pending.saves \in Seq(SaveEffects) /\ now \in Nat
  BY DEF Machines, TypeOK
<1>2. result \in Results
  BY <1>1, TransitionType
<1>3. Keeps(m.timer, event, result)
  BY <1>1, TransitionKeeps DEF Sound
<1>4. /\ next.timer = result.state
      /\ next.labelSheetOpen = SheetAfter(m.labelSheetOpen, event, result.effects)
      /\ next.pending.saves = m.pending.saves \o result.effects.saves
  BY DEF ReduceOnce
<1> HIDE DEF result, next
<1>5. m.labelSheetOpen = Ended(m.timer)
  BY <1>1 DEF Sound, Ended
<1>6. UnlabelledBreaks(m.pending.saves \o result.effects.saves)
  BY <1>1, <1>2, <1>3, UnlabelledConcat DEF Sound, Keeps, Results, Effects
<1> QED
  BY <1>3, <1>4, <1>5, <1>6 DEF Sound, Keeps, next

LEMMA UnlabelledFits ==
  ASSUME NEW block, Ended(block)
  PROVE  Fits(Unlabelled, block)
BY DEF Fits, Unlabelled

LEMMA ReduceSound ==
  ASSUME TypeOK, NEW m \in Machines, Sound(m), NEW event \in Events, Fits(event, m.timer),
         NEW id \in Nat, NEW set \in TimerSettings
  PROVE  Sound(Reduce(m, event, id, set))
<1> DEFINE next == ReduceOnce(m, event, id, set)
<1>1. next \in Machines /\ Sound(next)
  BY ReduceOnceType, ReduceOnceSound
<1>2. Reduce(m, event, id, set) =
        IF Guest /\ next.labelSheetOpen THEN ReduceOnce(next, Unlabelled, id, set) ELSE next
  BY DEF Reduce
<1> HIDE DEF next
<1>3. next.labelSheetOpen => Sound(ReduceOnce(next, Unlabelled, id, set))
  BY <1>1, UnlabelledEvent, UnlabelledFits, ReduceOnceSound DEF Sound
<1> QED
  BY <1>1, <1>2, <1>3

LEMMA InitMachineSound ==
  ASSUME TypeOK, Plain(stored.clock), NEW id \in Nat
  PROVE  Sound(InitMachine(id))
<1> DEFINE block   == stored.clock
           machine == [timer          |-> block,
                       completed      |-> IF stored.cycle # NoCycle THEN stored.cycle.completed
                                          ELSE IF block # NoBlock THEN block.focusBlocksCompleted
                                          ELSE 0,
                       pendingBreak   |-> stored.cycle.pendingBreak,
                       labelSheetOpen |-> SheetOnLoad(block),
                       pending        |-> Drained]
<1>1. InitMachine(id) = IF Guest /\ machine.labelSheetOpen
                        THEN ReduceOnce(machine, Unlabelled, id, DefaultSettings) ELSE machine
  BY DEF InitMachine
<1>2. machine.labelSheetOpen <=> Ended(machine.timer)
  BY DEF SheetOnLoad, Ended
<1>3. Plain(machine.timer) /\ UnlabelledBreaks(machine.pending.saves)
  BY NoSaves DEF Drained
<1>4. machine \in Machines
  BY InitMachineParts
<1> HIDE DEF machine
<1>5. Sound(machine)
  BY <1>2, <1>3 DEF Sound
<1>6. machine.labelSheetOpen => Sound(ReduceOnce(machine, Unlabelled, id, DefaultSettings))
  <2>1. DefaultSettings \in TimerSettings
    BY SettingsAssumption
  <2> QED
    BY <1>2, <1>4, <1>5, <2>1, UnlabelledEvent, UnlabelledFits, ReduceOnceSound
<1> QED
  BY <1>1, <1>5, <1>6

LEMMA SavedUnlabelled ==
  ASSUME TypeOK, BreakCarriesNoLabel, NEW saves \in Seq(SaveEffects), UnlabelledBreaks(saves)
  PROVE  \A i \in DOMAIN (saved \o Payloads(saves)) :
           (saved \o Payloads(saves))[i].kind \in BreakTypes
             => (saved \o Payloads(saves))[i].label = NoLabel
<1> DEFINE payloads == Payloads(saves)
<1>1. saved \in Seq(SavedBlocks) /\ payloads \in Seq(SavedBlocks)
  BY PayloadsType DEF TypeOK
<1>2. ASSUME NEW j \in DOMAIN payloads
      PROVE  payloads[j].kind \in BreakTypes => payloads[j].label = NoLabel
  <2>1. j \in DOMAIN saves /\ payloads[j] = Payload(saves[j])
    BY <1>2 DEF Payloads
  <2> QED
    BY <2>1 DEF Payload, UnlabelledBreaks
<1> SUFFICES ASSUME NEW i \in DOMAIN (saved \o payloads)
             PROVE  (saved \o payloads)[i].kind \in BreakTypes
                      => (saved \o payloads)[i].label = NoLabel
  OBVIOUS
<1> HIDE DEF payloads
<1>3. \/ i \in DOMAIN saved /\ (saved \o payloads)[i] = saved[i]
      \/ i - Len(saved) \in DOMAIN payloads /\ (saved \o payloads)[i] = payloads[i - Len(saved)]
  BY <1>1
<1> QED
  BY <1>2, <1>3 DEF BreakCarriesNoLabel

\* A commit of a sound machine leaves its tab settled and everything sound.
LEMMA CommitSound ==
  ASSUME ScreenInv, NEW t \in Tabs, NEW m \in Machines, Sound(m), CommitMachine(t, m)
  PROVE  /\ OnlyTicksRunAhead'
         /\ \A u \in Tabs : tab'[u] # Closed => Sound(tab'[u])
         /\ \A u \in Tabs : screen'[u] # Closed => Sound(screen'[u])
         /\ Plain(stored'.clock)
         /\ BreakCarriesNoLabel'
<1> DEFINE drained == [m EXCEPT !.pending = Drained]
<1>1. /\ tab' = [tab EXCEPT ![t] = drained] /\ screen' = [screen EXCEPT ![t] = drained]
      /\ stored' = [clock |-> ClockToStore(t, m), cycle |-> CycleToStore(t, m)]
      /\ saved' = saved \o Payloads(m.pending.saves)
  BY DEF CommitMachine
<1>2. drained \in Machines
  <2>1. Drained \in [saves : Seq(SaveEffects), alerts : Nat]
    BY DEF Drained
  <2> QED
    BY <2>1 DEF Machines
<1>3. Sound(drained)
  <2>1. /\ drained.timer = m.timer /\ drained.labelSheetOpen = m.labelSheetOpen
        /\ drained.pending = Drained
    BY DEF Machines
  <2>2. UnlabelledBreaks(Drained.saves)
    BY NoSaves DEF Drained
  <2> HIDE DEF drained
  <2> QED
    BY <2>1, <2>2 DEF Sound
<1>4. drained # Closed
  BY <1>2, OpenIsNotClosed
<1>5. tab'[t] = drained /\ screen'[t] = drained
  BY <1>1 DEF ScreenInv, TypeOK
<1>6. \A u \in Tabs \ {t} : tab'[u] = tab[u] /\ screen'[u] = screen[u]
  BY <1>1 DEF ScreenInv, TypeOK
<1> HIDE DEF drained
<1>7. OnlyTicksRunAhead'
  BY <1>4, <1>5, <1>6 DEF ScreenInv, OnlyTicksRunAhead
<1>8. /\ \A u \in Tabs : tab'[u] # Closed => Sound(tab'[u])
      /\ \A u \in Tabs : screen'[u] # Closed => Sound(screen'[u])
  BY <1>3, <1>5, <1>6 DEF ScreenInv
<1>9. Plain(stored'.clock)
  BY <1>1 DEF ClockToStore, Sound, ScreenInv
<1>10. BreakCarriesNoLabel'
  <2>1. m.pending.saves \in Seq(SaveEffects)
    BY DEF Machines
  <2> QED
    BY <1>1, <2>1, SavedUnlabelled DEF BreakCarriesNoLabel, Sound, ScreenInv
<1> QED
  BY <1>7, <1>8, <1>9, <1>10

-------------------------------------------------------------------------------
(* One lemma per kind of step.                                                 *)

\* An open screen's tab is open, and both hold machines.
LEMMA OpenMachines ==
  ASSUME ScreenInv, NEW t \in Tabs, screen[t] # Closed
  PROVE  tab[t] \in Machines /\ screen[t] \in Machines /\ Sound(tab[t]) /\ Sound(screen[t])
BY DEF ScreenInv, OnlyTicksRunAhead, TypeOK

\* Only a reset, on a settled screen without a block, forgets what was saved.
Forgets(t, event) ==
  IF event.kind = "resetCycle"
  THEN /\ tab[t] = screen[t] /\ screen[t].timer = NoBlock
       /\ forgotten' = {saved'[i].id : i \in DOMAIN saved'}
  ELSE forgotten' = forgotten

\* What a user's event is, and how it fits what the reducer holds.
LEMMA UserDispatches ==
  ASSUME ScreenInv, NEW t \in Tabs, User(t)
  PROVE  \E event \in Events :
           /\ Dispatch(t, event)
           /\ Fits(event, tab[t].timer)
           /\ screen[t] # Closed
           /\ starts' \in Nat /\ forgotten' \subseteq Nat
           /\ Forgets(t, event)
<1>1. Closed.timer.phase = "idle"
  BY DEF Closed, NoBlock
<1>2. TypeOK /\ (UNCHANGED <<starts, forgotten>> => starts' \in Nat /\ forgotten' \subseteq Nat)
  BY DEF ScreenInv, TypeOK
<1>3. CASE PressStart(t)
  <2>1. screen[t] \in Machines /\ settings[t] \in TimerSettings
    BY <1>2, <1>3, SettingsAssumption DEF PressStart, TypeOK
  <2>2. CurrentType(t) \in BlockTypes
    <3>1. screen[t].timer # NoBlock => screen[t].timer.type \in BlockTypes
      BY <2>1 DEF Machines, Timers, Blocks
    <3> QED
      BY <3>1, NextBreakTypeType DEF CurrentType, BlockTypes
  <2>3. [kind |-> "start", type |-> CurrentType(t)] \in Events
    BY <2>2 DEF Events
  <2>4. starts' \in Nat /\ forgotten' \subseteq Nat
    BY <1>2, <1>3 DEF PressStart, TypeOK
  <2>5. tab[t].timer = NoBlock
    <3>1. screen[t].timer.phase # "running"
      BY <1>3 DEF PressStart, NoBlock
    <3> QED
      BY <1>3, <3>1 DEF PressStart, ScreenInv, OnlyTicksRunAhead
  <2> QED
    BY <1>3, <2>3, <2>4, <2>5 DEF PressStart, Fits, Forgets
<1>4. CASE PressPause(t)
  <2>1. [kind |-> "pause"] \in Events
    BY DEF Events
  <2> QED
    BY <1>1, <1>2, <1>4, <2>1 DEF PressPause, Fits, Forgets
<1>5. CASE PressResume(t)
  <2>1. [kind |-> "resume"] \in Events
    BY DEF Events
  <2> QED
    BY <1>1, <1>2, <1>5, <2>1 DEF PressResume, Fits, Forgets
<1>6. CASE PressStop(t)
  <2>1. [kind |-> "stop"] \in Events
    BY DEF Events
  <2> QED
    BY <1>1, <1>2, <1>6, <2>1 DEF PressStop, Fits, Forgets
<1>7. CASE PressSkipBreak(t)
  <2>1. [kind |-> "skipBreak"] \in Events
    BY DEF Events
  <2> QED
    BY <1>1, <1>2, <1>7, <2>1 DEF PressSkipBreak, Fits, Forgets
<1>8. CASE DismissSheet(t)
  <2>1. PICK label \in Labels \cup {NoLabel} :
          Dispatch(t, [kind |-> "labelSave", label |-> label])
    BY <1>8 DEF DismissSheet
  <2>2. [kind |-> "labelSave", label |-> label] \in Events
    BY DEF Events
  <2>3. Ended(screen[t].timer)
    BY <1>8 DEF DismissSheet, ScreenInv, Sound
  <2>4. Ended(tab[t].timer)
    <3>1. screen[t].timer.phase # "running"
      BY <2>3 DEF Ended
    <3> QED
      BY <1>8, <2>3, <3>1 DEF DismissSheet, ScreenInv, OnlyTicksRunAhead
  <2> QED
    BY <1>2, <1>8, <2>1, <2>2, <2>4 DEF DismissSheet, Fits, Forgets
<1>9. CASE PressResetCycle(t)
  <2>1. [kind |-> "resetCycle"] \in Events
    BY DEF Events
  <2>2. Dispatch(t, [kind |-> "resetCycle"]) /\ screen[t] # Closed /\ starts' = starts
        /\ forgotten' = {saved'[i].id : i \in DOMAIN saved'}
    BY <1>9 DEF PressResetCycle
  <2>3. starts' \in Nat /\ forgotten' \subseteq Nat
    <3>1. saved' \in Seq(SavedBlocks)
      BY <1>2, <2>1, <2>2, OpenMachines, DispatchType
    <3>2. \A i \in DOMAIN saved' : saved'[i] \in SavedBlocks
      BY <3>1
    <3> QED
      BY <1>2, <2>2, <3>2 DEF SavedBlocks, TypeOK
  <2>4. tab[t] = screen[t] /\ screen[t].timer = NoBlock
    <3>1. screen[t].timer = NoBlock /\ NoBlock.phase # "running"
      BY <1>9 DEF PressResetCycle, NoBlock
    <3> QED
      BY <2>2, <3>1 DEF ScreenInv, OnlyTicksRunAhead
  <2> QED
    BY <2>1, <2>2, <2>3, <2>4 DEF Fits, Forgets
<1> QED
  BY <1>3, <1>4, <1>5, <1>6, <1>7, <1>8, <1>9 DEF User

LEMMA UserKeeps ==
  ASSUME ScreenInv, NEW t \in Tabs, User(t)
  PROVE  ScreenInv'
<1>1. PICK event \in Events : /\ Dispatch(t, event) /\ Fits(event, tab[t].timer)
                              /\ screen[t] # Closed
                              /\ starts' \in Nat /\ forgotten' \subseteq Nat
  BY UserDispatches
<1>2. TypeOK /\ tab[t] \in Machines /\ Sound(tab[t])
  BY <1>1, OpenMachines DEF ScreenInv
<1>3. TypeOK'
  BY <1>1, <1>2, DispatchType DEF TypeOK
<1>4. settings[t] \in TimerSettings /\ nextId \in Nat
  BY <1>2, SettingsAssumption DEF TypeOK
<1> DEFINE m == Reduce(tab[t], event, nextId, settings[t])
<1>5. m \in Machines /\ Sound(m)
  BY <1>1, <1>2, <1>4, ReduceType, ReduceSound
<1>6. CommitMachine(t, m)
  BY <1>1 DEF Dispatch
<1> HIDE DEF m
<1> QED
  BY <1>3, <1>5, <1>6, CommitSound DEF ScreenInv

LEMMA OpenTabKeeps ==
  ASSUME ScreenInv, NEW t \in Tabs, OpenTab(t)
  PROVE  ScreenInv'
<1> DEFINE m == InitMachine(nextId)
<1>1. m \in Machines /\ Sound(m)
  BY InitMachineType, InitMachineSound DEF ScreenInv, TypeOK
<1>2. /\ tab' = [tab EXCEPT ![t] = m] /\ settings' = [settings EXCEPT ![t] = DefaultSettings]
      /\ opens' = opens + 1 /\ nextId' = IdAfter(tab'[t])
      /\ UNCHANGED <<now, backSteps, starts, screen, stored, saved, alerts, forgotten>>
      /\ tab[t] = Closed
  BY DEF OpenTab
<1> HIDE DEF m
<1>3. nextId' \in Nat
  BY <1>2, IdAfterType DEF ScreenInv
<1>4. TypeOK'
  BY <1>1, <1>2, <1>3 DEF ScreenInv, TypeOK
<1>5. tab'[t] = m /\ \A u \in Tabs \ {t} : tab'[u] = tab[u]
  BY <1>2 DEF ScreenInv, TypeOK
<1>6. screen[t] = Closed
  BY <1>2 DEF ScreenInv, OnlyTicksRunAhead
<1>7. OnlyTicksRunAhead'
  BY <1>2, <1>5, <1>6 DEF ScreenInv, OnlyTicksRunAhead
<1>8. \A u \in Tabs : tab'[u] # Closed => Sound(tab'[u])
  BY <1>1, <1>5 DEF ScreenInv
<1> QED
  BY <1>2, <1>4, <1>7, <1>8 DEF ScreenInv, BreakCarriesNoLabel

LEMMA CloseTabKeeps ==
  ASSUME ScreenInv, NEW t \in Tabs, CloseTab(t)
  PROVE  ScreenInv'
<1>1. /\ tab' = [tab EXCEPT ![t] = Closed] /\ screen' = [screen EXCEPT ![t] = Closed]
      /\ UNCHANGED <<now, backSteps, starts, opens, nextId, settings, stored, saved, alerts,
                     forgotten>>
  BY DEF CloseTab
<1>2. TypeOK'
  BY <1>1 DEF ScreenInv, TypeOK
<1>3. /\ tab'[t] = Closed /\ screen'[t] = Closed
      /\ \A u \in Tabs \ {t} : tab'[u] = tab[u] /\ screen'[u] = screen[u]
  BY <1>1 DEF ScreenInv, TypeOK
<1>4. OnlyTicksRunAhead'
  BY <1>3 DEF ScreenInv, OnlyTicksRunAhead
<1> QED
  BY <1>1, <1>2, <1>3, <1>4 DEF ScreenInv, BreakCarriesNoLabel

\* Commit and FetchSettings commit the machine as it stands.
LEMMA CommitKeeps ==
  ASSUME ScreenInv, NEW t \in Tabs, Commit(t) \/ FetchSettings(t)
  PROVE  ScreenInv'
<1>1. tab[t] \in Machines /\ Sound(tab[t])
  BY OpenMachines DEF Commit, FetchSettings, ScreenInv, TypeOK
<1>2. /\ CommitMachine(t, tab[t])
      /\ UNCHANGED <<now, backSteps, starts, opens, nextId, forgotten>>
  BY DEF Commit, FetchSettings
<1>3. settings' \in [Tabs -> {DefaultSettings} \cup AccountSettings]
  BY DEF Commit, FetchSettings, ScreenInv, TypeOK
<1>4. TypeOK'
  BY <1>1, <1>2, <1>3, CommitMachineType DEF ScreenInv, TypeOK
<1> QED
  BY <1>1, <1>2, <1>4, CommitSound DEF ScreenInv

LEMMA TickKeeps ==
  ASSUME ScreenInv, NEW t \in Tabs, Tick(t)
  PROVE  ScreenInv'
<1> DEFINE event == [kind |-> "tick"]
           m     == Reduce(tab[t], event, nextId, settings[t])
<1>1. /\ screen[t].timer.phase = "running" /\ tab' = [tab EXCEPT ![t] = m]
      /\ nextId' = IdAfter(tab'[t])
      /\ UNCHANGED <<now, backSteps, starts, opens, screen, settings, stored, saved, alerts,
                     forgotten>>
  BY DEF Tick
<1>2. screen[t] # Closed
  <2>1. Closed.timer.phase = "idle"
    BY DEF Closed, NoBlock
  <2> QED
    BY <1>1, <2>1
<1>3. /\ TypeOK /\ tab[t] \in Machines /\ Sound(tab[t])
      /\ settings[t] \in TimerSettings /\ nextId \in Nat
  BY <1>2, OpenMachines, SettingsAssumption DEF ScreenInv, TypeOK
<1>4. event \in Events /\ Fits(event, tab[t].timer)
  BY DEF Events, Fits
<1>5. m \in Machines /\ Sound(m)
  <2> HIDE DEF event
  <2> QED
    BY <1>3, <1>4, ReduceType, ReduceSound
<1>6. m # Closed
  BY <1>5, OpenIsNotClosed
<1> HIDE DEF m
<1>7. nextId' \in Nat
  BY <1>1, <1>3, IdAfterType
<1>8. TypeOK'
  BY <1>1, <1>3, <1>5, <1>7 DEF TypeOK
<1>9. tab'[t] = m /\ \A u \in Tabs \ {t} : tab'[u] = tab[u]
  BY <1>1, <1>3 DEF TypeOK
<1>10. OnlyTicksRunAhead'
  BY <1>1, <1>6, <1>9 DEF ScreenInv, OnlyTicksRunAhead
<1>11. \A u \in Tabs : tab'[u] # Closed => Sound(tab'[u])
  BY <1>5, <1>9 DEF ScreenInv
<1> QED
  BY <1>1, <1>8, <1>10, <1>11 DEF ScreenInv, BreakCarriesNoLabel

LEMMA ClockKeeps ==
  ASSUME ScreenInv, PassTime \/ SetClockBack \/ UNCHANGED vars
  PROVE  ScreenInv'
<1>1. /\ now' \in Nat /\ backSteps' \in Nat
      /\ UNCHANGED <<starts, opens, nextId, tabVars, stored, saved, alerts, forgotten>>
  BY DEF PassTime, SetClockBack, vars, tabVars, ScreenInv, TypeOK
<1>2. TypeOK'
  BY <1>1 DEF ScreenInv, TypeOK, tabVars
<1> QED
  BY <1>1, <1>2 DEF ScreenInv, OnlyTicksRunAhead, BreakCarriesNoLabel, tabVars

LEMMA ScreenInit == Init => ScreenInv
<1> SUFFICES ASSUME Init PROVE ScreenInv
  OBVIOUS
<1>1. DefaultSettings \in {DefaultSettings} \cup AccountSettings
  OBVIOUS
<1>2. TypeOK
  BY <1>1 DEF Init, TypeOK, Timers
<1> QED
  BY <1>2, NoBlockPlain DEF Init, ScreenInv, OnlyTicksRunAhead, BreakCarriesNoLabel

LEMMA ScreenStep == ScreenInv /\ [Next]_vars => ScreenInv'
<1> SUFFICES ASSUME ScreenInv, [Next]_vars PROVE ScreenInv'
  OBVIOUS
<1>1. CASE PassTime \/ SetClockBack \/ UNCHANGED vars
  BY <1>1, ClockKeeps
<1>2. ASSUME NEW t \in Tabs,
             OpenTab(t) \/ CloseTab(t) \/ Commit(t) \/ FetchSettings(t) \/ Tick(t) \/ User(t)
      PROVE  ScreenInv'
  BY <1>2, OpenTabKeeps, CloseTabKeeps, CommitKeeps, TickKeeps, UserKeeps
<1> QED
  BY <1>1, <1>2 DEF Next

LEMMA ScreenAlways == Spec => []ScreenInv
BY ScreenInit, ScreenStep, PTL DEF Spec

-------------------------------------------------------------------------------
(* The theorems.                                                               *)

\* Every variable keeps the type the code declares, through any interleaving
\* of tabs, ticks, late settings, reloads and clock corrections.
THEOREM TypeCorrect == Spec => []TypeOK
<1>1. ScreenInv => TypeOK
  BY DEF ScreenInv
<1> QED
  BY <1>1, ScreenAlways, PTL

\* The label sheet is up exactly while a focus block waits to be saved, in
\* every tab and however many ticks, tabs and reloads come in between.
THEOREM SheetFollowsBlock == Spec => []SheetIffEnded
<1>1. ScreenInv => SheetIffEnded
  BY DEF ScreenInv, SheetIffEnded, Sound, Ended
<1> QED
  BY <1>1, ScreenAlways, PTL

\* No break is ever saved with a label, though labelSave has no such check.
THEOREM BreaksUnlabelled == Spec => []BreakCarriesNoLabel
<1>1. ScreenInv => BreakCarriesNoLabel
  BY DEF ScreenInv
<1> QED
  BY <1>1, ScreenAlways, PTL

-------------------------------------------------------------------------------
(* Intervals: in order, each but the last closed, nothing after the instant. *)

Neat(s, at) ==
  /\ s # << >>
  /\ \A i \in 1 .. Len(s) :
       /\ s[i].startedAt <= at
       /\ i < Len(s) => s[i].endedAt # Open
       /\ s[i].endedAt # Open => s[i].startedAt <= s[i].endedAt /\ s[i].endedAt <= at
       /\ i > 1 => s[i - 1].endedAt <= s[i].startedAt

Shut(s) == \A i \in 1 .. Len(s) : s[i].endedAt # Open

\* A held block: only one that runs has an interval open.
NeatBlock(block, at) ==
  block # NoBlock => Neat(block.intervals, at) /\ (block.phase # "running" => Shut(block.intervals))

NeatSaves(saves, at) ==
  \A i \in DOMAIN saves : Neat(saves[i].state.intervals, at) /\ Shut(saves[i].state.intervals)

\* Closing a block closes its last interval and moves no start.
LEMMA CloseBlockNeat ==
  ASSUME NEW s \in Seq(Intervals), NEW at \in Nat, Neat(s, at)
  PROVE  Neat(CloseBlock(s, at).intervals, at) /\ Shut(CloseBlock(s, at).intervals)
<1> DEFINE n   == Len(s)
           end == IF n # 0 /\ s[n].endedAt # Open THEN s[n].endedAt ELSE at
           out == [s EXCEPT ![n].endedAt = end]
<1>1. n \in Nat /\ n # 0 /\ DOMAIN s = 1 .. n /\ \A i \in 1 .. n : s[i] \in Intervals
  BY DEF Neat
<1>2. CloseBlock(s, at).intervals = out
  BY <1>1 DEF CloseBlock
<1>3. end \in Nat /\ end # Open /\ s[n].startedAt <= end /\ end <= at
  BY <1>1 DEF Neat, Intervals, Open
<1> HIDE DEF end
<1>4. /\ DOMAIN out = 1 .. n /\ Len(out) = n /\ out # << >>
      /\ \A i \in 1 .. n : out[i].startedAt = s[i].startedAt
      /\ \A i \in 1 .. n : i # n => out[i].endedAt = s[i].endedAt
      /\ out[n].endedAt = end
  <2>1. DOMAIN out = 1 .. n /\ \A i \in 1 .. n : out[i] = IF i = n THEN [s[n] EXCEPT !.endedAt = end] ELSE s[i]
    BY <1>1
  <2>2. out \in Seq(Intervals)
    <3>1. [s[n] EXCEPT !.endedAt = end] \in Intervals
      BY <1>1, <1>3 DEF Intervals
    <3>2. out = [s EXCEPT ![n] = [s[n] EXCEPT !.endedAt = end]]
      BY <1>1
    <3> QED
      BY <1>1, <3>1, <3>2
  <2>3. Len(out) = n
    BY <1>1, <2>1, <2>2
  <2>4. \A i \in 1 .. n : /\ out[i].startedAt = s[i].startedAt
                         /\ out[i].endedAt = IF i = n THEN end ELSE s[i].endedAt
    BY <1>1, <2>1 DEF Intervals
  <2> HIDE DEF out
  <2> QED
    BY <1>1, <2>1, <2>3, <2>4
<1> HIDE DEF out
<1>5. \A i \in 1 .. n : /\ s[i].startedAt \in Nat /\ s[i].endedAt \in Nat \cup {Open}
  BY <1>1 DEF Intervals
<1>6. n \in Nat
  BY <1>1
<1>7. \A i \in 1 .. n : i # n => i < n
  BY <1>6
<1>8. Shut(out)
  <2> SUFFICES ASSUME NEW i \in 1 .. n PROVE out[i].endedAt # Open
    BY <1>4 DEF Shut
  <2>1. i # n => s[i].endedAt # Open
    BY <1>7 DEF Neat
  <2> QED
    BY <1>3, <1>4, <2>1
<1>9. Neat(out, at)
  <2> SUFFICES ASSUME NEW i \in 1 .. n
               PROVE  /\ out[i].startedAt <= at
                      /\ out[i].startedAt <= out[i].endedAt /\ out[i].endedAt <= at
                      /\ i > 1 => out[i - 1].endedAt <= out[i].startedAt
    BY <1>4, <1>8 DEF Neat, Shut
  <2>1. i > 1 => i - 1 \in 1 .. n /\ i - 1 # n
    BY <1>1
  <2>2. i > 1 => out[i - 1].endedAt <= out[i].startedAt
    BY <1>1, <1>4, <2>1 DEF Neat
  <2>3. out[i].startedAt <= at /\ out[i].startedAt <= out[i].endedAt /\ out[i].endedAt <= at
    <3>1. CASE i = n
      BY <1>1, <1>3, <1>4, <1>5, <3>1 DEF Neat
    <3>2. CASE i # n
      <4>1. i < Len(s)
        BY <1>7, <3>2
      <4> QED
        BY <1>1, <1>4, <1>5, <3>2, <4>1 DEF Neat
    <3> QED
      BY <3>1, <3>2
  <2> QED
    BY <2>2, <2>3
<1> QED
  BY <1>2, <1>8, <1>9

\* Resuming after the last interval is closed opens another one.
LEMMA ResumedNeat ==
  ASSUME NEW s \in Seq(Intervals), NEW at \in Nat, Neat(s, at), Shut(s)
  PROVE  Neat(Append(s, [startedAt |-> at, endedAt |-> Open]), at)
<1> DEFINE new == [startedAt |-> at, endedAt |-> Open]
           out == Append(s, new)
           n   == Len(s)
<1>1. /\ n \in Nat /\ Len(out) = n + 1 /\ out # << >>
      /\ \A i \in 1 .. n : out[i] = s[i] /\ s[i] \in Intervals
      /\ out[n + 1] = new
  <2> HIDE DEF new
  <2> QED
    OBVIOUS
<1>2. new.startedAt = at /\ new.endedAt = Open
  OBVIOUS
<1> HIDE DEF out, new
<1> SUFFICES ASSUME NEW i \in 1 .. n + 1
             PROVE  /\ out[i].startedAt <= at
                    /\ i < n + 1 => out[i].endedAt # Open
                    /\ out[i].endedAt # Open => out[i].startedAt <= out[i].endedAt /\ out[i].endedAt <= at
                    /\ i > 1 => out[i - 1].endedAt <= out[i].startedAt
  BY <1>1 DEF Neat, out, new
<1>3. CASE i \in 1 .. n
  <2>1. i > 1 => i - 1 \in 1 .. n
    BY <1>1, <1>3
  <2> QED
    BY <1>1, <1>3, <2>1 DEF Neat, Shut
<1>4. CASE i = n + 1
  <2>1. i > 1 => i - 1 = n /\ n \in 1 .. n
    BY <1>1, <1>4
  <2>2. n \in 1 .. n => s[n].endedAt # Open /\ s[n].endedAt <= at
    BY <1>1 DEF Neat, Shut
  <2> QED
    BY <1>1, <1>2, <1>4, <2>1, <2>2
<1> QED
  BY <1>1, <1>3, <1>4

LEMMA NewBlockNeat ==
  ASSUME NEW id, NEW type, NEW at \in Nat, NEW set, NEW completed
  PROVE  NeatBlock(NewBlock(id, type, at, set, completed), at)
<1> DEFINE s == << [startedAt |-> at, endedAt |-> Open] >>
<1>1. Len(s) = 1 /\ s # << >> /\ s[1].startedAt = at /\ s[1].endedAt = Open
  OBVIOUS
<1>2. NewBlock(id, type, at, set, completed).intervals = s
  BY DEF NewBlock
<1>3. NewBlock(id, type, at, set, completed).phase = "running"
  BY DEF NewBlock
<1> HIDE DEF s
<1>4. Neat(s, at)
  BY <1>1 DEF Neat
<1> QED
  BY <1>2, <1>3, <1>4 DEF NeatBlock

\* Whatever the event, blocks stay neat and what is to be saved is closed.
LEMMA NeatTransition ==
  ASSUME NEW block \in Timers, NEW event \in Events, NEW at \in Nat, NEW id \in Nat,
         NEW set \in TimerSettings, NEW completed \in Nat, NEW pendingBreak \in BOOLEAN,
         NeatBlock(block, at)
  PROVE  LET result == Transition(block, event, at, id, set, completed, pendingBreak)
         IN  NeatBlock(result.state, at) /\ NeatSaves(result.effects.saves, at)
<1> DEFINE result == Transition(block, event, at, id, set, completed, pendingBreak)
           closed == CloseBlock(block.intervals, at)
<1>1. block # NoBlock => block \in Blocks
  BY DEF Timers
<1>2. block = NoBlock => block.phase = "idle"
  BY DEF NoBlock
<1>3. block # NoBlock => Neat(closed.intervals, at) /\ Shut(closed.intervals)
  BY <1>1, CloseBlockNeat DEF NeatBlock, Blocks
<1>4. NeatBlock(NoBlock, at) /\ NeatSaves(<< >>, at)
  BY DEF NeatBlock, NeatSaves
<1>5. ASSUME NEW save, Neat(save.state.intervals, at), Shut(save.state.intervals)
      PROVE  NeatSaves(<< save >>, at)
  <2>1. \A i \in DOMAIN << save >> : << save >>[i] = save
    OBVIOUS
  <2> QED
    BY <1>5, <2>1 DEF NeatSaves
<1>6. ASSUME NEW state, NEW effects, NeatBlock(state, at), NeatSaves(effects.saves, at),
             result = Result(state, effects)
      PROVE  NeatBlock(result.state, at) /\ NeatSaves(result.effects.saves, at)
  <2> HIDE DEF result
  <2> QED
    BY <1>6 DEF Result
<1>7. result = Ignored(block) => NeatBlock(result.state, at) /\ NeatSaves(result.effects.saves, at)
  <2> HIDE DEF result
  <2> QED
    BY <1>4, EffectsOfSaves DEF Ignored, Result
<1>8. ASSUME NEW status, block # NoBlock
      PROVE  NeatBlock(PrepareFocusEnd(block, at, status), at)
  <2>1. PrepareFocusEnd(block, at, status).intervals = closed.intervals
    BY <1>1, <1>8 DEF PrepareFocusEnd, Blocks
  <2> QED
    BY <1>3, <1>8, <2>1 DEF NeatBlock
<1>9. ASSUME NEW save, save.state.intervals = closed.intervals, block # NoBlock
      PROVE  NeatSaves(<< save >>, at)
  BY <1>3, <1>5, <1>9
<1> HIDE DEF closed
<1> SUFFICES NeatBlock(result.state, at) /\ NeatSaves(result.effects.saves, at)
  BY DEF result
<1>10. CASE event.kind = "start"
  <2> DEFINE new     == NewBlock(id, event.type, at, set, completed)
             effects == IF pendingBreak THEN SetCycle(completed, FALSE) ELSE NoEffects
  <2>1. result = Result(new, effects)
    BY <1>10 DEF Transition, OnStart
  <2>2. NeatBlock(new, at)
    BY NewBlockNeat
  <2>3. NeatSaves(effects.saves, at)
    BY <1>4, EffectsOfSaves
  <2> HIDE DEF new, effects, result
  <2> QED
    BY <1>6, <2>1, <2>2, <2>3
<1>11. CASE event.kind = "pause"
  <2>1. result = OnPause(block, at)
    BY <1>11 DEF Transition
  <2>2. CASE block.phase = "running"
    <3> DEFINE next == [block EXCEPT !.phase = "paused", !.intervals = CloseBlock(@, at).intervals]
    <3>1. result = Ignored(next)
      BY <2>1, <2>2 DEF OnPause
    <3>2. block # NoBlock /\ next.intervals = closed.intervals
      BY <1>1, <1>2, <2>2 DEF Blocks, closed
    <3>3. NeatBlock(next, at)
      BY <1>3, <3>2 DEF NeatBlock
    <3> HIDE DEF next, result
    <3> QED
      BY <1>4, <1>6, <3>1, <3>3, EffectsOfSaves DEF Ignored
  <2> QED
    BY <1>7, <2>1, <2>2 DEF OnPause
<1>12. CASE event.kind = "resume"
  <2>1. result = OnResume(block, at)
    BY <1>12 DEF Transition
  <2>2. CASE block.phase = "paused"
    <3> DEFINE new  == [startedAt |-> at, endedAt |-> Open]
               next == [block EXCEPT !.phase = "running", !.intervals = Append(@, new)]
    <3>1. result = Ignored(next)
      BY <2>1, <2>2 DEF OnResume
    <3>2. /\ block # NoBlock /\ next.intervals = Append(block.intervals, new)
          /\ next.phase = "running"
      BY <1>1, <1>2, <2>2 DEF Blocks
    <3>3. Neat(Append(block.intervals, new), at)
      <4>1. block.intervals \in Seq(Intervals) /\ Neat(block.intervals, at) /\ Shut(block.intervals)
        BY <1>1, <2>2, <3>2 DEF NeatBlock, Blocks
      <4> QED
        BY <4>1, ResumedNeat
    <3>4. NeatBlock(next, at)
      BY <3>2, <3>3 DEF NeatBlock
    <3> HIDE DEF next, result
    <3> QED
      BY <1>4, <1>6, <3>1, <3>4, EffectsOfSaves DEF Ignored
  <2> QED
    BY <1>7, <2>1, <2>2 DEF OnResume
<1>13. CASE event.kind = "stop"
  <2>1. result = OnStop(block, at)
    BY <1>13 DEF Transition
  <2>2. CASE block.phase \in {"idle", "ended"}
    BY <1>7, <2>1, <2>2 DEF OnStop
  <2>3. CASE block.phase \notin {"idle", "ended"} /\ EndsOnSheet(block)
    <3>1. result = Result(PrepareFocusEnd(block, at, "aborted"), SheetAndAlert)
      BY <2>1, <2>3 DEF OnStop
    <3> HIDE DEF result
    <3> QED
      BY <1>2, <1>4, <1>6, <1>8, <2>3, <3>1, EffectsOfSaves
  <2>4. CASE block.phase \notin {"idle", "ended"} /\ ~EndsOnSheet(block)
    <3> DEFINE save == SaveEffect([block EXCEPT !.phase = "ended", !.blockStatus = "aborted",
                                                !.intervals = closed.intervals], closed.endedAt)
    <3>1. result = Result(NoBlock, SaveAndAlert(save))
      BY <2>1, <2>4 DEF OnStop, closed
    <3>2. block # NoBlock /\ save.state.intervals = closed.intervals
      BY <1>1, <1>2, <2>4 DEF SaveEffect, Blocks
    <3> HIDE DEF save, result
    <3> QED
      BY <1>4, <1>6, <1>9, <3>1, <3>2, EffectsOfSaves
  <2> QED
    BY <2>2, <2>3, <2>4
<1>14. CASE event.kind = "labelSave"
  <2>1. result = OnLabelSave(block, event.label, at, id, set)
    BY <1>14 DEF Transition
  <2>2. CASE block # NoBlock
    <3> DEFINE save  == SaveEffect([block EXCEPT !.label = event.label,
                                                 !.intervals = closed.intervals], closed.endedAt)
               count == block.focusBlocksCompleted + 1
               auto  == set.autoStartBreaks /\ block.blockStatus = "completed"
               next  == IF auto
                        THEN NewBlock(id, NextBreakType(count, set.blocksPerCycle), at, set, count)
                        ELSE NoBlock
    <3>1. result = Result(next, SaveAndAdvance(save, count, ~auto))
      BY <2>1, <2>2 DEF OnLabelSave, closed
    <3>2. NeatBlock(next, at)
      BY <1>4, NewBlockNeat
    <3>3. save.state.intervals = closed.intervals
      BY <1>1, <2>2 DEF SaveEffect, Blocks
    <3> HIDE DEF save, next, auto, count, result
    <3> QED
      BY <1>6, <1>9, <2>2, <3>1, <3>2, <3>3, EffectsOfSaves
  <2> QED
    BY <1>7, <2>1, <2>2 DEF OnLabelSave
<1>15. CASE event.kind = "skipBreak"
  <2>1. result \in {Result(NoBlock, NoEffects), Result(NoBlock, SetCycle(completed, FALSE)), Ignored(block)}
    BY <1>15 DEF Transition, OnSkipBreak
  <2> HIDE DEF result
  <2> QED
    BY <1>4, <1>6, <1>7, <2>1, EffectsOfSaves
<1>16. CASE event.kind = "resetCycle"
  <2>1. result \in {Result(NoBlock, SetCycle(0, FALSE)), Ignored(block)}
    BY <1>16 DEF Transition, OnResetCycle
  <2> HIDE DEF result
  <2> QED
    BY <1>4, <1>6, <1>7, <2>1, EffectsOfSaves
<1>17. CASE event.kind = "tick"
  <2>1. result = OnTick(block, at, id, set, completed)
    BY <1>17 DEF Transition
  <2>2. CASE TickGate(block) /\ TimeIsUp(Overrun(block, at)) /\ EndsOnSheet(block)
    <3>1. result = Result(PrepareFocusEnd(block, at, "completed"), SheetAndAlert) /\ block # NoBlock
      BY <1>2, <2>1, <2>2 DEF OnTick, TickGate
    <3> HIDE DEF result
    <3> QED
      BY <1>4, <1>6, <1>8, <3>1, EffectsOfSaves
  <2>3. CASE TickGate(block) /\ TimeIsUp(Overrun(block, at)) /\ ~EndsOnSheet(block)
    <3> DEFINE save == SaveEffect([block EXCEPT !.intervals = closed.intervals], closed.endedAt)
               auto == set.autoStartNext /\ WithinGrace(Overrun(block, at))
               next == IF auto THEN NewBlock(id, "focus", at, set, completed) ELSE NoBlock
    <3>1. result = Result(next, SaveAndAlert(save))
      BY <2>1, <2>3 DEF OnTick, closed
    <3>2. NeatBlock(next, at)
      <4> HIDE DEF auto
      <4> QED
        BY <1>4, NewBlockNeat
    <3>3. block # NoBlock /\ save.state.intervals = closed.intervals
      BY <1>1, <1>2, <2>3 DEF SaveEffect, Blocks, TickGate
    <3> HIDE DEF save, next, result
    <3> QED
      BY <1>6, <1>9, <3>1, <3>2, <3>3, EffectsOfSaves
  <2>4. CASE ~(TickGate(block) /\ TimeIsUp(Overrun(block, at)))
    BY <1>7, <2>1, <2>4 DEF OnTick
  <2> QED
    BY <2>2, <2>3, <2>4
<1> QED
  BY <1>10, <1>11, <1>12, <1>13, <1>14, <1>15, <1>16, <1>17 DEF Events

LEMMA NeatLater ==
  ASSUME NEW s \in Seq(Intervals), NEW at \in Nat, NEW later \in Nat, at <= later, Neat(s, at)
  PROVE  Neat(s, later)
<1>1. \A i \in 1 .. Len(s) : s[i].startedAt \in Nat /\ s[i].endedAt \in Nat \cup {Open}
  <2>1. \A i \in 1 .. Len(s) : s[i] \in Intervals
    OBVIOUS
  <2> QED
    BY <2>1 DEF Intervals
<1> SUFFICES ASSUME NEW i \in 1 .. Len(s)
             PROVE  /\ s[i].startedAt <= later
                    /\ s[i].endedAt # Open => s[i].endedAt <= later
  BY DEF Neat
<1> QED
  BY <1>1 DEF Neat

LEMMA NeatConcat ==
  ASSUME NEW s1 \in Seq(SaveEffects), NEW s2 \in Seq(SaveEffects), NEW at,
         NeatSaves(s1, at), NeatSaves(s2, at)
  PROVE  NeatSaves(s1 \o s2, at)
<1> SUFFICES ASSUME NEW i \in DOMAIN (s1 \o s2)
             PROVE  Neat((s1 \o s2)[i].state.intervals, at) /\ Shut((s1 \o s2)[i].state.intervals)
  BY DEF NeatSaves
<1>1. \/ i \in DOMAIN s1 /\ (s1 \o s2)[i] = s1[i]
      \/ i - Len(s1) \in DOMAIN s2 /\ (s1 \o s2)[i] = s2[i - Len(s1)]
  OBVIOUS
<1> QED
  BY <1>1 DEF NeatSaves

-------------------------------------------------------------------------------
(* The machine of a tab, and what its commits hand on. *)

NeatMachine(m, at) == NeatBlock(m.timer, at) /\ NeatSaves(m.pending.saves, at)

NeatSaved(blocks, at) ==
  \A i \in DOMAIN blocks : Neat(blocks[i].intervals, at) /\ Shut(blocks[i].intervals)

NeatInv ==
  /\ \A t \in Tabs : tab[t] # Closed => NeatMachine(tab[t], now)
  /\ NeatBlock(stored.clock, now)
  /\ NeatSaved(saved, now)

LEMMA NeatReduceOnce ==
  ASSUME TypeOK, NEW m \in Machines, NeatMachine(m, now), NEW event \in Events,
         NEW id \in Nat, NEW set \in TimerSettings
  PROVE  NeatMachine(ReduceOnce(m, event, id, set), now)
<1> DEFINE result == Transition(m.timer, event, now, id, set, m.completed, m.pendingBreak)
           next   == ReduceOnce(m, event, id, set)
<1>1. /\ m.timer \in Timers /\ m.completed \in Nat /\ m.pendingBreak \in BOOLEAN
      /\ m.pending.saves \in Seq(SaveEffects) /\ now \in Nat
  BY DEF Machines, TypeOK
<1>2. result \in Results
  BY <1>1, TransitionType
<1>3. NeatBlock(result.state, now) /\ NeatSaves(result.effects.saves, now)
  BY <1>1, NeatTransition DEF NeatMachine
<1>4. next.timer = result.state /\ next.pending.saves = m.pending.saves \o result.effects.saves
  BY DEF ReduceOnce
<1> HIDE DEF result, next
<1>5. NeatSaves(m.pending.saves \o result.effects.saves, now)
  BY <1>1, <1>2, <1>3, NeatConcat DEF NeatMachine, Results, Effects
<1> QED
  BY <1>3, <1>4, <1>5 DEF NeatMachine, next

LEMMA NeatReduce ==
  ASSUME TypeOK, NEW m \in Machines, NeatMachine(m, now), NEW event \in Events,
         NEW id \in Nat, NEW set \in TimerSettings
  PROVE  NeatMachine(Reduce(m, event, id, set), now)
<1> DEFINE next == ReduceOnce(m, event, id, set)
<1>1. next \in Machines /\ NeatMachine(next, now)
  BY ReduceOnceType, NeatReduceOnce
<1>2. Reduce(m, event, id, set) =
        IF Guest /\ next.labelSheetOpen THEN ReduceOnce(next, Unlabelled, id, set) ELSE next
  BY DEF Reduce
<1> HIDE DEF next
<1>3. NeatMachine(ReduceOnce(next, Unlabelled, id, set), now)
  BY <1>1, UnlabelledEvent, NeatReduceOnce
<1> QED
  BY <1>1, <1>2, <1>3

LEMMA NeatInitMachine ==
  ASSUME TypeOK, NeatBlock(stored.clock, now), NEW id \in Nat
  PROVE  NeatMachine(InitMachine(id), now)
<1> DEFINE block   == stored.clock
           machine == [timer          |-> block,
                       completed      |-> IF stored.cycle # NoCycle THEN stored.cycle.completed
                                          ELSE IF block # NoBlock THEN block.focusBlocksCompleted
                                          ELSE 0,
                       pendingBreak   |-> stored.cycle.pendingBreak,
                       labelSheetOpen |-> SheetOnLoad(block),
                       pending        |-> Drained]
<1>1. InitMachine(id) = IF Guest /\ machine.labelSheetOpen
                        THEN ReduceOnce(machine, Unlabelled, id, DefaultSettings) ELSE machine
  BY DEF InitMachine
<1>2. machine \in Machines
  BY InitMachineParts
<1>3. NeatMachine(machine, now)
  BY DEF NeatMachine, NeatSaves, Drained
<1> HIDE DEF machine
<1>4. NeatMachine(ReduceOnce(machine, Unlabelled, id, DefaultSettings), now)
  <2>1. DefaultSettings \in TimerSettings
    BY SettingsAssumption
  <2> QED
    BY <1>2, <1>3, <2>1, UnlabelledEvent, NeatReduceOnce
<1> QED
  BY <1>1, <1>3, <1>4

\* The payload of a save with every interval closed keeps its intervals.
LEMMA PayloadOfShut ==
  ASSUME NEW effect \in SaveEffects, Shut(effect.state.intervals)
  PROVE  Payload(effect).intervals = effect.state.intervals
<1> DEFINE s == effect.state.intervals
           out == [i \in DOMAIN s |->
                     [s[i] EXCEPT !.endedAt = IF @ = Open THEN effect.endedAt ELSE @]]
<1>1. s \in Seq(Intervals) /\ DOMAIN s = 1 .. Len(s)
  BY DEF SaveEffects, Blocks
<1>2. \A i \in DOMAIN s : s[i] \in Intervals /\ s[i].endedAt # Open
  BY <1>1 DEF Shut
<1>3. Payload(effect).intervals = out
  BY DEF Payload
<1>4. \A i \in DOMAIN s : out[i] = s[i]
  BY <1>2 DEF Intervals
<1>5. DOMAIN out = DOMAIN s /\ out = [i \in DOMAIN s |-> out[i]] /\ s = [i \in DOMAIN s |-> s[i]]
  BY <1>1
<1> HIDE DEF out, s
<1> QED
  BY <1>3, <1>4, <1>5 DEF s

LEMMA NeatCommit ==
  ASSUME TypeOK, NeatInv, NEW t \in Tabs, NEW m \in Machines, NeatMachine(m, now),
         CommitMachine(t, m)
  PROVE  /\ \A u \in Tabs : tab'[u] # Closed => NeatMachine(tab'[u], now)
         /\ NeatBlock(stored'.clock, now)
         /\ NeatSaved(saved', now)
<1> DEFINE drained == [m EXCEPT !.pending = Drained]
           payloads == Payloads(m.pending.saves)
<1>1. /\ tab' = [tab EXCEPT ![t] = drained]
      /\ stored' = [clock |-> ClockToStore(t, m), cycle |-> CycleToStore(t, m)]
      /\ saved' = saved \o payloads
  BY DEF CommitMachine
<1>2. NeatMachine(drained, now)
  <2>1. drained.timer = m.timer /\ drained.pending.saves = << >>
    BY DEF Machines, Drained
  <2> QED
    BY <2>1 DEF NeatMachine, NeatSaves
<1>3. tab'[t] = drained /\ \A u \in Tabs \ {t} : tab'[u] = tab[u]
  BY <1>1 DEF TypeOK
<1>4. NeatBlock(stored'.clock, now)
  BY <1>1 DEF ClockToStore, NeatMachine, NeatInv
<1>5. m.pending.saves \in Seq(SaveEffects) /\ payloads \in Seq(SavedBlocks) /\ saved \in Seq(SavedBlocks)
  BY PayloadsType DEF Machines, TypeOK
<1>6. NeatSaved(payloads, now)
  <2> SUFFICES ASSUME NEW i \in DOMAIN payloads
               PROVE  Neat(payloads[i].intervals, now) /\ Shut(payloads[i].intervals)
    BY DEF NeatSaved
  <2>1. i \in DOMAIN m.pending.saves /\ payloads[i] = Payload(m.pending.saves[i])
    BY DEF Payloads
  <2>2. m.pending.saves[i] \in SaveEffects
    BY <1>5, <2>1
  <2>3. /\ Neat(m.pending.saves[i].state.intervals, now)
        /\ Shut(m.pending.saves[i].state.intervals)
    BY <2>1 DEF NeatMachine, NeatSaves
  <2> QED
    BY <2>1, <2>2, <2>3, PayloadOfShut
<1> HIDE DEF payloads, drained
<1>7. NeatSaved(saved \o payloads, now)
  <2> SUFFICES ASSUME NEW i \in DOMAIN (saved \o payloads)
               PROVE  /\ Neat((saved \o payloads)[i].intervals, now)
                      /\ Shut((saved \o payloads)[i].intervals)
    BY DEF NeatSaved
  <2>1. \/ i \in DOMAIN saved /\ (saved \o payloads)[i] = saved[i]
        \/ i - Len(saved) \in DOMAIN payloads /\ (saved \o payloads)[i] = payloads[i - Len(saved)]
    BY <1>5
  <2> QED
    BY <1>6, <2>1 DEF NeatSaved, NeatInv
<1> QED
  BY <1>1, <1>2, <1>3, <1>4, <1>7 DEF NeatInv

-------------------------------------------------------------------------------
(* Every step keeps intervals neat while the clock is never set back. *)

LEMMA UserNeat ==
  ASSUME ScreenInv, NeatInv, NEW t \in Tabs, User(t)
  PROVE  NeatInv'
<1>1. PICK event \in Events : Dispatch(t, event) /\ screen[t] # Closed
  BY UserDispatches
<1>2. TypeOK /\ tab[t] \in Machines /\ NeatMachine(tab[t], now)
  BY <1>1, OpenMachines, OpenIsNotClosed DEF ScreenInv, NeatInv
<1>3. settings[t] \in TimerSettings /\ nextId \in Nat
  BY <1>2, SettingsAssumption DEF TypeOK
<1> DEFINE m == Reduce(tab[t], event, nextId, settings[t])
<1>4. m \in Machines /\ NeatMachine(m, now)
  BY <1>2, <1>3, ReduceType, NeatReduce
<1>5. CommitMachine(t, m) /\ now' = now
  BY <1>1 DEF Dispatch, clockVars
<1> HIDE DEF m
<1> QED
  BY <1>2, <1>4, <1>5, NeatCommit DEF NeatInv

LEMMA OpenTabNeat ==
  ASSUME ScreenInv, NeatInv, NEW t \in Tabs, OpenTab(t)
  PROVE  NeatInv'
<1> DEFINE m == InitMachine(nextId)
<1>1. NeatMachine(m, now)
  BY NeatInitMachine DEF ScreenInv, TypeOK, NeatInv
<1>2. tab' = [tab EXCEPT ![t] = m] /\ UNCHANGED <<now, stored, saved>>
  BY DEF OpenTab
<1> HIDE DEF m
<1>3. tab'[t] = m /\ \A u \in Tabs \ {t} : tab'[u] = tab[u]
  BY <1>2 DEF ScreenInv, TypeOK
<1> QED
  BY <1>1, <1>2, <1>3 DEF NeatInv

LEMMA CloseTabNeat ==
  ASSUME ScreenInv, NeatInv, NEW t \in Tabs, CloseTab(t)
  PROVE  NeatInv'
<1>1. tab' = [tab EXCEPT ![t] = Closed] /\ UNCHANGED <<now, stored, saved>>
  BY DEF CloseTab
<1>2. tab'[t] = Closed /\ \A u \in Tabs \ {t} : tab'[u] = tab[u]
  BY <1>1 DEF ScreenInv, TypeOK
<1> QED
  BY <1>1, <1>2 DEF NeatInv

LEMMA CommitStepNeat ==
  ASSUME ScreenInv, NeatInv, NEW t \in Tabs, Commit(t) \/ FetchSettings(t)
  PROVE  NeatInv'
<1>1. tab[t] \in Machines
  BY OpenMachines DEF Commit, FetchSettings, ScreenInv, TypeOK
<1>2. NeatMachine(tab[t], now)
  BY <1>1, OpenIsNotClosed DEF NeatInv
<1>3. CommitMachine(t, tab[t]) /\ now' = now
  BY DEF Commit, FetchSettings
<1> QED
  BY <1>1, <1>2, <1>3, NeatCommit DEF NeatInv, ScreenInv

LEMMA TickNeat ==
  ASSUME ScreenInv, NeatInv, NEW t \in Tabs, Tick(t)
  PROVE  NeatInv'
<1> DEFINE event == [kind |-> "tick"]
           m     == Reduce(tab[t], event, nextId, settings[t])
<1>1. /\ screen[t].timer.phase = "running" /\ tab' = [tab EXCEPT ![t] = m]
      /\ UNCHANGED <<now, stored, saved>>
  BY DEF Tick
<1>2. screen[t] # Closed
  <2>1. Closed.timer.phase = "idle"
    BY DEF Closed, NoBlock
  <2> QED
    BY <1>1, <2>1
<1>3. /\ TypeOK /\ tab[t] \in Machines /\ NeatMachine(tab[t], now)
      /\ settings[t] \in TimerSettings /\ nextId \in Nat
  BY <1>2, OpenMachines, OpenIsNotClosed, SettingsAssumption DEF ScreenInv, TypeOK, NeatInv
<1>4. event \in Events
  BY DEF Events
<1>5. NeatMachine(m, now)
  <2> HIDE DEF event
  <2> QED
    BY <1>3, <1>4, NeatReduce
<1> HIDE DEF m
<1>6. tab'[t] = m /\ \A u \in Tabs \ {t} : tab'[u] = tab[u]
  BY <1>1, <1>3 DEF TypeOK
<1> QED
  BY <1>1, <1>5, <1>6 DEF NeatInv

LEMMA PassTimeNeat ==
  ASSUME ScreenInv, NeatInv, PassTime
  PROVE  NeatInv'
<1>1. now \in Nat /\ now' = now + 1 /\ UNCHANGED <<tab, stored, saved>>
  BY DEF PassTime, tabVars, ScreenInv, TypeOK
<1>2. ASSUME NEW s \in Seq(Intervals), Neat(s, now) PROVE Neat(s, now')
  <2>1. now' \in Nat /\ now <= now'
    BY <1>1
  <2> QED
    BY <1>2, <1>1, <2>1, NeatLater
<1>3. ASSUME NEW block \in Timers, NeatBlock(block, now) PROVE NeatBlock(block, now')
  <2>1. block # NoBlock => block.intervals \in Seq(Intervals)
    BY DEF Timers, Blocks
  <2> QED
    BY <1>2, <1>3, <2>1 DEF NeatBlock
<1>4. ASSUME NEW t \in Tabs, tab[t] # Closed PROVE NeatMachine(tab[t], now')
  <2>1. tab[t] \in Machines /\ NeatMachine(tab[t], now)
    BY <1>4 DEF NeatInv, ScreenInv, TypeOK
  <2>2. NeatSaves(tab[t].pending.saves, now')
    <3> DEFINE saves == tab[t].pending.saves
    <3>1. saves \in Seq(SaveEffects) /\ NeatSaves(saves, now)
      BY <2>1 DEF Machines, NeatMachine
    <3>2. \A i \in DOMAIN saves : saves[i].state.intervals \in Seq(Intervals)
      <4>1. \A i \in DOMAIN saves : saves[i] \in SaveEffects
        BY <3>1
      <4> QED
        BY <4>1 DEF SaveEffects, Blocks
    <3> HIDE DEF saves
    <3> QED
      BY <1>2, <3>1, <3>2 DEF NeatSaves, saves
  <2> QED
    BY <1>3, <2>1, <2>2 DEF NeatMachine, Machines
<1>5. NeatBlock(stored.clock, now')
  BY <1>3 DEF NeatInv, ScreenInv, TypeOK
<1>6. NeatSaved(saved, now')
  <2>1. \A i \in DOMAIN saved : saved[i].intervals \in Seq(Intervals)
    <3>1. \A i \in DOMAIN saved : saved[i] \in SavedBlocks
      BY DEF ScreenInv, TypeOK
    <3> QED
      BY <3>1 DEF SavedBlocks
  <2> QED
    BY <1>2, <2>1 DEF NeatSaved, NeatInv
<1> QED
  BY <1>1, <1>4, <1>5, <1>6 DEF NeatInv

LEMMA NeatStart == Init => NeatInv
BY DEF Init, NeatInv, NeatBlock, NeatSaved

\* The clock has not been set back, in a step that does not set it back now.
LEMMA StillForward ==
  ASSUME ScreenInv, [Next]_vars, backSteps' = 0
  PROVE  backSteps = 0 /\ ~SetClockBack
<1>1. ~SetClockBack
  BY DEF SetClockBack, ScreenInv, TypeOK
<1> SUFFICES backSteps = 0
  BY <1>1
<1>2. CASE PassTime \/ UNCHANGED vars
  BY <1>2 DEF PassTime, vars
<1>3. ASSUME NEW t \in Tabs, OpenTab(t) \/ CloseTab(t) \/ Commit(t) \/ FetchSettings(t) \/ Tick(t)
      PROVE  backSteps = 0
  BY <1>3 DEF OpenTab, CloseTab, Commit, FetchSettings, Tick
<1>4. ASSUME NEW t \in Tabs, User(t) PROVE backSteps = 0
  <2>1. PICK event \in Events : Dispatch(t, event)
    BY <1>4, UserDispatches
  <2> QED
    BY <2>1 DEF Dispatch, clockVars
<1> QED
  BY <1>1, <1>2, <1>3, <1>4 DEF Next

NeatSoFar == backSteps = 0 => NeatInv

LEMMA NeatStep == ScreenInv /\ NeatSoFar /\ [Next]_vars => NeatSoFar'
<1> SUFFICES ASSUME ScreenInv, NeatSoFar, [Next]_vars, backSteps' = 0 PROVE NeatInv'
  BY DEF NeatSoFar
<1>1. NeatInv /\ ~SetClockBack
  BY StillForward DEF NeatSoFar
<1>2. CASE PassTime
  BY <1>1, <1>2, PassTimeNeat
<1>3. CASE UNCHANGED vars
  BY <1>1, <1>3 DEF vars, NeatInv
<1>4. ASSUME NEW t \in Tabs,
             OpenTab(t) \/ CloseTab(t) \/ Commit(t) \/ FetchSettings(t) \/ Tick(t) \/ User(t)
      PROVE  NeatInv'
  BY <1>1, <1>4, OpenTabNeat, CloseTabNeat, CommitStepNeat, TickNeat, UserNeat
<1> QED
  BY <1>1, <1>2, <1>3, <1>4 DEF Next

LEMMA NeatAlways == Spec => []NeatSoFar
<1>1. Init => NeatSoFar
  BY NeatStart DEF NeatSoFar
<1> QED
  BY <1>1, NeatStep, ScreenAlways, PTL DEF Spec

\* Until the clock is set back, every saved block's intervals are closed, in order
\* and apart: whatever tabs, ticks, pauses and reloads it went through.
THEOREM SegmentsOfSaves == Spec => []SavedSegmentsSound
<1>1. ScreenInv /\ NeatSoFar => SavedSegmentsSound
  <2> SUFFICES ASSUME ScreenInv, NeatInv, NEW i \in DOMAIN saved
               PROVE  SegmentsSound(saved[i].intervals)
    BY DEF SavedSegmentsSound, NeatSoFar
  <2>1. saved[i].intervals \in Seq(Intervals)
    <3>1. saved[i] \in SavedBlocks
      BY DEF ScreenInv, TypeOK
    <3> QED
      BY <3>1 DEF SavedBlocks
  <2>2. Neat(saved[i].intervals, now) /\ Shut(saved[i].intervals)
    BY DEF NeatInv, NeatSaved
  <2> QED
    BY <2>1, <2>2 DEF Neat, Shut, SegmentsSound
<1> QED
  BY <1>1, NeatAlways, ScreenAlways, PTL

-------------------------------------------------------------------------------
(* A guest's screen: a focus block that ends is saved in the same step. *)

\* A block that ends and waits for its label is the focus block that ran.
EndedInPlace(block, result) ==
  result.state.phase = "ended" =>
    /\ block # NoBlock /\ block.type = "focus"
    /\ result.state.type = "focus" /\ result.state.id = block.id
    /\ result.effects.setCycle = << >>

LEMMA OnlyFocusEnds ==
  ASSUME NEW block \in Timers, block.phase # "ended", NEW event \in Events, NEW at \in Nat,
         NEW id \in Nat, NEW set \in TimerSettings, NEW completed \in Nat,
         NEW pendingBreak \in BOOLEAN
  PROVE  EndedInPlace(block, Transition(block, event, at, id, set, completed, pendingBreak))
<1> DEFINE result == Transition(block, event, at, id, set, completed, pendingBreak)
<1>1. NoBlock.phase # "ended"
  BY DEF NoBlock
<1>2. block.phase # "idle" => block \in Blocks /\ block # NoBlock
  BY DEF Timers, NoBlock
<1>3. ASSUME NEW type, NEW count PROVE NewBlock(id, type, at, set, count).phase # "ended"
  BY DEF NewBlock
<1>4. ASSUME NEW state, NEW effects, state.phase # "ended"
      PROVE  EndedInPlace(block, Result(state, effects))
  BY <1>4 DEF EndedInPlace, Result
<1>5. EndedInPlace(block, Ignored(block))
  BY <1>4 DEF Ignored
<1>6. ASSUME NEW status, block.phase # "idle", EndsOnSheet(block)
      PROVE  EndedInPlace(block, Result(PrepareFocusEnd(block, at, status), SheetAndAlert))
  <2>1. SheetAndAlert.setCycle = << >>
    BY DEF SheetAndAlert, NoEffects
  <2>2. block \in Blocks /\ block # NoBlock /\ block.type = "focus"
    BY <1>2, <1>6 DEF EndsOnSheet
  <2> DEFINE next == PrepareFocusEnd(block, at, status)
  <2>3. next.type = block.type /\ next.id = block.id
    BY <2>2 DEF PrepareFocusEnd, Blocks
  <2> HIDE DEF next
  <2>4. EndedInPlace(block, Result(next, SheetAndAlert))
    BY <2>1, <2>2, <2>3 DEF EndedInPlace, Result
  <2> QED
    BY <2>4 DEF next
<1> SUFFICES EndedInPlace(block, result)
  OBVIOUS
<1>7. CASE event.kind = "start"
  <2> DEFINE new == NewBlock(id, event.type, at, set, completed)
             effects == IF pendingBreak THEN SetCycle(completed, FALSE) ELSE NoEffects
  <2>1. result = Result(new, effects)
    BY <1>7 DEF Transition, OnStart
  <2>2. new.phase # "ended"
    BY <1>3
  <2> HIDE DEF result, new, effects
  <2> QED
    BY <1>4, <2>1, <2>2
<1>8. CASE event.kind = "pause"
  <2> DEFINE paused == [block EXCEPT !.phase = "paused", !.intervals = CloseBlock(@, at).intervals]
  <2>1. result = IF block.phase # "running" THEN Ignored(block) ELSE Result(paused, NoEffects)
    BY <1>8 DEF Transition, OnPause, Ignored
  <2>2. block.phase = "running" => paused.phase = "paused"
    BY <1>2 DEF Blocks
  <2> HIDE DEF result, paused
  <2> QED
    BY <1>4, <1>5, <2>1, <2>2
<1>9. CASE event.kind = "resume"
  <2> DEFINE resumed == [block EXCEPT !.phase = "running",
                                      !.intervals = Append(@, [startedAt |-> at, endedAt |-> Open])]
  <2>1. result = IF block.phase # "paused" THEN Ignored(block) ELSE Result(resumed, NoEffects)
    BY <1>9 DEF Transition, OnResume, Ignored
  <2>2. block.phase = "paused" => resumed.phase = "running"
    BY <1>2 DEF Blocks
  <2> HIDE DEF result, resumed
  <2> QED
    BY <1>4, <1>5, <2>1, <2>2
<1>10. CASE event.kind = "stop"
  <2>1. result = OnStop(block, at)
    BY <1>10 DEF Transition
  <2>2. CASE block.phase = "idle"
    BY <1>5, <2>1, <2>2 DEF OnStop
  <2>3. CASE block.phase # "idle" /\ EndsOnSheet(block)
    <3>1. result = Result(PrepareFocusEnd(block, at, "aborted"), SheetAndAlert)
      BY <2>1, <2>3 DEF OnStop
    <3> HIDE DEF result
    <3> QED
      BY <1>6, <2>3, <3>1
  <2>4. CASE block.phase # "idle" /\ ~EndsOnSheet(block)
    <3>1. \E effects : result = Result(NoBlock, effects)
      BY <2>1, <2>4 DEF OnStop
    <3> HIDE DEF result
    <3> QED
      BY <1>1, <1>4, <3>1
  <2> QED
    BY <2>2, <2>3, <2>4
<1>11. CASE event.kind = "labelSave"
  <2> DEFINE count == block.focusBlocksCompleted + 1
             next  == NewBlock(id, NextBreakType(count, set.blocksPerCycle), at, set, count)
  <2>1. result = OnLabelSave(block, event.label, at, id, set)
    BY <1>11 DEF Transition
  <2>2. result = Ignored(block) \/ \E effects : result \in {Result(NoBlock, effects), Result(next, effects)}
    BY <2>1 DEF OnLabelSave
  <2>3. next.phase # "ended"
    BY <1>3
  <2> HIDE DEF result, next
  <2> QED
    BY <1>1, <1>4, <1>5, <2>2, <2>3
<1>12. CASE event.kind = "skipBreak"
  <2>1. result = Ignored(block) \/ \E effects : result = Result(NoBlock, effects)
    BY <1>12 DEF Transition, OnSkipBreak
  <2> HIDE DEF result
  <2> QED
    BY <1>1, <1>4, <1>5, <2>1
<1>13. CASE event.kind = "resetCycle"
  <2>1. result = Ignored(block) \/ \E effects : result = Result(NoBlock, effects)
    BY <1>13 DEF Transition, OnResetCycle
  <2> HIDE DEF result
  <2> QED
    BY <1>1, <1>4, <1>5, <2>1
<1>14. CASE event.kind = "tick"
  <2>1. result = OnTick(block, at, id, set, completed)
    BY <1>14 DEF Transition
  <2>2. CASE TickGate(block) /\ TimeIsUp(Overrun(block, at)) /\ EndsOnSheet(block)
    <3>1. result = Result(PrepareFocusEnd(block, at, "completed"), SheetAndAlert)
      BY <2>1, <2>2 DEF OnTick
    <3> HIDE DEF result
    <3> QED
      BY <1>6, <2>2, <3>1 DEF TickGate
  <2>3. CASE TickGate(block) /\ TimeIsUp(Overrun(block, at)) /\ ~EndsOnSheet(block)
    <3> DEFINE new == NewBlock(id, "focus", at, set, completed)
    <3>1. \E effects : result \in {Result(NoBlock, effects), Result(new, effects)}
      BY <2>1, <2>3 DEF OnTick
    <3>2. new.phase # "ended"
      BY <1>3
    <3> HIDE DEF result, new
    <3> QED
      BY <1>1, <1>4, <3>1, <3>2
  <2>4. CASE ~(TickGate(block) /\ TimeIsUp(Overrun(block, at)))
    BY <1>5, <2>1, <2>4 DEF OnTick
  <2> QED
    BY <2>2, <2>3, <2>4
<1> QED
  BY <1>7, <1>8, <1>9, <1>10, <1>11, <1>12, <1>13, <1>14 DEF Events

\* The sheet's label leaves no ended block behind.
LEMMA LabelLeavesNothing ==
  ASSUME NEW m \in Machines, m.timer # NoBlock, NEW id, NEW set
  PROVE  LET next == ReduceOnce(m, Unlabelled, id, set)
         IN  next.timer.phase # "ended" /\ ~next.labelSheetOpen
<1> DEFINE result == Transition(m.timer, Unlabelled, now, id, set, m.completed, m.pendingBreak)
           count  == m.timer.focusBlocksCompleted + 1
           new    == NewBlock(id, NextBreakType(count, set.blocksPerCycle), now, set, count)
<1>1. Unlabelled.kind = "labelSave"
  BY DEF Unlabelled
<1>2. result = OnLabelSave(m.timer, Unlabelled.label, now, id, set)
  BY <1>1 DEF Transition
<1>3. result.state \in {NoBlock, new}
  BY <1>2 DEF OnLabelSave, Result
<1>4. NoBlock.phase # "ended" /\ new.phase # "ended"
  BY DEF NoBlock, NewBlock
<1>5. /\ ReduceOnce(m, Unlabelled, id, set).timer = result.state
      /\ ~ReduceOnce(m, Unlabelled, id, set).labelSheetOpen
  BY <1>1 DEF ReduceOnce, SheetAfter
<1> HIDE DEF result, new
<1> QED
  BY <1>3, <1>4, <1>5

GuestFree(m) == m.timer.phase # "ended" /\ ~m.labelSheetOpen

LEMMA GuestReduce ==
  ASSUME Guest, TypeOK, NEW m \in Machines, Sound(m), GuestFree(m), NEW event \in Events,
         Fits(event, m.timer), NEW id \in Nat, NEW set \in TimerSettings
  PROVE  GuestFree(Reduce(m, event, id, set))
<1> DEFINE next == ReduceOnce(m, event, id, set)
<1>1. next \in Machines /\ Sound(next)
  BY ReduceOnceType, ReduceOnceSound
<1>2. Reduce(m, event, id, set) =
        IF next.labelSheetOpen THEN ReduceOnce(next, Unlabelled, id, set) ELSE next
  BY DEF Reduce
<1>3. next.timer.phase = "ended" => next.timer.type = "focus"
  <2>1. /\ m.timer \in Timers /\ m.completed \in Nat /\ m.pendingBreak \in BOOLEAN /\ now \in Nat
        /\ m.timer.phase # "ended"
    BY DEF Machines, TypeOK, GuestFree
  <2> DEFINE result == Transition(m.timer, event, now, id, set, m.completed, m.pendingBreak)
  <2>2. result.state.phase = "ended" => result.state.type = "focus"
    BY <2>1, OnlyFocusEnds DEF EndedInPlace
  <2>3. next.timer = result.state
    BY DEF ReduceOnce
  <2> HIDE DEF result, next
  <2> QED
    BY <2>2, <2>3
<1> HIDE DEF next
<1>4. CASE ~next.labelSheetOpen
  BY <1>1, <1>2, <1>3, <1>4 DEF GuestFree, Sound, Ended
<1>5. CASE next.labelSheetOpen
  <2>1. next.timer # NoBlock
    BY <1>1, <1>5, NoBlockPlain DEF Sound
  <2> QED
    BY <1>1, <1>2, <1>5, <2>1, LabelLeavesNothing DEF GuestFree
<1> QED
  BY <1>4, <1>5

LEMMA GuestStep ==
  ASSUME Guest
  PROVE  ScreenInv /\ GuestNeverStranded /\ [Next]_vars => GuestNeverStranded'
<1> SUFFICES ASSUME ScreenInv, GuestNeverStranded, [Next]_vars PROVE GuestNeverStranded'
  OBVIOUS
<1>1. TypeOK /\ nextId \in Nat
  BY DEF ScreenInv, TypeOK
<1>2. \A t \in Tabs : tab[t] # Closed => /\ tab[t] \in Machines /\ GuestFree(tab[t])
                                         /\ Sound(tab[t]) /\ settings[t] \in TimerSettings
  BY <1>1, SettingsAssumption DEF TypeOK, ScreenInv, GuestNeverStranded, GuestFree
<1>3. ASSUME NEW t \in Tabs, NEW m \in Machines, GuestFree(m), CommitMachine(t, m)
      PROVE  GuestNeverStranded'
  <2> DEFINE drained == [m EXCEPT !.pending = Drained]
  <2>1. tab' = [tab EXCEPT ![t] = drained] /\ stored'.clock = ClockToStore(t, m)
    BY <1>3 DEF CommitMachine
  <2>2. drained.timer = m.timer /\ drained.labelSheetOpen = m.labelSheetOpen
    BY DEF Machines
  <2> HIDE DEF drained
  <2>3. tab'[t] = drained /\ \A u \in Tabs \ {t} : tab'[u] = tab[u]
    BY <1>1, <2>1 DEF TypeOK
  <2>4. stored'.clock.phase # "ended"
    BY <1>3, <2>1 DEF ClockToStore, GuestFree, GuestNeverStranded
  <2> QED
    BY <1>3, <2>2, <2>3, <2>4 DEF GuestFree, GuestNeverStranded
<1>4. ASSUME NEW t \in Tabs, OpenTab(t) PROVE GuestNeverStranded'
  <2>1. tab' = [tab EXCEPT ![t] = InitMachine(nextId)] /\ stored' = stored
    BY <1>4 DEF OpenTab
  <2>2. GuestFree(InitMachine(nextId))
    BY DEF InitMachine, SheetOnLoad, GuestNeverStranded, GuestFree
  <2>3. tab'[t] = InitMachine(nextId) /\ \A u \in Tabs \ {t} : tab'[u] = tab[u]
    BY <1>1, <2>1 DEF TypeOK
  <2> QED
    BY <2>1, <2>2, <2>3 DEF GuestFree, GuestNeverStranded
<1>5. ASSUME NEW t \in Tabs, CloseTab(t) PROVE GuestNeverStranded'
  <2>1. tab' = [tab EXCEPT ![t] = Closed] /\ stored' = stored
    BY <1>5 DEF CloseTab
  <2>2. tab'[t] = Closed /\ \A u \in Tabs \ {t} : tab'[u] = tab[u]
    BY <1>1, <2>1 DEF TypeOK
  <2> QED
    BY <2>1, <2>2 DEF GuestNeverStranded
<1>6. ASSUME NEW t \in Tabs, Commit(t) \/ FetchSettings(t) PROVE GuestNeverStranded'
  <2>1. CommitMachine(t, tab[t]) /\ tab[t] # Closed
    BY <1>6, OpenMachines, OpenIsNotClosed DEF Commit, FetchSettings
  <2> QED
    BY <1>2, <1>3, <2>1
<1>7. ASSUME NEW t \in Tabs, Tick(t) PROVE GuestNeverStranded'
  <2> DEFINE event == [kind |-> "tick"]
             m     == Reduce(tab[t], event, nextId, settings[t])
  <2>1. screen[t].timer.phase = "running" /\ tab' = [tab EXCEPT ![t] = m] /\ stored' = stored
    BY <1>7 DEF Tick
  <2>2. tab[t] # Closed
    <3>1. Closed.timer.phase = "idle"
      BY DEF Closed, NoBlock
    <3> QED
      BY <2>1, <3>1 DEF ScreenInv, OnlyTicksRunAhead
  <2>3. event \in Events /\ Fits(event, tab[t].timer)
    BY DEF Events, Fits
  <2>4. GuestFree(m)
    <3> HIDE DEF event
    <3> QED
      BY <1>1, <1>2, <2>2, <2>3, GuestReduce
  <2> HIDE DEF m
  <2>5. tab'[t] = m /\ \A u \in Tabs \ {t} : tab'[u] = tab[u]
    BY <1>1, <2>1 DEF TypeOK
  <2> QED
    BY <2>1, <2>4, <2>5 DEF GuestFree, GuestNeverStranded
<1>8. ASSUME NEW t \in Tabs, User(t) PROVE GuestNeverStranded'
  <2>1. PICK event \in Events : /\ Dispatch(t, event) /\ Fits(event, tab[t].timer)
                                /\ screen[t] # Closed
    BY <1>8, UserDispatches
  <2>2. tab[t] # Closed
    BY <2>1 DEF ScreenInv, OnlyTicksRunAhead
  <2> DEFINE m == Reduce(tab[t], event, nextId, settings[t])
  <2>3. m \in Machines /\ GuestFree(m)
    BY <1>1, <1>2, <2>1, <2>2, ReduceType, GuestReduce
  <2>4. CommitMachine(t, m)
    BY <2>1 DEF Dispatch
  <2> HIDE DEF m
  <2> QED
    BY <1>3, <2>3, <2>4
<1>9. CASE PassTime \/ SetClockBack \/ UNCHANGED vars
  BY <1>9 DEF PassTime, SetClockBack, vars, tabVars, GuestNeverStranded
<1> QED
  BY <1>4, <1>5, <1>6, <1>7, <1>8, <1>9 DEF Next

\* No guest is ever left with an ended block, in any tab or in storage, however
\* many tabs share it and whatever is reloaded in between.
THEOREM GuestsMoveOn ==
  ASSUME Guest
  PROVE  Spec => []GuestNeverStranded
<1>1. Init => GuestNeverStranded
  BY DEF Init, GuestNeverStranded, NoBlock
<1> QED
  BY <1>1, GuestStep, ScreenAlways, PTL DEF Spec

-------------------------------------------------------------------------------
(* The ledger of one signed-in tab: what the engine's result adds to it. *)

Due(block) == IF block.phase = "ended" THEN 1 ELSE 0

After(completed, effects) ==
  IF effects.setCycle = << >> THEN completed ELSE effects.setCycle[1].completed

\* Nothing is saved, or the block that ends is; a new block has the id offered.
Booked(block, completed, id, result) ==
  LET state == result.state
      after == After(completed, result.effects)
  IN  /\ \/ /\ result.effects.saves = << >>
            /\ after = completed
            /\ state # NoBlock => state.id = id \/ (block # NoBlock /\ state.id = block.id)
         \/ /\ block # NoBlock
            /\ \E save : /\ result.effects.saves = << save >>
                         /\ save.state.id = block.id /\ save.state.type = block.type
            /\ after = IF block.type = "focus" THEN completed + 1 ELSE completed
            /\ state # NoBlock => state.id = id
      /\ state # NoBlock => state.focusBlocksCompleted = after
      /\ result.effects.alerts + Due(block) = Len(result.effects.saves) + Due(state)

LEMMA EffectsOfCycle ==
  ASSUME NEW completed \in Nat
  PROVE  /\ NoEffects.alerts = 0 /\ After(completed, NoEffects) = completed
         /\ SheetAndAlert.alerts = 1 /\ After(completed, SheetAndAlert) = completed
         /\ \A save : /\ SaveAndAlert(save).alerts = 1
                      /\ After(completed, SaveAndAlert(save)) = completed
         /\ \A count, owed : /\ SetCycle(count, owed).alerts = 0
                             /\ After(completed, SetCycle(count, owed)) = count
         /\ \A save, count, owed : /\ SaveAndAdvance(save, count, owed).alerts = 0
                                   /\ After(completed, SaveAndAdvance(save, count, owed)) = count
<1>1. \A count, owed : << Cycle(count, owed) >> # << >> /\ << Cycle(count, owed) >>[1].completed = count
  BY DEF Cycle
<1> QED
  BY <1>1 DEF NoEffects, SheetAndAlert, SaveAndAlert, SetCycle, SaveAndAdvance, After

LEMMA QuietBooked ==
  ASSUME NEW block, NEW completed \in Nat, NEW id, NEW state, NEW effects,
         effects.saves = << >>, After(completed, effects) = completed,
         effects.alerts + Due(block) = Due(state),
         state # NoBlock => /\ state.id = id \/ (block # NoBlock /\ state.id = block.id)
                            /\ state.focusBlocksCompleted = completed
  PROVE  Booked(block, completed, id, Result(state, effects))
<1>1. Due(state) \in Nat /\ Len(<< >>) = 0
  BY DEF Due
<1> QED
  BY <1>1 DEF Booked, Result

LEMMA SaveBooked ==
  ASSUME NEW block, NEW completed \in Nat, NEW id, NEW state, NEW effects, NEW save,
         effects.saves = << save >>, block # NoBlock,
         save.state.id = block.id, save.state.type = block.type,
         After(completed, effects) = IF block.type = "focus" THEN completed + 1 ELSE completed,
         effects.alerts + Due(block) = 1, Due(state) = 0,
         state # NoBlock => /\ state.id = id
                            /\ state.focusBlocksCompleted = After(completed, effects)
  PROVE  Booked(block, completed, id, Result(state, effects))
<1>1. Len(<< save >>) = 1
  OBVIOUS
<1>2. effects.alerts + Due(block) = Len(effects.saves) + Due(state)
  BY <1>1
<1>3. Result(state, effects).state = state /\ Result(state, effects).effects = effects
  BY DEF Result
<1> QED
  BY <1>2, <1>3 DEF Booked

LEMMA TransitionBooked ==
  ASSUME NEW block \in Timers, NEW event \in Events, Fits(event, block),
         event.kind = "resetCycle" => block # NoBlock,
         NEW at \in Nat, NEW id \in Nat, NEW set \in TimerSettings, NEW completed \in Nat,
         NEW pendingBreak \in BOOLEAN,
         block # NoBlock => block.focusBlocksCompleted = completed
  PROVE  Booked(block, completed, id,
                Transition(block, event, at, id, set, completed, pendingBreak))
<1> DEFINE result == Transition(block, event, at, id, set, completed, pendingBreak)
<1>1. block.phase # "idle" => block \in Blocks /\ block # NoBlock
  BY DEF Timers, NoBlock
<1>2. block = NoBlock => block.phase = "idle"
  BY DEF NoBlock
<1>3. Due(NoBlock) = 0 /\ Due(block) \in Nat /\ (block.phase # "ended" => Due(block) = 0)
  BY DEF Due, NoBlock
<1>4. ASSUME NEW type, NEW count
      PROVE  /\ Due(NewBlock(id, type, at, set, count)) = 0
             /\ NewBlock(id, type, at, set, count).id = id
             /\ NewBlock(id, type, at, set, count).focusBlocksCompleted = count
  BY DEF NewBlock, Due
<1>5. Booked(block, completed, id, Ignored(block))
  BY <1>3, EffectsOfSaves, EffectsOfCycle, QuietBooked DEF Ignored
<1>6. ASSUME NEW status, block.phase \in {"running", "paused"}
      PROVE  Booked(block, completed, id, Result(PrepareFocusEnd(block, at, status), SheetAndAlert))
  <2> DEFINE next == PrepareFocusEnd(block, at, status)
  <2>1. /\ next.id = block.id /\ next.focusBlocksCompleted = block.focusBlocksCompleted
        /\ next.phase = "ended"
    BY <1>1, <1>6 DEF PrepareFocusEnd, Blocks
  <2>2. Due(next) = 1
    BY <2>1 DEF Due
  <2>3. Booked(block, completed, id, Result(next, SheetAndAlert))
    <3> HIDE DEF next
    <3> QED
      BY <1>1, <1>3, <1>6, <2>1, <2>2, EffectsOfSaves, EffectsOfCycle, QuietBooked
  <2> QED
    BY <2>3
<1>7. ASSUME NEW state, NEW save, block.phase \in {"running", "paused"}, block.type # "focus",
             save.state.id = block.id, save.state.type = block.type, Due(state) = 0,
             state # NoBlock => state.id = id /\ state.focusBlocksCompleted = completed
      PROVE  Booked(block, completed, id, Result(state, SaveAndAlert(save)))
  <2> DEFINE effects == SaveAndAlert(save)
  <2>1. effects.saves = << save >> /\ effects.alerts = 1 /\ After(completed, effects) = completed
    <3>1. effects.saves = << save >>
      BY EffectsOfSaves
    <3>2. effects.alerts = 1 /\ After(completed, effects) = completed
      BY EffectsOfCycle
    <3> QED
      BY <3>1, <3>2
  <2>2. block # NoBlock /\ effects.alerts + Due(block) = 1
    BY <1>1, <1>3, <1>7, <2>1
  <2> HIDE DEF effects
  <2> QED
    BY <1>7, <2>1, <2>2, SaveBooked DEF effects
<1>8. ASSUME NEW owed, Due(block) = 0
      PROVE  Booked(block, completed, id, Result(NoBlock, SetCycle(completed, owed)))
  <2> DEFINE effects == SetCycle(completed, owed)
  <2>1. effects.saves = << >> /\ effects.alerts = 0 /\ After(completed, effects) = completed
    <3>1. effects.saves = << >>
      BY EffectsOfSaves
    <3>2. effects.alerts = 0 /\ After(completed, effects) = completed
      BY EffectsOfCycle
    <3> QED
      BY <3>1, <3>2
  <2> HIDE DEF effects
  <2> QED
    BY <1>3, <1>8, <2>1, QuietBooked DEF effects
<1> SUFFICES Booked(block, completed, id, result)
  OBVIOUS
<1>9. CASE event.kind = "start"
  <2> DEFINE new     == NewBlock(id, event.type, at, set, completed)
             effects == IF pendingBreak THEN SetCycle(completed, FALSE) ELSE NoEffects
  <2>1. result = Result(new, effects)
    BY <1>9 DEF Transition, OnStart
  <2>2. effects.saves = << >> /\ effects.alerts = 0 /\ After(completed, effects) = completed
    <3>1. NoEffects.saves = << >> /\ NoEffects.alerts = 0 /\ After(completed, NoEffects) = completed
      BY EffectsOfSaves, EffectsOfCycle
    <3>2. ASSUME NEW owed
          PROVE  /\ SetCycle(completed, owed).saves = << >> /\ SetCycle(completed, owed).alerts = 0
                 /\ After(completed, SetCycle(completed, owed)) = completed
      BY EffectsOfSaves, EffectsOfCycle
    <3>3. effects = NoEffects \/ effects = SetCycle(completed, FALSE)
      OBVIOUS
    <3> HIDE DEF effects
    <3> QED
      BY <3>1, <3>2, <3>3
  <2>3. Due(block) = 0
    BY <1>3, <1>9 DEF Fits
  <2>4. Due(new) = 0 /\ new.id = id /\ new.focusBlocksCompleted = completed
    BY <1>4
  <2> HIDE DEF new, effects, result
  <2> QED
    BY <2>1, <2>2, <2>3, <2>4, QuietBooked
<1>10. CASE event.kind = "pause"
  <2>1. result = OnPause(block, at)
    BY <1>10 DEF Transition
  <2>2. CASE block.phase = "running"
    <3> DEFINE next == [block EXCEPT !.phase = "paused", !.intervals = CloseBlock(@, at).intervals]
    <3>1. result = Result(next, NoEffects)
      BY <2>1, <2>2 DEF OnPause, Ignored
    <3>2. /\ next.id = block.id /\ next.focusBlocksCompleted = block.focusBlocksCompleted
          /\ next.phase = "paused"
      BY <1>1, <2>2 DEF Blocks
    <3>3. Due(next) = 0
      BY <3>2 DEF Due
    <3> HIDE DEF next, result
    <3> QED
      BY <1>1, <1>3, <2>2, <3>1, <3>2, <3>3, EffectsOfSaves, EffectsOfCycle, QuietBooked
  <2> QED
    BY <1>5, <2>1, <2>2 DEF OnPause
<1>11. CASE event.kind = "resume"
  <2>1. result = OnResume(block, at)
    BY <1>11 DEF Transition
  <2>2. CASE block.phase = "paused"
    <3> DEFINE next == [block EXCEPT !.phase = "running",
                          !.intervals = Append(@, [startedAt |-> at, endedAt |-> Open])]
    <3>1. result = Result(next, NoEffects)
      BY <2>1, <2>2 DEF OnResume, Ignored
    <3>2. /\ next.id = block.id /\ next.focusBlocksCompleted = block.focusBlocksCompleted
          /\ next.phase = "running"
      BY <1>1, <2>2 DEF Blocks
    <3>3. Due(next) = 0
      BY <3>2 DEF Due
    <3> HIDE DEF next, result
    <3> QED
      BY <1>1, <1>3, <2>2, <3>1, <3>2, <3>3, EffectsOfSaves, EffectsOfCycle, QuietBooked
  <2> QED
    BY <1>5, <2>1, <2>2 DEF OnResume
<1>12. CASE event.kind = "stop"
  <2>1. result = OnStop(block, at)
    BY <1>12 DEF Transition
  <2>2. CASE block.phase \in {"idle", "ended"}
    BY <1>5, <2>1, <2>2 DEF OnStop
  <2>3. block.phase \notin {"idle", "ended"} => block.phase \in {"running", "paused"}
    BY <1>1 DEF Blocks
  <2>4. CASE block.phase \notin {"idle", "ended"} /\ EndsOnSheet(block)
    BY <1>6, <2>1, <2>3, <2>4 DEF OnStop
  <2>5. CASE block.phase \notin {"idle", "ended"} /\ ~EndsOnSheet(block)
    <3> DEFINE closed == CloseBlock(block.intervals, at)
               save   == SaveEffect([block EXCEPT !.phase = "ended", !.blockStatus = "aborted",
                                                  !.intervals = closed.intervals], closed.endedAt)
    <3>1. result = Result(NoBlock, SaveAndAlert(save))
      BY <2>1, <2>5 DEF OnStop
    <3>2. save.state.id = block.id /\ save.state.type = block.type
      BY <1>1, <2>5 DEF SaveEffect, Blocks
    <3> HIDE DEF save, result
    <3> QED
      BY <1>3, <1>7, <2>3, <2>5, <3>1, <3>2 DEF EndsOnSheet
  <2> QED
    BY <2>2, <2>4, <2>5
<1>13. CASE event.kind = "labelSave"
  <2>1. result = OnLabelSave(block, event.label, at, id, set)
    BY <1>13 DEF Transition
  <2>2. Ended(block) /\ block # NoBlock /\ block \in Blocks
    BY <1>1, <1>13, NoBlockPlain DEF Fits, Ended
  <2> DEFINE closed == CloseBlock(block.intervals, at)
             save   == SaveEffect([block EXCEPT !.label = event.label,
                                                !.intervals = closed.intervals], closed.endedAt)
             count  == block.focusBlocksCompleted + 1
             auto   == set.autoStartBreaks /\ block.blockStatus = "completed"
             next   == IF auto
                       THEN NewBlock(id, NextBreakType(count, set.blocksPerCycle), at, set, count)
                       ELSE NoBlock
  <2>3. result = Result(next, SaveAndAdvance(save, count, ~auto))
    BY <2>1, <2>2 DEF OnLabelSave
  <2>4. save.state.id = block.id /\ save.state.type = block.type
    BY <2>2 DEF SaveEffect, Blocks
  <2>5. Due(next) = 0 /\ (next # NoBlock => next.id = id /\ next.focusBlocksCompleted = count)
    <3> HIDE DEF auto
    <3> QED
      BY <1>3, <1>4
  <2>6. block.type = "focus" /\ Due(block) = 1 /\ count = completed + 1
    BY <2>2 DEF Ended, Due
  <2> HIDE DEF save, next, auto, result, count
  <2> QED
    BY <2>2, <2>3, <2>4, <2>5, <2>6, EffectsOfSaves, EffectsOfCycle, SaveBooked
<1>14. CASE event.kind = "skipBreak"
  <2>1. result = OnSkipBreak(block, completed, pendingBreak)
    BY <1>14 DEF Transition
  <2>2. CASE block = NoBlock
    <3>1. result \in {Ignored(block), Result(NoBlock, SetCycle(completed, FALSE))}
      BY <2>1, <2>2 DEF OnSkipBreak, Ignored
    <3> HIDE DEF result
    <3> QED
      BY <1>3, <1>5, <1>8, <2>2, <3>1
  <2>3. CASE block # NoBlock /\ block.type # "focus" /\ block.phase \in {"running", "paused"}
    <3>1. result = Result(NoBlock, SetCycle(completed, FALSE))
      BY <2>1, <2>3 DEF OnSkipBreak
    <3> HIDE DEF result
    <3> QED
      BY <1>3, <1>8, <2>3, <3>1
  <2> QED
    BY <1>5, <2>1, <2>2, <2>3 DEF OnSkipBreak
<1>15. CASE event.kind = "resetCycle"
  BY <1>5, <1>15 DEF Transition, OnResetCycle
<1>16. CASE event.kind = "tick"
  <2>1. result = OnTick(block, at, id, set, completed)
    BY <1>16 DEF Transition
  <2>2. TickGate(block) => block.phase \in {"running", "paused"}
    BY DEF TickGate
  <2>3. CASE TickGate(block) /\ TimeIsUp(Overrun(block, at)) /\ EndsOnSheet(block)
    BY <1>6, <2>1, <2>2, <2>3 DEF OnTick
  <2>4. CASE TickGate(block) /\ TimeIsUp(Overrun(block, at)) /\ ~EndsOnSheet(block)
    <3> DEFINE closed == CloseBlock(block.intervals, at)
               save   == SaveEffect([block EXCEPT !.intervals = closed.intervals], closed.endedAt)
               auto   == set.autoStartNext /\ WithinGrace(Overrun(block, at))
               next   == IF auto THEN NewBlock(id, "focus", at, set, completed) ELSE NoBlock
    <3>1. result = Result(next, SaveAndAlert(save))
      BY <2>1, <2>4 DEF OnTick
    <3>2. save.state.id = block.id /\ save.state.type = block.type
      BY <1>1, <2>2, <2>4 DEF SaveEffect, Blocks
    <3>3. Due(next) = 0 /\ (next # NoBlock => next.id = id /\ next.focusBlocksCompleted = completed)
      <4> HIDE DEF auto
      <4> QED
        BY <1>3, <1>4
    <3> HIDE DEF save, next, result
    <3> QED
      BY <1>7, <2>2, <2>4, <3>1, <3>2, <3>3 DEF EndsOnSheet
  <2>5. CASE ~(TickGate(block) /\ TimeIsUp(Overrun(block, at)))
    BY <1>5, <2>1, <2>5 DEF OnTick
  <2> QED
    BY <2>3, <2>4, <2>5
<1> QED
  BY <1>9, <1>10, <1>11, <1>12, <1>13, <1>14, <1>15, <1>16 DEF Events

-------------------------------------------------------------------------------
(* The ledger: ids are handed out once, the cycle counts the focus blocks      *)
(* saved or waiting, and an alert was fired for each block that ended.         *)

SavedIds   == {saved[i].id : i \in DOMAIN saved}
SavedFocus == {saved[i].id : i \in {j \in DOMAIN saved : saved[j].kind = "focus"}}

WaitingIds(saves)   == {saves[i].state.id : i \in DOMAIN saves}
WaitingFocus(saves) ==
  {saves[i].state.id : i \in {j \in DOMAIN saves : saves[j].state.type = "focus"}}

Distinct(block, saves, top) ==
  /\ \A id \in SavedIds \cup WaitingIds(saves) : id < top
  /\ SavedIds \cap WaitingIds(saves) = {}
  /\ \A i, j \in DOMAIN saves : saves[i].state.id = saves[j].state.id => i = j
  /\ block # NoBlock => block.id < top /\ block.id \notin SavedIds \cup WaitingIds(saves)

Counted(completed, saves) ==
  completed = Cardinality((SavedFocus \ forgotten) \cup WaitingFocus(saves))

Told(block, saves, due) == alerts + due = Len(saved) + Len(saves) + Due(block)

Books(block, completed, saves, due, top) ==
  /\ Distinct(block, saves, top)
  /\ Counted(completed, saves)
  /\ Told(block, saves, due)
  /\ block # NoBlock => block.focusBlocksCompleted = completed

BooksOf(m, top) == Books(m.timer, m.completed, m.pending.saves, m.pending.alerts, top)

LEMMA WaitingTypes ==
  ASSUME TypeOK, NEW saves \in Seq(SaveEffects)
  PROVE  /\ SavedIds \subseteq Nat /\ SavedFocus \subseteq SavedIds
         /\ WaitingIds(saves) \subseteq Nat /\ WaitingFocus(saves) \subseteq WaitingIds(saves)
<1>1. \A i \in DOMAIN saved : saved[i] \in SavedBlocks
  BY DEF TypeOK
<1>2. \A i \in DOMAIN saves : saves[i] \in SaveEffects
  OBVIOUS
<1> QED
  BY <1>1, <1>2 DEF SavedIds, SavedFocus, WaitingIds, WaitingFocus, SavedBlocks, SaveEffects, Blocks

LEMMA WaitingOneMore ==
  ASSUME NEW saves \in Seq(SaveEffects), NEW save \in SaveEffects
  PROVE  LET more == saves \o << save >>
         IN  /\ Len(more) = Len(saves) + 1
             /\ \A i \in DOMAIN more : \/ i \in DOMAIN saves /\ more[i] = saves[i]
                                       \/ i = Len(saves) + 1 /\ more[i] = save
             /\ WaitingIds(more) = WaitingIds(saves) \cup {save.state.id}
             /\ WaitingFocus(more) = IF save.state.type = "focus"
                                     THEN WaitingFocus(saves) \cup {save.state.id}
                                     ELSE WaitingFocus(saves)
<1> DEFINE more == saves \o << save >>
<1>1. /\ Len(more) = Len(saves) + 1
      /\ \A i \in DOMAIN more : \/ i \in DOMAIN saves /\ more[i] = saves[i]
                                \/ i = Len(saves) + 1 /\ more[i] = save
      /\ \A i \in DOMAIN saves : i \in DOMAIN more /\ more[i] = saves[i]
      /\ Len(saves) + 1 \in DOMAIN more /\ more[Len(saves) + 1] = save
  OBVIOUS
<1> HIDE DEF more
<1>2. WaitingIds(more) = WaitingIds(saves) \cup {save.state.id}
  BY <1>1 DEF WaitingIds
<1>3. WaitingFocus(more) = IF save.state.type = "focus"
                           THEN WaitingFocus(saves) \cup {save.state.id}
                           ELSE WaitingFocus(saves)
  <2>1. CASE save.state.type = "focus"
    <3>1. WaitingFocus(more) \subseteq WaitingFocus(saves) \cup {save.state.id}
      BY <1>1 DEF WaitingFocus
    <3>2. WaitingFocus(saves) \subseteq WaitingFocus(more)
      BY <1>1 DEF WaitingFocus
    <3>3. save.state.id \in WaitingFocus(more)
      BY <1>1, <2>1 DEF WaitingFocus
    <3> QED
      BY <2>1, <3>1, <3>2, <3>3
  <2>2. CASE save.state.type # "focus"
    <3>1. WaitingFocus(more) \subseteq WaitingFocus(saves)
      BY <1>1, <2>2 DEF WaitingFocus
    <3>2. WaitingFocus(saves) \subseteq WaitingFocus(more)
      BY <1>1 DEF WaitingFocus
    <3> QED
      BY <2>2, <3>1, <3>2
  <2> QED
    BY <2>1, <2>2
<1> QED
  BY <1>1, <1>2, <1>3 DEF more

\* One event reduced: the books still balance, the new block's id included.
LEMMA ReduceBooks ==
  ASSUME ~Guest, TypeOK, NEW m \in Machines, BooksOf(m, nextId), NEW event \in Events,
         Fits(event, m.timer), event.kind = "resetCycle" => m.timer # NoBlock,
         NEW set \in TimerSettings
  PROVE  LET next == Reduce(m, event, nextId, set) IN BooksOf(next, IdAfter(next))
<1> DEFINE result == Transition(m.timer, event, now, nextId, set, m.completed, m.pendingBreak)
           next   == Reduce(m, event, nextId, set)
           block  == m.timer
           saves  == m.pending.saves
           fresh  == result.effects.saves
           state  == result.state
           top    == IdAfter(next)
<1>1. /\ m.timer \in Timers /\ m.completed \in Nat /\ m.pendingBreak \in BOOLEAN
      /\ saves \in Seq(SaveEffects) /\ m.pending.alerts \in Nat
      /\ now \in Nat /\ nextId \in Nat /\ alerts \in Nat /\ Len(saved) \in Nat
  BY DEF Machines, TypeOK
<1>2. result \in Results
  BY <1>1, TransitionType
<1>3. state \in Timers /\ fresh \in Seq(SaveEffects) /\ result.effects.alerts \in Nat
  BY <1>2 DEF Results, Effects
<1>4. Booked(block, m.completed, nextId, result)
  BY <1>1, TransitionBooked DEF BooksOf, Books
<1>5. /\ next.timer = state /\ next.completed = After(m.completed, result.effects)
      /\ next.pending.saves = saves \o fresh
      /\ next.pending.alerts = m.pending.alerts + result.effects.alerts
  BY DEF Reduce, ReduceOnce, After
<1>6. top \in {nextId, nextId + 1} /\ (state # NoBlock /\ state.id = nextId => top = nextId + 1)
  BY <1>1, <1>5 DEF IdAfter
<1>7. block # NoBlock => block.id \in Nat
  BY <1>1 DEF Timers, Blocks
<1>8. Books(block, m.completed, saves, m.pending.alerts, nextId)
  BY DEF BooksOf
<1>9. Told(state, saves \o fresh, m.pending.alerts + result.effects.alerts)
  <2>1. Len(saves \o fresh) = Len(saves) + Len(fresh) /\ Len(saves) \in Nat /\ Len(fresh) \in Nat
    BY <1>1, <1>3
  <2>2. Due(block) \in Nat /\ Due(state) \in Nat
    BY DEF Due
  <2>3. alerts + m.pending.alerts = Len(saved) + Len(saves) + Due(block)
    BY <1>8 DEF Books, Told
  <2>4. result.effects.alerts + Due(block) = Len(fresh) + Due(state)
    BY <1>4 DEF Booked
  <2> DEFINE more == saves \o fresh
             due  == m.pending.alerts
             told == result.effects.alerts
             n1   == Len(saves)
             n2   == Len(fresh)
             n3   == Len(saved)
  <2>5. /\ due \in Nat /\ told \in Nat /\ n1 \in Nat /\ n2 \in Nat /\ n3 \in Nat
        /\ Len(more) = n1 + n2 /\ alerts \in Nat
    BY <1>1, <1>3, <2>1
  <2>6. alerts + due = n3 + n1 + Due(block) /\ told + Due(block) = n2 + Due(state)
    BY <2>3, <2>4
  <2> HIDE DEF more, due, told, n1, n2, n3, saves, fresh, state, block, result
  <2>7. alerts + (due + told) = n3 + Len(more) + Due(state)
    BY <2>2, <2>5, <2>6
  <2> QED
    BY <2>7 DEF Told, more, due, told, n3
<1>10. state # NoBlock => state.focusBlocksCompleted = next.completed
  BY <1>4, <1>5 DEF Booked
<1>11. /\ SavedIds \subseteq Nat /\ SavedFocus \subseteq SavedIds
       /\ WaitingIds(saves) \subseteq Nat /\ WaitingFocus(saves) \subseteq WaitingIds(saves)
  BY <1>1, WaitingTypes
<1> HIDE DEF result, next, top, saves, fresh, state, block
<1>12. ASSUME fresh = << >>, next.completed = m.completed,
              state # NoBlock => state.id = nextId \/ (block # NoBlock /\ state.id = block.id)
       PROVE  Distinct(state, saves \o fresh, top) /\ Counted(next.completed, saves \o fresh)
  <2>1. saves \o fresh = saves
    BY <1>1, <1>12
  <2>2. Distinct(state, saves, top)
    BY <1>1, <1>6, <1>7, <1>8, <1>11, <1>12 DEF Distinct, Books
  <2> QED
    BY <1>8, <1>12, <2>1, <2>2 DEF Books
<1>13. ASSUME NEW save, fresh = << save >>, block # NoBlock, save.state.id = block.id,
              save.state.type = block.type, state # NoBlock => state.id = nextId,
              next.completed = IF block.type = "focus" THEN m.completed + 1 ELSE m.completed
       PROVE  Distinct(state, saves \o fresh, top) /\ Counted(next.completed, saves \o fresh)
  <2> DEFINE more == saves \o << save >>
             old  == (SavedFocus \ forgotten) \cup WaitingFocus(saves)
  <2>1. save \in SaveEffects
    <3>1. fresh[1] = save /\ 1 \in DOMAIN fresh
      BY <1>13
    <3> QED
      BY <1>3, <3>1
  <2>2. /\ \A i \in DOMAIN more : \/ i \in DOMAIN saves /\ more[i] = saves[i]
                                  \/ i = Len(saves) + 1 /\ more[i] = save
        /\ WaitingIds(more) = WaitingIds(saves) \cup {block.id}
        /\ WaitingFocus(more) = IF block.type = "focus" THEN WaitingFocus(saves) \cup {block.id}
                                ELSE WaitingFocus(saves)
    BY <1>1, <1>13, <2>1, WaitingOneMore
  <2>3. /\ block.id < nextId /\ block.id \notin SavedIds \cup WaitingIds(saves)
        /\ \A id \in SavedIds \cup WaitingIds(saves) : id < nextId
        /\ SavedIds \cap WaitingIds(saves) = {}
        /\ \A i, j \in DOMAIN saves : saves[i].state.id = saves[j].state.id => i = j
    BY <1>8, <1>13 DEF Books, Distinct
  <2> HIDE DEF more
  <2>4. Distinct(state, more, top)
    <3>1. \A id \in SavedIds \cup WaitingIds(more) : id < nextId /\ id < top
      BY <1>1, <1>6, <1>7, <1>11, <1>13, <2>2, <2>3
    <3>2. SavedIds \cap WaitingIds(more) = {}
      BY <2>2, <2>3
    <3>3. \A i, j \in DOMAIN more : more[i].state.id = more[j].state.id => i = j
      <4>1. \A i \in DOMAIN saves : saves[i].state.id # block.id
        BY <2>3 DEF WaitingIds
      <4> QED
        BY <1>13, <2>2, <2>3, <4>1
    <3>4. state # NoBlock => state.id < top /\ state.id \notin SavedIds \cup WaitingIds(more)
      BY <1>1, <1>6, <1>13, <3>1
    <3> QED
      BY <3>1, <3>2, <3>3, <3>4 DEF Distinct
  <2>5. Counted(next.completed, more)
    <3>1. m.completed = Cardinality(old)
      BY <1>8 DEF Books, Counted
    <3>2. CASE block.type # "focus"
      BY <1>13, <2>2, <3>1, <3>2 DEF Counted
    <3>3. CASE block.type = "focus"
      <4>1. (SavedFocus \ forgotten) \cup WaitingFocus(more) = old \cup {block.id}
        BY <2>2, <3>3
      <4>2. block.id \notin old
        BY <1>11, <2>3
      <4>3. IsFiniteSet(old)
        <5>1. old \subseteq SavedIds \cup WaitingIds(saves)
          BY <1>11
        <5>2. SavedIds \cup WaitingIds(saves) \subseteq Nat
          BY <1>11
        <5> HIDE DEF old
        <5>3. old \in SUBSET Nat /\ \A id \in old : id <= nextId
          <6>1. \A id \in old : id \in Nat /\ id < nextId
            BY <2>3, <5>1, <5>2
          <6> QED
            BY <1>1, <6>1
        <5> QED
          BY <1>1, <5>3, FS_BoundedSetOfNaturals
      <4> HIDE DEF old
      <4>4. Cardinality(old \cup {block.id}) = Cardinality(old) + 1
        BY <4>2, <4>3, FS_AddElement
      <4> QED
        BY <1>13, <3>1, <3>3, <4>1, <4>4 DEF Counted
    <3> QED
      BY <3>2, <3>3
  <2> QED
    BY <1>13, <2>4, <2>5 DEF more
<1>14. Distinct(state, saves \o fresh, top) /\ Counted(next.completed, saves \o fresh)
  BY <1>4, <1>5, <1>12, <1>13 DEF Booked, fresh, state
<1>15. Books(next.timer, next.completed, next.pending.saves, next.pending.alerts, top)
  BY <1>5, <1>9, <1>10, <1>14 DEF Books
<1> QED
  BY <1>15 DEF BooksOf, next, top

-------------------------------------------------------------------------------
(* A commit turns what waits into what is saved. *)

LEMMA SavedAfter ==
  ASSUME ~Guest, TypeOK, NEW saves \in Seq(SaveEffects), saved' = saved \o Payloads(saves)
  PROVE  /\ Len(saved') = Len(saved) + Len(saves)
         /\ SavedIds' = SavedIds \cup WaitingIds(saves)
         /\ SavedFocus' = SavedFocus \cup WaitingFocus(saves)
         /\ SavedOnce /\ SavedIds \cap WaitingIds(saves) = {}
            /\ (\A i, j \in DOMAIN saves : saves[i].state.id = saves[j].state.id => i = j)
              => SavedOnce'
<1> DEFINE payloads == Payloads(saves)
           n        == Len(saved)
<1>1. /\ DOMAIN payloads = DOMAIN saves
      /\ \A i \in DOMAIN saves : /\ payloads[i].id = saves[i].state.id
                                 /\ payloads[i].kind = saves[i].state.type
  BY DEF Payloads, Payload
<1>2. saved \in Seq(SavedBlocks) /\ payloads \in Seq(SavedBlocks)
  BY PayloadsType DEF TypeOK
<1>3. Len(payloads) = Len(saves)
  <2> HIDE DEF payloads
  <2>1. DOMAIN payloads = 1 .. Len(payloads) /\ Len(payloads) \in Nat
    BY <1>2
  <2>2. DOMAIN saves = 1 .. Len(saves) /\ Len(saves) \in Nat
    OBVIOUS
  <2>3. 1 .. Len(payloads) = 1 .. Len(saves)
    BY <1>1, <2>1, <2>2
  <2>4. ASSUME NEW a \in Nat, NEW b \in Nat, 1 .. a = 1 .. b PROVE a = b
    BY <2>4
  <2> QED
    BY <2>1, <2>2, <2>3, <2>4
<1> HIDE DEF payloads
<1>4. /\ n \in Nat /\ Len(saved') = n + Len(saves) /\ DOMAIN saves = 1 .. Len(saves)
      /\ DOMAIN saved = 1 .. n /\ DOMAIN saved' = 1 .. n + Len(saves) /\ Len(saves) \in Nat
      /\ \A i \in 1 .. n : saved'[i] = saved[i]
      /\ \A i \in DOMAIN saves : saved'[n + i] = payloads[i]
  <2>1. saved' = saved \o payloads
    BY DEF payloads
  <2>2. /\ Len(saved) \in Nat /\ DOMAIN saved = 1 .. Len(saved)
        /\ Len(saves) \in Nat /\ DOMAIN saves = 1 .. Len(saves)
    BY <1>2
  <2>3. Len(saved') = n + Len(saves) /\ DOMAIN saved' = 1 .. n + Len(saves)
    <3>1. saved' \in Seq(SavedBlocks) /\ Len(saved') = n + Len(payloads)
      BY <1>2, <2>1
    <3>2. Len(saved') = n + Len(saves)
      BY <1>3, <3>1
    <3>3. DOMAIN saved' = 1 .. Len(saved')
      BY <3>1
    <3> QED
      BY <3>2, <3>3
  <2>4. \A i \in 1 .. n : saved'[i] = saved[i]
    BY <1>2, <2>1
  <2>5. \A i \in 1 .. Len(saves) : saved'[n + i] = payloads[i]
    BY <1>2, <1>3, <2>1
  <2> QED
    BY <2>2, <2>3, <2>4, <2>5
<1>5. \A i \in DOMAIN saved' : i \in DOMAIN saved \/ (i - n \in DOMAIN saves /\ n + (i - n) = i)
  BY <1>4
<1>6. \A i \in DOMAIN saves : n + i \in DOMAIN saved'
  BY <1>4
<1>7. \A i \in DOMAIN saved : i \in DOMAIN saved' /\ saved'[i] = saved[i]
  BY <1>4
<1>8. \A i \in DOMAIN saves : /\ saved'[n + i].id = saves[i].state.id
                              /\ saved'[n + i].kind = saves[i].state.type
  BY <1>1, <1>4
<1> HIDE DEF n
<1>9. SavedIds' = SavedIds \cup WaitingIds(saves)
  <2>1. SavedIds' = {saved'[i].id : i \in DOMAIN saved'}
    BY DEF SavedIds
  <2>2. SavedIds' \subseteq SavedIds \cup WaitingIds(saves)
    <3> SUFFICES ASSUME NEW i \in DOMAIN saved' PROVE saved'[i].id \in SavedIds \cup WaitingIds(saves)
      BY <2>1
    <3>1. CASE i \in DOMAIN saved
      BY <1>7, <3>1 DEF SavedIds
    <3>2. CASE i - n \in DOMAIN saves /\ n + (i - n) = i
      <4>1. saved'[i].id = saves[i - n].state.id
        BY <1>8, <3>2
      <4> QED
        BY <3>2, <4>1 DEF WaitingIds
    <3> QED
      BY <1>5, <3>1, <3>2
  <2>3. SavedIds \subseteq SavedIds'
    BY <1>7, <2>1 DEF SavedIds
  <2>4. WaitingIds(saves) \subseteq SavedIds'
    BY <1>6, <1>8, <2>1 DEF WaitingIds
  <2> QED
    BY <2>2, <2>3, <2>4
<1>10. SavedFocus' = SavedFocus \cup WaitingFocus(saves)
  <2>1. SavedFocus' = {saved'[i].id : i \in {j \in DOMAIN saved' : saved'[j].kind = "focus"}}
    BY DEF SavedFocus
  <2>2. SavedFocus' \subseteq SavedFocus \cup WaitingFocus(saves)
    <3> SUFFICES ASSUME NEW i \in DOMAIN saved', saved'[i].kind = "focus"
                 PROVE  saved'[i].id \in SavedFocus \cup WaitingFocus(saves)
      BY <2>1
    <3>1. CASE i \in DOMAIN saved
      BY <1>7, <3>1 DEF SavedFocus
    <3>2. CASE i - n \in DOMAIN saves /\ n + (i - n) = i
      <4>1. saved'[i].id = saves[i - n].state.id /\ saves[i - n].state.type = "focus"
        BY <1>8, <3>2
      <4> QED
        BY <3>2, <4>1 DEF WaitingFocus
    <3> QED
      BY <1>5, <3>1, <3>2
  <2>3. SavedFocus \subseteq SavedFocus'
    BY <1>7, <2>1 DEF SavedFocus
  <2>4. WaitingFocus(saves) \subseteq SavedFocus'
    BY <1>6, <1>8, <2>1 DEF WaitingFocus
  <2> QED
    BY <2>2, <2>3, <2>4
<1>11. ASSUME SavedOnce, SavedIds \cap WaitingIds(saves) = {},
              \A i, j \in DOMAIN saves : saves[i].state.id = saves[j].state.id => i = j
       PROVE  SavedOnce'
  <2> SUFFICES ASSUME NEW i \in DOMAIN saved', NEW j \in DOMAIN saved', saved'[i].id = saved'[j].id
               PROVE  i = j
    BY DEF SavedOnce
  <2>1. \A k \in DOMAIN saved : saved'[k].id \in SavedIds
    BY <1>7 DEF SavedIds
  <2>2. \A k \in DOMAIN saves : saved'[n + k].id \in WaitingIds(saves)
    BY <1>8 DEF WaitingIds
  <2>3. CASE i \in DOMAIN saved /\ j \in DOMAIN saved
    BY <1>7, <1>11, <2>3 DEF SavedOnce
  <2>4. CASE i \in DOMAIN saved /\ j - n \in DOMAIN saves /\ n + (j - n) = j
    <3>1. saved'[j].id \in WaitingIds(saves)
      BY <2>2, <2>4
    <3> QED
      BY <1>11, <2>1, <2>4, <3>1
  <2>5. CASE j \in DOMAIN saved /\ i - n \in DOMAIN saves /\ n + (i - n) = i
    <3>1. saved'[i].id \in WaitingIds(saves)
      BY <2>2, <2>5
    <3> QED
      BY <1>11, <2>1, <2>5, <3>1
  <2>6. CASE /\ i - n \in DOMAIN saves /\ n + (i - n) = i
             /\ j - n \in DOMAIN saves /\ n + (j - n) = j
    <3>1. saves[i - n].state.id = saves[j - n].state.id
      <4>1. saved'[n + (i - n)].id = saves[i - n].state.id
        BY <1>8, <2>6
      <4>2. saved'[n + (j - n)].id = saves[j - n].state.id
        BY <1>8, <2>6
      <4> QED
        BY <2>6, <4>1, <4>2
    <3>2. i - n = j - n
      BY <1>11, <2>6, <3>1
    <3> QED
      BY <2>6, <3>2
  <2> QED
    BY <1>5, <2>3, <2>4, <2>5, <2>6
<1> QED
  BY <1>4, <1>9, <1>10, <1>11 DEF n

-------------------------------------------------------------------------------
(* One signed-in tab, closed and reopened at will. *)

OneTab == ~Guest /\ \A t, u \in Tabs : t = u

\* The books balance for the machine of an open tab and for the one localStorage
\* would rebuild, and a rendered screen is what localStorage holds.
LedgerInv ==
  /\ \A t \in Tabs : tab[t] # Closed => BooksOf(tab[t], nextId)
  /\ Books(stored.clock, stored.cycle.completed, << >>, 0, nextId)
  /\ \A t \in Tabs : screen[t] # Closed => /\ stored.clock = screen[t].timer
                                           /\ stored.cycle = CycleOf(screen[t])
                                           /\ screen[t].pending = Drained
  /\ stored.cycle = NoCycle => stored.clock = NoBlock
  /\ SavedOnce
  /\ forgotten \subseteq SavedIds

LEMMA NothingWaits == WaitingIds(<< >>) = {} /\ WaitingFocus(<< >>) = {} /\ Len(<< >>) = 0
BY DEF WaitingIds, WaitingFocus

LEMMA CycleIsPresent ==
  \A m : CycleOf(m) # NoCycle /\ CycleOf(m).completed = m.completed
         /\ CycleOf(m).pendingBreak = m.pendingBreak
<1> SUFFICES ASSUME NEW m
             PROVE  CycleOf(m) # NoCycle /\ CycleOf(m).completed = m.completed
                    /\ CycleOf(m).pendingBreak = m.pendingBreak
  OBVIOUS
<1>1. "absent" \in DOMAIN NoCycle /\ "absent" \notin DOMAIN CycleOf(m)
  BY DEF NoCycle, CycleOf, Cycle
<1> QED
  BY <1>1 DEF CycleOf, Cycle

LEMMA BooksLater ==
  ASSUME TypeOK, NEW block \in Timers, NEW completed, NEW saves \in Seq(SaveEffects), NEW due,
         NEW top \in Nat, NEW later \in Nat, top <= later, Books(block, completed, saves, due, top)
  PROVE  Books(block, completed, saves, due, later)
<1>1. SavedIds \cup WaitingIds(saves) \subseteq Nat
  BY WaitingTypes
<1>2. block # NoBlock => block.id \in Nat
  BY DEF Timers, Blocks
<1>3. \A id \in Nat : id < top => id < later
  OBVIOUS
<1> QED
  BY <1>1, <1>2, <1>3 DEF Books, Distinct

LEMMA CommitLedger ==
  ASSUME OneTab, ScreenInv, LedgerInv, NEW t \in Tabs, NEW m \in Machines, NEW top \in Nat,
         Distinct(m.timer, m.pending.saves, top),
         Told(m.timer, m.pending.saves, m.pending.alerts),
         m.timer # NoBlock => m.timer.focusBlocksCompleted = m.completed,
         CommitMachine(t, m), nextId' = top,
         \/ forgotten' = forgotten /\ Counted(m.completed, m.pending.saves)
         \/ forgotten' = SavedIds' /\ m.completed = 0
  PROVE  LedgerInv'
<1> DEFINE drained == [m EXCEPT !.pending = Drained]
           saves   == m.pending.saves
<1>1. /\ tab' = [tab EXCEPT ![t] = drained] /\ screen' = [screen EXCEPT ![t] = drained]
      /\ stored' = [clock |-> ClockToStore(t, m), cycle |-> CycleToStore(t, m)]
      /\ saved' = saved \o Payloads(saves) /\ alerts' = alerts + m.pending.alerts
  BY DEF CommitMachine
<1>2. /\ drained.timer = m.timer /\ drained.completed = m.completed
      /\ drained.pendingBreak = m.pendingBreak
      /\ drained.pending = Drained /\ drained.pending.saves = << >> /\ drained.pending.alerts = 0
  BY DEF Machines, Drained
<1>3. /\ saves \in Seq(SaveEffects) /\ m.pending.alerts \in Nat /\ alerts \in Nat
      /\ Len(saved) \in Nat /\ TypeOK /\ m.completed \in Nat
  BY DEF Machines, ScreenInv, TypeOK
<1>4. stored'.clock = m.timer /\ stored'.cycle = CycleOf(m)
  BY <1>1 DEF ClockToStore, CycleToStore, LedgerInv
<1> HIDE DEF drained
<1>5. \A u \in Tabs : tab'[u] = drained /\ screen'[u] = drained
  BY <1>1, <1>3 DEF OneTab, TypeOK
<1>6. /\ Len(saved') = Len(saved) + Len(saves)
      /\ SavedIds' = SavedIds \cup WaitingIds(saves)
      /\ SavedFocus' = SavedFocus \cup WaitingFocus(saves)
      /\ SavedOnce'
  <2>1. /\ SavedOnce /\ SavedIds \cap WaitingIds(saves) = {}
        /\ \A i, j \in DOMAIN saves : saves[i].state.id = saves[j].state.id => i = j
    BY DEF Distinct, LedgerInv
  <2> HIDE DEF saves
  <2> QED
    BY <1>1, <1>3, <2>1, SavedAfter DEF OneTab
<1>7. /\ \A id \in SavedIds' : id < top
      /\ m.timer # NoBlock => m.timer.id < top /\ m.timer.id \notin SavedIds'
  BY <1>6 DEF Distinct
<1>8. m.completed = Cardinality(SavedFocus' \ forgotten') /\ forgotten' \subseteq SavedIds'
  <2>1. SavedFocus \subseteq SavedIds /\ WaitingFocus(saves) \subseteq WaitingIds(saves)
    BY <1>3, WaitingTypes
  <2>2. CASE forgotten' = forgotten /\ Counted(m.completed, saves)
    <3>1. forgotten \subseteq SavedIds /\ SavedIds \cap WaitingIds(saves) = {}
      BY DEF LedgerInv, Distinct
    <3>2. SavedFocus' \ forgotten' = (SavedFocus \ forgotten) \cup WaitingFocus(saves)
      BY <1>6, <2>1, <2>2, <3>1
    <3> QED
      BY <1>6, <2>2, <3>1, <3>2 DEF Counted
  <2>3. CASE forgotten' = SavedIds' /\ m.completed = 0
    <3>1. SavedFocus' \ forgotten' = {}
      BY <1>6, <2>1, <2>3
    <3> QED
      BY <2>3, <3>1, FS_EmptySet
  <2> QED
    BY <2>2, <2>3
<1>9. alerts' + 0 = Len(saved') + 0 + Due(m.timer)
  <2>1. Due(m.timer) \in Nat /\ Len(saves) \in Nat
    BY <1>3 DEF Due
  <2>2. alerts + m.pending.alerts = Len(saved) + Len(saves) + Due(m.timer)
    BY DEF Told
  <2> QED
    BY <1>1, <1>3, <1>6, <2>1, <2>2
<1>10. \A u \in Tabs : tab'[u] # Closed => BooksOf(tab[u], nextId)'
  <2> SUFFICES ASSUME NEW u \in Tabs PROVE BooksOf(tab[u], nextId)'
    OBVIOUS
  <2>1. /\ tab'[u].timer = m.timer /\ tab'[u].completed = m.completed
        /\ tab'[u].pending.saves = << >> /\ tab'[u].pending.alerts = 0
    BY <1>2, <1>5
  <2>2. Distinct(tab[u].timer, tab[u].pending.saves, nextId)'
    BY <1>7, <2>1, NothingWaits DEF Distinct
  <2>3. Counted(tab[u].completed, tab[u].pending.saves)'
    BY <1>8, <2>1, NothingWaits DEF Counted
  <2>4. Told(tab[u].timer, tab[u].pending.saves, tab[u].pending.alerts)'
    BY <1>9, <2>1, NothingWaits DEF Told
  <2> QED
    BY <2>1, <2>2, <2>3, <2>4 DEF BooksOf, Books
<1>11. Books(stored.clock, stored.cycle.completed, << >>, 0, nextId)'
  <2>1. stored'.cycle.completed = m.completed
    BY <1>4, CycleIsPresent
  <2>2. Distinct(stored.clock, << >>, nextId)'
    BY <1>4, <1>7, NothingWaits DEF Distinct
  <2>3. Counted(stored.cycle.completed, << >>)'
    BY <1>8, <2>1, NothingWaits DEF Counted
  <2>4. Told(stored.clock, << >>, 0)'
    BY <1>4, <1>9, NothingWaits DEF Told
  <2> QED
    BY <1>4, <2>1, <2>2, <2>3, <2>4 DEF Books
<1>12. \A u \in Tabs : screen'[u] # Closed => /\ stored'.clock = screen'[u].timer
                                              /\ stored'.cycle = CycleOf(screen'[u])
                                              /\ screen'[u].pending = Drained
  BY <1>2, <1>4, <1>5 DEF CycleOf
<1>13. stored'.cycle # NoCycle
  BY <1>4, CycleIsPresent
<1> QED
  BY <1>6, <1>8, <1>10, <1>11, <1>12, <1>13 DEF LedgerInv

\* A step that saves nothing keeps the books of every machine it does not touch.
LEMMA LedgerFrame ==
  ASSUME ScreenInv, LedgerInv, UNCHANGED <<stored, saved, alerts, forgotten>>,
         nextId' \in Nat, nextId <= nextId',
         \A u \in Tabs : tab'[u] # Closed => tab'[u] = tab[u] \/ BooksOf(tab'[u], nextId'),
         \A u \in Tabs : screen'[u] # Closed => screen'[u] = screen[u]
  PROVE  LedgerInv'
<1>1. SavedIds' = SavedIds /\ SavedFocus' = SavedFocus /\ (SavedOnce => SavedOnce')
  BY DEF SavedIds, SavedFocus, SavedOnce
<1>2. TypeOK /\ nextId \in Nat
  BY DEF ScreenInv, TypeOK
<1>3. \A u \in Tabs : tab'[u] # Closed => BooksOf(tab'[u], nextId')
  <2> SUFFICES ASSUME NEW u \in Tabs, tab[u] # Closed, tab'[u] = tab[u]
               PROVE  BooksOf(tab[u], nextId')
    OBVIOUS
  <2>1. tab[u].timer \in Timers /\ tab[u].pending.saves \in Seq(SaveEffects)
    BY <1>2 DEF TypeOK, Machines
  <2>2. BooksOf(tab[u], nextId)
    BY DEF LedgerInv
  <2> QED
    BY <1>2, <2>1, <2>2, BooksLater DEF BooksOf
<1>4. Books(stored.clock, stored.cycle.completed, << >>, 0, nextId')
  <2>1. stored.clock \in Timers /\ << >> \in Seq(SaveEffects)
    BY <1>2 DEF TypeOK
  <2> QED
    BY <1>2, <2>1, BooksLater DEF LedgerInv
<1>5. \A u \in Tabs : tab'[u] # Closed => BooksOf(tab[u], nextId)'
  BY <1>1, <1>3 DEF BooksOf, Books, Distinct, Counted, Told
<1>6. Books(stored.clock, stored.cycle.completed, << >>, 0, nextId)'
  BY <1>1, <1>4 DEF Books, Distinct, Counted, Told
<1> QED
  BY <1>1, <1>5, <1>6 DEF LedgerInv

\* What a fresh tab reads is what was rendered, less the effects it has no part in.
LEMMA InitIsStored ==
  ASSUME ~Guest, stored.cycle = NoCycle => stored.clock = NoBlock, NEW id
  PROVE  /\ InitMachine(id).timer = stored.clock
         /\ InitMachine(id).completed = stored.cycle.completed
         /\ InitMachine(id).pendingBreak = stored.cycle.pendingBreak
         /\ InitMachine(id).labelSheetOpen = SheetOnLoad(stored.clock)
         /\ InitMachine(id).pending = Drained
BY DEF InitMachine, NoCycle

LEMMA IdGrows ==
  ASSUME TypeOK, NEW m
  PROVE  IdAfter(m) \in Nat /\ nextId <= IdAfter(m)
BY DEF IdAfter, TypeOK

LEMMA OpenTabLedger ==
  ASSUME OneTab, ScreenInv, LedgerInv, NEW t \in Tabs, OpenTab(t)
  PROVE  LedgerInv'
<1> DEFINE m == InitMachine(nextId)
<1>1. /\ tab' = [tab EXCEPT ![t] = m] /\ nextId' = IdAfter(tab'[t])
      /\ UNCHANGED <<screen, stored, saved, alerts, forgotten>>
  BY DEF OpenTab
<1>2. nextId' \in Nat /\ nextId <= nextId'
  BY <1>1, IdGrows DEF ScreenInv
<1>3. BooksOf(m, nextId)
  <2>1. m.timer = stored.clock /\ m.completed = stored.cycle.completed
        /\ m.pending.saves = << >> /\ m.pending.alerts = 0
    <3>1. m.pending = Drained
      BY InitIsStored DEF OneTab, LedgerInv
    <3> QED
      BY <3>1, InitIsStored DEF OneTab, LedgerInv, Drained
  <2> HIDE DEF m
  <2> QED
    BY <2>1 DEF BooksOf, LedgerInv
<1>4. BooksOf(m, nextId')
  <2>1. m \in Machines
    BY InitMachineType DEF ScreenInv, TypeOK
  <2>2. m.timer \in Timers /\ m.pending.saves \in Seq(SaveEffects) /\ nextId \in Nat
    BY <2>1 DEF Machines, ScreenInv, TypeOK
  <2> HIDE DEF m
  <2> QED
    BY <1>2, <1>3, <2>2, BooksLater DEF BooksOf, ScreenInv
<1> HIDE DEF m
<1>5. tab'[t] = m /\ \A u \in Tabs \ {t} : tab'[u] = tab[u]
  BY <1>1 DEF ScreenInv, TypeOK
<1> QED
  BY <1>1, <1>2, <1>4, <1>5, LedgerFrame

LEMMA CloseTabLedger ==
  ASSUME ScreenInv, LedgerInv, NEW t \in Tabs, CloseTab(t)
  PROVE  LedgerInv'
<1>1. /\ tab' = [tab EXCEPT ![t] = Closed] /\ screen' = [screen EXCEPT ![t] = Closed]
      /\ UNCHANGED <<nextId, stored, saved, alerts, forgotten>> /\ nextId \in Nat
  BY DEF CloseTab, ScreenInv, TypeOK
<1>2. /\ tab'[t] = Closed /\ screen'[t] = Closed
      /\ \A u \in Tabs \ {t} : tab'[u] = tab[u] /\ screen'[u] = screen[u]
  BY <1>1 DEF ScreenInv, TypeOK
<1> QED
  BY <1>1, <1>2, LedgerFrame

LEMMA ClockLedger ==
  ASSUME ScreenInv, LedgerInv, PassTime \/ SetClockBack \/ UNCHANGED vars
  PROVE  LedgerInv'
<1>1. UNCHANGED <<tab, screen, nextId, stored, saved, alerts, forgotten>> /\ nextId \in Nat
  BY DEF PassTime, SetClockBack, vars, tabVars, ScreenInv, TypeOK
<1> QED
  BY <1>1, LedgerFrame

LEMMA CommitStepLedger ==
  ASSUME OneTab, ScreenInv, LedgerInv, NEW t \in Tabs, Commit(t) \/ FetchSettings(t)
  PROVE  LedgerInv'
<1>1. tab[t] \in Machines
  BY OpenMachines DEF Commit, FetchSettings, ScreenInv, TypeOK
<1>2. BooksOf(tab[t], nextId) /\ nextId \in Nat
  BY <1>1, OpenIsNotClosed DEF LedgerInv, ScreenInv, TypeOK
<1>3. CommitMachine(t, tab[t]) /\ nextId' = nextId /\ forgotten' = forgotten
  BY DEF Commit, FetchSettings
<1> QED
  BY <1>1, <1>2, <1>3, CommitLedger DEF BooksOf, Books

LEMMA TickLedger ==
  ASSUME OneTab, ScreenInv, LedgerInv, NEW t \in Tabs, Tick(t)
  PROVE  LedgerInv'
<1> DEFINE event == [kind |-> "tick"]
           m     == Reduce(tab[t], event, nextId, settings[t])
<1>1. /\ screen[t].timer.phase = "running" /\ tab' = [tab EXCEPT ![t] = m]
      /\ nextId' = IdAfter(tab'[t])
      /\ UNCHANGED <<screen, stored, saved, alerts, forgotten>>
  BY DEF Tick
<1>2. screen[t] # Closed
  <2>1. Closed.timer.phase = "idle"
    BY DEF Closed, NoBlock
  <2> QED
    BY <1>1, <2>1
<1>3. /\ TypeOK /\ tab[t] \in Machines /\ BooksOf(tab[t], nextId) /\ settings[t] \in TimerSettings
  BY <1>2, OpenMachines, OpenIsNotClosed, SettingsAssumption DEF ScreenInv, TypeOK, LedgerInv
<1>4. event \in Events /\ Fits(event, tab[t].timer) /\ event.kind # "resetCycle"
  BY DEF Events, Fits
<1>5. BooksOf(m, IdAfter(m))
  <2> HIDE DEF event
  <2> QED
    BY <1>3, <1>4, ReduceBooks DEF OneTab
<1> HIDE DEF m
<1>6. tab'[t] = m /\ \A u \in Tabs \ {t} : tab'[u] = tab[u]
  BY <1>1, <1>3 DEF TypeOK
<1>7. nextId' = IdAfter(m) /\ nextId' \in Nat /\ nextId <= nextId'
  BY <1>1, <1>3, <1>6, IdGrows
<1> QED
  BY <1>1, <1>5, <1>6, <1>7, LedgerFrame

LEMMA UserLedger ==
  ASSUME OneTab, ScreenInv, LedgerInv, NEW t \in Tabs, User(t)
  PROVE  LedgerInv'
<1>1. PICK event \in Events : /\ Dispatch(t, event) /\ Fits(event, tab[t].timer)
                              /\ screen[t] # Closed /\ Forgets(t, event)
  BY UserDispatches
<1>2. /\ TypeOK /\ tab[t] \in Machines /\ screen[t] \in Machines /\ BooksOf(tab[t], nextId)
      /\ settings[t] \in TimerSettings /\ nextId \in Nat
  BY <1>1, OpenMachines, OpenIsNotClosed, SettingsAssumption DEF ScreenInv, TypeOK, LedgerInv
<1> DEFINE m == Reduce(tab[t], event, nextId, settings[t])
<1>3. m \in Machines
  BY <1>2, ReduceType
<1>4. CommitMachine(t, m) /\ nextId' = IdAfter(tab'[t])
  BY <1>1 DEF Dispatch
<1>5. nextId' = IdAfter(m) /\ nextId' \in Nat
  <2> HIDE DEF m
  <2>1. tab'[t].timer = m.timer
    BY <1>2, <1>3, <1>4 DEF CommitMachine, TypeOK, Machines
  <2> QED
    BY <1>2, <1>4, <2>1 DEF IdAfter
<1>6. CASE event.kind # "resetCycle"
  <2>1. BooksOf(m, IdAfter(m))
    BY <1>1, <1>2, <1>6, ReduceBooks DEF OneTab
  <2>2. forgotten' = forgotten
    BY <1>1, <1>6 DEF Forgets
  <2> HIDE DEF m
  <2> QED
    BY <1>3, <1>4, <1>5, <2>1, <2>2, CommitLedger DEF BooksOf, Books
<1>7. CASE event.kind = "resetCycle"
  <2>1. /\ tab[t] = screen[t] /\ tab[t].timer = NoBlock
        /\ forgotten' = {saved'[i].id : i \in DOMAIN saved'}
    BY <1>1, <1>7 DEF Forgets
  <2>2. tab[t].pending.saves = << >> /\ tab[t].pending.alerts = 0
    BY <1>1, <2>1 DEF LedgerInv, Drained
  <2> DEFINE machine == tab[t]
             result  == Transition(machine.timer, event, now, nextId, settings[t],
                                   machine.completed, machine.pendingBreak)
             effects == result.effects
  <2>3. result = Result(NoBlock, SetCycle(0, FALSE))
    BY <1>7, <2>1 DEF Transition, OnResetCycle
  <2>4. /\ result.state = NoBlock /\ effects.saves = << >> /\ effects.alerts = 0
        /\ effects.setCycle = << Cycle(0, FALSE) >>
    <3> HIDE DEF result
    <3> QED
      BY <2>3 DEF Result, SetCycle, NoEffects
  <2>5. /\ m.timer = NoBlock /\ m.completed = 0
        /\ m.pending.saves = << >> /\ m.pending.alerts = 0
    <3>1. /\ m.timer = result.state
          /\ m.completed = IF effects.setCycle = << >> THEN machine.completed
                           ELSE effects.setCycle[1].completed
          /\ m.pending.saves = machine.pending.saves \o effects.saves
          /\ m.pending.alerts = machine.pending.alerts + effects.alerts
      BY DEF OneTab, Reduce, ReduceOnce
    <3> DEFINE zero == Cycle(0, FALSE)
    <3>2. zero.completed = 0 /\ effects.setCycle = << zero >>
      BY <2>4 DEF Cycle
    <3> HIDE DEF result, m, zero
    <3>3. m.completed = 0
      BY <3>1, <3>2
    <3>4. m.pending.saves = << >>
      <4>1. << >> \o << >> = << >>
        OBVIOUS
      <4> QED
        BY <2>2, <2>4, <3>1, <4>1
    <3>5. m.timer = NoBlock
      BY <2>4, <3>1
    <3>6. m.pending.alerts = 0
      <4>1. machine.pending.alerts = 0 /\ effects.alerts = 0
        BY <2>2, <2>4
      <4> HIDE DEF effects, machine
      <4> QED
        BY <3>1, <4>1
    <3> QED
      BY <3>3, <3>4, <3>5, <3>6
  <2> HIDE DEF m
  <2>6. Distinct(m.timer, m.pending.saves, nextId') /\ Told(m.timer, m.pending.saves, m.pending.alerts)
    <3>1. Books(NoBlock, tab[t].completed, << >>, 0, nextId)
      BY <1>2, <2>1, <2>2 DEF BooksOf
    <3>2. Books(NoBlock, tab[t].completed, << >>, 0, nextId')
      <4>1. NoBlock \in Timers /\ << >> \in Seq(SaveEffects)
        BY DEF Timers
      <4>2. nextId <= nextId'
        BY <1>2, <1>5, IdGrows
      <4> QED
        BY <1>2, <1>5, <3>1, <4>1, <4>2, BooksLater
    <3> QED
      BY <2>5, <3>2 DEF Books
  <2>7. forgotten' = SavedIds'
    BY <2>1 DEF SavedIds
  <2> QED
    BY <1>3, <1>4, <1>5, <2>5, <2>6, <2>7, CommitLedger
<1> QED
  BY <1>6, <1>7

LEMMA LedgerStart == Init => LedgerInv
<1> SUFFICES ASSUME Init PROVE LedgerInv
  OBVIOUS
<1>1. /\ nextId = 1 /\ saved = << >> /\ alerts = 0 /\ forgotten = {}
      /\ stored.clock = NoBlock /\ stored.cycle = NoCycle
      /\ \A t \in Tabs : tab[t] = Closed /\ screen[t] = Closed
  BY DEF Init
<1>2. SavedIds = {} /\ SavedFocus = {} /\ SavedOnce
  BY <1>1 DEF SavedIds, SavedFocus, SavedOnce
<1>3. stored.cycle.completed = 0 /\ Due(stored.clock) = 0
  BY <1>1 DEF NoCycle, NoBlock, Due
<1>4. Counted(stored.cycle.completed, << >>)
  <2>1. (SavedFocus \ forgotten) \cup WaitingFocus(<< >>) = {}
    BY <1>2, NothingWaits
  <2> QED
    BY <1>3, <2>1, FS_EmptySet DEF Counted
<1>5. Distinct(stored.clock, << >>, nextId) /\ Told(stored.clock, << >>, 0)
  <2>1. Len(saved) = 0
    BY <1>1
  <2> QED
    BY <1>1, <1>2, <1>3, <2>1, NothingWaits DEF Distinct, Told
<1> QED
  BY <1>1, <1>2, <1>4, <1>5 DEF LedgerInv, Books

LEMMA LedgerStep ==
  ASSUME OneTab
  PROVE  ScreenInv /\ LedgerInv /\ [Next]_vars => LedgerInv'
<1> SUFFICES ASSUME ScreenInv, LedgerInv, [Next]_vars PROVE LedgerInv'
  OBVIOUS
<1>1. CASE PassTime \/ SetClockBack \/ UNCHANGED vars
  BY <1>1, ClockLedger
<1>2. ASSUME NEW t \in Tabs,
             OpenTab(t) \/ CloseTab(t) \/ Commit(t) \/ FetchSettings(t) \/ Tick(t) \/ User(t)
      PROVE  LedgerInv'
  BY <1>2, OpenTabLedger, CloseTabLedger, CommitStepLedger, TickLedger, UserLedger
<1> QED
  BY <1>1, <1>2 DEF Next

LEMMA LedgerAlways ==
  ASSUME OneTab
  PROVE  Spec => []LedgerInv
BY LedgerStart, LedgerStep, ScreenAlways, PTL DEF Spec

\* One tab hands each block to the queue once, whatever late ticks, commits and
\* reloads come between the end of a block and its save.
THEOREM HandedOverOnce ==
  ASSUME OneTab
  PROVE  Spec => []SavedOnce
<1>1. LedgerInv => SavedOnce
  BY DEF LedgerInv
<1> QED
  BY <1>1, LedgerAlways, PTL

\* The cycle localStorage keeps counts exactly the focus blocks saved since the
\* last reset, in one tab and whenever it is closed.
THEOREM CycleCountsSaves ==
  ASSUME OneTab
  PROVE  Spec => []CycleMatchesSaves
<1>1. LedgerInv => CycleMatchesSaves
  <2> SUFFICES ASSUME LedgerInv PROVE stored.cycle.completed = Cardinality(SavedFocus \ forgotten)
    BY DEF CycleMatchesSaves, SavedFocus
  <2> QED
    BY NothingWaits DEF LedgerInv, Books, Counted
<1> QED
  BY <1>1, LedgerAlways, PTL

\* One alert was fired for each block that ended, neither repeated nor lost by
\* a reload.
THEOREM AlertedOnce ==
  ASSUME OneTab
  PROVE  Spec => []OneAlertPerEnding
<1>1. ScreenInv /\ LedgerInv => OneAlertPerEnding
  <2> SUFFICES ASSUME ScreenInv, LedgerInv PROVE alerts = Len(saved) + Due(stored.clock)
    BY DEF OneAlertPerEnding, Due
  <2>1. alerts + 0 = Len(saved) + 0 + Due(stored.clock)
    BY NothingWaits DEF LedgerInv, Books, Told
  <2>2. alerts \in Nat /\ Len(saved) \in Nat /\ Due(stored.clock) \in Nat
    BY DEF ScreenInv, TypeOK, Due
  <2> QED
    BY <2>1, <2>2
<1> QED
  BY <1>1, LedgerAlways, ScreenAlways, PTL

\* A reload of a settled tab rebuilds the screen its user was looking at.
THEOREM ReloadRestores ==
  ASSUME OneTab
  PROVE  Spec => []ReloadRestoresScreen
<1>1. ScreenInv /\ LedgerInv => ReloadRestoresScreen
  <2> SUFFICES ASSUME ScreenInv, LedgerInv, NEW t \in Tabs, Settled(t)
               PROVE  InitMachine(nextId) = screen[t]
    BY DEF ReloadRestoresScreen
  <2>1. screen[t] # Closed /\ screen[t] \in Machines /\ Sound(screen[t])
    BY OpenMachines DEF Settled
  <2>2. InitMachine(nextId) \in Machines
    BY InitMachineType DEF ScreenInv, TypeOK
  <2>3. /\ stored.clock = screen[t].timer /\ stored.cycle = CycleOf(screen[t])
        /\ screen[t].pending = Drained
    BY <2>1 DEF LedgerInv
  <2> DEFINE loaded == InitMachine(nextId)
             shown  == screen[t]
  <2>4. /\ loaded.timer = stored.clock /\ loaded.completed = stored.cycle.completed
        /\ loaded.pendingBreak = stored.cycle.pendingBreak
        /\ loaded.labelSheetOpen = SheetOnLoad(stored.clock) /\ loaded.pending = Drained
    BY InitIsStored DEF OneTab, LedgerInv
  <2>5. SheetOnLoad(stored.clock) = shown.labelSheetOpen
    BY <2>1, <2>3 DEF SheetOnLoad, Sound, Ended, Machines
  <2> HIDE DEF loaded, shown
  <2>6. /\ loaded.timer = shown.timer /\ loaded.completed = shown.completed
        /\ loaded.pendingBreak = shown.pendingBreak
        /\ loaded.labelSheetOpen = shown.labelSheetOpen /\ loaded.pending = shown.pending
    BY <2>3, <2>4, <2>5, CycleIsPresent DEF shown
  <2>7. loaded \in Machines /\ shown \in Machines
    BY <2>1, <2>2 DEF loaded, shown
  <2>8. loaded = shown
    BY <2>6, <2>7 DEF Machines
  <2> QED
    BY <2>8 DEF loaded, shown
<1> QED
  BY <1>1, LedgerAlways, ScreenAlways, PTL

-------------------------------------------------------------------------------
(* Order in time: a block's intervals begin where it left them, or now. *)

StartsAmong(s, block, at) ==
  \A b \in DOMAIN s : \/ s[b].startedAt = at
                      \/ /\ block # NoBlock
                         /\ \E c \in DOMAIN block.intervals :
                              s[b].startedAt = block.intervals[c].startedAt

StartsNow(block, at) ==
  block # NoBlock => \A b \in DOMAIN block.intervals : block.intervals[b].startedAt = at

\* What is saved is the block that was held; what follows a save begins now.
Follows(block, at, result) ==
  /\ result.state # NoBlock => StartsAmong(result.state.intervals, block, at)
  /\ \A i \in DOMAIN result.effects.saves :
       StartsAmong(result.effects.saves[i].state.intervals, block, at)
  /\ result.effects.saves # << >> => StartsNow(result.state, at) /\ Len(result.effects.saves) = 1

LEMMA CloseBlockStarts ==
  ASSUME NEW s \in Seq(Intervals), NEW at \in Nat
  PROVE  /\ DOMAIN CloseBlock(s, at).intervals = DOMAIN s
         /\ \A b \in DOMAIN s : CloseBlock(s, at).intervals[b].startedAt = s[b].startedAt
<1> DEFINE n   == Len(s)
           end == IF n # 0 /\ s[n].endedAt # Open THEN s[n].endedAt ELSE at
           out == [s EXCEPT ![n].endedAt = end]
<1>1. CloseBlock(s, at).intervals = IF n = 0 THEN s ELSE out
  BY DEF CloseBlock
<1> HIDE DEF end
<1>2. DOMAIN out = DOMAIN s
  OBVIOUS
<1>3. \A b \in DOMAIN s : out[b] = IF b = n THEN [s[n] EXCEPT !.endedAt = end] ELSE s[b]
  OBVIOUS
<1>4. \A b \in DOMAIN s : s[b] \in Intervals
  OBVIOUS
<1>5. \A b \in DOMAIN s : out[b].startedAt = s[b].startedAt
  BY <1>3, <1>4 DEF Intervals
<1> HIDE DEF out
<1> QED
  BY <1>1, <1>2, <1>5

LEMMA NewBlockStarts ==
  ASSUME NEW id, NEW type, NEW at \in Nat, NEW set, NEW completed
  PROVE  StartsNow(NewBlock(id, type, at, set, completed), at)
<1>1. \A b \in DOMAIN << [startedAt |-> at, endedAt |-> Open] >> :
        << [startedAt |-> at, endedAt |-> Open] >>[b].startedAt = at
  OBVIOUS
<1> QED
  BY <1>1 DEF NewBlock, StartsNow

LEMMA TransitionFollows ==
  ASSUME NEW block \in Timers, NEW event \in Events, NEW at \in Nat, NEW id \in Nat,
         NEW set \in TimerSettings, NEW completed \in Nat, NEW pendingBreak \in BOOLEAN
  PROVE  Follows(block, at, Transition(block, event, at, id, set, completed, pendingBreak))
<1> DEFINE result == Transition(block, event, at, id, set, completed, pendingBreak)
           closed == CloseBlock(block.intervals, at)
<1>1. block.phase # "idle" => block \in Blocks
  BY DEF Timers, NoBlock
<1>2. block = NoBlock => block.phase = "idle"
  BY DEF NoBlock
<1>3. block \in Blocks /\ block # NoBlock => StartsAmong(closed.intervals, block, at)
  <2>1. block \in Blocks => block.intervals \in Seq(Intervals)
    BY DEF Blocks
  <2> QED
    BY <2>1, CloseBlockStarts DEF StartsAmong
<1>4. ASSUME NEW state, NEW effects, effects.saves = << >>,
             state # NoBlock => StartsAmong(state.intervals, block, at)
      PROVE  Follows(block, at, Result(state, effects))
  BY <1>4 DEF Follows, Result
<1>5. StartsNow(NoBlock, at)
  BY DEF StartsNow
<1>6. ASSUME NEW state, StartsNow(state, at)
      PROVE  state # NoBlock => StartsAmong(state.intervals, block, at)
  BY <1>6 DEF StartsNow, StartsAmong
<1>7. Follows(block, at, Ignored(block))
  <2>1. block # NoBlock => StartsAmong(block.intervals, block, at)
    BY DEF StartsAmong
  <2> QED
    BY <1>4, <2>1, EffectsOfSaves DEF Ignored
<1>8. ASSUME NEW state, StartsNow(state, at), NEW effects, NEW save, effects.saves = << save >>,
             save.state.intervals = closed.intervals, block \in Blocks, block # NoBlock
      PROVE  Follows(block, at, Result(state, effects))
  <2>1. Len(<< save >>) = 1 /\ \A i \in DOMAIN << save >> : << save >>[i] = save
    OBVIOUS
  <2>2. /\ Result(state, effects).state = state
        /\ Result(state, effects).effects.saves = << save >>
    BY <1>8 DEF Result
  <2> HIDE DEF closed
  <2> QED
    BY <1>3, <1>6, <1>8, <2>1, <2>2 DEF Follows
<1>9. ASSUME NEW status, block \in Blocks, block # NoBlock
      PROVE  Follows(block, at, Result(PrepareFocusEnd(block, at, status), SheetAndAlert))
  <2>1. PrepareFocusEnd(block, at, status).intervals = closed.intervals
    BY <1>9 DEF PrepareFocusEnd, Blocks
  <2> HIDE DEF closed
  <2> QED
    BY <1>3, <1>4, <1>9, <2>1, EffectsOfSaves
<1>10. ASSUME NEW type, NEW count PROVE StartsNow(NewBlock(id, type, at, set, count), at)
  BY NewBlockStarts
<1> HIDE DEF closed
<1> SUFFICES Follows(block, at, result)
  OBVIOUS
<1>11. CASE event.kind = "start"
  <2> DEFINE new     == NewBlock(id, event.type, at, set, completed)
             effects == IF pendingBreak THEN SetCycle(completed, FALSE) ELSE NoEffects
  <2>1. result = Result(new, effects)
    BY <1>11 DEF Transition, OnStart
  <2>2. StartsNow(new, at)
    BY <1>10
  <2>3. effects.saves = << >>
    BY EffectsOfSaves
  <2> HIDE DEF new, effects, result
  <2> QED
    BY <1>4, <1>6, <2>1, <2>2, <2>3
<1>12. CASE event.kind = "pause"
  <2>1. result = OnPause(block, at)
    BY <1>12 DEF Transition
  <2>2. CASE block.phase = "running"
    <3> DEFINE next == [block EXCEPT !.phase = "paused", !.intervals = CloseBlock(@, at).intervals]
    <3>1. result = Result(next, NoEffects)
      BY <2>1, <2>2 DEF OnPause, Ignored
    <3>2. block \in Blocks /\ block # NoBlock /\ next.intervals = closed.intervals
      BY <1>1, <1>2, <2>2 DEF Blocks, closed
    <3> HIDE DEF next, result
    <3> QED
      BY <1>3, <1>4, <3>1, <3>2, EffectsOfSaves
  <2> QED
    BY <1>7, <2>1, <2>2 DEF OnPause
<1>13. CASE event.kind = "resume"
  <2>1. result = OnResume(block, at)
    BY <1>13 DEF Transition
  <2>2. CASE block.phase = "paused"
    <3> DEFINE new  == [startedAt |-> at, endedAt |-> Open]
               next == [block EXCEPT !.phase = "running", !.intervals = Append(@, new)]
    <3>1. result = Result(next, NoEffects)
      BY <2>1, <2>2 DEF OnResume, Ignored
    <3>2. /\ block \in Blocks /\ block # NoBlock
          /\ next.intervals = Append(block.intervals, new)
      BY <1>1, <1>2, <2>2 DEF Blocks
    <3>3. StartsAmong(next.intervals, block, at)
      <4> DEFINE s == block.intervals
                 out == Append(s, new)
      <4>1. s \in Seq(Intervals) /\ new.startedAt = at
        BY <3>2 DEF Blocks
      <4> HIDE DEF s, new
      <4>2. \A b \in DOMAIN out : (b \in DOMAIN s /\ out[b] = s[b]) \/ out[b] = new
        BY <4>1
      <4>3. \A b \in DOMAIN out : \/ out[b].startedAt = at
                                  \/ \E c \in DOMAIN s : out[b].startedAt = s[c].startedAt
        BY <4>1, <4>2
      <4> HIDE DEF out, next
      <4>4. StartsAmong(out, block, at)
        BY <3>2, <4>3 DEF StartsAmong, s
      <4> QED
        BY <3>2, <4>4 DEF out, s
    <3> HIDE DEF next, result
    <3> QED
      BY <1>4, <3>1, <3>3, EffectsOfSaves
  <2> QED
    BY <1>7, <2>1, <2>2 DEF OnResume
<1>14. CASE event.kind = "stop"
  <2>1. result = OnStop(block, at)
    BY <1>14 DEF Transition
  <2>2. CASE block.phase \in {"idle", "ended"}
    BY <1>7, <2>1, <2>2 DEF OnStop
  <2>3. CASE block.phase \notin {"idle", "ended"} /\ EndsOnSheet(block)
    BY <1>1, <1>2, <1>9, <2>1, <2>3 DEF OnStop
  <2>4. CASE block.phase \notin {"idle", "ended"} /\ ~EndsOnSheet(block)
    <3> DEFINE save == SaveEffect([block EXCEPT !.phase = "ended", !.blockStatus = "aborted",
                                                !.intervals = closed.intervals], closed.endedAt)
    <3>1. result = Result(NoBlock, SaveAndAlert(save))
      BY <2>1, <2>4 DEF OnStop, closed
    <3>2. block \in Blocks /\ block # NoBlock /\ save.state.intervals = closed.intervals
      BY <1>1, <1>2, <2>4 DEF SaveEffect, Blocks
    <3>3. SaveAndAlert(save).saves = << save >>
      BY EffectsOfSaves
    <3> HIDE DEF save, result
    <3> QED
      BY <1>5, <1>8, <3>1, <3>2, <3>3
  <2> QED
    BY <2>2, <2>3, <2>4
<1>15. CASE event.kind = "labelSave"
  <2>1. result = OnLabelSave(block, event.label, at, id, set)
    BY <1>15 DEF Transition
  <2>2. CASE block # NoBlock
    <3> DEFINE save  == SaveEffect([block EXCEPT !.label = event.label,
                                                 !.intervals = closed.intervals], closed.endedAt)
               count == block.focusBlocksCompleted + 1
               auto  == set.autoStartBreaks /\ block.blockStatus = "completed"
               next  == IF auto
                        THEN NewBlock(id, NextBreakType(count, set.blocksPerCycle), at, set, count)
                        ELSE NoBlock
    <3>1. result = Result(next, SaveAndAdvance(save, count, ~auto))
      BY <2>1, <2>2 DEF OnLabelSave, closed
    <3>2. StartsNow(next, at)
      <4> HIDE DEF auto
      <4> QED
        BY <1>5, <1>10
    <3>3. block \in Blocks /\ save.state.intervals = closed.intervals
      BY <2>2 DEF SaveEffect, Blocks, Timers
    <3>4. SaveAndAdvance(save, count, ~auto).saves = << save >>
      BY EffectsOfSaves
    <3> HIDE DEF save, next, auto, count, result
    <3> QED
      BY <1>8, <2>2, <3>1, <3>2, <3>3, <3>4
  <2> QED
    BY <1>7, <2>1, <2>2 DEF OnLabelSave
<1>16. CASE event.kind = "skipBreak"
  <2>1. result \in {Result(NoBlock, NoEffects), Result(NoBlock, SetCycle(completed, FALSE)), Ignored(block)}
    BY <1>16 DEF Transition, OnSkipBreak
  <2> HIDE DEF result
  <2> QED
    BY <1>4, <1>7, <2>1, EffectsOfSaves
<1>17. CASE event.kind = "resetCycle"
  <2>1. result \in {Result(NoBlock, SetCycle(0, FALSE)), Ignored(block)}
    BY <1>17 DEF Transition, OnResetCycle
  <2> HIDE DEF result
  <2> QED
    BY <1>4, <1>7, <2>1, EffectsOfSaves
<1>18. CASE event.kind = "tick"
  <2>1. result = OnTick(block, at, id, set, completed)
    BY <1>18 DEF Transition
  <2>2. TickGate(block) => block \in Blocks /\ block # NoBlock
    BY <1>1, <1>2 DEF TickGate
  <2>3. CASE TickGate(block) /\ TimeIsUp(Overrun(block, at)) /\ EndsOnSheet(block)
    BY <1>9, <2>1, <2>2, <2>3 DEF OnTick
  <2>4. CASE TickGate(block) /\ TimeIsUp(Overrun(block, at)) /\ ~EndsOnSheet(block)
    <3> DEFINE save == SaveEffect([block EXCEPT !.intervals = closed.intervals], closed.endedAt)
               auto == set.autoStartNext /\ WithinGrace(Overrun(block, at))
               next == IF auto THEN NewBlock(id, "focus", at, set, completed) ELSE NoBlock
    <3>1. result = Result(next, SaveAndAlert(save))
      BY <2>1, <2>4 DEF OnTick, closed
    <3>2. StartsNow(next, at)
      <4> HIDE DEF auto
      <4> QED
        BY <1>5, <1>10
    <3>3. save.state.intervals = closed.intervals
      BY <2>2, <2>4 DEF SaveEffect, Blocks
    <3>4. SaveAndAlert(save).saves = << save >>
      BY EffectsOfSaves
    <3> HIDE DEF save, next, result
    <3> QED
      BY <1>8, <2>2, <2>4, <3>1, <3>2, <3>3, <3>4
  <2>5. CASE ~(TickGate(block) /\ TimeIsUp(Overrun(block, at)))
    BY <1>7, <2>1, <2>5 DEF OnTick
  <2> QED
    BY <2>3, <2>4, <2>5
<1> QED
  BY <1>11, <1>12, <1>13, <1>14, <1>15, <1>16, <1>17, <1>18 DEF Events

-------------------------------------------------------------------------------
(* No interval begins before the last one handed on has ended. *)

Behind(s1, s2) == \A a \in DOMAIN s1, b \in DOMAIN s2 : s1[a].endedAt <= s2[b].startedAt

EndsBy(s, at) == \A a \in DOMAIN s : s[a].endedAt <= at

InOrder(block, saves) ==
  /\ \A i \in DOMAIN saved :
       /\ block # NoBlock => Behind(saved[i].intervals, block.intervals)
       /\ \A k \in DOMAIN saves : Behind(saved[i].intervals, saves[k].state.intervals)
  /\ \A k \in DOMAIN saves :
       /\ block # NoBlock => Behind(saves[k].state.intervals, block.intervals)
       /\ \A l \in DOMAIN saves : k < l => Behind(saves[k].state.intervals, saves[l].state.intervals)

OrderInv ==
  /\ \A t \in Tabs : tab[t] # Closed => InOrder(tab[t].timer, tab[t].pending.saves)
  /\ InOrder(stored.clock, << >>)
  /\ \A i, j \in DOMAIN saved : i < j => Behind(saved[i].intervals, saved[j].intervals)

LEMMA BehindAmong ==
  ASSUME NEW s1, NEW s2, NEW block, NEW at, EndsBy(s1, at),
         block # NoBlock => Behind(s1, block.intervals), StartsAmong(s2, block, at)
  PROVE  Behind(s1, s2)
BY DEF EndsBy, Behind, StartsAmong

LEMMA BehindNow ==
  ASSUME NEW s1, NEW block, NEW at, EndsBy(s1, at), StartsNow(block, at), block # NoBlock
  PROVE  Behind(s1, block.intervals)
BY DEF EndsBy, Behind, StartsNow

LEMMA NeatEnds ==
  ASSUME NEW s \in Seq(Intervals), NEW at, Neat(s, at), Shut(s)
  PROVE  EndsBy(s, at)
<1>1. DOMAIN s = 1 .. Len(s)
  OBVIOUS
<1> QED
  BY <1>1 DEF Neat, Shut, EndsBy

LEMMA ReduceInOrder ==
  ASSUME ~Guest, TypeOK, NEW m \in Machines, InOrder(m.timer, m.pending.saves),
         NeatMachine(m, now), NeatSaved(saved, now), NEW event \in Events, NEW id \in Nat,
         NEW set \in TimerSettings
  PROVE  LET next == Reduce(m, event, id, set) IN InOrder(next.timer, next.pending.saves)
<1> DEFINE result == Transition(m.timer, event, now, id, set, m.completed, m.pendingBreak)
           next   == Reduce(m, event, id, set)
           block  == m.timer
           saves  == m.pending.saves
           fresh  == result.effects.saves
           state  == result.state
           more   == saves \o fresh
<1>1. /\ m.timer \in Timers /\ m.completed \in Nat /\ m.pendingBreak \in BOOLEAN
      /\ saves \in Seq(SaveEffects) /\ now \in Nat
  BY DEF Machines, TypeOK
<1>2. result \in Results
  BY <1>1, TransitionType
<1>3. state \in Timers /\ fresh \in Seq(SaveEffects)
  BY <1>2 DEF Results, Effects
<1>4. Follows(block, now, result)
  BY <1>1, TransitionFollows
<1>5. NeatSaves(fresh, now)
  BY <1>1, NeatTransition DEF NeatMachine
<1>6. next.timer = state /\ next.pending.saves = more
  BY DEF Reduce, ReduceOnce
<1>7. /\ InOrder(block, saves) /\ NeatSaves(saves, now)
  BY DEF NeatMachine
<1>8. /\ state # NoBlock => StartsAmong(state.intervals, block, now)
      /\ \A i \in DOMAIN fresh : StartsAmong(fresh[i].state.intervals, block, now)
      /\ fresh # << >> => StartsNow(state, now) /\ Len(fresh) = 1
  BY <1>4 DEF Follows
<1> HIDE DEF next, result, block, saves, fresh, state
<1>9. \A i \in DOMAIN saved : EndsBy(saved[i].intervals, now)
  <2>1. \A i \in DOMAIN saved : saved[i] \in SavedBlocks
    BY DEF TypeOK
  <2>2. \A i \in DOMAIN saved : saved[i].intervals \in Seq(Intervals)
    BY <2>1 DEF SavedBlocks
  <2> QED
    BY <2>2, NeatEnds DEF NeatSaved
<1>10. ASSUME NEW s \in Seq(SaveEffects), NeatSaves(s, now), NEW k \in DOMAIN s
       PROVE  EndsBy(s[k].state.intervals, now)
  <2>1. s[k] \in SaveEffects
    BY <1>10
  <2>2. s[k].state.intervals \in Seq(Intervals)
    BY <2>1 DEF SaveEffects, Blocks
  <2> QED
    BY <1>10, <2>2, NeatEnds DEF NeatSaves
<1>11. \A k \in DOMAIN saves : EndsBy(saves[k].state.intervals, now)
  BY <1>1, <1>7, <1>10
<1>12. CASE fresh = << >>
  <2>1. more = saves
    BY <1>1, <1>12
  <2>2. state # NoBlock => /\ \A i \in DOMAIN saved : Behind(saved[i].intervals, state.intervals)
                           /\ \A k \in DOMAIN saves :
                                Behind(saves[k].state.intervals, state.intervals)
    BY <1>7, <1>8, <1>9, <1>11, BehindAmong DEF InOrder
  <2>3. InOrder(state, saves)
    BY <1>7, <2>2 DEF InOrder
  <2> HIDE DEF more
  <2> QED
    BY <1>6, <2>1, <2>3 DEF next
<1>13. CASE fresh # << >>
  <2> DEFINE save == fresh[1]
  <2>1. 1 \in DOMAIN fresh /\ Len(fresh) = 1
    BY <1>3, <1>8, <1>13
  <2>2. EndsBy(save.state.intervals, now) /\ StartsAmong(save.state.intervals, block, now)
    BY <1>3, <1>5, <1>8, <1>10, <2>1
  <2>3. /\ \A k \in DOMAIN more : \/ k \in DOMAIN saves /\ k <= Len(saves) /\ more[k] = saves[k]
                                  \/ k = Len(saves) + 1 /\ more[k] = save
        /\ Len(saves) \in Nat /\ DOMAIN more \subseteq Nat
    <3>1. Len(saves) \in Nat /\ DOMAIN saves = 1 .. Len(saves)
      BY <1>1
    <3>2. /\ more \in Seq(SaveEffects)
          /\ Len(more) = Len(saves) + Len(fresh)
          /\ \A k \in 1 .. Len(saves) + Len(fresh) :
               more[k] = IF k <= Len(saves) THEN saves[k] ELSE fresh[k - Len(saves)]
      BY <1>1, <1>3
    <3> HIDE DEF more
    <3>5. Len(more) = Len(saves) + 1
      BY <2>1, <3>2
    <3>6. DOMAIN more = 1 .. Len(saves) + 1
      BY <3>2, <3>5
    <3>3. \A k \in 1 .. Len(saves) : more[k] = saves[k]
      BY <2>1, <3>1, <3>2
    <3>4. more[Len(saves) + 1] = save
      BY <2>1, <3>1, <3>2
    <3> HIDE DEF save
    <3> QED
      BY <3>1, <3>3, <3>4, <3>6
  <2> HIDE DEF more, save
  <2>4. \A i \in DOMAIN saved : Behind(saved[i].intervals, save.state.intervals)
    BY <1>7, <1>9, <2>2, BehindAmong DEF InOrder
  <2>5. \A k \in DOMAIN saves : Behind(saves[k].state.intervals, save.state.intervals)
    BY <1>7, <1>11, <2>2, BehindAmong DEF InOrder
  <2>6. state # NoBlock =>
          /\ \A i \in DOMAIN saved : Behind(saved[i].intervals, state.intervals)
          /\ \A k \in DOMAIN saves : Behind(saves[k].state.intervals, state.intervals)
          /\ Behind(save.state.intervals, state.intervals)
    BY <1>8, <1>9, <1>11, <1>13, <2>2, BehindNow
  <2>7. ASSUME NEW i \in DOMAIN saved
        PROVE  /\ state # NoBlock => Behind(saved[i].intervals, state.intervals)
               /\ \A k \in DOMAIN more : Behind(saved[i].intervals, more[k].state.intervals)
    BY <1>7, <2>3, <2>4, <2>6 DEF InOrder
  <2>8. ASSUME NEW k \in DOMAIN more
        PROVE  state # NoBlock => Behind(more[k].state.intervals, state.intervals)
    BY <2>3, <2>6
  <2>9. ASSUME NEW k \in DOMAIN more, NEW l \in DOMAIN more, k < l
        PROVE  Behind(more[k].state.intervals, more[l].state.intervals)
    <3>1. k \in DOMAIN saves /\ more[k] = saves[k]
      BY <2>3, <2>9
    <3>2. CASE l \in DOMAIN saves /\ more[l] = saves[l]
      BY <1>7, <2>9, <3>1, <3>2 DEF InOrder
    <3>3. CASE more[l] = save
      BY <2>5, <3>1, <3>3
    <3> QED
      BY <2>3, <3>2, <3>3
  <2>10. InOrder(state, more)
    BY <2>7, <2>8, <2>9 DEF InOrder
  <2> QED
    BY <1>6, <2>10 DEF next
<1> QED
  BY <1>12, <1>13


\* A commit appends what waited, with its intervals as they were.
LEMMA SavedIntervals ==
  ASSUME ~Guest, TypeOK, NEW saves \in Seq(SaveEffects), NeatSaves(saves, now),
         saved' = saved \o Payloads(saves)
  PROVE  \A i \in DOMAIN saved' :
           \/ i \in DOMAIN saved /\ i <= Len(saved) /\ saved'[i] = saved[i]
           \/ /\ i - Len(saved) \in DOMAIN saves /\ i > Len(saved)
              /\ saved'[i].intervals = saves[i - Len(saved)].state.intervals
<1> DEFINE payloads == Payloads(saves)
           n        == Len(saved)
<1>1. saved \in Seq(SavedBlocks) /\ payloads \in Seq(SavedBlocks) /\ saved' = saved \o payloads
  BY PayloadsType DEF TypeOK
<1>2. ASSUME NEW k \in DOMAIN payloads
      PROVE  k \in DOMAIN saves /\ payloads[k].intervals = saves[k].state.intervals
  <2>1. k \in DOMAIN saves /\ payloads[k] = Payload(saves[k])
    BY DEF Payloads
  <2>2. saves[k] \in SaveEffects /\ Shut(saves[k].state.intervals)
    BY <2>1 DEF NeatSaves
  <2> QED
    BY <2>1, <2>2, PayloadOfShut
<1> HIDE DEF payloads
<1> SUFFICES ASSUME NEW i \in DOMAIN saved'
             PROVE  \/ i \in DOMAIN saved /\ i <= n /\ saved'[i] = saved[i]
                    \/ /\ i - n \in DOMAIN saves /\ i > n
                       /\ saved'[i].intervals = saves[i - n].state.intervals
  OBVIOUS
<1>3. \/ i \in DOMAIN saved /\ i <= n /\ saved'[i] = saved[i]
      \/ i - n \in DOMAIN payloads /\ i > n /\ saved'[i] = payloads[i - n]
  BY <1>1
<1> QED
  BY <1>2, <1>3

LEMMA CommitInOrder ==
  ASSUME OneTab, ScreenInv, LedgerInv, OrderInv, NEW t \in Tabs, NEW m \in Machines,
         NeatMachine(m, now), InOrder(m.timer, m.pending.saves), CommitMachine(t, m)
  PROVE  OrderInv'
<1> DEFINE drained == [m EXCEPT !.pending = Drained]
           saves   == m.pending.saves
           n       == Len(saved)
<1>1. /\ tab' = [tab EXCEPT ![t] = drained] /\ saved' = saved \o Payloads(saves)
      /\ stored' = [clock |-> ClockToStore(t, m), cycle |-> CycleToStore(t, m)]
  BY DEF CommitMachine
<1>2. drained.timer = m.timer /\ drained.pending.saves = << >>
  BY DEF Machines, Drained
<1>3. saves \in Seq(SaveEffects) /\ TypeOK /\ NeatSaves(saves, now) /\ n \in Nat /\ ~Guest
  BY DEF Machines, ScreenInv, TypeOK, NeatMachine, OneTab
<1>4. stored'.clock = m.timer
  BY <1>1 DEF ClockToStore, LedgerInv
<1> HIDE DEF drained
<1>5. \A u \in Tabs : tab'[u] = drained
  BY <1>1, <1>3 DEF OneTab, TypeOK
<1>6. InOrder(m.timer, saves)
  OBVIOUS
<1> HIDE DEF saves
<1>7. \A i \in DOMAIN saved' :
        \/ i \in DOMAIN saved /\ i <= n /\ saved'[i] = saved[i]
        \/ /\ i - n \in DOMAIN saves /\ i > n
           /\ saved'[i].intervals = saves[i - n].state.intervals
  BY <1>1, <1>3, SavedIntervals
<1>8. \A i \in DOMAIN saved' : m.timer # NoBlock => Behind(saved'[i].intervals, m.timer.intervals)
  BY <1>6, <1>7 DEF InOrder
<1>9. InOrder(m.timer, << >>)'
  BY <1>8 DEF InOrder
<1>10. ASSUME NEW i \in DOMAIN saved', NEW j \in DOMAIN saved', i < j
       PROVE  Behind(saved'[i].intervals, saved'[j].intervals)
  <2>1. DOMAIN saved' \subseteq Nat /\ DOMAIN saves \subseteq Nat
    <3>1. saved' \in Seq(SavedBlocks)
      BY <1>1, <1>3, PayloadsType DEF TypeOK
    <3> QED
      BY <1>3, <3>1
  <2>2. CASE i \in DOMAIN saved /\ saved'[i] = saved[i] /\ j \in DOMAIN saved /\ saved'[j] = saved[j]
    BY <1>10, <2>2 DEF OrderInv
  <2>3. CASE /\ i \in DOMAIN saved /\ saved'[i] = saved[i]
             /\ j - n \in DOMAIN saves /\ saved'[j].intervals = saves[j - n].state.intervals
    BY <1>6, <2>3 DEF InOrder
  <2>4. CASE /\ i - n \in DOMAIN saves /\ saved'[i].intervals = saves[i - n].state.intervals
             /\ j - n \in DOMAIN saves /\ saved'[j].intervals = saves[j - n].state.intervals
    <3>1. i - n < j - n
      BY <1>3, <1>10, <2>1
    <3> QED
      BY <1>6, <2>4, <3>1 DEF InOrder
  <2>5. ~(i > n /\ j <= n)
    BY <1>3, <1>10, <2>1
  <2> QED
    BY <1>7, <2>2, <2>3, <2>4, <2>5
<1>11. \A u \in Tabs : InOrder(tab[u].timer, tab[u].pending.saves)'
  BY <1>2, <1>5, <1>9 DEF InOrder
<1>12. InOrder(stored.clock, << >>)'
  BY <1>4, <1>9 DEF InOrder
<1> QED
  BY <1>10, <1>11, <1>12 DEF OrderInv

\* A step that saves nothing keeps the order of every machine it does not touch.
LEMMA OrderFrame ==
  ASSUME OrderInv, UNCHANGED <<stored, saved>>,
         \A u \in Tabs : tab'[u] # Closed =>
           tab'[u] = tab[u] \/ InOrder(tab'[u].timer, tab'[u].pending.saves)
  PROVE  OrderInv'
<1>1. \A u \in Tabs : tab'[u] # Closed => InOrder(tab'[u].timer, tab'[u].pending.saves)
  BY DEF OrderInv
<1>2. \A u \in Tabs : tab'[u] # Closed => InOrder(tab[u].timer, tab[u].pending.saves)'
  BY <1>1 DEF InOrder
<1>3. InOrder(stored.clock, << >>)'
  BY DEF OrderInv, InOrder
<1> QED
  BY <1>2, <1>3 DEF OrderInv

LEMMA OpenTabOrder ==
  ASSUME OneTab, ScreenInv, LedgerInv, OrderInv, NEW t \in Tabs, OpenTab(t)
  PROVE  OrderInv'
<1> DEFINE m == InitMachine(nextId)
<1>1. tab' = [tab EXCEPT ![t] = m] /\ UNCHANGED <<stored, saved>>
  BY DEF OpenTab
<1>2. m.timer = stored.clock /\ m.pending.saves = << >>
  BY InitIsStored DEF OneTab, LedgerInv, Drained
<1> HIDE DEF m
<1>3. tab'[t] = m /\ \A u \in Tabs \ {t} : tab'[u] = tab[u]
  BY <1>1 DEF ScreenInv, TypeOK
<1>4. InOrder(m.timer, m.pending.saves)
  BY <1>2 DEF OrderInv
<1> QED
  BY <1>1, <1>3, <1>4, OrderFrame

LEMMA TickOrder ==
  ASSUME OneTab, ScreenInv, NeatInv, OrderInv, NEW t \in Tabs, Tick(t)
  PROVE  OrderInv'
<1> DEFINE event == [kind |-> "tick"]
           m     == Reduce(tab[t], event, nextId, settings[t])
<1>1. /\ screen[t].timer.phase = "running" /\ tab' = [tab EXCEPT ![t] = m]
      /\ UNCHANGED <<stored, saved>>
  BY DEF Tick
<1>2. screen[t] # Closed
  <2>1. Closed.timer.phase = "idle"
    BY DEF Closed, NoBlock
  <2> QED
    BY <1>1, <2>1
<1>3. /\ TypeOK /\ tab[t] \in Machines /\ NeatMachine(tab[t], now) /\ NeatSaved(saved, now)
      /\ InOrder(tab[t].timer, tab[t].pending.saves)
      /\ settings[t] \in TimerSettings /\ nextId \in Nat
  BY <1>2, OpenMachines, OpenIsNotClosed, SettingsAssumption
  DEF ScreenInv, TypeOK, NeatInv, OrderInv
<1>4. event \in Events
  BY DEF Events
<1>5. InOrder(m.timer, m.pending.saves)
  <2> HIDE DEF event
  <2> QED
    BY <1>3, <1>4, ReduceInOrder DEF OneTab
<1> HIDE DEF m
<1>6. tab'[t] = m /\ \A u \in Tabs \ {t} : tab'[u] = tab[u]
  BY <1>1, <1>3 DEF TypeOK
<1> QED
  BY <1>1, <1>5, <1>6, OrderFrame

LEMMA UserOrder ==
  ASSUME OneTab, ScreenInv, NeatInv, LedgerInv, OrderInv, NEW t \in Tabs, User(t)
  PROVE  OrderInv'
<1>1. PICK event \in Events : Dispatch(t, event) /\ screen[t] # Closed
  BY UserDispatches
<1>2. /\ TypeOK /\ tab[t] \in Machines /\ NeatMachine(tab[t], now) /\ NeatSaved(saved, now)
      /\ InOrder(tab[t].timer, tab[t].pending.saves)
      /\ settings[t] \in TimerSettings /\ nextId \in Nat
  BY <1>1, OpenMachines, OpenIsNotClosed, SettingsAssumption
  DEF ScreenInv, TypeOK, NeatInv, OrderInv
<1> DEFINE m == Reduce(tab[t], event, nextId, settings[t])
<1>3. m \in Machines /\ NeatMachine(m, now)
  BY <1>2, ReduceType, NeatReduce
<1>4. InOrder(m.timer, m.pending.saves)
  BY <1>2, ReduceInOrder DEF OneTab
<1>5. CommitMachine(t, m)
  BY <1>1 DEF Dispatch
<1> HIDE DEF m
<1> QED
  BY <1>3, <1>4, <1>5, CommitInOrder

LEMMA CommitStepOrder ==
  ASSUME OneTab, ScreenInv, NeatInv, LedgerInv, OrderInv, NEW t \in Tabs,
         Commit(t) \/ FetchSettings(t)
  PROVE  OrderInv'
<1>1. tab[t] \in Machines /\ tab[t] # Closed
  BY OpenMachines, OpenIsNotClosed DEF Commit, FetchSettings, ScreenInv, TypeOK
<1>2. NeatMachine(tab[t], now) /\ InOrder(tab[t].timer, tab[t].pending.saves)
  BY <1>1 DEF NeatInv, OrderInv
<1>3. CommitMachine(t, tab[t])
  BY DEF Commit, FetchSettings
<1> QED
  BY <1>1, <1>2, <1>3, CommitInOrder

LEMMA QuietOrder ==
  ASSUME ScreenInv, OrderInv, NEW t \in Tabs, CloseTab(t)
  PROVE  OrderInv'
<1>1. tab' = [tab EXCEPT ![t] = Closed] /\ UNCHANGED <<stored, saved>>
  BY DEF CloseTab
<1>2. tab'[t] = Closed /\ \A u \in Tabs \ {t} : tab'[u] = tab[u]
  BY <1>1 DEF ScreenInv, TypeOK
<1> QED
  BY <1>1, <1>2, OrderFrame

LEMMA OrderStart == Init => OrderInv
BY DEF Init, OrderInv, InOrder

LEMMA OrderStep ==
  ASSUME OneTab
  PROVE  ScreenInv /\ NeatInv /\ LedgerInv /\ OrderInv /\ [Next]_vars => OrderInv'
<1> SUFFICES ASSUME ScreenInv, NeatInv, LedgerInv, OrderInv, [Next]_vars PROVE OrderInv'
  OBVIOUS
<1>1. CASE PassTime \/ SetClockBack \/ UNCHANGED vars
  <2>1. UNCHANGED <<tab, stored, saved>>
    BY <1>1 DEF PassTime, SetClockBack, vars, tabVars
  <2> QED
    BY <2>1, OrderFrame
<1>2. ASSUME NEW t \in Tabs,
             OpenTab(t) \/ CloseTab(t) \/ Commit(t) \/ FetchSettings(t) \/ Tick(t) \/ User(t)
      PROVE  OrderInv'
  BY <1>2, OpenTabOrder, QuietOrder, CommitStepOrder, TickOrder, UserOrder
<1> QED
  BY <1>1, <1>2 DEF Next

OrderSoFar == backSteps = 0 => OrderInv

LEMMA OrderAlways ==
  ASSUME OneTab
  PROVE  Spec => []OrderSoFar
<1>1. Init => OrderSoFar
  BY OrderStart DEF OrderSoFar
<1>2. ScreenInv /\ NeatSoFar /\ LedgerInv /\ OrderSoFar /\ [Next]_vars => OrderSoFar'
  <2> SUFFICES ASSUME ScreenInv, NeatSoFar, LedgerInv, OrderSoFar, [Next]_vars, backSteps' = 0
               PROVE  OrderInv'
    BY DEF OrderSoFar
  <2>1. NeatInv /\ OrderInv
    BY StillForward DEF NeatSoFar, OrderSoFar
  <2> QED
    BY <2>1, OrderStep
<1> QED
  BY <1>1, <1>2, NeatAlways, LedgerAlways, ScreenAlways, PTL DEF Spec

\* Until the clock is set back, no instant is in two saved blocks, nor in a saved one
\* and the one localStorage holds, in one tab.
THEOREM CountedOnce ==
  ASSUME OneTab
  PROVE  Spec => []TimeCountedOnce
<1>1. ScreenInv /\ NeatSoFar /\ OrderSoFar => TimeCountedOnce
  <2> SUFFICES ASSUME ScreenInv, NeatInv, OrderInv, backSteps = 0 PROVE TimeCountedOnce
    BY DEF NeatSoFar, OrderSoFar, TimeCountedOnce
  <2> DEFINE kept == IF stored.clock = NoBlock THEN << >> ELSE stored.clock.intervals
  <2>1. ASSUME NEW i \in DOMAIN saved, NEW a \in DOMAIN saved[i].intervals
        PROVE  Ends(saved[i].intervals[a]) = saved[i].intervals[a].endedAt
    <3>1. saved[i] \in SavedBlocks
      BY DEF ScreenInv, TypeOK
    <3>2. saved[i].intervals \in Seq(Intervals)
      BY <3>1 DEF SavedBlocks
    <3>3. a \in 1 .. Len(saved[i].intervals)
      BY <3>2
    <3> QED
      BY <3>3 DEF NeatInv, NeatSaved, Shut, Ends
  <2>2. ASSUME NEW i \in DOMAIN saved, NEW a \in DOMAIN saved[i].intervals, NEW b \in DOMAIN kept
        PROVE  Apart(saved[i].intervals[a], kept[b])
    <3>1. stored.clock # NoBlock /\ kept = stored.clock.intervals
      BY <2>2
    <3>2. Behind(saved[i].intervals, kept)
      BY <3>1 DEF OrderInv, InOrder
    <3> HIDE DEF kept
    <3> QED
      BY <2>1, <3>2 DEF Behind, Apart
  <2>3. ASSUME NEW i \in DOMAIN saved, NEW a \in DOMAIN saved[i].intervals,
               NEW j \in DOMAIN saved, i # j, NEW b \in DOMAIN saved[j].intervals
        PROVE  Apart(saved[i].intervals[a], saved[j].intervals[b])
    <3>1. i < j \/ j < i
      BY <2>3 DEF ScreenInv, TypeOK
    <3>2. \/ Behind(saved[i].intervals, saved[j].intervals)
          \/ Behind(saved[j].intervals, saved[i].intervals)
      BY <3>1 DEF OrderInv
    <3> QED
      BY <2>1, <3>2 DEF Behind, Apart
  <2> QED
    BY <2>2, <2>3 DEF TimeCountedOnce
<1> QED
  BY <1>1, NeatAlways, OrderAlways, ScreenAlways, PTL
-------------------------------------------------------------------------------
(* The tab's title.  TitleNeverFrozen is not inductive: a time in the title    *)
(* under titleFlashUntil could not be taken out, and an alert whose time-out   *)
(* finds the wall clock short of it would stay.                                *)

Titles   == Live \cup {AppTitle, Alert}
Restores == [started : Nat, left : Nat, previous : {AppTitle}]

TitleTypeOK ==
  /\ title \in [Tabs -> Titles]
  /\ flashUntil \in [Tabs -> Nat]
  /\ restores \in [Tabs -> SUBSET Restores]

\* No time is shown while the alert holds the title effect off, and a time-out that
\* is up finds that the wall clock has moved on as far.
Unfrozen(t) ==
  /\ title[t] \in Live => screen[t] # Closed /\ title[t] = TabTitle(screen[t])
  /\ title[t] = Alert => restores[t] # {}
  /\ now < flashUntil[t] => title[t] \notin Live
  /\ \A r \in restores[t] : r.started + FlashTime <= now + r.left

TitleInv == TitleTypeOK /\ (backSteps = 0 => \A t \in Tabs : Unfrozen(t))

LEMMA TitleKinds ==
  /\ AppTitle \notin Live /\ Alert \notin Live /\ AppTitle # Alert
  /\ \A m : TabTitle(m) \in Titles \ {Alert}
  /\ Closed.timer.phase \notin Live
BY DEF AppTitle, Alert, Live, TabTitle, Titles, Closed, NoBlock

LEMMA CommitOpens ==
  ASSUME TypeOK, NEW t \in Tabs, NEW m \in Machines, CommitMachine(t, m)
  PROVE  /\ tab'[t] # Closed /\ screen'[t] # Closed
         /\ \A u \in Tabs \ {t} : tab'[u] = tab[u] /\ screen'[u] = screen[u]
<1> DEFINE drained == [m EXCEPT !.pending = Drained]
<1>1. drained \in Machines
  <2>1. Drained \in [saves : Seq(SaveEffects), alerts : Nat]
    BY DEF Drained
  <2> QED
    BY <2>1 DEF Machines
<1>2. tab' = [tab EXCEPT ![t] = drained] /\ screen' = [screen EXCEPT ![t] = drained]
  BY DEF CommitMachine
<1> HIDE DEF drained
<1> QED
  BY <1>1, <1>2, OpenIsNotClosed DEF TypeOK

\* What the title needs to know of a step of the timer: time never leaps or runs back
\* unless the clock is set back, and a screen goes away with its tab, alerting nobody.
LEMMA TimerSteps ==
  ASSUME ScreenInv, Next
  PROVE  /\ backSteps' = 0 => backSteps = 0 /\ now' \in {now, now + 1}
         /\ \A t \in Tabs : Unmounts(t) => alerts' = alerts
         /\ \A t \in Tabs : screen[t] # Closed /\ screen'[t] = Closed => Unmounts(t)
<1>1. TypeOK /\ \A t \in Tabs : screen[t] # Closed => tab[t] # Closed
  BY DEF ScreenInv, OnlyTicksRunAhead
<1>2. CASE PassTime
  BY <1>2 DEF PassTime, tabVars, Unmounts
<1>3. CASE SetClockBack
  BY <1>1, <1>3 DEF SetClockBack, tabVars, Unmounts, TypeOK
<1>4. ASSUME NEW t \in Tabs, NEW m \in Machines, CommitMachine(t, m), UNCHANGED clockVars
      PROVE  /\ backSteps' = backSteps /\ now' = now
             /\ \A u \in Tabs : ~Unmounts(u) /\ (screen[u] # Closed => screen'[u] # Closed)
  BY <1>1, <1>4, CommitOpens DEF clockVars, Unmounts
<1>5. ASSUME NEW t \in Tabs, OpenTab(t)
      PROVE  /\ backSteps' = backSteps /\ now' = now /\ alerts' = alerts /\ screen' = screen
  BY <1>5 DEF OpenTab
<1>6. ASSUME NEW t \in Tabs, CloseTab(t)
      PROVE  /\ backSteps' = backSteps /\ now' = now /\ alerts' = alerts
             /\ Unmounts(t) /\ \A u \in Tabs \ {t} : screen'[u] = screen[u]
  <2>1. /\ tab[t] # Closed /\ tab' = [tab EXCEPT ![t] = Closed]
        /\ screen' = [screen EXCEPT ![t] = Closed]
        /\ UNCHANGED <<now, backSteps, alerts>>
    BY <1>6 DEF CloseTab
  <2> QED
    BY <1>1, <2>1 DEF TypeOK, Unmounts
<1>7. ASSUME NEW t \in Tabs, Commit(t) \/ FetchSettings(t)
      PROVE  \E m \in Machines : CommitMachine(t, m) /\ UNCHANGED clockVars
  <2>1. tab[t] \in Machines
    BY <1>1, <1>7 DEF Commit, FetchSettings, TypeOK
  <2> QED
    BY <1>7, <2>1 DEF Commit, FetchSettings, clockVars
<1>8. ASSUME NEW t \in Tabs, Tick(t)
      PROVE  /\ backSteps' = backSteps /\ now' = now /\ alerts' = alerts /\ screen' = screen
  BY <1>8 DEF Tick
<1>9. ASSUME NEW t \in Tabs, User(t)
      PROVE  \E m \in Machines : CommitMachine(t, m) /\ UNCHANGED clockVars
  <2>1. PICK event \in Events : Dispatch(t, event) /\ screen[t] # Closed
    BY <1>9, UserDispatches
  <2>2. tab[t] \in Machines /\ settings[t] \in TimerSettings /\ nextId \in Nat
    BY <1>1, <2>1, OpenMachines, SettingsAssumption DEF TypeOK
  <2> DEFINE m == Reduce(tab[t], event, nextId, settings[t])
  <2>3. m \in Machines
    BY <1>1, <2>2, ReduceType
  <2>4. CommitMachine(t, m) /\ UNCHANGED clockVars
    BY <2>1 DEF Dispatch
  <2> HIDE DEF m
  <2> QED
    BY <2>3, <2>4
<1>10. ASSUME NEW t \in Tabs, Commit(t) \/ FetchSettings(t) \/ User(t)
       PROVE  /\ backSteps' = backSteps /\ now' = now
              /\ \A u \in Tabs : ~Unmounts(u) /\ (screen[u] # Closed => screen'[u] # Closed)
  <2>1. PICK m \in Machines : CommitMachine(t, m) /\ UNCHANGED clockVars
    BY <1>7, <1>9, <1>10
  <2> QED
    BY <1>4, <2>1
<1> QED
  BY <1>2, <1>3, <1>5, <1>6, <1>8, <1>10 DEF Next

LEMMA TitleTypeStep ==
  ASSUME ScreenInv, ScreenInv', TitleTypeOK, TimerStep
  PROVE  TitleTypeOK'
<1>1. now \in Nat /\ FlashTime \in Nat
  BY FlashAssumption DEF ScreenInv, TypeOK
<1>2. \A t \in Tabs : TitleAfter(t) \in Titles
  BY TitleKinds DEF TitleAfter, Titles, TitleTypeOK
<1>3. \A t \in Tabs : RestoresAfter(t) \subseteq Restores
  <2> SUFFICES ASSUME NEW t \in Tabs PROVE RestoresAfter(t) \subseteq Restores
    OBVIOUS
  <2>1. [started |-> now, left |-> FlashTime, previous |-> TitleToRestore(t)] \in Restores
    BY <1>1 DEF Restores, TitleToRestore
  <2>2. \A r \in restores[t] : Waited(r) \in Restores
    BY DEF TitleTypeOK, Waited, Restores
  <2> QED
    BY <2>1, <2>2 DEF RestoresAfter
<1>4. \A t \in Tabs : now + FlashTime \in Nat /\ flashUntil[t] \in Nat
  BY <1>1 DEF TitleTypeOK
<1>5. title' \in [Tabs -> Titles] /\ flashUntil' \in [Tabs -> Nat]
  BY <1>2, <1>4 DEF TimerStep
<1>6. restores' \in [Tabs -> SUBSET Restores]
  BY <1>3 DEF TimerStep
<1> QED
  BY <1>5, <1>6 DEF TitleTypeOK

LEMMA TitleTimerStep ==
  ASSUME ScreenInv, ScreenInv', TitleInv, TimerStep
  PROVE  TitleInv'
<1>1. TitleTypeOK'
  BY TitleTypeStep DEF TitleInv
<1>2. /\ backSteps' = 0 => backSteps = 0 /\ now' \in {now, now + 1}
      /\ \A t \in Tabs : Unmounts(t) => alerts' = alerts
      /\ \A t \in Tabs : screen[t] # Closed /\ screen'[t] = Closed => Unmounts(t)
  BY TimerSteps DEF TimerStep
<1> SUFFICES ASSUME backSteps' = 0, NEW t \in Tabs PROVE Unfrozen(t)'
  BY <1>1 DEF TitleInv
<1>3. Unfrozen(t) /\ now' \in {now, now + 1} /\ now \in Nat /\ FlashTime \in Nat \ {0}
  BY <1>2, FlashAssumption DEF TitleInv, ScreenInv, TypeOK
<1>4. /\ title[t] \in Titles /\ flashUntil[t] \in Nat /\ restores[t] \subseteq Restores
  BY DEF TitleInv, TitleTypeOK
<1>5. /\ title'[t] = TitleAfter(t)
      /\ flashUntil'[t] = IF Fires(t) THEN now + FlashTime ELSE IF Mounts(t) THEN 0 ELSE flashUntil[t]
      /\ restores'[t] = RestoresAfter(t) \/ (Unmounts(t) /\ restores'[t] = {})
  BY DEF TimerStep
<1>6. Fires(t) => ~Unmounts(t) /\ RestoresAfter(t) # {}
  BY <1>2 DEF Fires, RestoresAfter
\* A time in the title is the block's.
<1>7. title'[t] \in Live => screen'[t] # Closed /\ title'[t] = TabTitle(screen'[t])
  <2> SUFFICES ASSUME TitleAfter(t) \in Live
               PROVE  screen'[t] # Closed /\ TitleAfter(t) = TabTitle(screen'[t])
    BY <1>5
  <2>1. ~Fires(t) /\ ~Unmounts(t)
    BY TitleKinds DEF TitleAfter
  <2>2. CASE Retitles(t)
    BY <2>1, <2>2 DEF TitleAfter, Retitles
  <2>3. CASE ~Retitles(t)
    <3>1. TitleAfter(t) = title[t]
      BY <2>1, <2>3 DEF TitleAfter
    <3>2. /\ screen[t] # Closed /\ title[t] = TabTitle(screen[t])
          /\ now >= flashUntil[t]
      BY <1>3, <1>4, <3>1 DEF Unfrozen
    <3>3. screen'[t] # Closed
      BY <1>2, <2>1, <3>2
    <3> QED
      BY <2>3, <3>1, <3>2, <3>3 DEF Retitles
  <2> QED
    BY <2>2, <2>3
\* An alert has its time-out.
<1>8. title'[t] = Alert => restores'[t] # {}
  <2> SUFFICES ASSUME TitleAfter(t) = Alert PROVE restores'[t] # {}
    BY <1>5
  <2>1. CASE Fires(t)
    BY <1>5, <1>6, <2>1
  <2>2. CASE ~Fires(t)
    <3>1. ~Unmounts(t) /\ TitleAfter(t) = title[t]
      BY <2>2, TitleKinds DEF TitleAfter
    <3>2. restores[t] # {}
      BY <1>3, <3>1 DEF Unfrozen
    <3>3. RestoresAfter(t) # {}
      BY <3>2 DEF RestoresAfter
    <3> QED
      BY <1>5, <3>1, <3>3
  <2> QED
    BY <2>1, <2>2
\* No time is written under the alert.
<1>9. now' < flashUntil'[t] => title'[t] \notin Live
  <2> SUFFICES ASSUME now' < flashUntil'[t], ~Fires(t) PROVE TitleAfter(t) \notin Live
    BY <1>5, TitleKinds DEF TitleAfter
  <2>1. flashUntil'[t] = flashUntil[t]
    BY <1>3, <1>5
  <2>2. now < flashUntil[t]
    BY <1>3, <1>4, <2>1
  <2>3. title[t] \notin Live /\ ~Retitles(t)
    BY <1>3, <1>4, <2>2 DEF Unfrozen, Retitles
  <2> QED
    BY <2>3, TitleKinds DEF TitleAfter
\* The wall clock keeps up with the time-outs.
<1>10. \A r \in restores'[t] : r.started + FlashTime <= now' + r.left
  <2>1. \A r \in restores[t] : /\ r.started \in Nat /\ r.left \in Nat
                               /\ r.started + FlashTime <= now + r.left
    BY <1>3, <1>4 DEF Unfrozen, Restores
  <2>2. ASSUME NEW r \in restores[t]
        PROVE  Waited(r).started + FlashTime <= now' + Waited(r).left
    <3>1. r \in Restores
      BY <1>4
    <3>2. CASE now' > now /\ r.left > 0
      <4>1. Waited(r) = [r EXCEPT !.left = r.left - 1]
        BY <3>2 DEF Waited
      <4>2. Waited(r).started = r.started /\ Waited(r).left = r.left - 1
        BY <3>1, <4>1 DEF Restores
      <4> QED
        BY <1>3, <2>1, <3>2, <4>2
    <3>3. CASE ~(now' > now /\ r.left > 0)
      <4>1. Waited(r) = r
        BY <3>3 DEF Waited
      <4> QED
        BY <1>3, <2>1, <4>1
    <3> QED
      BY <3>2, <3>3
  <2>3. now + FlashTime <= now' + FlashTime
    <3>1. now \in Nat /\ FlashTime \in Nat /\ (now' = now \/ now' = now + 1)
      BY <1>3
    <3> QED
      BY ONLY <3>1
  <2>4. \A r \in RestoresAfter(t) : r.started + FlashTime <= now' + r.left
    BY <2>2, <2>3 DEF RestoresAfter
  <2> QED
    BY <1>5, <2>4
<1> QED
  BY <1>7, <1>8, <1>9, <1>10 DEF Unfrozen

LEMMA RedrawKeeps ==
  ASSUME ScreenInv, TitleInv, NEW t \in Tabs, Redraw(t)
  PROVE  TitleInv'
<1>1. /\ screen[t].timer.phase = "running" /\ now >= flashUntil[t]
      /\ title' = [title EXCEPT ![t] = "running"]
      /\ UNCHANGED <<now, backSteps, screen, flashUntil, restores>>
  BY DEF Redraw, vars
<1>2. "running" \in Live /\ "running" # Alert /\ screen[t] # Closed
      /\ TabTitle(screen[t]) = "running"
  BY <1>1, TitleKinds DEF Live, Alert, TabTitle
<1>3. TitleTypeOK'
  BY <1>1, <1>2 DEF TitleInv, TitleTypeOK, Titles
<1>4. title'[t] = "running" /\ \A u \in Tabs \ {t} : title'[u] = title[u]
  BY <1>1 DEF TitleInv, TitleTypeOK
<1>5. now \in Nat /\ flashUntil[t] \in Nat
  BY DEF ScreenInv, TypeOK, TitleInv, TitleTypeOK
<1>6. backSteps = 0 => Unfrozen(t)'
  BY <1>1, <1>2, <1>4, <1>5 DEF TitleInv, Unfrozen, TabTitle
<1>7. backSteps = 0 => \A u \in Tabs \ {t} : Unfrozen(u)'
  BY <1>1, <1>4 DEF TitleInv, Unfrozen, TabTitle
<1> QED
  BY <1>1, <1>3, <1>6, <1>7 DEF TitleInv

LEMMA RestoreKeeps ==
  ASSUME ScreenInv, TitleInv, NEW t \in Tabs, NEW r \in restores[t], Restore(t, r)
  PROVE  TitleInv'
<1>1. /\ r.left = 0
      /\ title' = [title EXCEPT ![t] = IF now - r.started >= FlashTime THEN r.previous ELSE @]
      /\ restores' = [restores EXCEPT ![t] = @ \ {r}]
      /\ UNCHANGED <<now, backSteps, screen, flashUntil>>
  BY DEF Restore, vars
<1>2. /\ r \in Restores /\ title[t] \in Titles /\ now \in Nat /\ FlashTime \in Nat
      /\ r.started \in Nat /\ r.previous = AppTitle
  BY FlashAssumption DEF TitleInv, TitleTypeOK, ScreenInv, TypeOK, Restores
<1>3. TitleTypeOK'
  BY <1>1, <1>2 DEF TitleInv, TitleTypeOK, Titles
<1>4. /\ title'[t] = IF now - r.started >= FlashTime THEN AppTitle ELSE title[t]
      /\ restores'[t] = restores[t] \ {r}
      /\ \A u \in Tabs \ {t} : title'[u] = title[u] /\ restores'[u] = restores[u]
  BY <1>1, <1>2 DEF TitleInv, TitleTypeOK
<1>5. ASSUME backSteps = 0 PROVE Unfrozen(t)'
  <2>1. Unfrozen(t)
    BY <1>5 DEF TitleInv
  <2>2. r.started + FlashTime <= now
    BY <1>1, <1>2, <2>1 DEF Unfrozen
  <2>3. title'[t] = AppTitle
    BY <1>2, <1>4, <2>2
  <2> QED
    BY <1>1, <1>4, <2>1, <2>3, TitleKinds DEF Unfrozen
<1>6. ASSUME backSteps = 0, NEW u \in Tabs \ {t} PROVE Unfrozen(u)'
  BY <1>1, <1>4, <1>6 DEF TitleInv, Unfrozen, TabTitle
<1> QED
  BY <1>1, <1>3, <1>5, <1>6 DEF TitleInv

LEMMA TitleStep == ScreenInv /\ ScreenInv' /\ TitleInv /\ [TitleNext]_allVars => TitleInv'
<1> SUFFICES ASSUME ScreenInv, ScreenInv', TitleInv, [TitleNext]_allVars PROVE TitleInv'
  OBVIOUS
<1>1. CASE TimerStep
  BY <1>1, TitleTimerStep
<1>2. ASSUME NEW t \in Tabs, Redraw(t) PROVE TitleInv'
  BY <1>2, RedrawKeeps
<1>3. ASSUME NEW t \in Tabs, NEW r \in restores[t], Restore(t, r) PROVE TitleInv'
  BY <1>3, RestoreKeeps
<1>4. CASE UNCHANGED allVars
  BY <1>4 DEF allVars, titleVars, vars, TitleInv, TitleTypeOK, Unfrozen, TabTitle
<1> QED
  BY <1>1, <1>2, <1>3, <1>4 DEF TitleNext

LEMMA TitleStart == TitleInit => TitleInv
<1> SUFFICES ASSUME TitleInit PROVE TitleInv
  OBVIOUS
<1>1. now = 0 /\ title = [t \in Tabs |-> AppTitle] /\ flashUntil = [t \in Tabs |-> 0]
      /\ restores = [t \in Tabs |-> {}]
  BY DEF TitleInit, Init
<1>2. TitleTypeOK
  BY <1>1 DEF TitleTypeOK, Titles
<1>3. \A t \in Tabs : Unfrozen(t)
  BY <1>1, TitleKinds DEF Unfrozen
<1> QED
  BY <1>2, <1>3 DEF TitleInv

\* Titles come and go around the timer and never drive it.
LEMMA TitledTimer == TitleSpec => Spec
<1>1. TitleInit => Init
  BY DEF TitleInit
<1>2. [TitleNext]_allVars => [Next]_vars
  BY DEF TitleNext, TimerStep, Redraw, Restore, allVars, vars
<1> QED
  BY <1>1, <1>2, PTL DEF TitleSpec, Spec

\* Until the clock is set back, no tab shows a time its block has left behind, and no
\* alert outlives its time-out, in any number of tabs.
THEOREM TitleUnfrozen == TitleSpec => []TitleNeverFrozen
<1>1. TitleSpec => []ScreenInv
  BY TitledTimer, ScreenAlways, PTL
<1>2. TitleSpec => []TitleInv
  BY <1>1, TitleStart, TitleStep, PTL DEF TitleSpec
<1>3. TitleInv => TitleNeverFrozen
  BY DEF TitleInv, Unfrozen, TitleNeverFrozen
<1> QED
  BY <1>2, <1>3, PTL
-------------------------------------------------------------------------------
(* The cycle of one tab, a guest's or not.  What labelSave advances is the     *)
(* count a block carried from its start, so the count the machine holds must   *)
(* be the one its block carries; and an id is new only because every block     *)
(* has an earlier one.                                                         *)

OneScreen == \A t, u \in Tabs : t = u

\* The block carries the count, and was numbered before the next.
Carries(block, completed, top) ==
  block # NoBlock => block.focusBlocksCompleted = completed /\ block.id < top

MoveInv ==
  /\ \A t \in Tabs : tab[t] # Closed => Carries(tab[t].timer, tab[t].completed, nextId)
  /\ \A t \in Tabs : screen[t] # Closed => /\ stored.clock = screen[t].timer
                                           /\ stored.cycle = CycleOf(screen[t])
  /\ stored.cycle = NoCycle => stored.clock = NoBlock
  /\ Carries(stored.clock, stored.cycle.completed, nextId)
  /\ Guest => GuestNeverStranded

\* The machine m moved to n: by a block that ended, to its end, if the count moved.
Moved(m, n, id) ==
  /\ n.timer # NoBlock =>
       /\ n.timer.focusBlocksCompleted = n.completed
       /\ n.timer.id = id \/ (m.timer # NoBlock /\ n.timer.id = m.timer.id)
  /\ n.completed # m.completed =>
       /\ n.completed = m.completed + 1
       /\ m.timer # NoBlock /\ m.timer.type = "focus"
       /\ n.timer = NoBlock \/ n.timer.id = id

LEMMA ReduceOnceMoves ==
  ASSUME TypeOK, NEW m \in Machines, NEW event \in Events, Fits(event, m.timer),
         event.kind = "resetCycle" => m.timer # NoBlock,
         NEW id \in Nat, NEW set \in TimerSettings,
         m.timer # NoBlock => m.timer.focusBlocksCompleted = m.completed
  PROVE  Moved(m, ReduceOnce(m, event, id, set), id)
<1> DEFINE result == Transition(m.timer, event, now, id, set, m.completed, m.pendingBreak)
           next   == ReduceOnce(m, event, id, set)
<1>1. /\ m.timer \in Timers /\ m.completed \in Nat /\ m.pendingBreak \in BOOLEAN /\ now \in Nat
  BY DEF Machines, TypeOK
<1>2. Booked(m.timer, m.completed, id, result)
  BY <1>1, TransitionBooked
<1>3. next.timer = result.state /\ next.completed = After(m.completed, result.effects)
  BY DEF ReduceOnce, After
<1> HIDE DEF result, next
<1>4. Moved(m, next, id)
  BY <1>2, <1>3 DEF Booked, Moved
<1> QED
  BY <1>4 DEF next

LEMMA ReduceMoves ==
  ASSUME TypeOK, NEW m \in Machines, Sound(m), Guest => GuestFree(m),
         NEW event \in Events, Fits(event, m.timer),
         event.kind = "resetCycle" => m.timer # NoBlock,
         NEW id \in Nat, NEW set \in TimerSettings,
         m.timer # NoBlock => m.timer.focusBlocksCompleted = m.completed
  PROVE  Moved(m, Reduce(m, event, id, set), id)
<1> DEFINE result == Transition(m.timer, event, now, id, set, m.completed, m.pendingBreak)
           next   == ReduceOnce(m, event, id, set)
           last   == ReduceOnce(next, Unlabelled, id, set)
<1>1. /\ m.timer \in Timers /\ m.completed \in Nat /\ m.pendingBreak \in BOOLEAN /\ now \in Nat
  BY DEF Machines, TypeOK
<1>2. next \in Machines /\ Sound(next) /\ Moved(m, next, id)
  BY ReduceOnceType, ReduceOnceSound, ReduceOnceMoves
<1>3. Reduce(m, event, id, set) = IF Guest /\ next.labelSheetOpen THEN last ELSE next
  BY DEF Reduce
<1>4. Guest => EndedInPlace(m.timer, result)
  BY <1>1, OnlyFocusEnds DEF GuestFree
<1>5. next.timer = result.state /\ next.completed = After(m.completed, result.effects)
  BY DEF ReduceOnce, After
<1> HIDE DEF result, next
<1>6. CASE ~(Guest /\ next.labelSheetOpen)
  BY <1>2, <1>3, <1>6
\* The focus block ends where it is, and its sheet is dismissed in the same breath.
<1>7. CASE Guest /\ next.labelSheetOpen
  <2>1. Ended(next.timer)
    BY <1>2, <1>7 DEF Sound
  <2>2. /\ m.timer # NoBlock /\ m.timer.type = "focus"
        /\ next.timer.id = m.timer.id /\ next.completed = m.completed
    BY <1>4, <1>5, <1>7, <2>1 DEF EndedInPlace, Ended, After
  <2>3. next.timer # NoBlock
    BY <2>1 DEF Ended, NoBlock
  <2>4. Unlabelled.kind # "resetCycle" /\ Unlabelled \in Events /\ Fits(Unlabelled, next.timer)
    BY <2>1, UnlabelledEvent, UnlabelledFits DEF Unlabelled
  <2>5. next.timer.focusBlocksCompleted = next.completed
    BY <1>2, <2>3 DEF Moved
  <2>6. Moved(next, last, id)
    BY <1>2, <2>4, <2>5, ReduceOnceMoves
  <2> HIDE DEF last
  <2>7. Moved(m, last, id)
    BY <2>2, <2>6 DEF Moved
  <2> QED
    BY <1>3, <1>7, <2>7
<1> QED
  BY <1>6, <1>7

LEMMA CarriesOn ==
  ASSUME TypeOK, NEW m \in Machines, NEW n \in Machines, Moved(m, n, nextId),
         Carries(m.timer, m.completed, nextId)
  PROVE  Carries(n.timer, n.completed, IdAfter(n))
<1>1. nextId \in Nat /\ (m.timer # NoBlock => m.timer.id \in Nat)
  BY DEF TypeOK, Machines, Timers, Blocks
<1> QED
  BY <1>1 DEF Moved, Carries, IdAfter

\* A machine handed to React leaves localStorage as it shows itself.
LEMMA CommitMoves ==
  ASSUME OneScreen, ScreenInv, MoveInv, NEW t \in Tabs, NEW m \in Machines, CommitMachine(t, m),
         Carries(m.timer, m.completed, nextId'), Guest => GuestNeverStranded'
  PROVE  MoveInv'
<1> DEFINE drained == [m EXCEPT !.pending = Drained]
<1>1. /\ tab' = [tab EXCEPT ![t] = drained] /\ screen' = [screen EXCEPT ![t] = drained]
      /\ stored' = [clock |-> ClockToStore(t, m), cycle |-> CycleToStore(t, m)]
  BY DEF CommitMachine
<1>2. /\ drained.timer = m.timer /\ drained.completed = m.completed
      /\ CycleOf(drained) = CycleOf(m)
  BY DEF Machines, CycleOf
<1> HIDE DEF drained
<1>3. \A u \in Tabs : tab'[u] = drained /\ screen'[u] = drained
  BY <1>1 DEF OneScreen, ScreenInv, TypeOK
<1>4. stored'.clock = m.timer /\ stored'.cycle = CycleOf(m)
  <2>1. stored'.clock = ClockToStore(t, m) /\ stored'.cycle = CycleToStore(t, m)
    BY <1>1
  <2>2. ClockToStore(t, m) = m.timer
    BY DEF ClockToStore, MoveInv
  <2>3. CycleToStore(t, m) = CycleOf(m)
    BY DEF CycleToStore, MoveInv
  <2> QED
    BY <2>1, <2>2, <2>3
<1>5. stored'.cycle # NoCycle /\ stored'.cycle.completed = m.completed
  BY <1>4, CycleIsPresent
<1> QED
  BY <1>2, <1>3, <1>4, <1>5 DEF MoveInv, CycleOf

\* A fresh tab resumes what is stored, or, a guest's ended block, the break after it.
LEMMA OpenTabMoves ==
  ASSUME ScreenInv, MoveInv, NEW t \in Tabs, OpenTab(t), Guest => GuestNeverStranded'
  PROVE  MoveInv'
<1> DEFINE m == InitMachine(nextId)
<1>1. /\ tab' = [tab EXCEPT ![t] = m] /\ nextId' = IdAfter(tab'[t])
      /\ UNCHANGED <<screen, stored>>
  BY DEF OpenTab
<1>2. m.timer = stored.clock /\ m.completed = stored.cycle.completed
  <2>1. ~(Guest /\ SheetOnLoad(stored.clock))
    BY DEF MoveInv, GuestNeverStranded, SheetOnLoad
  <2>2. stored.cycle = NoCycle => stored.clock = NoBlock /\ stored.cycle.completed = 0
    BY DEF MoveInv, NoCycle
  <2> QED
    BY <2>1, <2>2 DEF InitMachine
<1> HIDE DEF m
<1>3. tab'[t] = m /\ \A u \in Tabs \ {t} : tab'[u] = tab[u]
  BY <1>1 DEF ScreenInv, TypeOK
<1>4. nextId' \in Nat /\ nextId \in Nat /\ nextId <= nextId'
  BY <1>1, IdGrows DEF ScreenInv, TypeOK
<1>5. /\ stored.clock # NoBlock => stored.clock.id \in Nat
      /\ \A u \in Tabs : tab[u] # Closed /\ tab[u].timer # NoBlock => tab[u].timer.id \in Nat
  BY DEF ScreenInv, TypeOK, Machines, Timers, Blocks
<1>6. Carries(stored.clock, stored.cycle.completed, nextId')
  BY <1>4, <1>5 DEF MoveInv, Carries
<1>7. \A u \in Tabs : tab'[u] # Closed => Carries(tab'[u].timer, tab'[u].completed, nextId')
  BY <1>2, <1>3, <1>4, <1>5, <1>6 DEF MoveInv, Carries
<1> QED
  BY <1>1, <1>6, <1>7 DEF MoveInv, CycleOf

\* What a tab's step does to its count, and that the books hold after it.
StepMoves(t) ==
  tab[t] # Closed /\ tab'[t] # Closed /\ tab'[t].completed # tab[t].completed =>
       \/ tab'[t].completed = 0 /\ tab[t].timer = NoBlock
       \/ /\ tab'[t].completed = tab[t].completed + 1
          /\ tab[t].timer # NoBlock /\ tab[t].timer.type = "focus"
          /\ tab'[t].timer = NoBlock \/ tab'[t].timer.id # tab[t].timer.id

LEMMA TickMoves ==
  ASSUME OneScreen, ScreenInv, MoveInv, NEW t \in Tabs, Tick(t), Guest => GuestNeverStranded'
  PROVE  MoveInv' /\ \A u \in Tabs : StepMoves(u)
<1> DEFINE event == [kind |-> "tick"]
           m     == Reduce(tab[t], event, nextId, settings[t])
<1>1. /\ screen[t].timer.phase = "running" /\ tab' = [tab EXCEPT ![t] = m]
      /\ nextId' = IdAfter(tab'[t]) /\ UNCHANGED <<screen, stored>>
  BY DEF Tick
<1>2. screen[t] # Closed
  <2>1. Closed.timer.phase = "idle"
    BY DEF Closed, NoBlock
  <2> QED
    BY <1>1, <2>1
<1>3. /\ TypeOK /\ tab[t] \in Machines /\ Sound(tab[t]) /\ settings[t] \in TimerSettings
      /\ nextId \in Nat /\ tab[t] # Closed
  BY <1>2, OpenMachines, OpenIsNotClosed, SettingsAssumption DEF ScreenInv, TypeOK
<1>4. Carries(tab[t].timer, tab[t].completed, nextId) /\ (Guest => GuestFree(tab[t]))
  BY <1>3 DEF MoveInv, GuestNeverStranded, GuestFree
<1>5. event \in Events /\ Fits(event, tab[t].timer) /\ event.kind # "resetCycle"
  BY DEF Events, Fits
<1>6. m \in Machines /\ Moved(tab[t], m, nextId)
  <2> HIDE DEF event
  <2> QED
    BY <1>3, <1>4, <1>5, ReduceType, ReduceMoves DEF Carries
<1> HIDE DEF m
<1>7. \A u \in Tabs : tab'[u] = m /\ u = t
  BY <1>1, <1>3 DEF TypeOK, OneScreen
<1>8. nextId' = IdAfter(m) /\ nextId' \in Nat /\ nextId <= nextId'
  BY <1>1, <1>3, <1>7, IdGrows
<1>9. Carries(m.timer, m.completed, nextId')
  BY <1>3, <1>4, <1>6, <1>8, CarriesOn
<1>10. Carries(stored.clock, stored.cycle.completed, nextId')
  <2>1. stored.clock # NoBlock => stored.clock.id \in Nat
    BY <1>3 DEF TypeOK, Timers, Blocks
  <2> QED
    BY <1>3, <1>8, <2>1 DEF MoveInv, Carries
<1>11. MoveInv'
  BY <1>1, <1>7, <1>9, <1>10 DEF MoveInv, CycleOf
<1>12. tab[t].timer # NoBlock => tab[t].timer.id < nextId /\ tab[t].timer.id \in Nat
  BY <1>3, <1>4 DEF Carries, Machines, Timers, Blocks
<1>13. \A u \in Tabs : StepMoves(u)
  BY <1>3, <1>6, <1>7, <1>12 DEF StepMoves, Moved
<1> QED
  BY <1>11, <1>13

LEMMA UserMoves ==
  ASSUME OneScreen, ScreenInv, MoveInv, NEW t \in Tabs, User(t), Guest => GuestNeverStranded'
  PROVE  MoveInv' /\ \A u \in Tabs : StepMoves(u)
<1>1. PICK event \in Events : /\ Dispatch(t, event) /\ Fits(event, tab[t].timer)
                              /\ screen[t] # Closed /\ Forgets(t, event)
  BY UserDispatches
<1>2. /\ TypeOK /\ tab[t] \in Machines /\ Sound(tab[t]) /\ settings[t] \in TimerSettings
      /\ nextId \in Nat /\ tab[t] # Closed
  BY <1>1, OpenMachines, OpenIsNotClosed, SettingsAssumption DEF ScreenInv, TypeOK
<1>3. Carries(tab[t].timer, tab[t].completed, nextId) /\ (Guest => GuestFree(tab[t]))
  BY <1>2 DEF MoveInv, GuestNeverStranded, GuestFree
<1> DEFINE m == Reduce(tab[t], event, nextId, settings[t])
           drained == [m EXCEPT !.pending = Drained]
<1>4. m \in Machines
  BY <1>2, ReduceType
<1>5. CommitMachine(t, m) /\ nextId' = IdAfter(tab'[t])
  BY <1>1 DEF Dispatch
<1>6. drained.timer = m.timer /\ drained.completed = m.completed
  BY <1>4 DEF Machines
<1>7. \A u \in Tabs : tab'[u] = drained /\ u = t
  BY <1>2, <1>5 DEF CommitMachine, OneScreen, TypeOK
\* Its count moved as the block did, or to zero without one.
<1>8. Carries(m.timer, m.completed, IdAfter(m)) /\ StepMoves(t)
  <2>1. CASE event.kind = "resetCycle" /\ tab[t].timer = NoBlock
    <3> DEFINE machine == tab[t]
               result  == Transition(machine.timer, event, now, nextId, settings[t],
                                     machine.completed, machine.pendingBreak)
               next    == ReduceOnce(machine, event, nextId, settings[t])
               zero    == Cycle(0, FALSE)
    <3>1. result = Result(NoBlock, SetCycle(0, FALSE))
      BY <2>1 DEF Transition, OnResetCycle
    <3>2. result.state = NoBlock /\ result.effects.setCycle = << zero >> /\ zero.completed = 0
      <4> HIDE DEF result
      <4> QED
        BY <3>1 DEF Result, SetCycle, NoEffects, Cycle
    <3>3. next.timer = result.state /\ next.completed = After(machine.completed, result.effects)
      BY DEF ReduceOnce, After
    <3>4. Sound(next)
      BY <1>1, <1>2, ReduceOnceSound
    <3>5. m = IF Guest /\ next.labelSheetOpen
              THEN ReduceOnce(next, Unlabelled, nextId, settings[t]) ELSE next
      BY DEF Reduce
    <3> HIDE DEF m, next, result, zero
    <3>6. next.timer = NoBlock /\ next.completed = 0
      BY <3>2, <3>3 DEF After
    <3>7. m = next
      BY <3>4, <3>5, <3>6, NoBlockPlain DEF Sound
    <3> QED
      BY <1>6, <1>7, <2>1, <3>6, <3>7 DEF Carries, StepMoves
  <2>2. CASE event.kind = "resetCycle" => tab[t].timer # NoBlock
    <3>1. Moved(tab[t], m, nextId)
      BY <1>1, <1>2, <1>3, <2>2, ReduceMoves DEF Carries
    <3>2. tab[t].timer # NoBlock => tab[t].timer.id < nextId /\ tab[t].timer.id \in Nat
      BY <1>2, <1>3 DEF Carries, Machines, Timers, Blocks
    <3> HIDE DEF m, drained
    <3>3. StepMoves(t)
      BY <1>2, <1>6, <1>7, <3>1, <3>2 DEF StepMoves, Moved
    <3> QED
      BY <1>2, <1>3, <1>4, <3>1, <3>3, CarriesOn
  <2> QED
    BY <2>1, <2>2
<1> HIDE DEF m, drained
<1>9. nextId' = IdAfter(m)
  BY <1>5, <1>6, <1>7 DEF IdAfter
<1>10. MoveInv'
  BY <1>4, <1>5, <1>8, <1>9, CommitMoves
<1> QED
  BY <1>7, <1>8, <1>10

LEMMA MoveStep ==
  ASSUME OneScreen, ScreenInv, MoveInv, [Next]_vars
  PROVE  MoveInv' /\ \A t \in Tabs : StepMoves(t)
<1>1. Guest => GuestNeverStranded'
  BY GuestStep DEF MoveInv
<1>2. TypeOK
  BY DEF ScreenInv
<1>3. CASE PassTime \/ SetClockBack \/ UNCHANGED vars
  <2>1. UNCHANGED <<tab, screen, stored, nextId>>
    BY <1>3 DEF PassTime, SetClockBack, vars, tabVars
  <2> QED
    BY <1>1, <2>1 DEF MoveInv, CycleOf, Carries, StepMoves
<1>4. ASSUME NEW t \in Tabs, OpenTab(t) PROVE MoveInv' /\ \A u \in Tabs : StepMoves(u)
  <2>1. MoveInv'
    BY <1>1, <1>4, OpenTabMoves
  <2>2. tab[t] = Closed /\ \A u \in Tabs : u = t
    BY <1>4 DEF OpenTab, OneScreen
  <2> QED
    BY <2>1, <2>2 DEF StepMoves
<1>5. ASSUME NEW t \in Tabs, CloseTab(t) PROVE MoveInv' /\ \A u \in Tabs : StepMoves(u)
  <2>1. /\ tab' = [tab EXCEPT ![t] = Closed] /\ screen' = [screen EXCEPT ![t] = Closed]
        /\ UNCHANGED <<nextId, stored>>
    BY <1>5 DEF CloseTab
  <2>2. \A u \in Tabs : tab'[u] = Closed /\ screen'[u] = Closed
    BY <1>2, <2>1 DEF OneScreen, TypeOK
  <2> QED
    BY <1>1, <2>1, <2>2 DEF MoveInv, Carries, StepMoves
<1>6. ASSUME NEW t \in Tabs, Commit(t) \/ FetchSettings(t)
      PROVE  MoveInv' /\ \A u \in Tabs : StepMoves(u)
  <2>1. tab[t] \in Machines /\ tab[t] # Closed
    BY <1>2, <1>6, OpenMachines, OpenIsNotClosed DEF Commit, FetchSettings, TypeOK
  <2>2. CommitMachine(t, tab[t]) /\ nextId' = nextId
    BY <1>6 DEF Commit, FetchSettings
  <2>3. MoveInv'
    <3>1. Carries(tab[t].timer, tab[t].completed, nextId')
      BY <2>1, <2>2 DEF MoveInv
    <3> QED
      BY <1>1, <2>1, <2>2, <3>1, CommitMoves
  <2> DEFINE drained == [tab[t] EXCEPT !.pending = Drained]
  <2>4. drained.completed = tab[t].completed
    BY <2>1 DEF Machines
  <2>5. \A u \in Tabs : tab'[u] = drained /\ u = t
    BY <1>2, <2>2 DEF CommitMachine, OneScreen, TypeOK
  <2> HIDE DEF drained
  <2> QED
    BY <2>3, <2>4, <2>5 DEF StepMoves
<1>7. ASSUME NEW t \in Tabs, Tick(t) PROVE MoveInv' /\ \A u \in Tabs : StepMoves(u)
  BY <1>1, <1>7, TickMoves
<1>8. ASSUME NEW t \in Tabs, User(t) PROVE MoveInv' /\ \A u \in Tabs : StepMoves(u)
  BY <1>1, <1>8, UserMoves
<1> QED
  BY <1>3, <1>4, <1>5, <1>6, <1>7, <1>8 DEF Next

LEMMA MoveStart == Init => MoveInv
BY DEF Init, MoveInv, Carries, GuestNeverStranded, NoBlock, NoCycle

\* The cycle of an open tab moves only with a focus block that ends in the same step,
\* by one, or back to zero while no block exists: in one tab, a guest's or not.
THEOREM CycleMoves ==
  ASSUME OneScreen
  PROVE  Spec => CycleMovesWithItsBlock
<1>1. ScreenInv /\ MoveInv /\ [Next]_vars => MoveInv'
  BY MoveStep
<1>2. Spec => []MoveInv
  BY <1>1, MoveStart, ScreenAlways, PTL DEF Spec
<1>3. ScreenInv /\ MoveInv /\ [Next]_vars => [\A t \in Tabs : StepMoves(t)]_vars
  BY MoveStep
<1> QED
  BY <1>2, <1>3, ScreenAlways, PTL DEF Spec, CycleMovesWithItsBlock, StepMoves

-------------------------------------------------------------------------------
(* What a block was worked.  FoldSeq takes the intervals in an order of its    *)
(* own; that it comes to a number at all, and to one that depends only on the  *)
(* ends and starts, is shown by induction over the subsets of the positions,   *)
(* stated with sets.                                                           *)

EndAt(iv, at) == IF iv.endedAt = Open THEN at ELSE iv.endedAt

\* The position a sum over u begins with.
Pick(u) == CHOOSE x \in u : TRUE

\* f[u] is the time between begins and ends at the positions in u.
Sums(f, ends, begins, n) ==
  f = [u \in SUBSET (1 .. n) |->
         IF u = {} THEN 0 ELSE f[u \ {Pick(u)}] + ends[Pick(u)] - begins[Pick(u)]]

SumUp(ends, begins, n) == (CHOOSE f : Sums(f, ends, begins, n))[1 .. n]

LEMMA PickIn == \A u : u # {} => Pick(u) \in u
BY DEF Pick

LEMMA SubsetInduction ==
  ASSUME NEW S, IsFiniteSet(S), NEW T, T \subseteq SUBSET S,
         \A u \in SUBSET S : (\A v \in SUBSET u : v # u => v \in T) => u \in T
  PROVE  T = SUBSET S
<1> DEFINE R == StrictSubsetOrdering(S)
<1>1. IsWellFoundedOn(R, SUBSET S)
  BY FS_StrictSubsetOrderingWellFounded, FS_FiniteSubsetsOfFinite
<1>2. \A u, v \in SUBSET S : v \subseteq u /\ v # u => <<v, u>> \in R
  BY DEF StrictSubsetOrdering
<1> DEFINE Others == (SUBSET S) \ T
<1>3. SUFFICES ASSUME Others # {} PROVE FALSE
  OBVIOUS
<1>4. Others \subseteq SUBSET S
  OBVIOUS
<1> HIDE DEF R, Others
<1>5. PICK u \in Others : \A v \in Others : ~(<<v, u>> \in R)
  BY <1>1, <1>3, <1>4, WFMin
<1>6. \A v \in SUBSET u : v # u => v \in T
  <2> SUFFICES ASSUME NEW v \in SUBSET u, v # u, v \notin T PROVE FALSE
    OBVIOUS
  <2>1. u \in SUBSET S /\ v \in SUBSET S
    BY <1>4
  <2>2. <<v, u>> \in R
    BY <2>1, <1>2
  <2>3. v \in Others
    BY <2>1 DEF Others
  <2> QED
    BY <2>2, <2>3, <1>5
<1> QED
  BY <1>4, <1>6 DEF Others

\* There is such a function.
LEMMA SumsDefined ==
  ASSUME NEW n \in Nat, NEW ends \in [1 .. n -> Int], NEW begins \in [1 .. n -> Int]
  PROVE  \E f : Sums(f, ends, begins, n)
<1> DEFINE S == 1 .. n
           Next1(f, u) == f[u \ {Pick(u)}] + ends[Pick(u)] - begins[Pick(u)]
           Upto(u, f) == \A v \in SUBSET S : v # {} /\ Cardinality(v) <= Cardinality(u) => f[v] = Next1(f, v)
           T == {u \in SUBSET S : \E f : f = [v \in SUBSET S |-> f[v]] /\ f[{}] = 0 /\ Upto(u, f)}
<1>a. IsFiniteSet(S)
  BY FS_Interval
<1>b. ends \in [S -> Int] /\ begins \in [S -> Int]
  OBVIOUS
<1> HIDE DEF S
<1>1. \A u \in SUBSET S : IsFiniteSet(u) /\ Cardinality(u) \in Nat
  BY <1>a, FS_Subset, FS_CardinalityType
<1>2. \A u \in SUBSET S : u # {} => /\ Pick(u) \in u /\ u \ {Pick(u)} \in SUBSET S
                                  /\ Cardinality(u) # 0 /\ Cardinality(u \ {Pick(u)}) = Cardinality(u) - 1
  <2> SUFFICES ASSUME NEW u \in SUBSET S, u # {}
               PROVE  /\ Pick(u) \in u
                      /\ Cardinality(u) # 0 /\ Cardinality(u \ {Pick(u)}) = Cardinality(u) - 1
    BY PickIn
  <2>1. Pick(u) \in u /\ IsFiniteSet(u)
    BY <1>1, PickIn
  <2> QED
    BY <2>1, FS_RemoveElement, FS_EmptySet
<1>3. Cardinality({}) = 0
  BY FS_EmptySet
<1>4. ASSUME NEW u \in SUBSET S, \A v \in SUBSET u : v # u => v \in T PROVE u \in T
  <2>1. CASE u = {}
    <3> DEFINE f == [v \in SUBSET S |-> 0]
    <3>1. f = [v \in SUBSET S |-> f[v]] /\ f[{}] = 0
      OBVIOUS
    <3>2. \A v \in SUBSET S : v # {} => ~(Cardinality(v) <= Cardinality(u))
      <4> SUFFICES ASSUME NEW v \in SUBSET S, v # {} PROVE ~(Cardinality(v) <= 0)
        BY <1>3, <2>1
      <4>1. Cardinality(v) \in Nat /\ Cardinality(v) # 0
        BY <1>1, <1>2
      <4> QED
        BY <4>1
    <3> HIDE DEF f, Next1
    <3> QED
      BY <3>1, <3>2
  <2>2. CASE u # {}
    <3> DEFINE v == u \ {Pick(u)}
    <3>1. v \in T /\ Cardinality(v) = Cardinality(u) - 1 /\ v \in SUBSET S
      BY <1>2, <1>4, <2>2
    <3>2. PICK r : r[{}] = 0 /\ Upto(v, r)
      BY <3>1
    <3> HIDE DEF v
    <3> DEFINE f == [w \in SUBSET S |-> IF w = {} THEN 0 ELSE Next1(r, w)]
    <3>3. f[{}] = 0 /\ f = [w \in SUBSET S |-> f[w]]
      <4> HIDE DEF Next1
      <4> QED
        OBVIOUS
    <3>4. ASSUME NEW w \in SUBSET S, w # {}, Cardinality(w) <= Cardinality(u)
          PROVE  f[w] = Next1(f, w)
      <4> DEFINE x == w \ {Pick(w)}
      <4>1. x \in SUBSET S /\ Cardinality(x) <= Cardinality(v)
        <5>1. /\ x \in SUBSET S /\ Cardinality(x) = Cardinality(w) - 1
              /\ {Cardinality(w), Cardinality(u)} \subseteq Nat
          BY <1>1, <1>2, <3>4
        <5> HIDE DEF x
        <5> QED
          BY <5>1, <3>1, <3>4
      <4>2. f[x] = r[x]
        <5>1. x = {} => f[x] = 0
          BY <3>3
        <5>2. x # {} => f[x] = Next1(r, x) /\ r[x] = Next1(r, x)
          <6> HIDE DEF x, Next1
          <6> QED
            BY <3>2, <4>1
        <5> HIDE DEF x, f, Next1
        <5> QED
          BY <3>2, <5>1, <5>2
      <4>3. f[w] = Next1(r, w)
        <5> HIDE DEF Next1
        <5> QED
          BY <3>4
      <4> HIDE DEF f
      <4> QED
        BY <4>2, <4>3
    <3> HIDE DEF f
    <3>5. Upto(u, f)
      BY <3>4
    <3> HIDE DEF Next1
    <3> QED
      BY <3>3, <3>5
  <2> QED
    BY <2>1, <2>2
<1>5. T \subseteq SUBSET S
  OBVIOUS
<1> HIDE DEF T
<1>6. T = SUBSET S
  BY <1>a, <1>4, <1>5, SubsetInduction
<1>7. PICK f : f = [v \in SUBSET S |-> f[v]] /\ f[{}] = 0 /\ Upto(S, f)
  <2>1. S \in T
    BY <1>6
  <2> HIDE DEF Upto
  <2> QED
    BY <2>1 DEF T
<1>8. \A u \in SUBSET S : Cardinality(u) <= Cardinality(S)
  BY <1>a, FS_Subset
<1> DEFINE g == [u \in SUBSET S |-> IF u = {} THEN 0 ELSE Next1(f, u)]
<1>9. \A u \in SUBSET S : f[u] = g[u]
  <2> HIDE DEF Next1
  <2> QED
    BY <1>7, <1>8
<1>10. f = g
  <2> HIDE DEF g, S
  <2>1. [u \in SUBSET S |-> f[u]] = [u \in SUBSET S |-> g[u]]
    BY <1>9
  <2>2. g = [u \in SUBSET S |-> g[u]]
    BY DEF g
  <2> QED
    BY <1>7, <2>1, <2>2
<1> QED
  BY <1>10 DEF Sums, S

\* It is a number.
LEMMA SumUpIsInt ==
  ASSUME NEW n \in Nat, NEW ends \in [1 .. n -> Int], NEW begins \in [1 .. n -> Int]
  PROVE  SumUp(ends, begins, n) \in Int
<1> DEFINE f == CHOOSE f : Sums(f, ends, begins, n)
           T == {u \in SUBSET (1 .. n) : f[u] \in Int}
<1>1. Sums(f, ends, begins, n)
  BY SumsDefined
<1>2. SumUp(ends, begins, n) = f[1 .. n]
  BY DEF SumUp
<1> HIDE DEF f
<1>3. ASSUME NEW u \in SUBSET (1 .. n), \A v \in SUBSET u : v # u => v \in T PROVE u \in T
  <2>1. CASE u = {}
    BY <1>1, <2>1 DEF Sums
  <2>2. CASE u # {}
    <3> DEFINE v == u \ {Pick(u)}
    <3>1. Pick(u) \in u /\ v \in SUBSET u /\ v # u
      BY <2>2, PickIn
    <3>2. f[v] \in Int /\ ends[Pick(u)] \in Int /\ begins[Pick(u)] \in Int
      BY <1>3, <3>1
    <3>3. f[u] = f[v] + ends[Pick(u)] - begins[Pick(u)]
      BY <1>1, <2>2 DEF Sums
    <3> QED
      BY <3>2, <3>3
  <2> QED
    BY <2>1, <2>2
<1>4. T \subseteq SUBSET (1 .. n)
  OBVIOUS
<1> DEFINE S == 1 .. n
<1>5. IsFiniteSet(S)
  BY FS_Interval
<1>6. \A u \in SUBSET S : (\A v \in SUBSET u : v # u => v \in T) => u \in T
  BY <1>3
<1>7. T \subseteq SUBSET S
  BY <1>4
<1> HIDE DEF T, S
<1>8. T = SUBSET S
  BY <1>5, <1>6, <1>7, SubsetInduction
<1>9. S \in T
  BY <1>8
<1> QED
  BY <1>2, <1>9 DEF T, S

\* What the engine measures, and what is measured of a saved block, are such sums.
LEMMA FoldSums ==
  ASSUME NEW s \in Seq(Intervals), NEW ends \in [1 .. Len(s) -> Int], NEW begins \in [1 .. Len(s) -> Int],
         \A i \in 1 .. Len(s) : begins[i] = s[i].startedAt
  PROVE  /\ (\A i \in 1 .. Len(s) : ends[i] = s[i].endedAt) => Worked(s) = SumUp(ends, begins, Len(s))
         /\ \A started, at : s # << >> /\ (\A i \in 1 .. Len(s) : ends[i] = EndAt(s[i], at)) =>
              Elapsed(started, at, s) = SumUp(ends, begins, Len(s))
<1> DEFINE n == Len(s)
           Fold(f, end) == f = [u \in SUBSET DOMAIN s |->
                             IF u = {} THEN 0 ELSE f[u \ {Pick(u)}] + end[Pick(u)] - s[Pick(u)].startedAt]
<1>1. DOMAIN s = 1 .. n
  OBVIOUS
<1>2. ASSUME NEW end, \A i \in 1 .. n : end[i] = ends[i]
      PROVE  (CHOOSE f : Fold(f, end))[DOMAIN s] = SumUp(ends, begins, n)
  <2>1. \A f : Fold(f, end) <=> Sums(f, ends, begins, n)
    <3> SUFFICES ASSUME NEW f PROVE Fold(f, end) <=> Sums(f, ends, begins, n)
      OBVIOUS
    <3> DEFINE a == [u \in SUBSET (1 .. n) |->
                       IF u = {} THEN 0 ELSE f[u \ {Pick(u)}] + end[Pick(u)] - s[Pick(u)].startedAt]
               b == [u \in SUBSET (1 .. n) |->
                       IF u = {} THEN 0 ELSE f[u \ {Pick(u)}] + ends[Pick(u)] - begins[Pick(u)]]
    <3>1. \A u \in SUBSET (1 .. n) : u # {} =>
            end[Pick(u)] = ends[Pick(u)] /\ begins[Pick(u)] = s[Pick(u)].startedAt
      <4> SUFFICES ASSUME NEW u \in SUBSET (1 .. n), u # {}
                   PROVE  end[Pick(u)] = ends[Pick(u)] /\ begins[Pick(u)] = s[Pick(u)].startedAt
        OBVIOUS
      <4>1. Pick(u) \in 1 .. n
        BY PickIn
      <4> QED
        BY <1>2, <4>1
    <3>2. \A u \in SUBSET (1 .. n) : a[u] = b[u]
      BY <3>1
    <3>3. a = b
      BY <3>2
    <3>4. Fold(f, end) <=> f = a
      BY <1>1
    <3>5. Sums(f, ends, begins, n) <=> f = b
      BY DEF Sums
    <3> HIDE DEF a, b, Fold
    <3> QED
      BY <3>3, <3>4, <3>5
  <2> HIDE DEF Fold
  <2>2. (CHOOSE f : Fold(f, end)) = (CHOOSE f : Sums(f, ends, begins, n))
    BY <2>1, Zenon
  <2> QED
    BY <1>1, <2>2 DEF SumUp
<1>3. ASSUME \A i \in 1 .. n : ends[i] = s[i].endedAt
      PROVE  Worked(s) = SumUp(ends, begins, n)
  <2> DEFINE end == [i \in DOMAIN s |-> s[i].endedAt]
             G(f) == f = [u \in SUBSET DOMAIN s |->
                       IF u = {} THEN 0 ELSE f[u \ {Pick(u)}] + s[Pick(u)].endedAt - s[Pick(u)].startedAt]
  <2>1. Worked(s) = (CHOOSE f : G(f))[DOMAIN s]
    BY DEF Worked, FoldSeq, FoldFunction, FoldFunctionOnSet, MapThenFoldSet, Pick
  <2>2. \A u \in SUBSET DOMAIN s : u # {} => end[Pick(u)] = s[Pick(u)].endedAt
    BY PickIn
  <2> HIDE DEF end
  <2>3. \A f : G(f) <=> Fold(f, end)
    BY <2>2
  <2> HIDE DEF G, Fold
  <2>4. (CHOOSE f : G(f)) = (CHOOSE f : Fold(f, end))
    BY <2>3, Zenon
  <2>5. \A i \in 1 .. n : end[i] = ends[i]
    BY <1>1, <1>3 DEF end
  <2> QED
    BY <1>2, <2>1, <2>4, <2>5
<1>4. ASSUME NEW started, NEW at, s # << >>, \A i \in 1 .. n : ends[i] = EndAt(s[i], at)
      PROVE  Elapsed(started, at, s) = SumUp(ends, begins, n)
  <2> DEFINE end == [i \in DOMAIN s |-> EndAt(s[i], at)]
             G(f) == f = [u \in SUBSET DOMAIN s |->
                       IF u = {} THEN 0 ELSE f[u \ {Pick(u)}] + EndAt(s[Pick(u)], at) - s[Pick(u)].startedAt]
  <2>1. Elapsed(started, at, s) = (CHOOSE f : G(f))[DOMAIN s]
    BY <1>4 DEF Elapsed, FoldSeq, FoldFunction, FoldFunctionOnSet, MapThenFoldSet, Pick, EndAt
  <2>2. \A u \in SUBSET DOMAIN s : u # {} => end[Pick(u)] = EndAt(s[Pick(u)], at)
    BY PickIn
  <2> HIDE DEF end
  <2>3. \A f : G(f) <=> Fold(f, end)
    BY <2>2
  <2> HIDE DEF G, Fold
  <2>4. (CHOOSE f : G(f)) = (CHOOSE f : Fold(f, end))
    BY <2>3, Zenon
  <2>5. \A i \in 1 .. n : end[i] = ends[i]
    BY <1>1, <1>4 DEF end
  <2> QED
    BY <1>2, <2>1, <2>4, <2>5
<1> QED
  BY <1>3, <1>4

\* Closing a block keeps what it was worked.
LEMMA WorkedAsElapsed ==
  ASSUME NEW s \in Seq(Intervals), s # << >>, NEW at \in Nat, NEW out \in Seq(Intervals), Len(out) = Len(s),
         \A i \in 1 .. Len(s) : out[i].startedAt = s[i].startedAt /\ out[i].endedAt = EndAt(s[i], at)
  PROVE  /\ \A started : Worked(out) = Elapsed(started, at, s)
         /\ Worked(out) \in Int
<1> DEFINE n == Len(s)
           ends == [i \in 1 .. n |-> EndAt(s[i], at)]
           begins == [i \in 1 .. n |-> s[i].startedAt]
<1>1. \A i \in 1 .. n : s[i] \in Intervals
  OBVIOUS
<1>2. n \in Nat /\ ends \in [1 .. n -> Int] /\ begins \in [1 .. n -> Int]
  BY <1>1 DEF EndAt, Intervals, Open
<1>3. \A i \in 1 .. n : /\ ends[i] = EndAt(s[i], at) /\ ends[i] = out[i].endedAt
                       /\ begins[i] = s[i].startedAt /\ begins[i] = out[i].startedAt
  OBVIOUS
<1> HIDE DEF ends, begins
<1>4. Worked(out) = SumUp(ends, begins, n)
  BY <1>2, <1>3, FoldSums
<1>5. \A started : Elapsed(started, at, s) = SumUp(ends, begins, n)
  BY <1>2, <1>3, FoldSums
<1> QED
  BY <1>2, <1>4, <1>5, SumUpIsInt

-------------------------------------------------------------------------------
(* A completed block was worked for its whole length.                          *)

KnownSettings == {DefaultSettings} \cup AccountSettings

\* The length a block was given is one that some settings give its kind.
InForce(block) == \E set \in KnownSettings : block.targetMs = set.duration[block.type]

RanOut(block) == block.blockStatus = "completed" => Worked(block.intervals) >= block.targetMs

\* All intervals but the last are closed, whatever the clock did.
Tidy(s) == s # << >> /\ \A i \in 1 .. Len(s) : i < Len(s) => s[i].endedAt # Open

RanBlock(block) ==
  block # NoBlock =>
    /\ Tidy(block.intervals)
    /\ block.phase # "running" => Shut(block.intervals)
    /\ InForce(block)
    /\ block.phase = "ended" => RanOut(block)

RanSave(block) == Shut(block.intervals) /\ InForce(block) /\ RanOut(block)

RanSaves(saves) == \A i \in DOMAIN saves : RanSave(saves[i].state)

RanMachine(m) == RanBlock(m.timer) /\ RanSaves(m.pending.saves)

RanInv ==
  /\ \A t \in Tabs : tab[t] # Closed => RanMachine(tab[t])
  /\ RanBlock(stored.clock)
  /\ CompletedRanOut

\* Closing a block adds nothing to what it was worked, and takes nothing away.
LEMMA CloseBlockWorked ==
  ASSUME NEW s \in Seq(Intervals), Tidy(s), NEW at \in Nat
  PROVE  LET out == CloseBlock(s, at).intervals
         IN  /\ Tidy(out) /\ Shut(out)
             /\ Worked(out) \in Int /\ \A started : Worked(out) = Elapsed(started, at, s)
             /\ Shut(s) => out = s
<1> DEFINE n   == Len(s)
           end == IF n # 0 /\ s[n].endedAt # Open THEN s[n].endedAt ELSE at
           out == [s EXCEPT ![n].endedAt = end]
<1>1. n \in Nat /\ n # 0 /\ DOMAIN s = 1 .. n /\ \A i \in 1 .. n : s[i] \in Intervals
  BY DEF Tidy
<1>2. CloseBlock(s, at).intervals = out
  BY <1>1 DEF CloseBlock
<1>3. end = EndAt(s[n], at) /\ end \in Nat /\ end # Open
  BY <1>1 DEF EndAt, Intervals, Open
<1>4. out \in Seq(Intervals) /\ DOMAIN out = 1 .. n
      /\ \A i \in 1 .. n : out[i] = IF i = n THEN [s[n] EXCEPT !.endedAt = end] ELSE s[i]
  <2> HIDE DEF end
  <2>1. [s[n] EXCEPT !.endedAt = end] \in Intervals
    BY <1>1, <1>3 DEF Intervals
  <2>2. out = [s EXCEPT ![n] = [s[n] EXCEPT !.endedAt = end]]
    BY <1>1
  <2> QED
    BY <1>1, <2>1, <2>2
<1>5. Len(out) = n
  BY <1>1, <1>4
<1>6. \A i \in 1 .. n : out[i].startedAt = s[i].startedAt
                       /\ out[i].endedAt = IF i = n THEN end ELSE s[i].endedAt
  <2> HIDE DEF end, out
  <2> QED
    BY <1>1, <1>4 DEF Intervals
<1>7. \A i \in 1 .. n : i # n => s[i].endedAt # Open
  <2>1. \A i \in 1 .. n : i # n => i < n
    <3> SUFFICES ASSUME NEW m \in Nat, NEW i \in 1 .. m, i # m PROVE i < m
      BY <1>1
    <3> QED
      OBVIOUS
  <2> QED
    BY <2>1 DEF Tidy
<1>8. Shut(s) => out = s
  <2> SUFFICES ASSUME Shut(s) PROVE out = s
    OBVIOUS
  <2>1. s[n].endedAt # Open
    BY <1>1 DEF Shut
  <2>2. end = s[n].endedAt
    BY <1>1, <2>1
  <2>3. [s[n] EXCEPT !.endedAt = end] = s[n]
    BY <1>1, <2>2 DEF Intervals
  <2> HIDE DEF end, out
  <2>4. \A i \in 1 .. n : out[i] = s[i]
    BY <1>4, <2>3
  <2> QED
    BY <1>1, <1>4, <2>4
<1>9. \A i \in 1 .. n : out[i].endedAt = EndAt(s[i], at) /\ out[i].endedAt # Open
  <2> HIDE DEF end, out
  <2> QED
    BY <1>3, <1>6, <1>7 DEF EndAt
<1> HIDE DEF out, end
<1>10. Tidy(out) /\ Shut(out)
  <2>1. out # << >>
    BY <1>1, <1>5
  <2> QED
    BY <1>5, <1>9, <2>1 DEF Tidy, Shut
<1>11. Worked(out) \in Int /\ \A started : Worked(out) = Elapsed(started, at, s)
  BY <1>1, <1>4, <1>5, <1>6, <1>9, WorkedAsElapsed
<1> QED
  BY <1>2, <1>8, <1>10, <1>11

LEMMA ResumedTidy ==
  ASSUME NEW s \in Seq(Intervals), Shut(s), NEW new \in Intervals
  PROVE  Tidy(Append(s, new))
<1> DEFINE n == Len(s)
<1>1. /\ n \in Nat /\ Len(Append(s, new)) = n + 1 /\ Append(s, new) # << >>
      /\ \A i \in 1 .. n : Append(s, new)[i] = s[i]
  OBVIOUS
<1> SUFFICES ASSUME NEW i \in 1 .. n + 1, i < n + 1 PROVE Append(s, new)[i].endedAt # Open
  BY <1>1 DEF Tidy
<1>2. i \in 1 .. n
  BY <1>1
<1> QED
  BY <1>1, <1>2 DEF Shut

LEMMA NewBlockRan ==
  ASSUME NEW id, NEW type, NEW at \in Nat, NEW set \in KnownSettings, NEW completed
  PROVE  RanBlock(NewBlock(id, type, at, set, completed))
<1> DEFINE s == << [startedAt |-> at, endedAt |-> Open] >>
           block == NewBlock(id, type, at, set, completed)
<1>1. Len(s) = 1 /\ s # << >>
  OBVIOUS
<1>2. block.intervals = s /\ block.phase = "running" /\ block.targetMs = set.duration[block.type]
  BY DEF NewBlock, NextDuration
<1>3. \A i \in 1 .. 1 : ~(i < 1)
  OBVIOUS
<1> HIDE DEF s, block
<1>4. Tidy(s)
  BY <1>1, <1>3 DEF Tidy
<1> QED
  BY <1>2, <1>4 DEF RanBlock, InForce, block

\* Only a tick completes a block, and it finds that the time is up.
LEMMA RanTransition ==
  ASSUME NEW block \in Timers, NEW event \in Events, Fits(event, block), NEW at \in Nat, NEW id \in Nat,
         NEW set \in KnownSettings, NEW completed \in Nat, NEW pendingBreak \in BOOLEAN, RanBlock(block)
  PROVE  LET result == Transition(block, event, at, id, set, completed, pendingBreak)
         IN  RanBlock(result.state) /\ RanSaves(result.effects.saves)
<1> DEFINE result == Transition(block, event, at, id, set, completed, pendingBreak)
           closed == CloseBlock(block.intervals, at)
<1>1. block # NoBlock => block \in Blocks
  BY DEF Timers
<1>2. block = NoBlock => block.phase = "idle"
  BY DEF NoBlock
<1>3. block # NoBlock =>
        /\ Tidy(closed.intervals) /\ Shut(closed.intervals)
        /\ Worked(closed.intervals) \in Int
        /\ Worked(closed.intervals) = Elapsed(block.startedAt, at, block.intervals)
        /\ Shut(block.intervals) => closed.intervals = block.intervals
  BY <1>1, CloseBlockWorked DEF RanBlock, Blocks
<1>4. RanBlock(NoBlock) /\ RanSaves(<< >>)
  BY DEF RanBlock, RanSaves
<1>5. ASSUME NEW save, RanSave(save.state) PROVE RanSaves(<< save >>)
  <2>1. \A i \in DOMAIN << save >> : << save >>[i] = save
    OBVIOUS
  <2> QED
    BY <1>5, <2>1 DEF RanSaves
<1>6. ASSUME NEW state, NEW effects, RanBlock(state), RanSaves(effects.saves),
             result = Result(state, effects)
      PROVE  RanBlock(result.state) /\ RanSaves(result.effects.saves)
  <2> HIDE DEF result
  <2> QED
    BY <1>6 DEF Result
<1>7. result = Ignored(block) => RanBlock(result.state) /\ RanSaves(result.effects.saves)
  <2> HIDE DEF result
  <2> QED
    BY <1>4, EffectsOfSaves DEF Ignored, Result
<1>8. TickGate(block) /\ TimeIsUp(Overrun(block, at)) =>
        block # NoBlock /\ Worked(closed.intervals) >= block.targetMs
  <2> SUFFICES ASSUME TickGate(block), TimeIsUp(Overrun(block, at))
               PROVE  block # NoBlock /\ Worked(closed.intervals) >= block.targetMs
    OBVIOUS
  <2>1. block # NoBlock
    BY <1>2 DEF TickGate
  <2>2. block.targetMs \in Nat
    BY <1>1, <2>1 DEF Blocks
  <2>3. Worked(closed.intervals) - block.targetMs >= 0
    BY <1>3, <2>1 DEF TimeIsUp, Overrun
  <2> HIDE DEF closed
  <2> QED
    BY <1>3, <2>1, <2>2, <2>3
<1>9. ASSUME NEW status, block # NoBlock,
             status = "completed" => Worked(closed.intervals) >= block.targetMs
      PROVE  RanBlock(PrepareFocusEnd(block, at, status))
  <2> DEFINE next == PrepareFocusEnd(block, at, status)
  <2>1. /\ next.intervals = closed.intervals /\ next.blockStatus = status
        /\ next.targetMs = block.targetMs /\ next.type = block.type
    BY <1>1, <1>9 DEF PrepareFocusEnd, Blocks
  <2> HIDE DEF next, closed
  <2> QED
    BY <1>3, <1>9, <2>1 DEF RanBlock, RanOut, InForce, next
<1>10. ASSUME NEW state, block # NoBlock, state.intervals = closed.intervals,
              state.targetMs = block.targetMs, state.type = block.type,
              state.blockStatus = "completed" => Worked(closed.intervals) >= block.targetMs
       PROVE  RanSave(state)
  BY <1>3, <1>10 DEF RanSave, RanOut, InForce, RanBlock
<1> HIDE DEF closed
<1> SUFFICES RanBlock(result.state) /\ RanSaves(result.effects.saves)
  BY DEF result
<1>11. CASE event.kind = "start"
  <2> DEFINE new     == NewBlock(id, event.type, at, set, completed)
             effects == IF pendingBreak THEN SetCycle(completed, FALSE) ELSE NoEffects
  <2>1. result = Result(new, effects)
    BY <1>11 DEF Transition, OnStart
  <2>2. RanBlock(new)
    BY NewBlockRan
  <2>3. RanSaves(effects.saves)
    BY <1>4, EffectsOfSaves
  <2> HIDE DEF new, effects, result
  <2> QED
    BY <1>6, <2>1, <2>2, <2>3
<1>12. CASE event.kind = "pause"
  <2>1. result = OnPause(block, at)
    BY <1>12 DEF Transition
  <2>2. CASE block.phase = "running"
    <3> DEFINE next == [block EXCEPT !.phase = "paused", !.intervals = CloseBlock(@, at).intervals]
    <3>1. result = Ignored(next)
      BY <2>1, <2>2 DEF OnPause
    <3>2. /\ block # NoBlock /\ next.intervals = closed.intervals /\ next.phase = "paused"
          /\ next.targetMs = block.targetMs /\ next.type = block.type
      BY <1>1, <1>2, <2>2 DEF Blocks, closed
    <3> HIDE DEF next, result
    <3>3. RanBlock(next)
      BY <1>3, <3>2 DEF RanBlock, InForce
    <3> QED
      BY <1>4, <1>6, <3>1, <3>3, EffectsOfSaves DEF Ignored
  <2> QED
    BY <1>7, <2>1, <2>2 DEF OnPause
<1>13. CASE event.kind = "resume"
  <2>1. result = OnResume(block, at)
    BY <1>13 DEF Transition
  <2>2. CASE block.phase = "paused"
    <3> DEFINE new  == [startedAt |-> at, endedAt |-> Open]
               next == [block EXCEPT !.phase = "running", !.intervals = Append(@, new)]
    <3>1. result = Ignored(next)
      BY <2>1, <2>2 DEF OnResume
    <3>2. /\ block # NoBlock /\ next.intervals = Append(block.intervals, new)
          /\ next.phase = "running" /\ next.targetMs = block.targetMs /\ next.type = block.type
      BY <1>1, <1>2, <2>2 DEF Blocks
    <3>3. Tidy(Append(block.intervals, new))
      <4>1. block.intervals \in Seq(Intervals) /\ Shut(block.intervals)
        BY <1>1, <2>2, <3>2 DEF RanBlock, Blocks
      <4>2. new \in Intervals
        BY DEF Intervals
      <4> QED
        BY <4>1, <4>2, ResumedTidy
    <3> HIDE DEF next, result
    <3>4. RanBlock(next)
      BY <3>2, <3>3 DEF RanBlock, InForce
    <3> QED
      BY <1>4, <1>6, <3>1, <3>4, EffectsOfSaves DEF Ignored
  <2> QED
    BY <1>7, <2>1, <2>2 DEF OnResume
<1>14. CASE event.kind = "stop"
  <2>1. result = OnStop(block, at)
    BY <1>14 DEF Transition
  <2>2. CASE block.phase \in {"idle", "ended"}
    BY <1>7, <2>1, <2>2 DEF OnStop
  <2>3. CASE block.phase \notin {"idle", "ended"} /\ EndsOnSheet(block)
    <3>1. result = Result(PrepareFocusEnd(block, at, "aborted"), SheetAndAlert)
      BY <2>1, <2>3 DEF OnStop
    <3> HIDE DEF result
    <3> QED
      BY <1>2, <1>4, <1>6, <1>9, <2>3, <3>1, EffectsOfSaves
  <2>4. CASE block.phase \notin {"idle", "ended"} /\ ~EndsOnSheet(block)
    <3> DEFINE state == [block EXCEPT !.phase = "ended", !.blockStatus = "aborted",
                                      !.intervals = closed.intervals]
               save == SaveEffect(state, closed.endedAt)
    <3>1. result = Result(NoBlock, SaveAndAlert(save))
      BY <2>1, <2>4 DEF OnStop, closed
    <3>2. /\ block # NoBlock /\ save.state = state /\ state.intervals = closed.intervals
          /\ state.blockStatus = "aborted" /\ state.targetMs = block.targetMs /\ state.type = block.type
      BY <1>1, <1>2, <2>4 DEF SaveEffect, Blocks
    <3> HIDE DEF state, save, result
    <3>3. RanSaves(<< save >>)
      BY <1>5, <1>10, <3>2
    <3> QED
      BY <1>4, <1>6, <3>1, <3>3, EffectsOfSaves
  <2> QED
    BY <2>2, <2>3, <2>4
<1>15. CASE event.kind = "labelSave"
  <2>1. result = OnLabelSave(block, event.label, at, id, set)
    BY <1>15 DEF Transition
  <2>2. block.phase = "ended" /\ block # NoBlock
    BY <1>2, <1>15 DEF Fits, Ended
  <2> DEFINE state == [block EXCEPT !.label = event.label, !.intervals = closed.intervals]
             save  == SaveEffect(state, closed.endedAt)
             count == block.focusBlocksCompleted + 1
             auto  == set.autoStartBreaks /\ block.blockStatus = "completed"
             next  == IF auto
                      THEN NewBlock(id, NextBreakType(count, set.blocksPerCycle), at, set, count)
                      ELSE NoBlock
  <2>3. result = Result(next, SaveAndAdvance(save, count, ~auto))
    BY <2>1, <2>2 DEF OnLabelSave, closed
  <2>4. RanBlock(next)
    BY <1>4, NewBlockRan
  <2>5. /\ save.state = state /\ state.intervals = closed.intervals /\ state.type = block.type
        /\ state.targetMs = block.targetMs /\ state.blockStatus = block.blockStatus
    BY <1>1, <2>2 DEF SaveEffect, Blocks
  <2>6. block.blockStatus = "completed" => Worked(closed.intervals) >= block.targetMs
    BY <1>3, <2>2 DEF RanBlock, RanOut
  <2> HIDE DEF state, save, next, auto, count, result
  <2>7. RanSaves(<< save >>)
    BY <1>5, <1>10, <2>2, <2>5, <2>6
  <2> QED
    BY <1>6, <2>3, <2>4, <2>7, EffectsOfSaves
<1>16. CASE event.kind = "skipBreak"
  <2>1. result \in {Result(NoBlock, NoEffects), Result(NoBlock, SetCycle(completed, FALSE)), Ignored(block)}
    BY <1>16 DEF Transition, OnSkipBreak
  <2> HIDE DEF result
  <2> QED
    BY <1>4, <1>6, <1>7, <2>1, EffectsOfSaves
<1>17. CASE event.kind = "resetCycle"
  <2>1. result \in {Result(NoBlock, SetCycle(0, FALSE)), Ignored(block)}
    BY <1>17 DEF Transition, OnResetCycle
  <2> HIDE DEF result
  <2> QED
    BY <1>4, <1>6, <1>7, <2>1, EffectsOfSaves
<1>18. CASE event.kind = "tick"
  <2>1. result = OnTick(block, at, id, set, completed)
    BY <1>18 DEF Transition
  <2>2. CASE TickGate(block) /\ TimeIsUp(Overrun(block, at)) /\ EndsOnSheet(block)
    <3>1. result = Result(PrepareFocusEnd(block, at, "completed"), SheetAndAlert)
      BY <2>1, <2>2 DEF OnTick
    <3> HIDE DEF result
    <3> QED
      BY <1>4, <1>6, <1>8, <1>9, <2>2, <3>1, EffectsOfSaves
  <2>3. CASE TickGate(block) /\ TimeIsUp(Overrun(block, at)) /\ ~EndsOnSheet(block)
    <3> DEFINE state == [block EXCEPT !.intervals = closed.intervals]
               save == SaveEffect(state, closed.endedAt)
               auto == set.autoStartNext /\ WithinGrace(Overrun(block, at))
               next == IF auto THEN NewBlock(id, "focus", at, set, completed) ELSE NoBlock
    <3>1. result = Result(next, SaveAndAlert(save))
      BY <2>1, <2>3 DEF OnTick, closed
    <3>2. RanBlock(next)
      <4> HIDE DEF auto
      <4> QED
        BY <1>4, NewBlockRan
    <3>3. /\ save.state = state /\ state.intervals = closed.intervals
          /\ state.targetMs = block.targetMs /\ state.type = block.type
      BY <1>1, <1>8, <2>3 DEF SaveEffect, Blocks
    <3> HIDE DEF state, save, next, result
    <3>4. RanSaves(<< save >>)
      BY <1>5, <1>8, <1>10, <2>3, <3>3
    <3> QED
      BY <1>6, <3>1, <3>2, <3>4, EffectsOfSaves
  <2>4. CASE ~(TickGate(block) /\ TimeIsUp(Overrun(block, at)))
    BY <1>7, <2>1, <2>4 DEF OnTick
  <2> QED
    BY <2>2, <2>3, <2>4
<1> QED
  BY <1>11, <1>12, <1>13, <1>14, <1>15, <1>16, <1>17, <1>18 DEF Events

LEMMA RanConcat ==
  ASSUME NEW s1 \in Seq(SaveEffects), NEW s2 \in Seq(SaveEffects), RanSaves(s1), RanSaves(s2)
  PROVE  RanSaves(s1 \o s2)
<1> SUFFICES ASSUME NEW i \in DOMAIN (s1 \o s2) PROVE RanSave((s1 \o s2)[i].state)
  BY DEF RanSaves
<1>1. \/ i \in DOMAIN s1 /\ (s1 \o s2)[i] = s1[i]
      \/ i - Len(s1) \in DOMAIN s2 /\ (s1 \o s2)[i] = s2[i - Len(s1)]
  OBVIOUS
<1> QED
  BY <1>1 DEF RanSaves

LEMMA KnownIsSound == KnownSettings \subseteq TimerSettings /\ DefaultSettings \in KnownSettings
BY SettingsAssumption DEF KnownSettings

LEMMA RanReduceOnce ==
  ASSUME TypeOK, NEW m \in Machines, RanMachine(m), NEW event \in Events, Fits(event, m.timer),
         NEW id \in Nat, NEW set \in KnownSettings
  PROVE  RanMachine(ReduceOnce(m, event, id, set))
<1> DEFINE result == Transition(m.timer, event, now, id, set, m.completed, m.pendingBreak)
           next   == ReduceOnce(m, event, id, set)
<1>1. /\ m.timer \in Timers /\ m.completed \in Nat /\ m.pendingBreak \in BOOLEAN
      /\ m.pending.saves \in Seq(SaveEffects) /\ now \in Nat /\ set \in TimerSettings
  BY KnownIsSound DEF Machines, TypeOK
<1>2. result \in Results
  BY <1>1, TransitionType
<1>3. RanBlock(result.state) /\ RanSaves(result.effects.saves)
  BY <1>1, RanTransition DEF RanMachine
<1>4. next.timer = result.state /\ next.pending.saves = m.pending.saves \o result.effects.saves
  BY DEF ReduceOnce
<1> HIDE DEF result, next
<1>5. RanSaves(m.pending.saves \o result.effects.saves)
  BY <1>1, <1>2, <1>3, RanConcat DEF RanMachine, Results, Effects
<1> QED
  BY <1>3, <1>4, <1>5 DEF RanMachine, next

LEMMA RanReduce ==
  ASSUME TypeOK, NEW m \in Machines, Sound(m), RanMachine(m), NEW event \in Events,
         Fits(event, m.timer), NEW id \in Nat, NEW set \in KnownSettings
  PROVE  RanMachine(Reduce(m, event, id, set))
<1> DEFINE next == ReduceOnce(m, event, id, set)
<1>1. next \in Machines /\ Sound(next) /\ RanMachine(next)
  BY KnownIsSound, ReduceOnceType, ReduceOnceSound, RanReduceOnce
<1>2. Reduce(m, event, id, set) =
        IF Guest /\ next.labelSheetOpen THEN ReduceOnce(next, Unlabelled, id, set) ELSE next
  BY DEF Reduce
<1> HIDE DEF next
<1>3. next.labelSheetOpen => RanMachine(ReduceOnce(next, Unlabelled, id, set))
  BY <1>1, UnlabelledEvent, UnlabelledFits, RanReduceOnce DEF Sound
<1> QED
  BY <1>1, <1>2, <1>3

LEMMA RanInitMachine ==
  ASSUME TypeOK, RanBlock(stored.clock), NEW id \in Nat
  PROVE  RanMachine(InitMachine(id))
<1> DEFINE block   == stored.clock
           machine == [timer          |-> block,
                       completed      |-> IF stored.cycle # NoCycle THEN stored.cycle.completed
                                          ELSE IF block # NoBlock THEN block.focusBlocksCompleted
                                          ELSE 0,
                       pendingBreak   |-> stored.cycle.pendingBreak,
                       labelSheetOpen |-> SheetOnLoad(block),
                       pending        |-> Drained]
<1>1. InitMachine(id) = IF Guest /\ machine.labelSheetOpen
                        THEN ReduceOnce(machine, Unlabelled, id, DefaultSettings) ELSE machine
  BY DEF InitMachine
<1>2. machine \in Machines
  BY InitMachineParts
<1>3. RanMachine(machine)
  BY DEF RanMachine, RanSaves, Drained
<1>4. machine.labelSheetOpen => Fits(Unlabelled, machine.timer)
  BY UnlabelledFits DEF SheetOnLoad, Ended
<1> HIDE DEF machine
<1>5. machine.labelSheetOpen => RanMachine(ReduceOnce(machine, Unlabelled, id, DefaultSettings))
  BY <1>2, <1>3, <1>4, KnownIsSound, UnlabelledEvent, RanReduceOnce
<1> QED
  BY <1>1, <1>3, <1>5

LEMMA RanCommit ==
  ASSUME TypeOK, RanInv, NEW t \in Tabs, NEW m \in Machines, RanMachine(m), CommitMachine(t, m)
  PROVE  RanInv'
<1> DEFINE drained == [m EXCEPT !.pending = Drained]
           payloads == Payloads(m.pending.saves)
<1>1. /\ tab' = [tab EXCEPT ![t] = drained]
      /\ stored' = [clock |-> ClockToStore(t, m), cycle |-> CycleToStore(t, m)]
      /\ saved' = saved \o payloads
  BY DEF CommitMachine
<1>2. RanMachine(drained)
  <2>1. drained.timer = m.timer /\ drained.pending.saves = << >>
    BY DEF Machines, Drained
  <2> QED
    BY <2>1 DEF RanMachine, RanSaves
<1>3. tab'[t] = drained /\ \A u \in Tabs \ {t} : tab'[u] = tab[u]
  BY <1>1 DEF TypeOK
<1>4. RanBlock(stored'.clock)
  BY <1>1 DEF ClockToStore, RanMachine, RanInv
<1>5. m.pending.saves \in Seq(SaveEffects) /\ payloads \in Seq(SavedBlocks) /\ saved \in Seq(SavedBlocks)
  BY PayloadsType DEF Machines, TypeOK
<1>6. ASSUME NEW i \in DOMAIN payloads, payloads[i].status = "completed"
      PROVE  \E s \in KnownSettings : Worked(payloads[i].intervals) >= s.duration[payloads[i].kind]
  <2> DEFINE save == m.pending.saves[i]
  <2>1. i \in DOMAIN m.pending.saves /\ payloads[i] = Payload(save)
    BY DEF Payloads
  <2>2. save \in SaveEffects /\ RanSave(save.state)
    BY <1>5, <2>1 DEF RanMachine, RanSaves
  <2> HIDE DEF save
  <2>3. /\ payloads[i].intervals = save.state.intervals
        /\ payloads[i].kind = save.state.type /\ payloads[i].status = save.state.blockStatus
    BY <2>1, <2>2, PayloadOfShut DEF RanSave, Payload
  <2> QED
    BY <1>6, <2>2, <2>3 DEF RanSave, RanOut, InForce
<1> HIDE DEF payloads, drained
<1>7. CompletedRanOut'
  <2> SUFFICES ASSUME NEW i \in DOMAIN (saved \o payloads), (saved \o payloads)[i].status = "completed"
               PROVE  \E s \in KnownSettings : Worked((saved \o payloads)[i].intervals)
                                                 >= s.duration[(saved \o payloads)[i].kind]
    BY <1>1 DEF CompletedRanOut, KnownSettings
  <2>1. \/ i \in DOMAIN saved /\ (saved \o payloads)[i] = saved[i]
        \/ i - Len(saved) \in DOMAIN payloads /\ (saved \o payloads)[i] = payloads[i - Len(saved)]
    BY <1>5
  <2>2. CASE i \in DOMAIN saved /\ (saved \o payloads)[i] = saved[i]
    BY <2>2 DEF RanInv, CompletedRanOut, KnownSettings
  <2>3. CASE i - Len(saved) \in DOMAIN payloads /\ (saved \o payloads)[i] = payloads[i - Len(saved)]
    BY <1>6, <2>3
  <2> QED
    BY <2>1, <2>2, <2>3
<1> QED
  BY <1>2, <1>3, <1>4, <1>7 DEF RanInv

LEMMA RanStep == ScreenInv /\ RanInv /\ [Next]_vars => RanInv'
<1> SUFFICES ASSUME ScreenInv, RanInv, [Next]_vars PROVE RanInv'
  OBVIOUS
<1>1. TypeOK /\ nextId \in Nat /\ \A t \in Tabs : settings[t] \in KnownSettings
  BY DEF ScreenInv, TypeOK, KnownSettings
<1>2. ASSUME UNCHANGED <<tab, stored, saved>> PROVE RanInv'
  BY <1>2 DEF RanInv, CompletedRanOut
<1>3. CASE PassTime \/ SetClockBack \/ UNCHANGED vars
  BY <1>2, <1>3 DEF PassTime, SetClockBack, tabVars, vars
<1>4. ASSUME NEW t \in Tabs, NEW m, RanMachine(m), tab' = [tab EXCEPT ![t] = m], UNCHANGED <<stored, saved>>
      PROVE  RanInv'
  <2>1. tab'[t] = m /\ \A u \in Tabs \ {t} : tab'[u] = tab[u]
    BY <1>1, <1>4 DEF TypeOK
  <2> QED
    BY <1>4, <2>1 DEF RanInv, CompletedRanOut
<1>5. ASSUME NEW t \in Tabs, OpenTab(t) PROVE RanInv'
  <2> DEFINE m == InitMachine(nextId)
  <2>1. RanMachine(m)
    BY <1>1, RanInitMachine DEF RanInv
  <2>2. tab' = [tab EXCEPT ![t] = m] /\ UNCHANGED <<stored, saved>>
    BY <1>5 DEF OpenTab
  <2> HIDE DEF m
  <2> QED
    BY <1>4, <2>1, <2>2
<1>6. ASSUME NEW t \in Tabs, CloseTab(t) PROVE RanInv'
  <2>1. tab' = [tab EXCEPT ![t] = Closed] /\ UNCHANGED <<stored, saved>>
    BY <1>6 DEF CloseTab
  <2>2. tab'[t] = Closed /\ \A u \in Tabs \ {t} : tab'[u] = tab[u]
    BY <1>1, <2>1 DEF TypeOK
  <2> QED
    BY <2>1, <2>2 DEF RanInv, CompletedRanOut
<1>7. ASSUME NEW t \in Tabs, Commit(t) \/ FetchSettings(t) PROVE RanInv'
  <2>1. tab[t] \in Machines
    BY <1>1, <1>7, OpenMachines DEF Commit, FetchSettings, TypeOK
  <2>2. RanMachine(tab[t])
    BY <2>1, OpenIsNotClosed DEF RanInv
  <2>3. CommitMachine(t, tab[t])
    BY <1>7 DEF Commit, FetchSettings
  <2> QED
    BY <1>1, <2>1, <2>2, <2>3, RanCommit
<1>8. ASSUME NEW t \in Tabs, Tick(t) PROVE RanInv'
  <2> DEFINE event == [kind |-> "tick"]
             m     == Reduce(tab[t], event, nextId, settings[t])
  <2>1. screen[t] # Closed
    <3>1. Closed.timer.phase = "idle"
      BY DEF Closed, NoBlock
    <3> QED
      BY <1>8, <3>1 DEF Tick
  <2>2. tab[t] \in Machines /\ Sound(tab[t]) /\ RanMachine(tab[t])
    BY <2>1, OpenMachines, OpenIsNotClosed DEF RanInv
  <2>3. event \in Events /\ Fits(event, tab[t].timer)
    BY DEF Events, Fits
  <2>4. tab' = [tab EXCEPT ![t] = m] /\ UNCHANGED <<stored, saved>>
    BY <1>8 DEF Tick
  <2> HIDE DEF event
  <2>5. RanMachine(m)
    BY <1>1, <2>2, <2>3, RanReduce
  <2> HIDE DEF m
  <2> QED
    BY <1>4, <2>4, <2>5
<1>9. ASSUME NEW t \in Tabs, User(t) PROVE RanInv'
  <2>1. PICK event \in Events : Dispatch(t, event) /\ Fits(event, tab[t].timer) /\ screen[t] # Closed
    BY <1>9, UserDispatches
  <2>2. tab[t] \in Machines /\ Sound(tab[t]) /\ RanMachine(tab[t])
    BY <2>1, OpenMachines, OpenIsNotClosed DEF RanInv
  <2> DEFINE m == Reduce(tab[t], event, nextId, settings[t])
  <2>3. m \in Machines /\ RanMachine(m)
    BY <1>1, <2>1, <2>2, KnownIsSound, ReduceType, RanReduce
  <2>4. CommitMachine(t, m)
    BY <2>1 DEF Dispatch
  <2> HIDE DEF m
  <2> QED
    BY <1>1, <2>3, <2>4, RanCommit
<1> QED
  BY <1>3, <1>5, <1>6, <1>7, <1>8, <1>9 DEF Next

\* A block saved as completed was worked for a whole length that some settings give it,
\* in any number of tabs and however the clock is set.
THEOREM CompletedWorked == Spec => []CompletedRanOut
<1>1. Init => RanInv
  BY DEF Init, RanInv, RanBlock, CompletedRanOut
<1>2. RanInv => CompletedRanOut
  BY DEF RanInv
<1> QED
  BY <1>1, <1>2, RanStep, ScreenAlways, PTL DEF Spec

===============================================================================
