------------------------------ MODULE TimerEngine ------------------------------
(***************************************************************************)
(* The pure Pomodoro engine of frontend/lib/timer/engine.ts: what a block  *)
(* is, how long it has run, what ends it and which effects an event hands  *)
(* to its caller.  Instants are whole units of time; one unit stands for   *)
(* any number of milliseconds.  No variables: TimerScreen holds the state. *)
(***************************************************************************)
EXTENDS Integers, Sequences, SequencesExt

CONSTANTS
  Labels,   \* what the label sheet can attach (a text and a tag, as one value)
  NoLabel,  \* a block nobody labelled
  Grace     \* AUTO_START_GRACE_MS

ASSUME LabelsAssumption == NoLabel \notin Labels
ASSUME GraceAssumption == Grace \in Nat

BreakTypes == {"short_break", "long_break"}
BlockTypes == {"focus"} \cup BreakTypes

Open == -1     \* endedAt of the interval still running

\* The machine's timer when no block exists (null in the code).
NoBlock == [phase |-> "idle"]

-------------------------------------------------------------------------------
(* Time. *)

\* Mutant: pauses count as work.
Elapsed_NoPauses(startedAt, now, intervals) == now - startedAt

\* Milliseconds of work in a block: pauses are the gaps between intervals.
Elapsed(startedAt, now, intervals) ==
  IF intervals = << >>
  THEN now - startedAt
  ELSE FoldSeq(LAMBDA iv, total :
                 total + (IF iv.endedAt = Open THEN now ELSE iv.endedAt) - iv.startedAt,
               0, intervals)

\* Close the last interval if it is open; a closed one keeps its own end.
CloseBlock(intervals, at) ==
  LET n   == Len(intervals)
      end == IF n # 0 /\ intervals[n].endedAt # Open THEN intervals[n].endedAt ELSE at
  IN  [intervals |-> IF n = 0 THEN intervals ELSE [intervals EXCEPT ![n].endedAt = end],
       endedAt   |-> end]

-------------------------------------------------------------------------------
(* The cycle: which break follows so many focus blocks. *)

EndsCycle(completed, blocksPerCycle) ==
  /\ completed > 0
  /\ completed % (IF blocksPerCycle > 1 THEN blocksPerCycle ELSE 1) = 0

NextBreakType(completed, blocksPerCycle) ==
  IF EndsCycle(completed, blocksPerCycle) THEN "long_break" ELSE "short_break"

NextDuration(type, settings) == settings.duration[type]

-------------------------------------------------------------------------------
(* Effects, as the caller receives them: what to save, how many alerts to   *)
(* fire, whether to open the label sheet, and where the cycle moves, if it   *)
(* does (an empty or one-element sequence).                                  *)

SaveEffect(block, endedAt) == [state |-> block, endedAt |-> endedAt]
Cycle(completed, owed)     == [completed |-> completed, pendingBreak |-> owed]

NoEffects == [saves |-> << >>, alerts |-> 0, showLabelSheet |-> FALSE, setCycle |-> << >>]

SetCycle(completed, owed) == [NoEffects EXCEPT !.setCycle = << Cycle(completed, owed) >>]

\* A focus block ends: the sheet asks for its label and the user is told.
SheetAndAlert == [NoEffects EXCEPT !.showLabelSheet = TRUE, !.alerts = 1]

\* A break ends: it is saved as it stands and the user is told.
SaveAndAlert(save) == [NoEffects EXCEPT !.saves = << save >>, !.alerts = 1]

\* The sheet is dismissed: save and cycle advance land together.
SaveAndAdvance(save, completed, owed) ==
  [SetCycle(completed, owed) EXCEPT !.saves = << save >>]

Result(state, effects) == [state |-> state, effects |-> effects]
Ignored(state)         == Result(state, NoEffects)

-------------------------------------------------------------------------------
(* The state machine: one operator per event. *)

NewBlock(id, type, at, settings, completed) ==
  [id |-> id, type |-> type, phase |-> "running", startedAt |-> at,
   label |-> NoLabel, focusBlocksCompleted |-> completed,
   intervals |-> << [startedAt |-> at, endedAt |-> Open] >>,
   blockStatus |-> "completed", targetMs |-> NextDuration(type, settings)]

\* Both ends of a focus block: the sheet, not this step, owns its save.
PrepareFocusEnd(state, at, status) ==
  [state EXCEPT !.phase = "ended", !.blockStatus = status,
                !.intervals = CloseBlock(@, at).intervals]

OnStart(type, now, id, settings, completed, pendingBreak) ==
  Result(NewBlock(id, type, now, settings, completed),
         IF pendingBreak THEN SetCycle(completed, FALSE) ELSE NoEffects)

\* Mutant: pausing leaves the interval running.
OnPause_StaysOpen(state, now) ==
  IF state.phase # "running" THEN Ignored(state) ELSE Ignored([state EXCEPT !.phase = "paused"])

OnPause(state, now) ==
  IF state.phase # "running" THEN Ignored(state)
  ELSE Ignored([state EXCEPT !.phase = "paused",
                             !.intervals = CloseBlock(@, now).intervals])

OnResume(state, now) ==
  IF state.phase # "paused" THEN Ignored(state)
  ELSE Ignored([state EXCEPT !.phase = "running",
                             !.intervals = Append(@, [startedAt |-> now, endedAt |-> Open])])

\* A focus block waits for its label; a break is saved as it ends.
EndsOnSheet(state) == state.type = "focus"

\* Mutant: STOP moves the cycle before the block is saved.
OnStop_AdvancesCycle(state, now) ==
  IF state.phase \in {"idle", "ended"} THEN Ignored(state)
  ELSE Result(PrepareFocusEnd(state, now, "aborted"),
              [SheetAndAlert EXCEPT !.setCycle = << Cycle(state.focusBlocksCompleted + 1, TRUE) >>])

OnStop(state, now) ==
  IF state.phase \in {"idle", "ended"} THEN Ignored(state)
  ELSE IF EndsOnSheet(state)
  THEN Result(PrepareFocusEnd(state, now, "aborted"), SheetAndAlert)
  ELSE LET closed == CloseBlock(state.intervals, now)
       IN  Result(NoBlock,
                  SaveAndAlert(SaveEffect([state EXCEPT !.phase = "ended",
                                                        !.blockStatus = "aborted",
                                                        !.intervals = closed.intervals],
                                          closed.endedAt)))

\* Mutant: the block is saved but stays in the machine.
OnLabelSave_KeepsBlock(state, label, now, id, settings) ==
  IF state = NoBlock THEN Ignored(NoBlock)
  ELSE LET saved == [state EXCEPT !.label = label]
       IN  Result(saved, SaveAndAdvance(SaveEffect(saved, now), state.focusBlocksCompleted + 1, TRUE))

\* Only a block that ran out goes on to an auto-started break.
OnLabelSave(state, label, now, id, settings) ==
  IF state = NoBlock THEN Ignored(NoBlock)
  ELSE LET closed    == CloseBlock(state.intervals, now)
           save      == SaveEffect([state EXCEPT !.label = label, !.intervals = closed.intervals],
                                   closed.endedAt)
           completed == state.focusBlocksCompleted + 1
           autoBreak == settings.autoStartBreaks /\ state.blockStatus = "completed"
       IN  Result(IF autoBreak
                  THEN NewBlock(id, NextBreakType(completed, settings.blocksPerCycle), now,
                                settings, completed)
                  ELSE NoBlock,
                  SaveAndAdvance(save, completed, ~autoBreak))

\* Mutant: a skipped break counts as a block.
OnSkipBreak_Advances(state, completed, pendingBreak) ==
  IF state = NoBlock /\ pendingBreak
  THEN Result(NoBlock, SetCycle(completed + 1, FALSE))
  ELSE Ignored(state)

OnSkipBreak(state, completed, pendingBreak) ==
  IF state = NoBlock
  THEN Result(NoBlock, IF pendingBreak THEN SetCycle(completed, FALSE) ELSE NoEffects)
  ELSE IF state.type # "focus" /\ state.phase \in {"running", "paused"}
  THEN Result(NoBlock, SetCycle(completed, FALSE))
  ELSE Ignored(state)

OnResetCycle(state) ==
  IF state = NoBlock THEN Result(NoBlock, SetCycle(0, FALSE)) ELSE Ignored(state)

\* Time over target, or a negative number while the block still has time.
Overrun(state, now) == Elapsed(state.startedAt, now, state.intervals) - state.targetMs

\* Mutants: an ended or paused block ends again; time is up one unit late.
TickGate_NotIdle(state)    == state.phase # "idle"
TimeIsUp_OffByOne(overrun) == overrun > 0

TickGate(state)      == state.phase = "running"
TimeIsUp(overrun)    == overrun >= 0
WithinGrace(overrun) == overrun <= Grace

OnTick(state, now, id, settings, completed) ==
  IF ~TickGate(state) THEN Ignored(state)
  ELSE IF ~TimeIsUp(Overrun(state, now)) THEN Ignored(state)
  ELSE IF EndsOnSheet(state)
  THEN Result(PrepareFocusEnd(state, now, "completed"), SheetAndAlert)
  ELSE LET closed    == CloseBlock(state.intervals, now)
           autoFocus == settings.autoStartNext /\ WithinGrace(Overrun(state, now))
       IN  Result(IF autoFocus THEN NewBlock(id, "focus", now, settings, completed) ELSE NoBlock,
                  SaveAndAlert(SaveEffect([state EXCEPT !.intervals = closed.intervals],
                                          closed.endedAt)))

\* `id` is what clock.uuid() would return, should the event need a new block.
Transition(state, event, now, id, settings, completed, pendingBreak) ==
  CASE event.kind = "start"      -> OnStart(event.type, now, id, settings, completed, pendingBreak)
    [] event.kind = "pause"      -> OnPause(state, now)
    [] event.kind = "resume"     -> OnResume(state, now)
    [] event.kind = "stop"       -> OnStop(state, now)
    [] event.kind = "labelSave"  -> OnLabelSave(state, event.label, now, id, settings)
    [] event.kind = "skipBreak"  -> OnSkipBreak(state, completed, pendingBreak)
    [] event.kind = "resetCycle" -> OnResetCycle(state)
    [] event.kind = "tick"       -> OnTick(state, now, id, settings, completed)
===============================================================================
