------------------------------ MODULE TimerScreen ------------------------------
(***************************************************************************)
(* The timer screen of frontend/components/timer/TimerScreen.tsx: a React  *)
(* reducer around the engine, one per open browser tab, over the           *)
(* localStorage keys every tab of the browser shares.                      *)
(*                                                                         *)
(* An event is reduced into tab[t] at once, but it is rendered, persisted  *)
(* and its effects drained only when React commits.  What the user does    *)
(* (clicks, keys) React commits before the next user event; a tick is      *)
(* committed some time later, so clicks, time, other tabs and a closing    *)
(* tab all come in between.  A handler belongs to the last render: it sees *)
(* screen[t], while the event it dispatches is reduced into tab[t].        *)
(***************************************************************************)
EXTENDS TimerEngine, FiniteSets

CONSTANTS
  Tabs,             \* browser tabs that may show the timer
  Guest,            \* TRUE for /guest, FALSE for the signed-in timer
  DefaultSettings,  \* defaultSettings, in force until the fetch resolves
  AccountSettings,  \* the settings GET /settings may answer with
  MaxTime,          \* bound: the wall clock stops here
  MaxStarts,        \* bound: presses of START
  MaxOpens,         \* bound: how often a tab is opened or reloaded
  MaxSegments,      \* bound: intervals of one block
  MaxBackSteps      \* bound: how often the wall clock is set back

ASSUME GuestAssumption    == Guest \in BOOLEAN
ASSUME BoundsAssumption   == {MaxTime, MaxStarts, MaxOpens, MaxSegments, MaxBackSteps} \subseteq Nat

TimerSettings == [duration : [BlockTypes -> Nat], blocksPerCycle : Nat,
                  autoStartBreaks : BOOLEAN, autoStartNext : BOOLEAN]
ASSUME SettingsAssumption == {DefaultSettings} \cup AccountSettings \subseteq TimerSettings

VARIABLES
  now,        \* Date.now()
  backSteps,  \* how often the clock was set back
  starts,     \* presses of START so far
  opens,      \* tabs opened so far
  nextId,     \* the next crypto.randomUUID()
  tab,        \* tab[t]: the reducer's state, or Closed
  screen,     \* screen[t]: the reducer's state at the last commit, or Closed
  settings,   \* settings[t]: what useSettings holds
  stored,     \* the clock and cycle keys of localStorage
  saved,      \* blocks handed to saveBlock, in order
  alerts,     \* alerts fired
  forgotten   \* history: ids of the blocks saved before the last cycle reset

clockVars == <<now, backSteps>>
tabVars   == <<tab, screen, settings>>
vars      == <<now, backSteps, starts, opens, nextId, tab, screen, settings, stored, saved,
               alerts, forgotten>>

Closed  == [timer |-> NoBlock, closed |-> TRUE]
NoCycle == [completed |-> 0, pendingBreak |-> FALSE, absent |-> TRUE]

Unlabelled == [kind |-> "labelSave", label |-> NoLabel]

-------------------------------------------------------------------------------
(* The reducer. *)

SheetAfter(open, event, effects) ==
  /\ open \/ effects.showLabelSheet
  /\ event.kind # "labelSave"

\* The queue of effects that outlive the reducer, emptied by the drain.
Drained == [saves |-> << >>, alerts |-> 0]

ReduceOnce(m, event, id, set) ==
  LET result == Transition(m.timer, event, now, id, set, m.completed, m.pendingBreak)
      cycle  == result.effects.setCycle
  IN  [timer          |-> result.state,
       completed      |-> IF cycle = << >> THEN m.completed ELSE cycle[1].completed,
       pendingBreak   |-> IF cycle = << >> THEN m.pendingBreak ELSE cycle[1].pendingBreak,
       labelSheetOpen |-> SheetAfter(m.labelSheetOpen, event, result.effects),
       pending        |-> [saves  |-> m.pending.saves \o result.effects.saves,
                           alerts |-> m.pending.alerts + result.effects.alerts]]

\* Mutant: the guest's sheet opens like everyone's.
Reduce_GuestSheet(m, event, id, set) == ReduceOnce(m, event, id, set)

\* A guest's sheet is dismissed unseen.
Reduce(m, event, id, set) ==
  LET next == ReduceOnce(m, event, id, set)
  IN  IF Guest /\ next.labelSheetOpen THEN ReduceOnce(next, Unlabelled, id, set) ELSE next

\* Mutant: a reload forgets that the sheet was open.
SheetOnLoad_Never(block) == FALSE

SheetOnLoad(block) == block.phase = "ended" /\ block.type = "focus"

\* The machine a fresh tab builds from localStorage.
InitMachine(id) ==
  LET block   == stored.clock
      machine == [timer          |-> block,
                  completed      |-> IF stored.cycle # NoCycle THEN stored.cycle.completed
                                     ELSE IF block # NoBlock THEN block.focusBlocksCompleted
                                     ELSE 0,
                  pendingBreak   |-> stored.cycle.pendingBreak,
                  labelSheetOpen |-> SheetOnLoad(block),
                  pending        |-> Drained]
  IN  IF Guest /\ machine.labelSheetOpen
      THEN ReduceOnce(machine, Unlabelled, id, DefaultSettings)
      ELSE machine

-------------------------------------------------------------------------------
(* Commit: the two persistence effects and the drain, each run only when   *)
(* what it depends on changed since the last commit.                       *)

Payload(effect) ==
  [id |-> effect.state.id, kind |-> effect.state.type, status |-> effect.state.blockStatus,
   label |-> effect.state.label,
   intervals |-> [i \in DOMAIN effect.state.intervals |->
                    [effect.state.intervals[i] EXCEPT !.endedAt =
                       IF @ = Open THEN effect.endedAt ELSE @]]]

\* A guest's blocks are dropped on purpose.
Payloads(saves) == IF Guest THEN << >> ELSE [i \in DOMAIN saves |-> Payload(saves[i])]

\* crypto.randomUUID() is called by NewBlock alone.
IdAfter(m) == IF m.timer # NoBlock /\ m.timer.id = nextId THEN nextId + 1 ELSE nextId

CycleOf(m) == Cycle(m.completed, m.pendingBreak)

\* Mutant: the clock key is written but never removed.
ClockToStore_NeverRemoved(t, m) == IF m.timer # NoBlock THEN m.timer ELSE stored.clock

ClockToStore(t, m) ==
  IF screen[t] = Closed \/ m.timer # screen[t].timer THEN m.timer ELSE stored.clock

CycleToStore(t, m) ==
  IF screen[t] = Closed \/ CycleOf(m) # CycleOf(screen[t]) THEN CycleOf(m) ELSE stored.cycle

\* The tab's machine is now m: render it, persist it, drain its effects.
CommitMachine(t, m) ==
  LET drained == [m EXCEPT !.pending = Drained]
  IN  /\ tab' = [tab EXCEPT ![t] = drained]
      /\ screen' = [screen EXCEPT ![t] = drained]
      /\ stored' = [clock |-> ClockToStore(t, m), cycle |-> CycleToStore(t, m)]
      /\ saved' = saved \o Payloads(m.pending.saves)
      /\ alerts' = alerts + m.pending.alerts

-------------------------------------------------------------------------------
Init ==
  /\ now = 0
  /\ backSteps = 0
  /\ starts = 0
  /\ opens = 0
  /\ nextId = 1
  /\ tab = [t \in Tabs |-> Closed]
  /\ screen = [t \in Tabs |-> Closed]
  /\ settings = [t \in Tabs |-> DefaultSettings]
  /\ stored = [clock |-> NoBlock, cycle |-> NoCycle]
  /\ saved = << >>
  /\ alerts = 0
  /\ forgotten = {}

-------------------------------------------------------------------------------
(* The life of a tab. *)

\* Navigation to the screen, or a reload: the reducer starts from localStorage.
OpenTab(t) ==
  /\ tab[t] = Closed
  /\ opens < MaxOpens
  /\ opens' = opens + 1
  /\ tab' = [tab EXCEPT ![t] = InitMachine(nextId)]
  /\ settings' = [settings EXCEPT ![t] = DefaultSettings]
  /\ nextId' = IdAfter(tab'[t])
  /\ UNCHANGED <<now, backSteps, starts, screen, stored, saved, alerts, forgotten>>

\* Navigation away, a reload or a crash: what was not committed is gone.
CloseTab(t) ==
  /\ tab[t] # Closed
  /\ tab' = [tab EXCEPT ![t] = Closed]
  /\ screen' = [screen EXCEPT ![t] = Closed]
  /\ UNCHANGED <<now, backSteps, starts, opens, nextId, settings, stored, saved, alerts, forgotten>>

Commit(t) ==
  /\ tab[t] # Closed
  /\ tab[t] # screen[t]
  /\ CommitMachine(t, tab[t])
  /\ UNCHANGED <<now, backSteps, starts, opens, nextId, settings, forgotten>>

\* GET /settings answers, once per mount; a guest never asks.
FetchSettings(t) ==
  /\ ~Guest
  /\ screen[t] # Closed
  /\ settings[t] = DefaultSettings
  /\ \E s \in AccountSettings \ {DefaultSettings} : settings' = [settings EXCEPT ![t] = s]
  /\ CommitMachine(t, tab[t])
  /\ UNCHANGED <<now, backSteps, starts, opens, nextId, forgotten>>

\* The 200 ms interval, installed by a render that shows a running block.
Tick(t) ==
  /\ screen[t].timer.phase = "running"
  /\ tab' = [tab EXCEPT ![t] = Reduce(tab[t], [kind |-> "tick"], nextId, settings[t])]
  /\ tab'[t] # tab[t]
  /\ nextId' = IdAfter(tab'[t])
  /\ UNCHANGED <<now, backSteps, starts, opens, screen, settings, stored, saved, alerts, forgotten>>

-------------------------------------------------------------------------------
(* The user.  Each guard is what the last render offers. *)

CurrentType(t) ==
  IF screen[t].timer # NoBlock THEN screen[t].timer.type
  ELSE IF screen[t].pendingBreak
  THEN NextBreakType(screen[t].completed, settings[t].blocksPerCycle)
  ELSE "focus"

Dispatch(t, event) ==
  /\ CommitMachine(t, Reduce(tab[t], event, nextId, settings[t]))
  /\ nextId' = IdAfter(tab'[t])
  /\ UNCHANGED <<clockVars, opens, settings>>

PressStart(t) ==
  /\ screen[t] # Closed
  /\ screen[t].timer = NoBlock
  /\ starts < MaxStarts
  /\ starts' = starts + 1
  /\ Dispatch(t, [kind |-> "start", type |-> CurrentType(t)])
  /\ UNCHANGED forgotten

PressPause(t) ==
  /\ screen[t].timer.phase = "running"
  /\ Dispatch(t, [kind |-> "pause"])
  /\ UNCHANGED <<starts, forgotten>>

PressResume(t) ==
  /\ screen[t].timer.phase = "paused"
  /\ Len(screen[t].timer.intervals) < MaxSegments
  /\ Dispatch(t, [kind |-> "resume"])
  /\ UNCHANGED <<starts, forgotten>>

PressStop(t) ==
  /\ screen[t].timer.phase \in {"running", "paused"}
  /\ Dispatch(t, [kind |-> "stop"])
  /\ UNCHANGED <<starts, forgotten>>

PressSkipBreak(t) ==
  /\ screen[t] # Closed
  /\ \/ screen[t].timer = NoBlock /\ screen[t].pendingBreak
     \/ screen[t].timer.phase = "running" /\ screen[t].timer.type # "focus"
  /\ Dispatch(t, [kind |-> "skipBreak"])
  /\ UNCHANGED <<starts, forgotten>>

\* SAVE with a label, or SKIP (which is also what closing the sheet does).
DismissSheet(t) ==
  /\ screen[t] # Closed
  /\ screen[t].labelSheetOpen
  /\ \E label \in Labels \cup {NoLabel} :
       Dispatch(t, [kind |-> "labelSave", label |-> label])
  /\ UNCHANGED <<starts, forgotten>>

\* Refused with a notice while a block exists.
PressResetCycle(t) ==
  /\ screen[t] # Closed
  /\ screen[t].timer = NoBlock
  /\ screen[t].completed > 0 \/ screen[t].pendingBreak
  /\ Dispatch(t, [kind |-> "resetCycle"])
  /\ forgotten' = {saved'[i].id : i \in DOMAIN saved'}
  /\ UNCHANGED starts

User(t) ==
  \/ PressStart(t) \/ PressPause(t) \/ PressResume(t) \/ PressStop(t)
  \/ PressSkipBreak(t) \/ DismissSheet(t) \/ PressResetCycle(t)

-------------------------------------------------------------------------------
(* The wall clock. *)

PassTime ==
  /\ now < MaxTime
  /\ now' = now + 1
  /\ UNCHANGED <<backSteps, starts, opens, nextId, tabVars, stored, saved, alerts, forgotten>>

\* The system clock is corrected: Date.now() is not monotone.
SetClockBack ==
  /\ now > 0
  /\ backSteps < MaxBackSteps
  /\ backSteps' = backSteps + 1
  /\ now' = now - 1
  /\ UNCHANGED <<starts, opens, nextId, tabVars, stored, saved, alerts, forgotten>>

Next ==
  \/ PassTime
  \/ SetClockBack
  \/ \E t \in Tabs : \/ OpenTab(t) \/ CloseTab(t) \/ Commit(t) \/ FetchSettings(t)
                     \/ Tick(t) \/ User(t)

Spec == Init /\ [][Next]_vars

\* A visible tab keeps its interval and React keeps rendering; nothing obliges
\* the user, or a closed tab, to do anything.
Fairness == \A t \in Tabs : WF_vars(Tick(t)) /\ WF_vars(Commit(t))

FairSpec == Spec /\ Fairness

-------------------------------------------------------------------------------
(* What the screen promises. *)

Intervals  == [startedAt : Nat, endedAt : Nat \cup {Open}]
Blocks     == [id : Nat, type : BlockTypes, phase : {"running", "paused", "ended"},
               startedAt : Nat, label : Labels \cup {NoLabel}, focusBlocksCompleted : Nat,
               intervals : Seq(Intervals), blockStatus : {"completed", "aborted"},
               targetMs : Nat]
Timers     == Blocks \cup {NoBlock}
Cycles     == [completed : Nat, pendingBreak : BOOLEAN]
SaveEffects == [state : Blocks, endedAt : Nat]
Machines   == [timer : Timers, completed : Nat, pendingBreak : BOOLEAN,
               labelSheetOpen : BOOLEAN,
               pending : [saves : Seq(SaveEffects), alerts : Nat]]
SavedBlocks == [id : Nat, kind : BlockTypes, status : {"completed", "aborted"},
               label : Labels \cup {NoLabel}, intervals : Seq(Intervals)]

\* Every variable holds what the code's types say it holds.
TypeOK ==
  /\ now \in Nat /\ backSteps \in Nat /\ starts \in Nat /\ opens \in Nat /\ nextId \in Nat
  /\ tab \in [Tabs -> Machines \cup {Closed}]
  /\ screen \in [Tabs -> Machines \cup {Closed}]
  /\ settings \in [Tabs -> {DefaultSettings} \cup AccountSettings]
  /\ stored \in [clock : Timers, cycle : Cycles \cup {NoCycle}]
  /\ saved \in Seq(SavedBlocks)
  /\ alerts \in Nat
  /\ forgotten \subseteq Nat

\* Committed: nothing dispatched in the tab is still waiting for React.
Settled(t) == tab[t] # Closed /\ tab[t] = screen[t]

\* The label sheet is up exactly while a focus block has ended and is not yet
\* saved: it never strands an ended block, never covers one that still runs.
\* (reducer's showLabelSheet/labelSave bookkeeping, initMachine's reopening)
SheetIffEnded ==
  \A t \in Tabs : tab[t] # Closed =>
    (tab[t].labelSheetOpen <=> tab[t].timer.phase = "ended" /\ tab[t].timer.type = "focus")

\* A break reaches history unlabelled, though labelSave itself labels whatever
\* block it is given (ADR-002; TimerScreen opens the sheet for focus alone).
BreakCarriesNoLabel ==
  \A i \in DOMAIN saved : saved[i].kind \in BreakTypes => saved[i].label = NoLabel

\* What is saved is closed, in order and without overlap, each interval ending
\* no earlier than it began: pausing, resuming and reloading never bend a block while
\* the clock is not set back.
SegmentsSound(intervals) ==
  /\ intervals # << >>
  /\ \A i \in DOMAIN intervals :
       /\ intervals[i].endedAt # Open
       /\ intervals[i].startedAt <= intervals[i].endedAt
       /\ i > 1 => intervals[i - 1].endedAt <= intervals[i].startedAt
SavedSegmentsSound ==
  backSteps = 0 => \A i \in DOMAIN saved : SegmentsSound(saved[i].intervals)

\* No instant is counted twice: two saved blocks, or a saved one and the one
\* localStorage holds, never overlap - whichever way a block begins and ends, while
\* the clock is not set back.
Ends(iv)        == IF iv.endedAt = Open THEN now ELSE iv.endedAt
Apart(iv1, iv2) == Ends(iv1) <= iv2.startedAt \/ Ends(iv2) <= iv1.startedAt
TimeCountedOnce ==
  LET kept == IF stored.clock = NoBlock THEN << >> ELSE stored.clock.intervals
  IN  backSteps = 0 =>
        \A i \in DOMAIN saved : \A a \in DOMAIN saved[i].intervals :
          /\ \A b \in DOMAIN kept : Apart(saved[i].intervals[a], kept[b])
          /\ \A j \in DOMAIN saved \ {i} : \A b \in DOMAIN saved[j].intervals :
               Apart(saved[i].intervals[a], saved[j].intervals[b])

\* A block is saved as completed only when it was worked for a whole length that some
\* settings give its kind: pauses, reloads, late settings, stops at the last moment and
\* a clock that is set back never cut one short.
Worked(intervals) == FoldSeq(LAMBDA iv, total : total + iv.endedAt - iv.startedAt, 0, intervals)
CompletedRanOut ==
  \A i \in DOMAIN saved : saved[i].status = "completed" =>
    \E s \in {DefaultSettings} \cup AccountSettings :
      Worked(saved[i].intervals) >= s.duration[saved[i].kind]

\* A block is handed to the queue once, whatever reload or late tick intervenes.
SavedOnce == \A i, j \in DOMAIN saved : saved[i].id = saved[j].id => i = j

\* The persisted cycle counts exactly the focus blocks saved since the last
\* reset: "a refresh cannot leave the cycle advanced without its block".
CycleMatchesSaves ==
  stored.cycle.completed =
    Cardinality({saved[i].id : i \in {j \in DOMAIN saved : saved[j].kind = "focus"}} \ forgotten)

\* A reload at any settled moment rebuilds the screen the user was looking at:
\* block, phase, cycle position, owed break and open sheet.
ReloadRestoresScreen == \A t \in Tabs : Settled(t) => InitMachine(nextId) = screen[t]

\* Every block that ends is announced once: those saved, and the one whose
\* sheet is up.  Reloads and repeated ticks neither repeat nor swallow an alert.
OneAlertPerEnding ==
  alerts = Len(saved) + (IF stored.clock.phase = "ended" THEN 1 ELSE 0)

\* A guest is never left with an ended block, on screen or in storage: nobody
\* would be asked for its label, and its cycle would never advance.
GuestNeverStranded ==
  /\ stored.clock.phase # "ended"
  /\ \A t \in Tabs : tab[t] # Closed => tab[t].timer.phase # "ended" /\ ~tab[t].labelSheetOpen

\* The cycle of an open tab moves only with a block that ends in the same step,
\* by one, or back to zero while no block exists.
CycleMovesWithItsBlock ==
  [][\A t \in Tabs : tab[t] # Closed /\ tab'[t] # Closed /\ tab'[t].completed # tab[t].completed =>
       \/ tab'[t].completed = 0 /\ tab[t].timer = NoBlock
       \/ /\ tab'[t].completed = tab[t].completed + 1
          /\ tab[t].timer # NoBlock /\ tab[t].timer.type = "focus"
          /\ tab'[t].timer = NoBlock \/ tab'[t].timer.id # tab[t].timer.id]_vars

\* A block whose time is up is noticed, however late its tick, unless the tab
\* goes away: elapsed time is derived, so no missed tick can lose the ending.
TimeUp(t) == screen[t].timer.phase = "running" /\ Overrun(screen[t].timer, now) >= 0
TimeUpIsNoticed == \A t \in Tabs : TimeUp(t) ~> ~TimeUp(t)
===============================================================================
