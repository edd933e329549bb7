-------------------------------- MODULE TimerTitle -------------------------------
(***************************************************************************)
(* The title of a browser tab: the timer's time while a block runs or is   *)
(* paused, an alert for a few seconds when one ends, the app's name on     *)
(* every other page.  Three writers that do not know of each other share   *)
(* document.title: TimerScreen's title effect, its clean-up, and the alert *)
(* of lib/alerts/runtime.ts with the time-out that takes it back, which    *)
(* outlives the screen.                                                    *)
(*                                                                         *)
(* A time in the title is reduced to the phase it is shown for.  Sound and *)
(* notifications are left out: nothing reads them back.                    *)
(***************************************************************************)
EXTENDS TimerScreen

CONSTANT FlashTime   \* TITLE_FLASH_MS
ASSUME FlashAssumption == FlashTime \in Nat \ {0}

VARIABLES
  title,        \* title[t]: document.title
  flashUntil,   \* flashUntil[t]: titleFlashUntil of the mounted screen
  restores      \* restores[t]: alerts whose time-out has not fired

titleVars == <<title, flashUntil, restores>>
allVars   == <<vars, titleVars>>

AppTitle == "ClockLog"
Alert    == "alert"
Live     == {"running", "paused"}

TabTitle(m) == IF m.timer.phase \in Live THEN m.timer.phase ELSE AppTitle

TitleInit ==
  /\ Init
  /\ title = [t \in Tabs |-> AppTitle]
  /\ flashUntil = [t \in Tabs |-> 0]
  /\ restores = [t \in Tabs |-> {}]

-------------------------------------------------------------------------------
(* A step of the timer. *)

Mounts(t)   == tab[t] = Closed /\ tab'[t] # Closed
Unmounts(t) == tab[t] # Closed /\ tab'[t] = Closed
Fires(t)    == alerts' # alerts /\ screen'[t] # screen[t]

\* The title effect runs after the drain of the same commit, if the title changed.
Retitles(t) ==
  /\ screen'[t] # Closed
  /\ screen[t] = Closed \/ TabTitle(screen'[t]) # TabTitle(screen[t])
  /\ now >= flashUntil[t]

\* Mutant: the alert hands back the title it replaced, a time that may be over by then.
TitleToRestore_Live(t) == IF title[t] = Alert THEN AppTitle ELSE title[t]

\* alertBlockEnd has it hand back the plain name.
TitleToRestore(t) == AppTitle

TitleAfter(t) ==
  IF Fires(t) THEN Alert
  ELSE IF Unmounts(t) THEN AppTitle
  ELSE IF Retitles(t) THEN TabTitle(screen'[t])
  ELSE title[t]

\* The time-outs count time that passes, whatever the wall clock is set to.
Waited(r) == IF now' > now /\ r.left > 0 THEN [r EXCEPT !.left = @ - 1] ELSE r

RestoresAfter(t) ==
  {Waited(r) : r \in restores[t]}
    \cup (IF Fires(t) THEN {[started |-> now, left |-> FlashTime, previous |-> TitleToRestore(t)]} ELSE {})

\* A reload drops what the page was waiting for, navigation within the app does not.
TimerStep ==
  /\ Next
  /\ title' = [t \in Tabs |-> TitleAfter(t)]
  /\ flashUntil' = [t \in Tabs |-> IF Fires(t) THEN now + FlashTime
                                   ELSE IF Mounts(t) THEN 0 ELSE flashUntil[t]]
  /\ \E reloads \in SUBSET {t \in Tabs : Unmounts(t)} :
       restores' = [t \in Tabs |-> IF t \in reloads THEN {} ELSE RestoresAfter(t)]

-------------------------------------------------------------------------------
\* A tick that changes nothing but the time shown.
Redraw(t) ==
  /\ screen[t].timer.phase = "running"
  /\ now >= flashUntil[t]
  /\ title[t] # "running"
  /\ title' = [title EXCEPT ![t] = "running"]
  /\ UNCHANGED <<vars, flashUntil, restores>>

\* The time-out looks at the wall clock once more before it takes the alert back.
Restore(t, r) ==
  /\ r.left = 0
  /\ title' = [title EXCEPT ![t] = IF now - r.started >= FlashTime THEN r.previous ELSE @]
  /\ restores' = [restores EXCEPT ![t] = @ \ {r}]
  /\ UNCHANGED <<vars, flashUntil>>

TitleNext ==
  \/ TimerStep
  \/ \E t \in Tabs : Redraw(t) \/ \E r \in restores[t] : Restore(t, r)

TitleSpec == TitleInit /\ [][TitleNext]_allVars

FairTitleSpec == TitleSpec /\ Fairness

-------------------------------------------------------------------------------
\* The tab never shows a frozen time: a time in its title is that of the block on its
\* screen, in the phase it is in, and none is left when the screen is.  An alert is
\* taken back, whatever the user did under it.  All this while the clock is not set
\* back: set behind titleFlashUntil it holds the title effect off once more.
\* (The converse does not hold: a block paused under an alert keeps the app's name.)
TitleNeverFrozen ==
  backSteps = 0 =>
    \A t \in Tabs :
      /\ title[t] \in Live => screen[t] # Closed /\ title[t] = TabTitle(screen[t])
      /\ title[t] = Alert => restores[t] # {}
===============================================================================
