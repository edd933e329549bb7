------------------------------ MODULE MCTimerTitle ------------------------------
(* Values for the run of the timer with its title. *)
EXTENDS TimerTitle, MCTimerScreen
=====
