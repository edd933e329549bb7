----------------------------- MODULE MCTimerScreen -----------------------------
(* Small instances of TimerScreen for TLC. *)
EXTENDS TimerScreen

Durations == [focus |-> 2, short_break |-> 1, long_break |-> 2]

ManualSettings == [duration |-> Durations, blocksPerCycle |-> 2,
                   autoStartBreaks |-> FALSE, autoStartNext |-> FALSE]
AutoSettings   == [ManualSettings EXCEPT !.autoStartBreaks = TRUE, !.autoStartNext = TRUE]
OnlyAuto       == {AutoSettings}
NoSettings     == {}
===============================================================================
