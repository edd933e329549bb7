---------------------------- MODULE MCHistoryScreen -----------------------------
(* Values for the run of HistoryScreen: days of two units, weeks of two days. *)
EXTENDS HistoryScreen, TLC

CONSTANTS a, t1, t2

ThreeDays == 0 .. 2

\* A focus block that spans the midnight between the two days of the first week.
RecordedBlocks == a :> [start |-> 1, end |-> 2, focus |-> TRUE, tag |-> t1]
===============================================================================
