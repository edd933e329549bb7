----------------------------- MODULE MCPlanEntries ------------------------------
(* Values for the runs of PlanEntries: a day of four units, weeks at 7 and 14. *)
EXTENDS PlanEntries, TLC

Timed(date, weekly, start, end) ==
  [date |-> date, allDay |-> FALSE, start |-> start, end |-> end, weekly |-> weekly]

\* On Thursday the 10th, or every Thursday from the 3rd: long, short, touching, past
\* midnight, around the clock; and one all-day entry.
PostedEntries ==
  {Timed(10, FALSE, t[1], t[2]) : t \in {<<0, 3>>, <<0, 1>>, <<2, 3>>, <<1, 2>>, <<3, 1>>}}
  \cup {Timed(3, TRUE, t[1], t[2]) : t \in {<<1, 3>>, <<2, 2>>}}
  \cup {[date |-> 10, allDay |-> TRUE, start |-> NoTime, end |-> NoTime, weekly |-> FALSE]}

Untouched == [date |-> Keep, allDay |-> Keep, start |-> Keep, end |-> Keep, weekly |-> Keep]

\* To all-day, back to timed, a time alone, the flag alone, another date, repeating.
PatchBodies ==
  {[Untouched EXCEPT !.allDay = TRUE, !.start = NoTime, !.end = NoTime],
   [Untouched EXCEPT !.allDay = FALSE, !.start = 1, !.end = 3],
   [Untouched EXCEPT !.start = 2], [Untouched EXCEPT !.allDay = FALSE],
   [Untouched EXCEPT !.date = 14], [Untouched EXCEPT !.weekly = TRUE]}

PlanSymmetry == Permutations(Requests) \cup Permutations(Ids)
===============================================================================
