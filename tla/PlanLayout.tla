------------------------------- MODULE PlanLayout -------------------------------
(***************************************************************************)
(* The pure part of the plan's views: which dates an entry falls on        *)
(* (backend/app/plan/service.py), and where the entries of one day are     *)
(* drawn (frontend/lib/plan/layout.ts).                                    *)
(*                                                                         *)
(* A date is a number of days, a time of day a number below DayLength.     *)
(***************************************************************************)
EXTENDS Integers, Sequences, FiniteSets, SequencesExt

CONSTANTS
  DayLength,   \* 24 hours
  RailStart,   \* DEFAULT_RAIL
  RailLength,
  NoTime       \* a time that is null

ASSUME DayAssumption == /\ DayLength \in Nat \ {0}
                        /\ {RailStart, RailLength} \subseteq 0 .. DayLength
                        /\ RailStart + RailLength <= DayLength

Times == 0 .. DayLength - 1

ASSUME NoTimeAssumption == NoTime \notin Times

-------------------------------------------------------------------------------
(* Occurrences of an entry. *)

\* The dates of a weekly entry after its anchor, in steps of seven days.
Repeats(entry, to) ==
  IF entry.weekly THEN {entry.date + 7 * k : k \in 1 .. (to - entry.date) \div 7} ELSE {}

\* Mutant: the query reads only the entries dated in the range.
OccurrenceDates_InRange(entry, from, to) ==
  IF entry.date < from \/ entry.date > to THEN {}
  ELSE {d \in {entry.date} \cup Repeats(entry, to) : d >= from}

\* list_occurrences: the query keeps entries dated in the range and earlier
\* repeaters, the loop emits the anchor and the repeats that fall in the range.
OccurrenceDates(entry, from, to) ==
  IF entry.date > to \/ ~(entry.weekly \/ entry.date >= from) THEN {}
  ELSE {d \in {entry.date} \cup Repeats(entry, to) : d >= from}

-------------------------------------------------------------------------------
(* The day timeline. *)

\* minutesBetween: an end not after its start is on the next day.
MinutesBetween(start, end) == IF end > start THEN end - start ELSE end - start + DayLength

StartOf(occ) == occ.start
EndOf(occ)   == occ.start + MinutesBetween(occ.start, occ.end)

\* railFor: the default window, stretched over every timed entry.
RailFor(timed) ==
  LET starts == {RailStart} \cup {StartOf(o) : o \in timed}
      ends   == {RailStart + RailLength} \cup {EndOf(o) : o \in timed}
  IN  [from |-> CHOOSE s \in starts : \A t \in starts : s <= t,
       to   |-> CHOOSE e \in ends : \A t \in ends : e >= t]

\* Pass 1: a new cluster starts at an entry that begins at or after the end of
\* the running one.  The running cluster is the last of the list.
\* Mutant: the running end is that of the last entry, not the latest.
AddToClusters_LastEnd(clusters, occ) ==
  IF clusters = << >> \/ Last(clusters).end <= StartOf(occ)
  THEN Append(clusters, [items |-> <<occ>>, end |-> EndOf(occ)])
  ELSE Append(Front(clusters), [items |-> Append(Last(clusters).items, occ), end |-> EndOf(occ)])

AddToClusters(clusters, occ) ==
  IF clusters = << >> \/ Last(clusters).end <= StartOf(occ)
  THEN Append(clusters, [items |-> <<occ>>, end |-> EndOf(occ)])
  ELSE Append(Front(clusters),
              [items |-> Append(Last(clusters).items, occ),
               end   |-> IF EndOf(occ) > Last(clusters).end THEN EndOf(occ) ELSE Last(clusters).end])

\* laneEnds.findIndex: the leftmost lane that has ended, or a new one.
FreeLane(laneEnds, occ) ==
  LET free == {i \in DOMAIN laneEnds : laneEnds[i] <= StartOf(occ)}
  IN  IF free = {} THEN Len(laneEnds) + 1 ELSE CHOOSE i \in free : \A j \in free : i <= j

\* Pass 2, one entry: `ends` are the lanes' ends, `placed` the entries so far.
Place(layout, occ) ==
  LET lane == FreeLane(layout.ends, occ)
  IN  [ends   |-> IF lane > Len(layout.ends) THEN Append(layout.ends, EndOf(occ))
                  ELSE [layout.ends EXCEPT ![lane] = EndOf(occ)],
       placed |-> layout.placed \cup {[occ |-> occ, lane |-> lane]}]

LaidOut(cluster) ==
  LET layout == FoldLeft(Place, [ends |-> << >>, placed |-> {}], cluster.items)
  IN  {[occ |-> p.occ, lane |-> p.lane, lanes |-> Len(layout.ends)] : p \in layout.placed}

\* The sort by start leaves entries that start together in any order.
ByStart(timed) ==
  CHOOSE seq \in SetToSeqs(timed) :
    \A i, j \in DOMAIN seq : i < j => StartOf(seq[i]) <= StartOf(seq[j])

\* timelineLanes: entries by start, clustered, each cluster with its own lanes.
TimelineLanes(timed) ==
  LET clusters == FoldLeft(AddToClusters, << >>, ByStart(timed))
  IN  UNION {LaidOut(clusters[i]) : i \in DOMAIN clusters}
===============================================================================
