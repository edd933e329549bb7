------------------------------ MODULE PlanEntries -------------------------------
(***************************************************************************)
(* The entries of backend/app/plan and the requests that write them, with  *)
(* the week and day views they are shown in.                               *)
(*                                                                         *)
(* As in BlockRecords a request is a transaction under READ COMMITTED that *)
(* writes, at commit, the columns it changed.  The tag of an entry and its *)
(* check are those of BlockRecords; here a refused tag is one more way for *)
(* a request to fail.  The name carries no rule and is left out.           *)
(***************************************************************************)
EXTENDS PlanLayout

CONSTANTS
  Requests,  \* requests the server handles at a time
  Ids,       \* entry ids, generated by the server
  NoEntry,
  Bodies,    \* entries a client posts
  Edits,     \* PATCH bodies
  Keep,      \* a field that is not in the body
  Weeks,     \* Mondays of the weeks looked at
  MaxEdits   \* bound: PATCH requests

Entries == [date : Nat, allDay : BOOLEAN, start : Times \cup {NoTime}, end : Times \cup {NoTime},
            weekly : BOOLEAN]
EditBodies == [date : Nat \cup {Keep}, allDay : BOOLEAN \cup {Keep},
               start : Times \cup {NoTime, Keep}, end : Times \cup {NoTime, Keep},
               weekly : BOOLEAN \cup {Keep}]

ASSUME InputsAssumption == /\ Bodies \subseteq Entries /\ Edits \subseteq EditBodies
                           /\ Keep \notin Nat \cup {NoTime} \cup BOOLEAN
                           /\ NoEntry \notin Entries
                           /\ Weeks \subseteq Nat /\ MaxEdits \in Nat

VARIABLES
  entries,  \* the entry table
  req,      \* req[r]: the transaction of request r
  used,     \* ids given out: uuid4 never repeats one
  edits,    \* PATCH requests so far
  raced     \* history: entries an edit wrote after another had written since it read

vars == <<entries, req, used, edits, raced>>

Idle == [pc |-> "idle"]

Stored == {id \in Ids : entries[id] # NoEntry}

Finish(r) == req' = [req EXCEPT ![r] = Idle]

\* A write of the entry is committed: other requests hold what it was before.
Committed(r, id) ==
  req' = [other \in Requests |->
            IF other = r THEN Idle
            ELSE IF req[other].pc = "saving" /\ req[other].id = id
                 THEN [req[other] EXCEPT !.fresh = FALSE]
                 ELSE req[other]]

\* _validate_times.
TimesValid(allDay, start, end) ==
  IF allDay THEN start = NoTime /\ end = NoTime ELSE start # NoTime /\ end # NoTime

-------------------------------------------------------------------------------
Init ==
  /\ entries = [id \in Ids |-> NoEntry]
  /\ req = [r \in Requests |-> Idle]
  /\ used = {}
  /\ edits = 0
  /\ raced = {}

\* POST /plan/entries: nothing is read but the tag, so the request is one step.
Create(id, body) ==
  /\ id \notin used
  /\ TimesValid(body.allDay, body.start, body.end)
  /\ entries' = [entries EXCEPT ![id] = body]
  /\ used' = used \cup {id}
  /\ UNCHANGED <<req, edits, raced>>

Given(value, read) == IF value = Keep THEN read ELSE value

NamesTimes(edit) == edit.allDay # Keep \/ edit.start # Keep \/ edit.end # Keep

\* PATCH: the row is read and, when the body names a time or the all-day flag, the
\* entry as it would then be is validated ...
BeginEdit(r, id, edit) ==
  /\ req[r].pc = "idle"
  /\ id \in Stored
  /\ edits < MaxEdits
  /\ edits' = edits + 1
  /\ NamesTimes(edit) => TimesValid(Given(edit.allDay, entries[id].allDay),
                                    Given(edit.start, entries[id].start),
                                    Given(edit.end, entries[id].end))
  /\ req' = [req EXCEPT ![r] = [pc |-> "saving", id |-> id, edit |-> edit, row |-> entries[id],
                                fresh |-> TRUE]]
  /\ UNCHANGED <<entries, used, raced>>

\* A column is written when the body names it with another value than was read.
Merge(current, read, value) == IF value = Keep \/ value = read THEN current ELSE value

Merged(current, read, edit) ==
  [f \in DOMAIN current |-> Merge(current[f], read[f], edit[f])]

\* ... and the changed columns are written.  An UPDATE that finds no row fails.
CommitEdit(r) ==
  /\ req[r].pc = "saving"
  /\ LET id     == req[r].id
         read   == req[r].row
         edit   == req[r].edit
         writes == \E f \in DOMAIN read : edit[f] \notin {Keep, read[f]}
     IN  IF writes /\ id \in Stored
         THEN /\ entries' = [entries EXCEPT ![id] = Merged(@, read, edit)]
              /\ raced' = IF req[r].fresh THEN raced ELSE raced \cup {id}
              /\ Committed(r, id)
         ELSE Finish(r) /\ UNCHANGED <<entries, raced>>
  /\ UNCHANGED <<used, edits>>

\* DELETE /plan/entries/{entry_id}.  Its look-up decides nothing but the answer.
Delete(id) ==
  /\ id \in Stored
  /\ entries' = [entries EXCEPT ![id] = NoEntry]
  /\ UNCHANGED <<req, used, edits, raced>>

\* A refused tag, a crash, or a client that went away.
Rollback(r) ==
  /\ req[r].pc # "idle"
  /\ Finish(r)
  /\ UNCHANGED <<entries, used, edits, raced>>

Next ==
  \/ \E id \in Ids : \/ \E body \in Bodies : Create(id, body)
                     \/ Delete(id)
                     \/ \E r \in Requests, edit \in Edits : BeginEdit(r, id, edit)
  \/ \E r \in Requests : CommitEdit(r) \/ Rollback(r)

Spec == Init /\ [][Next]_vars

-------------------------------------------------------------------------------
(* What the plan promises. *)

\* GET /plan/entries?from&to, as the pairs of an entry and a date.
Occurrences(from, to) ==
  UNION {{[id |-> id, date |-> d] : d \in OccurrenceDates(entries[id], from, to)} : id \in Stored}

\* What the day timeline lays out: DayView's timed occurrences.
TimedOn(date) ==
  {[id |-> o.id, start |-> entries[o.id].start, end |-> entries[o.id].end] :
     o \in {o \in Occurrences(date, date) : ~entries[o.id].allDay}}

\* A stored entry is all-day without times or timed with both, whatever requests
\* run concurrently, unless two edits of it overlapped.
TimesMatchKind ==
  \A id \in Stored \ raced : LET e == entries[id]
                            IN  e.allDay = (e.start = NoTime) /\ e.allDay = (e.end = NoTime)

FallsOn(entry, d) ==
  \/ d = entry.date
  \/ entry.weekly /\ d > entry.date /\ (d - entry.date) % 7 = 0

\* An entry shows on its date and, if it repeats, on that weekday of every later week,
\* and the day and week screens and longer ranges agree on it.
ShowsOnItsDays ==
  \A monday \in Weeks : \A from \in monday .. monday + 6 : \A to \in {from, from + 6, from + 13} :
    Occurrences(from, to) = {o \in [id : Stored, date : from .. to] : FallsOn(entries[o.id], o.date)}

Overlap(a, b) == StartOf(a) < EndOf(b) /\ StartOf(b) < EndOf(a)

\* The days that can be drawn: timelineLanes relies on both times of a timed entry, and
\* four edits of one entry, overlapping two by two, can leave it with one.
DaysDrawn == {d \in UNION {monday .. monday + 6 : monday \in Weeks} :
                \A o \in TimedOn(d) : {o.start, o.end} \subseteq Times}

\* Overlapping entries are drawn side by side: in lanes of one width, and not the same.
LanesApart ==
  \A d \in DaysDrawn : LET laid == TimelineLanes(TimedOn(d))
                  IN  /\ {p.occ : p \in laid} = TimedOn(d)
                      /\ \A p, q \in laid : p.occ # q.occ /\ Overlap(p.occ, q.occ) =>
                           p.lanes = q.lanes /\ p.lane # q.lane

\* No lane is wasted: an entry is narrowed to one of n lanes only if, among the
\* entries drawn at that width, some n overlap at one moment.
LanesNeeded ==
  \A d \in DaysDrawn : LET laid == TimelineLanes(TimedOn(d))
                  IN  \A p \in laid : \E q \in laid :
                        Cardinality({o \in laid : o.lanes = p.lanes /\ StartOf(o.occ) <= StartOf(q.occ)
                                                  /\ StartOf(q.occ) < EndOf(o.occ)}) >= p.lanes

\* The rail reaches over every entry, past midnight if need be: none is clamped.
RailReaches ==
  \A d \in DaysDrawn : \A o \in TimedOn(d) :
    RailFor(TimedOn(d)).from <= StartOf(o) /\ EndOf(o) <= RailFor(TimedOn(d)).to

\* The day timeline can be read: overlapping entries stand side by side, none is
\* narrower than the entries beside it require, and none is cut off.
TimelineReadable == LanesApart /\ LanesNeeded /\ RailReaches
===============================================================================
