------------------------------ MODULE Plan_proofs -------------------------------
(***************************************************************************)
(* Theorems about the plan: PlanEntries first, for every set of requests,  *)
(* ids, entries and edits and every week looked at, then PlanScreen, for   *)
(* every range of days, all entries and every bound.                       *)
(***************************************************************************)
EXTENDS PlanEntries, PlanScreen, FiniteSetTheorems, TLAPS

Savings == [pc : {"saving"}, id : Ids, edit : Edits, row : Entries, fresh : BOOLEAN]

\* Every variable of the plan keeps its type.
TypeOK ==
  /\ entries \in [Ids -> Entries \cup {NoEntry}]
  /\ req \in [Requests -> {Idle} \cup Savings]
  /\ used \subseteq Ids /\ edits \in Nat /\ raced \subseteq Ids

-------------------------------------------------------------------------------
(* The inductive invariant. *)

\* An entry as the validation accepts it.
Consistent(e) == TimesValid(e.allDay, e.start, e.end)

\* The entry an edit would make of what it has read.
Intended(row, edit) ==
  [f \in {"allDay", "start", "end"} |-> Given(edit[f], row[f])]

StoredConsistent == \A id \in Stored : id \notin raced => Consistent(entries[id])

\* An edit that no other has overtaken holds the entry as it is, and was validated on it.
EditRelates(q) ==
  q.pc = "saving" =>
    /\ NamesTimes(q.edit) => Consistent(Intended(q.row, q.edit))
    /\ q.fresh /\ q.id \in Stored => entries[q.id] = q.row
    /\ q.id \in used

EditsRelate == \A r \in Requests : EditRelates(req[r])

\* An id is given out once.
IdsUsed == Stored \subseteq used

EntriesInv == TypeOK /\ StoredConsistent /\ EditsRelate /\ IdsUsed

-------------------------------------------------------------------------------
(* Entries. *)

LEMMA StoredEntry ==
  ASSUME TypeOK, NEW id \in Stored
  PROVE  id \in Ids /\ entries[id] \in Entries
BY DEF TypeOK, Stored

LEMMA EntryFields ==
  ASSUME NEW e \in Entries
  PROVE  DOMAIN e = {"date", "allDay", "start", "end", "weekly"}
BY DEF Entries

\* The row an UPDATE leaves is an entry again.
LEMMA MergedIsEntry ==
  ASSUME NEW now \in Entries, NEW read \in Entries, NEW edit \in Edits
  PROVE  Merged(now, read, edit) \in Entries
<1> DEFINE new == Merged(now, read, edit)
<1>1. edit \in EditBodies
  BY InputsAssumption
<1>2. DOMAIN new = {"date", "allDay", "start", "end", "weekly"}
  BY EntryFields DEF Merged
<1>3. \A f \in DOMAIN new : new[f] = Merge(now[f], read[f], edit[f])
  BY DEF Merged
<1>4. /\ new.date \in Nat /\ new.allDay \in BOOLEAN /\ new.weekly \in BOOLEAN
      /\ new.start \in Times \cup {NoTime} /\ new.end \in Times \cup {NoTime}
  BY <1>1, <1>2, <1>3 DEF Merge, Entries, EditBodies
<1>5. new = [date |-> new.date, allDay |-> new.allDay, start |-> new.start, end |-> new.end,
             weekly |-> new.weekly]
  BY <1>2 DEF Merged
<1> HIDE DEF new
<1>6. new \in Entries
  BY <1>4, <1>5 DEF Entries
<1> QED
  BY <1>6 DEF new

\* With nobody in between, the row is what the validation looked at.
LEMMA MergedIsIntended ==
  ASSUME NEW row \in Entries, NEW edit \in Edits
  PROVE  LET new == Merged(row, row, edit)
         IN  /\ new.allDay = Given(edit.allDay, row.allDay)
             /\ new.start = Given(edit.start, row.start)
             /\ new.end = Given(edit.end, row.end)
<1>1. DOMAIN row = {"date", "allDay", "start", "end", "weekly"}
  BY EntryFields
<1> QED
  BY <1>1 DEF Merged, Merge, Given

LEMMA MergedConsistent ==
  ASSUME NEW row \in Entries, NEW edit \in Edits, Consistent(row),
         NamesTimes(edit) => Consistent(Intended(row, edit))
  PROVE  Consistent(Merged(row, row, edit))
<1> DEFINE new == Merged(row, row, edit)
<1>1. /\ new.allDay = Given(edit.allDay, row.allDay)
      /\ new.start = Given(edit.start, row.start)
      /\ new.end = Given(edit.end, row.end)
  BY MergedIsIntended
<1> HIDE DEF new
<1>2. CASE NamesTimes(edit)
  BY <1>1, <1>2 DEF Consistent, Intended, new
<1>3. CASE ~NamesTimes(edit)
  BY <1>1, <1>3 DEF Consistent, NamesTimes, Given, new
<1> QED
  BY <1>2, <1>3

-------------------------------------------------------------------------------
(* Steps. *)

LEMMA CreateStep ==
  ASSUME EntriesInv, NEW id \in Ids, NEW body \in Bodies, Create(id, body)
  PROVE  EntriesInv'
<1> USE DEF EntriesInv
<1>1. /\ id \notin used /\ body \in Entries /\ Consistent(body)
      /\ used' = used \cup {id} /\ UNCHANGED <<req, edits, raced>>
      /\ \A i \in Ids : entries'[i] = IF i = id THEN body ELSE entries[i]
      /\ entries' \in [Ids -> Entries \cup {NoEntry}]
  BY InputsAssumption DEF Create, Consistent, TypeOK
<1>2. Stored' = Stored \cup {id} /\ id \notin Stored
  BY <1>1, InputsAssumption DEF Stored, IdsUsed
<1>3. TypeOK'
  BY <1>1 DEF TypeOK
<1>4. StoredConsistent'
  BY <1>1, <1>2 DEF StoredConsistent, Stored
<1>5. EditsRelate'
  BY <1>1, <1>2 DEF EditsRelate, EditRelates, Stored
<1>6. IdsUsed'
  BY <1>1, <1>2 DEF IdsUsed
<1> QED
  BY <1>3, <1>4, <1>5, <1>6

LEMMA OneMovesOn ==
  ASSUME EntriesInv, NEW r \in Requests, NEW next \in {Idle} \cup Savings, EditRelates(next),
         req' = [req EXCEPT ![r] = next], UNCHANGED <<entries, used, raced>>, edits' \in Nat
  PROVE  EntriesInv'
<1> USE DEF EntriesInv
<1>1. \A p \in Requests : req'[p] = IF p = r THEN next ELSE req[p]
  BY DEF TypeOK
<1>2. TypeOK' /\ StoredConsistent' /\ IdsUsed'
  BY DEF TypeOK, StoredConsistent, IdsUsed, Stored
<1>3. EditsRelate'
  <2> SUFFICES ASSUME NEW p \in Requests PROVE EditRelates(req[p])'
    BY DEF EditsRelate
  <2>1. EditRelates(req'[p])
    BY <1>1 DEF EditsRelate
  <2> QED
    BY <2>1 DEF EditRelates, Stored
<1> QED
  BY <1>2, <1>3

LEMMA FinishStep ==
  ASSUME EntriesInv, NEW r \in Requests, Finish(r), UNCHANGED <<entries, used, edits, raced>>
  PROVE  EntriesInv'
<1>1. EditRelates(Idle)
  BY DEF EditRelates, Idle
<1> QED
  BY <1>1, OneMovesOn DEF Finish, EntriesInv, TypeOK

LEMMA BeginEditStep ==
  ASSUME EntriesInv, NEW r \in Requests, NEW id \in Ids, NEW edit \in Edits, BeginEdit(r, id, edit)
  PROVE  EntriesInv'
<1> DEFINE row  == entries[id]
           next == [pc |-> "saving", id |-> id, edit |-> edit, row |-> row, fresh |-> TRUE]
<1>1. id \in Stored /\ row \in Entries
  BY StoredEntry DEF BeginEdit, EntriesInv
<1>2. NamesTimes(edit) => Consistent(Intended(row, edit))
  BY DEF BeginEdit, Consistent, Intended
<1>3. next \in Savings /\ EditRelates(next)
  BY <1>1, <1>2 DEF Savings, EditRelates, EntriesInv, IdsUsed
<1>4. req' = [req EXCEPT ![r] = next] /\ UNCHANGED <<entries, used, raced>> /\ edits' \in Nat
  BY DEF BeginEdit, EntriesInv, TypeOK
<1> HIDE DEF next
<1> QED
  BY <1>3, <1>4, OneMovesOn

LEMMA CommitEditStep ==
  ASSUME EntriesInv, NEW r \in Requests, CommitEdit(r)
  PROVE  EntriesInv'
<1> DEFINE q   == req[r]
           new == Merged(entries[q.id], q.row, q.edit)
<1>1. CASE Finish(r) /\ UNCHANGED <<entries, used, edits, raced>>
  BY <1>1, FinishStep
<1>2. ASSUME q.id \in Stored, entries' = [entries EXCEPT ![q.id] = Merged(@, q.row, q.edit)],
             raced' = IF q.fresh THEN raced ELSE raced \cup {q.id},
             Committed(r, q.id), UNCHANGED <<used, edits>>
      PROVE  EntriesInv'
  <2> USE DEF EntriesInv
  <2>1. q \in Savings /\ EditRelates(q)
    BY DEF CommitEdit, TypeOK, Idle, EditsRelate
  <2>2. q.id \in Ids /\ q.edit \in Edits /\ q.row \in Entries /\ q.fresh \in BOOLEAN /\ entries[q.id] \in Entries
    BY <1>2, <2>1, StoredEntry DEF Savings
  <2>3. new \in Entries
    BY <2>2, MergedIsEntry
  <2>4. /\ \A i \in Ids : entries'[i] = IF i = q.id THEN new ELSE entries[i]
        /\ entries' \in [Ids -> Entries \cup {NoEntry}]
    BY <1>2, <2>2, <2>3 DEF TypeOK
  <2>5. q.id \notin raced' => Consistent(new)
    <3> SUFFICES ASSUME q.fresh, q.id \notin raced PROVE Consistent(new)
      BY <1>2, <2>2
    <3>1. entries[q.id] = q.row /\ Consistent(q.row)
      BY <1>2, <2>1 DEF EditRelates, StoredConsistent, Savings
    <3>2. NamesTimes(q.edit) => Consistent(Intended(q.row, q.edit))
      BY <2>1 DEF EditRelates, Savings
    <3> QED
      BY <2>2, <3>1, <3>2, MergedConsistent
  <2> HIDE DEF new
  <2>6. Stored' = Stored
    BY <1>2, <2>3, <2>4, InputsAssumption DEF Stored
  <2>7. StoredConsistent'
    BY <1>2, <2>4, <2>5, <2>6 DEF StoredConsistent, Stored
  <2>8. \A p \in Requests : \/ req'[p] = Idle
                            \/ req'[p] = req[p] /\ (req[p].pc = "saving" => req[p].id # q.id)
                            \/ /\ req[p] \in Savings
                               /\ req'[p] = [req[p] EXCEPT !.fresh = FALSE]
    BY <1>2 DEF Committed, TypeOK, Idle
  <2>9. TypeOK'
    <3>1. \A p \in Requests : req'[p] \in {Idle} \cup Savings
      BY <2>8 DEF TypeOK, Savings
    <3>2. req' \in [Requests -> {Idle} \cup Savings]
      BY <1>2, <3>1 DEF Committed
    <3> QED
      BY <1>2, <2>2, <2>4, <3>2 DEF TypeOK
  <2>10. EditsRelate'
    <3> SUFFICES ASSUME NEW p \in Requests PROVE EditRelates(req[p])'
      BY DEF EditsRelate
    <3>1. EditRelates(req[p]) /\ (req[p].pc = "saving" => req[p].id \in Ids)
      BY DEF EditsRelate, TypeOK, Idle, Savings
    <3>2. CASE req'[p] = Idle
      BY <3>2 DEF EditRelates, Idle
    <3>3. CASE req'[p] = req[p] /\ (req[p].pc = "saving" => req[p].id # q.id)
      BY <1>2, <2>4, <2>6, <3>1, <3>3 DEF EditRelates
    <3>4. CASE req[p] \in Savings /\ req'[p] = [req[p] EXCEPT !.fresh = FALSE]
      <4>1. /\ req'[p].pc = "saving" /\ req'[p].edit = req[p].edit /\ req'[p].row = req[p].row
            /\ req'[p].id = req[p].id /\ req'[p].fresh = FALSE /\ req[p].pc = "saving"
        BY <3>4 DEF Savings
      <4> QED
        BY <1>2, <3>1, <4>1 DEF EditRelates
    <3> QED
      BY <2>8, <3>2, <3>3, <3>4
  <2>11. IdsUsed'
    BY <1>2, <2>6 DEF IdsUsed
  <2> QED
    BY <2>7, <2>9, <2>10, <2>11
<1> QED
  BY <1>1, <1>2 DEF CommitEdit

LEMMA DeleteStep ==
  ASSUME EntriesInv, NEW id \in Ids, Delete(id)
  PROVE  EntriesInv'
<1> USE DEF EntriesInv
<1>1. /\ \A i \in Ids : entries'[i] = IF i = id THEN NoEntry ELSE entries[i]
      /\ entries' \in [Ids -> Entries \cup {NoEntry}] /\ UNCHANGED <<req, used, edits, raced>>
  BY DEF Delete, TypeOK
<1>2. Stored' \subseteq Stored /\ \A i \in Stored' : entries'[i] = entries[i]
  BY <1>1 DEF Stored
<1> QED
  BY <1>1, <1>2 DEF TypeOK, StoredConsistent, EditsRelate, EditRelates, IdsUsed

LEMMA Start == Init => EntriesInv
BY DEF Init, EntriesInv, TypeOK, Stored, StoredConsistent, EditsRelate, EditRelates, IdsUsed, Idle

LEMMA Step == EntriesInv /\ [Next]_vars => EntriesInv'
<1> SUFFICES ASSUME EntriesInv, [Next]_vars PROVE EntriesInv'
  OBVIOUS
<1>1. CASE UNCHANGED vars
  BY <1>1 DEF vars, EntriesInv, TypeOK, Stored, StoredConsistent, EditsRelate, EditRelates, IdsUsed
<1>2. ASSUME NEW id \in Ids, NEW body \in Bodies, Create(id, body) PROVE EntriesInv'
  BY <1>2, CreateStep
<1>3. ASSUME NEW id \in Ids, Delete(id) PROVE EntriesInv'
  BY <1>3, DeleteStep
<1>4. ASSUME NEW id \in Ids, NEW r \in Requests, NEW edit \in Edits, BeginEdit(r, id, edit) PROVE EntriesInv'
  BY <1>4, BeginEditStep
<1>5. ASSUME NEW r \in Requests, CommitEdit(r) \/ Rollback(r) PROVE EntriesInv'
  BY <1>5, CommitEditStep, FinishStep DEF Rollback
<1> QED
  BY <1>1, <1>2, <1>3, <1>4, <1>5 DEF Next

-------------------------------------------------------------------------------
(* What the plan promises. *)

\* The invariant the theorems below rest on: an edit no other overlaps has validated
\* the times against the entry as it is.
THEOREM EntriesInvariant == Spec => []EntriesInv
BY Start, Step, PTL DEF Spec

\* An entry has times exactly if it is not all-day: only two edits of it that overlap
\* can leave it otherwise.
THEOREM TimesMatch == Spec => []TimesMatchKind
<1>1. EntriesInv => TimesMatchKind
  <2> SUFFICES ASSUME EntriesInv, NEW id \in Stored, id \notin raced
               PROVE  /\ entries[id].allDay = (entries[id].start = NoTime)
                      /\ entries[id].allDay = (entries[id].end = NoTime)
    BY DEF TimesMatchKind
  <2>1. Consistent(entries[id]) /\ entries[id].allDay \in BOOLEAN
    BY StoredEntry DEF EntriesInv, StoredConsistent, Entries
  <2> QED
    BY <2>1 DEF Consistent, TimesValid
<1> QED
  BY <1>1, EntriesInvariant, PTL

\* The dates the server emits for a range are those in it the entry falls on.
LEMMA RepeatDates ==
  ASSUME NEW e \in Entries, NEW to \in Nat, e.weekly, NEW d \in Nat
  PROVE  d \in Repeats(e, to) <=> d <= to /\ d > e.date /\ (d - e.date) % 7 = 0
<1> DEFINE k == (d - e.date) \div 7
<1>1. e.date \in Nat
  BY DEF Entries
<1>2. Repeats(e, to) = {e.date + 7 * n : n \in 1 .. (to - e.date) \div 7}
  BY DEF Repeats
<1>3. ASSUME d <= to, d > e.date, (d - e.date) % 7 = 0 PROVE d \in Repeats(e, to)
  <2>1. k \in 1 .. (to - e.date) \div 7 /\ d = e.date + 7 * k
    BY <1>1, <1>3
  <2> QED
    BY <1>2, <2>1
<1>4. ASSUME NEW n \in 1 .. (to - e.date) \div 7, d = e.date + 7 * n
      PROVE  d <= to /\ d > e.date /\ (d - e.date) % 7 = 0
  BY <1>1, <1>4
<1> QED
  BY <1>2, <1>3, <1>4

LEMMA DatesInRange ==
  ASSUME NEW e \in Entries, NEW from \in Nat, NEW to \in Nat, NEW d \in Nat
  PROVE  d \in OccurrenceDates(e, from, to) <=> d \in from .. to /\ FallsOn(e, d)
<1>1. e.date \in Nat /\ e.weekly \in BOOLEAN
  BY DEF Entries
<1>2. CASE e.weekly
  BY <1>1, <1>2, RepeatDates DEF OccurrenceDates, FallsOn
<1>3. CASE ~e.weekly
  BY <1>1, <1>3 DEF OccurrenceDates, FallsOn, Repeats
<1> QED
  BY <1>1, <1>2, <1>3

LEMMA DatesAreNat ==
  ASSUME NEW e \in Entries, NEW from \in Nat, NEW to \in Nat, NEW d \in OccurrenceDates(e, from, to)
  PROVE  d \in Nat
<1>1. e.date \in Nat
  BY DEF Entries
<1>2. \A n \in 1 .. (to - e.date) \div 7 : e.date + 7 * n \in Nat
  BY <1>1
<1>3. d = e.date \/ \E n \in 1 .. (to - e.date) \div 7 : d = e.date + 7 * n
  BY DEF OccurrenceDates, Repeats
<1> QED
  BY <1>1, <1>2, <1>3

\* Every range of every week shows an entry on its date and its weekdays, and on no
\* other.
THEOREM DaysAreShown == Spec => []ShowsOnItsDays
<1>1. EntriesInv => ShowsOnItsDays
  <2> SUFFICES ASSUME EntriesInv, NEW from \in Nat, NEW to \in Nat
               PROVE  Occurrences(from, to)
                        = {o \in [id : Stored, date : from .. to] : FallsOn(entries[o.id], o.date)}
    <3>1. \A monday \in Weeks : \A from \in monday .. monday + 6 :
            from \in Nat /\ from + 6 \in Nat /\ from + 13 \in Nat
      BY InputsAssumption
    <3> QED
      BY <3>1 DEF ShowsOnItsDays
  <2> DEFINE Shown == {o \in [id : Stored, date : from .. to] : FallsOn(entries[o.id], o.date)}
  <2>1. \A id \in Stored : \A d \in Nat :
          d \in OccurrenceDates(entries[id], from, to) <=> d \in from .. to /\ FallsOn(entries[id], d)
    BY StoredEntry, DatesInRange DEF EntriesInv
  <2>2. \A id \in Stored : \A d \in OccurrenceDates(entries[id], from, to) : d \in Nat
    BY StoredEntry, DatesAreNat DEF EntriesInv
  <2>3. \A o : o \in Occurrences(from, to) <=>
               \E id \in Stored : \E d \in OccurrenceDates(entries[id], from, to) : o = [id |-> id, date |-> d]
    BY DEF Occurrences
  <2>4. ASSUME NEW o \in Occurrences(from, to) PROVE o \in Shown
    <3>1. PICK id \in Stored : \E d \in OccurrenceDates(entries[id], from, to) : o = [id |-> id, date |-> d]
      BY <2>3
    <3>2. PICK d \in OccurrenceDates(entries[id], from, to) : o = [id |-> id, date |-> d]
      BY <3>1
    <3> QED
      BY <2>1, <2>2, <3>2
  <2>5. ASSUME NEW o \in Shown PROVE o \in Occurrences(from, to)
    <3>1. /\ o.id \in Stored /\ o.date \in from .. to /\ o.date \in Nat
          /\ o = [id |-> o.id, date |-> o.date] /\ FallsOn(entries[o.id], o.date)
      OBVIOUS
    <3> QED
      BY <2>1, <2>3, <3>1
  <2> QED
    BY <2>4, <2>5
<1> QED
  BY <1>1, EntriesInvariant, PTL

-------------------------------------------------------------------------------
(* Induction, stated with sets: up to a number, and over the subsets of a finite set. *)

LEMMA CountingUp ==
  ASSUME NEW n \in Nat, NEW T, 0 \in T, \A k \in 0 .. n - 1 : k \in T => k + 1 \in T
  PROVE  0 .. n \subseteq T
<1> DEFINE R == OpToRel(<, Nat)
           Missed == (0 .. n) \ T
<1>1. IsWellFoundedOn(R, Nat)
  BY NatLessThanWellFounded
<1>2. \A i, j \in Nat : i < j => <<i, j>> \in R
  BY DEF OpToRel
<1>3. SUFFICES ASSUME Missed # {} PROVE FALSE
  OBVIOUS
<1>4. Missed \subseteq Nat
  OBVIOUS
<1> HIDE DEF R, Missed
<1>5. PICK k \in Missed : \A j \in Missed : ~(<<j, k>> \in R)
  BY <1>1, <1>3, <1>4, WFMin
<1>6. k \in 1 .. n /\ k - 1 \in Nat
  BY <1>4 DEF Missed
<1>7. k - 1 \in T
  <2> SUFFICES ASSUME k - 1 \notin T PROVE FALSE
    OBVIOUS
  <2>1. k - 1 \in Missed
    BY <1>6 DEF Missed
  <2>2. <<k - 1, k>> \in R
    BY <1>2, <1>6
  <2> QED
    BY <1>5, <2>1, <2>2
<1> QED
  BY <1>5, <1>6, <1>7 DEF Missed

LEMMA SubsetInduction ==
  ASSUME NEW S, IsFiniteSet(S), NEW T, T \subseteq SUBSET S,
         \A u \in SUBSET S : (\A v \in SUBSET u : v # u => v \in T) => u \in T
  PROVE  T = SUBSET S
<1> DEFINE R == StrictSubsetOrdering(S)
<1>1. IsWellFoundedOn(R, SUBSET S)
  BY FS_StrictSubsetOrderingWellFounded, FS_FiniteSubsetsOfFinite
<1>2. \A u, v \in SUBSET S : v \subseteq u /\ v # u => <<v, u>> \in R
  BY DEF StrictSubsetOrdering
<1> DEFINE Others == (SUBSET S) \ T
<1>3. SUFFICES ASSUME Others # {} PROVE FALSE
  OBVIOUS
<1>4. Others \subseteq SUBSET S
  OBVIOUS
<1> HIDE DEF R, Others
<1>5. PICK u \in Others : \A v \in Others : ~(<<v, u>> \in R)
  BY <1>1, <1>3, <1>4, WFMin
<1>6. \A v \in SUBSET u : v # u => v \in T
  <2> SUFFICES ASSUME NEW v \in SUBSET u, v # u, v \notin T PROVE FALSE
    OBVIOUS
  <2>1. u \in SUBSET S /\ v \in SUBSET S
    BY <1>4
  <2>2. <<v, u>> \in R
    BY <2>1, <1>2
  <2>3. v \in Others
    BY <2>1 DEF Others
  <2> QED
    BY <2>2, <2>3, <1>5
<1> QED
  BY <1>4, <1>6 DEF Others

-------------------------------------------------------------------------------
(* Entries by start. *)

\* A finite set has an element with the greatest value.
LEMMA Greatest ==
  ASSUME NEW S, IsFiniteSet(S), S # {}, NEW g \in [S -> Int]
  PROVE  \E m \in S : \A x \in S : g[x] <= g[m]
<1> DEFINE T == {u \in SUBSET S : u = {} \/ \E m \in u : \A x \in u : g[x] <= g[m]}
<1>1. ASSUME NEW u \in SUBSET S, \A v \in SUBSET u : v # u => v \in T PROVE u \in T
  <2> SUFFICES ASSUME u # {} PROVE \E m \in u : \A x \in u : g[x] <= g[m]
    OBVIOUS
  <2>1. PICK y \in u : TRUE
    OBVIOUS
  <2>2. u \ {y} \in T
    BY <1>1
  <2>3. CASE u \ {y} = {}
    BY <2>3
  <2>4. CASE u \ {y} # {}
    <3>1. PICK m \in u \ {y} : \A x \in u \ {y} : g[x] <= g[m]
      BY <2>2, <2>4
    <3>2. g[m] \in Int /\ g[y] \in Int /\ \A x \in u : g[x] \in Int
      OBVIOUS
    <3>3. CASE g[y] <= g[m]
      BY <3>1, <3>2, <3>3
    <3>4. CASE g[m] <= g[y]
      BY <3>1, <3>2, <3>4
    <3> QED
      BY <3>2, <3>3, <3>4
  <2> QED
    BY <2>3, <2>4
<1>2. T \subseteq SUBSET S
  OBVIOUS
<1> HIDE DEF T
<1>3. T = SUBSET S
  BY <1>1, <1>2, SubsetInduction
<1>4. S \in T
  BY <1>3
<1> QED
  BY <1>4 DEF T

\* Entries with a start and a later end.
Spans(timed) == \A o \in timed : StartOf(o) \in Int /\ EndOf(o) \in Int /\ StartOf(o) < EndOf(o)

Ordered(seq) == \A i, j \in DOMAIN seq : i < j => StartOf(seq[i]) <= StartOf(seq[j])

LEMMA OrderExists ==
  ASSUME NEW timed, IsFiniteSet(timed), Spans(timed)
  PROVE  \E seq \in SetToSeqs(timed) : Ordered(seq)
<1> DEFINE T == {u \in SUBSET timed : \E seq \in SetToSeqs(u) : Ordered(seq)}
<1>1. ASSUME NEW u \in SUBSET timed, \A v \in SUBSET u : v # u => v \in T PROVE u \in T
  <2>1. IsFiniteSet(u) /\ Cardinality(u) \in Nat /\ (u = {} <=> Cardinality(u) = 0)
    BY FS_Subset, FS_CardinalityType, FS_EmptySet
  <2>2. CASE u = {}
    <3>1. << >> \in SetToSeqs(u) /\ Ordered(<< >>)
      BY <2>1, <2>2 DEF SetToSeqs, Ordered
    <3> QED
      BY <3>1
  <2>3. CASE u # {}
    <3> DEFINE g == [o \in u |-> StartOf(o)]
    <3>1. g \in [u -> Int]
      BY DEF Spans
    <3>2. PICK m \in u : \A o \in u : StartOf(o) <= StartOf(m)
      <4>1. PICK m \in u : \A o \in u : g[o] <= g[m]
        BY <2>1, <2>3, <3>1, Greatest
      <4> QED
        BY <4>1
    <3> DEFINE v == u \ {m}
               n == Cardinality(u)
    <3>3. v \in T /\ Cardinality(v) = n - 1 /\ n \in Nat /\ n # 0
      BY <1>1, <2>1, <2>3, FS_RemoveElement
    <3>4. PICK seq \in SetToSeqs(v) : Ordered(seq)
      BY <3>3
    <3> DEFINE new == [i \in 1 .. n |-> IF i = n THEN m ELSE seq[i]]
    <3>5. /\ DOMAIN seq = 1 .. n - 1 /\ \A i \in 1 .. n - 1 : seq[i] \in u /\ seq[i] # m
          /\ \A i, j \in 1 .. n - 1 : i # j => seq[i] # seq[j]
      BY <3>3 DEF SetToSeqs
    <3>6. \A i, j \in 1 .. n - 1 : i < j => StartOf(seq[i]) <= StartOf(seq[j])
      BY <3>4, <3>5 DEF Ordered
    <3> HIDE DEF v, n
    <3>7. /\ DOMAIN new = 1 .. n /\ new[n] = m /\ \A i \in 1 .. n - 1 : new[i] = seq[i]
          /\ \A i \in 1 .. n : i = n \/ i \in 1 .. n - 1
      BY <3>3
    <3> HIDE DEF new
    <3>8. \A i \in 1 .. n : new[i] \in u
      BY <3>5, <3>7
    <3>9. \A i, j \in 1 .. n : i # j => new[i] # new[j]
      BY <3>5, <3>7
    <3>10. Ordered(new)
      BY <3>2, <3>3, <3>5, <3>6, <3>7 DEF Ordered
    <3>11. new \in [1 .. n -> u]
      BY <3>7, <3>8 DEF new
    <3>12. new \in SetToSeqs(u)
      BY <3>9, <3>11 DEF SetToSeqs, n
    <3> QED
      BY <3>10, <3>12
  <2> QED
    BY <2>2, <2>3
<1>2. T \subseteq SUBSET timed
  OBVIOUS
<1> HIDE DEF T
<1>3. T = SUBSET timed
  BY <1>1, <1>2, SubsetInduction
<1>4. timed \in T
  BY <1>3
<1> QED
  BY <1>4 DEF T

\* The entries by start: each once, and none left out.
LEMMA OrderFacts ==
  ASSUME NEW timed, IsFiniteSet(timed), Spans(timed)
  PROVE  /\ Ordered(ByStart(timed)) /\ Cardinality(timed) \in Nat
         /\ ByStart(timed) \in [1 .. Cardinality(timed) -> timed]
         /\ \A i, j \in 1 .. Cardinality(timed) : ByStart(timed)[i] = ByStart(timed)[j] => i = j
         /\ \A o \in timed : \E i \in 1 .. Cardinality(timed) : ByStart(timed)[i] = o
<1> DEFINE seq == ByStart(timed)
           n   == Cardinality(timed)
<1>1. seq \in SetToSeqs(timed) /\ Ordered(seq)
  BY OrderExists DEF ByStart, Ordered
<1>2. n \in Nat
  BY FS_CardinalityType
<1>3. seq \in [1 .. n -> timed] /\ \A i, j \in 1 .. n : seq[i] = seq[j] => i = j
  BY <1>1 DEF SetToSeqs
<1>4. IsFiniteSet(1 .. n) /\ Cardinality(1 .. n) = n
  BY <1>2, FS_Interval
<1> HIDE DEF seq
<1>5. seq \in Injection(1 .. n, timed)
  BY <1>3 DEF Injection, IsInjective
<1>6. seq \in Surjection(1 .. n, timed)
  BY <1>4, <1>5, FS_Injection
<1>7. \A o \in timed : \E i \in 1 .. n : seq[i] = o
  BY <1>6 DEF Surjection
<1> QED
  BY <1>1, <1>2, <1>3, <1>7 DEF seq

-------------------------------------------------------------------------------
(* The two passes, entry by entry. *)

\* One entry of the pass that clusters, or of the one that gives lanes.
Advanced(pass, done, occ) == IF pass = "cluster" THEN AddToClusters(done, occ) ELSE Place(done, occ)

\* What a pass has after the entries of every set of positions up to n.
FoldOf(f, pass, none, seq, n) ==
  f = [s \in SUBSET (1 .. n) |->
         IF s = {} THEN none ELSE Advanced(pass, f[s \ {Max(s)}], seq[Max(s)])]

LEMMA MaxOfUpTo ==
  ASSUME NEW n \in Nat, NEW s \in SUBSET (1 .. n + 1), n + 1 \in s
  PROVE  Max(s) = n + 1
<1>1. \A x \in s : n + 1 >= x
  OBVIOUS
<1>2. \A x \in s : (\A y \in s : x >= y) => x = n + 1
  BY <1>1
<1> QED
  BY <1>1, <1>2 DEF Max

LEMMA FoldExists ==
  ASSUME NEW pass, NEW none, NEW seq, NEW n \in Nat
  PROVE  \E f : FoldOf(f, pass, none, seq, n)
<1> DEFINE T == {k \in 0 .. n : \E f : FoldOf(f, pass, none, seq, k)}
<1>1. 0 \in T
  <2> DEFINE f == [s \in SUBSET (1 .. 0) |-> none]
  <2>1. \A s \in SUBSET (1 .. 0) : s = {} /\ f[s] = none
    OBVIOUS
  <2>2. FoldOf(f, pass, none, seq, 0)
    BY <2>1 DEF FoldOf
  <2> QED
    BY <2>2
<1>2. ASSUME NEW k \in 0 .. n - 1, k \in T PROVE k + 1 \in T
  <2>1. PICK f : FoldOf(f, pass, none, seq, k)
    BY <1>2
  <2> DEFINE g == [s \in SUBSET (1 .. k + 1) |->
                     IF k + 1 \in s THEN Advanced(pass, f[s \ {k + 1}], seq[k + 1]) ELSE f[s]]
  <2>2. k \in Nat /\ k + 1 \in 0 .. n
    OBVIOUS
  <2>3. ASSUME NEW s \in SUBSET (1 .. k + 1), k + 1 \in s
        PROVE  s # {} /\ g[s] = Advanced(pass, g[s \ {Max(s)}], seq[Max(s)])
    <3>1. Max(s) = k + 1
      BY <2>2, <2>3, MaxOfUpTo
    <3>2. s \ {k + 1} \in SUBSET (1 .. k + 1) /\ k + 1 \notin s \ {k + 1}
      OBVIOUS
    <3>3. g[s \ {k + 1}] = f[s \ {k + 1}]
      BY <3>2
    <3> QED
      BY <2>3, <3>1, <3>3
  <2>4. ASSUME NEW s \in SUBSET (1 .. k + 1), k + 1 \notin s
        PROVE  g[s] = IF s = {} THEN none ELSE Advanced(pass, g[s \ {Max(s)}], seq[Max(s)])
    <3>1. s \in SUBSET (1 .. k)
      BY <2>2, <2>4
    <3>2. g[s] = f[s] /\ g[s \ {Max(s)}] = f[s \ {Max(s)}]
      BY <2>4
    <3>3. f[s] = IF s = {} THEN none ELSE Advanced(pass, f[s \ {Max(s)}], seq[Max(s)])
      BY <2>1, <3>1 DEF FoldOf
    <3> QED
      BY <3>2, <3>3
  <2> DEFINE h == [s \in SUBSET (1 .. k + 1) |->
                     IF s = {} THEN none ELSE Advanced(pass, g[s \ {Max(s)}], seq[Max(s)])]
  <2>5. \A s \in SUBSET (1 .. k + 1) : g[s] = h[s]
    BY <2>3, <2>4
  <2>6. g = h
    BY <2>5
  <2>7. FoldOf(g, pass, none, seq, k + 1)
    BY <2>6 DEF FoldOf
  <2> QED
    BY <2>2, <2>7
<1> HIDE DEF T
<1>3. 0 .. n \subseteq T
  BY <1>1, <1>2, CountingUp
<1>4. n \in T
  BY <1>3
<1> QED
  BY <1>4 DEF T

\* A pass, one entry after the other.
Passed(c, pass, none, seq, n) ==
  c[0] = none /\ \A k \in 1 .. n : c[k] = Advanced(pass, c[k - 1], seq[k])

LEMMA FoldPasses ==
  ASSUME NEW pass, NEW none, NEW seq, NEW n \in Nat, NEW f, FoldOf(f, pass, none, seq, n)
  PROVE  LET c == [k \in 0 .. n |-> f[1 .. k]] IN Passed(c, pass, none, seq, n) /\ c[n] = f[1 .. n]
<1> DEFINE c == [k \in 0 .. n |-> f[1 .. k]]
<1>1. c[0] = none
  <2>1. 1 .. 0 = {} /\ {} \in SUBSET (1 .. n)
    OBVIOUS
  <2>2. f[{}] = none
    BY <2>1 DEF FoldOf
  <2>3. c[0] = f[1 .. 0]
    OBVIOUS
  <2> QED
    BY <2>1, <2>2, <2>3
<1>2. ASSUME NEW k \in 1 .. n PROVE c[k] = Advanced(pass, c[k - 1], seq[k])
  <2>1. k - 1 \in Nat /\ (k - 1) + 1 = k
    OBVIOUS
  <2>2. 1 .. k \in SUBSET (1 .. n) /\ 1 .. k # {} /\ k \in 1 .. k /\ (1 .. k) \ {k} = 1 .. k - 1
    OBVIOUS
  <2>3. Max(1 .. k) = k
    BY <2>1, <2>2, MaxOfUpTo
  <2>4. f[1 .. k] = Advanced(pass, f[(1 .. k) \ {k}], seq[k])
    BY <2>2, <2>3 DEF FoldOf
  <2>5. c[k] = f[1 .. k] /\ c[k - 1] = f[1 .. k - 1]
    OBVIOUS
  <2> QED
    BY <2>2, <2>4, <2>5
<1>3. c[n] = f[1 .. n]
  OBVIOUS
<1> QED
  BY <1>1, <1>2, <1>3 DEF Passed

LEMMA ClusterPasses ==
  ASSUME NEW seq, NEW n \in Nat, DOMAIN seq = 1 .. n
  PROVE  \E c : Passed(c, "cluster", << >>, seq, n) /\ FoldLeft(AddToClusters, << >>, seq) = c[n]
<1> DEFINE Fold(f) == f = [s \in SUBSET DOMAIN seq |->
                             IF s = {} THEN << >> ELSE AddToClusters(f[s \ {Max(s)}], seq[Max(s)])]
           f == CHOOSE f : Fold(f)
<1>1. \A g : Fold(g) <=> FoldOf(g, "cluster", << >>, seq, n)
  BY DEF FoldOf, Advanced
<1>2. FoldLeft(AddToClusters, << >>, seq) = f[DOMAIN seq]
  BY DEF FoldLeft, MapThenFoldSet
<1> HIDE DEF Fold
<1>3. Fold(f)
  BY <1>1, FoldExists
<1> HIDE DEF f
<1>4. FoldOf(f, "cluster", << >>, seq, n)
  BY <1>1, <1>3
<1> DEFINE c == [k \in 0 .. n |-> f[1 .. k]]
<1>5. Passed(c, "cluster", << >>, seq, n) /\ c[n] = f[1 .. n]
  BY <1>4, FoldPasses
<1> HIDE DEF c
<1> QED
  BY <1>2, <1>5

LEMMA LanePasses ==
  ASSUME NEW seq, NEW n \in Nat, DOMAIN seq = 1 .. n, NEW none
  PROVE  \E c : Passed(c, "lane", none, seq, n) /\ FoldLeft(Place, none, seq) = c[n]
<1> DEFINE Fold(f) == f = [s \in SUBSET DOMAIN seq |->
                             IF s = {} THEN none ELSE Place(f[s \ {Max(s)}], seq[Max(s)])]
           f == CHOOSE f : Fold(f)
<1>1. \A g : Fold(g) <=> FoldOf(g, "lane", none, seq, n)
  BY DEF FoldOf, Advanced
<1>2. FoldLeft(Place, none, seq) = f[DOMAIN seq]
  BY DEF FoldLeft, MapThenFoldSet
<1> HIDE DEF Fold
<1>3. Fold(f)
  BY <1>1, FoldExists
<1> HIDE DEF f
<1>4. FoldOf(f, "lane", none, seq, n)
  BY <1>1, <1>3
<1> DEFINE c == [k \in 0 .. n |-> f[1 .. k]]
<1>5. Passed(c, "lane", none, seq, n) /\ c[n] = f[1 .. n]
  BY <1>4, FoldPasses
<1> HIDE DEF c
<1> QED
  BY <1>2, <1>5

-------------------------------------------------------------------------------
(* The first pass: clusters. *)

Distinct(seq) == \A i, j \in DOMAIN seq : seq[i] = seq[j] => i = j

\* A cluster: some entries by start, none of which ends after it.
IsCluster(cluster, timed) ==
  /\ cluster.items \in Seq(timed) /\ cluster.items # << >> /\ cluster.end \in Int
  /\ Ordered(cluster.items) /\ Distinct(cluster.items)
  /\ \A o \in ToSet(cluster.items) : EndOf(o) <= cluster.end

\* The clusters of some of the entries: each begins when the ones before it have ended.
Clustered(clusters, done, timed) ==
  /\ clusters \in Seq([items : Seq(timed), end : Int])
  /\ \A c \in DOMAIN clusters : IsCluster(clusters[c], timed)
  /\ \A c, d \in DOMAIN clusters : c < d =>
       \A o \in ToSet(clusters[d].items) : clusters[c].end <= StartOf(o)
  /\ UNION {ToSet(clusters[c].items) : c \in DOMAIN clusters} = done

LEMMA AppendEntry ==
  ASSUME NEW timed, Spans(timed), NEW seq \in Seq(timed), Ordered(seq), Distinct(seq),
         NEW occ \in timed, occ \notin ToSet(seq), \A o \in ToSet(seq) : StartOf(o) <= StartOf(occ)
  PROVE  LET new == Append(seq, occ)
         IN  /\ new \in Seq(timed) /\ new # << >> /\ Ordered(new) /\ Distinct(new)
             /\ ToSet(new) = ToSet(seq) \cup {occ}
<1> DEFINE new == Append(seq, occ)
           n   == Len(seq)
<1>1. /\ n \in Nat /\ DOMAIN seq = 1 .. n /\ DOMAIN new = 1 .. n + 1 /\ new \in Seq(timed) /\ Len(new) = n + 1
      /\ new[n + 1] = occ /\ \A i \in 1 .. n : new[i] = seq[i]
  OBVIOUS
<1> HIDE DEF new, n
<1>2. \A i \in 1 .. n + 1 : i = n + 1 \/ i \in 1 .. n
  BY <1>1
<1>3. \A i \in 1 .. n : seq[i] \in ToSet(seq)
  BY <1>1 DEF ToSet
<1>4. ToSet(new) = ToSet(seq) \cup {occ}
  <2>1. \A o \in ToSet(new) : o \in ToSet(seq) \cup {occ}
    BY <1>1, <1>2, <1>3 DEF ToSet
  <2>2. \A o \in ToSet(seq) : \E i \in 1 .. n : o = new[i]
    BY <1>1 DEF ToSet
  <2>3. \A i \in 1 .. n : new[i] \in ToSet(new)
    BY <1>1 DEF ToSet
  <2>4. occ \in ToSet(new)
    BY <1>1 DEF ToSet
  <2> QED
    BY <2>1, <2>2, <2>3, <2>4
<1>5. Ordered(new)
  <2> SUFFICES ASSUME NEW i \in 1 .. n + 1, NEW j \in 1 .. n + 1, i < j
               PROVE  StartOf(new[i]) <= StartOf(new[j])
    BY <1>1 DEF Ordered
  <2>1. i \in 1 .. n
    BY <1>1
  <2>2. CASE j = n + 1
    BY <1>1, <1>3, <2>1, <2>2
  <2>3. CASE j \in 1 .. n
    BY <1>1, <2>1, <2>3 DEF Ordered
  <2> QED
    BY <1>2, <2>2, <2>3
<1>6. Distinct(new)
  BY <1>1, <1>2, <1>3 DEF Distinct
<1>7. new # << >>
  BY <1>1
<1> QED
  BY <1>1, <1>4, <1>5, <1>6, <1>7 DEF new

\* A cluster of one entry.
LEMMA OneEntry ==
  ASSUME NEW timed, Spans(timed), NEW occ \in timed
  PROVE  IsCluster([items |-> <<occ>>, end |-> EndOf(occ)], timed) /\ ToSet(<<occ>>) = {occ}
<1>1. EndOf(occ) \in Int /\ EndOf(occ) <= EndOf(occ)
  BY DEF Spans
<1>2. ToSet(<<occ>>) = {occ} /\ <<occ>> \in Seq(timed) /\ <<occ>> # << >>
  BY DEF ToSet
<1>3. Ordered(<<occ>>) /\ Distinct(<<occ>>)
  BY DEF Ordered, Distinct
<1> QED
  BY <1>1, <1>2, <1>3 DEF IsCluster

LEMMA AddStep ==
  ASSUME NEW timed, Spans(timed), NEW done \in SUBSET timed, NEW clusters, Clustered(clusters, done, timed),
         NEW occ \in timed, occ \notin done, \A o \in done : StartOf(o) <= StartOf(occ)
  PROVE  Clustered(AddToClusters(clusters, occ), done \cup {occ}, timed)
<1> DEFINE n    == Len(clusters)
           new  == [items |-> <<occ>>, end |-> EndOf(occ)]
           wide == [items |-> Append(clusters[n].items, occ),
                    end   |-> IF EndOf(occ) > clusters[n].end THEN EndOf(occ) ELSE clusters[n].end]
           V    == [items : Seq(timed), end : Int]
<1>1. n \in Nat /\ DOMAIN clusters = 1 .. n /\ clusters \in Seq(V)
  <2>1. clusters \in Seq(V)
    BY DEF Clustered
  <2> HIDE DEF V
  <2> QED
    BY <2>1
<1>2. \A c \in 1 .. n : IsCluster(clusters[c], timed)
  BY <1>1 DEF Clustered
<1>3. \A c \in 1 .. n : \A o \in ToSet(clusters[c].items) : o \in done
  BY <1>1 DEF Clustered
<1>4. \A o \in timed : StartOf(o) \in Int /\ EndOf(o) \in Int /\ StartOf(o) < EndOf(o)
  BY DEF Spans
<1>5. \A c \in 1 .. n - 1 : clusters[c].end <= StartOf(occ)
  <2> SUFFICES ASSUME NEW c \in 1 .. n - 1 PROVE clusters[c].end <= StartOf(occ)
    OBVIOUS
  <2>1. n \in 1 .. n /\ c \in 1 .. n /\ c < n
    BY <1>1
  <2>2. PICK o \in ToSet(clusters[n].items) : TRUE
    <3>1. clusters[n].items \in Seq(timed) /\ clusters[n].items # << >>
      BY <1>2, <2>1 DEF IsCluster
    <3>2. clusters[n].items[1] \in ToSet(clusters[n].items)
      BY <3>1 DEF ToSet
    <3> QED
      BY <3>2
  <2>3. clusters[c].end <= StartOf(o) /\ clusters[c].end \in Int
    BY <1>1, <1>2, <2>1 DEF Clustered, IsCluster
  <2>4. StartOf(o) <= StartOf(occ) /\ StartOf(o) \in Int /\ StartOf(occ) \in Int
    BY <1>3, <1>4, <2>1
  <2> QED
    BY <2>3, <2>4
<1>6. CASE clusters = << >> \/ Last(clusters).end <= StartOf(occ)
  <2> DEFINE next == Append(clusters, new)
  <2>1. AddToClusters(clusters, occ) = next
    BY <1>6 DEF AddToClusters
  <2>2. new \in V /\ IsCluster(new, timed) /\ ToSet(new.items) = {occ}
    BY <1>4, OneEntry
  <2>3. \A c \in 1 .. n : clusters[c].end <= StartOf(occ)
    <3>1. n # 0 => clusters[n].end <= StartOf(occ)
      BY <1>1, <1>6 DEF Last
    <3> QED
      BY <1>1, <1>5, <3>1
  <2> HIDE DEF new, V
  <2>4. next \in Seq(V) /\ DOMAIN next = 1 .. n + 1 /\ next[n + 1] = new /\ \A c \in 1 .. n : next[c] = clusters[c]
    BY <1>1, <2>2
  <2> HIDE DEF next, n
  <2>5. \A c \in 1 .. n + 1 : c = n + 1 \/ c \in 1 .. n
    BY <1>1
  <2>6. \A c \in 1 .. n + 1 : IsCluster(next[c], timed)
    BY <1>2, <2>2, <2>4, <2>5
  <2>7. ASSUME NEW c \in 1 .. n + 1, NEW d \in 1 .. n + 1, c < d, NEW o \in ToSet(next[d].items)
        PROVE  next[c].end <= StartOf(o)
    <3>1. c \in 1 .. n
      BY <1>1, <2>7
    <3>2. CASE d = n + 1
      BY <2>2, <2>3, <2>4, <2>7, <3>1, <3>2
    <3>3. CASE d \in 1 .. n
      BY <1>1, <2>4, <2>7, <3>1, <3>3 DEF Clustered
    <3> QED
      BY <2>5, <3>2, <3>3
  <2>8. UNION {ToSet(next[c].items) : c \in 1 .. n + 1} = done \cup {occ}
    <3>1. \A c \in 1 .. n + 1 : \A o \in ToSet(next[c].items) : o \in done \cup {occ}
      BY <1>3, <2>2, <2>4, <2>5
    <3>2. \A o \in done : \E c \in 1 .. n : o \in ToSet(next[c].items)
      BY <1>1, <2>4 DEF Clustered
    <3>3. n + 1 \in 1 .. n + 1 /\ \A c \in 1 .. n : c \in 1 .. n + 1
      BY <1>1
    <3>4. occ \in ToSet(next[n + 1].items)
      BY <2>2, <2>4
    <3>5. \A o \in done \cup {occ} : \E c \in 1 .. n + 1 : o \in ToSet(next[c].items)
      BY <3>2, <3>3, <3>4
    <3> QED
      BY <3>1, <3>5
  <2> QED
    BY <2>1, <2>4, <2>6, <2>7, <2>8 DEF Clustered, V
<1>7. CASE ~(clusters = << >> \/ Last(clusters).end <= StartOf(occ))
  <2> DEFINE next == Append(Front(clusters), wide)
  <2>1. AddToClusters(clusters, occ) = next
    BY <1>7 DEF AddToClusters, Last
  <2>2. n \in 1 .. n /\ n # 0
    BY <1>1, <1>7
  <2>3. IsCluster(clusters[n], timed)
    BY <1>2, <2>2
  <2>4. /\ wide.items \in Seq(timed) /\ wide.items # << >> /\ Ordered(wide.items) /\ Distinct(wide.items)
        /\ ToSet(wide.items) = ToSet(clusters[n].items) \cup {occ}
    BY <1>3, <2>2, <2>3, AppendEntry DEF IsCluster
  <2>5. wide.end \in Int /\ EndOf(occ) <= wide.end /\ clusters[n].end <= wide.end
    BY <1>4, <2>3 DEF IsCluster
  <2>6. \A o \in ToSet(wide.items) : EndOf(o) <= wide.end
    <3>1. \A o \in ToSet(clusters[n].items) : EndOf(o) <= clusters[n].end /\ EndOf(o) \in Int /\ clusters[n].end \in Int
      BY <1>3, <1>4, <2>2, <2>3 DEF IsCluster
    <3> QED
      BY <2>4, <2>5, <3>1
  <2>7. IsCluster(wide, timed) /\ wide \in V
    BY <2>4, <2>5, <2>6 DEF IsCluster
  <2> HIDE DEF wide, V
  <2>8. /\ next \in Seq(V) /\ DOMAIN next = 1 .. n /\ next[n] = wide
        /\ \A c \in 1 .. n - 1 : next[c] = clusters[c]
    <3> DEFINE front == Front(clusters)
    <3>1. front \in Seq(V) /\ Len(front) = n - 1 /\ \A c \in 1 .. n - 1 : front[c] = clusters[c]
      BY <1>1, <2>2 DEF Front
    <3>2. next = Append(front, wide)
      OBVIOUS
    <3>3. (n - 1) + 1 = n /\ n - 1 \in Nat
      BY <1>1, <2>2
    <3> HIDE DEF front, next, n
    <3> QED
      BY <2>7, <3>1, <3>2, <3>3
  <2> HIDE DEF next, n
  <2>9. \A c \in 1 .. n : c = n \/ c \in 1 .. n - 1
    BY <1>1
  <2>10. \A c \in 1 .. n : IsCluster(next[c], timed)
    BY <1>2, <2>7, <2>8, <2>9
  <2>11. ASSUME NEW c \in 1 .. n, NEW d \in 1 .. n, c < d, NEW o \in ToSet(next[d].items)
         PROVE  next[c].end <= StartOf(o)
    <3>1. c \in 1 .. n - 1
      BY <1>1, <2>11
    <3>2. CASE d = n
      <4>1. o = occ \/ o \in ToSet(clusters[n].items)
        BY <2>4, <2>8, <2>11, <3>2
      <4>2. o \in ToSet(clusters[n].items) => clusters[c].end <= StartOf(o)
        BY <1>1, <2>2, <2>11, <3>2 DEF Clustered
      <4> QED
        BY <1>5, <2>8, <3>1, <4>1, <4>2
    <3>3. CASE d \in 1 .. n - 1
      BY <1>1, <2>8, <2>11, <3>1, <3>3 DEF Clustered
    <3> QED
      BY <2>9, <3>2, <3>3
  <2>12. UNION {ToSet(next[c].items) : c \in 1 .. n} = done \cup {occ}
    <3>1. \A c \in 1 .. n : \A o \in ToSet(next[c].items) : o \in done \cup {occ}
      BY <1>3, <2>2, <2>4, <2>8, <2>9
    <3>2. \A o \in done : \E c \in 1 .. n : o \in ToSet(clusters[c].items)
      BY <1>1 DEF Clustered
    <3>3. \A o \in done : \E c \in 1 .. n : o \in ToSet(next[c].items)
      BY <2>4, <2>8, <2>9, <3>2
    <3>4. occ \in ToSet(next[n].items)
      BY <2>4, <2>8
    <3> QED
      BY <2>2, <3>1, <3>3, <3>4
  <2> QED
    BY <2>1, <2>8, <2>10, <2>11, <2>12 DEF Clustered, V
<1> QED
  BY <1>6, <1>7

\* The clusters of a day.
LEMMA ClustersOfDay ==
  ASSUME NEW timed, IsFiniteSet(timed), Spans(timed)
  PROVE  Clustered(FoldLeft(AddToClusters, << >>, ByStart(timed)), timed, timed)
<1> DEFINE seq == ByStart(timed)
           n   == Cardinality(timed)
<1>1. /\ Ordered(seq) /\ n \in Nat /\ seq \in [1 .. n -> timed] /\ \A i, j \in 1 .. n : seq[i] = seq[j] => i = j
      /\ \A o \in timed : \E i \in 1 .. n : seq[i] = o
  BY OrderFacts
<1> HIDE DEF seq, n
<1>2. PICK c : Passed(c, "cluster", << >>, seq, n) /\ FoldLeft(AddToClusters, << >>, seq) = c[n]
  BY <1>1, ClusterPasses
<1> DEFINE Upto(k) == {seq[j] : j \in 1 .. k}
           T == {k \in 0 .. n : Clustered(c[k], Upto(k), timed)}
<1>3. 0 \in T
  <2>1. c[0] = << >> /\ Upto(0) = {}
    BY <1>2 DEF Passed
  <2>2. Clustered(<< >>, {}, timed)
    BY DEF Clustered
  <2> QED
    BY <1>1, <2>1, <2>2
<1>4. ASSUME NEW k \in 0 .. n - 1, k \in T PROVE k + 1 \in T
  <2>1. k + 1 \in 1 .. n /\ (k + 1) - 1 = k /\ k \in Nat
    BY <1>1
  <2>2. c[k + 1] = AddToClusters(c[k], seq[k + 1])
    BY <1>2, <2>1 DEF Passed, Advanced
  <2>3. Upto(k) \in SUBSET timed /\ seq[k + 1] \in timed /\ Upto(k + 1) = Upto(k) \cup {seq[k + 1]}
    BY <1>1, <2>1
  <2>4. seq[k + 1] \notin Upto(k) /\ \A o \in Upto(k) : StartOf(o) <= StartOf(seq[k + 1])
    BY <1>1, <2>1 DEF Ordered
  <2>5. Clustered(c[k], Upto(k), timed)
    BY <1>4
  <2> HIDE DEF Upto
  <2>6. Clustered(c[k + 1], Upto(k + 1), timed)
    BY <2>2, <2>3, <2>4, <2>5, AddStep
  <2> QED
    BY <2>1, <2>6
<1> HIDE DEF T
<1>5. n \in T
  <2>1. n \in Nat
    BY <1>1
  <2>2. 0 .. n \subseteq T
    BY <1>3, <1>4, <2>1, CountingUp
  <2> QED
    BY <2>1, <2>2
<1>6. Upto(n) = timed
  BY <1>1
<1> QED
  BY <1>2, <1>5, <1>6 DEF T, seq

-------------------------------------------------------------------------------
(* The second pass: lanes. *)

\* Some of a cluster's entries in lanes: a lane ends with the last entry in it, two
\* entries of one lane do not overlap, and at one entry's start every lane is taken.
InLanes(layout, done, timed) ==
  /\ layout.ends \in Seq(Int) /\ IsFiniteSet(layout.placed)
  /\ \A p \in layout.placed : p.occ \in timed /\ p.lane \in DOMAIN layout.ends
                              /\ EndOf(p.occ) <= layout.ends[p.lane]
  /\ {p.occ : p \in layout.placed} = done
  /\ \A l \in DOMAIN layout.ends : \E p \in layout.placed : p.lane = l /\ EndOf(p.occ) = layout.ends[l]
  /\ \A p, q \in layout.placed : p.lane = q.lane => p = q \/ EndOf(p.occ) <= StartOf(q.occ)
                                                          \/ EndOf(q.occ) <= StartOf(p.occ)
  /\ layout.placed = {} \/ \E q \in layout.placed : \A l \in DOMAIN layout.ends :
       \E p \in layout.placed : p.lane = l /\ StartOf(p.occ) <= StartOf(q.occ) /\ StartOf(q.occ) < EndOf(p.occ)

LEMMA FreeLaneFacts ==
  ASSUME NEW ends \in Seq(Int), NEW occ, StartOf(occ) \in Int
  PROVE  \/ FreeLane(ends, occ) = Len(ends) + 1 /\ \A l \in DOMAIN ends : StartOf(occ) < ends[l]
         \/ FreeLane(ends, occ) \in DOMAIN ends /\ ends[FreeLane(ends, occ)] <= StartOf(occ)
<1> DEFINE free == {i \in DOMAIN ends : ends[i] <= StartOf(occ)}
<1>1. DOMAIN ends = 1 .. Len(ends) /\ Len(ends) \in Nat /\ \A l \in DOMAIN ends : ends[l] \in Int
  OBVIOUS
<1>2. CASE free = {}
  BY <1>1, <1>2 DEF FreeLane
<1>3. CASE free # {}
  <2> DEFINE g == [i \in free |-> -i]
  <2>1. free \in SUBSET (1 .. Len(ends)) /\ g \in [free -> Int]
    BY <1>1
  <2>2. IsFiniteSet(free)
    <3>1. IsFiniteSet(1 .. Len(ends))
      BY <1>1, FS_Interval
    <3> HIDE DEF free
    <3> QED
      BY <2>1, <3>1, FS_Subset
  <2>3. PICK i \in free : \A j \in free : g[j] <= g[i]
    BY <1>3, <2>1, <2>2, Greatest
  <2>4. \A j \in free : i <= j
    BY <2>1, <2>3
  <2>5. FreeLane(ends, occ) = CHOOSE k \in free : \A j \in free : k <= j
    BY <1>3 DEF FreeLane
  <2> HIDE DEF free
  <2>6. (CHOOSE k \in free : \A j \in free : k <= j) \in free
    BY <2>4
  <2>7. FreeLane(ends, occ) \in free
    BY <2>5, <2>6
  <2> QED
    BY <2>7 DEF free
<1> QED
  BY <1>2, <1>3

LEMMA PlaceStep ==
  ASSUME NEW timed, Spans(timed), NEW done \in SUBSET timed, NEW layout, InLanes(layout, done, timed),
         NEW occ \in timed, \A o \in done : StartOf(o) <= StartOf(occ)
  PROVE  InLanes(Place(layout, occ), done \cup {occ}, timed)
<1> DEFINE ends   == layout.ends
           placed == layout.placed
           n      == Len(ends)
           lane   == FreeLane(ends, occ)
           new    == [occ |-> occ, lane |-> lane]
           next   == Place(layout, occ)
<1>1. \A o \in timed : StartOf(o) \in Int /\ EndOf(o) \in Int /\ StartOf(o) < EndOf(o)
  BY DEF Spans
<1>2. ends \in Seq(Int) /\ DOMAIN ends = 1 .. n /\ n \in Nat /\ \A l \in 1 .. n : ends[l] \in Int
  BY DEF InLanes
<1>3. IsFiniteSet(placed) /\ \A p \in placed : /\ p.occ \in done /\ p.lane \in 1 .. n
                                             /\ EndOf(p.occ) <= ends[p.lane]
  BY <1>2 DEF InLanes
<1>4. /\ \A o \in done : \E p \in placed : p.occ = o
      /\ \A l \in 1 .. n : \E p \in placed : p.lane = l /\ EndOf(p.occ) = ends[l]
      /\ \A p, q \in placed : p.lane = q.lane => p = q \/ EndOf(p.occ) <= StartOf(q.occ)
                                                       \/ EndOf(q.occ) <= StartOf(p.occ)
  BY <1>2 DEF InLanes
<1>5. placed = {} \/ \E q \in placed : \A l \in 1 .. n :
        \E p \in placed : p.lane = l /\ StartOf(p.occ) <= StartOf(q.occ) /\ StartOf(q.occ) < EndOf(p.occ)
  BY <1>2 DEF InLanes
<1>6. /\ next.placed = placed \cup {new} /\ new.occ = occ /\ new.lane = lane
      /\ next.ends = IF lane > n THEN Append(ends, EndOf(occ)) ELSE [ends EXCEPT ![lane] = EndOf(occ)]
  BY DEF Place
<1>7. \/ lane = n + 1 /\ \A l \in 1 .. n : StartOf(occ) < ends[l]
      \/ lane \in 1 .. n /\ ends[lane] <= StartOf(occ)
  BY <1>1, <1>2, FreeLaneFacts
<1> HIDE DEF new, next, lane
<1> DEFINE nextEnds == next.ends
           m        == IF lane = n + 1 THEN n + 1 ELSE n
<1>8. /\ nextEnds \in Seq(Int) /\ DOMAIN nextEnds = 1 .. m /\ lane \in 1 .. m /\ m \in Nat /\ n <= m
      /\ nextEnds[lane] = EndOf(occ) /\ \A l \in 1 .. m : l # lane => l \in 1 .. n /\ nextEnds[l] = ends[l]
  <2>1. CASE lane = n + 1
    <3>1. nextEnds = Append(ends, EndOf(occ))
      BY <1>2, <1>6, <2>1
    <3> QED
      BY <1>1, <1>2, <2>1, <3>1
  <2>2. CASE lane \in 1 .. n
    <3>1. nextEnds = [ends EXCEPT ![lane] = EndOf(occ)]
      BY <1>2, <1>6, <2>2
    <3>2. nextEnds \in Seq(Int) /\ DOMAIN nextEnds = 1 .. n
      BY <1>1, <1>2, <2>2, <3>1
    <3> QED
      BY <1>1, <1>2, <2>2, <3>1, <3>2
  <2> QED
    BY <1>7, <2>1, <2>2
<1> DEFINE nextPlaced == next.placed
<1>9. \A p \in nextPlaced : p = new \/ p \in placed
  BY <1>6
<1>10. \A p \in placed : p \in nextPlaced
  BY <1>6
<1>11. new \in nextPlaced /\ IsFiniteSet(nextPlaced)
  BY <1>3, <1>6, FS_AddElement
\* An entry that was placed in the lane ends before this one starts.
<1>12. \A p \in placed : p.lane = lane => EndOf(p.occ) <= StartOf(occ)
  <2> SUFFICES ASSUME NEW p \in placed, p.lane = lane PROVE EndOf(p.occ) <= StartOf(occ)
    OBVIOUS
  <2>1. lane \in 1 .. n /\ ends[lane] <= StartOf(occ)
    BY <1>2, <1>3, <1>7
  <2> QED
    BY <1>1, <1>2, <1>3, <2>1
<1> HIDE DEF nextEnds, m, nextPlaced, ends, placed, n
<1>13. \A p \in nextPlaced : p.occ \in timed /\ p.lane \in 1 .. m /\ EndOf(p.occ) <= nextEnds[p.lane]
  <2> SUFFICES ASSUME NEW p \in nextPlaced
               PROVE  p.occ \in timed /\ p.lane \in 1 .. m /\ EndOf(p.occ) <= nextEnds[p.lane]
    OBVIOUS
  <2>1. CASE p = new
    BY <1>1, <1>6, <1>8, <2>1
  <2>2. CASE p \in placed /\ p.lane = lane
    BY <1>1, <1>3, <1>8, <1>12, <2>2
  <2>3. CASE p \in placed /\ p.lane # lane
    <3>1. p.lane \in 1 .. m
      BY <1>2, <1>3, <1>8, <2>3
    <3> QED
      BY <1>3, <1>8, <2>3, <3>1
  <2> QED
    BY <1>9, <2>1, <2>2, <2>3
<1>14. {p.occ : p \in nextPlaced} = done \cup {occ}
  <2>1. \A p \in nextPlaced : p.occ \in done \cup {occ}
    BY <1>3, <1>6, <1>9
  <2>2. \A o \in done \cup {occ} : \E p \in nextPlaced : p.occ = o
    BY <1>4, <1>6, <1>10, <1>11
  <2> QED
    BY <2>1, <2>2
<1>15. \A l \in 1 .. m : \E p \in nextPlaced : p.lane = l /\ EndOf(p.occ) = nextEnds[l]
  <2> SUFFICES ASSUME NEW l \in 1 .. m PROVE \E p \in nextPlaced : p.lane = l /\ EndOf(p.occ) = nextEnds[l]
    OBVIOUS
  <2>1. CASE l = lane
    BY <1>6, <1>8, <1>11, <2>1
  <2>2. CASE l # lane
    <3>1. l \in 1 .. n /\ nextEnds[l] = ends[l]
      BY <1>8, <2>2
    <3>2. PICK p \in placed : p.lane = l /\ EndOf(p.occ) = ends[l]
      BY <1>4, <3>1
    <3> QED
      BY <1>10, <3>1, <3>2
  <2> QED
    BY <2>1, <2>2
<1>16. \A p, q \in nextPlaced : p.lane = q.lane => p = q \/ EndOf(p.occ) <= StartOf(q.occ)
                                                         \/ EndOf(q.occ) <= StartOf(p.occ)
  BY <1>4, <1>6, <1>9, <1>12
<1>17. \E q \in nextPlaced : \A l \in 1 .. m :
         \E p \in nextPlaced : p.lane = l /\ StartOf(p.occ) <= StartOf(q.occ) /\ StartOf(q.occ) < EndOf(p.occ)
  <2>1. CASE lane = n + 1
    \* Every lane holds an entry that goes on past this one's start.
    <3>1. ASSUME NEW l \in 1 .. m
          PROVE  \E p \in nextPlaced : p.lane = l /\ StartOf(p.occ) <= StartOf(occ) /\ StartOf(occ) < EndOf(p.occ)
      <4>1. CASE l = lane
        BY <1>1, <1>6, <1>11, <4>1
      <4>2. CASE l # lane
        <5>1. l \in 1 .. n /\ StartOf(occ) < ends[l]
          BY <1>2, <1>7, <1>8, <2>1, <4>2
        <5>2. PICK p \in placed : p.lane = l /\ EndOf(p.occ) = ends[l]
          BY <1>4, <5>1
        <5>3. StartOf(p.occ) <= StartOf(occ)
          BY <1>3, <5>2
        <5> QED
          BY <1>10, <5>1, <5>2, <5>3
      <4> QED
        BY <4>1, <4>2
    <3> QED
      BY <1>6, <1>11, <3>1
  <2>2. CASE lane # n + 1
    <3>1. m = n /\ lane \in 1 .. n
      BY <1>7, <2>2 DEF m
    <3>2. placed # {}
      BY <1>4, <3>1
    <3>3. PICK q \in placed : \A l \in 1 .. n :
            \E p \in placed : p.lane = l /\ StartOf(p.occ) <= StartOf(q.occ) /\ StartOf(q.occ) < EndOf(p.occ)
      BY <1>5, <3>2
    <3> QED
      BY <1>10, <3>1, <3>3
  <2> QED
    BY <2>1, <2>2
<1>18. InLanes(next, done \cup {occ}, timed)
  <2>1. \A p \in nextPlaced : p.occ \in timed /\ p.lane \in DOMAIN nextEnds /\ EndOf(p.occ) <= nextEnds[p.lane]
    BY <1>8, <1>13
  <2>2. \A l \in DOMAIN nextEnds : \E p \in nextPlaced : p.lane = l /\ EndOf(p.occ) = nextEnds[l]
    BY <1>8, <1>15
  <2>3. \E q \in nextPlaced : \A l \in DOMAIN nextEnds :
          \E p \in nextPlaced : p.lane = l /\ StartOf(p.occ) <= StartOf(q.occ) /\ StartOf(q.occ) < EndOf(p.occ)
    BY <1>8, <1>17
  <2> QED
    BY <1>8, <1>11, <1>14, <1>16, <2>1, <2>2, <2>3 DEF InLanes, nextEnds, nextPlaced
<1> QED
  BY <1>18 DEF next

\* A cluster with its lanes.
LEMMA LanesOfCluster ==
  ASSUME NEW timed, Spans(timed), NEW cluster, IsCluster(cluster, timed)
  PROVE  \E layout : /\ InLanes(layout, ToSet(cluster.items), timed)
                     /\ LaidOut(cluster) = {[occ |-> p.occ, lane |-> p.lane, lanes |-> Len(layout.ends)] :
                                              p \in layout.placed}
<1> DEFINE seq  == cluster.items
           n    == Len(seq)
           none == [ends |-> << >>, placed |-> {}]
<1>1. n \in Nat /\ DOMAIN seq = 1 .. n /\ (\A i \in 1 .. n : seq[i] \in timed) /\ Ordered(seq)
  BY DEF IsCluster
<1> HIDE DEF none, n, seq
<1>2. PICK c : Passed(c, "lane", none, seq, n) /\ FoldLeft(Place, none, seq) = c[n]
  BY <1>1, LanePasses
<1> DEFINE Upto(k) == {seq[j] : j \in 1 .. k}
           T == {k \in 0 .. n : InLanes(c[k], Upto(k), timed)}
<1>3. 0 \in T
  <2>1. c[0] = none /\ Upto(0) = {}
    BY <1>2 DEF Passed
  <2>2. none.ends = << >> /\ none.placed = {}
    BY DEF none
  <2>3. InLanes(none, {}, timed)
    BY <2>2, FS_EmptySet DEF InLanes
  <2>4. InLanes(c[0], Upto(0), timed)
    BY <2>1, <2>3
  <2> HIDE DEF Upto
  <2> QED
    BY <1>1, <2>4
<1>4. ASSUME NEW k \in 0 .. n - 1, k \in T PROVE k + 1 \in T
  <2>1. k + 1 \in 1 .. n /\ (k + 1) - 1 = k /\ k \in Nat
    BY <1>1
  <2>2. c[k + 1] = Place(c[k], seq[k + 1])
    BY <1>2, <2>1 DEF Passed, Advanced
  <2>3. Upto(k) \in SUBSET timed /\ seq[k + 1] \in timed /\ Upto(k + 1) = Upto(k) \cup {seq[k + 1]}
    BY <1>1, <2>1
  <2>4. \A o \in Upto(k) : StartOf(o) <= StartOf(seq[k + 1])
    BY <1>1, <2>1 DEF Ordered
  <2>5. InLanes(c[k], Upto(k), timed)
    BY <1>4
  <2> HIDE DEF Upto
  <2>6. InLanes(c[k + 1], Upto(k + 1), timed)
    BY <2>2, <2>3, <2>4, <2>5, PlaceStep
  <2>7. k + 1 \in 0 .. n
    BY <2>1
  <2> QED
    BY <2>6, <2>7
<1> HIDE DEF T
<1>5. n \in T
  <2>1. n \in Nat
    BY <1>1
  <2>2. 0 .. n \subseteq T
    BY <1>3, <1>4, <2>1, CountingUp
  <2> QED
    BY <2>1, <2>2
<1>6. Upto(n) = ToSet(seq)
  BY <1>1 DEF ToSet
<1>7. InLanes(c[n], ToSet(seq), timed)
  BY <1>5, <1>6 DEF T
<1>8. LaidOut(cluster) = {[occ |-> p.occ, lane |-> p.lane, lanes |-> Len(c[n].ends)] : p \in c[n].placed}
  BY <1>2 DEF LaidOut, none, seq
<1> QED
  BY <1>7, <1>8 DEF seq

\* A cluster as it is drawn.
Drawn(laid, done, n) ==
  /\ IsFiniteSet(laid) /\ n \in Nat /\ {p.occ : p \in laid} = done
  /\ \A p \in laid : p.lanes = n
  /\ \A p, q \in laid : p.occ # q.occ /\ p.lane = q.lane =>
       EndOf(p.occ) <= StartOf(q.occ) \/ EndOf(q.occ) <= StartOf(p.occ)
  /\ laid = {} \/ \E q \in laid : \A l \in 1 .. n :
       \E p \in laid : p.lane = l /\ StartOf(p.occ) <= StartOf(q.occ) /\ StartOf(q.occ) < EndOf(p.occ)

LEMMA ClusterDrawn ==
  ASSUME NEW timed, Spans(timed), NEW cluster, IsCluster(cluster, timed)
  PROVE  \E n : Drawn(LaidOut(cluster), ToSet(cluster.items), n)
<1>1. PICK layout : /\ InLanes(layout, ToSet(cluster.items), timed)
                    /\ LaidOut(cluster) = {[occ |-> p.occ, lane |-> p.lane, lanes |-> Len(layout.ends)] :
                                             p \in layout.placed}
  BY LanesOfCluster
<1> DEFINE n      == Len(layout.ends)
           As(p)  == [occ |-> p.occ, lane |-> p.lane, lanes |-> n]
           laid   == LaidOut(cluster)
           placed == layout.placed
<1>2. n \in Nat /\ DOMAIN layout.ends = 1 .. n
  BY <1>1 DEF InLanes
<1>3. laid = {As(p) : p \in placed}
  BY <1>1
<1>4. \A p : As(p).occ = p.occ /\ As(p).lane = p.lane /\ As(p).lanes = n
  OBVIOUS
<1>5. IsFiniteSet(placed)
  BY <1>1 DEF InLanes
<1> HIDE DEF laid, n, As
<1>6. IsFiniteSet(laid)
  <2> DEFINE f == [p \in placed |-> As(p)]
  <2>1. f \in Surjection(placed, laid)
    BY <1>3 DEF Surjection
  <2> HIDE DEF f
  <2> QED
    BY <1>5, <2>1, FS_Surjection
<1>7. {p.occ : p \in laid} = ToSet(cluster.items)
  <2>1. {p.occ : p \in placed} = ToSet(cluster.items)
    BY <1>1 DEF InLanes
  <2> QED
    BY <1>3, <1>4, <2>1
<1>8. ASSUME NEW p \in laid, NEW q \in laid, p.occ # q.occ, p.lane = q.lane
      PROVE  EndOf(p.occ) <= StartOf(q.occ) \/ EndOf(q.occ) <= StartOf(p.occ)
  <2>1. PICK x \in placed, y \in placed : p = As(x) /\ q = As(y)
    BY <1>3
  <2>2. x.occ # y.occ /\ x.lane = y.lane
    BY <1>4, <1>8, <2>1
  <2>3. EndOf(x.occ) <= StartOf(y.occ) \/ EndOf(y.occ) <= StartOf(x.occ)
    BY <1>1, <2>2 DEF InLanes
  <2> QED
    BY <1>4, <2>1, <2>3
<1>9. laid = {} \/ \E q \in laid : \A l \in 1 .. n :
        \E p \in laid : p.lane = l /\ StartOf(p.occ) <= StartOf(q.occ) /\ StartOf(q.occ) < EndOf(p.occ)
  <2>1. CASE placed = {}
    BY <1>3, <2>1
  <2>2. CASE placed # {}
    <3>1. PICK q \in placed : \A l \in 1 .. n :
            \E p \in placed : p.lane = l /\ StartOf(p.occ) <= StartOf(q.occ) /\ StartOf(q.occ) < EndOf(p.occ)
      BY <1>1, <1>2, <2>2 DEF InLanes
    <3>2. As(q) \in laid /\ As(q).occ = q.occ
      BY <1>3, <1>4
    <3>3. ASSUME NEW l \in 1 .. n
          PROVE  \E p \in laid : p.lane = l /\ StartOf(p.occ) <= StartOf(q.occ) /\ StartOf(q.occ) < EndOf(p.occ)
      <4>1. PICK p \in placed : p.lane = l /\ StartOf(p.occ) <= StartOf(q.occ) /\ StartOf(q.occ) < EndOf(p.occ)
        BY <3>1
      <4>2. As(p) \in laid /\ As(p).occ = p.occ /\ As(p).lane = p.lane
        BY <1>3, <1>4
      <4> QED
        BY <4>1, <4>2
    <3> QED
      BY <3>2, <3>3
  <2> QED
    BY <2>1, <2>2
<1>10. \A p \in laid : p.lanes = n
  BY <1>3, <1>4
<1>11. n \in Nat
  BY <1>2
<1>12. Drawn(laid, ToSet(cluster.items), n)
  BY <1>6, <1>7, <1>8, <1>9, <1>10, <1>11 DEF Drawn
<1> QED
  BY <1>12 DEF laid

\* As many lanes as entries that overlap at one entry's start.
LEMMA LanesFilled ==
  ASSUME NEW laid, NEW done, NEW n, Drawn(laid, done, n), laid # {}, NEW all, laid \subseteq all, IsFiniteSet(all)
  PROVE  \E q \in laid : Cardinality({o \in all : o.lanes = n /\ StartOf(o.occ) <= StartOf(q.occ)
                                                   /\ StartOf(q.occ) < EndOf(o.occ)}) >= n
<1>1. PICK q \in laid : \A l \in 1 .. n :
        \E p \in laid : p.lane = l /\ StartOf(p.occ) <= StartOf(q.occ) /\ StartOf(q.occ) < EndOf(p.occ)
  BY DEF Drawn
<1> DEFINE At(p) == StartOf(p.occ) <= StartOf(q.occ) /\ StartOf(q.occ) < EndOf(p.occ)
           over  == {o \in all : o.lanes = n /\ At(o)}
           f     == [l \in 1 .. n |-> CHOOSE p \in laid : p.lane = l /\ At(p)]
<1>2. n \in Nat /\ \A p \in laid : p.lanes = n
  BY DEF Drawn
<1>3. \A l \in 1 .. n : f[l] \in laid /\ f[l].lane = l /\ At(f[l])
  BY <1>1
<1>4. f \in [1 .. n -> over] /\ \A i, j \in 1 .. n : f[i] = f[j] => i = j
  <2>1. \A l \in 1 .. n : f[l] \in over
    BY <1>2, <1>3
  <2>2. DOMAIN f = 1 .. n /\ f = [l \in 1 .. n |-> f[l]]
    OBVIOUS
  <2> HIDE DEF f, over
  <2>3. f \in [1 .. n -> over]
    BY <2>1, <2>2
  <2> QED
    BY <1>3, <2>3
<1>5. IsFiniteSet(over)
  <2>1. over \in SUBSET all
    OBVIOUS
  <2> HIDE DEF over
  <2> QED
    BY <2>1, FS_Subset
<1> HIDE DEF f
<1>6. f \in Injection(1 .. n, over)
  BY <1>4 DEF Injection, IsInjective
<1> HIDE DEF over
<1>7. Cardinality(1 .. n) <= Cardinality(over) /\ Cardinality(1 .. n) = n /\ Cardinality(over) \in Nat
  BY <1>2, <1>5, <1>6, FS_Injection, FS_Interval, FS_CardinalityType
<1>8. Cardinality(over) >= n
  BY <1>2, <1>7
<1> QED
  BY <1>8 DEF over

-------------------------------------------------------------------------------
(* A day's timeline. *)

LEMMA DayDrawn ==
  ASSUME NEW timed, IsFiniteSet(timed), Spans(timed)
  PROVE  LET laid == TimelineLanes(timed)
         IN  /\ {p.occ : p \in laid} = timed
             /\ \A p, q \in laid : p.occ # q.occ /\ Overlap(p.occ, q.occ) => p.lanes = q.lanes /\ p.lane # q.lane
             /\ \A p \in laid : \E q \in laid :
                  Cardinality({o \in laid : o.lanes = p.lanes /\ StartOf(o.occ) <= StartOf(q.occ)
                                            /\ StartOf(q.occ) < EndOf(o.occ)}) >= p.lanes
<1> DEFINE clusters == FoldLeft(AddToClusters, << >>, ByStart(timed))
           n == Len(clusters)
           Group(c) == ToSet(clusters[c].items)
           Part(c)  == LaidOut(clusters[c])
           laid == TimelineLanes(timed)
<1>1. Clustered(clusters, timed, timed)
  BY ClustersOfDay
<1>2. laid = UNION {Part(c) : c \in DOMAIN clusters}
  BY DEF TimelineLanes
<1> HIDE DEF clusters, laid
<1>3. n \in Nat /\ DOMAIN clusters = 1 .. n
  BY <1>1 DEF Clustered
<1>4. \A c \in 1 .. n : IsCluster(clusters[c], timed)
  BY <1>1, <1>3 DEF Clustered
<1>5. \A c \in 1 .. n : \E k : Drawn(Part(c), Group(c), k)
  BY <1>4, ClusterDrawn
<1>6. \A c, d \in 1 .. n : c < d => \A o \in Group(d) : clusters[c].end <= StartOf(o)
  BY <1>1, <1>3 DEF Clustered
<1>7. UNION {Group(c) : c \in 1 .. n} = timed
  BY <1>1, <1>3 DEF Clustered
<1>8. \A c \in 1 .. n : \A o \in Group(c) : EndOf(o) <= clusters[c].end /\ clusters[c].end \in Int
  BY <1>4 DEF IsCluster
<1>9. \A c \in 1 .. n : IsFiniteSet(Part(c)) /\ {p.occ : p \in Part(c)} = Group(c)
  BY <1>5 DEF Drawn
<1>10. laid = UNION {Part(c) : c \in 1 .. n}
  BY <1>2, <1>3
<1>11. \A o \in timed : StartOf(o) \in Int /\ EndOf(o) \in Int
  BY DEF Spans
<1> HIDE DEF n, Group, Part
<1>12. IsFiniteSet(laid)
  <2> DEFINE parts == {Part(c) : c \in 1 .. n}
             f == [c \in 1 .. n |-> Part(c)]
  <2>1. f \in Surjection(1 .. n, parts)
    BY DEF Surjection
  <2>2. \A part \in parts : IsFiniteSet(part)
    BY <1>9
  <2>3. IsFiniteSet(1 .. n)
    BY <1>3, FS_Interval
  <2> HIDE DEF f, parts
  <2>4. IsFiniteSet(parts)
    BY <2>1, <2>3, FS_Surjection
  <2>5. IsFiniteSet(UNION parts)
    BY <2>2, <2>4, FS_UNION
  <2> QED
    BY <1>10, <2>5 DEF parts
<1>13. \A c \in 1 .. n : \A p \in Part(c) : p.occ \in Group(c) /\ p.occ \in timed
  BY <1>7, <1>9
<1>14. {p.occ : p \in laid} = timed
  <2>1. \A p \in laid : p.occ \in timed
    BY <1>10, <1>13
  <2>2. ASSUME NEW o \in timed PROVE \E p \in laid : p.occ = o
    <3>1. PICK c \in 1 .. n : o \in Group(c)
      BY <1>7
    <3>2. PICK p \in Part(c) : p.occ = o
      BY <1>9, <3>1
    <3> QED
      BY <1>10, <3>2
  <2> QED
    BY <2>1, <2>2
\* An entry of an earlier cluster has ended when one of a later cluster starts.
<1>15. ASSUME NEW c \in 1 .. n, NEW d \in 1 .. n, c < d, NEW p \in Part(c), NEW q \in Part(d)
       PROVE  EndOf(p.occ) <= StartOf(q.occ)
  <2>1. EndOf(p.occ) <= clusters[c].end /\ clusters[c].end \in Int /\ clusters[c].end <= StartOf(q.occ)
    BY <1>6, <1>8, <1>13, <1>15
  <2>2. EndOf(p.occ) \in Int /\ StartOf(q.occ) \in Int
    BY <1>11, <1>13
  <2> QED
    BY <2>1, <2>2
<1>16. ASSUME NEW p \in laid, NEW q \in laid, p.occ # q.occ, Overlap(p.occ, q.occ)
       PROVE  p.lanes = q.lanes /\ p.lane # q.lane
  <2>1. PICK c \in 1 .. n, d \in 1 .. n : p \in Part(c) /\ q \in Part(d)
    BY <1>10
  <2>2. /\ StartOf(p.occ) < EndOf(q.occ) /\ StartOf(q.occ) < EndOf(p.occ)
        /\ \A o \in {p.occ, q.occ} : StartOf(o) \in Int /\ EndOf(o) \in Int
    BY <1>11, <1>13, <1>16, <2>1 DEF Overlap
  <2>3. ~(c < d) /\ ~(d < c)
    <3>1. c < d => EndOf(p.occ) <= StartOf(q.occ)
      BY <1>15, <2>1
    <3>2. d < c => EndOf(q.occ) <= StartOf(p.occ)
      BY <1>15, <2>1
    <3> QED
      BY <2>2, <3>1, <3>2
  <2>4. c = d
    BY <2>3
  <2>5. PICK k : Drawn(Part(c), Group(c), k)
    BY <1>5
  <2>6. p.lanes = k /\ q.lanes = k
    BY <2>1, <2>4, <2>5 DEF Drawn
  <2>7. p.lane = q.lane => EndOf(p.occ) <= StartOf(q.occ) \/ EndOf(q.occ) <= StartOf(p.occ)
    BY <1>16, <2>1, <2>4, <2>5 DEF Drawn
  <2> QED
    BY <2>2, <2>6, <2>7
<1>17. ASSUME NEW p \in laid
       PROVE  \E q \in laid : Cardinality({o \in laid : o.lanes = p.lanes /\ StartOf(o.occ) <= StartOf(q.occ)
                                                          /\ StartOf(q.occ) < EndOf(o.occ)}) >= p.lanes
  <2>1. PICK c \in 1 .. n : p \in Part(c)
    BY <1>10
  <2>2. PICK k : Drawn(Part(c), Group(c), k)
    BY <1>5
  <2>3. p.lanes = k /\ Part(c) # {} /\ Part(c) \subseteq laid
    BY <1>10, <2>1, <2>2 DEF Drawn
  <2>4. \E q \in Part(c) : Cardinality({o \in laid : o.lanes = k /\ StartOf(o.occ) <= StartOf(q.occ)
                                                       /\ StartOf(q.occ) < EndOf(o.occ)}) >= k
    BY <1>12, <2>2, <2>3, LanesFilled
  <2> QED
    BY <2>3, <2>4
<1> QED
  BY <1>14, <1>16, <1>17 DEF laid

\* The rail has a start and an end among those of the entries and its own.
LEMMA RailCovers ==
  ASSUME NEW timed, IsFiniteSet(timed), Spans(timed)
  PROVE  \A o \in timed : RailFor(timed).from <= StartOf(o) /\ EndOf(o) <= RailFor(timed).to
<1> DEFINE starts == {RailStart} \cup {StartOf(o) : o \in timed}
           ends   == {RailStart + RailLength} \cup {EndOf(o) : o \in timed}
<1>1. starts \subseteq Int /\ ends \subseteq Int /\ starts # {} /\ ends # {}
  BY DayAssumption DEF Spans
<1>2. IsFiniteSet(starts) /\ IsFiniteSet(ends)
  <2> DEFINE f == [o \in timed |-> StartOf(o)]
             g == [o \in timed |-> EndOf(o)]
  <2>1. f \in Surjection(timed, {StartOf(o) : o \in timed}) /\ g \in Surjection(timed, {EndOf(o) : o \in timed})
    BY DEF Surjection
  <2> HIDE DEF f, g
  <2>2. IsFiniteSet({StartOf(o) : o \in timed}) /\ IsFiniteSet({EndOf(o) : o \in timed})
    BY <2>1, FS_Surjection
  <2>3. IsFiniteSet({RailStart}) /\ IsFiniteSet({RailStart + RailLength})
    BY FS_Singleton
  <2> QED
    BY <2>2, <2>3, FS_Union
<1>3. /\ RailFor(timed).from = CHOOSE s \in starts : \A t \in starts : s <= t
      /\ RailFor(timed).to = CHOOSE e \in ends : \A t \in ends : e >= t
  BY DEF RailFor
<1>4. \A o \in timed : StartOf(o) \in starts /\ EndOf(o) \in ends
  OBVIOUS
<1> HIDE DEF starts, ends
<1>5. \E s \in starts : \A t \in starts : s <= t
  <2> DEFINE f == [s \in starts |-> -s]
  <2>1. f \in [starts -> Int]
    BY <1>1
  <2>2. PICK s \in starts : \A t \in starts : f[t] <= f[s]
    BY <1>1, <1>2, <2>1, Greatest
  <2> QED
    BY <1>1, <2>2
<1>6. \E e \in ends : \A t \in ends : e >= t
  <2> DEFINE f == [e \in ends |-> e]
  <2>1. f \in [ends -> Int]
    BY <1>1
  <2>2. PICK e \in ends : \A t \in ends : f[t] <= f[e]
    BY <1>1, <1>2, <2>1, Greatest
  <2> QED
    BY <1>1, <2>2
<1>7. /\ \A t \in starts : RailFor(timed).from <= t
      /\ \A t \in ends : t <= RailFor(timed).to
  BY <1>1, <1>3, <1>5, <1>6
<1> QED
  BY <1>4, <1>7

\* The entries shown on a day that can be drawn have a start and a later end.
LEMMA DaySpans ==
  ASSUME EntriesInv, IsFiniteSet(used), NEW d \in DaysDrawn
  PROVE  IsFiniteSet(TimedOn(d)) /\ Spans(TimedOn(d))
<1> DEFINE At(id)  == [id |-> id, start |-> entries[id].start, end |-> entries[id].end]
           f       == [id \in Stored |-> At(id)]
           images  == {At(id) : id \in Stored}
<1>1. IsFiniteSet(Stored)
  BY FS_Subset DEF EntriesInv, IdsUsed
<1>2. f \in Surjection(Stored, images)
  BY DEF Surjection
<1>3. TimedOn(d) \in SUBSET images
  <2>1. \A o \in Occurrences(d, d) : o.id \in Stored
    BY DEF Occurrences
  <2> QED
    BY <2>1 DEF TimedOn
<1> HIDE DEF f, images
<1>4. IsFiniteSet(TimedOn(d))
  BY <1>1, <1>2, <1>3, FS_Surjection, FS_Subset
<1>5. ASSUME NEW o \in TimedOn(d)
      PROVE  StartOf(o) \in Int /\ EndOf(o) \in Int /\ StartOf(o) < EndOf(o)
  <2>1. o.start \in Times /\ o.end \in Times
    BY DEF DaysDrawn
  <2>2. o.start \in Int /\ MinutesBetween(o.start, o.end) \in Int /\ MinutesBetween(o.start, o.end) > 0
    BY <2>1, DayAssumption DEF Times, MinutesBetween
  <2> QED
    BY <2>2 DEF StartOf, EndOf
<1> QED
  BY <1>4, <1>5 DEF Spans

\* Only finitely many entries are ever made.
LEMMA FiniteEntries == Spec => []IsFiniteSet(used)
<1>1. Init => IsFiniteSet(used)
  BY FS_EmptySet DEF Init
<1>2. IsFiniteSet(used) /\ [Next]_vars => IsFiniteSet(used)'
  <2>1. ASSUME [Next]_vars PROVE used' = used \/ \E id \in Ids : used' = used \cup {id}
    BY <2>1 DEF Next, vars, Create, BeginEdit, CommitEdit, Delete, Rollback
  <2> QED
    BY <2>1, FS_AddElement
<1> QED
  BY <1>1, <1>2, PTL DEF Spec

\* However many entries a day has, with whatever times: those that overlap stand side by
\* side in lanes of one width, no lane is wasted, and the rail reaches over them all.
THEOREM TimelineAlwaysReadable == Spec => []TimelineReadable
<1>1. EntriesInv /\ IsFiniteSet(used) => TimelineReadable
  <2> SUFFICES ASSUME EntriesInv, IsFiniteSet(used), NEW d \in DaysDrawn
               PROVE  /\ {p.occ : p \in TimelineLanes(TimedOn(d))} = TimedOn(d)
                      /\ \A p, q \in TimelineLanes(TimedOn(d)) :
                           p.occ # q.occ /\ Overlap(p.occ, q.occ) => p.lanes = q.lanes /\ p.lane # q.lane
                      /\ \A p \in TimelineLanes(TimedOn(d)) : \E q \in TimelineLanes(TimedOn(d)) :
                           Cardinality({o \in TimelineLanes(TimedOn(d)) :
                                          o.lanes = p.lanes /\ StartOf(o.occ) <= StartOf(q.occ)
                                          /\ StartOf(q.occ) < EndOf(o.occ)}) >= p.lanes
                      /\ \A o \in TimedOn(d) :
                           RailFor(TimedOn(d)).from <= StartOf(o) /\ EndOf(o) <= RailFor(TimedOn(d)).to
    BY DEF TimelineReadable, LanesApart, LanesNeeded, RailReaches
  <2> DEFINE timed == TimedOn(d)
  <2>1. IsFiniteSet(timed) /\ Spans(timed)
    BY DaySpans
  <2> HIDE DEF timed
  <2>2. /\ {p.occ : p \in TimelineLanes(timed)} = timed
        /\ \A p, q \in TimelineLanes(timed) :
             p.occ # q.occ /\ Overlap(p.occ, q.occ) => p.lanes = q.lanes /\ p.lane # q.lane
        /\ \A p \in TimelineLanes(timed) : \E q \in TimelineLanes(timed) :
             Cardinality({o \in TimelineLanes(timed) :
                            o.lanes = p.lanes /\ StartOf(o.occ) <= StartOf(q.occ)
                            /\ StartOf(q.occ) < EndOf(o.occ)}) >= p.lanes
    BY <2>1, DayDrawn
  <2>3. \A o \in timed : RailFor(timed).from <= StartOf(o) /\ EndOf(o) <= RailFor(timed).to
    BY <2>1, RailCovers
  <2> QED
    BY <2>2, <2>3 DEF timed
<1> QED
  BY <1>1, EntriesInvariant, FiniteEntries, PTL

-------------------------------------------------------------------------------
(* PlanScreen. *)

Sheets == {NoSheet, NewEntry} \cup {Edit(id) : id \in EntryIds}
Urls   == [page : {"week", "day"}, day : Int, week : Int, tick : Nat, sheet : Sheets]

\* What a screen may show: a day for each of some entries.
Views  == UNION {[ids -> Days] : ids \in SUBSET EntryIds}

Loads  == [n : Nat, range : SUBSET Days, live : BOOLEAN, pending : BOOLEAN,
           data : Views]
Writes == [kind : {"create"}, id : EntryIds \cup {NoId}, day : Days, returnTo : Urls,
           answer : {"none", "ok", "failed"}, inst : 1 .. MaxSheets, n : Nat]
          \cup [kind : {"update", "delete"}, id : EntryIds, day : Days \cup {NoDay}, returnTo : Urls,
                answer : {"none", "ok", "failed"}, inst : 1 .. MaxSheets, n : Nat]

\* Every variable of the plan screens keeps its type, and what is on the screen
\* falls on days the plan has.
ScreenTypeOK ==
  /\ server \in [EntryIds -> Days \cup {NoDay}]
  /\ creator \in [EntryIds -> {Unmade} \cup 0 .. MaxSheets]
  /\ url \in Urls /\ RangeOf(url) \subseteq Days
  /\ shown \in Views
  /\ loads \subseteq Loads
  /\ sheet \in [inst : 0 .. MaxSheets, editing : EntryIds \cup {NoId}, loading : BOOLEAN, busy : BOOLEAN]
  /\ writes \subseteq Writes /\ IsFiniteSet(writes)
  /\ ticks \in Nat /\ reads \in Nat /\ mounts \in 0 .. MaxSheets /\ mishaps \in Nat
  /\ unsure \in [1 .. MaxSheets -> Nat]
  /\ failed \in BOOLEAN /\ behind \in BOOLEAN

\* At most one read is not cancelled, it is of the range in the address, and no
\* address has a tick of the future.
LoadsFollow ==
  /\ \A l \in loads : l.live => l.range = RangeOf(url)
  /\ \A k, l \in loads : k.live /\ l.live => k = l
  /\ url.tick <= ticks

\* No write went through that the screen has not heard of.
Heard == ~behind /\ \A w \in writes : w.answer # "ok"

\* What was read is still stored, on its way to the screen and on it.
ReadStands ==
  /\ \A l \in loads : Heard /\ l.live /\ ~l.pending => l.data = OccurrencesIn(l.range)
  /\ Heard /\ ~failed /\ (\A l \in loads : ~l.live) => shown = OccurrencesIn(RangeOf(url))

\* A sheet has one request at a time, and the instances to come have none.
OneWrite ==
  /\ \A v, w \in writes : v.inst = w.inst => v = w
  /\ ~sheet.busy => \A w \in writes : w.inst # sheet.inst
  /\ \A w \in writes : w.inst <= mounts
  /\ sheet.inst <= mounts
  /\ sheet.inst = 0 <=> url.sheet = NoSheet
  /\ sheet.inst = 0 => sheet = NoInstance

Made(n) == {id \in EntryIds : creator[id] = n}

\* Sheet n may still store an entry: it is open or its request is under way, and
\* none of its answers says that it did.
MayStore(n) ==
  /\ sheet.inst = n \/ \E w \in writes : w.inst = n
  /\ \A w \in writes : w.inst = n => w.answer # "ok"

MadeOnce ==
  \A n \in 1 .. MaxSheets :
    /\ IsFiniteSet(Made(n)) /\ Cardinality(Made(n)) <= 1 + unsure[n]
    /\ MayStore(n) => Cardinality(Made(n)) <= unsure[n]
    /\ n > mounts => Made(n) = {}

PlanInv == ScreenTypeOK /\ LoadsFollow /\ ReadStands /\ OneWrite /\ MadeOnce

-------------------------------------------------------------------------------
(* Addresses and ranges. *)

LEMMA DaysFacts == Days \subseteq Nat /\ NoDay \notin Days /\ Today \in Days /\ Today \in Int
BY ScreenAssumption DEF Days, NoDay

LEMMA SheetFacts ==
  /\ NoSheet \in Sheets /\ NewEntry \in Sheets /\ \A id \in EntryIds : Edit(id) \in Sheets
  /\ \A s \in Sheets : s.id \in EntryIds \cup {NoId}
<1>1. NoSheet.id = NoId /\ NewEntry.id = NoId /\ \A id \in EntryIds : Edit(id).id = id
  BY DEF NoSheet, NewEntry, Edit
<1> QED
  BY <1>1 DEF Sheets

LEMMA WeekStartType ==
  ASSUME NEW d \in Int
  PROVE  WeekStart(d) \in Int
<1>1. WeekLength \in Nat \ {0}
  BY ScreenAssumption
<1>2. d % WeekLength \in Int
  BY <1>1
<1> QED
  BY <1>2 DEF WeekStart

LEMMA UrlType ==
  /\ \A monday \in Int : WeekUrl(monday) \in Urls /\ WeekUrl(monday).tick = 0
  /\ \A d \in Int : DayUrl(d) \in Urls /\ DayUrl(d).tick = 0
  /\ PlanPath \in Urls /\ PlanPath.tick = 0 /\ PlanPath.sheet = NoSheet
  /\ \A d \in Int : NewEntryUrl(d) \in Urls /\ NewEntryUrl(d).tick = 0
  /\ \A id \in EntryIds : EditOnWeekUrl(id) \in Urls /\ EditOnWeekUrl(id).tick = 0
  /\ \A id \in EntryIds, d \in Int : EditOnDayUrl(id, d) \in Urls /\ EditOnDayUrl(id, d).tick = 0
  /\ \A to \in Urls, tick \in Nat : WithTick(to, tick) \in Urls /\ WithTick(to, tick).tick = tick
                                    /\ RangeOf(WithTick(to, tick)) = RangeOf(to)
<1>1. Today \in Int /\ WeekStart(Today) \in Int
  BY DaysFacts, WeekStartType
<1>2. \A monday \in Int : WeekUrl(monday) \in Urls /\ WeekUrl(monday).tick = 0
  BY <1>1, SheetFacts DEF WeekUrl, Urls
<1>3. \A d \in Int : DayUrl(d) \in Urls /\ DayUrl(d).tick = 0
  BY <1>1, SheetFacts DEF DayUrl, Urls
<1>4. PlanPath \in Urls /\ PlanPath.tick = 0 /\ PlanPath.sheet = NoSheet
  BY <1>1, <1>2 DEF PlanPath, WeekUrl
<1>5. \A d \in Int : NewEntryUrl(d) \in Urls /\ NewEntryUrl(d).tick = 0
  BY <1>4, SheetFacts DEF NewEntryUrl, Urls
<1>6. \A id \in EntryIds : EditOnWeekUrl(id) \in Urls /\ EditOnWeekUrl(id).tick = 0
  BY <1>4, SheetFacts DEF EditOnWeekUrl, Urls
<1>7. \A id \in EntryIds, d \in Int : EditOnDayUrl(id, d) \in Urls /\ EditOnDayUrl(id, d).tick = 0
  BY <1>3, SheetFacts DEF EditOnDayUrl, Urls
<1>8. ASSUME NEW to \in Urls, NEW tick \in Nat
      PROVE  /\ WithTick(to, tick) \in Urls /\ WithTick(to, tick).tick = tick
             /\ RangeOf(WithTick(to, tick)) = RangeOf(to)
  BY DEF WithTick, Urls, RangeOf
<1> QED
  BY <1>2, <1>3, <1>4, <1>5, <1>6, <1>7, <1>8

\* What a range holds is shown on its days.
LEMMA OccurrencesType ==
  ASSUME server \in [EntryIds -> Days \cup {NoDay}], NEW range \in SUBSET Days
  PROVE  OccurrencesIn(range) \in Views
<1> DEFINE ids == {id \in EntryIds : server[id] \in range}
<1>1. OccurrencesIn(range) \in [ids -> Days]
  BY DEF OccurrencesIn
<1> QED
  BY <1>1 DEF Views

LEMMA NothingType == Nothing \in Views
<1>1. Nothing \in [{} -> Days] /\ {} \in SUBSET EntryIds
  BY DEF Nothing
<1> QED
  BY <1>1 DEF Views

\* Every link leads to an address of the app.
LEMMA LinksType ==
  ASSUME ScreenTypeOK
  PROVE  \A to \in HeaderLinks \cup EntryLinks : to \in Urls /\ to.tick = 0
<1>1. url.day \in Int /\ url.week \in Int /\ Today \in Int /\ WeekLength \in Nat
  BY DaysFacts, ScreenAssumption DEF ScreenTypeOK, Urls
<1>2. RangeOf(url) \subseteq Int /\ DaysOffered \subseteq Int
  BY <1>1 DEF RangeOf, DaysOffered
<1>3. WeekStart(url.day) \in Int
  BY <1>1, WeekStartType
<1>4. ASSUME NEW to \in HeaderLinks PROVE to \in Urls /\ to.tick = 0
  <2> DEFINE FromDay  == {url.day - 1, url.day, url.day + 1, Today}
             FromWeek == {url.week - WeekLength, url.week + WeekLength, WeekStart(url.day)}
             ForNew   == DaysOffered \cup {url.week, url.day}
  <2>1. FromDay \subseteq Int /\ FromWeek \subseteq Int /\ ForNew \subseteq Int
    <3>1. url.day - 1 \in Int /\ url.day + 1 \in Int
      BY <1>1
    <3>2. url.week - WeekLength \in Int /\ url.week + WeekLength \in Int
      BY <1>1
    <3> QED
      BY <1>1, <1>2, <1>3, <3>1, <3>2
  <2>2. \/ to = PlanPath
        \/ \E d \in FromDay \cup DaysOffered : to = DayUrl(d)
        \/ \E monday \in FromWeek : to = WeekUrl(monday)
        \/ \E d \in ForNew : to = NewEntryUrl(d)
    <3>1. CASE url.page = "day"
      BY <3>1 DEF HeaderLinks
    <3>2. CASE url.page # "day"
      BY <3>2 DEF HeaderLinks
    <3> QED
      BY <3>1, <3>2
  <2> HIDE DEF FromDay, FromWeek, ForNew
  <2> QED
    BY <1>2, <2>1, <2>2, UrlType
<1>5. DOMAIN shown \subseteq EntryIds
  BY DEF ScreenTypeOK, Views
<1>6. \A to \in EntryLinks : to \in Urls /\ to.tick = 0
  BY <1>1, <1>5, UrlType DEF EntryLinks
<1> QED
  BY <1>4, <1>6

LEMMA ReturnToType ==
  ASSUME ScreenTypeOK
  PROVE  ReturnTo \in Urls /\ ReturnTo.tick = 0
<1>1. url.day \in Int
  BY DEF ScreenTypeOK, Urls
<1> QED
  BY <1>1, UrlType DEF ReturnTo

-------------------------------------------------------------------------------
(* Steps of the screen.                                                        *)

\* A new address keeps the types.  Its sheet, if it has one, is a new instance.
LEMMA ShowStep ==
  ASSUME ScreenTypeOK, LoadsFollow, ReadStands, NEW to \in Urls, Show(to),
         to.tick <= ticks', ticks' \in Nat, ticks <= ticks',
         server' = server, Heard' => (Heard \/ Rereads(to))
  PROVE  /\ url' \in Urls /\ RangeOf(url)' \subseteq Days
         /\ shown' \in Views
         /\ loads' \subseteq Loads /\ reads' \in Nat
         /\ failed' \in BOOLEAN /\ behind' \in BOOLEAN
         /\ LoadsFollow' /\ ReadStands'
<1> DEFINE new == Load(RangeOf(to))
           Drop(l) == [l EXCEPT !.live = FALSE, !.pending = TRUE, !.data = Nothing]
<1>1. url' = to /\ RangeOf(to) \subseteq Days /\ RangeOf(url)' = RangeOf(to)
  BY DEF Show, RangeOf
<1>2. OccurrencesIn(RangeOf(url))' = OccurrencesIn(RangeOf(to))
  BY <1>1 DEF OccurrencesIn
<1>3. CASE Rereads(to)
  <2>1. /\ reads' = reads + 1 /\ loads' = Cancelled \cup {new}
        /\ shown' = IF to.page = url.page THEN shown ELSE Nothing
        /\ behind' = FALSE /\ failed' = IF to.page = url.page THEN failed ELSE FALSE
    BY <1>3 DEF Show
  <2>2. new \in Loads /\ new.live /\ new.pending /\ new.range = RangeOf(to)
    BY <1>1, NothingType DEF Load, Loads, ScreenTypeOK
  <2>3. \A l \in loads : Drop(l) \in Loads /\ ~Drop(l).live
    BY NothingType DEF Loads, ScreenTypeOK
  <2>4. \A l \in loads' : l \in Loads /\ (l.live => l = new)
    BY <2>1, <2>2, <2>3 DEF Cancelled
  <2>5. LoadsFollow'
    BY <1>1, <2>2, <2>4 DEF LoadsFollow
  <2>6. ReadStands'
    BY <2>1, <2>2, <2>4 DEF ReadStands
  <2>7. shown' \in Views /\ failed' \in BOOLEAN /\ behind' \in BOOLEAN /\ reads' \in Nat
    <3>1. shown \in Views /\ failed \in BOOLEAN /\ reads \in Nat
      BY DEF ScreenTypeOK
    <3>2. shown' \in Views /\ reads' \in Nat
      BY <2>1, <3>1, NothingType
    <3>3. failed' \in BOOLEAN /\ behind' \in BOOLEAN
      BY <2>1, <3>1
    <3> QED
      BY <3>2, <3>3
  <2>8. loads' \subseteq Loads
    BY <2>4
  <2> QED
    BY <1>1, <2>5, <2>6, <2>7, <2>8
<1>4. CASE ~Rereads(to)
  <2>1. UNCHANGED <<reads, loads, shown, behind, failed>> /\ RangeOf(to) = RangeOf(url)
    BY <1>4 DEF Show, Rereads
  <2>2. LoadsFollow'
    BY <1>1, <2>1 DEF LoadsFollow
  <2>3. ReadStands'
    <3>1. \A range : OccurrencesIn(range)' = OccurrencesIn(range)
      BY DEF OccurrencesIn
    <3>2. Heard' => Heard
      BY <1>4
    <3> QED
      BY <1>1, <1>2, <2>1, <3>1, <3>2 DEF ReadStands
  <2> QED
    BY <1>1, <2>1, <2>2, <2>3 DEF ScreenTypeOK
<1> QED
  BY <1>3, <1>4

LEMMA ShowSheet ==
  ASSUME ScreenTypeOK, NEW to \in Urls, Show(to)
  PROVE  /\ \/ to.sheet = NoSheet /\ sheet' = NoInstance /\ mounts' = mounts
            \/ /\ to.sheet # NoSheet /\ mounts' = mounts + 1 /\ mounts' \in 1 .. MaxSheets
               /\ sheet'.inst = mounts' /\ sheet'.busy = FALSE
         /\ sheet' \in [inst : 0 .. MaxSheets, editing : EntryIds \cup {NoId}, loading : BOOLEAN, busy : BOOLEAN]
         /\ mounts' \in 0 .. MaxSheets
         /\ url'.sheet = to.sheet
<1>1. NoInstance \in [inst : 0 .. MaxSheets, editing : EntryIds \cup {NoId}, loading : BOOLEAN, busy : BOOLEAN]
  BY ScreenAssumption DEF NoInstance
<1>2. MaxSheets \in Nat
  BY ScreenAssumption
<1>3. CASE to.sheet = NoSheet
  BY <1>1, <1>3 DEF Show, ScreenTypeOK
<1>4. CASE to.sheet # NoSheet
  <2>1. mounts < MaxSheets /\ mounts' = mounts + 1
        /\ sheet' = [NoInstance EXCEPT !.inst = mounts', !.loading = to.sheet.kind = "edit"]
    BY <1>4 DEF Show
  <2>2. mounts' \in 1 .. MaxSheets
    BY <1>2, <2>1 DEF ScreenTypeOK
  <2>3. sheet'.inst = mounts' /\ sheet'.busy = FALSE
    BY <2>1 DEF NoInstance
  <2>4. sheet' \in [inst : 0 .. MaxSheets, editing : EntryIds \cup {NoId}, loading : BOOLEAN, busy : BOOLEAN]
    <3> DEFINE opens == to.sheet.kind = "edit"
    <3>1. opens \in BOOLEAN
      OBVIOUS
    <3>2. sheet' = [NoInstance EXCEPT !.inst = mounts', !.loading = opens]
      BY <2>1
    <3>3. mounts' \in 0 .. MaxSheets
      BY <1>2, <2>2
    <3> HIDE DEF opens
    <3> QED
      BY <3>1, <3>2, <3>3 DEF NoInstance
  <2> QED
    BY <1>4, <2>1, <2>2, <2>3, <2>4 DEF Show
<1> QED
  BY <1>3, <1>4

\* The entries a sheet made are the same, and so may it store another.
LEMMA SameMade ==
  ASSUME MadeOnce, creator' = creator, unsure' = unsure, mounts \in Nat, mounts' \in Nat, mounts' >= mounts,
         \A n \in 1 .. MaxSheets : MayStore(n)' => MayStore(n) \/ n > mounts,
         unsure \in [1 .. MaxSheets -> Nat]
  PROVE  MadeOnce'
<1>1. \A n : Made(n)' = Made(n)
  BY DEF Made
<1>2. Cardinality({}) = 0
  BY FS_EmptySet
<1> SUFFICES ASSUME NEW n \in 1 .. MaxSheets
             PROVE  /\ IsFiniteSet(Made(n)') /\ Cardinality(Made(n)') <= 1 + unsure'[n]
                    /\ MayStore(n)' => Cardinality(Made(n)') <= unsure'[n]
                    /\ n > mounts' => Made(n)' = {}
  BY DEF MadeOnce
<1>3. /\ IsFiniteSet(Made(n)) /\ Cardinality(Made(n)) <= 1 + unsure[n]
      /\ MayStore(n) => Cardinality(Made(n)) <= unsure[n]
      /\ n > mounts => Made(n) = {}
  BY DEF MadeOnce
<1>4. n \in Nat /\ unsure[n] \in Nat /\ Cardinality(Made(n)) \in Nat
  BY <1>3, FS_CardinalityType
<1>5. Cardinality(Made(n)) <= 1 + unsure'[n] /\ (MayStore(n)' => Cardinality(Made(n)) <= unsure'[n])
  <2>1. CASE n > mounts
    <3>1. Cardinality(Made(n)) = 0
      BY <1>2, <1>3, <2>1
    <3> QED
      BY <1>4, <3>1
  <2>2. CASE ~(n > mounts)
    BY <1>3, <1>4, <2>2
  <2> QED
    BY <2>1, <2>2
<1>6. n > mounts' => n > mounts
  BY <1>4
<1> QED
  BY <1>1, <1>3, <1>5, <1>6

\* A step that shows another address, with the writes it leaves.
LEMMA ShowWrites ==
  ASSUME PlanInv, NEW to \in Urls, Show(to), writes' \subseteq writes,
         UNCHANGED <<creator, unsure>>,
         \A w \in writes \ writes' : \A v \in writes' : v.inst # w.inst
  PROVE  OneWrite' /\ MadeOnce' /\ writes' \subseteq Writes /\ IsFiniteSet(writes')
<1> DEFINE Opened == /\ to.sheet # NoSheet /\ mounts' = mounts + 1
                     /\ sheet'.inst = mounts' /\ sheet'.busy = FALSE
           Shut   == to.sheet = NoSheet /\ sheet' = NoInstance /\ mounts' = mounts
<1> USE DEF PlanInv
<1>0. (Opened \/ Shut) /\ mounts' \in 0 .. MaxSheets /\ url'.sheet = to.sheet
  BY ShowSheet
<1>1. writes' \subseteq Writes /\ IsFiniteSet(writes')
  BY FS_Subset DEF ScreenTypeOK
<1>2. \A w \in writes : w.inst \in 1 .. MaxSheets
  BY DEF ScreenTypeOK, Writes
<1>3. mounts \in Nat /\ mounts' \in Nat /\ mounts' >= mounts /\ sheet.inst \in Nat
  <2>1. mounts \in Nat
    BY DEF ScreenTypeOK
  <2> QED
    BY <1>0, <2>1 DEF ScreenTypeOK
<1>4. OneWrite'
  <2>1. NoInstance.inst = 0 /\ NoInstance.busy = FALSE
    BY DEF NoInstance
  <2>2. \A w \in writes' : w.inst <= mounts' /\ w.inst # sheet'.inst
    <3>1. \A w \in writes' : w.inst <= mounts /\ w.inst \in Nat /\ w.inst # 0
      BY <1>2 DEF OneWrite
    <3>2. sheet'.inst = 0 \/ sheet'.inst = mounts + 1
      BY <1>0, <2>1
    <3> QED
      BY <1>3, <3>1, <3>2
  <2>3. sheet'.inst <= mounts' /\ (sheet'.inst = 0 <=> url'.sheet = NoSheet)
    BY <1>0, <1>3, <2>1
  <2>4. sheet'.inst = 0 => sheet' = NoInstance
    BY <1>0, <1>3
  <2> QED
    BY <2>2, <2>3, <2>4 DEF OneWrite
<1>5. \A n \in 1 .. MaxSheets : MayStore(n)' => MayStore(n) \/ n > mounts
  <2> SUFFICES ASSUME NEW n \in 1 .. MaxSheets, MayStore(n)', n <= mounts PROVE MayStore(n)
    BY <1>3
  <2>1. sheet'.inst # n
    <3>1. sheet'.inst = 0 \/ sheet'.inst = mounts + 1
      BY <1>0 DEF NoInstance
    <3> QED
      BY <1>3, <3>1
  <2>2. PICK w \in writes' : w.inst = n
    BY <2>1 DEF MayStore
  <2>3. \A v \in writes : v.inst = n => v = w
    BY <2>2 DEF OneWrite
  <2> QED
    BY <2>2, <2>3 DEF MayStore
<1>6. MadeOnce'
  <2>1. unsure \in [1 .. MaxSheets -> Nat]
    BY DEF ScreenTypeOK
  <2> QED
    BY <1>3, <1>5, <2>1, SameMade
<1> QED
  BY <1>1, <1>4, <1>6

\* A link, the tab bar, a sheet that is closed.
LEMMA ShowQuiet ==
  ASSUME PlanInv, NEW to \in Urls, to.tick = 0, Show(to),
         UNCHANGED <<server, creator, writes, ticks, mishaps, unsure>>
  PROVE  PlanInv'
<1> USE DEF PlanInv
<1>1. ticks' = ticks /\ ticks \in Nat /\ server' = server /\ writes' = writes
  BY DEF ScreenTypeOK
<1>2. Heard' => (Heard \/ Rereads(to))
  BY <1>1 DEF Heard, Show
<1>3. /\ url' \in Urls /\ RangeOf(url)' \subseteq Days
      /\ shown' \in Views
      /\ loads' \subseteq Loads /\ reads' \in Nat
      /\ failed' \in BOOLEAN /\ behind' \in BOOLEAN
      /\ LoadsFollow' /\ ReadStands'
  BY <1>1, <1>2, ShowStep
<1>4. OneWrite' /\ MadeOnce' /\ writes' \subseteq Writes /\ IsFiniteSet(writes')
  BY <1>1, ShowWrites
<1>5. ScreenTypeOK'
  BY <1>3, <1>4, ShowSheet DEF ScreenTypeOK
<1> QED
  BY <1>3, <1>4, <1>5

LEMMA LinkSteps ==
  ASSUME PlanInv, Follow \/ PlanTab \/ CloseSheet
  PROVE  PlanInv'
<1>1. ScreenTypeOK
  BY DEF PlanInv
<1>2. CASE Follow
  <2>1. PICK to \in HeaderLinks \cup EntryLinks : Show(to)
    BY <1>2 DEF Follow
  <2>2. to \in Urls /\ to.tick = 0
    BY <1>1, LinksType
  <2> QED
    BY <1>2, <2>1, <2>2, ShowQuiet DEF Follow
<1>3. CASE PlanTab
  BY <1>3, UrlType, ShowQuiet DEF PlanTab
<1>4. CASE CloseSheet
  BY <1>1, <1>4, ReturnToType, ShowQuiet DEF CloseSheet
<1> QED
  BY <1>2, <1>3, <1>4

\* Steps that leave the sheet and its requests alone, or what is read.
LEMMA SheetKept ==
  ASSUME PlanInv, UNCHANGED <<creator, unsure, writes, mounts, url>>,
         sheet'.inst = sheet.inst, sheet'.busy = sheet.busy, sheet.inst = 0 => sheet' = sheet
  PROVE  OneWrite' /\ MadeOnce'
<1> USE DEF PlanInv
<1>1. OneWrite'
  BY DEF OneWrite
<1>2. \A n : MayStore(n)' => MayStore(n)
  BY DEF MayStore
<1>3. mounts \in Nat /\ mounts' = mounts /\ unsure \in [1 .. MaxSheets -> Nat]
  BY DEF ScreenTypeOK
<1> QED
  BY <1>1, <1>2, <1>3, SameMade

LEMMA ReadKept ==
  ASSUME PlanInv, UNCHANGED <<url, shown, loads, ticks, failed>>,
         Heard' => Heard /\ server' = server
  PROVE  LoadsFollow' /\ ReadStands'
<1> USE DEF PlanInv
<1>1. LoadsFollow' /\ RangeOf(url)' = RangeOf(url)
  BY DEF LoadsFollow, RangeOf
<1>2. Heard' => \A range : OccurrencesIn(range)' = OccurrencesIn(range)
  BY DEF OccurrencesIn
<1>3. ReadStands'
  BY <1>1, <1>2 DEF ReadStands
<1> QED
  BY <1>1, <1>3

-------------------------------------------------------------------------------
LEMMA ServeLoadStep ==
  ASSUME PlanInv, NEW l \in loads, ServeLoad(l)
  PROVE  PlanInv'
<1> DEFINE next == [l EXCEPT !.pending = FALSE, !.data = OccurrencesIn(l.range)]
<1> USE DEF PlanInv
<1>1. /\ loads' = (loads \ {l}) \cup {next} /\ l.live
      /\ UNCHANGED <<server, creator, url, shown, sheet, ticks, reads, mounts, writes, mishaps, unsure,
                     failed, behind>>
  BY DEF ServeLoad, screenVars, histVars
<1>2. l \in Loads /\ OccurrencesIn(l.range) \in Views
  <2>1. l \in Loads /\ l.range \in SUBSET Days
    BY DEF ScreenTypeOK, Loads
  <2> QED
    BY <2>1, OccurrencesType DEF ScreenTypeOK
<1>3. /\ next \in Loads /\ next.live /\ ~next.pending /\ next.range = l.range
      /\ next.data = OccurrencesIn(l.range)
  BY <1>1, <1>2 DEF Loads
<1>4. /\ Heard' = Heard /\ RangeOf(url)' = RangeOf(url)
      /\ \A range : OccurrencesIn(range)' = OccurrencesIn(range)
  BY <1>1 DEF Heard, RangeOf, OccurrencesIn
<1> HIDE DEF next
<1>5. LoadsFollow'
  BY <1>1, <1>3, <1>4 DEF LoadsFollow
<1>6. ReadStands'
  BY <1>1, <1>3, <1>4 DEF ReadStands, LoadsFollow
<1>7. OneWrite' /\ MadeOnce'
  BY <1>1, SheetKept
<1>8. loads' \subseteq Loads
  BY <1>1, <1>3 DEF ScreenTypeOK
<1>9. ScreenTypeOK'
  BY <1>1, <1>4, <1>8 DEF ScreenTypeOK
<1> QED
  BY <1>5, <1>6, <1>7, <1>9

LEMMA SettleLoadStep ==
  ASSUME PlanInv, NEW l \in loads, SettleLoad(l)
  PROVE  PlanInv'
<1> USE DEF PlanInv
<1>1. /\ loads' = loads \ {l} /\ (l.live => ~l.pending)
      /\ UNCHANGED <<server, creator, url, sheet, ticks, reads, mounts, writes, mishaps, unsure, behind>>
      /\ IF l.live THEN shown' = l.data /\ failed' = FALSE ELSE UNCHANGED <<shown, failed>>
  BY DEF SettleLoad
<1>2. l.data \in Views
  BY DEF ScreenTypeOK, Loads
<1>3. /\ Heard' = Heard /\ RangeOf(url)' = RangeOf(url)
      /\ \A range : OccurrencesIn(range)' = OccurrencesIn(range)
  BY <1>1 DEF Heard, RangeOf, OccurrencesIn
<1>4. LoadsFollow'
  BY <1>1, <1>3 DEF LoadsFollow
<1>5. ReadStands'
  <2>1. CASE l.live
    BY <1>1, <1>3, <2>1 DEF ReadStands, LoadsFollow
  <2>2. CASE ~l.live
    BY <1>1, <1>3, <2>2 DEF ReadStands
  <2> QED
    BY <2>1, <2>2
<1>6. OneWrite' /\ MadeOnce'
  BY <1>1, SheetKept
<1>7. shown' \in Views /\ failed' \in BOOLEAN
  <2>1. shown \in Views /\ failed \in BOOLEAN
    BY DEF ScreenTypeOK
  <2> QED
    BY <1>1, <1>2, <2>1
<1>8. ScreenTypeOK'
  BY <1>1, <1>3, <1>7 DEF ScreenTypeOK
<1> QED
  BY <1>4, <1>5, <1>6, <1>8

LEMMA FailLoadStep ==
  ASSUME PlanInv, NEW l \in loads, FailLoad(l)
  PROVE  PlanInv'
<1> USE DEF PlanInv
<1>1. /\ loads' = loads \ {l} /\ shown' = Nothing /\ failed' = TRUE /\ mishaps' = mishaps + 1
      /\ UNCHANGED <<server, creator, url, sheet, ticks, reads, mounts, writes, unsure, behind>>
  BY DEF FailLoad
<1>2. /\ Heard' = Heard /\ RangeOf(url)' = RangeOf(url)
      /\ \A range : OccurrencesIn(range)' = OccurrencesIn(range)
  BY <1>1 DEF Heard, RangeOf, OccurrencesIn
<1>3. LoadsFollow' /\ ReadStands'
  BY <1>1, <1>2 DEF LoadsFollow, ReadStands
<1>4. OneWrite' /\ MadeOnce'
  BY <1>1, SheetKept
<1>5. ScreenTypeOK'
  BY <1>1, <1>2, NothingType DEF ScreenTypeOK
<1> QED
  BY <1>3, <1>4, <1>5

LEMMA EntrySteps ==
  ASSUME PlanInv, LoadEntry \/ FailEntry
  PROVE  PlanInv'
<1> USE DEF PlanInv
<1>1. /\ UNCHANGED <<server, creator, url, shown, ticks, reads, mounts, loads, writes, unsure, failed, behind>>
      /\ mishaps' \in Nat /\ sheet.loading
  BY DEF LoadEntry, FailEntry, histVars, ScreenTypeOK
<1>2. url.sheet.id \in EntryIds \cup {NoId}
  BY SheetFacts DEF ScreenTypeOK, Urls
<1>3. \E id \in EntryIds \cup {NoId} : sheet' = [sheet EXCEPT !.loading = FALSE, !.editing = id]
  <2>1. CASE LoadEntry
    BY <1>2, <2>1 DEF LoadEntry
  <2>2. CASE FailEntry
    <3>1. sheet' = [sheet EXCEPT !.loading = FALSE, !.editing = sheet.editing]
      BY <2>2 DEF FailEntry, ScreenTypeOK
    <3> QED
      BY <3>1 DEF ScreenTypeOK
  <2> QED
    BY <2>1, <2>2
<1>4. /\ sheet' \in [inst : 0 .. MaxSheets, editing : EntryIds \cup {NoId}, loading : BOOLEAN, busy : BOOLEAN]
      /\ sheet'.inst = sheet.inst /\ sheet'.busy = sheet.busy
  BY <1>3 DEF ScreenTypeOK
<1>5. sheet.inst # 0
  BY <1>1 DEF OneWrite, NoInstance
<1>6. OneWrite' /\ MadeOnce'
  BY <1>1, <1>4, <1>5, SheetKept
<1>7. LoadsFollow' /\ ReadStands'
  BY <1>1, ReadKept DEF Heard
<1>8. RangeOf(url)' = RangeOf(url)
  BY <1>1 DEF RangeOf
<1>9. ScreenTypeOK'
  BY <1>1, <1>4, <1>8 DEF ScreenTypeOK
<1> QED
  BY <1>6, <1>7, <1>9

-------------------------------------------------------------------------------
(* Requests of the sheet.                                                      *)

LEMMA SendStep ==
  ASSUME PlanInv, NEW kind \in {"create", "update", "delete"}, NEW day,
         kind = "create" => day \in Days,
         kind # "create" => day \in Days \cup {NoDay} /\ sheet.editing \in EntryIds,
         ~sheet.busy, sheet.inst # 0, Send(Request(kind, day))
  PROVE  PlanInv'
<1> DEFINE new == [Request(kind, day) EXCEPT !.inst = sheet.inst, !.n = Cardinality(writes)]
<1> USE DEF PlanInv
<1>1. /\ sheet' = [sheet EXCEPT !.busy = TRUE] /\ writes' = writes \cup {new}
      /\ UNCHANGED <<server, creator, url, shown, ticks, reads, mounts, loads, mishaps, unsure, failed, behind>>
  BY DEF Send, histVars
<1>2. sheet.inst \in 1 .. MaxSheets /\ sheet.editing \in EntryIds \cup {NoId}
  BY ScreenAssumption DEF ScreenTypeOK
<1>3. new = [kind |-> kind, id |-> sheet.editing, day |-> day, returnTo |-> ReturnTo,
                answer |-> "none", inst |-> sheet.inst, n |-> Cardinality(writes)]
  <2> DEFINE n      == Cardinality(writes)
             return == ReturnTo
  <2>1. new = [[kind |-> kind, id |-> sheet.editing, day |-> day, returnTo |-> return,
                answer |-> "none", inst |-> 0, n |-> 0] EXCEPT !.inst = sheet.inst, !.n = n]
    BY DEF Request
  <2> HIDE DEF n, return, new
  <2>2. new = [kind |-> kind, id |-> sheet.editing, day |-> day, returnTo |-> return,
               answer |-> "none", inst |-> sheet.inst, n |-> n]
    BY <2>1
  <2> QED
    BY <2>2 DEF n, return
<1>4. new \in Writes /\ new.inst = sheet.inst /\ new.answer = "none"
  <2>1. Cardinality(writes) \in Nat
    BY FS_CardinalityType DEF ScreenTypeOK
  <2>2. ReturnTo \in Urls
    BY ReturnToType
  <2> HIDE DEF new
  <2> QED
    BY <1>2, <1>3, <2>1, <2>2 DEF Writes
<1> HIDE DEF new
<1>5. /\ sheet' \in [inst : 0 .. MaxSheets, editing : EntryIds \cup {NoId}, loading : BOOLEAN, busy : BOOLEAN]
      /\ sheet'.inst = sheet.inst /\ sheet'.busy
  BY <1>1 DEF ScreenTypeOK
<1>6. writes' \subseteq Writes /\ IsFiniteSet(writes')
  BY <1>1, <1>4, FS_AddElement DEF ScreenTypeOK
<1>7. OneWrite'
  BY <1>1, <1>4, <1>5 DEF OneWrite
<1>8. MadeOnce'
  <2>1. \A n \in 1 .. MaxSheets : MayStore(n)' => MayStore(n)
    BY <1>1, <1>4, <1>5 DEF MayStore
  <2>2. mounts \in Nat /\ mounts' = mounts /\ unsure \in [1 .. MaxSheets -> Nat]
    BY <1>1 DEF ScreenTypeOK
  <2> QED
    BY <1>1, <2>1, <2>2, SameMade
<1>9. Heard' => Heard
  BY <1>1, <1>4 DEF Heard
<1>10. LoadsFollow' /\ ReadStands'
  BY <1>1, <1>9, ReadKept
<1>11. RangeOf(url)' = RangeOf(url)
  BY <1>1 DEF RangeOf
<1>12. ScreenTypeOK'
  BY <1>1, <1>5, <1>6, <1>11 DEF ScreenTypeOK
<1> QED
  BY <1>7, <1>8, <1>10, <1>12

LEMMA SaveSteps ==
  ASSUME PlanInv, DeleteEntry \/ \E d \in FormDays : Save(d)
  PROVE  PlanInv'
<1> USE DEF PlanInv
<1>1. sheet.editing \in EntryIds \cup {NoId} /\ FormDays \subseteq Days
  BY ScreenAssumption DEF ScreenTypeOK
<1>2. ASSUME NEW d \in FormDays, Save(d) PROVE PlanInv'
  <2>1. sheet.inst # 0 /\ ~sheet.busy
    BY <1>2 DEF Save, OneWrite
  <2>2. CASE sheet.editing = NoId
    <3>1. Send(Request("create", d))
      BY <1>2, <2>2 DEF Save
    <3> QED
      BY <1>1, <2>1, <3>1, SendStep
  <2>3. CASE sheet.editing # NoId
    <3>1. Send(Request("update", d)) /\ sheet.editing \in EntryIds
      BY <1>1, <1>2, <2>3 DEF Save
    <3> QED
      BY <1>1, <2>1, <3>1, SendStep
  <2> QED
    BY <2>2, <2>3
<1>3. ASSUME DeleteEntry PROVE PlanInv'
  <2>1. sheet.inst # 0 /\ ~sheet.busy /\ sheet.editing \in EntryIds /\ Send(Request("delete", NoDay))
    BY <1>1, <1>3 DEF DeleteEntry, OneWrite, NoInstance
  <2> QED
    BY <2>1, SendStep
<1> QED
  BY <1>2, <1>3

\* One request of the sheet is replaced by the same with an answer.
LEMMA AnswerWritten ==
  ASSUME PlanInv, NEW w \in writes, NEW answer \in {"none", "ok", "failed"},
         writes' = (writes \ {w}) \cup {[w EXCEPT !.answer = answer]},
         UNCHANGED <<sheet, mounts, url>>
  PROVE  /\ writes' \subseteq Writes /\ IsFiniteSet(writes')
         /\ OneWrite'
         /\ w.inst \in 1 .. MaxSheets
         /\ \A n \in 1 .. MaxSheets : n # w.inst => (MayStore(n)' => MayStore(n))
         /\ w.answer # "ok" => MayStore(w.inst)
         /\ answer = "ok" => ~MayStore(w.inst)'
<1> DEFINE next == [w EXCEPT !.answer = answer]
<1> USE DEF PlanInv
<1>1. w \in Writes
  BY DEF ScreenTypeOK
<1>2. next \in Writes /\ next.inst = w.inst /\ next.answer = answer
  BY <1>1 DEF Writes
<1> HIDE DEF next
<1>3. writes' \subseteq Writes
  BY <1>2 DEF ScreenTypeOK, next
<1>4. IsFiniteSet(writes')
  <2>1. IsFiniteSet(writes \ {w})
    BY FS_RemoveElement DEF ScreenTypeOK
  <2> QED
    BY <2>1, FS_AddElement
<1>5. writes' = (writes \ {w}) \cup {next}
  BY DEF next
<1>6. OneWrite'
  BY <1>2, <1>5 DEF OneWrite
<1>7. w.inst \in 1 .. MaxSheets
  BY <1>1 DEF Writes
<1>8. \A n \in 1 .. MaxSheets : n # w.inst => (MayStore(n)' => MayStore(n))
  BY <1>2, <1>5 DEF MayStore
<1>9. w.answer # "ok" => MayStore(w.inst)
  BY DEF MayStore, OneWrite
<1>10. answer = "ok" => ~MayStore(w.inst)'
  BY <1>2, <1>5 DEF MayStore
<1> QED
  BY <1>3, <1>4, <1>6, <1>7, <1>8, <1>9, <1>10

LEMMA ServeStep ==
  ASSUME PlanInv, NEW w \in writes, Serve(w)
  PROVE  PlanInv'
<1> DEFINE answer == IF w.kind = "create" \/ server[w.id] # NoDay THEN "ok" ELSE "failed"
<1> USE DEF PlanInv
<1>1. /\ writes' = (writes \ {w}) \cup {[w EXCEPT !.answer = answer]} /\ w.answer = "none"
      /\ UNCHANGED <<url, shown, sheet, ticks, reads, mounts, loads, mishaps, unsure, failed, behind>>
  BY DEF Serve, screenVars, histVars
<1>2. answer \in {"ok", "failed"} /\ w \in Writes
  BY DEF ScreenTypeOK
<1>3. /\ writes' \subseteq Writes /\ IsFiniteSet(writes') /\ OneWrite'
      /\ w.inst \in 1 .. MaxSheets
      /\ \A n \in 1 .. MaxSheets : n # w.inst => (MayStore(n)' => MayStore(n))
      /\ MayStore(w.inst)
      /\ answer = "ok" => ~MayStore(w.inst)'
  <2> HIDE DEF answer
  <2> QED
    BY <1>1, <1>2, AnswerWritten
<1>4. /\ server' \in [EntryIds -> Days \cup {NoDay}]
      /\ creator' \in [EntryIds -> {Unmade} \cup 0 .. MaxSheets]
      /\ answer = "failed" => server' = server /\ w.kind # "create"
  <2>1. CASE w.kind = "create"
    <3>1. PICK id \in EntryIds : /\ creator' = [creator EXCEPT ![id] = w.inst]
                                 /\ server' = [server EXCEPT ![id] = w.day]
      BY <2>1 DEF Serve
    <3>2. w.day \in Days /\ w.inst \in 0 .. MaxSheets
      BY <1>2, <1>3, <2>1 DEF Writes
    <3> QED
      BY <2>1, <3>1, <3>2 DEF ScreenTypeOK
  <2>2. CASE w.kind # "create"
    <3>1. creator' = creator
          /\ server' = IF server[w.id] = NoDay THEN server ELSE [server EXCEPT ![w.id] = w.day]
      BY <2>2 DEF Serve
    <3>2. w.day \in Days \cup {NoDay}
      BY <1>2, <2>2 DEF Writes
    <3> QED
      BY <2>2, <3>1, <3>2 DEF ScreenTypeOK
  <2> QED
    BY <2>1, <2>2
<1>5. Heard' => Heard /\ server' = server
  <2>1. [w EXCEPT !.answer = answer] \in writes' /\ [w EXCEPT !.answer = answer].answer = answer
    BY <1>1, <1>2 DEF Writes
  <2>2. Heard' => answer # "ok" /\ ~behind /\ \A v \in writes \ {w} : v.answer # "ok"
    BY <1>1, <2>1 DEF Heard
  <2> QED
    BY <1>1, <1>2, <1>4, <2>2 DEF Heard
<1>6. LoadsFollow' /\ ReadStands'
  BY <1>1, <1>5, ReadKept
<1>7. MadeOnce'
  <2>1. CASE w.kind # "create"
    <3>1. creator' = creator
      BY <2>1 DEF Serve
    <3>2. mounts \in Nat /\ mounts' = mounts /\ unsure \in [1 .. MaxSheets -> Nat]
      BY <1>1 DEF ScreenTypeOK
    <3>3. \A n \in 1 .. MaxSheets : MayStore(n)' => MayStore(n)
      BY <1>3
    <3> QED
      BY <1>1, <3>1, <3>2, <3>3, SameMade
  <2>2. ASSUME w.kind = "create", NEW n \in 1 .. MaxSheets
        PROVE  /\ IsFiniteSet(Made(n)') /\ Cardinality(Made(n)') <= 1 + unsure'[n]
               /\ MayStore(n)' => Cardinality(Made(n)') <= unsure'[n]
               /\ n > mounts' => Made(n)' = {}
    <3>1. PICK id \in EntryIds : creator[id] = Unmade /\ creator' = [creator EXCEPT ![id] = w.inst]
      BY <2>2 DEF Serve
    <3>2. /\ IsFiniteSet(Made(n)) /\ Cardinality(Made(n)) <= 1 + unsure[n]
          /\ MayStore(n) => Cardinality(Made(n)) <= unsure[n]
          /\ n > mounts => Made(n) = {}
      BY DEF MadeOnce
    <3>3. n \in Nat /\ n # Unmade /\ unsure[n] \in Nat /\ Cardinality(Made(n)) \in Nat
      BY <3>2, FS_CardinalityType DEF ScreenTypeOK, Unmade
    <3>4. CASE n # w.inst
      <4>1. Made(n)' = Made(n)
        BY <3>1, <3>3, <3>4 DEF Made, ScreenTypeOK
      <4> QED
        BY <1>1, <1>3, <3>2, <3>4, <4>1
    <3>5. CASE n = w.inst
      <4>1. Made(n)' = Made(n) \cup {id} /\ id \notin Made(n)
        BY <3>1, <3>3, <3>5 DEF Made, ScreenTypeOK
      <4>2. IsFiniteSet(Made(n)') /\ Cardinality(Made(n)') = Cardinality(Made(n)) + 1
        BY <3>2, <4>1, FS_AddElement
      <4>3. Cardinality(Made(n)') <= 1 + unsure'[n]
        BY <1>1, <1>3, <3>2, <3>3, <3>5, <4>2
      <4>4. ~MayStore(n)'
        BY <1>3, <2>2, <3>5
      <4>5. n <= mounts'
        BY <1>1, <3>5 DEF OneWrite
      <4>6. ~(n > mounts')
        BY <1>1, <3>3, <4>5 DEF ScreenTypeOK
      <4> QED
        BY <4>2, <4>3, <4>4, <4>6
    <3> QED
      BY <3>4, <3>5
  <2> QED
    BY <2>1, <2>2 DEF MadeOnce
<1>8. RangeOf(url)' = RangeOf(url)
  BY <1>1 DEF RangeOf
<1>9. ScreenTypeOK'
  BY <1>1, <1>3, <1>4, <1>8 DEF ScreenTypeOK
<1> QED
  BY <1>3, <1>6, <1>7, <1>9

LEMMA LoseStep ==
  ASSUME PlanInv, NEW w \in writes, Lose(w)
  PROVE  PlanInv'
<1> USE DEF PlanInv
<1>1. /\ writes' = (writes \ {w}) \cup {[w EXCEPT !.answer = "failed"]}
      /\ UNCHANGED <<server, creator, url, shown, sheet, ticks, reads, mounts, loads, failed>>
      /\ mishaps' = mishaps + 1
      /\ unsure' = [unsure EXCEPT ![w.inst] = IF w.answer = "ok" THEN @ + 1 ELSE @]
      /\ behind' = (behind \/ w.answer = "ok")
  BY DEF Lose, screenVars
<1>2. /\ writes' \subseteq Writes /\ IsFiniteSet(writes') /\ OneWrite'
      /\ w.inst \in 1 .. MaxSheets
      /\ \A n \in 1 .. MaxSheets : n # w.inst => (MayStore(n)' => MayStore(n))
      /\ w.answer # "ok" => MayStore(w.inst)
  BY <1>1, AnswerWritten
<1>3. Heard' => Heard
  BY <1>1 DEF Heard
<1>4. LoadsFollow' /\ ReadStands'
  BY <1>1, <1>3, ReadKept
<1>5. ASSUME NEW n \in 1 .. MaxSheets
      PROVE  /\ IsFiniteSet(Made(n)') /\ Cardinality(Made(n)') <= 1 + unsure'[n]
             /\ MayStore(n)' => Cardinality(Made(n)') <= unsure'[n]
             /\ n > mounts' => Made(n)' = {}
  <2>1. Made(n)' = Made(n) /\ mounts' = mounts
    BY <1>1 DEF Made
  <2>2. /\ IsFiniteSet(Made(n)) /\ Cardinality(Made(n)) <= 1 + unsure[n]
        /\ MayStore(n) => Cardinality(Made(n)) <= unsure[n]
        /\ n > mounts => Made(n) = {}
    BY DEF MadeOnce
  <2>3. unsure[n] \in Nat /\ Cardinality(Made(n)) \in Nat
    BY <2>2, FS_CardinalityType DEF ScreenTypeOK
  <2>4. unsure'[n] = IF n = w.inst /\ w.answer = "ok" THEN unsure[n] + 1 ELSE unsure[n]
    BY <1>1 DEF ScreenTypeOK
  <2>5. CASE n = w.inst /\ w.answer = "ok"
    BY <2>1, <2>2, <2>3, <2>4, <2>5
  <2>6. CASE ~(n = w.inst /\ w.answer = "ok")
    <3>1. MayStore(n)' => MayStore(n)
      BY <1>2, <2>6
    <3> QED
      BY <2>1, <2>2, <2>3, <2>4, <2>6, <3>1
  <2> QED
    BY <2>5, <2>6
<1>6. MadeOnce'
  BY <1>5 DEF MadeOnce
<1>7. RangeOf(url)' = RangeOf(url)
  BY <1>1 DEF RangeOf
<1>8. unsure' \in [1 .. MaxSheets -> Nat]
  BY <1>1, <1>2 DEF ScreenTypeOK
<1>9. behind' \in BOOLEAN /\ mishaps' \in Nat
  <2>1. behind \in BOOLEAN /\ mishaps \in Nat
    BY DEF ScreenTypeOK
  <2> QED
    BY <1>1, <2>1
<1>10. ScreenTypeOK'
  BY <1>1, <1>2, <1>7, <1>8, <1>9 DEF ScreenTypeOK
<1> QED
  BY <1>2, <1>4, <1>6, <1>10

LEMMA AnswerStep ==
  ASSUME PlanInv, NEW w \in writes, Answer(w)
  PROVE  PlanInv'
<1> USE DEF PlanInv
<1>1. /\ writes' = writes \ {w} /\ UNCHANGED <<server, creator, mishaps, unsure>> /\ w \in Writes
  BY DEF Answer, ScreenTypeOK
<1>2. ticks \in Nat /\ \A v \in writes' : v.inst # w.inst
  BY <1>1 DEF ScreenTypeOK, OneWrite
<1>3. CASE w.answer = "ok"
  <2> DEFINE to == WithTick(w.returnTo, ticks')
  <2>1. ticks' = ticks + 1 /\ Show(to)
    BY <1>3 DEF Answer
  <2>2. w.returnTo \in Urls
    BY <1>1 DEF Writes
  <2>3. ticks' \in Nat /\ ticks <= ticks'
    BY <1>2, <2>1
  <2>4. to \in Urls /\ to.tick = ticks'
    BY <2>2, <2>3, UrlType
  <2>5. Rereads(to)
    <3>1. url.tick \in Nat /\ url.tick <= ticks
      BY DEF ScreenTypeOK, Urls, LoadsFollow
    <3>2. to.tick # url.tick
      BY <1>2, <2>1, <2>4, <3>1
    <3> HIDE DEF to
    <3> QED
      BY <3>2 DEF Rereads
  <2>6. to.tick <= ticks'
    BY <2>3, <2>4
  <2> HIDE DEF to
  <2>7. /\ url' \in Urls /\ RangeOf(url)' \subseteq Days
        /\ shown' \in Views
        /\ loads' \subseteq Loads /\ reads' \in Nat
        /\ failed' \in BOOLEAN /\ behind' \in BOOLEAN
        /\ LoadsFollow' /\ ReadStands'
    BY <1>1, <2>1, <2>3, <2>4, <2>5, <2>6, ShowStep
  <2>8. OneWrite' /\ MadeOnce' /\ writes' \subseteq Writes /\ IsFiniteSet(writes')
    BY <1>1, <1>2, <2>1, <2>4, ShowWrites
  <2>9. ScreenTypeOK'
    BY <1>1, <2>1, <2>3, <2>4, <2>7, <2>8, ShowSheet DEF ScreenTypeOK
  <2> QED
    BY <2>7, <2>8, <2>9
<1>4. CASE w.answer # "ok"
  <2>1. /\ sheet' = IF sheet.inst = w.inst THEN [sheet EXCEPT !.busy = FALSE] ELSE sheet
        /\ UNCHANGED <<url, shown, ticks, reads, mounts, loads, failed, behind>>
    BY <1>4 DEF Answer, histVars
  <2>2. w.inst \in 1 .. MaxSheets
    BY <1>1 DEF Writes
  <2>3. /\ sheet' \in [inst : 0 .. MaxSheets, editing : EntryIds \cup {NoId}, loading : BOOLEAN, busy : BOOLEAN]
        /\ sheet'.inst = sheet.inst
        /\ sheet.inst # w.inst => sheet' = sheet
        /\ sheet.inst = 0 => sheet' = sheet
    <3>1. sheet \in [inst : 0 .. MaxSheets, editing : EntryIds \cup {NoId}, loading : BOOLEAN, busy : BOOLEAN]
      BY DEF ScreenTypeOK
    <3>2. w.inst # 0
      BY <2>2
    <3>3. CASE sheet.inst = w.inst
      <4>1. sheet' = [sheet EXCEPT !.busy = FALSE]
        BY <2>1, <3>3
      <4> QED
        BY <3>1, <3>2, <3>3, <4>1
    <3>4. CASE sheet.inst # w.inst
      BY <2>1, <3>1, <3>4
    <3> QED
      BY <3>3, <3>4
  <2>4. OneWrite'
    BY <1>1, <1>2, <2>1, <2>3 DEF OneWrite
  <2>5. \A n \in 1 .. MaxSheets : MayStore(n)' => MayStore(n)
    BY <1>1, <1>4, <2>3 DEF MayStore
  <2>6. mounts \in Nat /\ mounts' = mounts /\ unsure \in [1 .. MaxSheets -> Nat]
    BY <2>1 DEF ScreenTypeOK
  <2>7. MadeOnce'
    BY <1>1, <2>5, <2>6, SameMade
  <2>8. Heard' => Heard
    BY <1>1, <1>4, <2>1 DEF Heard
  <2>9. LoadsFollow' /\ ReadStands'
    BY <1>1, <2>1, <2>8, ReadKept
  <2>10. RangeOf(url)' = RangeOf(url)
    BY <2>1 DEF RangeOf
  <2>11. writes' \subseteq Writes /\ IsFiniteSet(writes')
    BY <1>1, FS_Subset DEF ScreenTypeOK
  <2>12. ScreenTypeOK'
    BY <1>1, <2>1, <2>3, <2>10, <2>11 DEF ScreenTypeOK
  <2> QED
    BY <2>4, <2>7, <2>9, <2>12
<1> QED
  BY <1>3, <1>4

LEMMA ElsewhereStep ==
  ASSUME PlanInv, NEW id \in EntryIds, Elsewhere(id)
  PROVE  PlanInv'
<1> USE DEF PlanInv
<1>1. /\ mishaps' = mishaps + 1 /\ behind' = TRUE
      /\ UNCHANGED <<url, shown, sheet, ticks, reads, mounts, loads, writes, unsure, failed>>
      /\ creator' = [creator EXCEPT ![id] = IF @ = Unmade THEN ByOther ELSE @]
  BY DEF Elsewhere, screenVars
<1>2. PICK d \in FormDays \cup {NoDay} : server' = [server EXCEPT ![id] = d]
  BY DEF Elsewhere
<1>3. FormDays \subseteq Days /\ MaxSheets \in Nat
  BY ScreenAssumption
<1>4. /\ server' \in [EntryIds -> Days \cup {NoDay}]
      /\ creator' \in [EntryIds -> {Unmade} \cup 0 .. MaxSheets]
  BY <1>1, <1>2, <1>3 DEF ScreenTypeOK, ByOther
<1>5. LoadsFollow' /\ ReadStands'
  BY <1>1, ReadKept DEF Heard
<1>6. OneWrite'
  BY <1>1 DEF OneWrite
<1>7. ASSUME NEW n \in 1 .. MaxSheets PROVE Made(n)' = Made(n) /\ MayStore(n)' = MayStore(n)
  <2>1. n # Unmade /\ n # ByOther
    BY DEF Unmade, ByOther
  <2>2. Made(n)' = Made(n)
    BY <1>1, <2>1 DEF Made, ScreenTypeOK
  <2> QED
    BY <1>1, <2>2 DEF MayStore
<1>8. MadeOnce'
  BY <1>1, <1>7 DEF MadeOnce
<1>9. RangeOf(url)' = RangeOf(url)
  BY <1>1 DEF RangeOf
<1>10. ScreenTypeOK'
  BY <1>1, <1>4, <1>9 DEF ScreenTypeOK
<1> QED
  BY <1>5, <1>6, <1>8, <1>10

-------------------------------------------------------------------------------
LEMMA PlanStart == ScreenInit => PlanInv
<1> SUFFICES ASSUME ScreenInit PROVE PlanInv
  OBVIOUS
<1> DEFINE first == [n |-> 1, range |-> RangeOf(url), live |-> TRUE, pending |-> TRUE, data |-> Nothing]
<1>1. url = PlanPath /\ url \in Urls /\ url.tick = 0 /\ url.sheet = NoSheet
  BY UrlType DEF ScreenInit
<1>2. RangeOf(url) \subseteq Days
  <2>1. url.page = "week" /\ url.week = WeekStart(Today)
    BY <1>1 DEF PlanPath, WeekUrl
  <2>2. RangeOf(url) = WeekStart(Today) .. WeekStart(Today) + WeekLength - 1
    BY <2>1 DEF RangeOf
  <2>3. {WeekStart(Today), WeekStart(Today) + WeekLength - 1} \subseteq Days
    BY ScreenAssumption DEF WeekStart
  <2>4. LastDay \in Nat /\ WeekLength \in Nat
    BY ScreenAssumption
  <2> QED
    BY <2>2, <2>3, <2>4 DEF Days
<1>3. /\ loads = {first} /\ writes = {} /\ sheet = NoInstance /\ shown = Nothing /\ ticks = 0
      /\ reads = 1 /\ mounts = 0 /\ mishaps = 0 /\ failed = FALSE /\ behind = FALSE
      /\ unsure = [n \in 1 .. MaxSheets |-> 0]
      /\ server \in [EntryIds -> {Today, NoDay}]
      /\ creator = [id \in EntryIds |-> IF server[id] = NoDay THEN Unmade ELSE ByOther]
  BY DEF ScreenInit
<1>4. MaxSheets \in Nat /\ Today \in Days
  BY ScreenAssumption
<1>5. first \in Loads /\ first.live /\ first.pending /\ first.range = RangeOf(url)
  BY <1>2, NothingType DEF Loads
<1> HIDE DEF first
<1>6. ScreenTypeOK
  <2>1. IsFiniteSet(writes)
    BY <1>3, FS_EmptySet
  <2>2. sheet \in [inst : 0 .. MaxSheets, editing : EntryIds \cup {NoId}, loading : BOOLEAN, busy : BOOLEAN]
    BY <1>3, <1>4 DEF NoInstance
  <2>3. server \in [EntryIds -> Days \cup {NoDay}] /\ creator \in [EntryIds -> {Unmade} \cup 0 .. MaxSheets]
    BY <1>3, <1>4 DEF ByOther
  <2>4. /\ loads \subseteq Loads /\ shown \in Views /\ writes \subseteq Writes
        /\ ticks \in Nat /\ reads \in Nat /\ mounts \in 0 .. MaxSheets /\ mishaps \in Nat
        /\ unsure \in [1 .. MaxSheets -> Nat] /\ failed \in BOOLEAN /\ behind \in BOOLEAN
    <3>1. unsure \in [1 .. MaxSheets -> Nat] /\ mounts \in 0 .. MaxSheets
      BY <1>3, <1>4
    <3>2. failed \in BOOLEAN /\ behind \in BOOLEAN
      BY <1>3
    <3>3. loads \subseteq Loads /\ shown \in Views /\ writes \subseteq Writes
      BY <1>3, <1>5, NothingType
    <3> QED
      BY <1>3, <3>1, <3>2, <3>3
  <2> QED
    BY <1>1, <1>2, <2>1, <2>2, <2>3, <2>4 DEF ScreenTypeOK
<1>7. LoadsFollow /\ ReadStands
  BY <1>1, <1>3, <1>5 DEF LoadsFollow, ReadStands
<1>8. OneWrite
  BY <1>1, <1>3 DEF OneWrite, NoInstance
<1>9. ASSUME NEW n \in 1 .. MaxSheets PROVE Made(n) = {} /\ unsure[n] = 0
  BY <1>3 DEF Made, Unmade, ByOther
<1>10. MadeOnce
  BY <1>9, FS_EmptySet DEF MadeOnce
<1> QED
  BY <1>6, <1>7, <1>8, <1>10 DEF PlanInv

LEMMA PlanStep == PlanInv /\ [ScreenNext]_planVars => PlanInv'
<1> SUFFICES ASSUME PlanInv, [ScreenNext]_planVars PROVE PlanInv'
  OBVIOUS
<1>1. CASE UNCHANGED planVars
  <2>1. UNCHANGED <<server, creator, url, shown, sheet, ticks, reads, mounts, loads, writes, mishaps,
                    unsure, failed, behind>>
    BY <1>1 DEF planVars, screenVars, histVars
  <2>2. RangeOf(url)' = RangeOf(url) /\ Heard' = Heard
    BY <2>1 DEF RangeOf, Heard
  <2>3. OneWrite' /\ MadeOnce' /\ LoadsFollow' /\ ReadStands'
    BY <2>1, <2>2, SheetKept, ReadKept
  <2>4. ScreenTypeOK'
    BY <2>1, <2>2 DEF PlanInv, ScreenTypeOK
  <2> QED
    BY <2>3, <2>4 DEF PlanInv
<1>2. CASE Follow \/ PlanTab \/ CloseSheet
  BY <1>2, LinkSteps
<1>3. ASSUME NEW l \in loads, ServeLoad(l) \/ SettleLoad(l) \/ FailLoad(l) PROVE PlanInv'
  BY <1>3, ServeLoadStep, SettleLoadStep, FailLoadStep
<1>4. CASE LoadEntry \/ FailEntry
  BY <1>4, EntrySteps
<1>5. CASE DeleteEntry \/ \E d \in FormDays : Save(d)
  BY <1>5, SaveSteps
<1>6. ASSUME NEW w \in writes, Serve(w) \/ Lose(w) \/ Answer(w) PROVE PlanInv'
  BY <1>6, ServeStep, LoseStep, AnswerStep
<1>7. ASSUME NEW id \in EntryIds, Elsewhere(id) PROVE PlanInv'
  BY <1>7, ElsewhereStep
<1> QED
  BY <1>1, <1>2, <1>3, <1>4, <1>5, <1>6, <1>7 DEF ScreenNext

LEMMA PlanAlways == ScreenSpec => []PlanInv
BY PlanStart, PlanStep, PTL DEF ScreenSpec

\* Every variable of the plan screens keeps its type; nothing is shown on a day the
\* plan does not have, through every link, sheet and late answer.
THEOREM ScreenTypeCorrect == ScreenSpec => []ScreenTypeOK
<1>1. PlanInv => ScreenTypeOK
  BY DEF PlanInv
<1> QED
  BY <1>1, PlanAlways, PTL

\* When its requests are answered for and nothing is being read, a screen shows the
\* range in its address as it is stored, unless it was told that it could not be read
\* or an answer was lost, or another device made a change: useOccurrences' cancelled
\* reads, sheets closed under a request and answers on another page included.
THEOREM ShowsStored == ScreenSpec => []PlanShowsStored
<1>1. PlanInv => PlanShowsStored
  BY DEF PlanInv, ReadStands, Heard, PlanShowsStored
<1> QED
  BY <1>1, PlanAlways, PTL

\* However often Save is pressed, closed and answered late, a sheet stores one new
\* entry, and one more for each of its answers that was lost.
THEOREM StoresOnce == ScreenSpec => []SheetStoresOnce
<1>1. PlanInv => SheetStoresOnce
  BY DEF PlanInv, MadeOnce, Made, SheetStoresOnce
<1> QED
  BY <1>1, PlanAlways, PTL
===============================================================================
