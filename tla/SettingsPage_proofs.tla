-------------------------- MODULE SettingsPage_proofs --------------------------
(***************************************************************************)
(* Theorems about SettingsPage, for all fields, values, defaults, tags and *)
(* bounds: the form first, then the tags card.                             *)
(***************************************************************************)
EXTENDS SettingsPage, FiniteSetTheorems, TLAPS

Bodies   == {NoBody} \cup {BodyOf(f, v) : f \in Fields, v \in Values}
Stages   == {"sent", "missing", "inserted", "found", "answered"}
Rows     == Settings \cup {NoRow}
Requests == [n : Nat, body : Bodies, previous : Settings, stage : Stages, seen : Rows,
             heard : BOOLEAN, alone : BOOLEAN]

\* Every variable of the settings form keeps its type.
FormTypeOK ==
  /\ row \in Rows
  /\ page \in Pages
  /\ settings \in Settings /\ loading \in BOOLEAN
  /\ requests \subseteq Requests /\ IsFiniteSet(requests)
  /\ mounts \in Nat /\ saves \in Nat /\ mishaps \in Nat
  /\ excused \in BOOLEAN

-------------------------------------------------------------------------------
(* The inductive invariant. *)

\* What a transaction has read, and what an answer carries.
Sound(q) ==
  /\ q.stage = "found" => row # NoRow
  /\ q.stage = "inserted" => row = NoRow
  /\ q.stage \in {"found", "inserted"} => q.seen \in Settings
  /\ q.stage = "answered" /\ q.body = NoBody => q.seen \in Settings

RequestsSound == \A q \in requests : Sound(q)

\* The unique constraint admits one uncommitted row.
InsertsApart ==
  \A p, q \in requests : p.stage = "inserted" /\ q.stage = "inserted" => p = q

\* No two requests are taken for one.
NamesApart == \A p, q \in requests : p.n = q.n => p = q

FormInv == FormTypeOK /\ RequestsSound /\ InsertsApart /\ NamesApart

-------------------------------------------------------------------------------
(* Names and bodies. *)

\* There is always a name no request has: there are more names than requests.
LEMMA FreshName ==
  ASSUME IsFiniteSet(requests)
  PROVE  Fresh \in Nat /\ \A q \in requests : q.n # Fresh
<1> DEFINE Numbers == 0 .. Cardinality(requests)
           name  == [q \in requests |-> q.n]
           Given == {name[q] : q \in requests}
<1>1. Cardinality(requests) \in Nat
  BY FS_CardinalityType
<1>2. IsFiniteSet(Given) /\ Cardinality(Given) <= Cardinality(requests)
  <2>1. name \in Surjection(requests, Given)
    BY DEF Surjection
  <2> QED
    BY <2>1, FS_Surjection
<1>3. Cardinality(Numbers) = Cardinality(requests) + 1
  BY <1>1, FS_Interval
<1>4. \E n \in Numbers : n \notin Given
  <2>1. ASSUME Numbers \subseteq Given PROVE FALSE
    <3>1. Cardinality(Numbers) <= Cardinality(Given)
      BY <1>2, <2>1, FS_Subset
    <3>2. Cardinality(Given) \in Nat
      BY <1>2, FS_CardinalityType
    <3> QED
      BY <1>1, <1>2, <1>3, <3>1, <3>2
  <2> QED
    BY <2>1
<1>5. \E n \in Numbers : \A q \in requests : q.n # n
  BY <1>4
<1>6. Fresh \in Numbers /\ \A q \in requests : q.n # Fresh
  BY <1>5 DEF Fresh
<1> QED
  BY <1>1, <1>6

LEMMA BodyFacts ==
  ASSUME NEW f \in Fields, NEW v \in Values
  PROVE  /\ BodyOf(f, v) \in Bodies /\ BodyOf(f, v) # NoBody
         /\ NoBody \in Bodies
<1>1. f \in DOMAIN BodyOf(f, v) /\ f \notin DOMAIN NoBody
  BY DEF BodyOf, NoBody
<1> QED
  BY <1>1 DEF Bodies

LEMMA BodyShape ==
  ASSUME NEW body \in Bodies
  PROVE  \A f \in DOMAIN body : f \in Fields /\ body[f] \in Values
<1>1. CASE body = NoBody
  BY <1>1 DEF NoBody
<1>2. ASSUME NEW f \in Fields, NEW v \in Values, body = BodyOf(f, v)
      PROVE  \A g \in DOMAIN body : g \in Fields /\ body[g] \in Values
  BY <1>2 DEF BodyOf
<1> QED
  BY <1>1, <1>2 DEF Bodies

\* Over a row a body gives values to its own fields only.
LEMMA BodyWrites ==
  ASSUME NEW body \in Bodies, NEW base \in Settings
  PROVE  Over(body, base) \in Settings
<1>1. \A f \in Fields : base[f] \in Values
  BY DEF Settings
<1> QED
  BY <1>1, BodyShape DEF Over, Settings

\* And so does the UPDATE.
LEMMA WrittenFacts ==
  ASSUME row \in Settings, NEW q \in Requests
  PROVE  /\ Written(q) \in Settings
         /\ \A f \in Fields : Written(q)[f] # row[f] =>
              f \in DOMAIN q.body /\ Written(q)[f] = q.body[f]
<1>1. \A f \in DOMAIN q.body : f \in Fields /\ q.body[f] \in Values
  <2>1. q.body \in Bodies
    BY DEF Requests
  <2> QED
    BY <2>1, BodyShape
<1>2. \A f \in Fields : row[f] \in Values
  BY DEF Settings
<1>3. Written(q) \in Settings
  BY <1>1, <1>2 DEF Written, Settings
<1>4. \A f \in Fields : Written(q)[f] # row[f] => f \in DOMAIN q.body /\ Written(q)[f] = q.body[f]
  BY DEF Written
<1> QED
  BY <1>3, <1>4

-------------------------------------------------------------------------------
(* Steps of the page: requests are begun, forgotten or no longer heard, and the *)
(* row stays as it is.                                                          *)

\* The same transaction, whoever waits for it.
Same(p, q) == p.n = q.n /\ p.stage = q.stage /\ p.seen = q.seen /\ p.body = q.body

LEMMA PageKeepsRequests ==
  ASSUME FormInv, row' = row, NamesApart',
         \A p \in requests' : \/ \E q \in requests : Same(p, q)
                             \/ p.stage = "sent"
  PROVE  RequestsSound' /\ InsertsApart'
<1>1. RequestsSound'
  BY DEF FormInv, RequestsSound, Sound, Same
<1>2. ASSUME NEW p \in requests', NEW q \in requests', p.stage = "inserted", q.stage = "inserted"
      PROVE  p = q
  <2>1. PICK p0 \in requests : Same(p, p0)
    BY <1>2
  <2>2. PICK q0 \in requests : Same(q, q0)
    BY <1>2
  <2>3. p0 = q0
    BY <1>2, <2>1, <2>2 DEF FormInv, InsertsApart, Same
  <2> QED
    BY <2>1, <2>2, <2>3 DEF NamesApart, Same
<1> QED
  BY <1>1, <1>2 DEF InsertsApart

LEMMA RequestType ==
  ASSUME FormTypeOK, NEW body \in Bodies
  PROVE  /\ Request(Fresh, body) \in Requests
         /\ Request(Fresh, body).stage = "sent" /\ Request(Fresh, body).n = Fresh
         /\ [Request(Fresh, body) EXCEPT !.previous = DefaultSettings] \in Requests
         /\ [Request(Fresh, body) EXCEPT !.heard = FALSE, !.previous = DefaultSettings] \in Requests
         /\ \A alone \in BOOLEAN : [Request(Fresh, body) EXCEPT !.alone = alone] \in Requests
<1>1. Fresh \in Nat
  BY FreshName DEF FormTypeOK
<1> QED
  BY <1>1, FormAssumption DEF FormTypeOK, Request, Requests, Rows, Stages

LEMMA OpenStep ==
  ASSUME FormInv, NEW to \in Pages, Open(to)
  PROVE  FormInv'
<1> DEFINE new == [Request(Fresh, NoBody) EXCEPT !.previous = DefaultSettings]
           Silent(q) == [q EXCEPT !.heard = FALSE, !.previous = DefaultSettings]
           Left == {q \in requests : q.stage # "answered"}
           silent == [q \in Left |-> Silent(q)]
<1> USE DEF FormInv
<1>1. NoBody \in Bodies
  BY DEF Bodies
<1>2. new \in Requests /\ new.n = Fresh /\ new.stage = "sent"
  BY <1>1, RequestType DEF Requests, Request
<1>3. \A q \in Left : Silent(q) \in Requests /\ Same(Silent(q), q)
  BY FormAssumption DEF FormTypeOK, Requests, Same
<1>4. requests' = {silent[q] : q \in Left} \cup {new}
  BY DEF Open, Unheard
<1>5. requests' \subseteq Requests
  BY <1>2, <1>3, <1>4
<1>6. IsFiniteSet(requests')
  <2>1. IsFiniteSet(Left)
    BY FS_Subset DEF FormTypeOK
  <2>2. silent \in Surjection(Left, {silent[q] : q \in Left})
    BY DEF Surjection
  <2>3. IsFiniteSet({silent[q] : q \in Left})
    BY <2>1, <2>2, FS_Surjection
  <2> QED
    BY <1>4, <2>3, FS_AddElement
<1>7. NamesApart'
  <2>1. \A q \in requests : q.n # Fresh
    BY FreshName DEF FormTypeOK
  <2>2. \A q \in Left : silent[q].n = q.n
    BY <1>3 DEF Same
  <2>3. \A q \in requests : q.n # new.n
    BY <1>2, <2>1
  <2>4. Left \subseteq requests
    OBVIOUS
  <2> HIDE DEF new, silent, Left
  <2>5. \A p \in requests' : p = new \/ \E r \in Left : p = silent[r]
    BY <1>4
  <2> SUFFICES ASSUME NEW p \in requests', NEW q \in requests', p.n = q.n PROVE p = q
    BY DEF NamesApart
  <2>6. CASE p = new \/ q = new
    BY <2>2, <2>3, <2>4, <2>5, <2>6
  <2>7. ASSUME NEW r \in Left, NEW r2 \in Left, p = silent[r], q = silent[r2] PROVE p = q
    <3>1. r = r2
      BY <2>2, <2>4, <2>7 DEF NamesApart
    <3> QED
      BY <2>7, <3>1
  <2> QED
    BY <2>5, <2>6, <2>7
<1>8. RequestsSound' /\ InsertsApart'
  <2>1. \A q \in requests' : (\E r \in requests : Same(q, r)) \/ q.stage = "sent"
    BY <1>2, <1>3, <1>4
  <2>2. row' = row
    BY DEF Open
  <2> QED
    BY <1>7, <2>1, <2>2, PageKeepsRequests
<1>9. FormTypeOK'
  BY <1>5, <1>6, FormAssumption DEF FormTypeOK, Open
<1> QED
  BY <1>7, <1>8, <1>9

LEMMA SaveStep ==
  ASSUME FormInv, NEW f \in Fields, NEW v \in Values, Save(f, v)
  PROVE  FormInv'
<1> DEFINE new == [Request(Fresh, BodyOf(f, v)) EXCEPT !.alone = Puts = {}]
           Joined(q) == [q EXCEPT !.alone = q.body = NoBody]
           joined == [q \in requests |-> Joined(q)]
<1> USE DEF FormInv
<1>1. BodyOf(f, v) \in Bodies
  BY BodyFacts
<1>2. new \in Requests /\ new.n = Fresh /\ new.stage = "sent"
  BY <1>1, RequestType DEF Requests, Request
<1>3. \A q \in requests : Joined(q) \in Requests /\ Same(Joined(q), q)
  BY DEF FormTypeOK, Requests, Same
<1>4. requests' = {joined[q] : q \in requests} \cup {new}
  BY DEF Save
<1>5. requests' \subseteq Requests
  BY <1>2, <1>3, <1>4
<1>6. IsFiniteSet(requests')
  <2>1. joined \in Surjection(requests, {joined[q] : q \in requests})
    BY DEF Surjection
  <2>2. IsFiniteSet({joined[q] : q \in requests})
    BY <2>1, FS_Surjection DEF FormTypeOK
  <2> QED
    BY <1>4, <2>2, FS_AddElement
<1>7. NamesApart'
  <2>1. \A q \in requests : q.n # Fresh
    BY FreshName DEF FormTypeOK
  <2>2. \A q \in requests : joined[q].n = q.n
    BY <1>3 DEF Same
  <2>3. \A q \in requests : q.n # new.n
    BY <1>2, <2>1
  <2>4. requests \subseteq requests
    OBVIOUS
  <2> HIDE DEF new, joined
  <2>5. \A p \in requests' : p = new \/ \E r \in requests : p = joined[r]
    BY <1>4
  <2> SUFFICES ASSUME NEW p \in requests', NEW q \in requests', p.n = q.n PROVE p = q
    BY DEF NamesApart
  <2>6. CASE p = new \/ q = new
    BY <2>2, <2>3, <2>4, <2>5, <2>6
  <2>7. ASSUME NEW r \in requests, NEW r2 \in requests, p = joined[r], q = joined[r2] PROVE p = q
    <3>1. r = r2
      BY <2>2, <2>4, <2>7 DEF NamesApart
    <3> QED
      BY <2>7, <3>1
  <2> QED
    BY <2>5, <2>6, <2>7
<1>8. RequestsSound' /\ InsertsApart'
  <2>1. \A q \in requests' : (\E r \in requests : Same(q, r)) \/ q.stage = "sent"
    BY <1>2, <1>3, <1>4
  <2>2. row' = row
    BY DEF Save
  <2> QED
    BY <1>7, <2>1, <2>2, PageKeepsRequests
<1>9. settings' \in Settings
  BY DEF Save, FormTypeOK, Settings
<1>10. excused' \in BOOLEAN
  BY DEF Save, FormTypeOK
<1>11. FormTypeOK'
  BY <1>5, <1>6, <1>9, <1>10 DEF FormTypeOK, Save
<1> QED
  BY <1>7, <1>8, <1>11

LEMMA SaveElsewhereStep ==
  ASSUME FormInv, NEW f \in Fields, NEW v \in Values, SaveElsewhere(f, v)
  PROVE  FormInv'
<1> DEFINE new == [Request(Fresh, BodyOf(f, v)) EXCEPT !.heard = FALSE, !.previous = DefaultSettings]
<1> USE DEF FormInv
<1>1. BodyOf(f, v) \in Bodies
  BY BodyFacts
<1>2. new \in Requests /\ new.n = Fresh /\ new.stage = "sent"
  BY <1>1, RequestType DEF Requests, Request
<1>3. requests' = requests \cup {new}
  BY DEF SaveElsewhere
<1>4. requests' \subseteq Requests /\ IsFiniteSet(requests')
  BY <1>2, <1>3, FS_AddElement DEF FormTypeOK
<1>5. NamesApart'
  <2>1. \A q \in requests : q.n # new.n
    BY <1>2, FreshName DEF FormTypeOK
  <2> HIDE DEF new
  <2> QED
    BY <1>3, <2>1 DEF NamesApart
<1>6. RequestsSound' /\ InsertsApart'
  <2>1. \A q \in requests' : (\E r \in requests : Same(q, r)) \/ q.stage = "sent"
    BY <1>2, <1>3 DEF Same
  <2>2. row' = row
    BY DEF SaveElsewhere
  <2> QED
    BY <1>5, <2>1, <2>2, PageKeepsRequests
<1>7. FormTypeOK'
  BY <1>4 DEF FormTypeOK, SaveElsewhere
<1> QED
  BY <1>5, <1>6, <1>7

\* One request is dropped, or goes on as another record of the same name.
LEMMA OneMoves ==
  ASSUME FormInv, NEW q \in requests, NEW next \in Requests, next.n = q.n,
         Becomes(q, next) \/ requests' = requests \ {q}
  PROVE  requests' \subseteq Requests /\ IsFiniteSet(requests') /\ NamesApart'
<1>1. IsFiniteSet(requests \ {q}) /\ requests \subseteq Requests
  BY FS_RemoveElement DEF FormInv, FormTypeOK
<1>2. IsFiniteSet((requests \ {q}) \cup {next})
  BY <1>1, FS_AddElement
<1> QED
  BY <1>1, <1>2 DEF FormInv, NamesApart, Becomes

LEMMA HearAnswerStep ==
  ASSUME FormInv, NEW q \in requests, HearAnswer(q)
  PROVE  FormInv'
<1> USE DEF FormInv
<1>1. requests' = requests \ {q} /\ row' = row /\ q \in Requests
  BY DEF HearAnswer, FormTypeOK
<1>2. requests' \subseteq Requests /\ IsFiniteSet(requests') /\ NamesApart'
  BY <1>1, OneMoves
<1>3. RequestsSound' /\ InsertsApart'
  BY <1>1 DEF RequestsSound, Sound, InsertsApart
<1>4. settings' \in Settings /\ loading' \in BOOLEAN
  BY DEF HearAnswer, FormTypeOK, RequestsSound, Sound
<1>5. FormTypeOK'
  BY <1>2, <1>4 DEF FormTypeOK, HearAnswer
<1> QED
  BY <1>2, <1>3, <1>5

LEMMA HearFailureStep ==
  ASSUME FormInv, NEW q \in requests, NEW goesOn \in BOOLEAN, HearFailure(q, goesOn)
  PROVE  FormInv'
<1> DEFINE next == [q EXCEPT !.heard = FALSE, !.previous = DefaultSettings]
<1> USE DEF FormInv
<1>1. q \in Requests
  BY DEF FormTypeOK
<1>2. next \in Requests /\ Same(next, q)
  BY <1>1, FormAssumption DEF Requests, Same
<1>3. row' = row /\ (Becomes(q, next) \/ requests' = requests \ {q})
  BY DEF HearFailure
<1>4. requests' \subseteq Requests /\ IsFiniteSet(requests') /\ NamesApart'
  <2>1. next.n = q.n
    BY <1>2 DEF Same
  <2> HIDE DEF next
  <2> QED
    BY <1>2, <1>3, <2>1, OneMoves
<1>5. RequestsSound' /\ InsertsApart'
  <2>1. \A p \in requests' : \E r \in requests : Same(p, r)
    BY <1>2, <1>3 DEF Same, Becomes
  <2> QED
    BY <1>3, <1>4, <2>1, PageKeepsRequests
<1>6. settings' \in Settings /\ loading' \in BOOLEAN /\ excused' \in BOOLEAN
  <2>1. q.alone \in BOOLEAN /\ q.previous \in Settings
    BY <1>1 DEF Requests
  <2> QED
    BY <2>1 DEF HearFailure, ShownAfterFailure, FormTypeOK
<1>7. FormTypeOK'
  BY <1>4, <1>6 DEF FormTypeOK, HearFailure
<1> QED
  BY <1>4, <1>5, <1>7

-------------------------------------------------------------------------------
(* Steps of the server. *)

LEMMA SelectRowStep ==
  ASSUME FormInv, NEW q \in requests, SelectRow(q)
  PROVE  FormInv'
<1> DEFINE next == [q EXCEPT !.seen = row, !.stage = IF row = NoRow THEN "missing" ELSE "found"]
<1> USE DEF FormInv
<1>1. q \in Requests
  BY DEF FormTypeOK
<1>2. next \in Requests /\ next.n = q.n /\ next.stage \in {"missing", "found"}
  BY <1>1 DEF Requests, Stages, FormTypeOK
<1>3. row' = row /\ Becomes(q, next)
  BY DEF SelectRow
<1>4. requests' \subseteq Requests /\ IsFiniteSet(requests') /\ NamesApart'
  <2> HIDE DEF next
  <2> QED
    BY <1>2, <1>3, OneMoves
<1>5. RequestsSound'
  <2>1. Sound(next)
    BY <1>1 DEF Sound, Requests, FormTypeOK, Rows
  <2> QED
    BY <1>3, <2>1 DEF RequestsSound, Sound, Becomes
<1>6. InsertsApart'
  BY <1>2, <1>3 DEF InsertsApart, Becomes
<1>7. FormTypeOK'
  BY <1>4 DEF FormTypeOK, SelectRow
<1> QED
  BY <1>4, <1>5, <1>6, <1>7

LEMMA InsertRowStep ==
  ASSUME FormInv, NEW q \in requests, InsertRow(q)
  PROVE  FormInv'
<1> DEFINE next == IF row = NoRow THEN [q EXCEPT !.stage = "inserted", !.seen = DefaultSettings]
                   ELSE [q EXCEPT !.stage = "found", !.seen = row]
<1> USE DEF FormInv
<1>1. q \in Requests
  BY DEF FormTypeOK
<1>2. next \in Requests /\ next.n = q.n
  BY <1>1, FormAssumption DEF Requests, Stages, Rows, FormTypeOK
<1>3. row' = row /\ Becomes(q, next)
  BY DEF InsertRow
<1>4. requests' \subseteq Requests /\ IsFiniteSet(requests') /\ NamesApart'
  <2> HIDE DEF next
  <2> QED
    BY <1>2, <1>3, OneMoves
<1>5. RequestsSound'
  <2>1. Sound(next)
    BY <1>1, FormAssumption DEF Sound, Requests, FormTypeOK, Rows
  <2> QED
    BY <1>3, <2>1 DEF RequestsSound, Sound, Becomes
<1>6. InsertsApart'
  <2>1. \A p \in requests : p.stage # "inserted"
    BY DEF InsertRow
  <2> QED
    BY <1>3, <2>1 DEF InsertsApart, Becomes
<1>7. FormTypeOK'
  BY <1>4 DEF FormTypeOK, InsertRow
<1> QED
  BY <1>4, <1>5, <1>6, <1>7

LEMMA BreakOffStep ==
  ASSUME FormInv, NEW q \in requests, BreakOff(q)
  PROVE  FormInv'
<1> USE DEF FormInv
<1>1. requests' = requests \ {q} /\ row' = row /\ q \in Requests
  BY DEF BreakOff, FormTypeOK
<1>2. requests' \subseteq Requests /\ IsFiniteSet(requests') /\ NamesApart'
  BY <1>1, OneMoves
<1>3. RequestsSound' /\ InsertsApart'
  BY <1>1 DEF RequestsSound, Sound, InsertsApart
<1>4. FormTypeOK'
  BY <1>2 DEF FormTypeOK, BreakOff
<1> QED
  BY <1>2, <1>3, <1>4

\* What a commit writes, and what becomes of its request.
LEMMA CommitFacts ==
  ASSUME FormInv, NEW q \in requests, Commit(q)
  PROVE  /\ row' \in Settings
         /\ row # NoRow => q.stage = "found" /\ row' = Written(q)
         /\ q \notin requests'
         /\ \A p \in requests' : p \in requests \/ (p.stage = "answered" /\ Sound(p)')
         /\ requests' \subseteq Requests /\ IsFiniteSet(requests') /\ NamesApart'
<1> DEFINE next == [q EXCEPT !.stage = "answered", !.seen = IF q.body = NoBody THEN @ ELSE NoRow]
<1> USE DEF FormInv
<1>1. q \in Requests /\ Sound(q) /\ q.body \in Bodies /\ q.stage \in {"inserted", "found"}
  BY DEF FormTypeOK, RequestsSound, Commit, Requests
<1>2. next \in Requests /\ next.n = q.n /\ next # q /\ Sound(next)'
  BY <1>1 DEF Requests, Stages, Rows, Sound
<1>3. Becomes(q, next) \/ requests' = requests \ {q}
  BY DEF Commit, Done
<1>4. q.stage = "inserted" => row' \in Settings
  BY <1>1, BodyWrites, FormAssumption DEF Commit, Sound
<1>5. q.stage = "found" => row' \in Settings
  BY <1>1, WrittenFacts DEF Commit, Sound, FormTypeOK, Rows
<1>6. requests' \subseteq Requests /\ IsFiniteSet(requests') /\ NamesApart'
  <2> HIDE DEF next
  <2> QED
    BY <1>2, <1>3, OneMoves
<1>7. row' \in Settings /\ (row # NoRow => q.stage = "found" /\ row' = Written(q))
  <2>1. row # NoRow => q.stage = "found"
    BY <1>1 DEF Sound
  <2>2. q.stage = "found" => row' = Written(q)
    BY DEF Commit
  <2> QED
    BY <1>1, <1>4, <1>5, <2>1, <2>2
<1>8. q \notin requests' /\ \A p \in requests' : p \in requests \/ p = next
  BY <1>2, <1>3 DEF Becomes
<1>9. next.stage = "answered"
  BY <1>1 DEF Requests
<1> QED
  BY <1>2, <1>6, <1>7, <1>8, <1>9

LEMMA CommitStep ==
  ASSUME FormInv, NEW q \in requests, Commit(q)
  PROVE  FormInv'
<1> USE DEF FormInv
<1>1. row' # NoRow
  BY CommitFacts, FormAssumption
<1>2. q.stage = "inserted" \/ \A p \in requests : p.stage # "inserted"
  BY DEF Commit, RequestsSound, Sound
<1>3. \A p \in requests' : p.stage # "inserted"
  BY <1>2, CommitFacts DEF InsertsApart
<1>4. RequestsSound'
  BY <1>1, <1>3, CommitFacts DEF RequestsSound, Sound
<1>5. FormTypeOK'
  BY CommitFacts DEF FormTypeOK, Commit, Rows
<1> QED
  BY <1>3, <1>4, <1>5, CommitFacts DEF InsertsApart

-------------------------------------------------------------------------------
LEMMA FormInvStart == FormInit => FormInv
<1> SUFFICES ASSUME FormInit PROVE FormInv
  OBVIOUS
<1> DEFINE first == [n |-> 0, body |-> NoBody, previous |-> DefaultSettings, stage |-> "sent",
                     seen |-> NoRow, heard |-> TRUE, alone |-> TRUE]
<1>1. requests = {first}
  BY DEF FormInit
<1>2. first \in Requests
  BY FormAssumption DEF Requests, Bodies, Stages, Rows
<1>3. IsFiniteSet({first})
  BY FS_Singleton
<1>4. row \in Rows
  BY FormAssumption DEF FormInit, Rows
<1>5. FormTypeOK
  BY <1>1, <1>2, <1>3, <1>4, FormAssumption DEF FormInit, FormTypeOK
<1> QED
  BY <1>1, <1>5 DEF FormInv, RequestsSound, Sound, InsertsApart, NamesApart

LEMMA FormInvStep == FormInv /\ [FormNext]_formVars => FormInv'
<1> SUFFICES ASSUME FormInv, [FormNext]_formVars PROVE FormInv'
  OBVIOUS
<1>1. CASE UNCHANGED formVars
  BY <1>1 DEF formVars, FormInv, FormTypeOK, RequestsSound, Sound, InsertsApart, NamesApart
<1>2. ASSUME NEW p \in Pages, Open(p) PROVE FormInv'
  BY <1>2, OpenStep
<1>3. ASSUME NEW f \in Fields, NEW v \in Values, Save(f, v) \/ SaveElsewhere(f, v) PROVE FormInv'
  BY <1>3, SaveStep, SaveElsewhereStep
<1>4. ASSUME NEW q \in requests,
             HearAnswer(q) \/ SelectRow(q) \/ InsertRow(q) \/ Commit(q) \/ BreakOff(q)
      PROVE  FormInv'
  BY <1>4, HearAnswerStep, SelectRowStep, InsertRowStep, CommitStep, BreakOffStep
<1>5. ASSUME NEW q \in requests, NEW goesOn \in BOOLEAN, HearFailure(q, goesOn) PROVE FormInv'
  BY <1>5, HearFailureStep
<1> QED
  BY <1>1, <1>2, <1>3, <1>4, <1>5 DEF FormNext

-------------------------------------------------------------------------------
(* What the page shows.                                                        *)

Unanswered(f) == {q \in Puts : q.stage # "answered" /\ f \in DOMAIN q.body}

\* The read of the page that is mounted, until it is heard: what it has read is the row.
ReadStands ==
  /\ \A q \in requests \ Puts : q.heard =>
       /\ loading
       /\ q.stage \in {"found", "answered"} => q.seen = row
       /\ q.stage = "inserted" => q.seen = DefaultSettings
  /\ \A p, q \in requests \ Puts : p.heard /\ q.heard => p = q

\* The page's saves: they are its own and of different fields, one that found the row
\* knows the value it replaces, and one that was alone can put back what it replaced.
SavesStand ==
  /\ \A q \in Puts : q.heard
  /\ loading => Puts = {}
  /\ \A p, q \in Puts : DOMAIN p.body \cap DOMAIN q.body # {} => p = q
  /\ \A q \in Puts : q.stage = "found" => \A f \in DOMAIN q.body : q.seen[f] = row[f]
  /\ \A q \in Puts : q.alone => /\ Puts = {q}
                                /\ q.stage # "answered" => \A f \in Fields : q.previous[f] = row[f]

\* A field shows its save under way, or else the row.
FieldsStand ==
  ~loading => /\ row # NoRow
              /\ \A f \in Fields : /\ \A q \in Unanswered(f) : settings[f] = q.body[f]
                                   /\ Unanswered(f) = {} => settings[f] = row[f]

ShowInv == ~excused => ReadStands /\ SavesStand /\ FieldsStand

\* What a page shows stays so over a step of the server for one request.
LEMMA ServerMoves ==
  ASSUME FormInv, ShowInv, NEW q \in requests, NEW next, Becomes(q, next),
         next.body = q.body, next.heard = q.heard, next.alone = q.alone, next.previous = q.previous,
         q.stage # "answered", next.stage # "answered",
         next.stage = "found" => next.seen = row,
         next.stage = "inserted" => next.seen = DefaultSettings,
         UNCHANGED <<row, settings, loading, excused>>
  PROVE  ShowInv'
<1> SUFFICES ASSUME ~excused PROVE ReadStands' /\ SavesStand' /\ FieldsStand'
  BY DEF ShowInv
<1>1. ReadStands /\ SavesStand /\ FieldsStand
  BY DEF ShowInv
<1>2. requests' = (requests \ {q}) \cup {next}
  BY DEF Becomes
<1>3. Puts' = IF q.body = NoBody THEN Puts ELSE (Puts \ {q}) \cup {next}
  BY <1>2 DEF Puts
<1>4. /\ requests' \ Puts' = IF q.body = NoBody THEN ((requests \ Puts) \ {q}) \cup {next} ELSE requests \ Puts
      /\ q.body = NoBody => q \in requests \ Puts
      /\ q.body # NoBody => q \in Puts
  BY <1>2 DEF Puts
<1>5. ReadStands'
  BY <1>1, <1>4 DEF ReadStands
<1>6. SavesStand'
  <2>1. CASE q.body = NoBody
    BY <1>1, <1>3, <2>1 DEF SavesStand
  <2>2. CASE q.body # NoBody
    BY <1>1, <1>3, <1>4, <2>2 DEF SavesStand
  <2> QED
    BY <2>1, <2>2
<1>7. FieldsStand'
  <2>1. \A f : Unanswered(f)' = IF q \in Unanswered(f) THEN (Unanswered(f) \ {q}) \cup {next} ELSE Unanswered(f)
    BY <1>3, <1>4 DEF Unanswered
  <2> QED
    BY <1>1, <2>1 DEF FieldsStand
<1> QED
  BY <1>5, <1>6, <1>7

LEMMA SelectShows ==
  ASSUME FormInv, ShowInv, NEW q \in requests, SelectRow(q) \/ InsertRow(q)
  PROVE  ShowInv'
<1>1. q \in Requests
  BY DEF FormInv, FormTypeOK
<1>2. CASE SelectRow(q)
  <2> DEFINE stage == IF row = NoRow THEN "missing" ELSE "found"
             next  == [q EXCEPT !.seen = row, !.stage = stage]
  <2>1. Becomes(q, next) /\ q.stage = "sent" /\ UNCHANGED <<row, settings, loading, excused>>
    BY <1>2 DEF SelectRow
  <2>2. /\ next.body = q.body /\ next.heard = q.heard /\ next.alone = q.alone /\ next.previous = q.previous
        /\ next.stage \in {"missing", "found"} /\ next.seen = row
    BY <1>1 DEF Requests
  <2> HIDE DEF next
  <2> QED
    BY <2>1, <2>2, ServerMoves
<1>3. CASE InsertRow(q) /\ row = NoRow
  <2> DEFINE next == [q EXCEPT !.stage = "inserted", !.seen = DefaultSettings]
  <2>1. Becomes(q, next) /\ q.stage = "missing" /\ UNCHANGED <<row, settings, loading, excused>>
    BY <1>3 DEF InsertRow
  <2>2. /\ next.body = q.body /\ next.heard = q.heard /\ next.alone = q.alone /\ next.previous = q.previous
        /\ next.stage = "inserted" /\ next.seen = DefaultSettings
    BY <1>1 DEF Requests
  <2> HIDE DEF next
  <2> QED
    BY <2>1, <2>2, ServerMoves
<1>4. CASE InsertRow(q) /\ row # NoRow
  <2> DEFINE next == [q EXCEPT !.stage = "found", !.seen = row]
  <2>1. Becomes(q, next) /\ q.stage = "missing" /\ UNCHANGED <<row, settings, loading, excused>>
    BY <1>4 DEF InsertRow
  <2>2. /\ next.body = q.body /\ next.heard = q.heard /\ next.alone = q.alone /\ next.previous = q.previous
        /\ next.stage = "found" /\ next.seen = row
    BY <1>1 DEF Requests
  <2> HIDE DEF next
  <2> QED
    BY <2>1, <2>2, ServerMoves
<1> QED
  BY <1>2, <1>3, <1>4

LEMMA OpenShows ==
  ASSUME FormInv, ShowInv, NEW to \in Pages, Open(to)
  PROVE  ShowInv'
<1> DEFINE new == [Request(Fresh, NoBody) EXCEPT !.previous = DefaultSettings]
           Silent(q) == [q EXCEPT !.heard = FALSE, !.previous = DefaultSettings]
           Left == {q \in requests : q.stage # "answered"}
<1> SUFFICES ASSUME ~excused' PROVE ReadStands' /\ SavesStand' /\ FieldsStand'
  BY DEF ShowInv
<1>1. /\ requests' = {Silent(q) : q \in Left} \cup {new} /\ loading' = TRUE
      /\ \A q \in Puts : q.stage = "answered"
  BY DEF Open, Unheard
<1>2. new.body = NoBody /\ new.stage = "sent"
  BY DEF Request
<1>3. \A q \in Left : q.body = NoBody
  BY <1>1 DEF Puts
<1>4. \A q \in Left : ~Silent(q).heard /\ Silent(q).body = NoBody
  BY <1>3 DEF FormInv, FormTypeOK, Requests
<1> HIDE DEF new, Silent, Left
<1>5. \A q \in requests' : q.body = NoBody /\ (q.heard => q = new)
  BY <1>1, <1>2, <1>4
<1>6. Puts' = {}
  BY <1>5 DEF Puts
<1>7. ReadStands'
  BY <1>1, <1>2, <1>5 DEF ReadStands
<1> QED
  BY <1>1, <1>6, <1>7 DEF SavesStand, FieldsStand

LEMMA SaveShows ==
  ASSUME FormInv, ShowInv, NEW f \in Fields, NEW v \in Values, Save(f, v)
  PROVE  ShowInv'
<1> DEFINE new == [Request(Fresh, BodyOf(f, v)) EXCEPT !.alone = Puts = {}]
           Joined(q) == [q EXCEPT !.alone = q.body = NoBody]
<1> SUFFICES ASSUME ~excused' PROVE ReadStands' /\ SavesStand' /\ FieldsStand'
  BY DEF ShowInv
<1>1. /\ ~loading /\ UNCHANGED <<row, loading>> /\ settings' = [settings EXCEPT ![f] = v]
      /\ requests' = {Joined(q) : q \in requests} \cup {new}
      /\ ~excused /\ \A q \in Puts : f \notin DOMAIN q.body
  BY DEF Save
<1>2. ReadStands /\ SavesStand /\ FieldsStand
  BY <1>1 DEF ShowInv
<1>3. /\ new.body = BodyOf(f, v) /\ new.stage = "sent" /\ new.heard = TRUE /\ new.previous = settings
      /\ new.alone = (Puts = {})
  BY DEF Request
<1>4. BodyOf(f, v) # NoBody /\ DOMAIN BodyOf(f, v) = {f} /\ BodyOf(f, v)[f] = v
  BY BodyFacts DEF BodyOf
<1>5. \A q \in requests : /\ Joined(q).body = q.body /\ Joined(q).stage = q.stage /\ Joined(q).seen = q.seen
                          /\ Joined(q).heard = q.heard /\ Joined(q).previous = q.previous
                          /\ q.body # NoBody => ~Joined(q).alone
  BY DEF FormInv, FormTypeOK, Requests
<1> HIDE DEF new, Joined
<1>6. \A p \in requests' : p = new \/ \E q \in requests : p = Joined(q)
  BY <1>1
<1>7. \A p \in Puts' : p = new \/ \E q \in Puts : p = Joined(q)
  BY <1>5, <1>6 DEF Puts
<1>8. \A p \in requests' \ Puts' : ~p.heard
  <2> SUFFICES ASSUME NEW p \in requests', p.body = NoBody PROVE ~p.heard
    BY DEF Puts
  <2>1. PICK q \in requests : p = Joined(q)
    BY <1>3, <1>4, <1>6
  <2>2. q \in requests \ Puts
    BY <1>5, <2>1 DEF Puts
  <2> QED
    BY <1>1, <1>2, <1>5, <2>1, <2>2 DEF ReadStands
<1>9. ReadStands'
  BY <1>8 DEF ReadStands
<1>10. new \in Puts' /\ \A q \in Puts : Joined(q) \in Puts'
  BY <1>1, <1>3, <1>4, <1>5 DEF Puts
<1>11. ASSUME NEW p \in Puts', NEW r \in Puts', DOMAIN p.body \cap DOMAIN r.body # {}
       PROVE  p = r
  <2>1. \A q \in Puts : q \in requests /\ DOMAIN Joined(q).body = DOMAIN q.body /\ f \notin DOMAIN q.body
    BY <1>1, <1>5 DEF Puts
  <2>2. DOMAIN new.body = {f}
    BY <1>3, <1>4
  <2>3. CASE p = new
    BY <1>7, <1>11, <2>1, <2>2, <2>3
  <2>4. CASE r = new
    BY <1>7, <1>11, <2>1, <2>2, <2>4
  <2>5. CASE p # new /\ r # new
    <3>1. PICK p0 \in Puts : p = Joined(p0)
      BY <1>7, <2>5
    <3>2. PICK r0 \in Puts : r = Joined(r0)
      BY <1>7, <2>5
    <3>3. DOMAIN p0.body \cap DOMAIN r0.body # {}
      BY <1>11, <2>1, <3>1, <3>2
    <3> QED
      BY <1>2, <3>1, <3>2, <3>3 DEF SavesStand
  <2> QED
    BY <2>3, <2>4, <2>5
<1>12. \A p \in Puts' : p.alone => p = new /\ Puts = {}
  <2>1. \A q \in Puts : ~Joined(q).alone
    BY <1>5 DEF Puts
  <2> QED
    BY <1>3, <1>7, <2>1
<1>13. Puts = {} => Puts' = {new}
  BY <1>7, <1>10
<1>14. Puts = {} => \A g \in Fields : settings[g] = row[g]
  BY <1>1, <1>2 DEF FieldsStand, Unanswered
<1>15. /\ \A p \in Puts' : p.heard
       /\ \A p \in Puts' : p.stage = "found" => \A g \in DOMAIN p.body : p.seen[g] = row[g]
  <2>1. \A q \in Puts : Joined(q).heard /\ (Joined(q).stage = "found" => \A g \in DOMAIN Joined(q).body : Joined(q).seen[g] = row[g])
    BY <1>2, <1>5 DEF SavesStand, Puts
  <2> QED
    BY <1>3, <1>7, <2>1
<1>16. SavesStand'
  BY <1>1, <1>3, <1>11, <1>12, <1>13, <1>14, <1>15 DEF SavesStand
<1>17. FieldsStand'
  <2>1. row' # NoRow
    BY <1>1, <1>2 DEF FieldsStand
  <2>2. ASSUME NEW g \in Fields
        PROVE  /\ \A q \in Unanswered(g)' : settings'[g] = q.body[g]
               /\ Unanswered(g)' = {} => settings'[g] = row'[g]
    <3>1. /\ \A q \in Unanswered(g) : settings[g] = q.body[g]
          /\ Unanswered(g) = {} => settings[g] = row[g]
      BY <1>1, <1>2 DEF FieldsStand
    <3>2. CASE g = f
      <4>1. settings'[g] = v
        BY <1>1, <3>2 DEF FormInv, FormTypeOK, Settings
      <4>2. Unanswered(g)' = {new}
        BY <1>1, <1>3, <1>4, <1>5, <1>7, <1>10, <3>2 DEF Unanswered, Puts
      <4> QED
        BY <1>3, <1>4, <3>2, <4>1, <4>2
    <3>3. CASE g # f
      <4>1. settings'[g] = settings[g] /\ row'[g] = row[g]
        BY <1>1, <3>3 DEF FormInv, FormTypeOK, Settings
      <4>2. Unanswered(g)' = {Joined(q) : q \in Unanswered(g)}
        BY <1>3, <1>4, <1>5, <1>7, <1>10, <3>3 DEF Unanswered, Puts
      <4> QED
        BY <1>5, <3>1, <4>1, <4>2 DEF Unanswered, Puts
    <3> QED
      BY <3>2, <3>3
  <2> QED
    BY <2>1, <2>2 DEF FieldsStand
<1> QED
  BY <1>9, <1>16, <1>17

\* A request that is gone leaves the others as they are.
LEMMA Leaves ==
  ASSUME NEW q \in requests, requests' = requests \ {q}
  PROVE  /\ Puts' = Puts \ {q} /\ requests' \ Puts' = (requests \ Puts) \ {q}
         /\ \A f : Unanswered(f)' = Unanswered(f) \ {q}
BY DEF Puts, Unanswered

LEMMA HearAnswerShows ==
  ASSUME FormInv, ShowInv, NEW q \in requests, HearAnswer(q)
  PROVE  ShowInv'
<1> SUFFICES ASSUME ~excused' PROVE ReadStands' /\ SavesStand' /\ FieldsStand'
  BY DEF ShowInv
<1>1. /\ q.heard /\ q.stage = "answered" /\ requests' = requests \ {q}
      /\ row' = row /\ excused' = excused
  BY DEF HearAnswer
<1>2. ReadStands /\ SavesStand /\ FieldsStand
  BY <1>1 DEF ShowInv
<1>3. /\ Puts' = Puts \ {q} /\ requests' \ Puts' = (requests \ Puts) \ {q}
      /\ \A f : Unanswered(f)' = Unanswered(f)
  BY <1>1, Leaves DEF Unanswered
<1>4. CASE q.body = NoBody
  <2>1. settings' = q.seen /\ loading' = FALSE
    BY <1>4 DEF HearAnswer
  <2>2. q \in requests \ Puts /\ Puts' = Puts
    BY <1>3, <1>4 DEF Puts
  <2>3. loading /\ q.seen = row /\ Puts = {}
    BY <1>1, <1>2, <2>2 DEF ReadStands, SavesStand
  <2>4. row # NoRow
    BY <1>1, <1>4, <2>3, FormAssumption DEF FormInv, RequestsSound, Sound
  <2>5. ReadStands'
    BY <1>1, <1>2, <1>3, <2>2 DEF ReadStands
  <2>6. SavesStand'
    BY <2>1, <2>2, <2>3 DEF SavesStand
  <2>7. FieldsStand'
    BY <1>1, <1>3, <2>1, <2>3, <2>4 DEF FieldsStand, Unanswered
  <2> QED
    BY <2>5, <2>6, <2>7
<1>5. CASE q.body # NoBody
  <2>1. UNCHANGED <<settings, loading>>
    BY <1>5 DEF HearAnswer
  <2>2. ReadStands'
    BY <1>1, <1>2, <1>3, <2>1 DEF ReadStands
  <2>3. q \in Puts
    BY <1>5 DEF Puts
  <2>4. SavesStand'
    BY <1>1, <1>2, <1>3, <2>1, <2>3 DEF SavesStand
  <2>5. FieldsStand'
    BY <1>1, <1>2, <1>3, <2>1 DEF FieldsStand
  <2> QED
    BY <2>2, <2>4, <2>5
<1> QED
  BY <1>4, <1>5

LEMMA HearFailureShows ==
  ASSUME FormInv, ShowInv, NEW q \in requests, NEW goesOn \in BOOLEAN, HearFailure(q, goesOn)
  PROVE  ShowInv'
<1> SUFFICES ASSUME ~excused' PROVE ReadStands' /\ SavesStand' /\ FieldsStand'
  BY DEF ShowInv
<1>1. ~excused /\ q.body # NoBody /\ q.alone /\ ~goesOn /\ q.stage # "answered"
  BY DEF HearFailure
<1>2. requests' = requests \ {q} /\ settings' = q.previous /\ loading' = loading /\ row' = row
  BY <1>1 DEF HearFailure, ShownAfterFailure
<1>3. ReadStands /\ SavesStand /\ FieldsStand
  BY <1>1 DEF ShowInv
<1>4. q \in Puts /\ Puts = {q} /\ \A f \in Fields : q.previous[f] = row[f]
  BY <1>1, <1>3 DEF Puts, SavesStand
<1>5. Puts' = {} /\ requests' \ Puts' = requests \ Puts /\ \A f : Unanswered(f)' = {}
  BY <1>2, <1>4, Leaves DEF Unanswered
<1>6. ReadStands'
  BY <1>2, <1>3, <1>5 DEF ReadStands
<1>7. SavesStand'
  BY <1>5 DEF SavesStand
<1>8. FieldsStand'
  BY <1>2, <1>3, <1>4, <1>5 DEF FieldsStand
<1> QED
  BY <1>6, <1>7, <1>8

LEMMA BreakOffShows ==
  ASSUME FormInv, ShowInv, NEW q \in requests, BreakOff(q)
  PROVE  ShowInv'
<1> SUFFICES ASSUME ~excused' PROVE ReadStands' /\ SavesStand' /\ FieldsStand'
  BY DEF ShowInv
<1>1. ~q.heard /\ requests' = requests \ {q} /\ UNCHANGED <<row, settings, loading, excused>>
  BY DEF BreakOff
<1>2. ReadStands /\ SavesStand /\ FieldsStand
  BY <1>1 DEF ShowInv
<1>3. q \notin Puts
  BY <1>1, <1>2 DEF SavesStand
<1>4. Puts' = Puts /\ requests' \ Puts' = (requests \ Puts) \ {q} /\ \A f : Unanswered(f)' = Unanswered(f)
  BY <1>1, <1>3, Leaves DEF Unanswered
<1>5. ReadStands'
  BY <1>1, <1>2, <1>4 DEF ReadStands
<1>6. SavesStand'
  BY <1>1, <1>2, <1>4 DEF SavesStand
<1>7. FieldsStand'
  BY <1>1, <1>2, <1>4 DEF FieldsStand
<1> QED
  BY <1>5, <1>6, <1>7

\* A save that commits: the row takes its fields and no others.
LEMMA CommitSaveShows ==
  ASSUME FormInv, ShowInv, NEW q \in requests, Commit(q), q.body # NoBody
  PROVE  ShowInv'
<1> SUFFICES ASSUME ~excused' PROVE ReadStands' /\ SavesStand' /\ FieldsStand'
  BY DEF ShowInv
<1> DEFINE next == [q EXCEPT !.stage = "answered", !.seen = NoRow]
<1>1. excused' = excused /\ UNCHANGED <<settings, loading>>
  BY DEF Commit
<1>2. ReadStands /\ SavesStand /\ FieldsStand
  BY <1>1 DEF ShowInv
<1>3. q \in Puts /\ q.heard /\ ~loading /\ row # NoRow
  BY <1>2 DEF Puts, SavesStand, FieldsStand
<1>4. q.stage = "found" /\ row' = Written(q) /\ row' \in Settings /\ row \in Settings /\ q \in Requests
  BY <1>3, CommitFacts DEF FormInv, FormTypeOK, Rows
<1>5. requests' = (requests \ {q}) \cup {next}
  BY <1>3 DEF Commit, Done, Becomes
<1>6. next.stage = "answered" /\ next.body = q.body /\ next.heard = q.heard /\ next.alone = q.alone
  BY <1>4 DEF Requests
<1> HIDE DEF next
<1>7. Puts' = (Puts \ {q}) \cup {next} /\ requests' \ Puts' = requests \ Puts
  BY <1>3, <1>5, <1>6 DEF Puts
<1>8. \A f : Unanswered(f)' = Unanswered(f) \ {q}
  BY <1>6, <1>7 DEF Unanswered
<1>9. \A f \in Fields : row'[f] = IF f \in DOMAIN q.body THEN q.body[f] ELSE row[f]
  <2>1. \A f \in DOMAIN q.body : q.seen[f] = row[f]
    BY <1>2, <1>3, <1>4 DEF SavesStand
  <2> QED
    BY <1>4, <2>1 DEF Written
<1>10. ReadStands'
  BY <1>1, <1>2, <1>3, <1>7 DEF ReadStands
<1>11. \A p \in Puts : p # q => DOMAIN p.body \cap DOMAIN q.body = {} /\ ~p.alone /\ ~q.alone
  BY <1>2, <1>3 DEF SavesStand
<1>12. SavesStand'
  <2>1. \A p \in Puts' : p = next \/ (p \in Puts /\ p # q)
    BY <1>7
  <2>2. \A p \in Puts' : p.heard
    BY <1>2, <1>3, <1>6, <2>1 DEF SavesStand
  <2>3. \A p, r \in Puts' : DOMAIN p.body \cap DOMAIN r.body # {} => p = r
    BY <1>2, <1>6, <1>11, <2>1 DEF SavesStand
  <2>4. ASSUME NEW p \in Puts', p.stage = "found", NEW f \in DOMAIN p.body PROVE p.seen[f] = row'[f]
    <3>1. p \in Puts /\ p # q
      BY <1>6, <2>1, <2>4
    <3>2. p.seen[f] = row[f] /\ f \notin DOMAIN q.body
      BY <1>2, <1>11, <2>4, <3>1 DEF SavesStand
    <3>3. f \in Fields
      <4>1. p.body \in Bodies
        BY <3>1 DEF Puts, FormInv, FormTypeOK, Requests
      <4> QED
        BY <2>4, <4>1, BodyShape
    <3> QED
      BY <1>9, <3>2, <3>3
  <2>5. ASSUME NEW p \in Puts', p.alone PROVE Puts' = {p} /\ p.stage = "answered"
    <3>1. p = next
      BY <1>11, <2>1, <2>5
    <3>2. Puts = {q}
      BY <1>2, <1>3, <1>6, <2>5, <3>1 DEF SavesStand
    <3> QED
      BY <1>6, <1>7, <3>1, <3>2
  <2> QED
    BY <1>1, <1>3, <2>2, <2>3, <2>4, <2>5 DEF SavesStand
<1>13. FieldsStand'
  <2>1. row' # NoRow
    BY <1>4, FormAssumption
  <2>2. ASSUME NEW f \in Fields
        PROVE  /\ \A p \in Unanswered(f)' : settings'[f] = p.body[f]
               /\ Unanswered(f)' = {} => settings'[f] = row'[f]
    <3>1. /\ \A p \in Unanswered(f) : settings[f] = p.body[f]
          /\ Unanswered(f) = {} => settings[f] = row[f]
      BY <1>2, <1>3 DEF FieldsStand
    <3>2. CASE f \in DOMAIN q.body
      <4>1. q \in Unanswered(f)
        BY <1>3, <1>4, <3>2 DEF Unanswered
      <4> QED
        BY <1>1, <1>8, <1>9, <3>1, <3>2, <4>1
    <3>3. CASE f \notin DOMAIN q.body
      <4>1. Unanswered(f)' = Unanswered(f)
        BY <1>8, <3>3 DEF Unanswered
      <4> QED
        BY <1>1, <1>9, <3>1, <3>3, <4>1
    <3> QED
      BY <3>2, <3>3
  <2> QED
    BY <2>1, <2>2 DEF FieldsStand
<1> QED
  BY <1>10, <1>12, <1>13

\* A read that commits leaves the row, or makes one of the defaults it answers with.
LEMMA CommitReadShows ==
  ASSUME FormInv, ShowInv, NEW q \in requests, Commit(q), q.body = NoBody
  PROVE  ShowInv'
<1> SUFFICES ASSUME ~excused' PROVE ReadStands' /\ SavesStand' /\ FieldsStand'
  BY DEF ShowInv
<1> DEFINE next == [q EXCEPT !.stage = "answered", !.seen = q.seen]
<1>1. excused' = excused /\ UNCHANGED <<settings, loading>>
  BY DEF Commit
<1>2. ReadStands /\ SavesStand /\ FieldsStand
  BY <1>1 DEF ShowInv
<1>3. q \in Requests /\ Sound(q) /\ q \in requests \ Puts /\ q.stage \in {"found", "inserted"}
  BY DEF FormInv, FormTypeOK, RequestsSound, Puts, Commit
<1>4. requests' = (requests \ {q}) \cup (IF q.heard THEN {next} ELSE {})
  BY <1>3 DEF Commit, Done, Becomes, Requests
<1>5. next.stage = "answered" /\ next.body = NoBody /\ next.heard = q.heard /\ next.seen = q.seen
  BY <1>3 DEF Requests
<1> HIDE DEF next
<1>6. Puts' = Puts /\ \A p \in requests' \ Puts' : (p = next /\ q.heard) \/ (p \in requests \ Puts /\ p # q)
  BY <1>4, <1>5 DEF Puts
<1>7. \A f : Unanswered(f)' = Unanswered(f)
  BY <1>6 DEF Unanswered
<1>8. CASE q.stage = "found"
  <2>1. row \in Settings
    BY <1>3, <1>8 DEF Sound, FormInv, FormTypeOK, Rows
  <2>2. row' = row
    <3>1. row' = [f \in Fields |-> row[f]]
      BY <1>8 DEF Commit, Written, NoBody
    <3> QED
      BY <2>1, <3>1 DEF Settings
  <2>3. ReadStands'
    BY <1>1, <1>2, <1>3, <1>5, <1>6, <1>8, <2>2 DEF ReadStands
  <2>4. SavesStand'
    BY <1>1, <1>2, <1>6, <2>2 DEF SavesStand
  <2>5. FieldsStand'
    BY <1>1, <1>2, <1>7, <2>2 DEF FieldsStand
  <2> QED
    BY <2>3, <2>4, <2>5
<1>9. CASE q.stage = "inserted"
  <2>1. row = NoRow /\ loading /\ Puts = {}
    BY <1>2, <1>3, <1>9 DEF Sound, FieldsStand, SavesStand
  <2>2. row' = DefaultSettings
    <3>1. row' = [f \in Fields |-> DefaultSettings[f]]
      BY <1>9 DEF Commit, Over, NoBody
    <3> QED
      BY <3>1, FormAssumption DEF Settings
  <2>3. \A p \in requests \ Puts : p.heard => p.stage \notin {"found", "answered"}
    BY <1>2, <2>1, FormAssumption DEF ReadStands, FormInv, RequestsSound, Sound, Puts
  <2>4. ReadStands'
    BY <1>1, <1>2, <1>3, <1>5, <1>6, <1>9, <2>2, <2>3 DEF ReadStands
  <2> QED
    BY <1>1, <1>6, <2>1, <2>4 DEF SavesStand, FieldsStand
<1> QED
  BY <1>3, <1>8, <1>9

LEMMA ShowStart == FormInit => ShowInv
<1> SUFFICES ASSUME FormInit PROVE ShowInv
  OBVIOUS
<1>1. loading /\ \A q \in requests : q.body = NoBody /\ q.stage = "sent"
  BY DEF FormInit
<1>2. \A p, q \in requests : p = q
  BY DEF FormInit
<1>3. Puts = {}
  BY <1>1 DEF Puts
<1>4. ReadStands
  BY <1>1, <1>2 DEF ReadStands
<1> QED
  BY <1>1, <1>3, <1>4 DEF ShowInv, SavesStand, FieldsStand

LEMMA ShowStep == FormInv /\ ShowInv /\ [FormNext]_formVars => ShowInv'
<1> SUFFICES ASSUME FormInv, ShowInv, [FormNext]_formVars PROVE ShowInv'
  OBVIOUS
<1>1. CASE UNCHANGED formVars
  <2>1. UNCHANGED <<row, settings, loading, requests, excused>> /\ Puts' = Puts
    BY <1>1 DEF formVars, Puts
  <2>2. \A f : Unanswered(f)' = Unanswered(f)
    BY <2>1 DEF Unanswered
  <2> QED
    BY <2>1, <2>2 DEF ShowInv, ReadStands, SavesStand, FieldsStand
<1>2. ASSUME NEW p \in Pages, Open(p) PROVE ShowInv'
  BY <1>2, OpenShows
<1>3. ASSUME NEW f \in Fields, NEW v \in Values, Save(f, v) PROVE ShowInv'
  BY <1>3, SaveShows
<1>4. ASSUME NEW f \in Fields, NEW v \in Values, SaveElsewhere(f, v) PROVE ShowInv'
  BY <1>4 DEF SaveElsewhere, ShowInv
<1>5. ASSUME NEW q \in requests, HearAnswer(q) \/ SelectRow(q) \/ InsertRow(q) \/ Commit(q) \/ BreakOff(q)
      PROVE  ShowInv'
  BY <1>5, HearAnswerShows, SelectShows, CommitSaveShows, CommitReadShows, BreakOffShows
<1>6. ASSUME NEW q \in requests, NEW goesOn \in BOOLEAN, HearFailure(q, goesOn) PROVE ShowInv'
  BY <1>6, HearFailureShows
<1> QED
  BY <1>1, <1>2, <1>3, <1>4, <1>5, <1>6 DEF FormNext

-------------------------------------------------------------------------------
(* The tags card.                                                              *)

\* What moves the card: its own steps, and the page that brings it and takes it away.
CardMoves == CardNext \/ MountCard \/ UnmountCard

Columns   == {"name", "color"}
Tables    == [TagIds -> Tags \cup {NoTag}]
TagReads  == [n : Nat, data : Tables \cup {Waiting}]
TagWrites == [n : Nat, kind : {"create", "update", "delete"}, id : TagIds \cup {NoId},
              tag : Tags \cup {NoTag}, seen : Tags \cup {NoTag},
              stage : {"sent", "begun", "ok", "failed"}, heard : BOOLEAN,
              fields : SUBSET Columns, fresh : BOOLEAN]

\* What each kind of write names and carries.
WellFormed(w) ==
  /\ w \in TagWrites
  /\ w.kind = "create" => w.id = NoId /\ w.tag \in Tags
  /\ w.kind = "update" => w.id \in TagIds /\ w.tag \in Tags /\ (w.stage = "begun" => w.seen \in Tags)
  /\ w.kind = "delete" => w.id \in TagIds

\* Every variable of the card keeps its type.
CardTypeOK ==
  /\ stored \in Tables /\ given \subseteq TagIds
  /\ mounted \in BOOLEAN /\ list \in Tables
  /\ editing \in TagIds \cup {NoId} /\ confirming \in TagIds \cup {NoId} /\ draft \in Tags
  /\ reads \subseteq TagReads /\ \A w \in writes : WellFormed(w)
  /\ lastRead \in Nat /\ shownRead \in Nat /\ tagWrites \in Nat /\ tagMishaps \in Nat
  /\ typed \in [fields : SUBSET Columns, fresh : BOOLEAN]
  /\ behind \in BOOLEAN

\* Reads are numbered as they begin, and the one shown is under way no more.
ReadsNumbered ==
  /\ shownRead <= lastRead
  /\ \A r \in reads : 1 <= r.n /\ r.n <= lastRead /\ r.n # shownRead
  /\ \A r, s \in reads : r.n = s.n => r = s
  /\ IF mounted THEN lastRead >= 1 ELSE reads = {} /\ list = NoTags /\ lastRead = 0 /\ shownRead = 0

\* A write is heard by the card that sent it.  One nobody hears settles at once, and the
\* card that is shown may be behind it.
UnheardBehind ==
  \A w \in writes : IF w.heard THEN mounted
                    ELSE w.stage \notin {"ok", "failed"} /\ (mounted => behind)

\* Until a write is answered, what the last read has read is what is stored.
ListStands ==
  mounted /\ ~behind /\ (\A w \in writes : w.stage # "ok") =>
    /\ \A r \in reads : r.n = lastRead /\ r.data # Waiting => r.data = stored
    /\ shownRead = lastRead => list = stored

ListInv == ReadsNumbered /\ UnheardBehind /\ ListStands

\* No id is given twice: whatever names a tag names one that was given out.
IdsGiven ==
  \A id \in TagIds :
    (\/ stored[id] # NoTag \/ list[id] # NoTag \/ editing = id \/ confirming = id
     \/ \E r \in reads : r.data # Waiting /\ r.data[id] # NoTag
     \/ \E w \in writes : w.id = id) => id \in given

WritesNumbered ==
  /\ \A w \in writes : w.n <= tagWrites
  /\ \A v, w \in writes : v.n = w.n => v = w

\* An edit that began up to date is alone with its tag, and what was not typed over is
\* what the tag has, or had when the row was read.
EditStands(w) ==
  w.kind = "update" /\ w.fresh =>
    /\ \A v \in writes : v.id = w.id => v.n = w.n
    /\ w.stage = "sent" /\ stored[w.id] # NoTag =>
         \A f \in Columns \ w.fields : w.tag[f] = stored[w.id][f]
    /\ w.stage = "begun" => \A f \in Columns \ w.fields : w.tag[f] = w.seen[f]

EditsStand == \A w \in writes : EditStands(w)

\* So is the draft, and only its own save is under way for its tag.
DraftStands ==
  typed.fresh /\ editing # NoId =>
    /\ stored[editing] # NoTag => \A f \in Columns \ typed.fields : draft[f] = stored[editing][f]
    /\ \A w \in writes : w.id = editing =>
         w.kind = "update" /\ w.fresh /\ w.fields \subseteq typed.fields

EditInv == IdsGiven /\ WritesNumbered /\ EditsStand /\ DraftStands

\* The same request, later: what it names and carries stays, and no promise is added.
Follows(v, w) ==
  /\ WellFormed(v)
  /\ v.n = w.n /\ v.kind = w.kind /\ v.id = w.id /\ v.tag = w.tag /\ v.fields = w.fields
  /\ v.fresh => w.fresh

\* What may happen to a write: nobody hears it any more, it settles, it begins, or the
\* edit it saves is outdated.
LEMMA Silenced ==
  ASSUME NEW w, WellFormed(w)
  PROVE  LET v == [w EXCEPT !.heard = FALSE]
         IN  Follows(v, w) /\ v.stage = w.stage /\ v.seen = w.seen /\ v.fresh = w.fresh /\ ~v.heard
<1>1. w \in TagWrites
  BY DEF WellFormed
<1> QED
  BY <1>1 DEF Follows, WellFormed, TagWrites

LEMMA Settled ==
  ASSUME NEW w, WellFormed(w), NEW stage \in {"ok", "failed"}
  PROVE  LET v == [w EXCEPT !.stage = stage, !.seen = NoTag]
         IN  Follows(v, w) /\ v.stage = stage /\ v.fresh = w.fresh /\ v.heard = w.heard
<1>1. w \in TagWrites
  BY DEF WellFormed
<1> QED
  BY <1>1 DEF Follows, WellFormed, TagWrites

LEMMA Begun ==
  ASSUME NEW w, WellFormed(w), NEW seen \in Tags \cup {NoTag}, w.kind = "update" => seen \in Tags
  PROVE  LET v == [w EXCEPT !.stage = "begun", !.seen = seen]
         IN  Follows(v, w) /\ v.stage = "begun" /\ v.seen = seen /\ v.fresh = w.fresh /\ v.heard = w.heard
<1>1. w \in TagWrites
  BY DEF WellFormed
<1> QED
  BY <1>1 DEF Follows, WellFormed, TagWrites

LEMMA Refreshed ==
  ASSUME NEW w, WellFormed(w), NEW fresh \in BOOLEAN, fresh => w.fresh
  PROVE  LET v == [w EXCEPT !.fresh = fresh]
         IN  Follows(v, w) /\ v.stage = w.stage /\ v.seen = w.seen /\ v.fresh = fresh /\ v.heard = w.heard
<1>1. w \in TagWrites
  BY DEF WellFormed
<1> QED
  BY <1>1 DEF Follows, WellFormed, TagWrites

\* A column of a tag.
LEMMA TagColumns ==
  ASSUME NEW tag \in Tags
  PROVE  tag["name"] = tag.name /\ tag["color"] = tag.color
BY DEF Tags

\* A PATCH changes the columns in which it differs from the row it read.
LEMMA PatchedFacts ==
  ASSUME NEW w, WellFormed(w), w.kind = "update", NEW tag \in Tags
  PROVE  /\ Patched(w, tag) \in Tags
         /\ w.seen \in Tags => \A f \in Columns : w.tag[f] = w.seen[f] => Patched(w, tag)[f] = tag[f]
<1>1. w.tag \in Tags
  BY DEF WellFormed
<1>2. Patched(w, tag) \in Tags
  BY <1>1 DEF Patched, Tags
<1>3. /\ Patched(w, tag).name = IF w.tag.name # w.seen.name THEN w.tag.name ELSE tag.name
      /\ Patched(w, tag).color = IF w.tag.color # w.seen.color THEN w.tag.color ELSE tag.color
  BY DEF Patched, Tags
<1>4. ASSUME w.seen \in Tags, NEW f \in Columns, w.tag[f] = w.seen[f] PROVE Patched(w, tag)[f] = tag[f]
  <2>1. CASE f = "name"
    BY <1>1, <1>2, <1>3, <1>4, <2>1, TagColumns
  <2>2. CASE f = "color"
    BY <1>1, <1>2, <1>3, <1>4, <2>2, TagColumns
  <2> QED
    BY <2>1, <2>2 DEF Columns
<1> QED
  BY <1>2, <1>4

\* A write that is sent, and the others at that moment.
NewWrite(kind, id, tag, fields, fresh) ==
  [n |-> tagWrites + 1, kind |-> kind, id |-> id, tag |-> tag, seen |-> NoTag, stage |-> "sent",
   heard |-> TRUE, fields |-> fields, fresh |-> fresh]

Outdated(w, id) == [w EXCEPT !.fresh = @ /\ w.id # id]

\* A write with the row and the values its kind asks for.
Sending(kind, id, tag, fields, fresh) ==
  /\ Send(kind, id, tag, fields, fresh)
  /\ fields \in SUBSET Columns /\ fresh \in BOOLEAN
  /\ \/ kind = "create" /\ id = NoId /\ tag \in Tags
     \/ kind = "update" /\ id \in TagIds /\ tag \in Tags
     \/ kind = "delete" /\ id \in TagIds /\ tag \in Tags \cup {NoTag}

LEMMA CreateSends ==
  ASSUME NEW tag \in Tags, HandleCreate(tag)
  PROVE  Sending("create", NoId, tag, {}, TRUE)
BY DEF HandleCreate, Sending

LEMMA EditSends ==
  ASSUME CardTypeOK, NEW tag \in Tags, HandleSaveEdit(tag)
  PROVE  Sending("update", editing, tag, typed.fields \cup {f \in Columns : tag[f] # draft[f]},
                 typed.fresh /\ ~ \E w \in writes : w.id = editing)
<1> DEFINE fields == typed.fields \cup {f \in Columns : tag[f] # draft[f]}
           fresh  == typed.fresh /\ ~ \E w \in writes : w.id = editing
<1>1. Send("update", editing, tag, fields, fresh) /\ editing \in TagIds
  BY DEF HandleSaveEdit, Listed, Columns
<1>2. fields \in SUBSET Columns /\ fresh \in BOOLEAN
  BY DEF CardTypeOK
<1> HIDE DEF fields, fresh
<1>3. Sending("update", editing, tag, fields, fresh)
  BY <1>1, <1>2 DEF Sending
<1> QED
  BY <1>3 DEF fields, fresh

LEMMA DeleteSends ==
  ASSUME HandleDelete
  PROVE  Sending("delete", confirming, NoTag, {}, TRUE)
BY DEF HandleDelete, Listed, Sending

LEMMA SendFacts ==
  ASSUME CardTypeOK, NEW kind, NEW id, NEW tag, NEW fields, NEW fresh,
         Sending(kind, id, tag, fields, fresh)
  PROVE  LET new == NewWrite(kind, id, tag, fields, fresh) IN
         /\ tagWrites' = tagWrites + 1
         /\ writes' = {Outdated(w, id) : w \in writes} \cup {new}
         /\ WellFormed(new) /\ new.n = tagWrites + 1 /\ new.kind = kind /\ new.id = id /\ new.tag = tag
         /\ new.stage = "sent" /\ new.heard /\ new.fields = fields /\ new.fresh = fresh
         /\ \A w \in writes :
              LET v == Outdated(w, id)
              IN  Follows(v, w) /\ v.stage = w.stage /\ v.seen = w.seen /\ v.heard = w.heard
                  /\ v.fresh = (w.fresh /\ w.id # id)
<1>1. tagWrites' = tagWrites + 1 /\ writes' = {Outdated(w, id) : w \in writes} \cup {NewWrite(kind, id, tag, fields, fresh)}
  BY DEF Sending, Send, Outdated, NewWrite
<1>2. tagWrites + 1 \in Nat
  BY DEF CardTypeOK
<1>3. NewWrite(kind, id, tag, fields, fresh) \in TagWrites
  BY <1>2 DEF Sending, NewWrite, TagWrites
<1>4. WellFormed(NewWrite(kind, id, tag, fields, fresh))
  BY <1>3 DEF Sending, WellFormed, NewWrite
<1>5. ASSUME NEW w \in writes
      PROVE  LET v == Outdated(w, id)
             IN  Follows(v, w) /\ v.stage = w.stage /\ v.seen = w.seen /\ v.heard = w.heard
                 /\ v.fresh = (w.fresh /\ w.id # id)
  <2> DEFINE still == w.fresh /\ w.id # id
  <2>1. WellFormed(w) /\ w.fresh \in BOOLEAN
    BY DEF CardTypeOK, WellFormed, TagWrites
  <2>2. Outdated(w, id) = [w EXCEPT !.fresh = still] /\ still \in BOOLEAN /\ (still => w.fresh)
    BY <2>1 DEF Outdated
  <2>3. still = (w.fresh /\ w.id # id)
    OBVIOUS
  <2> HIDE DEF still
  <2>4. LET v == [w EXCEPT !.fresh = still]
        IN  Follows(v, w) /\ v.stage = w.stage /\ v.seen = w.seen /\ v.fresh = still /\ v.heard = w.heard
    BY <2>1, <2>2, Refreshed
  <2> QED
    BY <2>2, <2>3, <2>4
<1> QED
  BY <1>1, <1>4, <1>5 DEF NewWrite

LEMMA LoseWriteFacts ==
  ASSUME CardTypeOK, NEW w \in writes, NEW goesOn \in BOOLEAN, LoseWrite(w, goesOn)
  PROVE  LET v == [w EXCEPT !.heard = FALSE] IN
         /\ \/ writes' = writes \ {w}
            \/ goesOn /\ w.stage \notin {"ok", "failed"} /\ writes' = (writes \ {w}) \cup {v}
         /\ Follows(v, w) /\ v.stage = w.stage /\ v.seen = w.seen /\ v.fresh = w.fresh /\ ~v.heard
<1>1. WellFormed(w)
  BY DEF CardTypeOK
<1>2. LET v == [w EXCEPT !.heard = FALSE] IN
      \/ writes' = writes \ {w}
      \/ goesOn /\ w.stage \notin {"ok", "failed"} /\ writes' = (writes \ {w}) \cup {v}
  BY DEF LoseWrite
<1>3. LET v == [w EXCEPT !.heard = FALSE] IN
      Follows(v, w) /\ v.stage = w.stage /\ v.seen = w.seen /\ v.fresh = w.fresh /\ ~v.heard
  BY <1>1, Silenced
<1> QED
  BY <1>2, <1>3

LEMMA BeginWriteFacts ==
  ASSUME CardTypeOK, NEW w \in writes, BeginWrite(w)
  PROVE  \E v : /\ Follows(v, w) /\ v.heard = w.heard /\ v.fresh = w.fresh /\ w.stage = "sent"
                /\ \/ v.stage = "failed" /\ writes' = (writes \ {w}) \cup (IF w.heard THEN {v} ELSE {})
                   \/ /\ v.stage = "begun" /\ writes' = (writes \ {w}) \cup {v}
                      /\ w.kind = "update" => v.seen = stored[w.id] /\ v.seen \in Tags
<1>1. WellFormed(w)
  BY DEF CardTypeOK
<1>2. CASE Settle(w, "failed")
  <2> DEFINE v == [w EXCEPT !.stage = "failed", !.seen = NoTag]
  <2>1. Follows(v, w) /\ v.stage = "failed" /\ v.fresh = w.fresh /\ v.heard = w.heard
    BY <1>1, Settled
  <2>2. writes' = (writes \ {w}) \cup (IF w.heard THEN {v} ELSE {}) /\ w.stage = "sent"
    BY <1>2 DEF Settle, BeginWrite
  <2> HIDE DEF v
  <2> QED
    BY <2>1, <2>2
<1>3. CASE ~Settle(w, "failed")
  <2> DEFINE seen == IF w.kind = "update" THEN stored[w.id] ELSE w.seen
             v    == [w EXCEPT !.stage = "begun", !.seen = seen]
  <2>1. /\ ~(IF w.kind = "create" THEN Taken(w.tag.name, TagIds) ELSE stored[w.id] = NoTag)
        /\ writes' = (writes \ {w}) \cup {v} /\ w.stage = "sent"
    BY <1>3 DEF BeginWrite
  <2>2. seen \in Tags \cup {NoTag} /\ (w.kind = "update" => seen \in Tags /\ seen = stored[w.id])
    BY <1>1, <2>1 DEF CardTypeOK, WellFormed, TagWrites, Tables
  <2> HIDE DEF seen
  <2>3. Follows(v, w) /\ v.stage = "begun" /\ v.seen = seen /\ v.fresh = w.fresh /\ v.heard = w.heard
    BY <1>1, <2>2, Begun
  <2> HIDE DEF v
  <2> QED
    BY <2>1, <2>2, <2>3
<1> QED
  BY <1>2, <1>3

LEMMA CommitWriteFacts ==
  ASSUME CardTypeOK, NEW w \in writes, CommitWrite(w)
  PROVE  \E v : /\ writes' = (writes \ {w}) \cup (IF w.heard THEN {v} ELSE {})
                /\ Follows(v, w) /\ v.heard = w.heard /\ v.fresh = w.fresh
                /\ v.stage = IF Refused(w) THEN "failed" ELSE "ok"
<1> DEFINE stage == IF Refused(w) THEN "failed" ELSE "ok"
           v     == [w EXCEPT !.stage = stage, !.seen = NoTag]
<1>1. stage \in {"ok", "failed"} /\ WellFormed(w)
  BY DEF CardTypeOK
<1>2. writes' = (writes \ {w}) \cup (IF w.heard THEN {v} ELSE {})
  BY DEF CommitWrite, Settle
<1>3. stage = IF Refused(w) THEN "failed" ELSE "ok"
  OBVIOUS
<1> HIDE DEF stage
<1>4. Follows(v, w) /\ v.stage = stage /\ v.fresh = w.fresh /\ v.heard = w.heard
  BY <1>1, Settled
<1> HIDE DEF v
<1> QED
  BY <1>2, <1>3, <1>4

\* What the table becomes.
LEMMA CommitStored ==
  ASSUME CardTypeOK, NEW w \in writes, CommitWrite(w)
  PROVE  /\ stored' \in Tables /\ given \subseteq given' /\ given' \subseteq TagIds
         /\ Refused(w) => stored' = stored
         /\ w.kind = "update" => w.id \in TagIds /\ \A id \in TagIds : stored'[id] =
              IF id = w.id /\ stored[id] # NoTag /\ ~Refused(w) THEN Patched(w, stored[id]) ELSE stored[id]
         /\ \A id \in TagIds : /\ stored'[id] # NoTag => stored[id] # NoTag \/ id \notin given
                               /\ stored'[id] # NoTag => id \in given' \/ stored[id] # NoTag
                               /\ id \in given /\ stored'[id] # stored[id] => w.id = id
<1>1. WellFormed(w) /\ stored \in Tables /\ given \subseteq TagIds
  BY DEF CardTypeOK
<1>2. CASE Refused(w) /\ UNCHANGED <<stored, given>>
  BY <1>1, <1>2 DEF WellFormed
<1>3. ASSUME w.kind = "create", ~Refused(w), NEW id \in TagIds \ given,
             stored' = [stored EXCEPT ![id] = w.tag], given' = given \cup {id}
      PROVE  /\ stored' \in Tables /\ given \subseteq given' /\ given' \subseteq TagIds
             /\ \A i \in TagIds : stored'[i] # stored[i] => i = id
  BY <1>1, <1>3 DEF WellFormed, Tables
<1>4. CASE /\ w.kind = "update" /\ ~Refused(w) /\ UNCHANGED given
           /\ stored' = [stored EXCEPT ![w.id] = IF @ = NoTag THEN @ ELSE Patched(w, @)]
  <2>1. w.id \in TagIds
    BY <1>1, <1>4 DEF WellFormed
  <2>2. stored[w.id] # NoTag => Patched(w, stored[w.id]) \in Tags
    BY <1>1, <1>4, <2>1, PatchedFacts DEF Tables
  <2>3. \A i \in TagIds : stored'[i] = IF i = w.id /\ stored[i] # NoTag THEN Patched(w, stored[i]) ELSE stored[i]
    BY <1>1, <1>4, <2>1 DEF Tables
  <2>4. stored' \in Tables
    BY <1>1, <1>4, <2>1, <2>2 DEF Tables
  <2> QED
    BY <1>1, <1>4, <2>1, <2>3, <2>4
<1>5. CASE w.kind = "delete" /\ stored' = [stored EXCEPT ![w.id] = NoTag] /\ UNCHANGED given /\ ~Refused(w)
  <2>1. w.id \in TagIds
    BY <1>1, <1>5 DEF WellFormed
  <2>2. stored' \in Tables /\ \A i \in TagIds : stored'[i] = IF i = w.id THEN NoTag ELSE stored[i]
    BY <1>1, <1>5, <2>1 DEF Tables
  <2> QED
    BY <1>1, <1>5, <2>1, <2>2
<1>6. w.kind = "delete" => ~Refused(w)
  BY DEF Refused
<1>7. CASE \E id \in TagIds \ given : /\ w.kind = "create" /\ ~Refused(w)
                                       /\ stored' = [stored EXCEPT ![id] = w.tag] /\ given' = given \cup {id}
  BY <1>1, <1>3, <1>7
<1> QED
  BY <1>2, <1>4, <1>5, <1>6, <1>7 DEF CommitWrite

\* Over a step of the card a write goes on, is gone, or is sent now under a new number.
LEMMA WritesGoOn ==
  ASSUME CardTypeOK, WritesNumbered, CardMoves
  PROVE  /\ tagWrites' \in Nat /\ tagWrites <= tagWrites'
         /\ \A v \in writes' : \/ \E w \in writes : Follows(v, w)
                               \/ WellFormed(v) /\ v.n = tagWrites' /\ tagWrites' = tagWrites + 1
         /\ WritesNumbered'
<1> DEFINE Goal == /\ tagWrites' \in Nat /\ tagWrites <= tagWrites'
                   /\ \A v \in writes' : \/ \E w \in writes : Follows(v, w)
                                         \/ WellFormed(v) /\ v.n = tagWrites' /\ tagWrites' = tagWrites + 1
                   /\ WritesNumbered'
<1>1. tagWrites \in Nat /\ \A w \in writes : WellFormed(w) /\ w.n \in Nat /\ Follows(w, w)
  BY DEF CardTypeOK, WellFormed, TagWrites, Follows
<1>2. CASE writes' = writes /\ tagWrites' = tagWrites
  BY <1>1, <1>2 DEF WritesNumbered
<1>3. ASSUME NEW w \in writes, NEW v, Follows(v, w), tagWrites' = tagWrites,
             writes' = writes \ {w} \/ writes' = (writes \ {w}) \cup {v}
      PROVE  Goal
  BY <1>1, <1>3 DEF WritesNumbered, Follows
<1>4. ASSUME NEW w \in writes, BeginWrite(w) PROVE Goal
  BY <1>3, <1>4, BeginWriteFacts DEF BeginWrite
<1>5. ASSUME NEW w \in writes, CommitWrite(w) PROVE Goal
  BY <1>3, <1>5, CommitWriteFacts DEF CommitWrite
<1>6. ASSUME NEW w \in writes, HearWrite(w) PROVE Goal
  BY <1>1, <1>3, <1>6 DEF HearWrite
<1>7. ASSUME NEW w \in writes, NEW goesOn \in BOOLEAN, LoseWrite(w, goesOn) PROVE Goal
  BY <1>3, <1>7, LoseWriteFacts DEF LoseWrite
<1>8. ASSUME NEW kind, NEW id, NEW tag, NEW fields, NEW fresh, Sending(kind, id, tag, fields, fresh)
      PROVE  Goal
  <2> DEFINE new == NewWrite(kind, id, tag, fields, fresh)
  <2>1. /\ tagWrites' = tagWrites + 1 /\ WellFormed(new) /\ new.n = tagWrites + 1
        /\ writes' = {Outdated(w, id) : w \in writes} \cup {new}
        /\ \A w \in writes : Follows(Outdated(w, id), w)
    BY <1>8, SendFacts
  <2> HIDE DEF new
  <2>2. \A v \in writes' : v = new \/ \E w \in writes : v = Outdated(w, id) /\ Follows(v, w) /\ v.n = w.n
    BY <2>1 DEF Follows
  <2>3. \A w \in writes : w.n <= tagWrites /\ \A v \in writes : v.n = w.n => v = w
    BY DEF WritesNumbered
  <2>4. ASSUME NEW u \in writes', NEW v \in writes', u.n = v.n PROVE u = v
    BY <1>1, <2>1, <2>2, <2>3, <2>4
  <2>5. \A v \in writes' : v.n <= tagWrites'
    BY <1>1, <2>1, <2>2, <2>3
  <2>6. WritesNumbered'
    BY <2>4, <2>5 DEF WritesNumbered
  <2> QED
    BY <1>1, <2>1, <2>2, <2>6
<1> HIDE DEF Goal
<1>9. ASSUME NEW tag \in Tags, HandleCreate(tag) PROVE Goal
  BY <1>8, <1>9, CreateSends
<1>10. ASSUME NEW tag \in Tags, HandleSaveEdit(tag) PROVE Goal
  BY <1>8, <1>10, EditSends
<1>11. ASSUME HandleDelete PROVE Goal
  BY <1>8, <1>11, DeleteSends
<1> USE DEF Goal
<1>12. ASSUME NEW id \in TagIds, ChangeElsewhere(id) PROVE Goal
  <2> DEFINE Later(w) == [w EXCEPT !.fresh = FALSE]
  <2>1. tagWrites' = tagWrites /\ \A v \in writes' : \E w \in writes : v = Later(w)
    BY <1>12 DEF ChangeElsewhere
  <2>2. \A w \in writes : Follows(Later(w), w)
    BY <1>1, Refreshed
  <2> HIDE DEF Later
  <2>3. \A v \in writes' : \E w \in writes : v = Later(w) /\ Follows(v, w) /\ v.n = w.n
    BY <2>1, <2>2 DEF Follows
  <2>4. ASSUME NEW u \in writes', NEW v \in writes', u.n = v.n PROVE u = v
    BY <2>3, <2>4 DEF WritesNumbered
  <2>5. \A v \in writes' : v.n <= tagWrites'
    BY <2>1, <2>3 DEF WritesNumbered
  <2> QED
    BY <1>1, <2>1, <2>3, <2>4, <2>5 DEF WritesNumbered
<1>13. CASE UnmountCard
  <2> DEFINE Later(w) == [w EXCEPT !.heard = FALSE]
  <2>1. tagWrites' = tagWrites /\ \A v \in writes' : \E w \in writes : v = Later(w)
    BY <1>13 DEF UnmountCard
  <2>2. \A w \in writes : Follows(Later(w), w)
    BY <1>1, Silenced
  <2> HIDE DEF Later
  <2>3. \A v \in writes' : \E w \in writes : v = Later(w) /\ Follows(v, w) /\ v.n = w.n
    BY <2>1, <2>2 DEF Follows
  <2>4. ASSUME NEW u \in writes', NEW v \in writes', u.n = v.n PROVE u = v
    BY <2>3, <2>4 DEF WritesNumbered
  <2>5. \A v \in writes' : v.n <= tagWrites'
    BY <2>1, <2>3 DEF WritesNumbered
  <2> QED
    BY <1>1, <2>1, <2>3, <2>4, <2>5 DEF WritesNumbered
<1>14. ASSUME NEW r \in reads, ServeRead(r) \/ HearRead(r) \/ LoseRead(r) PROVE Goal
  BY <1>2, <1>14 DEF ServeRead, HearRead, LoseRead
<1>15. ASSUME NEW id \in TagIds, StartEdit(id) \/ AskDelete(id) PROVE Goal
  BY <1>2, <1>15 DEF StartEdit, AskDelete
<1>16. CASE CancelEdit \/ KeepTag \/ MountCard
  BY <1>2, <1>16 DEF CancelEdit, KeepTag, MountCard
<1> QED
  BY <1>4, <1>5, <1>6, <1>7, <1>9, <1>10, <1>11, <1>12, <1>13, <1>14, <1>15, <1>16 DEF CardMoves, CardNext

LEMMA CardTypeStart == CardInit => CardTypeOK
<1> SUFFICES ASSUME CardInit PROVE CardTypeOK
  OBVIOUS
<1>1. NoDraft \in Tags /\ NoTags \in Tables
  BY CardAssumption DEF NoDraft, Tags, NoTags, Tables
<1>2. stored \in Tables /\ given \subseteq TagIds
  BY CardAssumption DEF CardInit, Tables
<1>3. typed \in [fields : SUBSET Columns, fresh : BOOLEAN] /\ reads = {} /\ writes = {}
  BY DEF CardInit, Untyped
<1> QED
  BY <1>1, <1>2, <1>3 DEF CardInit, CardTypeOK

LEMMA CardTypeStep ==
  ASSUME CardTypeOK, WritesNumbered, [CardMoves]_cardVars
  PROVE  CardTypeOK'
<1>1. CASE UNCHANGED cardVars
  BY <1>1 DEF cardVars, CardTypeOK
<1> SUFFICES ASSUME CardMoves PROVE CardTypeOK'
  BY <1>1
<1>2. /\ stored \in Tables /\ given \subseteq TagIds /\ mounted \in BOOLEAN /\ list \in Tables
      /\ editing \in TagIds \cup {NoId} /\ confirming \in TagIds \cup {NoId} /\ draft \in Tags
      /\ reads \subseteq TagReads /\ lastRead \in Nat /\ shownRead \in Nat /\ tagMishaps \in Nat
      /\ typed \in [fields : SUBSET Columns, fresh : BOOLEAN] /\ behind \in BOOLEAN
  BY DEF CardTypeOK
<1>3. tagWrites' \in Nat /\ \A w \in writes' : WellFormed(w)
  BY WritesGoOn DEF Follows
<1> DEFINE Rest == /\ stored' \in Tables /\ given' \subseteq TagIds /\ mounted' \in BOOLEAN /\ list' \in Tables
                   /\ editing' \in TagIds \cup {NoId} /\ confirming' \in TagIds \cup {NoId} /\ draft' \in Tags
                   /\ reads' \subseteq TagReads /\ lastRead' \in Nat /\ shownRead' \in Nat /\ tagMishaps' \in Nat
                   /\ typed' \in [fields : SUBSET Columns, fresh : BOOLEAN] /\ behind' \in BOOLEAN
<1>4. StartRead => lastRead' \in Nat /\ reads' \subseteq TagReads /\ behind' \in BOOLEAN
  BY <1>2 DEF StartRead, Read, TagReads
<1>5. \A r \in reads : r \in TagReads /\ [r EXCEPT !.data = stored] \in TagReads
  BY <1>2 DEF TagReads
<1>6. ASSUME NEW r \in reads, ServeRead(r) \/ HearRead(r) \/ LoseRead(r) PROVE Rest
  <2>1. r.n \in Nat /\ (r.data # Waiting => r.data \in Tables)
    BY <1>5 DEF TagReads
  <2> QED
    BY <1>2, <1>5, <1>6, <2>1 DEF ServeRead, HearRead, LoseRead
<1>7. ASSUME NEW id \in TagIds, StartEdit(id) \/ AskDelete(id) PROVE Rest
  <2>1. id \in Listed => list[id] \in Tags
    BY <1>2 DEF Listed, Tables
  <2>2. CASE StartEdit(id)
    <3>1. UpToDate \in BOOLEAN
      BY DEF UpToDate
    <3> QED
      BY <1>2, <2>1, <2>2, <3>1 DEF StartEdit
  <2>3. CASE AskDelete(id)
    BY <1>2, <2>3 DEF AskDelete
  <2> QED
    BY <1>7, <2>2, <2>3
<1>8. ASSUME CancelEdit \/ KeepTag \/ HandleDelete PROVE Rest
  BY <1>2, <1>8 DEF CancelEdit, KeepTag, HandleDelete
<1>9. ASSUME NEW tag \in Tags, HandleCreate(tag) PROVE Rest
  BY <1>2, <1>9 DEF HandleCreate
<1>10. ASSUME NEW tag \in Tags, HandleSaveEdit(tag) PROVE Rest
  <2>1. typed' \in [fields : SUBSET Columns, fresh : BOOLEAN]
    BY <1>2, <1>10 DEF HandleSaveEdit, Columns
  <2> QED
    BY <1>2, <1>10, <2>1 DEF HandleSaveEdit
<1>11. ASSUME NEW w \in writes, BeginWrite(w) PROVE Rest
  BY <1>2, <1>11 DEF BeginWrite
<1>12. ASSUME NEW w \in writes, CommitWrite(w) PROVE Rest
  BY <1>2, <1>12, CommitStored DEF CommitWrite
<1>13. ASSUME NEW w \in writes, HearWrite(w) PROVE Rest
  BY <1>2, <1>4, <1>13 DEF HearWrite
<1>14. ASSUME NEW w \in writes, NEW goesOn \in BOOLEAN, LoseWrite(w, goesOn) PROVE Rest
  BY <1>2, <1>14 DEF LoseWrite
<1>15. ASSUME NEW id \in TagIds, ChangeElsewhere(id) PROVE Rest
  <2>1. PICK tag \in {NoTag} \cup {[stored[id] EXCEPT !.color = c] : c \in Colors \ {stored[id].color}} :
             stored' = [stored EXCEPT ![id] = tag]
    BY <1>15 DEF ChangeElsewhere
  <2>2. stored[id] \in Tags
    BY <1>2, <1>15 DEF ChangeElsewhere, Tables
  <2>3. tag \in Tags \cup {NoTag}
    BY <2>2 DEF Tags
  <2>4. stored' \in Tables
    BY <1>2, <2>1, <2>3 DEF Tables
  <2>5. /\ tagMishaps' = tagMishaps + 1 /\ behind' = TRUE /\ typed' = [typed EXCEPT !.fresh = FALSE]
        /\ UNCHANGED <<given, mounted, list, editing, draft, confirming, reads, lastRead, shownRead>>
    BY <1>15 DEF ChangeElsewhere
  <2>6. typed' \in [fields : SUBSET Columns, fresh : BOOLEAN]
    BY <1>2, <2>5
  <2> QED
    BY <1>2, <2>4, <2>5, <2>6
<1>16. ASSUME MountCard PROVE Rest
  BY <1>2, <1>4, <1>16 DEF MountCard
<1>17. ASSUME UnmountCard PROVE Rest
  <2>1. NoDraft \in Tags /\ NoTags \in Tables
    BY CardAssumption DEF NoDraft, Tags, NoTags, Tables
  <2> QED
    BY <1>2, <1>17, <2>1 DEF UnmountCard, Untyped
<1>18. Rest
  BY <1>6, <1>7, <1>8, <1>9, <1>10, <1>11, <1>12, <1>13, <1>14, <1>15, <1>16, <1>17 DEF CardMoves, CardNext
<1> QED
  BY <1>3, <1>18 DEF CardTypeOK

-------------------------------------------------------------------------------
(* The list.                                                                   *)

LEMMA ReadsStep ==
  ASSUME CardTypeOK, ReadsNumbered, UnheardBehind, CardMoves
  PROVE  ReadsNumbered'
<1>1. /\ lastRead \in Nat /\ shownRead \in Nat
      /\ \A r \in reads : r.n \in Nat /\ [r EXCEPT !.data = stored].n = r.n
  BY DEF CardTypeOK, TagReads
<1>2. CASE UNCHANGED <<mounted, list, reads, lastRead, shownRead>>
  BY <1>2 DEF ReadsNumbered
<1>3. ASSUME StartRead, mounted', UNCHANGED shownRead PROVE ReadsNumbered'
  <2>1. Read.n = lastRead + 1 /\ lastRead' = lastRead + 1 /\ reads' = reads \cup {Read}
    BY <1>3 DEF StartRead, Read
  <2> QED
    BY <1>1, <1>3, <2>1 DEF ReadsNumbered
<1>4. ASSUME NEW r \in reads, ServeRead(r) PROVE ReadsNumbered'
  <2> DEFINE s == [r EXCEPT !.data = stored]
  <2>1. s.n = r.n /\ reads' = (reads \ {r}) \cup {s} /\ UNCHANGED <<mounted, list, lastRead, shownRead>>
    BY <1>1, <1>4 DEF ServeRead
  <2> HIDE DEF s
  <2> QED
    BY <1>1, <2>1 DEF ReadsNumbered
<1>5. ASSUME NEW r \in reads, HearRead(r) \/ LoseRead(r) PROVE ReadsNumbered'
  BY <1>1, <1>5 DEF HearRead, LoseRead, ReadsNumbered
<1>6. ASSUME NEW w \in writes, HearWrite(w) PROVE ReadsNumbered'
  <2>1. mounted' = mounted /\ UNCHANGED <<list, shownRead>> /\ mounted
    BY <1>6 DEF HearWrite, UnheardBehind
  <2> QED
    BY <1>2, <1>3, <1>6, <2>1 DEF HearWrite
<1>7. CASE MountCard
  BY <1>3, <1>7 DEF MountCard
<1>8. CASE UnmountCard
  BY <1>8 DEF UnmountCard, ReadsNumbered
<1>9. CASE \/ \E id \in TagIds : StartEdit(id) \/ AskDelete(id) \/ ChangeElsewhere(id)
           \/ CancelEdit \/ KeepTag \/ HandleDelete
           \/ \E tag \in Tags : HandleCreate(tag) \/ HandleSaveEdit(tag)
           \/ \E w \in writes : BeginWrite(w) \/ CommitWrite(w) \/ \E goesOn \in BOOLEAN : LoseWrite(w, goesOn)
  BY <1>2, <1>9 DEF StartEdit, AskDelete, ChangeElsewhere, CancelEdit, KeepTag, HandleDelete, HandleCreate,
                    HandleSaveEdit, BeginWrite, CommitWrite, LoseWrite
<1> QED
  BY <1>4, <1>5, <1>6, <1>7, <1>8, <1>9 DEF CardMoves, CardNext

\* The three handlers that send, and what they leave.
LEMMA Sends ==
  ASSUME CardTypeOK,
         HandleDelete \/ \E tag \in Tags : HandleCreate(tag) \/ HandleSaveEdit(tag)
  PROVE  /\ UNCHANGED <<stored, given, mounted, list, editing, confirming, reads, lastRead, shownRead, behind>>
         /\ \A v \in writes' : \/ v.heard /\ v.stage = "sent"
                               \/ \E w \in writes : v.heard = w.heard /\ v.stage = w.stage
         /\ \A w \in writes : \E v \in writes' : v.stage = w.stage
<1>1. UNCHANGED <<stored, given, mounted, list, editing, confirming, reads, lastRead, shownRead, behind>>
  BY DEF HandleDelete, HandleCreate, HandleSaveEdit
<1>2. PICK kind, id, tag, fields, fresh : Sending(kind, id, tag, fields, fresh)
  BY CreateSends, EditSends, DeleteSends
<1> DEFINE new == NewWrite(kind, id, tag, fields, fresh)
<1>3. /\ writes' = {Outdated(w, id) : w \in writes} \cup {new}
      /\ new.stage = "sent" /\ new.heard
  BY <1>2 DEF Sending, Send, Outdated, NewWrite
<1>4. \A w \in writes : Outdated(w, id).stage = w.stage /\ Outdated(w, id).heard = w.heard
  BY DEF CardTypeOK, WellFormed, TagWrites, Outdated
<1> HIDE DEF new
<1> QED
  BY <1>1, <1>3, <1>4

LEMMA UnheardStep ==
  ASSUME CardTypeOK, ReadsNumbered, UnheardBehind, CardMoves
  PROVE  UnheardBehind'
<1>1. \A w \in writes : WellFormed(w) /\ w.heard \in BOOLEAN
  BY DEF CardTypeOK, WellFormed, TagWrites
<1>2. CASE UNCHANGED <<mounted, writes, behind>>
  BY <1>2 DEF UnheardBehind
<1>3. ASSUME StartRead, writes' \subseteq writes, mounted' PROVE UnheardBehind'
  BY <1>3 DEF StartRead, UnheardBehind
<1>4. CASE MountCard
  BY <1>3, <1>4 DEF MountCard
<1>5. ASSUME NEW w \in writes, HearWrite(w) PROVE UnheardBehind'
  <2>1. UNCHANGED mounted /\ writes' = writes \ {w} /\ mounted
    BY <1>5 DEF HearWrite, UnheardBehind
  <2>2. CASE w.stage = "ok"
    BY <1>3, <1>5, <2>1, <2>2 DEF HearWrite
  <2>3. CASE w.stage # "ok"
    BY <1>5, <2>1, <2>3 DEF HearWrite, UnheardBehind
  <2> QED
    BY <2>2, <2>3
<1>6. ASSUME NEW w \in writes, NEW goesOn \in BOOLEAN, LoseWrite(w, goesOn) PROVE UnheardBehind'
  <2>1. UNCHANGED mounted /\ behind' = (behind \/ w.stage = "ok" \/ goesOn)
    BY <1>6 DEF LoseWrite
  <2> QED
    BY <1>6, <2>1, LoseWriteFacts DEF UnheardBehind
<1>7. ASSUME NEW w \in writes, BeginWrite(w) PROVE UnheardBehind'
  <2>1. UNCHANGED <<mounted, behind>>
    BY <1>7 DEF BeginWrite
  <2> QED
    BY <1>7, <2>1, BeginWriteFacts DEF UnheardBehind
<1>8. ASSUME NEW w \in writes, CommitWrite(w) PROVE UnheardBehind'
  <2>1. UNCHANGED <<mounted, behind>>
    BY <1>8 DEF CommitWrite
  <2> QED
    BY <1>8, <2>1, CommitWriteFacts DEF UnheardBehind
<1>9. ASSUME HandleDelete \/ \E tag \in Tags : HandleCreate(tag) \/ HandleSaveEdit(tag) PROVE UnheardBehind'
  <2>1. mounted
    <3>1. HandleDelete \/ (\E tag \in Tags : HandleSaveEdit(tag)) => \E id \in TagIds : list[id] # NoTag
      BY DEF HandleDelete, HandleSaveEdit, Listed
    <3> QED
      BY <1>9, <3>1 DEF HandleCreate, ReadsNumbered, NoTags
  <2>2. /\ UNCHANGED <<mounted, behind>>
        /\ \A v \in writes' : \/ v.heard /\ v.stage = "sent"
                              \/ \E w \in writes : v.heard = w.heard /\ v.stage = w.stage
    BY <1>9, Sends
  <2> QED
    BY <2>1, <2>2 DEF UnheardBehind
<1>10. ASSUME NEW id \in TagIds, ChangeElsewhere(id) PROVE UnheardBehind'
  <2> DEFINE Later(w) == [w EXCEPT !.fresh = FALSE]
  <2>1. behind' /\ UNCHANGED mounted /\ \A v \in writes' : \E w \in writes : v = Later(w)
    BY <1>10 DEF ChangeElsewhere
  <2>2. \A w \in writes : Later(w).heard = w.heard /\ Later(w).stage = w.stage
    BY <1>1, Refreshed
  <2> HIDE DEF Later
  <2> QED
    BY <2>1, <2>2 DEF UnheardBehind
<1>11. CASE UnmountCard
  <2> DEFINE Later(w) == [w EXCEPT !.heard = FALSE]
  <2>1. ~mounted' /\ \A v \in writes' : \E w \in writes : v = Later(w) /\ w.stage \notin {"ok", "failed"}
    BY <1>11 DEF UnmountCard
  <2>2. \A w \in writes : Later(w).stage = w.stage /\ ~Later(w).heard
    BY <1>1, Silenced
  <2> HIDE DEF Later
  <2> QED
    BY <2>1, <2>2 DEF UnheardBehind
<1>12. CASE \/ \E r \in reads : ServeRead(r) \/ HearRead(r) \/ LoseRead(r)
            \/ \E id \in TagIds : StartEdit(id) \/ AskDelete(id)
            \/ CancelEdit \/ KeepTag
  BY <1>2, <1>12 DEF ServeRead, HearRead, LoseRead, StartEdit, AskDelete, CancelEdit, KeepTag
<1> QED
  BY <1>4, <1>5, <1>6, <1>7, <1>8, <1>9, <1>10, <1>11, <1>12 DEF CardMoves, CardNext

LEMMA ListStep ==
  ASSUME CardTypeOK, ListInv, CardMoves
  PROVE  ListStands'
<1>1. /\ lastRead \in Nat /\ shownRead \in Nat /\ shownRead <= lastRead
      /\ \A r \in reads : r.n <= lastRead /\ r.n \in Nat
  BY DEF CardTypeOK, TagReads, ListInv, ReadsNumbered
<1>2. ListStands /\ UnheardBehind
  BY DEF ListInv
<1>3. ASSUME UNCHANGED <<stored, mounted, list, reads, lastRead, shownRead>>, behind => behind',
             (\E w \in writes : w.stage = "ok") => behind' \/ \E w \in writes' : w.stage = "ok"
      PROVE  ListStands'
  BY <1>2, <1>3 DEF ListStands
<1>4. ASSUME StartRead, UNCHANGED shownRead PROVE ListStands'
  <2>1. lastRead' = lastRead + 1 /\ reads' = reads \cup {Read} /\ Read.data = Waiting
    BY <1>4 DEF StartRead, Read
  <2>2. \A r \in reads' : r.n = lastRead' => r.data = Waiting
    BY <1>1, <2>1
  <2>3. shownRead' # lastRead'
    BY <1>1, <1>4, <2>1
  <2>4. Waiting' = Waiting
    BY DEF Waiting
  <2> QED
    BY <2>2, <2>3, <2>4 DEF ListStands
<1>5. CASE MountCard
  BY <1>4, <1>5 DEF MountCard
<1>6. ASSUME NEW w \in writes, HearWrite(w) PROVE ListStands'
  <2>1. CASE w.stage = "ok"
    BY <1>4, <1>6, <2>1 DEF HearWrite
  <2>2. CASE w.stage # "ok"
    BY <1>3, <1>6, <2>2 DEF HearWrite
  <2> QED
    BY <2>1, <2>2
<1>7. ASSUME NEW r \in reads, ServeRead(r) PROVE ListStands'
  <2> DEFINE s == [r EXCEPT !.data = stored]
  <2>1. /\ s.data = stored /\ reads' = (reads \ {r}) \cup {s}
        /\ UNCHANGED <<stored, mounted, list, writes, lastRead, shownRead, behind>>
    BY <1>7 DEF ServeRead, CardTypeOK, TagReads
  <2> HIDE DEF s
  <2> QED
    BY <1>2, <2>1 DEF ListStands, Waiting
<1>8. ASSUME NEW r \in reads, HearRead(r) \/ LoseRead(r) PROVE ListStands'
  <2>1. /\ reads' = reads \ {r} /\ UNCHANGED <<stored, mounted, writes, lastRead, behind>>
        /\ \/ UNCHANGED <<list, shownRead>>
           \/ r.data # Waiting /\ list' = r.data /\ shownRead' = r.n
    BY <1>8 DEF HearRead, LoseRead
  <2> QED
    BY <1>2, <2>1 DEF ListStands, Waiting
<1>9. ASSUME NEW w \in writes, NEW goesOn \in BOOLEAN, LoseWrite(w, goesOn) PROVE ListStands'
  <2>1. /\ behind' = (behind \/ w.stage = "ok" \/ goesOn)
        /\ UNCHANGED <<stored, mounted, list, reads, lastRead, shownRead>>
    BY <1>9 DEF LoseWrite
  <2>2. \A v \in writes : v # w => v \in writes'
    BY <1>9, LoseWriteFacts
  <2> QED
    BY <1>3, <2>1, <2>2
<1>10. ASSUME NEW w \in writes, BeginWrite(w) PROVE ListStands'
  <2>1. UNCHANGED <<stored, mounted, list, reads, lastRead, shownRead, behind>> /\ w.stage = "sent"
    BY <1>10 DEF BeginWrite
  <2>2. \A v \in writes : v # w => v \in writes'
    BY <1>10, BeginWriteFacts
  <2> QED
    BY <1>3, <2>1, <2>2
<1>11. ASSUME NEW w \in writes, CommitWrite(w) PROVE ListStands'
  <2>1. UNCHANGED <<mounted, list, reads, lastRead, shownRead, behind>> /\ w.stage = "begun"
    BY <1>11 DEF CommitWrite
  <2>2. PICK v : /\ writes' = (writes \ {w}) \cup (IF w.heard THEN {v} ELSE {})
                 /\ v.stage = IF Refused(w) THEN "failed" ELSE "ok"
    BY <1>11, CommitWriteFacts
  <2>3. CASE Refused(w)
    <3>1. stored' = stored
      BY <1>11, <2>3, CommitStored
    <3> QED
      BY <1>3, <2>1, <2>2, <3>1
  <2>4. CASE ~Refused(w) /\ w.heard
    <3>1. v \in writes' /\ v.stage = "ok"
      BY <2>2, <2>4
    <3> QED
      BY <3>1 DEF ListStands
  <2>5. CASE ~w.heard
    BY <1>2, <2>1, <2>5 DEF UnheardBehind, ListStands
  <2> QED
    BY <2>3, <2>4, <2>5
<1>12. ASSUME HandleDelete \/ \E tag \in Tags : HandleCreate(tag) \/ HandleSaveEdit(tag) PROVE ListStands'
  BY <1>3, <1>12, Sends
<1>13. CASE UnmountCard
  BY <1>13 DEF UnmountCard, ListStands
<1>14. ASSUME NEW id \in TagIds, ChangeElsewhere(id) PROVE ListStands'
  BY <1>14 DEF ChangeElsewhere, ListStands
<1>15. CASE (\E id \in TagIds : StartEdit(id) \/ AskDelete(id)) \/ CancelEdit \/ KeepTag
  BY <1>3, <1>15 DEF StartEdit, AskDelete, CancelEdit, KeepTag
<1> QED
  BY <1>5, <1>6, <1>7, <1>8, <1>9, <1>10, <1>11, <1>12, <1>13, <1>14, <1>15 DEF CardMoves, CardNext

LEMMA ListInvStep ==
  ASSUME CardTypeOK, ListInv, [CardMoves]_cardVars
  PROVE  ListInv'
<1>1. CASE UNCHANGED cardVars
  BY <1>1 DEF cardVars, ListInv, ReadsNumbered, UnheardBehind, ListStands, NoTags, Waiting
<1>2. CASE CardMoves
  BY <1>2, ReadsStep, UnheardStep, ListStep DEF ListInv
<1> QED
  BY <1>1, <1>2

LEMMA ListInvStart == CardInit => ListInv
BY DEF CardInit, ListInv, ReadsNumbered, UnheardBehind, ListStands

\* What is inductive about the list gives what it promises.
LEMMA ListHolds ==
  ASSUME ListInv
  PROVE  ListsWhatIsStored
BY DEF ListInv, ListStands, ListsWhatIsStored, UpToDate

-------------------------------------------------------------------------------
(* The edits.                                                                  *)

LEMMA IdsStep ==
  ASSUME CardTypeOK, IdsGiven, CardMoves
  PROVE  IdsGiven'
<1> DEFINE Named(id) == \/ stored[id] # NoTag \/ list[id] # NoTag \/ editing = id \/ confirming = id
                        \/ \E r \in reads : r.data # Waiting /\ r.data[id] # NoTag
                        \/ \E w \in writes : w.id = id
           Goal == \A id \in TagIds : Named(id)' => id \in given'
<1>1. NoId \notin TagIds /\ Waiting' = Waiting /\ \A id \in TagIds : Named(id) => id \in given
  BY CardAssumption DEF IdsGiven, Waiting
<1>2. ASSUME UNCHANGED <<stored, given, list, editing, confirming, reads>>,
             \A v \in writes' : \E w \in writes : v.id = w.id
      PROVE  Goal
  BY <1>1, <1>2
<1>3. ASSUME NEW r \in reads, ServeRead(r) PROVE Goal
  <2> DEFINE s == [r EXCEPT !.data = stored]
  <2>1. s.data = stored /\ reads' = (reads \ {r}) \cup {s}
    BY <1>3 DEF ServeRead, CardTypeOK, TagReads
  <2> HIDE DEF s
  <2>2. UNCHANGED <<stored, given, list, editing, confirming, writes>>
    BY <1>3 DEF ServeRead
  <2> QED
    BY <1>1, <2>1, <2>2
<1>4. ASSUME NEW r \in reads, HearRead(r) \/ LoseRead(r) PROVE Goal
  <2>1. /\ UNCHANGED <<stored, given, editing, confirming, writes>> /\ reads' = reads \ {r}
        /\ list' = list \/ (list' = r.data /\ r.data # Waiting)
    BY <1>4 DEF HearRead, LoseRead
  <2> QED
    BY <1>1, <2>1
<1>5. ASSUME NEW id \in TagIds, StartEdit(id) \/ AskDelete(id) PROVE Goal
  <2>1. /\ UNCHANGED <<stored, given, list, reads, writes>> /\ list[id] # NoTag
        /\ editing' \in {editing, id} /\ confirming' \in {confirming, id}
    BY <1>5 DEF StartEdit, AskDelete, Listed
  <2> QED
    BY <1>1, <2>1
<1>6. ASSUME CancelEdit \/ KeepTag PROVE Goal
  <2>1. /\ UNCHANGED <<stored, given, list, reads, writes>>
        /\ editing' \in {editing, NoId} /\ confirming' \in {confirming, NoId}
    BY <1>6 DEF CancelEdit, KeepTag
  <2> QED
    BY <1>1, <2>1
<1>7. ASSUME NEW id \in TagIds \cup {NoId}, id \in {NoId, editing, confirming},
             UNCHANGED <<stored, given, list, editing, confirming, reads>>,
             \A v \in writes' : v.id = id \/ \E w \in writes : v.id = w.id
      PROVE  Goal
  BY <1>1, <1>7
<1>8. ASSUME NEW kind, NEW id, NEW tag, NEW fields, NEW fresh, Send(kind, id, tag, fields, fresh)
      PROVE  \A v \in writes' : v.id = id \/ \E w \in writes : v.id = w.id
  <2> DEFINE new == NewWrite(kind, id, tag, fields, fresh)
  <2>1. writes' = {Outdated(w, id) : w \in writes} \cup {new} /\ new.id = id
    BY <1>8 DEF Send, Outdated, NewWrite
  <2>2. \A w \in writes : Outdated(w, id).id = w.id
    BY DEF CardTypeOK, WellFormed, TagWrites, Outdated
  <2> HIDE DEF new
  <2> QED
    BY <2>1, <2>2
<1>9. ASSUME NEW tag \in Tags, HandleCreate(tag) \/ HandleSaveEdit(tag) PROVE Goal
  <2>1. UNCHANGED <<stored, given, list, editing, confirming, reads>>
    BY <1>9 DEF HandleCreate, HandleSaveEdit
  <2>2. CASE HandleCreate(tag)
    <3>1. \A v \in writes' : v.id = NoId \/ \E w \in writes : v.id = w.id
      BY <1>8, <2>2 DEF HandleCreate
    <3> QED
      BY <1>7, <2>1, <3>1
  <2>3. CASE HandleSaveEdit(tag)
    <3>1. \A v \in writes' : v.id = editing \/ \E w \in writes : v.id = w.id
      BY <1>8, <2>3 DEF HandleSaveEdit
    <3>2. editing \in TagIds \cup {NoId}
      BY DEF CardTypeOK
    <3> QED
      BY <1>7, <2>1, <3>1, <3>2
  <2> QED
    BY <1>9, <2>2, <2>3
<1>10. ASSUME HandleDelete PROVE Goal
  <2>1. \A v \in writes' : v.id = confirming \/ \E w \in writes : v.id = w.id
    BY <1>8, <1>10 DEF HandleDelete
  <2>2. confirming \in TagIds \cup {NoId}
    BY DEF CardTypeOK
  <2> QED
    BY <1>7, <1>10, <2>1, <2>2 DEF HandleDelete
<1>11. ASSUME NEW w \in writes, BeginWrite(w) PROVE Goal
  <2>1. \A v \in writes' : \E u \in writes : v.id = u.id
    BY <1>11, BeginWriteFacts DEF Follows
  <2> QED
    BY <1>2, <1>11, <2>1 DEF BeginWrite
<1>12. ASSUME NEW w \in writes, NEW goesOn \in BOOLEAN, LoseWrite(w, goesOn) PROVE Goal
  <2> DEFINE v == [w EXCEPT !.heard = FALSE]
  <2>1. v.id = w.id /\ (writes' = writes \ {w} \/ writes' = (writes \ {w}) \cup {v})
    BY <1>12, LoseWriteFacts DEF Follows
  <2> HIDE DEF v
  <2> QED
    BY <1>2, <1>12, <2>1 DEF LoseWrite
<1>13. ASSUME NEW w \in writes, CommitWrite(w) PROVE Goal
  <2>1. \A v \in writes' : \E u \in writes : v.id = u.id
    BY <1>13, CommitWriteFacts DEF Follows
  <2>2. UNCHANGED <<list, editing, confirming, reads>>
    BY <1>13 DEF CommitWrite
  <2>3. given \subseteq given' /\ \A id \in TagIds : stored'[id] # NoTag => id \in given' \/ stored[id] # NoTag
    BY <1>13, CommitStored
  <2> QED
    BY <1>1, <2>1, <2>2, <2>3
<1>14. ASSUME NEW w \in writes, HearWrite(w) PROVE Goal
  <2>1. /\ UNCHANGED <<stored, given, list>> /\ writes' = writes \ {w}
        /\ editing' \in {editing, NoId} /\ confirming' \in {confirming, NoId}
        /\ reads' = reads \/ reads' = reads \cup {Read}
    BY <1>14 DEF HearWrite, StartRead
  <2>2. Read.data = Waiting
    BY DEF Read
  <2> QED
    BY <1>1, <2>1, <2>2
<1>15. ASSUME MountCard PROVE Goal
  <2>1. UNCHANGED <<stored, given, list, editing, confirming, writes>> /\ reads' = reads \cup {Read}
    BY <1>15 DEF MountCard, StartRead
  <2>2. Read.data = Waiting
    BY DEF Read
  <2> QED
    BY <1>1, <2>1, <2>2
<1>16. ASSUME UnmountCard PROVE Goal
  <2>1. /\ UNCHANGED <<stored, given>> /\ list' = NoTags /\ editing' = NoId /\ confirming' = NoId /\ reads' = {}
        /\ \A v \in writes' : \E w \in writes : v = [w EXCEPT !.heard = FALSE]
    BY <1>16 DEF UnmountCard
  <2>2. \A w \in writes : [w EXCEPT !.heard = FALSE].id = w.id
    BY DEF CardTypeOK, WellFormed, TagWrites
  <2>3. \A v \in writes' : \E w \in writes : v.id = w.id
    BY <2>1, <2>2
  <2> QED
    BY <1>1, <2>1, <2>3 DEF NoTags
<1>17. ASSUME NEW id \in TagIds, ChangeElsewhere(id) PROVE Goal
  <2>1. /\ UNCHANGED <<given, list, editing, confirming, reads>> /\ stored[id] # NoTag
        /\ \A v \in writes' : \E w \in writes : v = [w EXCEPT !.fresh = FALSE]
        /\ \E tag : stored' = [stored EXCEPT ![id] = tag]
    BY <1>17 DEF ChangeElsewhere
  <2>2. \A w \in writes : [w EXCEPT !.fresh = FALSE].id = w.id
    BY DEF CardTypeOK, WellFormed, TagWrites
  <2>3. \A v \in writes' : \E w \in writes : v.id = w.id
    <3> SUFFICES ASSUME NEW v \in writes' PROVE \E w \in writes : v.id = w.id
      OBVIOUS
    <3>1. PICK w \in writes : v = [w EXCEPT !.fresh = FALSE]
      BY <2>1
    <3>2. v.id = w.id
      BY <2>2, <3>1
    <3> QED
      BY <3>2
  <2>4. \A i \in TagIds : i # id => stored'[i] = stored[i]
    BY <2>1 DEF CardTypeOK, Tables
  <2> QED
    BY <1>1, <2>1, <2>3, <2>4
<1>18. Goal
  BY <1>3, <1>4, <1>5, <1>6, <1>9, <1>10, <1>11, <1>12, <1>13, <1>14, <1>15, <1>16, <1>17 DEF CardMoves, CardNext
<1> QED
  BY <1>18 DEF IdsGiven

\* Writes that only lose their promises, or go on as they are, keep them.
LEMMA EditsKept ==
  ASSUME CardTypeOK, EditsStand, UNCHANGED stored,
         \A v \in writes' : \E w \in writes :
           Follows(v, w) /\ (v.stage \in {"sent", "begun"} => v.stage = w.stage /\ v.seen = w.seen)
  PROVE  EditsStand'
<1> SUFFICES ASSUME NEW v \in writes', v.kind = "update", v.fresh PROVE EditStands(v)'
  BY DEF EditsStand, EditStands
<1>1. PICK w \in writes : Follows(v, w) /\ (v.stage \in {"sent", "begun"} => v.stage = w.stage /\ v.seen = w.seen)
  OBVIOUS
<1>2. EditStands(w) /\ w.kind = "update" /\ w.fresh
  BY <1>1 DEF EditsStand, Follows
<1>3. \A u \in writes' : u.id = v.id => u.n = v.n
  BY <1>1, <1>2 DEF EditStands, Follows
<1> QED
  BY <1>1, <1>2, <1>3 DEF EditStands, Follows

LEMMA SendKeepsEdits ==
  ASSUME CardTypeOK, EditsStand, UNCHANGED stored,
         NEW kind, NEW id, NEW tag, NEW fields, NEW fresh, Sending(kind, id, tag, fields, fresh),
         kind = "update" /\ fresh =>
           /\ \A w \in writes : w.id # id
           /\ stored[id] # NoTag => \A f \in Columns \ fields : tag[f] = stored[id][f]
  PROVE  EditsStand'
<1> DEFINE sent == NewWrite(kind, id, tag, fields, fresh)
<1>0. /\ writes' = {Outdated(w, id) : w \in writes} \cup {sent}
      /\ WellFormed(sent) /\ sent.n = tagWrites + 1 /\ sent.kind = kind /\ sent.id = id /\ sent.tag = tag
      /\ sent.stage = "sent" /\ sent.fields = fields /\ sent.fresh = fresh
      /\ \A w \in writes :
           LET v == Outdated(w, id)
           IN  Follows(v, w) /\ v.stage = w.stage /\ v.seen = w.seen /\ v.fresh = (w.fresh /\ w.id # id)
  BY SendFacts
<1> HIDE DEF sent
<1>1. PICK new :
      /\ writes' = {Outdated(w, id) : w \in writes} \cup {new}
      /\ WellFormed(new) /\ new.n = tagWrites + 1 /\ new.kind = kind /\ new.id = id /\ new.tag = tag
      /\ new.stage = "sent" /\ new.fields = fields /\ new.fresh = fresh
      /\ \A w \in writes :
           LET v == Outdated(w, id)
           IN  Follows(v, w) /\ v.stage = w.stage /\ v.seen = w.seen /\ v.fresh = (w.fresh /\ w.id # id)
  BY <1>0
<1>2. ASSUME NEW w \in writes, Outdated(w, id).kind = "update", Outdated(w, id).fresh
      PROVE  EditStands(Outdated(w, id))'
  <2> DEFINE v == Outdated(w, id)
  <2>1. Follows(v, w) /\ v.stage = w.stage /\ v.seen = w.seen /\ w.fresh /\ w.id # id /\ v.kind = "update"
    BY <1>1, <1>2
  <2> HIDE DEF v
  <2>2. EditStands(w) /\ w.kind = "update"
    BY <2>1 DEF EditsStand, Follows
  <2>3. \A u \in writes' : u.id = v.id => u.n = v.n
    <3>1. \A x \in writes : Outdated(x, id).id = x.id /\ Outdated(x, id).n = x.n
      BY <1>1 DEF Follows
    <3> QED
      BY <1>1, <2>1, <2>2, <3>1 DEF EditStands, Follows
  <2>4. EditStands(v)'
    BY <2>1, <2>2, <2>3 DEF EditStands, Follows
  <2> QED
    BY <2>4 DEF v
<1>3. ASSUME kind = "update", fresh PROVE EditStands(new)'
  <2>1. \A x \in writes : Outdated(x, id).id = x.id
    BY <1>1 DEF Follows
  <2>2. \A u \in writes' : u.id = new.id => u.n = new.n
    BY <1>1, <1>3, <2>1
  <2> QED
    BY <1>1, <1>3, <2>2 DEF EditStands
<1>4. ASSUME NEW v \in writes', v.kind = "update", v.fresh PROVE EditStands(v)'
  <2>1. CASE v = new
    BY <1>1, <1>3, <1>4, <2>1
  <2>2. CASE v # new
    <3>1. PICK w \in writes : v = Outdated(w, id)
      BY <1>1, <2>2
    <3> QED
      BY <1>2, <1>4, <3>1
  <2> QED
    BY <2>1, <2>2
<1> QED
  BY <1>4 DEF EditsStand, EditStands

LEMMA BeginKeepsEdits ==
  ASSUME CardTypeOK, EditsStand, NEW w \in writes, BeginWrite(w)
  PROVE  EditsStand'
<1>1. PICK v : /\ Follows(v, w) /\ v.heard = w.heard /\ v.fresh = w.fresh /\ w.stage = "sent"
               /\ \/ v.stage = "failed" /\ writes' = (writes \ {w}) \cup (IF w.heard THEN {v} ELSE {})
                  \/ /\ v.stage = "begun" /\ writes' = (writes \ {w}) \cup {v}
                     /\ w.kind = "update" => v.seen = stored[w.id] /\ v.seen \in Tags
  BY BeginWriteFacts
<1>2. stored' = stored /\ \A u \in writes : Follows(u, u)
  BY DEF BeginWrite, CardTypeOK, Follows
<1>3. CASE v.stage = "failed"
  <2>1. \A u \in writes' : u = v \/ u \in writes
    BY <1>1
  <2> QED
    BY <1>1, <1>2, <1>3, <2>1, EditsKept
<1>4. CASE v.stage = "begun"
  <2>1. writes' = (writes \ {w}) \cup {v} /\ (w.kind = "update" => v.seen = stored[w.id] /\ v.seen \in Tags)
    BY <1>1, <1>4
  <2>2. \A u \in writes' : \E x \in writes : Follows(u, x) /\ (u = v => x = w) /\ (u # v => u = x)
    BY <1>1, <1>2, <2>1
  <2>3. ASSUME NEW u \in writes', u.kind = "update", u.fresh PROVE EditStands(u)'
    <3>1. PICK x \in writes : Follows(u, x) /\ (u = v => x = w) /\ (u # v => u = x)
      BY <2>2
    <3>2. EditStands(x) /\ x.kind = "update" /\ x.fresh
      BY <2>3, <3>1 DEF EditsStand, Follows
    <3>3. \A y \in writes' : y.id = u.id => y.n = u.n
      BY <2>2, <3>1, <3>2 DEF EditStands, Follows
    <3>4. CASE u = v
      <4>1. \A f \in Columns \ u.fields : u.tag[f] = u.seen[f]
        BY <1>1, <2>1, <3>1, <3>2, <3>4, CardAssumption DEF EditStands, Follows
      <4> QED
        BY <1>4, <3>3, <3>4, <4>1 DEF EditStands
    <3>5. CASE u # v
      BY <1>2, <3>1, <3>2, <3>3, <3>5 DEF EditStands
    <3> QED
      BY <3>4, <3>5
  <2> QED
    BY <2>3 DEF EditsStand, EditStands
<1> QED
  BY <1>1, <1>3, <1>4

\* A commit changes no tag that another edit saves.
LEMMA CommitKeepsEdits ==
  ASSUME CardTypeOK, EditInv, NEW w \in writes, CommitWrite(w)
  PROVE  EditsStand'
<1>1. PICK v : /\ writes' = (writes \ {w}) \cup (IF w.heard THEN {v} ELSE {})
               /\ Follows(v, w) /\ v.stage \in {"ok", "failed"}
  BY CommitWriteFacts
<1>2. EditsStand /\ IdsGiven /\ \A u, x \in writes : u.n = x.n => u = x
  BY DEF EditInv, WritesNumbered
<1>3. ASSUME NEW u \in writes', u.kind = "update", u.fresh PROVE EditStands(u)'
  <2>1. PICK x \in writes : /\ (u = v /\ x = w) \/ (u = x /\ x # w)
                            /\ u.id = x.id /\ u.n = x.n /\ x.kind = "update" /\ x.fresh
    BY <1>1, <1>3 DEF Follows
  <2>2. EditStands(x)
    BY <1>2 DEF EditsStand
  <2>3. \A y \in writes' : y.id = u.id => y.n = u.n
    BY <1>1, <2>1, <2>2 DEF EditStands, Follows
  <2>4. CASE u = v
    BY <1>1, <2>3, <2>4 DEF EditStands
  <2>5. CASE u = x /\ x # w
    <3>1. x.id \in TagIds /\ x.id \in given
      <4>1. x.id \in TagIds
        BY <2>1 DEF CardTypeOK, WellFormed
      <4> QED
        BY <1>2, <4>1 DEF IdsGiven
    <3>2. w.id # x.id
      BY <1>2, <2>1, <2>2, <2>5 DEF EditStands
    <3>3. stored'[x.id] = stored[x.id]
      BY <3>1, <3>2, CommitStored
    <3> QED
      BY <2>1, <2>2, <2>3, <2>5, <3>3 DEF EditStands
  <2> QED
    BY <2>1, <2>4, <2>5
<1> QED
  BY <1>3 DEF EditsStand, EditStands

LEMMA EditsStep ==
  ASSUME CardTypeOK, EditInv, CardMoves
  PROVE  EditsStand'
<1>1. EditsStand /\ DraftStands /\ NoId \notin TagIds
  BY CardAssumption DEF EditInv
<1>2. \A w \in writes : WellFormed(w) /\ Follows(w, w)
  BY DEF CardTypeOK, Follows
<1>3. ASSUME UNCHANGED stored, writes' \subseteq writes PROVE EditsStand'
  BY <1>1, <1>2, <1>3, EditsKept
<1>4. ASSUME NEW tag \in Tags, HandleCreate(tag) PROVE EditsStand'
  <2>1. stored' = stored /\ Sending("create", NoId, tag, {}, TRUE)
    BY <1>4, CreateSends DEF HandleCreate
  <2> QED
    BY <1>1, <2>1, SendKeepsEdits
<1>5. ASSUME NEW tag \in Tags, HandleSaveEdit(tag) PROVE EditsStand'
  <2> DEFINE fields == typed.fields \cup {f \in Columns : tag[f] # draft[f]}
             fresh  == typed.fresh /\ ~ \E w \in writes : w.id = editing
  <2>1. editing \in TagIds /\ stored' = stored
    BY <1>5 DEF HandleSaveEdit, Listed
  <2>2. Sending("update", editing, tag, fields, fresh)
    BY <1>5, EditSends
  <2>3. fresh => /\ \A w \in writes : w.id # editing
                 /\ stored[editing] # NoTag => \A f \in Columns \ fields : tag[f] = stored[editing][f]
    BY <1>1, <2>1 DEF DraftStands
  <2> HIDE DEF fields, fresh
  <2> QED
    BY <1>1, <2>1, <2>2, <2>3, SendKeepsEdits
<1>6. CASE HandleDelete
  <2>1. stored' = stored /\ Sending("delete", confirming, NoTag, {}, TRUE)
    BY <1>6, DeleteSends DEF HandleDelete
  <2> QED
    BY <1>1, <2>1, SendKeepsEdits
<1>7. ASSUME NEW w \in writes, BeginWrite(w) PROVE EditsStand'
  BY <1>1, <1>7, BeginKeepsEdits
<1>8. ASSUME NEW w \in writes, CommitWrite(w) PROVE EditsStand'
  BY <1>8, CommitKeepsEdits
<1>9. ASSUME NEW w \in writes, HearWrite(w) PROVE EditsStand'
  BY <1>3, <1>9 DEF HearWrite
<1>10. ASSUME NEW w \in writes, NEW goesOn \in BOOLEAN, LoseWrite(w, goesOn) PROVE EditsStand'
  <2> DEFINE v == [w EXCEPT !.heard = FALSE]
  <2>1. /\ Follows(v, w) /\ v.stage = w.stage /\ v.seen = w.seen /\ stored' = stored
        /\ writes' = writes \ {w} \/ writes' = (writes \ {w}) \cup {v}
    BY <1>10, LoseWriteFacts DEF LoseWrite
  <2> HIDE DEF v
  <2>2. \A u \in writes' : \E x \in writes : Follows(u, x) /\ u.stage = x.stage /\ u.seen = x.seen
    BY <1>2, <2>1
  <2> QED
    BY <1>1, <2>1, <2>2, EditsKept
<1>11. CASE UnmountCard
  <2> DEFINE Later(w) == [w EXCEPT !.heard = FALSE]
  <2>1. stored' = stored /\ \A v \in writes' : \E w \in writes : v = Later(w)
    BY <1>11 DEF UnmountCard
  <2>2. \A w \in writes : Follows(Later(w), w) /\ Later(w).stage = w.stage /\ Later(w).seen = w.seen
    BY <1>2, Silenced
  <2> HIDE DEF Later
  <2> QED
    BY <1>1, <2>1, <2>2, EditsKept
<1>12. ASSUME NEW id \in TagIds, ChangeElsewhere(id) PROVE EditsStand'
  <2> DEFINE Later(w) == [w EXCEPT !.fresh = FALSE]
  <2>1. \A v \in writes' : \E w \in writes : v = Later(w)
    BY <1>12 DEF ChangeElsewhere
  <2>2. \A w \in writes : ~Later(w).fresh
    BY <1>2, Refreshed
  <2> HIDE DEF Later
  <2> QED
    BY <2>1, <2>2 DEF EditsStand, EditStands
<1>13. CASE \/ \E r \in reads : ServeRead(r) \/ HearRead(r) \/ LoseRead(r)
            \/ \E id \in TagIds : StartEdit(id) \/ AskDelete(id)
            \/ CancelEdit \/ KeepTag \/ MountCard
  BY <1>3, <1>13 DEF ServeRead, HearRead, LoseRead, StartEdit, AskDelete, CancelEdit, KeepTag, MountCard
<1> QED
  BY <1>4, <1>5, <1>6, <1>7, <1>8, <1>9, <1>10, <1>11, <1>12, <1>13 DEF CardMoves, CardNext

LEMMA DraftStep ==
  ASSUME CardTypeOK, ListInv, EditInv, CardMoves
  PROVE  DraftStands'
<1>1. DraftStands /\ EditsStand /\ IdsGiven /\ NoId \notin TagIds /\ NoTag \notin Tags
  BY CardAssumption DEF EditInv
<1>2. \A w \in writes : WellFormed(w) /\ w.fresh \in BOOLEAN
  BY DEF CardTypeOK, WellFormed, TagWrites
<1>3. ASSUME UNCHANGED <<stored, draft, typed>>, editing' \in {editing, NoId},
             \A v \in writes' : \/ v.id # editing
                                \/ \E w \in writes : Follows(v, w) /\ v.fresh = w.fresh
      PROVE  DraftStands'
  BY <1>1, <1>3 DEF DraftStands, Follows
<1>4. ASSUME UNCHANGED <<stored, draft, typed>>, editing' \in {editing, NoId}, writes' \subseteq writes
      PROVE  DraftStands'
  BY <1>1, <1>4 DEF DraftStands
<1>5. ASSUME NEW id \in TagIds, StartEdit(id) PROVE DraftStands'
  <2>1. /\ editing' = id /\ list[id] # NoTag /\ draft' = list[id] /\ stored' = stored /\ writes' = writes
        /\ typed' = [fields |-> {}, fresh |-> UpToDate]
    BY <1>5 DEF StartEdit, Listed
  <2>2. mounted
    BY <2>1 DEF ListInv, ReadsNumbered, NoTags
  <2>3. typed'.fresh => list = stored /\ writes = {}
    BY <2>1, <2>2, ListHolds DEF ListsWhatIsStored, UpToDate
  <2> QED
    BY <2>1, <2>3 DEF DraftStands
<1>6. ASSUME NEW kind, NEW id, NEW tag, NEW fields, NEW fresh, Sending(kind, id, tag, fields, fresh)
      PROVE  \A v \in writes' :
               \/ v.id = id /\ v.kind = kind /\ v.fields = fields /\ v.fresh = fresh
               \/ \E w \in writes : Follows(v, w) /\ v.fresh = (w.fresh /\ w.id # id)
  <2> DEFINE new == NewWrite(kind, id, tag, fields, fresh)
  <2>1. /\ writes' = {Outdated(w, id) : w \in writes} \cup {new}
        /\ new.kind = kind /\ new.id = id /\ new.fields = fields /\ new.fresh = fresh
        /\ \A w \in writes :
             LET v == Outdated(w, id)
             IN  Follows(v, w) /\ v.stage = w.stage /\ v.seen = w.seen /\ v.fresh = (w.fresh /\ w.id # id)
    BY <1>6, SendFacts
  <2> HIDE DEF new
  <2> QED
    BY <2>1
<1>7. ASSUME NEW tag \in Tags, HandleCreate(tag) PROVE DraftStands'
  <2>1. UNCHANGED <<stored, draft, typed, editing>> /\ Sending("create", NoId, tag, {}, TRUE)
    BY <1>7, CreateSends DEF HandleCreate
  <2>2. \A v \in writes' : v.id = NoId \/ \E w \in writes : Follows(v, w) /\ v.fresh = (w.fresh /\ w.id # NoId)
    <3> DEFINE none == {}
               sure == TRUE
    <3>1. Sending("create", NoId, tag, none, sure)
      BY <2>1
    <3> HIDE DEF none, sure
    <3> QED
      BY <1>6, <3>1
  <2>3. CASE editing = NoId
    BY <2>1, <2>3 DEF DraftStands
  <2>4. CASE editing # NoId
    <3>1. \A v \in writes' : v.id = editing => \E w \in writes : Follows(v, w) /\ v.fresh = w.fresh
      BY <1>2, <2>2, <2>4 DEF Follows
    <3> QED
      BY <1>3, <2>1, <3>1
  <2> QED
    BY <2>3, <2>4
<1>8. ASSUME NEW tag \in Tags, HandleSaveEdit(tag) PROVE DraftStands'
  <2> DEFINE fields == typed.fields \cup {f \in Columns : tag[f] # draft[f]}
             fresh  == typed.fresh /\ ~ \E w \in writes : w.id = editing
  <2>1. /\ editing \in TagIds /\ UNCHANGED <<stored, editing>> /\ draft' = tag
        /\ typed' = [fields |-> fields, fresh |-> fresh]
    BY <1>8 DEF HandleSaveEdit, Listed, Columns
  <2>2. Sending("update", editing, tag, fields, fresh)
    BY <1>8, EditSends
  <2>3. fresh => /\ \A w \in writes : w.id # editing
                 /\ stored[editing] # NoTag => \A f \in Columns \ fields : tag[f] = stored[editing][f]
    BY <1>1, <2>1 DEF DraftStands
  <2> HIDE DEF fields, fresh
  <2>4. \A v \in writes' : \/ v.id = editing /\ v.kind = "update" /\ v.fields = fields /\ v.fresh = fresh
                           \/ \E w \in writes : Follows(v, w)
    BY <1>6, <2>1, <2>2
  <2>5. fresh => \A v \in writes' : v.id = editing => v.kind = "update" /\ v.fresh /\ v.fields = fields
    BY <2>3, <2>4 DEF Follows
  <2> QED
    BY <2>1, <2>3, <2>5 DEF DraftStands
<1>9. CASE HandleDelete
  <2>1. /\ UNCHANGED <<stored, draft, typed, editing>> /\ Sending("delete", confirming, NoTag, {}, TRUE)
        /\ confirming # editing
    BY <1>9, DeleteSends DEF HandleDelete
  <2>2. \A v \in writes' : v.id = confirming \/ \E w \in writes : Follows(v, w) /\ v.fresh = (w.fresh /\ w.id # confirming)
    <3> DEFINE none == {}
               sure == TRUE
    <3>1. Sending("delete", confirming, NoTag, none, sure)
      BY <2>1
    <3> HIDE DEF none, sure
    <3> QED
      BY <1>6, <3>1
  <2>3. \A v \in writes' : v.id # editing \/ \E w \in writes : Follows(v, w) /\ v.fresh = w.fresh
    BY <1>2, <2>1, <2>2 DEF Follows
  <2> QED
    BY <1>3, <2>1, <2>3
<1>10. ASSUME NEW w \in writes, BeginWrite(w) PROVE DraftStands'
  <2>1. \A v \in writes' : \E u \in writes : Follows(v, u) /\ v.fresh = u.fresh
    BY <1>2, <1>10, BeginWriteFacts DEF Follows
  <2> QED
    BY <1>3, <1>10, <2>1 DEF BeginWrite
<1>11. ASSUME NEW w \in writes, CommitWrite(w) PROVE DraftStands'
  <2>1. \A v \in writes' : \E u \in writes : Follows(v, u) /\ v.fresh = u.fresh
    BY <1>2, <1>11, CommitWriteFacts DEF Follows
  <2>2. UNCHANGED <<draft, typed, editing>> /\ w.stage = "begun"
    BY <1>11 DEF CommitWrite
  <2> SUFFICES ASSUME typed.fresh, editing # NoId PROVE DraftStands'
    BY <2>2 DEF DraftStands
  <2>3. editing \in TagIds /\ editing \in given
    <3>1. editing \in TagIds
      BY DEF CardTypeOK
    <3> QED
      BY <1>1, <3>1 DEF IdsGiven
  <2>4. CASE stored'[editing] = stored[editing]
    BY <1>1, <2>1, <2>2, <2>4 DEF DraftStands, Follows
  <2>5. CASE stored'[editing] # stored[editing]
    <3>1. w.id = editing
      BY <1>11, <2>3, <2>5, CommitStored
    <3>2. w.kind = "update" /\ w.fresh /\ w.fields \subseteq typed.fields
      BY <1>1, <3>1 DEF DraftStands
    <3>3. stored'[editing] = Patched(w, stored[editing]) /\ stored[editing] # NoTag
      BY <1>11, <2>3, <2>5, <3>1, <3>2, CommitStored
    <3>4. w.seen \in Tags /\ \A f \in Columns \ w.fields : w.tag[f] = w.seen[f]
      BY <1>1, <1>2, <2>2, <3>2 DEF EditsStand, EditStands, WellFormed
    <3>5. stored[editing] \in Tags
      BY <2>3, <3>3 DEF CardTypeOK, Tables
    <3>6. \A f \in Columns \ w.fields : stored'[editing][f] = stored[editing][f]
      BY <1>2, <3>2, <3>3, <3>4, <3>5, PatchedFacts
    <3>7. \A f \in Columns \ typed.fields : draft[f] = stored'[editing][f]
      BY <1>1, <3>2, <3>3, <3>6 DEF DraftStands
    <3> QED
      BY <1>1, <2>1, <2>2, <3>7 DEF DraftStands, Follows
  <2> QED
    BY <2>4, <2>5
<1>12. ASSUME NEW w \in writes, HearWrite(w) PROVE DraftStands'
  BY <1>4, <1>12 DEF HearWrite
<1>13. ASSUME NEW w \in writes, NEW goesOn \in BOOLEAN, LoseWrite(w, goesOn) PROVE DraftStands'
  <2> DEFINE v == [w EXCEPT !.heard = FALSE]
  <2>1. /\ Follows(v, w) /\ v.fresh = w.fresh
        /\ writes' = writes \ {w} \/ writes' = (writes \ {w}) \cup {v}
    BY <1>13, LoseWriteFacts
  <2> HIDE DEF v
  <2>2. \A u \in writes' : \E x \in writes : Follows(u, x) /\ u.fresh = x.fresh
    BY <1>2, <2>1 DEF Follows
  <2> QED
    BY <1>3, <1>13, <2>2 DEF LoseWrite
<1>14. CASE UnmountCard
  BY <1>14 DEF UnmountCard, DraftStands
<1>15. ASSUME NEW id \in TagIds, ChangeElsewhere(id) PROVE DraftStands'
  <2>1. ~typed'.fresh
    BY <1>15 DEF ChangeElsewhere, CardTypeOK
  <2> QED
    BY <2>1 DEF DraftStands
<1>16. CASE \/ \E r \in reads : ServeRead(r) \/ HearRead(r) \/ LoseRead(r)
            \/ \E id \in TagIds : AskDelete(id)
            \/ CancelEdit \/ KeepTag \/ MountCard
  BY <1>4, <1>16 DEF ServeRead, HearRead, LoseRead, AskDelete, CancelEdit, KeepTag, MountCard
<1> QED
  BY <1>5, <1>7, <1>8, <1>9, <1>10, <1>11, <1>12, <1>13, <1>14, <1>15, <1>16 DEF CardMoves, CardNext

LEMMA EditInvStep ==
  ASSUME CardTypeOK, ListInv, EditInv, [CardMoves]_cardVars
  PROVE  EditInv'
<1>1. CASE UNCHANGED cardVars
  BY <1>1 DEF cardVars, EditInv, IdsGiven, WritesNumbered, EditsStand, EditStands, DraftStands, Waiting
<1>2. CASE CardMoves
  BY <1>2, IdsStep, WritesGoOn, EditsStep, DraftStep DEF EditInv
<1> QED
  BY <1>1, <1>2

LEMMA EditInvStart == CardInit => EditInv
<1> SUFFICES ASSUME CardInit PROVE EditInv
  OBVIOUS
<1>1. /\ given = {id \in TagIds : stored[id] # NoTag} /\ list = NoTags /\ editing = NoId /\ confirming = NoId
      /\ reads = {} /\ writes = {} /\ NoId \notin TagIds
  BY CardAssumption DEF CardInit
<1>2. IdsGiven
  BY <1>1 DEF IdsGiven, NoTags
<1> QED
  BY <1>1, <1>2 DEF EditInv, WritesNumbered, EditsStand, DraftStands

\* A save that commits leaves what was not typed over, whatever else is under way.
LEMMA EditsChangeTyped ==
  ASSUME CardTypeOK, EditInv, [CardMoves]_cardVars,
         NEW w \in writes, NEW v \in writes', w.kind = "update", w.fresh, w.stage = "begun",
         v.n = w.n, v.stage = "ok", NEW f \in Columns \ w.fields
  PROVE  stored'[w.id][f] = stored[w.id][f]
<1>1. /\ WellFormed(w) /\ \A u, x \in writes : u.n = x.n => u = x
      /\ \A g \in Columns \ w.fields : w.tag[g] = w.seen[g]
  BY DEF CardTypeOK, EditInv, WritesNumbered, EditsStand, EditStands
<1>2. w.id \in TagIds /\ w.seen \in Tags
  BY <1>1 DEF WellFormed
<1>3. ASSUME NEW u \in writes, CommitWrite(u) PROVE stored'[w.id][f] = stored[w.id][f]
  <2>1. PICK x : writes' = (writes \ {u}) \cup (IF u.heard THEN {x} ELSE {}) /\ Follows(x, u)
    BY <1>3, CommitWriteFacts
  <2>2. u = w
    <3>1. CASE v = x
      BY <1>1, <2>1, <3>1 DEF Follows
    <3>2. CASE v # x
      BY <1>1, <2>1, <3>2
    <3> QED
      BY <3>1, <3>2
  <2>3. stored'[w.id] = IF stored[w.id] # NoTag /\ ~Refused(w) THEN Patched(w, stored[w.id]) ELSE stored[w.id]
    BY <1>2, <1>3, <2>2, CommitStored
  <2>4. stored[w.id] # NoTag => stored[w.id] \in Tags
    BY <1>2 DEF CardTypeOK, Tables
  <2> QED
    BY <1>1, <1>2, <2>3, <2>4, PatchedFacts
<1>4. ASSUME NEW id \in TagIds, ChangeElsewhere(id) PROVE FALSE
  <2> DEFINE Later(x) == [x EXCEPT !.fresh = FALSE]
  <2>1. \A x \in writes : WellFormed(x)
    BY DEF CardTypeOK
  <2>2. \A x \in writes : Later(x).n = x.n /\ Later(x).stage = x.stage
    BY <2>1, Refreshed DEF Follows
  <2>3. PICK x \in writes : v = Later(x)
    BY <1>4 DEF ChangeElsewhere
  <2> HIDE DEF Later
  <2> QED
    BY <1>1, <2>2, <2>3
<1>5. stored' = stored \/ (\E u \in writes : CommitWrite(u)) \/ \E id \in TagIds : ChangeElsewhere(id)
  BY DEF CardMoves, CardNext, cardVars, ServeRead, HearRead, LoseRead, StartEdit, AskDelete, CancelEdit, KeepTag,
         HandleCreate, HandleSaveEdit, HandleDelete, BeginWrite, HearWrite, LoseWrite, MountCard, UnmountCard
<1> QED
  BY <1>3, <1>4, <1>5

-------------------------------------------------------------------------------
(* The page moves its halves by their own steps.                               *)

LEMMA PageMovesForm == Spec => FormSpec
<1>1. Init => FormInit
  BY DEF Init
<1>2. [Next]_vars => [FormNext]_formVars
  BY DEF Next, FormStep, CardStep, vars
<1> QED
  BY <1>1, <1>2, PTL DEF Spec, FormSpec

LEMMA PageMovesCard == Spec => CardInit /\ [][CardMoves]_cardVars
<1>1. Init => CardInit
  BY DEF Init
<1>2. [Next]_vars => [CardMoves]_cardVars
  BY DEF Next, FormStep, CardStep, vars, CardMoves
<1> QED
  BY <1>1, <1>2, PTL DEF Spec

LEMMA FormAlways == FormSpec => []FormInv
BY FormInvStart, FormInvStep, PTL DEF FormSpec

LEMMA CardAlways == Spec => [](CardTypeOK /\ ListInv /\ EditInv)
<1>1. CardInit => CardTypeOK /\ ListInv /\ EditInv
  BY CardTypeStart, ListInvStart, EditInvStart
<1>2. (CardTypeOK /\ ListInv /\ EditInv) /\ [CardMoves]_cardVars => (CardTypeOK /\ ListInv /\ EditInv)'
  BY CardTypeStep, ListInvStep, EditInvStep DEF EditInv
<1> QED
  BY <1>1, <1>2, PageMovesCard, PTL

TypeOK == FormTypeOK /\ CardTypeOK

\* Every variable of the page, of its form and of its card, keeps its type.
THEOREM TypeCorrect == Spec => []TypeOK
<1>1. FormInv /\ CardTypeOK => TypeOK
  BY DEF FormInv, TypeOK
<1> QED
  BY <1>1, FormAlways, PageMovesForm, CardAlways, PTL

-------------------------------------------------------------------------------
\* Every request under way is told from every other, and no two transactions hold
\* an uncommitted row of the account at once.
THEOREM RequestsApart == Spec => [](NamesApart /\ InsertsApart)
<1>1. FormInv => NamesApart /\ InsertsApart
  BY DEF FormInv
<1> QED
  BY <1>1, FormAlways, PageMovesForm, PTL

\* No save takes back what it does not name: neither the defaults of a request that
\* lost the race to create the row, nor a field that another save has set.
THEOREM SavesStayApart == Spec => SavesKeepApart
<1> DEFINE Named == row # NoRow =>
             \A f \in Fields : row'[f] # row[f] =>
               \E q \in Puts : q \notin requests' /\ f \in DOMAIN q.body /\ q.body[f] = row'[f]
<1>1. FormInv /\ [FormNext]_formVars => [Named]_formVars
  <2> SUFFICES ASSUME FormInv, FormNext PROVE Named
    OBVIOUS
  <2>1. ASSUME NEW q \in requests, Commit(q), row # NoRow, NEW f \in Fields, row'[f] # row[f]
        PROVE  q \in Puts /\ q \notin requests' /\ f \in DOMAIN q.body /\ q.body[f] = row'[f]
    <3>1. row' = Written(q) /\ q \notin requests'
      BY <2>1, CommitFacts
    <3>2. row \in Settings /\ q \in Requests
      BY <2>1 DEF FormInv, FormTypeOK, Rows
    <3>3. f \in DOMAIN q.body /\ q.body[f] = row'[f]
      BY <2>1, <3>1, <3>2, WrittenFacts
    <3>4. q.body # NoBody
      BY <3>3 DEF NoBody
    <3> QED
      BY <3>1, <3>3, <3>4 DEF Puts
  <2>2. row' = row \/ \E q \in requests : Commit(q)
    BY DEF FormNext, Open, Save, SaveElsewhere, HearAnswer, HearFailure, SelectRow, InsertRow, BreakOff
  <2> QED
    BY <2>1, <2>2
<1>2. FormSpec => [][Named]_formVars
  BY <1>1, FormAlways, PTL DEF FormSpec
<1>3. FormSpec => SavesKeepApart
  BY <1>2 DEF SavesKeepApart
<1> QED
  BY <1>3, PageMovesForm

\* A page shows the row and, over it, the values of its saves under way: through late
\* answers, rollbacks, rows made by other reads, and pages left and opened again.
THEOREM FieldsAreShown == Spec => []ShowsWhatIsSaved
<1>1. ShowInv => ShowsWhatIsSaved
  <2> SUFFICES ASSUME ShowInv, ~loading, ~excused, NEW f \in Fields, settings[f] # row[f]
               PROVE  \E q \in Puts : /\ q.heard /\ q.stage # "answered"
                                      /\ f \in DOMAIN q.body /\ settings[f] = q.body[f]
    BY DEF ShowsWhatIsSaved
  <2>1. SavesStand /\ FieldsStand
    BY DEF ShowInv
  <2>2. PICK q \in Unanswered(f) : settings[f] = q.body[f]
    BY <2>1 DEF FieldsStand
  <2> QED
    BY <2>1, <2>2 DEF Unanswered, SavesStand
<1>2. FormSpec => []ShowInv
  BY ShowStart, ShowStep, FormAlways, PTL DEF FormSpec
<1> QED
  BY <1>1, <1>2, PageMovesForm, PTL

\* The card lists what is stored once its requests are answered, whatever order their
\* transactions and their answers come in, and however often the page is left.
THEOREM CardIsCurrent == Spec => []ListsWhatIsStored
<1>1. ListInv => ListsWhatIsStored
  BY ListHolds
<1> QED
  BY <1>1, CardAlways, PTL

\* An edit that began up to date changes what was typed in it and nothing else, though
\* its request carries the whole draft.
THEOREM EditsChangeTheTyped == Spec => EditsChangeWhatWasTyped
<1> DEFINE Kept ==
      \A w \in writes, v \in writes' :
        w.kind = "update" /\ w.fresh /\ w.stage = "begun" /\ v.n = w.n /\ v.stage = "ok" =>
          \A f \in {"name", "color"} \ w.fields : stored'[w.id][f] = stored[w.id][f]
<1>1. CardTypeOK /\ EditInv /\ [CardMoves]_cardVars => [Kept]_cardVars
  BY EditsChangeTyped DEF Columns
<1>2. Spec => [][Kept]_cardVars
  BY <1>1, CardAlways, PageMovesCard, PTL
<1> QED
  BY <1>2 DEF EditsChangeWhatWasTyped
===============================================================================
