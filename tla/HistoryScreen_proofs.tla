------------------------- MODULE HistoryScreen_proofs --------------------------
(***************************************************************************)
(* Theorems about HistoryScreen, for every set of blocks, days and tags    *)
(* and every bound.                                                        *)
(***************************************************************************)
EXTENDS HistoryScreen, FiniteSetTheorems, TLAPS

(* The inductive invariant. *)

IsLoad(l) == {"live", "blocks", "summary"} \subseteq DOMAIN l /\ l.live \in BOOLEAN

\* At most one read counts, and the skeleton is up exactly while there is one.
ReadsInv ==
  /\ \A l \in loads : IsLoad(l)
  /\ \A k, l \in loads : k.live /\ l.live => k = l
  /\ LoadingIsLive

\* Wherever a version of a block is held - in the table, on the screen, in an answer
\* under way - it lies on the days it was recorded on, and carries a tag.
OnItsDays(id, block) ==
  /\ {"start", "end", "tag"} \subseteq DOMAIN block /\ block.tag \in Tags
  /\ block.start \in Nat /\ block.end \in Nat
  /\ DayOf(block.start) = DayOf(Recorded[id].start)
  /\ DayOf(block.end) = DayOf(Recorded[id].end)

ListOnItsDays(list) == \A id \in DOMAIN list : id \in Ids /\ OnItsDays(id, list[id])

\* And so does every time an edit under way gives.
EditOnItsDays(id, edit) ==
  /\ edit.tag \in Tags
  /\ edit.start # Keep => edit.start \in Nat /\ DayOf(edit.start) = DayOf(Recorded[id].start)
  /\ edit.end # Keep => edit.end \in Nat /\ DayOf(edit.end) = DayOf(Recorded[id].end)

DaysInv ==
  /\ DOMAIN server = Ids /\ server = [id \in Ids |-> server[id]]
  /\ \A id \in Ids : server[id] # NoBlock => OnItsDays(id, server[id])
  /\ ListOnItsDays(shown.blocks)
  /\ \A l \in loads : l.blocks # Waiting => ListOnItsDays(l.blocks)
  /\ \A w \in writes :
       "answer" \in DOMAIN w /\ w.id \in Ids /\ (w.request # Erase => EditOnItsDays(w.id, w.request))

HistoryInv == ReadsInv /\ DaysInv

-------------------------------------------------------------------------------
(* Days. *)

\* A clock time put on the day of an instant falls on that day.
LEMMA SameDay ==
  ASSUME NEW instant \in Nat, NEW clock \in 0 .. DayLength - 1
  PROVE  /\ DayOf(instant) \in Nat
         /\ WithLocalTime(instant, clock) \in Nat
         /\ DayOf(WithLocalTime(instant, clock)) = DayOf(instant)
<1> DEFINE q == instant \div DayLength
<1>1. DayLength \in Nat \ {0}
  BY ScreenAssumption
<1>2. q \in Nat
  BY <1>1
<1> HIDE DEF q
<1>3. q * DayLength + clock \in Nat /\ (q * DayLength + clock) \div DayLength = q
  BY <1>1, <1>2
<1> QED
  BY <1>2, <1>3 DEF DayOf, WithLocalTime, q

LEMMA RecordedDays ==
  ASSUME NEW id \in Ids
  PROVE  OnItsDays(id, Recorded[id])
<1>1. Recorded[id] \in Blocks
  BY ScreenAssumption
<1>2. \A i \in Instants : i \in Nat
  BY DEF Instants
<1> QED
  BY <1>1, <1>2 DEF Blocks, OnItsDays

\* What the editor sends names no other day than the block's.
LEMMA EditOfDays ==
  ASSUME NEW id, NEW block, OnItsDays(id, block), NEW tag \in Tags,
         NEW start \in 0 .. DayLength - 1, NEW end \in 0 .. DayLength - 1
  PROVE  EditOnItsDays(id, EditOf(block, tag, start, end))
BY SameDay DEF OnItsDays, EditOnItsDays, EditOf

LEMMA EditedDays ==
  ASSUME NEW id, NEW block, OnItsDays(id, block), NEW edit, EditOnItsDays(id, edit)
  PROVE  OnItsDays(id, Edited(block, edit))
<1> DEFINE new == Edited(block, edit)
<1>1. {"start", "end", "tag"} \subseteq DOMAIN new
  BY DEF Edited, OnItsDays
<1>2. new.tag = edit.tag /\ new.start = Or(edit.start, block.start) /\ new.end = Or(edit.end, block.end)
  BY DEF Edited, OnItsDays
<1> HIDE DEF new
<1>3. OnItsDays(id, new)
  BY <1>1, <1>2 DEF Or, OnItsDays, EditOnItsDays
<1> QED
  BY <1>3 DEF new

LEMMA BlocksInDays ==
  ASSUME DaysInv, NEW range
  PROVE  ListOnItsDays(BlocksIn(range))
BY DEF DaysInv, ListOnItsDays, BlocksIn

-------------------------------------------------------------------------------
(* Reads. *)

LEMMA CancelledFacts ==
  ASSUME HistoryInv
  PROVE  \A l \in Cancelled : IsLoad(l) /\ ~l.live /\ l.blocks = Waiting
<1> SUFFICES ASSUME NEW l \in loads
             PROVE  LET k == [l EXCEPT !.live = FALSE, !.blocks = Waiting, !.summary = Waiting]
                    IN  IsLoad(k) /\ ~k.live /\ k.blocks = Waiting
  BY DEF Cancelled
<1>1. {"live", "blocks", "summary"} \subseteq DOMAIN l
  BY DEF HistoryInv, ReadsInv, IsLoad
<1> QED
  BY <1>1 DEF IsLoad

LEMMA LoadFacts ==
  ASSUME NEW n, NEW range
  PROVE  IsLoad(Load(n, range)) /\ Load(n, range).live /\ Load(n, range).blocks = Waiting
BY DEF Load, IsLoad

LEMMA RereadStep ==
  ASSUME HistoryInv, NEW v, NEW a, Reread(v, a), server' = server, writes' \subseteq writes
  PROVE  HistoryInv'
<1>1. PICK new : /\ loads' = Cancelled \cup {new} /\ IsLoad(new) /\ new.live /\ new.blocks = Waiting
                 /\ loading' = TRUE /\ selected' = NoBlock /\ shown' = shown
  BY LoadFacts DEF Reread
<1>2. ReadsInv'
  BY <1>1, CancelledFacts DEF ReadsInv, LoadingIsLive, IsLoad
<1>3. DaysInv'
  BY <1>1, CancelledFacts DEF HistoryInv, DaysInv
<1> QED
  BY <1>2, <1>3 DEF HistoryInv

\* One answer of a read.
LEMMA AnsweredStep ==
  ASSUME HistoryInv, NEW l \in loads, NEW next, IsLoad(next), next.live = l.live,
         next.blocks = l.blocks \/ ListOnItsDays(next.blocks),
         loads' = (loads \ {l}) \cup {next},
         UNCHANGED <<server, screenVars, writes>>
  PROVE  HistoryInv'
<1>1. UNCHANGED <<server, writes, loading, selected, shown>>
  BY DEF screenVars
<1>2. ReadsInv'
  BY <1>1 DEF HistoryInv, ReadsInv, LoadingIsLive, IsLoad
<1>3. DaysInv'
  BY <1>1 DEF HistoryInv, DaysInv
<1> QED
  BY <1>2, <1>3 DEF HistoryInv

LEMMA ServeStep ==
  ASSUME HistoryInv, NEW l \in loads, ServeBlocks(l) \/ ServeSummary(l)
  PROVE  HistoryInv'
<1> DEFINE list == BlocksIn(l.range)
<1>1. IsLoad(l) /\ ListOnItsDays(list)
  BY BlocksInDays DEF HistoryInv, ReadsInv
<1> HIDE DEF list
<1>2. CASE ServeBlocks(l)
  <2> DEFINE next == [l EXCEPT !.blocks = list]
  <2>1. IsLoad(next) /\ next.live = l.live /\ next.blocks = list
    BY <1>1 DEF IsLoad
  <2>2. loads' = (loads \ {l}) \cup {next} /\ UNCHANGED <<server, screenVars, writes>>
    BY <1>2 DEF ServeBlocks, list
  <2> HIDE DEF next
  <2> QED
    BY <1>1, <2>1, <2>2, AnsweredStep
<1>3. CASE ServeSummary(l)
  <2> DEFINE next == [l EXCEPT !.summary = SummaryOf(list)]
  <2>1. IsLoad(next) /\ next.live = l.live /\ next.blocks = l.blocks
    BY <1>1 DEF IsLoad
  <2>2. loads' = (loads \ {l}) \cup {next} /\ UNCHANGED <<server, screenVars, writes>>
    BY <1>3 DEF ServeSummary, list
  <2> HIDE DEF next
  <2> QED
    BY <1>1, <2>1, <2>2, AnsweredStep
<1> QED
  BY <1>2, <1>3

LEMMA SettleStep ==
  ASSUME HistoryInv, NEW l \in loads, Settle(l)
  PROVE  HistoryInv'
<1> USE DEF HistoryInv
<1>1. loads' = loads \ {l} /\ UNCHANGED <<server, writes, selected>>
  BY DEF Settle
<1>2. CASE l.live
  <2>1. loading' = FALSE /\ shown' = [blocks |-> l.blocks, summary |-> l.summary] /\ ListOnItsDays(l.blocks)
    BY <1>2 DEF Settle, DaysInv
  <2>2. loading /\ selected = NoBlock
    BY <1>2 DEF ReadsInv, LoadingIsLive
  <2>3. \A k \in loads' : ~k.live
    BY <1>1, <1>2 DEF ReadsInv, IsLoad
  <2>4. ReadsInv'
    BY <1>1, <2>1, <2>2, <2>3 DEF ReadsInv, LoadingIsLive
  <2>5. DaysInv'
    BY <1>1, <2>1 DEF DaysInv
  <2> QED
    BY <2>4, <2>5
<1>3. CASE ~l.live
  <2>1. UNCHANGED <<shown, loading>>
    BY <1>3 DEF Settle
  <2> QED
    BY <1>1, <1>3, <2>1 DEF ReadsInv, LoadingIsLive, DaysInv
<1> QED
  BY <1>2, <1>3

LEMMA FailLoadStep ==
  ASSUME HistoryInv, NEW l \in loads, FailLoad(l)
  PROVE  HistoryInv'
<1> USE DEF HistoryInv
<1>1. /\ l.live /\ loads' = loads \ {l} /\ loading' = FALSE
      /\ UNCHANGED <<server, writes, selected, shown>>
  BY DEF FailLoad
<1>2. \A k \in loads' : ~k.live
  BY <1>1 DEF ReadsInv, IsLoad
<1>3. loading /\ selected = NoBlock
  BY <1>1 DEF ReadsInv, LoadingIsLive
<1> QED
  BY <1>1, <1>2, <1>3 DEF ReadsInv, LoadingIsLive, DaysInv

-------------------------------------------------------------------------------
(* The editor. *)

LEMMA SelectStep ==
  ASSUME HistoryInv, NEW id \in Ids, Select(id)
  PROVE  HistoryInv'
<1>1. /\ ~loading /\ id \in DOMAIN shown.blocks /\ selected' = id
      /\ UNCHANGED <<server, writes, loads, loading, shown>>
  BY DEF Select
<1> QED
  BY <1>1 DEF HistoryInv, ReadsInv, LoadingIsLive, DaysInv

LEMMA SendStep ==
  ASSUME HistoryInv, NEW request, Send(request), request # Erase => EditOnItsDays(selected, request)
  PROVE  HistoryInv'
<1> USE DEF HistoryInv
<1> DEFINE w == [inst |-> editor.inst, id |-> selected, request |-> request, answer |-> "none"]
<1>1. /\ selected # NoBlock /\ writes' = writes \cup {w}
      /\ UNCHANGED <<server, loads, loading, selected, shown>>
  BY DEF Send
<1>2. selected \in Ids
  BY <1>1 DEF ReadsInv, LoadingIsLive, DaysInv, ListOnItsDays
<1>3. "answer" \in DOMAIN w /\ w.id = selected /\ w.request = request
  OBVIOUS
<1> HIDE DEF w
<1> QED
  BY <1>1, <1>2, <1>3 DEF ReadsInv, LoadingIsLive, DaysInv

LEMMA SaveEditStep ==
  ASSUME HistoryInv, NEW tag \in Tags, NEW start \in 0 .. DayLength - 1, NEW end \in 0 .. DayLength - 1,
         SaveEdit(tag, start, end)
  PROVE  HistoryInv'
<1> DEFINE edit == EditOf(shown.blocks[selected], tag, start, end)
<1>1. selected # NoBlock /\ Send(edit)
  BY DEF SaveEdit
<1>2. OnItsDays(selected, shown.blocks[selected])
  BY <1>1 DEF HistoryInv, ReadsInv, LoadingIsLive, DaysInv, ListOnItsDays
<1>3. EditOnItsDays(selected, edit)
  BY <1>2, EditOfDays
<1> HIDE DEF edit
<1> QED
  BY <1>1, <1>3, SendStep

\* The table after a step that leaves every block on its days.
LEMMA TableStep ==
  ASSUME HistoryInv, NEW id \in Ids, NEW block, block # NoBlock => OnItsDays(id, block),
         server' = [server EXCEPT ![id] = block], UNCHANGED screenVars, UNCHANGED loads,
         \A w \in writes' : "answer" \in DOMAIN w /\ w.id \in Ids /\ (w.request # Erase => EditOnItsDays(w.id, w.request))
  PROVE  HistoryInv'
<1>1. UNCHANGED <<loading, selected, shown>>
  BY DEF screenVars
<1>2. /\ DOMAIN server' = Ids /\ server' = [i \in Ids |-> server'[i]]
      /\ \A i \in Ids : server'[i] = IF i = id THEN block ELSE server[i]
  BY DEF HistoryInv, DaysInv
<1>3. ReadsInv'
  BY <1>1 DEF HistoryInv, ReadsInv, LoadingIsLive
<1>4. DaysInv'
  BY <1>1, <1>2 DEF HistoryInv, DaysInv
<1> QED
  BY <1>3, <1>4 DEF HistoryInv

LEMMA ServeWriteStep ==
  ASSUME HistoryInv, NEW w \in writes, Serve(w)
  PROVE  HistoryInv'
<1> DEFINE block == server[w.id]
           after == IF w.request = Erase THEN NoBlock ELSE Edited(block, w.request)
           ok    == block # NoBlock /\ (after # NoBlock => after.start < after.end)
           left  == IF ok THEN after ELSE block
           done  == [w EXCEPT !.answer = IF ok THEN "ok" ELSE "failed"]
<1>1. /\ "answer" \in DOMAIN w /\ w.id \in Ids /\ (w.request # Erase => EditOnItsDays(w.id, w.request))
      /\ block # NoBlock => OnItsDays(w.id, block)
  BY DEF HistoryInv, DaysInv
<1>2. ok /\ after # NoBlock => OnItsDays(w.id, after)
  BY <1>1, EditedDays
<1>3. /\ server' = IF ok THEN [server EXCEPT ![w.id] = after] ELSE server
      /\ writes' = (writes \ {w}) \cup {done}
      /\ UNCHANGED screenVars /\ UNCHANGED loads
  BY DEF Serve
<1>4. "answer" \in DOMAIN done /\ done.id = w.id /\ done.request = w.request
  BY <1>1
<1> HIDE DEF after, done
<1>5. server' = [server EXCEPT ![w.id] = left] /\ (left # NoBlock => OnItsDays(w.id, left))
  BY <1>1, <1>2, <1>3 DEF HistoryInv, DaysInv
<1>6. \A v \in writes' : "answer" \in DOMAIN v /\ v.id \in Ids /\ (v.request # Erase => EditOnItsDays(v.id, v.request))
  BY <1>1, <1>3, <1>4 DEF HistoryInv, DaysInv
<1> HIDE DEF left
<1> QED
  BY <1>1, <1>3, <1>5, <1>6, TableStep

LEMMA LoseStep ==
  ASSUME HistoryInv, NEW w \in writes, Lose(w)
  PROVE  HistoryInv'
<1> DEFINE lost == [w EXCEPT !.answer = "failed"]
<1>1. /\ writes' = (writes \ {w}) \cup {lost}
      /\ UNCHANGED <<server, loads, loading, selected, shown>>
  BY DEF Lose, screenVars
<1>2. "answer" \in DOMAIN lost /\ lost.id = w.id /\ lost.request = w.request
  BY DEF HistoryInv, DaysInv
<1> HIDE DEF lost
<1> QED
  BY <1>1, <1>2 DEF HistoryInv, ReadsInv, LoadingIsLive, DaysInv

LEMMA AnswerStep ==
  ASSUME HistoryInv, NEW w \in writes, Answer(w)
  PROVE  HistoryInv'
<1>1. CASE w.answer = "ok"
  <2>1. Reread(view, anchor) /\ server' = server /\ writes' \subseteq writes
    BY <1>1 DEF Answer, AfterEditorDone
  <2> QED
    BY <2>1, RereadStep
<1>2. CASE w.answer # "ok"
  <2>1. writes' \subseteq writes /\ UNCHANGED <<server, loads, loading, selected, shown>>
    BY <1>2 DEF Answer
  <2> QED
    BY <2>1 DEF HistoryInv, ReadsInv, LoadingIsLive, DaysInv
<1> QED
  BY <1>1, <1>2

LEMMA ElsewhereStep ==
  ASSUME HistoryInv, NEW id \in Ids, Elsewhere(id)
  PROVE  HistoryInv'
<1> DEFINE block == server[id]
<1>1. block # NoBlock => OnItsDays(id, block)
  BY DEF HistoryInv, DaysInv
<1>2. \E new : server' = [server EXCEPT ![id] = new] /\ (new # NoBlock => OnItsDays(id, new))
  <2>1. CASE server' = [server EXCEPT ![id] = Recorded[id]]
    BY <2>1, RecordedDays
  <2>2. CASE server' = [server EXCEPT ![id] = NoBlock]
    BY <2>2
  <2>3. ASSUME block # NoBlock, NEW tag \in Tags, server' = [server EXCEPT ![id].tag = tag]
        PROVE  \E new : server' = [server EXCEPT ![id] = new] /\ (new # NoBlock => OnItsDays(id, new))
    <3>1. server' = [server EXCEPT ![id] = [block EXCEPT !.tag = tag]]
      BY <2>3
    <3>2. OnItsDays(id, [block EXCEPT !.tag = tag])
      BY <1>1, <2>3 DEF OnItsDays
    <3> QED
      BY <3>1, <3>2
  <2>4. ASSUME block # NoBlock, NEW clock \in 0 .. DayLength - 1,
               server' = [server EXCEPT ![id].end = WithLocalTime(@, clock)]
        PROVE  \E new : server' = [server EXCEPT ![id] = new] /\ (new # NoBlock => OnItsDays(id, new))
    <3> DEFINE end == WithLocalTime(block.end, clock)
    <3>1. server' = [server EXCEPT ![id] = [block EXCEPT !.end = end]]
      BY <2>4
    <3>2. end \in Nat /\ DayOf(end) = DayOf(block.end)
      BY <1>1, <2>4, SameDay DEF OnItsDays
    <3> HIDE DEF end
    <3>3. OnItsDays(id, [block EXCEPT !.end = end])
      BY <1>1, <2>4, <3>2 DEF OnItsDays
    <3> QED
      BY <3>1, <3>3
  <2> QED
    BY <2>1, <2>2, <2>3, <2>4 DEF Elsewhere
<1>3. UNCHANGED screenVars /\ UNCHANGED loads /\ UNCHANGED writes
  BY DEF Elsewhere
<1>4. \A w \in writes' : "answer" \in DOMAIN w /\ w.id \in Ids /\ (w.request # Erase => EditOnItsDays(w.id, w.request))
  BY <1>3 DEF HistoryInv, DaysInv
<1> QED
  BY <1>2, <1>3, <1>4, TableStep

-------------------------------------------------------------------------------
LEMMA Start == Init => HistoryInv
<1> SUFFICES ASSUME Init PROVE HistoryInv
  OBVIOUS
<1>1. PICK first : loads = {first} /\ IsLoad(first) /\ first.live /\ first.blocks = Waiting
  BY LoadFacts DEF Init
<1>2. ReadsInv
  BY <1>1 DEF Init, ReadsInv, LoadingIsLive
<1>3. ListOnItsDays(Empty)
  BY DEF ListOnItsDays, Empty
<1>4. \A id \in Ids : server[id] # NoBlock => OnItsDays(id, server[id])
  BY RecordedDays DEF Init
<1>5. shown.blocks = Empty /\ writes = {}
  BY DEF Init
<1>6. DOMAIN server = Ids /\ server = [id \in Ids |-> server[id]]
  BY DEF Init
<1>7. DaysInv
  BY <1>1, <1>3, <1>4, <1>5, <1>6 DEF DaysInv
<1> QED
  BY <1>2, <1>7 DEF HistoryInv

LEMMA Step == HistoryInv /\ [Next]_vars => HistoryInv'
<1> SUFFICES ASSUME HistoryInv, [Next]_vars PROVE HistoryInv'
  OBVIOUS
<1>1. CASE UNCHANGED vars
  BY <1>1 DEF vars, screenVars, HistoryInv, ReadsInv, LoadingIsLive, DaysInv
<1>2. ASSUME NEW v, NEW a, Reread(v, a), server' = server, writes' = writes PROVE HistoryInv'
  BY <1>2, RereadStep
<1>3. CASE Shift(1) \/ Shift(-1) \/ GoToday \/ CloseEditor
  BY <1>2, <1>3 DEF Shift, GoToday, CloseEditor, AfterEditorDone
<1>4. ASSUME NEW v, ChangeView(v) PROVE HistoryInv'
  BY <1>2, <1>4 DEF ChangeView
<1>5. ASSUME NEW d, DrillDown(d) PROVE HistoryInv'
  BY <1>2, <1>5 DEF DrillDown
<1>6. ASSUME NEW l \in loads, ServeBlocks(l) \/ ServeSummary(l) \/ Settle(l) \/ FailLoad(l) PROVE HistoryInv'
  BY <1>6, ServeStep, SettleStep, FailLoadStep
<1>7. ASSUME NEW id \in Ids, Select(id) \/ Elsewhere(id) PROVE HistoryInv'
  BY <1>7, SelectStep, ElsewhereStep
<1>8. ASSUME NEW tag \in Tags, NEW start \in 0 .. DayLength - 1, NEW end \in 0 .. DayLength - 1,
             SaveEdit(tag, start, end)
      PROVE  HistoryInv'
  BY <1>8, SaveEditStep
<1>9. CASE DeleteBlock
  BY <1>9, SendStep DEF DeleteBlock
<1>10. ASSUME NEW w \in writes, Serve(w) \/ Lose(w) \/ Answer(w) PROVE HistoryInv'
  BY <1>10, ServeWriteStep, LoseStep, AnswerStep
<1> QED
  BY <1>1, <1>3, <1>4, <1>5, <1>6, <1>7, <1>8, <1>9, <1>10 DEF Next

\* The invariant the theorems below rest on: at most one read is live, and every held
\* version of a block lies on the days it was recorded on.
THEOREM HistoryInvariant == Spec => []HistoryInv
BY Start, Step, PTL DEF Spec

\* The skeleton never stays up without a read that ends it, and the editor always
\* has the block it was opened on.
THEOREM LoadingStaysLive == Spec => []LoadingIsLive
<1>1. HistoryInv => LoadingIsLive
  BY DEF HistoryInv, ReadsInv
<1> QED
  BY <1>1, HistoryInvariant, PTL

\* No edit moves a block to another day, whatever else has changed it meanwhile.
THEOREM EditsStayOnTheirDays == Spec => EditsKeepDays
<1> DEFINE Same == \A id \in Ids : server[id] # NoBlock /\ server'[id] # NoBlock =>
                     /\ DayOf(server'[id].start) = DayOf(server[id].start)
                     /\ DayOf(server'[id].end) = DayOf(server[id].end)
<1>1. HistoryInv /\ HistoryInv' => Same
  BY DEF HistoryInv, DaysInv, OnItsDays
<1>2. Spec => [][Same]_vars
  BY <1>1, HistoryInvariant, PTL
<1> QED
  BY <1>2 DEF EditsKeepDays

-------------------------------------------------------------------------------
(* What is shown, against what is stored.                                      *)

\* No edit went through that the screen has not heard of.
Heard == ~behind /\ \A w \in writes : w.answer # "ok"

\* The read that counts is of the range in the heading, each of its two answers is
\* that of the table as it is, and so is what the screen shows.
ShowInv ==
  /\ \A l \in loads : l.live =>
       /\ l.range = RangeFor(view, anchor)
       /\ Heard /\ l.blocks # Waiting => l.blocks = BlocksIn(l.range)
       /\ Heard /\ l.summary # Waiting => l.summary = SummaryOf(BlocksIn(l.range))
  /\ Heard /\ ~loading /\ ~failed =>
       /\ shown.blocks = BlocksIn(RangeFor(view, anchor))
       /\ shown.summary = SummaryOf(shown.blocks)

\* Only the table decides what a read answers.
LEMMA SameAnswers ==
  ASSUME server' = server
  PROVE  /\ \A range : BlocksIn(range)' = BlocksIn(range)
         /\ \A list : SummaryOf(list)' = SummaryOf(list)
<1>1. \A range : BlocksIn(range)' = BlocksIn(range)
  BY DEF BlocksIn
<1>2. \A list : SummaryOf(list)' = SummaryOf(list)
  OBVIOUS
<1> QED
  BY <1>1, <1>2

LEMMA RereadShows ==
  ASSUME HistoryInv, NEW v, NEW a, Reread(v, a)
  PROVE  ShowInv'
<1> DEFINE new == Load(reads', RangeFor(v, a))
<1>1. view' = v /\ anchor' = a /\ loading' = TRUE /\ loads' = Cancelled \cup {new}
  BY DEF Reread
<1>2. new.live /\ new.range = RangeFor(v, a) /\ new.blocks = Waiting /\ new.summary = Waiting
  BY DEF Load
<1> HIDE DEF new
<1>3. \A l \in loads' : l.live => l = new
  BY <1>1, CancelledFacts
<1> QED
  BY <1>1, <1>2, <1>3 DEF ShowInv

\* What the screen shows is not touched, and the table only when it notices.
LEMMA QuietShows ==
  ASSUME ShowInv, UNCHANGED <<view, anchor, loading, shown, loads, failed>>,
         Heard' => Heard /\ server' = server
  PROVE  ShowInv'
<1>1. CASE ~Heard'
  BY <1>1 DEF ShowInv
<1>2. CASE Heard'
  <2>1. Heard /\ \A range : BlocksIn(range)' = BlocksIn(range)
    BY <1>2, SameAnswers
  <2> QED
    BY <2>1 DEF ShowInv
<1> QED
  BY <1>1, <1>2

LEMMA ReadShows ==
  ASSUME HistoryInv, ShowInv, NEW l \in loads, ServeBlocks(l) \/ ServeSummary(l)
  PROVE  ShowInv'
<1>1. /\ l.live /\ IsLoad(l)
      /\ UNCHANGED <<server, view, anchor, loading, shown, writes, failed, behind>>
  BY DEF ServeBlocks, ServeSummary, screenVars, HistoryInv, ReadsInv
<1>2. Heard' = Heard /\ \A range : BlocksIn(range)' = BlocksIn(range)
  BY <1>1, SameAnswers DEF Heard
<1>3. ASSUME NEW next, loads' = (loads \ {l}) \cup {next}, next.live, next.range = l.range,
             next.blocks \in {l.blocks, BlocksIn(l.range)},
             next.summary \in {l.summary, SummaryOf(BlocksIn(l.range))}
      PROVE  ShowInv'
  BY <1>1, <1>2, <1>3 DEF ShowInv
<1>4. CASE ServeBlocks(l)
  <2> DEFINE list == BlocksIn(l.range)
             next == [l EXCEPT !.blocks = list]
  <2>1. loads' = (loads \ {l}) \cup {next}
    BY <1>4 DEF ServeBlocks
  <2> HIDE DEF list
  <2>2. next.live /\ next.range = l.range /\ next.blocks = list /\ next.summary = l.summary
    BY <1>1 DEF IsLoad
  <2> HIDE DEF next
  <2> QED
    BY <1>3, <2>1, <2>2 DEF list
<1>5. CASE ServeSummary(l)
  <2> DEFINE split == SummaryOf(BlocksIn(l.range))
             next  == [l EXCEPT !.summary = split]
  <2>1. loads' = (loads \ {l}) \cup {next}
    BY <1>5 DEF ServeSummary
  <2> HIDE DEF split
  <2>2. next.live /\ next.range = l.range /\ next.blocks = l.blocks /\ next.summary = split
    BY <1>1 DEF IsLoad
  <2> HIDE DEF next
  <2> QED
    BY <1>3, <2>1, <2>2 DEF split
<1> QED
  BY <1>4, <1>5

LEMMA SettleShows ==
  ASSUME HistoryInv, ShowInv, NEW l \in loads, Settle(l)
  PROVE  ShowInv'
<1>1. loads' = loads \ {l} /\ UNCHANGED <<server, view, anchor, writes, behind>>
  BY DEF Settle
<1>2. Heard' = Heard /\ \A range : BlocksIn(range)' = BlocksIn(range)
  BY <1>1, SameAnswers DEF Heard
<1>3. CASE l.live
  <2>1. shown' = [blocks |-> l.blocks, summary |-> l.summary] /\ l.blocks # Waiting /\ l.summary # Waiting
    BY <1>3 DEF Settle
  <2>2. \A k \in loads' : ~k.live
    BY <1>1, <1>3 DEF HistoryInv, ReadsInv
  <2> QED
    BY <1>1, <1>2, <1>3, <2>1, <2>2 DEF ShowInv
<1>4. CASE ~l.live
  <2>1. UNCHANGED <<shown, loading, failed>>
    BY <1>4 DEF Settle
  <2> QED
    BY <1>1, <1>2, <2>1 DEF ShowInv
<1> QED
  BY <1>3, <1>4

LEMMA FailShows ==
  ASSUME HistoryInv, ShowInv, NEW l \in loads, FailLoad(l)
  PROVE  ShowInv'
<1>1. l.live /\ loads' = loads \ {l} /\ failed' = TRUE
  BY DEF FailLoad
<1>2. \A k \in loads' : ~k.live
  BY <1>1 DEF HistoryInv, ReadsInv
<1> QED
  BY <1>1, <1>2 DEF ShowInv

LEMMA WriteShows ==
  ASSUME HistoryInv, ShowInv, NEW w \in writes, Serve(w) \/ Lose(w) \/ Answer(w)
  PROVE  ShowInv'
<1>1. "answer" \in DOMAIN w
  BY DEF HistoryInv, DaysInv
<1>2. CASE Serve(w)
  <2> DEFINE block == server[w.id]
             after == IF w.request = Erase THEN NoBlock ELSE Edited(block, w.request)
             ok    == block # NoBlock /\ (after # NoBlock => after.start < after.end)
             done  == [w EXCEPT !.answer = IF ok THEN "ok" ELSE "failed"]
  <2>1. /\ server' = IF ok THEN [server EXCEPT ![w.id] = after] ELSE server
        /\ writes' = (writes \ {w}) \cup {done} /\ w.answer = "none"
        /\ UNCHANGED <<view, anchor, loading, shown, loads, failed, behind>>
    BY <1>2 DEF Serve, screenVars
  <2>2. done.answer = IF ok THEN "ok" ELSE "failed"
    BY <1>1
  <2> HIDE DEF ok, done
  <2>3. Heard' => Heard /\ server' = server
    BY <2>1, <2>2 DEF Heard
  <2> QED
    BY <2>1, <2>3, QuietShows
<1>3. CASE Lose(w)
  <2>1. /\ writes' = (writes \ {w}) \cup {[w EXCEPT !.answer = "failed"]}
        /\ behind' = (behind \/ w.answer = "ok")
        /\ UNCHANGED <<server, view, anchor, loading, shown, loads, failed>>
    BY <1>3 DEF Lose, screenVars
  <2>2. Heard' => Heard /\ server' = server
    BY <2>1 DEF Heard
  <2> QED
    BY <2>1, <2>2, QuietShows
<1>4. CASE Answer(w)
  <2>1. CASE w.answer = "ok"
    BY <1>4, <2>1, RereadShows DEF Answer, AfterEditorDone
  <2>2. CASE w.answer # "ok"
    <3>1. /\ writes' = writes \ {w}
          /\ UNCHANGED <<server, view, anchor, loading, shown, loads, failed, behind>>
      BY <1>4, <2>2 DEF Answer
    <3>2. Heard' => Heard /\ server' = server
      BY <2>2, <3>1 DEF Heard
    <3> QED
      BY <3>1, <3>2, QuietShows
  <2> QED
    BY <2>1, <2>2
<1> QED
  BY <1>2, <1>3, <1>4

LEMMA ShowStart == Init => ShowInv
<1> SUFFICES ASSUME Init PROVE ShowInv
  OBVIOUS
<1> DEFINE first == Load(1, RangeFor("day", Today))
<1>1. loads = {first} /\ loading = TRUE /\ view = "day" /\ anchor = Today
  BY DEF Init
<1>2. first.range = RangeFor("day", Today) /\ first.blocks = Waiting /\ first.summary = Waiting
  BY DEF Load
<1> HIDE DEF first
<1> QED
  BY <1>1, <1>2 DEF ShowInv

LEMMA ShowStep == HistoryInv /\ ShowInv /\ [Next]_vars => ShowInv'
<1> SUFFICES ASSUME HistoryInv, ShowInv, [Next]_vars PROVE ShowInv'
  OBVIOUS
<1>1. CASE UNCHANGED vars
  <2>1. UNCHANGED <<view, anchor, loading, shown, loads, failed, server, writes, behind>>
    BY <1>1 DEF vars, screenVars
  <2> QED
    BY <2>1, QuietShows DEF Heard
<1>2. ASSUME NEW v, NEW a, Reread(v, a) PROVE ShowInv'
  BY <1>2, RereadShows
<1>3. CASE Shift(1) \/ Shift(-1) \/ GoToday \/ CloseEditor
  BY <1>2, <1>3 DEF Shift, GoToday, CloseEditor, AfterEditorDone
<1>4. ASSUME NEW v, ChangeView(v) PROVE ShowInv'
  BY <1>2, <1>4 DEF ChangeView
<1>5. ASSUME NEW d, DrillDown(d) PROVE ShowInv'
  BY <1>2, <1>5 DEF DrillDown
<1>6. ASSUME NEW l \in loads, ServeBlocks(l) \/ ServeSummary(l) \/ Settle(l) \/ FailLoad(l) PROVE ShowInv'
  BY <1>6, ReadShows, SettleShows, FailShows
<1>7. ASSUME NEW id \in Ids, Select(id) PROVE ShowInv'
  <2>1. UNCHANGED <<view, anchor, loading, shown, loads, failed, server, writes, behind>>
    BY <1>7 DEF Select
  <2> QED
    BY <2>1, QuietShows DEF Heard
<1>8. ASSUME NEW id \in Ids, Elsewhere(id) PROVE ShowInv'
  <2>1. behind' = TRUE /\ UNCHANGED <<view, anchor, loading, shown, loads, failed>>
    BY <1>8 DEF Elsewhere, screenVars
  <2> QED
    BY <2>1, QuietShows DEF Heard
<1>9. ASSUME NEW request, Send(request) PROVE ShowInv'
  <2> DEFINE w == [inst |-> editor.inst, id |-> selected, request |-> request, answer |-> "none"]
  <2>1. writes' = writes \cup {w} /\ UNCHANGED <<view, anchor, loading, shown, loads, failed, server, behind>>
    BY <1>9 DEF Send
  <2>2. Heard' => Heard /\ server' = server
    BY <2>1 DEF Heard
  <2> QED
    BY <2>1, <2>2, QuietShows
<1>10. ASSUME NEW tag \in Tags, NEW start \in 0 .. DayLength - 1, NEW end \in 0 .. DayLength - 1,
              SaveEdit(tag, start, end)
       PROVE  ShowInv'
  BY <1>9, <1>10 DEF SaveEdit
<1>11. CASE DeleteBlock
  BY <1>9, <1>11 DEF DeleteBlock
<1>12. ASSUME NEW w \in writes, Serve(w) \/ Lose(w) \/ Answer(w) PROVE ShowInv'
  BY <1>12, WriteShows
<1> QED
  BY <1>1, <1>3, <1>4, <1>5, <1>6, <1>7, <1>8, <1>10, <1>11, <1>12 DEF Next

LEMMA ShowsAlways == Spec => []ShowInv
BY ShowStart, ShowStep, HistoryInvariant, PTL DEF Spec

\* Once its own edits are answered for, the screen shows the blocks that are stored and
\* the split by tag of those blocks: cancelled reads, editors closed under a request and
\* answers to an editor closed long ago included.
THEOREM EditsAreShown == Spec => []ShowsOwnEdits
<1>1. ShowInv => ShowsOwnEdits
  BY DEF ShowInv, Heard, ShowsOwnEdits
<1> QED
  BY <1>1, ShowsAlways, PTL
-------------------------------------------------------------------------------
(* Totals.  MapThenSumSet takes the members in an order of its own; that a sum
   does not depend on it, and that the sums over the parts of a set make the
   sum over the set, is shown by induction over the subsets of a finite set. *)

\* The member a sum over s begins with.
Pick(s) == CHOOSE x \in s : TRUE

\* t[s] is the sum of g over s, for the subsets s of S; a sum may begin with any member.
SumsFrom(t, g, S) ==
  /\ t[{}] = 0
  /\ \A s \in SUBSET S : s # {} => t[s] = g[Pick(s)] + t[s \ {Pick(s)}]

Totals(t, g, S) ==
  /\ t \in [SUBSET S -> Int]
  /\ t[{}] = 0
  /\ \A s \in SUBSET S : \A x \in s : t[s] = g[x] + t[s \ {x}]

LEMMA SubsetInduction ==
  ASSUME NEW S, IsFiniteSet(S), NEW T, T \subseteq SUBSET S,
         \A u \in SUBSET S : (\A v \in SUBSET u : v # u => v \in T) => u \in T
  PROVE  T = SUBSET S
<1> DEFINE R == StrictSubsetOrdering(S)
<1>1. IsWellFoundedOn(R, SUBSET S)
  BY FS_StrictSubsetOrderingWellFounded, FS_FiniteSubsetsOfFinite
<1>2. \A u, v \in SUBSET S : v \subseteq u /\ v # u => <<v, u>> \in R
  BY DEF StrictSubsetOrdering
<1> DEFINE Others == (SUBSET S) \ T
<1>3. SUFFICES ASSUME Others # {} PROVE FALSE
  OBVIOUS
<1>4. Others \subseteq SUBSET S
  OBVIOUS
<1> HIDE DEF R, Others
<1>5. PICK u \in Others : \A v \in Others : ~(<<v, u>> \in R)
  BY <1>1, <1>3, <1>4, WFMin
<1>6. \A v \in SUBSET u : v # u => v \in T
  <2> SUFFICES ASSUME NEW v \in SUBSET u, v # u, v \notin T PROVE FALSE
    OBVIOUS
  <2>1. u \in SUBSET S /\ v \in SUBSET S
    BY <1>4
  <2>2. <<v, u>> \in R
    BY <2>1, <1>2
  <2>3. v \in Others
    BY <2>1 DEF Others
  <2> QED
    BY <2>2, <2>3, <1>5
<1> QED
  BY <1>4, <1>6 DEF Others

LEMMA PickIn == \A s : s # {} => Pick(s) \in s
BY DEF Pick

LEMMA TotalsDefined ==
  ASSUME NEW S, IsFiniteSet(S), NEW g \in [S -> Int]
  PROVE  \E t \in [SUBSET S -> Int] : SumsFrom(t, g, S)
<1> DEFINE Upto(u, t) == \A s \in SUBSET S : s # {} /\ Cardinality(s) <= Cardinality(u) =>
                           t[s] = g[Pick(s)] + t[s \ {Pick(s)}]
           T == {u \in SUBSET S : \E t \in [SUBSET S -> Int] : t[{}] = 0 /\ Upto(u, t)}
<1>1. \A s \in SUBSET S : Cardinality(s) \in Nat
  BY FS_Subset, FS_CardinalityType
<1>2. \A s \in SUBSET S : s # {} => /\ Pick(s) \in s /\ s \ {Pick(s)} \in SUBSET S
                                  /\ g[Pick(s)] \in Int
                                  /\ Cardinality(s) # 0 /\ Cardinality(s \ {Pick(s)}) = Cardinality(s) - 1
  BY PickIn, FS_Subset, FS_RemoveElement, FS_EmptySet
<1>3. Cardinality({}) = 0
  BY FS_EmptySet
<1>4. ASSUME NEW u \in SUBSET S, \A v \in SUBSET u : v # u => v \in T PROVE u \in T
  <2>1. CASE u = {}
    <3> DEFINE t == [s \in SUBSET S |-> 0]
    <3>1. t \in [SUBSET S -> Int] /\ t[{}] = 0
      OBVIOUS
    <3>2. \A s \in SUBSET S : s # {} => ~(Cardinality(s) <= Cardinality(u))
      <4> SUFFICES ASSUME NEW s \in SUBSET S, s # {} PROVE ~(Cardinality(s) <= 0)
        BY <1>3, <2>1
      <4>1. Cardinality(s) \in Nat /\ Cardinality(s) # 0
        BY <1>1, <1>2
      <4> QED
        BY <4>1
    <3> HIDE DEF t
    <3> QED
      BY <3>1, <3>2
  <2>2. CASE u # {}
    <3> DEFINE v == u \ {Pick(u)}
    <3>1. v \in T /\ Cardinality(v) = Cardinality(u) - 1 /\ v \in SUBSET S
      BY <1>2, <1>4, <2>2
    <3>2. PICK r \in [SUBSET S -> Int] : r[{}] = 0 /\ Upto(v, r)
      BY <3>1
    <3> HIDE DEF v
    <3> DEFINE t == [s \in SUBSET S |-> IF s = {} THEN 0 ELSE g[Pick(s)] + r[s \ {Pick(s)}]]
    <3>3. t \in [SUBSET S -> Int] /\ t[{}] = 0
      <4>1. \A s \in SUBSET S : s # {} => g[Pick(s)] + r[s \ {Pick(s)}] \in Int
        <5> SUFFICES ASSUME NEW s \in SUBSET S, s # {} PROVE g[Pick(s)] + r[s \ {Pick(s)}] \in Int
          OBVIOUS
        <5> DEFINE w == s \ {Pick(s)}
        <5>1. w \in SUBSET S /\ g[Pick(s)] \in Int
          BY <1>2
        <5> HIDE DEF w
        <5>2. r[w] \in Int
          BY <5>1
        <5>3. g[Pick(s)] + r[w] \in Int
          BY <5>1, <5>2
        <5> QED
          BY <5>3 DEF w
      <4> QED
        BY <4>1
    <3>4. ASSUME NEW s \in SUBSET S, s # {}, Cardinality(s) <= Cardinality(u)
          PROVE  t[s] = g[Pick(s)] + t[s \ {Pick(s)}]
      <4> DEFINE w == s \ {Pick(s)}
      <4>1. w \in SUBSET S /\ Cardinality(w) <= Cardinality(v)
        BY <1>1, <1>2, <3>1, <3>4
      <4>2. t[w] = r[w]
        BY <3>2, <4>1
      <4> QED
        BY <3>4, <4>1, <4>2
    <3> HIDE DEF t
    <3>5. Upto(u, t)
      BY <3>4
    <3> QED
      BY <3>3, <3>5
  <2> QED
    BY <2>1, <2>2
<1>5. T \subseteq SUBSET S
  OBVIOUS
<1> HIDE DEF T
<1>6. T = SUBSET S
  BY <1>4, <1>5, SubsetInduction
<1>7. PICK t \in [SUBSET S -> Int] : t[{}] = 0 /\ Upto(S, t)
  BY <1>6 DEF T
<1>8. \A s \in SUBSET S : Cardinality(s) <= Cardinality(S)
  BY FS_Subset
<1> QED
  BY <1>7, <1>8 DEF SumsFrom

LEMMA AnyFirst ==
  ASSUME NEW S, IsFiniteSet(S), NEW g \in [S -> Int], NEW t \in [SUBSET S -> Int], SumsFrom(t, g, S)
  PROVE  Totals(t, g, S)
<1> DEFINE T == {s \in SUBSET S : \A x \in s : t[s] = g[x] + t[s \ {x}]}
<1>1. ASSUME NEW s \in SUBSET S, \A v \in SUBSET s : v # s => v \in T PROVE s \in T
  <2> SUFFICES ASSUME NEW x \in s PROVE t[s] = g[x] + t[s \ {x}]
    OBVIOUS
  <2> DEFINE p == Pick(s)
  <2>1. p \in s /\ t[s] = g[p] + t[s \ {p}]
    BY PickIn DEF SumsFrom
  <2> HIDE DEF p
  <2>2. CASE x = p
    BY <2>1, <2>2
  <2>3. CASE x # p
    <3>1. s \ {p} \in T /\ s \ {x} \in T /\ x \in s \ {p} /\ p \in s \ {x}
      BY <1>1, <2>1, <2>3
    <3> DEFINE rest == (s \ {p}) \ {x}
    <3>2. t[s \ {p}] = g[x] + t[rest]
      BY <3>1
    <3>3. (s \ {x}) \ {p} = rest
      OBVIOUS
    <3>4. t[s \ {x}] = g[p] + t[rest]
      BY <3>1, <3>3
    <3>5. rest \in SUBSET S /\ x \in S /\ p \in S
      BY <2>1
    <3> HIDE DEF rest
    <3>6. t[rest] \in Int /\ g[x] \in Int /\ g[p] \in Int
      BY <3>5
    <3> QED
      BY <2>1, <3>2, <3>4, <3>6
  <2> QED
    BY <2>2, <2>3
<1>2. T \subseteq SUBSET S
  OBVIOUS
<1> HIDE DEF T
<1>3. T = SUBSET S
  BY <1>1, <1>2, SubsetInduction
<1> QED
  BY <1>3 DEF T, Totals, SumsFrom

LEMMA TotalExists ==
  ASSUME NEW S, IsFiniteSet(S), NEW g \in [S -> Int]
  PROVE  \E t : Totals(t, g, S)
BY TotalsDefined, AnyFirst

LEMMA SameTotal ==
  ASSUME NEW S, IsFiniteSet(S), NEW g, NEW t, Totals(t, g, S), NEW A \in SUBSET S,
         NEW c, SumsFrom(c, g, A)
  PROVE  c[A] = t[A]
<1> DEFINE T == {s \in SUBSET A : c[s] = t[s]}
<1>1. ASSUME NEW s \in SUBSET A, \A v \in SUBSET s : v # s => v \in T PROVE s \in T
  <2>1. CASE s = {}
    BY <2>1 DEF Totals, SumsFrom
  <2>2. CASE s # {}
    <3> DEFINE p == Pick(s)
    <3>1. p \in s /\ c[s] = g[p] + c[s \ {p}]
      BY <2>2, PickIn DEF SumsFrom
    <3> HIDE DEF p
    <3>2. s \ {p} \in T
      BY <1>1, <3>1
    <3>3. t[s] = g[p] + t[s \ {p}]
      BY <3>1 DEF Totals
    <3> QED
      BY <3>1, <3>2, <3>3
  <2> QED
    BY <2>1, <2>2
<1>2. T \subseteq SUBSET A /\ IsFiniteSet(A)
  BY FS_Subset
<1> HIDE DEF T
<1>3. T = SUBSET A
  BY <1>1, <1>2, SubsetInduction
<1> QED
  BY <1>3 DEF T

LEMMA FocusTotal ==
  ASSUME NEW list, IsFiniteSet(DOMAIN list), \A id \in DOMAIN list : Duration(list[id]) \in Int,
         NEW ids \in SUBSET DOMAIN list, NEW t, Totals(t, [id \in DOMAIN list |-> Duration(list[id])], DOMAIN list)
  PROVE  FocusSeconds(list, ids) = t[{id \in ids : list[id].focus}]
<1> DEFINE S == DOMAIN list
           A == {id \in ids : list[id].focus}
           g == [id \in S |-> Duration(list[id])]
           Body(c) == [s \in SUBSET A |-> IF s = {} THEN 0 ELSE Duration(list[Pick(s)]) + c[s \ {Pick(s)}]]
           c == CHOOSE r : r = Body(r)
<1>1. FocusSeconds(list, ids) = c[A]
  BY DEF FocusSeconds, MapThenSumSet, MapThenFoldSet, Pick
<1>2. \A s \in SUBSET A : s # {} => Pick(s) \in s /\ Pick(s) \in S /\ s \ {Pick(s)} \in SUBSET A
  BY PickIn
<1>3. \E r : r = Body(r)
  <2> DEFINE r == [s \in SUBSET A |-> t[s]]
  <2>1. ASSUME NEW s \in SUBSET A, s # {} PROVE t[s] = Duration(list[Pick(s)]) + r[s \ {Pick(s)}]
    <3>1. t[s] = g[Pick(s)] + t[s \ {Pick(s)}]
      BY <1>2, <2>1 DEF Totals
    <3> QED
      BY <1>2, <2>1, <3>1
  <2>2. t[{}] = 0
    BY DEF Totals
  <2>3. \A s \in SUBSET A : t[s] = IF s = {} THEN 0 ELSE Duration(list[Pick(s)]) + r[s \ {Pick(s)}]
    BY <2>1, <2>2
  <2>4. r = Body(r)
    BY <2>3
  <2> QED
    BY <2>4
<1>4. c = Body(c)
  <2> HIDE DEF Body
  <2> QED
    BY <1>3
<1> HIDE DEF c
<1>5. SumsFrom(c, g, A)
  <2>1. c[{}] = 0
    BY <1>4
  <2>2. ASSUME NEW s \in SUBSET A, s # {} PROVE c[s] = g[Pick(s)] + c[s \ {Pick(s)}]
    <3>1. c[s] = Duration(list[Pick(s)]) + c[s \ {Pick(s)}]
      BY <1>4, <2>2
    <3> QED
      BY <1>2, <2>2, <3>1
  <2> QED
    BY <2>1, <2>2 DEF SumsFrom
<1>6. A \in SUBSET S
  OBVIOUS
<1> HIDE DEF A, g
<1>7. Totals(t, g, S)
  BY DEF g
<1> QED
  BY <1>1, <1>5, <1>6, <1>7, SameTotal DEF A

LEMMA SumTotal ==
  ASSUME NEW f, IsFiniteSet(DOMAIN f), NEW t, Totals(t, f, DOMAIN f)
  PROVE  Sum(f) = t[DOMAIN f]
<1> DEFINE A == DOMAIN f
           Body(c) == [s \in SUBSET A |-> IF s = {} THEN 0 ELSE f[Pick(s)] + c[s \ {Pick(s)}]]
           c == CHOOSE r : r = Body(r)
<1>1. Sum(f) = c[A]
  BY DEF Sum, MapThenSumSet, MapThenFoldSet, Pick
<1>3. \E r : r = Body(r)
  <2>1. \A s \in SUBSET A : t[s] = IF s = {} THEN 0 ELSE f[Pick(s)] + t[s \ {Pick(s)}]
    BY PickIn DEF Totals
  <2>2. t = [s \in SUBSET A |-> t[s]]
    BY DEF Totals
  <2>3. t = Body(t)
    BY <2>1, <2>2
  <2> QED
    BY <2>3
<1>4. c = Body(c)
  <2> HIDE DEF Body
  <2> QED
    BY <1>3
<1> HIDE DEF c
<1>5. SumsFrom(c, f, A)
  BY <1>4 DEF SumsFrom
<1> HIDE DEF A
<1>6. A \in SUBSET A /\ Totals(t, f, A) /\ IsFiniteSet(A)
  BY DEF A
<1> QED
  BY <1>1, <1>5, <1>6, SameTotal DEF A

LEMMA DisjointTotal ==
  ASSUME NEW S, IsFiniteSet(S), NEW g \in [S -> Int], NEW t, Totals(t, g, S),
         NEW A \in SUBSET S, NEW B \in SUBSET S, A \cap B = {}
  PROVE  t[A \cup B] = t[A] + t[B]
<1> DEFINE T == {b \in SUBSET B : t[A \cup b] = t[A] + t[b]}
<1>1. ASSUME NEW b \in SUBSET B, \A v \in SUBSET b : v # b => v \in T PROVE b \in T
  <2>1. CASE b = {}
    <3>1. t[A] \in Int /\ t[{}] = 0
      BY DEF Totals
    <3>2. A \cup b = A
      BY <2>1
    <3> QED
      BY <2>1, <3>1, <3>2
  <2>2. CASE b # {}
    <3>1. PICK x : x \in b
      BY <2>2
    <3> DEFINE rest == b \ {x}
    <3>2. rest \in T
      BY <1>1, <3>1
    <3>3. t[b] = g[x] + t[rest]
      BY <3>1 DEF Totals
    <3>4. x \in A \cup b /\ (A \cup b) \ {x} = A \cup rest /\ A \cup b \in SUBSET S
      BY <3>1
    <3>5. t[A \cup b] = g[x] + t[A \cup rest]
      BY <3>4 DEF Totals
    <3>6. t[A] \in Int /\ t[rest] \in Int /\ g[x] \in Int
      BY <3>1 DEF Totals
    <3> HIDE DEF rest
    <3>7. t[A \cup rest] = t[A] + t[rest]
      BY <3>2
    <3> QED
      BY <3>3, <3>5, <3>6, <3>7
  <2> QED
    BY <2>1, <2>2
<1>2. T \subseteq SUBSET B /\ IsFiniteSet(B)
  BY FS_Subset
<1> HIDE DEF T
<1>3. T = SUBSET B
  BY <1>1, <1>2, SubsetInduction
<1> QED
  BY <1>3 DEF T

LEMMA PartitionTotal ==
  ASSUME NEW S, IsFiniteSet(S), NEW g \in [S -> Int], NEW t, Totals(t, g, S),
         NEW P, IsFiniteSet(P), NEW f, NEW u, Totals(u, f, P), NEW part,
         \A p \in P : part[p] \in SUBSET S /\ f[p] = t[part[p]],
         \A p, q \in P : p # q => part[p] \cap part[q] = {}
  PROVE  u[P] = t[UNION {part[p] : p \in P}]
<1> DEFINE Of(r) == UNION {part[p] : p \in r}
           T == {r \in SUBSET P : u[r] = t[Of(r)]}
<1>1. ASSUME NEW r \in SUBSET P, \A v \in SUBSET r : v # r => v \in T PROVE r \in T
  <2>1. CASE r = {}
    <3>1. Of(r) = {}
      BY <2>1
    <3> QED
      BY <2>1, <3>1 DEF Totals
  <2>2. CASE r # {}
    <3>1. PICK p : p \in r
      BY <2>2
    <3> DEFINE rest == r \ {p}
               One  == part[p]
    <3>2. u[rest] = t[Of(rest)]
      BY <1>1, <3>1
    <3>3. u[r] = f[p] + u[rest] /\ f[p] = t[One]
      BY <3>1 DEF Totals
    <3>4. One \cap Of(rest) = {} /\ One \cup Of(rest) = Of(r)
      BY <3>1
    <3>5. One \in SUBSET S /\ Of(rest) \in SUBSET S
      BY <3>1
    <3> HIDE DEF One, rest, Of
    <3>6. t[Of(r)] = t[One] + t[Of(rest)]
      BY <3>4, <3>5, DisjointTotal
    <3> QED
      BY <3>2, <3>3, <3>6
  <2> QED
    BY <2>1, <2>2
<1>2. T \subseteq SUBSET P
  OBVIOUS
<1> HIDE DEF T
<1>3. T = SUBSET P
  BY <1>1, <1>2, SubsetInduction
<1> QED
  BY <1>3 DEF T

\* Every block of the list starts on a day of the range.
ListIn(list, range) == \A id \in DOMAIN list : DayOf(list[id].start) \in range

LEMMA ListTotals ==
  ASSUME NEW list, IsFiniteSet(DOMAIN list),
         \A id \in DOMAIN list : list[id].start \in Int /\ list[id].end \in Int /\ list[id].tag \in Tags,
         NEW range, IsFiniteSet(range), ListIn(list, range), IsFiniteSet(Tags)
  PROVE  /\ Sum([d \in range |-> BarOf(list, d)]) = Headline(list)
         /\ Sum(SummaryOf(list)) = Headline(list)
<1> DEFINE S == DOMAIN list
           g == [id \in S |-> Duration(list[id])]
           Focus == {id \in S : list[id].focus}
<1>1. \A id \in S : Duration(list[id]) \in Int
  BY DEF Duration
<1>2. g \in [S -> Int]
  BY <1>1
<1> HIDE DEF g
<1>3. PICK t : Totals(t, g, S)
  BY <1>2, TotalExists
<1>4. \A ids \in SUBSET S : FocusSeconds(list, ids) = t[{id \in ids : list[id].focus}]
  BY <1>1, <1>3, FocusTotal DEF g
<1>5. \A r \in SUBSET S : t[r] \in Int
  BY <1>3 DEF Totals
<1>6. ASSUME NEW k, NEW P, IsFiniteSet(P), \A id \in S : k[id] \in P,
             NEW f, f = [p \in P |-> FocusSeconds(list, {id \in S : k[id] = p})]
      PROVE  Sum(f) = Headline(list)
  <2> DEFINE part == [p \in P |-> {id \in Focus : k[id] = p}]
  <2>1. ASSUME NEW p \in P PROVE part[p] \in SUBSET S /\ f[p] = t[part[p]]
    <3> DEFINE ids == {id \in S : k[id] = p}
    <3>1. {id \in ids : list[id].focus} = part[p]
      OBVIOUS
    <3>2. ids \in SUBSET S /\ f[p] = FocusSeconds(list, ids)
      BY <1>6
    <3> QED
      BY <1>4, <3>1, <3>2
  <2>2. \A p, q \in P : p # q => part[p] \cap part[q] = {}
    OBVIOUS
  <2>3. UNION {part[p] : p \in P} = Focus
    BY <1>6
  <2> HIDE DEF part
  <2>4. f \in [P -> Int] /\ DOMAIN f = P
    <3>1. \A p \in P : f[p] \in Int
      BY <1>5, <2>1
    <3> QED
      BY <1>6, <3>1
  <2>5. PICK u : Totals(u, f, P)
    BY <1>6, <2>4, TotalExists
  <2>6. Sum(f) = u[P]
    BY <1>6, <2>4, <2>5, SumTotal
  <2>7. u[P] = t[UNION {part[p] : p \in P}]
    <3>1. IsFiniteSet(S) /\ IsFiniteSet(P)
      BY <1>6
    <3> HIDE DEF S
    <3> QED
      BY <1>2, <1>3, <2>1, <2>2, <2>5, <3>1, PartitionTotal
  <2>8. Headline(list) = t[Focus]
    BY <1>4 DEF Headline, Focus
  <2> QED
    BY <2>3, <2>6, <2>7, <2>8
<1>7. Sum([d \in range |-> BarOf(list, d)]) = Headline(list)
  <2> DEFINE k == [id \in S |-> DayOf(list[id].start)]
             f == [d \in range |-> BarOf(list, d)]
  <2>1. \A id \in S : k[id] \in range
    BY DEF ListIn
  <2>2. ASSUME NEW d \in range PROVE OnDay(list, d) = {id \in S : k[id] = d}
    BY DEF OnDay
  <2>3. f = [d \in range |-> FocusSeconds(list, {id \in S : k[id] = d})]
    BY <2>2 DEF BarOf
  <2> HIDE DEF k, f
  <2>4. Sum(f) = Headline(list)
    BY <1>6, <2>1, <2>3
  <2> QED
    BY <2>4 DEF f
<1>8. Sum(SummaryOf(list)) = Headline(list)
  <2> DEFINE k == [id \in S |-> list[id].tag]
             f == SummaryOf(list)
  <2>1. \A id \in S : k[id] \in Tags
    OBVIOUS
  <2>2. ASSUME NEW tag \in Tags PROVE {id \in S : list[id].tag = tag} = {id \in S : k[id] = tag}
    OBVIOUS
  <2>3. f = [tag \in Tags |-> FocusSeconds(list, {id \in S : k[id] = tag})]
    BY <2>2 DEF SummaryOf
  <2> HIDE DEF k, f
  <2>4. Sum(f) = Headline(list)
    BY <1>6, <2>1, <2>3
  <2> QED
    BY <2>4 DEF f
<1> QED
  BY <1>7, <1>8

-------------------------------------------------------------------------------
(* What is shown starts on the days of the heading. *)

RangeInv ==
  /\ \A l \in loads : l.live /\ l.blocks # Waiting => ListIn(l.blocks, l.range)
  /\ ~loading /\ ~failed => ListIn(shown.blocks, RangeFor(view, anchor))

LEMMA RereadRange ==
  ASSUME HistoryInv, NEW v, NEW a, Reread(v, a)
  PROVE  RangeInv'
<1>1. PICK new : loads' = Cancelled \cup {new} /\ new.blocks = Waiting /\ loading' = TRUE
  BY LoadFacts DEF Reread
<1> QED
  BY <1>1, CancelledFacts DEF RangeInv

LEMMA QuietRange ==
  ASSUME RangeInv, UNCHANGED <<view, anchor, loading, shown, loads, failed>>
  PROVE  RangeInv'
BY DEF RangeInv

LEMMA ReadRange ==
  ASSUME HistoryInv, RangeInv, NEW l \in loads, ServeBlocks(l) \/ ServeSummary(l)
  PROVE  RangeInv'
<1>1. IsLoad(l) /\ UNCHANGED <<view, anchor, loading, shown, failed>>
  BY DEF ServeBlocks, ServeSummary, screenVars, HistoryInv, ReadsInv
<1>2. ASSUME NEW next, loads' = (loads \ {l}) \cup {next}, next.live = l.live, next.range = l.range,
             next.blocks = l.blocks \/ ListIn(next.blocks, l.range)
      PROVE  RangeInv'
  BY <1>1, <1>2 DEF RangeInv
<1>3. CASE ServeBlocks(l)
  <2> DEFINE list == BlocksIn(l.range)
             next == [l EXCEPT !.blocks = list]
  <2>1. loads' = (loads \ {l}) \cup {next} /\ ListIn(list, l.range)
    BY <1>3 DEF ServeBlocks, ListIn, BlocksIn
  <2> HIDE DEF list
  <2>2. next.live = l.live /\ next.range = l.range /\ next.blocks = list
    BY <1>1 DEF IsLoad
  <2> HIDE DEF next
  <2> QED
    BY <1>2, <2>1, <2>2
<1>4. CASE ServeSummary(l)
  <2> DEFINE split == SummaryOf(BlocksIn(l.range))
             next  == [l EXCEPT !.summary = split]
  <2>1. loads' = (loads \ {l}) \cup {next}
    BY <1>4 DEF ServeSummary
  <2> HIDE DEF split
  <2>2. next.live = l.live /\ next.range = l.range /\ next.blocks = l.blocks
    BY <1>1 DEF IsLoad
  <2> HIDE DEF next
  <2> QED
    BY <1>2, <2>1, <2>2
<1> QED
  BY <1>3, <1>4

LEMMA SettleRange ==
  ASSUME HistoryInv, ShowInv, RangeInv, NEW l \in loads, Settle(l)
  PROVE  RangeInv'
<1>1. loads' = loads \ {l} /\ UNCHANGED <<view, anchor>>
  BY DEF Settle
<1>2. CASE l.live
  <2>1. shown' = [blocks |-> l.blocks, summary |-> l.summary] /\ l.blocks # Waiting
    BY <1>2 DEF Settle
  <2>2. l.range = RangeFor(view, anchor)
    BY <1>2 DEF ShowInv
  <2> QED
    BY <1>1, <1>2, <2>1, <2>2 DEF RangeInv
<1>3. CASE ~l.live
  <2>1. UNCHANGED <<shown, loading, failed>>
    BY <1>3 DEF Settle
  <2> QED
    BY <1>1, <2>1 DEF RangeInv
<1> QED
  BY <1>2, <1>3

LEMMA RangeStep == HistoryInv /\ ShowInv /\ RangeInv /\ [Next]_vars => RangeInv'
<1> SUFFICES ASSUME HistoryInv, ShowInv, RangeInv, [Next]_vars PROVE RangeInv'
  OBVIOUS
<1>1. CASE UNCHANGED <<view, anchor, loading, shown, loads, failed>>
  BY <1>1, QuietRange
<1>2. ASSUME NEW v, NEW a, Reread(v, a) PROVE RangeInv'
  BY <1>2, RereadRange
<1>3. CASE Shift(1) \/ Shift(-1) \/ GoToday \/ CloseEditor
  BY <1>2, <1>3 DEF Shift, GoToday, CloseEditor, AfterEditorDone
<1>4. ASSUME NEW v, ChangeView(v) PROVE RangeInv'
  BY <1>2, <1>4 DEF ChangeView
<1>5. ASSUME NEW d, DrillDown(d) PROVE RangeInv'
  BY <1>2, <1>5 DEF DrillDown
<1>6. ASSUME NEW l \in loads, FailLoad(l) PROVE RangeInv'
  BY <1>6 DEF FailLoad, RangeInv
<1>7. ASSUME NEW l \in loads, ServeBlocks(l) \/ ServeSummary(l) \/ Settle(l) PROVE RangeInv'
  BY <1>7, ReadRange, SettleRange
<1>8. ASSUME NEW id \in Ids, Select(id) \/ Elsewhere(id) PROVE RangeInv'
  BY <1>1, <1>8 DEF Select, Elsewhere, screenVars
<1>9. ASSUME NEW tag \in Tags, NEW start \in 0 .. DayLength - 1, NEW end \in 0 .. DayLength - 1,
             SaveEdit(tag, start, end)
      PROVE  RangeInv'
  BY <1>1, <1>9 DEF SaveEdit, Send
<1>10. CASE DeleteBlock
  BY <1>1, <1>10 DEF DeleteBlock, Send
<1>11. ASSUME NEW w \in writes, Serve(w) \/ Lose(w) \/ Answer(w) PROVE RangeInv'
  <2>1. CASE Answer(w) /\ w.answer = "ok"
    BY <1>2, <2>1 DEF Answer, AfterEditorDone
  <2>2. CASE Serve(w) \/ Lose(w) \/ (Answer(w) /\ w.answer # "ok")
    <3>1. UNCHANGED <<view, anchor, loading, shown, loads, failed>>
      BY <2>2 DEF Serve, Lose, Answer, screenVars
    <3> QED
      BY <1>1, <3>1
  <2> QED
    BY <1>11, <2>1, <2>2
<1>12. CASE UNCHANGED vars
  BY <1>1, <1>12 DEF vars, screenVars
<1> QED
  BY <1>3, <1>4, <1>5, <1>6, <1>7, <1>8, <1>9, <1>10, <1>11, <1>12 DEF Next

LEMMA RangeStart == Init => RangeInv
<1> SUFFICES ASSUME Init PROVE RangeInv
  OBVIOUS
<1>1. PICK first : loads = {first} /\ first.blocks = Waiting /\ loading = TRUE
  BY LoadFacts DEF Init
<1> QED
  BY <1>1 DEF RangeInv

\* The day bars, the split by tag and the headline are one sum, and every block on the
\* screen is under the heading, for any number of blocks, days and tags.
THEOREM TotalsAlwaysAgree == Spec => []TotalsAgree
<1>1. HistoryInv /\ RangeInv => TotalsAgree
  <2> SUFFICES ASSUME HistoryInv, RangeInv, ~loading, ~failed
               PROVE  /\ Sum([d \in RangeFor(view, anchor) |-> BarOf(shown.blocks, d)]) = Headline(shown.blocks)
                      /\ Sum(SummaryOf(shown.blocks)) = Headline(shown.blocks)
                      /\ \A d \in Days : OnDay(shown.blocks, d) # {} => d \in RangeFor(view, anchor)
    BY DEF TotalsAgree
  <2> DEFINE list  == shown.blocks
             range == RangeFor(view, anchor)
  <2>1. DOMAIN list \subseteq Ids /\ \A id \in DOMAIN list : OnItsDays(id, list[id])
    BY DEF HistoryInv, DaysInv, ListOnItsDays
  <2>2. IsFiniteSet(DOMAIN list) /\ IsFiniteSet(Tags)
    BY <2>1, FS_Subset, ScreenAssumption
  <2>3. IsFiniteSet(range)
    <3>1. IsFiniteSet({anchor})
      BY FS_Singleton
    <3>2. IsFiniteSet({d \in Days : d \div WeekLength = anchor \div WeekLength})
      BY FS_Subset, ScreenAssumption
    <3> QED
      BY <3>1, <3>2 DEF RangeFor
  <2>4. \A id \in DOMAIN list : list[id].start \in Int /\ list[id].end \in Int /\ list[id].tag \in Tags
    BY <2>1 DEF OnItsDays
  <2>5. ListIn(list, range)
    BY DEF RangeInv
  <2>6. \A d \in Days : OnDay(list, d) # {} => d \in range
    BY <2>5 DEF ListIn, OnDay
  <2> HIDE DEF list, range
  <2>7. /\ Sum([d \in range |-> BarOf(list, d)]) = Headline(list)
        /\ Sum(SummaryOf(list)) = Headline(list)
    BY <2>2, <2>3, <2>4, <2>5, ListTotals
  <2> QED
    BY <2>6, <2>7 DEF list, range
<1>2. Spec => []RangeInv
  BY RangeStart, RangeStep, ShowsAlways, HistoryInvariant, PTL DEF Spec
<1> QED
  BY <1>1, <1>2, HistoryInvariant, PTL
===============================================================================
