-------------------------- MODULE BlockRecords_proofs --------------------------
(***************************************************************************)
(* Theorems about BlockRecords, for every set of requests, ids, recordings *)
(* and edits: what concurrent edits of a block's intervals leave stored.   *)
(***************************************************************************)
EXTENDS BlockRecords, SequenceTheorems, TLAPS

Lists == Seq(Segments)

\* Transactions, by where they are.
Copies    == [label : Labels, tag : AllTags \cup {NoTag}, startedAt : Nat, segments : Lists, born : Nat]
Creatings == [pc : {"creating"}, id : Ids, label : Labels, tag : AllTags \cup {NoTag}, segments : Lists]
Loadings  == [pc : {"loading"}, id : Ids, edit : Edits, row : Copies, fresh : BOOLEAN]
Savings   == [pc : {"saving"}, id : Ids, edit : Edits, row : Copies, fresh : BOOLEAN]
Deletings == [pc : {"deleting"}, id : Ids]

\* Every variable of the block table keeps its type.
TypeOK ==
  /\ blocks \in [Ids -> Blocks \cup {NoBlock}]
  /\ tags \subseteq AllTags
  /\ req \in [Requests -> {Idle} \cup Creatings \cup Loadings \cup Savings \cup Deletings]
  /\ created \in Nat
  /\ raced \subseteq Ids

-------------------------------------------------------------------------------
(* The inductive invariant. *)

\* Intervals in order, closed, positive and apart: what a post leaves, and what
\* edits keep as long as there is a pause.
Apart(s) ==
  /\ \A i \in 1 .. Len(s) : s[i].start < s[i].end
  /\ \A i, j \in 1 .. Len(s) : i < j => s[i].end <= s[j].start

\* Two lists with the same pauses: only the first start and the last end differ.
SamePauses(s, t) ==
  /\ Len(s) = Len(t)
  /\ \A i \in 1 .. Len(s) : i # 1 => s[i].start = t[i].start
  /\ \A i \in 1 .. Len(s) : i # Len(s) => s[i].end = t[i].end

PostApart(q) == q.pc = "creating" => q.segments # << >> /\ Apart(q.segments)

\* A stored block has intervals, and they are apart unless a race on its only one
\* left it unsound.
StoredApart ==
  \A id \in Stored : /\ blocks[id].segments # << >>
                     /\ blocks[id].born <= created
                     /\ Len(blocks[id].segments) > 1 \/ id \notin raced => Apart(blocks[id].segments)
                     /\ id \notin raced => blocks[id].startedAt = blocks[id].segments[1].start

\* What an edit has read of a block that is still stored differs from it at most at
\* its two edges, and not even there while nobody has written since.
RowRelates(q) ==
  q.pc \in {"loading", "saving"} =>
    /\ q.row.born <= created
    /\ q.fresh => /\ q.id \in Stored
                  /\ blocks[q.id].born = q.row.born
                  /\ blocks[q.id].startedAt = q.row.startedAt

SegmentsRelate(q) ==
  q.pc = "saving" =>
    /\ Len(q.row.segments) > 1 => Apart(q.row.segments)
    /\ MovesEdge(q.edit) =>
         /\ q.row.segments # << >>
         /\ Sound(Moved(q.row.segments, q.edit))
         /\ q.fresh => blocks[q.id].segments = q.row.segments
         /\ q.id \in Stored /\ blocks[q.id].born = q.row.born =>
              SamePauses(blocks[q.id].segments, q.row.segments)

RequestsRelate == \A r \in Requests : PostApart(req[r]) /\ RowRelates(req[r]) /\ SegmentsRelate(req[r])

SomebodyAsks == Stored # {} => Requests # {}

RecordsInv == TypeOK /\ StoredApart /\ RequestsRelate /\ SomebodyAsks

-------------------------------------------------------------------------------
(* Lists of intervals. *)

LEMMA ListFacts ==
  ASSUME NEW s \in Lists
  PROVE  /\ Len(s) \in Nat /\ DOMAIN s = 1 .. Len(s)
         /\ s \in [1 .. Len(s) -> Segments]
         /\ \A i \in 1 .. Len(s) : s[i] \in Segments /\ s[i].start \in Nat /\ s[i].end \in Nat
         /\ s # << >> => Len(s) > 0
<1>1. Len(s) \in Nat /\ DOMAIN s = 1 .. Len(s) /\ s \in [1 .. Len(s) -> Segments]
  BY LenProperties DEF Lists
<1>2. \A i \in 1 .. Len(s) : s[i] \in Segments
  BY <1>1
<1>3. s # << >> => Len(s) > 0
  BY <1>1, EmptySeq DEF Lists
<1> QED
  BY <1>1, <1>2, <1>3 DEF Segments

\* What the server validates is that the list is apart once it is in order.
LEMMA SoundOrderedApart ==
  ASSUME NEW s \in Lists, Sound(s), Ordered(s)
  PROVE  Apart(s)
<1>1. \A i \in 1 .. Len(s) : s[i].start < s[i].end
  BY ListFacts DEF Sound
<1>2. ASSUME NEW i \in 1 .. Len(s), NEW j \in 1 .. Len(s), i < j
      PROVE  s[i].end <= s[j].start
  <2>1. s[i].end <= s[j].start \/ s[j].end <= s[i].start
    BY <1>2, ListFacts DEF Sound
  <2>2. s[i].start <= s[j].start /\ s[j].start < s[j].end
    BY <1>1, <1>2, ListFacts DEF Ordered
  <2>3. s[i].start \in Nat /\ s[i].end \in Nat /\ s[j].start \in Nat /\ s[j].end \in Nat
    BY ListFacts
  <2> QED
    BY <2>1, <2>2, <2>3
<1> QED
  BY <1>1, <1>2 DEF Apart

LEMMA ApartSound ==
  ASSUME NEW s \in Lists, Apart(s)
  PROVE  Sound(s)
<1>1. DOMAIN s = 1 .. Len(s) /\ Len(s) \in Nat
  BY ListFacts
<1> QED
  BY <1>1 DEF Apart, Sound

\* The first of a list that is apart is its earliest, the last its latest; of a
\* single interval that says nothing.
LEMMA EdgesOfApart ==
  ASSUME NEW s \in Lists, s # << >>, Len(s) > 1 => Apart(s)
  PROVE  Earliest(s) = 1 /\ Latest(s) = Len(s)
<1> DEFINE n == Len(s)
<1>1. n \in Nat /\ n > 0 /\ DOMAIN s = 1 .. n
  BY ListFacts
<1>2. \A i \in 1 .. n : s[i].start \in Nat /\ s[i].end \in Nat
  BY ListFacts
<1>3. \A i, j \in 1 .. n : i < j => s[i].start < s[j].start
  <2>1. CASE n = 1
    BY <2>1
  <2>2. CASE n > 1
    BY <1>1, <1>2, <2>2 DEF Apart
  <2> QED
    BY <1>1, <2>1, <2>2
<1>4. Earliest(s) = 1
  <2>1. 1 \in DOMAIN s /\ \A j \in DOMAIN s : s[1].start <= s[j].start
    BY <1>1, <1>2, <1>3
  <2>2. \A i \in DOMAIN s : (\A j \in DOMAIN s : s[i].start <= s[j].start) => i = 1
    <3> SUFFICES ASSUME NEW i \in DOMAIN s, s[i].start <= s[1].start, i # 1 PROVE FALSE
      BY <1>1
    <3> QED
      BY <1>1, <1>2, <1>3
  <2> QED
    BY <2>1, <2>2 DEF Earliest
<1>5. Latest(s) = n
  <2>1. n \in DOMAIN s /\ \A j \in DOMAIN s : s[j].start <= s[n].start
    BY <1>1, <1>2, <1>3
  <2>2. \A i \in DOMAIN s : (\A j \in DOMAIN s : s[j].start <= s[i].start) => i = n
    <3> SUFFICES ASSUME NEW i \in DOMAIN s, s[n].start <= s[i].start, i # n PROVE FALSE
      BY <1>1
    <3> QED
      BY <1>1, <1>2, <1>3
  <2> QED
    BY <2>1, <2>2 DEF Latest
<1> QED
  BY <1>4, <1>5

LEMMA SamePausesFacts ==
  /\ \A s \in Lists : SamePauses(s, s)
  /\ \A s, t, u \in Lists : SamePauses(s, t) /\ SamePauses(s, u) => SamePauses(u, t)
  /\ \A s, t, u \in Lists : SamePauses(s, t) /\ SamePauses(t, u) => SamePauses(s, u)
BY DEF SamePauses

\* Around a pause the end of the first and the start of the last are inside.
LEMMA InnerEdges ==
  ASSUME NEW s \in Lists, NEW t \in Lists, SamePauses(s, t), Len(s) > 1
  PROVE  t[1].end = s[1].end /\ t[Len(s)].start = s[Len(s)].start
<1>1. PICK n \in Nat : n = Len(s)
  BY ListFacts
<1>2. 1 \in 1 .. n /\ n \in 1 .. n /\ n # 1
  BY <1>1
<1> QED
  BY <1>1, <1>2 DEF SamePauses

StartMoved(s, i, t) == [s EXCEPT ![i].start = t]
EndMoved(s, i, t)   == [s EXCEPT ![i].end = t]

\* A list of which one edge moves.
LEMMA EdgeMoves ==
  ASSUME NEW s \in Lists, NEW i \in 1 .. Len(s), NEW t \in Nat
  PROVE  /\ StartMoved(s, i, t) \in Lists /\ Len(StartMoved(s, i, t)) = Len(s)
         /\ EndMoved(s, i, t) \in Lists /\ Len(EndMoved(s, i, t)) = Len(s)
         /\ \A j \in 1 .. Len(s) :
              /\ StartMoved(s, i, t)[j].start = IF j = i THEN t ELSE s[j].start
              /\ StartMoved(s, i, t)[j].end = s[j].end
              /\ EndMoved(s, i, t)[j].start = s[j].start
              /\ EndMoved(s, i, t)[j].end = IF j = i THEN t ELSE s[j].end
<1> DEFINE a == [s[i] EXCEPT !.start = t]
           b == [s[i] EXCEPT !.end = t]
<1>1. s[i] \in Segments
  BY ListFacts
<1>2. a \in Segments /\ a.start = t /\ a.end = s[i].end
  BY <1>1 DEF Segments
<1>3. b \in Segments /\ b.start = s[i].start /\ b.end = t
  BY <1>1 DEF Segments
<1>4. StartMoved(s, i, t) = [s EXCEPT ![i] = a] /\ EndMoved(s, i, t) = [s EXCEPT ![i] = b]
  BY ListFacts DEF StartMoved, EndMoved
<1>5. /\ [s EXCEPT ![i] = a] \in Lists /\ Len([s EXCEPT ![i] = a]) = Len(s)
      /\ \A j \in 1 .. Len(s) : [s EXCEPT ![i] = a][j] = IF j = i THEN a ELSE s[j]
  BY <1>2, ExceptSeq DEF Lists
<1>6. /\ [s EXCEPT ![i] = b] \in Lists /\ Len([s EXCEPT ![i] = b]) = Len(s)
      /\ \A j \in 1 .. Len(s) : [s EXCEPT ![i] = b][j] = IF j = i THEN b ELSE s[j]
  BY <1>3, ExceptSeq DEF Lists
<1> HIDE DEF a, b
<1>7. \A j \in 1 .. Len(s) : /\ [s EXCEPT ![i] = a][j].start = IF j = i THEN t ELSE s[j].start
                            /\ [s EXCEPT ![i] = a][j].end = s[j].end
  BY <1>2, <1>5
<1>8. \A j \in 1 .. Len(s) : /\ [s EXCEPT ![i] = b][j].start = s[j].start
                            /\ [s EXCEPT ![i] = b][j].end = IF j = i THEN t ELSE s[j].end
  BY <1>3, <1>6
<1> QED
  BY <1>4, <1>5, <1>6, <1>7, <1>8

\* An edit moves the first start and the last end, and nothing between them.
LEMMA MovedFacts ==
  ASSUME NEW s \in Lists, s # << >>, Len(s) > 1 => Apart(s), NEW edit \in EditBodies
  PROVE  /\ Moved(s, edit) \in Lists
         /\ SamePauses(s, Moved(s, edit))
         /\ Moved(s, edit)[1].start = IF edit.start = Keep THEN s[1].start ELSE edit.start
         /\ Moved(s, edit)[Len(s)].end = IF edit.end = Keep THEN s[Len(s)].end ELSE edit.end
<1> DEFINE n == Len(s)
           a == MoveStart(s, edit)
           m == Moved(s, edit)
<1>1. Earliest(s) = 1 /\ Latest(s) = n /\ n \in Nat /\ 1 \in 1 .. n /\ n \in 1 .. n
  BY EdgesOfApart, ListFacts
<1>2. edit.start \in Nat \cup {Keep} /\ edit.end \in Nat \cup {Keep}
  BY DEF EditBodies
<1>3. /\ a \in Lists /\ Len(a) = n
      /\ \A j \in 1 .. n : /\ a[j].start = IF j = 1 /\ edit.start # Keep THEN edit.start ELSE s[j].start
                           /\ a[j].end = s[j].end
  <2>1. CASE edit.start = Keep
    BY <2>1 DEF MoveStart
  <2>2. CASE edit.start # Keep
    <3>1. a = StartMoved(s, 1, edit.start) /\ edit.start \in Nat
      BY <1>1, <1>2, <2>2 DEF MoveStart, StartMoved
    <3>2. /\ a \in Lists /\ Len(a) = Len(s)
          /\ \A j \in 1 .. Len(s) : a[j].start = (IF j = 1 THEN edit.start ELSE s[j].start) /\ a[j].end = s[j].end
      BY ONLY <1>1, <3>1, EdgeMoves, s \in Lists
    <3> HIDE DEF a
    <3> QED
      BY <2>2, <3>2
  <2> QED
    BY <2>1, <2>2
<1> HIDE DEF a
<1>4. /\ m \in Lists /\ Len(m) = n
      /\ \A j \in 1 .. n : /\ m[j].start = a[j].start
                           /\ m[j].end = IF j = n /\ edit.end # Keep THEN edit.end ELSE a[j].end
  <2>1. CASE edit.end = Keep
    BY <1>3, <2>1 DEF Moved, a
  <2>2. CASE edit.end # Keep
    <3>1. m = EndMoved(a, n, edit.end) /\ edit.end \in Nat
      BY <1>1, <1>2, <2>2 DEF Moved, EndMoved, a
    <3> HIDE DEF m
    <3> QED
      BY <1>1, <1>3, <2>2, <3>1, EdgeMoves
  <2> QED
    BY <2>1, <2>2
<1> QED
  BY <1>1, <1>3, <1>4 DEF SamePauses

\* The columns of the intervals that an edit writes are edges.
LEMMA MergedFacts ==
  ASSUME NEW now \in Lists, NEW read \in Lists, NEW moved \in Lists,
         SamePauses(now, read), SamePauses(read, moved), now # << >>
  PROVE  /\ MergedSegments(now, read, moved) \in Lists
         /\ SamePauses(now, MergedSegments(now, read, moved))
         /\ MergedSegments(now, read, moved)[1].start = Merge(now[1].start, read[1].start, moved[1].start)
         /\ MergedSegments(now, read, moved)[Len(now)].end
              = Merge(now[Len(now)].end, read[Len(now)].end, moved[Len(now)].end)
         /\ now = read => MergedSegments(now, read, moved) = moved
<1> DEFINE n == Len(now)
           merged == MergedSegments(now, read, moved)
<1>1. /\ n \in Nat /\ 1 \in 1 .. n /\ n \in 1 .. n /\ DOMAIN now = 1 .. n
      /\ Len(read) = n /\ Len(moved) = n
  BY ListFacts DEF SamePauses
<1>2. \A i \in 1 .. n : now[i] \in Segments /\ read[i] \in Segments /\ moved[i] \in Segments
  BY <1>1, ListFacts
<1>3. merged \in [1 .. n -> Segments]
  BY <1>1, <1>2 DEF MergedSegments, Merge, Segments
<1>4. \A i \in 1 .. n : /\ merged[i].start = Merge(now[i].start, read[i].start, moved[i].start)
                        /\ merged[i].end = Merge(now[i].end, read[i].end, moved[i].end)
  BY <1>1 DEF MergedSegments
<1> HIDE DEF merged
<1>5. merged \in Lists /\ Len(merged) = n
  BY <1>1, <1>3 DEF Lists
<1>6. SamePauses(now, merged)
  BY <1>1, <1>4, <1>5 DEF SamePauses, Merge
<1>7. ASSUME now = read PROVE merged = moved
  <2>1. \A i \in 1 .. n : merged[i].start = moved[i].start /\ merged[i].end = moved[i].end
    BY <1>2, <1>4, <1>7, InputsAssumption DEF Merge, Segments
  <2>2. \A x, y \in Segments : x.start = y.start /\ x.end = y.end => x = y
    BY DEF Segments
  <2>3. \A i \in 1 .. n : merged[i] = moved[i]
    BY <1>2, <1>3, <2>1, <2>2
  <2> QED
    BY <1>1, <1>5, <2>3, SeqEqual DEF Lists
<1> QED
  BY <1>1, <1>4, <1>5, <1>6, <1>7 DEF merged

\* Edits of the two edges that are validated against the same pauses leave the list
\* apart, whichever of them are written.
LEMMA ApartKept ==
  ASSUME NEW s \in Lists, NEW t \in Lists, Len(s) > 1, Apart(s), SamePauses(s, t),
         t[1].start < t[1].end, t[Len(s)].start < t[Len(s)].end
  PROVE  Apart(t)
<1> DEFINE n == Len(s)
<1>1. n \in Nat /\ Len(t) = n
  BY ListFacts DEF SamePauses
<1>2. \A i \in 1 .. n : t[i].start < t[i].end
  BY <1>1 DEF SamePauses, Apart
<1>3. \A i, j \in 1 .. n : i < j => t[i].end <= t[j].start
  BY <1>1 DEF SamePauses, Apart
<1> QED
  BY <1>1, <1>2, <1>3 DEF Apart

-------------------------------------------------------------------------------
(* Transactions. *)

LEMMA Kinds ==
  ASSUME TypeOK, NEW r \in Requests
  PROVE  /\ req[r].pc = "creating" => req[r] \in Creatings
         /\ req[r].pc = "loading" => req[r] \in Loadings
         /\ req[r].pc = "saving" => req[r] \in Savings
         /\ req[r].pc = "deleting" => req[r] \in Deletings
BY DEF TypeOK, Idle, Creatings, Loadings, Savings, Deletings

LEMMA StoredBlock ==
  ASSUME TypeOK, NEW id \in Stored
  PROVE  id \in Ids /\ blocks[id] \in Blocks /\ blocks[id].segments \in Lists
BY DEF TypeOK, Stored, Blocks, Lists

\* The row an edit leaves: the block it was, up to the fields it names and the edges.
LEMMA EditWrites ==
  ASSUME RecordsInv, NEW r \in Requests, req[r].pc = "saving", req[r].id \in Stored,
         WritesSegments(req[r].row, req[r].edit) => blocks[req[r].id].born = req[r].row.born,
         NEW now, now = blocks[req[r].id],
         NEW new, new = Merged(now, req[r].row, req[r].edit)
  PROVE  /\ new \in Blocks /\ new.born = now.born
         /\ SamePauses(now.segments, new.segments) /\ new.segments # << >>
         /\ Len(now.segments) > 1 \/ (req[r].fresh /\ req[r].id \notin raced) => Apart(new.segments)
         /\ req[r].fresh /\ req[r].id \notin raced => new.startedAt = new.segments[1].start
         /\ new.label \in {now.label, req[r].edit.label}
         /\ new.tag \in {now.tag, req[r].edit.tag}
         /\ new.startedAt \in {now.startedAt, req[r].edit.start}
         /\ new.segments[1].start \in {now.segments[1].start, req[r].edit.start}
         /\ new.segments[Len(now.segments)].end \in {now.segments[Len(now.segments)].end, req[r].edit.end}
<1> DEFINE id    == req[r].id
           edit  == req[r].edit
           read  == req[r].row
           moved == Moved(read.segments, edit)
           n     == Len(now.segments)
<1>1. TypeOK /\ StoredApart /\ RowRelates(req[r]) /\ SegmentsRelate(req[r])
  BY DEF RecordsInv, RequestsRelate
<1>2. /\ edit \in EditBodies /\ id \in Ids
      /\ read \in Copies /\ read.segments \in Lists /\ req[r].fresh \in BOOLEAN
  BY <1>1, Kinds, InputsAssumption DEF Savings, Copies
<1>3. now \in Blocks /\ now.segments \in Lists
  BY <1>1, StoredBlock
<1>4. n \in Nat /\ n > 0 /\ 1 \in 1 .. n /\ n \in 1 .. n /\ now.segments # << >>
  BY <1>1, <1>3, ListFacts DEF StoredApart
<1>5. /\ new.label = Merge(now.label, read.label, edit.label)
      /\ new.tag = Merge(now.tag, read.tag, edit.tag)
      /\ new.startedAt = Merge(now.startedAt, read.startedAt, edit.start)
      /\ new.segments = IF WritesSegments(read, edit) THEN MergedSegments(now.segments, read.segments, moved)
                        ELSE now.segments
      /\ new.born = now.born
      /\ new = [label |-> new.label, tag |-> new.tag, startedAt |-> new.startedAt,
                segments |-> new.segments, born |-> new.born]
  BY <1>3 DEF Merged, Blocks
<1>6. /\ new.label \in {now.label, edit.label} /\ new.label \in Labels
      /\ new.tag \in {now.tag, edit.tag} /\ new.tag \in AllTags \cup {NoTag}
      /\ new.startedAt \in {now.startedAt, edit.start} /\ new.startedAt \in Nat
  BY <1>2, <1>3, <1>5 DEF Merge, EditBodies, Blocks
<1>7. new.segments \in Lists => new \in Blocks
  BY <1>3, <1>5, <1>6 DEF Blocks, Lists
<1>8. CASE ~WritesSegments(read, edit)
  <2>1. new.segments = now.segments
    BY <1>5, <1>8
  <2>2. SamePauses(now.segments, new.segments)
    BY <1>3, <2>1, SamePausesFacts
  <2>3. Len(now.segments) > 1 \/ id \notin raced => Apart(new.segments)
    BY <1>1, <2>1 DEF StoredApart
  <2>4. ASSUME req[r].fresh, id \notin raced PROVE new.startedAt = new.segments[1].start
    <3>1. now.startedAt = now.segments[1].start
      BY <1>1, <2>4 DEF StoredApart
    <3>2. CASE edit.start = Keep
      BY <1>5, <2>1, <3>1, <3>2 DEF Merge
    <3>3. CASE edit.start # Keep
      <4>1. /\ read.segments # << >> /\ now.segments = read.segments /\ moved = read.segments
            /\ Len(read.segments) > 1 => Apart(read.segments)
        BY <1>1, <1>8, <2>4, <3>3 DEF SegmentsRelate, MovesEdge, WritesSegments
      <4>2. moved[1].start = edit.start
        BY <1>2, <3>3, <4>1, MovedFacts
      <4> QED
        BY <1>5, <2>1, <3>1, <4>1, <4>2 DEF Merge
    <3> QED
      BY <3>2, <3>3
  <2> QED
    BY <1>3, <1>4, <1>5, <1>6, <1>7, <2>1, <2>2, <2>3, <2>4
<1>9. CASE WritesSegments(read, edit)
  <2>1. /\ read.segments # << >> /\ Sound(moved) /\ SamePauses(now.segments, read.segments)
        /\ Len(read.segments) > 1 => Apart(read.segments)
        /\ req[r].fresh => now.segments = read.segments /\ now.startedAt = read.startedAt
    BY <1>1, <1>9 DEF RowRelates, SegmentsRelate, WritesSegments
  <2>2. /\ moved \in Lists /\ SamePauses(read.segments, moved)
        /\ moved[1].start = IF edit.start = Keep THEN read.segments[1].start ELSE edit.start
        /\ moved[n].end = IF edit.end = Keep THEN read.segments[n].end ELSE edit.end
    BY <1>2, <2>1, MovedFacts DEF SamePauses
  <2>3. /\ new.segments \in Lists /\ SamePauses(now.segments, new.segments)
        /\ new.segments[1].start = Merge(now.segments[1].start, read.segments[1].start, moved[1].start)
        /\ new.segments[n].end = Merge(now.segments[n].end, read.segments[n].end, moved[n].end)
        /\ now.segments = read.segments => new.segments = moved
    <3> DEFINE merged == MergedSegments(now.segments, read.segments, moved)
    <3>1. new.segments = merged
      BY <1>5, <1>9
    <3>2. /\ merged \in Lists /\ SamePauses(now.segments, merged)
          /\ merged[1].start = Merge(now.segments[1].start, read.segments[1].start, moved[1].start)
          /\ merged[n].end = Merge(now.segments[n].end, read.segments[n].end, moved[n].end)
          /\ now.segments = read.segments => merged = moved
      <4> HIDE DEF moved, read, edit, id
      <4> QED
        BY <1>2, <1>3, <1>4, <2>1, <2>2, MergedFacts
    <3> HIDE DEF merged
    <3> QED
      BY <3>1, <3>2
  <2>4. /\ new.segments[1].start \in {now.segments[1].start, edit.start, moved[1].start}
        /\ new.segments[1].start \in {now.segments[1].start, edit.start}
        /\ new.segments[n].end \in {now.segments[n].end, edit.end, moved[n].end}
        /\ new.segments[n].end \in {now.segments[n].end, edit.end}
    BY <2>2, <2>3 DEF Merge
  <2>5. Len(new.segments) = n /\ new.segments # << >>
    <3>1. Len(new.segments) = n
      BY <2>3 DEF SamePauses
    <3> QED
      BY <1>4, <3>1
  <2>6. ASSUME n > 1 PROVE Apart(new.segments)
    <3>1. Apart(now.segments)
      BY <1>1, <2>6 DEF StoredApart
    <3>2. /\ moved[1].start < moved[1].end /\ moved[n].start < moved[n].end
          /\ now.segments[1].start < now.segments[1].end /\ now.segments[n].start < now.segments[n].end
      <4>1. DOMAIN moved = 1 .. n
        BY <2>1, <2>2, ListFacts DEF SamePauses
      <4> QED
        BY <1>4, <2>1, <3>1, <4>1 DEF Sound, Apart
    <3>3. /\ new.segments[1].end = now.segments[1].end /\ moved[1].end = now.segments[1].end
          /\ new.segments[n].start = now.segments[n].start /\ moved[n].start = now.segments[n].start
      <4>1. new.segments[1].end = now.segments[1].end /\ new.segments[n].start = now.segments[n].start
        BY <1>3, <2>3, <2>6, InnerEdges
      <4>2. SamePauses(now.segments, moved)
        BY <1>2, <1>3, <2>1, <2>2, SamePausesFacts
      <4>3. moved[1].end = now.segments[1].end /\ moved[n].start = now.segments[n].start
        BY <1>3, <2>2, <2>6, <4>2, InnerEdges
      <4> QED
        BY <4>1, <4>3
    <3>4. new.segments[1].start < new.segments[1].end /\ new.segments[n].start < new.segments[n].end
      BY <2>3, <3>2, <3>3 DEF Merge
    <3> QED
      BY <1>3, <2>3, <2>6, <3>1, <3>4, ApartKept
  <2>7. ASSUME n = 1, req[r].fresh PROVE Apart(new.segments)
    <3>1. new.segments = moved
      BY <2>1, <2>3, <2>7
    <3> QED
      BY <2>1, <2>5, <2>7, <3>1, <2>2, ListFacts DEF Sound, Apart
  <2>8. ASSUME req[r].fresh, id \notin raced PROVE new.startedAt = new.segments[1].start
    <3>1. now.startedAt = now.segments[1].start /\ new.segments = moved
      BY <1>1, <2>1, <2>3, <2>8 DEF StoredApart
    <3> QED
      BY <1>5, <2>1, <2>2, <2>8, <3>1 DEF Merge
  <2>9. n > 1 \/ (req[r].fresh /\ id \notin raced) => Apart(new.segments)
    <3>1. n = 1 \/ n > 1
      <4>1. \A k \in Nat : k > 0 => k = 1 \/ k > 1
        OBVIOUS
      <4> QED
        BY ONLY <1>4, <4>1
    <3> QED
      BY <1>2, <2>6, <2>7, <3>1
  <2> HIDE DEF moved
  <2> QED
    BY <1>5, <1>6, <1>7, <2>3, <2>4, <2>5, <2>8, <2>9
<1> QED
  BY <1>8, <1>9

-------------------------------------------------------------------------------
(* Steps. *)

Kept == {Idle} \cup Creatings \cup Loadings \cup Savings \cup Deletings

\* A step that moves one transaction on and writes nothing.
LEMMA OneProceeds ==
  ASSUME RecordsInv, NEW r \in Requests, NEW next \in Kept,
         PostApart(next), RowRelates(next), SegmentsRelate(next),
         req' = [req EXCEPT ![r] = next], UNCHANGED <<blocks, tags, created, raced>>
  PROVE  RecordsInv'
<1> USE DEF RecordsInv
<1>1. TypeOK'
  BY DEF TypeOK, Kept
<1>2. \A p \in Requests : req'[p] = IF p = r THEN next ELSE req[p]
  BY DEF TypeOK
<1>3. Stored' = Stored /\ StoredApart' /\ SomebodyAsks'
  BY DEF Stored, StoredApart, SomebodyAsks
<1>4. ASSUME NEW p \in Requests PROVE (PostApart(req[p]) /\ RowRelates(req[p]) /\ SegmentsRelate(req[p]))'
  <2>1. PostApart(req'[p]) /\ RowRelates(req'[p]) /\ SegmentsRelate(req'[p])
    BY <1>2 DEF RequestsRelate
  <2> QED
    BY <2>1, <1>3 DEF PostApart, RowRelates, SegmentsRelate
<1> QED
  BY <1>1, <1>3, <1>4 DEF RequestsRelate

LEMMA FinishStep ==
  ASSUME RecordsInv, NEW r \in Requests, Finish(r), UNCHANGED <<blocks, tags, created, raced>>
  PROVE  RecordsInv'
<1>1. PostApart(Idle) /\ RowRelates(Idle) /\ SegmentsRelate(Idle) /\ Idle \in Kept
  BY DEF PostApart, RowRelates, SegmentsRelate, Idle, Kept
<1> QED
  BY <1>1, OneProceeds DEF Finish

LEMMA BeginCreateStep ==
  ASSUME RecordsInv, NEW r \in Requests, NEW id \in Ids, NEW label \in Labels,
         NEW tag \in AllTags \cup {NoTag}, NEW segments \in Recordings,
         BeginCreate(r, id, label, tag, segments)
  PROVE  RecordsInv'
<1> DEFINE next == [pc |-> "creating", id |-> id, label |-> label, tag |-> tag, segments |-> segments]
<1>1. segments \in Lists /\ segments # << >>
  BY InputsAssumption DEF Lists
<1>2. Apart(segments)
  BY <1>1, SoundOrderedApart DEF BeginCreate
<1>3. next \in Kept
  BY <1>1 DEF Kept, Creatings
<1>4. PostApart(next) /\ RowRelates(next) /\ SegmentsRelate(next)
  BY <1>1, <1>2 DEF PostApart, RowRelates, SegmentsRelate
<1>5. req' = [req EXCEPT ![r] = next] /\ UNCHANGED <<blocks, tags, created, raced>>
  BY DEF BeginCreate
<1> HIDE DEF next
<1> QED
  BY <1>3, <1>4, <1>5, OneProceeds

LEMMA BeginDeleteStep ==
  ASSUME RecordsInv, NEW r \in Requests, NEW id \in Ids, BeginDelete(r, id)
  PROVE  RecordsInv'
<1> DEFINE next == [pc |-> "deleting", id |-> id]
<1>1. next \in Kept
  BY DEF Kept, Deletings
<1>2. PostApart(next) /\ RowRelates(next) /\ SegmentsRelate(next)
  BY DEF PostApart, RowRelates, SegmentsRelate
<1>3. req' = [req EXCEPT ![r] = next] /\ UNCHANGED <<blocks, tags, created, raced>>
  BY DEF BeginDelete
<1> HIDE DEF next
<1> QED
  BY <1>1, <1>2, <1>3, OneProceeds

LEMMA BeginEditStep ==
  ASSUME RecordsInv, NEW r \in Requests, NEW id \in Ids, NEW edit \in Edits, BeginEdit(r, id, edit)
  PROVE  RecordsInv'
<1> DEFINE row  == [blocks[id] EXCEPT !.segments = << >>]
           next == [pc |-> "loading", id |-> id, edit |-> edit, row |-> row, fresh |-> TRUE]
<1>1. id \in Stored /\ blocks[id] \in Blocks /\ blocks[id].born <= created
  BY StoredBlock DEF BeginEdit, RecordsInv, StoredApart
<1>2. row \in Copies /\ row.born = blocks[id].born /\ row.startedAt = blocks[id].startedAt
  BY <1>1, EmptySeq DEF Blocks, Copies, Lists
<1>3. req' = [req EXCEPT ![r] = next] /\ UNCHANGED <<blocks, tags, created, raced>>
  BY DEF BeginEdit
<1> HIDE DEF row
<1>4. next \in Kept
  BY <1>2 DEF Kept, Loadings
<1>5. PostApart(next) /\ RowRelates(next) /\ SegmentsRelate(next)
  BY <1>1, <1>2 DEF PostApart, RowRelates, SegmentsRelate
<1> HIDE DEF next
<1> QED
  BY <1>3, <1>4, <1>5, OneProceeds

\* The intervals an edit loads are those of the block as it is now, if it is still the
\* one whose row was read.
LEMMA LoadSegmentsStep ==
  ASSUME RecordsInv, NEW r \in Requests, LoadSegments(r)
  PROVE  RecordsInv'
<1> DEFINE id       == req[r].id
           edit     == req[r].edit
           same     == id \in Stored /\ blocks[id].born = req[r].row.born
           segments == IF same THEN blocks[id].segments ELSE << >>
           row      == [req[r].row EXCEPT !.segments = segments]
           next     == [pc |-> "saving", id |-> id, edit |-> edit, row |-> row, fresh |-> req[r].fresh]
           allowed  == MovesEdge(edit) => segments # << >> /\ Sound(Moved(segments, edit))
<1> USE DEF RecordsInv
<1>1. UNCHANGED <<blocks, tags, created, raced>>
  BY DEF LoadSegments
<1>2. Finish(r) \/ (allowed /\ req' = [req EXCEPT ![r] = next])
  BY DEF LoadSegments
<1>3. req[r] \in Loadings /\ RowRelates(req[r]) /\ req[r].pc = "loading"
  BY Kinds DEF LoadSegments, RequestsRelate
<1>4. id \in Ids /\ edit \in Edits /\ req[r].row \in Copies /\ req[r].fresh \in BOOLEAN
  BY <1>3 DEF Loadings
<1>5. same => /\ blocks[id].segments \in Lists
              /\ Len(blocks[id].segments) > 1 => Apart(blocks[id].segments)
  BY StoredBlock DEF StoredApart
<1>6. segments \in Lists /\ (Len(segments) > 1 => Apart(segments))
  <2>1. << >> \in Lists /\ ~(Len(<< >>) > 1)
    BY EmptySeq DEF Lists
  <2> QED
    BY <1>5, <2>1
<1>7. segments # << >> => same /\ segments = blocks[id].segments
  OBVIOUS
<1>8. same => segments = blocks[id].segments
  OBVIOUS
<1>9. req[r].fresh => same
  BY <1>3 DEF RowRelates
<1> HIDE DEF segments
<1>10. row \in Copies /\ row.segments = segments /\ row.born = req[r].row.born
       /\ row.startedAt = req[r].row.startedAt
  BY <1>4, <1>6 DEF Copies
<1> HIDE DEF row
<1>11. next \in Kept
  BY <1>4, <1>10 DEF Kept, Savings
<1>12. PostApart(next) /\ RowRelates(next)
  BY <1>3, <1>10 DEF PostApart, RowRelates
<1>13. ASSUME allowed PROVE SegmentsRelate(next)
  <2>1. same => SamePauses(blocks[id].segments, segments)
    BY <1>6, <1>8, SamePausesFacts
  <2> QED
    BY <1>6, <1>8, <1>9, <1>10, <1>13, <2>1 DEF SegmentsRelate
<1>14. ASSUME allowed, req' = [req EXCEPT ![r] = next] PROVE RecordsInv'
  <2>1. SegmentsRelate(next)
    BY <1>13, <1>14
  <2> HIDE DEF next, allowed, RecordsInv
  <2> QED
    BY <1>1, <1>11, <1>12, <1>14, <2>1, OneProceeds DEF RecordsInv
<1>15. ASSUME Finish(r) PROVE RecordsInv'
  <2> HIDE DEF RecordsInv
  <2> QED
    BY <1>1, <1>15, FinishStep DEF RecordsInv
<1> QED
  BY <1>2, <1>14, <1>15

\* A commit leaves the other transactions where they are, and those that have read
\* the block no longer fresh.
LEMMA CommittedFacts ==
  ASSUME TypeOK, NEW r \in Requests, NEW id \in Ids, Committed(r, id)
  PROVE  /\ req' \in [Requests -> Kept]
         /\ \A p \in Requests :
              /\ req'[p].pc = "creating" => req'[p] = req[p]
              /\ req'[p].pc \in {"loading", "saving"} =>
                   /\ req[p].pc = req'[p].pc /\ req[p].id = req'[p].id
                   /\ req[p].edit = req'[p].edit /\ req[p].row = req'[p].row
                   /\ req'[p].fresh => req[p].fresh /\ req[p].id # id
<1>1. \A p \in Requests :
        /\ req'[p] = IF p = r THEN Idle
                     ELSE IF req[p].pc \in {"loading", "saving"} /\ req[p].id = id
                          THEN [req[p] EXCEPT !.fresh = FALSE]
                          ELSE req[p]
  BY DEF Committed
<1>2. ASSUME NEW p \in Requests, p # r, req[p].pc \in {"loading", "saving"}, req[p].id = id
      PROVE  /\ req'[p] \in Kept /\ req'[p].pc = req[p].pc /\ req'[p].id = req[p].id
             /\ req'[p].edit = req[p].edit /\ req'[p].row = req[p].row /\ req'[p].fresh = FALSE
  <2>1. req'[p] = [req[p] EXCEPT !.fresh = FALSE]
    BY <1>1, <1>2
  <2>2. req[p] \in Loadings \/ req[p] \in Savings
    BY <1>2, Kinds
  <2> QED
    BY <2>1, <2>2 DEF Kept, Loadings, Savings
<1>3. \A p \in Requests : req[p] \in Kept
  BY DEF TypeOK, Kept
<1>4. ASSUME NEW p \in Requests, ~(p # r /\ req[p].pc \in {"loading", "saving"} /\ req[p].id = id)
      PROVE  /\ req'[p] \in Kept
             /\ req'[p] = Idle \/ (req'[p] = req[p] /\ ~(req[p].pc \in {"loading", "saving"} /\ req[p].id = id))
  BY <1>1, <1>3, <1>4 DEF Kept
<1>5. Idle.pc = "idle"
  BY DEF Idle
<1>6. \A p \in Requests : req'[p] \in Kept
  BY <1>2, <1>4
<1>7. req' \in [Requests -> Kept]
  BY <1>6 DEF Committed
<1>8. ASSUME NEW p \in Requests
      PROVE  /\ req'[p].pc = "creating" => req'[p] = req[p]
             /\ req'[p].pc \in {"loading", "saving"} =>
                  /\ req[p].pc = req'[p].pc /\ req[p].id = req'[p].id
                  /\ req[p].edit = req'[p].edit /\ req[p].row = req'[p].row
                  /\ req'[p].fresh => req[p].fresh /\ req[p].id # id
  BY <1>2, <1>4, <1>5
<1> QED
  BY <1>7, <1>8

\* What a block may become: a new one, born later than any, or the one it was up to
\* its edges; or it goes.
LEMMA OneWrites ==
  ASSUME RecordsInv, NEW r \in Requests, NEW id \in Ids, NEW new,
         Committed(r, id), blocks' = [blocks EXCEPT ![id] = new], tags' = tags,
         created' \in Nat, created <= created',
         raced' \subseteq Ids, \A other \in Ids : other # id => (other \in raced' <=> other \in raced),
         new # NoBlock =>
           /\ new \in Blocks /\ new.segments # << >> /\ new.born <= created'
           /\ Len(new.segments) > 1 \/ id \notin raced' => Apart(new.segments)
           /\ id \notin raced' => new.startedAt = new.segments[1].start
           /\ \/ created < new.born
              \/ /\ id \in Stored /\ new.born = blocks[id].born
                 /\ SamePauses(blocks[id].segments, new.segments)
  PROVE  RecordsInv'
<1> USE DEF RecordsInv
<1>1. \A other \in Ids : blocks'[other] = IF other = id THEN new ELSE blocks[other]
  BY DEF TypeOK
<1>2. TypeOK'
  <2>1. blocks' \in [Ids -> Blocks \cup {NoBlock}]
    BY DEF TypeOK
  <2> QED
    BY <2>1, CommittedFacts DEF TypeOK, Kept
<1>3. StoredApart'
  <2> SUFFICES ASSUME NEW other \in Stored'
               PROVE  /\ blocks'[other].segments # << >>
                      /\ blocks'[other].born <= created'
                      /\ Len(blocks'[other].segments) > 1 \/ other \notin raced' => Apart(blocks'[other].segments)
                      /\ other \notin raced' => blocks'[other].startedAt = blocks'[other].segments[1].start
    BY DEF StoredApart, Apart
  <2>1. CASE other = id
    BY <1>1, <2>1 DEF Stored
  <2>2. CASE other # id
    <3>1. other \in Stored /\ blocks'[other] = blocks[other] /\ other \in Ids
      BY <1>1, <2>2 DEF Stored
    <3>2. blocks[other].born \in Nat /\ created \in Nat
      BY <3>1, StoredBlock DEF Blocks, TypeOK
    <3> QED
      BY <2>2, <3>1, <3>2 DEF StoredApart
  <2> QED
    BY <2>1, <2>2
<1>4. ASSUME NEW p \in Requests PROVE (PostApart(req[p]) /\ RowRelates(req[p]) /\ SegmentsRelate(req[p]))'
  <2>1. PostApart(req[p])'
    BY CommittedFacts DEF RequestsRelate, PostApart, Apart
  <2> DEFINE q == req[p]
  <2>2. CASE req'[p].pc \notin {"loading", "saving"}
    BY <2>1, <2>2 DEF RowRelates, SegmentsRelate
  <2>3. CASE req'[p].pc \in {"loading", "saving"}
    <3>1. /\ q.pc = req'[p].pc /\ q.id = req'[p].id /\ q.edit = req'[p].edit /\ q.row = req'[p].row
          /\ req'[p].fresh => q.fresh /\ q.id # id
      BY <2>3, CommittedFacts
    <3>2. RowRelates(q) /\ SegmentsRelate(q)
      BY DEF RequestsRelate
    <3>3. q.id \in Ids /\ q.row \in Copies
      BY <2>3, <3>1, Kinds DEF Loadings, Savings
    <3>4. q.row.born <= created /\ q.row.born \in Nat /\ created \in Nat
      BY <2>3, <3>1, <3>2, <3>3 DEF RowRelates, Copies, TypeOK
    <3>5. q.id # id => blocks'[q.id] = blocks[q.id] /\ (q.id \in Stored' <=> q.id \in Stored)
      BY <1>1, <3>3 DEF Stored
    <3>6. RowRelates(req[p])'
      <4>1. req'[p].row.born <= created'
        BY <3>1, <3>4
      <4> QED
        BY <2>3, <3>1, <3>2, <3>5, <4>1 DEF RowRelates
    <3>7. ASSUME req'[p].pc = "saving", MovesEdge(q.edit)
          PROVE  /\ req'[p].fresh => blocks'[q.id].segments = q.row.segments
                 /\ q.id \in Stored' /\ blocks'[q.id].born = q.row.born =>
                      SamePauses(blocks'[q.id].segments, q.row.segments)
      <4>1. CASE q.id # id
        BY <3>1, <3>2, <3>5, <3>7, <4>1 DEF SegmentsRelate
      <4>2. ASSUME q.id = id, id \in Stored', new.born = q.row.born
            PROVE  SamePauses(new.segments, q.row.segments)
        <5>1. new # NoBlock
          BY <1>1, <4>2 DEF Stored
        <5>2. id \in Stored /\ new.born = blocks[id].born /\ SamePauses(blocks[id].segments, new.segments)
          BY <3>4, <4>2, <5>1 DEF Blocks
        <5>3. SamePauses(blocks[id].segments, q.row.segments)
          BY <3>1, <3>2, <3>7, <4>2, <5>2 DEF SegmentsRelate
        <5>4. blocks[id].segments \in Lists /\ new.segments \in Lists /\ q.row.segments \in Lists
          BY <3>3, <5>1, <5>2, StoredBlock DEF Blocks, Copies, Lists
        <5> QED
          BY <5>2, <5>3, <5>4, SamePausesFacts
      <4> QED
        BY <1>1, <3>1, <4>1, <4>2
    <3>8. SegmentsRelate(req[p])'
      BY <3>1, <3>2, <3>7 DEF SegmentsRelate
    <3> QED
      BY <2>1, <3>6, <3>8
  <2> QED
    BY <2>2, <2>3
<1>5. SomebodyAsks'
  BY DEF SomebodyAsks
<1> QED
  BY <1>2, <1>3, <1>4, <1>5 DEF RequestsRelate

LEMMA CommitCreateStep ==
  ASSUME RecordsInv, NEW r \in Requests, CommitCreate(r)
  PROVE  RecordsInv'
<1> DEFINE q   == req[r]
           new == [label |-> q.label, tag |-> q.tag, startedAt |-> q.segments[1].start,
                   segments |-> q.segments, born |-> created']
<1>1. CASE Finish(r) /\ UNCHANGED <<blocks, tags, created, raced>>
  BY <1>1, FinishStep
<1>2. CASE q.id \notin Stored /\ Insert(r) /\ tags' = tags
  <2>1. q \in Creatings /\ q.segments # << >> /\ Apart(q.segments) /\ TypeOK
    BY Kinds DEF CommitCreate, RecordsInv, RequestsRelate, PostApart
  <2>2. q.id \in Ids /\ q.label \in Labels /\ q.tag \in AllTags \cup {NoTag} /\ q.segments \in Lists
    BY <2>1 DEF Creatings
  <2>3. created' = created + 1 /\ created \in Nat
    BY <1>2, <2>1 DEF Insert, TypeOK
  <2>4. q.segments[1].start \in Nat
    <3>1. PICK n \in Nat : n = Len(q.segments) /\ n > 0
      BY <2>1, <2>2, ListFacts
    <3>2. 1 \in 1 .. n
      BY <3>1
    <3> QED
      BY <2>2, <3>1, <3>2, ListFacts
  <2>5. new \in Blocks /\ new.segments = q.segments /\ new.born = created' /\ new.startedAt = new.segments[1].start
    BY <2>2, <2>3, <2>4 DEF Blocks, Lists
  <2>6. /\ Committed(r, q.id) /\ blocks' = [blocks EXCEPT ![q.id] = new] /\ raced' = raced \ {q.id}
    BY <1>2 DEF Insert
  <2>7. raced' \subseteq Ids /\ \A other \in Ids : other # q.id => (other \in raced' <=> other \in raced)
    BY <2>1, <2>6 DEF TypeOK
  <2>8. created' \in Nat /\ created <= created' /\ new.born <= created' /\ created < new.born
    BY <2>3, <2>5
  <2>9. new.segments # << >> /\ Apart(new.segments) /\ new.startedAt = new.segments[1].start
    BY <2>1, <2>5
  <2> HIDE DEF new, q
  <2> QED
    BY <1>2, <2>2, <2>5, <2>6, <2>7, <2>8, <2>9, OneWrites
<1> QED
  BY <1>1, <1>2 DEF CommitCreate

LEMMA CommitEditStep ==
  ASSUME RecordsInv, NEW r \in Requests, CommitEdit(r)
  PROVE  RecordsInv'
<1> DEFINE q   == req[r]
           now == blocks[q.id]
           new == Merged(now, q.row, q.edit)
<1>1. CASE Finish(r) /\ UNCHANGED <<blocks, tags, created, raced>>
  BY <1>1, FinishStep
<1>2. ASSUME /\ q.id \in Stored /\ (WritesSegments(q.row, q.edit) => now.born = q.row.born)
             /\ blocks' = [blocks EXCEPT ![q.id] = Merged(@, q.row, q.edit)]
             /\ raced' = IF q.fresh THEN raced ELSE raced \cup {q.id}
             /\ Committed(r, q.id) /\ UNCHANGED <<tags, created>>
      PROVE  RecordsInv'
  <2>1. TypeOK /\ StoredApart /\ q.id \in Ids /\ now \in Blocks /\ now.born <= created
    BY <1>2, StoredBlock DEF RecordsInv, StoredApart
  <2>2. q \in Savings /\ q.fresh \in BOOLEAN
    BY <2>1, Kinds DEF CommitEdit, Savings
  <2>3. /\ new \in Blocks /\ new.born = now.born
        /\ SamePauses(now.segments, new.segments) /\ new.segments # << >>
        /\ Len(now.segments) > 1 \/ (q.fresh /\ q.id \notin raced) => Apart(new.segments)
        /\ q.fresh /\ q.id \notin raced => new.startedAt = new.segments[1].start
    BY <1>2, EditWrites DEF CommitEdit
  <2>4. Len(new.segments) = Len(now.segments)
    BY <2>3 DEF SamePauses
  <2>5. q.id \notin raced' => q.fresh /\ q.id \notin raced
    BY <1>2, <2>2
  <2>6. blocks' = [blocks EXCEPT ![q.id] = new]
    BY <1>2, <2>1 DEF TypeOK
  <2>7. /\ created' \in Nat /\ created <= created' /\ new.born <= created'
        /\ raced' \subseteq Ids /\ \A other \in Ids : other # q.id => (other \in raced' <=> other \in raced)
    BY <1>2, <2>1, <2>3 DEF TypeOK
  <2> HIDE DEF new, q
  <2> QED
    BY <1>2, <2>1, <2>3, <2>4, <2>5, <2>6, <2>7, OneWrites
<1> QED
  BY <1>1, <1>2 DEF CommitEdit

LEMMA CommitDeleteStep ==
  ASSUME RecordsInv, NEW r \in Requests, CommitDelete(r)
  PROVE  RecordsInv'
<1>1. TypeOK /\ req[r].id \in Ids
  BY Kinds DEF CommitDelete, RecordsInv, Deletings
<1>2. /\ Committed(r, req[r].id) /\ blocks' = [blocks EXCEPT ![req[r].id] = NoBlock]
      /\ UNCHANGED <<tags, created, raced>>
  BY DEF CommitDelete
<1>3. created' \in Nat /\ created <= created' /\ raced' \subseteq Ids
  BY <1>1, <1>2 DEF TypeOK
<1> QED
  BY <1>1, <1>2, <1>3, OneWrites

LEMMA RetaggedFacts ==
  ASSUME TypeOK, NEW tag \in AllTags, DeleteTag(tag), NEW id \in Ids
  PROVE  /\ blocks'[id] \in Blocks \cup {NoBlock}
         /\ blocks'[id] = NoBlock <=> blocks[id] = NoBlock
         /\ blocks[id] # NoBlock => /\ blocks'[id].segments = blocks[id].segments
                                    /\ blocks'[id].startedAt = blocks[id].startedAt
                                    /\ blocks'[id].born = blocks[id].born
                                    /\ blocks'[id].label = blocks[id].label
                                    /\ blocks'[id].tag = blocks[id].tag
                                       \/ (blocks'[id].tag = NoTag /\ blocks[id].tag \notin tags')
<1>1. blocks'[id] = IF id \in Stored /\ blocks[id].tag = tag
                    THEN [blocks[id] EXCEPT !.tag = NoTag] ELSE blocks[id]
  BY DEF DeleteTag
<1>2. tag \notin tags'
  BY DEF DeleteTag
<1>3. CASE id \in Stored /\ blocks[id].tag = tag
  BY <1>1, <1>2, <1>3, StoredBlock, NoBlockAssumption DEF Blocks, Stored
<1>4. CASE ~(id \in Stored /\ blocks[id].tag = tag)
  BY <1>1, <1>4 DEF TypeOK
<1> QED
  BY <1>3, <1>4

LEMMA DeleteTagStep ==
  ASSUME RecordsInv, NEW tag \in AllTags, DeleteTag(tag)
  PROVE  RecordsInv'
<1> USE DEF RecordsInv
<1>1. UNCHANGED <<req, created, raced>> /\ Stored' = Stored
  BY RetaggedFacts DEF DeleteTag, Stored
<1>2. TypeOK'
  <2>1. blocks' \in [Ids -> Blocks \cup {NoBlock}]
    BY RetaggedFacts DEF DeleteTag
  <2> QED
    BY <1>1, <2>1 DEF TypeOK, DeleteTag
<1>3. \A id \in Stored : /\ blocks'[id].segments = blocks[id].segments
                         /\ blocks'[id].startedAt = blocks[id].startedAt
                         /\ blocks'[id].born = blocks[id].born
  BY RetaggedFacts DEF Stored
<1>4. StoredApart'
  BY <1>1, <1>3 DEF StoredApart
<1>5. ASSUME NEW p \in Requests PROVE (PostApart(req[p]) /\ RowRelates(req[p]) /\ SegmentsRelate(req[p]))'
  <2>1. PostApart(req[p]) /\ RowRelates(req[p]) /\ SegmentsRelate(req[p])
    BY DEF RequestsRelate
  <2>2. PostApart(req[p])'
    BY <1>1, <2>1 DEF PostApart
  <2>3. RowRelates(req[p])'
    BY <1>1, <1>3, <2>1 DEF RowRelates
  <2>4. req[p].pc = "saving" /\ req[p].fresh => req[p].id \in Stored
    BY <2>1 DEF RowRelates
  <2>5. SegmentsRelate(req[p])'
    BY <1>1, <1>3, <2>1, <2>4 DEF SegmentsRelate
  <2> QED
    BY <2>2, <2>3, <2>5
<1>6. SomebodyAsks'
  BY <1>1 DEF SomebodyAsks
<1> QED
  BY <1>2, <1>4, <1>5, <1>6 DEF RequestsRelate

LEMMA Start == Init => RecordsInv
<1> SUFFICES ASSUME Init PROVE RecordsInv
  OBVIOUS
<1>1. Stored = {}
  BY DEF Init, Stored
<1>2. \A r \in Requests : req[r] = Idle /\ req[r].pc = "idle"
  BY DEF Init, Idle
<1>3. TypeOK
  BY DEF Init, TypeOK
<1> QED
  BY <1>1, <1>2, <1>3 DEF RecordsInv, StoredApart, RequestsRelate, PostApart, RowRelates, SegmentsRelate,
     SomebodyAsks

LEMMA Step == RecordsInv /\ [Next]_vars => RecordsInv'
<1> SUFFICES ASSUME RecordsInv, [Next]_vars PROVE RecordsInv'
  OBVIOUS
<1>1. CASE UNCHANGED vars
  BY <1>1 DEF vars, RecordsInv, TypeOK, Stored, StoredApart, RequestsRelate, PostApart, RowRelates,
     SegmentsRelate, SomebodyAsks
<1>2. ASSUME NEW r \in Requests, NEW id \in Ids, NEW label \in Labels, NEW tag \in AllTags \cup {NoTag},
             NEW segments \in Recordings, BeginCreate(r, id, label, tag, segments)
      PROVE  RecordsInv'
  BY <1>2, BeginCreateStep
<1>3. ASSUME NEW r \in Requests, NEW id \in Ids, NEW edit \in Edits, BeginEdit(r, id, edit)
      PROVE  RecordsInv'
  BY <1>3, BeginEditStep
<1>4. ASSUME NEW r \in Requests, NEW id \in Ids, BeginDelete(r, id) PROVE RecordsInv'
  BY <1>4, BeginDeleteStep
<1>5. ASSUME NEW r \in Requests, CommitCreate(r) \/ LoadSegments(r) \/ CommitEdit(r) \/ CommitDelete(r)
      PROVE  RecordsInv'
  BY <1>5, CommitCreateStep, LoadSegmentsStep, CommitEditStep, CommitDeleteStep
<1>6. ASSUME NEW r \in Requests, Rollback(r) PROVE RecordsInv'
  BY <1>6, FinishStep DEF Rollback
<1>7. ASSUME NEW tag \in AllTags, DeleteTag(tag) PROVE RecordsInv'
  BY <1>7, DeleteTagStep
<1> QED
  BY <1>1, <1>2, <1>3, <1>4, <1>5, <1>6, <1>7 DEF Next

-------------------------------------------------------------------------------
(* What the stored history promises. *)

\* The invariant the theorems below rest on: stored intervals lie apart, and what an
\* edit has read differs from its row only where another edit moved an edge.
THEOREM RecordsInvariant == Spec => []RecordsInv
BY Start, Step, PTL DEF Spec

\* Every variable keeps its type.
THEOREM TypeCorrect == Spec => []TypeOK
<1>1. RecordsInv => TypeOK
  BY DEF RecordsInv
<1> QED
  BY <1>1, RecordsInvariant, PTL

LEMMA InvariantSuffices == RecordsInv => IntervalsStaySound /\ BucketFollowsStart
<1> SUFFICES ASSUME RecordsInv, NEW id \in Stored
             PROVE  /\ Len(blocks[id].segments) > 1 \/ id \notin raced => Sound(blocks[id].segments)
                    /\ id \notin raced =>
                         blocks[id].startedAt = blocks[id].segments[Earliest(blocks[id].segments)].start
  BY DEF IntervalsStaySound, BucketFollowsStart
<1>1. /\ blocks[id].segments \in Lists /\ blocks[id].segments # << >>
      /\ Len(blocks[id].segments) > 1 \/ id \notin raced => Apart(blocks[id].segments)
      /\ id \notin raced => blocks[id].startedAt = blocks[id].segments[1].start
  BY StoredBlock DEF RecordsInv, StoredApart
<1>2. Earliest(blocks[id].segments) = 1
  BY <1>1, EdgesOfApart
<1> QED
  BY <1>1, <1>2, ApartSound

\* Whatever edits, posts and deletes run at once, a block's intervals stay closed,
\* positive and apart, unless two edits raced on a block of one interval.
THEOREM IntervalsAreSound == Spec => []IntervalsStaySound
BY InvariantSuffices, RecordsInvariant, PTL

\* The day a block is counted on stays the start of its first interval, unless two
\* edits raced on the block.
THEOREM BucketIsStart == Spec => []BucketFollowsStart
BY InvariantSuffices, RecordsInvariant, PTL

\* What a step may do to a block that is stored before it and after it.
EditedBy(r, id) ==
  /\ req[r].pc = "saving" /\ req[r].id = id /\ id \in Stored
  /\ WritesSegments(req[r].row, req[r].edit) => blocks[id].born = req[r].row.born
  /\ blocks'[id] = Merged(blocks[id], req[r].row, req[r].edit)

Retagged(id) ==
  /\ blocks'[id].segments = blocks[id].segments /\ blocks'[id].startedAt = blocks[id].startedAt
  /\ blocks'[id].born = blocks[id].born /\ blocks'[id].label = blocks[id].label
  /\ blocks'[id].tag = blocks[id].tag \/ (blocks'[id].tag = NoTag /\ blocks[id].tag \notin tags')

LEMMA WhatChanges ==
  ASSUME RecordsInv, Next, NEW id \in Ids, SameBlock(id)
  PROVE  Retagged(id) \/ \E r \in Requests : EditedBy(r, id)
<1> USE DEF RecordsInv, SameBlock
<1>1. id \in Stored
  BY DEF Stored
<1>2. CASE blocks' = blocks
  BY <1>2 DEF Retagged
<1>3. ASSUME NEW r \in Requests, CommitCreate(r), blocks' # blocks PROVE Retagged(id)
  <2>1. req[r].id \notin Stored /\ Insert(r)
    BY <1>3 DEF CommitCreate
  <2>2. blocks'[id] = blocks[id]
    BY <1>1, <2>1 DEF Insert, TypeOK
  <2> QED
    BY <2>2 DEF Retagged
<1>4. ASSUME NEW r \in Requests, CommitEdit(r), blocks' # blocks PROVE Retagged(id) \/ EditedBy(r, id)
  <2>1. /\ req[r].pc = "saving" /\ req[r].id \in Stored
        /\ WritesSegments(req[r].row, req[r].edit) => blocks[req[r].id].born = req[r].row.born
        /\ blocks' = [blocks EXCEPT ![req[r].id] = Merged(@, req[r].row, req[r].edit)]
    BY <1>4 DEF CommitEdit
  <2>2. CASE req[r].id = id
    BY <1>1, <2>1, <2>2 DEF EditedBy, TypeOK
  <2>3. CASE req[r].id # id
    BY <1>1, <2>1, <2>3 DEF Retagged, TypeOK
  <2> QED
    BY <2>2, <2>3
<1>5. ASSUME NEW r \in Requests, CommitDelete(r) PROVE Retagged(id)
  <2>1. blocks' = [blocks EXCEPT ![req[r].id] = NoBlock]
    BY <1>5 DEF CommitDelete
  <2>2. blocks'[id] = blocks[id]
    BY <2>1 DEF TypeOK
  <2> QED
    BY <2>2 DEF Retagged
<1>6. ASSUME NEW tag \in AllTags, DeleteTag(tag) PROVE Retagged(id)
  BY <1>6, RetaggedFacts DEF Retagged
<1>7. \/ blocks' = blocks
      \/ \E r \in Requests : CommitCreate(r) \/ CommitEdit(r) \/ CommitDelete(r)
      \/ \E tag \in AllTags : DeleteTag(tag)
  BY DEF Next, BeginCreate, BeginEdit, BeginDelete, LoadSegments, Rollback
<1> QED
  BY <1>2, <1>3, <1>4, <1>5, <1>6, <1>7

\* A post never replaces a block that is stored.
THEOREM RecordedOnlyOnce == Spec => RecordedOnce
<1>1. RecordsInv /\ [Next]_vars => [\A id \in Ids : SameBlock(id) => blocks'[id].born = blocks[id].born]_vars
  <2> SUFFICES ASSUME RecordsInv, Next, NEW id \in Ids, SameBlock(id) PROVE blocks'[id].born = blocks[id].born
    OBVIOUS
  <2>1. ASSUME NEW r \in Requests, EditedBy(r, id) PROVE blocks'[id].born = blocks[id].born
    BY <2>1, EditWrites DEF EditedBy
  <2> QED
    BY <2>1, WhatChanges DEF Retagged
<1>2. Spec => [][\A id \in Ids : SameBlock(id) => blocks'[id].born = blocks[id].born]_vars
  BY <1>1, RecordsInvariant, PTL DEF Spec
<1> QED
  BY <1>2 DEF RecordedOnce

\* No edit rewrites a pause.
THEOREM PausesStay == Spec => PausesAreKept
<1> DEFINE Pauses(id) == \A i \in 1 .. Len(blocks[id].segments) - 1 :
                           /\ blocks'[id].segments[i].end = blocks[id].segments[i].end
                           /\ blocks'[id].segments[i + 1].start = blocks[id].segments[i + 1].start
           Safe == \A id \in Ids : SameBlock(id) => Pauses(id)
<1>1. RecordsInv /\ [Next]_vars => [Safe]_vars
  <2> SUFFICES ASSUME RecordsInv, Next, NEW id \in Ids, SameBlock(id) PROVE Pauses(id)
    OBVIOUS
  <2>1. ASSUME SamePauses(blocks[id].segments, blocks'[id].segments) PROVE Pauses(id)
    <3>1. PICK n \in Nat : n = Len(blocks[id].segments)
      BY StoredBlock, ListFacts DEF RecordsInv, SameBlock, Stored
    <3>2. \A i \in 1 .. n - 1 : i \in 1 .. n /\ i + 1 \in 1 .. n /\ i # n /\ i + 1 # 1
      BY <3>1
    <3> QED
      BY <2>1, <3>1, <3>2 DEF SamePauses
  <2>2. ASSUME NEW r \in Requests, EditedBy(r, id) PROVE SamePauses(blocks[id].segments, blocks'[id].segments)
    BY <2>2, EditWrites DEF EditedBy
  <2>3. CASE Retagged(id)
    BY <2>3 DEF Retagged
  <2> QED
    BY <2>1, <2>2, <2>3, WhatChanges
<1>2. Spec => [][Safe]_vars
  BY <1>1, RecordsInvariant, PTL DEF Spec
<1> QED
  BY <1>2 DEF PausesAreKept

\* An edit takes back nothing that another has written to a field it does not name.
THEOREM EditsStayApart == Spec => EditsKeepApart
<1> DEFINE EditOf(r, id) == IF req[r].pc = "saving" /\ req[r].id = id THEN req[r].edit
                            ELSE [label |-> Keep, tag |-> Keep, start |-> Keep, end |-> Keep]
           Named(id, edit) ==
             /\ blocks'[id].label \in {blocks[id].label, edit.label}
             /\ \/ blocks'[id].tag \in {blocks[id].tag, edit.tag}
                \/ blocks'[id].tag = NoTag /\ blocks[id].tag \notin tags'
             /\ blocks'[id].startedAt \in {blocks[id].startedAt, edit.start}
             /\ Edges(blocks'[id])[1] \in {Edges(blocks[id])[1], edit.start}
             /\ Edges(blocks'[id])[2] \in {Edges(blocks[id])[2], edit.end}
           Safe == \A id \in Ids : SameBlock(id) => \E r \in Requests : Named(id, EditOf(r, id))
<1>1. RecordsInv /\ [Next]_vars => [Safe]_vars
  <2> SUFFICES ASSUME RecordsInv, Next, NEW id \in Ids, SameBlock(id)
               PROVE  \E r \in Requests : Named(id, EditOf(r, id))
    OBVIOUS
  <2>1. ASSUME NEW r \in Requests, EditedBy(r, id) PROVE Named(id, EditOf(r, id))
    <3>1. EditOf(r, id) = req[r].edit
      BY <2>1 DEF EditedBy
    <3>2. /\ SamePauses(blocks[id].segments, blocks'[id].segments)
          /\ blocks'[id].label \in {blocks[id].label, req[r].edit.label}
          /\ blocks'[id].tag \in {blocks[id].tag, req[r].edit.tag}
          /\ blocks'[id].startedAt \in {blocks[id].startedAt, req[r].edit.start}
          /\ blocks'[id].segments[1].start \in {blocks[id].segments[1].start, req[r].edit.start}
          /\ blocks'[id].segments[Len(blocks[id].segments)].end
               \in {blocks[id].segments[Len(blocks[id].segments)].end, req[r].edit.end}
      BY <2>1, EditWrites DEF EditedBy
    <3>3. Len(blocks'[id].segments) = Len(blocks[id].segments)
      BY <3>2 DEF SamePauses
    <3> HIDE DEF EditOf
    <3> QED
      BY <3>1, <3>2, <3>3 DEF Edges
  <2>2. ASSUME Retagged(id), NEW r \in Requests PROVE Named(id, EditOf(r, id))
    <3> HIDE DEF EditOf
    <3> QED
      BY <2>2 DEF Retagged, Edges
  <2>3. Requests # {}
    BY DEF RecordsInv, SomebodyAsks, SameBlock, Stored
  <2> HIDE DEF Named, EditOf
  <2> QED
    BY <2>1, <2>2, <2>3, WhatChanges
<1>2. Spec => [][Safe]_vars
  BY <1>1, RecordsInvariant, PTL DEF Spec
<1> QED
  BY <1>2 DEF EditsKeepApart
===============================================================================
