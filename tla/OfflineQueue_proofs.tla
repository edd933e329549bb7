-------------------------- MODULE OfflineQueue_proofs --------------------------
(***************************************************************************)
(* Theorems about OfflineQueue, for every set of tabs, ids and copies and  *)
(* every bound.                                                            *)
(***************************************************************************)
EXTENDS OfflineQueue, FiniteSetTheorems, TLAPS

-------------------------------------------------------------------------------
(* Filter: what filtering a queue by indices keeps. *)

\* Ranks grow with the index.
LEMMA RankIncreases ==
  ASSUME NEW n \in Nat, NEW kept \in SUBSET (1..n), NEW i \in kept, NEW k \in kept, i < k
  PROVE  Rank(kept, i) < Rank(kept, k)
<1> DEFINE low  == {j \in kept : j <= i}
           high == {j \in kept : j <= k}
<1>1. IsFiniteSet(kept)
  <2>1. IsFiniteSet(1..n)
    BY FS_Interval
  <2> QED
    BY <2>1, FS_Subset
<1>2. IsFiniteSet(high) /\ low \in SUBSET high
  <2>1. high \in SUBSET kept
    OBVIOUS
  <2>2. \A j \in kept : j <= i => j <= k
    OBVIOUS
  <2>3. low \in SUBSET high
    BY <2>2
  <2> QED
    BY ONLY <1>1, <2>1, <2>3, FS_Subset
<1>3. k \in high /\ k \notin low
  OBVIOUS
<1>4. Cardinality(low) <= Cardinality(high) /\ Cardinality(low) # Cardinality(high)
  BY <1>2, <1>3, FS_Subset
<1>5. Cardinality(low) \in Nat /\ Cardinality(high) \in Nat
  BY <1>2, FS_Subset, FS_CardinalityType
<1> QED
  BY <1>4, <1>5 DEF Rank

\* Every rank from one to the number of kept indices is some kept index's.
LEMMA RankSurjective ==
  ASSUME NEW n \in Nat, NEW kept \in SUBSET (1..n)
  PROVE  /\ Cardinality(kept) \in Nat
         /\ \A i \in kept : Rank(kept, i) \in 1..Cardinality(kept)
         /\ \A k \in 1..Cardinality(kept) : \E i \in kept : Rank(kept, i) = k
<1> DEFINE size == Cardinality(kept)
           rank == [i \in kept |-> Rank(kept, i)]
<1>1. IsFiniteSet(kept) /\ size \in Nat
  <2>1. IsFiniteSet(1..n)
    BY FS_Interval
  <2>2. IsFiniteSet(kept)
    BY <2>1, FS_Subset
  <2> QED
    BY <2>2, FS_CardinalityType
<1>2. \A i \in kept : Rank(kept, i) \in 1..size
  <2> SUFFICES ASSUME NEW i \in kept PROVE Rank(kept, i) \in 1..size
    OBVIOUS
  <2> DEFINE low == {j \in kept : j <= i}
  <2>1. low \in SUBSET kept /\ i \in low
    OBVIOUS
  <2>2. IsFiniteSet(low) /\ Cardinality(low) <= size
    BY <1>1, <2>1, FS_Subset
  <2>3. Cardinality(low) \in Nat /\ Cardinality(low) # 0
    BY <2>1, <2>2, FS_CardinalityType, FS_EmptySet
  <2> QED
    BY <1>1, <2>2, <2>3 DEF Rank
<1>3. rank \in Injection(kept, 1..size)
  <2>1. rank \in [kept -> 1..size]
    BY <1>2
  <2>2. \A i, k \in kept : rank[i] = rank[k] => i = k
    <3> SUFFICES ASSUME NEW i \in kept, NEW k \in kept, i # k PROVE rank[i] # rank[k]
      OBVIOUS
    <3>1. Rank(kept, i) \in Int /\ Rank(kept, k) \in Int
      BY <1>2
    <3>2. CASE i < k
      <4>1. Rank(kept, i) < Rank(kept, k)
        BY <3>2, RankIncreases
      <4> QED
        BY <3>1, <4>1
    <3>3. CASE k < i
      <4>1. Rank(kept, k) < Rank(kept, i)
        BY <3>3, RankIncreases
      <4> QED
        BY <3>1, <4>1
    <3> QED
      BY <3>2, <3>3
  <2> QED
    BY <2>1, <2>2 DEF Injection, IsInjective
<1>4. IsFiniteSet(1..size) /\ Cardinality(1..size) = size
  BY <1>1, FS_Interval
<1>5. rank \in Surjection(kept, 1..size)
  BY <1>3, <1>4, FS_Injection
<1> QED
  BY <1>1, <1>2, <1>5 DEF Surjection

\* KeptIndex picks, for every position of the result, the kept index it shows.
LEMMA KeptIndexRank ==
  ASSUME NEW n \in Nat, NEW kept \in SUBSET (1..n), NEW k \in 1..Cardinality(kept)
  PROVE  KeptIndex(kept, k) \in kept /\ Rank(kept, KeptIndex(kept, k)) = k
<1>1. \E i \in kept : Rank(kept, i) = k
  BY RankSurjective
<1> QED
  BY <1>1 DEF KeptIndex

\* Filtering yields a queue of exactly the kept items, each kept index once.
LEMMA FilterKeeps ==
  ASSUME NEW S, NEW q \in Seq(S), NEW kept \in SUBSET DOMAIN q
  PROVE  /\ Filter(q, kept) \in Seq(S)
         /\ \A k \in DOMAIN Filter(q, kept) : \E i \in kept : Filter(q, kept)[k] = q[i]
         /\ \A i \in kept : \E k \in DOMAIN Filter(q, kept) : Filter(q, kept)[k] = q[i]
         /\ \A k, m \in DOMAIN Filter(q, kept) :
              k # m => \E i, j \in kept : /\ i # j
                                          /\ Filter(q, kept)[k] = q[i]
                                          /\ Filter(q, kept)[m] = q[j]
<1> DEFINE size == Cardinality(kept)
           out  == Filter(q, kept)
<1>1. DOMAIN q = 1..Len(q) /\ Len(q) \in Nat
  OBVIOUS
<1>2. size \in Nat /\ DOMAIN out = 1..size
  BY <1>1, RankSurjective DEF Filter
<1>3. \A k \in 1..size : out[k] = q[KeptIndex(kept, k)] /\ KeptIndex(kept, k) \in kept
                         /\ Rank(kept, KeptIndex(kept, k)) = k
  BY <1>1, KeptIndexRank DEF Filter
<1>4. \A i \in kept : q[i] \in S
  BY <1>1
<1>5. out \in Seq(S)
  <2>1. out = [k \in 1..size |-> q[KeptIndex(kept, k)]]
    BY DEF Filter
  <2>2. \A k \in 1..size : q[KeptIndex(kept, k)] \in S
    BY <1>3, <1>4
  <2> QED
    BY <1>2, <2>1, <2>2
<1>6. \A i \in kept : \E k \in DOMAIN out : out[k] = q[i]
  <2> SUFFICES ASSUME NEW i \in kept PROVE \E k \in DOMAIN out : out[k] = q[i]
    OBVIOUS
  <2> DEFINE k == Rank(kept, i)
  <2>1. k \in 1..size
    BY <1>1, RankSurjective
  <2>2. KeptIndex(kept, k) \in kept /\ Rank(kept, KeptIndex(kept, k)) = k
    BY <1>3, <2>1
  <2>3. KeptIndex(kept, k) = i
    <3> SUFFICES ASSUME KeptIndex(kept, k) # i PROVE FALSE
      OBVIOUS
    <3>1. i \in Int /\ KeptIndex(kept, k) \in Int
      BY <1>1, <2>2
    <3>2. k \in Int
      BY <1>2, <2>1
    <3>3. CASE KeptIndex(kept, k) < i
      <4>1. Rank(kept, KeptIndex(kept, k)) < Rank(kept, i)
        BY <1>1, <2>2, <3>3, RankIncreases
      <4> QED
        BY <2>2, <3>2, <4>1
    <3>4. CASE i < KeptIndex(kept, k)
      <4>1. Rank(kept, i) < Rank(kept, KeptIndex(kept, k))
        BY <1>1, <2>2, <3>4, RankIncreases
      <4> QED
        BY <2>2, <3>2, <4>1
    <3> QED
      BY <3>1, <3>3, <3>4
  <2> QED
    BY <1>2, <1>3, <2>1, <2>3
<1> QED
  BY <1>2, <1>3, <1>5, <1>6

\* Reconciling drops exactly the given items and keeps one copy each.
LEMMA WithoutKeeps ==
  ASSUME NEW q \in Seq(Items), NEW items
  PROVE  /\ Without(q, items) \in Seq(Items)
         /\ ToSet(Without(q, items)) = ToSet(q) \ items
         /\ OneCopyEach(q) => OneCopyEach(Without(q, items))
<1> DEFINE kept == {i \in DOMAIN q : q[i] \notin items}
           out  == Without(q, items)
<1>1. kept \in SUBSET DOMAIN q /\ out = Filter(q, kept)
  BY DEF Without
<1>2. /\ out \in Seq(Items)
      /\ \A k \in DOMAIN out : \E i \in kept : out[k] = q[i]
      /\ \A i \in kept : \E k \in DOMAIN out : out[k] = q[i]
      /\ \A k, m \in DOMAIN out :
           k # m => \E i, j \in kept : i # j /\ out[k] = q[i] /\ out[m] = q[j]
  <2> HIDE DEF kept, out
  <2>1. /\ Filter(q, kept) \in Seq(Items)
        /\ \A k \in DOMAIN Filter(q, kept) : \E i \in kept : Filter(q, kept)[k] = q[i]
        /\ \A i \in kept : \E k \in DOMAIN Filter(q, kept) : Filter(q, kept)[k] = q[i]
        /\ \A k, m \in DOMAIN Filter(q, kept) :
             k # m => \E i, j \in kept : /\ i # j
                                         /\ Filter(q, kept)[k] = q[i]
                                         /\ Filter(q, kept)[m] = q[j]
    BY ONLY <1>1, q \in Seq(Items), FilterKeeps
  <2> QED
    BY ONLY <1>1, <2>1
<1>3. ToSet(out) = ToSet(q) \ items
  BY <1>2 DEF ToSet
<1>4. OneCopyEach(q) => OneCopyEach(out)
  <2> SUFFICES ASSUME OneCopyEach(q), NEW k \in DOMAIN out, NEW m \in DOMAIN out, k # m
               PROVE  out[k].id # out[m].id
    BY DEF OneCopyEach
  <2>1. PICK i, j \in kept : i # j /\ out[k] = q[i] /\ out[m] = q[j]
    BY <1>2
  <2> QED
    BY <1>1, <2>1 DEF OneCopyEach
<1> QED
  BY <1>2, <1>3, <1>4

\* The next batch holds exactly the items not attempted yet.
LEMMA UnattemptedKeeps ==
  ASSUME NEW q \in Seq(Items), NEW tried
  PROVE  /\ Unattempted(q, tried) \in Seq(Items)
         /\ ToSet(Unattempted(q, tried)) = {item \in ToSet(q) : item.id \notin tried}
         /\ OneCopyEach(q) => OneCopyEach(Unattempted(q, tried))
<1> DEFINE kept == {i \in DOMAIN q : q[i].id \notin tried}
           out  == Unattempted(q, tried)
<1>1. kept \in SUBSET DOMAIN q /\ out = Filter(q, kept)
  BY DEF Unattempted
<1>2. /\ out \in Seq(Items)
      /\ \A k \in DOMAIN out : \E i \in kept : out[k] = q[i]
      /\ \A i \in kept : \E k \in DOMAIN out : out[k] = q[i]
      /\ \A k, m \in DOMAIN out :
           k # m => \E i, j \in kept : i # j /\ out[k] = q[i] /\ out[m] = q[j]
  <2> HIDE DEF kept, out
  <2>1. /\ Filter(q, kept) \in Seq(Items)
        /\ \A k \in DOMAIN Filter(q, kept) : \E i \in kept : Filter(q, kept)[k] = q[i]
        /\ \A i \in kept : \E k \in DOMAIN Filter(q, kept) : Filter(q, kept)[k] = q[i]
        /\ \A k, m \in DOMAIN Filter(q, kept) :
             k # m => \E i, j \in kept : /\ i # j
                                         /\ Filter(q, kept)[k] = q[i]
                                         /\ Filter(q, kept)[m] = q[j]
    BY ONLY <1>1, q \in Seq(Items), FilterKeeps
  <2> QED
    BY ONLY <1>1, <2>1
<1>3. ToSet(out) = {item \in ToSet(q) : item.id \notin tried}
  BY <1>2 DEF ToSet
<1>4. OneCopyEach(q) => OneCopyEach(out)
  <2> SUFFICES ASSUME OneCopyEach(q), NEW k \in DOMAIN out, NEW m \in DOMAIN out, k # m
               PROVE  out[k].id # out[m].id
    BY DEF OneCopyEach
  <2>1. PICK i, j \in kept : i # j /\ out[k] = q[i] /\ out[m] = q[j]
    BY <1>2
  <2> QED
    BY <1>1, <2>1 DEF OneCopyEach
<1> QED
  BY <1>2, <1>3, <1>4

\* Enqueueing adds the item and removes at most older copies of its id.
LEMMA EnqueuedKeeps ==
  ASSUME NEW q \in Seq(Items), NEW item \in Items
  PROVE  /\ Enqueued(q, item) \in Seq(Items)
         /\ ToSet(Enqueued(q, item)) = {other \in ToSet(q) : other.id # item.id} \cup {item}
         /\ OneCopyEach(q) => OneCopyEach(Enqueued(q, item))
<1> DEFINE out == Enqueued(q, item)
<1>1. CASE item.id \in QueuedIds(q)
  <2>1. out = [i \in DOMAIN q |-> IF q[i].id = item.id THEN item ELSE q[i]]
    BY <1>1 DEF Enqueued
  <2>2. out \in Seq(Items) /\ DOMAIN out = DOMAIN q
    BY <2>1
  <2>3. \A i \in DOMAIN q : out[i] = IF q[i].id = item.id THEN item ELSE q[i]
    BY <2>1
  <2>4. \E i \in DOMAIN q : q[i].id = item.id
    BY <1>1 DEF QueuedIds
  <2>5. ToSet(out) = {other \in ToSet(q) : other.id # item.id} \cup {item}
    BY <2>2, <2>3, <2>4 DEF ToSet
  <2>6. OneCopyEach(q) => OneCopyEach(out)
    BY <2>2, <2>3 DEF OneCopyEach
  <2> QED
    BY <2>2, <2>5, <2>6
<1>2. CASE item.id \notin QueuedIds(q)
  <2>1. out = Append(q, item)
    BY <1>2 DEF Enqueued
  <2>2. /\ out \in Seq(Items) /\ Len(out) = Len(q) + 1
        /\ DOMAIN out = 1..Len(q) + 1 /\ DOMAIN q = 1..Len(q) /\ Len(q) \in Nat
        /\ \A i \in DOMAIN q : out[i] = q[i]
        /\ out[Len(q) + 1] = item
    BY <2>1
  <2>3. \A i \in DOMAIN q : q[i].id # item.id
    BY <1>2 DEF QueuedIds
  <2>4. \A i \in DOMAIN out : i \in DOMAIN q \/ i = Len(q) + 1
    BY <2>2
  <2>5. ToSet(out) = {other \in ToSet(q) : other.id # item.id} \cup {item}
    <3>1. \A x \in ToSet(out) : x \in ToSet(q) \/ x = item
      BY <2>2, <2>4 DEF ToSet
    <3>2. \A x \in ToSet(q) : x \in ToSet(out) /\ x.id # item.id
      BY <2>2, <2>3 DEF ToSet
    <3>3. item \in ToSet(out)
      BY <2>2 DEF ToSet
    <3>4. \A x \in ToSet(out) : x \in ToSet(q) => x.id # item.id
      BY <3>2
    <3> QED
      BY <3>1, <3>2, <3>3, <3>4
  <2>6. OneCopyEach(q) => OneCopyEach(out)
    BY <2>2, <2>3, <2>4 DEF OneCopyEach
  <2> QED
    BY <2>2, <2>5, <2>6
<1> QED
  BY <1>1, <1>2

-------------------------------------------------------------------------------
(* GoOn: what one uninterrupted run of a flush does to the queue. *)

\* The fields of a flush that GoOn reads.
Flight(f) ==
  /\ f.attempted \in SUBSET Ids
  /\ f.batch \in Seq(Items)
  /\ f.removals \in SUBSET Items
  /\ f.dropped \in SUBSET Items

LEMMA HeadAndTail ==
  ASSUME NEW S, NEW q \in Seq(S), q # << >>
  PROVE  /\ Head(q) \in S /\ Head(q) \in ToSet(q)
         /\ Tail(q) \in Seq(S)
         /\ ToSet(Tail(q)) \subseteq ToSet(q)
<1>1. Len(q) \in Nat /\ Len(q) >= 1 /\ DOMAIN q = 1..Len(q)
  OBVIOUS
<1>2. Head(q) = q[1] /\ 1 \in DOMAIN q /\ q[1] \in S
  BY <1>1
<1>3. /\ Tail(q) \in Seq(S) /\ DOMAIN Tail(q) = 1..Len(q) - 1
      /\ \A i \in 1..Len(q) - 1 : Tail(q)[i] = q[i + 1]
  OBVIOUS
<1>4. ToSet(Tail(q)) \subseteq ToSet(q)
  <2> SUFFICES ASSUME NEW i \in DOMAIN Tail(q) PROVE Tail(q)[i] \in ToSet(q)
    BY DEF ToSet
  <2>1. i + 1 \in DOMAIN q /\ Tail(q)[i] = q[i + 1]
    BY <1>1, <1>3
  <2> QED
    BY <2>1 DEF ToSet
<1> QED
  BY <1>2, <1>3, <1>4 DEF ToSet

\* Going on removes nothing but decided items, adds nothing, and leaves the tab
\* idle or with one fresh post; no other tab moves.
LEMMA GoOnFacts ==
  ASSUME TypeOK, NEW t \in Tabs, NEW f, Flight(f), NEW q \in Seq(Items),
         NEW blocked \in BOOLEAN, GoOn(t, f, q, blocked)
  PROVE  /\ queue' \in Seq(Items)
         /\ flush' \in [Tabs -> Postings \cup {IdleFlush, ClosedFlush}]
         /\ reported' \subseteq Ids
         /\ ToSet(q) \ f.removals \subseteq ToSet(queue')
         /\ ToSet(queue') \subseteq ToSet(q)
         /\ OneCopyEach(q) => OneCopyEach(queue')
         /\ \A u \in Tabs \ {t} : flush'[u] = flush[u]
         /\ \/ flush'[t] = IdleFlush
            \/ /\ flush'[t].pc = "posting" /\ flush'[t].answer = "none"
               /\ flush'[t].removals \subseteq f.removals
<1> DEFINE passOver == f.batch = << >> \/ blocked
           q2       == IF passOver THEN Without(q, f.removals) ELSE q
           batch    == IF passOver THEN Unattempted(q2, f.attempted) ELSE f.batch
           posting  == [pc |-> "posting", item |-> Head(batch), token |-> token,
                        answer |-> "none", attempted |-> f.attempted \cup {Head(batch).id},
                        batch |-> Tail(batch),
                        removals |-> IF passOver THEN {} ELSE f.removals,
                        dropped |-> f.dropped]
<1>1. /\ Without(q, f.removals) \in Seq(Items)
      /\ ToSet(Without(q, f.removals)) = ToSet(q) \ f.removals
      /\ OneCopyEach(q) => OneCopyEach(Without(q, f.removals))
  BY WithoutKeeps
<1>2. q2 \in Seq(Items)
  BY <1>1
<1>3. batch \in Seq(Items)
  <2>1. Unattempted(q2, f.attempted) \in Seq(Items)
    BY <1>2, UnattemptedKeeps
  <2> QED
    BY <2>1 DEF Flight
<1>4. /\ flush \in [Tabs -> Postings \cup {IdleFlush, ClosedFlush}]
      /\ token \in Nat /\ reported \subseteq Ids
  BY DEF TypeOK
<1>5. CASE ~blocked /\ batch # << >> /\ online
  <2>1. queue' = q2 /\ flush' = [flush EXCEPT ![t] = posting] /\ reported' = reported
    BY <1>5 DEF GoOn
  <2>2. Head(batch) \in Items /\ Tail(batch) \in Seq(Items)
    <3> HIDE DEF batch
    <3> QED
      BY <1>3, <1>5, HeadAndTail
  <2>3. Head(batch).id \in Ids
    BY <2>2 DEF Items
  <2>4. posting \in Postings
    <3> HIDE DEF batch, passOver
    <3> QED
      BY <1>4, <2>2, <2>3 DEF Postings, Answers, Flight
  <2>5. flush'[t] = posting /\ \A u \in Tabs \ {t} : flush'[u] = flush[u]
    BY <1>4, <2>1
  <2>6. flush' \in [Tabs -> Postings \cup {IdleFlush, ClosedFlush}]
    <3> HIDE DEF posting
    <3> QED
      BY <1>4, <2>1, <2>4
  <2>7. /\ flush'[t].pc = "posting" /\ flush'[t].answer = "none"
        /\ flush'[t].removals \subseteq f.removals
    BY <2>5
  <2> QED
    BY <1>1, <1>2, <1>4, <2>1, <2>5, <2>6, <2>7
<1>6. CASE ~(~blocked /\ batch # << >> /\ online)
  <2>1. /\ queue' = Without(q, f.removals)
        /\ flush' = [flush EXCEPT ![t] = IdleFlush]
        /\ reported' = reported \cup {item.id : item \in f.dropped}
    BY <1>6 DEF GoOn
  <2>2. {item.id : item \in f.dropped} \subseteq Ids
    BY DEF Flight, Items
  <2>3. flush'[t] = IdleFlush /\ \A u \in Tabs \ {t} : flush'[u] = flush[u]
    BY <1>4, <2>1
  <2>4. flush' \in [Tabs -> Postings \cup {IdleFlush, ClosedFlush}]
    BY <1>4, <2>1
  <2> QED
    BY <1>1, <1>4, <2>1, <2>2, <2>3, <2>4
<1> QED
  BY <1>5, <1>6

LEMMA PostingFlight ==
  ASSUME TypeOK, NEW t \in Tabs, flush[t].pc = "posting"
  PROVE  flush[t] \in Postings /\ Flight(flush[t])
<1>1. flush[t] \in Postings
  BY DEF TypeOK, IdleFlush, ClosedFlush
<1> QED
  BY <1>1 DEF Postings, Flight

LEMMA FreshFlight == Flight(FreshFlush)
BY DEF FreshFlush, Flight

\* The three ways an answer lets a flush go on, as one: with at most the
\* answered item added to what it removes and drops.
LEMMA AnswerGoesOn ==
  ASSUME TypeOK, NEW t \in Tabs, AnswerOk(t) \/ AnswerRefused(t) \/ AnswerFailed(t)
  PROVE  \E f : \E blocked \in BOOLEAN :
           /\ Flight(f) /\ GoOn(t, f, queue, blocked)
           /\ flush[t].pc = "posting" /\ token' = token
           /\ f.attempted = flush[t].attempted /\ f.batch = flush[t].batch
           /\ blocked => flush[t].answer = "failed"
           /\ flush[t].dropped \subseteq f.dropped
           /\ \/ f.removals = flush[t].removals
              \/ /\ flush[t].answer \in {"ok", "404", "422"}
                 /\ f.removals = flush[t].removals \cup {flush[t].item}
                 /\ flush[t].answer = "ok" \/ flush[t].item \in f.dropped
<1>1. flush[t].pc = "posting" /\ token' = token
  BY DEF AnswerOk, AnswerRefused, AnswerFailed
<1>2. flush[t] \in Postings /\ Flight(flush[t])
  BY <1>1, PostingFlight
<1>3. CASE AnswerOk(t)
  <2> DEFINE f == [flush[t] EXCEPT !.removals = @ \cup {flush[t].item}]
  <2>1. /\ Flight(f) /\ f.removals = flush[t].removals \cup {flush[t].item}
        /\ f.attempted = flush[t].attempted /\ f.batch = flush[t].batch
        /\ f.dropped = flush[t].dropped
    BY <1>2 DEF Flight, Postings
  <2>2. GoOn(t, f, queue, FALSE) /\ flush[t].answer = "ok"
    BY <1>3 DEF AnswerOk
  <2> HIDE DEF f
  <2> QED
    BY <1>1, <2>1, <2>2
<1>4. CASE AnswerRefused(t)
  <2> DEFINE f == [flush[t] EXCEPT !.removals = @ \cup {flush[t].item},
                                   !.dropped = @ \cup {flush[t].item}]
  <2>1. /\ Flight(f) /\ f.removals = flush[t].removals \cup {flush[t].item}
        /\ f.attempted = flush[t].attempted /\ f.batch = flush[t].batch
        /\ f.dropped = flush[t].dropped \cup {flush[t].item}
    BY <1>2 DEF Flight, Postings
  <2>2. GoOn(t, f, queue, FALSE) /\ flush[t].answer \in {"404", "422"}
    BY <1>4 DEF AnswerRefused
  <2> HIDE DEF f
  <2> QED
    BY <1>1, <2>1, <2>2
<1>5. CASE AnswerFailed(t)
  BY <1>1, <1>2, <1>5 DEF AnswerFailed
<1> QED
  BY <1>3, <1>4, <1>5

-------------------------------------------------------------------------------
(* Type correctness. *)

\* Flushing, whether or not it posts, keeps the types of what it changes.
LEMMA CallFlushType ==
  ASSUME TypeOK, NEW t \in Tabs, NEW q \in Seq(Items), CallFlush(t, q)
  PROVE  /\ queue' \in Seq(Items)
         /\ flush' \in [Tabs -> Postings \cup {IdleFlush, ClosedFlush}]
         /\ reported' \subseteq Ids
<1>1. CASE flush[t].pc = "posting" \/ q = << >>
  BY <1>1 DEF CallFlush, TypeOK
<1>2. CASE ~(flush[t].pc = "posting" \/ q = << >>)
  BY <1>2, FreshFlight, GoOnFacts DEF CallFlush
<1> QED
  BY <1>1, <1>2

\* POST /blocks answers with a status and keeps the server's types.
LEMMA CreateBlockType ==
  ASSUME TypeOK, NEW item \in Items, NEW tok, CreateBlock(item, tok)
  PROVE  /\ CreateStatus(item, tok) \in {"ok", "401", "404", "422"}
         /\ server' \in [Ids -> Copies \cup {NoCopy}]
         /\ decided' \subseteq Items /\ refused' \subseteq Ids
<1>1. item.id \in Ids /\ item.copy \in Copies
  BY DEF Items
<1>2. CreateStatus(item, tok) \in {"ok", "401", "404", "422"}
  BY DEF CreateStatus
<1>3. server' \in [Ids -> Copies \cup {NoCopy}]
  BY <1>1 DEF CreateBlock, TypeOK
<1>4. decided' \subseteq Items /\ refused' \subseteq Ids
  BY <1>1 DEF CreateBlock, TypeOK
<1> QED
  BY <1>2, <1>3, <1>4

LEMMA TypeInit == Init => TypeOK
BY DEF Init, TypeOK, IdleFlush

LEMMA TypeStep == TypeOK /\ [Next]_vars => TypeOK'
<1> SUFFICES ASSUME TypeOK, [Next]_vars PROVE TypeOK'
  OBVIOUS
<1> USE DEF historyVars, browserVars, sessionVars, serverVars, countVars
<1>1. ASSUME NEW t \in Tabs, NEW item \in Items, Save(t, item) PROVE TypeOK'
  <2>1. Enqueued(queue, item) \in Seq(Items)
    BY EnqueuedKeeps DEF TypeOK
  <2>2. /\ queue' \in Seq(Items)
        /\ flush' \in [Tabs -> Postings \cup {IdleFlush, ClosedFlush}]
        /\ reported' \subseteq Ids
    BY <1>1, <2>1, CallFlushType DEF Save
  <2> QED
    BY <1>1, <2>2 DEF Save, TypeOK, Items
<1>2. ASSUME NEW t \in Tabs, Trigger(t) PROVE TypeOK'
  <2>1. queue \in Seq(Items)
    BY DEF TypeOK
  <2>2. /\ queue' \in Seq(Items)
        /\ flush' \in [Tabs -> Postings \cup {IdleFlush, ClosedFlush}]
        /\ reported' \subseteq Ids
    BY <1>2, <2>1, CallFlushType DEF Trigger
  <2> QED
    BY <1>2, <2>2 DEF Trigger, TypeOK
<1>3. ASSUME NEW t \in Tabs, Answer(t) PROVE TypeOK'
  <2>1. queue \in Seq(Items)
    BY DEF TypeOK
  <2>2. /\ queue' \in Seq(Items)
        /\ flush' \in [Tabs -> Postings \cup {IdleFlush, ClosedFlush}]
        /\ reported' \subseteq Ids /\ unshown' \subseteq Ids /\ token' \in Nat
    <3>1. CASE AnswerOk(t) \/ AnswerRefused(t) \/ AnswerFailed(t)
      <4>1. PICK f : \E blocked \in BOOLEAN :
              Flight(f) /\ GoOn(t, f, queue, blocked) /\ token' = token
        BY <3>1, AnswerGoesOn
      <4>2. unshown' = unshown
        BY <3>1 DEF AnswerOk, AnswerRefused, AnswerFailed
      <4> QED
        BY <2>1, <4>1, <4>2, GoOnFacts DEF TypeOK
    <3>2. CASE AnswerUnauthorized(t)
      <4>1. Flight(flush[t])
        BY <3>2, PostingFlight DEF AnswerUnauthorized
      <4>2. queue' \in Seq(Items)
        <5>1. Without(queue, flush[t].removals) \in Seq(Items)
          BY <2>1, WithoutKeeps
        <5> QED
          BY <2>1, <3>2, <5>1 DEF AnswerUnauthorized
      <4>3. DroppedBy(t) \subseteq Ids
        BY <4>1 DEF Flight, Items, DroppedBy
      <4> QED
        BY <3>2, <4>2, <4>3 DEF AnswerUnauthorized, TypeOK
    <3> QED
      BY <1>3, <3>1, <3>2 DEF Answer
  <2> QED
    BY <1>3, <2>2 DEF Answer, TypeOK
<1>4. ASSUME NEW t \in Tabs, CloseTab(t) PROVE TypeOK'
  <2>1. UnservedRequest(t) \subseteq Requests
    BY PostingFlight DEF UnservedRequest, Requests, Postings
  <2>2. DroppedBy(t) \subseteq Ids
    BY PostingFlight DEF DroppedBy, Flight, Items
  <2> QED
    BY <1>4, <2>1, <2>2 DEF CloseTab, TypeOK
<1>5. ASSUME NEW t \in Tabs, OpenTab(t) PROVE TypeOK'
  <2>1. queue \in Seq(Items)
    BY DEF TypeOK
  <2>2. /\ queue' \in Seq(Items)
        /\ flush' \in [Tabs -> Postings \cup {IdleFlush, ClosedFlush}]
        /\ reported' \subseteq Ids
    <3>1. CASE queue = << >>
      BY <1>5, <3>1 DEF OpenTab, TypeOK
    <3>2. CASE queue # << >>
      BY <1>5, <2>1, <3>2, FreshFlight, GoOnFacts DEF OpenTab
    <3> QED
      BY <3>1, <3>2
  <2> QED
    BY <1>5, <2>2 DEF OpenTab, TypeOK
<1>6. ASSUME NEW t \in Tabs, Serve(t) PROVE TypeOK'
  <2>1. flush[t] \in Postings
    BY <1>6, PostingFlight DEF Serve
  <2> DEFINE status == CreateStatus(flush[t].item, flush[t].token)
  <2>2. /\ status \in {"ok", "401", "404", "422"}
        /\ server' \in [Ids -> Copies \cup {NoCopy}]
        /\ decided' \subseteq Items /\ refused' \subseteq Ids
    BY <1>6, <2>1, CreateBlockType DEF Serve, Postings
  <2>3. flush' = [flush EXCEPT ![t].answer = status]
    BY <1>6 DEF Serve
  <2> HIDE DEF status
  <2>4. [flush[t] EXCEPT !.answer = status] \in Postings
    BY <2>1, <2>2 DEF Postings, Answers
  <2>5. flush' \in [Tabs -> Postings \cup {IdleFlush, ClosedFlush}]
    BY <2>3, <2>4 DEF TypeOK
  <2> QED
    BY <1>6, <2>2, <2>5 DEF Serve, TypeOK
<1>7. ASSUME NEW t \in Tabs, Lose(t) PROVE TypeOK'
  <2>1. flush[t] \in Postings
    BY <1>7, PostingFlight DEF Lose
  <2>2. [flush[t] EXCEPT !.answer = "failed"] \in Postings
    BY <2>1 DEF Postings, Answers
  <2>3. flush' \in [Tabs -> Postings \cup {IdleFlush, ClosedFlush}]
    BY <1>7, <2>2 DEF Lose, TypeOK
  <2>4. UnservedRequest(t) \subseteq Requests
    BY <2>1 DEF UnservedRequest, Requests, Postings
  <2> QED
    BY <1>7, <2>3, <2>4 DEF Lose, TypeOK
<1>8. ASSUME NEW r \in orphans, ServeOrphan(r) PROVE TypeOK'
  <2>1. r.item \in Items
    BY DEF TypeOK, Requests
  <2>2. /\ server' \in [Ids -> Copies \cup {NoCopy}]
        /\ decided' \subseteq Items /\ refused' \subseteq Ids
    BY <1>8, <2>1, CreateBlockType DEF ServeOrphan
  <2> QED
    BY <1>8, <2>2 DEF ServeOrphan, TypeOK
<1>9. ASSUME NEW r \in orphans, LoseOrphan(r) PROVE TypeOK'
  BY <1>9 DEF LoseOrphan, TypeOK
<1>10. CASE DeleteTag
  BY <1>10 DEF DeleteTag, TypeOK
<1>11. CASE GoOffline
  <2>1. /\ online' \in BOOLEAN /\ outages' = outages + 1
        /\ UNCHANGED <<browserVars, sessionVars, serverVars, saves, losses, expiries, closes,
                       historyVars>>
    BY <1>11 DEF GoOffline
  <2> QED
    BY <2>1 DEF TypeOK
<1>12. CASE GoOnline
  BY <1>12 DEF GoOnline, TypeOK
<1>13. CASE Expire
  BY <1>13 DEF Expire, TypeOK
<1>14. CASE SignIn
  BY <1>14 DEF SignIn, TypeOK
<1>15. CASE UNCHANGED vars
  BY <1>15 DEF vars, TypeOK
<1> QED
  BY <1>1, <1>2, <1>3, <1>4, <1>5, <1>6, <1>7, <1>8, <1>9, <1>10, <1>11, <1>12, <1>13, <1>14,
     <1>15 DEF Next

\* Every variable always holds what the code's types say it holds.
THEOREM TypeCorrect == Spec => []TypeOK
BY TypeInit, TypeStep, PTL DEF Spec

-------------------------------------------------------------------------------
(* The queue loses nothing.  NoRewriteLost is not inductive: a flush removes *)
(* items long after the server answered for them, so the invariant also says *)
(* that what it holds for removal has been decided, and what decided means.  *)

DecidedIsSettled == \A item \in decided : Stored(item.id) \/ item.id \in refused

QueueInv ==
  /\ TypeOK
  /\ OneCopyQueued
  /\ NoRewriteLost
  /\ RemovesOnlyDecided
  /\ DecidedIsSettled

\* What a run of flushQueue has to keep, apart from types.
Kept == OneCopyQueued /\ NoRewriteLost /\ RemovesOnlyDecided

\* After the step, the copy saved last is among the items of q or decided.
LatestIn(q) == \A id \in Ids : Saved(id)' => Latest(id)' \in ToSet(q) \cup decided'

LEMMA GoOnKeeps ==
  ASSUME QueueInv, NEW t \in Tabs, NEW f, Flight(f), f.removals \subseteq decided,
         NEW q \in Seq(Items), OneCopyEach(q), NEW blocked \in BOOLEAN,
         GoOn(t, f, q, blocked), decided' = decided, LatestIn(q)
  PROVE  Kept'
<1>1. /\ ToSet(q) \ f.removals \subseteq ToSet(queue')
      /\ OneCopyEach(queue')
      /\ \A u \in Tabs \ {t} : flush'[u] = flush[u]
      /\ \/ flush'[t] = IdleFlush
         \/ /\ flush'[t].pc = "posting" /\ flush'[t].answer = "none"
            /\ flush'[t].removals \subseteq f.removals
  BY GoOnFacts DEF QueueInv
<1>2. OneCopyQueued'
  BY <1>1 DEF OneCopyQueued, OneCopyEach
<1>3. NoRewriteLost'
  BY <1>1 DEF LatestIn, NoRewriteLost, Saved, Latest
<1>4. RemovesOnlyDecided'
  BY <1>1 DEF RemovesOnlyDecided, QueueInv, IdleFlush
<1> QED
  BY <1>2, <1>3, <1>4 DEF Kept

LEMMA CallFlushKeeps ==
  ASSUME QueueInv, NEW t \in Tabs, NEW q \in Seq(Items), OneCopyEach(q), CallFlush(t, q),
         decided' = decided, LatestIn(q)
  PROVE  Kept'
<1>1. CASE flush[t].pc = "posting" \/ q = << >>
  BY <1>1 DEF CallFlush, Kept, OneCopyQueued, OneCopyEach, NoRewriteLost, LatestIn,
              RemovesOnlyDecided, QueueInv, Saved, Latest
<1>2. CASE ~(flush[t].pc = "posting" \/ q = << >>)
  <2>1. FreshFlush.removals \subseteq decided
    BY DEF FreshFlush
  <2> QED
    BY <1>2, <2>1, FreshFlight, GoOnKeeps DEF CallFlush
<1> QED
  BY <1>1, <1>2

LEMMA QueueInit == Init => QueueInv
<1> SUFFICES ASSUME Init PROVE QueueInv
  OBVIOUS
<1>1. TypeOK
  BY TypeInit
<1>2. OneCopyQueued
  BY DEF Init, OneCopyQueued, OneCopyEach
<1>3. NoRewriteLost
  BY DEF Init, NoRewriteLost, Saved
<1>4. RemovesOnlyDecided
  BY DEF Init, RemovesOnlyDecided, IdleFlush
<1>5. DecidedIsSettled
  BY DEF Init, DecidedIsSettled
<1> QED
  BY <1>1, <1>2, <1>3, <1>4, <1>5 DEF QueueInv

\* Serving a request decides its item, unless the session is refused, and
\* settles what it decides; nothing decided or stored is undone.
LEMMA CreateBlockDecides ==
  ASSUME QueueInv, NEW item \in Items, NEW tok, CreateBlock(item, tok)
  PROVE  /\ decided \subseteq decided'
         /\ CreateStatus(item, tok) \in {"ok", "404", "422"} => item \in decided'
         /\ DecidedIsSettled'
<1> DEFINE status == CreateStatus(item, tok)
<1>1. item.id \in Ids /\ item.copy \in Copies /\ NoCopy \notin Copies
  BY CopiesAssumption DEF Items
<1>2. /\ server' = IF status = "ok" /\ server[item.id] = NoCopy
                   THEN [server EXCEPT ![item.id] = item.copy] ELSE server
      /\ decided' = IF status = "401" THEN decided ELSE decided \cup {item}
      /\ refused' = IF status \in {"404", "422"} THEN refused \cup {item.id} ELSE refused
      /\ status \in {"ok", "401", "404", "422"}
  BY CreateBlockType DEF CreateBlock, QueueInv
<1> HIDE DEF status
<1>3. \A id \in Ids : Stored(id) => Stored(id)'
  BY <1>1, <1>2 DEF QueueInv, TypeOK, Stored
<1>4. \A other \in decided : Stored(other.id)' \/ other.id \in refused'
  <2>1. \A other \in decided : other.id \in Ids
    BY DEF QueueInv, TypeOK, Items
  <2> QED
    BY <1>2, <1>3, <2>1 DEF QueueInv, DecidedIsSettled
<1>5. status # "401" => Stored(item.id)' \/ item.id \in refused'
  <2>1. CASE status = "ok"
    BY <1>1, <1>2, <2>1 DEF QueueInv, TypeOK, Stored
  <2>2. CASE status \in {"404", "422"}
    BY <1>2, <2>2
  <2> QED
    BY <1>2, <2>1, <2>2
<1>6. DecidedIsSettled'
  BY <1>2, <1>4, <1>5 DEF DecidedIsSettled
<1>7. decided \subseteq decided' /\ (status \in {"ok", "404", "422"} => item \in decided')
  BY <1>2
<1> QED
  BY <1>6, <1>7 DEF status

\* A served request leaves what is queued and what was saved alone.
LEMMA ServingKeeps ==
  ASSUME QueueInv, TypeOK', NEW item \in Items, NEW tok, CreateBlock(item, tok),
         queue' = queue, latest' = latest,
         \A t \in Tabs :
           \/ flush'[t] = flush[t]
           \/ /\ flush[t].pc = "posting" /\ flush'[t].removals = flush[t].removals
              /\ flush'[t].item = item /\ flush'[t].answer = CreateStatus(item, tok)
  PROVE  QueueInv'
<1>1. /\ decided \subseteq decided' /\ DecidedIsSettled'
      /\ CreateStatus(item, tok) \in {"ok", "404", "422"} => item \in decided'
  BY CreateBlockDecides
<1>2. OneCopyQueued'
  BY DEF QueueInv, OneCopyQueued, OneCopyEach
<1>3. NoRewriteLost'
  BY <1>1 DEF QueueInv, NoRewriteLost, Saved, Latest
<1>4. RemovesOnlyDecided'
  BY <1>1 DEF QueueInv, RemovesOnlyDecided
<1> QED
  BY <1>1, <1>2, <1>3, <1>4 DEF QueueInv

LEMMA QueueStep == QueueInv /\ [Next]_vars => QueueInv'
<1> SUFFICES ASSUME QueueInv, [Next]_vars PROVE QueueInv'
  OBVIOUS
<1> USE DEF historyVars, browserVars, sessionVars, serverVars, countVars
<1>1. TypeOK /\ TypeOK' /\ queue \in Seq(Items)
  BY TypeStep DEF QueueInv, TypeOK
\* Steps of a flush: server, decided and refused stand still.
<1>2. ASSUME Kept', UNCHANGED <<decided, server, refused>> PROVE QueueInv'
  <2>1. DecidedIsSettled'
    BY <1>2 DEF QueueInv, DecidedIsSettled, Stored
  <2> QED
    BY <1>1, <1>2, <2>1 DEF QueueInv, Kept
\* Steps that leave the queue and its history alone, and no post undecided.
<1>3. ASSUME UNCHANGED <<queue, latest, decided, server, refused>>,
             \A t \in Tabs : flush'[t].pc = "posting" =>
               /\ flush[t].pc = "posting"
               /\ flush'[t].removals = flush[t].removals
               /\ \/ flush'[t].answer = "failed"
                  \/ flush'[t].answer = flush[t].answer /\ flush'[t].item = flush[t].item
      PROVE QueueInv'
  <2>1. OneCopyQueued' /\ NoRewriteLost'
    BY <1>3 DEF QueueInv, OneCopyQueued, OneCopyEach, NoRewriteLost, Saved, Latest
  <2>2. RemovesOnlyDecided'
    BY <1>3 DEF QueueInv, RemovesOnlyDecided
  <2> QED
    BY <1>2, <1>3, <2>1, <2>2 DEF Kept
<1>4. ASSUME NEW t \in Tabs, NEW item \in Items, Save(t, item) PROVE QueueInv'
  <2> DEFINE q == Enqueued(queue, item)
  <2>1. /\ q \in Seq(Items) /\ OneCopyEach(q)
        /\ ToSet(q) = {other \in ToSet(queue) : other.id # item.id} \cup {item}
    BY <1>1, EnqueuedKeeps DEF QueueInv, OneCopyQueued
  <2>2. /\ latest' = [latest EXCEPT ![item.id] = item.copy] /\ CallFlush(t, q)
        /\ UNCHANGED <<decided, server, refused>>
    BY <1>4 DEF Save
  <2> HIDE DEF q
  <2>3. LatestIn(q)
    <3> SUFFICES ASSUME NEW id \in Ids, Saved(id)' PROVE Latest(id)' \in ToSet(q) \cup decided
      BY <2>2 DEF LatestIn, ToSet
    <3>1. CASE id = item.id
      <4>1. Latest(id)' = item
        BY <1>1, <2>2, <3>1 DEF Latest, TypeOK, Items
      <4> QED
        BY <2>1, <4>1
    <3>2. CASE id # item.id
      <4>1. Saved(id) /\ Latest(id)' = Latest(id)
        BY <1>1, <2>2, <3>2 DEF Saved, Latest, TypeOK, Items
      <4>2. Latest(id).id # item.id
        BY <3>2 DEF Latest
      <4> QED
        BY <2>1, <4>1, <4>2 DEF QueueInv, NoRewriteLost
    <3> QED
      BY <3>1, <3>2
  <2>4. Kept'
    BY <2>1, <2>2, <2>3, CallFlushKeeps
  <2> QED
    BY <1>2, <2>2, <2>4
<1>5. ASSUME UNCHANGED <<latest, decided>> PROVE LatestIn(queue)
  BY <1>5 DEF QueueInv, NoRewriteLost, LatestIn, Saved, Latest
<1>6. OneCopyEach(queue)
  BY DEF QueueInv, OneCopyQueued
<1>7. ASSUME NEW t \in Tabs, Trigger(t) PROVE QueueInv'
  <2>1. CallFlush(t, queue) /\ UNCHANGED <<latest, decided, server, refused>>
    BY <1>7 DEF Trigger
  <2>2. LatestIn(queue)
    BY <1>5, <2>1
  <2>3. Kept'
    BY <1>1, <1>6, <2>1, <2>2, CallFlushKeeps
  <2> QED
    BY <1>2, <2>1, <2>3
<1>8. ASSUME NEW t \in Tabs, Answer(t) PROVE QueueInv'
  <2>1. UNCHANGED <<latest, decided, server, refused>>
    BY <1>8 DEF Answer
  <2>2. LatestIn(queue)
    BY <1>5, <2>1
  <2>3. CASE AnswerOk(t) \/ AnswerRefused(t) \/ AnswerFailed(t)
    <3>1. PICK f : \E blocked \in BOOLEAN :
            /\ Flight(f) /\ GoOn(t, f, queue, blocked) /\ flush[t].pc = "posting"
            /\ \/ f.removals = flush[t].removals
               \/ /\ flush[t].answer \in {"ok", "404", "422"}
                  /\ f.removals = flush[t].removals \cup {flush[t].item}
      BY <1>1, <2>3, AnswerGoesOn
    <3>2. f.removals \subseteq decided
      BY <3>1 DEF QueueInv, RemovesOnlyDecided
    <3>3. Kept'
      BY <1>1, <1>6, <2>1, <2>2, <3>1, <3>2, GoOnKeeps
    <3> QED
      BY <1>2, <2>1, <3>3
  <2>4. CASE AnswerUnauthorized(t)
    <3>1. /\ flush[t].pc = "posting"
          /\ queue' \in {queue, Without(queue, flush[t].removals)}
          /\ flush' = [flush EXCEPT ![t] = ClosedFlush]
      BY <2>4 DEF AnswerUnauthorized
    <3>2. flush[t].removals \subseteq decided
      BY <3>1 DEF QueueInv, RemovesOnlyDecided
    <3>3. /\ ToSet(queue) \ flush[t].removals \subseteq ToSet(queue')
          /\ OneCopyEach(queue')
      <4>1. CASE queue' = queue
        BY <1>1, <1>6, <4>1
      <4>2. CASE queue' = Without(queue, flush[t].removals)
        BY <1>1, <1>6, <4>2, WithoutKeeps
      <4> QED
        BY <3>1, <4>1, <4>2
    <3>4. OneCopyQueued'
      BY <3>3 DEF OneCopyQueued, OneCopyEach
    <3>5. NoRewriteLost'
      BY <2>1, <2>2, <3>2, <3>3 DEF LatestIn, NoRewriteLost
    <3>6. RemovesOnlyDecided'
      BY <1>1, <2>1, <3>1 DEF RemovesOnlyDecided, ClosedFlush, QueueInv, TypeOK
    <3> QED
      BY <1>2, <2>1, <3>4, <3>5, <3>6 DEF Kept
  <2> QED
    BY <1>8, <2>3, <2>4 DEF Answer
<1>9. ASSUME NEW t \in Tabs, CloseTab(t) PROVE QueueInv'
  <2>1. /\ flush' = [flush EXCEPT ![t] = ClosedFlush]
        /\ UNCHANGED <<queue, latest, decided, server, refused>>
    BY <1>9 DEF CloseTab
  <2> QED
    BY <1>1, <1>3, <2>1 DEF ClosedFlush, TypeOK
<1>10. ASSUME NEW t \in Tabs, OpenTab(t) PROVE QueueInv'
  <2>1. flush[t].pc = "closed" /\ UNCHANGED <<latest, decided, server, refused>>
    BY <1>10 DEF OpenTab
  <2>2. CASE queue = << >>
    <3>1. flush' = [flush EXCEPT ![t] = IdleFlush] /\ queue' = queue
      BY <1>10, <2>2 DEF OpenTab
    <3> QED
      BY <1>1, <1>3, <2>1, <3>1 DEF IdleFlush, TypeOK
  <2>3. CASE queue # << >>
    <3>1. GoOn(t, FreshFlush, queue, FALSE)
      BY <1>10, <2>3 DEF OpenTab
    <3>2. LatestIn(queue) /\ FreshFlush.removals \subseteq decided
      BY <1>5, <2>1 DEF FreshFlush
    <3>3. Kept'
      BY <1>1, <1>6, <2>1, <3>1, <3>2, FreshFlight, GoOnKeeps
    <3> QED
      BY <1>2, <2>1, <3>3
  <2> QED
    BY <2>2, <2>3
<1>11. ASSUME NEW t \in Tabs, Serve(t) PROVE QueueInv'
  <2>1. flush[t] \in Postings /\ flush[t].pc = "posting"
    BY <1>1, <1>11, PostingFlight DEF Serve
  <2>2. /\ CreateBlock(flush[t].item, flush[t].token)
        /\ flush' = [flush EXCEPT ![t].answer = CreateStatus(flush[t].item, flush[t].token)]
        /\ queue' = queue /\ latest' = latest
    BY <1>11 DEF Serve
  <2>3. flush[t].item \in Items
    BY <2>1 DEF Postings
  <2>4. /\ flush'[t].removals = flush[t].removals /\ flush'[t].item = flush[t].item
        /\ flush'[t].answer = CreateStatus(flush[t].item, flush[t].token)
        /\ \A u \in Tabs \ {t} : flush'[u] = flush[u]
    BY <1>1, <2>1, <2>2 DEF TypeOK, Postings
  <2> QED
    BY <1>1, <2>1, <2>2, <2>3, <2>4, ServingKeeps
<1>12. ASSUME NEW t \in Tabs, Lose(t) PROVE QueueInv'
  <2>1. flush[t] \in Postings
    BY <1>1, <1>12, PostingFlight DEF Lose
  <2>2. /\ flush[t].pc = "posting" /\ flush' = [flush EXCEPT ![t].answer = "failed"]
        /\ UNCHANGED <<queue, latest, decided, server, refused>>
    BY <1>12 DEF Lose
  <2>3. /\ flush'[t].removals = flush[t].removals /\ flush'[t].answer = "failed"
        /\ \A u \in Tabs \ {t} : flush'[u] = flush[u]
    BY <1>1, <2>1, <2>2 DEF TypeOK, Postings
  <2> QED
    BY <1>3, <2>2, <2>3
<1>13. ASSUME NEW r \in orphans, ServeOrphan(r) PROVE QueueInv'
  <2>1. r.item \in Items
    BY <1>1 DEF TypeOK, Requests
  <2>2. /\ CreateBlock(r.item, r.token)
        /\ queue' = queue /\ latest' = latest /\ flush' = flush
    BY <1>13 DEF ServeOrphan
  <2> QED
    BY <1>1, <2>1, <2>2, ServingKeeps
<1>14. ASSUME NEW r \in orphans, LoseOrphan(r) PROVE QueueInv'
  BY <1>3, <1>14 DEF LoseOrphan
<1>15. CASE DeleteTag \/ GoOffline \/ GoOnline \/ Expire \/ SignIn \/ UNCHANGED vars
  <2>1. UNCHANGED <<queue, flush, latest, decided, server, refused>>
    BY <1>15 DEF DeleteTag, GoOffline, GoOnline, Expire, SignIn, vars
  <2> QED
    BY <1>3, <2>1
<1> QED
  BY <1>4, <1>7, <1>8, <1>9, <1>10, <1>11, <1>12, <1>13, <1>14, <1>15 DEF Next

LEMMA QueueInvariant == Spec => []QueueInv
BY QueueInit, QueueStep, PTL DEF Spec

\* The copy saved last stays queued until the server has answered for exactly
\* that copy, however saves, flushes, tabs and lost answers interleave.
THEOREM RewritesSurvive == Spec => []NoRewriteLost
<1>1. QueueInv => NoRewriteLost
  BY DEF QueueInv
<1> QED
  BY <1>1, QueueInvariant, PTL

\* A saved block is queued, stored, or was refused for good.
THEOREM BlocksSurvive == Spec => []NoBlockLost
<1>1. QueueInv => NoBlockLost
  <2> SUFFICES ASSUME QueueInv, NEW id \in Ids, Saved(id)
               PROVE  id \in QueuedIds(queue) \/ Stored(id) \/ id \in refused
    BY DEF NoBlockLost
  <2>1. Latest(id).id = id
    BY DEF Latest
  <2>2. CASE Latest(id) \in ToSet(queue)
    BY <2>1, <2>2 DEF ToSet, QueuedIds
  <2>3. CASE Latest(id) \in decided
    BY <2>1, <2>3 DEF QueueInv, DecidedIsSettled
  <2> QED
    BY <2>2, <2>3 DEF QueueInv, NoRewriteLost
<1> QED
  BY <1>1, QueueInvariant, PTL

\* The stored queue never holds two copies of a block.
THEOREM OneCopy == Spec => []OneCopyQueued
<1>1. QueueInv => OneCopyQueued
  BY DEF QueueInv
<1> QED
  BY <1>1, QueueInvariant, PTL

\* A flush only ever removes items the server has answered for.
THEOREM OnlyDecidedRemoved == Spec => []RemovesOnlyDecided
<1>1. QueueInv => RemovesOnlyDecided
  BY DEF QueueInv
<1> QED
  BY <1>1, QueueInvariant, PTL

-------------------------------------------------------------------------------
(* No drop is silent.  DropsAreReported is not inductive: a pass removes    *)
(* items long after they were refused or stored, so the invariant also says *)
(* that all a flush holds for removal is stored or among what it gave up on. *)

\* A block off the queue that nobody need wonder about.
Accounted(id) == \/ Stored(id)
                 \/ id \in reported \cup unshown
                 \/ \E t \in Tabs : id \in DroppedBy(t)

\* Item is stored, or among what flush f will say it dropped.
SettledIn(f, item) == item \in f.dropped \/ Stored(item.id)

RemovalsAccounted ==
  \A t \in Tabs : flush[t].pc = "posting" =>
    /\ \A item \in flush[t].removals : SettledIn(flush[t], item)
    /\ flush[t].answer = "ok" => Stored(flush[t].item.id)

DropInv == RemovalsAccounted /\ DropsAreReported

\* What a flush gave up on is with it while it runs, and shown when it ends.
LEMMA GoOnDrops ==
  ASSUME TypeOK, NEW t \in Tabs, NEW f, NEW q, NEW blocked \in BOOLEAN,
         GoOn(t, f, q, blocked)
  PROVE  /\ reported \subseteq reported'
         /\ \/ /\ flush'[t] = IdleFlush
               /\ {item.id : item \in f.dropped} \subseteq reported'
            \/ /\ flush'[t].pc = "posting"
               /\ flush'[t].dropped = f.dropped
<1> DEFINE passOver == f.batch = << >> \/ blocked
           q2       == IF passOver THEN Without(q, f.removals) ELSE q
           batch    == IF passOver THEN Unattempted(q2, f.attempted) ELSE f.batch
           posting  == [pc |-> "posting", item |-> Head(batch), token |-> token,
                        answer |-> "none", attempted |-> f.attempted \cup {Head(batch).id},
                        batch |-> Tail(batch),
                        removals |-> IF passOver THEN {} ELSE f.removals,
                        dropped |-> f.dropped]
<1>1. \A g : flush' = [flush EXCEPT ![t] = g] => flush'[t] = g
  BY DEF TypeOK
<1>2. CASE ~blocked /\ batch # << >> /\ online
  <2>1. flush' = [flush EXCEPT ![t] = posting] /\ reported' = reported
    BY <1>2 DEF GoOn
  <2>2. posting.pc = "posting" /\ posting.dropped = f.dropped
    OBVIOUS
  <2> HIDE DEF posting
  <2> QED
    BY <1>1, <2>1, <2>2
<1>3. CASE ~(~blocked /\ batch # << >> /\ online)
  BY <1>1, <1>3 DEF GoOn
<1> QED
  BY <1>2, <1>3

\* Going on keeps accounted what is, and accounts for what leaves the queue.
LEMMA GoOnAccounts ==
  ASSUME TypeOK, RemovalsAccounted, NEW t \in Tabs, NEW f, Flight(f),
         NEW q \in Seq(Items), NEW blocked \in BOOLEAN, GoOn(t, f, q, blocked),
         UNCHANGED <<server, unshown>>,
         flush[t].pc = "posting" => flush[t].dropped \subseteq f.dropped,
         \A item \in f.removals : SettledIn(f, item)
  PROVE  /\ RemovalsAccounted'
         /\ \A id \in Ids : Accounted(id) => Accounted(id)'
         /\ \A id \in QueuedIds(q) : id \in QueuedIds(queue') \/ Accounted(id)'
<1>1. /\ queue' \in Seq(Items) /\ ToSet(q) \ f.removals \subseteq ToSet(queue')
      /\ \A u \in Tabs \ {t} : flush'[u] = flush[u]
      /\ \/ flush'[t] = IdleFlush
         \/ /\ flush'[t].pc = "posting" /\ flush'[t].answer = "none"
            /\ flush'[t].removals \subseteq f.removals
  BY GoOnFacts
<1>2. /\ reported \subseteq reported'
      /\ \/ /\ flush'[t] = IdleFlush
            /\ {item.id : item \in f.dropped} \subseteq reported'
         \/ /\ flush'[t].pc = "posting"
            /\ flush'[t].dropped = f.dropped
  BY GoOnDrops
<1>3. IdleFlush.pc = "idle"
  BY DEF IdleFlush
<1>4. \A id : Stored(id)' <=> Stored(id)
  BY DEF Stored
<1>5. RemovalsAccounted'
  <2> SUFFICES ASSUME NEW u \in Tabs, flush'[u].pc = "posting"
               PROVE  /\ \A item \in flush'[u].removals :
                           item \in flush'[u].dropped \/ Stored(item.id)'
                      /\ flush'[u].answer = "ok" => Stored(flush[u].item.id)'
    BY DEF RemovalsAccounted, SettledIn
  <2>1. CASE u = t
    BY <1>1, <1>2, <1>3, <1>4, <2>1 DEF SettledIn
  <2>2. CASE u # t
    BY <1>1, <1>4, <2>2 DEF RemovalsAccounted, SettledIn
  <2> QED
    BY <2>1, <2>2
\* What f gave up on stays with it or is shown.
<1>6. \A item \in f.dropped : Accounted(item.id)'
  <2>1. CASE flush'[t] = IdleFlush
    BY <1>2, <1>3, <2>1 DEF Accounted
  <2>2. CASE flush'[t].pc = "posting"
    BY <1>2, <1>3, <2>2 DEF Accounted, DroppedBy
  <2> QED
    BY <1>2, <2>1, <2>2
<1>7. \A id \in Ids : Accounted(id) => Accounted(id)'
  <2> SUFFICES ASSUME NEW id \in Ids, Accounted(id) PROVE Accounted(id)'
    OBVIOUS
  <2>1. CASE Stored(id) \/ id \in reported \cup unshown
    BY <1>2, <1>4, <2>1 DEF Accounted
  <2>2. ASSUME NEW u \in Tabs, id \in DroppedBy(u) PROVE Accounted(id)'
    <3>1. CASE u = t
      BY <1>6, <2>2, <3>1 DEF DroppedBy
    <3>2. CASE u # t
      BY <1>1, <2>2, <3>2 DEF Accounted, DroppedBy
    <3> QED
      BY <3>1, <3>2
  <2> QED
    BY <2>1, <2>2 DEF Accounted
<1>8. ASSUME NEW id \in QueuedIds(q) PROVE id \in QueuedIds(queue') \/ Accounted(id)'
  <2>1. PICK item \in ToSet(q) : item.id = id
    BY <1>8 DEF QueuedIds, ToSet
  <2>2. CASE item \in f.removals
    <3>1. SettledIn(f, item)
      BY <2>2
    <3> QED
      BY <1>4, <1>6, <2>1, <3>1 DEF SettledIn, Accounted
  <2>3. CASE item \in ToSet(queue')
    BY <2>1, <2>3 DEF QueuedIds, ToSet
  <2> QED
    BY <1>1, <2>2, <2>3
<1> QED
  BY <1>5, <1>7, <1>8

\* The same of a call that may find nothing to do.
LEMMA CallFlushAccounts ==
  ASSUME TypeOK, RemovalsAccounted, NEW t \in Tabs, NEW q \in Seq(Items), CallFlush(t, q),
         UNCHANGED <<server, unshown>>
  PROVE  /\ RemovalsAccounted'
         /\ \A id \in Ids : Accounted(id) => Accounted(id)'
         /\ \A id \in QueuedIds(q) : id \in QueuedIds(queue') \/ Accounted(id)'
<1>1. CASE flush[t].pc = "posting" \/ q = << >>
  <2>1. queue' = q /\ flush' = flush /\ reported' = reported
    BY <1>1 DEF CallFlush
  <2>2. RemovalsAccounted'
    BY <2>1 DEF RemovalsAccounted, SettledIn, Stored
  <2>3. \A id \in Ids : Accounted(id) => Accounted(id)'
    BY <2>1 DEF Accounted, DroppedBy, Stored
  <2> QED
    BY <2>1, <2>2, <2>3
<1>2. CASE ~(flush[t].pc = "posting" \/ q = << >>)
  <2>1. GoOn(t, FreshFlush, q, FALSE)
    BY <1>2 DEF CallFlush
  <2>2. \A item \in FreshFlush.removals : SettledIn(FreshFlush, item)
    BY DEF FreshFlush
  <2> QED
    BY <1>2, <2>1, <2>2, FreshFlight, GoOnAccounts
<1> QED
  BY <1>1, <1>2

LEMMA DropInit == Init => DropInv
<1> SUFFICES ASSUME Init PROVE DropInv
  OBVIOUS
<1>1. RemovalsAccounted
  BY DEF Init, RemovalsAccounted, IdleFlush
<1>2. DropsAreReported
  BY DEF Init, DropsAreReported, Saved
<1> QED
  BY <1>1, <1>2 DEF DropInv

\* A served request stores what it answers "ok" to, and unstores nothing.
LEMMA ServingStores ==
  ASSUME TypeOK, NEW item \in Items, NEW tok, CreateBlock(item, tok)
  PROVE  /\ \A id \in Ids : Stored(id) => Stored(id)'
         /\ CreateStatus(item, tok) = "ok" => Stored(item.id)'
<1> DEFINE status == CreateStatus(item, tok)
<1>1. item.id \in Ids /\ item.copy \in Copies /\ NoCopy \notin Copies
  BY CopiesAssumption DEF Items
<1>2. server' = IF status = "ok" /\ server[item.id] = NoCopy
                THEN [server EXCEPT ![item.id] = item.copy] ELSE server
  BY DEF CreateBlock
<1> HIDE DEF status
<1>3. server \in [Ids -> Copies \cup {NoCopy}]
  BY DEF TypeOK
<1>4. \A id \in Ids : Stored(id) => Stored(id)'
  BY <1>1, <1>2, <1>3 DEF Stored
<1>5. status = "ok" => Stored(item.id)'
  BY <1>1, <1>2, <1>3 DEF Stored
<1> QED
  BY <1>4, <1>5 DEF status

\* A served request, or any other step that leaves the flushes' books alone.
LEMMA ServingAccounts ==
  ASSUME TypeOK, DropInv, UNCHANGED <<queue, latest, reported, unshown>>,
         \A id \in Ids : Stored(id) => Stored(id)',
         \A t \in Tabs :
           \/ flush'[t] = flush[t]
           \/ /\ flush[t].pc = "posting" /\ flush'[t].pc = "posting"
              /\ flush'[t].removals = flush[t].removals
              /\ flush'[t].dropped = flush[t].dropped
              /\ flush'[t].answer = "ok" => Stored(flush[t].item.id)'
  PROVE  DropInv'
<1>1. \A t \in Tabs : flush[t].pc = "posting" =>
        flush[t].removals \subseteq Items /\ flush[t].item.id \in Ids
  BY PostingFlight DEF Flight, Postings, Items
<1>2. \A item \in Items : item.id \in Ids
  BY DEF Items
<1>3. RemovalsAccounted'
  <2> SUFFICES ASSUME NEW t \in Tabs, flush'[t].pc = "posting"
               PROVE  /\ \A item \in flush'[t].removals :
                           item \in flush'[t].dropped \/ Stored(item.id)'
                      /\ flush'[t].answer = "ok" => Stored(flush[t].item.id)'
    BY DEF RemovalsAccounted, SettledIn
  <2>1. /\ flush[t].pc = "posting" /\ flush'[t].removals = flush[t].removals
        /\ flush'[t].dropped = flush[t].dropped
    OBVIOUS
  <2>2. \A item \in flush[t].removals : SettledIn(flush[t], item) /\ item.id \in Ids
    BY <1>1, <1>2, <2>1 DEF DropInv, RemovalsAccounted
  <2>3. \A item \in flush'[t].removals : item \in flush'[t].dropped \/ Stored(item.id)'
    BY <2>1, <2>2 DEF SettledIn
  <2>4. flush'[t].answer = "ok" => Stored(flush[t].item.id)'
    BY <1>1, <2>1 DEF DropInv, RemovalsAccounted
  <2> QED
    BY <2>3, <2>4
<1>4. \A t \in Tabs : DroppedBy(t)' = DroppedBy(t)
  BY DEF DroppedBy
<1>5. DropsAreReported'
  BY <1>4 DEF DropInv, DropsAreReported, Saved
<1> QED
  BY <1>3, <1>5 DEF DropInv

\* A tab that goes away takes no other tab's books with it.
LEMMA ClosingAccounts ==
  ASSUME TypeOK, DropInv, NEW t \in Tabs, UNCHANGED <<latest, server>>,
         flush' = [flush EXCEPT ![t] = ClosedFlush],
         reported \subseteq reported', unshown \subseteq unshown',
         DroppedBy(t) \subseteq reported' \cup unshown',
         \A id \in QueuedIds(queue) : id \in QueuedIds(queue') \/ Accounted(id)
  PROVE  DropInv'
<1>1. flush'[t].pc = "closed" /\ \A u \in Tabs \ {t} : flush'[u] = flush[u]
  BY DEF TypeOK, ClosedFlush
<1>2. \A id : Stored(id)' <=> Stored(id)
  BY DEF Stored
<1>3. RemovalsAccounted'
  BY <1>1, <1>2 DEF DropInv, RemovalsAccounted, SettledIn
<1>4. \A id \in Ids : Accounted(id) => Accounted(id)'
  BY <1>1, <1>2 DEF Accounted, DroppedBy
<1>5. DropsAreReported'
  BY <1>4 DEF DropInv, DropsAreReported, Accounted, Saved
<1> QED
  BY <1>3, <1>5 DEF DropInv

LEMMA DropStep == QueueInv /\ DropInv /\ [Next]_vars => DropInv'
<1> SUFFICES ASSUME QueueInv, DropInv, [Next]_vars PROVE DropInv'
  OBVIOUS
<1> USE DEF historyVars, browserVars, sessionVars, serverVars, countVars
<1>1. /\ TypeOK /\ queue \in Seq(Items) /\ RemovalsAccounted
      /\ \A id \in Ids : Saved(id) => id \in QueuedIds(queue) \/ Accounted(id)
  BY DEF QueueInv, TypeOK, DropInv, DropsAreReported, Accounted
\* A flush's own step, seen from the queue q it ran over.
<1>2. ASSUME NEW q, RemovalsAccounted',
             \A id \in Ids : Accounted(id) => Accounted(id)',
             \A id \in QueuedIds(q) : id \in QueuedIds(queue') \/ Accounted(id)',
             \A id \in Ids : Saved(id)' => id \in QueuedIds(q) \/ Accounted(id)
      PROVE  DropInv'
  <2>1. \A id \in Ids : Saved(id)' => id \in QueuedIds(queue') \/ Accounted(id)'
    BY <1>2
  <2>2. DropsAreReported'
    BY <2>1 DEF DropsAreReported, Accounted
  <2> QED
    BY <1>2, <2>2 DEF DropInv
<1>3. ASSUME latest' = latest
      PROVE  \A id \in Ids : Saved(id)' => id \in QueuedIds(queue) \/ Accounted(id)
  BY <1>1, <1>3 DEF Saved
<1>4. ASSUME NEW t \in Tabs, NEW item \in Items, Save(t, item) PROVE DropInv'
  <2> DEFINE q == Enqueued(queue, item)
  <2>1. /\ q \in Seq(Items)
        /\ ToSet(q) = {other \in ToSet(queue) : other.id # item.id} \cup {item}
    BY <1>1, EnqueuedKeeps DEF QueueInv, OneCopyQueued
  <2>2. /\ latest' = [latest EXCEPT ![item.id] = item.copy] /\ CallFlush(t, q)
        /\ UNCHANGED <<server, unshown>>
    BY <1>4 DEF Save
  <2> HIDE DEF q
  <2>3. \A id \in Ids : Saved(id)' => id \in QueuedIds(q) \/ Accounted(id)
    <3> SUFFICES ASSUME NEW id \in Ids, Saved(id)', ~Accounted(id) PROVE id \in QueuedIds(q)
      OBVIOUS
    <3>1. CASE id = item.id
      BY <2>1, <3>1 DEF QueuedIds, ToSet
    <3>2. CASE id # item.id
      <4>1. Saved(id)
        BY <1>1, <2>2, <3>2 DEF Saved, TypeOK, Items
      <4>2. PICK other \in ToSet(queue) : other.id = id
        BY <1>1, <4>1 DEF QueuedIds, ToSet
      <4>3. other \in ToSet(q)
        BY <2>1, <3>2, <4>2
      <4> QED
        BY <4>2, <4>3 DEF QueuedIds, ToSet
    <3> QED
      BY <3>1, <3>2
  <2>4. /\ RemovalsAccounted'
        /\ \A id \in Ids : Accounted(id) => Accounted(id)'
        /\ \A id \in QueuedIds(q) : id \in QueuedIds(queue') \/ Accounted(id)'
    BY <1>1, <2>1, <2>2, CallFlushAccounts
  <2> QED
    BY <1>2, <2>3, <2>4
<1>5. ASSUME NEW t \in Tabs, Trigger(t) PROVE DropInv'
  <2>1. CallFlush(t, queue) /\ latest' = latest /\ UNCHANGED <<server, unshown>>
    BY <1>5 DEF Trigger
  <2>2. /\ RemovalsAccounted'
        /\ \A id \in Ids : Accounted(id) => Accounted(id)'
        /\ \A id \in QueuedIds(queue) : id \in QueuedIds(queue') \/ Accounted(id)'
    BY <1>1, <2>1, CallFlushAccounts
  <2> QED
    BY <1>2, <1>3, <2>1, <2>2
<1>6. ASSUME NEW t \in Tabs, Answer(t) PROVE DropInv'
  <2>1. latest' = latest /\ server' = server
    BY <1>6 DEF Answer
  <2>2. CASE AnswerOk(t) \/ AnswerRefused(t) \/ AnswerFailed(t)
    <3>1. PICK f : \E blocked \in BOOLEAN :
            /\ Flight(f) /\ GoOn(t, f, queue, blocked) /\ flush[t].pc = "posting"
            /\ flush[t].dropped \subseteq f.dropped
            /\ \/ f.removals = flush[t].removals
               \/ /\ f.removals = flush[t].removals \cup {flush[t].item}
                  /\ flush[t].answer = "ok" \/ flush[t].item \in f.dropped
      BY <1>1, <2>2, AnswerGoesOn
    <3>2. unshown' = unshown
      BY <2>2 DEF AnswerOk, AnswerRefused, AnswerFailed
    <3>3. \A item \in f.removals : SettledIn(f, item)
      BY <1>1, <3>1 DEF RemovalsAccounted, SettledIn
    <3>4. /\ RemovalsAccounted'
          /\ \A id \in Ids : Accounted(id) => Accounted(id)'
          /\ \A id \in QueuedIds(queue) : id \in QueuedIds(queue') \/ Accounted(id)'
      BY <1>1, <2>1, <3>1, <3>2, <3>3, GoOnAccounts
    <3> QED
      BY <1>2, <1>3, <2>1, <3>4
  <2>3. CASE AnswerUnauthorized(t)
    <3>1. /\ flush[t].pc = "posting" /\ flush' = [flush EXCEPT ![t] = ClosedFlush]
          /\ \/ /\ queue' = Without(queue, flush[t].removals)
                /\ reported' = reported \cup DroppedBy(t) /\ unshown' = unshown
             \/ /\ unshown' = unshown \cup DroppedBy(t)
                /\ queue' = queue /\ reported' = reported
      BY <2>3 DEF AnswerUnauthorized
    <3>2. \A id \in QueuedIds(queue) : id \in QueuedIds(queue') \/ Accounted(id)
      <4>1. CASE queue' = queue
        BY <4>1
      <4>2. CASE queue' = Without(queue, flush[t].removals)
        <5> SUFFICES ASSUME NEW id \in QueuedIds(queue), id \notin QueuedIds(queue')
                     PROVE  Accounted(id)
          OBVIOUS
        <5>1. ToSet(queue') = ToSet(queue) \ flush[t].removals
          BY <1>1, <4>2, WithoutKeeps
        <5>2. PICK item \in ToSet(queue) : item.id = id
          BY DEF QueuedIds, ToSet
        <5>3. item \notin ToSet(queue')
          BY <5>2 DEF QueuedIds, ToSet
        <5>4. SettledIn(flush[t], item)
          BY <1>1, <3>1, <5>1, <5>2, <5>3 DEF RemovalsAccounted
        <5> QED
          BY <3>1, <5>2, <5>4 DEF SettledIn, Accounted, DroppedBy
      <4> QED
        BY <3>1, <4>1, <4>2
    <3>3. /\ reported \subseteq reported' /\ unshown \subseteq unshown'
          /\ DroppedBy(t) \subseteq reported' \cup unshown'
      BY <3>1
    <3> QED
      BY <1>1, <2>1, <3>1, <3>2, <3>3, ClosingAccounts
  <2> QED
    BY <1>6, <2>2, <2>3 DEF Answer
<1>7. ASSUME NEW t \in Tabs, CloseTab(t) PROVE DropInv'
  <2>1. /\ flush' = [flush EXCEPT ![t] = ClosedFlush] /\ queue' = queue
        /\ unshown' = unshown \cup DroppedBy(t) /\ reported' = reported
        /\ UNCHANGED <<latest, server>>
    BY <1>7 DEF CloseTab
  <2> QED
    BY <1>1, <2>1, ClosingAccounts
<1>8. ASSUME NEW t \in Tabs, OpenTab(t) PROVE DropInv'
  <2>1. /\ flush[t].pc = "closed" /\ latest' = latest /\ UNCHANGED <<server, unshown>>
    BY <1>8 DEF OpenTab
  <2>2. CASE queue = << >>
    <3>1. /\ flush' = [flush EXCEPT ![t] = IdleFlush] /\ queue' = queue /\ reported' = reported
      BY <1>8, <2>2 DEF OpenTab
    <3>2. flush'[t].pc = "idle" /\ \A u \in Tabs \ {t} : flush'[u] = flush[u]
      BY <1>1, <3>1 DEF TypeOK, IdleFlush
    <3>3. RemovalsAccounted'
      BY <1>1, <2>1, <3>2 DEF RemovalsAccounted, SettledIn, Stored
    <3>4. \A id \in Ids : Accounted(id) => Accounted(id)'
      BY <2>1, <3>1, <3>2 DEF Accounted, DroppedBy, Stored
    <3> QED
      BY <1>2, <1>3, <2>1, <3>1, <3>3, <3>4
  <2>3. CASE queue # << >>
    <3>1. GoOn(t, FreshFlush, queue, FALSE)
      BY <1>8, <2>3 DEF OpenTab
    <3>2. \A item \in FreshFlush.removals : SettledIn(FreshFlush, item)
      BY DEF FreshFlush
    <3>3. /\ RemovalsAccounted'
          /\ \A id \in Ids : Accounted(id) => Accounted(id)'
          /\ \A id \in QueuedIds(queue) : id \in QueuedIds(queue') \/ Accounted(id)'
      BY <1>1, <2>1, <3>1, <3>2, FreshFlight, GoOnAccounts
    <3> QED
      BY <1>2, <1>3, <2>1, <3>3
  <2> QED
    BY <2>2, <2>3
<1>9. ASSUME NEW t \in Tabs, Serve(t) PROVE DropInv'
  <2>1. flush[t] \in Postings /\ flush[t].pc = "posting"
    BY <1>1, <1>9, PostingFlight DEF Serve
  <2> DEFINE status == CreateStatus(flush[t].item, flush[t].token)
  <2>2. /\ CreateBlock(flush[t].item, flush[t].token)
        /\ flush' = [flush EXCEPT ![t].answer = status]
        /\ UNCHANGED <<queue, latest, reported, unshown>>
    BY <1>9 DEF Serve
  <2>3. flush[t].item \in Items
    BY <2>1 DEF Postings
  <2>4. /\ \A id \in Ids : Stored(id) => Stored(id)'
        /\ status = "ok" => Stored(flush[t].item.id)'
    BY <1>1, <2>2, <2>3, ServingStores
  <2> HIDE DEF status
  <2>5. /\ flush'[t].removals = flush[t].removals /\ flush'[t].item = flush[t].item
        /\ flush'[t].dropped = flush[t].dropped /\ flush'[t].pc = "posting"
        /\ flush'[t].answer = status
        /\ \A u \in Tabs \ {t} : flush'[u] = flush[u]
    BY <1>1, <2>1, <2>2 DEF TypeOK, Postings
  <2>6. flush'[t].answer = "ok" => server'[flush'[t].item.id] # NoCopy
    BY <2>4, <2>5 DEF Stored
  <2>7. flush'[t].answer = "ok" => Stored(flush[t].item.id)'
    BY <2>6 DEF Stored
  <2> QED
    BY <1>1, <2>1, <2>2, <2>4, <2>5, <2>7, ServingAccounts
<1>10. ASSUME NEW t \in Tabs, Lose(t) PROVE DropInv'
  <2>1. flush[t] \in Postings
    BY <1>1, <1>10, PostingFlight DEF Lose
  <2>2. /\ flush[t].pc = "posting" /\ flush' = [flush EXCEPT ![t].answer = "failed"]
        /\ UNCHANGED <<queue, latest, reported, unshown, server>>
    BY <1>10 DEF Lose
  <2>3. /\ flush'[t].removals = flush[t].removals /\ flush'[t].answer = "failed"
        /\ flush'[t].dropped = flush[t].dropped /\ flush'[t].pc = "posting"
        /\ \A u \in Tabs \ {t} : flush'[u] = flush[u]
    BY <1>1, <2>1, <2>2 DEF TypeOK, Postings
  <2>4. \A id \in Ids : Stored(id) => Stored(id)'
    BY <2>2 DEF Stored
  <2> QED
    BY <1>1, <2>2, <2>3, <2>4, ServingAccounts
<1>11. ASSUME NEW r \in orphans, ServeOrphan(r) PROVE DropInv'
  <2>1. r.item \in Items
    BY <1>1 DEF TypeOK, Requests
  <2>2. /\ CreateBlock(r.item, r.token) /\ flush' = flush
        /\ UNCHANGED <<queue, latest, reported, unshown>>
    BY <1>11 DEF ServeOrphan
  <2>3. \A id \in Ids : Stored(id) => Stored(id)'
    BY <1>1, <2>1, <2>2, ServingStores
  <2> QED
    BY <1>1, <2>2, <2>3, ServingAccounts
<1>12. CASE \/ \E r \in orphans : LoseOrphan(r)
            \/ DeleteTag \/ GoOffline \/ GoOnline \/ Expire \/ SignIn \/ UNCHANGED vars
  <2>1. UNCHANGED <<queue, flush, latest, reported, unshown, server>>
    BY <1>12 DEF LoseOrphan, DeleteTag, GoOffline, GoOnline, Expire, SignIn, vars
  <2>2. \A id \in Ids : Stored(id) => Stored(id)'
    BY <2>1 DEF Stored
  <2> QED
    BY <1>1, <2>1, <2>2, ServingAccounts
<1> QED
  BY <1>4, <1>5, <1>6, <1>7, <1>8, <1>9, <1>10, <1>11, <1>12 DEF Next

\* A block that left the queue unstored is shown, or will be when the flush that
\* gave up on it ends, unless that flush's page goes away first.
THEOREM DropsAreShown == Spec => []DropsAreReported
<1>1. Init => QueueInv /\ DropInv
  BY QueueInit, DropInit
<1>2. QueueInv /\ DropInv /\ [Next]_vars => (QueueInv /\ DropInv)'
  BY QueueStep, DropStep
<1>3. DropInv => DropsAreReported
  BY DEF DropInv
<1> QED
  BY <1>1, <1>2, <1>3, PTL DEF Spec

-------------------------------------------------------------------------------
(* What one flush attempts.  The rest of its batch was read some posts ago, so *)
(* the invariant says that it holds each block once and none tried already.    *)

BatchApart(f) ==
  /\ OneCopyEach(f.batch)
  /\ \A item \in ToSet(f.batch) : item.id \notin f.attempted

BatchesApart == \A t \in Tabs : flush[t].pc = "posting" => BatchApart(flush[t])

\* The tail of a batch holds neither its head nor anything tried before it.
LEMMA TailApart ==
  ASSUME NEW batch \in Seq(Items), batch # << >>, OneCopyEach(batch), NEW tried,
         \A item \in ToSet(batch) : item.id \notin tried
  PROVE  /\ Head(batch).id \notin tried
         /\ OneCopyEach(Tail(batch))
         /\ \A item \in ToSet(Tail(batch)) : item.id \notin tried \cup {Head(batch).id}
<1>1. /\ Len(batch) \in Nat /\ Len(batch) >= 1 /\ DOMAIN batch = 1..Len(batch)
      /\ Head(batch) = batch[1]
      /\ DOMAIN Tail(batch) = 1..Len(batch) - 1
      /\ \A i \in 1..Len(batch) - 1 : Tail(batch)[i] = batch[i + 1]
  OBVIOUS
<1>2. \A i \in DOMAIN Tail(batch) : i \in Nat /\ i + 1 \in DOMAIN batch /\ i + 1 # 1
                                     /\ Tail(batch)[i] = batch[i + 1]
  BY <1>1
<1>3. 1 \in DOMAIN batch /\ Head(batch) \in ToSet(batch)
  BY <1>1, HeadAndTail
<1>4. OneCopyEach(Tail(batch))
  <2> SUFFICES ASSUME NEW i \in DOMAIN Tail(batch), NEW j \in DOMAIN Tail(batch),
                      Tail(batch)[i].id = Tail(batch)[j].id
               PROVE  i = j
    BY DEF OneCopyEach
  <2>1. i + 1 = j + 1
    BY <1>2 DEF OneCopyEach
  <2> QED
    BY <1>2, <2>1
<1>5. ASSUME NEW i \in DOMAIN Tail(batch) PROVE Tail(batch)[i].id \notin tried \cup {Head(batch).id}
  <2>1. batch[i + 1].id # batch[1].id
    BY <1>2, <1>3 DEF OneCopyEach
  <2>2. batch[i + 1] \in ToSet(batch)
    BY <1>2 DEF ToSet
  <2> QED
    BY <1>1, <1>2, <2>1, <2>2
<1> QED
  BY <1>3, <1>4, <1>5 DEF ToSet

\* Going on posts something not tried yet and leaves a batch of such; it ends, unless
\* it is blocked or offline, with everything queued tried.
LEMMA GoOnAttempts ==
  ASSUME TypeOK, NEW t \in Tabs, NEW f, Flight(f), BatchApart(f), NEW q \in Seq(Items),
         OneCopyEach(q), NEW blocked \in BOOLEAN, GoOn(t, f, q, blocked)
  PROVE  \/ /\ BatchApart(flush'[t])
            /\ flush'[t].pc = "posting"
            /\ flush'[t].item.id \notin f.attempted
         \/ /\ flush'[t] = IdleFlush
            /\ online /\ ~blocked => QueuedIds(queue') \subseteq f.attempted
<1> DEFINE passOver == f.batch = << >> \/ blocked
           q2       == IF passOver THEN Without(q, f.removals) ELSE q
           batch    == IF passOver THEN Unattempted(q2, f.attempted) ELSE f.batch
           posting  == [pc |-> "posting", item |-> Head(batch), token |-> token,
                        answer |-> "none", attempted |-> f.attempted \cup {Head(batch).id},
                        batch |-> Tail(batch),
                        removals |-> IF passOver THEN {} ELSE f.removals,
                        dropped |-> f.dropped]
<1>1. q2 \in Seq(Items) /\ OneCopyEach(q2)
  BY WithoutKeeps
<1>2. /\ Unattempted(q2, f.attempted) \in Seq(Items)
      /\ ToSet(Unattempted(q2, f.attempted)) = {item \in ToSet(q2) : item.id \notin f.attempted}
      /\ OneCopyEach(Unattempted(q2, f.attempted))
  <2> HIDE DEF q2
  <2> QED
    BY <1>1, UnattemptedKeeps
<1>3. batch \in Seq(Items) /\ OneCopyEach(batch) /\ \A item \in ToSet(batch) : item.id \notin f.attempted
  <2> HIDE DEF q2
  <2> QED
    BY <1>2 DEF Flight, BatchApart
<1>4. flush \in [Tabs -> Postings \cup {IdleFlush, ClosedFlush}]
  BY DEF TypeOK
<1>5. CASE ~blocked /\ batch # << >> /\ online
  <2>1. flush' = [flush EXCEPT ![t] = posting]
    BY <1>5 DEF GoOn
  <2>2. flush'[t] = posting
    BY <1>4, <2>1
  <2>3. /\ Head(batch).id \notin f.attempted
        /\ OneCopyEach(Tail(batch))
        /\ \A item \in ToSet(Tail(batch)) : item.id \notin f.attempted \cup {Head(batch).id}
    <3> HIDE DEF batch
    <3> QED
      BY <1>3, <1>5, TailApart
  <2> HIDE DEF batch, passOver
  <2> QED
    BY <2>2, <2>3 DEF BatchApart
<1>6. CASE ~(~blocked /\ batch # << >> /\ online)
  <2>1. queue' = Without(q, f.removals) /\ flush' = [flush EXCEPT ![t] = IdleFlush]
    BY <1>6 DEF GoOn
  <2>2. flush'[t] = IdleFlush
    BY <1>4, <2>1
  <2>3. ASSUME online, ~blocked PROVE QueuedIds(queue') \subseteq f.attempted
    <3>1. passOver /\ queue' = q2 /\ Unattempted(q2, f.attempted) = << >>
      BY <1>6, <2>1, <2>3
    <3>2. ToSet(<< >>) = {}
      BY DEF ToSet
    <3> HIDE DEF q2
    <3>3. \A item \in ToSet(q2) : item.id \in f.attempted
      BY <1>2, <3>1, <3>2
    <3> QED
      BY <3>1, <3>3 DEF QueuedIds, ToSet
  <2> QED
    BY <2>2, <2>3
<1> QED
  BY <1>5, <1>6

\* The same of a flush that begins, and of one that an answer lets go on.
LEMMA FlushAttempts ==
  ASSUME QueueInv, BatchesApart, [Next]_vars, NEW t \in Tabs
  PROVE  \/ flush'[t].pc # "posting" /\ flush[t].pc # "posting"
         \/ /\ flush'[t].pc = "posting" /\ BatchApart(flush'[t])
            /\ \/ flush[t].pc # "posting"
               \/ flush'[t].answer = flush[t].answer
               \/ flush'[t].answer # "none"
               \/ flush'[t].item.id \notin flush[t].attempted
         \/ /\ flush[t].pc = "posting" /\ flush'[t].pc # "posting"
            /\ flush'[t].pc = "idle" /\ online /\ flush[t].answer # "failed" =>
                 QueuedIds(queue') \subseteq flush[t].attempted
<1> USE DEF historyVars, browserVars, sessionVars, serverVars, countVars
<1>1. /\ TypeOK /\ queue \in Seq(Items) /\ OneCopyEach(queue)
      /\ flush \in [Tabs -> Postings \cup {IdleFlush, ClosedFlush}]
      /\ IdleFlush.pc = "idle" /\ ClosedFlush.pc = "closed"
  BY DEF QueueInv, TypeOK, OneCopyQueued, IdleFlush, ClosedFlush
<1>2. CASE flush'[t] = flush[t]
  BY <1>2 DEF BatchesApart
<1>3. BatchApart(FreshFlush)
  BY DEF BatchApart, FreshFlush, OneCopyEach, ToSet
<1>4. ASSUME NEW u \in Tabs, NEW q \in Seq(Items), OneCopyEach(q), CallFlush(u, q)
      PROVE  flush'[t] = flush[t] \/ (flush[t].pc # "posting" /\ (flush'[t].pc = "posting" => BatchApart(flush'[t])))
  <2>1. CASE flush[u].pc = "posting" \/ q = << >>
    BY <1>4, <2>1 DEF CallFlush
  <2>2. CASE ~(flush[u].pc = "posting" \/ q = << >>)
    <3>1. GoOn(u, FreshFlush, q, FALSE)
      BY <1>4, <2>2 DEF CallFlush
    <3>2. \A v \in Tabs \ {u} : flush'[v] = flush[v]
      BY <1>1, <1>4, <3>1, FreshFlight, GoOnFacts
    <3>3. BatchApart(flush'[u]) \/ flush'[u] = IdleFlush
      BY <1>1, <1>3, <1>4, <3>1, FreshFlight, GoOnAttempts
    <3> QED
      BY <1>1, <2>2, <3>2, <3>3
  <2> QED
    BY <2>1, <2>2
<1>5. ASSUME NEW u \in Tabs, NEW item \in Items, Save(u, item)
      PROVE  flush'[t] = flush[t] \/ (flush[t].pc # "posting" /\ (flush'[t].pc = "posting" => BatchApart(flush'[t])))
  <2>1. Enqueued(queue, item) \in Seq(Items) /\ OneCopyEach(Enqueued(queue, item))
    BY <1>1, EnqueuedKeeps
  <2> QED
    BY <1>4, <1>5, <2>1 DEF Save
<1>6. ASSUME NEW u \in Tabs, Trigger(u)
      PROVE  flush'[t] = flush[t] \/ (flush[t].pc # "posting" /\ (flush'[t].pc = "posting" => BatchApart(flush'[t])))
  BY <1>1, <1>4, <1>6 DEF Trigger
<1>7. ASSUME NEW u \in Tabs, OpenTab(u)
      PROVE  flush'[t] = flush[t] \/ (flush[t].pc # "posting" /\ (flush'[t].pc = "posting" => BatchApart(flush'[t])))
  <2>1. CASE queue = << >>
    BY <1>1, <1>7, <2>1 DEF OpenTab
  <2>2. CASE queue # << >>
    <3>1. GoOn(u, FreshFlush, queue, FALSE) /\ flush[u].pc = "closed"
      BY <1>7, <2>2 DEF OpenTab
    <3>2. \A v \in Tabs \ {u} : flush'[v] = flush[v]
      BY <1>1, <3>1, FreshFlight, GoOnFacts
    <3>3. BatchApart(flush'[u]) \/ flush'[u] = IdleFlush
      BY <1>1, <1>3, <3>1, FreshFlight, GoOnAttempts
    <3> QED
      BY <1>1, <3>1, <3>2, <3>3
  <2> QED
    BY <2>1, <2>2
<1>8. CASE Answer(t)
  <2>1. CASE AnswerOk(t) \/ AnswerRefused(t) \/ AnswerFailed(t)
    <3>1. PICK f : \E blocked \in BOOLEAN :
            /\ Flight(f) /\ GoOn(t, f, queue, blocked) /\ flush[t].pc = "posting"
            /\ f.attempted = flush[t].attempted /\ f.batch = flush[t].batch
            /\ blocked => flush[t].answer = "failed"
      BY <1>1, <2>1, AnswerGoesOn
    <3>2. BatchApart(f)
      BY <3>1 DEF BatchesApart, BatchApart
    <3>3. PICK blocked \in BOOLEAN :
            GoOn(t, f, queue, blocked) /\ (blocked => flush[t].answer = "failed")
      BY <3>1
    <3>4. \/ /\ BatchApart(flush'[t])
             /\ flush'[t].pc = "posting"
             /\ flush'[t].item.id \notin f.attempted
          \/ /\ flush'[t] = IdleFlush
             /\ online /\ ~blocked => QueuedIds(queue') \subseteq f.attempted
      BY <1>1, <3>1, <3>2, <3>3, GoOnAttempts
    <3> QED
      BY <1>1, <3>1, <3>3, <3>4
  <2>2. CASE AnswerUnauthorized(t)
    BY <1>1, <2>2 DEF AnswerUnauthorized
  <2> QED
    BY <1>8, <2>1, <2>2 DEF Answer
<1>9. ASSUME NEW u \in Tabs \ {t}, Answer(u) PROVE flush'[t] = flush[t]
  <2>1. CASE AnswerOk(u) \/ AnswerRefused(u) \/ AnswerFailed(u)
    <3>1. PICK f : \E blocked \in BOOLEAN : Flight(f) /\ GoOn(u, f, queue, blocked)
      BY <1>1, <2>1, AnswerGoesOn
    <3> QED
      BY <1>1, <3>1, GoOnFacts
  <2>2. CASE AnswerUnauthorized(u)
    BY <1>1, <2>2 DEF AnswerUnauthorized
  <2> QED
    BY <1>9, <2>1, <2>2 DEF Answer
<1>10. ASSUME NEW u \in Tabs, CloseTab(u)
       PROVE  flush'[t] = flush[t] \/ flush'[t].pc = "closed"
  BY <1>1, <1>10 DEF CloseTab
<1>11. ASSUME NEW u \in Tabs, Serve(u) \/ Lose(u)
       PROVE  \/ flush'[t] = flush[t]
              \/ /\ flush[t].pc = "posting" /\ flush'[t].pc = "posting"
                 /\ flush'[t].answer # "none" /\ BatchApart(flush'[t])
  <2>1. flush[u].pc = "posting" /\ flush[u] \in Postings
    BY <1>1, <1>11, PostingFlight DEF Serve, Lose
  <2>2. PICK answer \in {"ok", "401", "404", "422", "failed"} : flush' = [flush EXCEPT ![u].answer = answer]
    BY <1>1, <1>11, <2>1, CreateBlockType DEF Serve, Lose, Postings
  <2>3. \A v \in Tabs \ {u} : flush'[v] = flush[v]
    BY <1>1, <2>2
  <2>4. /\ flush'[u].pc = "posting" /\ flush'[u].answer # "none"
        /\ flush'[u].batch = flush[u].batch /\ flush'[u].attempted = flush[u].attempted
    BY <1>1, <2>1, <2>2 DEF Postings
  <2>5. BatchApart(flush'[u])
    BY <2>1, <2>4 DEF BatchesApart, BatchApart
  <2> QED
    BY <2>1, <2>3, <2>4, <2>5
<1>12. ASSUME NEW r \in orphans, ServeOrphan(r) \/ LoseOrphan(r) PROVE flush' = flush
  BY <1>12 DEF ServeOrphan, LoseOrphan
<1>13. CASE DeleteTag \/ GoOffline \/ GoOnline \/ Expire \/ SignIn \/ UNCHANGED vars
  BY <1>2, <1>13 DEF DeleteTag, GoOffline, GoOnline, Expire, SignIn, vars
<1> QED
  BY <1>2, <1>5, <1>6, <1>7, <1>8, <1>9, <1>10, <1>11, <1>12, <1>13 DEF Next

LEMMA BatchesInvariant == Spec => [](QueueInv /\ BatchesApart)
<1>1. Init => BatchesApart
  BY DEF Init, BatchesApart, IdleFlush
<1>2. QueueInv /\ BatchesApart /\ [Next]_vars => BatchesApart'
  BY FlushAttempts DEF BatchesApart
<1> QED
  BY <1>1, <1>2, QueueInvariant, PTL DEF Spec

\* One invocation of flushQueue never posts a block twice, whatever is saved,
\* rewritten or removed under it.
THEOREM NoDoublePost == Spec => NeverDoublePosts
<1> DEFINE Safe == \A t \in Tabs :
             flush[t].pc = "posting" /\ flush'[t].pc = "posting" /\ flush'[t].answer = "none"
                                     /\ flush[t].answer # "none"
             => flush'[t].item.id \notin flush[t].attempted
<1>1. QueueInv /\ BatchesApart /\ [Next]_vars => [Safe]_vars
  BY FlushAttempts
<1>2. Spec => [][Safe]_vars
  BY <1>1, BatchesInvariant, PTL DEF Spec
<1> QED
  BY <1>2 DEF NeverDoublePosts

\* A flush that nothing blocked has tried everything that is queued when it ends,
\* blocks saved meanwhile included.
THEOREM DrainsAll == Spec => DrainsWhatWasSavedMeanwhile
<1> DEFINE Safe == \A t \in Tabs :
             flush[t].pc = "posting" /\ flush'[t].pc = "idle" /\ online
                                     /\ flush[t].answer \in {"ok", "404", "422"}
             => QueuedIds(queue') \subseteq flush[t].attempted
<1>1. QueueInv /\ BatchesApart /\ [Next]_vars => [Safe]_vars
  BY FlushAttempts
<1>2. Spec => [][Safe]_vars
  BY <1>1, BatchesInvariant, PTL DEF Spec
<1> QED
  BY <1>2 DEF DrainsWhatWasSavedMeanwhile

-------------------------------------------------------------------------------
(* The queue implements BlockDelivery. *)

Owed == QueuedIds(queue)
Held == {id \in Ids : Stored(id)}

LEMMA DeliveryInit == Init => Delivery!Init
BY DEF Init, Delivery!Init, QueuedIds, Stored

\* Removing items that were decided settles their ids.
LEMMA RemovalSettles ==
  ASSUME QueueInv, UNCHANGED <<server, refused>>, NEW removals \in SUBSET decided,
         ToSet(queue) \ removals \subseteq ToSet(queue'), ToSet(queue') \subseteq ToSet(queue)
  PROVE  Delivery!Next
<1> DEFINE done == Owed \ Owed'
<1>1. Held' = Held /\ refused' = refused
  BY DEF Held, Stored
<1>2. Owed = {item.id : item \in ToSet(queue)} /\ Owed' = {item.id : item \in ToSet(queue')}
  BY DEF Owed, QueuedIds, ToSet
<1>3. Owed \subseteq Ids
  <2>1. queue \in Seq(Items)
    BY DEF QueueInv, TypeOK
  <2>2. \A i \in DOMAIN queue : queue[i] \in Items
    BY <2>1
  <2> QED
    BY <2>2 DEF Owed, QueuedIds, Items
<1>4. Owed' = Owed \ done /\ done \in SUBSET Ids
  BY <1>2, <1>3
<1>5. done \subseteq {item.id : item \in removals}
  BY <1>2
<1>6. done \subseteq Held \cup refused
  BY <1>4, <1>5 DEF QueueInv, DecidedIsSettled, Held
<1>7. Delivery!Settle(done)
  BY <1>1, <1>4, <1>6 DEF Delivery!Settle, Owed, Held
<1> QED
  BY <1>4, <1>7 DEF Delivery!Next

\* Serving a request keeps or refuses its block, or changes nothing owed.
LEMMA ServingDelivers ==
  ASSUME QueueInv, NEW item \in Items, NEW tok, CreateBlock(item, tok), queue' = queue
  PROVE  Delivery!Next \/ UNCHANGED Delivery!vars
<1> DEFINE status == CreateStatus(item, tok)
           id     == item.id
<1>1. id \in Ids /\ item.copy \in Copies /\ NoCopy \notin Copies
  BY CopiesAssumption DEF Items
<1>2. /\ server' = IF status = "ok" /\ server[id] = NoCopy
                   THEN [server EXCEPT ![id] = item.copy] ELSE server
      /\ refused' = IF status \in {"404", "422"} THEN refused \cup {id} ELSE refused
  BY DEF CreateBlock
<1>3. server \in [Ids -> Copies \cup {NoCopy}]
  BY DEF QueueInv, TypeOK
<1>4. Owed' = Owed
  BY DEF Owed, QueuedIds
<1> HIDE DEF status, id
<1>5. CASE status = "ok" /\ server[id] = NoCopy
  <2>1. Held' = Held \cup {id} /\ refused' = refused
    BY <1>1, <1>2, <1>3, <1>5 DEF Held, Stored
  <2>2. Delivery!Keep(id)
    BY <1>4, <2>1 DEF Delivery!Keep, Owed, Held
  <2> QED
    BY <1>1, <2>2 DEF Delivery!Next
<1>6. CASE status \in {"404", "422"}
  <2>1. Held' = Held /\ refused' = refused \cup {id}
    BY <1>2, <1>6 DEF Held, Stored
  <2>2. Delivery!Refuse(id)
    BY <1>4, <2>1 DEF Delivery!Refuse, Owed, Held
  <2> QED
    BY <1>1, <2>2 DEF Delivery!Next
<1>7. CASE ~(status = "ok" /\ server[id] = NoCopy) /\ status \notin {"404", "422"}
  <2>1. Held' = Held /\ refused' = refused
    BY <1>2, <1>7 DEF Held, Stored
  <2> QED
    BY <1>4, <2>1 DEF Delivery!vars, Owed, Held
<1> QED
  BY <1>5, <1>6, <1>7

LEMMA DeliveryStep == QueueInv /\ [Next]_vars => [Delivery!Next]_(Delivery!vars)
<1> SUFFICES ASSUME QueueInv, [Next]_vars PROVE Delivery!Next \/ UNCHANGED Delivery!vars
  OBVIOUS
<1> USE DEF historyVars, browserVars, sessionVars, serverVars, countVars
<1>1. TypeOK /\ queue \in Seq(Items) /\ FreshFlush.removals = {} /\ Flight(FreshFlush)
  BY FreshFlight DEF QueueInv, TypeOK, FreshFlush
<1>2. ASSUME UNCHANGED <<queue, server, refused>> PROVE UNCHANGED Delivery!vars
  BY <1>2 DEF Delivery!vars, QueuedIds, Stored
<1>3. ASSUME NEW t \in Tabs, NEW q \in Seq(Items), CallFlush(t, q) PROVE ToSet(queue') = ToSet(q)
  <2>1. CASE flush[t].pc = "posting" \/ q = << >>
    BY <1>3, <2>1 DEF CallFlush
  <2>2. CASE ~(flush[t].pc = "posting" \/ q = << >>)
    <3>1. GoOn(t, FreshFlush, q, FALSE)
      BY <1>3, <2>2 DEF CallFlush
    <3>2. ToSet(q) \ {} \subseteq ToSet(queue') /\ ToSet(queue') \subseteq ToSet(q)
      BY <1>1, <3>1, GoOnFacts
    <3> QED
      BY <3>2
  <2> QED
    BY <2>1, <2>2
<1>4. ASSUME NEW t \in Tabs, NEW item \in Items, Save(t, item) PROVE Delivery!Next
  <2> DEFINE q == Enqueued(queue, item)
  <2>1. /\ q \in Seq(Items)
        /\ ToSet(q) = {other \in ToSet(queue) : other.id # item.id} \cup {item}
    BY <1>1, EnqueuedKeeps
  <2>2. CallFlush(t, q) /\ UNCHANGED <<server, refused>> /\ item.id \in Ids
    BY <1>4 DEF Save, Items
  <2> HIDE DEF q
  <2>3. ToSet(queue') = {other \in ToSet(queue) : other.id # item.id} \cup {item}
    BY <1>3, <2>1, <2>2
  <2>4. Owed = {x.id : x \in ToSet(queue)} /\ Owed' = {x.id : x \in ToSet(queue')}
    BY DEF Owed, QueuedIds, ToSet
  <2>5. Owed' = Owed \cup {item.id}
    BY <2>3, <2>4
  <2>6. Delivery!Record(item.id)
    BY <2>2, <2>5 DEF Delivery!Record, Owed, Stored
  <2> QED
    BY <2>2, <2>6 DEF Delivery!Next
<1>5. ASSUME NEW t \in Tabs, Trigger(t) PROVE Delivery!Next
  <2>1. ToSet(queue') = ToSet(queue) /\ UNCHANGED <<server, refused>>
    BY <1>1, <1>3, <1>5 DEF Trigger
  <2>2. {} \in SUBSET decided
    OBVIOUS
  <2> QED
    BY <2>1, <2>2, RemovalSettles
<1>6. ASSUME NEW t \in Tabs, Answer(t) PROVE Delivery!Next
  <2>1. UNCHANGED <<server, refused>>
    BY <1>6 DEF Answer
  <2>2. CASE AnswerOk(t) \/ AnswerRefused(t) \/ AnswerFailed(t)
    <3>1. PICK f : \E blocked \in BOOLEAN :
            /\ Flight(f) /\ GoOn(t, f, queue, blocked) /\ flush[t].pc = "posting"
            /\ \/ f.removals = flush[t].removals
               \/ /\ flush[t].answer \in {"ok", "404", "422"}
                  /\ f.removals = flush[t].removals \cup {flush[t].item}
      BY <1>1, <2>2, AnswerGoesOn
    <3>2. f.removals \in SUBSET decided
      BY <3>1 DEF QueueInv, RemovesOnlyDecided
    <3>3. /\ ToSet(queue) \ f.removals \subseteq ToSet(queue')
          /\ ToSet(queue') \subseteq ToSet(queue)
      BY <1>1, <3>1, GoOnFacts
    <3> QED
      BY <2>1, <3>2, <3>3, RemovalSettles
  <2>3. CASE AnswerUnauthorized(t)
    <3>1. flush[t].pc = "posting" /\ queue' \in {queue, Without(queue, flush[t].removals)}
      BY <2>3 DEF AnswerUnauthorized
    <3>2. flush[t].removals \in SUBSET decided
      BY <3>1 DEF QueueInv, RemovesOnlyDecided
    <3>3. ToSet(queue) \ flush[t].removals \subseteq ToSet(queue') /\ ToSet(queue') \subseteq ToSet(queue)
      <4>1. CASE queue' = queue
        BY <4>1
      <4>2. CASE queue' = Without(queue, flush[t].removals)
        BY <1>1, <4>2, WithoutKeeps
      <4> QED
        BY <3>1, <4>1, <4>2
    <3> QED
      BY <2>1, <3>2, <3>3, RemovalSettles
  <2> QED
    BY <1>6, <2>2, <2>3 DEF Answer
<1>7. ASSUME NEW t \in Tabs, OpenTab(t) PROVE Delivery!Next \/ UNCHANGED Delivery!vars
  <2>1. CASE queue = << >>
    BY <1>2, <1>7, <2>1 DEF OpenTab
  <2>2. CASE queue # << >>
    <3>1. GoOn(t, FreshFlush, queue, FALSE) /\ UNCHANGED <<server, refused>>
      BY <1>7, <2>2 DEF OpenTab
    <3>2. ToSet(queue) \ {} \subseteq ToSet(queue') /\ ToSet(queue') \subseteq ToSet(queue)
      BY <1>1, <3>1, GoOnFacts
    <3>3. {} \in SUBSET decided
      OBVIOUS
    <3> QED
      BY <3>1, <3>2, <3>3, RemovalSettles
  <2> QED
    BY <2>1, <2>2
<1>8. ASSUME NEW t \in Tabs, Serve(t) PROVE Delivery!Next \/ UNCHANGED Delivery!vars
  <2>1. flush[t].item \in Items
    BY <1>1, <1>8, PostingFlight DEF Serve, Postings
  <2>2. CreateBlock(flush[t].item, flush[t].token) /\ queue' = queue
    BY <1>8 DEF Serve
  <2> QED
    BY <2>1, <2>2, ServingDelivers
<1>9. ASSUME NEW r \in orphans, ServeOrphan(r) PROVE Delivery!Next \/ UNCHANGED Delivery!vars
  <2>1. r.item \in Items
    BY <1>1 DEF TypeOK, Requests
  <2>2. CreateBlock(r.item, r.token) /\ queue' = queue
    BY <1>9 DEF ServeOrphan
  <2> QED
    BY <2>1, <2>2, ServingDelivers
<1>10. ASSUME NEW t \in Tabs, CloseTab(t) \/ Lose(t) PROVE UNCHANGED Delivery!vars
  BY <1>2, <1>10 DEF CloseTab, Lose
<1>11. ASSUME NEW r \in orphans, LoseOrphan(r) PROVE UNCHANGED Delivery!vars
  BY <1>2, <1>11 DEF LoseOrphan
<1>12. CASE DeleteTag \/ GoOffline \/ GoOnline \/ Expire \/ SignIn \/ UNCHANGED vars
  <2>1. UNCHANGED <<queue, server, refused>>
    BY <1>12 DEF DeleteTag, GoOffline, GoOnline, Expire, SignIn, vars
  <2> QED
    BY <1>2, <2>1
<1> QED
  BY <1>4, <1>5, <1>6, <1>7, <1>8, <1>9, <1>10, <1>11, <1>12 DEF Next

\* Every behaviour of the queue is one of the abstract delivery service: a block
\* is owed from its save on and settled only once stored or refused for good.
THEOREM DeliveryImplemented == Spec => ImplementsDelivery
<1>1. Spec => Delivery!Init /\ [][Delivery!Next]_(Delivery!vars)
  BY DeliveryInit, DeliveryStep, QueueInvariant, PTL DEF Spec
<1> QED
  BY <1>1 DEF ImplementsDelivery, Delivery!Spec
===============================================================================
