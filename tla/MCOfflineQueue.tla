---------------------------- MODULE MCOfflineQueue ----------------------------
(* Small instances of OfflineQueue for TLC. *)
EXTENDS OfflineQueue

\* Tabs and ids are interchangeable.
TabSymmetry == Permutations(Tabs) \cup Permutations(Ids)

\* Filter is SelectSeq by indices: the two agree on every short queue.
ASSUME FilterIsSelectSeq ==
  \A q \in SeqOf(1..3, 4) : \A items \in SUBSET (1..3) :
    Filter(q, {i \in DOMAIN q : q[i] \notin items}) = SelectSeq(q, LAMBDA item : item \notin items)
===============================================================================
