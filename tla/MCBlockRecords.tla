----------------------------- MODULE MCBlockRecords -----------------------------
(* Values for the runs of BlockRecords. *)
EXTENDS BlockRecords, TLC

\* One interval; two around a pause; one the server must refuse.
PostedLists ==
  {<<[start |-> 1, end |-> 4]>>,
   <<[start |-> 1, end |-> 2], [start |-> 4, end |-> 5]>>,
   <<[start |-> 1, end |-> 3], [start |-> 2, end |-> 4]>>}

Untouched == [label |-> Keep, tag |-> Keep, start |-> Keep, end |-> Keep]

\* Edits of each field, and one of both edges.
PatchBodies ==
  {[Untouched EXCEPT !.label = l] : l \in Labels}
  \cup {[Untouched EXCEPT !.tag = t] : t \in AllTags}
  \cup {[Untouched EXCEPT !.start = s] : s \in {1, 3}}
  \cup {[Untouched EXCEPT !.end = 3], [Untouched EXCEPT !.start = 0, !.end = 5]}

RecordsSymmetry == Permutations(Requests) \cup Permutations(Ids) \cup Permutations(Labels)
===============================================================================
