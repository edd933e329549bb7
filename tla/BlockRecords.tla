------------------------------ MODULE BlockRecords ------------------------------
(***************************************************************************)
(* The block table of backend/app/timer and the requests that write it:    *)
(* POST, PATCH and DELETE /blocks, and DELETE /tags beside them.           *)
(*                                                                         *)
(* A request is one transaction under READ COMMITTED.  It reads, works on  *)
(* its own copies and writes at commit; blocks and tags hold what is       *)
(* committed.  At commit the ORM writes only the columns whose value       *)
(* differs from the one read, and row locks make the writes of a           *)
(* transaction appear at once.                                             *)
(***************************************************************************)
EXTENDS Naturals, Sequences

CONSTANTS
  Requests,    \* requests the server handles at a time
  Ids,         \* client-generated block ids
  Labels,      \* values of the plain columns, label and status
  AllTags,     \* tag ids, of one account
  Recordings,  \* interval lists a client posts
  Edits,       \* PATCH bodies
  Keep,        \* a field that is not in the body
  NoTag, NoBlock,
  MaxCreates   \* bound: blocks inserted

Segments == [start : Nat, end : Nat]
EditBodies == [label : Labels \cup {Keep}, tag : AllTags \cup {NoTag, Keep},
               start : Nat \cup {Keep}, end : Nat \cup {Keep}]

ASSUME InputsAssumption == /\ Recordings \subseteq Seq(Segments) \ {<< >>}
                           /\ Edits \subseteq EditBodies
                           /\ Keep \notin Labels \cup AllTags \cup {NoTag} \cup Nat
                           /\ NoTag \notin AllTags
                           /\ MaxCreates \in Nat

\* `born` tells the interval rows of one insertion from those of another.
Blocks == [label : Labels, tag : AllTags \cup {NoTag}, startedAt : Nat,
           segments : Seq(Segments), born : Nat]

ASSUME NoBlockAssumption == NoBlock \notin Blocks

VARIABLES
  blocks,   \* the block table with its intervals
  tags,     \* the tag table
  req,      \* req[r]: the transaction of request r
  created,  \* insertions so far
  raced     \* history: blocks an edit wrote after another had written since it read

vars == <<blocks, tags, req, created, raced>>

Idle == [pc |-> "idle"]

Stored == {id \in Ids : blocks[id] # NoBlock}

Finish(r) == req' = [req EXCEPT ![r] = Idle]

\* A write is committed: whoever has read the block before works on old values.
Committed(r, id) ==
  req' = [other \in Requests |->
            IF other = r THEN Idle
            ELSE IF req[other].pc \in {"loading", "saving"} /\ req[other].id = id
                 THEN [req[other] EXCEPT !.fresh = FALSE]
                 ELSE req[other]]

-------------------------------------------------------------------------------
(* Intervals. *)

\* Mutant: only the envelope is compared.
Sound_Envelope(segments) ==
  \E i, j \in DOMAIN segments : segments[i].start < segments[j].end

\* _validate_create_intervals and _validate_stored_intervals: closed, positive,
\* not overlapping.
Sound(segments) ==
  /\ \A i \in DOMAIN segments : segments[i].start < segments[i].end
  /\ \A i, j \in DOMAIN segments :
       i < j => \/ segments[i].end <= segments[j].start
                \/ segments[j].end <= segments[i].start

\* A list as it is posted is also ordered.
Ordered(segments) ==
  \A i, j \in DOMAIN segments : i < j => segments[i].start <= segments[j].start

\* sorted(block.intervals, key=started_at): its first and its last.
Earliest(segments) ==
  CHOOSE i \in DOMAIN segments : \A j \in DOMAIN segments : segments[i].start <= segments[j].start

\* Mutant: the end of the first segment moves.
Latest_First(segments) == Earliest(segments)

Latest(segments) ==
  CHOOSE i \in DOMAIN segments : \A j \in DOMAIN segments : segments[j].start <= segments[i].start

\* The envelope edit on the intervals as they were read.
MoveStart(segments, edit) ==
  IF edit.start = Keep THEN segments
  ELSE [segments EXCEPT ![Earliest(segments)].start = edit.start]

\* `ordered` is sorted before the start moves, so its last is found in the old list.
Moved(segments, edit) ==
  IF edit.end = Keep THEN MoveStart(segments, edit)
  ELSE [MoveStart(segments, edit) EXCEPT ![Latest(segments)].end = edit.end]

MovesEdge(edit) == edit.start # Keep \/ edit.end # Keep

-------------------------------------------------------------------------------
Init ==
  /\ blocks = [id \in Ids |-> NoBlock]
  /\ tags = AllTags
  /\ req = [r \in Requests |-> Idle]
  /\ created = 0
  /\ raced = {}

-------------------------------------------------------------------------------
(* POST /blocks. *)

\* create_block: an existing row is answered as it is; the tag must exist.
BeginCreate(r, id, label, tag, segments) ==
  /\ req[r].pc = "idle"
  /\ tag \in tags \cup {NoTag}
  /\ id \notin Stored
  /\ Sound(segments) /\ Ordered(segments)
  /\ req' = [req EXCEPT ![r] = [pc |-> "creating", id |-> id, label |-> label, tag |-> tag,
                                segments |-> segments]]
  /\ UNCHANGED <<blocks, tags, created, raced>>

Insert(r) ==
  /\ created < MaxCreates
  /\ created' = created + 1
  /\ blocks' = [blocks EXCEPT ![req[r].id] =
                  [label |-> req[r].label, tag |-> req[r].tag,
                   startedAt |-> req[r].segments[1].start,
                   segments |-> req[r].segments, born |-> created']]
  /\ raced' = raced \ {req[r].id}
  /\ Committed(r, req[r].id)

\* Mutant: an insert that meets the row replaces it.
CommitCreate_Upsert(r) ==
  /\ req[r].pc = "creating"
  /\ IF req[r].tag \in tags \cup {NoTag}
     THEN Insert(r)
     ELSE Finish(r) /\ UNCHANGED <<blocks, created, raced>>
  /\ UNCHANGED tags

\* The insert meets the primary key and the tag's foreign key: a rival that has
\* inserted the id, or a tag deleted since, fails it.
CommitCreate(r) ==
  /\ req[r].pc = "creating"
  /\ IF req[r].id \notin Stored /\ req[r].tag \in tags \cup {NoTag}
     THEN Insert(r)
     ELSE Finish(r) /\ UNCHANGED <<blocks, created, raced>>
  /\ UNCHANGED tags

-------------------------------------------------------------------------------
(* PATCH /blocks/{block_id}. *)

\* The row is read ...
BeginEdit(r, id, edit) ==
  /\ req[r].pc = "idle"
  /\ id \in Stored
  /\ req' = [req EXCEPT ![r] = [pc |-> "loading", id |-> id, edit |-> edit,
                                row |-> [blocks[id] EXCEPT !.segments = << >>], fresh |-> TRUE]]
  /\ UNCHANGED <<blocks, tags, created, raced>>

\* ... then, in a statement of their own (selectinload), its intervals: none if the
\* block has gone.  The tag in the body must exist, and the moved intervals be sound.
LoadSegments(r) ==
  /\ req[r].pc = "loading"
  /\ LET id       == req[r].id
         edit     == req[r].edit
         segments == IF id \in Stored /\ blocks[id].born = req[r].row.born
                     THEN blocks[id].segments ELSE << >>
     IN  IF /\ edit.tag \in tags \cup {NoTag, Keep}
            /\ MovesEdge(edit) => segments # << >> /\ Sound(Moved(segments, edit))
         THEN req' = [req EXCEPT ![r] =
                [pc |-> "saving", id |-> id, edit |-> edit,
                 row |-> [req[r].row EXCEPT !.segments = segments], fresh |-> req[r].fresh]]
         ELSE Finish(r)
  /\ UNCHANGED <<blocks, tags, created, raced>>

\* A column is written when the body names it with another value than was read.
Merge(current, read, given) == IF given = Keep \/ given = read THEN current ELSE given

\* Mutants: every loaded column is written back; the indexed column stays behind.
Merged_WholeRow(current, read, edit) ==
  [current EXCEPT !.label     = IF edit.label = Keep THEN read.label ELSE edit.label,
                  !.tag       = IF edit.tag = Keep THEN read.tag ELSE edit.tag,
                  !.startedAt = IF edit.start = Keep THEN read.startedAt ELSE edit.start,
                  !.segments  = Moved(read.segments, edit)]

Merged_KeepsBucket(current, read, edit) ==
  [current EXCEPT !.label    = Merge(@, read.label, edit.label),
                  !.tag      = Merge(@, read.tag, edit.tag),
                  !.segments = IF MovesEdge(edit) THEN Moved(read.segments, edit) ELSE @]

WritesRow(read, edit) ==
  \/ edit.label \notin {Keep, read.label}
  \/ edit.tag \notin {Keep, read.tag}
  \/ edit.start \notin {Keep, read.startedAt}

WritesSegments(read, edit) == MovesEdge(edit) /\ Moved(read.segments, edit) # read.segments

MergedSegments(current, read, moved) ==
  [i \in DOMAIN current |-> [start |-> Merge(current[i].start, read[i].start, moved[i].start),
                             end   |-> Merge(current[i].end, read[i].end, moved[i].end)]]

\* The row after the flush of update_block's assignments.
Merged(current, read, edit) ==
  [current EXCEPT !.label     = Merge(@, read.label, edit.label),
                  !.tag       = Merge(@, read.tag, edit.tag),
                  !.startedAt = Merge(@, read.startedAt, edit.start),
                  !.segments  = IF WritesSegments(read, edit)
                                THEN MergedSegments(@, read.segments, Moved(read.segments, edit))
                                ELSE @]

\* The flush: an UPDATE that matches no row, or a tag deleted meanwhile, fails it.
CommitEdit(r) ==
  /\ req[r].pc = "saving"
  /\ LET id   == req[r].id
         edit == req[r].edit
         read == req[r].row
         writes == WritesRow(read, edit) \/ WritesSegments(read, edit)
         fails  == \/ id \notin Stored
                   \/ WritesSegments(read, edit) /\ blocks[id].born # read.born
                   \/ edit.tag \notin tags \cup {NoTag, Keep, read.tag}
     IN  IF writes /\ ~fails
         THEN /\ blocks' = [blocks EXCEPT ![id] = Merged(@, read, edit)]
              /\ raced' = IF req[r].fresh THEN raced ELSE raced \cup {id}
              /\ Committed(r, id)
         ELSE Finish(r) /\ UNCHANGED <<blocks, raced>>
  /\ UNCHANGED <<tags, created>>

-------------------------------------------------------------------------------
(* DELETE /blocks/{block_id} and DELETE /tags/{tag_id}. *)

BeginDelete(r, id) ==
  /\ req[r].pc = "idle"
  /\ id \in Stored
  /\ req' = [req EXCEPT ![r] = [pc |-> "deleting", id |-> id]]
  /\ UNCHANGED <<blocks, tags, created, raced>>

\* The intervals go with the block; one that is gone already is no error.
CommitDelete(r) ==
  /\ req[r].pc = "deleting"
  /\ blocks' = [blocks EXCEPT ![req[r].id] = NoBlock]
  /\ Committed(r, req[r].id)
  /\ UNCHANGED <<tags, created, raced>>

\* ON DELETE SET NULL.  It is one transaction of its own: nothing it reads before
\* its commit decides what it writes.
DeleteTag(tag) ==
  /\ tag \in tags
  /\ tags' = tags \ {tag}
  /\ blocks' = [id \in Ids |-> IF id \in Stored /\ blocks[id].tag = tag
                               THEN [blocks[id] EXCEPT !.tag = NoTag] ELSE blocks[id]]
  /\ UNCHANGED <<req, created, raced>>

\* A crash, a deadlock the database breaks, or a client that went away.
Rollback(r) ==
  /\ req[r].pc # "idle"
  /\ Finish(r)
  /\ UNCHANGED <<blocks, tags, created, raced>>

Next ==
  \/ \E r \in Requests :
       \/ \E id \in Ids :
            \/ \E label \in Labels, tag \in AllTags \cup {NoTag}, segments \in Recordings :
                 BeginCreate(r, id, label, tag, segments)
            \/ \E edit \in Edits : BeginEdit(r, id, edit)
            \/ BeginDelete(r, id)
       \/ CommitCreate(r) \/ LoadSegments(r) \/ CommitEdit(r) \/ CommitDelete(r) \/ Rollback(r)
  \/ \E tag \in AllTags : DeleteTag(tag)

Spec == Init /\ [][Next]_vars

-------------------------------------------------------------------------------
(* What the stored history promises. *)

\* A stored block's intervals are closed, positive and apart whatever edits and
\* posts run concurrently, except that two edits of a block of one interval may
\* overlap in time: each then validates an edge the other moves.
IntervalsStaySound ==
  \A id \in Stored : Len(blocks[id].segments) > 1 \/ id \notin raced => Sound(blocks[id].segments)

\* The column the day ranges are queried by is the start of the first interval,
\* unless an edit read the row before and the intervals after another's commit.
BucketFollowsStart ==
  \A id \in Stored \ raced :
    blocks[id].startedAt = blocks[id].segments[Earliest(blocks[id].segments)].start

SameBlock(id) == blocks[id] # NoBlock /\ blocks'[id] # NoBlock

\* An id is recorded once: a post of it that races another, or is repeated, never
\* replaces what is stored.
RecordedOnce == [][\A id \in Ids : SameBlock(id) => blocks'[id].born = blocks[id].born]_vars

\* The pauses of a block are never rewritten: no edit moves an edge inside it, even
\* when two that read the same intervals commit one after the other.
PausesAreKept ==
  [][\A id \in Ids : SameBlock(id) =>
       \A i \in 1 .. Len(blocks[id].segments) - 1 :
         /\ blocks'[id].segments[i].end = blocks[id].segments[i].end
         /\ blocks'[id].segments[i + 1].start = blocks[id].segments[i + 1].start]_vars

Edges(block) == <<block.segments[1].start, block.segments[Len(block.segments)].end>>

\* What changes in a stored block is what the committing request named: an edit of
\* one field never takes back another's edit of a second field.
EditsKeepApart ==
  [][\A id \in Ids : SameBlock(id) =>
       \E r \in Requests :
         LET edit == IF req[r].pc = "saving" /\ req[r].id = id THEN req[r].edit
                     ELSE [label |-> Keep, tag |-> Keep, start |-> Keep, end |-> Keep]
         IN  /\ blocks'[id].label \in {blocks[id].label, edit.label}
             /\ \/ blocks'[id].tag \in {blocks[id].tag, edit.tag}
                \/ blocks'[id].tag = NoTag /\ blocks[id].tag \notin tags'
             /\ blocks'[id].startedAt \in {blocks[id].startedAt, edit.start}
             /\ Edges(blocks'[id])[1] \in {Edges(blocks[id])[1], edit.start}
             /\ Edges(blocks'[id])[2] \in {Edges(blocks[id])[2], edit.end}]_vars
===============================================================================
