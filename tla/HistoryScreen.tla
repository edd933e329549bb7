----------------------------- MODULE HistoryScreen ------------------------------
(***************************************************************************)
(* The history screen (frontend/components/timer/HistoryPage.tsx) with its *)
(* block editor (BlockEditor.tsx), reading and writing /blocks.            *)
(*                                                                         *)
(* An instant is a number of units, a local day DayLength of them.  A      *)
(* block is its envelope: its pauses take no part here.  Label, tag and    *)
(* status, which every PATCH of the editor carries, are the one field tag. *)
(* Month is another wide view, with its own number of days.                *)
(***************************************************************************)
EXTENDS Integers, FiniteSets, FiniteSetsExt

CONSTANTS
  DayLength, WeekLength,
  Days,          \* local days one can look at
  Today,
  Ids, NoBlock,
  Recorded,      \* Recorded[id]: the block as the timer posts it
  Tags,
  Keep,          \* a field that is not in the body
  MaxLoads, MaxMounts, MaxLosses, MaxElsewhere   \* bounds

Instants == 0 .. DayLength * (Cardinality(Days) + 1) - 1
Blocks == [start : Instants, end : Instants, focus : BOOLEAN, tag : Tags]

ASSUME ScreenAssumption == /\ {DayLength, WeekLength} \subseteq Nat \ {0}
                           /\ Days = 0 .. Cardinality(Days) - 1 /\ Today \in Days
                           /\ Recorded \in [Ids -> Blocks] /\ NoBlock \notin Blocks
                           /\ \A id \in Ids : Recorded[id].start < Recorded[id].end
                           /\ Keep \notin Instants
                           /\ \A set \in {Days, Ids, Tags} : IsFiniteSet(set)
                           /\ {MaxLoads, MaxMounts, MaxLosses, MaxElsewhere} \subseteq Nat

VARIABLES
  server,                        \* the block table
  view, anchor, loading, selected, shown,   \* React state; shown is blocks and summary
  editor,                        \* the mounted BlockEditor: its instance and `busy`
  loads,                         \* range reads in flight, cancelled ones too
  writes,                        \* PATCH and DELETE in flight
  reads, mounts, losses, elsewhere,   \* bound counters
  failed,                        \* history: the range shown could not be read
  behind                         \* history: the table changed unnoticed since the last read began

screenVars == <<view, anchor, loading, selected, shown, editor>>
countVars  == <<reads, mounts, losses, elsewhere>>
vars == <<server, screenVars, loads, writes, countVars, failed, behind>>

-------------------------------------------------------------------------------
(* Days, ranges and totals. *)

DayOf(instant) == instant \div DayLength

\* withLocalTime: the clock time on the instant's own day.
WithLocalTime(instant, clock) == DayOf(instant) * DayLength + clock

\* formatClock.
ClockOf(instant) == instant % DayLength

\* rangeFor, as the days it covers: the server is asked for the instants in them.
RangeFor(v, a) ==
  IF v = "day" THEN {a} ELSE {d \in Days : d \div WeekLength = a \div WeekLength}

Duration(block) == block.end - block.start

FocusSeconds(list, ids) == MapThenSumSet(LAMBDA id : Duration(list[id]), {id \in ids : list[id].focus})

\* groupByLocalDay and bucketDayFocus: a block belongs to the day it started.
OnDay(list, d) == {id \in DOMAIN list : DayOf(list[id].start) = d}

BarOf(list, d) == FocusSeconds(list, OnDay(list, d))

Headline(list) == FocusSeconds(list, DOMAIN list)

\* GET /blocks and GET /blocks/summary of a range.
BlocksIn(range) ==
  [id \in {id \in Ids : server[id] # NoBlock /\ DayOf(server[id].start) \in range} |-> server[id]]

SummaryOf(list) == [t \in Tags |-> FocusSeconds(list, {id \in DOMAIN list : list[id].tag = t})]

-------------------------------------------------------------------------------
NoEditor == [inst |-> 0, busy |-> FALSE]
Waiting  == [pending |-> TRUE]
Empty    == [id \in {} |-> NoBlock]

Load(n, range) == [n |-> n, range |-> range, live |-> TRUE, blocks |-> Waiting, summary |-> Waiting]

\* What a cancelled read is answered no longer matters: it settles at any time.
\* Mutant: the effect has no cleanup, so an earlier read is never cancelled.
Cancelled_Not == loads

Cancelled == {[l EXCEPT !.live = FALSE, !.blocks = Waiting, !.summary = Waiting] : l \in loads}

Init ==
  /\ server \in [Ids -> {NoBlock} \cup Blocks]
  /\ \A id \in Ids : server[id] \in {NoBlock, Recorded[id]}
  /\ view = "day" /\ anchor = Today
  /\ loading = TRUE
  /\ selected = NoBlock
  /\ shown = [blocks |-> Empty, summary |-> SummaryOf(Empty)]
  /\ editor = NoEditor
  /\ loads = {Load(1, RangeFor("day", Today))}
  /\ writes = {}
  /\ reads = 1 /\ mounts = 0 /\ losses = 0 /\ elsewhere = 0
  /\ failed = FALSE /\ behind = FALSE

\* setLoading, setSelectedId(null), and the effect that the new view, anchor or
\* reload runs: it cancels the read before it and starts its own.
Reread(v, a) ==
  /\ reads < MaxLoads
  /\ reads' = reads + 1
  /\ view' = v /\ anchor' = a
  /\ loading' = TRUE
  /\ selected' = NoBlock /\ editor' = NoEditor
  /\ loads' = Cancelled \cup {Load(reads', RangeFor(v, a))}
  /\ behind' = FALSE
  /\ UNCHANGED <<shown, mounts, losses, elsewhere, failed>>

\* The arrows.
Shift(delta) ==
  LET to == anchor + (IF view = "day" THEN delta ELSE delta * WeekLength)
  IN  to \in Days /\ Reread(view, to) /\ UNCHANGED <<server, writes>>

\* Mutant: the view that is shown already is set again, which runs no effect.
ChangeView_Unguarded(v) ==
  IF v = view
  THEN /\ loading' = TRUE /\ selected' = NoBlock /\ editor' = NoEditor
       /\ UNCHANGED <<server, view, anchor, shown, loads, writes, countVars, failed, behind>>
  ELSE Reread(v, anchor) /\ UNCHANGED <<server, writes>>

ChangeView(v) == v # view /\ Reread(v, anchor) /\ UNCHANGED <<server, writes>>

\* The button is there only off today's range; the anchor is a new Date each time.
GoToday ==
  /\ RangeFor(view, anchor) # RangeFor(view, Today)
  /\ Reread(view, Today) /\ UNCHANGED <<server, writes>>

\* A bar or a day heading of a wide view.
DrillDown(d) ==
  /\ view # "day" /\ ~loading /\ DOMAIN shown.blocks # {}
  /\ d \in RangeFor(view, anchor) \/ OnDay(shown.blocks, d) # {}
  /\ Reread("day", d) /\ UNCHANGED <<server, writes>>

-------------------------------------------------------------------------------
(* The two reads of a range. *)

ServeBlocks(l) ==
  /\ l.live /\ l.blocks = Waiting
  /\ loads' = (loads \ {l}) \cup {[l EXCEPT !.blocks = BlocksIn(l.range)]}
  /\ UNCHANGED <<server, screenVars, writes, countVars, failed, behind>>

ServeSummary(l) ==
  /\ l.live /\ l.summary = Waiting
  /\ loads' = (loads \ {l}) \cup {[l EXCEPT !.summary = SummaryOf(BlocksIn(l.range))]}
  /\ UNCHANGED <<server, screenVars, writes, countVars, failed, behind>>

\* Promise.all: both have answered.
Settle(l) ==
  /\ l.live => l.blocks # Waiting /\ l.summary # Waiting
  /\ loads' = loads \ {l}
  /\ IF l.live
     THEN /\ shown' = [blocks |-> l.blocks, summary |-> l.summary]
          /\ loading' = FALSE /\ failed' = FALSE
     ELSE UNCHANGED <<shown, loading, failed>>
  /\ UNCHANGED <<server, view, anchor, selected, editor, writes, countVars, behind>>

\* Either fails: what was shown before stays, under the new heading.
FailLoad(l) ==
  /\ l.live /\ losses < MaxLosses
  /\ losses' = losses + 1
  /\ loads' = loads \ {l}
  /\ loading' = FALSE /\ failed' = TRUE
  /\ UNCHANGED <<server, view, anchor, selected, shown, editor, writes, reads, mounts, elsewhere, behind>>

-------------------------------------------------------------------------------
(* The editor. *)

\* Selecting another block mounts a new editor (key); the same one changes nothing.
Select(id) ==
  /\ ~loading
  /\ id \in DOMAIN shown.blocks /\ id # selected
  /\ mounts < MaxMounts
  /\ mounts' = mounts + 1
  /\ selected' = id
  /\ editor' = [inst |-> mounts', busy |-> FALSE]
  /\ UNCHANGED <<server, view, anchor, loading, shown, loads, writes, reads, losses, elsewhere,
                 failed, behind>>

\* Mutant: both times are taken on the day the block started.
EditOf_Flat(block, tag, start, end) ==
  [tag   |-> tag,
   start |-> IF start = ClockOf(block.start) THEN Keep ELSE WithLocalTime(block.start, start),
   end   |-> IF end = ClockOf(block.end) THEN Keep ELSE WithLocalTime(block.start, end)]

\* handleSave's payload: a time only when its clock reading was changed.
EditOf(block, tag, start, end) ==
  [tag   |-> tag,
   start |-> IF start = ClockOf(block.start) THEN Keep ELSE WithLocalTime(block.start, start),
   end   |-> IF end = ClockOf(block.end) THEN Keep ELSE WithLocalTime(block.end, end)]

Or(given, stored) == IF given = Keep THEN stored ELSE given

Edited(block, edit) ==
  [block EXCEPT !.tag = edit.tag, !.start = Or(edit.start, @), !.end = Or(edit.end, @)]

Send(request) ==
  /\ selected # NoBlock /\ ~editor.busy
  /\ editor' = [editor EXCEPT !.busy = TRUE]
  /\ writes' = writes \cup {[inst |-> editor.inst, id |-> selected, request |-> request,
                             answer |-> "none"]}
  /\ UNCHANGED <<server, view, anchor, loading, selected, shown, loads, countVars, failed, behind>>

SaveEdit(tag, start, end) ==
  selected # NoBlock /\
  LET block == shown.blocks[selected]
      edit  == EditOf(block, tag, start, end)
  IN  /\ Or(edit.end, block.end) > Or(edit.start, block.start)
      /\ Send(edit)

Erase == [erase |-> TRUE]

DeleteBlock == Send(Erase)

\* update_block and delete_block: 404 for a block that is gone, 422 for an envelope
\* that has become empty.
Serve(w) ==
  /\ w.answer = "none"
  /\ LET block == server[w.id]
         after == IF w.request = Erase THEN NoBlock ELSE Edited(block, w.request)
         ok    == block # NoBlock /\ (after # NoBlock => after.start < after.end)
     IN  /\ server' = IF ok THEN [server EXCEPT ![w.id] = after] ELSE server
         /\ writes' = (writes \ {w}) \cup {[w EXCEPT !.answer = IF ok THEN "ok" ELSE "failed"]}
  /\ UNCHANGED <<screenVars, loads, countVars, failed, behind>>

\* The request or its answer is lost: the editor cannot tell which.
Lose(w) ==
  /\ w.answer # "failed"
  /\ losses < MaxLosses
  /\ losses' = losses + 1
  /\ writes' = (writes \ {w}) \cup {[w EXCEPT !.answer = "failed"]}
  /\ behind' = (behind \/ w.answer = "ok")
  /\ UNCHANGED <<server, screenVars, loads, reads, mounts, elsewhere, failed>>

\* Mutant: the screen keeps its list after an edit.
AfterEditorDone_NoReload ==
  /\ selected' = NoBlock /\ editor' = NoEditor
  /\ UNCHANGED <<view, anchor, loading, shown, loads, countVars, failed, behind>>

\* afterEditorDone, whichever editor calls it: one that was closed long ago too.
AfterEditorDone == Reread(view, anchor)

Answer(w) ==
  /\ w.answer # "none"
  /\ writes' = writes \ {w}
  /\ IF w.answer = "ok" THEN AfterEditorDone
     ELSE /\ editor' = IF editor.inst = w.inst THEN [editor EXCEPT !.busy = FALSE] ELSE editor
          /\ UNCHANGED <<view, anchor, loading, selected, shown, loads, countVars, failed, behind>>
  /\ UNCHANGED server

\* The cross and the backdrop, while a request is under way too.
CloseEditor ==
  /\ selected # NoBlock
  /\ AfterEditorDone /\ UNCHANGED <<server, writes>>

\* Another tab or device: the queue delivers a block, an editor changes or deletes one.
Elsewhere(id) ==
  /\ elsewhere < MaxElsewhere
  /\ elsewhere' = elsewhere + 1
  /\ IF server[id] = NoBlock THEN server' = [server EXCEPT ![id] = Recorded[id]]
     ELSE \/ server' = [server EXCEPT ![id] = NoBlock]
          \/ \E tag \in Tags \ {server[id].tag} : server' = [server EXCEPT ![id].tag = tag]
          \/ \E clock \in 0 .. DayLength - 1 \ {ClockOf(server[id].end)} :
               /\ server' = [server EXCEPT ![id].end = WithLocalTime(@, clock)]
               /\ server[id].start < server'[id].end
  /\ behind' = TRUE
  /\ UNCHANGED <<screenVars, loads, writes, reads, mounts, losses, failed>>

Next ==
  \/ Shift(1) \/ Shift(-1) \/ GoToday
  \/ \E v \in {"day", "week"} : ChangeView(v)
  \/ \E d \in Days : DrillDown(d)
  \/ \E l \in loads : ServeBlocks(l) \/ ServeSummary(l) \/ Settle(l) \/ FailLoad(l)
  \/ \E id \in Ids : Select(id) \/ Elsewhere(id)
  \/ \E tag \in Tags, start, end \in 0 .. DayLength - 1 : SaveEdit(tag, start, end)
  \/ DeleteBlock \/ CloseEditor
  \/ \E w \in writes : Serve(w) \/ Lose(w) \/ Answer(w)

Spec == Init /\ [][Next]_vars

-------------------------------------------------------------------------------
(* What the screen promises. *)

\* While the skeleton is up a read that will end it is under way, and no editor is
\* open over the list it will replace; no read changes the list at any other time.
LoadingIsLive ==
  /\ loading = (\E l \in loads : l.live)
  /\ loading => selected = NoBlock
  /\ selected # NoBlock => selected \in DOMAIN shown.blocks

Sum(f) == MapThenSumSet(LAMBDA x : f[x], DOMAIN f)

\* The day bars, the split by tag, the headline and the day headings tell one story:
\* every block on the screen falls on a day of the range in the heading, unless that
\* range could not be read and an earlier one is still shown.
TotalsAgree ==
  ~loading /\ ~failed =>
    /\ Sum([d \in RangeFor(view, anchor) |-> BarOf(shown.blocks, d)]) = Headline(shown.blocks)
    /\ Sum(SummaryOf(shown.blocks)) = Headline(shown.blocks)
    /\ \A d \in Days : OnDay(shown.blocks, d) # {} => d \in RangeFor(view, anchor)

\* Once its own edits are answered for, the screen shows the blocks that are stored,
\* and the split by tag of those blocks, unless somebody else changed them or an answer
\* was lost.
ShowsOwnEdits ==
  ~loading /\ ~failed /\ writes = {} /\ ~behind =>
    /\ shown.blocks = BlocksIn(RangeFor(view, anchor))
    /\ shown.summary = SummaryOf(shown.blocks)

\* An edit never moves a block to other days, also when it spans midnight and when
\* the row has changed since it was loaded.
EditsKeepDays ==
  [][\A id \in Ids : server[id] # NoBlock /\ server'[id] # NoBlock =>
       /\ DayOf(server'[id].start) = DayOf(server[id].start)
       /\ DayOf(server'[id].end) = DayOf(server[id].end)]_vars
===============================================================================
