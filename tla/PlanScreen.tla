------------------------------- MODULE PlanScreen -------------------------------
(***************************************************************************)
(* The plan screens: the week (app/(app)/(plan)/plan/page.tsx) and the day *)
(* (.../day/page.tsx), with the entry sheet (components/plan/EntrySheet).  *)
(*                                                                         *)
(* What they show is in the URL (lib/plan/view.ts, urls.ts): a range, an   *)
(* open sheet and the tick that makes useOccurrences read again.  Of an    *)
(* entry only its day matters here; PlanEntries has its times and repeats. *)
(***************************************************************************)
EXTENDS Integers, FiniteSets

CONSTANTS
  EntryIds, NoId,
  LastDay, WeekLength, Today,
  FormDays,   \* days people plan something on
  MaxLoads, MaxSheets, MaxMishaps   \* bounds: reads, sheets, losses and foreign changes

Days == 0 .. LastDay

ASSUME ScreenAssumption == /\ WeekLength \in Nat \ {0} /\ LastDay \in Nat /\ Today \in Days
                           /\ LET monday == Today - (Today % WeekLength)   \* this week
                              IN  {monday, monday + WeekLength - 1} \subseteq Days
                           /\ FormDays \subseteq Days
                           /\ NoId \notin EntryIds
                           /\ {MaxLoads, MaxSheets, MaxMishaps} \subseteq Nat

NoDay   == LastDay + 1
Unmade  == -1   \* the id was never given out
ByOther == 0    \* made before, or in another tab

VARIABLES
  server,     \* the entry table: the day of a stored entry, or NoDay
  creator,    \* history: the sheet an id was made by
  url,        \* what readPlanView reads in the address
  shown,      \* the occurrences on the screen: the day of each
  loads,      \* range reads in flight, cancelled ones too
  sheet,      \* the mounted EntrySheet: instance, entry loaded for editing, busy
  writes,     \* POST, PATCH and DELETE in flight
  ticks,      \* Date.now() of the last save or delete that was answered
  reads, mounts, mishaps,   \* bound counters
  unsure,     \* history: unsure[n] counts the answers lost to sheet n
  failed,     \* history: the range shown could not be read
  behind      \* history: the table changed unnoticed since the last read began

screenVars == <<url, shown, sheet, ticks, reads, mounts>>
histVars   == <<failed, behind>>
planVars == <<server, creator, screenVars, loads, writes, mishaps, unsure, histVars>>

-------------------------------------------------------------------------------
(* Addresses: lib/plan/urls.ts as lib/plan/view.ts reads them back. *)

WeekStart(d) == d - (d % WeekLength)

NoSheet   == [kind |-> "none", id |-> NoId]
NewEntry  == [kind |-> "create", id |-> NoId]
Edit(id)  == [kind |-> "edit", id |-> id]

WeekUrl(monday) == [page |-> "week", day |-> Today, week |-> monday, tick |-> 0, sheet |-> NoSheet]
DayUrl(d)       == [page |-> "day", day |-> d, week |-> WeekStart(Today), tick |-> 0, sheet |-> NoSheet]
PlanPath        == WeekUrl(WeekStart(Today))

NewEntryUrl(d)         == [PlanPath EXCEPT !.day = d, !.sheet = NewEntry]
EditOnWeekUrl(id)      == [PlanPath EXCEPT !.sheet = Edit(id)]
EditOnDayUrl(id, d)    == [DayUrl(d) EXCEPT !.sheet = Edit(id)]

\* Mutant: the address a sheet returns to carries no new tick.
WithTick_Same(to, tick) == to
WithTick(to, tick) == [to EXCEPT !.tick = tick]

\* What a page hands its sheet.
ReturnTo == IF url.page = "day" THEN DayUrl(url.day) ELSE PlanPath

RangeOf(u) == IF u.page = "day" THEN {u.day} ELSE u.week .. u.week + WeekLength - 1

\* GET /plan/entries of a range.
OccurrencesIn(range) == [id \in {id \in EntryIds : server[id] \in range} |-> server[id]]

Nothing == [id \in {} |-> NoDay]

\* The days a week links to: all of them, or one while it shows none.
DaysOffered ==
  IF shown # Nothing THEN RangeOf(url)
  ELSE {IF Today \in RangeOf(url) THEN Today ELSE url.week}

\* The links of a page, where no sheet covers it.
HeaderLinks ==
  IF url.page = "day"
  THEN {DayUrl(d) : d \in {url.day - 1, url.day, url.day + 1, Today}}
       \cup {WeekUrl(WeekStart(url.day)), NewEntryUrl(url.day)}
  ELSE {PlanPath, WeekUrl(url.week - WeekLength), WeekUrl(url.week + WeekLength)}
       \cup {DayUrl(d) : d \in DaysOffered} \cup {NewEntryUrl(d) : d \in DaysOffered \cup {url.week}}

\* The day draws whatever it was last given, the week only what falls on its days.
EntryLinks ==
  IF url.page = "day" THEN {EditOnDayUrl(id, url.day) : id \in DOMAIN shown}
  ELSE {EditOnWeekUrl(id) : id \in {id \in DOMAIN shown : shown[id] \in RangeOf(url)}}

-------------------------------------------------------------------------------
NoInstance == [inst |-> 0, editing |-> NoId, loading |-> FALSE, busy |-> FALSE]

Load(range) == [n |-> reads + 1, range |-> range, live |-> TRUE, pending |-> TRUE, data |-> Nothing]

\* What a cancelled read is answered no longer matters.
Cancelled == {[l EXCEPT !.live = FALSE, !.pending = TRUE, !.data = Nothing] : l \in loads}

ScreenInit ==
  /\ server \in [EntryIds -> {Today, NoDay}]
  /\ creator = [id \in EntryIds |-> IF server[id] = NoDay THEN Unmade ELSE ByOther]
  /\ url = PlanPath
  /\ shown = Nothing
  /\ loads = {[n |-> 1, range |-> RangeOf(url), live |-> TRUE, pending |-> TRUE, data |-> Nothing]}
  /\ sheet = NoInstance
  /\ writes = {}
  /\ ticks = 0 /\ reads = 1 /\ mounts = 0 /\ mishaps = 0
  /\ unsure = [n \in 1 .. MaxSheets |-> 0]
  /\ failed = FALSE /\ behind = FALSE

\* The effect of useOccurrences runs when the page mounts and when [from, to, tick]
\* changes; it cancels the read before it.
Rereads(to) == to.page # url.page \/ RangeOf(to) # RangeOf(url) \/ to.tick # url.tick

\* A new address: the page, the effect and the sheet follow it.
Show(to) ==
  /\ RangeOf(to) \subseteq Days
  /\ url' = to
  /\ IF Rereads(to)
     THEN /\ reads < MaxLoads
          /\ reads' = reads + 1
          /\ loads' = Cancelled \cup {Load(RangeOf(to))}
          /\ shown' = IF to.page = url.page THEN shown ELSE Nothing
          /\ behind' = FALSE
          /\ failed' = IF to.page = url.page THEN failed ELSE FALSE
     ELSE UNCHANGED <<reads, loads, shown, behind, failed>>
  /\ IF to.sheet = NoSheet THEN sheet' = NoInstance /\ UNCHANGED mounts
     ELSE /\ mounts < MaxSheets
          /\ mounts' = mounts + 1
          /\ sheet' = [NoInstance EXCEPT !.inst = mounts', !.loading = to.sheet.kind = "edit"]

\* A link of the header, of a day or of an entry.
Follow ==
  /\ url.sheet = NoSheet
  /\ \E to \in HeaderLinks \cup EntryLinks : Show(to)
  /\ UNCHANGED <<server, creator, writes, ticks, mishaps, unsure>>

\* The tab bar stays in reach under a sheet.
PlanTab ==
  /\ url # PlanPath
  /\ Show(PlanPath)
  /\ UNCHANGED <<server, creator, writes, ticks, mishaps, unsure>>

\* handleClose, while a request is under way too: no tick, nothing is read again.
CloseSheet ==
  /\ url.sheet # NoSheet
  /\ Show(ReturnTo)
  /\ UNCHANGED <<server, creator, writes, ticks, mishaps, unsure>>

-------------------------------------------------------------------------------
(* useOccurrences. *)

ServeLoad(l) ==
  /\ l.live /\ l.pending
  /\ loads' = (loads \ {l}) \cup {[l EXCEPT !.pending = FALSE, !.data = OccurrencesIn(l.range)]}
  /\ UNCHANGED <<server, creator, screenVars, writes, mishaps, unsure, histVars>>

\* A cancelled read is dropped, whenever it settles.
SettleLoad(l) ==
  /\ l.live => ~l.pending
  /\ loads' = loads \ {l}
  /\ IF l.live THEN shown' = l.data /\ failed' = FALSE ELSE UNCHANGED <<shown, failed>>
  /\ UNCHANGED <<server, creator, url, sheet, ticks, reads, mounts, writes, mishaps, unsure, behind>>

\* Signed out or offline: an empty range.
FailLoad(l) ==
  /\ l.live /\ mishaps < MaxMishaps
  /\ mishaps' = mishaps + 1
  /\ loads' = loads \ {l}
  /\ shown' = Nothing /\ failed' = TRUE
  /\ UNCHANGED <<server, creator, url, sheet, ticks, reads, mounts, writes, unsure, behind>>

-------------------------------------------------------------------------------
(* The sheet. *)

\* fetchEntry answers, at once or under a save that is already on its way; a 404
\* leaves the sheet a create form.
LoadEntry ==
  /\ sheet.loading
  /\ sheet' = [sheet EXCEPT !.loading = FALSE,
                            !.editing = IF server[url.sheet.id] = NoDay THEN NoId ELSE url.sheet.id]
  /\ UNCHANGED <<server, creator, url, shown, ticks, reads, mounts, loads, writes, mishaps,
                 unsure, histVars>>

FailEntry ==
  /\ sheet.loading
  /\ mishaps < MaxMishaps
  /\ mishaps' = mishaps + 1
  /\ sheet' = [sheet EXCEPT !.loading = FALSE]
  /\ UNCHANGED <<server, creator, url, shown, ticks, reads, mounts, loads, writes,
                 unsure, histVars>>

Send(request) ==
  /\ sheet' = [sheet EXCEPT !.busy = TRUE]
  /\ writes' = writes \cup {[request EXCEPT !.inst = sheet.inst, !.n = Cardinality(writes)]}
  /\ UNCHANGED <<server, creator, url, shown, ticks, reads, mounts, loads, mishaps, unsure, histVars>>

Request(kind, day) ==
  [kind |-> kind, id |-> sheet.editing, day |-> day, returnTo |-> ReturnTo, answer |-> "none",
   inst |-> 0, n |-> 0]

\* Mutant: the button is not disabled while a request is under way.
Save_Unguarded(day) ==
  /\ url.sheet # NoSheet /\ Cardinality(writes) < 2
  /\ Send(Request(IF sheet.editing = NoId THEN "create" ELSE "update", day))

\* handleSave with a complete form.  Until its entry has been loaded, a sheet that
\* was opened to edit creates one.
Save(day) ==
  /\ url.sheet # NoSheet /\ ~sheet.busy
  /\ Send(Request(IF sheet.editing = NoId THEN "create" ELSE "update", day))

DeleteEntry ==
  /\ sheet.editing # NoId /\ ~sheet.busy
  /\ Send(Request("delete", NoDay))

\* POST, PATCH and DELETE /plan/entries; the server gives out a new id.
Serve(w) ==
  /\ w.answer = "none"
  /\ IF w.kind = "create"
     THEN \E id \in EntryIds : /\ creator[id] = Unmade
                          /\ creator' = [creator EXCEPT ![id] = w.inst]
                          /\ server' = [server EXCEPT ![id] = w.day]
     ELSE /\ server' = IF server[w.id] = NoDay THEN server ELSE [server EXCEPT ![w.id] = w.day]
          /\ UNCHANGED creator
  /\ writes' = (writes \ {w})
       \cup {[w EXCEPT !.answer = IF w.kind = "create" \/ server[w.id] # NoDay THEN "ok" ELSE "failed"]}
  /\ UNCHANGED <<screenVars, loads, mishaps, unsure, histVars>>

\* The request or its answer is lost: the sheet cannot tell which.
Lose(w) ==
  /\ w.answer # "failed"
  /\ mishaps < MaxMishaps
  /\ mishaps' = mishaps + 1
  /\ writes' = (writes \ {w}) \cup {[w EXCEPT !.answer = "failed"]}
  /\ unsure' = [unsure EXCEPT ![w.inst] = IF w.answer = "ok" THEN @ + 1 ELSE @]
  /\ behind' = (behind \/ w.answer = "ok")
  /\ UNCHANGED <<server, creator, screenVars, loads, failed>>

\* router.replace, wherever the user has gone in the meantime.
Answer(w) ==
  /\ w.answer # "none"
  /\ writes' = writes \ {w}
  /\ IF w.answer = "ok"
     THEN ticks' = ticks + 1 /\ Show(WithTick(w.returnTo, ticks'))
     ELSE /\ sheet' = IF sheet.inst = w.inst THEN [sheet EXCEPT !.busy = FALSE] ELSE sheet
          /\ UNCHANGED <<url, shown, ticks, reads, mounts, loads, histVars>>
  /\ UNCHANGED <<server, creator, mishaps, unsure>>

\* Another tab or device.
Elsewhere(id) ==
  /\ mishaps < MaxMishaps
  /\ mishaps' = mishaps + 1
  /\ IF server[id] = NoDay THEN creator[id] = Unmade ELSE TRUE
  /\ \E d \in FormDays \cup {NoDay} : d # server[id] /\ server' = [server EXCEPT ![id] = d]
  /\ creator' = [creator EXCEPT ![id] = IF @ = Unmade THEN ByOther ELSE @]
  /\ behind' = TRUE
  /\ UNCHANGED <<screenVars, loads, writes, unsure, failed>>

ScreenNext ==
  \/ Follow \/ PlanTab \/ CloseSheet
  \/ \E l \in loads : ServeLoad(l) \/ SettleLoad(l) \/ FailLoad(l)
  \/ LoadEntry \/ FailEntry
  \/ \E d \in FormDays : Save(d)
  \/ DeleteEntry
  \/ \E w \in writes : Serve(w) \/ Lose(w) \/ Answer(w)
  \/ \E id \in EntryIds : Elsewhere(id)

ScreenSpec == ScreenInit /\ [][ScreenNext]_planVars

-------------------------------------------------------------------------------
(* What the screens promise. *)

\* Once its own requests are answered for and the read they cause has settled, a
\* screen shows the range in its address as it is stored, unless somebody else
\* changed it, an answer was lost or the range could not be read.
PlanShowsStored ==
  (\A l \in loads : ~l.live) /\ writes = {} /\ ~failed /\ ~behind =>
    shown = OccurrencesIn(RangeOf(url))

\* However often Save is pressed, closed and answered late, a sheet stores one new
\* entry, and one more for each of its answers that was lost: an entry has no id of
\* the client's by which a retry could be recognised.
SheetStoresOnce ==
  \A n \in 1 .. MaxSheets : Cardinality({id \in EntryIds : creator[id] = n}) <= 1 + unsure[n]
===============================================================================
