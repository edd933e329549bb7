# A verification project for ClockLog

TLA+ models of ClockLog's timer, offline queue, account fence, accounts, block
records, plan, history, settings and tags, TLC runs that check them on small
instances, and TLAPS proofs, for every instance, of every safety and action property
those runs find to hold. Paths are relative to the repository root; `engine.ts`, `TimerScreen.tsx`,
`queue.ts` and `session.ts` stand for `frontend/lib/timer/engine.ts`,
`frontend/components/timer/TimerScreen.tsx`, `frontend/lib/api/queue.ts` and
`frontend/lib/api/session.ts`; `timer/`, `plan/` and `shared/user/` for the packages
under `backend/app`.

## 1. The system and its parts

ClockLog is a Pomodoro timer and weekly planner: a Next.js client whose timer runs
entirely in the browser, and a FastAPI server that records finished blocks.

| Part | State | Operations | Talks to |
| --- | --- | --- | --- |
| Timer engine (`engine.ts`) | none: a pure function | `transition` on start, pause, resume, stop, labelSave, skipBreak, resetCycle, tick | the screen, by state and effects |
| Timer screen (`TimerScreen.tsx`) | reducer `Machine`, last render, settings | click and key handlers, 200 ms tick, persistence and drain effects | engine, `localStorage`, `saveBlock`, alerts |
| Offline queue (`queue.ts`, `QueueSync.tsx`) | `clocklog_block_queue`, `flushing`, drop listeners | enqueue, flush, triggers | `localStorage`, `apiFetch`, `POST /blocks` |
| API client and session (`client.ts`, `session.ts`) | `token`, `clocklog_last_user` | 401 policy, account fence, sign-out sweep | `localStorage`, `/auth/*` |
| Block service (`timer/service.py`) | blocks and their intervals | create, edit, delete, ranges, summary | tags |
| Accounts (`shared/user`) | users, mailed links, password stamp | register, verify, login, reset, resolve session | mail |
| Settings (`useSettings.ts`, `settings/page.tsx`, `shared/setting`) | what the page shows, one row per user | read, optimistic save and rollback, get-or-create | the timer |
| Tags (`TagManager.tsx`, `shared/tag`) | the listed tags, a draft, a confirmation; one row per tag | create, rename, recolour, delete | blocks, plan |
| Plan service (`plan/service.py`) | entries | create, edit, delete, weekly expansion | tags |
| Plan screens (`lib/plan`, `components/plan`) | the address, occurrences, entry sheet | links, reads, save, delete, lane layout | plan service |
| History (`HistoryPage.tsx`, `BlockEditor.tsx`) | view, range read, edit in progress | load, edit, delete, group by day | block service |
| Rate limiter (`core/ratelimit.py`) | hits per key | check, evict, Retry-After | auth routes |
| Alerts (`lib/alerts`) | first-block flag, the tab's title | plan, fire, hand the title back | the browser, the timer's own title |

Two things are hard. In the browser the timer has no server: its truth is split over
a reducer, the last render, two `localStorage` keys every tab shares, and a queue that
is read, posted from and rewritten around awaits; ticks come late, tabs close and
reload, the wall clock moves, answers get lost, tokens expire. On the server every
request is one READ COMMITTED transaction that reads, validates what it read and
writes at commit, next to others that do the same. What makes each part correct:

* engine and screen: an ended block is saved exactly once, with closed ordered
  intervals, and the cycle moves with that save and never without it; the label
  sheet is the sheet of the block the reducer holds; a reload rebuilds the screen;
  no time is counted twice;
* queue: a saved block is queued, stored, or refused for good and shown; a rewrite
  is never deleted with the copy it replaces; one flush never posts a block twice;
  it drains in the end;
* fence: what one account leaves in a browser never reaches the next one, and no
  unsynced block goes without the user's agreement;
* accounts: a mailed link acts once and not after a newer one burned it, nobody
  signs in unproven, a reset ends the sessions before it;
* block records: intervals stay closed, ordered and apart, the day column follows the
  first start, a post never overwrites, edits of different fields never undo each other;
* plan: an entry is timed or all-day, shows on its own days in every view, and can be
  read where it is drawn; the screens end up with what is stored;
* history: totals agree with the heading over them, own edits show, days never move;
* settings and tags: a page shows what is saved, whatever answers come late or fail; a
  save changes only its own field, also while the row is being created twice; the tag
  list ends up with what is stored, and an edit changes only what was typed.

`PROJECT.json` lists every component with its status, and every hazard with its
line and the properties that watch it.

## 2. Modules

```
TimerEngine   <-  TimerScreen   <-  TimerTitle, MCTimerScreen
                  TimerTitle    <-  MCTimerTitle, TimerScreen_proofs
BlockDelivery <=  OfflineQueue  <-  MCOfflineQueue, OfflineQueue_proofs
                  AccountFence  <-  MCAccountFence, AccountFence_proofs
                  Accounts      <-  MCAccounts, Accounts_proofs
                  BlockRecords  <-  MCBlockRecords, BlockRecords_proofs
PlanLayout    <-  PlanEntries   <-  MCPlanEntries
                  PlanScreen    <-  MCPlanScreen
PlanEntries, PlanScreen         <-  Plan_proofs
                  HistoryScreen <-  MCHistoryScreen, HistoryScreen_proofs
SettingsForm, TagCard <- SettingsPage <- MCSettingsPage, SettingsPage_proofs
                 (<- EXTENDS, <= implements)
```

**TimerEngine** translates `engine.ts` event by event, as operators without
variables: `OnStart`, `OnPause`, ... `OnTick` are the cases of `transition`, each
returning a state and effects. `NoBlock` is the idle machine (`null`). A block's
label and tag are one value; instants and durations are whole units, so the
seconds-to-milliseconds factor disappears. The effect list becomes a record (what
to save, how many alerts, whether the sheet opens, where the cycle moves), because
nothing depends on the order of effects of different kinds within one event.

**TimerScreen** holds the state. For each tab, `tab[t]` is the reducer's machine
and `screen[t]` the machine of the last commit. This split is the point of the
model: an event is reduced at once, but it is rendered, persisted and drained only
by a commit, and a handler belongs to the last render. React commits what a click or
key dispatches before the next one (`Dispatch` reduces and commits); a tick is
committed later (`Tick`, then `Commit`), and clicks, other tabs, time, settings and
a closing tab come in between. `stored` is the pair of `localStorage` keys,
`saved` the blocks handed to `saveBlock`. `Guest = TRUE` is `/guest`.
`CommitMachine` contains all three effects of a commit: the cycle key, the clock
key (each written only when its dependency changed, as React does), and the drain.

**TimerTitle** adds the title of each tab to the timer: what `TimerScreen` writes when its
title changes or a tick redraws it, what its clean-up writes, and the alert of
`lib/alerts/runtime.ts` with the time-out that takes it back, which outlives the screen.
A step of the timer and what it does to the title are one step (`TimerStep`), since both
happen in one commit; `Redraw` and `Restore` are the title's own steps. A shown time is
reduced to the phase it is shown for, which is what a frozen one gets wrong.

**OfflineQueue** runs `flushQueue` in several tabs over one stored queue. Code
between two awaits is one action. `GoOn` is the code from one settled post to the
next: the rest of the pass, its reconciliation, the next pass, the end. `Save` is
`enqueueAndSync`, `Trigger` the three ways `QueueSync` starts a flush, `Answer*`
the outcomes of an awaited post, `Serve` the server's `create_block` in its order
(session, tag, existing row, intervals). A request can outlive its tab or its
failure (`orphans`). `latest`, `decided`, `refused`, `reported` and `unshown` are history
variables: nothing but properties reads them. `unshown` takes the blocks that were dropped
by a flush whose page went away before it could say so.

**BlockDelivery** is the abstract promise: a recorded block stays owed until the
server has stored it or refused it for good. `ImplementsDelivery` is the refinement:
`owed` is the set of queued ids, `kept` the stored ones.

**AccountFence** puts several accounts into one browser. A tab has a page, a mounted
timer's block, perhaps a flush and a sign-in under way; `token`, `lastUser`, `queue`
and `clock` are the `localStorage` keys of all tabs. `ClearSession` is the sweep, and
sign-in (`adoptSession`, with its question when unsynced blocks would go), sign-out,
the 401 policy and the unasked sweep of a password reset are its callers. What makes
the module worth having is what outlives a sign-out: a block in another tab's memory,
and a flush, which a client-side navigation does not stop and which reads the token
anew for every post. The timer is reduced to its block and the queue to a set of ids:
the order in which a flush posts them is left open.

**Accounts** is `shared/user` as concurrent transactions. `users` and `links` are what
is committed; a transaction's reads, writes and locked links are in `req[r]`, and its
statements are separate actions (`BeginRegister`, `InsertUser`, `CommitRegister`;
`StartBurn`, `Burn`, ...). A statement that meets a lock waits and then looks again,
which is what `Consume` relies on. A password is the number of the change that set it;
`Stamp` truncates its time to seconds as the `pwd` claim does, and `Honoured` is
`resolve_session_user`.

**BlockRecords** is `POST`, `PATCH` and `DELETE /blocks` with `DELETE /tags` beside
them. A create looks for its row and later inserts, or fails on the id another has
inserted. An edit reads the row, then (a second statement) its intervals, validates
what it read, and commits only the columns it changed. **PlanEntries** does the same
for `/plan/entries`, over **PlanLayout**, the pure part: the dates a weekly entry falls
on (`OccurrenceDates`) and the clusters, lanes and rail of the day timeline, as folds.

**PlanScreen** is the week and the day page with the entry sheet. Its state is the
address, as `readPlanView` reads it: a page, a range, an open sheet, a tick. `Show` is
what follows from a new address: the effect of `useOccurrences` when the range or the
tick changed, and the mounting or unmounting of the sheet. Links, the tab bar, closing
the sheet and the late answer of a save are the ways an address changes.

**HistoryScreen** is the history page with its block editor: the two reads of a range
(blocks and summary, which an edit may tear apart), their cancellation, the editor's
`PATCH` and `DELETE` with lost and late answers, and the arithmetic of days and totals.

The server's table stands in these two screen modules directly; `BlockRecords` and
`PlanEntries` show what several requests do to it.

**SettingsForm** is `useSettings` on the timer and on the settings page, the page's
`save()` and the row behind `/settings`. A request under way carries its transaction:
select, insert of a missing row (which waits for, and loses to, a rival's), the fields of
the body, the commit; what the handler closed over (`previous`); and whether the page that
sent it is still there to hear it. **TagCard** is the same for the tags card: its list, its
drafts and confirmations, the reads nobody cancels, and `POST`, `PATCH` and `DELETE /tags`
with their look-ups and the unique name. **SettingsPage** puts both on one page: the card
comes when the settings have loaded and goes when the page is left.

## 3. What is checked

Every run has `CHECK_DEADLOCK FALSE`: users may stop, tabs may all be closed and
bounds run out, none of which is a fault.

| Run | Question | What holds |
| --- | --- | --- |
| `TimerReload` | one tab, reloads at any moment, pauses, late settings that start blocks by themselves, ticks as late as they like, a clock that may be set back once | `SavedSegmentsSound`, `SavedOnce`, `CycleMatchesSaves`, `ReloadRestoresScreen`, `OneAlertPerEnding`, `TimeCountedOnce`, `CompletedRanOut` |
| `TimerGuest` | the guest timer, fair, with alerts in its title and a clock that may be set back once | `GuestNeverStranded`, `TitleNeverFrozen`, `CycleMovesWithItsBlock`, `TimeUpIsNoticed` |
| `QueueDelivery` | two tabs rewriting blocks under flushes, lost answers, expiry, sign-in, a closing tab | `NoRewriteLost`, `DropsAreReported`, `NeverDoublePosts`, `DrainsWhatWasSavedMeanwhile`, `ImplementsDelivery` |
| `QueueSyncs` | losses, an outage, expiry and refusals, fair, tabs stay open | `EventuallySynced` |
| `FenceTwoTabs` | sign-ins, cancelled sign-ins, sign-outs, expired sessions and resets in two tabs with blocks running and queued | `FenceHolds`, `NoBlockVanishes` |
| `AccountsLinks` | two concurrent requests of any kind on one address, rollbacks, expiring links | `LinkSettledOnce`, `SessionsAreProven`, `ResetEndsSessions`, `PasswordChangesByLink` |
| `BlockEdits` | two concurrent requests of any kind on one block, its tag deleted | `IntervalsStaySound`, `BucketFollowsStart`, `RecordedOnce`, `PausesAreKept`, `EditsKeepApart` |
| `PlanEntries` | three entries created, edited concurrently, deleted, and drawn | `ShowsOnItsDays`, `TimelineReadable` |
| `SettingsTags` | the settings page and the timer opened in turn, saves, late and lost answers, the row of a new account created twice at once; tags edited while the list is read | `ShowsWhatIsSaved`, `SavesKeepApart`, `ListsWhatIsStored`, `EditsChangeWhatWasTyped` |
| `HistoryEdits` | views, ranges, edits and answers in any order | `LoadingIsLive`, `TotalsAgree`, `ShowsOwnEdits`, `EditsKeepDays` |
| `PlanSheet` | links, sheets closed under their requests, late and lost answers | `PlanShowsStored`, `SheetStoresOnce` |

Types and five smaller invariants (`SheetIffEnded`, `BreakCarriesNoLabel`, `NoBlockLost`,
`OneCopyQueued`, `TimesMatchKind`) are theorems of section 6 and take no run.

One run exhibits a disagreement between the code and what its documents say, quoted
under `findings` in `PROJECT.json`:

| Run | What happens |
| --- | --- |
| `FenceLeak` | `SavedUnderItsAccount` fails: a flush that outlives a sign-out posts the blocks it had read for the account that signs in next |

The models also contain, and the properties state their exceptions for, what the code
does in these cases, listed as hazards:

* *Timer.* A second, idle tab removes the clock key under a running block, which a refresh
  then does not recover, although `docs/architecture.md:240` says it does. A clock set
  back yields an interval the queue's reader filters out with no report, and under an alert
  it holds the title effect off until it has caught up: `SavedSegmentsSound`,
  `TimeCountedOnce` and `TitleNeverFrozen` speak of the time before. A block paused
  under an alert keeps the app's name in the title, although the comment at
  `TimerScreen.tsx:162` has the live title take over.
* *Queue and sessions.* Re-posting a stored block whose tag is gone is answered 404; a
  block dropped in an early pass of a flush is shown to nobody when the tab is closed before
  the last one, or torn down by another block's 401, although `queue.ts:155` says a drop
  must be visible; a late 401 for an old token removes a fresh one.
* *Concurrent edits.* Two edits of a block of one interval, each valid by itself, store an
  inverted interval; two edits of an entry store an all-day entry with times, and two more
  can turn it into a timed one without a start or an end. `layout.ts:88` takes it that both
  are there, and the day view throws on the entry: `TimelineReadable` speaks of the days it
  can draw (`DaysDrawn`). With two edits, as in the run, every day is one of them; the
  module reaches another with one id and four.
* *History and plan.* A failed history read leaves the blocks of the range before under
  the new heading; an editor closed under its request closes the next one when the answer
  comes, and a plan sheet moves the user back; a sheet opened to edit, saved before its
  entry is read, creates a second one; so does a create whose answer was lost.
* *Settings and tags.* Where two saves overlap, the rollback of one takes the value of the
  other off the screen, although the comment at `settings/page.tsx:45` says it shows the
  truth; a page opened before the last save was served shows the row from before it. An
  older answer to a read of the tags that comes last is shown, and stays; an edit begun
  from such a list takes back what has changed since.

Every property has a mutant in `PROJECT.json`: a definition of the code changed the
way a plausible bug would, under which TLC finds that property violated. The mutated
forms stand next to the definitions they replace, marked `Mutant`.

## 4. Bounds

*Timer.* Focus lasts 2 units, a short break 1, a long break 2, two blocks to a cycle,
so that a block spans a tick that finds it unfinished, a cycle closes within a run, and
the long break is reached. `MaxTime` (3 with no grace, 4 with a grace of 1) lets one
block and its break end and a late tick overrun the grace; two starts, two openings and two
intervals allow two blocks, a reload during either, and a pause. One tab suffices for
what a reload may break; what holds of several is proved (section 6). No label is given:
nothing these runs check tells one from another, and `BreaksUnlabelled` is proved. The
clock may be set back once in both. The title is checked with the guest timer, whose
screen and engine are the same, with one interval to a block; an alert stays in it for one
unit, so that a pause, an end and a reload fit under it.

*Queue.* Two tabs, two ids, two contents (one carries the tag, one has intervals the
server refuses). Two saves of one id are needed for a rewrite. One loss, expiry,
sign-in or closing tab each suffices for the interleavings named in the hazards, and
`QueueDelivery` allows them together; `QueueSyncs` has one id and adds an outage.

*Fence.* Two tabs, two accounts, one block, two sign-ins, one loss, revocation and
reset: the fence speaks of the last account and the next. `FenceLeak` needs one tab and
two blocks, since the first post of a flush is the only one sent under the old token.

*Accounts.* Two requests (every race named is between two), one address, three links
(one acts, one burns, one is new), lives of 2 instants and two instants to a second, so
that links and sessions expire and a stamp is truncated; two passwords, two sessions.

*Blocks and plan.* One block and two requests; a recording of one interval, one with a
pause and one that must be refused; edits of each field and of both edges. The plan's
day has 4 units and its rail two of them; three entries, so that a cluster has a long
and two short members; weeks before and after the entries' date; two edits.

*Settings.* Two settings of two values, an account with a row and one without; two pages
opened, two saves and one fault (a lost request or answer, or another device): a read that
creates the row, a save that races it, and a page that opens under both. Tags: one to
find and one to make, two names and colours, two writes, one fault. The form and the card
share nothing but the page, so a visit works at one of them, and at the card of the page
it began with (`WithinBounds`, `CardStep`).

*Screens.* History: three days of two units, weeks of two days, one block that spans
midnight, three reads, two editors, one loss, one foreign change. Plan: four days, weeks
of two, entries planned on the first day of either week, two ids, three reads, two
sheets, one loss or foreign change. Three reads are the one shown, the one left behind
and the one an answer starts.

Tabs of the queue, ids, requests, accounts and links are symmetric, and used as such in
runs without liveness.

## 5. Fairness

`TimerScreen!Fairness`: a visible tab's interval keeps firing and React keeps
committing. Nothing obliges the user, the clock, or a closed tab; nor, in
`FairTitleSpec`, the title or an alert's time-out. `TimeUpIsNoticed` needs no more.

`OfflineQueue!Fairness`: the 30 s interval of an open tab (`Trigger`), the
continuation of a settled post (`Answer`), and that a request is served or fails in
the end (`Serve`, with losses bounded). The last is the browser's promise and not
the code's: `apiFetch` sets no timeout, and a request that hung for ever would hold
`flushing`. `EventuallySynced` assumes, as its antecedent, that from some point on
the network is up, the session is good and a tab is open.

## 6. What is proved

The `_proofs` modules prove the following for every value of the constants, any number of
tabs, ids, copies, labels, requests, addresses, links and entries, any settings and any
bounds, unless an assumption is named. Types are proved too: `TypeCorrect` in the modules
of the queue, the timer, the fence, the accounts, the block records and the settings with
the tags, `ScreenTypeCorrect` for the plan's screens.

| Module | Theorems, with the property they state |
| --- | --- |
| `OfflineQueue_proofs` | `RewritesSurvive` (`NoRewriteLost`), `BlocksSurvive` (`NoBlockLost`), `DropsAreShown` (`DropsAreReported`), `NoDoublePost` (`NeverDoublePosts`), `DrainsAll` (`DrainsWhatWasSavedMeanwhile`), `DeliveryImplemented` (`ImplementsDelivery`), `OneCopy`, `OnlyDecidedRemoved` |
| `TimerScreen_proofs` | `SheetFollowsBlock` (`SheetIffEnded`), `BreaksUnlabelled` (`BreakCarriesNoLabel`), `SegmentsOfSaves` (`SavedSegmentsSound`), `GuestsMoveOn` (`GuestNeverStranded`), `HandedOverOnce` (`SavedOnce`), `CycleCountsSaves` (`CycleMatchesSaves`), `AlertedOnce` (`OneAlertPerEnding`), `ReloadRestores` (`ReloadRestoresScreen`), `CountedOnce` (`TimeCountedOnce`), `TitleUnfrozen` (`TitleNeverFrozen`), `CycleMoves` (`CycleMovesWithItsBlock`), `CompletedWorked` (`CompletedRanOut`) |
| `AccountFence_proofs` | `FenceStands` (`FenceHolds`), `NothingVanishes` (`NoBlockVanishes`) |
| `Accounts_proofs` | `LinksSettle` (`LinkSettledOnce`), `SessionsProven` (`SessionsAreProven`), `PasswordsChangeByLink` (`PasswordChangesByLink`), `ResetsEndSessions` (`ResetEndsSessions`) |
| `BlockRecords_proofs` | `IntervalsAreSound` (`IntervalsStaySound`), `BucketIsStart` (`BucketFollowsStart`), `RecordedOnlyOnce` (`RecordedOnce`), `PausesStay` (`PausesAreKept`), `EditsStayApart` (`EditsKeepApart`) |
| `Plan_proofs` | `TimesMatch` (`TimesMatchKind`), `DaysAreShown` (`ShowsOnItsDays`), `TimelineAlwaysReadable` (`TimelineReadable`), `ShowsStored` (`PlanShowsStored`), `StoresOnce` (`SheetStoresOnce`) |
| `HistoryScreen_proofs` | `LoadingStaysLive` (`LoadingIsLive`), `EditsAreShown` (`ShowsOwnEdits`), `TotalsAlwaysAgree` (`TotalsAgree`), `EditsStayOnTheirDays` (`EditsKeepDays`) |
| `SettingsPage_proofs` | `FieldsAreShown` (`ShowsWhatIsSaved`), `SavesStayApart` (`SavesKeepApart`), `CardIsCurrent` (`ListsWhatIsStored`), `EditsChangeTheTyped` (`EditsChangeWhatWasTyped`), `RequestsApart` |

*Queue.* The inductive invariant `QueueInv` conjoins `TypeOK`, `OneCopyQueued`,
`NoRewriteLost`, `RemovesOnlyDecided` and `DecidedIsSettled` (a decided item's id is
stored or refused). `NoRewriteLost` alone is not inductive: a reconciliation removes items
a flush remembered several steps ago, so one has to know that whatever a flush remembers
was decided *as that copy*. The argument then is: a removal only takes decided items;
`Save` makes the latest copy queued; the server only adds to `decided`. Much of the proof
is about `Filter`, which keeps the items at given indices in order (`FilterKeeps` and the
lemmas on `Rank`), and about `GoOn`, whose four cases are stated once in `GoOnFacts`.
`MCOfflineQueue` checks on short queues that `Filter` is the library's `SelectSeq`; it is
written by indices because what a recursive operator computes cannot be proved here.
`NeverDoublePosts` and `DrainsWhatWasSavedMeanwhile` rest on `BatchesApart`: the ids of a
batch are distinct, and what of it is still to come has not been attempted. For
`DropsAreReported`, `DropInv` adds what a flush remembers for removal: each item is stored
or among what it will report, so a reconciliation takes nothing off in silence.

*Timer, any tabs.* `ScreenInv` adds to the types and two invariants, `SheetIffEnded` and
`BreakCarriesNoLabel`, `OnlyTicksRunAhead`: a tab is either settled or shows a running
block. It is needed because `labelSave` labels whatever block it is given and `start`
replaces it: a user who dismisses a sheet must be looking at the block the reducer holds.
From it, `TransitionKeeps` shows event by event that the engine keeps unsaved blocks
unlabelled, saved breaks unlabelled, and the sheet in step with the block, and
`CommitSound` carries that through a commit. `SegmentsOfSaves` speaks, as its property
does, of the time until the clock is set back (`NeatSoFar`); its invariant `NeatInv` says
of every block held, waiting, stored or saved that its intervals are in order, end before
now, and are closed but for the last of one that runs. `GuestsMoveOn` assumes `Guest` and
goes event by event: an event either leaves no ended block or the automatic dismissal
follows in the same reduction. `TitleUnfrozen` is about `TitleSpec`, in any number of tabs
and until the clock is set back. Its `TitleInv` says of each tab that a shown time is that
of the screen, that none is shown before `flashUntil`, that an alert has its time-out
pending, and that a time-out which is up finds the clock as far as it waits for: else the
alert would stay.

`CompletedWorked` holds however the clock is set. Its `RanInv` says of every block held,
stored or on its way that all its intervals but the last are closed (`Tidy`), that its
length is one some settings give its kind, and that an ended one which counts as completed
was worked for that length (`RanOut`). Only a tick completes a block, by `Elapsed` against
`targetMs`; the block is then closed at the very instant that was measured, which adds
nothing and takes nothing away (`CloseBlockWorked`). `Elapsed` and `Worked` are folds over
the intervals: that a fold comes to a number, the same for intervals with the same starts
and ends, is shown by induction over the subsets of their positions (`SumUpIsInt`,
`WorkedAsElapsed`), stated with sets.

*Timer, one tab.* The other theorems assume `OneTab` (one tab, signed in), as the runs do;
with two, none of them holds of the key both write. `LedgerInv` keeps books: the ids saved,
waiting to be saved and held by the machine are distinct and below the next one; the cycle
is the number of focus blocks saved since the reset or waiting; the alerts are the blocks
that ended. It holds of the machine of an open tab and, with nothing waiting, of the one
localStorage would rebuild, and a rendered screen is what localStorage holds; a commit then
only moves what waits to what is saved. `TransitionBooked` is the engine's part of it,
event by event. `OrderInv` adds that no interval begins before the last one handed on has
ended, from which `CountedOnce` follows, again until the clock is set back. `CycleMoves`
assumes one tab, a guest's or not (`OneScreen`): the block of the machine, of the screen and
of localStorage carries the cycle's count (`MoveInv`), so the engine moves the cycle by one.

*Fence.* `FenceHolds` speaks of storage in a browser that never showed two tabs. It is not
inductive, because a tab puts its block there later: `MemoryFenced` says the same of the
block in the memory of the one tab, `OneTabOpen` that there is one, and `PagesSound` that
only a mounted timer holds a block and only `/login` has a sign-in under way. Most steps
only move blocks between memory and storage (`QuietKeeps`); the rest sweep or adopt.
`NoBlockVanishes` holds in any number of tabs and rests on `RemovesOnlyStored`: what a flush
is about to take off the queue is on the server, whoever owns it there.

*Accounts.* A link settles once because the transaction that is about to act
on it holds its lock and read it unused, which no single row says; so `AccountsInv`
adds, to the types and the two invariants, what a transaction under way is entitled to
(`RequestsSound`), that no two hold one lock (`LocksApart`), that no two register one
address past the unique index (`RegistrationsApart`), and how the rows relate
(`RowsSound`: a link that has acted or was burned is marked used, a verified user has
a link that acted). `TransactionMoves` and `CommitKeepsRequests` carry the parts about other
requests through a step of one. `ResetsEndSessions` rests on a second invariant,
`StampsSound`: every stamp, in a row, in a transaction's copy of a row or in a session,
is the second its password was set in.

*Block records.* `RecordsInv` says that stored intervals lie apart around each pause, and
how what an edit has read relates to the row: they differ at most at the two edges, and not
at all if no other edit was committed since (`fresh`). A pause is between two intervals, so
its ends are inner edges, which no edit writes: that is why two edits can invert a block of
one interval and no other.

*Plan's entries.* `EntriesInv` says that an edit no other overlaps has validated the times
against the entry as it is. `ShowsOnItsDays` needs no invariant but types: it is about
`OccurrenceDates` alone, for ranges of any length and any week. So is `TimelineReadable`
about `layout.ts` alone, for any finite set of timed entries with both times. An order by start exists
for any finite set of entries, and the proof uses nothing else of the sort. The two folds
are unfolded one entry at a time (`FoldPasses`); that the recursive function behind a fold
exists is shown by induction over the subsets of a finite set (`SubsetInduction`), stated
with sets and not with an operator parameter. The first pass keeps `Clustered`: clusters
by start, each beginning when the ones before have ended. The second keeps `InLanes`: two
entries of one lane do not overlap, a lane ends with one of its entries, and at the start of
some entry every lane is taken, which is why no lane is wasted. None of it depends on
which of the free lanes is taken.

*Plan's screens.* `PlanInv` conjoins the types with four parts. `LoadsFollow`: at most one
read is live, and it is of the range in the address. `ReadStands`: unless a write went
through that the screen has not heard of, what a live read has got is what is stored, and
without one so is what is shown. `OneWrite`: a sheet has one request at a time, and one
that is not busy has none. `MadeOnce` counts for each sheet the entries it created against
the creates it lost the answer to: one more at most, and none more while it may still store.

*History.* `HistoryInv` says that at most one read is live, and that every version of a
block that is held anywhere - in the table, on the screen, in a read or a request under way
- lies on its recorded days, since `WithLocalTime` keeps the day of its instant (`SameDay`).
`EditsAreShown` adds `ShowInv`: as long as no edit went through unheard, each of the two
answers of the live read is that of the table as it is. `TotalsAlwaysAgree` adds `RangeInv`:
what is shown starts on the days of the heading. The totals are then sums over the same
blocks, taken in two ways; that a sum over a finite set is the sum of its sums by day is
proved by induction over the subsets of a finite set, stated the same way.

*Settings and tags.* `FormInv` says what a transaction is entitled to: one that found the
row can rely on it, one that inserted knows that there is none yet, and no two have
inserted. That no two requests share a name (`NamesApart`) takes a pigeonhole over the
finite set of them. For what the page shows, `ShowInv` adds `ReadStands` (what the read of
the mounted page has found is the row), `SavesStand` (the page's saves are of different
fields, and one that was alone can put back what it replaced) and `FieldsStand` (a field
shows its save under way, or else the row). The card's `ListInv` numbers the reads
(`ReadsNumbered`), says that a write nobody hears leaves the card behind
(`UnheardBehind`), and that else the last read has read what is stored (`ListStands`).
`EditInv` follows an edit from the draft to the row: ids are given once (`IdsGiven`), an
edit begun up to date is alone with its tag, and what was not typed over is what the tag
has (`DraftStands`, `EditsStand`).

*Assumptions.* The proofs assume the constants' assumptions stated in the modules, those
named above, and that the actions are what the modules say. The former are what the code
has: days, ids and tags of the history are finitely many (a sum needs it), there is a name
and a colour to give a tag.

*Only model-checked.* Liveness (`TimeUpIsNoticed`, `EventuallySynced`) is out of the
prover's reach: both rest on fairness. Every other property a passing run checks is
stated by a theorem above.

## 7. What is not modelled, and the plan

Left out of the modelled parts, on purpose:

* *Timer and queue*: `deserializeState`'s validation of foreign or old shapes (a tab
  reads back only what a tab wrote); a failing `setItem`; wording and sound of alerts.
  The guest timer is checked in one tab; that nobody is stranded is proved for several.
* *Fence*: requests that outlive their tab (`OfflineQueue` has them). `FenceHolds` is
  stated for a browser that never showed two tabs and for a `/auth/me` that answers;
  `FenceLeak` shows that the code does not go further.
* *Accounts*: one transaction per request; expiry is compared when the lock is got; the
  server's clock never goes back; a password's change time is the instant of its commit;
  rate limits.
* *Block records and plan entries*: the flush and the commit of a transaction are one
  action, since row locks make its writes appear at once; list reads, which change
  nothing. `IntervalsStaySound`, `BucketFollowsStart` and `TimesMatchKind` leave out
  what two overlapping edits do to one row, as section 3 says.
* *History*: a block is its envelope; label, tag and status are one field; month is
  another wide view; days are of one length (no change of daylight saving time).
* *Settings and tags*: the notices, the new tag's input, and what the timer does with
  settings that come late, which is in `TimerScreen`.
* *Plan screens*: an entry is its day; reading one entry for the sheet is one step; what
  is typed is arbitrary; `Date.now()` never repeats a tick; the browser's back button
  and leaving the plan for other parts.

Next, in this order:

1. A run that shows the entry with one time as a disagreement with `layout.ts:88`, in the
   place of a run another can take over.
2. The history's months and the change of daylight saving time, and the plan's now marker
   and tag picker, where they hold state.
3. The pages that verify an address and register one, in front of `Accounts`.

The rate limiter stays unmodelled: no await stands between the look-up of a key's hits
and the record of a new one, so nothing interleaves with it, and its boundaries are what
`backend/tests/test_rate_limit.py` checks with a patched clock. Sound and notifications
of an alert are output; the permission and the first-block flag decide nothing else.
Presentational components, mail, configuration, migrations and infrastructure stay
unmodelled as well: they keep no state another part reads.
