------------------------------ MODULE AccountFence ------------------------------
(***************************************************************************)
(* Several accounts in one browser.  localStorage belongs to the browser,  *)
(* not to the session: lib/api/session.ts and client.ts sweep it whenever  *)
(* another account signs in, and ask first when unsynced blocks would go.  *)
(*                                                                         *)
(* The timer is reduced to the block a mounted TimerScreen holds, and the  *)
(* queue to a set of block ids, any of which a flush may post next:        *)
(* TimerScreen and OfflineQueue have their detail.                         *)
(* What matters here is what outlives a sign-out: a block in another tab's *)
(* memory, and a flush, which a client-side navigation does not stop.      *)
(***************************************************************************)
EXTENDS Naturals, Sequences

CONSTANTS
  Tabs,      \* browser tabs
  Accounts,  \* users of the server
  Nobody,    \* no account: signed out, or a block the server does not have
  Blocks,    \* ids a tab may start a block under
  NoBlock,   \* no block
  NotStarted,  \* the recorder of a block nobody has started
  MaxSignIns, MaxLosses, MaxRevocations, MaxMeFailures, MaxResets   \* bounds

ASSUME NobodyAssumption  == Nobody \notin Accounts /\ NoBlock \notin Blocks
ASSUME LimitsAssumption == {MaxSignIns, MaxLosses, MaxRevocations, MaxMeFailures, MaxResets} \subseteq Nat

VARIABLES
  token,     \* localStorage: the session token, 0 when there is none
  lastUser,  \* localStorage: clocklog_last_user
  queue,     \* localStorage: clocklog_block_queue
  clock,     \* localStorage: clocklog_clock
  tab,       \* tab[t]: page, wired, timer, flush and the sign-in under way
  owner,     \* the server: owner[k] is the account of the k-th token issued
  dead,      \* the server: tokens it no longer honours
  server,    \* the server: the account a block is stored under
  recorder,  \* history: the account signed in when a block was started
  saved,     \* history: blocks handed to saveBlock
  givenUp,   \* history: unsynced blocks the user agreed to discard
  lostToReset,  \* history: unsynced blocks a password reset swept unasked
  crowded,   \* history: two tabs were open at once
  losses, revocations, meFailures, resets   \* bound counters

storageVars == <<token, lastUser, queue, clock>>
serverVars  == <<owner, dead, server>>
historyVars == <<recorder, saved, givenUp, lostToReset, crowded>>
countVars   == <<losses, revocations, meFailures, resets>>
vars == <<storageVars, tab, serverVars, historyVars, countVars>>

AppPages == {"timer", "app"}   \* inside the shell: the timer, or any other screen

AccountOf(tok) == IF tok = 0 THEN Nobody ELSE owner[tok]

IdleFlush == [pc |-> "idle"]
NewTab(page) == [page |-> page, wired |-> page = "app", timer |-> NoBlock, flush |-> IdleFlush,
                 signIn |-> 0]

-------------------------------------------------------------------------------
(* Storage. *)

\* Mutant: the sweep lists the keys it knows, and the timer's is not among them.
SweepKeys_ByList == queue' = {} /\ UNCHANGED clock

\* clearSession: every clocklog_ key goes, whoever wrote it.
SweepKeys == queue' = {} /\ clock' = NoBlock

ClearSession == SweepKeys /\ token' = 0 /\ lastUser' = Nobody

-------------------------------------------------------------------------------
(* A flush, with the token read anew for every post. *)

FreshFlush == [tried |-> {}, batch |-> {}, removals |-> {}]

\* The flush f of tab t resumes over the stored queue q: up to its next post,
\* or to its end.  `state` is the tab as this step leaves it otherwise.
GoOn(t, state, f, q, blocked) ==
  LET passOver == f.batch = {} \/ blocked
      q2       == IF passOver THEN q \ f.removals ELSE q
      batch    == IF passOver THEN q2 \ f.tried ELSE f.batch
      posts    == ~blocked /\ batch # {}
  IN  /\ queue' = q2
      /\ \/ ~posts /\ tab' = [tab EXCEPT ![t] = [state EXCEPT !.flush = IdleFlush]]
         \/ /\ posts
            /\ \E b \in batch :
                 tab' = [tab EXCEPT ![t] = [state EXCEPT !.flush =
                   [pc |-> "posting", item |-> b, token |-> token, answer |-> "none",
                    tried |-> f.tried \cup {b}, batch |-> batch \ {b},
                    removals |-> IF passOver THEN {} ELSE f.removals]]]

CallFlush(t, state, q) ==
  IF tab[t].flush.pc = "posting" \/ q = {}
  THEN queue' = q /\ tab' = [tab EXCEPT ![t] = state]
  ELSE GoOn(t, state, FreshFlush, q, FALSE)

-------------------------------------------------------------------------------
Init ==
  /\ token = 0 /\ lastUser = Nobody /\ queue = {} /\ clock = NoBlock
  /\ tab = [t \in Tabs |-> NewTab("closed")]
  /\ owner = << >> /\ dead = {}
  /\ server = [b \in Blocks |-> Nobody]
  /\ recorder = [b \in Blocks |-> NotStarted]
  /\ saved = {} /\ givenUp = {} /\ lostToReset = {} /\ crowded = FALSE
  /\ losses = 0 /\ revocations = 0 /\ meFailures = 0 /\ resets = 0

-------------------------------------------------------------------------------
(* The screens. *)

OpenTab(t) ==
  /\ tab[t].page = "closed"
  /\ \E page \in {"app", "login"} : tab' = [tab EXCEPT ![t] = NewTab(page)]
  /\ crowded' = (crowded \/ \E other \in Tabs : tab[other].page # "closed")
  /\ UNCHANGED <<storageVars, serverVars, recorder, saved, givenUp, lostToReset, countVars>>

CloseTab(t) ==
  /\ tab[t].page # "closed"
  /\ tab' = [tab EXCEPT ![t] = NewTab("closed")]
  /\ UNCHANGED <<storageVars, serverVars, historyVars, countVars>>

\* Client-side navigation: the timer mounts from localStorage, and unmounts.
ShowTimer(t) ==
  /\ tab[t].page = "app"
  /\ tab' = [tab EXCEPT ![t].page = "timer", ![t].timer = clock]
  /\ UNCHANGED <<storageVars, serverVars, historyVars, countVars>>

LeaveTimer(t) ==
  /\ tab[t].page = "timer"
  /\ tab' = [tab EXCEPT ![t].page = "app", ![t].timer = NoBlock]
  /\ UNCHANGED <<storageVars, serverVars, historyVars, countVars>>

StartBlock(t) ==
  /\ tab[t].page = "timer"
  /\ tab[t].timer = NoBlock
  /\ \E b \in Blocks :
       /\ recorder[b] = NotStarted
       /\ recorder' = [recorder EXCEPT ![b] = AccountOf(token)]
       /\ tab' = [tab EXCEPT ![t].timer = b]
       /\ clock' = b
  /\ UNCHANGED <<token, lastUser, queue, serverVars, saved, givenUp, lostToReset, crowded, countVars>>

\* The block ends: its key goes, and saveBlock queues it and flushes.
SaveBlock(t) ==
  /\ tab[t].timer # NoBlock
  /\ clock' = NoBlock
  /\ saved' = saved \cup {tab[t].timer}
  /\ CallFlush(t, [tab[t] EXCEPT !.timer = NoBlock], queue \cup {tab[t].timer})
  /\ UNCHANGED <<token, lastUser, serverVars, recorder, givenUp, lostToReset, crowded, countVars>>

\* QueueSync's mount, interval and online event.  The interval is never
\* cleared: it goes on after a client-side navigation to /login.
Trigger(t) ==
  /\ tab[t].wired
  /\ tab[t].flush.pc = "idle"
  /\ queue # {}
  /\ CallFlush(t, tab[t], queue)
  /\ UNCHANGED <<token, lastUser, clock, serverVars, historyVars, countVars>>

-------------------------------------------------------------------------------
(* Signing in and out. *)

\* POST /auth/login or /auth/verify-email succeeded: a new session token.
SubmitLogin(t, account) ==
  /\ tab[t].page = "login"
  /\ tab[t].signIn = 0
  /\ Len(owner) < MaxSignIns
  /\ owner' = Append(owner, account)
  /\ tab' = [tab EXCEPT ![t].signIn = Len(owner')]
  /\ UNCHANGED <<storageVars, dead, server, historyVars, countVars>>

\* GET /auth/me tells whose token it is, or fails and leaves the fence blind.
LearnOwner(t, id) ==
  \/ /\ tab[t].signIn \notin dead
     /\ id = owner[tab[t].signIn]
     /\ UNCHANGED meFailures
  \/ /\ meFailures < MaxMeFailures
     /\ id = Nobody
     /\ meFailures' = meFailures + 1

IsOtherAccount(id) == id # Nobody /\ lastUser # Nobody /\ lastUser # id

\* adoptSession once /auth/me has settled: the sweep, after a confirm when the
\* queue holds blocks, then the token; then into the app.
AdoptSession(t) ==
  /\ tab[t].signIn # 0
  /\ \E id \in Accounts \cup {Nobody} :
       /\ LearnOwner(t, id)
       /\ IF IsOtherAccount(id)
          THEN SweepKeys /\ givenUp' = givenUp \cup queue
          ELSE UNCHANGED <<queue, clock, givenUp>>
       /\ lastUser' = IF id # Nobody THEN id ELSE lastUser
  /\ token' = tab[t].signIn
  /\ tab' = [tab EXCEPT ![t].page = "app", ![t].wired = TRUE, ![t].signIn = 0]
  /\ UNCHANGED <<serverVars, recorder, saved, lostToReset, crowded, losses, revocations, resets>>

\* The user cancels at the confirm: nothing is written.
CancelSignIn(t) ==
  /\ tab[t].signIn # 0
  /\ tab[t].signIn \notin dead
  /\ IsOtherAccount(owner[tab[t].signIn])
  /\ queue # {}
  /\ tab' = [tab EXCEPT ![t].signIn = 0]
  /\ UNCHANGED <<storageVars, serverVars, historyVars, countVars>>

\* signOut on the settings screen: the user agreed, if there was anything to ask.
SignOut(t) ==
  /\ tab[t].page = "app"
  /\ givenUp' = givenUp \cup queue
  /\ ClearSession
  /\ tab' = [tab EXCEPT ![t].page = "login"]
  /\ UNCHANGED <<serverVars, recorder, saved, lostToReset, crowded, countVars>>

\* /reset-password: the server revokes the account's sessions, and the screen
\* sweeps the browser without asking.
ResetPassword(t, account) ==
  /\ tab[t].page = "login"
  /\ tab[t].signIn = 0
  /\ resets < MaxResets
  /\ resets' = resets + 1
  /\ dead' = dead \cup {k \in DOMAIN owner : owner[k] = account}
  /\ lostToReset' = lostToReset \cup queue
  /\ ClearSession
  /\ UNCHANGED <<tab, owner, server, recorder, saved, givenUp, crowded, losses, revocations,
                 meFailures>>

-------------------------------------------------------------------------------
(* The server, and what comes back. *)

IsHonoured(tok) == tok # 0 /\ tok \notin dead

\* POST /blocks: the session, then the owner of an existing row.
CreateStatus(b, tok) ==
  IF ~IsHonoured(tok) THEN "401"
  ELSE IF server[b] \notin {Nobody, owner[tok]} THEN "403"
  ELSE "ok"

Serve(t) ==
  LET f == tab[t].flush
  IN  /\ f.pc = "posting"
      /\ f.answer = "none"
      /\ tab' = [tab EXCEPT ![t].flush.answer = CreateStatus(f.item, f.token)]
      /\ server' = IF CreateStatus(f.item, f.token) = "ok"
                   THEN [server EXCEPT ![f.item] = owner[f.token]] ELSE server
      /\ UNCHANGED <<storageVars, owner, dead, historyVars, countVars>>

\* The request, or the answer to it, is lost.
Lose(t) ==
  /\ tab[t].flush.pc = "posting"
  /\ tab[t].flush.answer # "failed"
  /\ losses < MaxLosses
  /\ losses' = losses + 1
  /\ tab' = [tab EXCEPT ![t].flush.answer = "failed"]
  /\ UNCHANGED <<storageVars, serverVars, historyVars, revocations, meFailures, resets>>

AnswerOk(t) ==
  LET f == tab[t].flush
  IN  /\ f.pc = "posting" /\ f.answer = "ok"
      /\ GoOn(t, tab[t], [f EXCEPT !.removals = @ \cup {f.item}], queue, FALSE)
      /\ UNCHANGED <<token, clock>>

\* 403 (another account's block) and failures stop the flush; nothing is removed.
AnswerBlocked(t) ==
  LET f == tab[t].flush
  IN  /\ f.pc = "posting" /\ f.answer \in {"403", "failed"}
      /\ GoOn(t, tab[t], f, queue, TRUE)
      /\ UNCHANGED <<token, clock>>

\* Mutant: an expired session takes the whole account's state with it.
HandleUnauthorized_Sweeps(t, state) ==
  /\ token' = 0 /\ queue' = {} /\ clock' = NoBlock
  /\ tab' = [tab EXCEPT ![t] = NewTab("login")]

\* handleUnauthorized drops whatever token is stored, and only that.  Off the
\* public screens it also navigates, which tears the tab down; on /login a
\* flush left over from before the sign-out just ends.
HandleUnauthorized(t, state) ==
  /\ token' = 0
  /\ UNCHANGED clock
  /\ IF tab[t].page \in AppPages
     THEN tab' = [tab EXCEPT ![t] = NewTab("login")] /\ queue' \in {queue, queue \ state.removals}
     ELSE tab' = [tab EXCEPT ![t].flush = IdleFlush] /\ queue' = queue \ state.removals

AnswerUnauthorized(t) ==
  /\ tab[t].flush.pc = "posting" /\ tab[t].flush.answer = "401"
  /\ HandleUnauthorized(t, tab[t].flush)

Answer(t) ==
  /\ AnswerOk(t) \/ AnswerBlocked(t) \/ AnswerUnauthorized(t)
  /\ UNCHANGED <<lastUser, serverVars, historyVars, countVars>>

\* Any other request of a shell screen (GET /settings, /tags, ...) meets a 401.
RequestRefused(t) ==
  /\ tab[t].page \in AppPages
  /\ ~IsHonoured(token)
  /\ HandleUnauthorized(t, FreshFlush)
  /\ UNCHANGED <<lastUser, serverVars, historyVars, countVars>>

\* A session expires, or a reset elsewhere revokes it.
Revoke(tok) ==
  /\ tok \notin dead
  /\ revocations < MaxRevocations
  /\ revocations' = revocations + 1
  /\ dead' = dead \cup {tok}
  /\ UNCHANGED <<storageVars, tab, owner, server, historyVars, losses, meFailures, resets>>

Next ==
  \/ \E t \in Tabs :
       \/ OpenTab(t) \/ CloseTab(t) \/ ShowTimer(t) \/ LeaveTimer(t)
       \/ StartBlock(t) \/ SaveBlock(t) \/ Trigger(t)
       \/ AdoptSession(t) \/ CancelSignIn(t) \/ SignOut(t)
       \/ Serve(t) \/ Lose(t) \/ Answer(t) \/ RequestRefused(t)
       \/ \E account \in Accounts : SubmitLogin(t, account) \/ ResetPassword(t, account)
  \/ \E tok \in DOMAIN owner : Revoke(tok)

Spec == Init /\ [][Next]_vars

-------------------------------------------------------------------------------
(* What the fence promises. *)

\* In a browser that never showed two tabs at once, as long as the server says
\* whose token it is, nothing of one account lies in storage under another's
\* fence: the queue, the in-progress block and the session are the last user's.
Stored == (queue \cup {clock}) \ {NoBlock}
FenceHolds ==
  ~crowded /\ meFailures = 0 =>
    /\ token # 0 => lastUser = AccountOf(token)
    /\ \A b \in Stored : recorder[b] \in {lastUser, Nobody}

\* Every block that was saved is still queued, stored on the server, or was
\* discarded with the user's agreement - or by a password reset, which does not
\* ask.  An expired session, a 401 in another tab or a cancelled sign-in loses none.
NoBlockVanishes ==
  saved \subseteq queue \cup {b \in Blocks : server[b] # Nobody}
                 \cup givenUp \cup lostToReset

\* One account's block never reaches the server under another's session:
\* "otherwise one account's in-progress block and unsynced offline queue follow
\* the next one into the app".
SavedUnderItsAccount ==
  \A b \in Blocks : server[b] # Nobody => recorder[b] \in {server[b], Nobody}
===============================================================================
