----------------------------- MODULE OfflineQueue -----------------------------
(***************************************************************************)
(* The write-behind block queue of frontend/lib/api/queue.ts, run by every *)
(* open tab over one shared localStorage key, against POST /blocks of      *)
(* backend/app/timer.                                                      *)
(*                                                                         *)
(* Code between two awaits is one action: a tab runs on alone until it     *)
(* posts, and while a post is in flight the queue, the session, the        *)
(* network, the server and the other tabs move on.  An item is a block id  *)
(* with the content ("copy") that was serialized under it.                 *)
(***************************************************************************)
EXTENDS Integers, Sequences, FiniteSets, SequencesExt

CONSTANTS
  Tabs,          \* browser tabs, each with its own `flushing` flag
  Ids,           \* client-generated block ids
  Copies,        \* contents a block may be saved with
  TaggedCopies,  \* those that carry a tag
  BrokenCopies,  \* those whose intervals the server refuses (422)
  NoCopy,        \* the server holds no such block
  MaxSaves, MaxLosses, MaxOutages, MaxExpiries, MaxSignIns, MaxCloses   \* bounds

ASSUME CopiesAssumption == /\ TaggedCopies \subseteq Copies
                           /\ BrokenCopies \subseteq Copies
                           /\ NoCopy \notin Copies
ASSUME BoundsAssumption == {MaxSaves, MaxLosses, MaxOutages, MaxExpiries, MaxSignIns, MaxCloses} \subseteq Nat

VARIABLES
  queue,      \* clocklog_block_queue
  flush,      \* flush[t]: the flushQueue invocation of tab t
  orphans,    \* requests no tab waits for any more
  online,     \* navigator.onLine
  token,      \* the stored session token; 0 when there is none
  validFrom,  \* the oldest token the server still honours
  issued,     \* tokens issued so far
  server,     \* the block table: id to the copy stored
  tagExists,  \* the tag the tagged copies carry is still there
  saves, losses, outages, expiries, closes,   \* bound counters
  latest,     \* history: the copy last enqueued for each id
  decided,    \* history: items the server stored, returned or refused
  refused,    \* history: ids it refused for good
  reported,   \* history: ids counted in a fired onBlocksDropped
  unshown     \* history: ids dropped by a flush whose page went away before it could say so

browserVars == <<queue, flush, orphans>>
sessionVars == <<token, validFrom, issued>>
serverVars  == <<server, tagExists>>
countVars   == <<saves, losses, outages, expiries, closes>>
historyVars == <<latest, decided, refused, reported, unshown>>
vars == <<browserVars, online, sessionVars, serverVars, countVars, historyVars>>

Items == [id : Ids, copy : Copies]

-------------------------------------------------------------------------------
(* The stored queue. *)

QueuedIds(q) == {q[i].id : i \in DOMAIN q}

\* Array.filter: the items at the indices kept, in their order.
Rank(kept, i)      == Cardinality({j \in kept : j <= i})
KeptIndex(kept, k) == CHOOSE i \in kept : Rank(kept, i) = k
Filter(q, kept)    == [k \in 1..Cardinality(kept) |-> q[KeptIndex(kept, k)]]

\* enqueueBlock: the same id replaces its queued copy, in place.
Enqueued(q, item) ==
  IF item.id \in QueuedIds(q)
  THEN [i \in DOMAIN q |-> IF q[i].id = item.id THEN item ELSE q[i]]
  ELSE Append(q, item)

-------------------------------------------------------------------------------
(* One flushQueue invocation. *)

ClosedFlush == [pc |-> "closed"]
IdleFlush   == [pc |-> "idle"]

\* `removals` is what this pass decided to remove (succeeded and dropped),
\* `dropped` what the whole invocation gave up on.
FreshFlush == [attempted |-> {}, batch |-> << >>, removals |-> {}, dropped |-> {}]

\* Mutant: reconciling removes by id, whatever copy is queued by now.
Without_ById(q, items) ==
  Filter(q, {i \in DOMAIN q : q[i].id \notin {item.id : item \in items}})

Without(q, items) == Filter(q, {i \in DOMAIN q : q[i] \notin items})

\* Mutants: a later pass takes every queued item again, or none at all.
Unattempted_All(q, tried)       == q
Unattempted_FirstPass(q, tried) == IF tried = {} THEN q ELSE << >>

Unattempted(q, tried) == Filter(q, {i \in DOMAIN q : q[i].id \notin tried})

\* What the invocation of tab t has given up on.
DroppedBy(t) == IF flush[t].pc = "posting" THEN {item.id : item \in flush[t].dropped} ELSE {}

\* f has no post outstanding: go on with the pass, or reconcile and begin the
\* next one, up to the next post or the end of the invocation.
GoOn(t, f, q, blocked) ==
  LET passOver == f.batch = << >> \/ blocked
      q2       == IF passOver THEN Without(q, f.removals) ELSE q
      batch    == IF passOver THEN Unattempted(q2, f.attempted) ELSE f.batch
  IN  IF ~blocked /\ batch # << >> /\ online
      THEN /\ queue' = q2
           /\ flush' = [flush EXCEPT ![t] =
                [pc |-> "posting", item |-> Head(batch), token |-> token, answer |-> "none",
                 attempted |-> f.attempted \cup {Head(batch).id}, batch |-> Tail(batch),
                 removals |-> IF passOver THEN {} ELSE f.removals, dropped |-> f.dropped]]
           /\ UNCHANGED reported
      ELSE /\ queue' = Without(q, f.removals)
           /\ flush' = [flush EXCEPT ![t] = IdleFlush]
           /\ reported' = reported \cup {item.id : item \in f.dropped}

\* Call flushQueue when the stored queue is q.
CallFlush(t, q) ==
  IF flush[t].pc = "posting" \/ q = << >>
  THEN queue' = q /\ UNCHANGED <<flush, reported>>
  ELSE GoOn(t, FreshFlush, q, FALSE)

-------------------------------------------------------------------------------
Init ==
  /\ queue = << >>
  /\ flush = [t \in Tabs |-> IdleFlush]
  /\ orphans = {}
  /\ online = TRUE
  /\ token = 1 /\ validFrom = 1 /\ issued = 1
  /\ server = [id \in Ids |-> NoCopy]
  /\ tagExists = TRUE
  /\ saves = 0 /\ losses = 0 /\ outages = 0 /\ expiries = 0 /\ closes = 0
  /\ latest = [id \in Ids |-> NoCopy]
  /\ decided = {} /\ refused = {} /\ reported = {} /\ unshown = {}

-------------------------------------------------------------------------------
(* The client. *)

\* saveBlock: enqueue, then flush in the same breath.
Save(t, item) ==
  /\ flush[t].pc # "closed"
  /\ saves < MaxSaves
  /\ saves' = saves + 1
  /\ latest' = [latest EXCEPT ![item.id] = item.copy]
  /\ CallFlush(t, Enqueued(queue, item))
  /\ UNCHANGED <<orphans, online, sessionVars, serverVars, losses, outages, expiries, closes,
                 decided, refused, unshown>>

\* The 30 s interval, the online event and the mount effect of QueueSync.
Trigger(t) ==
  /\ flush[t].pc = "idle"
  /\ queue # << >>
  /\ CallFlush(t, queue)
  /\ UNCHANGED <<orphans, online, sessionVars, serverVars, countVars, latest, decided, refused,
                 unshown>>

\* The awaited post settles.
AnswerOk(t) ==
  /\ flush[t].pc = "posting"
  /\ flush[t].answer = "ok"
  /\ GoOn(t, [flush[t] EXCEPT !.removals = @ \cup {flush[t].item}], queue, FALSE)
  /\ UNCHANGED <<token, unshown>>

\* Mutant: a refused item is removed uncounted.
AnswerRefused_Silent(t) ==
  /\ flush[t].pc = "posting"
  /\ flush[t].answer \in {"404", "422"}
  /\ GoOn(t, [flush[t] EXCEPT !.removals = @ \cup {flush[t].item}], queue, FALSE)
  /\ UNCHANGED <<token, unshown>>

\* Mutant: a permanent refusal is retried like a network failure.
AnswerRefused_Retries(t) ==
  /\ flush[t].pc = "posting"
  /\ flush[t].answer \in {"404", "422"}
  /\ GoOn(t, flush[t], queue, TRUE)
  /\ UNCHANGED <<token, unshown>>

AnswerRefused(t) ==
  /\ flush[t].pc = "posting"
  /\ flush[t].answer \in {"404", "422"}
  /\ GoOn(t, [flush[t] EXCEPT !.removals = @ \cup {flush[t].item},
                              !.dropped = @ \cup {flush[t].item}], queue, FALSE)
  /\ UNCHANGED <<token, unshown>>

\* Mutant: an expired session sweeps the queue with the token.
AnswerUnauthorized_Sweeps(t) ==
  /\ flush[t].pc = "posting"
  /\ flush[t].answer = "401"
  /\ queue' = << >>
  /\ flush' = [flush EXCEPT ![t] = ClosedFlush]
  /\ token' = 0
  /\ UNCHANGED <<reported, unshown>>

\* 401: handleUnauthorized drops whatever token is stored by now and navigates
\* to /login, which tears the tab's app down as the flush ends, or before the
\* rest of the flush (it still awaits the response's text) gets to run.
AnswerUnauthorized(t) ==
  /\ flush[t].pc = "posting"
  /\ flush[t].answer = "401"
  /\ \/ /\ queue' = Without(queue, flush[t].removals)
        /\ reported' = reported \cup DroppedBy(t)
        /\ UNCHANGED unshown
     \/ unshown' = unshown \cup DroppedBy(t) /\ UNCHANGED <<queue, reported>>
  /\ flush' = [flush EXCEPT ![t] = ClosedFlush]
  /\ token' = 0

\* Network failure or 5xx.
AnswerFailed(t) ==
  /\ flush[t].pc = "posting"
  /\ flush[t].answer = "failed"
  /\ GoOn(t, flush[t], queue, TRUE)
  /\ UNCHANGED <<token, unshown>>

Answer(t) ==
  /\ AnswerOk(t) \/ AnswerRefused(t) \/ AnswerUnauthorized(t) \/ AnswerFailed(t)
  /\ UNCHANGED <<orphans, online, validFrom, issued, serverVars, countVars, latest, decided,
                 refused>>

\* The request tab t is waiting on, unless the server has seen it.
UnservedRequest(t) ==
  IF flush[t].pc = "posting" /\ flush[t].answer = "none"
  THEN {[item |-> flush[t].item, token |-> flush[t].token]} ELSE {}

\* The tab goes away mid-flush; a request not yet served may still arrive.
CloseTab(t) ==
  /\ flush[t].pc # "closed"
  /\ closes < MaxCloses
  /\ closes' = closes + 1
  /\ flush' = [flush EXCEPT ![t] = ClosedFlush]
  /\ orphans' = orphans \cup UnservedRequest(t)
  /\ unshown' = unshown \cup DroppedBy(t)
  /\ UNCHANGED <<queue, online, sessionVars, serverVars, saves, losses, outages, expiries,
                 latest, decided, refused, reported>>

\* The app opens again: QueueSync's initial flush.
OpenTab(t) ==
  /\ flush[t].pc = "closed"
  /\ IF queue = << >>
     THEN flush' = [flush EXCEPT ![t] = IdleFlush] /\ UNCHANGED <<queue, reported>>
     ELSE GoOn(t, FreshFlush, queue, FALSE)
  /\ UNCHANGED <<orphans, online, sessionVars, serverVars, countVars, latest, decided, refused,
                 unshown>>

-------------------------------------------------------------------------------
(* The server. *)

\* POST /blocks: the session first, then the tag, then the block's own row.
CreateStatus(item, tok) ==
  IF tok = 0 \/ tok < validFrom THEN "401"
  ELSE IF item.copy \in TaggedCopies /\ ~tagExists THEN "404"
  ELSE IF server[item.id] = NoCopy /\ item.copy \in BrokenCopies THEN "422"
  ELSE "ok"

\* An existing row is returned as it is: the first copy to arrive wins.
CreateBlock(item, tok) ==
  LET status == CreateStatus(item, tok)
  IN  /\ server' = IF status = "ok" /\ server[item.id] = NoCopy
                   THEN [server EXCEPT ![item.id] = item.copy] ELSE server
      /\ decided' = IF status = "401" THEN decided ELSE decided \cup {item}
      /\ refused' = IF status \in {"404", "422"} THEN refused \cup {item.id} ELSE refused

Serve(t) ==
  /\ flush[t].pc = "posting"
  /\ flush[t].answer = "none"
  /\ CreateBlock(flush[t].item, flush[t].token)
  /\ flush' = [flush EXCEPT ![t].answer = CreateStatus(flush[t].item, flush[t].token)]
  /\ UNCHANGED <<queue, orphans, online, sessionVars, tagExists, countVars,
                 latest, reported, unshown>>

ServeOrphan(r) ==
  /\ CreateBlock(r.item, r.token)
  /\ orphans' = orphans \ {r}
  /\ UNCHANGED <<queue, flush, online, sessionVars, tagExists, countVars,
                 latest, reported, unshown>>

DeleteTag ==
  /\ tagExists
  /\ tagExists' = FALSE
  /\ UNCHANGED <<browserVars, online, sessionVars, server, countVars, historyVars>>

-------------------------------------------------------------------------------
(* The network and the session. *)

\* The request, or the response to a request already served, is lost; or the
\* server answers 5xx, as it does when two creates of one id collide.  A request
\* the browser has given up on may still be under way.
Lose(t) ==
  /\ flush[t].pc = "posting"
  /\ flush[t].answer # "failed"
  /\ losses < MaxLosses
  /\ losses' = losses + 1
  /\ flush' = [flush EXCEPT ![t].answer = "failed"]
  /\ orphans' \in {orphans, orphans \cup UnservedRequest(t)}
  /\ UNCHANGED <<queue, online, sessionVars, serverVars, saves, outages, expiries, closes,
                 historyVars>>

LoseOrphan(r) ==
  /\ orphans' = orphans \ {r}
  /\ UNCHANGED <<queue, flush, online, sessionVars, serverVars, countVars, historyVars>>

GoOffline ==
  /\ online
  /\ outages < MaxOutages
  /\ outages' = outages + 1
  /\ online' = FALSE
  /\ UNCHANGED <<browserVars, sessionVars, serverVars, saves, losses, expiries, closes, historyVars>>

GoOnline ==
  /\ ~online
  /\ online' = TRUE
  /\ UNCHANGED <<browserVars, sessionVars, serverVars, countVars, historyVars>>

\* Every token issued so far stops working.
Expire ==
  /\ expiries < MaxExpiries
  /\ expiries' = expiries + 1
  /\ validFrom' = issued + 1
  /\ UNCHANGED <<browserVars, online, token, issued, serverVars, saves, losses, outages, closes,
                 historyVars>>

\* The same account signs in again.
SignIn ==
  /\ token = 0
  /\ issued <= MaxSignIns
  /\ issued' = issued + 1
  /\ token' = issued + 1
  /\ UNCHANGED <<browserVars, online, validFrom, serverVars, countVars, historyVars>>

Next ==
  \/ \E t \in Tabs : \/ \E item \in Items : Save(t, item)
                     \/ Trigger(t) \/ Answer(t) \/ CloseTab(t) \/ OpenTab(t)
                     \/ Serve(t) \/ Lose(t)
  \/ \E r \in orphans : ServeOrphan(r) \/ LoseOrphan(r)
  \/ DeleteTag \/ GoOffline \/ GoOnline \/ Expire \/ SignIn

Spec == Init /\ [][Next]_vars

\* The interval of an open tab keeps firing, a settled post resumes its flush,
\* and a request is answered or fails in the end (the browser gives up on it).
Fairness == \A t \in Tabs : WF_vars(Trigger(t)) /\ WF_vars(Answer(t)) /\ WF_vars(Serve(t))

FairSpec == Spec /\ Fairness

-------------------------------------------------------------------------------
(* What the queue promises. *)

Answers   == {"none", "ok", "404", "422", "401", "failed"}
Requests  == [item : Items, token : Nat]
Postings  == [pc : {"posting"}, item : Items, token : Nat, answer : Answers,
              attempted : SUBSET Ids, batch : Seq(Items), removals : SUBSET Items,
              dropped : SUBSET Items]

\* Every variable holds what the code's types say it holds.
TypeOK ==
  /\ queue \in Seq(Items)
  /\ flush \in [Tabs -> Postings \cup {IdleFlush, ClosedFlush}]
  /\ orphans \subseteq Requests
  /\ online \in BOOLEAN /\ tagExists \in BOOLEAN
  /\ token \in Nat /\ validFrom \in Nat /\ issued \in Nat
  /\ server \in [Ids -> Copies \cup {NoCopy}]
  /\ saves \in Nat /\ losses \in Nat /\ outages \in Nat /\ expiries \in Nat /\ closes \in Nat
  /\ latest \in [Ids -> Copies \cup {NoCopy}]
  /\ decided \subseteq Items /\ refused \subseteq Ids /\ reported \subseteq Ids /\ unshown \subseteq Ids

Saved(id)  == latest[id] # NoCopy
Latest(id) == [id |-> id, copy |-> latest[id]]
Stored(id) == server[id] # NoCopy

\* The copy saved last is still queued until the server has decided on exactly
\* that copy: reconciling after a flush never deletes a copy that was rewritten
\* while an older one was in flight, in this tab or another.
NoRewriteLost ==
  \A id \in Ids : Saved(id) => Latest(id) \in ToSet(queue) \/ Latest(id) \in decided

\* A saved block is queued, stored, or refused by the server for good; no
\* interleaving of saves, flushes, tabs, crashes and sign-outs by 401 loses it.
NoBlockLost ==
  \A id \in Ids : Saved(id) => id \in QueuedIds(queue) \/ Stored(id) \/ id \in refused

\* A flush only ever removes items the server has answered for: stored, returned
\* as already stored, or refused for good.
RemovesOnlyDecided ==
  \A t \in Tabs : flush[t].pc = "posting" =>
    /\ flush[t].removals \subseteq decided
    /\ flush[t].answer \in {"ok", "404", "422"} => flush[t].item \in decided

\* A block that left the queue unstored was shown to the user, or will be when
\* the flush that dropped it ends.  Excused is a page that goes away under a later
\* pass of that flush: closed, or torn down for /login by the 401 of another block.
DropsAreReported ==
  \A id \in Ids : Saved(id) =>
    \/ id \in QueuedIds(queue) \cup reported \cup unshown
    \/ Stored(id)
    \/ \E t \in Tabs : id \in DroppedBy(t)

\* The stored queue never holds two copies of a block.
OneCopyEach(q) == \A i, j \in DOMAIN q : q[i].id = q[j].id => i = j
OneCopyQueued  == OneCopyEach(queue)

\* One invocation never POSTs a block twice, whatever is enqueued under it.
NeverDoublePosts ==
  [][\A t \in Tabs :
       flush[t].pc = "posting" /\ flush'[t].pc = "posting" /\ flush'[t].answer = "none"
                               /\ flush[t].answer # "none"
       => flush'[t].item.id \notin flush[t].attempted]_vars

\* A flush that nothing blocked ends with every block saved before its end
\* attempted: a save made under it is never left for the next interval.
DrainsWhatWasSavedMeanwhile ==
  [][\A t \in Tabs :
       flush[t].pc = "posting" /\ flush'[t].pc = "idle" /\ online
                               /\ flush[t].answer \in {"ok", "404", "422"}
       => QueuedIds(queue') \subseteq flush[t].attempted]_vars

\* The queue implements at-least-once delivery.
Delivery == INSTANCE BlockDelivery WITH
              owed <- QueuedIds(queue),
              kept <- {id \in Ids : Stored(id)},
              refused <- refused
ImplementsDelivery == Delivery!Spec

\* With the network up, a working session and a tab open from some point on,
\* the queue empties: no permanent refusal, lost answer or rewrite wedges it.
CanSync == online /\ token >= validFrom /\ token # 0 /\ \E t \in Tabs : flush[t].pc # "closed"
EventuallySynced == <>[]CanSync => <>[](queue = << >>)
===============================================================================
