--------------------------- MODULE AccountFence_proofs ---------------------------
(***************************************************************************)
(* Theorems about AccountFence, for every set of tabs, accounts and blocks *)
(* and every bound.                                                        *)
(***************************************************************************)
EXTENDS AccountFence, TLAPS

-------------------------------------------------------------------------------
(* Types. *)

Pages   == {"closed", "login", "app", "timer"}
Answers == {"none", "ok", "401", "403", "failed"}

\* A flush under way; its token is one the server has issued, or none.
PostingFlush ==
  [pc : {"posting"}, item : Blocks, token : 0 .. Len(owner), answer : Answers,
   tried : SUBSET Blocks, batch : SUBSET Blocks, removals : SUBSET Blocks]

TabStates ==
  [page : Pages, wired : BOOLEAN, timer : Blocks \cup {NoBlock},
   flush : {IdleFlush} \cup PostingFlush, signIn : 0 .. Len(owner)]

StorageTypeOK ==
  /\ token \in 0 .. Len(owner)
  /\ lastUser \in Accounts \cup {Nobody}
  /\ queue \in SUBSET Blocks
  /\ clock \in Blocks \cup {NoBlock}

ServerTypeOK ==
  /\ owner \in Seq(Accounts)
  /\ server \in [Blocks -> Accounts \cup {Nobody}]

HistoryTypeOK ==
  /\ recorder \in [Blocks -> Accounts \cup {Nobody, NotStarted}]
  /\ crowded \in BOOLEAN
  /\ meFailures \in Nat

TypeOK == StorageTypeOK /\ ServerTypeOK /\ HistoryTypeOK /\ tab \in [Tabs -> TabStates]

-------------------------------------------------------------------------------
(* The invariant. *)

\* What a flush is about to remove from the queue is stored on the server.
RemovesOnlyStored ==
  \A t \in Tabs : tab[t].flush.pc = "posting" =>
    /\ \A b \in tab[t].flush.removals : server[b] # Nobody
    /\ tab[t].flush.answer = "ok" => server[tab[t].flush.item] # Nobody

\* A block is held by a mounted timer only, and a sign-in is under way on /login only.
PagesSound ==
  \A t \in Tabs :
    /\ tab[t].timer # NoBlock => tab[t].page = "timer"
    /\ tab[t].signIn # 0 => tab[t].page = "login"

\* crowded remembers that two tabs were open at once.
OneTabOpen ==
  ~crowded => \A s, t \in Tabs : tab[s].page # "closed" /\ tab[t].page # "closed" => s = t

\* The block in the memory of the only tab is fenced as the stored ones are.
MemoryFenced ==
  ~crowded /\ meFailures = 0 =>
    \A t \in Tabs : tab[t].timer # NoBlock => recorder[tab[t].timer] \in {lastUser, Nobody}

-------------------------------------------------------------------------------
(* A flush that resumes. *)

\* What GoOn and CallFlush come to: of the queue q at most `gone` is removed, and the tab
\* is `state` with the flush it had, none, or one about to post.
Resumed(t, state, q, gone) ==
  /\ queue' \in {q, q \ gone}
  /\ \E flush \in {IdleFlush} \cup PostingFlush :
       /\ tab' = [tab EXCEPT ![t] = [state EXCEPT !.flush = flush]]
       /\ flush.pc = "posting" =>
            flush = tab[t].flush \/ (flush.answer = "none" /\ flush.removals \subseteq gone)

LEMMA GoOnResumes ==
  ASSUME StorageTypeOK, NEW t \in Tabs, NEW state \in TabStates, NEW f, NEW q \in SUBSET Blocks,
         NEW blocked \in BOOLEAN,
         f.tried \in SUBSET Blocks, f.batch \in SUBSET Blocks, f.removals \in SUBSET Blocks,
         GoOn(t, state, f, q, blocked)
  PROVE  Resumed(t, state, q, f.removals)
<1> DEFINE passOver == f.batch = {} \/ blocked
           q2       == IF passOver THEN q \ f.removals ELSE q
           batch    == IF passOver THEN q2 \ f.tried ELSE f.batch
           removals == IF passOver THEN {} ELSE f.removals
           Post(b)  == [pc |-> "posting", item |-> b, token |-> token, answer |-> "none",
                        tried |-> f.tried \cup {b}, batch |-> batch \ {b}, removals |-> removals]
<1>1. queue' = q2 /\ q2 \in {q, q \ f.removals}
  BY DEF GoOn
<1>2. CASE tab' = [tab EXCEPT ![t] = [state EXCEPT !.flush = IdleFlush]]
  <2>1. IdleFlush.pc # "posting"
    BY DEF IdleFlush
  <2> QED
    BY <1>1, <1>2, <2>1 DEF Resumed
<1>3. CASE \E b \in batch : tab' = [tab EXCEPT ![t] = [state EXCEPT !.flush = Post(b)]]
  <2>1. PICK b \in batch : tab' = [tab EXCEPT ![t] = [state EXCEPT !.flush = Post(b)]]
    BY <1>3
  <2>2. batch \in SUBSET Blocks /\ removals \in SUBSET Blocks /\ removals \subseteq f.removals
    OBVIOUS
  <2>3. Post(b) \in PostingFlush
    BY <2>2 DEF PostingFlush, Answers, StorageTypeOK
  <2> HIDE DEF batch, removals
  <2>4. Post(b).answer = "none" /\ Post(b).removals \subseteq f.removals
    BY <2>2
  <2> HIDE DEF Post
  <2> QED
    BY <1>1, <2>1, <2>3, <2>4 DEF Resumed
<1> QED
  BY <1>2, <1>3 DEF GoOn

LEMMA CallFlushResumes ==
  ASSUME StorageTypeOK, tab \in [Tabs -> TabStates], NEW t \in Tabs, NEW state \in TabStates,
         state.flush = tab[t].flush, NEW q \in SUBSET Blocks, CallFlush(t, state, q)
  PROVE  Resumed(t, state, q, {})
<1>1. CASE queue' = q /\ tab' = [tab EXCEPT ![t] = state]
  <2>1. state = [state EXCEPT !.flush = tab[t].flush]
    BY DEF TabStates
  <2>2. tab[t].flush \in {IdleFlush} \cup PostingFlush
    BY DEF TabStates
  <2> QED
    BY <1>1, <2>1, <2>2 DEF Resumed
<1>2. CASE GoOn(t, state, FreshFlush, q, FALSE)
  <2>1. FreshFlush.tried = {} /\ FreshFlush.batch = {} /\ FreshFlush.removals = {}
    BY DEF FreshFlush
  <2> QED
    BY <1>2, <2>1, GoOnResumes
<1> QED
  BY <1>1, <1>2 DEF CallFlush

-------------------------------------------------------------------------------
(* Types are preserved. *)

LEMMA NewTabType ==
  ASSUME NEW page \in Pages
  PROVE  NewTab(page) \in TabStates
BY DEF NewTab, TabStates, IdleFlush, ServerTypeOK

\* The types of a tab only widen while tokens are issued.
LEMMA TabTypesGrow ==
  ASSUME Len(owner) \in Nat, Len(owner)' \in Nat, Len(owner) <= Len(owner)'
  PROVE  TabStates \subseteq TabStates'
<1>1. 0 .. Len(owner) \subseteq 0 .. Len(owner)'
  OBVIOUS
<1>2. PostingFlush \subseteq PostingFlush'
  BY <1>1 DEF PostingFlush
<1> QED
  BY <1>1, <1>2 DEF TabStates

LEMMA ResumedType ==
  ASSUME tab \in [Tabs -> TabStates], UNCHANGED owner, NEW t \in Tabs, NEW state \in TabStates,
         NEW q \in SUBSET Blocks, NEW gone, Resumed(t, state, q, gone)
  PROVE  queue' \in SUBSET Blocks /\ (tab \in [Tabs -> TabStates])'
<1>1. queue' \in SUBSET Blocks
  BY DEF Resumed
<1>2. PICK flush \in {IdleFlush} \cup PostingFlush :
        tab' = [tab EXCEPT ![t] = [state EXCEPT !.flush = flush]]
  BY DEF Resumed
<1>3. [state EXCEPT !.flush = flush] \in TabStates
  BY <1>2 DEF TabStates
<1>4. TabStates' = TabStates
  BY DEF TabStates, PostingFlush
<1> QED
  BY <1>1, <1>2, <1>3, <1>4

LEMMA TypeInit == Init => TypeOK
<1> SUFFICES ASSUME Init PROVE TypeOK
  OBVIOUS
<1>1. owner \in Seq(Accounts) /\ Len(owner) = 0
  BY DEF Init
<1>2. StorageTypeOK
  BY <1>1 DEF Init, StorageTypeOK
<1>3. ServerTypeOK /\ HistoryTypeOK
  <2>1. server \in [Blocks -> Accounts \cup {Nobody}]
    BY DEF Init
  <2>2. recorder \in [Blocks -> Accounts \cup {Nobody, NotStarted}]
    BY DEF Init
  <2> QED
    BY <1>1, <2>1, <2>2 DEF Init, ServerTypeOK, HistoryTypeOK
<1>4. NewTab("closed") \in TabStates
  BY NewTabType DEF Pages
<1> QED
  BY <1>2, <1>3, <1>4 DEF Init, TypeOK

LEMMA TypeStep == TypeOK /\ [Next]_vars => TypeOK'
<1> SUFFICES ASSUME TypeOK, [Next]_vars PROVE TypeOK'
  OBVIOUS
<1> USE NobodyAssumption
<1>0. TypeOK => Len(owner) \in Nat
  BY DEF TypeOK, ServerTypeOK
<1>1. ASSUME UNCHANGED <<storageVars, serverVars, historyVars, meFailures>>,
             NEW t \in Tabs, NEW state \in TabStates, tab' = [tab EXCEPT ![t] = state]
      PROVE  TypeOK'
  <2>1. TabStates' = TabStates
    BY <1>1 DEF TabStates, PostingFlush, serverVars
  <2> QED
    BY <1>1, <2>1 DEF TypeOK, StorageTypeOK, ServerTypeOK, HistoryTypeOK, storageVars, serverVars, historyVars
<1>2. ASSUME NEW t \in Tabs, OpenTab(t) PROVE TypeOK'
  <2>1. TabStates' = TabStates
    BY <1>2 DEF OpenTab, TabStates, PostingFlush, serverVars
  <2>2. PICK page \in {"app", "login"} : tab' = [tab EXCEPT ![t] = NewTab(page)]
    BY <1>2 DEF OpenTab
  <2>3. NewTab(page) \in TabStates
    BY NewTabType DEF Pages
  <2>4. (tab \in [Tabs -> TabStates])'
    BY <2>1, <2>2, <2>3 DEF TypeOK
  <2>5. crowded' \in BOOLEAN
    BY <1>2 DEF OpenTab
  <2> QED
    BY <1>2, <2>4, <2>5 DEF OpenTab, TypeOK, StorageTypeOK, ServerTypeOK, HistoryTypeOK, storageVars, serverVars, countVars
<1>3. ASSUME NEW t \in Tabs, CloseTab(t) PROVE TypeOK'
  <2>1. NewTab("closed") \in TabStates
    BY NewTabType DEF Pages
  <2> QED
    BY <1>1, <1>3, <2>1 DEF CloseTab, countVars
<1>4. ASSUME NEW t \in Tabs, ShowTimer(t) PROVE TypeOK'
  <2>1. tab' = [tab EXCEPT ![t] = [tab[t] EXCEPT !.page = "timer", !.timer = clock]]
    BY <1>4 DEF ShowTimer, TypeOK, TabStates
  <2>2. [tab[t] EXCEPT !.page = "timer", !.timer = clock] \in TabStates
    BY DEF TypeOK, StorageTypeOK, TabStates, Pages
  <2> QED
    BY <1>1, <1>4, <2>1, <2>2 DEF ShowTimer, countVars
<1>5. ASSUME NEW t \in Tabs, LeaveTimer(t) PROVE TypeOK'
  <2>1. tab' = [tab EXCEPT ![t] = [tab[t] EXCEPT !.page = "app", !.timer = NoBlock]]
    BY <1>5 DEF LeaveTimer, TypeOK, TabStates
  <2>2. [tab[t] EXCEPT !.page = "app", !.timer = NoBlock] \in TabStates
    BY DEF TypeOK, TabStates, Pages
  <2> QED
    BY <1>1, <1>5, <2>1, <2>2 DEF LeaveTimer, countVars
<1>6. ASSUME NEW t \in Tabs, StartBlock(t) PROVE TypeOK'
  <2>1. PICK b \in Blocks : /\ recorder' = [recorder EXCEPT ![b] = AccountOf(token)]
                            /\ tab' = [tab EXCEPT ![t].timer = b]
                            /\ clock' = b
    BY <1>6 DEF StartBlock
  <2>2. AccountOf(token) \in Accounts \cup {Nobody}
    BY DEF TypeOK, StorageTypeOK, ServerTypeOK, AccountOf
  <2>3. TabStates' = TabStates
    BY <1>6 DEF StartBlock, TabStates, PostingFlush, serverVars
  <2>4. (tab \in [Tabs -> TabStates])'
    BY <2>1, <2>3 DEF TypeOK, TabStates
  <2>5. recorder' \in [Blocks -> Accounts \cup {Nobody, NotStarted}]
    BY <2>1, <2>2 DEF TypeOK, HistoryTypeOK
  <2> QED
    BY <1>6, <2>1, <2>4, <2>5 DEF StartBlock, TypeOK, StorageTypeOK, ServerTypeOK, HistoryTypeOK, serverVars, countVars
<1>7. ASSUME NEW t \in Tabs, SaveBlock(t) PROVE TypeOK'
  <2> DEFINE state == [tab[t] EXCEPT !.timer = NoBlock]
  <2>1. state \in TabStates /\ state.flush = tab[t].flush
    BY DEF TypeOK, TabStates
  <2>2. queue \cup {tab[t].timer} \in SUBSET Blocks
    BY <1>7 DEF SaveBlock, TypeOK, StorageTypeOK, TabStates
  <2>3. Resumed(t, state, queue \cup {tab[t].timer}, {})
    BY <1>7, <2>1, <2>2, CallFlushResumes DEF SaveBlock, TypeOK
  <2>4. UNCHANGED owner
    BY <1>7 DEF SaveBlock, serverVars
  <2>5. queue' \in SUBSET Blocks /\ (tab \in [Tabs -> TabStates])'
    BY <2>1, <2>2, <2>3, <2>4, ResumedType DEF TypeOK
  <2> QED
    BY <1>7, <2>5 DEF SaveBlock, TypeOK, StorageTypeOK, ServerTypeOK, HistoryTypeOK, serverVars, countVars
<1>8. ASSUME NEW t \in Tabs, Trigger(t) PROVE TypeOK'
  <2>1. Resumed(t, tab[t], queue, {})
    BY <1>8, CallFlushResumes DEF Trigger, TypeOK, StorageTypeOK
  <2>2. UNCHANGED owner
    BY <1>8 DEF Trigger, serverVars
  <2>3. queue' \in SUBSET Blocks /\ (tab \in [Tabs -> TabStates])'
    BY <2>1, <2>2, ResumedType DEF TypeOK, StorageTypeOK
  <2> QED
    BY <1>8, <2>3 DEF Trigger, TypeOK, StorageTypeOK, ServerTypeOK, HistoryTypeOK, serverVars, historyVars, countVars
<1>9. ASSUME NEW t \in Tabs, NEW account \in Accounts, SubmitLogin(t, account) PROVE TypeOK'
  <2>1. owner' \in Seq(Accounts) /\ Len(owner') = Len(owner) + 1
    BY <1>9 DEF SubmitLogin, TypeOK, ServerTypeOK
  <2>2. TabStates \subseteq TabStates'
    BY <1>0, <2>1, TabTypesGrow
  <2>3. [tab[t] EXCEPT !.signIn = Len(owner')] \in TabStates'
    BY <1>0, <2>1, <2>2 DEF TypeOK, TabStates
  <2>4. tab' = [tab EXCEPT ![t] = [tab[t] EXCEPT !.signIn = Len(owner')]]
    BY <1>9 DEF SubmitLogin, TypeOK, TabStates
  <2>5. (tab \in [Tabs -> TabStates])'
    BY <2>2, <2>3, <2>4 DEF TypeOK
  <2>6. token' \in 0 .. Len(owner')
    BY <1>0, <1>9, <2>1 DEF SubmitLogin, TypeOK, StorageTypeOK, storageVars
  <2> QED
    BY <1>9, <2>1, <2>5, <2>6 DEF SubmitLogin, TypeOK, StorageTypeOK, ServerTypeOK, HistoryTypeOK, storageVars, historyVars, countVars
<1>10. ASSUME NEW t \in Tabs, AdoptSession(t) PROVE TypeOK'
  <2>1. PICK id \in Accounts \cup {Nobody} :
          /\ LearnOwner(t, id)
          /\ IF IsOtherAccount(id) THEN SweepKeys ELSE UNCHANGED <<queue, clock>>
          /\ lastUser' = IF id # Nobody THEN id ELSE lastUser
    BY <1>10 DEF AdoptSession
  <2>2. queue' \in SUBSET Blocks /\ clock' \in Blocks \cup {NoBlock}
    BY <2>1 DEF SweepKeys, TypeOK, StorageTypeOK
  <2>3. meFailures' \in Nat
    BY <2>1 DEF LearnOwner, TypeOK, HistoryTypeOK
  <2>4. lastUser' \in Accounts \cup {Nobody}
    BY <2>1 DEF TypeOK, StorageTypeOK
  <2>5. token' \in 0 .. Len(owner)'
    BY <1>10 DEF AdoptSession, TypeOK, TabStates, serverVars
  <2>6. (tab \in [Tabs -> TabStates])'
    <3>1. TabStates' = TabStates
      BY <1>10 DEF AdoptSession, TabStates, PostingFlush, serverVars
    <3>2. [tab[t] EXCEPT !.page = "app", !.wired = TRUE, !.signIn = 0] \in TabStates
      <4>1. 0 \in 0 .. Len(owner) /\ tab[t] \in TabStates
        BY <1>0 DEF TypeOK
      <4> QED
        BY <4>1 DEF TabStates, Pages
    <3>3. tab' = [tab EXCEPT ![t] = [tab[t] EXCEPT !.page = "app", !.wired = TRUE, !.signIn = 0]]
      BY <1>10 DEF AdoptSession, TypeOK, TabStates
    <3> QED
      BY <3>1, <3>2, <3>3 DEF TypeOK
  <2> QED
    BY <1>10, <2>2, <2>3, <2>4, <2>5, <2>6 DEF AdoptSession, TypeOK, StorageTypeOK, ServerTypeOK, HistoryTypeOK, serverVars
<1>11. ASSUME NEW t \in Tabs, CancelSignIn(t) PROVE TypeOK'
  <2>1. tab' = [tab EXCEPT ![t] = [tab[t] EXCEPT !.signIn = 0]]
    BY <1>11 DEF CancelSignIn, TypeOK, TabStates
  <2>2. [tab[t] EXCEPT !.signIn = 0] \in TabStates
    BY <1>0 DEF TypeOK, TabStates
  <2> QED
    BY <1>1, <1>11, <2>1, <2>2 DEF CancelSignIn, countVars
<1>12. ASSUME NEW t \in Tabs, SignOut(t) PROVE TypeOK'
  <2>1. TabStates' = TabStates
    BY <1>12 DEF SignOut, TabStates, PostingFlush, serverVars
  <2>2. (tab \in [Tabs -> TabStates])'
    <3>1. [tab[t] EXCEPT !.page = "login"] \in TabStates
      BY DEF TypeOK, TabStates, Pages
    <3>2. tab' = [tab EXCEPT ![t] = [tab[t] EXCEPT !.page = "login"]]
      BY <1>12 DEF SignOut, TypeOK, TabStates
    <3> QED
      BY <2>1, <3>1, <3>2 DEF TypeOK
  <2>3. StorageTypeOK'
    BY <1>0, <1>12 DEF SignOut, ClearSession, SweepKeys, TypeOK, StorageTypeOK, serverVars
  <2> QED
    BY <1>12, <2>2, <2>3 DEF SignOut, TypeOK, ServerTypeOK, HistoryTypeOK, serverVars, countVars
<1>13. ASSUME NEW t \in Tabs, NEW account \in Accounts, ResetPassword(t, account) PROVE TypeOK'
  <2>1. TabStates' = TabStates
    BY <1>13 DEF ResetPassword, TabStates, PostingFlush
  <2>2. StorageTypeOK'
    BY <1>0, <1>13 DEF ResetPassword, ClearSession, SweepKeys, TypeOK, StorageTypeOK
  <2> QED
    BY <1>13, <2>1, <2>2 DEF ResetPassword, TypeOK, ServerTypeOK, HistoryTypeOK
<1>14. ASSUME NEW t \in Tabs, Serve(t) PROVE TypeOK'
  <2> DEFINE f == tab[t].flush
             status == CreateStatus(f.item, f.token)
  <2>1. f \in PostingFlush
    BY <1>14 DEF Serve, TypeOK, TabStates, IdleFlush
  <2>2. status \in Answers
    BY DEF CreateStatus, Answers
  <2>3. status = "ok" => owner[f.token] \in Accounts
    BY <2>1 DEF CreateStatus, IsHonoured, TypeOK, ServerTypeOK, PostingFlush
  <2>4. server' \in [Blocks -> Accounts \cup {Nobody}]
    BY <1>14, <2>3 DEF Serve, TypeOK, ServerTypeOK
  <2>5. [f EXCEPT !.answer = status] \in PostingFlush
    BY <2>1, <2>2 DEF PostingFlush
  <2>6. tab' = [tab EXCEPT ![t] = [tab[t] EXCEPT !.flush = [f EXCEPT !.answer = status]]]
    BY <1>14 DEF Serve, TypeOK, TabStates
  <2>7. [tab[t] EXCEPT !.flush = [f EXCEPT !.answer = status]] \in TabStates
    BY <2>5 DEF TypeOK, TabStates
  <2>8. TabStates' = TabStates
    BY <1>14 DEF Serve, TabStates, PostingFlush
  <2>9. (tab \in [Tabs -> TabStates])'
    BY <2>6, <2>7, <2>8 DEF TypeOK
  <2> QED
    BY <1>14, <2>4, <2>9 DEF Serve, TypeOK, StorageTypeOK, ServerTypeOK, HistoryTypeOK, storageVars, historyVars, countVars
<1>15. ASSUME NEW t \in Tabs, Lose(t) PROVE TypeOK'
  <2> DEFINE f == tab[t].flush
  <2>1. f \in PostingFlush
    BY <1>15 DEF Lose, TypeOK, TabStates, IdleFlush
  <2>2. [f EXCEPT !.answer = "failed"] \in PostingFlush
    BY <2>1 DEF PostingFlush, Answers
  <2>3. tab' = [tab EXCEPT ![t] = [tab[t] EXCEPT !.flush = [f EXCEPT !.answer = "failed"]]]
    BY <1>15 DEF Lose, TypeOK, TabStates
  <2>4. [tab[t] EXCEPT !.flush = [f EXCEPT !.answer = "failed"]] \in TabStates
    BY <2>2 DEF TypeOK, TabStates
  <2> QED
    BY <1>1, <1>15, <2>3, <2>4 DEF Lose
<1>16. ASSUME NEW t \in Tabs, Answer(t) PROVE TypeOK'
  <2>1. queue' \in SUBSET Blocks /\ (tab \in [Tabs -> TabStates])'
    <3>1. UNCHANGED owner
      BY <1>16 DEF Answer, serverVars
    <3>2. TabStates' = TabStates
      BY <3>1 DEF TabStates, PostingFlush
    <3>3. tab[t].flush \in PostingFlush
      <4>1. tab[t].flush.pc = "posting"
        BY <1>16 DEF Answer, AnswerOk, AnswerBlocked, AnswerUnauthorized
      <4> QED
        BY <4>1 DEF TypeOK, TabStates, IdleFlush
    <3>4. CASE AnswerOk(t)
      <4> DEFINE f == [tab[t].flush EXCEPT !.removals = @ \cup {tab[t].flush.item}]
      <4>1. f \in PostingFlush
        BY <3>3 DEF PostingFlush
      <4>2. f.tried \in SUBSET Blocks /\ f.batch \in SUBSET Blocks /\ f.removals \in SUBSET Blocks
        BY <4>1 DEF PostingFlush
      <4>3. GoOn(t, tab[t], f, queue, FALSE)
        BY <3>4 DEF AnswerOk
      <4> HIDE DEF f
      <4>4. Resumed(t, tab[t], queue, f.removals)
        BY <4>2, <4>3, GoOnResumes DEF TypeOK, StorageTypeOK
      <4> QED
        BY <3>1, <4>4, ResumedType DEF TypeOK, StorageTypeOK
    <3>5. CASE AnswerBlocked(t)
      <4> DEFINE f == tab[t].flush
      <4>2. f.tried \in SUBSET Blocks /\ f.batch \in SUBSET Blocks /\ f.removals \in SUBSET Blocks
        BY <3>3 DEF PostingFlush
      <4>3. GoOn(t, tab[t], f, queue, TRUE)
        BY <3>5 DEF AnswerBlocked
      <4> HIDE DEF f
      <4>4. Resumed(t, tab[t], queue, f.removals)
        BY <4>2, <4>3, GoOnResumes DEF TypeOK, StorageTypeOK
      <4> QED
        BY <3>1, <4>4, ResumedType DEF TypeOK, StorageTypeOK
    <3>6. CASE AnswerUnauthorized(t)
      <4>1. NewTab("login") \in TabStates
        BY NewTabType DEF Pages
      <4>2. [tab[t] EXCEPT !.flush = IdleFlush] \in TabStates
        BY DEF TypeOK, TabStates
      <4>3. tab' = [tab EXCEPT ![t] = NewTab("login")] \/ tab' = [tab EXCEPT ![t] = [tab[t] EXCEPT !.flush = IdleFlush]]
        BY <3>6 DEF AnswerUnauthorized, HandleUnauthorized, TypeOK, TabStates
      <4> QED
        BY <3>2, <3>6, <4>1, <4>2, <4>3 DEF AnswerUnauthorized, HandleUnauthorized, TypeOK, StorageTypeOK
    <3> QED
      BY <1>16, <3>4, <3>5, <3>6 DEF Answer
  <2>2. token' \in 0 .. Len(owner)'
    <3>1. token' = token \/ token' = 0
      BY <1>16 DEF Answer, AnswerOk, AnswerBlocked, AnswerUnauthorized, HandleUnauthorized
    <3>2. UNCHANGED owner
      BY <1>16 DEF Answer, serverVars
    <3> QED
      BY <1>0, <3>1, <3>2 DEF TypeOK, StorageTypeOK
  <2>3. clock' = clock
    BY <1>16 DEF Answer, AnswerOk, AnswerBlocked, AnswerUnauthorized, HandleUnauthorized
  <2> QED
    BY <1>16, <2>1, <2>2, <2>3 DEF Answer, TypeOK, StorageTypeOK, ServerTypeOK, HistoryTypeOK, serverVars, historyVars, countVars
<1>17. ASSUME NEW t \in Tabs, RequestRefused(t) PROVE TypeOK'
  <2>1. NewTab("login") \in TabStates
    BY NewTabType DEF Pages
  <2>2. TabStates' = TabStates
    BY <1>17 DEF RequestRefused, TabStates, PostingFlush, serverVars
  <2>3. tab' = [tab EXCEPT ![t] = NewTab("login")]
    BY <1>17 DEF RequestRefused, HandleUnauthorized
  <2>4. StorageTypeOK'
    BY <1>0, <1>17 DEF RequestRefused, HandleUnauthorized, FreshFlush, TypeOK, StorageTypeOK, serverVars
  <2> QED
    BY <1>17, <2>1, <2>2, <2>3, <2>4 DEF RequestRefused, TypeOK, ServerTypeOK, HistoryTypeOK, serverVars, historyVars, countVars
<1>18. ASSUME NEW tok \in DOMAIN owner, Revoke(tok) PROVE TypeOK'
  <2>1. TabStates' = TabStates
    BY <1>18 DEF Revoke, TabStates, PostingFlush
  <2> QED
    BY <1>18, <2>1 DEF Revoke, TypeOK, StorageTypeOK, ServerTypeOK, HistoryTypeOK, storageVars, historyVars
<1>19. CASE UNCHANGED vars
  <2>1. TabStates' = TabStates
    BY <1>19 DEF vars, TabStates, PostingFlush, serverVars
  <2> QED
    BY <1>19, <2>1 DEF vars, TypeOK, StorageTypeOK, ServerTypeOK, HistoryTypeOK, storageVars, serverVars, historyVars, countVars
<1> QED
  BY <1>2, <1>3, <1>4, <1>5, <1>6, <1>7, <1>8, <1>9, <1>10, <1>11, <1>12, <1>13, <1>14, <1>15, <1>16,
     <1>17, <1>18, <1>19 DEF Next

\* TypeOK always holds.
THEOREM TypeCorrect == Spec => []TypeOK
<1> QED
  BY TypeInit, TypeStep, PTL DEF Spec

-------------------------------------------------------------------------------
(* No block vanishes. *)

Kept == {b \in Blocks : server[b] # Nobody}

LEMMA KeptGrows == TypeOK /\ [Next]_vars => Kept \subseteq Kept'
<1> SUFFICES ASSUME TypeOK, [Next]_vars PROVE Kept \subseteq Kept'
  OBVIOUS
<1>1. CASE \E t \in Tabs : Serve(t)
  <2>1. PICK t \in Tabs : Serve(t)
    BY <1>1
  <2> DEFINE f == tab[t].flush
  <2>2. f \in PostingFlush
    <3>1. f.pc = "posting"
      BY <2>1 DEF Serve
    <3> QED
      BY <3>1 DEF TypeOK, TabStates, IdleFlush
  <2>3. CASE CreateStatus(f.item, f.token) = "ok"
    <3>1. owner[f.token] \in Accounts
      BY <2>2, <2>3 DEF CreateStatus, IsHonoured, TypeOK, ServerTypeOK, PostingFlush
    <3>2. server' = [server EXCEPT ![f.item] = owner[f.token]]
      BY <2>1, <2>3 DEF Serve
    <3> QED
      BY <3>1, <3>2, NobodyAssumption DEF Kept, TypeOK, ServerTypeOK
  <2>4. CASE CreateStatus(f.item, f.token) # "ok"
    BY <2>1, <2>4 DEF Serve, Kept
  <2> QED
    BY <2>3, <2>4
<1>2. CASE ~ \E t \in Tabs : Serve(t)
  <2>1. UNCHANGED server
    BY <1>2 DEF Next, vars, OpenTab, CloseTab, ShowTimer, LeaveTimer, StartBlock, SaveBlock, Trigger,
          SubmitLogin, AdoptSession, CancelSignIn, SignOut, ResetPassword, Lose, Answer, RequestRefused,
          Revoke, serverVars
  <2> QED
    BY <2>1 DEF Kept
<1> QED
  BY <1>1, <1>2

\* What a flush is about to remove is among the blocks in `kept`.
SoundFlush(f, kept) ==
  f.pc = "posting" => f.removals \subseteq kept /\ (f.answer = "ok" => f.item \in kept)

LEMMA RemovesAsFlushes ==
  TypeOK => (RemovesOnlyStored <=> \A t \in Tabs : SoundFlush(tab[t].flush, Kept))
<1> SUFFICES ASSUME TypeOK, NEW t \in Tabs, tab[t].flush.pc = "posting"
    PROVE  tab[t].flush.removals \subseteq Blocks /\ tab[t].flush.item \in Blocks
  BY DEF RemovesOnlyStored, SoundFlush, Kept
<1>1. tab[t].flush \in PostingFlush
  BY DEF TypeOK, TabStates, IdleFlush
<1> QED
  BY <1>1 DEF PostingFlush

LEMMA ResumedFlush ==
  ASSUME tab \in [Tabs -> TabStates], NEW t \in Tabs, NEW state \in TabStates, NEW q, NEW gone,
         Resumed(t, state, q, gone), gone \subseteq Kept,
         \A s \in Tabs : SoundFlush(tab[s].flush, Kept)
  PROVE  /\ q \subseteq queue' \cup Kept
         /\ \A s \in Tabs : SoundFlush(tab'[s].flush, Kept)
<1>1. q \subseteq queue' \cup Kept
  BY DEF Resumed
<1>2. PICK flush \in {IdleFlush} \cup PostingFlush :
        /\ tab' = [tab EXCEPT ![t] = [state EXCEPT !.flush = flush]]
        /\ flush.pc = "posting" =>
             flush = tab[t].flush \/ (flush.answer = "none" /\ flush.removals \subseteq gone)
  BY DEF Resumed
<1>3. SoundFlush(flush, Kept)
  <2>1. CASE flush = tab[t].flush
    BY <2>1
  <2>2. CASE flush # tab[t].flush
    BY <1>2, <2>2 DEF SoundFlush
  <2> QED
    BY <2>1, <2>2
<1>4. tab'[t].flush = flush
  BY <1>2 DEF TabStates
<1>5. \A s \in Tabs \ {t} : tab'[s] = tab[s]
  BY <1>2
<1> QED
  BY <1>1, <1>3, <1>4, <1>5

\* Every flush stays sound, and no block leaves the queue but for the server or with the
\* sweep of a sign-in, a sign-out or a reset.
LEMMA FlushStep ==
  ASSUME TypeOK, RemovesOnlyStored, [Next]_vars
  PROVE  /\ \A s \in Tabs : SoundFlush(tab'[s].flush, Kept')
         /\ queue \subseteq queue' \cup Kept' \cup givenUp' \cup lostToReset'
         /\ saved' \subseteq saved \cup queue' \cup Kept'
         /\ givenUp \subseteq givenUp' /\ lostToReset \subseteq lostToReset'
<1> DEFINE Goal == /\ \A s \in Tabs : SoundFlush(tab'[s].flush, Kept')
                   /\ queue \subseteq queue' \cup Kept' \cup givenUp' \cup lostToReset'
                   /\ saved' \subseteq saved \cup queue' \cup Kept'
                   /\ givenUp \subseteq givenUp' /\ lostToReset \subseteq lostToReset'
<1>1. Kept \subseteq Kept'
  BY KeptGrows
<1>2. \A s \in Tabs : SoundFlush(tab[s].flush, Kept)
  BY RemovesAsFlushes
<1>3. ASSUME NEW f, SoundFlush(f, Kept) PROVE SoundFlush(f, Kept')
  BY <1>1, <1>3 DEF SoundFlush
<1>4. SoundFlush(IdleFlush, Kept')
  BY DEF SoundFlush, IdleFlush
\* One tab changes, and its flush stays or goes.
<1>5. ASSUME NEW t \in Tabs, NEW new, tab' = [tab EXCEPT ![t] = new],
             new.flush \in {tab[t].flush, IdleFlush}
      PROVE  \A s \in Tabs : SoundFlush(tab'[s].flush, Kept')
  <2>1. \A s \in Tabs : tab'[s].flush \in {tab[s].flush, IdleFlush}
    BY <1>5 DEF TypeOK
  <2> QED
    BY <1>2, <1>3, <1>4, <2>1
<1>6. ASSUME NEW t \in Tabs, NEW state \in TabStates, NEW q, NEW gone, gone \subseteq Kept,
             Resumed(t, state, q, gone)
      PROVE  (\A s \in Tabs : SoundFlush(tab'[s].flush, Kept')) /\ q \subseteq queue' \cup Kept'
  <2>1. q \subseteq queue' \cup Kept /\ \A s \in Tabs : SoundFlush(tab'[s].flush, Kept)
    BY <1>2, <1>6, ResumedFlush DEF TypeOK
  <2> QED
    BY <1>1, <1>3, <2>1
<1>7. ASSUME NEW t \in Tabs,
             OpenTab(t) \/ CloseTab(t) \/ ShowTimer(t) \/ LeaveTimer(t) \/ StartBlock(t)
               \/ CancelSignIn(t) \/ \E account \in Accounts : SubmitLogin(t, account)
      PROVE  Goal
  <2>1. \E new : tab' = [tab EXCEPT ![t] = new] /\ new.flush \in {tab[t].flush, IdleFlush}
    <3>1. CASE \E page : tab' = [tab EXCEPT ![t] = NewTab(page)]
      <4>1. PICK page : tab' = [tab EXCEPT ![t] = NewTab(page)]
        BY <3>1
      <4>2. NewTab(page).flush = IdleFlush
        BY DEF NewTab
      <4> QED
        BY <4>1, <4>2
    <3>2. CASE \E page, b : tab' = [tab EXCEPT ![t].page = page, ![t].timer = b]
      <4>1. PICK page, b : tab' = [tab EXCEPT ![t].page = page, ![t].timer = b]
        BY <3>2
      <4>2. tab' = [tab EXCEPT ![t] = [tab[t] EXCEPT !.page = page, !.timer = b]]
        BY <4>1 DEF TypeOK, TabStates
      <4>3. [tab[t] EXCEPT !.page = page, !.timer = b].flush = tab[t].flush
        BY DEF TypeOK, TabStates
      <4> QED
        BY <4>2, <4>3
    <3>3. CASE \E b : tab' = [tab EXCEPT ![t].timer = b]
      <4>1. PICK b : tab' = [tab EXCEPT ![t] = [tab[t] EXCEPT !.timer = b]]
        BY <3>3 DEF TypeOK, TabStates
      <4>2. [tab[t] EXCEPT !.timer = b].flush = tab[t].flush
        BY DEF TypeOK, TabStates
      <4> QED
        BY <4>1, <4>2
    <3>4. CASE \E n : tab' = [tab EXCEPT ![t].signIn = n]
      <4>1. PICK n : tab' = [tab EXCEPT ![t] = [tab[t] EXCEPT !.signIn = n]]
        BY <3>4 DEF TypeOK, TabStates
      <4>2. [tab[t] EXCEPT !.signIn = n].flush = tab[t].flush
        BY DEF TypeOK, TabStates
      <4> QED
        BY <4>1, <4>2
    <3> QED
      BY <1>7, <3>1, <3>2, <3>3, <3>4
      DEF OpenTab, CloseTab, ShowTimer, LeaveTimer, StartBlock, CancelSignIn, SubmitLogin
  <2>2. UNCHANGED <<queue, saved, givenUp, lostToReset>>
    BY <1>7 DEF OpenTab, CloseTab, ShowTimer, LeaveTimer, StartBlock, CancelSignIn, SubmitLogin, storageVars,
                historyVars
  <2> QED
    BY <1>5, <2>1, <2>2
<1>8. ASSUME NEW t \in Tabs, SaveBlock(t) PROVE Goal
  <2> DEFINE state == [tab[t] EXCEPT !.timer = NoBlock]
             q     == queue \cup {tab[t].timer}
  <2>1. state \in TabStates /\ state.flush = tab[t].flush
    BY DEF TypeOK, TabStates
  <2>2. q \in SUBSET Blocks
    BY <1>8 DEF SaveBlock, TypeOK, StorageTypeOK, TabStates
  <2>3. Resumed(t, state, q, {})
    BY <1>8, <2>1, <2>2, CallFlushResumes DEF SaveBlock, TypeOK
  <2>4. (\A s \in Tabs : SoundFlush(tab'[s].flush, Kept')) /\ q \subseteq queue' \cup Kept'
    BY <1>6, <2>1, <2>3
  <2> QED
    BY <1>8, <2>4 DEF SaveBlock
<1>9. ASSUME NEW t \in Tabs, Trigger(t) PROVE Goal
  <2>1. Resumed(t, tab[t], queue, {})
    BY <1>9, CallFlushResumes DEF Trigger, TypeOK, StorageTypeOK
  <2>2. (\A s \in Tabs : SoundFlush(tab'[s].flush, Kept')) /\ queue \subseteq queue' \cup Kept'
    BY <1>6, <2>1 DEF TypeOK
  <2> QED
    BY <1>9, <2>2 DEF Trigger, historyVars
<1>10. ASSUME NEW t \in Tabs, AdoptSession(t) \/ SignOut(t) PROVE Goal
  <2>1. \A s \in Tabs : tab'[s].flush = tab[s].flush
    BY <1>10 DEF AdoptSession, SignOut, TypeOK, TabStates
  <2>2. queue \subseteq queue' \cup givenUp'
    BY <1>10 DEF AdoptSession, SignOut
  <2> QED
    BY <1>2, <1>3, <1>10, <2>1, <2>2 DEF AdoptSession, SignOut
<1>11. ASSUME NEW t \in Tabs, NEW account \in Accounts, ResetPassword(t, account) PROVE Goal
  BY <1>2, <1>3, <1>11 DEF ResetPassword
<1>12. ASSUME NEW t \in Tabs, Serve(t) PROVE Goal
  <2> DEFINE f   == tab[t].flush
             new == [f EXCEPT !.answer = CreateStatus(f.item, f.token)]
  <2>1. f \in PostingFlush
    <3>1. f.pc = "posting"
      BY <1>12 DEF Serve
    <3> QED
      BY <3>1 DEF TypeOK, TabStates, IdleFlush
  <2>2. new.removals = f.removals /\ new.item = f.item /\ new.answer = CreateStatus(f.item, f.token)
    BY <2>1 DEF PostingFlush
  <2>3. new.answer = "ok" => f.item \in Kept'
    <3> SUFFICES ASSUME CreateStatus(f.item, f.token) = "ok" PROVE f.item \in Kept'
      BY <2>2
    <3>1. owner[f.token] \in Accounts
      BY <2>1 DEF CreateStatus, IsHonoured, TypeOK, ServerTypeOK, PostingFlush
    <3>2. server' = [server EXCEPT ![f.item] = owner[f.token]]
      BY <1>12 DEF Serve
    <3> QED
      BY <2>1, <3>1, <3>2, NobodyAssumption DEF Kept, TypeOK, ServerTypeOK, PostingFlush
  <2>4. f.removals \subseteq Kept
    BY <1>2, <2>1 DEF SoundFlush, PostingFlush
  <2>5. SoundFlush(new, Kept')
    BY <1>1, <2>2, <2>3, <2>4 DEF SoundFlush
  <2>6. tab'[t].flush = new /\ \A s \in Tabs \ {t} : tab'[s] = tab[s]
    BY <1>12 DEF Serve, TypeOK, TabStates
  <2>7. \A s \in Tabs : SoundFlush(tab'[s].flush, Kept')
    BY <1>2, <1>3, <2>5, <2>6
  <2> QED
    BY <1>12, <2>7 DEF Serve, storageVars, historyVars
<1>13. ASSUME NEW t \in Tabs, Lose(t) PROVE Goal
  <2> DEFINE f   == tab[t].flush
             new == [f EXCEPT !.answer = "failed"]
  <2>1. f \in PostingFlush
    <3>1. f.pc = "posting"
      BY <1>13 DEF Lose
    <3> QED
      BY <3>1 DEF TypeOK, TabStates, IdleFlush
  <2>2. new.removals = f.removals /\ new.answer = "failed"
    BY <2>1 DEF PostingFlush
  <2>3. SoundFlush(new, Kept)
    BY <1>2, <2>1, <2>2 DEF SoundFlush, PostingFlush
  <2>4. tab'[t].flush = new /\ \A s \in Tabs \ {t} : tab'[s] = tab[s]
    BY <1>13 DEF Lose, TypeOK, TabStates
  <2>5. \A s \in Tabs : SoundFlush(tab'[s].flush, Kept')
    BY <1>2, <1>3, <2>3, <2>4
  <2> QED
    BY <1>13, <2>5 DEF Lose, storageVars, historyVars
<1>14. ASSUME NEW t \in Tabs, Answer(t) PROVE Goal
  <2> DEFINE f == tab[t].flush
  <2>1. f \in PostingFlush
    <3>1. f.pc = "posting"
      BY <1>14 DEF Answer, AnswerOk, AnswerBlocked, AnswerUnauthorized
    <3> QED
      BY <3>1 DEF TypeOK, TabStates, IdleFlush
  <2>2. f.removals \subseteq Kept /\ (f.answer = "ok" => f.item \in Kept)
    BY <1>2, <2>1 DEF SoundFlush, PostingFlush
  <2>3. UNCHANGED <<saved, givenUp, lostToReset>>
    BY <1>14 DEF Answer, historyVars
  <2>4. (\A s \in Tabs : SoundFlush(tab'[s].flush, Kept')) /\ queue \subseteq queue' \cup Kept'
    <3>1. CASE AnswerOk(t)
      <4> DEFINE g == [f EXCEPT !.removals = @ \cup {f.item}]
      <4>1. g.tried \in SUBSET Blocks /\ g.batch \in SUBSET Blocks /\ g.removals \in SUBSET Blocks
        BY <2>1 DEF PostingFlush
      <4>2. g.removals \subseteq Kept
        BY <2>1, <2>2, <3>1 DEF AnswerOk, PostingFlush
      <4>3. GoOn(t, tab[t], g, queue, FALSE)
        BY <3>1 DEF AnswerOk
      <4> HIDE DEF g
      <4>4. Resumed(t, tab[t], queue, g.removals)
        BY <4>1, <4>3, GoOnResumes DEF TypeOK, StorageTypeOK
      <4> QED
        BY <1>6, <4>2, <4>4 DEF TypeOK
    <3>2. CASE AnswerBlocked(t)
      <4>1. f.tried \in SUBSET Blocks /\ f.batch \in SUBSET Blocks /\ f.removals \in SUBSET Blocks
        BY <2>1 DEF PostingFlush
      <4>2. GoOn(t, tab[t], f, queue, TRUE)
        BY <3>2 DEF AnswerBlocked
      <4>3. Resumed(t, tab[t], queue, f.removals)
        BY <4>1, <4>2, GoOnResumes DEF TypeOK, StorageTypeOK
      <4> QED
        BY <1>6, <2>2, <4>3 DEF TypeOK
    <3>3. CASE AnswerUnauthorized(t)
      <4>1. queue \subseteq queue' \cup Kept
        BY <2>2, <3>3 DEF AnswerUnauthorized, HandleUnauthorized
      <4>2. tab' = [tab EXCEPT ![t] = NewTab("login")] \/ tab' = [tab EXCEPT ![t] = [tab[t] EXCEPT !.flush = IdleFlush]]
        BY <3>3 DEF AnswerUnauthorized, HandleUnauthorized, TypeOK, TabStates
      <4>3. NewTab("login").flush = IdleFlush
        BY DEF NewTab
      <4>4. [tab[t] EXCEPT !.flush = IdleFlush].flush = IdleFlush
        BY DEF TypeOK, TabStates
      <4>5. \A s \in Tabs : SoundFlush(tab'[s].flush, Kept')
        BY <1>5, <4>2, <4>3, <4>4
      <4> QED
        BY <1>1, <4>1, <4>5
    <3> QED
      BY <1>14, <3>1, <3>2, <3>3 DEF Answer
  <2> QED
    BY <2>3, <2>4
<1>15. ASSUME NEW t \in Tabs, RequestRefused(t) PROVE Goal
  <2>1. tab' = [tab EXCEPT ![t] = NewTab("login")] /\ queue' = queue
    BY <1>15 DEF RequestRefused, HandleUnauthorized, FreshFlush
  <2>2. NewTab("login").flush = IdleFlush
    BY DEF NewTab
  <2>3. \A s \in Tabs : SoundFlush(tab'[s].flush, Kept')
    BY <1>5, <2>1, <2>2
  <2> QED
    BY <1>15, <2>1, <2>3 DEF RequestRefused, historyVars
<1>16. ASSUME NEW tok \in DOMAIN owner, Revoke(tok) PROVE Goal
  BY <1>2, <1>3, <1>16 DEF Revoke, storageVars, historyVars
<1>17. CASE UNCHANGED vars
  BY <1>2, <1>3, <1>17 DEF vars, storageVars, historyVars
<1> QED
  BY <1>7, <1>8, <1>9, <1>10, <1>11, <1>12, <1>13, <1>14, <1>15, <1>16, <1>17 DEF Next

LEMMA KeepingInvariant == Spec => [](RemovesOnlyStored /\ NoBlockVanishes)
<1>1. Init => RemovesOnlyStored /\ NoBlockVanishes
  BY DEF Init, RemovesOnlyStored, NoBlockVanishes, NewTab, IdleFlush
<1>2. TypeOK /\ TypeOK' /\ RemovesOnlyStored /\ NoBlockVanishes /\ [Next]_vars
        => (RemovesOnlyStored /\ NoBlockVanishes)'
  <2> SUFFICES ASSUME TypeOK, TypeOK', RemovesOnlyStored, NoBlockVanishes, [Next]_vars
      PROVE  RemovesOnlyStored' /\ NoBlockVanishes'
    OBVIOUS
  <2>1. RemovesOnlyStored'
    <3>1. \A s \in Tabs : SoundFlush(tab'[s].flush, Kept')
      BY FlushStep
    <3>2. (RemovesOnlyStored <=> \A t \in Tabs : SoundFlush(tab[t].flush, Kept))'
      BY RemovesAsFlushes, PTL
    <3> QED
      BY <3>1, <3>2
  <2>2. saved \subseteq queue \cup Kept \cup givenUp \cup lostToReset
    BY DEF NoBlockVanishes, Kept
  <2>3. saved' \subseteq queue' \cup Kept' \cup givenUp' \cup lostToReset'
    BY <2>2, FlushStep, KeptGrows
  <2> QED
    BY <2>1, <2>3 DEF NoBlockVanishes, Kept
<1> QED
  BY <1>1, <1>2, TypeCorrect, PTL DEF Spec

\* Whatever tabs, sign-ins, sign-outs, expired sessions and flushes do to the browser, a
\* block that was saved is queued, stored, given up by its user, or was swept by a reset.
THEOREM NothingVanishes == Spec => []NoBlockVanishes
<1> QED
  BY KeepingInvariant, PTL

-------------------------------------------------------------------------------
(* The fence. *)

LEMMA ResumedTab ==
  ASSUME tab \in [Tabs -> TabStates], NEW t \in Tabs, NEW state \in TabStates, NEW q, NEW gone,
         Resumed(t, state, q, gone)
  PROVE  /\ tab'[t].page = state.page /\ tab'[t].timer = state.timer /\ tab'[t].signIn = state.signIn
         /\ \A s \in Tabs \ {t} : tab'[s] = tab[s]
         /\ queue' \subseteq q
<1>1. PICK flush : tab' = [tab EXCEPT ![t] = [state EXCEPT !.flush = flush]]
  BY DEF Resumed
<1>2. tab'[t] = [state EXCEPT !.flush = flush]
  BY <1>1
<1> QED
  BY <1>1, <1>2 DEF Resumed, TabStates

\* An answer moves the flush of its tab and nothing else of it, or sends the tab to /login.
LEMMA AnswerMoves ==
  ASSUME TypeOK, NEW t \in Tabs, Answer(t)
  PROVE  /\ \/ /\ tab'[t].page = tab[t].page /\ tab'[t].timer = tab[t].timer
               /\ tab'[t].signIn = tab[t].signIn
            \/ tab[t].page \in AppPages /\ tab'[t] = NewTab("login")
         /\ \A s \in Tabs \ {t} : tab'[s] = tab[s]
         /\ queue' \subseteq queue /\ clock' = clock /\ token' \in {0, token}
<1>1. tab[t].flush \in PostingFlush
  <2>1. tab[t].flush.pc = "posting"
    BY DEF Answer, AnswerOk, AnswerBlocked, AnswerUnauthorized
  <2> QED
    BY <2>1 DEF TypeOK, TabStates, IdleFlush
<1>2. CASE AnswerOk(t)
  <2> DEFINE f == [tab[t].flush EXCEPT !.removals = @ \cup {tab[t].flush.item}]
  <2>1. f.tried \in SUBSET Blocks /\ f.batch \in SUBSET Blocks /\ f.removals \in SUBSET Blocks
    BY <1>1 DEF PostingFlush
  <2>2. GoOn(t, tab[t], f, queue, FALSE)
    BY <1>2 DEF AnswerOk
  <2> HIDE DEF f
  <2>3. Resumed(t, tab[t], queue, f.removals)
    BY <2>1, <2>2, GoOnResumes DEF TypeOK, StorageTypeOK
  <2> QED
    BY <1>2, <2>3, ResumedTab DEF TypeOK, AnswerOk
<1>3. CASE AnswerBlocked(t)
  <2> DEFINE f == tab[t].flush
  <2>1. f.tried \in SUBSET Blocks /\ f.batch \in SUBSET Blocks /\ f.removals \in SUBSET Blocks
    BY <1>1 DEF PostingFlush
  <2>2. GoOn(t, tab[t], f, queue, TRUE)
    BY <1>3 DEF AnswerBlocked
  <2> HIDE DEF f
  <2>3. Resumed(t, tab[t], queue, f.removals)
    BY <2>1, <2>2, GoOnResumes DEF TypeOK, StorageTypeOK
  <2> QED
    BY <1>3, <2>3, ResumedTab DEF TypeOK, AnswerBlocked
<1>4. CASE AnswerUnauthorized(t)
  <2>1. queue' \subseteq queue /\ clock' = clock /\ token' = 0
    BY <1>4 DEF AnswerUnauthorized, HandleUnauthorized
  <2>2. CASE tab[t].page \in AppPages
    BY <1>4, <2>1, <2>2 DEF AnswerUnauthorized, HandleUnauthorized, TypeOK
  <2>3. CASE tab[t].page \notin AppPages
    <3>1. tab' = [tab EXCEPT ![t] = [tab[t] EXCEPT !.flush = IdleFlush]]
      BY <1>4, <2>3 DEF AnswerUnauthorized, HandleUnauthorized, TypeOK, TabStates
    <3>2. tab'[t] = [tab[t] EXCEPT !.flush = IdleFlush]
      BY <3>1 DEF TypeOK
    <3> QED
      BY <2>1, <3>1, <3>2 DEF TypeOK, TabStates
  <2> QED
    BY <2>2, <2>3
<1> QED
  BY <1>2, <1>3, <1>4 DEF Answer

\* What a step of tab t does to its page, the block it holds and its sign-in.
Moved(t) ==
  /\ \A s \in Tabs \ {t} : tab'[s] = tab[s]
  /\ tab'[t].timer # NoBlock => tab'[t].page = "timer"
  /\ tab'[t].signIn # 0 => tab'[t].page = "login"
  /\ tab'[t].page # "closed" =>
       \/ tab[t].page # "closed"
       \/ crowded' = (crowded \/ \E other \in Tabs : tab[other].page # "closed")

LEMMA MovedKeeps ==
  ASSUME PagesSound, OneTabOpen, NEW t \in Tabs, Moved(t), crowded \in BOOLEAN, crowded => crowded'
  PROVE  PagesSound' /\ OneTabOpen'
<1>1. PagesSound'
  BY DEF PagesSound, Moved
<1>2. OneTabOpen'
  <2> SUFFICES ASSUME ~crowded', NEW r \in Tabs, NEW s \in Tabs,
                      tab'[r].page # "closed", tab'[s].page # "closed", r # s
               PROVE  FALSE
    BY DEF OneTabOpen
  <2>1. ~crowded
    OBVIOUS
  <2> QED
    BY <2>1 DEF OneTabOpen, Moved
<1> QED
  BY <1>1, <1>2

\* Blocks in the memory of a tab.
Held == {tab[t].timer : t \in Tabs} \ {NoBlock}

\* A step that moves blocks between memory and storage and starts none.
Quiet ==
  /\ UNCHANGED <<lastUser, recorder>>
  /\ token' \in {0, token}
  /\ token' # 0 => AccountOf(token)' = AccountOf(token)
  /\ Stored' \subseteq Stored \cup Held
  /\ Held' \subseteq Stored \cup Held

LEMMA QuietKeeps ==
  ASSUME FenceHolds, MemoryFenced, Quiet, crowded => crowded', meFailures' = 0 => meFailures = 0
  PROVE  FenceHolds' /\ MemoryFenced'
<1> SUFFICES ASSUME ~crowded', meFailures' = 0
    PROVE  /\ token' # 0 => lastUser' = AccountOf(token)'
           /\ \A b \in Stored' \cup Held' : recorder'[b] \in {lastUser', Nobody}
  BY DEF FenceHolds, MemoryFenced, Held
<1>1. \A b \in Stored \cup Held : recorder[b] \in {lastUser, Nobody}
  BY DEF FenceHolds, MemoryFenced, Held
<1>2. token # 0 => lastUser = AccountOf(token)
  BY DEF FenceHolds
<1> QED
  BY <1>1, <1>2 DEF Quiet

LEMMA HeldAfter ==
  ASSUME NEW t \in Tabs, Moved(t), tab'[t].timer \in {NoBlock, clock, tab[t].timer}
  PROVE  Held' \subseteq Stored \cup Held
BY DEF Held, Stored, Moved

\* No block is in memory while the only open tab is off the timer.
LEMMA OnlyTabHoldsNothing ==
  ASSUME PagesSound, OneTabOpen, ~crowded, NEW t \in Tabs, tab[t].page \in {"login", "app"}
  PROVE  Held = {}
BY DEF PagesSound, OneTabOpen, Held

\* A step that sweeps the browser, or leaves no block of another account in it.
LEMMA SweepKeeps ==
  ASSUME PagesSound, OneTabOpen, crowded => crowded', meFailures' = 0 => meFailures = 0,
         NEW t \in Tabs, tab[t].page \in {"login", "app"}, Moved(t), tab'[t].timer = NoBlock,
         ~crowded /\ meFailures' = 0 =>
           /\ token' # 0 => lastUser' = AccountOf(token)'
           /\ \A b \in Stored' : recorder'[b] \in {lastUser', Nobody}
  PROVE  FenceHolds' /\ MemoryFenced'
<1> SUFFICES ASSUME ~crowded', meFailures' = 0
    PROVE  /\ token' # 0 => lastUser' = AccountOf(token)'
           /\ \A b \in Stored' : recorder'[b] \in {lastUser', Nobody}
           /\ \A s \in Tabs : tab'[s].timer = NoBlock
  BY DEF FenceHolds, MemoryFenced
<1>1. \A s \in Tabs : tab'[s].timer = NoBlock
  BY OnlyTabHoldsNothing DEF Moved, Held
<1> QED
  BY <1>1

LEMMA FenceStep ==
  ASSUME TypeOK, TypeOK', PagesSound, OneTabOpen, FenceHolds, MemoryFenced, [Next]_vars
  PROVE  (PagesSound /\ OneTabOpen /\ FenceHolds /\ MemoryFenced)'
<1> DEFINE Goal == PagesSound' /\ OneTabOpen' /\ FenceHolds' /\ MemoryFenced'
<1> USE NobodyAssumption
<1>0. crowded \in BOOLEAN
  BY DEF TypeOK, HistoryTypeOK
\* A quiet step of one tab.
<1>1. ASSUME NEW t \in Tabs, Moved(t), tab'[t].timer \in {NoBlock, clock, tab[t].timer},
             crowded => crowded', meFailures' = meFailures, UNCHANGED <<lastUser, recorder, owner>>,
             token' \in {0, token}, Stored' \subseteq Stored \cup Held
      PROVE  Goal
  <2>1. Quiet
    BY <1>1, HeldAfter DEF Quiet, AccountOf
  <2> QED
    BY <1>0, <1>1, <2>1, MovedKeeps, QuietKeeps
<1>2. ASSUME NEW t \in Tabs, OpenTab(t) PROVE Goal
  <2>1. PICK page : tab' = [tab EXCEPT ![t] = NewTab(page)]
    BY <1>2 DEF OpenTab
  <2>2. Moved(t) /\ tab'[t].timer = NoBlock
    BY <1>2, <2>1 DEF OpenTab, Moved, NewTab, TypeOK
  <2>3. Stored' = Stored
    BY <1>2 DEF OpenTab, Stored, storageVars
  <2> QED
    BY <1>1, <1>2, <2>2, <2>3 DEF OpenTab, storageVars, serverVars, countVars
<1>3. ASSUME NEW t \in Tabs, CloseTab(t) PROVE Goal
  <2>1. Moved(t) /\ tab'[t].timer = NoBlock
    BY <1>3 DEF CloseTab, Moved, NewTab, TypeOK
  <2>2. Stored' = Stored
    BY <1>3 DEF CloseTab, Stored, storageVars
  <2> QED
    BY <1>1, <1>3, <2>1, <2>2 DEF CloseTab, storageVars, serverVars, historyVars, countVars
<1>4. ASSUME NEW t \in Tabs, ShowTimer(t) \/ LeaveTimer(t) PROVE Goal
  <2>1. tab[t] \in TabStates
    BY DEF TypeOK
  <2>2. tab[t].signIn = 0
    BY <1>4 DEF ShowTimer, LeaveTimer, PagesSound
  <2>3. Moved(t) /\ tab'[t].timer \in {NoBlock, clock}
    BY <1>4, <2>1, <2>2 DEF ShowTimer, LeaveTimer, Moved, TypeOK, TabStates
  <2>4. Stored' = Stored
    BY <1>4 DEF ShowTimer, LeaveTimer, Stored, storageVars
  <2> QED
    BY <1>1, <1>4, <2>3, <2>4 DEF ShowTimer, LeaveTimer, storageVars, serverVars, historyVars, countVars
<1>5. ASSUME NEW t \in Tabs, StartBlock(t) PROVE Goal
  <2>1. PICK b \in Blocks : /\ recorder' = [recorder EXCEPT ![b] = AccountOf(token)]
                            /\ tab' = [tab EXCEPT ![t].timer = b]
                            /\ clock' = b
    BY <1>5 DEF StartBlock
  <2>2. tab[t] \in TabStates
    BY DEF TypeOK
  <2>3. Moved(t) /\ tab'[t].timer = b
    BY <1>5, <2>1, <2>2 DEF StartBlock, Moved, PagesSound, TypeOK, TabStates
  <2>4. PagesSound' /\ OneTabOpen'
    BY <1>0, <1>5, <2>3, MovedKeeps DEF StartBlock
  <2>5. Stored' \subseteq Stored \cup {b} /\ Held' \subseteq Held \cup {b}
    BY <1>5, <2>1, <2>3 DEF StartBlock, Stored, Held, Moved
  <2>6. /\ UNCHANGED <<lastUser, token, owner, crowded, meFailures>>
        /\ \A c \in Blocks \ {b} : recorder'[c] = recorder[c]
        /\ recorder'[b] = AccountOf(token)
    BY <1>5, <2>1 DEF StartBlock, TypeOK, HistoryTypeOK, serverVars, countVars
  <2>7. ASSUME ~crowded, meFailures = 0
        PROVE  \A c \in Stored' \cup Held' : recorder'[c] \in {lastUser, Nobody}
    <3>1. \A c \in Stored \cup Held : recorder[c] \in {lastUser, Nobody} /\ c \in Blocks
      BY <2>7 DEF FenceHolds, MemoryFenced, Held, Stored, TypeOK, StorageTypeOK, TabStates
    <3>2. AccountOf(token) \in {lastUser, Nobody}
      BY <2>7 DEF FenceHolds, AccountOf
    <3> QED
      BY <2>5, <2>6, <3>1, <3>2
  <2>8. FenceHolds'
    BY <2>6, <2>7 DEF FenceHolds, AccountOf
  <2>9. MemoryFenced'
    BY <2>6, <2>7 DEF MemoryFenced, Held
  <2> QED
    BY <2>4, <2>8, <2>9
<1>6. ASSUME NEW t \in Tabs, SaveBlock(t) PROVE Goal
  <2> DEFINE state == [tab[t] EXCEPT !.timer = NoBlock]
             q     == queue \cup {tab[t].timer}
  <2>1. state \in TabStates /\ state.flush = tab[t].flush /\ state.page = tab[t].page
          /\ state.signIn = tab[t].signIn /\ state.timer = NoBlock
    BY DEF TypeOK, TabStates
  <2>2. q \in SUBSET Blocks
    BY <1>6 DEF SaveBlock, TypeOK, StorageTypeOK, TabStates
  <2>3. Resumed(t, state, q, {})
    BY <1>6, <2>1, <2>2, CallFlushResumes DEF SaveBlock, TypeOK
  <2> HIDE DEF state
  <2>4. /\ tab'[t].page = tab[t].page /\ tab'[t].timer = NoBlock /\ tab'[t].signIn = tab[t].signIn
        /\ \A s \in Tabs \ {t} : tab'[s] = tab[s]
        /\ queue' \subseteq q
    BY <2>1, <2>3, ResumedTab DEF TypeOK
  <2>5. Moved(t)
    BY <2>4 DEF Moved, PagesSound
  <2>6. Stored' \subseteq Stored \cup Held
    BY <1>6, <2>4 DEF SaveBlock, Stored, Held
  <2> QED
    BY <1>1, <1>6, <2>4, <2>5, <2>6 DEF SaveBlock, serverVars, countVars
<1>7. ASSUME NEW t \in Tabs, Trigger(t) PROVE Goal
  <2>1. Resumed(t, tab[t], queue, {})
    BY <1>7, CallFlushResumes DEF Trigger, TypeOK, StorageTypeOK
  <2>2. /\ tab'[t].page = tab[t].page /\ tab'[t].timer = tab[t].timer /\ tab'[t].signIn = tab[t].signIn
        /\ \A s \in Tabs \ {t} : tab'[s] = tab[s]
        /\ queue' \subseteq queue
    BY <2>1, ResumedTab DEF TypeOK
  <2>3. Moved(t)
    BY <2>2 DEF Moved, PagesSound
  <2>4. Stored' \subseteq Stored \cup Held
    BY <1>7, <2>2 DEF Trigger, Stored
  <2> QED
    BY <1>1, <1>7, <2>2, <2>3, <2>4 DEF Trigger, serverVars, historyVars, countVars
<1>8. ASSUME NEW t \in Tabs, NEW account \in Accounts, SubmitLogin(t, account) PROVE Goal
  <2>1. Moved(t) /\ tab'[t].timer = tab[t].timer
    BY <1>8 DEF SubmitLogin, Moved, PagesSound, TypeOK, TabStates
  <2>2. Stored' = Stored
    BY <1>8 DEF SubmitLogin, Stored, storageVars
  <2>3. token # 0 => AccountOf(token)' = AccountOf(token)
    <3>1. owner' = Append(owner, account) /\ token' = token
      BY <1>8 DEF SubmitLogin, storageVars
    <3>2. owner \in Seq(Accounts) /\ token \in 0 .. Len(owner)
      BY DEF TypeOK, StorageTypeOK, ServerTypeOK
    <3> QED
      BY <3>1, <3>2 DEF AccountOf
  <2>4. Quiet
    BY <1>8, <2>1, <2>2, <2>3, HeldAfter DEF Quiet, SubmitLogin, storageVars, historyVars
  <2>5. UNCHANGED <<crowded, meFailures>>
    BY <1>8 DEF SubmitLogin, historyVars, countVars
  <2> QED
    BY <1>0, <2>1, <2>4, <2>5, MovedKeeps, QuietKeeps
<1>9. ASSUME NEW t \in Tabs, AdoptSession(t) PROVE Goal
  <2>1. PICK id \in Accounts \cup {Nobody} :
          /\ LearnOwner(t, id)
          /\ IF IsOtherAccount(id) THEN SweepKeys ELSE UNCHANGED <<queue, clock>>
          /\ lastUser' = IF id # Nobody THEN id ELSE lastUser
    BY <1>9 DEF AdoptSession
  <2>2. tab[t].page = "login" /\ tab[t].timer = NoBlock
    BY <1>9 DEF AdoptSession, PagesSound
  <2>3. Moved(t) /\ tab'[t].timer = NoBlock
    BY <1>9, <2>2 DEF AdoptSession, Moved, TypeOK, TabStates
  <2>4. crowded' = crowded /\ recorder' = recorder /\ owner' = owner /\ token' = tab[t].signIn
    BY <1>9 DEF AdoptSession, serverVars
  <2>5. meFailures' = 0 => meFailures = 0 /\ id = owner[tab[t].signIn]
    BY <2>1 DEF LearnOwner, TypeOK, HistoryTypeOK
  <2>6. ASSUME ~crowded, meFailures' = 0
        PROVE  /\ token' # 0 => lastUser' = AccountOf(token)'
               /\ \A b \in Stored' : recorder'[b] \in {lastUser', Nobody}
    <3>1. id = owner[token'] /\ id \in Accounts /\ lastUser' = id
      BY <1>9, <2>1, <2>4, <2>5, <2>6 DEF AdoptSession, TypeOK, ServerTypeOK, TabStates
    <3>2. CASE IsOtherAccount(id)
      BY <2>1, <2>4, <3>1, <3>2 DEF SweepKeys, Stored, AccountOf
    <3>3. CASE ~IsOtherAccount(id)
      <4>1. lastUser \in {Nobody, id}
        BY <3>1, <3>3 DEF IsOtherAccount
      <4>2. Stored' = Stored
        BY <2>1, <3>3 DEF Stored
      <4>3. \A b \in Stored : recorder[b] \in {lastUser, Nobody}
        BY <2>5, <2>6 DEF FenceHolds
      <4> QED
        BY <2>4, <3>1, <4>1, <4>2, <4>3 DEF AccountOf
    <3> QED
      BY <3>2, <3>3
  <2>7. FenceHolds' /\ MemoryFenced'
    BY <2>2, <2>3, <2>4, <2>5, <2>6, SweepKeeps
  <2> QED
    BY <1>0, <2>3, <2>4, <2>7, MovedKeeps
<1>10. ASSUME NEW t \in Tabs, CancelSignIn(t) PROVE Goal
  <2>1. Moved(t) /\ tab'[t].timer = tab[t].timer
    BY <1>10 DEF CancelSignIn, Moved, PagesSound, TypeOK, TabStates
  <2>2. Stored' = Stored
    BY <1>10 DEF CancelSignIn, Stored, storageVars
  <2> QED
    BY <1>1, <1>10, <2>1, <2>2 DEF CancelSignIn, storageVars, serverVars, historyVars, countVars
<1>11. ASSUME NEW t \in Tabs, SignOut(t) PROVE Goal
  <2>1. tab[t].timer = NoBlock /\ tab[t].signIn = 0
    BY <1>11 DEF SignOut, PagesSound
  <2>2. Moved(t) /\ tab'[t].timer = NoBlock
    BY <1>11, <2>1 DEF SignOut, Moved, TypeOK, TabStates
  <2>3. crowded' = crowded /\ meFailures' = meFailures /\ token' = 0 /\ Stored' = {}
    BY <1>11 DEF SignOut, ClearSession, SweepKeys, Stored, countVars
  <2>4. FenceHolds' /\ MemoryFenced'
    BY <1>11, <2>2, <2>3, SweepKeeps DEF SignOut
  <2> QED
    BY <1>0, <2>2, <2>3, <2>4, MovedKeeps
<1>12. ASSUME NEW t \in Tabs, NEW account \in Accounts, ResetPassword(t, account) PROVE Goal
  <2>1. tab[t].timer = NoBlock /\ tab[t].signIn = 0
    BY <1>12 DEF ResetPassword, PagesSound
  <2>2. Moved(t) /\ tab'[t].timer = NoBlock
    BY <1>12, <2>1 DEF ResetPassword, Moved
  <2>3. crowded' = crowded /\ meFailures' = meFailures /\ token' = 0 /\ Stored' = {}
    BY <1>12 DEF ResetPassword, ClearSession, SweepKeys, Stored
  <2>4. FenceHolds' /\ MemoryFenced'
    BY <1>12, <2>2, <2>3, SweepKeeps DEF ResetPassword
  <2> QED
    BY <1>0, <2>2, <2>3, <2>4, MovedKeeps
<1>13. ASSUME NEW t \in Tabs, Serve(t) \/ Lose(t) PROVE Goal
  <2>1. Moved(t) /\ tab'[t].timer = tab[t].timer
    BY <1>13 DEF Serve, Lose, Moved, PagesSound, TypeOK, TabStates
  <2>2. Stored' = Stored
    BY <1>13 DEF Serve, Lose, Stored, storageVars
  <2> QED
    BY <1>1, <1>13, <2>1, <2>2 DEF Serve, Lose, storageVars, serverVars, historyVars, countVars
<1>14. ASSUME NEW t \in Tabs, Answer(t) PROVE Goal
  <2>1. tab[t].page \in AppPages => tab[t].page # "closed"
    BY DEF AppPages
  <2>2. Moved(t) /\ tab'[t].timer \in {NoBlock, tab[t].timer}
    BY <1>14, <2>1, AnswerMoves DEF Moved, PagesSound, NewTab
  <2>3. Stored' \subseteq Stored /\ token' \in {0, token}
    BY <1>14, AnswerMoves DEF Stored
  <2> QED
    BY <1>1, <1>14, <2>2, <2>3 DEF Answer, serverVars, historyVars, countVars
<1>15. ASSUME NEW t \in Tabs, RequestRefused(t) PROVE Goal
  <2>1. tab' = [tab EXCEPT ![t] = NewTab("login")] /\ queue' = queue /\ clock' = clock /\ token' = 0
    BY <1>15 DEF RequestRefused, HandleUnauthorized, FreshFlush
  <2>2. tab[t].page # "closed"
    BY <1>15 DEF RequestRefused, AppPages
  <2>3. Moved(t) /\ tab'[t].timer = NoBlock
    BY <2>1, <2>2 DEF Moved, NewTab, TypeOK
  <2>4. Stored' = Stored
    BY <2>1 DEF Stored
  <2> QED
    BY <1>1, <1>15, <2>1, <2>3, <2>4 DEF RequestRefused, serverVars, historyVars, countVars
<1>16. ASSUME UNCHANGED <<storageVars, tab, owner, historyVars, meFailures>> PROVE Goal
  BY <1>16 DEF storageVars, historyVars, PagesSound, OneTabOpen, FenceHolds, MemoryFenced, Stored, AccountOf
<1>17. ASSUME NEW tok \in DOMAIN owner, Revoke(tok) PROVE Goal
  BY <1>16, <1>17 DEF Revoke
<1>18. CASE UNCHANGED vars
  BY <1>16, <1>18 DEF vars, serverVars, countVars
<1> QED
  BY <1>2, <1>3, <1>4, <1>5, <1>6, <1>7, <1>8, <1>9, <1>10, <1>11, <1>12, <1>13, <1>14, <1>15, <1>17, <1>18
  DEF Next

\* In a browser that never showed two tabs at once, and while the server says whose token
\* it is, whatever lies in storage is the last user's, or nobody's.
THEOREM FenceStands == Spec => []FenceHolds
<1>1. Init => PagesSound /\ OneTabOpen /\ FenceHolds /\ MemoryFenced
  BY DEF Init, PagesSound, OneTabOpen, FenceHolds, MemoryFenced, NewTab, Stored
<1>2. TypeOK /\ TypeOK' /\ PagesSound /\ OneTabOpen /\ FenceHolds /\ MemoryFenced /\ [Next]_vars
        => (PagesSound /\ OneTabOpen /\ FenceHolds /\ MemoryFenced)'
  BY FenceStep
<1> QED
  BY <1>1, <1>2, TypeCorrect, PTL DEF Spec
===============================================================================
