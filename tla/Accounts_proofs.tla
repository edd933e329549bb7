---------------------------- MODULE Accounts_proofs ----------------------------
(***************************************************************************)
(* Theorems about Accounts, for every set of requests, addresses and links *)
(* and every bound.                                                        *)
(***************************************************************************)
EXTENDS Accounts, TLAPS

-------------------------------------------------------------------------------
(* The inductive invariant. *)

Tables == <<users, links, sessions, setAt, issued, acted, burned>>

\* Some link mailed to the address has acted.
Proven(email) == \E l \in LinkIds : links[l] # NoLink /\ links[l].email = email /\ acted[l] > 0

\* What a transaction has read still holds of the rows it has locked, and of
\* those that no other transaction can take away.
Sound(t) ==
  /\ \A l \in t.locked : links[l] # NoLink /\ ~links[l].used
  /\ t.pc = "acting" => t.link \in t.locked
  /\ t.pc = "burning" => \A l \in t.rows : links[l] # NoLink
  /\ t.pc \in {"mailing", "burning", "issuing"} => users[t.email] # NoUser
  /\ t.pc = "registering" => users[t.email] = NoUser
  /\ t.pc = "signing" => Proven(t.email)

RequestsSound == \A r \in Requests : Sound(req[r])

\* No link is locked twice.
LocksApart ==
  \A r, other \in Requests : r # other => req[r].locked \cap req[other].locked = {}

\* The unique constraint admits one uncommitted user per address.
RegistrationsApart ==
  \A r, other \in Requests :
    r # other /\ req[r].pc = "registering" /\ req[other].pc = "registering" =>
      req[r].email # req[other].email

RowsSound ==
  /\ \A l \in LinkIds : links[l] # NoLink => users[links[l].email] # NoUser
  /\ \A e \in Emails : users[e] # NoUser /\ users[e].verified => Proven(e)
  /\ \A l \in LinkIds : acted[l] > 0 \/ l \in burned => links[l] # NoLink /\ links[l].used

AccountsInv ==
  /\ TypeOK /\ RequestsSound /\ LocksApart /\ RegistrationsApart /\ RowsSound
  /\ LinkSettledOnce /\ SessionsAreProven

LEMMA TransactionType ==
  ASSUME NEW t \in Transactions
  PROVE  /\ t.locked \in SUBSET LinkIds
         /\ t.pc \in {"inserting", "registering", "mailing", "burning", "issuing", "signing"}
              => t.email \in Emails
         /\ t.pc \in {"mailing", "burning", "issuing"} => t.purpose \in Purposes
         /\ t.pc = "registering" => t.at \in Nat
         /\ t.pc = "burning" => t.rows \in SUBSET LinkIds
         /\ t.pc = "acting" => t.link \in LinkIds
         /\ t.pc \in {"acting", "signing"} => t.user \in Users
BY DEF Transactions, Idle

-------------------------------------------------------------------------------
(* Steps that commit nothing. *)

\* A transaction that moves on, with locks no other holds and facts that are
\* true of the tables, disturbs nothing.
LEMMA TransactionMoves ==
  ASSUME AccountsInv, NEW r \in Requests, NEW t \in Transactions,
         Continue(r, t), UNCHANGED Tables, now' = now,
         Sound(t), t.locked \cap LockedElsewhere(r) = {},
         t.pc = "registering" =>
           \A other \in Requests \ {r} : req[other].pc = "registering" => req[other].email # t.email
  PROVE  AccountsInv'
<1>1. req' = [req EXCEPT ![r] = t] /\ req \in [Requests -> Transactions]
  BY DEF Continue, AccountsInv, TypeOK
<1>2. \A other \in Requests : req'[other] = IF other = r THEN t ELSE req[other]
  BY <1>1
<1>3. TypeOK'
  <2>1. req' \in [Requests -> Transactions]
    BY <1>1
  <2> QED
    BY <2>1 DEF AccountsInv, TypeOK, Tables
<1>4. RequestsSound'
  <2> SUFFICES ASSUME NEW other \in Requests PROVE Sound(req[other])'
    BY DEF RequestsSound
  <2>1. Sound(req'[other])
    BY <1>2 DEF AccountsInv, RequestsSound
  <2> QED
    BY <2>1 DEF Sound, Proven, Tables
<1>5. LocksApart'
  <2> SUFFICES ASSUME NEW p \in Requests, NEW q \in Requests, p # q
               PROVE  req'[p].locked \cap req'[q].locked = {}
    BY DEF LocksApart
  <2>1. \A other \in Requests \ {r} : t.locked \cap req[other].locked = {}
    BY DEF LockedElsewhere
  <2> QED
    BY <1>2, <2>1 DEF AccountsInv, LocksApart
<1>6. RegistrationsApart'
  BY <1>2 DEF AccountsInv, RegistrationsApart
<1>7. (RowsSound /\ LinkSettledOnce /\ SessionsAreProven)'
  BY DEF AccountsInv, RowsSound, LinkSettledOnce, SessionsAreProven, Proven, Tables
<1> QED
  BY <1>3, <1>4, <1>5, <1>6, <1>7 DEF AccountsInv

LEMMA IdleSound == Idle \in Transactions /\ Sound(Idle) /\ Idle.locked = {}
BY DEF Idle, Transactions, Sound

LEMMA RegisterSteps ==
  ASSUME AccountsInv, NEW r \in Requests, NEW email \in Emails,
         BeginRegister(r, email) \/ InsertUser(r)
  PROVE  AccountsInv'
<1>1. req[r] \in Transactions /\ now \in Nat
  BY DEF AccountsInv, TypeOK
<1>2. CASE BeginRegister(r, email)
  <2> DEFINE t == [pc |-> "inserting", locked |-> {}, email |-> email]
  <2>1. t \in Transactions /\ Sound(t)
    BY DEF Transactions, Sound
  <2> QED
    BY <1>2, <2>1, TransactionMoves DEF BeginRegister, Tables
<1>3. CASE InsertUser(r)
  <2> DEFINE t == [pc |-> "registering", locked |-> {}, email |-> req[r].email, at |-> now]
  <2>1. req[r].email \in Emails
    BY <1>1, <1>3, TransactionType DEF InsertUser
  <2>2. CASE users[req[r].email] = NoUser
    <3>1. t \in Transactions /\ Sound(t)
      BY <1>1, <2>1, <2>2 DEF Transactions, Sound
    <3>2. \A other \in Requests \ {r} : req[other].pc = "registering" => req[other].email # t.email
      BY <1>3 DEF InsertUser
    <3>3. Continue(r, t) /\ UNCHANGED Tables /\ now' = now
      BY <1>3, <2>2 DEF InsertUser, Tables
    <3> QED
      BY <3>1, <3>2, <3>3, TransactionMoves
  <2>3. CASE users[req[r].email] # NoUser
    <3>1. Continue(r, Idle) /\ UNCHANGED Tables /\ now' = now
      BY <1>3, <2>3 DEF InsertUser, Finish, Continue, Tables
    <3> QED
      BY <3>1, IdleSound, TransactionMoves DEF Idle
  <2> QED
    BY <2>2, <2>3
<1> QED
  BY <1>2, <1>3

LEMMA MailSteps ==
  ASSUME AccountsInv, NEW r \in Requests, NEW email \in Emails, NEW purpose \in Purposes,
         BeginMail(r, email, purpose) \/ StartBurn(r) \/ Burn(r)
  PROVE  AccountsInv'
<1>1. req[r] \in Transactions /\ Sound(req[r])
  BY DEF AccountsInv, TypeOK, RequestsSound
<1>2. CASE BeginMail(r, email, purpose)
  <2> DEFINE t == [pc |-> "mailing", locked |-> {}, email |-> email, purpose |-> purpose]
  <2>1. t \in Transactions /\ Sound(t)
    BY <1>2 DEF BeginMail, Transactions, Sound
  <2> QED
    BY <1>2, <2>1, TransactionMoves DEF BeginMail, Tables
<1>3. CASE StartBurn(r)
  <2> DEFINE rows == Unused(req[r].email, req[r].purpose)
             t == [pc |-> "burning", locked |-> {}, email |-> req[r].email,
                   purpose |-> req[r].purpose, rows |-> rows]
  <2>1. rows \in SUBSET LinkIds /\ \A l \in rows : links[l] # NoLink
    BY DEF Unused
  <2>2. req[r].email \in Emails /\ req[r].purpose \in Purposes /\ users[req[r].email] # NoUser
    BY <1>1, <1>3, TransactionType DEF StartBurn, Sound
  <2>3. Continue(r, t) /\ UNCHANGED Tables /\ now' = now
    BY <1>3 DEF StartBurn, Tables
  <2> HIDE DEF rows
  <2>4. t \in Transactions /\ Sound(t)
    BY <2>1, <2>2 DEF Transactions, Sound
  <2> QED
    BY <2>3, <2>4, TransactionMoves
<1>4. CASE Burn(r)
  <2> DEFINE taken == {l \in req[r].rows : ~links[l].used}
             t == [pc |-> "issuing", locked |-> taken, email |-> req[r].email,
                   purpose |-> req[r].purpose]
  <2>1. /\ req[r].rows \in SUBSET LinkIds /\ \A l \in req[r].rows : links[l] # NoLink
        /\ req[r].email \in Emails /\ req[r].purpose \in Purposes /\ users[req[r].email] # NoUser
    BY <1>1, <1>4, TransactionType DEF Burn, Sound
  <2>2. /\ taken \in SUBSET LinkIds /\ \A l \in taken : links[l] # NoLink /\ ~links[l].used
        /\ taken \cap LockedElsewhere(r) = {}
    BY <1>4, <2>1 DEF Burn
  <2>3. Continue(r, t) /\ UNCHANGED Tables /\ now' = now
    BY <1>4 DEF Burn, Tables
  <2> HIDE DEF taken
  <2>4. t \in Transactions /\ Sound(t)
    BY <2>1, <2>2 DEF Transactions, Sound
  <2> QED
    BY <2>2, <2>3, <2>4, TransactionMoves
<1> QED
  BY <1>2, <1>3, <1>4

LEMMA SubmitSteps ==
  ASSUME AccountsInv, NEW r \in Requests, NEW email \in Emails, NEW l \in LinkIds,
         Consume(r, l) \/ BeginLogin(r, email) \/ Rollback(r)
  PROVE  AccountsInv'
<1>1. users \in [Emails -> Users \cup {NoUser}] /\ links \in [LinkIds -> Links \cup {NoLink}]
  BY DEF AccountsInv, TypeOK
<1>2. CASE Consume(r, l)
  <2> DEFINE user == users[links[l].email]
             t == [pc |-> "acting", locked |-> {l}, link |-> l, user |-> user]
  <2>1. links[l] # NoLink /\ ~links[l].used /\ l \notin LockedElsewhere(r)
    BY <1>2 DEF Consume
  <2>2. user \in Users
    <3>1. links[l].email \in Emails
      BY <1>1, <2>1 DEF Links
    <3>2. users[links[l].email] # NoUser
      BY <2>1 DEF AccountsInv, RowsSound
    <3> QED
      BY <1>1, <3>1, <3>2
  <2>3. Continue(r, t) /\ UNCHANGED Tables /\ now' = now
    BY <1>2 DEF Consume, Tables
  <2> HIDE DEF user
  <2>4. t \in Transactions /\ Sound(t) /\ t.locked \cap LockedElsewhere(r) = {}
    BY <2>1, <2>2 DEF Transactions, Sound
  <2> QED
    BY <2>3, <2>4, TransactionMoves
<1>3. CASE BeginLogin(r, email)
  <2> DEFINE t == [pc |-> "signing", locked |-> {}, email |-> email, user |-> users[email]]
  <2>1. users[email] \in Users /\ Proven(email)
    BY <1>1, <1>3 DEF BeginLogin, AccountsInv, RowsSound
  <2>2. t \in Transactions /\ Sound(t)
    BY <2>1 DEF Transactions, Sound
  <2> QED
    BY <1>3, <2>2, TransactionMoves DEF BeginLogin, Tables
<1>4. CASE Rollback(r)
  <2>1. Continue(r, Idle) /\ UNCHANGED Tables /\ now' = now
    BY <1>4 DEF Rollback, Finish, Continue, Tables
  <2> QED
    BY <2>1, IdleSound, TransactionMoves DEF Idle
<1> QED
  BY <1>2, <1>3, <1>4
-------------------------------------------------------------------------------
(* Steps that commit. *)

\* What a commit of r does to the tables leaves every other transaction sound:
\* it adds rows, and rewrites only links that r has locked.
RowsGrow(r) ==
  /\ \A e \in Emails : users[e] # NoUser => users'[e] # NoUser
  /\ \A e \in Emails : users[e] = NoUser /\ users'[e] # NoUser =>
       req[r].pc = "registering" /\ req[r].email = e
  /\ \A l \in LinkIds : links[l] # NoLink =>
       /\ links'[l] # NoLink /\ links'[l].email = links[l].email
       /\ l \notin req[r].locked => links'[l] = links[l]
  /\ \A l \in LinkIds : acted[l] > 0 => acted'[l] > 0

LEMMA ProvenStays ==
  ASSUME AccountsInv, NEW r \in Requests, RowsGrow(r), NEW email, Proven(email)
  PROVE  Proven(email)'
BY DEF Proven, RowsGrow

LEMMA CommitKeepsRequests ==
  ASSUME AccountsInv, NEW r \in Requests, Finish(r), RowsGrow(r)
  PROVE  /\ req' \in [Requests -> Transactions]
         /\ (RequestsSound /\ LocksApart /\ RegistrationsApart)'
<1>1. req' = [req EXCEPT ![r] = Idle] /\ req \in [Requests -> Transactions]
  BY DEF Finish, AccountsInv, TypeOK
<1>2. \A other \in Requests : req'[other] = IF other = r THEN Idle ELSE req[other]
  BY <1>1
<1>3. req' \in [Requests -> Transactions]
  BY <1>1, IdleSound
<1>4. ASSUME NEW other \in Requests PROVE Sound(req[other])'
  <2>1. CASE other = r
    <3>1. req'[other] = Idle
      BY <1>2, <2>1
    <3> QED
      BY <3>1 DEF Sound, Idle
  <2>2. CASE other # r
    <3> DEFINE t == req[other]
    <3>1. req'[other] = t /\ t \in Transactions /\ Sound(t)
      BY <1>1, <1>2, <2>2 DEF AccountsInv, RequestsSound
    <3>2. \A l \in t.locked : l \in LinkIds /\ l \notin req[r].locked
      BY <2>2, <3>1, TransactionType DEF AccountsInv, LocksApart
    <3>3. \A l \in t.locked : links'[l] # NoLink /\ ~links'[l].used
      BY <3>1, <3>2 DEF Sound, RowsGrow
    <3>4. t.pc = "burning" => \A l \in t.rows : links'[l] # NoLink
      BY <3>1, TransactionType DEF Sound, RowsGrow
    <3>5. t.pc \in {"mailing", "burning", "issuing"} => users'[t.email] # NoUser
      BY <3>1, TransactionType DEF Sound, RowsGrow
    <3>6. t.pc = "registering" => users'[t.email] = NoUser
      BY <2>2, <3>1, TransactionType DEF Sound, RowsGrow, AccountsInv, RegistrationsApart
    <3>7. t.pc = "signing" => Proven(t.email)'
      <4>1. SUFFICES ASSUME t.pc = "signing" PROVE Proven(t.email)'
        OBVIOUS
      <4>2. \E l \in LinkIds : links[l] # NoLink /\ links[l].email = t.email /\ acted[l] > 0
        BY <3>1, <4>1 DEF Sound, Proven
      <4>3. \E l \in LinkIds : links'[l] # NoLink /\ links'[l].email = t.email /\ acted'[l] > 0
        BY <4>2 DEF RowsGrow
      <4> QED
        BY <3>1, <4>3 DEF Proven
    <3>8. t.pc = "acting" => t.link \in t.locked
      BY <3>1 DEF Sound
    <3> QED
      BY <3>1, <3>3, <3>4, <3>5, <3>6, <3>7, <3>8 DEF Sound, Proven
  <2> QED
    BY <2>1, <2>2
<1>5. RequestsSound'
  BY <1>4 DEF RequestsSound
<1>6. LocksApart'
  BY <1>2 DEF AccountsInv, LocksApart, Idle
<1>7. RegistrationsApart'
  BY <1>2 DEF AccountsInv, RegistrationsApart, Idle
<1> QED
  BY <1>3, <1>5, <1>6, <1>7

LEMMA NewLinkType ==
  ASSUME AccountsInv, NEW email \in Emails, NEW purpose \in Purposes
  PROVE  NewLink(email, purpose) \in Links
BY LivesAssumption DEF NewLink, Links, AccountsInv, TypeOK

LEMMA SetPasswordType ==
  ASSUME AccountsInv, NEW at \in Nat, SetPassword(at)
  PROVE  setAt' \in Seq(Nat) /\ Len(setAt') \in Nat
BY DEF SetPassword, AccountsInv, TypeOK

LEMMA OpenSessionType ==
  ASSUME AccountsInv, NEW email \in Emails, NEW user \in Users, OpenSession(email, user)
  PROVE  /\ issued' \in Nat /\ sessions' \subseteq Sessions
         /\ \A s \in sessions' : s \in sessions \/ s.email = email
<1>1. Session(email, user) \in Sessions /\ Session(email, user).email = email
  <2>1. user.changedAt \div TicksPerSecond \in Nat
    BY LivesAssumption DEF Users
  <2> QED
    BY <2>1, LivesAssumption DEF Session, Sessions, Stamp, Users, AccountsInv, TypeOK
<1> QED
  BY <1>1 DEF OpenSession, AccountsInv, TypeOK

LEMMA CommitRegisterStep ==
  ASSUME AccountsInv, NEW r \in Requests, CommitRegister(r)
  PROVE  AccountsInv'
<1> DEFINE email == req[r].email
           row   == [password |-> Len(setAt'), verified |-> FALSE, changedAt |-> req[r].at]
<1>1. email \in Emails /\ req[r].at \in Nat /\ users[email] = NoUser
  BY TransactionType DEF CommitRegister, AccountsInv, TypeOK, RequestsSound, Sound
<1>2. PICK l \in LinkIds : links[l] = NoLink /\ links' = [links EXCEPT ![l] = NewLink(email, "verify")]
  BY DEF CommitRegister
<1>3. users' = [users EXCEPT ![email] = row] /\ row \in Users /\ ~row.verified
  BY <1>1, SetPasswordType DEF CommitRegister, Users
<1>4. NewLink(email, "verify") \in Links /\ NewLink(email, "verify").email = email
  BY <1>1, NewLinkType DEF Purposes, NewLink
<1> HIDE DEF email, row
<1>5. users \in [Emails -> Users \cup {NoUser}] /\ links \in [LinkIds -> Links \cup {NoLink}]
  BY DEF AccountsInv, TypeOK
<1>6. /\ users'[email] # NoUser
      /\ \A e \in Emails : e # email => users'[e] = users[e]
      /\ \A k \in LinkIds : k # l => links'[k] = links[k]
      /\ links'[l] # NoLink /\ links'[l].email = email
  BY <1>1, <1>2, <1>3, <1>4, <1>5, NoRowAssumption
<1>7. Finish(r) /\ UNCHANGED <<now, sessions, issued, acted, burned>> /\ req[r].pc = "registering"
  BY DEF CommitRegister
<1>8. RowsGrow(r)
  BY <1>2, <1>6, <1>7 DEF RowsGrow, email
<1>9. TypeOK'
  <2>1. setAt' \in Seq(Nat)
    BY <1>1, SetPasswordType DEF CommitRegister
  <2>2. users' \in [Emails -> Users \cup {NoUser}] /\ links' \in [LinkIds -> Links \cup {NoLink}]
    BY <1>2, <1>3, <1>4, <1>5
  <2> QED
    BY <1>7, <1>8, <2>1, <2>2, CommitKeepsRequests DEF AccountsInv, TypeOK
<1>10. RowsSound'
  <2>1. \A k \in LinkIds : links'[k] # NoLink => users'[links'[k].email] # NoUser
    <3> SUFFICES ASSUME NEW k \in LinkIds, links'[k] # NoLink PROVE users'[links'[k].email] # NoUser
      OBVIOUS
    <3>1. k # l => links[k].email \in Emails /\ users[links[k].email] # NoUser
      BY <1>5, <1>6 DEF Links, AccountsInv, RowsSound
    <3> QED
      BY <1>6, <3>1
  <2>2. ASSUME NEW e \in Emails, users'[e] # NoUser, users'[e].verified PROVE Proven(e)'
    <3>1. e # email
      BY <1>1, <1>3, <1>5, <2>2
    <3>2. Proven(e)
      BY <1>6, <2>2, <3>1 DEF AccountsInv, RowsSound
    <3> QED
      BY <1>8, <3>2, ProvenStays
  <2>3. \A k \in LinkIds : acted'[k] > 0 \/ k \in burned' => links'[k] # NoLink /\ links'[k].used
    BY <1>2, <1>6, <1>7 DEF AccountsInv, RowsSound
  <2> QED
    BY <2>1, <2>2, <2>3 DEF RowsSound
<1>11. (LinkSettledOnce /\ SessionsAreProven)'
  <2>1. \A s \in sessions' : Proven(s.email)'
    BY <1>7, <1>8, ProvenStays DEF AccountsInv, SessionsAreProven, Proven
  <2> QED
    BY <1>7, <2>1 DEF AccountsInv, LinkSettledOnce, SessionsAreProven, Proven
<1> QED
  BY <1>7, <1>8, <1>9, <1>10, <1>11, CommitKeepsRequests DEF AccountsInv
LEMMA CommitMailStep ==
  ASSUME AccountsInv, NEW r \in Requests, CommitMail(r)
  PROVE  AccountsInv'
<1> DEFINE email == req[r].email
           row   == NewLink(email, req[r].purpose)
           taken == req[r].locked
<1>1. /\ email \in Emails /\ req[r].purpose \in Purposes /\ users[email] # NoUser
      /\ taken \in SUBSET LinkIds /\ \A k \in taken : links[k] # NoLink /\ ~links[k].used
  BY TransactionType DEF CommitMail, AccountsInv, TypeOK, RequestsSound, Sound
<1>2. PICK l \in LinkIds :
        /\ links[l] = NoLink
        /\ links' = [k \in LinkIds |-> IF k = l THEN row
                                      ELSE IF k \in taken THEN [links[k] EXCEPT !.used = TRUE]
                                      ELSE links[k]]
  BY DEF CommitMail
<1>3. row \in Links /\ row.email = email
  BY <1>1, NewLinkType DEF NewLink
<1>4. users \in [Emails -> Users \cup {NoUser}] /\ links \in [LinkIds -> Links \cup {NoLink}]
  BY DEF AccountsInv, TypeOK
<1>5. burned' = burned \cup taken /\ Finish(r) /\ UNCHANGED <<now, users, sessions, setAt, issued, acted>>
  BY DEF CommitMail
<1> HIDE DEF row, email, taken
<1>6. links'[l] = row /\ row # NoLink /\ l \notin taken
  BY <1>1, <1>2, <1>3, NoRowAssumption
<1>7. ASSUME NEW k \in taken
      PROVE  links'[k] \in Links /\ links'[k].email = links[k].email /\ links'[k].used
  <2>1. links[k] \in Links /\ k # l /\ k \in LinkIds
    BY <1>1, <1>4, <1>6, <1>7
  <2>2. links'[k] = [links[k] EXCEPT !.used = TRUE]
    BY <1>2, <1>7, <2>1
  <2> QED
    BY <2>1, <2>2 DEF Links
<1>8. \A k \in LinkIds \ {l} : k \notin taken => links'[k] = links[k]
  BY <1>2
<1>9. \A k \in LinkIds : links'[k] \in Links \cup {NoLink}
  BY <1>3, <1>4, <1>6, <1>7, <1>8
<1>10. RowsGrow(r)
  <2>1. ASSUME NEW k \in LinkIds, links[k] # NoLink
        PROVE  /\ links'[k] # NoLink /\ links'[k].email = links[k].email
               /\ k \notin taken => links'[k] = links[k]
    <3>1. k # l
      BY <1>2, <2>1
    <3> QED
      BY <1>7, <1>8, <2>1, <3>1, NoRowAssumption
  <2> QED
    BY <1>5, <2>1 DEF RowsGrow, taken
<1>11. TypeOK'
  <2>1. links' \in [LinkIds -> Links \cup {NoLink}]
    BY <1>2, <1>9
  <2> QED
    BY <1>1, <1>5, <1>10, <2>1, CommitKeepsRequests DEF AccountsInv, TypeOK
<1>12. RowsSound'
  <2>1. ASSUME NEW k \in LinkIds, links'[k] # NoLink PROVE users'[links'[k].email] # NoUser
    <3>1. CASE k = l
      BY <1>1, <1>3, <1>5, <1>6, <3>1
    <3>2. CASE k # l
      <4>1. links[k] # NoLink /\ links'[k].email = links[k].email
        BY <1>1, <1>7, <1>8, <2>1, <3>2
      <4> QED
        BY <1>5, <4>1 DEF AccountsInv, RowsSound
    <3> QED
      BY <3>1, <3>2
  <2>2. ASSUME NEW e \in Emails, users'[e] # NoUser, users'[e].verified PROVE Proven(e)'
    <3>1. Proven(e)
      BY <1>5, <2>2 DEF AccountsInv, RowsSound
    <3> QED
      BY <1>10, <3>1, ProvenStays
  <2>3. ASSUME NEW k \in LinkIds, acted'[k] > 0 \/ k \in burned'
        PROVE  links'[k] # NoLink /\ links'[k].used
    <3>1. CASE k \in taken
      BY <1>7, <3>1, NoRowAssumption
    <3>2. CASE k \notin taken
      <4>1. links[k] # NoLink /\ links[k].used
        BY <1>5, <2>3, <3>2 DEF AccountsInv, RowsSound
      <4> QED
        BY <1>2, <1>8, <3>2, <4>1
    <3> QED
      BY <3>1, <3>2
  <2> QED
    BY <2>1, <2>2, <2>3 DEF RowsSound
<1>13. (LinkSettledOnce /\ SessionsAreProven)'
  <2>1. \A k \in taken : acted[k] = 0
    BY <1>1 DEF AccountsInv, RowsSound, TypeOK
  <2>2. LinkSettledOnce'
    BY <1>5, <2>1 DEF AccountsInv, LinkSettledOnce
  <2>3. \A s \in sessions' : Proven(s.email)'
    BY <1>5, <1>10, ProvenStays DEF AccountsInv, SessionsAreProven, Proven
  <2> QED
    BY <2>2, <2>3 DEF SessionsAreProven, Proven
<1> QED
  BY <1>5, <1>10, <1>11, <1>12, <1>13, CommitKeepsRequests DEF AccountsInv

\* A link in use is locked, unused and has not acted; its user exists.
LEMMA ActingLink ==
  ASSUME AccountsInv, NEW r \in Requests, req[r].pc = "acting"
  PROVE  /\ req[r].link \in LinkIds /\ req[r].link \in req[r].locked /\ req[r].user \in Users
         /\ links[req[r].link] \in Links /\ ~links[req[r].link].used
         /\ acted[req[r].link] = 0 /\ req[r].link \notin burned
         /\ links[req[r].link].email \in Emails /\ users[links[req[r].link].email] \in Users
<1>1. /\ req[r].link \in LinkIds /\ req[r].link \in req[r].locked /\ req[r].user \in Users
      /\ links[req[r].link] # NoLink /\ ~links[req[r].link].used
  BY TransactionType DEF AccountsInv, TypeOK, RequestsSound, Sound
<1>2. links[req[r].link] \in Links
  BY <1>1 DEF AccountsInv, TypeOK
<1>3. links[req[r].link].email \in Emails
  BY <1>2 DEF Links
<1> QED
  BY <1>1, <1>2, <1>3 DEF AccountsInv, TypeOK, RowsSound

\* Using a link settles it and proves its address, whatever else the commit
\* writes into the user's row and opens sessions for.
LEMMA LinkActs ==
  ASSUME AccountsInv, NEW r \in Requests, req[r].pc = "acting", UseLink(r),
         NEW l \in LinkIds, l = req[r].link, NEW email \in Emails, email = links[l].email,
         NEW row \in Users, users' = [users EXCEPT ![email] = row],
         \A s \in sessions' : s \in sessions \/ s.email = email,
         sessions' \subseteq Sessions, issued' \in Nat, setAt' \in Seq(Nat),
         now' = now, burned' = burned
  PROVE  AccountsInv'
<1> DEFINE used == [links[l] EXCEPT !.used = TRUE]
<1>1. /\ l \in req[r].locked /\ links[l] \in Links /\ acted[l] = 0 /\ l \notin burned
      /\ users[email] \in Users
  BY ActingLink
<1>2. used \in Links /\ used.email = email /\ used.used
  BY <1>1 DEF Links
<1>3. /\ links \in [LinkIds -> Links \cup {NoLink}] /\ acted \in [LinkIds -> Nat]
      /\ users \in [Emails -> Users \cup {NoUser}] /\ now \in Nat /\ burned \subseteq LinkIds
  BY DEF AccountsInv, TypeOK
<1>4. Finish(r) /\ links' = [links EXCEPT ![l] = used] /\ acted' = [acted EXCEPT ![l] = @ + 1]
  BY DEF UseLink
<1> HIDE DEF used
<1>5. /\ links'[l] = used /\ used # NoLink /\ acted'[l] = 1
      /\ \A k \in LinkIds : k # l => links'[k] = links[k] /\ acted'[k] = acted[k]
      /\ users'[email] = row /\ row # NoUser /\ users[email] # NoUser
      /\ \A e \in Emails : e # email => users'[e] = users[e]
  BY <1>1, <1>2, <1>3, <1>4, NoRowAssumption
<1>6. RowsGrow(r)
  BY <1>1, <1>2, <1>5 DEF RowsGrow
<1>7. Proven(email)'
  BY <1>1, <1>2, <1>5 DEF Proven
<1>8. TypeOK'
  <2>1. links' \in [LinkIds -> Links \cup {NoLink}]
    BY <1>2, <1>3, <1>4
  <2>2. acted' \in [LinkIds -> Nat]
    BY <1>1, <1>3, <1>4
  <2>3. users' \in [Emails -> Users \cup {NoUser}]
    BY <1>3
  <2> QED
    BY <1>3, <1>4, <1>6, <2>1, <2>2, <2>3, CommitKeepsRequests DEF TypeOK
<1>9. RowsSound'
  <2>1. \A k \in LinkIds : links'[k] # NoLink => users'[links'[k].email] # NoUser
    <3> SUFFICES ASSUME NEW k \in LinkIds, links'[k] # NoLink PROVE users'[links'[k].email] # NoUser
      OBVIOUS
    <3>1. k # l => links[k].email \in Emails /\ users[links[k].email] # NoUser
      BY <1>3, <1>5 DEF Links, AccountsInv, RowsSound
    <3> QED
      BY <1>2, <1>5, <3>1
  <2>2. ASSUME NEW e \in Emails, users'[e] # NoUser, users'[e].verified PROVE Proven(e)'
    <3>1. e # email => Proven(e)
      BY <1>5, <2>2 DEF AccountsInv, RowsSound
    <3> QED
      BY <1>6, <1>7, <3>1, ProvenStays
  <2>3. \A k \in LinkIds : acted'[k] > 0 \/ k \in burned' => links'[k] # NoLink /\ links'[k].used
    BY <1>2, <1>5 DEF AccountsInv, RowsSound
  <2> QED
    BY <2>1, <2>2, <2>3 DEF RowsSound
<1>10. (LinkSettledOnce /\ SessionsAreProven)'
  <2>1. LinkSettledOnce'
    BY <1>1, <1>5 DEF AccountsInv, LinkSettledOnce
  <2>2. ASSUME NEW s \in sessions' PROVE Proven(s.email)'
    <3>1. s.email # email => Proven(s.email)
      BY <2>2 DEF AccountsInv, SessionsAreProven, Proven
    <3> QED
      BY <1>6, <1>7, <3>1, ProvenStays
  <2> QED
    BY <2>1, <2>2 DEF SessionsAreProven, Proven
<1> QED
  BY <1>4, <1>6, <1>8, <1>9, <1>10, CommitKeepsRequests DEF AccountsInv

LEMMA SubmitCommits ==
  ASSUME AccountsInv, NEW r \in Requests, CommitVerify(r) \/ CommitReset(r)
  PROVE  AccountsInv'
<1> DEFINE email == links[req[r].link].email
           user  == users[email]
<1>1. req[r].pc = "acting" /\ UseLink(r) /\ now' = now /\ burned' = burned
  BY DEF CommitVerify, CommitReset
<1>2. email \in Emails /\ user \in Users /\ req[r].user \in Users
  BY <1>1, ActingLink
<1>3. CASE CommitVerify(r)
  <2> DEFINE row == [user EXCEPT !.verified = TRUE]
  <2>1. row \in Users /\ users' = [users EXCEPT ![email] = row] /\ OpenSession(email, req[r].user)
    BY <1>2, <1>3 DEF CommitVerify, Users
  <2>2. /\ issued' \in Nat /\ sessions' \subseteq Sessions
        /\ \A s \in sessions' : s \in sessions \/ s.email = email
    BY <1>2, <2>1, OpenSessionType
  <2>3. setAt' \in Seq(Nat)
    BY <1>3 DEF CommitVerify, AccountsInv, TypeOK
  <2> QED
    BY <1>1, <1>2, <2>1, <2>2, <2>3, ActingLink, LinkActs
<1>4. CASE CommitReset(r)
  <2> DEFINE row == [password |-> Len(setAt'), verified |-> TRUE, changedAt |-> now]
  <2>1. now \in Nat /\ SetPassword(now)
    BY <1>4 DEF CommitReset, AccountsInv, TypeOK
  <2>2. row \in Users /\ users' = [users EXCEPT ![email] = row] /\ setAt' \in Seq(Nat)
    BY <1>4, <2>1, SetPasswordType DEF CommitReset, Users
  <2>3. issued' \in Nat /\ sessions' \subseteq Sessions /\ sessions' = sessions
    BY <1>4 DEF CommitReset, AccountsInv, TypeOK
  <2> QED
    BY <1>1, <1>2, <2>2, <2>3, ActingLink, LinkActs
<1> QED
  BY <1>3, <1>4

LEMMA FinishLoginStep ==
  ASSUME AccountsInv, NEW r \in Requests, FinishLogin(r)
  PROVE  AccountsInv'
<1> DEFINE email == req[r].email
<1>1. email \in Emails /\ req[r].user \in Users /\ Proven(email)
  BY TransactionType DEF FinishLogin, AccountsInv, TypeOK, RequestsSound, Sound
<1>2. /\ issued' \in Nat /\ sessions' \subseteq Sessions
      /\ \A s \in sessions' : s \in sessions \/ s.email = email
  BY <1>1, OpenSessionType DEF FinishLogin
<1>3. Finish(r) /\ UNCHANGED <<now, users, links, setAt, acted, burned>>
  BY DEF FinishLogin
<1>4. RowsGrow(r)
  BY <1>3 DEF RowsGrow
<1>5. TypeOK'
  BY <1>2, <1>3, <1>4, CommitKeepsRequests DEF AccountsInv, TypeOK
<1>6. (RowsSound /\ LinkSettledOnce)'
  BY <1>3 DEF AccountsInv, RowsSound, LinkSettledOnce, Proven
<1>7. SessionsAreProven'
  BY <1>1, <1>2, <1>3 DEF AccountsInv, SessionsAreProven, Proven
<1> QED
  BY <1>3, <1>4, <1>5, <1>6, <1>7, CommitKeepsRequests DEF AccountsInv

-------------------------------------------------------------------------------
(* Theorems. *)

LEMMA AccountsInit == Init => AccountsInv
<1> SUFFICES ASSUME Init PROVE AccountsInv
  OBVIOUS
<1>1. \A r \in Requests : req[r] = Idle
  BY DEF Init
<1>2. TypeOK
  BY IdleSound DEF Init, TypeOK
<1>3. RequestsSound /\ LocksApart /\ RegistrationsApart
  BY <1>1 DEF RequestsSound, Sound, LocksApart, RegistrationsApart, Idle
<1>4. RowsSound /\ LinkSettledOnce /\ SessionsAreProven
  BY DEF Init, RowsSound, LinkSettledOnce, SessionsAreProven
<1> QED
  BY <1>2, <1>3, <1>4 DEF AccountsInv

LEMMA AccountsStep == AccountsInv /\ [Next]_vars => AccountsInv'
<1> SUFFICES ASSUME AccountsInv, [Next]_vars PROVE AccountsInv'
  OBVIOUS
<1>1. CASE UNCHANGED vars
  BY <1>1 DEF vars, AccountsInv, TypeOK, RequestsSound, Sound, LocksApart, RegistrationsApart,
              RowsSound, LinkSettledOnce, SessionsAreProven, Proven
<1>2. CASE PassTime
  <2>1. TypeOK'
    BY <1>2 DEF PassTime, AccountsInv, TypeOK
  <2> QED
    BY <1>2, <2>1 DEF PassTime, AccountsInv, RequestsSound, Sound, LocksApart, RegistrationsApart,
                      RowsSound, LinkSettledOnce, SessionsAreProven, Proven
<1>3. ASSUME NEW r \in Requests, NEW email \in Emails, BeginRegister(r, email) \/ BeginLogin(r, email)
      PROVE  AccountsInv'
  <2>1. CASE BeginRegister(r, email)
    BY <2>1, RegisterSteps
  <2>2. CASE BeginLogin(r, email)
    <3>1. \E l \in LinkIds : TRUE
      BY <2>2 DEF BeginLogin, AccountsInv, RowsSound, Proven
    <3> QED
      BY <2>2, <3>1, SubmitSteps
  <2> QED
    BY <1>3, <2>1, <2>2
<1>4. ASSUME NEW r \in Requests, NEW email \in Emails, NEW purpose \in Purposes,
             BeginMail(r, email, purpose)
      PROVE  AccountsInv'
  BY <1>4, MailSteps
<1>5. ASSUME NEW r \in Requests, InsertUser(r) \/ StartBurn(r) \/ Burn(r) PROVE AccountsInv'
  <2>1. req[r].email \in Emails /\ "verify" \in Purposes
    BY <1>5, TransactionType DEF InsertUser, StartBurn, Burn, AccountsInv, TypeOK, Purposes
  <2> QED
    BY <1>5, <2>1, RegisterSteps, MailSteps
<1>6. ASSUME NEW r \in Requests, NEW l \in LinkIds, Consume(r, l) PROVE AccountsInv'
  <2>1. links[l].email \in Emails
    BY <1>6 DEF Consume, AccountsInv, TypeOK, Links
  <2> QED
    BY <1>6, <2>1, SubmitSteps
<1>7. ASSUME NEW r \in Requests, Rollback(r) PROVE AccountsInv'
  <2>1. Continue(r, Idle) /\ UNCHANGED Tables /\ now' = now
    BY <1>7 DEF Rollback, Finish, Continue, Tables
  <2> QED
    BY <2>1, IdleSound, TransactionMoves DEF Idle
<1>8. ASSUME NEW r \in Requests,
             CommitRegister(r) \/ CommitMail(r) \/ CommitVerify(r) \/ CommitReset(r) \/ FinishLogin(r)
      PROVE  AccountsInv'
  BY <1>8, CommitRegisterStep, CommitMailStep, SubmitCommits, FinishLoginStep
<1> QED
  BY <1>1, <1>2, <1>3, <1>4, <1>5, <1>6, <1>7, <1>8 DEF Next

\* The invariant the theorems below rest on: what a request under way has read is
\* still true of the rows, and no two requests hold one lock.
THEOREM AccountsInvariant == Spec => []AccountsInv
BY AccountsInit, AccountsStep, PTL DEF Spec

\* Every variable keeps its type.
THEOREM TypeCorrect == Spec => []TypeOK
<1>1. AccountsInv => TypeOK
  BY DEF AccountsInv
<1> QED
  BY <1>1, AccountsInvariant, PTL

\* A link acts at most once, and never once a newer one has burned it.
THEOREM LinksSettle == Spec => []LinkSettledOnce
<1>1. AccountsInv => LinkSettledOnce
  BY DEF AccountsInv
<1> QED
  BY <1>1, AccountsInvariant, PTL

\* Every session belongs to an address some mailed link has proven.
THEOREM SessionsProven == Spec => []SessionsAreProven
<1>1. AccountsInv => SessionsAreProven
  BY DEF AccountsInv
<1> QED
  BY <1>1, AccountsInvariant, PTL
\* A stored password is replaced only by a reset link that acts: no registration
\* that raced with another, and no verification, overwrites it.
THEOREM PasswordsChangeByLink == Spec => PasswordChangesByLink
<1> DEFINE ByLink(e) == \E l \in LinkIds : /\ acted'[l] > acted[l]
                                           /\ links[l].email = e /\ links[l].purpose = "reset"
           Kept(e) == users'[e] # NoUser /\ users'[e].password = users[e].password
<1>1. AccountsInv /\ [Next]_vars =>
        [\A e \in Emails : users[e] # NoUser =>
           \/ users'[e] # NoUser /\ users'[e].password = users[e].password
           \/ \E l \in LinkIds : /\ acted'[l] > acted[l]
                                 /\ links[l].email = e /\ links[l].purpose = "reset"]_vars
  <2> SUFFICES ASSUME AccountsInv, Next, NEW e \in Emails, users[e] # NoUser
               PROVE  Kept(e) \/ ByLink(e)
    BY Zenon
  <2>1. users \in [Emails -> Users \cup {NoUser}] /\ acted \in [LinkIds -> Nat]
    BY DEF AccountsInv, TypeOK
  <2>2. CASE users' = users
    BY <2>2
  <2>3. ASSUME NEW r \in Requests, CommitRegister(r) PROVE Kept(e)
    <3>1. req[r].email # e
      BY <2>3 DEF CommitRegister, AccountsInv, RequestsSound, Sound
    <3> QED
      BY <2>1, <2>3, <3>1 DEF CommitRegister
  <2>4. ASSUME NEW r \in Requests, CommitVerify(r) PROVE Kept(e)
    <3>1. PICK email \in Emails : users[email] \in Users /\ users' = [users EXCEPT ![email].verified = TRUE]
      BY <2>4, ActingLink DEF CommitVerify
    <3>2. email = e => users'[e] = [users[e] EXCEPT !.verified = TRUE] /\ users'[e] \in Users
      BY <2>1, <3>1 DEF Users
    <3>3. email # e => users'[e] = users[e]
      BY <2>1, <3>1
    <3> QED
      BY <3>1, <3>2, <3>3, NoRowAssumption DEF Users
  <2>5. ASSUME NEW r \in Requests, CommitReset(r) PROVE Kept(e) \/ ByLink(e)
    <3> DEFINE l == req[r].link
    <3>1. l \in LinkIds /\ links[l].purpose = "reset" /\ acted'[l] > acted[l]
      BY <2>1, <2>5, ActingLink DEF CommitReset, UseLink
    <3>2. CASE links[l].email = e
      BY <3>1, <3>2
    <3>3. CASE links[l].email # e
      BY <2>1, <2>5, <3>3 DEF CommitReset
    <3> QED
      BY <3>2, <3>3
  <2>6. ASSUME NEW r \in Requests, NEW email \in Emails,
               BeginRegister(r, email) \/ BeginLogin(r, email)
                 \/ \E purpose \in Purposes : BeginMail(r, email, purpose)
        PROVE  users' = users
    BY <2>6 DEF BeginRegister, BeginLogin, BeginMail
  <2>7. ASSUME NEW r \in Requests,
               InsertUser(r) \/ StartBurn(r) \/ Burn(r) \/ CommitMail(r) \/ FinishLogin(r) \/ Rollback(r)
                 \/ \E l \in LinkIds : Consume(r, l)
        PROVE  users' = users
    BY <2>7 DEF InsertUser, StartBurn, Burn, CommitMail, FinishLogin, Rollback, Consume
  <2>8. PassTime => users' = users
    BY DEF PassTime
  <2> HIDE DEF Kept, ByLink
  <2> QED
    BY <2>2, <2>3, <2>4, <2>5, <2>6, <2>7, <2>8 DEF Next
<1> QED
  BY <1>1, AccountsInvariant, PTL DEF Spec, PasswordChangesByLink
-------------------------------------------------------------------------------
(* Stamps. *)

\* A user row, committed or read earlier, carries the time its password was set.
Stamped(user) == user.password \in 1..Len(setAt) /\ setAt[user.password] = user.changedAt

StampsSound ==
  /\ \A e \in Emails : users[e] # NoUser => Stamped(users[e])
  /\ \A r \in Requests : req[r].pc \in {"acting", "signing"} => Stamped(req[r].user)
  /\ \A s \in sessions : s.password \in 1..Len(setAt) /\ s.stamp = SetInSecond(s.password)

\* Setting a password leaves the times of the earlier ones alone.
LEMMA PasswordSet ==
  ASSUME AccountsInv, NEW at \in Nat, SetPassword(at)
  PROVE  /\ Len(setAt') = Len(setAt) + 1 /\ setAt'[Len(setAt')] = at
         /\ \A n \in 1..Len(setAt) : n \in 1..Len(setAt') /\ setAt'[n] = setAt[n]
         /\ Len(setAt') \in 1..Len(setAt')
BY DEF SetPassword, AccountsInv, TypeOK

\* A step that keeps the rows and the sessions, or opens one from a row that is
\* stamped, keeps the stamps sound.
LEMMA StampsKept ==
  ASSUME StampsSound, NEW r \in Requests, setAt' = setAt,
         \A e \in Emails : users'[e] # NoUser =>
           users[e] # NoUser /\ users'[e].password = users[e].password
             /\ users'[e].changedAt = users[e].changedAt,
         \A other \in Requests \ {r} : req'[other] = req[other],
         req'[r].pc \in {"acting", "signing"} => Stamped(req'[r].user),
         \A s \in sessions' \ sessions : \E user :
           Stamped(user) /\ s.password = user.password /\ s.stamp = Stamp(user)
  PROVE  StampsSound'
<1>1. ASSUME NEW e \in Emails, users'[e] # NoUser PROVE Stamped(users[e])'
  BY <1>1 DEF StampsSound, Stamped
<1>2. ASSUME NEW other \in Requests, req'[other].pc \in {"acting", "signing"} PROVE Stamped(req[other].user)'
  <2>1. Stamped(req'[other].user)
    BY <1>2 DEF StampsSound
  <2> QED
    BY <2>1 DEF Stamped
<1>3. ASSUME NEW s \in sessions' PROVE s.password \in 1..Len(setAt) /\ s.stamp = SetInSecond(s.password)
  <2>1. CASE s \in sessions
    BY <2>1 DEF StampsSound
  <2>2. CASE s \notin sessions
    <3>1. PICK user : Stamped(user) /\ s.password = user.password /\ s.stamp = Stamp(user)
      BY <1>3, <2>2
    <3> QED
      BY <3>1 DEF Stamped, Stamp, SetInSecond
  <2> QED
    BY <2>1, <2>2
<1> QED
  BY <1>1, <1>2, <1>3 DEF StampsSound, SetInSecond

\* A step that sets a password, as it commits the row that carries it.
LEMMA StampsAdded ==
  ASSUME AccountsInv, StampsSound, NEW r \in Requests, NEW at \in Nat, SetPassword(at), Finish(r),
         NEW email \in Emails, sessions' = sessions,
         NEW row, row.password = Len(setAt'), row.changedAt = at, users' = [users EXCEPT ![email] = row]
  PROVE  StampsSound'
<1>1. /\ Len(setAt') \in 1..Len(setAt') /\ setAt'[Len(setAt')] = at
      /\ \A n \in 1..Len(setAt) : n \in 1..Len(setAt') /\ setAt'[n] = setAt[n]
  BY PasswordSet
<1>2. \A e \in Emails : users'[e] = IF e = email THEN row ELSE users[e]
  BY DEF AccountsInv, TypeOK
<1>3. \A e \in Emails : users'[e] # NoUser => Stamped(users[e])'
  BY <1>1, <1>2 DEF StampsSound, Stamped
<1>4. \A other \in Requests : req'[other] = IF other = r THEN Idle ELSE req[other]
  BY DEF Finish, AccountsInv, TypeOK
<1>5. \A other \in Requests : req'[other].pc \in {"acting", "signing"} => Stamped(req[other].user)'
  BY <1>1, <1>4 DEF StampsSound, Stamped, Idle
<1>6. \A s \in sessions' : (s.password \in 1..Len(setAt) /\ s.stamp = SetInSecond(s.password))'
  BY <1>1 DEF StampsSound, SetInSecond
<1> QED
  BY <1>3, <1>5, <1>6 DEF StampsSound

LEMMA StampsStep == AccountsInv /\ StampsSound /\ [Next]_vars => StampsSound'
<1> SUFFICES ASSUME AccountsInv, StampsSound, [Next]_vars PROVE StampsSound'
  OBVIOUS
<1> DEFINE OtherRequests(r) == \A other \in Requests \ {r} : req'[other] = req[other]
<1>1. CASE UNCHANGED <<users, req, sessions, setAt>>
  BY <1>1 DEF StampsSound, Stamped, SetInSecond
<1>2. \A r \in Requests : \A t : Continue(r, t) => OtherRequests(r) /\ req'[r] = t
  BY DEF Continue, AccountsInv, TypeOK
<1>3. \A r \in Requests : Finish(r) => Continue(r, Idle)
  BY DEF Finish, Continue
<1>4. ASSUME NEW r \in Requests, NEW t, t.pc \in {"acting", "signing"} => Stamped(t.user),
             Continue(r, t), UNCHANGED <<users, sessions, setAt>>
      PROVE  StampsSound'
  BY <1>2, <1>4, StampsKept
<1>5. ASSUME NEW r \in Requests, NEW email \in Emails,
             BeginRegister(r, email) \/ BeginLogin(r, email)
               \/ \E purpose \in Purposes : BeginMail(r, email, purpose)
      PROVE  StampsSound'
  <2>1. CASE BeginRegister(r, email)
    BY <1>4, <2>1 DEF BeginRegister
  <2>2. CASE BeginLogin(r, email)
    <3>1. Stamped(users[email])
      BY <2>2 DEF BeginLogin, StampsSound
    <3> QED
      BY <1>4, <2>2, <3>1 DEF BeginLogin
  <2>3. ASSUME NEW purpose \in Purposes, BeginMail(r, email, purpose) PROVE StampsSound'
    BY <1>4, <2>3 DEF BeginMail
  <2> QED
    BY <1>5, <2>1, <2>2, <2>3
<1>6. ASSUME NEW r \in Requests, InsertUser(r) \/ StartBurn(r) \/ Burn(r) \/ CommitMail(r) \/ Rollback(r)
      PROVE  StampsSound'
  <2>1. PICK t : t.pc \notin {"acting", "signing"} /\ Continue(r, t)
    BY <1>3, <1>6 DEF InsertUser, StartBurn, Burn, CommitMail, Rollback, Idle
  <2>2. UNCHANGED <<users, sessions, setAt>>
    BY <1>6 DEF InsertUser, StartBurn, Burn, CommitMail, Rollback
  <2> QED
    BY <1>4, <2>1, <2>2
<1>7. ASSUME NEW r \in Requests, NEW l \in LinkIds, Consume(r, l) PROVE StampsSound'
  <2>1. links[l].email \in Emails /\ users[links[l].email] # NoUser
    BY <1>7 DEF Consume, AccountsInv, TypeOK, Links, RowsSound
  <2>2. Stamped(users[links[l].email])
    BY <2>1 DEF StampsSound
  <2> QED
    BY <1>4, <1>7, <2>2 DEF Consume
<1>8. ASSUME NEW r \in Requests, CommitRegister(r) PROVE StampsSound'
  <2>1. req[r].email \in Emails /\ req[r].at \in Nat
    BY <1>8, TransactionType DEF CommitRegister, AccountsInv, TypeOK
  <2> DEFINE row == [password |-> Len(setAt'), verified |-> FALSE, changedAt |-> req[r].at]
  <2>2. /\ SetPassword(req[r].at) /\ users' = [users EXCEPT ![req[r].email] = row]
        /\ Finish(r) /\ sessions' = sessions
    BY <1>8 DEF CommitRegister
  <2>3. row.password = Len(setAt') /\ row.changedAt = req[r].at
    OBVIOUS
  <2> HIDE DEF row
  <2> QED
    BY <2>1, <2>2, <2>3, StampsAdded
<1>9. ASSUME NEW r \in Requests, CommitReset(r) PROVE StampsSound'
  <2>1. now \in Nat /\ links[req[r].link].email \in Emails
    BY <1>9, ActingLink DEF CommitReset, AccountsInv, TypeOK
  <2> DEFINE row == [password |-> Len(setAt'), verified |-> TRUE, changedAt |-> now]
  <2>2. /\ SetPassword(now) /\ users' = [users EXCEPT ![links[req[r].link].email] = row]
        /\ Finish(r) /\ sessions' = sessions
    BY <1>9 DEF CommitReset, UseLink
  <2>3. row.password = Len(setAt') /\ row.changedAt = now
    OBVIOUS
  <2> HIDE DEF row
  <2> QED
    BY <2>1, <2>2, <2>3, StampsAdded
<1>10. ASSUME NEW email, NEW user, Stamped(user), OpenSession(email, user)
       PROVE  \A s \in sessions' \ sessions : \E row :
                Stamped(row) /\ s.password = row.password /\ s.stamp = Stamp(row)
  BY <1>10 DEF OpenSession, Session
<1>11. ASSUME NEW r \in Requests, CommitVerify(r) PROVE StampsSound'
  <2>1. PICK email \in Emails : /\ users[email] \in Users
                               /\ users' = [users EXCEPT ![email].verified = TRUE]
                               /\ OpenSession(email, req[r].user)
    BY <1>11, ActingLink DEF CommitVerify
  <2>2. \A e \in Emails : users'[e] # NoUser =>
          users[e] # NoUser /\ users'[e].password = users[e].password
            /\ users'[e].changedAt = users[e].changedAt
    <3>1. users'[email] = [users[email] EXCEPT !.verified = TRUE] /\ users[email] # NoUser
      BY <2>1, NoRowAssumption DEF AccountsInv, TypeOK
    <3>2. users'[email].password = users[email].password /\ users'[email].changedAt = users[email].changedAt
      BY <2>1, <3>1 DEF Users
    <3>3. \A e \in Emails : e # email => users'[e] = users[e]
      BY <2>1 DEF AccountsInv, TypeOK
    <3> QED
      BY <3>1, <3>2, <3>3
  <2>3. Stamped(req[r].user) /\ Continue(r, Idle) /\ setAt' = setAt
    BY <1>3, <1>11 DEF CommitVerify, UseLink, StampsSound
  <2>4. \A s \in sessions' \ sessions : \E row :
          Stamped(row) /\ s.password = row.password /\ s.stamp = Stamp(row)
    BY <1>10, <2>1, <2>3
  <2> QED
    BY <1>2, <2>2, <2>3, <2>4, StampsKept DEF Idle
<1>12. ASSUME NEW r \in Requests, FinishLogin(r) PROVE StampsSound'
  <2>1. Stamped(req[r].user) /\ Continue(r, Idle) /\ UNCHANGED <<users, setAt>>
    BY <1>3, <1>12 DEF FinishLogin, StampsSound
  <2>2. \A s \in sessions' \ sessions : \E row :
          Stamped(row) /\ s.password = row.password /\ s.stamp = Stamp(row)
    BY <1>10, <1>12, <2>1 DEF FinishLogin
  <2> QED
    BY <1>2, <2>1, <2>2, StampsKept DEF Idle
<1> QED
  BY <1>1, <1>5, <1>6, <1>7, <1>8, <1>9, <1>11, <1>12 DEF Next, PassTime, vars

\* A session opened under an earlier password is refused, unless the two were set
\* within the second a stamp cannot tell apart.
THEOREM ResetsEndSessions == Spec => []ResetEndsSessions
<1>1. Init => StampsSound
  BY DEF Init, StampsSound, Idle
<1>2. AccountsInv /\ StampsSound => ResetEndsSessions
  <2> SUFFICES ASSUME AccountsInv, StampsSound, NEW s \in sessions, Honoured(s)
               PROVE  SetInSecond(s.password) = SetInSecond(users[s.email].password)
    BY DEF ResetEndsSessions
  <2>1. s.email \in Emails /\ users[s.email] # NoUser
    BY DEF Honoured, AccountsInv, TypeOK, Sessions
  <2>2. Stamped(users[s.email]) /\ s.stamp = SetInSecond(s.password)
    BY <2>1 DEF StampsSound
  <2> QED
    BY <2>2 DEF Honoured, Stamp, Stamped, SetInSecond
<1>3. Spec => []StampsSound
  BY <1>1, AccountsInvariant, StampsStep, PTL DEF Spec
<1> QED
  BY <1>2, <1>3, AccountsInvariant, PTL
===============================================================================
