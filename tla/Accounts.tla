-------------------------------- MODULE Accounts --------------------------------
(***************************************************************************)
(* The accounts of backend/app/shared/user: registration, mailed links,    *)
(* password reset, login and sessions.                                     *)
(*                                                                         *)
(* Every request is one database transaction under READ COMMITTED, and its *)
(* statements interleave with those of the others.  A row a transaction    *)
(* has updated stays locked until it commits or rolls back; a statement    *)
(* that meets the lock waits, and then looks at the row again.  users and  *)
(* links hold what is committed; what a transaction has written so far is  *)
(* in req.  A password is the number of the change that set it.            *)
(***************************************************************************)
EXTENDS Naturals, Sequences

CONSTANTS
  Requests,        \* requests the server handles at a time
  Emails,          \* normalized addresses
  LinkIds,         \* raw tokens of mailed links
  NoUser, NoLink,  \* no such row
  LinkLife,        \* how long a link works
  SessionLife,     \* how long a session token works
  TicksPerSecond,  \* instants a stamp in whole seconds cannot tell apart
  MaxTime,         \* bound: the clock stops here
  MaxPasswords,    \* bound: passwords set
  MaxSessions      \* bound: sessions issued

ASSUME LivesAssumption  == /\ {LinkLife, SessionLife} \subseteq Nat
                           /\ TicksPerSecond \in Nat \ {0}
ASSUME BoundsAssumption == {MaxTime, MaxPasswords, MaxSessions} \subseteq Nat

Purposes  == {"verify", "reset"}
Users     == [password : Nat, verified : BOOLEAN, changedAt : Nat]
Links     == [email : Emails, purpose : Purposes, used : BOOLEAN, expiresAt : Nat]
Sessions  == [email : Emails, stamp : Nat, expiresAt : Nat, password : Nat]

ASSUME NoRowAssumption == NoUser \notin Users /\ NoLink \notin Links

VARIABLES
  now,        \* the server's clock
  users,      \* the user table, by address
  links,      \* the email_token table, by raw token
  sessions,   \* session tokens issued, each with the password it was opened under
  req,        \* req[r]: the transaction of request r, and the links it has locked
  setAt,      \* history: when each password was set
  issued,     \* sessions issued so far
  acted,      \* history: how often a link has verified an address or reset a password
  burned      \* history: links invalidated by a newer one

vars == <<now, users, links, sessions, req, setAt, issued, acted, burned>>

Idle == [pc |-> "idle", locked |-> {}]

LockedElsewhere(r) == UNION {req[other].locked : other \in Requests \ {r}}

Finish(r)     == req' = [req EXCEPT ![r] = Idle]
Continue(r, state) == req' = [req EXCEPT ![r] = state]

-------------------------------------------------------------------------------
(* Sessions. *)

\* _pwd_stamp truncates to seconds.
Stamp(user) == user.changedAt \div TicksPerSecond

\* issue_session_token, from the user row as the request read it.
Session(email, user) ==
  [email |-> email, stamp |-> Stamp(user), expiresAt |-> now + SessionLife, password |-> user.password]

\* resolve_session_user.
Honoured(s) ==
  /\ now < s.expiresAt
  /\ users[s.email] # NoUser
  /\ s.stamp = Stamp(users[s.email])

OpenSession(email, user) ==
  /\ issued < MaxSessions
  /\ issued' = issued + 1
  /\ sessions' = sessions \cup {Session(email, user)}

-------------------------------------------------------------------------------
Init ==
  /\ now = 0
  /\ users = [e \in Emails |-> NoUser]
  /\ links = [l \in LinkIds |-> NoLink]
  /\ sessions = {} /\ issued = 0 /\ setAt = << >>
  /\ req = [r \in Requests |-> Idle]
  /\ acted = [l \in LinkIds |-> 0]
  /\ burned = {}

SetPassword(at) == Len(setAt) < MaxPasswords /\ setAt' = Append(setAt, at)

NewLink(email, purpose) ==
  [email |-> email, purpose |-> purpose, used |-> FALSE, expiresAt |-> now + LinkLife]

-------------------------------------------------------------------------------
(* POST /auth/register. *)

BeginRegister(r, email) ==
  /\ req[r].pc = "idle"
  /\ users[email] = NoUser
  /\ Continue(r, [pc |-> "inserting", locked |-> {}, email |-> email])
  /\ UNCHANGED <<now, users, links, sessions, setAt, issued, acted, burned>>

\* Mutant: the row is written whatever the unique constraint says.
InsertUser_Unchecked(r) ==
  /\ req[r].pc = "inserting"
  /\ Continue(r, [pc |-> "registering", locked |-> {}, email |-> req[r].email, at |-> now])
  /\ UNCHANGED <<now, users, links, sessions, setAt, issued, acted, burned>>

\* The flush inside create_user: the unique constraint makes it wait for a rival
\* transaction, and answers 409 if that one has committed.
InsertUser(r) ==
  /\ req[r].pc = "inserting"
  /\ \A other \in Requests : req[other].pc = "registering" => req[other].email # req[r].email
  /\ IF users[req[r].email] = NoUser
     THEN Continue(r, [pc |-> "registering", locked |-> {}, email |-> req[r].email, at |-> now])
     ELSE Finish(r)
  /\ UNCHANGED <<now, users, links, sessions, setAt, issued, acted, burned>>

\* A new user has no links to burn; the user and the first link commit together.
CommitRegister(r) ==
  /\ req[r].pc = "registering"
  /\ SetPassword(req[r].at)
  /\ users' = [users EXCEPT ![req[r].email] =
                 [password |-> Len(setAt'), verified |-> FALSE, changedAt |-> req[r].at]]
  /\ \E l \in LinkIds :
       /\ links[l] = NoLink
       /\ links' = [links EXCEPT ![l] = NewLink(req[r].email, "verify")]
  /\ Finish(r)
  /\ UNCHANGED <<now, sessions, issued, acted, burned>>

-------------------------------------------------------------------------------
(* POST /auth/resend-verification and /auth/forgot-password. *)

\* The user row is read; a verified address gets no further verification link.
BeginMail(r, email, purpose) ==
  /\ req[r].pc = "idle"
  /\ users[email] # NoUser
  /\ purpose = "verify" => ~users[email].verified
  /\ Continue(r, [pc |-> "mailing", locked |-> {}, email |-> email, purpose |-> purpose])
  /\ UNCHANGED <<now, users, links, sessions, setAt, issued, acted, burned>>

Unused(email, purpose) ==
  {l \in LinkIds : links[l] # NoLink /\ links[l].email = email
                   /\ links[l].purpose = purpose /\ ~links[l].used}

\* The UPDATE starts: it works on the rows committed by now ...
StartBurn(r) ==
  /\ req[r].pc = "mailing"
  /\ Continue(r, [pc |-> "burning", locked |-> {}, email |-> req[r].email,
                  purpose |-> req[r].purpose, rows |-> Unused(req[r].email, req[r].purpose)])
  /\ UNCHANGED <<now, users, links, sessions, setAt, issued, acted, burned>>

\* ... waits for those that are locked, and takes the ones still unused.
Burn(r) ==
  /\ req[r].pc = "burning"
  /\ req[r].rows \cap LockedElsewhere(r) = {}
  /\ Continue(r, [pc |-> "issuing", locked |-> {l \in req[r].rows : ~links[l].used},
                  email |-> req[r].email, purpose |-> req[r].purpose])
  /\ UNCHANGED <<now, users, links, sessions, setAt, issued, acted, burned>>

\* _issue_mail_token: the burned links and the new one commit together, and only
\* then is the mail sent.
CommitMail(r) ==
  /\ req[r].pc = "issuing"
  /\ \E l \in LinkIds :
       /\ links[l] = NoLink
       /\ links' = [k \in LinkIds |->
                      IF k = l THEN NewLink(req[r].email, req[r].purpose)
                      ELSE IF k \in req[r].locked THEN [links[k] EXCEPT !.used = TRUE]
                      ELSE links[k]]
  /\ burned' = burned \cup req[r].locked
  /\ Finish(r)
  /\ UNCHANGED <<now, users, sessions, setAt, issued, acted>>

-------------------------------------------------------------------------------
(* POST /auth/verify-email and /auth/reset-password. *)

\* Mutant: SELECT, then mark: a rival that has taken the link is not waited for.
Consume_Unlocked(r, l) ==
  /\ req[r].pc = "idle"
  /\ links[l] # NoLink /\ ~links[l].used /\ links[l].expiresAt > now
  /\ Continue(r, [pc |-> "acting", locked |-> {l}, link |-> l, user |-> users[links[l].email]])
  /\ UNCHANGED <<now, users, links, sessions, setAt, issued, acted, burned>>

\* consume_email_token: one conditional UPDATE, which waits for the row's lock;
\* the user is read after it.  A link that fails the condition is answered 400.
Consume(r, l) ==
  /\ req[r].pc = "idle"
  /\ l \notin LockedElsewhere(r)
  /\ links[l] # NoLink /\ ~links[l].used /\ links[l].expiresAt > now
  /\ Continue(r, [pc |-> "acting", locked |-> {l}, link |-> l, user |-> users[links[l].email]])
  /\ UNCHANGED <<now, users, links, sessions, setAt, issued, acted, burned>>

UseLink(r) ==
  /\ links' = [links EXCEPT ![req[r].link].used = TRUE]
  /\ acted' = [acted EXCEPT ![req[r].link] = @ + 1]
  /\ Finish(r)

\* verify_user_email: verifying is signing in, with the user row read before.
CommitVerify(r) ==
  /\ req[r].pc = "acting"
  /\ links[req[r].link].purpose = "verify"
  /\ LET email == links[req[r].link].email
     IN  /\ users' = [users EXCEPT ![email].verified = TRUE]
         /\ OpenSession(email, req[r].user)
  /\ UseLink(r)
  /\ UNCHANGED <<now, setAt, burned>>

\* Mutant: the stamp stays where it was.
CommitReset_KeepsStamp(r) ==
  /\ req[r].pc = "acting"
  /\ links[req[r].link].purpose = "reset"
  /\ SetPassword(now)
  /\ users' = [users EXCEPT ![links[req[r].link].email] =
                 [password |-> Len(setAt'), verified |-> TRUE, changedAt |-> @.changedAt]]
  /\ UseLink(r)
  /\ UNCHANGED <<now, sessions, issued, burned>>

\* reset_user_password: the link reached the mailbox, so the address is verified.
CommitReset(r) ==
  /\ req[r].pc = "acting"
  /\ links[req[r].link].purpose = "reset"
  /\ SetPassword(now)
  /\ users' = [users EXCEPT ![links[req[r].link].email] =
                 [password |-> Len(setAt'), verified |-> TRUE, changedAt |-> now]]
  /\ UseLink(r)
  /\ UNCHANGED <<now, sessions, issued, burned>>

-------------------------------------------------------------------------------
(* POST /auth/login. *)

\* Mutant: the gate on the verified address is missing.
BeginLogin_Unverified(r, email) ==
  /\ req[r].pc = "idle"
  /\ users[email] # NoUser
  /\ Continue(r, [pc |-> "signing", locked |-> {}, email |-> email, user |-> users[email]])
  /\ UNCHANGED <<now, users, links, sessions, setAt, issued, acted, burned>>

\* authenticate_user reads the row; the password given is the one in it.
BeginLogin(r, email) ==
  /\ req[r].pc = "idle"
  /\ users[email] # NoUser
  /\ users[email].verified
  /\ Continue(r, [pc |-> "signing", locked |-> {}, email |-> email, user |-> users[email]])
  /\ UNCHANGED <<now, users, links, sessions, setAt, issued, acted, burned>>

FinishLogin(r) ==
  /\ req[r].pc = "signing"
  /\ OpenSession(req[r].email, req[r].user)
  /\ Finish(r)
  /\ UNCHANGED <<now, users, links, setAt, acted, burned>>

-------------------------------------------------------------------------------
\* A crash, a lost connection or a client that went away: nothing is committed.
Rollback(r) ==
  /\ req[r].pc # "idle"
  /\ Finish(r)
  /\ UNCHANGED <<now, users, links, sessions, setAt, issued, acted, burned>>

PassTime ==
  /\ now < MaxTime
  /\ now' = now + 1
  /\ UNCHANGED <<users, links, sessions, req, setAt, issued, acted, burned>>

Next ==
  \/ \E r \in Requests :
       \/ \E email \in Emails : \/ BeginRegister(r, email) \/ BeginLogin(r, email)
                                \/ \E purpose \in Purposes : BeginMail(r, email, purpose)
       \/ InsertUser(r) \/ CommitRegister(r) \/ StartBurn(r) \/ Burn(r) \/ CommitMail(r)
       \/ \E l \in LinkIds : Consume(r, l)
       \/ CommitVerify(r) \/ CommitReset(r) \/ FinishLogin(r) \/ Rollback(r)
  \/ PassTime

Spec == Init /\ [][Next]_vars

-------------------------------------------------------------------------------
(* What the accounts promise. *)

Transactions ==
  {Idle}
  \cup [pc : {"inserting"}, locked : {{}}, email : Emails]
  \cup [pc : {"registering"}, locked : {{}}, email : Emails, at : Nat]
  \cup [pc : {"mailing"}, locked : {{}}, email : Emails, purpose : Purposes]
  \cup [pc : {"burning"}, locked : {{}}, email : Emails, purpose : Purposes, rows : SUBSET LinkIds]
  \cup [pc : {"issuing"}, locked : SUBSET LinkIds, email : Emails, purpose : Purposes]
  \cup [pc : {"acting"}, locked : SUBSET LinkIds, link : LinkIds, user : Users]
  \cup [pc : {"signing"}, locked : {{}}, email : Emails, user : Users]

\* Every variable holds what the tables' types say it holds.
TypeOK ==
  /\ now \in Nat /\ issued \in Nat /\ setAt \in Seq(Nat)
  /\ users \in [Emails -> Users \cup {NoUser}]
  /\ links \in [LinkIds -> Links \cup {NoLink}]
  /\ sessions \subseteq Sessions
  /\ req \in [Requests -> Transactions]
  /\ acted \in [LinkIds -> Nat]
  /\ burned \subseteq LinkIds

\* A mailed link is settled once: it acts at most once, and never after a newer
\* link has burned it, however many requests submit it or ask for another while
\* it is being used.
LinkSettledOnce ==
  \A l \in LinkIds : acted[l] <= 1 /\ (l \in burned => acted[l] = 0)

\* Whoever holds a session has shown that the address is theirs: some link mailed
\* to it has acted.  No password alone signs in.
SessionsAreProven ==
  \A s \in sessions : \E l \in LinkIds :
    links[l] # NoLink /\ links[l].email = s.email /\ acted[l] > 0

\* A session opened under an earlier password is refused once the password has
\* changed - a login that read the row before the reset and answered after it
\* included - unless both were set within the second a stamp is truncated to.
SetInSecond(password) == setAt[password] \div TicksPerSecond
ResetEndsSessions ==
  \A s \in sessions : Honoured(s) =>
    SetInSecond(s.password) = SetInSecond(users[s.email].password)

\* The password of an account changes only as a link mailed to its address acts;
\* a concurrent registration of the same address never overwrites it.
PasswordChangesByLink ==
  [][\A e \in Emails : users[e] # NoUser =>
       \/ users'[e] # NoUser /\ users'[e].password = users[e].password
       \/ \E l \in LinkIds : /\ acted'[l] > acted[l]
                             /\ links[l].email = e /\ links[l].purpose = "reset"]_vars
===============================================================================
