------------------------------ MODULE SettingsForm ------------------------------
(***************************************************************************)
(* The settings of an account: lib/useSettings.ts on the timer and on the  *)
(* settings page, the page's save(), and the row behind /settings          *)
(* (shared/setting/service.py).                                            *)
(*                                                                         *)
(* A request is one READ COMMITTED transaction.  Those of pages that are   *)
(* gone and of other devices run on, and nobody hears their answers.  The  *)
(* toast is left out.                                                      *)
(***************************************************************************)
EXTENDS Naturals, FiniteSets

CONSTANTS
  Fields, Values,
  DefaultSettings,
  NoRow,                                \* no row yet
  InitialRows,                          \* what a visit may find: a set of rows, NoRow for a new account
  MaxMounts, MaxSaves, MaxMishaps       \* bounds

Settings == [Fields -> Values]
Pages    == {"timer", "settings"}

ASSUME FormAssumption == /\ DefaultSettings \in Settings /\ NoRow \notin Settings
                         /\ InitialRows \subseteq Settings \cup {NoRow}
                         /\ {MaxMounts, MaxSaves, MaxMishaps} \subseteq Nat

VARIABLES
  row,                        \* the account's row of user_setting
  page, settings, loading,    \* the page that is mounted, and its useSettings
  requests,                   \* GET and PUT under way, and their transactions
  mounts, saves, mishaps,     \* bound counters
  excused                     \* history: the page was given no chance to know the row

formVars == <<row, page, settings, loading, requests, mounts, saves, mishaps, excused>>

-------------------------------------------------------------------------------
(* Requests. *)

NoBody == [f \in {} |-> NoRow]

\* Partial bodies: the fields that are given replace those of a row.
Over(body, base) == [f \in Fields |-> IF f \in DOMAIN body THEN body[f] ELSE base[f]]

Request(n, body) ==
  [n |-> n, body |-> body, previous |-> settings, stage |-> "sent", seen |-> NoRow,
   heard |-> TRUE, alone |-> TRUE]

Puts == {q \in requests : q.body # NoBody}

\* A name no request under way has.
Fresh == CHOOSE n \in 0 .. Cardinality(requests) : \A q \in requests : q.n # n

Becomes(q, next) == requests' = (requests \ {q}) \cup {next}

\* What a page that is gone hears changes nothing.
Unheard == {[q EXCEPT !.heard = FALSE, !.previous = DefaultSettings] : q \in {q \in requests : q.stage # "answered"}}

FormInit ==
  /\ row \in InitialRows
  /\ page \in Pages
  /\ settings = DefaultSettings /\ loading = TRUE
  /\ requests = {[n |-> 0, body |-> NoBody, previous |-> DefaultSettings, stage |-> "sent",
                  seen |-> NoRow, heard |-> TRUE, alone |-> TRUE]}
  /\ mounts = 1 /\ saves = 0 /\ mishaps = 0
  /\ excused = FALSE

-------------------------------------------------------------------------------
(* The page. *)

\* Navigation unmounts one page and mounts another, which starts from the defaults
\* and reads.  A save of the page before may be served after that read.
Open(p) ==
  /\ p # page /\ mounts < MaxMounts
  /\ mounts' = mounts + 1
  /\ page' = p
  /\ settings' = DefaultSettings /\ loading' = TRUE
  /\ requests' = Unheard \cup {[Request(Fresh, NoBody) EXCEPT !.previous = DefaultSettings]}
  /\ excused' = (\E q \in Puts : q.stage # "answered")
  /\ UNCHANGED <<row, saves, mishaps>>

BodyOf(f, v) == [g \in {f} |-> v]

\* A select or a switch: save({ f: v }).  The rows are there once loading is over.
\* Two saves of one field under way may be served in either order.
Save(f, v) ==
  /\ page = "settings" /\ ~loading
  /\ v # settings[f]
  /\ saves < MaxSaves
  /\ saves' = saves + 1
  /\ settings' = [settings EXCEPT ![f] = v]
  /\ requests' = {[q EXCEPT !.alone = q.body = NoBody] : q \in requests}
                 \cup {[Request(Fresh, BodyOf(f, v)) EXCEPT !.alone = Puts = {}]}
  /\ excused' = (excused \/ \E q \in Puts : f \in DOMAIN q.body)
  /\ UNCHANGED <<row, page, loading, mounts, mishaps>>

\* The answer of useSettings' read, or of a save that went through.
HearAnswer(q) ==
  /\ q.heard /\ q.stage = "answered"
  /\ requests' = requests \ {q}
  /\ IF q.body = NoBody THEN settings' = q.seen /\ loading' = FALSE
     ELSE UNCHANGED <<settings, loading>>
  /\ UNCHANGED <<row, page, mounts, saves, mishaps, excused>>

\* Mutant: the optimistic value stays.
ShownAfterFailure_Optimistic(q) == settings
\* save()'s catch puts back what the page showed when the save began.
ShownAfterFailure(q) == q.previous

\* No answer, or an error: the read leaves the defaults, a save is rolled back.  The
\* transaction may never start, break off, or commit unheard.
HearFailure(q, goesOn) ==
  /\ q.heard /\ mishaps < MaxMishaps
  /\ mishaps' = mishaps + 1
  /\ IF goesOn /\ q.stage # "answered"
     THEN Becomes(q, [q EXCEPT !.heard = FALSE, !.previous = DefaultSettings])
     ELSE requests' = requests \ {q}
  /\ IF q.body = NoBody THEN loading' = FALSE /\ UNCHANGED settings
     ELSE settings' = ShownAfterFailure(q) /\ UNCHANGED loading
  /\ excused' = (excused \/ q.body = NoBody \/ ~q.alone \/ goesOn \/ q.stage = "answered")
  /\ UNCHANGED <<row, page, mounts, saves>>

\* Another device of the account saves.
SaveElsewhere(f, v) ==
  /\ mishaps < MaxMishaps
  /\ mishaps' = mishaps + 1
  /\ requests' = requests \cup {[Request(Fresh, BodyOf(f, v))
                                   EXCEPT !.heard = FALSE, !.previous = DefaultSettings]}
  /\ excused' = TRUE
  /\ UNCHANGED <<row, page, settings, loading, mounts, saves>>

-------------------------------------------------------------------------------
(* The server: get_or_create_settings, the fields of the body, the commit. *)

SelectRow(q) ==
  /\ q.stage = "sent"
  /\ Becomes(q, [q EXCEPT !.seen = row, !.stage = IF row = NoRow THEN "missing" ELSE "found"])
  /\ UNCHANGED <<row, page, settings, loading, mounts, saves, mishaps, excused>>

\* Mutant: no unique constraint on user_id.
InsertRow_Unchecked(q) ==
  /\ q.stage = "missing"
  /\ Becomes(q, [q EXCEPT !.stage = "inserted", !.seen = DefaultSettings])
  /\ UNCHANGED <<row, page, settings, loading, mounts, saves, mishaps, excused>>

\* The flush of the new row waits for a rival that has inserted one.  If that one has
\* committed, the constraint fails, the transaction rolls back, and selects again.
InsertRow(q) ==
  /\ q.stage = "missing"
  /\ \A other \in requests : other.stage # "inserted"
  /\ Becomes(q, IF row = NoRow THEN [q EXCEPT !.stage = "inserted", !.seen = DefaultSettings]
                ELSE [q EXCEPT !.stage = "found", !.seen = row])
  /\ UNCHANGED <<row, page, settings, loading, mounts, saves, mishaps, excused>>

\* A transaction nobody waits for may be broken off.
BreakOff(q) ==
  /\ ~q.heard /\ q.stage # "answered"
  /\ requests' = requests \ {q}
  /\ UNCHANGED <<row, page, settings, loading, mounts, saves, mishaps, excused>>

\* save() does not look at the row it is answered with.
Done(q) ==
  IF q.heard THEN Becomes(q, [q EXCEPT !.stage = "answered", !.seen = IF q.body = NoBody THEN @ ELSE NoRow])
  ELSE requests' = requests \ {q}

\* The UPDATE holds the columns whose value the request changed.
Written(q) == [f \in Fields |-> IF f \in DOMAIN q.body /\ q.body[f] # q.seen[f] THEN q.body[f] ELSE row[f]]

Commit(q) ==
  /\ \/ q.stage = "inserted" /\ row' = Over(q.body, DefaultSettings)
     \/ q.stage = "found" /\ row' = Written(q)
  /\ Done(q)
  /\ UNCHANGED <<page, settings, loading, mounts, saves, mishaps, excused>>

FormNext ==
  \/ \E p \in Pages : Open(p)
  \/ \E f \in Fields, v \in Values : Save(f, v) \/ SaveElsewhere(f, v)
  \/ \E q \in requests :
       \/ HearAnswer(q) \/ SelectRow(q) \/ InsertRow(q) \/ Commit(q) \/ BreakOff(q)
       \/ \E goesOn \in BOOLEAN : HearFailure(q, goesOn)

FormSpec == FormInit /\ [][FormNext]_formVars

-------------------------------------------------------------------------------
(* What the settings promise. *)

\* A page shows the row, and over it the values of its own saves under way: an answer
\* that comes late, a rollback, a page that was left and opened again never leave
\* another value on the screen.  Excused are a read that failed, an answer that was
\* lost after all, a save another device made, and what the code gives up: a save
\* that fails while another is under way, two saves of one field at once, and a page
\* opened before the last save of the page before was served.
ShowsWhatIsSaved ==
  ~loading /\ ~excused =>
    \A f \in Fields : \/ settings[f] = row[f]
                      \/ \E q \in Puts : /\ q.heard /\ q.stage # "answered"
                                         /\ f \in DOMAIN q.body /\ settings[f] = q.body[f]

\* Once the row is there a field changes only to what a save that commits now sent
\* for it: not by the default values of a read that races to create the row, and not
\* by a save of another field.
SavesKeepApart ==
  [][row # NoRow =>
       \A f \in Fields : row'[f] # row[f] =>
         \E q \in Puts : q \notin requests' /\ f \in DOMAIN q.body /\ q.body[f] = row'[f]]_formVars
===============================================================================
