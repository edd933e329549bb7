--------------------------------- MODULE TagCard --------------------------------
(***************************************************************************)
(* The tags card (components/shared/TagManager.tsx) over /tags             *)
(* (shared/tag/service.py).                                                *)
(*                                                                         *)
(* reload() has no clean-up: every read that is answered is shown, in the  *)
(* order of the answers.  A write is one READ COMMITTED transaction.  The  *)
(* new tag's input and the notices are left out.                           *)
(***************************************************************************)
EXTENDS Naturals, FiniteSets

CONSTANTS
  TagIds, Names, Colors,
  NoId, NoTag,
  InitialTags,                   \* the table the card may find: a set of functions
  MaxTagWrites, MaxTagMishaps    \* bounds

Tags == [name : Names, color : Colors]

ASSUME CardAssumption == /\ NoId \notin TagIds /\ NoTag \notin Tags
                         /\ Names # {} /\ Colors # {}
                         /\ InitialTags \subseteq [TagIds -> Tags \cup {NoTag}]
                         /\ {MaxTagWrites, MaxTagMishaps} \subseteq Nat

VARIABLES
  stored, given,                   \* the tag table, and the ids given out
  mounted, list,                   \* the card and the tags it lists
  editing, draft, confirming,      \* editingId, editName and editColor, confirmingId
  reads, writes,                   \* requests under way
  lastRead, shownRead,             \* the read begun last, and the one answered last
  tagWrites, tagMishaps,           \* bound counters
  typed,                           \* history: what was typed over the draft, and whether it began up to date
  behind                           \* history: the table changed unheard since the last read began

cardVars == <<stored, given, mounted, list, editing, draft, confirming, reads, writes, lastRead,
              shownRead, tagWrites, tagMishaps, typed, behind>>

-------------------------------------------------------------------------------
NoTags   == [id \in TagIds |-> NoTag]
Waiting  == [id \in {} |-> NoTag]
NoDraft  == [name |-> CHOOSE n \in Names : TRUE, color |-> CHOOSE c \in Colors : TRUE]
Untyped  == [fields |-> {}, fresh |-> TRUE]

Listed == {id \in TagIds : list[id] # NoTag}

Read == [n |-> lastRead + 1, data |-> Waiting]

\* reload().
StartRead ==
  /\ lastRead' = lastRead + 1
  /\ reads' = reads \cup {Read}
  /\ behind' = \E w \in writes : ~w.heard

CardInit ==
  /\ stored \in InitialTags
  /\ given = {id \in TagIds : stored[id] # NoTag}
  /\ mounted = FALSE /\ list = NoTags
  /\ editing = NoId /\ draft = NoDraft /\ confirming = NoId
  /\ reads = {} /\ writes = {} /\ lastRead = 0 /\ shownRead = 0
  /\ tagWrites = 0 /\ tagMishaps = 0
  /\ typed = Untyped /\ behind = FALSE

\* The card appears, when the page is no longer loading, and reads.
MountCard ==
  /\ ~mounted
  /\ mounted' = TRUE
  /\ StartRead
  /\ UNCHANGED <<stored, given, list, editing, draft, confirming, writes, shownRead, tagWrites,
                 tagMishaps, typed>>

\* The page is left.  What its requests answer is heard by nobody.
UnmountCard ==
  /\ mounted' = FALSE
  /\ list' = NoTags /\ editing' = NoId /\ draft' = NoDraft /\ confirming' = NoId
  /\ reads' = {} /\ lastRead' = 0 /\ shownRead' = 0
  /\ writes' = {[w EXCEPT !.heard = FALSE] : w \in {w \in writes : w.stage \notin {"ok", "failed"}}}
  /\ typed' = Untyped
  /\ UNCHANGED <<stored, given, tagWrites, tagMishaps, behind>>

-------------------------------------------------------------------------------
(* GET /tags. *)

ServeRead(r) ==
  /\ r.data = Waiting
  /\ reads' = (reads \ {r}) \cup {[r EXCEPT !.data = stored]}
  /\ UNCHANGED <<stored, given, mounted, list, editing, draft, confirming, writes, lastRead, shownRead,
                 tagWrites, tagMishaps, typed, behind>>

HearRead(r) ==
  /\ r.data # Waiting
  /\ reads' = reads \ {r}
  /\ list' = r.data /\ shownRead' = r.n
  /\ UNCHANGED <<stored, given, mounted, editing, draft, confirming, writes, lastRead, tagWrites,
                 tagMishaps, typed, behind>>

\* "Could not load tags": the list stays as it was.
LoseRead(r) ==
  /\ tagMishaps < MaxTagMishaps
  /\ tagMishaps' = tagMishaps + 1
  /\ reads' = reads \ {r}
  /\ UNCHANGED <<stored, given, mounted, list, editing, draft, confirming, writes, lastRead, shownRead,
                 tagWrites, typed, behind>>

-------------------------------------------------------------------------------
(* The rows of the card. *)

\* What the card lists is what is stored, as far as its own requests go.
UpToDate == reads = {} /\ writes = {} /\ shownRead = lastRead /\ ~behind

\* Mutant: Edit takes over the name alone.
StartEdit_KeepsColor(id) ==
  /\ id \in Listed \ {editing, confirming}
  /\ editing' = id /\ draft' = [draft EXCEPT !.name = list[id].name]
  /\ typed' = [fields |-> {}, fresh |-> UpToDate]
  /\ UNCHANGED <<stored, given, mounted, list, confirming, reads, writes, lastRead, shownRead, tagWrites,
                 tagMishaps, behind>>

\* Edit, on any row that is neither being edited nor asked about.
StartEdit(id) ==
  /\ id \in Listed \ {editing, confirming}
  /\ editing' = id /\ draft' = list[id]
  /\ typed' = [fields |-> {}, fresh |-> UpToDate]
  /\ UNCHANGED <<stored, given, mounted, list, confirming, reads, writes, lastRead, shownRead, tagWrites,
                 tagMishaps, behind>>

CancelEdit ==
  /\ editing \in Listed
  /\ editing' = NoId
  /\ UNCHANGED <<stored, given, mounted, list, draft, confirming, reads, writes, lastRead, shownRead,
                 tagWrites, tagMishaps, typed, behind>>

\* The first Delete asks, Keep takes it back.
AskDelete(id) ==
  /\ id \in Listed \ {editing, confirming}
  /\ confirming' = id
  /\ UNCHANGED <<stored, given, mounted, list, editing, draft, reads, writes, lastRead, shownRead,
                 tagWrites, tagMishaps, typed, behind>>

KeepTag ==
  /\ confirming \in Listed \ {editing}
  /\ confirming' = NoId
  /\ UNCHANGED <<stored, given, mounted, list, editing, draft, reads, writes, lastRead, shownRead,
                 tagWrites, tagMishaps, typed, behind>>

Send(kind, id, tag, fields, fresh) ==
  /\ tagWrites < MaxTagWrites
  /\ tagWrites' = tagWrites + 1
  /\ writes' = {[w EXCEPT !.fresh = @ /\ w.id # id] : w \in writes}
               \cup {[n |-> tagWrites', kind |-> kind, id |-> id, tag |-> tag, seen |-> NoTag,
                      stage |-> "sent", heard |-> TRUE, fields |-> fields, fresh |-> fresh]}

\* handleCreate: the form is never disabled, so a second submit goes out as well.
HandleCreate(tag) ==
  /\ mounted
  /\ Send("create", NoId, tag, {}, TRUE)
  /\ UNCHANGED <<stored, given, mounted, list, editing, draft, confirming, reads, lastRead, shownRead,
                 tagMishaps, typed, behind>>

\* handleSaveEdit: the PATCH carries both fields of the draft, typed over or not.
HandleSaveEdit(tag) ==
  /\ editing \in Listed
  /\ draft' = tag
  /\ LET fields == typed.fields \cup {f \in {"name", "color"} : tag[f] # draft[f]}
         fresh  == typed.fresh /\ ~ \E w \in writes : w.id = editing
     IN  /\ typed' = [fields |-> fields, fresh |-> fresh]
         /\ Send("update", editing, tag, fields, fresh)
  /\ UNCHANGED <<stored, given, mounted, list, editing, confirming, reads, lastRead, shownRead,
                 tagMishaps, behind>>

HandleDelete ==
  /\ confirming \in Listed \ {editing}
  /\ Send("delete", confirming, NoTag, {}, TRUE)
  /\ UNCHANGED <<stored, given, mounted, list, editing, draft, confirming, reads, lastRead, shownRead,
                 tagMishaps, typed, behind>>

\* Mutant: a saved edit closes its row and reads nothing.
HearWrite_NoReload(w) ==
  /\ w.stage \in {"ok", "failed"}
  /\ writes' = writes \ {w}
  /\ editing' = IF w.kind = "update" /\ w.stage = "ok" THEN NoId ELSE editing
  /\ confirming' = IF w.kind = "delete" /\ w.stage = "ok" THEN NoId ELSE confirming
  /\ IF w.stage = "ok" /\ w.kind # "update" THEN StartRead ELSE UNCHANGED <<reads, lastRead, behind>>
  /\ UNCHANGED <<stored, given, mounted, list, draft, shownRead, tagWrites, tagMishaps, typed>>

\* The awaits go on: whichever row is being edited or asked about by now is closed.
HearWrite(w) ==
  /\ w.stage \in {"ok", "failed"}
  /\ writes' = writes \ {w}
  /\ editing' = IF w.kind = "update" /\ w.stage = "ok" THEN NoId ELSE editing
  /\ confirming' = IF w.kind = "delete" /\ w.stage = "ok" THEN NoId ELSE confirming
  /\ IF w.stage = "ok" THEN StartRead ELSE UNCHANGED <<reads, lastRead, behind>>
  /\ UNCHANGED <<stored, given, mounted, list, draft, shownRead, tagWrites, tagMishaps, typed>>

\* A request or its answer is lost: "Could not save", whatever the server did.
LoseWrite(w, goesOn) ==
  /\ w.heard /\ tagMishaps < MaxTagMishaps
  /\ tagMishaps' = tagMishaps + 1
  /\ writes' = (writes \ {w})
               \cup (IF goesOn /\ w.stage \notin {"ok", "failed"} THEN {[w EXCEPT !.heard = FALSE]} ELSE {})
  /\ behind' = (behind \/ w.stage = "ok" \/ goesOn)
  /\ UNCHANGED <<stored, given, mounted, list, editing, draft, confirming, reads, lastRead, shownRead,
                 tagWrites, typed>>

-------------------------------------------------------------------------------
(* POST, PATCH and DELETE /tags. *)

Settle(w, stage) ==
  writes' = (writes \ {w}) \cup (IF w.heard THEN {[w EXCEPT !.stage = stage, !.seen = NoTag]} ELSE {})

Taken(name, others) == \E id \in others : stored[id] # NoTag /\ stored[id].name = name

\* The row is read: 409 for a new name that is taken, 404 for a tag that is gone.
BeginWrite(w) ==
  /\ w.stage = "sent"
  /\ IF (IF w.kind = "create" THEN Taken(w.tag.name, TagIds) ELSE stored[w.id] = NoTag)
     THEN Settle(w, "failed")
     ELSE writes' = (writes \ {w}) \cup
                    {[w EXCEPT !.stage = "begun", !.seen = IF w.kind = "update" THEN stored[w.id] ELSE @]}
  /\ UNCHANGED <<stored, given, mounted, list, editing, draft, confirming, reads, lastRead, shownRead,
                 tagWrites, tagMishaps, typed, behind>>

\* The columns the request changed in the row it read.
Patched(w, tag) ==
  [tag EXCEPT !.name = IF w.tag.name # w.seen.name THEN w.tag.name ELSE @,
              !.color = IF w.tag.color # w.seen.color THEN w.tag.color ELSE @]

\* Why a commit fails (500): the unique constraint, where the look-up passed too early
\* or, for a rename, is missing; a row to be written that is gone by now.
Refused(w) ==
  \/ w.kind = "create" /\ Taken(w.tag.name, TagIds)
  \/ w.kind = "update" /\ IF stored[w.id] = NoTag THEN w.tag # w.seen
                         ELSE Taken(Patched(w, stored[w.id]).name, TagIds \ {w.id})

CommitWrite(w) ==
  /\ w.stage = "begun"
  /\ Settle(w, IF Refused(w) THEN "failed" ELSE "ok")
  /\ \/ Refused(w) /\ UNCHANGED <<stored, given>>
     \/ /\ w.kind = "create" /\ ~Refused(w)
        /\ \E id \in TagIds \ given :
             stored' = [stored EXCEPT ![id] = w.tag] /\ given' = given \cup {id}
     \/ /\ w.kind = "update" /\ ~Refused(w)
        /\ stored' = [stored EXCEPT ![w.id] = IF @ = NoTag THEN @ ELSE Patched(w, @)]
        /\ UNCHANGED given
     \/ w.kind = "delete" /\ stored' = [stored EXCEPT ![w.id] = NoTag] /\ UNCHANGED given
  /\ UNCHANGED <<mounted, list, editing, draft, confirming, reads, lastRead, shownRead, tagWrites,
                 tagMishaps, typed, behind>>

\* Another device changes or deletes a tag.
ChangeElsewhere(id) ==
  /\ tagMishaps < MaxTagMishaps
  /\ tagMishaps' = tagMishaps + 1
  /\ stored[id] # NoTag
  /\ \E tag \in {NoTag} \cup {[stored[id] EXCEPT !.color = c] : c \in Colors \ {stored[id].color}} :
       stored' = [stored EXCEPT ![id] = tag]
  /\ behind' = TRUE
  /\ typed' = [typed EXCEPT !.fresh = FALSE]
  /\ writes' = {[w EXCEPT !.fresh = FALSE] : w \in writes}
  /\ UNCHANGED <<given, mounted, list, editing, draft, confirming, reads, lastRead, shownRead,
                 tagWrites>>

CardNext ==
  \/ \E r \in reads : ServeRead(r) \/ HearRead(r) \/ LoseRead(r)
  \/ \E id \in TagIds : StartEdit(id) \/ AskDelete(id) \/ ChangeElsewhere(id)
  \/ CancelEdit \/ KeepTag \/ HandleDelete
  \/ \E tag \in Tags : HandleCreate(tag) \/ HandleSaveEdit(tag)
  \/ \E w \in writes : \/ BeginWrite(w) \/ CommitWrite(w) \/ HearWrite(w)
                       \/ \E goesOn \in BOOLEAN : LoseWrite(w, goesOn)

-------------------------------------------------------------------------------
(* What the card promises. *)

\* Once the card's requests are answered it lists what is stored: every write that went
\* through is followed by a read that began after it.  Excused are a read that failed
\* or was overtaken by the answer of an earlier one, which the card does show, a write
\* whose answer was lost, and what another device changed.
ListsWhatIsStored == mounted /\ UpToDate => list = stored

\* Saving an edit changes only what was typed.  The PATCH carries the whole draft, so
\* this needs a draft that began up to date, and is excused where it did not: Edit
\* pressed before the list was read again, two saves of one tag at once, another device.
EditsChangeWhatWasTyped ==
  [][\A w \in writes, v \in writes' :
       w.kind = "update" /\ w.fresh /\ w.stage = "begun" /\ v.n = w.n /\ v.stage = "ok" =>
         \A f \in {"name", "color"} \ w.fields : stored'[w.id][f] = stored[w.id][f]]_cardVars
===============================================================================
