------------------------------ MODULE SettingsPage ------------------------------
(***************************************************************************)
(* The settings page (app/(app)/settings/page.tsx): the form, and the tags *)
(* card, which is on the page once its settings are no longer loading and  *)
(* goes away with it.                                                      *)
(***************************************************************************)
EXTENDS SettingsForm, TagCard

CONSTANT MaxFaults   \* bound over both halves

vars == <<formVars, cardVars>>

\* Bounds.  The halves share nothing but the page and their steps commute, so a visit
\* works at one of them, and the card moves on the first page, when the form has nothing
\* under way.
WithinBounds ==
  /\ mishaps' + tagMishaps' <= MaxFaults
  /\ saves' + mishaps' > 0 => tagWrites' = 0 /\ draft' = NoDraft /\ editing' = NoId /\ confirming' = NoId

Init == FormInit /\ CardInit

\* A page that is left takes the card with it; one that has loaded brings it.
FormStep ==
  /\ FormNext
  /\ IF mounts' # mounts THEN UnmountCard
     ELSE IF page = "settings" /\ loading /\ ~loading' THEN MountCard
     ELSE UNCHANGED cardVars
  /\ WithinBounds

CardStep ==
  /\ mounted => requests = {} /\ mounts = 1
  /\ CardNext /\ UNCHANGED formVars
  /\ WithinBounds

Next == FormStep \/ CardStep

Spec == Init /\ [][Next]_vars
===============================================================================
