----------------------------- MODULE BlockDelivery -----------------------------
(***************************************************************************)
(* What the offline queue promises, without its machinery: a finished      *)
(* block is owed to the server from the moment it is recorded, and stops   *)
(* being owed only once the server has stored it or refused it for good.   *)
(* Deliveries may repeat (the queue delivers at least once); the server    *)
(* never un-stores a block on its own.                                     *)
(***************************************************************************)
CONSTANT Ids

VARIABLES
  owed,     \* blocks this browser still has to deliver
  kept,     \* blocks the server has stored
  refused   \* blocks the server has refused for good at least once

vars == <<owed, kept, refused>>

Init == owed = {} /\ kept = {} /\ refused = {}

Record(id) == owed' = owed \cup {id} /\ UNCHANGED <<kept, refused>>

Keep(id)   == kept' = kept \cup {id} /\ UNCHANGED <<owed, refused>>

Refuse(id) == refused' = refused \cup {id} /\ UNCHANGED <<owed, kept>>

Settle(done) ==
  /\ done \subseteq kept \cup refused
  /\ owed' = owed \ done
  /\ UNCHANGED <<kept, refused>>

Next ==
  \/ \E id \in Ids : Record(id) \/ Keep(id) \/ Refuse(id)
  \/ \E done \in SUBSET Ids : Settle(done)

Spec == Init /\ [][Next]_vars
===============================================================================
