---------------------------- MODULE RecordStore ----------------------------
(***************************************************************************)
(* What a slotted page promises to its callers: a finite map from slots to *)
(* values in which an insert picks a free slot, a delete empties one, and  *)
(* nothing else is ever seen to change.  A store may be damaged; what it   *)
(* holds from then on is not specified.                                    *)
(***************************************************************************)
CONSTANTS
    Slot,     \* the slots of the store
    Value     \* the values it can hold

VARIABLES
    store,    \* the value in each slot in use
    damaged   \* the promise no longer holds

storeVars == <<store, damaged>>

Init ==
    /\ store = [s \in {} |-> {}]
    /\ damaged = FALSE

Insert(s, v) ==
    /\ s \notin DOMAIN store
    /\ store' = [t \in DOMAIN store \cup {s} |-> IF t = s THEN v ELSE store[t]]

Delete(s) ==
    /\ s \in DOMAIN store
    /\ store' = [t \in DOMAIN store \ {s} |-> store[t]]

Damage == damaged'

Next ==
    \/ UNCHANGED damaged /\ \E s \in Slot, v \in Value : Insert(s, v)
    \/ UNCHANGED damaged /\ \E s \in Slot : Delete(s)
    \/ Damage

Spec == Init /\ [][Next]_storeVars
=============================================================================
