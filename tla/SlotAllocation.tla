--------------------------- MODULE SlotAllocation ---------------------------
(***************************************************************************)
(* What an allocation of a slot promises: it takes the first free slot     *)
(* from the pool's counter on and moves the counter past it, or, with no   *)
(* slot free, says so and changes nothing.  BtcMapping is written with     *)
(* these operators; SlotAllocator is the loop that computes them.          *)
(***************************************************************************)
EXTENDS SlotPools

CONSTANTS
    Data,      \* what is kept in a slot that is in use
    Occupied,  \* the answer when no slot is free
    NoAnswer   \* nothing has been allocated yet

VARIABLES
    store,   \* state keys "u-<slot>"
    nextId,  \* the counters of the two pools
    answer   \* what the latest allocation returned

vars == <<store, nextId, answer>>

PoolNames == {"confirmed", "unconfirmed"}
Pool(name) == IF name = "confirmed" THEN ConfirmedPool ELSE UnconfirmedPool

Init ==
    /\ store = [s \in Slots |-> NoUtxo]
    /\ nextId = [confirmed |-> ConfirmedStart, unconfirmed |-> 0]
    /\ answer = NoAnswer

\* The caller stores an output in the slot it is given.
Allocate(name) ==
    LET slot == FirstFree(store, Pool(name), nextId[name])
    IN  /\ Free(store, Pool(name)) # {}
        /\ store' = [store EXCEPT ![slot] = Data]
        /\ nextId' = [nextId EXCEPT ![name] = AfterSlot(slot)]
        /\ answer' = slot

Refuse(name) ==
    /\ Free(store, Pool(name)) = {}
    /\ answer' = Occupied
    /\ UNCHANGED <<store, nextId>>

\* The output in a slot is spent, or promoted from it.
Release(slot) ==
    /\ store' = [store EXCEPT ![slot] = NoUtxo]
    /\ UNCHANGED <<nextId, answer>>

Next ==
    \/ \E name \in PoolNames : Allocate(name) \/ Refuse(name)
    \/ \E slot \in Slots : Release(slot)

Spec == Init /\ [][Next]_vars

=============================================================================
