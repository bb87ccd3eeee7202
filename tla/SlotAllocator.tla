---------------------------- MODULE SlotAllocator ----------------------------
(***************************************************************************)
(* The loops of allocateConfirmedId and allocateUnconfirmedId, one step    *)
(* for each time round.  Calls do not overlap, and nobody else changes a   *)
(* slot while one runs; slots are released between calls.                  *)
(***************************************************************************)
EXTENDS SlotPools

CONSTANTS
    Data,      \* what is kept in a slot that is in use
    Occupied,  \* the error of a call that finds no free slot
    NoAnswer,  \* no call has returned yet
    Idle       \* no call is running

ASSUME SlotAllocatorAssumption ==
    /\ Data # NoUtxo
    /\ Idle \notin [pool : {"confirmed", "unconfirmed"}, start : Slots]

VARIABLES
    store,   \* state keys "u-<slot>"
    nextId,  \* cs.ConfirmedNextId and cs.UnconfirmedNextId
    answer,  \* what the latest call returned
    call     \* the call that is running: its pool and startId, or Idle

vars == <<store, nextId, answer, call>>

PoolNames == {"confirmed", "unconfirmed"}

\* The slots that hold an output.
Used == {s \in Slots : store[s] # NoUtxo}

Init ==
    /\ store = [s \in Slots |-> NoUtxo]
    /\ nextId = [confirmed |-> ConfirmedStart, unconfirmed |-> 0]
    /\ answer = NoAnswer
    /\ call = Idle

Begin(name) ==
    /\ call = Idle
    /\ call' = [pool |-> name, start |-> nextId[name]]
    /\ UNCHANGED <<store, nextId, answer>>

\* Mutant of Advanced: a confirmed counter past the last slot wraps around as
\* a byte does.
AdvancedAsByte(name, id) ==
    IF name = "confirmed" THEN (id + 1) % (LastSlot + 1)
    ELSE IF id >= ConfirmedStart - 1 THEN 0 ELSE id + 1

\* The counter of a pool after a time round.
Advanced(name, id) ==
    IF name = "confirmed"
    THEN IF id = LastSlot THEN ConfirmedStart ELSE id + 1
    ELSE IF id >= ConfirmedStart - 1 THEN 0 ELSE id + 1

\* Mutant of CameAround: the loop looks for the slot after startId.
CameAroundLate(name) == Advanced(name, nextId[name]) = Advanced(name, call.start)

\* Mutant of CameAround: the counter is compared before it wraps around.
CameAroundUnwrapped(name) == nextId[name] + 1 = call.start

\* The test at the end of the loop.
CameAround(name) == Advanced(name, nextId[name]) = call.start

\* The slot at the counter is free: it is returned, and the caller stores its
\* output there.
Return ==
    /\ call # Idle
    /\ LET id == nextId[call.pool]
       IN  /\ store[id] = NoUtxo
           /\ nextId' = [nextId EXCEPT ![call.pool] = Advanced(call.pool, id)]
           /\ store' = [store EXCEPT ![id] = Data]
           /\ answer' = id
           /\ call' = Idle

\* It is in use, and is not the last one to look at.
Skip ==
    /\ call # Idle
    /\ store[nextId[call.pool]] # NoUtxo
    /\ ~CameAround(call.pool)
    /\ nextId' = [nextId EXCEPT ![call.pool] = Advanced(call.pool, @)]
    /\ UNCHANGED <<store, answer, call>>

\* It is in use, and all the others are.
Fail ==
    /\ call # Idle
    /\ store[nextId[call.pool]] # NoUtxo
    /\ CameAround(call.pool)
    /\ nextId' = [nextId EXCEPT ![call.pool] = Advanced(call.pool, @)]
    /\ answer' = Occupied
    /\ call' = Idle
    /\ UNCHANGED store

\* Between calls an output is spent or promoted.
Release(slot) ==
    /\ call = Idle
    /\ slot \in Used
    /\ store' = [store EXCEPT ![slot] = NoUtxo]
    /\ UNCHANGED <<nextId, answer, call>>

Iterate == Return \/ Skip \/ Fail

Next ==
    \/ \E name \in PoolNames : Begin(name)
    \/ Iterate
    \/ \E slot \in Slots : Release(slot)

\* The host runs a call until it returns.
Spec == Init /\ [][Next]_vars /\ WF_vars(Iterate)

----------------------------------------------------------------------------

TypeOK ==
    /\ store \in [Slots -> {Data, NoUtxo}]
    /\ nextId \in [confirmed : ConfirmedPool, unconfirmed : UnconfirmedPool]
    /\ answer \in Slots \cup {NoAnswer, Occupied}
    /\ call \in {Idle} \cup [pool : PoolNames, start : Slots]

\* The counters as they were before the call that is running.
CountersBefore ==
    IF call = Idle THEN nextId ELSE [nextId EXCEPT ![call.pool] = call.start]

Promised == INSTANCE SlotAllocation WITH nextId <- CountersBefore

\* allocateConfirmedId and allocateUnconfirmedId, with pools in any state of
\* use and counters anywhere, also about to wrap around, compute the first
\* free slot from the counter on, or find that there is none.
Implements == Promised!Spec

\* The loop ends, also when every slot of the pool is in use, having looked
\* at each: it has no bound but its test for startId.
AllocationReturns == call # Idle ~> call = Idle

=============================================================================
