------------------------------ MODULE SlotPools ------------------------------
(***************************************************************************)
(* The slots unspent outputs are kept in.  A slot number is one byte.  Low *)
(* numbers are the unconfirmed pool, for change of withdrawals that no     *)
(* block is known to hold; the others are the confirmed pool.  Each pool   *)
(* has a counter, from which a slot that is not in use is searched.        *)
(***************************************************************************)
EXTENDS Integers

CONSTANTS
    ConfirmedStart, \* constants.UtxoConfirmedPoolStart
    LastSlot,       \* the largest slot number
    NoUtxo          \* the answer of the state for a slot that is not set

ASSUME SlotPoolsAssumption ==
    /\ ConfirmedStart \in Nat \ {0}
    /\ LastSlot \in Nat
    /\ ConfirmedStart <= LastSlot

Slots == 0..LastSlot
UnconfirmedPool == 0..(ConfirmedStart - 1)
ConfirmedPool == ConfirmedStart..LastSlot

Free(store, pool) == {s \in pool : store[s] = NoUtxo}

\* How many slots lie from slot next to slot s, going up and around.
Steps(pool, next, s) ==
    IF s >= next THEN s - next
    ELSE s - next + (IF pool = ConfirmedPool THEN LastSlot + 1 - ConfirmedStart
                                             ELSE ConfirmedStart)

\* Mutant of FirstFree: the slot the counter names is taken unseen.
CounterSlot(store, pool, next) == next

\* The slot an allocation takes: the first free one from the counter on.
FirstFree(store, pool, next) ==
    CHOOSE s \in Free(store, pool) :
        \A t \in Free(store, pool) : Steps(pool, next, s) <= Steps(pool, next, t)

\* Mutant of AfterSlot: the confirmed counter wraps one slot too late.
AfterSlotLate(s) ==
    IF s = LastSlot + 1 THEN ConfirmedStart
    ELSE IF s = ConfirmedStart - 1 THEN 0
    ELSE s + 1

\* The counter once slot s is taken.
AfterSlot(s) ==
    IF s = LastSlot THEN ConfirmedStart
    ELSE IF s = ConfirmedStart - 1 THEN 0
    ELSE s + 1

=============================================================================
