------------------------- MODULE SlotAllocatorProofs -------------------------
(***************************************************************************)
(* The allocation loop computes what SlotAllocation promises, for pools of *)
(* any size.  While it runs, every slot from startId up to its counter,    *)
(* going around, is in use: so the first free slot it meets is the one the *)
(* promise names, and when it is back at startId there is none.            *)
(***************************************************************************)
EXTENDS SlotAllocator, TLAPS

PoolOf(name) == IF name = "confirmed" THEN ConfirmedPool ELSE UnconfirmedPool

\* What the loop has looked at is in use.
Searched ==
    call # Idle =>
        /\ call.start \in PoolOf(call.pool)
        /\ \A t \in PoolOf(call.pool) :
               Steps(PoolOf(call.pool), call.start, t)
                   < Steps(PoolOf(call.pool), call.start, nextId[call.pool])
               => store[t] # NoUtxo

IInv == TypeOK /\ Searched

----------------------------------------------------------------------------
\* Going around a pool.

LEMMA PoolFacts ==
    ASSUME NEW name \in PoolNames
    PROVE  /\ PoolOf(name) \in SUBSET Slots
           /\ PoolOf(name) \in SUBSET Int
           /\ \A n \in [confirmed : ConfirmedPool, unconfirmed : UnconfirmedPool] :
                  n[name] \in PoolOf(name)
  BY SlotPoolsAssumption
     DEF PoolOf, PoolNames, ConfirmedPool, UnconfirmedPool, Slots

LEMMA PoolsDiffer == UnconfirmedPool # ConfirmedPool
<1>1. 0 \in UnconfirmedPool /\ 0 \notin ConfirmedPool
  BY SlotPoolsAssumption DEF UnconfirmedPool, ConfirmedPool
<1>2. QED
  BY <1>1

\* The counter moves as AfterSlot says and stays in its pool.
LEMMA AdvancedFacts ==
    ASSUME NEW name \in PoolNames, NEW id \in PoolOf(name)
    PROVE  Advanced(name, id) = AfterSlot(id) /\ Advanced(name, id) \in PoolOf(name)
  BY SlotPoolsAssumption
     DEF Advanced, AfterSlot, PoolOf, PoolNames, ConfirmedPool, UnconfirmedPool

\* A time round goes one step further, until it is back at the start, when
\* no slot is further away than the one it looked at.
LEMMA StepsAdvance ==
    ASSUME NEW name \in PoolNames, NEW start \in PoolOf(name), NEW id \in PoolOf(name),
           NEW t \in PoolOf(name)
    PROVE  /\ Steps(PoolOf(name), start, t) \in Nat
           /\ Steps(PoolOf(name), start, start) = 0
           /\ Steps(PoolOf(name), start, t) = Steps(PoolOf(name), start, id) => t = id
           /\ Advanced(name, id) # start =>
                  Steps(PoolOf(name), start, Advanced(name, id))
                      = Steps(PoolOf(name), start, id) + 1
           /\ Advanced(name, id) = start =>
                  Steps(PoolOf(name), start, t) <= Steps(PoolOf(name), start, id)
<1>1. CASE name = "confirmed"
  BY <1>1, SlotPoolsAssumption DEF Advanced, PoolOf, Steps, ConfirmedPool
<1>2. CASE name = "unconfirmed"
  <2>1. PoolOf(name) = UnconfirmedPool /\ UnconfirmedPool # ConfirmedPool
    BY <1>2, PoolsDiffer DEF PoolOf
  <2>2. start \in UnconfirmedPool /\ id \in UnconfirmedPool /\ t \in UnconfirmedPool
    BY <2>1
  <2>3. /\ Advanced(name, id) = IF id >= ConfirmedStart - 1 THEN 0 ELSE id + 1
        /\ \A s \in UnconfirmedPool :
               Steps(PoolOf(name), start, s)
                   = IF s >= start THEN s - start ELSE s - start + ConfirmedStart
    BY <1>2, <2>1 DEF Advanced, Steps
  <2>4. Advanced(name, id) \in UnconfirmedPool
    BY <2>2, <2>3, SlotPoolsAssumption DEF UnconfirmedPool
  <2>5. QED
    BY <2>2, <2>3, <2>4, SlotPoolsAssumption DEF UnconfirmedPool
<1>3. QED
  BY <1>1, <1>2 DEF PoolNames

\* A free slot, all before it being in use, is the first free one.
LEMMA FirstFreeFound ==
    ASSUME NEW name \in PoolNames, NEW start \in PoolOf(name), NEW id \in PoolOf(name),
           store[id] = NoUtxo,
           \A t \in PoolOf(name) :
               Steps(PoolOf(name), start, t) < Steps(PoolOf(name), start, id)
               => store[t] # NoUtxo
    PROVE  FirstFree(store, PoolOf(name), start) = id
<1> DEFINE First(s) == \A t \in Free(store, PoolOf(name)) :
               Steps(PoolOf(name), start, s) <= Steps(PoolOf(name), start, t)
<1>1. id \in Free(store, PoolOf(name))
  BY DEF Free
<1>2. First(id)
  <2>1. SUFFICES ASSUME NEW t \in Free(store, PoolOf(name))
                 PROVE  Steps(PoolOf(name), start, id) <= Steps(PoolOf(name), start, t)
    OBVIOUS
  <2>2. t \in PoolOf(name) /\ store[t] = NoUtxo
    BY DEF Free
  <2>3. /\ Steps(PoolOf(name), start, t) \in Nat
        /\ Steps(PoolOf(name), start, id) \in Nat
    BY <2>2, StepsAdvance
  <2>4. QED
    BY <2>2, <2>3
<1>3. ASSUME NEW s \in Free(store, PoolOf(name)), First(s)
      PROVE  s = id
  <2>1. s \in PoolOf(name)
    BY DEF Free
  <2>2. /\ Steps(PoolOf(name), start, s) <= Steps(PoolOf(name), start, id)
        /\ Steps(PoolOf(name), start, id) <= Steps(PoolOf(name), start, s)
    BY <1>1, <1>2, <1>3
  <2>3. /\ Steps(PoolOf(name), start, s) \in Nat
        /\ Steps(PoolOf(name), start, id) \in Nat
    BY <2>1, StepsAdvance
  <2>4. QED
    BY <2>1, <2>2, <2>3, StepsAdvance
<1>4. QED
  BY <1>1, <1>2, <1>3 DEF FirstFree

----------------------------------------------------------------------------
\* The invariant.

LEMMA CallFacts ==
    ASSUME TypeOK, Searched, call # Idle
    PROVE  /\ call.pool \in PoolNames
           /\ call.start \in PoolOf(call.pool)
           /\ nextId[call.pool] \in PoolOf(call.pool)
<1>1. call \in [pool : PoolNames, start : Slots]
  BY DEF TypeOK
<1>2. call.pool \in PoolNames
  BY <1>1
<1>3. QED
  BY <1>2, PoolFacts DEF TypeOK, Searched

LEMMA InitHolds == Init => IInv
<1>1. ConfirmedStart \in ConfirmedPool /\ 0 \in UnconfirmedPool
  BY SlotPoolsAssumption DEF ConfirmedPool, UnconfirmedPool
<1>2. QED
  BY <1>1 DEF Init, IInv, TypeOK, Searched

LEMMA NextKeeps == IInv /\ [Next]_vars => IInv'
<1> SUFFICES ASSUME IInv, [Next]_vars PROVE IInv'
  OBVIOUS
<1> USE DEF IInv
<1>1. ASSUME NEW name \in PoolNames, Begin(name)
      PROVE  IInv'
  <2> DEFINE c == [pool |-> name, start |-> nextId[name]]
  <2>1. /\ nextId[name] \in PoolOf(name) /\ nextId[name] \in Slots
        /\ call' = c /\ UNCHANGED <<store, nextId, answer>>
    BY <1>1, PoolFacts DEF Begin, TypeOK
  <2>2. c \in [pool : PoolNames, start : Slots]
    BY <2>1
  <2>3. TypeOK'
    BY <2>1, <2>2 DEF TypeOK
  <2>4. \A t \in PoolOf(name) :
            ~(Steps(PoolOf(name), nextId[name], t)
                  < Steps(PoolOf(name), nextId[name], nextId[name]))
    BY <2>1, StepsAdvance
  <2>5. Searched'
    BY <2>1, <2>4 DEF Searched
  <2>6. QED
    BY <2>3, <2>5
<1>2. ASSUME Return PROVE IInv'
  <2> DEFINE id == nextId[call.pool]
  <2>1. /\ call # Idle
        /\ nextId' = [nextId EXCEPT ![call.pool] = Advanced(call.pool, id)]
        /\ store' = [store EXCEPT ![id] = Data]
        /\ answer' = id
        /\ call' = Idle
    BY <1>2 DEF Return
  <2>2. call.pool \in PoolNames /\ id \in PoolOf(call.pool)
    BY <2>1, CallFacts
  <2>3. id \in Slots
    BY <2>2, PoolFacts
  <2>4. nextId' \in [confirmed : ConfirmedPool, unconfirmed : UnconfirmedPool]
    BY <2>1, <2>2, AdvancedFacts DEF TypeOK, PoolOf, PoolNames
  <2>5. QED
    BY <2>1, <2>3, <2>4 DEF TypeOK, Searched
<1>3. ASSUME Skip PROVE IInv'
  <2> DEFINE id == nextId[call.pool]
             pool == PoolOf(call.pool)
             next == Advanced(call.pool, id)
  <2>1. /\ call # Idle /\ store[id] # NoUtxo /\ next # call.start
        /\ nextId' = [nextId EXCEPT ![call.pool] = next]
        /\ UNCHANGED <<store, answer, call>>
    BY <1>3 DEF Skip, CameAround
  <2>2. call.pool \in PoolNames /\ id \in pool /\ call.start \in pool
    BY <2>1, CallFacts
  <2>3. nextId' \in [confirmed : ConfirmedPool, unconfirmed : UnconfirmedPool]
    BY <2>1, <2>2, AdvancedFacts DEF TypeOK, PoolOf, PoolNames
  <2>4. nextId'[call.pool] = next
    BY <2>1, <2>2 DEF TypeOK, PoolNames
  <2>5. ASSUME NEW t \in pool, Steps(pool, call.start, t) < Steps(pool, call.start, next)
        PROVE  store[t] # NoUtxo
    <3>1. /\ Steps(pool, call.start, t) \in Nat
          /\ Steps(pool, call.start, id) \in Nat
          /\ Steps(pool, call.start, next) = Steps(pool, call.start, id) + 1
          /\ Steps(pool, call.start, t) = Steps(pool, call.start, id) => t = id
      BY <2>1, <2>2, StepsAdvance
    <3>2. Steps(pool, call.start, t) < Steps(pool, call.start, id) \/ t = id
      BY <3>1, <2>5
    <3>3. QED
      BY <3>2, <2>1 DEF Searched
  <2> HIDE DEF id, next
  <2>6. Searched'
    BY <2>1, <2>2, <2>4, <2>5 DEF Searched
  <2>7. TypeOK'
    BY <2>1, <2>3 DEF TypeOK
  <2>8. QED
    BY <2>6, <2>7
<1>4. ASSUME Fail PROVE IInv'
  <2> DEFINE id == nextId[call.pool]
  <2>1. /\ call # Idle
        /\ nextId' = [nextId EXCEPT ![call.pool] = Advanced(call.pool, id)]
        /\ answer' = Occupied /\ call' = Idle /\ UNCHANGED store
    BY <1>4 DEF Fail
  <2>2. call.pool \in PoolNames /\ id \in PoolOf(call.pool)
    BY <2>1, CallFacts
  <2>3. nextId' \in [confirmed : ConfirmedPool, unconfirmed : UnconfirmedPool]
    BY <2>1, <2>2, AdvancedFacts DEF TypeOK, PoolOf, PoolNames
  <2>4. QED
    BY <2>1, <2>3 DEF TypeOK, Searched
<1>5. ASSUME NEW slot \in Slots, Release(slot) PROVE IInv'
  BY <1>5 DEF Release, TypeOK, Searched
<1>6. CASE UNCHANGED vars
  BY <1>6 DEF vars, TypeOK, Searched
<1>7. QED
  BY <1>1, <1>2, <1>3, <1>4, <1>5, <1>6 DEF Next, Iterate

LEMMA InvariantHolds == Spec => []IInv
<1>1. QED
  BY InitHolds, NextKeeps, PTL DEF Spec

----------------------------------------------------------------------------
\* The refinement.

\* The instance speaks of the same slots, with the same operators.
LEMMA SameOperators ==
    ASSUME NEW st, NEW name, NEW start
    PROVE  /\ Promised!Slots = Slots
           /\ Promised!Pool(name) = PoolOf(name)
           /\ Promised!Free(st, PoolOf(name)) = Free(st, PoolOf(name))
           /\ Promised!FirstFree(st, PoolOf(name), start)
                  = FirstFree(st, PoolOf(name), start)
           /\ Promised!AfterSlot(start) = AfterSlot(start)
<1>1. /\ Promised!Slots = Slots
      /\ Promised!ConfirmedPool = ConfirmedPool
      /\ Promised!UnconfirmedPool = UnconfirmedPool
  BY DEF Promised!Slots, Slots, Promised!ConfirmedPool, ConfirmedPool,
         Promised!UnconfirmedPool, UnconfirmedPool
<1>2. Promised!Pool(name) = PoolOf(name)
  BY <1>1 DEF Promised!Pool, PoolOf
<1>3. Promised!AfterSlot(start) = AfterSlot(start)
  BY DEF Promised!AfterSlot, AfterSlot
<1>4. Promised!Free(st, PoolOf(name)) = Free(st, PoolOf(name))
  BY DEF Promised!Free, Free
<1>5. \A t : Promised!Steps(PoolOf(name), start, t) = Steps(PoolOf(name), start, t)
  BY <1>1 DEF Promised!Steps, Steps
<1>6. QED
  BY <1>1, <1>2, <1>3, <1>4, <1>5 DEF Promised!FirstFree, FirstFree

LEMMA InitPromised == Init => Promised!Init
  BY SameOperators DEF Init, Promised!Init, CountersBefore

\* Returning is the allocation that was promised.
LEMMA ReturnAllocates ==
    ASSUME IInv, Return
    PROVE  Promised!Allocate(call.pool)
<1> DEFINE id == nextId[call.pool]
           pool == PoolOf(call.pool)
<1>1. /\ call # Idle /\ store[id] = NoUtxo
      /\ nextId' = [nextId EXCEPT ![call.pool] = Advanced(call.pool, id)]
      /\ store' = [store EXCEPT ![id] = Data]
      /\ answer' = id
      /\ call' = Idle
  BY DEF Return
<1>2. call.pool \in PoolNames /\ id \in pool /\ call.start \in pool
  BY <1>1, CallFacts DEF IInv
<1>3. Promised!Pool(call.pool) = pool
  BY SameOperators
<1>4. CountersBefore = [nextId EXCEPT ![call.pool] = call.start]
      /\ CountersBefore[call.pool] = call.start
  BY <1>1, <1>2 DEF CountersBefore, IInv, TypeOK, PoolNames
<1>5. FirstFree(store, pool, call.start) = id
  BY <1>1, <1>2, FirstFreeFound DEF IInv, Searched
<1>6. Free(store, pool) # {}
  BY <1>1, <1>2 DEF Free
<1>7. CountersBefore' = [CountersBefore EXCEPT ![call.pool] = AfterSlot(id)]
  BY <1>1, <1>2, <1>4, AdvancedFacts DEF CountersBefore, IInv, TypeOK, PoolNames
<1>8. QED
  BY <1>1, <1>3, <1>4, <1>5, <1>6, <1>7, SameOperators DEF Promised!Allocate

\* Failing is the refusal that was promised: the counter is where it was.
LEMMA FailRefuses ==
    ASSUME IInv, Fail
    PROVE  Promised!Refuse(call.pool)
<1> DEFINE id == nextId[call.pool]
           pool == PoolOf(call.pool)
<1>1. /\ call # Idle /\ store[id] # NoUtxo
      /\ Advanced(call.pool, id) = call.start
      /\ nextId' = [nextId EXCEPT ![call.pool] = call.start]
      /\ answer' = Occupied
      /\ call' = Idle
      /\ UNCHANGED store
  BY DEF Fail, CameAround
<1>2. call.pool \in PoolNames /\ id \in pool /\ call.start \in pool
  BY <1>1, CallFacts DEF IInv
<1>3. Promised!Pool(call.pool) = pool
  BY SameOperators
<1>4. ASSUME NEW t \in pool PROVE store[t] # NoUtxo
  <2>1. /\ Steps(pool, call.start, t) \in Nat
        /\ Steps(pool, call.start, id) \in Nat
        /\ Steps(pool, call.start, t) <= Steps(pool, call.start, id)
        /\ Steps(pool, call.start, t) = Steps(pool, call.start, id) => t = id
    BY <1>1, <1>2, StepsAdvance
  <2>2. Steps(pool, call.start, t) < Steps(pool, call.start, id) \/ t = id
    BY <2>1
  <2>3. QED
    BY <2>2, <1>1 DEF IInv, Searched
<1>5. Free(store, pool) = {}
  BY <1>4 DEF Free
<1>6. CountersBefore' = CountersBefore
  BY <1>1, <1>2 DEF CountersBefore, IInv, TypeOK, PoolNames
<1>7. QED
  BY <1>1, <1>3, <1>5, <1>6, SameOperators DEF Promised!Refuse

LEMMA StepPromised == IInv /\ [Next]_vars => [Promised!Next]_(Promised!vars)
<1> SUFFICES ASSUME IInv, [Next]_vars PROVE [Promised!Next]_(Promised!vars)
  OBVIOUS
<1>1. ASSUME NEW name \in PoolNames, Begin(name)
      PROVE  UNCHANGED Promised!vars
  <2>1. CountersBefore' = CountersBefore
    BY <1>1, SlotAllocatorAssumption
       DEF Begin, CountersBefore, IInv, TypeOK, PoolNames
  <2>2. QED
    BY <1>1, <2>1 DEF Begin, Promised!vars
<1>2. ASSUME Return PROVE Promised!Next
  <2>1. call.pool \in PoolNames
    BY <1>2, CallFacts DEF Return, IInv
  <2>2. QED
    BY <1>2, <2>1, ReturnAllocates DEF Promised!Next, Promised!PoolNames, PoolNames
<1>3. ASSUME Skip PROVE UNCHANGED Promised!vars
  <2>1. call # Idle /\ UNCHANGED <<store, answer, call>>
        /\ nextId' = [nextId EXCEPT ![call.pool] = Advanced(call.pool, @)]
    BY <1>3 DEF Skip
  <2>2. call.pool \in PoolNames
    BY <2>1, CallFacts DEF IInv
  <2>3. CountersBefore' = CountersBefore
    BY <2>1, <2>2 DEF CountersBefore, IInv, TypeOK, PoolNames
  <2>4. QED
    BY <2>1, <2>3 DEF Promised!vars
<1>4. ASSUME Fail PROVE Promised!Next
  <2>1. call.pool \in PoolNames
    BY <1>4, CallFacts DEF Fail, IInv
  <2>2. QED
    BY <1>4, <2>1, FailRefuses DEF Promised!Next, Promised!PoolNames, PoolNames
<1>5. ASSUME NEW slot \in Slots, Release(slot) PROVE Promised!Next
  <2>1. Promised!Release(slot)
    BY <1>5 DEF Release, Promised!Release, CountersBefore
  <2>2. QED
    BY <2>1, SameOperators DEF Promised!Next
<1>6. CASE UNCHANGED vars
  BY <1>6 DEF vars, Promised!vars, CountersBefore
<1>7. QED
  BY <1>1, <1>2, <1>3, <1>4, <1>5, <1>6 DEF Next, Iterate

\* The counters stay in their pools and the answers are slots: the wrap-around
\* of the byte that holds a counter is never the one the machine would do.
THEOREM AllocatorType == Spec => []TypeOK
<1>1. IInv => TypeOK
  BY DEF IInv
<1>2. QED
  BY <1>1, InvariantHolds, PTL

\* allocateConfirmedId and allocateUnconfirmedId return the first free slot
\* from the counter on and leave the counter after it, or fail only when no
\* slot is free and then leave the counter alone.
THEOREM AllocatorImplements == Spec => Implements
<1>1. QED
  BY InitPromised, StepPromised, InvariantHolds, PTL DEF Spec, Implements, Promised!Spec

=============================================================================
