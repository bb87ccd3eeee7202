----------------------------- MODULE SwapProofs -----------------------------
(***************************************************************************)
(* Theorems about map with the calls it makes to the router, for every     *)
(* depth of the calls within calls.  A call that waits holds a registry,   *)
(* counters, a list of spends and a supply that the router's calls may     *)
(* have made stale, so the three theorems rest on three invariants, each   *)
(* without what the others need: the types hold and the slots are never    *)
(* overwritten whatever a call holds in memory; while the router only      *)
(* draws, what the one call holds agrees with the slots; and balances,     *)
(* observed outputs and signing data, which are written at once, agree at  *)
(* every moment.                                                           *)
(***************************************************************************)
EXTENDS LedgerProofs, SwapReentry

----------------------------------------------------------------------------
\* Calls of map around the router.  Whatever the router calls, the types are
\* kept and no slot in use is overwritten, although calls that wait hold
\* registries that are no longer those of the slots.

Frame ==
    [txid : TxIds, instrs : SUBSET Instructions, sender : Accounts, index : Nat,
     waiting : BOOLEAN, total : Nat, registry : Seq(Entry),
     nextId : [confirmed : ConfirmedPool, unconfirmed : UnconfirmedPool],
     spendsList : Seq(SpendIds),
     supply : [active : Int, user : Int, fee : Int, baseFeeRate : Nat]]

FramesOK == frames \in Seq(Frame) /\ \A i \in DOMAIN frames : Known(frames[i].txid)

SwapTypes == TypeOK /\ FramesOK

\* The innermost call is a frame, of a known transaction.
LEMMA TopType ==
    ASSUME SwapTypes, ~AtRest
    PROVE  /\ Len(frames) \in Nat \ {0}
           /\ Top \in Frame /\ Known(Top.txid)
<1>1. frames \in Seq(Frame) /\ frames # <<>>
  BY DEF SwapTypes, FramesOK, AtRest
<1>2. Len(frames) \in Nat \ {0} /\ Len(frames) \in DOMAIN frames
  BY <1>1
<1>3. QED
  BY <1>1, <1>2 DEF Top, SwapTypes, FramesOK

\* A step of the innermost call leaves the others alone.
LEMMA SetTopType ==
    ASSUME SwapTypes, ~AtRest, NEW f \in Frame, Known(f.txid),
           frames' = SetTop(f), UNCHANGED spendTx
    PROVE  /\ FramesOK'
           /\ Len(frames') = Len(frames) /\ frames'[Len(frames')] = f
           /\ ~AtRest' /\ Top' = f
<1>1. frames \in Seq(Frame) /\ Len(frames) \in Nat \ {0}
  BY TopType DEF SwapTypes, FramesOK
<1>2. /\ frames' \in Seq(Frame) /\ Len(frames') = Len(frames)
      /\ DOMAIN frames' = DOMAIN frames
      /\ frames'[Len(frames)] = f
      /\ \A i \in DOMAIN frames : i # Len(frames) => frames'[i] = frames[i]
  BY <1>1 DEF SetTop
<1>3. \A i \in DOMAIN frames' : Known(frames'[i].txid)
  BY <1>2 DEF SwapTypes, FramesOK
<1>4. (\A i \in DOMAIN frames : Known(frames[i].txid))'
  BY <1>3 DEF Known
<1>5. frames' # <<>>
  BY <1>1, <1>2
<1>6. FramesOK'
  BY <1>2, <1>4 DEF FramesOK
<1>7. QED
  BY <1>1, <1>2, <1>5, <1>6 DEF AtRest, Top

\* No step forgets a transaction, so the calls stay those of known ones.
LEMMA SameFrames ==
    ASSUME FramesOK, UNCHANGED frames, \A t : Known(t) => Known(t)'
    PROVE  FramesOK'
BY DEF FramesOK

\* An output is written to a free slot and its own is emptied, which may
\* have been done before.
LEMMA HoldsAfterMove ==
    ASSUME NEW store \in Stores, Holds(store), NEW new \in Slots, NEW old \in Slots,
           NEW u, store[new] = NoUtxo, store[old] \in {u, NoUtxo}, new # old
    PROVE  Holds([store EXCEPT ![new] = u, ![old] = NoUtxo])
<1> DEFINE store2 == [store EXCEPT ![new] = u, ![old] = NoUtxo]
<1>1. ASSUME NEW s \in Used PROVE \E t \in Slots : store2[t] = utxos[s]
  <2>1. PICK t \in Slots : store[t] = utxos[s]
    BY DEF Holds
  <2>2. utxos[s] # NoUtxo
    BY DEF Used
  <2>3. CASE t = old
    <3>1. store2[new] = u /\ store[old] = u
      BY <2>1, <2>2, <2>3 DEF Stores
    <3>2. QED
      BY <2>1, <2>3, <3>1
  <2>4. CASE t # old
    <3>1. store2[t] = store[t]
      BY <2>1, <2>2, <2>4 DEF Stores
    <3>2. QED
      BY <2>1, <3>1
  <2>5. QED
    BY <2>3, <2>4
<1> HIDE DEF store2
<1>2. Holds(store2)
  BY <1>1 DEF Holds
<1>3. QED
  BY <1>2 DEF store2

\* Writing a free slot disturbs no slot in use.
LEMMA HoldsAfterAdd ==
    ASSUME NEW store \in Stores, Holds(store), NEW new \in Slots,
           store[new] = NoUtxo, NEW u
    PROVE  Holds([store EXCEPT ![new] = u])
<1> DEFINE store2 == [store EXCEPT ![new] = u]
<1>1. ASSUME NEW s \in Used PROVE \E t \in Slots : store2[t] = utxos[s]
  <2>1. PICK t \in Slots : store[t] = utxos[s]
    BY DEF Holds
  <2>2. utxos[s] # NoUtxo
    BY DEF Used
  <2>3. store2[t] = store[t]
    BY <2>1, <2>2 DEF Stores
  <2>4. QED
    BY <2>1, <2>3
<1> HIDE DEF store2
<1>2. Holds(store2)
  BY <1>1 DEF Holds
<1>3. QED
  BY <1>2 DEF store2

\* The states of the loop that confirms a spend: nothing is lost, registry and
\* slots agree if they did before, and an output that has not been moved is in
\* its slot, unless another position named that slot too.
Confirming ==
    {st \in PromotionStates :
        /\ Holds(st.utxos)
        /\ RegistryMatchesStore => Consistent(st.utxos, st.registry)
        /\ DOMAIN st.registry = DOMAIN registry
        /\ \A p \in DOMAIN Loaded :
              st.registry[p].id \in UnconfirmedPool
                  => st.utxos[st.registry[p].id] \in {Loaded[p], NoUtxo}}

\* Confirming an output, whatever registry the call holds: it moves to
\* a slot that is free.
LEMMA PromoteEntryStays ==
    ASSUME TypeOK, NEW st \in Confirming, NEW txid, NEW index, NEW p
    PROVE  PromoteEntry(st, txid, index, p) \in Confirming
<1> DEFINE R == PromoteEntry(st, txid, index, p)
           Same == \/ st.full
                   \/ p \notin DOMAIN Loaded
                   \/ st.registry[p].id \notin UnconfirmedPool
                   \/ <<Loaded[p].txid, Loaded[p].vout>> # <<txid, index>>
           new == FirstFree(st.utxos, ConfirmedPool, st.next)
           old == st.registry[p].id
           store == st.utxos
           store2 == [store EXCEPT ![new] = Loaded[p], ![old] = NoUtxo]
           list2 == [st.registry EXCEPT ![p].id = new]
<1>0. /\ st \in PromotionStates /\ Holds(st.utxos)
      /\ RegistryMatchesStore => Consistent(st.utxos, st.registry)
      /\ DOMAIN st.registry = DOMAIN registry
      /\ \A q \in DOMAIN Loaded :
            st.registry[q].id \in UnconfirmedPool
                => st.utxos[st.registry[q].id] \in {Loaded[q], NoUtxo}
  BY DEF Confirming
<1>1. CASE Same
  BY <1>1 DEF PromoteEntry
<1>2. CASE ~Same /\ Free(st.utxos, ConfirmedPool) = {}
  <2>1. R = [st EXCEPT !.full = TRUE]
    BY <1>2 DEF PromoteEntry
  <2>2. /\ R \in PromotionStates /\ R.utxos = st.utxos /\ R.registry = st.registry
    BY <1>0, <2>1 DEF PromotionStates
  <2> HIDE DEF R
  <2>3. R \in Confirming
    BY <1>0, <2>2 DEF Confirming
  <2>4. QED
    BY <2>3 DEF R
<1>3. CASE ~Same /\ Free(st.utxos, ConfirmedPool) # {}
  <2>1. R = [utxos |-> store2, registry |-> list2, next |-> AfterSlot(new),
             full |-> FALSE]
    BY <1>3 DEF PromoteEntry
  <2>2. /\ store \in Stores /\ st.registry \in Seq(Entry) /\ st.next \in ConfirmedPool
    BY <1>0 DEF PromotionStates
  <2>3. /\ p \in DOMAIN Loaded /\ p \in DOMAIN st.registry
        /\ Loaded[p] \in Utxo \cup {NoUtxo}
        /\ old \in UnconfirmedPool /\ old \in Slots
    <3>1. p \in DOMAIN Loaded /\ old \in UnconfirmedPool
      BY <1>3
    <3>2. p \in DOMAIN registry /\ registry[p].id \in Slots
          /\ Loaded[p] = utxos[registry[p].id]
      BY <3>1, PoolsInSlots DEF Loaded
    <3>3. QED
      BY <1>0, <3>1, <3>2, PoolsInSlots DEF TypeOK
  <2>4. new \in Free(store, ConfirmedPool)
    BY <1>3, <2>2, FirstFreeIsFree
  <2>5. new \in ConfirmedPool /\ new \in Slots /\ store[new] = NoUtxo /\ new # old
    BY <2>3, <2>4, PoolsInSlots DEF Free
  <2>6. AfterSlot(new) \in ConfirmedPool
    BY <2>5, AfterSlotInPool
  <2>7. store[old] \in {Loaded[p], NoUtxo} /\ Holds(store)
    BY <1>0, <2>3
  <2>8. /\ store2 \in Stores /\ list2 \in Seq(Entry)
        /\ DOMAIN list2 = DOMAIN st.registry
    <3>1. st.registry[p] \in Entry
      BY <2>2, <2>3
    <3>2. [st.registry[p] EXCEPT !.id = new] \in Entry
      BY <3>1, <2>5 DEF Entry
    <3> HIDE DEF new, old, store
    <3>3. store2 \in Stores
      BY <2>2, <2>3 DEF Stores
    <3>4. list2 \in Seq(Entry) /\ DOMAIN list2 = DOMAIN st.registry
      BY <2>2, <2>3, <3>2
    <3>5. QED
      BY <3>3, <3>4
  <2>9. Holds(store2)
    <3> HIDE DEF new, old, store
    <3>1. QED
      BY <2>2, <2>3, <2>5, <2>7, HoldsAfterMove
  <2>10. ASSUME Consistent(store, st.registry) PROVE Consistent(store2, list2)
    <3>1. store[old] # NoUtxo
      BY <2>3, <2>10 DEF Consistent
    <3>2. store2 = [store EXCEPT ![new] = store[old], ![old] = NoUtxo]
      BY <2>7, <3>1
    <3> HIDE DEF new, store2
    <3>3. QED
      BY <2>2, <2>3, <2>5, <2>10, <3>2, ConsistentMove
  <2>11. ASSUME NEW q \in DOMAIN Loaded, list2[q].id \in UnconfirmedPool
         PROVE  store2[list2[q].id] \in {Loaded[q], NoUtxo}
    <3>1. q \in DOMAIN st.registry
      BY <1>0 DEF Loaded
    <3>2. q # p /\ list2[q].id = st.registry[q].id
      <4>1. st.registry[p] \in Entry
        BY <2>2, <2>3
      <4>2. list2[p].id = new
        BY <2>3, <4>1 DEF Entry
      <4>3. q # p
        BY <2>5, <2>11, <4>2, PoolsInSlots
      <4> HIDE DEF new
      <4>4. QED
        BY <3>1, <4>3
    <3> DEFINE slot == st.registry[q].id
    <3>3. slot \in UnconfirmedPool /\ slot \in Slots /\ slot # new
      BY <2>5, <2>11, <3>2, PoolsInSlots
    <3>4. store[slot] \in {Loaded[q], NoUtxo}
      BY <1>0, <3>3
    <3> HIDE DEF slot, new, old, store
    <3>5. store2[slot] \in {store[slot], NoUtxo}
      BY <2>2, <2>3, <3>3 DEF Stores
    <3>6. QED
      BY <3>2, <3>4, <3>5 DEF slot
  <2>12. /\ R.utxos = store2 /\ R.registry = list2
         /\ R \in PromotionStates
    <3> HIDE DEF store2, list2, new
    <3>1. QED
      BY <2>1, <2>6, <2>8 DEF PromotionStates
  <2> HIDE DEF store2, list2, new, R, old
  <2>13. R \in Confirming
    BY <1>0, <2>8, <2>9, <2>10, <2>11, <2>12 DEF Confirming
  <2>14. QED
    BY <2>13 DEF R
<1>4. QED
  BY <1>1, <1>2, <1>3

\* What map does first, before it looks at the outputs.
LEMMA PromotesLoaded ==
    ASSUME TypeOK, NEW txid
    PROVE  LET st == PromoteLoaded(txid)
           IN  /\ st \in PromotionStates /\ Holds(st.utxos)
               /\ RegistryMatchesStore => Consistent(st.utxos, st.registry)
<1> DEFINE m == Len(registry)
           n == IF txid \in SpendIds /\ spends[txid] # NoTx
                THEN Len(spends[txid]) * m ELSE 0
           start == [utxos |-> utxos, registry |-> registry,
                     next |-> nextId.confirmed,
                     full |-> \E p \in DOMAIN Loaded : Loaded[p] = NoUtxo]
           G(k, x) == PromoteEntry(x, txid, (k - 1) \div m, ((k - 1) % m) + 1)
           g == [p \in (1..n) \X Confirming |-> G(p[1], p[2])]
           loop[k \in 0..n] ==
               IF k = 0 THEN [utxos |-> utxos, registry |-> registry,
                              next |-> nextId.confirmed,
                              full |-> \E p \in DOMAIN Loaded : Loaded[p] = NoUtxo]
               ELSE PromoteEntry(loop[k - 1], txid, (k - 1) \div m, ((k - 1) % m) + 1)
<1>1. n \in Nat
  <2>1. m \in Nat
    BY DEF TypeOK
  <2>2. CASE txid \in SpendIds /\ spends[txid] # NoTx
    <3>1. Len(spends[txid]) \in Nat
      BY <2>2 DEF TypeOK
    <3> HIDE DEF m
    <3>2. Len(spends[txid]) * m \in Nat
      BY <2>1, <3>1
    <3>3. QED
      BY <2>2, <3>2
  <2>3. QED
    BY <2>2
<1>2. \A k \in 1..n, x \in Confirming : G(k, x) \in Confirming
  BY PromoteEntryStays
<1>3. start \in Confirming
  <2>1. start \in PromotionStates
    BY DEF TypeOK, PromotionStates, Stores
  <2>2. /\ start.utxos = utxos /\ start.registry = registry
    OBVIOUS
  <2>3. Holds(utxos) /\ (RegistryMatchesStore => Consistent(utxos, registry))
    BY DEF Holds, Used, RegistryMatchesStore
  <2>4. \A p \in DOMAIN Loaded : utxos[registry[p].id] = Loaded[p]
    BY DEF Loaded
  <2> HIDE DEF start
  <2>5. QED
    BY <2>1, <2>2, <2>3, <2>4 DEF Confirming
<1>4. PromoteLoaded(txid) = loop[n]
  BY DEF PromoteLoaded
<1>5. loop = [k \in 0..n |-> IF k = 0 THEN start ELSE G(k, loop[k - 1])]
  <2>1. g \in Iterations(n, Confirming)
    <3> HIDE DEF n, G
    <3>1. QED
      BY <1>2 DEF Iterations
  <2>2. PICK f : f \in Runs(n, Confirming, start, g)
    <3> HIDE DEF g, n, start
    <3>1. QED
      BY <1>1, <1>3, <2>1, RunExists
  <2>3. f = [k \in 0..n |-> IF k = 0 THEN start ELSE G(k, f[k - 1])]
    <3> HIDE DEF n, start, G
    <3>1. /\ f \in [0..n -> Confirming] /\ f[0] = start
          /\ \A k \in 1..n : f[k] = g[<<k, f[k - 1]>>]
      BY <2>2 DEF Runs
    <3>2. ASSUME NEW k \in 1..n
          PROVE  f[k] = G(k, f[k - 1])
      <4>1. f[k - 1] \in Confirming
        BY <1>1, <3>1
      <4>2. QED
        BY <4>1, <3>1
    <3> HIDE DEF g
    <3>3. \A k \in 0..n : k # 0 => k \in 1..n
      BY <1>1
    <3>4. QED
      BY <3>1, <3>2, <3>3
  <2> HIDE DEF n
  <2>4. QED
    BY <2>3
<1> HIDE DEF loop, n, start, G
<1>6. loop[0] = start /\ \A k \in 1..n : loop[k] = G(k, loop[k - 1])
  BY <1>1, <1>5
<1>7. loop[0] \in Confirming
      /\ \A k \in 1..n : loop[k - 1] \in Confirming => loop[k] \in Confirming
  BY <1>2, <1>3, <1>6
<1>8. \A k \in 0..n : loop[k] \in Confirming
  BY <1>1, <1>7, StaysIn
<1>9. PromoteLoaded(txid) \in Confirming
  BY <1>1, <1>4, <1>8
<1>10. QED
  BY <1>9 DEF Confirming

\* Slots in use that hold what they held, or hold nothing, are kept.
LEMMA HoldsKept ==
    ASSUME Holds(utxos')
    PROVE  Kept
BY DEF Holds, Kept

\* A call of map begins, at rest or from the router.
LEMMA BeginMapTypes ==
    ASSUME SwapTypes, NEW txid \in TxIds, NEW instrs \in MapInputs, NEW sender \in Accounts,
           BeginMap(txid, instrs, sender)
    PROVE  SwapTypes' /\ Kept
<1> DEFINE st == PromoteLoaded(txid)
           forgotten == txid \in SpendIds /\ spends[txid] # NoTx /\ ~st.full
           list == IF forgotten THEN SwapRemove(spendsList, txid) ELSE spendsList
           next == [nextId EXCEPT !.confirmed = st.next]
           frame == [txid |-> txid, instrs |-> instrs, sender |-> sender,
                     index |-> 0, waiting |-> FALSE, total |-> 0,
                     registry |-> st.registry, nextId |-> next,
                     spendsList |-> list, supply |-> supply]
<1>1. /\ utxos' = st.utxos
      /\ spends' = IF forgotten THEN [spends EXCEPT ![txid] = NoTx] ELSE spends
      /\ frames' = Append(frames, frame)
      /\ Known(txid)
      /\ UNCHANGED <<registry, nextId, spendsList, supply, balances, observed, spendTx>>
  BY DEF BeginMap
<1>2. st \in PromotionStates /\ Holds(st.utxos)
  BY PromotesLoaded DEF SwapTypes
<1>3. TypeOK /\ frames \in Seq(Frame) /\ \A i \in DOMAIN frames : Known(frames[i].txid)
  BY DEF SwapTypes, FramesOK
<1> HIDE DEF st, forgotten
<1>4. TypeOK'
  BY <1>1, <1>2, <1>3 DEF TypeOK, PromotionStates, Stores
<1>5. list \in Seq(SpendIds)
  BY <1>3, SwapRemoveType DEF TypeOK
<1>6. next \in [confirmed : ConfirmedPool, unconfirmed : UnconfirmedPool]
  BY <1>2, <1>3 DEF TypeOK, PromotionStates
<1>7. st.registry \in Seq(Entry) /\ instrs \in SUBSET Instructions
  BY <1>2, BtcMappingAssumption DEF PromotionStates
<1> HIDE DEF list, next
<1>8. frame \in Frame /\ frame.txid = txid
  BY <1>3, <1>5, <1>6, <1>7 DEF Frame, TypeOK
<1> HIDE DEF frame
<1>9. /\ frames' \in Seq(Frame)
      /\ \A i \in DOMAIN frames' : Known(frames'[i].txid)
  BY <1>1, <1>3, <1>8
<1>10. (\A i \in DOMAIN frames : Known(frames[i].txid))'
  BY <1>1, <1>9 DEF Known
<1>11. QED
  BY <1>1, <1>2, <1>4, <1>9, <1>10, HoldsKept DEF SwapTypes, FramesOK

\* The state in which MapOutput takes the output that is next, and what its
\* iteration of the loop makes of it.
Before == [utxos |-> utxos, registry |-> Top.registry, next |-> Top.nextId.confirmed,
           observed |-> observed, balances |-> balances, total |-> Top.total,
           aborted |-> FALSE]
After == ProcessOutput(Before, Top.txid, Top.index, Top.instrs, Top.sender, FALSE)

\* One output of the innermost call, which starts from the slots as they
\* are and from the registry in its memory.
LEMMA MapOutputFacts ==
    ASSUME SwapTypes, MapOutput
    PROVE  /\ Before \in ArrivalStates /\ After \in ArrivalStates
           /\ Consistent(utxos, Top.registry) => Consistent(After.utxos, After.registry)
           /\ Top.index + 1 \in 1..Len(Outs(Top.txid))
           /\ Top \in Frame /\ Known(Top.txid)
           /\ ~After.aborted
           /\ utxos' = After.utxos /\ observed' = After.observed
           /\ balances' = After.balances
           /\ \E f \in Frame :
                  /\ frames' = SetTop(f)
                  /\ f.txid = Top.txid /\ f.supply = Top.supply
                  /\ f.registry = After.registry /\ f.total = After.total
           /\ UNCHANGED <<registry, nextId, spends, spendsList, supply, spendTx, reentered>>
<1>1. ~AtRest /\ Top.index < Len(Outs(Top.txid))
  BY DEF MapOutput
<1>2. Top \in Frame /\ Known(Top.txid) /\ TypeOK
  BY <1>1, TopType DEF SwapTypes
<1>3. /\ Top.txid \in TxIds /\ Top.instrs \in SUBSET Instructions
      /\ Top.sender \in Accounts /\ Top.index \in Nat /\ Top.total \in Nat
      /\ Top.registry \in Seq(Entry) /\ Top.nextId.confirmed \in ConfirmedPool
      /\ Top.nextId \in [confirmed : ConfirmedPool, unconfirmed : UnconfirmedPool]
  BY <1>2 DEF Frame
<1>4. Outs(Top.txid) \in Seq(TxOut)
  BY <1>2, <1>3, OutsType
<1>5. Top.index + 1 \in 1..Len(Outs(Top.txid)) /\ (Top.index + 1) - 1 = Top.index
  BY <1>1, <1>3, <1>4
<1>6. /\ Before \in ArrivalStates
      /\ Before.utxos = utxos /\ Before.registry = Top.registry
  BY <1>2, <1>3 DEF Before, ArrivalStates, TypeOK, Stores
<1>7. /\ After \in ArrivalStates
      /\ Consistent(utxos, Top.registry) => Consistent(After.utxos, After.registry)
  <2> DEFINE R == ProcessOutput(Before, Top.txid, (Top.index + 1) - 1, Top.instrs,
                                Top.sender, FALSE)
  <2>1. /\ R \in ArrivalStates
        /\ Consistent(Before.utxos, Before.registry) => Consistent(R.utxos, R.registry)
    BY <1>2, <1>3, <1>5, <1>6, ProcessOutputTypes
  <2>2. R = After
    BY <1>5 DEF After
  <2> HIDE DEF R
  <2>3. QED
    BY <1>6, <2>1, <2>2
<1> DEFINE f == [Top EXCEPT
              !.registry = After.registry,
              !.nextId.confirmed = After.next,
              !.total = After.total,
              !.index = @ + 1,
              !.waiting = /\ ~Passed(Before, Top.txid, Top.index, Top.instrs)
                          /\ Kind[Outs(Top.txid)[Top.index + 1].addr] = "swap"]
<1>8. /\ ~After.aborted
      /\ utxos' = After.utxos /\ observed' = After.observed
      /\ balances' = After.balances
      /\ frames' = SetTop(f)
      /\ UNCHANGED <<registry, nextId, spends, spendsList, supply, spendTx, reentered>>
  BY DEF MapOutput, After, Before
<1>9. /\ f \in Frame /\ f.txid = Top.txid /\ f.supply = Top.supply
      /\ f.registry = After.registry /\ f.total = After.total
  <2> DEFINE w == /\ ~Passed(Before, Top.txid, Top.index, Top.instrs)
                  /\ Kind[Outs(Top.txid)[Top.index + 1].addr] = "swap"
             next == [Top.nextId EXCEPT !.confirmed = After.next]
  <2>1. w \in BOOLEAN
    OBVIOUS
  <2>2. /\ After.registry \in Seq(Entry) /\ After.next \in ConfirmedPool
        /\ After.total \in Nat
    BY <1>7 DEF ArrivalStates
  <2>3. next \in [confirmed : ConfirmedPool, unconfirmed : UnconfirmedPool]
    BY <1>3, <2>2
  <2>4. f = [Top EXCEPT !.registry = After.registry, !.nextId = next,
                        !.total = After.total, !.index = @ + 1, !.waiting = w]
    BY <1>2 DEF Frame
  <2> DEFINE reg == After.registry
             sum == After.total
             index == Top.index + 1
             top == Top
             g == [top EXCEPT !.registry = reg, !.nextId = next, !.total = sum,
                              !.index = index, !.waiting = w]
  <2>5. top \in Frame /\ index \in Nat /\ reg \in Seq(Entry) /\ sum \in Nat
    BY <1>2, <1>3, <2>2
  <2>6. f = g
    BY <2>4
  <2> HIDE DEF w, next, f, reg, sum, index, top
  <2>7. /\ g \in Frame /\ g.txid = top.txid /\ g.supply = top.supply
        /\ g.registry = reg /\ g.total = sum
    BY <2>1, <2>3, <2>5 DEF Frame
  <2> HIDE DEF g
  <2>8. QED
    BY <2>6, <2>7 DEF reg, sum, top
<1> HIDE DEF f
<1>10. QED
  BY <1>2, <1>5, <1>6, <1>7, <1>8, <1>9

\* The output overwrites nothing, and is passed over or else observed,
\* credited and counted.
LEMMA ProcessOutputHolds ==
    ASSUME SwapTypes, MapOutput
    PROVE  /\ Holds(utxos')
           /\ \/ /\ observed' = observed
                 /\ balances' = balances /\ After.total = Top.total
              \/ LET point == <<Top.txid, Top.index>>
                     out == Outs(Top.txid)[Top.index + 1]
                 IN  /\ point \in TxIds \X Nat /\ Known(Top.txid)
                     /\ point \notin observed /\ observed' = observed \cup {point}
                     /\ out.addr \in Instructions /\ out.amount \in Nat
                     /\ Top.index + 1 \in DOMAIN Outs(Top.txid)
                     /\ balances' = Credited(balances, out.addr, Top.sender,
                                             out.amount, FALSE)
                     /\ After.total = Top.total + out.amount
<1> DEFINE k == Top.index + 1
           out == Outs(Top.txid)[k]
           R == ProcessOutput(Before, Top.txid, k - 1, Top.instrs, Top.sender, FALSE)
<1>1. /\ Before \in ArrivalStates /\ k \in 1..Len(Outs(Top.txid))
      /\ Top \in Frame /\ Known(Top.txid)
      /\ utxos' = After.utxos /\ observed' = After.observed
      /\ balances' = After.balances
  BY MapOutputFacts
<1>2. /\ Top.txid \in TxIds /\ Top.instrs \in SUBSET Instructions
      /\ Top.sender \in Accounts /\ Top.index \in Nat /\ k - 1 = Top.index
  BY <1>1 DEF Frame
<1>3. R = After
  BY <1>2 DEF After
<1>4. /\ Before.utxos = utxos /\ Before.observed = observed
      /\ Before.balances = balances /\ Before.total = Top.total
  BY DEF Before
<1>5. \/ /\ R.utxos = Before.utxos /\ R.observed = Before.observed
         /\ R.balances = Before.balances /\ R.total = Before.total
      \/ /\ R.balances = Credited(Before.balances, out.addr, Top.sender, out.amount, FALSE)
         /\ \E new \in Slots : \E u \in Utxo :
                Takes(Before, R, Top.txid, k, out, new, u)
  BY <1>1, <1>2, ProcessOutputSteps DEF SwapTypes
<1>6. utxos \in Stores /\ Holds(utxos)
  BY DEF SwapTypes, TypeOK, Stores, Holds, Used
<1>7. Outs(Top.txid) \in Seq(TxOut)
  BY <1>1, <1>2, OutsType DEF SwapTypes
<1>8. k \in DOMAIN Outs(Top.txid)
  BY <1>1, <1>7
<1> HIDE DEF R, k
<1>9. CASE /\ R.utxos = Before.utxos /\ R.observed = Before.observed
           /\ R.balances = Before.balances /\ R.total = Before.total
  BY <1>1, <1>3, <1>4, <1>6, <1>9
<1>10. CASE /\ R.balances = Credited(Before.balances, out.addr, Top.sender, out.amount, FALSE)
            /\ \E new \in Slots : \E u \in Utxo :
                   Takes(Before, R, Top.txid, k, out, new, u)
  <2>1. PICK new \in Slots, u \in Utxo : Takes(Before, R, Top.txid, k, out, new, u)
    BY <1>10
  <2>2. /\ utxos[new] = NoUtxo /\ R.utxos = [utxos EXCEPT ![new] = u]
        /\ <<Top.txid, Top.index>> \notin observed
        /\ out.addr \in Instructions /\ out.amount \in Nat
        /\ R.observed = observed \cup {<<Top.txid, Top.index>>}
        /\ R.total = Top.total + out.amount
    BY <1>2, <1>4, <2>1 DEF Takes
  <2>3. Holds(R.utxos)
    BY <1>6, <2>2, HoldsAfterAdd
  <2>4. <<Top.txid, Top.index>> \in TxIds \X Nat
    BY <1>2
  <2>5. QED
    BY <1>1, <1>3, <1>4, <1>8, <1>10, <2>2, <2>3, <2>4 DEF k
<1>11. QED
  BY <1>5, <1>9, <1>10

\* The loop of map goes on.
LEMMA MapOutputTypes ==
    ASSUME SwapTypes, MapOutput
    PROVE  SwapTypes' /\ Kept
<1>1. /\ After \in ArrivalStates
      /\ utxos' = After.utxos /\ observed' = After.observed
      /\ balances' = After.balances /\ Known(Top.txid)
      /\ UNCHANGED <<registry, nextId, spends, spendsList, supply, spendTx, reentered>>
  BY MapOutputFacts
<1>2. PICK f \in Frame : frames' = SetTop(f) /\ f.txid = Top.txid
  BY MapOutputFacts
<1>3. TypeOK'
  BY <1>1 DEF SwapTypes, TypeOK, ArrivalStates, Stores
<1>4. ~AtRest
  BY DEF MapOutput
<1>5. FramesOK'
  BY <1>1, <1>2, <1>4, SetTopType
<1>6. QED
  BY <1>3, <1>5, ProcessOutputHolds, HoldsKept DEF SwapTypes

\* The router returns, and the call has in memory what it had before.
LEMMA RouterReturnsTypes ==
    ASSUME SwapTypes, RouterReturns
    PROVE  /\ SwapTypes' /\ Kept
           /\ ~AtRest /\ ~AtRest' /\ Len(frames') = Len(frames)
           /\ Top'.registry = Top.registry /\ Top'.total = Top.total
           /\ Top'.supply = Top.supply
<1> DEFINE f == [Top EXCEPT !.waiting = FALSE]
<1>1. /\ ~AtRest /\ frames' = SetTop(f) /\ UNCHANGED vars
  BY DEF RouterReturns, Waiting
<1>2. Top \in Frame /\ Known(Top.txid)
  BY <1>1, TopType
<1>3. /\ f \in Frame /\ f.txid = Top.txid /\ f.registry = Top.registry
      /\ f.total = Top.total /\ f.supply = Top.supply
  BY <1>2 DEF Frame
<1> HIDE DEF f
<1>4. /\ FramesOK' /\ Len(frames') = Len(frames) /\ ~AtRest' /\ Top' = f
  BY <1>1, <1>2, <1>3, SetTopType DEF vars
<1>5. TypeOK' /\ Holds(utxos')
  BY <1>1 DEF SwapTypes, TypeOK, vars, Holds, Used
<1>6. QED
  BY <1>1, <1>3, <1>4, <1>5, HoldsKept DEF SwapTypes

\* A call of map saves what it holds, however stale.
LEMMA EndMapTypes ==
    ASSUME SwapTypes, EndMap
    PROVE  SwapTypes' /\ Kept /\ Len(frames') = Len(frames) - 1
<1>1. /\ ~AtRest /\ registry' = Top.registry /\ nextId' = Top.nextId
      /\ spendsList' = Top.spendsList
      /\ supply' = [Top.supply EXCEPT !.active = @ + Top.total, !.user = @ + Top.total]
      /\ frames' = SubSeq(frames, 1, Len(frames) - 1)
      /\ UNCHANGED <<utxos, spends, balances, observed, spendTx, reentered>>
  BY DEF EndMap
<1>2. Top \in Frame /\ Len(frames) \in Nat \ {0}
  BY <1>1, TopType
<1>3. /\ Top.registry \in Seq(Entry) /\ Top.total \in Nat
      /\ Top.nextId \in [confirmed : ConfirmedPool, unconfirmed : UnconfirmedPool]
      /\ Top.spendsList \in Seq(SpendIds)
      /\ Top.supply \in [active : Int, user : Int, fee : Int, baseFeeRate : Nat]
  BY <1>2 DEF Frame
<1>4. supply' \in [active : Int, user : Int, fee : Int, baseFeeRate : Nat]
  <2> DEFINE sup == Top.supply
             sum == Top.total
  <2>1. /\ supply' = [sup EXCEPT !.active = @ + sum, !.user = @ + sum]
        /\ sum \in Nat
        /\ sup \in [active : Int, user : Int, fee : Int, baseFeeRate : Nat]
    BY <1>1, <1>3
  <2> HIDE DEF sup, sum
  <2>2. sup.active + sum \in Int /\ sup.user + sum \in Int
    BY <2>1
  <2>3. QED
    BY <2>1, <2>2
<1>5. TypeOK'
  BY <1>1, <1>3, <1>4 DEF SwapTypes, TypeOK
<1>6. frames \in Seq(Frame) /\ \A i \in DOMAIN frames : Known(frames[i].txid)
  BY DEF SwapTypes, FramesOK
<1>7. /\ frames' \in Seq(Frame) /\ Len(frames') = Len(frames) - 1
      /\ \A i \in DOMAIN frames' : i \in DOMAIN frames /\ frames'[i] = frames[i]
  <2> DEFINE m == Len(frames) - 1
             rest == SubSeq(frames, 1, m)
  <2>1. m \in Nat /\ m < Len(frames)
    BY <1>2
  <2> HIDE DEF m
  <2>2. Len(rest) = m /\ \A i \in 1..m : rest[i] = frames[i] /\ i \in DOMAIN frames
    BY <1>6, <2>1
  <2>3. rest \in Seq(Frame)
    BY <1>6, <2>1
  <2>4. DOMAIN rest = 1..m
    BY <2>2, <2>3
  <2>5. frames' = rest
    BY <1>1 DEF m
  <2> HIDE DEF rest
  <2>6. QED
    BY <2>2, <2>3, <2>4, <2>5 DEF m
<1>8. \A i \in DOMAIN frames' : Known(frames'[i].txid)
  BY <1>6, <1>7
<1>9. (\A i \in DOMAIN frames : Known(frames[i].txid))'
  BY <1>1, <1>8 DEF Known
<1>10. Holds(utxos')
  BY <1>1 DEF Holds, Used
<1>11. QED
  BY <1>5, <1>7, <1>9, <1>10, HoldsKept DEF SwapTypes, FramesOK

\* What a withdrawal does, whatever the registry says: it takes inputs that
\* are in slots, which it empties, and its change goes to slots that are free.
UnmapTakes(sender, txid, spend, inputIds, store) ==
    LET charge == ChargeOf(spend)
    IN  /\ spendTx[txid] = NoTx /\ UNCHANGED observed
        /\ inputIds \subseteq Used
        /\ \A s \in Used : store[s] = utxos[s]
        /\ utxos' = [s \in Slots |-> IF s \in inputIds THEN NoUtxo ELSE store[s]]
        /\ \A s \in inputIds : \E i \in DOMAIN spend.ins : spend.ins[i] = Point(s)
        /\ spend.outs # <<>> /\ spend.outs[1].amount \in Nat
        /\ \A j \in DOMAIN spend.outs : j # 1 => spend.outs[j].addr = ChangeAddress
        /\ spendTx' = [spendTx EXCEPT ![txid] = spend]
        /\ charge \in Nat /\ charge >= spend.outs[1].amount
        /\ supply'.active = supply.active - charge
        /\ supply'.user = supply.user - charge
        /\ balances[sender] >= charge
        /\ balances' = [balances EXCEPT ![sender] = @ - charge]

\* The outputs of a spend are tracked in free slots.
LEMMA TrackOutputsHold ==
    ASSUME TypeOK, NEW txid \in SpendIds, NEW outs \in Seq(TxOut)
    PROVE  \A s \in Used : TrackOutputs(txid, outs).utxos[s] = utxos[s]
<1> DEFINE Y == {x \in TrackingStates : \A s \in Used : x.utxos[s] = utxos[s]}
<1>1. TrackingStart \in Y
  BY DEF TypeOK, TrackingStates, TrackingStart, Stores
<1>2. ASSUME NEW k \in 1..Len(outs), NEW x \in Y
      PROVE  TrackOutput(x, txid, outs, k - 1) \in Y
  <2> DEFINE R == TrackOutput(x, txid, outs, k - 1)
  <2>1. x \in TrackingStates /\ \A s \in Used : x.utxos[s] = utxos[s]
    OBVIOUS
  <2>2. R \in TrackingStates
    BY <2>1, TrackOutputTypes
  <2>3. \A s \in Slots : x.utxos[s] # NoUtxo => R.utxos[s] = x.utxos[s]
    BY <2>1, TrackOutputAdds
  <2> HIDE DEF R
  <2>5. \A s \in Used : R.utxos[s] = utxos[s]
    BY <2>1, <2>3 DEF Used
  <2>6. QED
    BY <2>2, <2>5 DEF R
<1> HIDE DEF Y
<1>3. TrackOutputs(txid, outs) \in Y
  BY <1>1, <1>2, TrackOutputsKeep
<1>4. QED
  BY <1>3 DEF Y

\* The first output of a spend pays the destination, the others change.
LEMMA SpendOutsPay ==
    ASSUME NEW dest \in Addresses, NEW amount \in Nat, NEW c \in Int, NEW fee \in Nat
    PROVE  LET outs == SpendOuts(dest, amount, c, fee)
           IN  /\ outs # <<>> /\ outs[1].amount = amount
               /\ \A j \in DOMAIN outs : j # 1 => outs[j].addr = ChangeAddress
<1> DEFINE change == ChangeAmounts(c, fee)
           head == <<[addr |-> dest, amount |-> amount]>>
           tail == [k \in DOMAIN change |-> [addr |-> ChangeAddress, amount |-> change[k]]]
           outs == SpendOuts(dest, amount, c, fee)
<1>1. change \in Seq(Int)
  BY ChangeAmountsType
<1>2. outs # <<>> /\ outs[1].amount = amount
  BY ChangeComesBack
<1>3. outs = head \o tail
  BY DEF SpendOuts
<1> HIDE DEF change
<1>4. /\ DOMAIN change = 1..Len(change) /\ Len(change) \in Nat
      /\ \A k \in DOMAIN change : tail[k].addr = ChangeAddress
  BY <1>1
<1>5. /\ tail \in Seq([addr : {ChangeAddress}, amount : Int])
      /\ Len(tail) = Len(change) /\ DOMAIN tail = 1..Len(change)
  BY <1>1, <1>4
<1> HIDE DEF tail
<1>6. \A j \in DOMAIN outs : j # 1 => j - 1 \in DOMAIN tail /\ outs[j] = tail[j - 1]
  BY <1>3, <1>5
<1> HIDE DEF outs
<1>7. \A j \in DOMAIN outs : j # 1 => outs[j].addr = ChangeAddress
  BY <1>4, <1>5, <1>6
<1>8. QED
  BY <1>2, <1>7 DEF outs

\* An unmap takes all of UnmapTakes, even when the registry is stale.
LEMMA UnmapEmpties ==
    ASSUME TypeOK, NEW sender \in Accounts, NEW amount \in UnmapAmounts,
           NEW dest \in Addresses, NEW txid \in SpendIds,
           Unmap(sender, amount, dest, txid)
    PROVE  \E spend \in Spend : \E inputIds, store :
               UnmapTakes(sender, txid, spend, inputIds, store)
<1> DEFINE entries == SelectInputs(amount)
           inputs == [j \in DOMAIN entries |-> utxos[entries[j].id]]
           inputIds == {entries[j].id : j \in DOMAIN entries}
           total == PrefixSum(Amounts(entries), Len(entries))
           scripts == [j \in DOMAIN inputs |-> ScriptSize(inputs[j].tag)]
           fee == SpendFee(Len(entries), PrefixSum(scripts, Len(scripts)),
                           DestSize(dest), total - amount, supply.baseFeeRate)
           outs == SpendOuts(dest, amount, total - amount, fee)
           finalAmt == amount + VscFee(amount) + fee
           st == TrackOutputs(txid, outs)
           points == [j \in DOMAIN inputs |-> <<inputs[j].txid, inputs[j].vout>>]
           spend == [ins |-> points, outs |-> outs, fee |-> fee]
<1>1. /\ spendTx[txid] = NoTx
      /\ utxos' = [s \in Slots |-> IF s \in inputIds THEN NoUtxo ELSE st.utxos[s]]
      /\ spendTx' = [spendTx EXCEPT ![txid] = spend]
      /\ supply' = [supply EXCEPT !.active = @ - finalAmt, !.user = @ - finalAmt,
                                  !.fee = @ + VscFee(amount)]
      /\ balances[sender] >= finalAmt
      /\ balances' = [balances EXCEPT ![sender] = @ - finalAmt]
      /\ UNCHANGED observed
  BY DEF Unmap
<1>2. /\ entries \in Seq(Entry)
      /\ \A j \in DOMAIN entries : utxos[entries[j].id] \in Utxo
      /\ points \in Seq(TxIds \X Nat) /\ outs \in Seq(TxOut)
  BY UnmapParts
<1>3. total \in Int /\ fee \in Nat
  BY UnmapFee
<1>4. amount \in Nat /\ VscFee(amount) \in Nat
  BY VscFeeCoversDust, BtcMappingAssumption
<1>5. supply \in [active : Int, user : Int, fee : Int, baseFeeRate : Nat]
  BY DEF TypeOK
<1> HIDE DEF entries
<1>6. \A j \in DOMAIN entries : entries[j] \in Entry
  BY <1>2
<1>7. inputIds \subseteq Used
  BY <1>2, <1>6, BtcMappingAssumption DEF Used, Entry
<1>8. \A s \in inputIds : \E i \in DOMAIN spend.ins : spend.ins[i] = Point(s)
  BY DEF Point
<1> HIDE DEF total, fee, inputs, inputIds
<1>9. /\ outs # <<>> /\ outs[1].amount = amount
      /\ \A j \in DOMAIN outs : j # 1 => outs[j].addr = ChangeAddress
  <2> DEFINE c == total - amount
  <2>1. c \in Int
    BY <1>3, <1>4
  <2> HIDE DEF c
  <2>2. LET o == SpendOuts(dest, amount, c, fee)
        IN  /\ o # <<>> /\ o[1].amount = amount
            /\ \A j \in DOMAIN o : j # 1 => o[j].addr = ChangeAddress
    BY <1>3, <1>4, <2>1, SpendOutsPay
  <2>3. QED
    BY <2>2 DEF c
<1> HIDE DEF outs, points
<1>10. \A s \in Used : st.utxos[s] = utxos[s]
  BY <1>2, TrackOutputsHold
<1> HIDE DEF st
<1>11. /\ finalAmt \in Nat /\ finalAmt >= amount
       /\ ChargeOf(spend) = finalAmt /\ spend.outs = outs
  BY <1>3, <1>4, <1>9 DEF ChargeOf
<1>12. spend \in Spend
  BY <1>2, <1>3 DEF Spend
<1>13. supply'.active = supply.active - finalAmt /\ supply'.user = supply.user - finalAmt
  BY <1>1, <1>5
<1> DEFINE store == st.utxos
<1>14. /\ utxos' = [s \in Slots |-> IF s \in inputIds THEN NoUtxo ELSE store[s]]
       /\ \A s \in Used : store[s] = utxos[s]
  BY <1>1, <1>10
<1> HIDE DEF spend, finalAmt, store
<1>15. UnmapTakes(sender, txid, spend, inputIds, store)
  BY <1>1, <1>4, <1>7, <1>8, <1>9, <1>11, <1>13, <1>14 DEF UnmapTakes
<1>16. QED
  BY <1>12, <1>15

\* An unmap, at rest or from the router.
LEMMA UnmapKept ==
    ASSUME SwapTypes, NEW sender \in Accounts, NEW amount \in UnmapAmounts,
           NEW dest \in Addresses, NEW txid \in SpendIds,
           Unmap(sender, amount, dest, txid), UNCHANGED frames
    PROVE  SwapTypes' /\ Kept
<1>1. PICK spend, inputIds, store :
          spend \in Spend /\ UnmapTakes(sender, txid, spend, inputIds, store)
  BY UnmapEmpties DEF SwapTypes
<1>2. TypeOK'
  BY UnmapTypes DEF SwapTypes
<1>3. /\ spendTx' = [spendTx EXCEPT ![txid] = spend] /\ spendTx[txid] = NoTx
      /\ spendTx'[txid] = spend /\ spend # NoTx
  BY <1>1, BtcMappingAssumption DEF UnmapTakes, SwapTypes, TypeOK
<1>4. \A t : Known(t) => Known(t)'
  BY <1>3 DEF Known, SwapTypes, TypeOK
<1>5. FramesOK'
  BY <1>4, SameFrames DEF SwapTypes
<1>6. txid \in Made'
  BY <1>3 DEF Made
<1>7. SUFFICES ASSUME NEW s \in Used
               PROVE  \/ \E t \in Slots : utxos'[t] = utxos[s]
                      \/ \E t \in Made' : \E i \in DOMAIN spendTx'[t].ins :
                             spendTx'[t].ins[i] = Point(s)
  BY <1>2, <1>5 DEF Kept, SwapTypes
<1>8. CASE s \in inputIds
  <2>1. \E i \in DOMAIN spend.ins : spend.ins[i] = Point(s)
    BY <1>1, <1>8 DEF UnmapTakes
  <2>2. QED
    BY <1>3, <1>6, <2>1
<1>9. CASE s \notin inputIds
  <2>1. s \in Slots /\ store[s] = utxos[s]
    BY <1>1 DEF UnmapTakes, Used
  <2>2. utxos'[s] = utxos[s]
    BY <1>1, <1>9, <2>1 DEF UnmapTakes
  <2>3. QED
    BY <2>1, <2>2
<1>10. QED
  BY <1>8, <1>9

\* A step that leaves the slots and the spends alone, and the calls under way.
LEMMA SameSlots ==
    ASSUME SwapTypes, TypeOK', UNCHANGED <<utxos, spendTx, frames>>
    PROVE  SwapTypes' /\ Kept
<1>1. Holds(utxos')
  BY DEF Holds, Used
<1>2. \A t : Known(t) => Known(t)'
  BY DEF Known
<1>3. QED
  BY <1>1, <1>2, HoldsKept, SameFrames DEF SwapTypes

\* A transfer, at rest or a draw of the router.
LEMMA TransferKept ==
    ASSUME SwapTypes, NEW from \in Accounts, NEW to \in Accounts,
           NEW amount \in TransferAmounts, Transfer(from, to, amount), UNCHANGED frames
    PROVE  SwapTypes' /\ Kept
<1>1. TypeOK'
  BY TransferTypes DEF SwapTypes
<1>2. QED
  BY <1>1, SameSlots DEF Transfer

\* Nothing runs at first.
LEMMA SwapInitTypes == SwapInit => SwapTypes
<1> SUFFICES ASSUME SwapInit PROVE SwapTypes
  OBVIOUS
<1>1. IInv
  BY InitHolds DEF SwapInit
<1>2. FramesOK
  BY DEF SwapInit, FramesOK
<1>3. QED
  BY <1>1, <1>2 DEF IInv, SwapTypes

\* Every step keeps the types and loses no output.
LEMMA SwapNextKept == SwapTypes /\ [SwapNext]_swapVars => SwapTypes' /\ [Kept]_vars
<1> SUFFICES ASSUME SwapTypes, [SwapNext]_swapVars PROVE SwapTypes' /\ [Kept]_vars
  OBVIOUS
<1>1. CASE CallsAtRest
  <2>1. ASSUME NEW txid \in TxIds, NEW instrs \in MapInputs, NEW sender \in Accounts,
               BeginMap(txid, instrs, sender)
        PROVE  SwapTypes' /\ Kept
    BY <2>1, BeginMapTypes
  <2>2. ASSUME NEW sender \in Accounts, NEW amount \in UnmapAmounts,
               NEW dest \in Addresses, NEW txid \in SpendIds,
               Unmap(sender, amount, dest, txid), UNCHANGED frames
        PROVE  SwapTypes' /\ Kept
    BY <2>2, UnmapKept
  <2>3. ASSUME NEW from \in Accounts, NEW to \in Accounts,
               NEW amount \in TransferAmounts, Transfer(from, to, amount),
               UNCHANGED frames
        PROVE  SwapTypes' /\ Kept
    BY <2>3, TransferKept
  <2>4. ASSUME NEW rate \in FeeRates, AddBlocks(rate), UNCHANGED frames
        PROVE  SwapTypes' /\ Kept
    <3>1. TypeOK'
      BY <2>4, AddBlocksTypes DEF SwapTypes
    <3>2. QED
      BY <2>4, <3>1, SameSlots DEF AddBlocks
  <2>5. QED
    BY <1>1, <2>1, <2>2, <2>3, <2>4 DEF CallsAtRest
<1>2. CASE MapOutput
  BY <1>2, MapOutputTypes
<1>3. CASE RouterReturns
  BY <1>3, RouterReturnsTypes
<1>4. CASE EndMap
  BY <1>4, EndMapTypes
<1>5. ASSUME ~AtRest PROVE Top.sender \in Accounts
  BY <1>5, TopType DEF Frame
<1>6. ASSUME NEW amount \in TransferAmounts, RouterDraws(amount)
      PROVE  SwapTypes' /\ Kept
  <2>1. /\ ~AtRest /\ Transfer(Top.sender, Router, amount) /\ UNCHANGED frames
    BY <1>6 DEF RouterDraws, Waiting
  <2>2. Top.sender \in Accounts /\ Router \in Accounts
    BY <1>5, <2>1, BtcMappingAssumption
  <2>3. QED
    BY <2>1, <2>2, TransferKept
<1>7. ASSUME NEW amount \in UnmapAmounts, NEW dest \in Addresses, NEW txid \in SpendIds,
             RouterUnmaps(amount, dest, txid)
      PROVE  SwapTypes' /\ Kept
  <2>1. /\ ~AtRest /\ Unmap(Top.sender, amount, dest, txid) /\ UNCHANGED frames
    BY <1>7 DEF RouterUnmaps, Waiting
  <2>2. Top.sender \in Accounts
    BY <1>5, <2>1
  <2>3. QED
    BY <2>1, <2>2, UnmapKept
<1>8. ASSUME NEW txid \in TxIds, NEW instrs \in MapInputs, RouterMaps(txid, instrs)
      PROVE  SwapTypes' /\ Kept
  <2>1. /\ ~AtRest /\ BeginMap(txid, instrs, Top.sender)
    BY <1>8 DEF RouterMaps, Waiting
  <2>2. Top.sender \in Accounts
    BY <1>5, <2>1
  <2>3. QED
    BY <2>1, <2>2, BeginMapTypes
<1>9. CASE UNCHANGED swapVars
  <2>1. UNCHANGED vars /\ UNCHANGED frames
    BY <1>9 DEF swapVars
  <2>2. TypeOK'
    BY <2>1 DEF SwapTypes, TypeOK, vars
  <2>3. QED
    BY <2>1, <2>2, SameSlots DEF vars
<1>10. QED
  BY <1>1, <1>2, <1>3, <1>4, <1>6, <1>7, <1>8, <1>9 DEF SwapNext

\* The types hold at every moment of every call.
LEMMA SwapTypesHold == SwapSpec => []SwapTypes
<1>1. SwapTypes /\ [SwapNext]_swapVars => SwapTypes'
  BY SwapNextKept
<1>2. QED
  BY <1>1, SwapInitTypes, PTL DEF SwapSpec

\* A map that waits for the router writes slots chosen from what it sees when
\* it goes on: whatever the router called in the meantime, withdrawals and
\* other maps included, no output that is tracked is overwritten, though the
\* registry that the call saves at its end may not know of it.
THEOREM OutputsKeptByReentry == SwapSpec => OutputsNeverLost
<1>1. SwapTypes /\ [SwapNext]_swapVars => [Kept]_vars
  BY SwapNextKept
<1>2. QED
  BY <1>1, SwapTypesHold, PTL DEF SwapSpec, OutputsNeverLost, Kept

----------------------------------------------------------------------------
\* As long as the router only draws, one call is under way at most, and what
\* it holds in memory agrees with the slots and the balances.

AgreeInv ==
    ~reentered =>
        /\ Len(frames) <= 1
        /\ AtRest => RegistryMatchesStore /\ SupplyIsBalances
        /\ ~AtRest =>
               /\ Consistent(utxos, Top.registry)
               /\ Top.supply.active = Top.supply.user
               /\ \/ SumFunction(balances) = Top.supply.user + Top.total
                  \/ Top.supply.user + Top.total > MaxInt64

\* A first call loads what agrees; one from the router is one too many
\* for AgreeInv to say anything.
LEMMA BeginMapAgrees ==
    ASSUME SwapTypes, AgreeInv, NEW txid, NEW instrs, NEW sender,
           BeginMap(txid, instrs, sender)
    PROVE  AgreeInv'
<1> DEFINE st == PromoteLoaded(txid)
           forgotten == txid \in SpendIds /\ spends[txid] # NoTx /\ ~st.full
           frame == [txid |-> txid, instrs |-> instrs, sender |-> sender,
                     index |-> 0, waiting |-> FALSE, total |-> 0,
                     registry |-> st.registry,
                     nextId |-> [nextId EXCEPT !.confirmed = st.next],
                     spendsList |-> IF forgotten THEN SwapRemove(spendsList, txid)
                                    ELSE spendsList,
                     supply |-> supply]
<1>1. /\ utxos' = st.utxos /\ frames' = Append(frames, frame)
      /\ reentered' = (reentered \/ ~AtRest)
      /\ UNCHANGED <<supply, balances>>
  BY DEF BeginMap
<1>2. SUFFICES ASSUME ~reentered, AtRest PROVE AgreeInv'
  BY <1>1 DEF AgreeInv
<1>3. RegistryMatchesStore /\ SupplyIsBalances
  BY <1>2 DEF AgreeInv
<1>4. Consistent(st.utxos, st.registry)
  BY <1>3, PromotesLoaded DEF SwapTypes
<1>5. /\ frame.registry = st.registry /\ frame.total = 0 /\ frame.supply = supply
  OBVIOUS
<1> HIDE DEF st, frame
<1>6. Len(frames') = 1 /\ frames'[1] = frame /\ frames' # <<>>
  BY <1>1, <1>2 DEF AtRest
<1>7. Top' = frame /\ ~AtRest'
  BY <1>6 DEF Top, AtRest
<1>8. SumFunction(balances) \in Nat /\ supply.user = SumFunction(balances)
      /\ supply.active = SumFunction(balances)
  BY <1>3, BalancesSum DEF SupplyIsBalances, SwapTypes, TypeOK
<1>9. Consistent(utxos', Top'.registry)
  BY <1>1, <1>4, <1>5, <1>7
<1>10. /\ Top'.supply.active = Top'.supply.user
       /\ SumFunction(balances') = Top'.supply.user + Top'.total
  BY <1>1, <1>5, <1>7, <1>8
<1>11. QED
  BY <1>6, <1>7, <1>9, <1>10 DEF AgreeInv, Consistent

\* What the output adds to the balances it adds to the total, unless the
\* total is already more than the supply can take.
LEMMA MapOutputAgrees ==
    ASSUME SwapTypes, AgreeInv, MapOutput
    PROVE  AgreeInv'
<1>1. /\ ~AtRest /\ UNCHANGED <<spendTx, reentered>> /\ utxos' = After.utxos
      /\ Top \in Frame /\ Known(Top.txid)
      /\ Consistent(utxos, Top.registry) => Consistent(After.utxos, After.registry)
  BY MapOutputFacts DEF MapOutput
<1>2. PICK f \in Frame :
               /\ frames' = SetTop(f)
               /\ f.txid = Top.txid /\ f.supply = Top.supply
               /\ f.registry = After.registry /\ f.total = After.total
  BY MapOutputFacts
<1>3. Len(frames') = Len(frames) /\ ~AtRest' /\ Top' = f
  BY <1>1, <1>2, SetTopType
<1>4. SUFFICES ASSUME ~reentered PROVE AgreeInv'
  BY <1>1 DEF AgreeInv
<1>5. /\ Len(frames) <= 1 /\ Consistent(utxos, Top.registry)
      /\ Top.supply.active = Top.supply.user
      /\ \/ SumFunction(balances) = Top.supply.user + Top.total
         \/ Top.supply.user + Top.total > MaxInt64
  BY <1>1, <1>4 DEF AgreeInv
<1>6. Consistent(utxos', Top'.registry)
  BY <1>1, <1>2, <1>3, <1>5
<1>7. \/ SumFunction(balances') = Top'.supply.user + Top'.total
      \/ Top'.supply.user + Top'.total > MaxInt64
  <2> DEFINE user == Top.supply.user
             total == Top.total
             total2 == After.total
             sum == SumFunction(balances)
             sum2 == SumFunction(balances')
             out == Outs(Top.txid)[Top.index + 1]
             m == out.amount
  <2>1. user \in Int /\ total \in Nat /\ Top.sender \in Accounts
    BY <1>1 DEF Frame
  <2>2. balances \in [Accounts -> Nat] /\ sum \in Nat /\ MaxInt64 \in Nat
    BY BalancesSum, BtcMappingAssumption DEF SwapTypes, TypeOK
  <2>3. sum = user + total \/ user + total > MaxInt64
    BY <1>5
  <2>4. \/ sum2 = sum /\ total2 = total
        \/ /\ m \in Nat /\ total2 = total + m
           /\ sum2 = sum + m \/ sum + m > MaxInt64
    <3>1. CASE balances' = balances /\ After.total = Top.total
      BY <3>1
    <3>2. CASE /\ out.addr \in Instructions /\ out.amount \in Nat
               /\ balances' = Credited(balances, out.addr, Top.sender, out.amount, FALSE)
               /\ After.total = Top.total + out.amount
      <4>1. SumFunction(Credited(balances, out.addr, Top.sender, m, FALSE)) = sum + m
            \/ sum + m > MaxInt64
        <5> HIDE DEF out
        <5>1. QED
          BY <2>1, <2>2, <3>2, CreditedSum
      <4>2. QED
        BY <3>2, <4>1
    <3>3. QED
      BY <3>1, <3>2, ProcessOutputHolds
  <2>5. Top'.supply.user = user /\ Top'.total = total2
    BY <1>2, <1>3
  <2> HIDE DEF user, total, total2, sum, sum2, m
  <2>6. sum2 = user + total2 \/ user + total2 > MaxInt64
    <3>1. CASE sum2 = sum /\ total2 = total
      BY <2>3, <3>1
    <3>2. CASE /\ m \in Nat /\ total2 = total + m /\ sum = user + total
               /\ sum2 = sum + m \/ sum + m > MaxInt64
      BY <2>1, <2>2, <3>2
    <3>3. CASE m \in Nat /\ total2 = total + m /\ user + total > MaxInt64
      BY <2>1, <2>2, <3>3
    <3>4. QED
      BY <2>3, <2>4, <3>1, <3>2, <3>3
  <2>7. QED
    BY <2>5, <2>6 DEF sum2
<1>8. Top'.supply.active = Top'.supply.user
  BY <1>2, <1>3, <1>5
<1>9. QED
  BY <1>3, <1>5, <1>6, <1>7, <1>8 DEF AgreeInv, Consistent

\* The call goes on with what it had.
LEMMA RouterReturnsAgrees ==
    ASSUME SwapTypes, AgreeInv, RouterReturns
    PROVE  AgreeInv'
<1>1. /\ ~AtRest /\ ~AtRest' /\ Len(frames') = Len(frames)
      /\ Top'.registry = Top.registry /\ Top'.total = Top.total
      /\ Top'.supply = Top.supply
  BY RouterReturnsTypes
<1>2. utxos' = utxos /\ balances' = balances /\ reentered' = reentered
  BY DEF RouterReturns, vars
<1>3. QED
  BY <1>1, <1>2 DEF AgreeInv, Consistent

\* A call that ends saves what agrees; one whose total is more than the
\* supply can take does not end.
LEMMA EndMapAgrees ==
    ASSUME SwapTypes, AgreeInv, EndMap
    PROVE  AgreeInv'
<1>1. /\ ~AtRest /\ registry' = Top.registry
      /\ Top.supply.user + Top.total <= MaxInt64
      /\ supply' = [Top.supply EXCEPT !.active = @ + Top.total, !.user = @ + Top.total]
      /\ UNCHANGED <<utxos, balances, reentered>>
  BY DEF EndMap
<1>2. Top \in Frame /\ Len(frames) \in Nat \ {0}
  BY <1>1, TopType
<1>3. SUFFICES ASSUME ~reentered PROVE AgreeInv'
  BY <1>1 DEF AgreeInv
<1>4. /\ Len(frames) <= 1 /\ Consistent(utxos, Top.registry)
      /\ Top.supply.active = Top.supply.user
      /\ \/ SumFunction(balances) = Top.supply.user + Top.total
         \/ Top.supply.user + Top.total > MaxInt64
  BY <1>1, <1>3 DEF AgreeInv
<1>5. frames' \in Seq(Frame) /\ Len(frames') = 0
  <2>1. FramesOK' /\ Len(frames') = Len(frames) - 1
    BY EndMapTypes DEF SwapTypes
  <2>2. QED
    BY <1>2, <1>4, <2>1 DEF FramesOK
<1>6. AtRest'
  BY <1>5 DEF AtRest
<1>7. SumFunction(balances) = Top.supply.user + Top.total
  <2> DEFINE user == Top.supply.user
             total == Top.total
  <2>1. user \in Int /\ total \in Nat /\ MaxInt64 \in Nat
    BY <1>2, BtcMappingAssumption DEF Frame
  <2>2. user + total <= MaxInt64 /\ (SumFunction(balances) = user + total
                                     \/ user + total > MaxInt64)
    BY <1>1, <1>4
  <2> HIDE DEF user, total
  <2>3. SumFunction(balances) = user + total
    BY <2>1, <2>2
  <2>4. QED
    BY <2>3 DEF user, total
<1>8. supply'.active = SumFunction(balances') /\ supply'.user = SumFunction(balances')
  <2>1. Top.supply \in [active : Int, user : Int, fee : Int, baseFeeRate : Nat]
    BY <1>2 DEF Frame
  <2>2. QED
    BY <1>1, <1>4, <1>7, <2>1
<1>9. Consistent(utxos', registry')
  BY <1>1, <1>4
<1>10. QED
  BY <1>5, <1>6, <1>8, <1>9 DEF AgreeInv, RegistryMatchesStore, SupplyIsBalances, Consistent

\* An unmap at rest takes the same from supply and balances.
LEMMA UnmapSupply ==
    ASSUME TypeOK, SupplyIsBalances, NEW sender \in Accounts, NEW amount \in UnmapAmounts,
           NEW dest \in Addresses, NEW txid \in SpendIds,
           Unmap(sender, amount, dest, txid)
    PROVE  SupplyIsBalances'
<1>1. PICK spend, inputIds, store :
          spend \in Spend /\ UnmapTakes(sender, txid, spend, inputIds, store)
  BY UnmapEmpties
<1> DEFINE charge == ChargeOf(spend)
<1>2. /\ charge \in Nat /\ balances[sender] >= charge
      /\ supply'.active = supply.active - charge
      /\ supply'.user = supply.user - charge
      /\ balances' = [balances EXCEPT ![sender] = @ - charge]
  BY <1>1 DEF UnmapTakes
<1>3. balances \in [Accounts -> Nat] /\ SumFunction(balances) \in Nat
      /\ balances[sender] \in Nat
  BY BalancesSum DEF TypeOK
<1> HIDE DEF charge
<1>4. /\ balances' \in [Accounts -> Nat] /\ balances'[sender] = balances[sender] - charge
      /\ \A b \in Accounts : b # sender => balances'[b] = balances[b]
  BY <1>2, <1>3
<1>5. SumFunction(balances') = SumFunction(balances) - balances[sender] + balances'[sender]
  BY <1>3, <1>4, BalanceChanged
<1>6. SumFunction(balances') = SumFunction(balances) - charge
  BY <1>2, <1>3, <1>4, <1>5
<1>7. QED
  BY <1>2, <1>6 DEF SupplyIsBalances

\* Nothing is held at first.
LEMMA SwapInitAgrees == SwapInit => AgreeInv
<1> SUFFICES ASSUME SwapInit PROVE AgreeInv
  OBVIOUS
<1>1. Init /\ frames = <<>>
  BY DEF SwapInit
<1>2. RegistryMatchesStore /\ SupplyIsBalances
  BY <1>1, InitHolds, LedgerInit DEF IInv, LedgerInv
<1>3. QED
  BY <1>1, <1>2 DEF AgreeInv, AtRest

\* AgreeInv is inductive, given the types.
LEMMA SwapNextAgrees ==
    SwapTypes /\ AgreeInv /\ [SwapNext]_swapVars => AgreeInv'
<1> SUFFICES ASSUME SwapTypes, AgreeInv, [SwapNext]_swapVars PROVE AgreeInv'
  OBVIOUS
<1>1. CASE CallsAtRest
  <2>1. ASSUME NEW txid \in TxIds, NEW instrs \in MapInputs, NEW sender \in Accounts,
               BeginMap(txid, instrs, sender)
        PROVE  AgreeInv'
    BY <2>1, BeginMapAgrees
  <2>2. ASSUME AtRest, UNCHANGED <<frames, reentered>>,
               RegistryMatchesStore /\ SupplyIsBalances
                   => RegistryMatchesStore' /\ SupplyIsBalances'
        PROVE  AgreeInv'
    BY <2>2 DEF AgreeInv, AtRest
  <2>3. ASSUME NEW sender \in Accounts, NEW amount \in UnmapAmounts,
               NEW dest \in Addresses, NEW txid \in SpendIds,
               Unmap(sender, amount, dest, txid), RegistryMatchesStore, SupplyIsBalances
        PROVE  RegistryMatchesStore' /\ SupplyIsBalances'
    <3>1. IInv
      BY <2>3 DEF IInv, SwapTypes
    <3>2. IInv'
      BY <2>3, <3>1, UnmapKeeps
    <3>3. QED
      BY <2>3, <3>1, <3>2, UnmapSupply DEF IInv
  <2>4. ASSUME NEW from \in Accounts, NEW to \in Accounts,
               NEW amount \in TransferAmounts, Transfer(from, to, amount),
               RegistryMatchesStore, SupplyIsBalances
        PROVE  RegistryMatchesStore' /\ SupplyIsBalances'
    <3>1. SumFunction(balances') = SumFunction(balances)
      BY <2>4, TransferSum DEF SwapTypes
    <3>2. UNCHANGED <<utxos, registry, supply>>
      BY <2>4 DEF Transfer
    <3>3. QED
      BY <2>4, <3>1, <3>2 DEF RegistryMatchesStore, SupplyIsBalances, Consistent
  <2>5. ASSUME NEW rate \in FeeRates, AddBlocks(rate),
               RegistryMatchesStore, SupplyIsBalances
        PROVE  RegistryMatchesStore' /\ SupplyIsBalances'
    <3>1. /\ supply' = [supply EXCEPT !.baseFeeRate = rate]
          /\ UNCHANGED <<utxos, registry, balances>>
      BY <2>5 DEF AddBlocks
    <3>2. supply'.active = supply.active /\ supply'.user = supply.user
      BY <3>1 DEF SwapTypes, TypeOK
    <3>3. QED
      BY <2>5, <3>1, <3>2 DEF RegistryMatchesStore, SupplyIsBalances, Consistent
  <2>6. QED
    BY <1>1, <2>1, <2>2, <2>3, <2>4, <2>5 DEF CallsAtRest
<1>2. CASE MapOutput
  BY <1>2, MapOutputAgrees
<1>3. CASE RouterReturns
  BY <1>3, RouterReturnsAgrees
<1>4. CASE EndMap
  BY <1>4, EndMapAgrees
<1>5. ASSUME NEW amount \in TransferAmounts, RouterDraws(amount)
      PROVE  AgreeInv'
  <2>1. /\ ~AtRest /\ Transfer(Top.sender, Router, amount)
        /\ UNCHANGED <<frames, reentered>>
    BY <1>5 DEF RouterDraws, Waiting
  <2>2. Top.sender \in Accounts /\ Router \in Accounts
    BY <2>1, TopType, BtcMappingAssumption DEF Frame
  <2>3. SumFunction(balances') = SumFunction(balances)
    BY <2>1, <2>2, TransferSum DEF SwapTypes
  <2>4. utxos' = utxos
    BY <2>1 DEF Transfer
  <2>5. AtRest' = AtRest /\ Top' = Top
    BY <2>1 DEF AtRest, Top
  <2>6. QED
    BY <2>1, <2>3, <2>4, <2>5 DEF AgreeInv, Consistent
<1>6. ASSUME NEW amount \in UnmapAmounts, NEW dest \in Addresses, NEW txid \in SpendIds,
             RouterUnmaps(amount, dest, txid)
      PROVE  AgreeInv'
  BY <1>6 DEF RouterUnmaps, AgreeInv
<1>7. ASSUME NEW txid \in TxIds, NEW instrs \in MapInputs, RouterMaps(txid, instrs)
      PROVE  AgreeInv'
  BY <1>7, BeginMapAgrees DEF RouterMaps
<1>8. CASE UNCHANGED swapVars
  <2>1. UNCHANGED <<utxos, registry, supply, balances, frames, reentered>>
    BY <1>8 DEF swapVars, vars
  <2>2. AtRest' = AtRest /\ Top' = Top
    BY <2>1 DEF AtRest, Top
  <2>3. QED
    BY <2>1, <2>2 DEF AgreeInv, RegistryMatchesStore, SupplyIsBalances, Consistent
<1>9. QED
  BY <1>1, <1>2, <1>3, <1>4, <1>5, <1>6, <1>7, <1>8 DEF SwapNext

\* map keeps in memory what it loaded while the router takes its share out of
\* the balances: as long as the router does nothing but that, registry and
\* slots, supplies and balances agree again when the transaction is over.
THEOREM DrawsAgree == SwapSpec => []AgreeAtRest
<1>1. AgreeInv => AgreeAtRest
  BY DEF AgreeInv, AgreeAtRest
<1>2. SwapTypes /\ AgreeInv /\ [SwapNext]_swapVars => AgreeInv'
  BY SwapNextAgrees
<1>3. QED
  BY <1>1, <1>2, SwapInitAgrees, SwapTypesHold, PTL DEF SwapSpec

----------------------------------------------------------------------------
\* What the accounts hold in the middle of any calls.  The credit of a deposit
\* is dropped when it overflows, so this takes that all deposits together fit.

DepositPoints == {p \in Deposits \X Nat : p[2] + 1 \in DOMAIN DepositOuts[p[1]]}

\* No set of outputs of others is worth more than an int64 holds: all the
\* bitcoin there will ever be are worth less than a thousandth of that.
DepositsFit ==
    \A X \in SUBSET DepositPoints : IsFiniteSet(X) =>
        SumFunction([p \in X |-> DepositOuts[p[1]][p[2] + 1].amount]) <= MaxInt64

Creditable ==
    {p \in TxIds \X Nat : /\ Known(p[1]) /\ Paid(p)
                          /\ Outs(p[1])[p[2] + 1].addr \in Instructions}

\* A withdrawal takes at least what its first output, the only one that does
\* not come back as change, can bring as a deposit.
Charges(spend) ==
    /\ spend.outs # <<>> /\ spend.outs[1].amount \in Nat
    /\ \A j \in DOMAIN spend.outs : j # 1 => spend.outs[j].addr = ChangeAddress
    /\ ChargeOf(spend) \in Nat /\ ChargeOf(spend) >= spend.outs[1].amount

SpendsCharge == IsFiniteSet(Made) /\ \A t \in Made : Charges(spendTx[t])

CreditInv ==
    /\ IsFiniteSet(observed) /\ observed \subseteq Creditable
    /\ SpendsCharge
    /\ SumFunction(balances) = Deposited(observed) - Withdrawn

\* The outputs of spends that are credited are first outputs.
LEMMA CreditedFirst ==
    ASSUME TypeOK, SpendsCharge, NEW p \in Creditable, p[1] \notin Deposits
    PROVE  /\ p[1] \in Made /\ p = <<p[1], 0>>
           /\ AmountAt(p) = spendTx[p[1]].outs[1].amount
<1>1. /\ Known(p[1]) /\ p \in TxIds \X Nat /\ p[2] + 1 \in DOMAIN Outs(p[1])
      /\ Outs(p[1])[p[2] + 1].addr \in Instructions
  BY DEF Creditable, Paid
<1>2. p[1] \in Made /\ Outs(p[1]) = spendTx[p[1]].outs
  BY <1>1 DEF Known, Made, Outs
<1>3. Charges(spendTx[p[1]])
  BY <1>2 DEF SpendsCharge
<1>4. p[2] + 1 = 1
  BY <1>1, <1>2, <1>3, BtcMappingAssumption DEF Charges
<1>5. p[2] = 0 /\ p = <<p[1], p[2]>>
  BY <1>1, <1>4
<1>6. QED
  BY <1>2, <1>4, <1>5 DEF AmountAt

\* So they brought no more than the withdrawals took, and everything that was
\* credited fits.
LEMMA CreditBound ==
    ASSUME TypeOK, SpendsCharge, DepositsFit, NEW X \in SUBSET Creditable,
           IsFiniteSet(X)
    PROVE  /\ Deposited(X) \in Int /\ Withdrawn \in Int
           /\ Deposited(X) - Withdrawn <= MaxInt64
<1> DEFINE f == [p \in X |-> AmountAt(p)]
           D == {p \in X : p[1] \in Deposits}
           T == {t \in Made : \E p \in X \ D : p[1] = t}
           m == [p \in X \ D |-> p[1]]
           first == [t \in Made |-> spendTx[t].outs[1].amount]
           charge == [t \in Made |-> ChargeOf(spendTx[t])]
<1>1. /\ DOMAIN f = X /\ \A p \in X : f[p] = AmountAt(p) /\ AmountAt(p) \in Int
      /\ DOMAIN charge = Made
      /\ \A t \in Made : charge[t] = ChargeOf(spendTx[t]) /\ charge[t] \in Nat
      /\ \A t \in Made : first[t] \in Nat /\ first[t] <= charge[t]
      /\ \A t \in Made : first[t] = spendTx[t].outs[1].amount
  BY DEF Creditable, Paid, SpendsCharge, Charges
<1>2. \A p \in X \ D : /\ p[1] \in Made /\ p = <<p[1], 0>>
                       /\ AmountAt(p) = spendTx[p[1]].outs[1].amount
  BY CreditedFirst
<1>3. /\ Deposited(X) = SumFunctionOnSet(f, X)
      /\ Withdrawn = SumFunctionOnSet(charge, Made)
  BY DEF Deposited, Withdrawn, SumFunction
<1>4. Renaming(m, X \ D, T)
  <2>1. \A p \in X \ D : m[p] = p[1]
    OBVIOUS
  <2> HIDE DEF D, m
  <2>2. \A p \in X \ D : m[p] \in T
    BY <1>2, <2>1
  <2>3. \A p, q \in X \ D : m[p] = m[q] => p = q
    <3>1. SUFFICES ASSUME NEW p \in X \ D, NEW q \in X \ D, m[p] = m[q] PROVE p = q
      OBVIOUS
    <3>2. p = <<p[1], 0>> /\ q = <<q[1], 0>> /\ p[1] = q[1]
      BY <1>2, <2>1, <3>1
    <3>3. QED
      BY <3>2
  <2>4. \A t \in T : \E p \in X \ D : t = m[p]
    BY <2>1
  <2>5. QED
    BY <2>2, <2>3, <2>4 DEF Renaming
<1>5. \A p \in X \ D : first[m[p]] = f[p]
  BY <1>1, <1>2
<1>6. D \in SUBSET X /\ T \in SUBSET Made
  OBVIOUS
<1>7. SumFunctionOnSet(f, D) <= MaxInt64
  <2> DEFINE g == [p \in D |-> DepositOuts[p[1]][p[2] + 1].amount]
  <2>1. D \in SUBSET DepositPoints
    BY DEF Creditable, Paid, Outs, DepositPoints
  <2>2. DOMAIN g = D /\ \A p \in D : g[p] = f[p]
    BY <1>1 DEF AmountAt, Outs
  <2>3. IsFiniteSet(D)
    BY <1>6, FS_Subset
  <2>4. SumFunction(g) <= MaxInt64
    BY <2>1, <2>3 DEF DepositsFit
  <2>5. SumFunction(g) = SumFunctionOnSet(g, D)
    BY <2>2 DEF SumFunction
  <2> HIDE DEF g, f
  <2>6. Summable(f, D) /\ SameOn(D, f, g)
    BY <1>1, <1>6, <2>2, <2>3 DEF Summable, SameOn
  <2> HIDE DEF D
  <2>7. SumFunctionOnSet(g, D) = SumFunctionOnSet(f, D)
    BY <2>6, SumSame
  <2>8. QED
    BY <2>4, <2>5, <2>7
<1> HIDE DEF f, charge, first, m, T, D
<1>8. Summable(f, X) /\ Summable(charge, Made) /\ Summable(first, Made)
  BY <1>1 DEF Summable, SpendsCharge
<1>9. /\ Summable(f, D) /\ Summable(f, X \ D)
      /\ SumFunctionOnSet(f, D) \in Int /\ SumFunctionOnSet(f, X \ D) \in Int
      /\ SumFunctionOnSet(f, X) = SumFunctionOnSet(f, D) + SumFunctionOnSet(f, X \ D)
  BY <1>6, <1>8, SumApart
<1>10. /\ Summable(charge, T) /\ Summable(charge, Made \ T)
       /\ SumFunctionOnSet(charge, T) \in Int /\ SumFunctionOnSet(charge, Made \ T) \in Int
       /\ SumFunctionOnSet(charge, Made)
              = SumFunctionOnSet(charge, T) + SumFunctionOnSet(charge, Made \ T)
  BY <1>6, <1>8, SumApart
<1>11. SumFunctionOnSet(charge, Made \ T) \in Nat
  <2>1. IsFiniteSet(Made \ T) /\ \A t \in Made \ T : charge[t] \in Nat
    BY <1>1, <1>10 DEF Summable
  <2>2. QED
    BY <2>1, SumOfNats
<1>12. Summable(first, T) /\ SumFunctionOnSet(first, T) = SumFunctionOnSet(f, X \ D)
  BY <1>4, <1>5, <1>9, SumRenamed
<1>13. SumFunctionOnSet(first, T) <= SumFunctionOnSet(charge, T)
  <2>1. \A t \in T : first[t] <= charge[t]
    BY <1>1, <1>6
  <2>2. QED
    BY <1>10, <1>12, <2>1, SumBelow
<1>14. MaxInt64 \in Nat
  BY BtcMappingAssumption
<1>15. QED
  BY <1>3, <1>7, <1>9, <1>10, <1>11, <1>12, <1>13, <1>14

\* Without a new withdrawal the same outputs can be credited.
LEMMA SameCreditable ==
    ASSUME UNCHANGED spendTx
    PROVE  Creditable' = Creditable /\ (SpendsCharge => SpendsCharge')
<1>1. Made' = Made /\ \A p : Paid(p)' <=> Paid(p)
  BY SameSpends
<1>2. \A t : Outs(t)' = Outs(t) /\ (Known(t)' <=> Known(t))
  BY DEF Outs, Known
<1>3. Creditable' = Creditable
  BY <1>1, <1>2 DEF Creditable
<1>4. SpendsCharge => SpendsCharge'
  BY <1>1 DEF SpendsCharge
<1>5. QED
  BY <1>3, <1>4

\* Without new outputs or withdrawals only the sum of the balances matters.
LEMMA SameCredit ==
    ASSUME CreditInv, UNCHANGED <<observed, spendTx>>,
           SumFunction(balances') = SumFunction(balances)
    PROVE  CreditInv'
<1>1. Creditable' = Creditable /\ SpendsCharge'
  BY SameCreditable DEF CreditInv
<1>2. Withdrawn' = Withdrawn /\ Deposited(observed)' = Deposited(observed')
  BY SameSpends
<1>3. QED
  BY <1>1, <1>2 DEF CreditInv

\* An output is credited, in full as CreditBound says it fits, in the
\* step that marks it as observed.
LEMMA MapOutputCredits ==
    ASSUME SwapTypes, DepositsFit, CreditInv, MapOutput
    PROVE  CreditInv'
<1>1. UNCHANGED spendTx /\ Top \in Frame
  BY MapOutputFacts
<1>2. CASE observed' = observed /\ balances' = balances
  BY <1>1, <1>2, SameCredit
<1> DEFINE p == <<Top.txid, Top.index>>
           out == Outs(Top.txid)[Top.index + 1]
<1>3. CASE /\ p \in TxIds \X Nat /\ Known(Top.txid)
           /\ p \notin observed /\ observed' = observed \cup {p}
           /\ out.addr \in Instructions /\ out.amount \in Nat
           /\ Top.index + 1 \in DOMAIN Outs(Top.txid)
           /\ balances' = Credited(balances, out.addr, Top.sender, out.amount, FALSE)
  <2>1. AmountAt(p) = out.amount /\ Paid(p) /\ p \in Creditable
    BY <1>3 DEF AmountAt, Paid, Creditable
  <2>2. IsFiniteSet(observed) /\ observed \subseteq Creditable /\ SpendsCharge
        /\ SumFunction(balances) = Deposited(observed) - Withdrawn
    BY DEF CreditInv
  <2> DEFINE a == out.amount
  <2>3. out.addr \in Instructions /\ a \in Nat /\ Top.sender \in Accounts
    BY <1>1, <1>3 DEF Frame
  <2>4. balances \in [Accounts -> Nat] /\ SumFunction(balances) \in Nat
        /\ MaxInt64 \in Nat /\ TypeOK
    BY BalancesSum, BtcMappingAssumption DEF SwapTypes, TypeOK
  <2>5. \/ SumFunction(balances') = SumFunction(balances) + a
        \/ SumFunction(balances) + a > MaxInt64
    <3> HIDE DEF out
    <3>1. QED
      BY <1>3, <2>3, <2>4, CreditedSum
  <2>6. observed' = observed \cup {p} /\ p \notin observed /\ AmountAt(p) = a
    BY <1>3, <2>1
  <2> HIDE DEF p, out, a
  <2>7. \A q \in observed : Paid(q)
    BY <2>2 DEF Creditable
  <2>8. /\ IsFiniteSet(observed')
        /\ Deposited(observed') = Deposited(observed) + a
        /\ Deposited(observed) \in Int
    BY <2>1, <2>2, <2>6, <2>7, DepositedMore
  <2>9. observed' \in SUBSET Creditable
    BY <2>1, <2>2, <2>6
  <2>10. Withdrawn \in Int /\ Deposited(observed') - Withdrawn <= MaxInt64
    BY <2>2, <2>4, <2>8, <2>9, CreditBound
  <2>11. SumFunction(balances') = Deposited(observed') - Withdrawn
    BY <2>2, <2>3, <2>4, <2>5, <2>8, <2>10
  <2>12. Creditable' = Creditable /\ SpendsCharge'
    BY <1>1, <2>2, SameCreditable
  <2>13. Withdrawn' = Withdrawn /\ Deposited(observed)' = Deposited(observed')
    BY <1>1, SameSpends
  <2>14. QED
    BY <2>8, <2>9, <2>11, <2>12, <2>13 DEF CreditInv
<1>4. QED
  BY <1>2, <1>3, ProcessOutputHolds

\* A withdrawal is paid by its sender.
LEMMA UnmapCredits ==
    ASSUME TypeOK, CreditInv, NEW sender \in Accounts, NEW amount \in UnmapAmounts,
           NEW dest \in Addresses, NEW txid \in SpendIds,
           Unmap(sender, amount, dest, txid)
    PROVE  CreditInv'
<1>1. PICK spend, inputIds, store :
          spend \in Spend /\ UnmapTakes(sender, txid, spend, inputIds, store)
  BY UnmapEmpties
<1> DEFINE charge == ChargeOf(spend)
<1>2. /\ spendTx[txid] = NoTx /\ UNCHANGED observed
      /\ spendTx' = [spendTx EXCEPT ![txid] = spend]
      /\ charge \in Nat /\ balances[sender] >= charge
      /\ balances' = [balances EXCEPT ![sender] = @ - charge]
      /\ Charges(spend)
  BY <1>1 DEF UnmapTakes, Charges
<1>3. /\ IsFiniteSet(observed) /\ observed \subseteq Creditable
      /\ IsFiniteSet(Made) /\ \A t \in Made : Charges(spendTx[t])
      /\ SumFunction(balances) = Deposited(observed) - Withdrawn
  BY DEF CreditInv, SpendsCharge
<1>4. /\ \A t \in Made : spendTx[t].outs # <<>>
      /\ \A p \in observed : Known(p[1]) /\ Paid(p)
      /\ ChargeOf(spend) \in Int
  BY <1>2, <1>3 DEF Charges, Creditable
<1>5. Deposited(observed) \in Int /\ Withdrawn \in Int
  BY <1>3, <1>4, DepositedType, WithdrawnType
<1>6. /\ Made' = Made \cup {txid} /\ IsFiniteSet(Made')
      /\ spendTx'[txid] = spend /\ \A t \in Made : spendTx'[t] = spendTx[t]
      /\ Withdrawn' = Withdrawn + ChargeOf(spend)
      /\ \A t : Known(t) => Known(t)' /\ Outs(t)' = Outs(t)
      /\ \A p \in observed : Paid(p)' <=> Paid(p)
      /\ Deposited(observed)' = Deposited(observed)
  BY <1>1, <1>2, <1>3, <1>4, WithdrawnMore
<1>7. SpendsCharge'
  <2>1. \A t \in Made' : Charges(spendTx'[t])
    BY <1>2, <1>3, <1>6
  <2>2. QED
    BY <1>6, <2>1 DEF SpendsCharge
<1>8. (observed \subseteq Creditable)'
  <2>1. ASSUME NEW p \in observed PROVE p \in Creditable'
    <3>1. /\ p \in TxIds \X Nat /\ Known(p[1]) /\ Paid(p)
          /\ Outs(p[1])[p[2] + 1].addr \in Instructions
      BY <1>3 DEF Creditable
    <3>2. Known(p[1])' /\ Paid(p)' /\ Outs(p[1])' = Outs(p[1])
      BY <1>6, <3>1
    <3>3. QED
      BY <3>1, <3>2 DEF Creditable
  <2>2. QED
    BY <1>2, <2>1
<1>9. SumFunction(balances') = SumFunction(balances) - charge
  <2> HIDE DEF charge
  <2>1. balances \in [Accounts -> Nat] /\ SumFunction(balances) \in Nat
        /\ balances[sender] \in Nat
    BY BalancesSum DEF TypeOK
  <2>2. /\ balances' \in [Accounts -> Nat] /\ balances'[sender] = balances[sender] - charge
        /\ \A b \in Accounts : b # sender => balances'[b] = balances[b]
    BY <1>2, <2>1
  <2>3. SumFunction(balances') = SumFunction(balances) - balances[sender] + balances'[sender]
    BY <2>1, <2>2, BalanceChanged
  <2>4. QED
    BY <1>2, <2>1, <2>2, <2>3
<1>10. SumFunction(balances') = Deposited(observed)' - Withdrawn'
  BY <1>2, <1>3, <1>5, <1>6, <1>9
<1>11. QED
  BY <1>2, <1>3, <1>7, <1>8, <1>10 DEF CreditInv

\* Nothing is credited at first.
LEMMA CreditInit == Init => CreditInv
<1> SUFFICES ASSUME Init PROVE CreditInv
  OBVIOUS
<1>1. LedgerInv
  BY LedgerInit
<1>2. observed = {} /\ Made = {}
  BY DEF Init, Made
<1>3. SumFunction(balances) = Deposited(observed) - Withdrawn
  BY <1>1 DEF LedgerInv, SupplyIsBalances, DepositsCreditedOnce, Deposited, Withdrawn,
              AmountAt, ChargeOf
<1>4. QED
  BY <1>1, <1>2, <1>3 DEF CreditInv, SpendsCharge, LedgerInv

\* CreditInv is inductive, given the types and that deposits fit.
LEMMA SwapNextCredits ==
    ASSUME DepositsFit
    PROVE  SwapTypes /\ CreditInv /\ [SwapNext]_swapVars => CreditInv'
<1> SUFFICES ASSUME SwapTypes, CreditInv, [SwapNext]_swapVars PROVE CreditInv'
  OBVIOUS
<1>1. ASSUME UNCHANGED <<observed, spendTx, balances>> PROVE CreditInv'
  BY <1>1, SameCredit
<1>2. ASSUME NEW from \in Accounts, NEW to \in Accounts, NEW amount \in TransferAmounts,
             Transfer(from, to, amount)
      PROVE  CreditInv'
  <2>1. SumFunction(balances') = SumFunction(balances)
    BY <1>2, TransferSum DEF SwapTypes
  <2>2. QED
    BY <1>2, <2>1, SameCredit DEF Transfer
<1>3. ASSUME NEW sender \in Accounts, NEW amount \in UnmapAmounts,
             NEW dest \in Addresses, NEW txid \in SpendIds,
             Unmap(sender, amount, dest, txid)
      PROVE  CreditInv'
  BY <1>3, UnmapCredits DEF SwapTypes
<1>4. CASE CallsAtRest
  <2>1. ASSUME NEW txid \in TxIds, NEW instrs \in MapInputs, NEW sender \in Accounts,
               BeginMap(txid, instrs, sender)
        PROVE  CreditInv'
    BY <1>1, <2>1 DEF BeginMap
  <2>2. ASSUME NEW rate \in FeeRates, AddBlocks(rate)
        PROVE  CreditInv'
    BY <1>1, <2>2 DEF AddBlocks
  <2>3. QED
    BY <1>2, <1>3, <1>4, <2>1, <2>2 DEF CallsAtRest
<1>5. CASE MapOutput
  BY <1>5, MapOutputCredits
<1>6. CASE RouterReturns
  BY <1>1, <1>6 DEF RouterReturns, vars
<1>7. CASE EndMap
  BY <1>1, <1>7 DEF EndMap
<1>8. ASSUME ~AtRest PROVE Top.sender \in Accounts
  BY <1>8, TopType DEF Frame
<1>9. ASSUME NEW amount \in TransferAmounts, RouterDraws(amount)
      PROVE  CreditInv'
  <2>1. ~AtRest /\ Transfer(Top.sender, Router, amount)
    BY <1>9 DEF RouterDraws, Waiting
  <2>2. Top.sender \in Accounts /\ Router \in Accounts
    BY <1>8, <2>1, BtcMappingAssumption
  <2>3. QED
    BY <1>2, <2>1, <2>2
<1>10. ASSUME NEW amount \in UnmapAmounts, NEW dest \in Addresses, NEW txid \in SpendIds,
              RouterUnmaps(amount, dest, txid)
       PROVE  CreditInv'
  <2>1. ~AtRest /\ Unmap(Top.sender, amount, dest, txid)
    BY <1>10 DEF RouterUnmaps, Waiting
  <2>2. QED
    BY <1>3, <1>8, <2>1
<1>11. ASSUME NEW txid \in TxIds, NEW instrs \in MapInputs, RouterMaps(txid, instrs)
       PROVE  CreditInv'
  BY <1>1, <1>11 DEF RouterMaps, BeginMap
<1>12. CASE UNCHANGED swapVars
  BY <1>1, <1>12 DEF swapVars, vars
<1>13. QED
  BY <1>4, <1>5, <1>6, <1>7, <1>9, <1>10, <1>11, <1>12 DEF SwapNext

\* Whatever the router calls in the middle of whatever maps, every output is
\* credited to the accounts once and every withdrawal is taken from them:
\* observed keys and balances are written in the same iteration, before the
\* router is called.  In the middle of a call nothing bounds the balances by
\* the supplies, so this takes that the deposits fit: when a credit overflows
\* it is dropped.
THEOREM CreditedOnceByReentry ==
    ASSUME DepositsFit
    PROVE  SwapSpec => []BalancesCreditedOnce
<1>1. SwapInit => CreditInv
  BY CreditInit DEF SwapInit
<1>2. SwapTypes /\ CreditInv /\ [SwapNext]_swapVars => CreditInv'
  BY SwapNextCredits
<1>3. CreditInv => BalancesCreditedOnce
  BY DEF CreditInv, BalancesCreditedOnce, Deposited, Withdrawn, AmountAt, ChargeOf
<1>4. QED
  BY <1>1, <1>2, <1>3, SwapTypesHold, PTL DEF SwapSpec

=============================================================================
