-------------------------- MODULE BtcMappingProofs --------------------------
(***************************************************************************)
(* Theorems about the mapping contract, for every set of accounts,         *)
(* deposits and withdrawals and every size of the slot pools: the types of *)
(* its state, and that the registry and the slots never disagree.  The two *)
(* are proved together, as one inductive invariant: unmap loads the slot   *)
(* of every registry entry it selects, and only their agreement says that  *)
(* the slot is there.  Then what becomes of the outputs the contract       *)
(* keeps.                                                                  *)
(*                                                                         *)
(* First, lemmas about the operators of BtcMapping and Fees: the types of  *)
(* what they return, that an allocated slot is free, and what each change  *)
(* of the registry and the slots keeps true of the two together.           *)
(***************************************************************************)
EXTENDS BtcMapping, LoopLemmas, SequenceTheorems

----------------------------------------------------------------------------
\* Arithmetic.

LEMMA QuotientType ==
    ASSUME NEW a \in Int, NEW b \in Nat \ {0}
    PROVE  Quotient(a, b) \in Int
  BY DEF Quotient

LEMMA VscFeeType ==
    ASSUME NEW a \in Int
    PROVE  VscFee(a) \in Int
<1>1. a * FeeRateBps \in Int
  BY DEF FeeRateBps
<1>2. QED
  BY <1>1, QuotientType DEF VscFee, MinFee

LEMMA NumChangeType ==
    ASSUME NEW c \in Int
    PROVE  NumChangeOutputs(c) \in Nat
  BY DEF NumChangeOutputs, DustThreshold, SplitThreshold, MaxChangeOutputs

LEMMA VirtualSizeType ==
    ASSUME NEW b \in Int, NEW w \in Int
    PROVE  VirtualSize(b, w) \in Int
  BY DEF VirtualSize

LEMMA FeeTypes ==
    ASSUME NEW n \in Nat, NEW x \in Int, NEW d \in Int, NEW c \in Int, NEW r \in Nat
    PROVE  SpendFee(n, x, d, c, r) \in Int
<1> DEFINE b == OverheadSize + n * InputSize + d + NumChangeOutputs(c) * ChangeOutputSize
           w == n * SignatureSize + x
<1>1. NumChangeOutputs(c) \in Nat
  BY NumChangeType
<1>2. b \in Int /\ w \in Int
  BY <1>1 DEF OverheadSize, InputSize, ChangeOutputSize, SignatureSize
<1> HIDE DEF b, w
<1>3. VirtualSize(b, w) * r \in Int
  BY <1>2, VirtualSizeType
<1>4. QED
  BY <1>3 DEF SpendFee, b, w

LEMMA ChangeAmountsType ==
    ASSUME NEW c \in Int, NEW f \in Int
    PROVE  ChangeAmounts(c, f) \in Seq(Int)
<1> DEFINE n == NumChangeOutputs(c)
<1>1. n \in Nat
  BY NumChangeType
<1> HIDE DEF n
<1>2. ASSUME NEW k \in 1..n
      PROVE  ChangeAmounts(c, f)[k] \in Int
  <2>1. Quotient(c - f, n) \in Int
    BY <1>1, QuotientType
  <2>2. Quotient(c - f, n) * (n - 1) \in Int
    BY <1>1, <2>1
  <2>3. QED
    BY <2>1, <2>2, <1>1 DEF ChangeAmounts, n
<1>3. ChangeAmounts(c, f) \in [1..n -> Int]
  BY <1>2 DEF ChangeAmounts, n
<1>4. QED
  BY <1>1, <1>3

----------------------------------------------------------------------------
\* The loops over lists.

LEMMA PrefixSumType ==
    ASSUME NEW list \in Seq(Int), NEW k \in 0..Len(list)
    PROVE  PrefixSum(list, k) \in Int
<1> DEFINE n == Len(list)
           Y == Int
           start == 0
           acc[j \in 0..n] == IF j = 0 THEN 0 ELSE acc[j - 1] + list[j]
           g == [p \in (1..n) \X Y |-> p[2] + list[p[1]]]
<1>1. n \in Nat /\ \A j \in 1..n : list[j] \in Y
  OBVIOUS
<1>2. \A j \in 1..n, x \in Y : x + list[j] \in Y
  BY <1>1
<1>3. start \in Y
  OBVIOUS
<1>4. acc = [j \in 0..n |-> IF j = 0 THEN 0 ELSE acc[j - 1] + list[j]]
  <2>1. g \in Iterations(n, Y)
    <3> HIDE DEF n, Y
    <3> QED
      BY <1>2 DEF Iterations
  <2>2. PICK f : f \in Runs(n, Y, start, g)
    <3> HIDE DEF g, n, Y, start
    <3> QED
      BY <1>1, <1>3, <2>1, RunExists
  <2>3. f = [j \in 0..n |-> IF j = 0 THEN start ELSE f[j - 1] + list[j]]
    <3> HIDE DEF n, Y, start
    <3>1. /\ f \in [0..n -> Y] /\ f[0] = start
          /\ \A j \in 1..n : f[j] = g[<<j, f[j - 1]>>]
      BY <2>2 DEF Runs
    <3>2. ASSUME NEW j \in 1..n
          PROVE  f[j] = f[j - 1] + list[j]
      <4>1. f[j - 1] \in Y
        BY <1>1, <3>1
      <4>2. QED
        BY <4>1, <3>1
    <3> HIDE DEF g
    <3>3. \A j \in 0..n : j # 0 => j \in 1..n
      BY <1>1
    <3>4. QED
      BY <3>1, <3>2, <3>3
  <2>4. QED
    BY <2>3
<1> HIDE DEF acc, n, Y
<1>5. acc[0] = 0 /\ \A j \in 1..n : acc[j] = acc[j - 1] + list[j]
  BY <1>1, <1>4
<1>6. acc[0] \in Y /\ \A j \in 1..n : acc[j - 1] \in Y => acc[j] \in Y
  BY <1>2, <1>3, <1>5
<1>7. \A j \in 0..n : acc[j] \in Y
  BY <1>1, <1>6, StaysIn
<1>8. QED
  BY <1>7 DEF PrefixSum, acc, Y, n

----------------------------------------------------------------------------
\* Slot allocation.

LEMMA PoolsInSlots ==
    /\ UnconfirmedPool \subseteq Slots /\ ConfirmedPool \subseteq Slots
    /\ UnconfirmedPool \cap ConfirmedPool = {}
    /\ Slots = UnconfirmedPool \cup ConfirmedPool
    /\ UnconfirmedPool # ConfirmedPool
<1>1. 0 \in UnconfirmedPool /\ 0 \notin ConfirmedPool
  BY SlotPoolsAssumption DEF UnconfirmedPool, ConfirmedPool
<1>2. QED
  BY <1>1, SlotPoolsAssumption DEF UnconfirmedPool, ConfirmedPool, Slots

LEMMA StepsType ==
    ASSUME NEW pool \in {UnconfirmedPool, ConfirmedPool},
           NEW next \in pool, NEW s \in pool
    PROVE  Steps(pool, next, s) \in Nat
<1>1. CASE pool = ConfirmedPool
  BY <1>1, SlotPoolsAssumption DEF Steps, ConfirmedPool
<1>2. CASE pool = UnconfirmedPool
  BY <1>2, PoolsInSlots, SlotPoolsAssumption DEF Steps, UnconfirmedPool
<1>3. QED
  BY <1>1, <1>2

\* The slot the allocation loop stops at is a free slot of its pool.
LEMMA FirstFreeIsFree ==
    ASSUME NEW store, NEW pool \in {UnconfirmedPool, ConfirmedPool},
           NEW next \in pool, Free(store, pool) # {}
    PROVE  FirstFree(store, pool, next) \in Free(store, pool)
<1> DEFINE T == {Steps(pool, next, s) : s \in Free(store, pool)}
<1>1. Free(store, pool) \subseteq pool
  BY DEF Free
<1>2. T \in SUBSET Nat /\ T # {}
  BY <1>1, StepsType
<1>3. PICK d \in T : \A e \in T : d <= e
  <2> HIDE DEF T
  <2> QED
    BY <1>2, SmallestExists
<1>4. \E s \in Free(store, pool) :
          \A t \in Free(store, pool) : Steps(pool, next, s) <= Steps(pool, next, t)
  BY <1>3
<1>5. QED
  BY <1>4 DEF FirstFree

\* The counter stays in its pool.
LEMMA AfterSlotInPool ==
    /\ \A s \in UnconfirmedPool : AfterSlot(s) \in UnconfirmedPool
    /\ \A s \in ConfirmedPool : AfterSlot(s) \in ConfirmedPool
  BY SlotPoolsAssumption DEF AfterSlot, UnconfirmedPool, ConfirmedPool

----------------------------------------------------------------------------
\* The registry and the slots.

Stores == [Slots -> Utxo \cup {NoUtxo}]

LEMMA ConsistentAppend ==
    ASSUME NEW store \in Stores, NEW list \in Seq(Entry),
           NEW new \in Slots, store[new] = NoUtxo, NEW u \in Utxo
    PROVE  LET store2 == [store EXCEPT ![new] = u]
               list2 == Append(list, [id |-> new, amount |-> u.amount])
           IN  /\ store2 \in Stores /\ list2 \in Seq(Entry)
               /\ Consistent(store, list) => Consistent(store2, list2)
<1> DEFINE e == [id |-> new, amount |-> u.amount]
           store2 == [store EXCEPT ![new] = u]
           list2 == Append(list, e)
           n == Len(list)
<1>1. e \in Entry /\ e.id = new /\ e.amount = u.amount
  BY DEF Entry, Utxo
<1>2. store2 \in Stores
  BY DEF Stores
<1>3. /\ store2[new] = u
      /\ \A s \in Slots : s # new => store2[s] = store[s]
  BY DEF Stores
<1>4. u # NoUtxo
  BY BtcMappingAssumption
<1>5. n \in Nat /\ DOMAIN list = 1..n /\ \A p \in 1..n : list[p] \in Entry
  OBVIOUS
<1>6. /\ list2 \in Seq(Entry)
      /\ DOMAIN list2 = 1..(n + 1)
      /\ list2[n + 1] = e
      /\ \A p \in 1..n : list2[p] = list[p]
  <2> HIDE DEF e
  <2> QED
    BY <1>1
<1> SUFFICES ASSUME Consistent(store, list) PROVE Consistent(store2, list2)
  <2> HIDE DEF store2, list2
  <2> QED
    BY <1>2, <1>6 DEF e, store2, list2
<1> HIDE DEF e, store2, list2, n
<1>7. \A p \in 1..n : list[p].id \in Slots /\ list[p].id # new
  BY <1>5 DEF Consistent, Entry
<1>8. \A p \in 1..(n + 1) : p = n + 1 \/ p \in 1..n
  BY <1>5
<1>9. \A p, q \in 1..(n + 1) : list2[p].id = list2[q].id => p = q
  BY <1>1, <1>5, <1>6, <1>7, <1>8 DEF Consistent
<1>10. \A p \in 1..(n + 1) :
           store2[list2[p].id] # NoUtxo /\ store2[list2[p].id].amount = list2[p].amount
  BY <1>1, <1>3, <1>4, <1>5, <1>6, <1>7, <1>8 DEF Consistent
<1>11. ASSUME NEW s \in Slots, store2[s] # NoUtxo
       PROVE  \E p \in 1..(n + 1) : list2[p].id = s
  <2>1. CASE s = new
    BY <2>1, <1>1, <1>5, <1>6
  <2>2. CASE s # new
    <3>1. PICK p \in 1..n : list[p].id = s
      BY <2>2, <1>3, <1>5, <1>11 DEF Consistent
    <3>2. p \in 1..(n + 1) /\ list2[p].id = s
      BY <3>1, <1>5, <1>6
    <3>3. QED
      BY <3>2
  <2>3. QED
    BY <2>1, <2>2
<1>12. QED
  BY <1>6, <1>9, <1>10, <1>11 DEF Consistent

LEMMA ConsistentMove ==
    ASSUME NEW store \in Stores, NEW list \in Seq(Entry),
           NEW new \in Slots, store[new] = NoUtxo, NEW p \in DOMAIN list
    PROVE  LET store2 == [store EXCEPT ![new] = store[list[p].id],
                                       ![list[p].id] = NoUtxo]
               list2 == [list EXCEPT ![p].id = new]
           IN  /\ store2 \in Stores /\ list2 \in Seq(Entry)
               /\ Consistent(store, list) => Consistent(store2, list2)
<1> DEFINE old == list[p].id
           store2 == [store EXCEPT ![new] = store[old], ![old] = NoUtxo]
           list2 == [list EXCEPT ![p].id = new]
           n == Len(list)
<1>1. n \in Nat /\ DOMAIN list = 1..n /\ \A q \in 1..n : list[q] \in Entry
  OBVIOUS
<1>2. old \in Slots
  BY <1>1 DEF Entry
<1>3. /\ store2 \in Stores
      /\ old # new => store2[new] = store[old] /\ store2[old] = NoUtxo
      /\ \A s \in Slots : s # new /\ s # old => store2[s] = store[s]
  <2> HIDE DEF old
  <2> QED
    BY <1>2 DEF Stores
<1>4. /\ DOMAIN list2 = 1..n
      /\ list2[p].id = new /\ list2[p].amount = list[p].amount
      /\ list2[p] \in Entry
      /\ \A q \in 1..n : q # p => list2[q] = list[q]
  BY <1>1 DEF Entry
<1>5. list2 \in Seq(Entry)
  <2>1. \A q \in 1..n : list2[q] \in Entry
    <3> HIDE DEF list2
    <3> QED
      BY <1>1, <1>4
  <2>2. list2 = [q \in 1..n |-> list2[q]]
    BY <1>1
  <2> HIDE DEF list2
  <2>3. list2 \in [1..n -> Entry]
    BY <2>1, <2>2
  <2>4. QED
    BY <2>3, <1>1
<1> SUFFICES ASSUME Consistent(store, list) PROVE Consistent(store2, list2)
  <2> HIDE DEF store2, list2
  <2> QED
    BY <1>3, <1>5 DEF store2, list2
<1> HIDE DEF store2, list2, n
<1>0. store[old] # NoUtxo /\ old # new
  BY DEF Consistent
<1>6. \A q \in 1..n : q # p => list[q].id \in Slots /\ list[q].id # new /\ list[q].id # old
  BY <1>0, <1>1 DEF Consistent, Entry
<1>7. \A q, r \in 1..n : list2[q].id = list2[r].id => q = r
  BY <1>1, <1>4, <1>6 DEF Consistent
<1>8. \A q \in 1..n :
          store2[list2[q].id] # NoUtxo /\ store2[list2[q].id].amount = list2[q].amount
  BY <1>0, <1>1, <1>2, <1>3, <1>4, <1>6 DEF Consistent
<1>9. ASSUME NEW s \in Slots, store2[s] # NoUtxo
      PROVE  \E q \in 1..n : list2[q].id = s
  <2>1. CASE s = new
    BY <2>1, <1>1, <1>4
  <2>2. CASE s # new
    <3>1. s # old
      BY <1>0, <1>3, <1>9
    <3>2. PICK q \in 1..n : list[q].id = s
      BY <2>2, <3>1, <1>1, <1>3, <1>9 DEF Consistent
    <3>3. q # p
      BY <3>1, <3>2
    <3>4. QED
      BY <3>2, <3>3, <1>4
  <2>3. QED
    BY <2>1, <2>2
<1>10. QED
  BY <1>4, <1>7, <1>8, <1>9 DEF Consistent

\* The entries in some slots are those of the list, none left out.
LEMMA EntriesInFacts ==
    ASSUME NEW list \in Seq(Entry), NEW slots
    PROVE  LET kept == EntriesIn(list, slots)
           IN  /\ kept \in Seq(Entry)
               /\ \A j \in DOMAIN kept :
                      kept[j].id \in slots /\ \E p \in DOMAIN list : kept[j] = list[p]
               /\ \A p \in DOMAIN list :
                      list[p].id \in slots => \E j \in DOMAIN kept : kept[j] = list[p]
               /\ (\A p, q \in DOMAIN list : list[p].id = list[q].id => p = q)
                      => \A i, j \in DOMAIN kept : kept[i].id = kept[j].id => i = j
<1> DEFINE n == Len(list)
           Y == Seq(Entry)
           start == <<>>
           G(k, x) == IF list[k].id \in slots THEN Append(x, list[k]) ELSE x
           g == [p \in (1..n) \X Y |-> G(p[1], p[2])]
           acc[k \in 0..n] == IF k = 0 THEN <<>>
                              ELSE IF list[k].id \in slots
                                   THEN Append(acc[k - 1], list[k])
                              ELSE acc[k - 1]
<1>1. n \in Nat /\ DOMAIN list = 1..n /\ \A k \in 1..n : list[k] \in Entry
  OBVIOUS
<1>2. \A k \in 1..n, x \in Y : G(k, x) \in Y
  <2>1. SUFFICES ASSUME NEW k \in 1..n, NEW x \in Seq(Entry)
                 PROVE  G(k, x) \in Seq(Entry)
    OBVIOUS
  <2>2. list[k] \in Entry
    BY <1>1
  <2> DEFINE e == list[k]
  <2> HIDE DEF e
  <2>3. Append(x, e) \in Seq(Entry)
    BY <2>2 DEF e
  <2>4. QED
    BY <2>3 DEF e
<1>3. start \in Y
  OBVIOUS
<1>4. acc = [k \in 0..n |-> IF k = 0 THEN start ELSE G(k, acc[k - 1])]
  <2>1. g \in Iterations(n, Y)
    <3> HIDE DEF n, Y, G
    <3> QED
      BY <1>2 DEF Iterations
  <2>2. PICK f : f \in Runs(n, Y, start, g)
    <3> HIDE DEF g, n, Y, start
    <3> QED
      BY <1>1, <1>3, <2>1, RunExists
  <2>3. f = [k \in 0..n |-> IF k = 0 THEN start ELSE G(k, f[k - 1])]
    <3> HIDE DEF n, Y, start, G
    <3>1. /\ f \in [0..n -> Y] /\ f[0] = start
          /\ \A k \in 1..n : f[k] = g[<<k, f[k - 1]>>]
      BY <2>2 DEF Runs
    <3>2. ASSUME NEW k \in 1..n
          PROVE  f[k] = G(k, f[k - 1])
      <4>1. f[k - 1] \in Y
        BY <1>1, <3>1
      <4>2. QED
        BY <4>1, <3>1
    <3> HIDE DEF g
    <3>3. \A k \in 0..n : k # 0 => k \in 1..n
      BY <1>1
    <3>4. QED
      BY <3>1, <3>2, <3>3
  <2>4. QED
    BY <2>3
<1>5. EntriesIn(list, slots) = acc[n]
  BY DEF EntriesIn
<1> HIDE DEF acc, n, Y, start, G
<1>6. acc[0] = start /\ \A k \in 1..n : acc[k] = G(k, acc[k - 1])
  BY <1>1, <1>4
<1>7. acc[0] \in Y /\ \A k \in 1..n : acc[k - 1] \in Y => acc[k] \in Y
  BY <1>2, <1>3, <1>6
<1>8. \A k \in 0..n : acc[k] \in Y
  BY <1>1, <1>7, StaysIn
<1> DEFINE From(k) == \A j \in DOMAIN acc[k] :
                          /\ acc[k][j].id \in slots
                          /\ \E p \in 1..k : acc[k][j] = list[p]
           All(k) == \A p \in 1..k :
                         list[p].id \in slots => \E j \in DOMAIN acc[k] : acc[k][j] = list[p]
           Once(k) == (\A p, q \in DOMAIN list : list[p].id = list[q].id => p = q)
                          => \A i, j \in DOMAIN acc[k] : acc[k][i].id = acc[k][j].id => i = j
           S == {k \in 0..n : From(k) /\ All(k) /\ Once(k)}
<1>9. 0 \in S
  BY <1>1, <1>6 DEF start
<1>10. ASSUME NEW k \in 1..n, k - 1 \in S
       PROVE  k \in S
  <2> DEFINE x == acc[k - 1]
             m == Len(x)
             y == acc[k]
  <2>1. k - 1 \in 0..n /\ k \in 0..n /\ x \in Seq(Entry) /\ list[k] \in Entry
    BY <1>1, <1>8 DEF Y
  <2>2. From(k - 1) /\ All(k - 1) /\ Once(k - 1)
    BY <1>10
  <2>3. y = G(k, x)
    BY <1>6
  <2>4. \A p \in 1..k : p = k \/ p \in 1..(k - 1)
    BY <1>1
  <2>5. \A p \in 1..(k - 1) : p \in 1..k
    BY <1>1
  <2>6. CASE list[k].id \in slots
    <3>1. y = Append(x, list[k])
      BY <2>3, <2>6 DEF G
    <3>2. /\ m \in Nat /\ DOMAIN x = 1..m /\ DOMAIN y = 1..(m + 1)
          /\ y[m + 1] = list[k]
          /\ \A j \in 1..m : y[j] = x[j]
      <4> DEFINE e == list[k]
      <4>1. e \in Entry /\ y = Append(x, e)
        BY <2>1, <3>1
      <4> HIDE DEF e, x, y
      <4>2. /\ Len(x) \in Nat /\ DOMAIN x = 1..Len(x) /\ DOMAIN y = 1..(Len(x) + 1)
            /\ y[Len(x) + 1] = e
            /\ \A j \in 1..Len(x) : y[j] = x[j]
        BY <2>1, <4>1
      <4>3. QED
        BY <4>2 DEF e, m
    <3>3. From(k)
      <4>1. SUFFICES ASSUME NEW j \in 1..(m + 1)
                     PROVE  y[j].id \in slots /\ \E p \in 1..k : y[j] = list[p]
        BY <3>2
      <4>2. CASE j = m + 1
        BY <4>2, <3>2, <2>6
      <4>3. CASE j # m + 1
        <5>1. j \in 1..m /\ y[j] = x[j]
          BY <4>3, <3>2
        <5>2. QED
          BY <5>1, <2>2, <2>5, <3>2
      <4>4. QED
        BY <4>2, <4>3
    <3>4. All(k)
      <4>1. SUFFICES ASSUME NEW p \in 1..k, list[p].id \in slots
                     PROVE  \E j \in 1..(m + 1) : y[j] = list[p]
        BY <3>2
      <4>2. CASE p = k
        BY <4>2, <3>2
      <4>3. CASE p # k
        <5>1. PICK j \in 1..m : x[j] = list[p]
          BY <4>3, <4>1, <2>2, <2>4, <3>2
        <5>2. j \in 1..(m + 1) /\ y[j] = list[p]
          BY <5>1, <3>2
        <5>3. QED
          BY <5>2
      <4>4. QED
        BY <4>2, <4>3
    <3>5. Once(k)
      <4>1. SUFFICES ASSUME \A p, q \in DOMAIN list : list[p].id = list[q].id => p = q,
                            NEW i \in 1..(m + 1), NEW j \in 1..(m + 1), y[i].id = y[j].id
                     PROVE  i = j
        BY <3>2
      <4>2. \A l \in 1..m : y[l].id # list[k].id
        <5>1. SUFFICES ASSUME NEW l \in 1..m PROVE y[l].id # list[k].id
          OBVIOUS
        <5>2. PICK p \in 1..(k - 1) : x[l] = list[p]
          BY <2>2, <3>2
        <5>3. p # k /\ p \in DOMAIN list /\ k \in DOMAIN list
          BY <1>1
        <5>4. QED
          BY <5>2, <5>3, <4>1, <3>2
      <4>3. CASE i = m + 1 \/ j = m + 1
        <5>1. y[i].id = list[k].id /\ y[j].id = list[k].id
          BY <4>1, <4>3, <3>2
        <5>2. i \notin 1..m /\ j \notin 1..m
          BY <5>1, <4>2
        <5>3. QED
          BY <5>2, <3>2
      <4>4. CASE i # m + 1 /\ j # m + 1
        <5>1. i \in 1..m /\ j \in 1..m
          BY <4>4, <3>2
        <5>2. x[i].id = x[j].id
          BY <5>1, <4>1, <3>2
        <5>3. \A a, b \in DOMAIN x : x[a].id = x[b].id => a = b
          BY <4>1, <2>2
        <5>4. QED
          BY <5>1, <5>2, <5>3, <3>2
      <4>5. QED
        BY <4>3, <4>4
    <3>6. QED
      BY <2>1, <3>3, <3>4, <3>5
  <2>7. CASE list[k].id \notin slots
    <3>1. y = x
      BY <2>3, <2>7 DEF G
    <3>2. QED
      BY <3>1, <2>1, <2>2, <2>4, <2>5, <2>7
  <2>8. QED
    BY <2>6, <2>7
<1>11. n \in S
  <2> HIDE DEF S
  <2>1. 0..n \subseteq S
    BY <1>1, <1>9, <1>10, UpTo
  <2>2. QED
    BY <1>1, <2>1
<1>12. acc[n] \in Seq(Entry)
  BY <1>1, <1>8 DEF Y
<1>13. From(n) /\ All(n) /\ Once(n)
  BY <1>11
<1>14. QED
  <2> DEFINE kept == acc[n]
  <2> HIDE DEF kept, acc
  <2>1. kept \in Seq(Entry)
    BY <1>12 DEF kept
  <2>2. /\ \A j \in DOMAIN kept :
              kept[j].id \in slots /\ \E p \in DOMAIN list : kept[j] = list[p]
        /\ \A p \in DOMAIN list :
              list[p].id \in slots => \E j \in DOMAIN kept : kept[j] = list[p]
    BY <1>1, <1>13 DEF kept
  <2>3. (\A p, q \in DOMAIN list : list[p].id = list[q].id => p = q)
            => \A i, j \in DOMAIN kept : kept[i].id = kept[j].id => i = j
    BY <1>13 DEF kept
  <2>4. kept = EntriesIn(list, slots)
    BY <1>5 DEF kept
  <2>5. QED
    BY <2>1, <2>2, <2>3, <2>4

LEMMA ConsistentRemove ==
    ASSUME NEW store \in Stores, NEW list \in Seq(Entry), NEW removed
    PROVE  LET store2 == [s \in Slots |-> IF s \in removed THEN NoUtxo ELSE store[s]]
               list2 == EntriesIn(list, Slots \ removed)
           IN  /\ store2 \in Stores /\ list2 \in Seq(Entry)
               /\ Consistent(store, list) => Consistent(store2, list2)
<1> DEFINE store2 == [s \in Slots |-> IF s \in removed THEN NoUtxo ELSE store[s]]
           left == Slots \ removed
           list2 == EntriesIn(list, left)
<1>1. store2 \in Stores
  BY DEF Stores
<1> HIDE DEF left
<1>2. /\ list2 \in Seq(Entry)
      /\ \A j \in DOMAIN list2 :
             list2[j].id \in left /\ \E p \in DOMAIN list : list2[j] = list[p]
      /\ \A p \in DOMAIN list :
             list[p].id \in left => \E j \in DOMAIN list2 : list2[j] = list[p]
      /\ (\A p, q \in DOMAIN list : list[p].id = list[q].id => p = q)
             => \A i, j \in DOMAIN list2 : list2[i].id = list2[j].id => i = j
  BY EntriesInFacts
<1>3. \A s \in left : store2[s] = store[s] /\ s \in Slots /\ s \notin removed
  BY DEF left
<1>4. \A s \in Slots : store2[s] # NoUtxo => s \in left
  BY DEF left
<1> SUFFICES ASSUME Consistent(store, list) PROVE Consistent(store2, list2)
  <2> HIDE DEF store2, list2
  <2> QED
    BY <1>1, <1>2 DEF store2, list2, left
<1> HIDE DEF store2, list2
<1>5. \A j \in DOMAIN list2 :
          store2[list2[j].id] # NoUtxo /\ store2[list2[j].id].amount = list2[j].amount
  BY <1>2, <1>3 DEF Consistent
<1>6. ASSUME NEW s \in Slots, store2[s] # NoUtxo
      PROVE  \E j \in DOMAIN list2 : list2[j].id = s
  <2>1. s \in left /\ store[s] # NoUtxo
    BY <1>3, <1>4, <1>6
  <2>2. PICK p \in DOMAIN list : list[p].id = s
    BY <2>1, <1>6 DEF Consistent
  <2>3. QED
    BY <2>1, <2>2, <1>2
<1>7. QED
  BY <1>2, <1>5, <1>6 DEF Consistent

----------------------------------------------------------------------------
\* Lists.

LEMMA AmountsType ==
    ASSUME NEW list \in Seq(Entry)
    PROVE  Amounts(list) \in Seq(Int) /\ Len(Amounts(list)) = Len(list)
<1>1. Len(list) \in Nat /\ DOMAIN list = 1..Len(list)
  OBVIOUS
<1>2. \A j \in 1..Len(list) : list[j].amount \in Int
  <2>1. \A j \in 1..Len(list) : list[j] \in Entry
    OBVIOUS
  <2>2. QED
    BY <2>1 DEF Entry
<1>3. Amounts(list) = [j \in 1..Len(list) |-> list[j].amount]
  BY <1>1 DEF Amounts
<1>4. QED
  BY <1>1, <1>2, <1>3

\* Swap-removal gives a list of the elements that were there.
LEMMA SwapRemoveType ==
    ASSUME NEW list \in Seq(SpendIds), NEW txid
    PROVE  SwapRemove(list, txid) \in Seq(SpendIds)
<1> DEFINE hits == {i \in DOMAIN list : list[i] = txid}
           first == CHOOSE i \in hits : \A j \in hits : i <= j
           n == Len(list)
<1>1. n \in Nat /\ DOMAIN list = 1..n /\ \A i \in 1..n : list[i] \in SpendIds
  OBVIOUS
<1>2. CASE hits = {}
  BY <1>2 DEF SwapRemove
<1>3. CASE hits # {}
  <2>1. n - 1 \in Nat /\ n \in 1..n
    BY <1>1, <1>3
  <2>2. \A i \in 1..(n - 1) : i \in 1..n
    BY <1>1
  <2>3. SwapRemove(list, txid) =
            [i \in 1..(n - 1) |-> IF i = first THEN list[n] ELSE list[i]]
    BY <1>3 DEF SwapRemove
  <2> HIDE DEF first, n
  <2>4. SwapRemove(list, txid) \in [1..(n - 1) -> SpendIds]
    BY <1>1, <2>1, <2>2, <2>3
  <2>5. QED
    BY <2>1, <2>4
<1>4. QED
  BY <1>2, <1>3

\* The outputs selected for a withdrawal are outputs of the registry.
LEMMA SelectInputsFacts ==
    ASSUME registry \in Seq(Entry), NEW amount
    PROVE  /\ SelectInputs(amount) \in Seq(Entry)
           /\ \A j \in DOMAIN SelectInputs(amount) :
                  \E p \in DOMAIN registry : SelectInputs(amount)[j] = registry[p]
<1> DEFINE Covers(n, sum) ==
               sum >= amount + EstimateFee(n, amount, sum, supply.baseFeeRate)
           single == {p \in DOMAIN registry :
                         /\ registry[p].id \in ConfirmedPool
                         /\ Covers(1, registry[p].amount)}
           confirmed == EntriesIn(registry, ConfirmedPool)
           unconfirmed == EntriesIn(registry, UnconfirmedPool)
           list == confirmed \o unconfirmed
           enough == {k \in 1..Len(list) : Covers(k, PrefixSum(Amounts(list), k))}
           First(S) == CHOOSE k \in S : \A l \in S : k <= l
           From(e) == \A j \in DOMAIN e : \E p \in DOMAIN registry : e[j] = registry[p]
<1>1. \A T \in SUBSET Nat : T # {} => First(T) \in T
  <2>1. SUFFICES ASSUME NEW T \in SUBSET Nat, T # {} PROVE First(T) \in T
    OBVIOUS
  <2>2. \E k \in T : \A l \in T : k <= l
    BY <2>1, SmallestExists
  <2>3. QED
    BY <2>2
<1> HIDE DEF Covers, First
<1>2. SelectInputs(amount) =
          IF single # {} THEN <<registry[First(single)]>>
          ELSE IF enough = {} THEN <<>>
          ELSE [k \in 1..First(enough) |-> list[k]]
  BY DEF SelectInputs, Covers, First
<1>3. CASE single # {}
  <2>1. single \in SUBSET Nat
    OBVIOUS
  <2>2. First(single) \in DOMAIN registry
    BY <1>1, <1>3, <2>1
  <2> DEFINE p == First(single)
  <2> HIDE DEF single, p
  <2>3. registry[p] \in Entry /\ p \in DOMAIN registry
    BY <2>2 DEF p
  <2>4. SelectInputs(amount) = <<registry[p]>>
    BY <1>2, <1>3 DEF p
  <2>5. QED
    BY <2>3, <2>4
<1>4. CASE single = {} /\ enough = {}
  BY <1>2, <1>4
<1>5. CASE single = {} /\ enough # {}
  <2>1. confirmed \in Seq(Entry) /\ From(confirmed)
    BY EntriesInFacts
  <2>2. unconfirmed \in Seq(Entry) /\ From(unconfirmed)
    BY EntriesInFacts
  <2>3. list \in Seq(Entry) /\ From(list)
    <3> HIDE DEF confirmed, unconfirmed
    <3>1. list \in Seq(Entry)
      BY <2>1, <2>2
    <3>2. ASSUME NEW j \in DOMAIN list
          PROVE  \E p \in DOMAIN registry : list[j] = registry[p]
      <4>1. CASE j \in 1..Len(confirmed)
        <5>1. list[j] = confirmed[j] /\ j \in DOMAIN confirmed
          BY <4>1, <2>1, <2>2
        <5>2. QED
          BY <5>1, <2>1
      <4>2. CASE j \notin 1..Len(confirmed)
        <5>1. /\ list[j] = unconfirmed[j - Len(confirmed)]
              /\ j - Len(confirmed) \in DOMAIN unconfirmed
          BY <4>2, <2>1, <2>2
        <5>2. QED
          BY <5>1, <2>2
      <4>3. QED
        BY <4>1, <4>2
    <3>3. QED
      BY <3>1, <3>2
  <2>4. First(enough) \in 1..Len(list)
    <3>1. enough \in SUBSET Nat
      OBVIOUS
    <3>2. QED
      BY <1>1, <1>5, <3>1
  <2> DEFINE m == First(enough)
             e == [k \in 1..m |-> list[k]]
  <2>5. SelectInputs(amount) = e
    BY <1>2, <1>5
  <2> HIDE DEF list, enough, m
  <2>6. m \in Nat /\ \A k \in 1..m : k \in DOMAIN list /\ list[k] \in Entry
    BY <2>3, <2>4 DEF m
  <2>7. e \in [1..m -> Entry]
    BY <2>6
  <2>8. e \in Seq(Entry)
    BY <2>6, <2>7
  <2>9. From(e)
    BY <2>3, <2>6
  <2>10. QED
    BY <2>5, <2>8, <2>9
<1>6. QED
  BY <1>3, <1>4, <1>5

----------------------------------------------------------------------------

\* The inductive invariant.
IInv == TypeOK /\ RegistryMatchesStore

\* The states of the three loops that allocate slots, and those of them in
\* which registry and slots agree.

PromotionStates ==
    [utxos : Stores, registry : Seq(Entry), next : ConfirmedPool, full : BOOLEAN]

ArrivalStates ==
    [utxos : Stores, registry : Seq(Entry), next : ConfirmedPool,
     observed : SUBSET (TxIds \X Nat), balances : [Accounts -> Nat],
     total : Nat, aborted : BOOLEAN]

TrackingStates ==
    [utxos : Stores, registry : Seq(Entry), next : UnconfirmedPool, full : BOOLEAN]

Promotions == {st \in PromotionStates : Consistent(st.utxos, st.registry)}
Arrivals == {st \in ArrivalStates : Consistent(st.utxos, st.registry)}
Trackings == {st \in TrackingStates : Consistent(st.utxos, st.registry)}

----------------------------------------------------------------------------
\* map, first part.

LEMMA PromoteTypes ==
    ASSUME NEW st \in PromotionStates, NEW txid, NEW index
    PROVE  LET R == Promote(st, txid, index)
           IN  /\ R \in PromotionStates
               /\ Consistent(st.utxos, st.registry) => Consistent(R.utxos, R.registry)
<1>1. CASE st.full \/ Matching(st, txid, index) = {}
  BY <1>1 DEF Promote
<1>2. CASE /\ ~(st.full \/ Matching(st, txid, index) = {})
           /\ Free(st.utxos, ConfirmedPool) = {}
  <2>1. Promote(st, txid, index) = [st EXCEPT !.full = TRUE]
    BY <1>2 DEF Promote
  <2>2. QED
    BY <2>1 DEF PromotionStates
<1>3. CASE /\ ~(st.full \/ Matching(st, txid, index) = {})
           /\ Free(st.utxos, ConfirmedPool) # {}
  <2> DEFINE p == CHOOSE q \in Matching(st, txid, index) : TRUE
             new == FirstFree(st.utxos, ConfirmedPool, st.next)
             old == st.registry[p].id
             store2 == [st.utxos EXCEPT ![new] = st.utxos[old], ![old] = NoUtxo]
             list2 == [st.registry EXCEPT ![p].id = new]
  <2>1. Promote(st, txid, index) =
            [utxos |-> store2, registry |-> list2, next |-> AfterSlot(new),
             full |-> FALSE]
    BY <1>3 DEF Promote
  <2>2. p \in DOMAIN st.registry
    BY <1>3 DEF Matching
  <2>3. /\ st.utxos \in Stores /\ st.registry \in Seq(Entry)
        /\ st.next \in ConfirmedPool
    BY DEF PromotionStates
  <2>4. new \in Free(st.utxos, ConfirmedPool)
    BY <1>3, <2>3, FirstFreeIsFree
  <2>5. new \in ConfirmedPool /\ new \in Slots /\ st.utxos[new] = NoUtxo
    BY <2>4, PoolsInSlots DEF Free
  <2>6. /\ store2 \in Stores /\ list2 \in Seq(Entry)
        /\ Consistent(st.utxos, st.registry) => Consistent(store2, list2)
    <3> HIDE DEF p, new
    <3> QED
      BY <2>2, <2>3, <2>5, ConsistentMove
  <2>7. AfterSlot(new) \in ConfirmedPool
    BY <2>5, AfterSlotInPool
  <2> HIDE DEF store2, list2, new
  <2>8. QED
    BY <2>1, <2>6, <2>7 DEF PromotionStates
<1>4. QED
  BY <1>1, <1>2, <1>3

LEMMA PromoteStays ==
    ASSUME NEW st \in Promotions, NEW txid, NEW index
    PROVE  Promote(st, txid, index) \in Promotions
BY PromoteTypes DEF Promotions

\* The number of inputs the spend has signing data for, if it is pending.
PendingInputs(txid) ==
    IF txid \in SpendIds /\ spends[txid] # NoTx THEN Len(spends[txid]) ELSE 0

PromotionStart == [utxos |-> utxos, registry |-> registry,
                   next |-> nextId.confirmed, full |-> FALSE]

\* The loop leads from Z[0] to Z[n] where its iteration k leads from Z[k - 1] to
\* Z[k], as far as the states are in Y, which iterations keep.
LEMMA UpdateUtxoSpendsIterates ==
    ASSUME TypeOK, NEW txid, NEW Y, NEW Z, PromotionStart \in Y, PromotionStart \in Z[0],
           \A k \in 1..PendingInputs(txid), x \in Y : Promote(x, txid, k - 1) \in Y,
           \A k \in 1..PendingInputs(txid) : \A x \in Z[k - 1] \cap Y :
               Promote(x, txid, k - 1) \in Z[k]
    PROVE  UpdateUtxoSpends(txid) \in Z[PendingInputs(txid)] \cap Y
<1> DEFINE n == PendingInputs(txid)
           start == [utxos |-> utxos, registry |-> registry,
                     next |-> nextId.confirmed, full |-> FALSE]
           G(k, x) == Promote(x, txid, k - 1)
           g == [p \in (1..n) \X Y |-> G(p[1], p[2])]
           loop[k \in 0..n] ==
               IF k = 0 THEN [utxos |-> utxos, registry |-> registry,
                              next |-> nextId.confirmed, full |-> FALSE]
               ELSE Promote(loop[k - 1], txid, k - 1)
<1>1. n \in Nat
  BY DEF TypeOK, PendingInputs
<1>2. \A k \in 1..n, x \in Y : G(k, x) \in Y
  OBVIOUS
<1>3. start \in Y
  BY DEF PromotionStart
<1>4. UpdateUtxoSpends(txid) = loop[n]
  BY DEF UpdateUtxoSpends, PendingInputs
<1>5. loop = [k \in 0..n |-> IF k = 0 THEN start ELSE G(k, loop[k - 1])]
  <2>1. g \in Iterations(n, Y)
    <3> HIDE DEF n, G
    <3> QED
      BY <1>2 DEF Iterations
  <2>2. PICK f : f \in Runs(n, Y, start, g)
    <3> HIDE DEF g, n, start
    <3> QED
      BY <1>1, <1>3, <2>1, RunExists
  <2>3. f = [k \in 0..n |-> IF k = 0 THEN start ELSE G(k, f[k - 1])]
    <3> HIDE DEF n, start, G
    <3>1. /\ f \in [0..n -> Y] /\ f[0] = start
          /\ \A k \in 1..n : f[k] = g[<<k, f[k - 1]>>]
      BY <2>2 DEF Runs
    <3>2. ASSUME NEW k \in 1..n
          PROVE  f[k] = G(k, f[k - 1])
      <4>1. f[k - 1] \in Y
        BY <1>1, <3>1
      <4>2. QED
        BY <4>1, <3>1
    <3> HIDE DEF g
    <3>3. \A k \in 0..n : k # 0 => k \in 1..n
      BY <1>1
    <3>4. QED
      BY <3>1, <3>2, <3>3
  <2> HIDE DEF n
  <2>4. QED
    BY <2>3
<1>6. start \in Z[0]
  BY DEF PromotionStart
<1>7. \A k \in 1..n : \A x \in Z[k - 1] \cap Y : G(k, x) \in Z[k]
  OBVIOUS
<1> HIDE DEF loop, n, start, G
<1>8. loop[0] = start /\ \A k \in 1..n : loop[k] = G(k, loop[k - 1])
  BY <1>1, <1>5
<1> DEFINE S == {k \in 0..n : loop[k] \in Z[k] \cap Y}
<1>9. 0 \in S
  BY <1>1, <1>3, <1>6, <1>8
<1>10. \A k \in 1..n : k - 1 \in S => k \in S
  BY <1>1, <1>2, <1>7, <1>8
<1> HIDE DEF S
<1>11. 0..n \subseteq S
  BY <1>1, <1>9, <1>10, UpTo
<1>12. loop[n] \in Z[n] \cap Y
  BY <1>1, <1>11 DEF S
<1>13. QED
  BY <1>4, <1>12 DEF n

LEMMA PromotionStarts ==
    ASSUME IInv
    PROVE  PromotionStart \in Promotions /\ PromotionStart.utxos = utxos
BY DEF IInv, TypeOK, RegistryMatchesStore, Promotions, PromotionStates, PromotionStart, Stores

LEMMA UpdateUtxoSpendsRuns ==
    ASSUME IInv, NEW txid, NEW Z, PromotionStart \in Z[0],
           \A k \in 1..PendingInputs(txid) : \A x \in Z[k - 1] \cap Promotions :
               Promote(x, txid, k - 1) \in Z[k]
    PROVE  UpdateUtxoSpends(txid) \in Z[PendingInputs(txid)] \cap Promotions
<1>1. TypeOK /\ PromotionStart \in Promotions
  BY PromotionStarts DEF IInv
<1>2. \A k \in 1..PendingInputs(txid), x \in Promotions :
          Promote(x, txid, k - 1) \in Promotions
  BY PromoteStays
<1>3. QED
  BY <1>1, <1>2, UpdateUtxoSpendsIterates

\* What every iteration keeps, the loop keeps.
LEMMA UpdateUtxoSpendsKeeps ==
    ASSUME TypeOK, NEW txid, NEW Y, PromotionStart \in Y,
           \A x \in Y, index \in Nat : Promote(x, txid, index) \in Y
    PROVE  UpdateUtxoSpends(txid) \in Y
<1> DEFINE n == PendingInputs(txid)
           Z == [k \in 0..n |-> Y]
<1>1. n \in Nat
  BY DEF TypeOK, PendingInputs
<1>2. /\ 0 \in 0..n /\ n \in 0..n
      /\ \A k \in 1..n : k \in 0..n /\ k - 1 \in 0..n /\ k - 1 \in Nat
  BY <1>1
<1>3. \A k \in 0..n : Z[k] = Y
  OBVIOUS
<1>4. \A k \in 1..n, x \in Y : Promote(x, txid, k - 1) \in Y
  BY <1>2
<1> HIDE DEF Z
<1>5. \A k \in 1..n : \A x \in Z[k - 1] \cap Y : Promote(x, txid, k - 1) \in Z[k]
  BY <1>2, <1>3, <1>4
<1>6. UpdateUtxoSpends(txid) \in Z[n] \cap Y
  BY <1>2, <1>3, <1>4, <1>5, UpdateUtxoSpendsIterates
<1>7. QED
  BY <1>6

LEMMA UpdateUtxoSpendsType ==
    ASSUME IInv, NEW txid
    PROVE  UpdateUtxoSpends(txid) \in Promotions
<1>1. TypeOK /\ PromotionStart \in Promotions
  BY PromotionStarts DEF IInv
<1>2. QED
  BY <1>1, PromoteStays, UpdateUtxoSpendsKeeps

----------------------------------------------------------------------------
\* map, second part.

LEMMA OutsType ==
    ASSUME TypeOK, NEW txid \in TxIds, Known(txid)
    PROVE  Outs(txid) \in Seq(TxOut)
<1>1. CASE txid \in Deposits
  <2> DEFINE outs == DepositOuts[txid]
             Paid == [addr : Addresses, amount : Nat]
  <2>1. outs \in Seq(Paid)
    BY <1>1, BtcMappingAssumption
  <2>2. \A v \in 1..Len(outs) : outs[v] \in TxOut
    <3>1. \A v \in 1..Len(outs) : outs[v] \in Paid
      <4> HIDE DEF outs, Paid
      <4> QED
        BY <2>1
    <3>2. QED
      BY <3>1 DEF TxOut
  <2>3. Outs(txid) = outs
    BY <1>1 DEF Outs
  <2> HIDE DEF outs, Paid
  <2>4. outs \in Seq(TxOut)
    BY <2>1, <2>2
  <2>5. QED
    BY <2>3, <2>4
<1>2. CASE txid \notin Deposits
  <2>1. txid \in SpendIds /\ spendTx[txid] # NoTx
    BY <1>2 DEF Known
  <2>2. spendTx[txid] \in Spend
    BY <2>1 DEF TypeOK
  <2>3. QED
    BY <1>2, <2>2 DEF Outs, Spend
<1>3. QED
  BY <1>1, <1>2

LEMMA CreditedType ==
    ASSUME NEW bal \in [Accounts -> Nat], NEW instr \in Instructions,
           NEW sender \in Accounts, NEW amount \in Nat, NEW drawn \in BOOLEAN
    PROVE  Credited(bal, instr, sender, amount, drawn) \in [Accounts -> Nat]
<1>1. Recipient[instr] \in Accounts /\ Router \in Accounts
  BY BtcMappingAssumption
<1>2. \A a \in Accounts : [bal EXCEPT ![a] = @ + amount] \in [Accounts -> Nat]
  OBVIOUS
<1>3. QED
  BY <1>1, <1>2 DEF Credited

LEMMA ProcessOutputTypes ==
    ASSUME TypeOK, NEW txid \in TxIds, Known(txid),
           NEW instrs \in SUBSET Instructions, NEW sender \in Accounts,
           NEW drawn \in BOOLEAN, NEW st \in ArrivalStates, NEW k \in 1..Len(Outs(txid))
    PROVE  LET R == ProcessOutput(st, txid, k - 1, instrs, sender, drawn)
           IN  /\ R \in ArrivalStates
               /\ Consistent(st.utxos, st.registry) => Consistent(R.utxos, R.registry)
<1> DEFINE index == k - 1
           out == Outs(txid)[index + 1]
           new == FirstFree(st.utxos, ConfirmedPool, st.next)
           stops == \/ Free(st.utxos, ConfirmedPool) = {}
                    \/ CreditAborts(st.balances, out.addr, sender, out.amount, drawn)
                    \/ st.total + out.amount > MaxInt64
           passed == Passed(st, txid, index, instrs)
           bal == Credited(st.balances, out.addr, sender, out.amount, drawn)
           u == [txid |-> txid, vout |-> index, amount |-> out.amount,
                 addr |-> out.addr, tag |-> StoredTag(out.addr)]
           e == [id |-> new, amount |-> out.amount]
           R == ProcessOutput(st, txid, index, instrs, sender, drawn)
<1>1. Outs(txid) \in Seq(TxOut)
  BY OutsType
<1>2. index \in Nat /\ out \in TxOut
  BY <1>1
<1>3. CASE passed
  BY <1>3 DEF ProcessOutput
<1>4. CASE ~passed /\ stops
  <2>1. R = [st EXCEPT !.aborted = TRUE]
    BY <1>4 DEF ProcessOutput
  <2> HIDE DEF R
  <2>2. QED
    BY <2>1 DEF ArrivalStates, R
<1>5. CASE ~passed /\ ~stops
  <2>1. R = [utxos    |-> [st.utxos EXCEPT ![new] = u],
             registry |-> Append(st.registry, e),
             next     |-> AfterSlot(new),
             observed |-> st.observed \cup {<<txid, index>>},
             balances |-> bal,
             total    |-> st.total + out.amount,
             aborted  |-> FALSE]
    BY <1>5 DEF ProcessOutput
  <2>2. out.addr \in Instructions
    BY <1>5 DEF Passed
  <2>3. out.amount \in Nat
    BY <2>2, <1>2, BtcMappingAssumption DEF TxOut
  <2>4. /\ st.utxos \in Stores /\ st.registry \in Seq(Entry)
        /\ st.next \in ConfirmedPool
        /\ st.observed \in SUBSET (TxIds \X Nat)
        /\ st.balances \in [Accounts -> Nat] /\ st.total \in Nat
    BY DEF ArrivalStates
  <2>5. new \in Free(st.utxos, ConfirmedPool)
    BY <1>5, <2>4, FirstFreeIsFree
  <2>6. new \in ConfirmedPool /\ new \in Slots /\ st.utxos[new] = NoUtxo
    BY <2>5, PoolsInSlots DEF Free
  <2>7. StoredTag(out.addr) \in Tags /\ out.addr \in Addresses
    BY <2>2, BtcMappingAssumption DEF StoredTag, Tags, Addresses
  <2>8. bal \in [Accounts -> Nat]
    BY <2>2, <2>3, <2>4, CreditedType
  <2> HIDE DEF new, index, out, bal, R
  <2>9. u \in Utxo /\ u.amount = out.amount
    BY <1>2, <2>3, <2>7 DEF Utxo
  <2> HIDE DEF u
  <2>10. /\ [st.utxos EXCEPT ![new] = u] \in Stores
         /\ Append(st.registry, e) \in Seq(Entry)
         /\ Consistent(st.utxos, st.registry)
                => Consistent([st.utxos EXCEPT ![new] = u], Append(st.registry, e))
    BY <2>4, <2>6, <2>9, ConsistentAppend
  <2>11. AfterSlot(new) \in ConfirmedPool
    BY <2>6, AfterSlotInPool
  <2>12. st.total + out.amount \in Nat
    BY <2>3, <2>4
  <2>13. st.observed \cup {<<txid, index>>} \in SUBSET (TxIds \X Nat)
    BY <1>2, <2>4
  <2> HIDE DEF e
  <2>14. /\ R \in ArrivalStates
         /\ Consistent(st.utxos, st.registry) => Consistent(R.utxos, R.registry)
    BY <2>1, <2>8, <2>10, <2>11, <2>12, <2>13 DEF ArrivalStates
  <2>15. QED
    BY <2>14 DEF R, index
<1>6. QED
  BY <1>3, <1>4, <1>5

LEMMA ProcessOutputStays ==
    ASSUME TypeOK, NEW txid \in TxIds, Known(txid),
           NEW instrs \in SUBSET Instructions, NEW sender \in Accounts,
           NEW drawn \in BOOLEAN, NEW st \in Arrivals, NEW k \in 1..Len(Outs(txid))
    PROVE  ProcessOutput(st, txid, k - 1, instrs, sender, drawn) \in Arrivals
BY ProcessOutputTypes DEF Arrivals

LEMMA ProcessUtxosKeeps ==
    ASSUME TypeOK, NEW txid \in TxIds, Known(txid),
           NEW instrs \in SUBSET Instructions, NEW sender \in Accounts,
           NEW drawn \in BOOLEAN, NEW Y, NEW st0 \in Y,
           \A x \in Y, k \in 1..Len(Outs(txid)) :
               ProcessOutput(x, txid, k - 1, instrs, sender, drawn) \in Y
    PROVE  ProcessUtxos(st0, txid, instrs, sender, drawn) \in Y
<1> DEFINE n == Len(Outs(txid))
           G(k, x) == ProcessOutput(x, txid, k - 1, instrs, sender, drawn)
           g == [p \in (1..n) \X Y |-> G(p[1], p[2])]
           loop[k \in 0..n] ==
               IF k = 0 THEN st0
               ELSE ProcessOutput(loop[k - 1], txid, k - 1, instrs, sender, drawn)
<1>1. n \in Nat
  BY OutsType
<1>2. \A k \in 1..n, x \in Y : G(k, x) \in Y
  OBVIOUS
<1>3. st0 \in Y
  OBVIOUS
<1>4. ProcessUtxos(st0, txid, instrs, sender, drawn) = loop[n]
  BY DEF ProcessUtxos
<1>5. loop = [k \in 0..n |-> IF k = 0 THEN st0 ELSE G(k, loop[k - 1])]
  <2>1. g \in Iterations(n, Y)
    <3> HIDE DEF n, G
    <3> QED
      BY <1>2 DEF Iterations
  <2>2. PICK f : f \in Runs(n, Y, st0, g)
    <3> HIDE DEF g, n
    <3> QED
      BY <1>1, <1>3, <2>1, RunExists
  <2>3. f = [k \in 0..n |-> IF k = 0 THEN st0 ELSE G(k, f[k - 1])]
    <3> HIDE DEF n, G
    <3>1. /\ f \in [0..n -> Y] /\ f[0] = st0
          /\ \A k \in 1..n : f[k] = g[<<k, f[k - 1]>>]
      BY <2>2 DEF Runs
    <3>2. ASSUME NEW k \in 1..n
          PROVE  f[k] = G(k, f[k - 1])
      <4>1. f[k - 1] \in Y
        BY <1>1, <3>1
      <4>2. QED
        BY <4>1, <3>1
    <3> HIDE DEF g
    <3>3. \A k \in 0..n : k # 0 => k \in 1..n
      BY <1>1
    <3>4. QED
      BY <3>1, <3>2, <3>3
  <2> HIDE DEF n
  <2>4. QED
    BY <2>3
<1> HIDE DEF loop, n, G
<1>6. loop[0] = st0 /\ \A k \in 1..n : loop[k] = G(k, loop[k - 1])
  BY <1>1, <1>5
<1>7. loop[0] \in Y /\ \A k \in 1..n : loop[k - 1] \in Y => loop[k] \in Y
  BY <1>2, <1>3, <1>6
<1>8. \A k \in 0..n : loop[k] \in Y
  BY <1>1, <1>7, StaysIn
<1>9. QED
  BY <1>1, <1>4, <1>8

LEMMA ProcessUtxosType ==
    ASSUME TypeOK, NEW txid \in TxIds, Known(txid),
           NEW instrs \in SUBSET Instructions, NEW sender \in Accounts,
           NEW drawn \in BOOLEAN, NEW st0 \in Arrivals
    PROVE  ProcessUtxos(st0, txid, instrs, sender, drawn) \in Arrivals
<1>1. \A x \in Arrivals, k \in 1..Len(Outs(txid)) :
          ProcessOutput(x, txid, k - 1, instrs, sender, drawn) \in Arrivals
  BY ProcessOutputStays
<1>2. QED
  BY <1>1, ProcessUtxosKeeps

\* map keeps the invariant.
LEMMA MapKeeps ==
    ASSUME IInv, NEW txid \in TxIds, NEW instrs \in MapInputs,
           NEW sender \in Accounts, NEW drawn \in BOOLEAN,
           Map(txid, instrs, sender, drawn)
    PROVE  IInv'
<1> DEFINE promoted == UpdateUtxoSpends(txid)
           st0 == [utxos |-> promoted.utxos, registry |-> promoted.registry,
                   next |-> promoted.next, observed |-> observed,
                   balances |-> balances, total |-> 0, aborted |-> FALSE]
           st == ProcessUtxos(st0, txid, instrs, sender, drawn)
<1>1. promoted \in Promotions
  BY UpdateUtxoSpendsType
<1>2. st0 \in Arrivals
  <2> HIDE DEF promoted
  <2> QED
    BY <1>1 DEF IInv, TypeOK, Promotions, PromotionStates, Arrivals, ArrivalStates
<1>3. st \in Arrivals
  <2>1. Known(txid) /\ instrs \in SUBSET Instructions /\ TypeOK
    BY BtcMappingAssumption DEF Map, IInv
  <2> HIDE DEF st0
  <2>2. QED
    BY <1>2, <2>1, ProcessUtxosType
<1>4. /\ utxos' = st.utxos
      /\ registry' = st.registry
      /\ nextId' = [nextId EXCEPT !.confirmed = st.next]
      /\ ForgetSpend(txid, promoted.full)
      /\ supply' = [supply EXCEPT !.active = @ + st.total, !.user = @ + st.total]
      /\ balances' = st.balances
      /\ observed' = st.observed
      /\ UNCHANGED spendTx
  BY DEF Map
<1> HIDE DEF promoted, st0, st
<1>5. utxos' \in [Slots -> Utxo \cup {NoUtxo}] /\ registry' \in Seq(Entry)
  BY <1>3, <1>4 DEF Arrivals, ArrivalStates, Stores
<1>6. Consistent(utxos', registry')
  BY <1>3, <1>4 DEF Arrivals, ArrivalStates
<1>7. nextId' \in [confirmed : ConfirmedPool, unconfirmed : UnconfirmedPool]
  BY <1>3, <1>4 DEF Arrivals, ArrivalStates, IInv, TypeOK
<1>8. /\ spends' \in [SpendIds -> Seq(Tags) \cup {NoTx}]
      /\ spendsList' \in Seq(SpendIds)
  <2>1. /\ spends \in [SpendIds -> Seq(Tags) \cup {NoTx}]
        /\ spendsList \in Seq(SpendIds)
    BY DEF IInv, TypeOK
  <2>2. SwapRemove(spendsList, txid) \in Seq(SpendIds)
    BY <2>1, SwapRemoveType
  <2>3. QED
    BY <1>4, <2>1, <2>2 DEF ForgetSpend
<1>9. supply' \in [active : Int, user : Int, fee : Int, baseFeeRate : Nat]
  <2>1. supply \in [active : Int, user : Int, fee : Int, baseFeeRate : Nat]
    BY DEF IInv, TypeOK
  <2>2. st.total \in Nat
    BY <1>3 DEF Arrivals, ArrivalStates
  <2>3. supply.active + st.total \in Int /\ supply.user + st.total \in Int
    BY <2>1, <2>2
  <2>4. QED
    BY <1>4, <2>1, <2>3
<1>10. balances' \in [Accounts -> Nat] /\ observed' \subseteq TxIds \X Nat
  BY <1>3, <1>4 DEF Arrivals, ArrivalStates
<1>11. spendTx' \in [SpendIds -> Spend \cup {NoTx}]
  BY <1>4 DEF IInv, TypeOK
<1>12. QED
  BY <1>5, <1>6, <1>7, <1>8, <1>9, <1>10, <1>11
     DEF IInv, TypeOK, RegistryMatchesStore, Consistent

----------------------------------------------------------------------------
\* transfer and addBlocks.

LEMMA TransferTypes ==
    ASSUME TypeOK, NEW from \in Accounts, NEW to \in Accounts,
           NEW amount \in TransferAmounts, Transfer(from, to, amount)
    PROVE  TypeOK'
<1>1. /\ balances \in [Accounts -> Nat] /\ amount \in Nat
      /\ balances[from] >= amount
  BY BtcMappingAssumption DEF TypeOK, Transfer
<1> DEFINE deducted == [balances EXCEPT ![from] = @ - amount]
<1>2. balances[from] - amount \in Nat
  BY <1>1
<1>3. deducted \in [Accounts -> Nat]
  BY <1>1, <1>2
<1>4. balances' = [deducted EXCEPT ![to] = @ + amount]
  BY DEF Transfer
<1> HIDE DEF deducted
<1>5. deducted[to] + amount \in Nat
  BY <1>1, <1>3
<1>6. balances' \in [Accounts -> Nat]
  BY <1>3, <1>4, <1>5
<1>7. UNCHANGED <<utxos, registry, nextId, spends, spendsList, supply, observed,
                  spendTx>>
  BY DEF Transfer
<1>8. QED
  BY <1>6, <1>7 DEF TypeOK

LEMMA AddBlocksTypes ==
    ASSUME TypeOK, NEW rate \in FeeRates, AddBlocks(rate)
    PROVE  TypeOK'
<1>1. supply' \in [active : Int, user : Int, fee : Int, baseFeeRate : Nat]
  BY BtcMappingAssumption DEF TypeOK, AddBlocks
<1>2. UNCHANGED <<utxos, registry, nextId, spends, spendsList, balances, observed,
                  spendTx>>
  BY DEF AddBlocks
<1>3. QED
  BY <1>1, <1>2 DEF TypeOK

LEMMA SameRegistry ==
    ASSUME IInv, TypeOK', UNCHANGED <<utxos, registry>>
    PROVE  IInv'
BY DEF IInv, RegistryMatchesStore, Consistent

LEMMA TransferKeeps ==
    ASSUME IInv, NEW from \in Accounts, NEW to \in Accounts,
           NEW amount \in TransferAmounts, Transfer(from, to, amount)
    PROVE  IInv'
<1>1. TypeOK' /\ UNCHANGED <<utxos, registry>>
  BY TransferTypes DEF IInv, Transfer
<1>2. QED
  BY <1>1, SameRegistry

LEMMA AddBlocksKeeps ==
    ASSUME IInv, NEW rate \in FeeRates, AddBlocks(rate)
    PROVE  IInv'
<1>1. TypeOK' /\ UNCHANGED <<utxos, registry>>
  BY AddBlocksTypes DEF IInv, AddBlocks
<1>2. QED
  BY <1>1, SameRegistry

----------------------------------------------------------------------------
\* unmap.

LEMMA TrackOutputTypes ==
    ASSUME NEW txid \in SpendIds, NEW outs \in Seq(TxOut), NEW st \in TrackingStates,
           NEW k \in 1..Len(outs)
    PROVE  LET R == TrackOutput(st, txid, outs, k - 1)
           IN  /\ R \in TrackingStates
               /\ Consistent(st.utxos, st.registry) => Consistent(R.utxos, R.registry)
<1> DEFINE index == k - 1
           out == outs[index + 1]
           new == FirstFree(st.utxos, UnconfirmedPool, st.next)
           u == [txid |-> txid, vout |-> index, amount |-> out.amount,
                 addr |-> out.addr, tag |-> StoredTag(out.addr)]
           e == [id |-> new, amount |-> out.amount]
           R == TrackOutput(st, txid, outs, index)
<1>1. index \in Nat /\ out \in TxOut
  OBVIOUS
<1>2. CASE st.full \/ out.addr # ChangeAddress
  BY <1>2 DEF TrackOutput
<1>3. CASE /\ ~(st.full \/ out.addr # ChangeAddress)
           /\ Free(st.utxos, UnconfirmedPool) = {}
  <2>1. R = [st EXCEPT !.full = TRUE]
    BY <1>3 DEF TrackOutput
  <2> HIDE DEF R
  <2>2. QED
    BY <2>1 DEF TrackingStates, R
<1>4. CASE /\ ~(st.full \/ out.addr # ChangeAddress)
           /\ Free(st.utxos, UnconfirmedPool) # {}
  <2>1. R = [utxos    |-> [st.utxos EXCEPT ![new] = u],
             registry |-> Append(st.registry, e),
             next     |-> AfterSlot(new),
             full     |-> FALSE]
    BY <1>4 DEF TrackOutput
  <2>2. /\ st.utxos \in Stores /\ st.registry \in Seq(Entry)
        /\ st.next \in UnconfirmedPool
    BY DEF TrackingStates
  <2>3. new \in Free(st.utxos, UnconfirmedPool)
    BY <1>4, <2>2, FirstFreeIsFree
  <2>4. new \in UnconfirmedPool /\ new \in Slots /\ st.utxos[new] = NoUtxo
    BY <2>3, PoolsInSlots DEF Free
  <2>5. /\ StoredTag(out.addr) \in Tags /\ out.addr \in Addresses
        /\ out.amount \in Int
    BY <1>1, <1>4 DEF StoredTag, Tags, Addresses, TxOut
  <2> HIDE DEF new, index, out, R
  <2>6. u \in Utxo /\ u.amount = out.amount
    BY <1>1, <2>5 DEF Utxo, TxIds
  <2> HIDE DEF u
  <2>7. /\ [st.utxos EXCEPT ![new] = u] \in Stores
        /\ Append(st.registry, e) \in Seq(Entry)
        /\ Consistent(st.utxos, st.registry)
               => Consistent([st.utxos EXCEPT ![new] = u], Append(st.registry, e))
    BY <2>2, <2>4, <2>6, ConsistentAppend
  <2>8. AfterSlot(new) \in UnconfirmedPool
    BY <2>4, AfterSlotInPool
  <2> HIDE DEF e
  <2>9. /\ R \in TrackingStates
        /\ Consistent(st.utxos, st.registry) => Consistent(R.utxos, R.registry)
    BY <2>1, <2>7, <2>8 DEF TrackingStates
  <2>10. QED
    BY <2>9 DEF R, index
<1>5. QED
  BY <1>2, <1>3, <1>4

LEMMA TrackOutputStays ==
    ASSUME NEW txid \in SpendIds, NEW outs \in Seq(TxOut), NEW st \in Trackings,
           NEW k \in 1..Len(outs)
    PROVE  TrackOutput(st, txid, outs, k - 1) \in Trackings
BY TrackOutputTypes DEF Trackings

TrackingStart == [utxos |-> utxos, registry |-> registry,
                  next |-> nextId.unconfirmed, full |-> FALSE]

\* What the iterations keep may depend on how many there have been.
LEMMA TrackOutputsIterates ==
    ASSUME NEW txid, NEW outs \in Seq(TxOut), NEW Y, NEW Z,
           TrackingStart \in Y, TrackingStart \in Z[0],
           \A k \in 1..Len(outs), x \in Y : TrackOutput(x, txid, outs, k - 1) \in Y,
           \A k \in 1..Len(outs) : \A x \in Z[k - 1] \cap Y :
               TrackOutput(x, txid, outs, k - 1) \in Z[k]
    PROVE  TrackOutputs(txid, outs) \in Z[Len(outs)] \cap Y
<1> DEFINE n == Len(outs)
           start == [utxos |-> utxos, registry |-> registry,
                     next |-> nextId.unconfirmed, full |-> FALSE]
           G(k, x) == TrackOutput(x, txid, outs, k - 1)
           g == [p \in (1..n) \X Y |-> G(p[1], p[2])]
           loop[k \in 0..n] ==
               IF k = 0 THEN [utxos |-> utxos, registry |-> registry,
                              next |-> nextId.unconfirmed, full |-> FALSE]
               ELSE TrackOutput(loop[k - 1], txid, outs, k - 1)
<1>1. n \in Nat
  OBVIOUS
<1>2. \A k \in 1..n, x \in Y : G(k, x) \in Y
  OBVIOUS
<1>3. start \in Y
  BY DEF TrackingStart
<1>4. TrackOutputs(txid, outs) = loop[n]
  BY DEF TrackOutputs
<1>5. loop = [k \in 0..n |-> IF k = 0 THEN start ELSE G(k, loop[k - 1])]
  <2>1. g \in Iterations(n, Y)
    <3> HIDE DEF n, G
    <3> QED
      BY <1>2 DEF Iterations
  <2>2. PICK f : f \in Runs(n, Y, start, g)
    <3> HIDE DEF g, n, start
    <3> QED
      BY <1>1, <1>3, <2>1, RunExists
  <2>3. f = [k \in 0..n |-> IF k = 0 THEN start ELSE G(k, f[k - 1])]
    <3> HIDE DEF n, start, G
    <3>1. /\ f \in [0..n -> Y] /\ f[0] = start
          /\ \A k \in 1..n : f[k] = g[<<k, f[k - 1]>>]
      BY <2>2 DEF Runs
    <3>2. ASSUME NEW k \in 1..n
          PROVE  f[k] = G(k, f[k - 1])
      <4>1. f[k - 1] \in Y
        BY <1>1, <3>1
      <4>2. QED
        BY <4>1, <3>1
    <3> HIDE DEF g
    <3>3. \A k \in 0..n : k # 0 => k \in 1..n
      BY <1>1
    <3>4. QED
      BY <3>1, <3>2, <3>3
  <2> HIDE DEF n
  <2>4. QED
    BY <2>3
<1>6. start \in Z[0]
  BY DEF TrackingStart
<1>7. \A k \in 1..n : \A x \in Z[k - 1] \cap Y : G(k, x) \in Z[k]
  OBVIOUS
<1> HIDE DEF loop, n, start, G
<1>8. loop[0] = start /\ \A k \in 1..n : loop[k] = G(k, loop[k - 1])
  BY <1>1, <1>5
<1> DEFINE S == {k \in 0..n : loop[k] \in Z[k] \cap Y}
<1>9. 0 \in S
  BY <1>1, <1>3, <1>6, <1>8
<1>10. \A k \in 1..n : k - 1 \in S => k \in S
  BY <1>1, <1>2, <1>7, <1>8
<1> HIDE DEF S
<1>11. 0..n \subseteq S
  BY <1>1, <1>9, <1>10, UpTo
<1>12. loop[n] \in Z[n] \cap Y
  BY <1>1, <1>11 DEF S
<1>13. QED
  BY <1>4, <1>12 DEF n

LEMMA TrackingStarts ==
    ASSUME IInv
    PROVE  TrackingStart \in Trackings /\ TrackingStart.utxos = utxos
BY DEF IInv, TypeOK, RegistryMatchesStore, Trackings, TrackingStates, TrackingStart, Stores

LEMMA TrackOutputsKeeps ==
    ASSUME IInv, NEW txid \in SpendIds, NEW outs \in Seq(TxOut), NEW Z,
           TrackingStart \in Z[0],
           \A k \in 1..Len(outs) : \A x \in Z[k - 1] \cap Trackings :
               TrackOutput(x, txid, outs, k - 1) \in Z[k]
    PROVE  TrackOutputs(txid, outs) \in Z[Len(outs)] \cap Trackings
<1>1. TrackingStart \in Trackings
  BY TrackingStarts
<1>2. \A k \in 1..Len(outs), x \in Trackings :
          TrackOutput(x, txid, outs, k - 1) \in Trackings
  BY TrackOutputStays
<1>3. QED
  BY <1>1, <1>2, TrackOutputsIterates

LEMMA TrackOutputsKeep ==
    ASSUME NEW txid, NEW outs \in Seq(TxOut), NEW Y,
           TrackingStart \in Y,
           \A k \in 1..Len(outs), x \in Y : TrackOutput(x, txid, outs, k - 1) \in Y
    PROVE  TrackOutputs(txid, outs) \in Y
<1> DEFINE Z == [k \in 0..Len(outs) |-> Y]
<1>1. Len(outs) \in Nat
  OBVIOUS
<1>2. \A k \in 0..Len(outs) : Z[k] = Y
  OBVIOUS
<1>3. /\ 0 \in 0..Len(outs) /\ Len(outs) \in 0..Len(outs)
      /\ \A k \in 1..Len(outs) : k \in 0..Len(outs) /\ k - 1 \in 0..Len(outs)
  BY <1>1
<1> HIDE DEF Z
<1>4. \A k \in 1..Len(outs) : \A x \in Z[k - 1] \cap Y :
          TrackOutput(x, txid, outs, k - 1) \in Z[k]
  BY <1>2, <1>3
<1>5. TrackOutputs(txid, outs) \in Z[Len(outs)] \cap Y
  BY <1>2, <1>3, <1>4, TrackOutputsIterates
<1>6. QED
  BY <1>5

LEMMA SpendOutsType ==
    ASSUME NEW dest \in Addresses, NEW amount \in Nat, NEW totalChange \in Int,
           NEW fee \in Int
    PROVE  SpendOuts(dest, amount, totalChange, fee) \in Seq(TxOut)
<1> DEFINE change == ChangeAmounts(totalChange, fee)
           paid == [k \in DOMAIN change |->
                       [addr |-> ChangeAddress, amount |-> change[k]]]
           first == [addr |-> dest, amount |-> amount]
<1>1. change \in Seq(Int)
  BY ChangeAmountsType
<1> HIDE DEF change
<1>2. Len(change) \in Nat /\ DOMAIN change = 1..Len(change)
  BY <1>1
<1>3. \A k \in 1..Len(change) : change[k] \in Int
  BY <1>1
<1>4. \A k \in 1..Len(change) : [addr |-> ChangeAddress, amount |-> change[k]] \in TxOut
  BY <1>3 DEF TxOut, Addresses
<1>5. paid \in [1..Len(change) -> TxOut]
  BY <1>2, <1>4
<1> HIDE DEF paid
<1>6. paid \in Seq(TxOut)
  BY <1>2, <1>5
<1>7. first \in TxOut
  BY DEF TxOut
<1> HIDE DEF first
<1>8. <<first>> \o paid \in Seq(TxOut)
  BY <1>6, <1>7
<1>9. QED
  BY <1>8 DEF SpendOuts, first, paid, change

\* What a withdrawal is made of: outputs of the registry go in, and the points,
\* tags and outputs of the transaction are such.
LEMMA UnmapParts ==
    ASSUME TypeOK, NEW sender \in Accounts, NEW amount \in UnmapAmounts,
           NEW dest \in Addresses, NEW txid \in SpendIds,
           Unmap(sender, amount, dest, txid)
    PROVE  LET entries == SelectInputs(amount)
               inputs == [j \in DOMAIN entries |-> utxos[entries[j].id]]
               total == PrefixSum(Amounts(entries), Len(entries))
               scripts == [j \in DOMAIN inputs |-> ScriptSize(inputs[j].tag)]
               fee == SpendFee(Len(entries), PrefixSum(scripts, Len(scripts)),
                               DestSize(dest), total - amount, supply.baseFeeRate)
           IN  /\ entries \in Seq(Entry)
               /\ \A j \in DOMAIN entries : utxos[entries[j].id] \in Utxo
               /\ fee \in Int
               /\ [j \in DOMAIN inputs |-> <<inputs[j].txid, inputs[j].vout>>]
                       \in Seq(TxIds \X Nat)
               /\ [j \in DOMAIN inputs |-> inputs[j].tag] \in Seq(Tags)
               /\ SpendOuts(dest, amount, total - amount, fee) \in Seq(TxOut)
<1> DEFINE entries == SelectInputs(amount)
           inputs == [j \in DOMAIN entries |-> utxos[entries[j].id]]
           total == PrefixSum(Amounts(entries), Len(entries))
           scripts == [j \in DOMAIN inputs |-> ScriptSize(inputs[j].tag)]
           fee == SpendFee(Len(entries), PrefixSum(scripts, Len(scripts)),
                           DestSize(dest), total - amount, supply.baseFeeRate)
           outs == SpendOuts(dest, amount, total - amount, fee)
           points == [j \in DOMAIN inputs |-> <<inputs[j].txid, inputs[j].vout>>]
           tags == [j \in DOMAIN inputs |-> inputs[j].tag]
           n == Len(entries)
<1>0. NoUtxo \notin {inputs[j] : j \in DOMAIN inputs}
  BY DEF Unmap
<1>1. amount \in Nat
  BY BtcMappingAssumption
<1>2. entries \in Seq(Entry)
  BY SelectInputsFacts DEF TypeOK
<1> HIDE DEF entries
<1>3. n \in Nat /\ DOMAIN entries = 1..n
  BY <1>2
<1>4. \A j \in 1..n : inputs[j] \in Utxo
  <2>1. SUFFICES ASSUME NEW j \in 1..n PROVE utxos[entries[j].id] \in Utxo
    BY <1>3
  <2>2. entries[j] \in Entry
    BY <1>2, <1>3
  <2>3. entries[j].id \in Slots
    BY <2>2 DEF Entry
  <2>4. utxos[entries[j].id] # NoUtxo
    BY <1>0, <1>3
  <2>5. QED
    BY <2>3, <2>4 DEF TypeOK
<1>5. DOMAIN inputs = 1..n
  BY <1>3
<1> HIDE DEF n
<1>6. \A j \in 1..n :
          /\ inputs[j].txid \in TxIds /\ inputs[j].vout \in Nat
          /\ inputs[j].tag \in Tags
  <2> HIDE DEF inputs
  <2> QED
    BY <1>4 DEF Utxo
<1> HIDE DEF inputs
<1>7. points \in Seq(TxIds \X Nat) /\ tags \in Seq(Tags)
  <2>1. points \in [1..n -> TxIds \X Nat] /\ tags \in [1..n -> Tags]
    BY <1>5, <1>6
  <2> HIDE DEF points, tags
  <2>2. QED
    BY <2>1, <1>3
<1>8. total \in Int
  <2>1. Amounts(entries) \in Seq(Int) /\ Len(Amounts(entries)) = n
    BY <1>2, AmountsType DEF n
  <2>2. n \in 0..Len(Amounts(entries))
    BY <1>3, <2>1
  <2>3. QED
    BY <2>1, <2>2, PrefixSumType DEF n
<1>9. PrefixSum(scripts, Len(scripts)) \in Int
  <2>1. \A j \in 1..n : ScriptSize(inputs[j].tag) \in Int
    BY BtcMappingAssumption DEF ScriptSize
  <2>2. scripts \in [1..n -> Int]
    BY <1>5, <2>1
  <2> HIDE DEF scripts
  <2>3. scripts \in Seq(Int) /\ Len(scripts) \in 0..Len(scripts)
    BY <1>3, <2>2
  <2>4. QED
    BY <2>3, PrefixSumType
<1>10. DestSize(dest) \in Int
  BY BtcMappingAssumption DEF DestSize, ChangeOutputSize
<1>11. supply \in [active : Int, user : Int, fee : Int, baseFeeRate : Nat]
  BY DEF TypeOK
<1> HIDE DEF total
<1>12. total - amount \in Int
  BY <1>1, <1>8
<1>13. fee \in Int
  <2> DEFINE x == PrefixSum(scripts, Len(scripts))
             c == total - amount
             r == supply.baseFeeRate
             d == DestSize(dest)
  <2>1. x \in Int /\ c \in Int /\ r \in Nat /\ d \in Int
    BY <1>9, <1>10, <1>11, <1>12
  <2> HIDE DEF x, c, r, d
  <2>2. SpendFee(n, x, d, c, r) \in Int
    BY <1>3, <2>1, FeeTypes
  <2>3. QED
    BY <2>2 DEF x, c, r, d, n
<1> HIDE DEF fee, scripts
<1>14. outs \in Seq(TxOut)
  <2> DEFINE c == total - amount
  <2>1. c \in Int
    BY <1>12
  <2> HIDE DEF c
  <2>2. SpendOuts(dest, amount, c, fee) \in Seq(TxOut)
    BY <1>1, <1>13, <2>1, SpendOutsType
  <2>3. QED
    BY <2>2 DEF c
<1>15. \A j \in DOMAIN entries : utxos[entries[j].id] \in Utxo
  BY <1>3, <1>4 DEF inputs
<1> HIDE DEF outs, points, tags
<1>16. QED
  BY <1>2, <1>7, <1>13, <1>14, <1>15 DEF entries, inputs, total, scripts, fee, outs, points, tags, n

LEMMA TrackOutputsType ==
    ASSUME IInv, NEW txid \in SpendIds, NEW outs \in Seq(TxOut)
    PROVE  TrackOutputs(txid, outs) \in Trackings
<1>1. TrackingStart \in Trackings
  BY TrackingStarts
<1>2. \A k \in 1..Len(outs), x \in Trackings :
          TrackOutput(x, txid, outs, k - 1) \in Trackings
  BY TrackOutputStays
<1>3. QED
  BY <1>1, <1>2, TrackOutputsKeep

\* unmap keeps the types.
LEMMA UnmapTypes ==
    ASSUME TypeOK, NEW sender \in Accounts, NEW amount \in UnmapAmounts,
           NEW dest \in Addresses, NEW txid \in SpendIds,
           Unmap(sender, amount, dest, txid)
    PROVE  TypeOK'
<1> DEFINE entries == SelectInputs(amount)
           inputs == [j \in DOMAIN entries |-> utxos[entries[j].id]]
           inputIds == {entries[j].id : j \in DOMAIN entries}
           total == PrefixSum(Amounts(entries), Len(entries))
           scripts == [j \in DOMAIN inputs |-> ScriptSize(inputs[j].tag)]
           fee == SpendFee(Len(entries), PrefixSum(scripts, Len(scripts)),
                           DestSize(dest), total - amount, supply.baseFeeRate)
           outs == SpendOuts(dest, amount, total - amount, fee)
           finalAmt == amount + VscFee(amount) + fee
           st == TrackOutputs(txid, outs)
           points == [j \in DOMAIN inputs |-> <<inputs[j].txid, inputs[j].vout>>]
           tags == [j \in DOMAIN inputs |-> inputs[j].tag]
<1>1. /\ balances[sender] >= finalAmt
      /\ utxos' = [s \in Slots |-> IF s \in inputIds THEN NoUtxo ELSE st.utxos[s]]
      /\ registry' = EntriesIn(st.registry, Slots \ inputIds)
      /\ nextId' = [nextId EXCEPT !.unconfirmed = st.next]
      /\ spends' = [spends EXCEPT ![txid] = tags]
      /\ spendsList' = Append(spendsList, txid)
      /\ supply' = [supply EXCEPT !.active = @ - finalAmt, !.user = @ - finalAmt,
                                  !.fee = @ + VscFee(amount)]
      /\ balances' = [balances EXCEPT ![sender] = @ - finalAmt]
      /\ spendTx' = [spendTx EXCEPT ![txid] = [ins |-> points, outs |-> outs, fee |-> fee]]
      /\ UNCHANGED observed
  BY DEF Unmap
<1>2. amount \in Nat
  BY BtcMappingAssumption
<1>3. /\ points \in Seq(TxIds \X Nat) /\ tags \in Seq(Tags)
      /\ outs \in Seq(TxOut) /\ fee \in Int
  BY UnmapParts
<1>4. supply \in [active : Int, user : Int, fee : Int, baseFeeRate : Nat]
  BY DEF TypeOK
<1> HIDE DEF entries, inputs, total, scripts, fee, outs
<1>5. st \in TrackingStates
  <2>1. TrackingStart \in TrackingStates
    BY DEF TypeOK, TrackingStates, TrackingStart, Stores
  <2>2. \A k \in 1..Len(outs), x \in TrackingStates :
            TrackOutput(x, txid, outs, k - 1) \in TrackingStates
    BY <1>3, TrackOutputTypes
  <2>3. QED
    BY <1>3, <2>1, <2>2, TrackOutputsKeep
<1> HIDE DEF st, points, tags
<1>6. utxos' \in [Slots -> Utxo \cup {NoUtxo}] /\ registry' \in Seq(Entry)
  <2>1. st.utxos \in Stores /\ st.registry \in Seq(Entry)
    BY <1>5 DEF TrackingStates
  <2> HIDE DEF inputIds
  <2>2. QED
    BY <1>1, <2>1, ConsistentRemove DEF Stores
<1>7. nextId' \in [confirmed : ConfirmedPool, unconfirmed : UnconfirmedPool]
  BY <1>1, <1>5 DEF TrackingStates, TypeOK
<1>8. /\ spends' \in [SpendIds -> Seq(Tags) \cup {NoTx}]
       /\ spendsList' \in Seq(SpendIds)
  BY <1>1, <1>3 DEF TypeOK
<1>9. spendTx' \in [SpendIds -> Spend \cup {NoTx}]
  <2>1. [ins |-> points, outs |-> outs, fee |-> fee] \in Spend
    BY <1>3, <1>3, <1>3 DEF Spend
  <2>2. QED
    BY <1>1, <2>1 DEF TypeOK
<1>10. VscFee(amount) \in Int
  BY <1>2, VscFeeType
<1>11. finalAmt \in Int
  BY <1>2, <1>3, <1>10
<1> HIDE DEF finalAmt
<1>12. supply' \in [active : Int, user : Int, fee : Int, baseFeeRate : Nat]
  <2> DEFINE f == VscFee(amount)
  <2>1. f \in Int /\ supply' = [supply EXCEPT !.active = @ - finalAmt,
                                             !.user = @ - finalAmt, !.fee = @ + f]
    BY <1>1, <1>10
  <2> HIDE DEF f
  <2>2. /\ supply.active - finalAmt \in Int /\ supply.user - finalAmt \in Int
        /\ supply.fee + f \in Int
    BY <1>4, <1>11, <2>1
  <2>3. QED
    BY <1>4, <2>1, <2>2
<1>13. balances' \in [Accounts -> Nat] /\ observed' \subseteq TxIds \X Nat
  <2>1. balances \in [Accounts -> Nat] /\ observed \subseteq TxIds \X Nat
    BY DEF TypeOK
  <2>2. balances[sender] - finalAmt \in Nat
    BY <1>1, <1>11, <2>1
  <2>3. QED
    BY <1>1, <2>1, <2>2
<1>14. QED
  BY <1>6, <1>7, <1>8, <1>9, <1>12, <1>13
     DEF TypeOK

\* unmap keeps the invariant.
LEMMA UnmapKeeps ==
    ASSUME IInv, NEW sender \in Accounts, NEW amount \in UnmapAmounts,
           NEW dest \in Addresses, NEW txid \in SpendIds,
           Unmap(sender, amount, dest, txid)
    PROVE  IInv'
<1> DEFINE entries == SelectInputs(amount)
           inputs == [j \in DOMAIN entries |-> utxos[entries[j].id]]
           inputIds == {entries[j].id : j \in DOMAIN entries}
           total == PrefixSum(Amounts(entries), Len(entries))
           scripts == [j \in DOMAIN inputs |-> ScriptSize(inputs[j].tag)]
           fee == SpendFee(Len(entries), PrefixSum(scripts, Len(scripts)),
                           DestSize(dest), total - amount, supply.baseFeeRate)
           outs == SpendOuts(dest, amount, total - amount, fee)
           st == TrackOutputs(txid, outs)
<1>1. /\ utxos' = [s \in Slots |-> IF s \in inputIds THEN NoUtxo ELSE st.utxos[s]]
      /\ registry' = EntriesIn(st.registry, Slots \ inputIds)
  BY DEF Unmap
<1>2. TypeOK' /\ outs \in Seq(TxOut)
  BY UnmapTypes, UnmapParts DEF IInv
<1> HIDE DEF entries, inputs, inputIds, total, scripts, fee, outs
<1>3. st \in Trackings
  BY <1>2, TrackOutputsType
<1> HIDE DEF st
<1>4. st.utxos \in Stores /\ st.registry \in Seq(Entry) /\ Consistent(st.utxos, st.registry)
  BY <1>3 DEF Trackings, TrackingStates
<1>5. Consistent(utxos', registry')
  BY <1>1, <1>4, ConsistentRemove
<1>6. QED
  BY <1>2, <1>5 DEF IInv, RegistryMatchesStore, Consistent

----------------------------------------------------------------------------
\* The theorems.

LEMMA InitHolds == Init => IInv
<1> SUFFICES ASSUME Init PROVE IInv
  OBVIOUS
<1>1. Slots \cap {s \in Slots : utxos[s] # NoUtxo} = {} /\ registry = <<>>
  BY DEF Init
<1>2. Consistent(utxos, registry)
  BY <1>1 DEF Consistent
<1>3. ConfirmedStart \in ConfirmedPool /\ 0 \in UnconfirmedPool
  BY SlotPoolsAssumption DEF ConfirmedPool, UnconfirmedPool
<1>4. nextId \in [confirmed : ConfirmedPool, unconfirmed : UnconfirmedPool]
  BY <1>3 DEF Init
<1>5. QED
  BY <1>2, <1>4 DEF Init, IInv, TypeOK, RegistryMatchesStore

LEMMA NextKeeps == IInv /\ [Next]_vars => IInv'
<1> SUFFICES ASSUME IInv, [Next]_vars PROVE IInv'
  OBVIOUS
<1>1. ASSUME NEW txid \in TxIds, NEW instrs \in MapInputs, NEW sender \in Accounts,
             NEW drawn \in BOOLEAN, Map(txid, instrs, sender, drawn)
      PROVE  IInv'
  BY <1>1, MapKeeps
<1>2. ASSUME NEW sender \in Accounts, NEW amount \in UnmapAmounts,
             NEW dest \in Addresses, NEW txid \in SpendIds,
             Unmap(sender, amount, dest, txid)
      PROVE  IInv'
  BY <1>2, UnmapKeeps
<1>3. ASSUME NEW from \in Accounts, NEW to \in Accounts, NEW amount \in TransferAmounts,
             Transfer(from, to, amount)
      PROVE  IInv'
  BY <1>3, TransferKeeps
<1>4. ASSUME NEW rate \in FeeRates, AddBlocks(rate)
      PROVE  IInv'
  BY <1>4, AddBlocksKeeps
<1>5. CASE UNCHANGED vars
  BY <1>5 DEF vars, IInv, TypeOK, RegistryMatchesStore, Consistent
<1>6. QED
  BY <1>1, <1>2, <1>3, <1>4, <1>5 DEF Next

LEMMA InvariantHolds == Spec => []IInv
<1>1. QED
  BY InitHolds, NextKeeps, PTL DEF Spec

\* Every state key of the contract holds a value of its type: balances never
\* fall below zero, the counters never leave their pools, and unmap never
\* loads a slot that is not set, for the tags it stores are all tags.
THEOREM BtcMappingType == Spec => []TypeOK
<1>1. IInv => TypeOK
  BY DEF IInv
<1>2. QED
  BY <1>1, InvariantHolds, PTL

\* The registry and the slots name the same outputs with the same amounts,
\* each once, after any sequence of maps and withdrawals: the promotions of
\* a confirmation, also those cut short by a full pool, deposits, selection
\* and change keep them in step.
THEOREM RegistryAgreesWithStore == Spec => []RegistryMatchesStore
<1>1. IInv => RegistryMatchesStore
  BY DEF IInv
<1>2. QED
  BY <1>1, InvariantHolds, PTL

----------------------------------------------------------------------------
\* Custody: an output is tracked once, is spent by one withdrawal at most and
\* is not lost before it is; and the list of pending spends is in step with
\* their data.
\*
\* None of these is inductive.  What makes them so is Noticed: whatever is
\* tracked or spent was either observed by map, which marks it, or is the
\* change of a withdrawal, which pays no address of an instruction.  An output
\* that is about to be tracked is neither, so it is new.

PointOf(u) == <<u.txid, u.vout>>

Spent == UNION {SpentPoints(t) : t \in Made}

\* The outputs the contract has noticed, when it has observed obs.
Noticed(obs) ==
    {p \in TxIds \X Nat :
        \/ p \in obs
        \/ /\ p[1] \in SpendIds /\ spendTx[p[1]] # NoTx
           /\ p[2] + 1 \in DOMAIN spendTx[p[1]].outs
           /\ spendTx[p[1]].outs[p[2] + 1].addr = ChangeAddress}

\* The store tracks points of a set only, each in one slot.
Tracks(store, points) ==
    /\ \A s, t \in Slots :
          store[s] # NoUtxo /\ store[t] # NoUtxo /\ PointOf(store[s]) = PointOf(store[t])
              => s = t
    /\ \A s \in Slots : store[s] # NoUtxo => PointOf(store[s]) \in points

\* The store has every output that is tracked before the call.
Holds(store) == \A s \in Used : \E t \in Slots : store[t] = utxos[s]

Pending ==
    /\ SpendsListed
    /\ \A t \in SpendIds : spends[t] # NoTx => spendTx[t] # NoTx

CustodyInv ==
    /\ Tracks(utxos, Noticed(observed) \ Spent)
    /\ Spent \subseteq Noticed(observed)
    /\ \A p \in observed : Known(p[1])
    /\ NoDoubleSpend
    /\ Pending

----------------------------------------------------------------------------
\* Stores.

LEMMA NoticedGrows ==
    ASSUME NEW obs, NEW obs2, obs \subseteq obs2
    PROVE  Noticed(obs) \subseteq Noticed(obs2)
  BY DEF Noticed

LEMMA SpentUnchanged ==
    ASSUME UNCHANGED spendTx
    PROVE  Spent' = Spent /\ (NoDoubleSpend => NoDoubleSpend')
<1>1. Made' = Made /\ \A t \in Made : SpentPoints(t)' = SpentPoints(t)
  BY DEF Made, SpentPoints
<1>2. Spent' = UNION {SpentPoints(t)' : t \in Made'}
  BY DEF Spent
<1>3. Spent' = Spent
  BY <1>1, <1>2 DEF Spent
<1>4. NoDoubleSpend => NoDoubleSpend'
  BY <1>1 DEF NoDoubleSpend
<1>5. QED
  BY <1>3, <1>4

\* A promotion moves an output to a free slot.
LEMMA MoveKeeps ==
    ASSUME NEW store \in Stores, NEW new \in Slots, NEW old \in Slots,
           store[new] = NoUtxo, store[old] # NoUtxo,
           NEW points, Tracks(store, points), Holds(store)
    PROVE  LET store2 == [store EXCEPT ![new] = store[old], ![old] = NoUtxo]
           IN  Tracks(store2, points) /\ Holds(store2)
<1> DEFINE store2 == [store EXCEPT ![new] = store[old], ![old] = NoUtxo]
           From(s) == IF s = new THEN old ELSE s
<1>1. /\ store2[new] = store[old] /\ store2[old] = NoUtxo
      /\ \A s \in Slots : s # new /\ s # old => store2[s] = store[s]
  BY DEF Stores
<1> HIDE DEF store2
<1>2. \A s \in Slots : store2[s] # NoUtxo =>
          From(s) \in Slots /\ store2[s] = store[From(s)] /\ store[From(s)] # NoUtxo
  BY <1>1
<1>3. \A s, t \in Slots :
          store2[s] # NoUtxo /\ store2[t] # NoUtxo /\ From(s) = From(t) => s = t
  BY <1>1
<1>4. \A s \in Slots : store[s] # NoUtxo => \E t \in Slots : store2[t] = store[s]
  BY <1>1
<1> HIDE DEF From
<1>5. Tracks(store2, points)
  BY <1>2, <1>3 DEF Tracks
<1>6. Holds(store2)
  <2>1. SUFFICES ASSUME NEW s \in Used
                 PROVE  \E t \in Slots : store2[t] = utxos[s]
    BY DEF Holds
  <2>2. PICK r \in Slots : store[r] = utxos[s]
    BY DEF Holds
  <2>3. store[r] # NoUtxo
    BY <2>2 DEF Used
  <2>4. QED
    BY <1>4, <2>2, <2>3
<1>7. QED
  BY <1>5, <1>6 DEF store2

\* An output that was not noticed takes a free slot.
LEMMA AddKeeps ==
    ASSUME NEW store \in Stores, NEW new \in Slots, store[new] = NoUtxo,
           NEW points, Tracks(store, points), NEW u, PointOf(u) \notin points,
           NEW points2, points \subseteq points2, PointOf(u) \in points2
    PROVE  LET store2 == [store EXCEPT ![new] = u]
           IN  /\ Tracks(store2, points2)
               /\ \A s \in Slots : store[s] # NoUtxo => store2[s] = store[s]
<1> DEFINE store2 == [store EXCEPT ![new] = u]
<1>1. store2[new] = u /\ \A s \in Slots : s # new => store2[s] = store[s]
  BY DEF Stores
<1> HIDE DEF store2
<1>2. \A s \in Slots : s # new /\ store2[s] # NoUtxo => PointOf(store2[s]) \in points
  BY <1>1 DEF Tracks
<1>3. Tracks(store2, points2)
  BY <1>1, <1>2 DEF Tracks
<1>4. QED
  BY <1>1, <1>3 DEF store2

----------------------------------------------------------------------------
\* What an iteration of the loops of map does to the slots.

\* The outputs of the unconfirmed pool at a point.
UnconfirmedAt(store, txid, index) ==
    {s \in UnconfirmedPool :
        store[s] # NoUtxo /\ store[s].txid = txid /\ store[s].vout = index}

\* An output moves to a free slot of the confirmed pool, or there is none to
\* move, unless the loop has been cut short.

LEMMA PromoteSteps ==
    ASSUME NEW st \in Promotions, NEW txid, NEW index
    PROVE  LET R == Promote(st, txid, index)
           IN  \/ /\ R.utxos = st.utxos /\ (st.full => R.full)
                  /\ R.full \/ UnconfirmedAt(st.utxos, txid, index) = {}
               \/ /\ ~st.full
                  /\ \E new \in ConfirmedPool :
                     \E old \in UnconfirmedAt(st.utxos, txid, index) :
                         /\ st.utxos[new] = NoUtxo
                         /\ R.utxos = [st.utxos EXCEPT ![new] = st.utxos[old],
                                                       ![old] = NoUtxo]
<1>1. CASE st.full \/ Matching(st, txid, index) = {}
  <2>1. Promote(st, txid, index) = st
    BY <1>1 DEF Promote
  <2>2. ASSUME Matching(st, txid, index) = {}
        PROVE  UnconfirmedAt(st.utxos, txid, index) = {}
    <3>1. SUFFICES ASSUME NEW s \in UnconfirmedAt(st.utxos, txid, index)
                   PROVE  FALSE
      OBVIOUS
    <3>2. /\ s \in Slots /\ st.utxos[s] # NoUtxo /\ s \in UnconfirmedPool
          /\ st.utxos[s].txid = txid /\ st.utxos[s].vout = index
      BY PoolsInSlots DEF UnconfirmedAt
    <3>3. PICK p \in DOMAIN st.registry : st.registry[p].id = s
      BY <3>2 DEF Promotions, PromotionStates, Consistent
    <3>4. QED
      BY <2>2, <3>2, <3>3 DEF Matching
  <2>3. QED
    BY <1>1, <2>1, <2>2
<1>2. CASE /\ ~(st.full \/ Matching(st, txid, index) = {})
           /\ Free(st.utxos, ConfirmedPool) = {}
  <2>1. Promote(st, txid, index) = [st EXCEPT !.full = TRUE]
    BY <1>2 DEF Promote
  <2>2. [st EXCEPT !.full = TRUE].utxos = st.utxos /\ [st EXCEPT !.full = TRUE].full
    BY DEF Promotions, PromotionStates
  <2>3. QED
    BY <2>1, <2>2
<1>3. CASE /\ ~(st.full \/ Matching(st, txid, index) = {})
           /\ Free(st.utxos, ConfirmedPool) # {}
  <2> DEFINE p == CHOOSE q \in Matching(st, txid, index) : TRUE
             new == FirstFree(st.utxos, ConfirmedPool, st.next)
             old == st.registry[p].id
  <2>1. Promote(st, txid, index).utxos
            = [st.utxos EXCEPT ![new] = st.utxos[old], ![old] = NoUtxo]
    BY <1>3 DEF Promote
  <2>2. p \in Matching(st, txid, index)
    BY <1>3
  <2>3. /\ st.utxos \in Stores /\ st.registry \in Seq(Entry)
        /\ st.next \in ConfirmedPool /\ Consistent(st.utxos, st.registry)
    BY DEF Promotions, PromotionStates
  <2>4. new \in Free(st.utxos, ConfirmedPool)
    BY <1>3, <2>3, FirstFreeIsFree
  <2>5. new \in ConfirmedPool /\ st.utxos[new] = NoUtxo
    BY <2>4 DEF Free
  <2> HIDE DEF p
  <2>6. old \in UnconfirmedAt(st.utxos, txid, index)
    BY <2>2, <2>3 DEF Matching, Consistent, UnconfirmedAt
  <2>7. ~st.full
    BY <1>3
  <2> HIDE DEF old, new
  <2>8. QED
    BY <2>1, <2>5, <2>6, <2>7
<1>4. QED
  BY <1>1, <1>2, <1>3

\* An output is passed over, or aborts the call, or is taken into a slot.
Takes(st, R, txid, k, out, new, u) ==
    /\ new \in ConfirmedPool /\ st.utxos[new] = NoUtxo
    /\ <<txid, k - 1>> \notin st.observed
    /\ out.addr \in Instructions /\ out.amount \in Nat
    /\ PointOf(u) = <<txid, k - 1>> /\ u.amount = out.amount
    /\ R.utxos = [st.utxos EXCEPT ![new] = u]
    /\ R.observed = st.observed \cup {<<txid, k - 1>>}
    /\ R.total = st.total + out.amount

LEMMA ProcessOutputSteps ==
    ASSUME TypeOK, NEW txid \in TxIds, Known(txid),
           NEW instrs \in SUBSET Instructions, NEW sender \in Accounts,
           NEW drawn \in BOOLEAN, NEW st \in ArrivalStates, NEW k \in 1..Len(Outs(txid))
    PROVE  LET R == ProcessOutput(st, txid, k - 1, instrs, sender, drawn)
               out == Outs(txid)[k]
           IN  \/ /\ R.utxos = st.utxos /\ R.observed = st.observed
                  /\ R.balances = st.balances /\ R.total = st.total
               \/ /\ R.balances = Credited(st.balances, out.addr, sender, out.amount, drawn)
                  /\ \E new \in Slots : \E u \in Utxo : Takes(st, R, txid, k, out, new, u)
<1> DEFINE index == k - 1
           out == Outs(txid)[index + 1]
           new == FirstFree(st.utxos, ConfirmedPool, st.next)
           stops == \/ Free(st.utxos, ConfirmedPool) = {}
                    \/ CreditAborts(st.balances, out.addr, sender, out.amount, drawn)
                    \/ st.total + out.amount > MaxInt64
           passed == Passed(st, txid, index, instrs)
           u == [txid |-> txid, vout |-> index, amount |-> out.amount,
                 addr |-> out.addr, tag |-> StoredTag(out.addr)]
           R == ProcessOutput(st, txid, index, instrs, sender, drawn)
<1>1. Outs(txid) \in Seq(TxOut)
  BY OutsType
<1>2. index \in Nat /\ out \in TxOut /\ index + 1 = k
  BY <1>1
<1>3. CASE passed
  BY <1>3 DEF ProcessOutput
<1>4. CASE ~passed /\ stops
  <2>1. R = [st EXCEPT !.aborted = TRUE]
    BY <1>4 DEF ProcessOutput
  <2> HIDE DEF R
  <2>2. /\ R.utxos = st.utxos /\ R.observed = st.observed
        /\ R.balances = st.balances /\ R.total = st.total
    BY <2>1 DEF ArrivalStates
  <2>3. QED
    BY <2>2 DEF R
<1>5. CASE ~passed /\ ~stops
  <2>1. /\ R.utxos = [st.utxos EXCEPT ![new] = u]
        /\ R.observed = st.observed \cup {<<txid, index>>}
        /\ R.balances = Credited(st.balances, out.addr, sender, out.amount, drawn)
        /\ R.total = st.total + out.amount
    BY <1>5 DEF ProcessOutput
  <2>2. out.addr \in Instructions /\ <<txid, index>> \notin st.observed
    BY <1>5 DEF Passed
  <2>3. out.amount \in Nat
    BY <2>2, <1>2, BtcMappingAssumption DEF TxOut
  <2>4. st.next \in ConfirmedPool
    BY DEF ArrivalStates
  <2>5. new \in Free(st.utxos, ConfirmedPool)
    BY <1>5, <2>4, FirstFreeIsFree
  <2>6. new \in ConfirmedPool /\ new \in Slots /\ st.utxos[new] = NoUtxo
    BY <2>5, PoolsInSlots DEF Free
  <2>7. StoredTag(out.addr) \in Tags /\ out.addr \in Addresses
    BY <2>2, BtcMappingAssumption DEF StoredTag, Tags, Addresses
  <2>8. out = Outs(txid)[k]
    BY <1>2
  <2> HIDE DEF new, out, R
  <2>9. u \in Utxo /\ PointOf(u) = <<txid, index>> /\ u.amount = out.amount
    BY <1>2, <2>3, <2>7 DEF Utxo, PointOf
  <2> HIDE DEF u
  <2>10. Takes(st, R, txid, k, out, new, u)
    BY <2>1, <2>2, <2>3, <2>6, <2>9 DEF Takes
  <2>11. QED
    BY <2>1, <2>6, <2>8, <2>9, <2>10 DEF R
<1>6. QED
  BY <1>3, <1>4, <1>5

----------------------------------------------------------------------------
\* map.

Promoted(points) ==
    {st \in Promotions : Tracks(st.utxos, points) /\ Holds(st.utxos)}

LEMMA PromoteTracks ==
    ASSUME NEW points, NEW st \in Promoted(points), NEW txid, NEW index
    PROVE  Promote(st, txid, index) \in Promoted(points)
<1> DEFINE R == Promote(st, txid, index)
           store == st.utxos
<1>1. st \in Promotions /\ Tracks(store, points) /\ Holds(store)
  BY DEF Promoted
<1>2. R \in Promotions
  BY <1>1, PromoteStays
<1>3. \/ R.utxos = store
      \/ \E new, old \in Slots :
             /\ store[new] = NoUtxo /\ store[old] # NoUtxo
             /\ R.utxos = [store EXCEPT ![new] = store[old], ![old] = NoUtxo]
  BY <1>1, PromoteSteps, PoolsInSlots DEF UnconfirmedAt
<1>4. store \in Stores
  BY <1>1 DEF Promotions, PromotionStates
<1> HIDE DEF R, store
<1>5. Tracks(R.utxos, points) /\ Holds(R.utxos)
  <2>1. ASSUME NEW new \in Slots, NEW old \in Slots,
               store[new] = NoUtxo, store[old] # NoUtxo,
               R.utxos = [store EXCEPT ![new] = store[old], ![old] = NoUtxo]
        PROVE  Tracks(R.utxos, points) /\ Holds(R.utxos)
    BY <1>1, <1>4, <2>1, MoveKeeps
  <2>2. QED
    BY <1>1, <1>3, <2>1
<1>6. QED
  BY <1>2, <1>5 DEF Promoted, R

LEMMA UpdateUtxoSpendsTracks ==
    ASSUME IInv, CustodyInv, NEW txid
    PROVE  UpdateUtxoSpends(txid) \in Promoted(Noticed(observed) \ Spent)
<1> DEFINE Y == Promoted(Noticed(observed) \ Spent)
<1>1. PromotionStart \in Promotions
  BY PromotionStarts
<1>2. Holds(utxos) /\ Tracks(utxos, Noticed(observed) \ Spent)
  BY DEF Holds, Used, CustodyInv
<1>3. PromotionStart.utxos = utxos
  BY PromotionStarts
<1>4. PromotionStart \in Y
  <2> QED
    BY <1>1, <1>2, <1>3 DEF Promoted
<1>5. \A x \in Y, index \in Nat : Promote(x, txid, index) \in Y
  BY PromoteTracks
<1> HIDE DEF Y
<1>6. UpdateUtxoSpends(txid) \in Y
  BY <1>4, <1>5, UpdateUtxoSpendsKeeps DEF IInv
<1>7. QED
  BY <1>6 DEF Y

\* The states of the loop over the outputs of a transaction.
Arrived ==
    {st \in Arrivals :
        /\ observed \subseteq st.observed
        /\ \A p \in st.observed : Known(p[1])
        /\ Tracks(st.utxos, Noticed(st.observed) \ Spent)
        /\ Holds(st.utxos)}

\* An output that pays an instruction is not the change of a withdrawal.
LEMMA PaidIsUnnoticed ==
    ASSUME TypeOK, NEW obs, NEW txid \in TxIds, Known(txid),
           NEW k \in 1..Len(Outs(txid)), Outs(txid)[k].addr \in Instructions,
           <<txid, k - 1>> \notin obs
    PROVE  <<txid, k - 1>> \notin Noticed(obs)
<1>1. SUFFICES ASSUME txid \in SpendIds, spendTx[txid].outs[k - 1 + 1].addr = ChangeAddress
               PROVE  FALSE
  BY DEF Noticed
<1>2. txid \notin Deposits
  BY <1>1, BtcMappingAssumption
<1>3. Outs(txid) \in Seq(TxOut)
  BY OutsType
<1>4. k - 1 + 1 = k
  BY <1>3
<1>5. Outs(txid)[k].addr = ChangeAddress
  BY <1>1, <1>2, <1>4 DEF Outs
<1>6. QED
  BY <1>5, BtcMappingAssumption

LEMMA ProcessOutputTracks ==
    ASSUME IInv, CustodyInv, NEW txid \in TxIds, Known(txid),
           NEW instrs \in SUBSET Instructions, NEW sender \in Accounts,
           NEW drawn \in BOOLEAN, NEW st \in Arrived, NEW k \in 1..Len(Outs(txid))
    PROVE  ProcessOutput(st, txid, k - 1, instrs, sender, drawn) \in Arrived
<1> DEFINE R == ProcessOutput(st, txid, k - 1, instrs, sender, drawn)
           out == Outs(txid)[k]
           p == <<txid, k - 1>>
           store == st.utxos
           obs == st.observed
<1>1. TypeOK
  BY DEF IInv
<1>2. /\ st \in Arrivals /\ observed \subseteq obs
      /\ \A q \in obs : Known(q[1])
      /\ Tracks(store, Noticed(obs) \ Spent) /\ Holds(store)
  BY DEF Arrived
<1>3. R \in Arrivals
  BY <1>2, ProcessOutputStays DEF IInv
<1>4. \/ R.utxos = store /\ R.observed = obs
      \/ \E new \in Slots : \E u \in Utxo : Takes(st, R, txid, k, out, new, u)
  BY <1>1, <1>2, ProcessOutputSteps DEF Arrivals
<1>5. store \in Stores /\ k - 1 \in Nat /\ p \in TxIds \X Nat
  BY <1>1, <1>2, OutsType DEF Arrivals, ArrivalStates
<1>6. CASE R.utxos = store /\ R.observed = obs
  BY <1>2, <1>3, <1>6 DEF Arrived
<1>7. CASE \E new \in Slots : \E u \in Utxo : Takes(st, R, txid, k, out, new, u)
  <2>1. PICK new \in Slots, u \in Utxo : Takes(st, R, txid, k, out, new, u)
    BY <1>7
  <2>2. /\ store[new] = NoUtxo /\ p \notin obs /\ PointOf(u) = p
        /\ out.addr \in Instructions
        /\ R.utxos = [store EXCEPT ![new] = u] /\ R.observed = obs \cup {p}
    BY <2>1 DEF Takes
  <2>3. p \notin Noticed(obs)
    BY <1>1, <2>2, PaidIsUnnoticed
  <2> DEFINE obs2 == R.observed
             points == Noticed(obs) \ Spent
             points2 == Noticed(obs2) \ Spent
             store2 == R.utxos
  <2> HIDE DEF R, p, store, obs
  <2>4. Noticed(observed) \subseteq Noticed(obs) /\ Noticed(obs) \subseteq Noticed(obs2)
    BY <1>2, <2>2, NoticedGrows
  <2>5. p \in Noticed(obs2)
    BY <1>5, <2>2 DEF Noticed
  <2>6. Spent \subseteq Noticed(observed)
    BY DEF CustodyInv
  <2>7. /\ PointOf(u) \notin points /\ PointOf(u) \in points2
        /\ points \subseteq points2
    BY <2>2, <2>3, <2>4, <2>5, <2>6
  <2>8. observed \subseteq obs2 /\ \A q \in obs2 : Known(q[1])
    BY <1>2, <2>2 DEF p
  <2>9. Tracks(store, points)
    BY <1>2
  <2> HIDE DEF points, points2, store2
  <2>10. /\ Tracks(store2, points2)
         /\ \A s \in Slots : store[s] # NoUtxo => store2[s] = store[s]
    BY <1>5, <2>2, <2>7, <2>9, AddKeeps DEF store2
  <2>11. Holds(store2)
    <3>1. \A s \in Used : \E t \in Slots : store[t] = utxos[s]
      BY <1>2 DEF Holds
    <3>2. \A s \in Used : utxos[s] # NoUtxo
      BY DEF Used
    <3>3. QED
      BY <2>10, <3>1, <3>2 DEF Holds
  <2>12. R \in Arrived
    BY <1>3, <2>8, <2>10, <2>11 DEF Arrived, points2, store2
  <2>13. QED
    BY <2>12 DEF R
<1>8. QED
  BY <1>4, <1>6, <1>7

\* Swap-removal takes out the element and no other.
LEMMA SwapRemoveFacts ==
    ASSUME NEW list \in Seq(SpendIds), NEW txid,
           \A i, j \in DOMAIN list : list[i] = list[j] => i = j
    PROVE  LET left == SwapRemove(list, txid)
           IN  /\ \A i, j \in DOMAIN left : left[i] = left[j] => i = j
               /\ {left[i] : i \in DOMAIN left}
                      = {list[i] : i \in DOMAIN list} \ {txid}
<1> DEFINE hits == {i \in DOMAIN list : list[i] = txid}
           first == CHOOSE i \in hits : \A j \in hits : i <= j
           n == Len(list)
           left == SwapRemove(list, txid)
<1>1. n \in Nat /\ DOMAIN list = 1..n
  OBVIOUS
<1>2. CASE hits = {}
  <2>1. left = list
    BY <1>2 DEF SwapRemove
  <2>2. QED
    BY <1>2, <2>1
<1>3. CASE hits # {}
  <2>1. PICK h \in DOMAIN list : list[h] = txid
    BY <1>3
  <2>2. hits = {h}
    BY <2>1
  <2>3. first = h
    BY <1>1, <2>1, <2>2
  <2>4. left = [i \in 1..(n - 1) |-> IF i = h THEN list[n] ELSE list[i]]
    BY <1>3, <2>3 DEF SwapRemove
  <2> HIDE DEF n, left, hits, first
  <2>5. DOMAIN left = 1..(n - 1)
    BY <2>4
  <2> DEFINE From(i) == IF i = h THEN n ELSE i
  <2>6. \A i \in 1..(n - 1) :
            From(i) \in 1..n /\ From(i) # h /\ left[i] = list[From(i)]
    BY <1>1, <2>1, <2>4
  <2>7. \A i, j \in 1..(n - 1) : From(i) = From(j) => i = j
    BY <1>1
  <2>8. \A p \in 1..n : p # h => \E i \in 1..(n - 1) : From(i) = p
    <3>1. SUFFICES ASSUME NEW p \in 1..n, p # h
                   PROVE  \E i \in 1..(n - 1) : From(i) = p
      OBVIOUS
    <3>2. CASE p = n
      <4>1. h \in 1..(n - 1) /\ From(h) = p
        BY <1>1, <2>1, <3>1, <3>2
      <4>2. QED
        BY <4>1
    <3>3. CASE p # n
      <4>1. p \in 1..(n - 1) /\ From(p) = p
        BY <1>1, <3>1, <3>3
      <4>2. QED
        BY <4>1
    <3>4. QED
      BY <3>2, <3>3
  <2> HIDE DEF From
  <2>9. \A i, j \in DOMAIN left : left[i] = left[j] => i = j
    BY <1>1, <2>5, <2>6, <2>7
  <2>10. \A i \in DOMAIN left : left[i] \in {list[p] : p \in DOMAIN list} \ {txid}
    BY <1>1, <2>1, <2>5, <2>6
  <2>11. \A p \in DOMAIN list : list[p] # txid => \E i \in DOMAIN left : left[i] = list[p]
    BY <1>1, <2>1, <2>5, <2>6, <2>8
  <2>12. QED
    BY <2>9, <2>10, <2>11 DEF left
<1>4. QED
  BY <1>2, <1>3

\* What map writes of the outputs: what it observed is noticed, and all that
\* was tracked is tracked.
LEMMA MapTracks ==
    ASSUME IInv, CustodyInv, NEW txid \in TxIds, NEW instrs \in MapInputs,
           NEW sender \in Accounts, NEW drawn \in BOOLEAN,
           Map(txid, instrs, sender, drawn)
    PROVE  /\ \A p \in observed' : Known(p[1])
           /\ observed \subseteq observed'
           /\ Tracks(utxos', Noticed(observed') \ Spent)
           /\ Holds(utxos')
<1> DEFINE promoted == UpdateUtxoSpends(txid)
           st0 == [utxos |-> promoted.utxos, registry |-> promoted.registry,
                   next |-> promoted.next, observed |-> observed,
                   balances |-> balances, total |-> 0, aborted |-> FALSE]
           st == ProcessUtxos(st0, txid, instrs, sender, drawn)
<1>1. promoted \in Promoted(Noticed(observed) \ Spent)
  BY UpdateUtxoSpendsTracks
<1>2. st0 \in Arrived
  <2> HIDE DEF promoted
  <2>1. promoted \in Promotions /\ Holds(promoted.utxos)
        /\ Tracks(promoted.utxos, Noticed(observed) \ Spent)
    BY <1>1 DEF Promoted
  <2>2. st0 \in Arrivals
    BY <2>1 DEF IInv, TypeOK, Promotions, PromotionStates, Arrivals, ArrivalStates
  <2>3. st0.utxos = promoted.utxos /\ st0.observed = observed
    OBVIOUS
  <2>4. \A p \in observed : Known(p[1])
    BY DEF CustodyInv
  <2> HIDE DEF st0
  <2>5. QED
    BY <2>1, <2>2, <2>3, <2>4 DEF Arrived
<1>3. Known(txid) /\ instrs \in SUBSET Instructions /\ TypeOK
  BY BtcMappingAssumption DEF Map, IInv
<1>4. \A x \in Arrived, k \in 1..Len(Outs(txid)) :
          ProcessOutput(x, txid, k - 1, instrs, sender, drawn) \in Arrived
  BY <1>3, ProcessOutputTracks
<1>5. utxos' = st.utxos /\ observed' = st.observed
  BY DEF Map
<1> HIDE DEF st0
<1>6. st \in Arrived
  BY <1>2, <1>3, <1>4, ProcessUtxosKeeps
<1> HIDE DEF st
<1>7. QED
  BY <1>5, <1>6 DEF Arrived

\* The spend whose confirmation map was shown leaves the list, or none does.
LEMMA ForgetKeepsPending ==
    ASSUME IInv, Pending, NEW txid, NEW full, ForgetSpend(txid, full), UNCHANGED spendTx
    PROVE  Pending'
<1>1. /\ spends \in [SpendIds -> Seq(Tags) \cup {NoTx}]
      /\ spendsList \in Seq(SpendIds)
  BY DEF IInv, TypeOK
<1>2. /\ \A i, j \in DOMAIN spendsList : spendsList[i] = spendsList[j] => i = j
      /\ {spendsList[i] : i \in DOMAIN spendsList} = {t \in SpendIds : spends[t] # NoTx}
      /\ \A t \in SpendIds : spends[t] # NoTx => spendTx[t] # NoTx
  BY DEF Pending, SpendsListed
<1>3. CASE txid \in SpendIds /\ spends[txid] # NoTx /\ ~full
  <2> DEFINE left == SwapRemove(spendsList, txid)
  <2>1. spends' = [spends EXCEPT ![txid] = NoTx] /\ spendsList' = left
    BY <1>3 DEF ForgetSpend
  <2>2. /\ \A i, j \in DOMAIN left : left[i] = left[j] => i = j
        /\ {left[i] : i \in DOMAIN left}
               = {spendsList[i] : i \in DOMAIN spendsList} \ {txid}
    BY <1>1, <1>2, SwapRemoveFacts
  <2> HIDE DEF left
  <2>3. {t \in SpendIds : spends'[t] # NoTx} = {t \in SpendIds : spends[t] # NoTx} \ {txid}
    BY <1>1, <1>3, <2>1
  <2>4. \A t \in SpendIds : spends'[t] # NoTx => spendTx'[t] # NoTx
    BY <1>1, <1>2, <2>1
  <2>5. SpendsListed'
    BY <1>2, <2>1, <2>2, <2>3 DEF SpendsListed
  <2>6. QED
    BY <2>4, <2>5 DEF Pending
<1>4. CASE ~(txid \in SpendIds /\ spends[txid] # NoTx /\ ~full)
  <2>1. UNCHANGED <<spends, spendsList>>
    BY <1>4 DEF ForgetSpend
  <2>2. QED
    BY <1>2, <2>1 DEF Pending, SpendsListed
<1>5. QED
  BY <1>3, <1>4

LEMMA MapKeepsCustody ==
    ASSUME IInv, CustodyInv, NEW txid \in TxIds, NEW instrs \in MapInputs,
           NEW sender \in Accounts, NEW drawn \in BOOLEAN,
           Map(txid, instrs, sender, drawn)
    PROVE  CustodyInv'
<1>1. PICK full : ForgetSpend(txid, full)
  BY DEF Map
<1>2. spendTx' = spendTx
  BY DEF Map
<1>3. Pending'
  BY <1>1, <1>2, ForgetKeepsPending DEF CustodyInv
<1>4. /\ \A p \in observed' : Known(p[1])
      /\ observed \subseteq observed'
      /\ Tracks(utxos', Noticed(observed') \ Spent)
  BY MapTracks
<1>5. Noticed(observed)' = Noticed(observed')
  BY <1>2 DEF Noticed
<1>6. Spent' = Spent /\ NoDoubleSpend'
  BY <1>2, SpentUnchanged DEF CustodyInv
<1>7. \A p \in observed' : Known(p[1])'
  BY <1>2, <1>4 DEF Known
<1>8. Spent \subseteq Noticed(observed')
  <2>1. Noticed(observed) \subseteq Noticed(observed')
    BY <1>4, NoticedGrows
  <2>2. QED
    BY <2>1 DEF CustodyInv
<1>9. Tracks(utxos, Noticed(observed) \ Spent)'
  BY <1>4, <1>5, <1>6 DEF Tracks
<1>10. QED
  BY <1>3, <1>5, <1>6, <1>7, <1>8, <1>9 DEF CustodyInv

----------------------------------------------------------------------------
\* unmap.

LEMMA TracksMore ==
    ASSUME NEW store, NEW points, NEW points2, points \subseteq points2,
           Tracks(store, points)
    PROVE  Tracks(store, points2)
  BY DEF Tracks

\* No output of a transaction that was not made has been noticed.
LEMMA NewIsUnnoticed ==
    ASSUME CustodyInv, NEW txid \in SpendIds, spendTx[txid] = NoTx, NEW v
    PROVE  <<txid, v>> \notin Noticed(observed)
<1>1. ~Known(txid)
  BY BtcMappingAssumption DEF Known
<1>2. <<txid, v>> \notin observed
  BY <1>1 DEF CustodyInv
<1>3. QED
  BY <1>2 DEF Noticed

\* The change among the first k outputs of a transaction.
ChangePoints(txid, outs, k) ==
    {<<txid, v>> : v \in {w \in 0..(k - 1) : outs[w + 1].addr = ChangeAddress}}

\* The states of the loop over the outputs of a withdrawal.
Tracked(points) ==
    {st \in Trackings :
        /\ \A s \in Used : st.utxos[s] = utxos[s]
        /\ Tracks(st.utxos, points)}

LEMMA TrackOutputTracks ==
    ASSUME NEW txid \in SpendIds, NEW outs \in Seq(TxOut), NEW k \in 1..Len(outs),
           NEW P, \A v : <<txid, v>> \notin P,
           NEW st \in Tracked(P \cup ChangePoints(txid, outs, k - 1))
    PROVE  TrackOutput(st, txid, outs, k - 1) \in Tracked(P \cup ChangePoints(txid, outs, k))
<1> DEFINE index == k - 1
           out == outs[index + 1]
           new == FirstFree(st.utxos, UnconfirmedPool, st.next)
           u == [txid |-> txid, vout |-> index, amount |-> out.amount,
                 addr |-> out.addr, tag |-> StoredTag(out.addr)]
           points == P \cup ChangePoints(txid, outs, index)
           points2 == P \cup ChangePoints(txid, outs, k)
           R == TrackOutput(st, txid, outs, index)
<1>1. /\ st \in Trackings /\ Tracks(st.utxos, points)
      /\ \A s \in Used : st.utxos[s] = utxos[s]
  BY DEF Tracked
<1>2. R \in Trackings
  BY <1>1, TrackOutputStays
<1>3. points \subseteq points2
  BY DEF ChangePoints
<1>4. Tracks(st.utxos, points2)
  <2> HIDE DEF points, points2
  <2> QED
    BY <1>1, <1>3, TracksMore
<1>5. CASE st.full \/ out.addr # ChangeAddress
  <2>1. R = st
    BY <1>5 DEF TrackOutput
  <2> HIDE DEF R, points2
  <2>2. R \in Tracked(points2)
    BY <1>1, <1>4, <2>1 DEF Tracked
  <2>3. QED
    BY <2>2 DEF R, index, points2
<1>6. CASE /\ ~(st.full \/ out.addr # ChangeAddress)
           /\ Free(st.utxos, UnconfirmedPool) = {}
  <2>1. R = [st EXCEPT !.full = TRUE]
    BY <1>6 DEF TrackOutput
  <2>2. [st EXCEPT !.full = TRUE].utxos = st.utxos
    BY <1>1 DEF Trackings, TrackingStates
  <2> HIDE DEF R, points2
  <2>3. R \in Tracked(points2)
    BY <1>1, <1>2, <1>4, <2>1, <2>2 DEF Tracked
  <2>4. QED
    BY <2>3 DEF R, index, points2
<1>7. CASE /\ ~(st.full \/ out.addr # ChangeAddress)
           /\ Free(st.utxos, UnconfirmedPool) # {}
  <2>1. R.utxos = [st.utxos EXCEPT ![new] = u]
    BY <1>7 DEF TrackOutput
  <2>2. st.utxos \in Stores /\ st.next \in UnconfirmedPool
    BY <1>1 DEF Trackings, TrackingStates
  <2>3. new \in Free(st.utxos, UnconfirmedPool)
    BY <1>7, <2>2, FirstFreeIsFree
  <2>4. new \in Slots /\ st.utxos[new] = NoUtxo
    BY <2>3, PoolsInSlots DEF Free
  <2>5. PointOf(u) = <<txid, index>>
    BY DEF PointOf
  <2>6. PointOf(u) \notin points
    BY <2>5 DEF ChangePoints
  <2>7. PointOf(u) \in points2
    BY <1>7, <2>5 DEF ChangePoints
  <2> HIDE DEF R, new, u, points, points2
  <2>8. /\ Tracks([st.utxos EXCEPT ![new] = u], points2)
        /\ \A s \in Slots : st.utxos[s] # NoUtxo => [st.utxos EXCEPT ![new] = u][s] = st.utxos[s]
    BY <1>1, <1>3, <2>2, <2>4, <2>6, <2>7, AddKeeps
  <2>9. \A s \in Used : s \in Slots /\ utxos[s] # NoUtxo
    BY DEF Used
  <2>10. R \in Tracked(points2)
    BY <1>1, <1>2, <2>1, <2>8, <2>9 DEF Tracked
  <2>11. QED
    BY <2>10 DEF R, index, points2
<1>8. QED
  BY <1>5, <1>6, <1>7

LEMMA TrackOutputsTracks ==
    ASSUME IInv, NEW txid \in SpendIds, NEW outs \in Seq(TxOut),
           NEW P, Tracks(utxos, P), \A v : <<txid, v>> \notin P
    PROVE  TrackOutputs(txid, outs) \in Tracked(P \cup ChangePoints(txid, outs, Len(outs)))
<1> DEFINE n == Len(outs)
           Z == [k \in 0..n |-> Tracked(P \cup ChangePoints(txid, outs, k))]
<1>1. n \in Nat
  OBVIOUS
<1>2. TrackingStart \in Tracked(P \cup ChangePoints(txid, outs, 0))
  <2>1. TrackingStart \in Trackings
    BY TrackingStarts
  <2>2. TrackingStart.utxos = utxos
    BY TrackingStarts
  <2>3. Tracks(utxos, P \cup ChangePoints(txid, outs, 0))
    BY TracksMore
  <2>4. QED
    BY <2>1, <2>2, <2>3 DEF Tracked
<1>3. \A k \in 0..n : Z[k] = Tracked(P \cup ChangePoints(txid, outs, k))
  OBVIOUS
<1>4. 0 \in 0..n /\ n \in 0..n /\ \A k \in 1..n : k \in 0..n /\ k - 1 \in 0..n
  BY <1>1
<1> HIDE DEF Z
<1>5. \A k \in 1..n : \A x \in Z[k - 1] \cap Trackings :
          TrackOutput(x, txid, outs, k - 1) \in Z[k]
  <2>1. SUFFICES ASSUME NEW k \in 1..n, NEW x \in Z[k - 1]
                 PROVE  TrackOutput(x, txid, outs, k - 1) \in Z[k]
    OBVIOUS
  <2>2. x \in Tracked(P \cup ChangePoints(txid, outs, k - 1))
    BY <1>3, <1>4
  <2>3. TrackOutput(x, txid, outs, k - 1) \in Tracked(P \cup ChangePoints(txid, outs, k))
    BY <2>2, TrackOutputTracks
  <2>4. QED
    BY <1>3, <1>4, <2>3
<1>6. TrackingStart \in Z[0]
  BY <1>2, <1>3, <1>4
<1>7. TrackOutputs(txid, outs) \in Z[n]
  BY <1>5, <1>6, TrackOutputsKeeps
<1>8. QED
  BY <1>3, <1>4, <1>7

TrackedPoints == {Point(s) : s \in Used}

LEMMA TracksTrackedPoints ==
    ASSUME CustodyInv
    PROVE  Tracks(utxos, TrackedPoints) /\ TrackedPoints \subseteq Noticed(observed) \ Spent
  BY DEF CustodyInv, Tracks, TrackedPoints, Point, PointOf, Used

\* A withdrawal clears the slots inputIds of the outputs that spend spends,
\* and store is what the slots were before it did; it keeps a tag for each input.
UnmapWrites(txid, inputIds, spend, store) ==
    /\ inputIds # {}
    /\ store \in Tracked(TrackedPoints
                             \cup ChangePoints(txid, spend.outs, Len(spend.outs)))
    /\ utxos' = [s \in Slots |-> IF s \in inputIds THEN NoUtxo ELSE store.utxos[s]]
    /\ spendTx' = [spendTx EXCEPT ![txid] = spend]
    /\ {spend.ins[i] : i \in DOMAIN spend.ins} = {Point(s) : s \in inputIds}
    /\ \E tags \in Seq(Tags) :
           Len(tags) = Len(spend.ins) /\ spends' = [spends EXCEPT ![txid] = tags]

\* What a withdrawal writes of the outputs: it spends outputs that are tracked,
\* tracks its change, and leaves the other outputs where they are.
LEMMA UnmapTracks ==
    ASSUME IInv, CustodyInv, NEW sender \in Accounts, NEW amount \in UnmapAmounts,
           NEW dest \in Addresses, NEW txid \in SpendIds,
           Unmap(sender, amount, dest, txid)
    PROVE  /\ spendTx[txid] = NoTx /\ UNCHANGED observed
           /\ spendsList' = Append(spendsList, txid)
           /\ \E inputIds \in SUBSET Used, spend \in Spend, store \in Trackings :
                  UnmapWrites(txid, inputIds, spend, store)
<1> DEFINE entries == SelectInputs(amount)
           inputs == [j \in DOMAIN entries |-> utxos[entries[j].id]]
           inputIds == {entries[j].id : j \in DOMAIN entries}
           total == PrefixSum(Amounts(entries), Len(entries))
           scripts == [j \in DOMAIN inputs |-> ScriptSize(inputs[j].tag)]
           fee == SpendFee(Len(entries), PrefixSum(scripts, Len(scripts)),
                           DestSize(dest), total - amount, supply.baseFeeRate)
           outs == SpendOuts(dest, amount, total - amount, fee)
           st == TrackOutputs(txid, outs)
           points == [j \in DOMAIN inputs |-> <<inputs[j].txid, inputs[j].vout>>]
           tags == [j \in DOMAIN inputs |-> inputs[j].tag]
           spend == [ins |-> points, outs |-> outs, fee |-> fee]
<1>1. /\ spendTx[txid] = NoTx
      /\ utxos' = [s \in Slots |-> IF s \in inputIds THEN NoUtxo ELSE st.utxos[s]]
      /\ spends' = [spends EXCEPT ![txid] = tags]
      /\ spendsList' = Append(spendsList, txid)
      /\ spendTx' = [spendTx EXCEPT ![txid] = spend]
      /\ entries # <<>> /\ UNCHANGED observed
  BY DEF Unmap
<1>2. /\ entries \in Seq(Entry)
      /\ \A j \in DOMAIN entries : utxos[entries[j].id] \in Utxo
      /\ points \in Seq(TxIds \X Nat) /\ tags \in Seq(Tags)
      /\ outs \in Seq(TxOut) /\ fee \in Int
  BY UnmapParts DEF IInv
<1>3. \A j \in DOMAIN points :
          j \in DOMAIN entries /\ points[j] = Point(entries[j].id)
  BY DEF Point
<1>4. \A j \in DOMAIN entries : j \in DOMAIN points
  OBVIOUS
<1> HIDE DEF entries, inputs, total, scripts, fee, outs, tags
<1>5. st \in Tracked(TrackedPoints \cup ChangePoints(txid, outs, Len(outs)))
  <2>1. Tracks(utxos, TrackedPoints) /\ \A v : <<txid, v>> \notin TrackedPoints
    BY <1>1, TracksTrackedPoints, NewIsUnnoticed
  <2>2. QED
    BY <1>2, <2>1, TrackOutputsTracks
<1> HIDE DEF st, points
<1>6. spend \in Spend
  BY <1>2 DEF Spend
<1>7. \A j \in DOMAIN entries : entries[j] \in Entry
  BY <1>2
<1>8. inputIds \in SUBSET Used /\ inputIds # {}
  <2>1. inputIds \in SUBSET Used
    BY <1>2, <1>7, BtcMappingAssumption DEF Entry, Used
  <2>2. 1 \in DOMAIN entries
    BY <1>1, <1>2
  <2>3. QED
    BY <2>1, <2>2
<1>9. {points[i] : i \in DOMAIN points} = {Point(s) : s \in inputIds}
  BY <1>3, <1>4
<1>10. spend.ins = points /\ spend.outs = outs
  OBVIOUS
<1>11. tags \in Seq(Tags) /\ Len(tags) = Len(spend.ins)
  <2>1. DOMAIN tags = DOMAIN points
    BY DEF tags, points, inputs
  <2>2. Len(tags) = Len(points)
    BY <1>2, <2>1
  <2>3. QED
    BY <1>2, <1>10, <2>2
<1> HIDE DEF inputIds, spend
<1>12. UnmapWrites(txid, inputIds, spend, st) /\ st \in Trackings
  BY <1>1, <1>5, <1>8, <1>9, <1>10, <1>11 DEF UnmapWrites, Tracked
<1>13. QED
  BY <1>1, <1>2, <1>6, <1>8, <1>12

\* The outputs that are spent after a withdrawal.
LEMMA UnmapSpends ==
    ASSUME IInv, NEW txid \in SpendIds, spendTx[txid] = NoTx,
           NEW inputIds, NEW spend \in Spend, NEW store,
           UnmapWrites(txid, inputIds, spend, store)
    PROVE  /\ spendTx'[txid] = spend
           /\ \A t \in SpendIds : t # txid => spendTx'[t] = spendTx[t]
           /\ Made' = Made \cup {txid} /\ txid \notin Made
           /\ SpentPoints(txid)' = {Point(s) : s \in inputIds}
           /\ \A t \in SpendIds : t # txid => SpentPoints(t)' = SpentPoints(t)
           /\ Spent' = Spent \cup {Point(s) : s \in inputIds}
<1> DEFINE taken == {Point(s) : s \in inputIds}
<1>1. spendTx \in [SpendIds -> Spend \cup {NoTx}]
  BY DEF IInv, TypeOK
<1>2. spend # NoTx
  BY BtcMappingAssumption
<1>3. /\ spendTx'[txid] = spend
      /\ \A t \in SpendIds : t # txid => spendTx'[t] = spendTx[t]
  BY <1>1 DEF UnmapWrites
<1>4. Made' = Made \cup {txid} /\ txid \notin Made
  BY <1>2, <1>3 DEF Made
<1>5. /\ SpentPoints(txid)' = taken
      /\ \A t \in SpendIds : t # txid => SpentPoints(t)' = SpentPoints(t)
  <2>1. {spend.ins[i] : i \in DOMAIN spend.ins} = taken
    BY DEF UnmapWrites
  <2>2. QED
    BY <1>3, <2>1 DEF SpentPoints
<1>6. Spent' = Spent \cup taken
  <2>1. \A t \in Made : t \in SpendIds /\ t # txid
    BY <1>4 DEF Made
  <2>2. Spent' = UNION {SpentPoints(t)' : t \in Made'}
    BY DEF Spent
  <2>3. Spent = UNION {SpentPoints(t) : t \in Made}
    BY DEF Spent
  <2> HIDE DEF taken
  <2>4. QED
    BY <1>4, <1>5, <2>1, <2>2, <2>3
<1>7. QED
  BY <1>3, <1>4, <1>5, <1>6

LEMMA UnmapKeepsCustody ==
    ASSUME IInv, CustodyInv, NEW sender \in Accounts, NEW amount \in UnmapAmounts,
           NEW dest \in Addresses, NEW txid \in SpendIds,
           Unmap(sender, amount, dest, txid)
    PROVE  CustodyInv'
<1> DEFINE P == Noticed(observed) \ Spent
<1>1. spendTx[txid] = NoTx /\ observed' = observed
  BY UnmapTracks
<1>2. spendsList' = Append(spendsList, txid)
  BY UnmapTracks
<1>3. PICK inputIds \in SUBSET Used, spend \in Spend, store \in Trackings :
               UnmapWrites(txid, inputIds, spend, store)
  BY UnmapTracks
<1>4. PICK tags \in Seq(Tags) : spends' = [spends EXCEPT ![txid] = tags]
  BY <1>3 DEF UnmapWrites
<1> DEFINE new == ChangePoints(txid, spend.outs, Len(spend.outs))
           taken == {Point(s) : s \in inputIds}
<1>5. /\ spendTx \in [SpendIds -> Spend \cup {NoTx}]
      /\ spends \in [SpendIds -> Seq(Tags) \cup {NoTx}]
      /\ spendsList \in Seq(SpendIds)
      /\ utxos \in [Slots -> Utxo \cup {NoUtxo}]
  BY DEF IInv, TypeOK
<1>6. spend # NoTx /\ tags # NoTx
  BY BtcMappingAssumption
<1>7. /\ spendTx'[txid] = spend
      /\ \A t \in SpendIds : t # txid => spendTx'[t] = spendTx[t]
  BY <1>1, <1>3, UnmapSpends
<1>8. Made' = Made \cup {txid} /\ txid \notin Made
  BY <1>1, <1>3, UnmapSpends
<1>9. /\ SpentPoints(txid)' = taken
      /\ \A t \in SpendIds : t # txid => SpentPoints(t)' = SpentPoints(t)
  BY <1>1, <1>3, UnmapSpends
<1>10. Spent' = Spent \cup taken
  BY <1>1, <1>3, UnmapSpends
<1>11. taken \subseteq P
  <2>1. \A s \in Used : PointOf(utxos[s]) \in P
    BY DEF CustodyInv, Tracks, Used
  <2>2. QED
    BY <2>1 DEF Point, PointOf
<1>12. NoDoubleSpend'
  <2>1. \A t \in Made : SpentPoints(t) \subseteq Spent
    BY DEF Spent
  <2>2. \A t \in Made : SpentPoints(t) \cap taken = {}
    BY <1>11, <2>1
  <2>3. \A t, v \in Made : t # v => SpentPoints(t) \cap SpentPoints(v) = {}
    BY DEF CustodyInv, NoDoubleSpend
  <2>4. \A t \in Made : SpentPoints(t)' = SpentPoints(t)
    BY <1>8, <1>9 DEF Made
  <2> HIDE DEF taken
  <2>5. QED
    BY <1>8, <1>9, <2>2, <2>3, <2>4 DEF NoDoubleSpend
<1>13. /\ Noticed(observed) \subseteq Noticed(observed)'
       /\ new \subseteq Noticed(observed)'
  <2>1. \A t \in SpendIds : spendTx[t] # NoTx => spendTx'[t] = spendTx[t]
    BY <1>1, <1>7
  <2>2. Noticed(observed) \subseteq Noticed(observed)'
    BY <1>1, <2>1 DEF Noticed
  <2>3. spend.outs \in Seq(TxOut)
    BY DEF Spend
  <2>4. Len(spend.outs) \in Nat /\ DOMAIN spend.outs = 1..Len(spend.outs)
    BY <2>3
  <2>5. \A w \in 0..(Len(spend.outs) - 1) : w \in Nat /\ w + 1 \in DOMAIN spend.outs
    BY <2>4
  <2>6. \A w \in 0..(Len(spend.outs) - 1) :
            spend.outs[w + 1].addr = ChangeAddress => <<txid, w>> \in Noticed(observed)'
    BY <1>6, <1>7, <2>5 DEF Noticed, TxIds
  <2>7. QED
    BY <2>2, <2>6 DEF ChangePoints
<1>14. Tracks(utxos, Noticed(observed) \ Spent)'
  <2>1. /\ \A s \in Used : store.utxos[s] = utxos[s]
        /\ Tracks(store.utxos, P \cup new)
    <3>1. /\ \A s \in Used : store.utxos[s] = utxos[s]
          /\ Tracks(store.utxos, TrackedPoints \cup new)
      BY <1>3 DEF UnmapWrites, Tracked
    <3>2. TrackedPoints \cup new \subseteq P \cup new
      BY TracksTrackedPoints
    <3> HIDE DEF P, new
    <3>3. QED
      BY <3>1, <3>2, TracksMore
  <2>2. \A s \in Slots : utxos'[s] # NoUtxo => s \notin inputIds /\ utxos'[s] = store.utxos[s]
    BY <1>3 DEF UnmapWrites
  <2>3. new \cap Noticed(observed) = {}
    BY <1>1, NewIsUnnoticed DEF ChangePoints
  <2>4. Spent \subseteq Noticed(observed)
    BY DEF CustodyInv
  <2>5. ASSUME NEW s \in Slots, utxos'[s] # NoUtxo
        PROVE  PointOf(utxos'[s]) \notin taken
    <3>1. SUFFICES ASSUME NEW i \in inputIds, PointOf(utxos'[s]) = Point(i)
                   PROVE  FALSE
      OBVIOUS
    <3>2. i \in Slots /\ store.utxos[i] = utxos[i] /\ utxos[i] # NoUtxo
      BY <2>1 DEF Used
    <3>3. PointOf(store.utxos[s]) = PointOf(store.utxos[i])
      BY <2>2, <2>5, <3>1, <3>2 DEF Point, PointOf
    <3>4. s = i
      BY <2>1, <2>2, <2>5, <3>2, <3>3 DEF Tracks
    <3>5. QED
      BY <2>2, <2>5, <3>4
  <2> HIDE DEF taken, new
  <2>6. \A s \in Slots : utxos'[s] # NoUtxo => PointOf(utxos'[s]) \in P \cup new
    BY <2>1, <2>2 DEF Tracks
  <2>7. \A s \in Slots : utxos'[s] # NoUtxo => PointOf(utxos'[s]) \in (Noticed(observed) \ Spent)'
    BY <1>10, <1>13, <2>3, <2>4, <2>5, <2>6
  <2>8. \A s, t \in Slots :
            utxos'[s] # NoUtxo /\ utxos'[t] # NoUtxo /\ PointOf(utxos'[s]) = PointOf(utxos'[t])
                => s = t
    BY <2>1, <2>2 DEF Tracks
  <2>9. QED
    BY <2>7, <2>8 DEF Tracks, PointOf
<1>15. (Spent \subseteq Noticed(observed))'
  <2>1. Spent \subseteq Noticed(observed)
    BY DEF CustodyInv
  <2> HIDE DEF taken
  <2>2. QED
    BY <1>10, <1>11, <1>13, <2>1
<1>16. \A p \in observed' : Known(p[1])'
  <2>1. \A p \in observed : Known(p[1])
    BY DEF CustodyInv
  <2>2. QED
    BY <1>1, <1>7, <2>1 DEF Known
<1>17. Pending'
  <2>1. /\ \A i, j \in DOMAIN spendsList : spendsList[i] = spendsList[j] => i = j
        /\ {spendsList[i] : i \in DOMAIN spendsList} = {t \in SpendIds : spends[t] # NoTx}
        /\ \A t \in SpendIds : spends[t] # NoTx => spendTx[t] # NoTx
    BY DEF CustodyInv, Pending, SpendsListed
  <2>2. spends[txid] = NoTx
    BY <1>1, <2>1
  <2>3. \A i \in DOMAIN spendsList : spendsList[i] # txid
    BY <2>1, <2>2
  <2>4. /\ DOMAIN spendsList = 1..Len(spendsList) /\ Len(spendsList) \in Nat
        /\ DOMAIN spendsList' = 1..(Len(spendsList) + 1)
        /\ \A i \in 1..Len(spendsList) : spendsList'[i] = spendsList[i]
        /\ spendsList'[Len(spendsList) + 1] = txid
    BY <1>2, <1>5
  <2>5. \A i, j \in DOMAIN spendsList' : spendsList'[i] = spendsList'[j] => i = j
    BY <2>1, <2>3, <2>4
  <2>6. {spendsList'[i] : i \in DOMAIN spendsList'}
            = {spendsList[i] : i \in DOMAIN spendsList} \cup {txid}
    BY <2>4
  <2>7. {t \in SpendIds : spends'[t] # NoTx} = {t \in SpendIds : spends[t] # NoTx} \cup {txid}
    BY <1>4, <1>5, <1>6
  <2>8. \A t \in SpendIds : spends'[t] # NoTx => spendTx'[t] # NoTx
    BY <1>4, <1>5, <1>6, <1>7, <2>1
  <2>9. SpendsListed'
    BY <2>1, <2>5, <2>6, <2>7 DEF SpendsListed
  <2>10. QED
    BY <2>8, <2>9 DEF Pending
<1>18. QED
  BY <1>12, <1>14, <1>15, <1>16, <1>17 DEF CustodyInv

----------------------------------------------------------------------------
\* The invariant.

LEMMA CustodyInit == Init => CustodyInv
<1> SUFFICES ASSUME Init PROVE CustodyInv
  OBVIOUS
<1>1. /\ \A s \in Slots : utxos[s] = NoUtxo
      /\ \A t \in SpendIds : spends[t] = NoTx /\ spendTx[t] = NoTx
      /\ spendsList = <<>> /\ observed = {}
  BY DEF Init
<1>2. Made = {}
  BY <1>1 DEF Made
<1>3. Spent = {} /\ NoDoubleSpend
  BY <1>2 DEF Spent, NoDoubleSpend
<1>4. Pending
  BY <1>1 DEF Pending, SpendsListed
<1>5. QED
  BY <1>1, <1>3, <1>4 DEF CustodyInv, Tracks

\* What the invariant is about does not change.
LEMMA CustodyUnchanged ==
    ASSUME CustodyInv, UNCHANGED <<utxos, spends, spendsList, observed, spendTx>>
    PROVE  CustodyInv'
<1>1. /\ utxos' = utxos /\ spends' = spends /\ spendsList' = spendsList
      /\ observed' = observed /\ spendTx' = spendTx
  OBVIOUS
<1>2. Spent' = Spent /\ NoDoubleSpend'
  BY <1>1, SpentUnchanged DEF CustodyInv
<1>3. Noticed(observed)' = Noticed(observed)
  BY <1>1 DEF Noticed
<1>4. Tracks(utxos, Noticed(observed) \ Spent)'
  BY <1>1, <1>2, <1>3 DEF CustodyInv, Tracks
<1>5. Pending' /\ \A p \in observed' : Known(p[1])'
  BY <1>1 DEF CustodyInv, Pending, SpendsListed, Known
<1>6. QED
  BY <1>2, <1>3, <1>4, <1>5 DEF CustodyInv

LEMMA CustodyNext == IInv /\ CustodyInv /\ [Next]_vars => CustodyInv'
<1> SUFFICES ASSUME IInv, CustodyInv, [Next]_vars PROVE CustodyInv'
  OBVIOUS
<1>1. ASSUME NEW txid \in TxIds, NEW instrs \in MapInputs, NEW sender \in Accounts,
             NEW drawn \in BOOLEAN, Map(txid, instrs, sender, drawn)
      PROVE  CustodyInv'
  BY <1>1, MapKeepsCustody
<1>2. ASSUME NEW sender \in Accounts, NEW amount \in UnmapAmounts,
             NEW dest \in Addresses, NEW txid \in SpendIds,
             Unmap(sender, amount, dest, txid)
      PROVE  CustodyInv'
  BY <1>2, UnmapKeepsCustody
<1>3. ASSUME NEW from \in Accounts, NEW to \in Accounts, NEW amount \in TransferAmounts,
             Transfer(from, to, amount)
      PROVE  CustodyInv'
  BY <1>3, CustodyUnchanged DEF Transfer
<1>4. ASSUME NEW rate \in FeeRates, AddBlocks(rate)
      PROVE  CustodyInv'
  BY <1>4, CustodyUnchanged DEF AddBlocks
<1>5. CASE UNCHANGED vars
  BY <1>5, CustodyUnchanged DEF vars
<1>6. QED
  BY <1>1, <1>2, <1>3, <1>4, <1>5 DEF Next

LEMMA CustodyHolds == Spec => [](IInv /\ CustodyInv)
<1>1. QED
  BY InitHolds, NextKeeps, CustodyInit, CustodyNext, PTL DEF Spec

\* An output stays tracked or is spent.
Kept ==
    \A s \in Used :
        \/ \E t \in Slots : utxos'[t] = utxos[s]
        \/ \E t \in Made' : \E i \in DOMAIN spendTx'[t].ins :
               spendTx'[t].ins[i] = Point(s)

LEMMA NextKeepsOutputs == IInv /\ CustodyInv /\ [Next]_vars => [Kept]_vars
<1> SUFFICES ASSUME IInv, CustodyInv, [Next]_vars PROVE [Kept]_vars
  OBVIOUS
<1>1. ASSUME NEW txid \in TxIds, NEW instrs \in MapInputs, NEW sender \in Accounts,
             NEW drawn \in BOOLEAN, Map(txid, instrs, sender, drawn)
      PROVE  Kept
  <2>1. Holds(utxos')
    BY <1>1, MapTracks
  <2>2. QED
    BY <2>1 DEF Holds, Kept
<1>2. ASSUME NEW sender \in Accounts, NEW amount \in UnmapAmounts,
             NEW dest \in Addresses, NEW txid \in SpendIds,
             Unmap(sender, amount, dest, txid)
      PROVE  Kept
  <2>1. PICK inputIds \in SUBSET Used, spend \in Spend, store \in Trackings :
                 UnmapWrites(txid, inputIds, spend, store)
    BY <1>2, UnmapTracks
  <2>2. spendTx'[txid] = spend
    BY <2>1 DEF IInv, TypeOK, UnmapWrites
  <2>3. txid \in Made'
    BY <2>2, BtcMappingAssumption DEF Made
  <2>4. SUFFICES ASSUME NEW s \in Used
                 PROVE  \/ \E t \in Slots : utxos'[t] = utxos[s]
                        \/ \E t \in Made' : \E i \in DOMAIN spendTx'[t].ins :
                               spendTx'[t].ins[i] = Point(s)
    BY DEF Kept
  <2>5. CASE s \in inputIds
    <3>1. \E i \in DOMAIN spend.ins : spend.ins[i] = Point(s)
      BY <2>1, <2>5 DEF UnmapWrites
    <3>2. QED
      BY <2>2, <2>3, <3>1
  <2>6. CASE s \notin inputIds
    <3>1. s \in Slots /\ store.utxos[s] = utxos[s]
      BY <2>1 DEF UnmapWrites, Tracked, Used
    <3>2. utxos'[s] = utxos[s]
      BY <2>1, <2>6, <3>1 DEF UnmapWrites
    <3>3. QED
      BY <3>1, <3>2
  <2>7. QED
    BY <2>5, <2>6
<1>3. ASSUME utxos' = utxos PROVE Kept
  BY <1>3 DEF Kept, Used
<1>4. ASSUME NEW from \in Accounts, NEW to \in Accounts, NEW amount \in TransferAmounts,
             Transfer(from, to, amount)
      PROVE  Kept
  BY <1>3, <1>4 DEF Transfer
<1>5. ASSUME NEW rate \in FeeRates, AddBlocks(rate)
      PROVE  Kept
  BY <1>3, <1>5 DEF AddBlocks
<1>6. QED
  BY <1>1, <1>2, <1>4, <1>5 DEF Next

----------------------------------------------------------------------------
\* Change that waits for its confirmation.

\* A pending spend has a tag for each of its inputs, and what is in the
\* unconfirmed pool is change of a transaction the contract made.
KeepInv ==
    /\ \A t \in SpendIds :
           spends[t] # NoTx => spendTx[t] # NoTx /\ Len(spends[t]) = Len(spendTx[t].ins)
    /\ \A s \in UnconfirmedPool : utxos[s] # NoUtxo => utxos[s].txid \in Made
    /\ PromotableKeepsSpend

\* map puts nothing into the unconfirmed pool.
OnlyLeaves(store) == \A s \in UnconfirmedPool : store[s] # NoUtxo => store[s] = utxos[s]

\* Nothing is left in the unconfirmed pool of what the first k inputs match.
Promotes(store, txid, k) ==
    \A index \in 0..(k - 1) : UnconfirmedAt(store, txid, index) = {}

\* The states of the promotion loop after k iterations.
Promoting(txid, k) ==
    {st \in Promoted(TrackedPoints) :
        OnlyLeaves(st.utxos) /\ (st.full \/ Promotes(st.utxos, txid, k))}

LEMMA PromoteLeaves ==
    ASSUME NEW txid, NEW k \in Nat \ {0}, NEW st \in Promoting(txid, k - 1)
    PROVE  Promote(st, txid, k - 1) \in Promoting(txid, k)
<1> DEFINE R == Promote(st, txid, k - 1)
           store == st.utxos
           store2 == R.utxos
<1>1. /\ st \in Promoted(TrackedPoints) /\ st \in Promotions /\ Tracks(store, TrackedPoints)
      /\ OnlyLeaves(store) /\ (st.full \/ Promotes(store, txid, k - 1))
  BY DEF Promoting, Promoted
<1>2. R \in Promoted(TrackedPoints)
  BY <1>1, PromoteTracks
<1>3. \/ /\ store2 = store /\ (st.full => R.full)
         /\ R.full \/ UnconfirmedAt(store, txid, k - 1) = {}
      \/ /\ ~st.full
         /\ \E new \in ConfirmedPool :
            \E old \in UnconfirmedAt(store, txid, k - 1) :
                /\ store[new] = NoUtxo
                /\ store2 = [store EXCEPT ![new] = store[old], ![old] = NoUtxo]
  BY <1>1, PromoteSteps
<1>4. store \in Stores
  BY <1>1 DEF Promotions, PromotionStates
<1>5. \A index \in 0..(k - 1) : index = k - 1 \/ index \in 0..((k - 1) - 1)
  OBVIOUS
<1> HIDE DEF R, store
<1>6. CASE /\ store2 = store /\ (st.full => R.full)
           /\ R.full \/ UnconfirmedAt(store, txid, k - 1) = {}
  <2>1. R.full \/ Promotes(store2, txid, k)
    BY <1>1, <1>5, <1>6 DEF Promotes
  <2>2. R \in Promoting(txid, k)
    BY <1>1, <1>2, <1>6, <2>1 DEF Promoting
  <2>3. QED
    BY <2>2 DEF R
<1>7. CASE /\ ~st.full
           /\ \E new \in ConfirmedPool :
              \E old \in UnconfirmedAt(store, txid, k - 1) :
                  /\ store[new] = NoUtxo
                  /\ store2 = [store EXCEPT ![new] = store[old], ![old] = NoUtxo]
  <2>1. PICK new \in ConfirmedPool, old \in UnconfirmedAt(store, txid, k - 1) :
            store2 = [store EXCEPT ![new] = store[old], ![old] = NoUtxo]
    BY <1>7
  <2>2. /\ old \in UnconfirmedPool /\ store[old] # NoUtxo
        /\ new \notin UnconfirmedPool /\ new \in Slots /\ UnconfirmedPool \subseteq Slots
    BY PoolsInSlots DEF UnconfirmedAt
  <2>3. /\ store2[old] = NoUtxo
        /\ \A s \in UnconfirmedPool : s # old => store2[s] = store[s]
    BY <1>4, <2>1, <2>2 DEF Stores
  <2>4. OnlyLeaves(store2)
    BY <1>1, <2>3 DEF OnlyLeaves
  <2>5. \A index : UnconfirmedAt(store2, txid, index)
                       \subseteq UnconfirmedAt(store, txid, index) \ {old}
    BY <2>3 DEF UnconfirmedAt
  <2>6. \A s \in UnconfirmedAt(store, txid, k - 1) : s = old
    BY <1>1, <2>2 DEF UnconfirmedAt, Tracks, PointOf
  <2>7. Promotes(store2, txid, k)
    BY <1>1, <1>5, <1>7, <2>5, <2>6 DEF Promotes
  <2>8. R \in Promoting(txid, k)
    BY <1>2, <2>4, <2>7 DEF Promoting
  <2>9. QED
    BY <2>8 DEF R
<1>8. QED
  BY <1>3, <1>6, <1>7

\* The loop has promoted what its spend has inputs for, or was cut short.
LEMMA UpdateUtxoSpendsLeaves ==
    ASSUME IInv, CustodyInv, NEW txid
    PROVE  UpdateUtxoSpends(txid) \in Promoting(txid, PendingInputs(txid))
<1> DEFINE n == PendingInputs(txid)
           Z == [k \in 0..n |-> Promoting(txid, k)]
<1>1. n \in Nat
  BY DEF IInv, TypeOK, PendingInputs
<1>2. /\ 0 \in 0..n /\ n \in 0..n
      /\ \A k \in 1..n : k \in 0..n /\ k - 1 \in 0..n /\ k \in Nat \ {0}
  BY <1>1
<1>3. \A k \in 0..n : Z[k] = Promoting(txid, k)
  OBVIOUS
<1>4. PromotionStart \in Promoting(txid, 0)
  <2>1. PromotionStart \in Promotions /\ PromotionStart.utxos = utxos
    BY PromotionStarts
  <2>2. Tracks(utxos, TrackedPoints) /\ Holds(utxos)
    BY TracksTrackedPoints DEF Holds, Used
  <2>3. OnlyLeaves(utxos) /\ Promotes(utxos, txid, 0)
    BY DEF OnlyLeaves, Promotes
  <2>4. QED
    BY <2>1, <2>2, <2>3 DEF Promoting, Promoted
<1> HIDE DEF Z, n
<1>5. \A k \in 1..n : \A x \in Z[k - 1] \cap Promotions : Promote(x, txid, k - 1) \in Z[k]
  BY <1>2, <1>3, PromoteLeaves
<1>6. PromotionStart \in Z[0]
  BY <1>2, <1>3, <1>4
<1>7. UpdateUtxoSpends(txid) \in Z[n]
  BY <1>5, <1>6, UpdateUtxoSpendsRuns DEF n
<1>8. QED
  BY <1>2, <1>3, <1>7 DEF n

LEMMA ProcessOutputLeaves ==
    ASSUME TypeOK, NEW txid \in TxIds, Known(txid),
           NEW instrs \in SUBSET Instructions, NEW sender \in Accounts,
           NEW drawn \in BOOLEAN, NEW st \in Arrivals, NEW k \in 1..Len(Outs(txid)),
           NEW s \in UnconfirmedPool
    PROVE  ProcessOutput(st, txid, k - 1, instrs, sender, drawn).utxos[s] = st.utxos[s]
<1> DEFINE R == ProcessOutput(st, txid, k - 1, instrs, sender, drawn)
           out == Outs(txid)[k]
<1>1. \/ R.utxos = st.utxos
      \/ \E new \in Slots : \E u \in Utxo : Takes(st, R, txid, k, out, new, u)
  BY ProcessOutputSteps DEF Arrivals
<1>2. st.utxos \in Stores
  BY DEF Arrivals, ArrivalStates
<1> HIDE DEF R
<1>3. ASSUME NEW new \in Slots, NEW u \in Utxo, Takes(st, R, txid, k, out, new, u)
      PROVE  R.utxos[s] = st.utxos[s]
  <2>1. new \in ConfirmedPool /\ R.utxos = [st.utxos EXCEPT ![new] = u]
    BY <1>3 DEF Takes
  <2>2. new # s /\ s \in Slots
    BY <2>1, PoolsInSlots
  <2>3. QED
    BY <1>2, <2>1, <2>2 DEF Stores
<1>4. R.utxos[s] = st.utxos[s]
  BY <1>1, <1>3
<1>5. QED
  BY <1>4 DEF R

\* What map leaves in the unconfirmed pool.
LEMMA MapLeaves ==
    ASSUME IInv, CustodyInv, NEW txid \in TxIds, NEW instrs \in MapInputs,
           NEW sender \in Accounts, NEW drawn \in BOOLEAN,
           Map(txid, instrs, sender, drawn)
    PROVE  \E full \in BOOLEAN :
               /\ ForgetSpend(txid, full)
               /\ OnlyLeaves(utxos')
               /\ full \/ Promotes(utxos', txid, PendingInputs(txid))
<1> DEFINE promoted == UpdateUtxoSpends(txid)
           st0 == [utxos |-> promoted.utxos, registry |-> promoted.registry,
                   next |-> promoted.next, observed |-> observed,
                   balances |-> balances, total |-> 0, aborted |-> FALSE]
           st == ProcessUtxos(st0, txid, instrs, sender, drawn)
           Y == {x \in Arrivals :
                    \A s \in UnconfirmedPool : x.utxos[s] = promoted.utxos[s]}
<1>1. promoted \in Promoting(txid, PendingInputs(txid))
  BY UpdateUtxoSpendsLeaves
<1>2. Known(txid) /\ instrs \in SUBSET Instructions /\ TypeOK
  BY BtcMappingAssumption DEF Map, IInv
<1>3. ForgetSpend(txid, promoted.full) /\ utxos' = st.utxos
  BY DEF Map
<1> HIDE DEF promoted
<1>4. /\ promoted \in Promotions /\ OnlyLeaves(promoted.utxos)
      /\ promoted.full \/ Promotes(promoted.utxos, txid, PendingInputs(txid))
  BY <1>1 DEF Promoting, Promoted
<1>5. st0 \in Y
  BY <1>2, <1>4 DEF TypeOK, Promotions, PromotionStates, Arrivals, ArrivalStates
<1>6. \A x \in Y, k \in 1..Len(Outs(txid)) :
          ProcessOutput(x, txid, k - 1, instrs, sender, drawn) \in Y
  BY <1>2, ProcessOutputStays, ProcessOutputLeaves
<1> HIDE DEF st0, Y
<1>7. st \in Y
  BY <1>2, <1>5, <1>6, ProcessUtxosKeeps
<1> HIDE DEF st
<1>8. \A s \in UnconfirmedPool : utxos'[s] = promoted.utxos[s]
  BY <1>3, <1>7 DEF Y
<1>9. OnlyLeaves(utxos')
  BY <1>4, <1>8 DEF OnlyLeaves
<1>10. promoted.full \/ Promotes(utxos', txid, PendingInputs(txid))
  <2>1. \A index : UnconfirmedAt(utxos', txid, index)
                       = UnconfirmedAt(promoted.utxos, txid, index)
    BY <1>8 DEF UnconfirmedAt
  <2>2. QED
    BY <1>4, <2>1 DEF Promotes
<1>11. promoted.full \in BOOLEAN
  BY <1>4 DEF Promotions, PromotionStates
<1>12. QED
  BY <1>3, <1>9, <1>10, <1>11

LEMMA MapKeepsKeep ==
    ASSUME IInv, CustodyInv, KeepInv, NEW txid \in TxIds, NEW instrs \in MapInputs,
           NEW sender \in Accounts, NEW drawn \in BOOLEAN,
           Map(txid, instrs, sender, drawn)
    PROVE  KeepInv'
<1>1. PICK full \in BOOLEAN :
          /\ ForgetSpend(txid, full)
          /\ OnlyLeaves(utxos')
          /\ full \/ Promotes(utxos', txid, PendingInputs(txid))
  BY MapLeaves
<1>2. spendTx' = spendTx
  BY DEF Map
<1>3. /\ utxos \in [Slots -> Utxo \cup {NoUtxo}]
      /\ spends \in [SpendIds -> Seq(Tags) \cup {NoTx}]
  BY DEF IInv, TypeOK
<1>4. \A t \in SpendIds : spends'[t] # NoTx =>
          /\ spends[t] # NoTx /\ spends'[t] = spends[t]
          /\ t = txid => full
  BY <1>1, <1>3 DEF ForgetSpend
<1>5. \A t \in SpendIds : spends[t] # NoTx => spends'[t] # NoTx \/ (t = txid /\ ~full)
  BY <1>1, <1>3 DEF ForgetSpend
<1>6. \A t \in SpendIds :
          spends'[t] # NoTx => spendTx'[t] # NoTx /\ Len(spends'[t]) = Len(spendTx'[t].ins)
  BY <1>2, <1>4 DEF KeepInv
<1>7. \A s \in UnconfirmedPool : utxos'[s] # NoUtxo => utxos'[s] = utxos[s] /\ s \in Used
  BY <1>1, PoolsInSlots DEF OnlyLeaves, Used
<1>8. Made' = Made
  BY <1>2 DEF Made
<1>9. \A s \in UnconfirmedPool : utxos'[s] # NoUtxo => utxos'[s].txid \in Made'
  BY <1>7, <1>8 DEF KeepInv, Used
<1>10. PromotableKeepsSpend'
  <2>1. SUFFICES ASSUME NEW s \in Slots, s \in UnconfirmedPool, utxos'[s] # NoUtxo,
                        utxos'[s].vout < Len(spendTx'[utxos'[s].txid].ins)
                 PROVE  spends'[utxos'[s].txid] # NoTx
    BY DEF PromotableKeepsSpend, Used
  <2> DEFINE t == utxos[s].txid
             v == utxos[s].vout
  <2>2. utxos'[s] = utxos[s] /\ s \in Used /\ t \in Made /\ t \in SpendIds
    BY <1>7, <2>1 DEF KeepInv, Used, Made
  <2>3. v \in Nat
    BY <1>3, <2>1, <2>2 DEF Utxo
  <2>4. v < Len(spendTx[t].ins)
    BY <1>2, <2>1, <2>2
  <2>5. spends[t] # NoTx /\ Len(spends[t]) = Len(spendTx[t].ins)
    BY <2>1, <2>2, <2>4 DEF KeepInv, PromotableKeepsSpend
  <2>6. ~(t = txid /\ ~full)
    <3>1. SUFFICES ASSUME t = txid, ~full PROVE FALSE
      OBVIOUS
    <3>2. PendingInputs(txid) = Len(spends[t]) /\ Len(spends[t]) \in Nat
      BY <1>3, <2>2, <2>5, <3>1 DEF PendingInputs
    <3>3. v \in 0..(PendingInputs(txid) - 1)
      BY <2>3, <2>4, <2>5, <3>2
    <3>4. UnconfirmedAt(utxos', txid, v) = {}
      BY <1>1, <3>1, <3>3 DEF Promotes
    <3>5. s \in UnconfirmedAt(utxos', txid, v)
      BY <2>1, <2>2, <3>1 DEF UnconfirmedAt
    <3>6. QED
      BY <3>4, <3>5
  <2>7. QED
    BY <1>5, <2>2, <2>5, <2>6
<1>11. QED
  BY <1>6, <1>9, <1>10 DEF KeepInv

LEMMA UnmapKeepsKeep ==
    ASSUME IInv, CustodyInv, KeepInv, NEW sender \in Accounts, NEW amount \in UnmapAmounts,
           NEW dest \in Addresses, NEW txid \in SpendIds,
           Unmap(sender, amount, dest, txid)
    PROVE  KeepInv'
<1>1. spendTx[txid] = NoTx
  BY UnmapTracks
<1>2. PICK inputIds \in SUBSET Used, spend \in Spend, store \in Trackings :
               UnmapWrites(txid, inputIds, spend, store)
  BY UnmapTracks
<1>3. PICK tags \in Seq(Tags) :
          Len(tags) = Len(spend.ins) /\ spends' = [spends EXCEPT ![txid] = tags]
  BY <1>2 DEF UnmapWrites
<1>4. /\ spends \in [SpendIds -> Seq(Tags) \cup {NoTx}]
      /\ spend # NoTx /\ tags # NoTx
  BY BtcMappingAssumption DEF IInv, TypeOK
<1>5. /\ spendTx'[txid] = spend
      /\ \A t \in SpendIds : t # txid => spendTx'[t] = spendTx[t]
      /\ Made' = Made \cup {txid} /\ txid \notin Made
  BY <1>1, <1>2, UnmapSpends
<1>6. /\ spends'[txid] = tags
      /\ \A t \in SpendIds : t # txid => spends'[t] = spends[t]
  BY <1>3, <1>4
<1>7. \A t \in SpendIds :
          spends'[t] # NoTx => spendTx'[t] # NoTx /\ Len(spends'[t]) = Len(spendTx'[t].ins)
  BY <1>3, <1>4, <1>5, <1>6 DEF KeepInv
<1>8. ASSUME NEW s \in Slots, utxos'[s] # NoUtxo
      PROVE  \/ s \in Used /\ utxos'[s] = utxos[s]
             \/ utxos'[s].txid = txid
  <2> DEFINE back == ChangePoints(txid, spend.outs, Len(spend.outs))
  <2>1. /\ utxos'[s] = store.utxos[s]
        /\ \A r \in Used : store.utxos[r] = utxos[r]
        /\ Tracks(store.utxos, TrackedPoints \cup back)
    BY <1>2, <1>8 DEF UnmapWrites, Tracked
  <2>2. CASE s \in Used
    BY <2>1, <2>2
  <2>3. CASE s \notin Used
    <3>1. PointOf(store.utxos[s]) \in TrackedPoints \cup back
      BY <1>8, <2>1 DEF Tracks
    <3>2. PointOf(store.utxos[s]) \notin TrackedPoints
      <4>1. SUFFICES ASSUME NEW r \in Used, PointOf(store.utxos[s]) = Point(r)
                     PROVE  FALSE
        BY DEF TrackedPoints
      <4>2. /\ PointOf(store.utxos[r]) = PointOf(store.utxos[s])
            /\ store.utxos[r] # NoUtxo /\ r \in Slots
        BY <2>1, <4>1 DEF Point, PointOf, Used
      <4>3. QED
        BY <1>8, <2>1, <2>3, <4>2 DEF Tracks
    <3>3. PointOf(store.utxos[s])[1] = txid
      BY <3>1, <3>2 DEF ChangePoints
    <3>4. QED
      BY <2>1, <3>3 DEF PointOf
  <2>4. QED
    BY <2>2, <2>3
<1>9. \A s \in UnconfirmedPool : utxos'[s] # NoUtxo => utxos'[s].txid \in Made'
  BY <1>5, <1>8, PoolsInSlots DEF KeepInv, Used
<1>10. PromotableKeepsSpend'
  <2>1. SUFFICES ASSUME NEW s \in Slots, s \in UnconfirmedPool, utxos'[s] # NoUtxo,
                        utxos'[s].vout < Len(spendTx'[utxos'[s].txid].ins)
                 PROVE  spends'[utxos'[s].txid] # NoTx
    BY DEF PromotableKeepsSpend, Used
  <2>2. CASE utxos'[s].txid = txid
    BY <1>4, <1>6, <2>2
  <2>3. CASE s \in Used /\ utxos'[s] = utxos[s] /\ utxos[s].txid # txid
    <3>1. utxos[s].txid \in Made /\ utxos[s].txid \in SpendIds
      BY <2>1, <2>3 DEF KeepInv, Used, Made
    <3>2. spends[utxos[s].txid] # NoTx
      BY <1>5, <2>1, <2>3, <3>1 DEF KeepInv, PromotableKeepsSpend
    <3>3. QED
      BY <1>6, <2>3, <3>1, <3>2
  <2>4. QED
    BY <1>8, <2>1, <2>2, <2>3
<1>11. QED
  BY <1>7, <1>9, <1>10 DEF KeepInv

LEMMA KeepInit == Init => KeepInv
<1> SUFFICES ASSUME Init PROVE KeepInv
  OBVIOUS
<1>1. /\ \A s \in Slots : utxos[s] = NoUtxo
      /\ \A t \in SpendIds : spends[t] = NoTx
  BY DEF Init
<1>2. QED
  BY <1>1, PoolsInSlots DEF KeepInv, PromotableKeepsSpend, Used

LEMMA KeepNext == IInv /\ CustodyInv /\ KeepInv /\ [Next]_vars => KeepInv'
<1> SUFFICES ASSUME IInv, CustodyInv, KeepInv, [Next]_vars PROVE KeepInv'
  OBVIOUS
<1>1. ASSUME NEW txid \in TxIds, NEW instrs \in MapInputs, NEW sender \in Accounts,
             NEW drawn \in BOOLEAN, Map(txid, instrs, sender, drawn)
      PROVE  KeepInv'
  BY <1>1, MapKeepsKeep
<1>2. ASSUME NEW sender \in Accounts, NEW amount \in UnmapAmounts,
             NEW dest \in Addresses, NEW txid \in SpendIds,
             Unmap(sender, amount, dest, txid)
      PROVE  KeepInv'
  BY <1>2, UnmapKeepsKeep
<1>3. ASSUME UNCHANGED <<utxos, spends, spendTx>> PROVE KeepInv'
  BY <1>3 DEF KeepInv, PromotableKeepsSpend, Used, Made
<1>4. ASSUME NEW from \in Accounts, NEW to \in Accounts, NEW amount \in TransferAmounts,
             Transfer(from, to, amount)
      PROVE  KeepInv'
  BY <1>3, <1>4 DEF Transfer
<1>5. ASSUME NEW rate \in FeeRates, AddBlocks(rate)
      PROVE  KeepInv'
  BY <1>3, <1>5 DEF AddBlocks
<1>6. CASE UNCHANGED vars
  BY <1>3, <1>6 DEF vars
<1>7. QED
  BY <1>1, <1>2, <1>4, <1>5, <1>6 DEF Next

----------------------------------------------------------------------------
\* The theorems.

\* No output is tracked in two slots, whatever transactions map is shown again
\* and whatever order spends and their confirmations come in, and none is
\* tracked that a withdrawal has spent: unmap cannot select it again.
THEOREM OutputsTrackedOnce == Spec => []TrackedOnce
<1>1. CustodyInv => TrackedOnce
  <2> SUFFICES ASSUME CustodyInv PROVE TrackedOnce
    OBVIOUS
  <2>1. /\ \A s \in Used : s \in Slots /\ utxos[s] # NoUtxo /\ Point(s) = PointOf(utxos[s])
        /\ Tracks(utxos, Noticed(observed) \ Spent)
    BY DEF Used, Point, PointOf, CustodyInv
  <2>2. \A s \in Used : Point(s) \notin Spent
    BY <2>1 DEF Tracks
  <2>3. \A t \in Made : SpentPoints(t) \subseteq Spent
    BY DEF Spent
  <2>4. QED
    BY <2>1, <2>2, <2>3 DEF TrackedOnce, Tracks
<1>2. QED
  BY <1>1, CustodyHolds, PTL

\* No two transactions that unmap builds have an input in common, so that
\* Bitcoin can take them all.
THEOREM SpendsApart == Spec => []NoDoubleSpend
<1>1. CustodyInv => NoDoubleSpend
  BY DEF CustodyInv
<1>2. QED
  BY <1>1, CustodyHolds, PTL

\* The list of pending spends, from which map takes by swapping, names every
\* transaction that has signing data, once, and no other.
THEOREM PendingSpendsListed == Spec => []SpendsListed
<1>1. CustodyInv => SpendsListed
  BY DEF CustodyInv, Pending
<1>2. QED
  BY <1>1, CustodyHolds, PTL

\* A confirmation that a full pool cuts short can be shown to map again: the
\* signing data of a spend goes only when the loop has been through all of its
\* inputs, and then none of its change is left that an input's index matches.
THEOREM ConfirmationRepeatable == Spec => []PromotableKeepsSpend
<1>1. KeepInv => PromotableKeepsSpend
  BY DEF KeepInv
<1>2. QED
  BY <1>1, CustodyHolds, KeepInit, KeepNext, PTL DEF Spec

\* No step drops an output the contract tracks, by overwriting its slot or
\* otherwise, except into a transaction that spends it.
THEOREM OutputsKept == Spec => OutputsNeverLost
<1>1. QED
  BY CustodyHolds, NextKeepsOutputs, PTL DEF Spec, OutputsNeverLost, Kept

=============================================================================
