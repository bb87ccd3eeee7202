----------------------------- MODULE LedgerProofs -----------------------------
(***************************************************************************)
(* Theorems about the money of the mapping contract, for every set of      *)
(* deposits and withdrawals: the supplies are what the accounts hold, the  *)
(* outputs back them, every output is credited once, and the contract      *)
(* implements Bridge.                                                      *)
(*                                                                         *)
(* The registry is rewritten by every withdrawal, so the sum of its        *)
(* entries is first turned into a sum over the slots, which are a fixed    *)
(* finite set.  Each action is then followed through its loops for what it *)
(* adds to that sum, to the accounts and to the supplies: map adds the     *)
(* same total to all of them, and unmap takes from the slots at most what  *)
(* it takes from its sender, because the protocol fee is more than the     *)
(* dust it may leave to the miners.                                        *)
(***************************************************************************)
EXTENDS BtcMappingProofs, BridgeRefinement

\* What the slots are worth, slot by slot and together.  The slots are a fixed
\* finite set, whatever the order of the registry.
WorthOf(u) == IF u = NoUtxo THEN 0 ELSE u.amount
SlotWorth(store) == [s \in Slots |-> WorthOf(store[s])]
HeldWorth(store) == SumFunctionOnSet(SlotWorth(store), Slots)

----------------------------------------------------------------------------
\* Sums over sequences.

\* The sum of a sequence is that of its elements, as of any function.
LEMMA PrefixSumFacts ==
    ASSUME NEW list \in Seq(Int)
    PROVE  /\ PrefixSum(list, 0) = 0
           /\ \A k \in 1..Len(list) : PrefixSum(list, k) = PrefixSum(list, k - 1) + list[k]
           /\ SumFunction(list) = PrefixSum(list, Len(list))
<1> DEFINE n == Len(list)
           Y == Int
           start == 0
           acc[j \in 0..n] == IF j = 0 THEN 0 ELSE acc[j - 1] + list[j]
           g == [p \in (1..n) \X Y |-> p[2] + list[p[1]]]
<1>1. n \in Nat /\ DOMAIN list = 1..n /\ \A j \in 1..n : list[j] \in Y
  OBVIOUS
<1>2. \A j \in 1..n, x \in Y : x + list[j] \in Y
  BY <1>1
<1>3. start \in Y
  OBVIOUS
<1>4. acc = [j \in 0..n |-> IF j = 0 THEN 0 ELSE acc[j - 1] + list[j]]
  <2>1. g \in Iterations(n, Y)
    <3> HIDE DEF n, Y
    <3> QED
      BY <1>2 DEF Iterations
  <2>2. PICK f : f \in Runs(n, Y, start, g)
    <3> HIDE DEF g, n, Y, start
    <3> QED
      BY <1>1, <1>3, <2>1, RunExists
  <2>3. f = [j \in 0..n |-> IF j = 0 THEN start ELSE f[j - 1] + list[j]]
    <3> HIDE DEF n, Y, start
    <3>1. /\ f \in [0..n -> Y] /\ f[0] = start
          /\ \A j \in 1..n : f[j] = g[<<j, f[j - 1]>>]
      BY <2>2 DEF Runs
    <3>2. ASSUME NEW j \in 1..n
          PROVE  f[j] = f[j - 1] + list[j]
      <4>1. f[j - 1] \in Y
        BY <1>1, <3>1
      <4>2. QED
        BY <4>1, <3>1
    <3> HIDE DEF g
    <3>3. \A j \in 0..n : j # 0 => j \in 1..n
      BY <1>1
    <3>4. QED
      BY <3>1, <3>2, <3>3
  <2>4. QED
    BY <2>3
<1>5. \A k \in 0..n : PrefixSum(list, k) = acc[k]
  BY DEF PrefixSum
<1> HIDE DEF acc, n, Y
<1>6. acc[0] = 0 /\ \A j \in 1..n : acc[j] = acc[j - 1] + list[j]
  BY <1>1, <1>4
<1>7. 0 \in 0..n /\ n \in 0..n /\ \A j \in 1..n : j \in 0..n /\ j - 1 \in 0..n
  BY <1>1
<1> DEFINE S == {k \in 0..n : SumFunctionOnSet(list, 1..k) = acc[k] /\ acc[k] \in Int}
<1>8. 0 \in S
  <2>1. 1..0 = {}
    OBVIOUS
  <2>2. Summable(list, {})
    BY FS_EmptySet DEF Summable
  <2>3. SumFunctionOnSet(list, {}) = 0
    BY <2>2, SumFacts
  <2>4. QED
    BY <1>6, <1>7, <2>1, <2>3
<1>9. ASSUME NEW k \in 1..n, k - 1 \in S
      PROVE  k \in S
  <2> DEFINE T == 1..(k - 1)
             V == 1..k
  <2>1. V = T \cup {k} /\ k \notin T
    BY <1>1
  <2>2. Summable(list, T)
    BY <1>1, FS_Interval DEF Summable, Y
  <2>3. list[k] \in Int /\ SameOn(T, list, list)
    BY <1>1 DEF Y, SameOn
  <2>4. SumFunctionOnSet(list, T) = acc[k - 1] /\ acc[k - 1] \in Int
    BY <1>9
  <2> HIDE DEF T, V
  <2>5. SumFunctionOnSet(list, V) = SumFunctionOnSet(list, T) + list[k]
    BY <2>1, <2>2, <2>3, SumMore
  <2>6. SumFunctionOnSet(list, V) = acc[k] /\ acc[k] \in Int
    BY <1>6, <2>3, <2>4, <2>5
  <2>7. QED
    BY <1>7, <2>6 DEF V
<1>10. n \in S
  <2> HIDE DEF S
  <2>1. 0..n \subseteq S
    BY <1>1, <1>8, <1>9, UpTo
  <2>2. QED
    BY <1>1, <2>1
<1>11. SumFunction(list) = SumFunctionOnSet(list, 1..n)
  BY <1>1 DEF SumFunction
<1>12. QED
  BY <1>5, <1>6, <1>7, <1>10, <1>11 DEF n

----------------------------------------------------------------------------
\* What the slots are worth.

LEMMA WorthType ==
    ASSUME NEW store \in Stores
    PROVE  /\ \A s \in Slots : SlotWorth(store)[s] = WorthOf(store[s])
           /\ \A s \in Slots : WorthOf(store[s]) \in Int
           /\ Summable(SlotWorth(store), Slots)
           /\ HeldWorth(store) \in Int
<1>1. ASSUME NEW s \in Slots
      PROVE  SlotWorth(store)[s] = WorthOf(store[s]) /\ WorthOf(store[s]) \in Int
  <2>1. store[s] # NoUtxo => store[s] \in Utxo
    BY DEF Stores
  <2>2. store[s] # NoUtxo => store[s].amount \in Int
    BY <2>1 DEF Utxo
  <2>3. QED
    BY <2>2 DEF SlotWorth, WorthOf
<1>2. IsFiniteSet(Slots)
  BY FS_Interval, SlotPoolsAssumption DEF Slots
<1>3. Summable(SlotWorth(store), Slots)
  BY <1>1, <1>2 DEF Summable
<1>4. HeldWorth(store) \in Int
  BY <1>3, SumFacts DEF HeldWorth
<1>5. QED
  BY <1>1, <1>3, <1>4

\* The registry is worth what the slots are.
LEMMA RegistryWorth ==
    ASSUME NEW store \in Stores, NEW list \in Seq(Entry), Consistent(store, list)
    PROVE  SumFunction(Amounts(list)) = HeldWorth(store)
<1> DEFINE f == Amounts(list)
           g == SlotWorth(store)
           P == 1..Len(list)
           m == [p \in P |-> list[p].id]
           T == {m[p] : p \in P}
<1>1. DOMAIN list = P /\ IsFiniteSet(P) /\ \A p \in P : list[p] \in Entry
  BY FS_Interval
<1>2. DOMAIN f = P /\ \A p \in P : f[p] = list[p].amount /\ m[p] = list[p].id
  BY <1>1 DEF Amounts
<1>3. \A p \in P : f[p] \in Int /\ m[p] \in Slots
  BY <1>1, <1>2 DEF Entry
<1>4. (\A s \in Slots : g[s] = WorthOf(store[s])) /\ Summable(g, Slots)
  BY WorthType
<1> HIDE DEF f, g, P, m
<1>5. Summable(f, P) /\ Renaming(m, P, T)
  BY <1>1, <1>2, <1>3 DEF Summable, Renaming, Consistent
<1>6. \A p \in P : g[m[p]] = f[p]
  BY <1>1, <1>2, <1>3, <1>4 DEF Consistent, WorthOf
<1>7. T \in SUBSET Slots
  BY <1>3
<1>8. \A s \in Slots \ T : g[s] = 0
  <2>1. SUFFICES ASSUME NEW s \in Slots, s \notin T PROVE g[s] = 0
    OBVIOUS
  <2>2. store[s] = NoUtxo
    <3>1. SUFFICES ASSUME store[s] # NoUtxo PROVE FALSE
      OBVIOUS
    <3>2. PICK p \in P : list[p].id = s
      BY <1>1, <3>1 DEF Consistent
    <3>3. QED
      BY <1>2, <2>1, <3>2
  <2>3. QED
    BY <1>4, <2>2 DEF WorthOf
<1> HIDE DEF T
<1>9. SumFunctionOnSet(g, T) = SumFunctionOnSet(f, P)
  BY <1>5, <1>6, SumRenamed
<1>10. /\ Summable(g, Slots \ T) /\ SumFunctionOnSet(g, T) \in Int
       /\ SumFunctionOnSet(g, Slots)
              = SumFunctionOnSet(g, T) + SumFunctionOnSet(g, Slots \ T)
  BY <1>4, <1>7, SumApart
<1>11. SumFunctionOnSet(g, Slots \ T) = 0
  BY <1>8, <1>10, SumOfZeros DEF Summable
<1>12. SumFunction(f) = SumFunctionOnSet(f, P)
  BY <1>2 DEF SumFunction
<1>13. QED
  BY <1>9, <1>10, <1>11, <1>12 DEF HeldWorth, f, g

\* One slot changes.
LEMMA HeldAfterChange ==
    ASSUME NEW store \in Stores, NEW store2 \in Stores, NEW a \in Slots,
           \A s \in Slots : s # a => store2[s] = store[s]
    PROVE  HeldWorth(store2) = HeldWorth(store) - WorthOf(store[a]) + WorthOf(store2[a])
<1> DEFINE f == SlotWorth(store)
           g == SlotWorth(store2)
<1>1. /\ \A s \in Slots : f[s] = WorthOf(store[s]) /\ g[s] = WorthOf(store2[s])
      /\ \A s \in Slots : WorthOf(store2[s]) \in Int
      /\ Summable(f, Slots)
  BY WorthType
<1> HIDE DEF f, g
<1>2. SameOn(Slots \ {a}, f, g) /\ g[a] \in Int
  BY <1>1 DEF SameOn
<1>3. SumFunctionOnSet(g, Slots) = SumFunctionOnSet(f, Slots) - f[a] + g[a]
  BY <1>1, <1>2, SumChanged
<1>4. QED
  BY <1>1, <1>3 DEF HeldWorth, f, g

\* A free slot is filled.
LEMMA HeldAfterAdd ==
    ASSUME NEW store \in Stores, NEW new \in Slots, store[new] = NoUtxo, NEW u \in Utxo
    PROVE  /\ HeldWorth([store EXCEPT ![new] = u]) = HeldWorth(store) + u.amount
           /\ HeldWorth(store) \in Int
<1> DEFINE store2 == [store EXCEPT ![new] = u]
<1>1. store2 \in Stores
  BY DEF Stores
<1>2. store2[new] = u /\ \A s \in Slots : s # new => store2[s] = store[s]
  BY DEF Stores
<1>3. WorthOf(u) = u.amount /\ u.amount \in Int /\ WorthOf(store[new]) = 0
  BY BtcMappingAssumption DEF Utxo, WorthOf
<1> HIDE DEF store2
<1>4. HeldWorth(store2) = HeldWorth(store) - WorthOf(store[new]) + WorthOf(store2[new])
  BY <1>1, <1>2, HeldAfterChange
<1>5. HeldWorth(store) \in Int
  BY WorthType
<1>6. QED
  BY <1>2, <1>3, <1>4, <1>5 DEF store2

\* An output moves to a free slot.
LEMMA HeldAfterMove ==
    ASSUME NEW store \in Stores, NEW new \in Slots, NEW old \in Slots,
           store[new] = NoUtxo, store[old] # NoUtxo
    PROVE  HeldWorth([store EXCEPT ![new] = store[old], ![old] = NoUtxo])
               = HeldWorth(store)
<1> DEFINE mid == [store EXCEPT ![new] = store[old]]
           store2 == [store EXCEPT ![new] = store[old], ![old] = NoUtxo]
<1>1. store[old] \in Utxo
  BY DEF Stores
<1>2. mid \in Stores /\ store2 \in Stores
  BY <1>1 DEF Stores
<1>3. HeldWorth(mid) = HeldWorth(store) + store[old].amount /\ HeldWorth(store) \in Int
  BY <1>1, HeldAfterAdd
<1>4. /\ mid[old] = store[old] /\ store2[old] = NoUtxo
      /\ \A s \in Slots : s # old => store2[s] = mid[s]
  BY <1>2 DEF Stores
<1>5. /\ store[old].amount \in Int /\ WorthOf(store[old]) = store[old].amount
      /\ WorthOf(NoUtxo) = 0
  BY <1>1 DEF Utxo, WorthOf
<1> HIDE DEF mid, store2
<1>6. HeldWorth(store2) = HeldWorth(mid) - WorthOf(mid[old]) + WorthOf(store2[old])
  BY <1>2, <1>4, HeldAfterChange
<1>7. QED
  BY <1>3, <1>4, <1>5, <1>6 DEF store2

\* Slots are cleared.
LEMMA HeldAfterRemove ==
    ASSUME NEW store \in Stores, NEW removed \in SUBSET Slots
    PROVE  /\ SumFunctionOnSet(SlotWorth(store), removed) \in Int
           /\ HeldWorth([s \in Slots |-> IF s \in removed THEN NoUtxo ELSE store[s]])
                  = HeldWorth(store) - SumFunctionOnSet(SlotWorth(store), removed)
<1> DEFINE store2 == [s \in Slots |-> IF s \in removed THEN NoUtxo ELSE store[s]]
           f == SlotWorth(store)
           g == SlotWorth(store2)
<1>1. store2 \in Stores
  BY DEF Stores
<1>2. /\ \A s \in removed : store2[s] = NoUtxo
      /\ \A s \in Slots \ removed : store2[s] = store[s]
  OBVIOUS
<1> HIDE DEF store2
<1>3. /\ \A s \in Slots : f[s] = WorthOf(store[s]) /\ g[s] = WorthOf(store2[s])
      /\ Summable(f, Slots) /\ Summable(g, Slots)
  BY <1>1, WorthType
<1> HIDE DEF f, g
<1>4. (\A s \in removed : g[s] = 0) /\ SameOn(Slots \ removed, f, g)
  BY <1>2, <1>3 DEF SameOn, WorthOf
<1>5. /\ Summable(f, removed) /\ Summable(f, Slots \ removed)
      /\ SumFunctionOnSet(f, removed) \in Int /\ SumFunctionOnSet(f, Slots \ removed) \in Int
      /\ SumFunctionOnSet(f, Slots)
             = SumFunctionOnSet(f, removed) + SumFunctionOnSet(f, Slots \ removed)
  BY <1>3, SumApart
<1>6. SumFunctionOnSet(g, Slots)
          = SumFunctionOnSet(g, removed) + SumFunctionOnSet(g, Slots \ removed)
  BY <1>3, SumApart
<1>7. SumFunctionOnSet(g, removed) = 0
  BY <1>4, <1>5, SumOfZeros DEF Summable
<1>8. SumFunctionOnSet(g, Slots \ removed) = SumFunctionOnSet(f, Slots \ removed)
  BY <1>4, <1>5, SumSame
<1>9. QED
  BY <1>5, <1>6, <1>7, <1>8 DEF HeldWorth, f, g, store2

----------------------------------------------------------------------------
\* What the accounts hold.

LEMMA BalancesSum ==
    ASSUME NEW bal \in [Accounts -> Nat]
    PROVE  /\ SumFunction(bal) = SumFunctionOnSet(bal, Accounts)
           /\ Summable(bal, Accounts)
           /\ SumFunction(bal) \in Nat
           /\ \A a \in Accounts : bal[a] <= SumFunction(bal)
<1>1. IsFiniteSet(Accounts)
  BY BtcMappingAssumption
<1>2. SumFunction(bal) = SumFunctionOnSet(bal, Accounts)
  BY DEF SumFunction
<1>3. \A a \in Accounts : bal[a] \in Nat
  OBVIOUS
<1>4. QED
  BY <1>1, <1>2, <1>3, SumOfNats DEF Summable

LEMMA BalanceChanged ==
    ASSUME NEW bal \in [Accounts -> Nat], NEW bal2 \in [Accounts -> Nat],
           NEW a \in Accounts, \A b \in Accounts : b # a => bal2[b] = bal[b]
    PROVE  SumFunction(bal2) = SumFunction(bal) - bal[a] + bal2[a]
<1>1. SameOn(Accounts \ {a}, bal, bal2) /\ bal2[a] \in Int
  BY DEF SameOn
<1>2. Summable(bal, Accounts)
  BY BalancesSum
<1>3. SumFunctionOnSet(bal2, Accounts) = SumFunctionOnSet(bal, Accounts) - bal[a] + bal2[a]
  BY <1>1, <1>2, SumChanged
<1>4. QED
  BY <1>3, BalancesSum

LEMMA BalanceRaised ==
    ASSUME NEW bal \in [Accounts -> Nat], NEW a \in Accounts, NEW amount \in Nat
    PROVE  LET bal2 == [bal EXCEPT ![a] = @ + amount]
           IN  /\ SumFunction(bal2) = SumFunction(bal) + amount
               /\ \A b \in Accounts : bal2[b] >= bal[b]
<1> DEFINE bal2 == [bal EXCEPT ![a] = @ + amount]
<1>1. bal2 \in [Accounts -> Nat]
  OBVIOUS
<1>2. bal2[a] = bal[a] + amount /\ \A b \in Accounts : b # a => bal2[b] = bal[b]
  OBVIOUS
<1>3. bal[a] \in Nat /\ \A b \in Accounts : bal[b] \in Nat
  OBVIOUS
<1> HIDE DEF bal2
<1>4. SumFunction(bal2) = SumFunction(bal) - bal[a] + bal2[a]
  BY <1>1, <1>2, BalanceChanged
<1>5. SumFunction(bal) \in Nat
  BY BalancesSum
<1>6. SumFunction(bal2) = SumFunction(bal) + amount
  BY <1>2, <1>3, <1>4, <1>5
<1>7. \A b \in Accounts : bal2[b] >= bal[b]
  BY <1>2, <1>3
<1>8. QED
  BY <1>6, <1>7 DEF bal2

\* A deposit or a swap credits its amount, unless the credit is dropped because
\* it does not fit in the recipient's account.
LEMMA CreditedSum ==
    ASSUME NEW bal \in [Accounts -> Nat], NEW instr \in Instructions,
           NEW sender \in Accounts, NEW amount \in Nat, NEW drawn \in BOOLEAN
    PROVE  LET bal2 == Credited(bal, instr, sender, amount, drawn)
           IN  /\ \/ SumFunction(bal2) = SumFunction(bal) + amount
                  \/ SumFunction(bal) + amount > MaxInt64
               /\ \A a \in Accounts : bal2[a] >= bal[a]
<1> DEFINE bal2 == Credited(bal, instr, sender, amount, drawn)
<1>1. Recipient[instr] \in Accounts /\ Router \in Accounts /\ MaxInt64 \in Nat
  BY BtcMappingAssumption
<1>2. \/ bal2 = bal /\ bal[Recipient[instr]] + amount > MaxInt64
      \/ \E a \in Accounts : bal2 = [bal EXCEPT ![a] = @ + amount]
  BY <1>1 DEF Credited
<1> HIDE DEF bal2
<1>3. CASE bal2 = bal /\ bal[Recipient[instr]] + amount > MaxInt64
  <2>1. /\ bal[Recipient[instr]] \in Nat /\ SumFunction(bal) \in Nat
        /\ bal[Recipient[instr]] <= SumFunction(bal)
    BY <1>1, BalancesSum
  <2>2. SumFunction(bal) + amount > MaxInt64
    BY <1>1, <1>3, <2>1
  <2>3. \A a \in Accounts : bal2[a] >= bal[a]
    BY <1>3
  <2>4. QED
    BY <2>2, <2>3 DEF bal2
<1>4. CASE \E a \in Accounts : bal2 = [bal EXCEPT ![a] = @ + amount]
  BY <1>4, BalanceRaised DEF bal2
<1>5. QED
  BY <1>2, <1>3, <1>4

----------------------------------------------------------------------------
\* The invariant of the ledger.

\* An output that was observed is one its transaction has, with an amount.
AmountAt(p) == Outs(p[1])[p[2] + 1].amount
Paid(p) == p[2] + 1 \in DOMAIN Outs(p[1]) /\ AmountAt(p) \in Nat

\* What the outputs of obs have brought, and what the withdrawals have taken.
Deposited(obs) == SumFunction([o \in obs |-> AmountAt(o)])
ChargeOf(spend) ==
    LET amount == spend.outs[1].amount
    IN  amount + VscFee(amount) + spend.fee
Withdrawn == SumFunction([t \in Made |-> ChargeOf(spendTx[t])])

LedgerInv ==
    /\ IsFiniteSet(observed) /\ IsFiniteSet(Made)
    /\ \A p \in observed : Paid(p)
    /\ \A t \in Made : spendTx[t].outs # <<>>
    /\ SupplyIsBalances
    /\ Backed
    /\ DepositsCreditedOnce

LEMMA DepositedMore ==
    ASSUME NEW obs, IsFiniteSet(obs), \A p \in obs : Paid(p),
           NEW o, o \notin obs, Paid(o)
    PROVE  /\ IsFiniteSet(obs \cup {o})
           /\ Deposited(obs \cup {o}) = Deposited(obs) + AmountAt(o)
           /\ Deposited(obs) \in Int
<1> DEFINE T == obs \cup {o}
           f == [p \in obs |-> AmountAt(p)]
           g == [p \in T |-> AmountAt(p)]
<1>1. /\ \A p \in obs : f[p] = AmountAt(p) /\ g[p] = AmountAt(p)
      /\ g[o] = AmountAt(o) /\ DOMAIN f = obs /\ DOMAIN g = T
  OBVIOUS
<1>2. \A p \in obs : AmountAt(p) \in Int
  BY DEF Paid
<1>3. AmountAt(o) \in Int
  BY DEF Paid
<1> HIDE DEF f, g
<1>4. Summable(f, obs) /\ SameOn(obs, f, g)
  BY <1>1, <1>2 DEF Summable, SameOn
<1>5. g[o] \in Int
  BY <1>1, <1>3
<1>6. Summable(g, T) /\ SumFunctionOnSet(g, T) = SumFunctionOnSet(f, obs) + g[o]
  BY <1>4, <1>5, SumMore
<1>7. SumFunctionOnSet(f, obs) \in Int
  BY <1>4, SumFacts
<1>8. SumFunction(f) = SumFunctionOnSet(f, obs) /\ SumFunction(g) = SumFunctionOnSet(g, T)
  BY <1>1 DEF SumFunction
<1>9. Deposited(obs) = SumFunction(f) /\ Deposited(T) = SumFunction(g)
  BY DEF Deposited, f, g
<1>10. IsFiniteSet(T)
  BY <1>6 DEF Summable
<1>11. QED
  BY <1>1, <1>6, <1>7, <1>8, <1>9, <1>10

----------------------------------------------------------------------------
\* map.

\* A confirmation moves outputs and loses none of their worth.
LEMMA PromotedWorth ==
    ASSUME IInv, NEW txid
    PROVE  /\ UpdateUtxoSpends(txid) \in Promotions
           /\ HeldWorth(UpdateUtxoSpends(txid).utxos) = HeldWorth(utxos)
<1> DEFINE Y == {x \in Promotions : HeldWorth(x.utxos) = HeldWorth(utxos)}
<1>1. PromotionStart \in Promotions /\ PromotionStart.utxos = utxos
  BY PromotionStarts
<1>2. PromotionStart \in Y
  <2> QED
    BY <1>1
<1>3. ASSUME NEW x \in Y, NEW index \in Nat
      PROVE  Promote(x, txid, index) \in Y
  <2> DEFINE R == Promote(x, txid, index)
  <2>1. R \in Promotions
    BY PromoteStays
  <2>2. \/ R.utxos = x.utxos
        \/ \E new, old \in Slots :
               /\ x.utxos[new] = NoUtxo /\ x.utxos[old] # NoUtxo
               /\ R.utxos = [x.utxos EXCEPT ![new] = x.utxos[old], ![old] = NoUtxo]
    BY PromoteSteps, PoolsInSlots DEF UnconfirmedAt
  <2>3. x.utxos \in Stores
    BY DEF Promotions, PromotionStates
  <2> HIDE DEF R
  <2>4. HeldWorth(R.utxos) = HeldWorth(x.utxos)
    <3> DEFINE store == x.utxos
    <3>1. store \in Stores
      BY <2>3
    <3> HIDE DEF store
    <3>2. ASSUME NEW new \in Slots, NEW old \in Slots,
                 store[new] = NoUtxo, store[old] # NoUtxo,
                 R.utxos = [store EXCEPT ![new] = store[old], ![old] = NoUtxo]
          PROVE  HeldWorth(R.utxos) = HeldWorth(store)
      BY <3>1, <3>2, HeldAfterMove
    <3>3. QED
      BY <2>2, <3>2 DEF store
  <2>5. R \in Y
    BY <2>1, <2>4
  <2>6. QED
    BY <2>5 DEF R
<1> HIDE DEF Y
<1>4. UpdateUtxoSpends(txid) \in Y
  BY <1>2, <1>3, UpdateUtxoSpendsKeeps DEF IInv
<1>5. QED
  BY <1>4 DEF Y

\* The states of the loop over the outputs of a transaction: what it has put
\* into slots it has counted, and credited unless an overflow was ignored.
Credits ==
    {st \in Arrivals :
        /\ IsFiniteSet(st.observed) /\ \A p \in st.observed : Paid(p)
        /\ HeldWorth(st.utxos) = HeldWorth(utxos) + st.total
        /\ Deposited(st.observed) = Deposited(observed) + st.total
        /\ \/ SumFunction(st.balances) = SumFunction(balances) + st.total
           \/ SumFunction(balances) + st.total > MaxInt64}

LEMMA ProcessOutputCredits ==
    ASSUME IInv, NEW txid \in TxIds, Known(txid),
           NEW instrs \in SUBSET Instructions, NEW sender \in Accounts,
           NEW drawn \in BOOLEAN, NEW st \in Credits, NEW k \in 1..Len(Outs(txid)),
           Deposited(observed) \in Int
    PROVE  ProcessOutput(st, txid, k - 1, instrs, sender, drawn) \in Credits
<1> DEFINE R == ProcessOutput(st, txid, k - 1, instrs, sender, drawn)
           out == Outs(txid)[k]
<1>1. TypeOK
  BY DEF IInv
<1>2. /\ st \in Arrivals
      /\ IsFiniteSet(st.observed) /\ \A p \in st.observed : Paid(p)
      /\ HeldWorth(st.utxos) = HeldWorth(utxos) + st.total
      /\ Deposited(st.observed) = Deposited(observed) + st.total
      /\ \/ SumFunction(st.balances) = SumFunction(balances) + st.total
         \/ SumFunction(balances) + st.total > MaxInt64
  BY DEF Credits
<1>3. R \in Arrivals
  BY <1>1, <1>2, ProcessOutputStays
<1>4. \/ /\ R.utxos = st.utxos /\ R.observed = st.observed
         /\ R.balances = st.balances /\ R.total = st.total
      \/ /\ R.balances = Credited(st.balances, out.addr, sender, out.amount, drawn)
         /\ \E new \in Slots : \E u \in Utxo : Takes(st, R, txid, k, out, new, u)
  BY <1>1, <1>2, ProcessOutputSteps DEF Arrivals
<1>5. /\ st.utxos \in Stores /\ st.total \in Nat /\ st.balances \in [Accounts -> Nat]
      /\ HeldWorth(utxos) \in Int
  <2>1. utxos \in Stores
    BY <1>1 DEF TypeOK, Stores
  <2>2. QED
    BY <1>2, <2>1, WorthType DEF Arrivals, ArrivalStates
<1>6. SumFunction(st.balances) \in Nat /\ SumFunction(balances) \in Nat /\ MaxInt64 \in Nat
  BY <1>1, <1>5, BalancesSum, BtcMappingAssumption DEF TypeOK
<1>7. Outs(txid) \in Seq(TxOut)
  BY <1>1, OutsType
<1> HIDE DEF R
<1>8. CASE /\ R.utxos = st.utxos /\ R.observed = st.observed
           /\ R.balances = st.balances /\ R.total = st.total
  <2>1. R \in Credits
    BY <1>2, <1>3, <1>8 DEF Credits
  <2>2. QED
    BY <2>1 DEF R
<1>9. CASE /\ R.balances = Credited(st.balances, out.addr, sender, out.amount, drawn)
           /\ \E new \in Slots : \E u \in Utxo : Takes(st, R, txid, k, out, new, u)
  <2>1. PICK new \in Slots, u \in Utxo : Takes(st, R, txid, k, out, new, u)
    BY <1>9
  <2> DEFINE p == <<txid, k - 1>>
  <2>2. k \in DOMAIN Outs(txid) /\ k - 1 + 1 = k
    BY <1>7
  <2>3. AmountAt(p) = out.amount /\ Paid(p)
    BY <2>1, <2>2 DEF AmountAt, Paid, Takes
  <2>4. out.amount \in Nat /\ out.addr \in Instructions
    BY <2>1 DEF Takes
  <2> HIDE DEF out
  <2>5. HeldWorth(R.utxos) = HeldWorth(st.utxos) + u.amount
    BY <1>5, <2>1, HeldAfterAdd DEF Takes
  <2>6. p \notin st.observed /\ R.observed = st.observed \cup {p}
    BY <2>1 DEF Takes
  <2> HIDE DEF p
  <2>7. /\ IsFiniteSet(R.observed)
        /\ Deposited(R.observed) = Deposited(st.observed) + AmountAt(p)
    BY <1>2, <2>3, <2>6, DepositedMore
  <2>8. \A q \in R.observed : Paid(q)
    BY <1>2, <2>3, <2>6
  <2>9. /\ R.total = st.total + out.amount /\ u.amount = out.amount
    BY <2>1 DEF Takes
  <2>10. \/ SumFunction(R.balances) = SumFunction(st.balances) + out.amount
         \/ SumFunction(st.balances) + out.amount > MaxInt64
    BY <1>5, <1>9, <2>4, CreditedSum
  <2>11. HeldWorth(R.utxos) = HeldWorth(utxos) + R.total
    BY <1>2, <1>5, <2>4, <2>5, <2>9
  <2>12. Deposited(R.observed) = Deposited(observed) + R.total
    BY <1>2, <1>5, <2>3, <2>4, <2>7, <2>9
  <2>13. \/ SumFunction(R.balances) = SumFunction(balances) + R.total
         \/ SumFunction(balances) + R.total > MaxInt64
    <3> DEFINE a == SumFunction(balances)
               b == SumFunction(st.balances)
               c == SumFunction(R.balances)
               m == out.amount
    <3>1. a \in Nat /\ b \in Nat /\ m \in Nat /\ st.total \in Nat
      BY <1>5, <1>6, <2>4
    <3>2. /\ b = a + st.total \/ a + st.total > MaxInt64
          /\ c = b + m \/ b + m > MaxInt64
      BY <1>2, <2>10
    <3> HIDE DEF a, b, c, m
    <3>3. R.total = st.total + m
      BY <2>9 DEF m
    <3>4. c = a + (st.total + m) \/ a + (st.total + m) > MaxInt64
      <4>1. CASE b = a + st.total /\ c = b + m
        BY <3>1, <4>1
      <4>2. CASE b = a + st.total /\ b + m > MaxInt64
        BY <3>1, <4>2
      <4>3. CASE a + st.total > MaxInt64
        BY <1>6, <3>1, <4>3
      <4>4. QED
        BY <3>2, <4>1, <4>2, <4>3
    <3>5. QED
      BY <3>3, <3>4 DEF a, c
  <2>14. R \in Credits
    BY <1>3, <2>7, <2>8, <2>11, <2>12, <2>13 DEF Credits
  <2>15. QED
    BY <2>14 DEF R
<1>10. QED
  BY <1>4, <1>8, <1>9

\* What map writes: the slots, the supplies, the accounts and the deposits all
\* grow by the same total, for the supplies are tested for overflow.
LEMMA MapCredits ==
    ASSUME IInv, LedgerInv, Deposited(observed) \in Int, NEW txid \in TxIds,
           NEW instrs \in MapInputs, NEW sender \in Accounts, NEW drawn \in BOOLEAN,
           Map(txid, instrs, sender, drawn)
    PROVE  \E total \in Nat :
               /\ IsFiniteSet(observed') /\ \A p \in observed' : Paid(p)
               /\ HeldWorth(utxos') = HeldWorth(utxos) + total
               /\ Deposited(observed') = Deposited(observed) + total
               /\ SumFunction(balances') = SumFunction(balances) + total
               /\ supply' = [supply EXCEPT !.active = @ + total, !.user = @ + total]
<1> DEFINE promoted == UpdateUtxoSpends(txid)
           st0 == [utxos |-> promoted.utxos, registry |-> promoted.registry,
                   next |-> promoted.next, observed |-> observed,
                   balances |-> balances, total |-> 0, aborted |-> FALSE]
           st == ProcessUtxos(st0, txid, instrs, sender, drawn)
<1>1. Known(txid) /\ instrs \in SUBSET Instructions /\ TypeOK
  BY BtcMappingAssumption DEF Map, IInv
<1>2. promoted \in Promotions /\ HeldWorth(promoted.utxos) = HeldWorth(utxos)
  BY PromotedWorth
<1>3. /\ HeldWorth(utxos) \in Int /\ SumFunction(balances) \in Nat
      /\ MaxInt64 \in Nat /\ supply.active \in Int
  <2>1. utxos \in Stores
    BY <1>1 DEF TypeOK, Stores
  <2>2. QED
    BY <1>1, <2>1, WorthType, BalancesSum, BtcMappingAssumption DEF TypeOK
<1>4. st0 \in Credits
  <2> HIDE DEF promoted
  <2>1. st0 \in Arrivals
    BY <1>1, <1>2 DEF TypeOK, Promotions, PromotionStates, Arrivals, ArrivalStates
  <2>2. /\ st0.utxos = promoted.utxos /\ st0.observed = observed
        /\ st0.balances = balances /\ st0.total = 0
    OBVIOUS
  <2> HIDE DEF st0
  <2>3. QED
    BY <1>2, <1>3, <2>1, <2>2 DEF Credits, LedgerInv
<1>5. \A x \in Credits, k \in 1..Len(Outs(txid)) :
          ProcessOutput(x, txid, k - 1, instrs, sender, drawn) \in Credits
  BY <1>1, ProcessOutputCredits
<1>6. /\ utxos' = st.utxos /\ observed' = st.observed /\ balances' = st.balances
      /\ supply' = [supply EXCEPT !.active = @ + st.total, !.user = @ + st.total]
      /\ SupplyFits(st.total)
  BY DEF Map
<1> HIDE DEF st0
<1>7. st \in Credits
  BY <1>1, <1>4, <1>5, ProcessUtxosKeeps
<1> HIDE DEF st
<1>8. st.total \in Nat
  BY <1>7 DEF Credits, Arrivals, ArrivalStates
<1>9. ~(SumFunction(balances) + st.total > MaxInt64)
  BY <1>3, <1>6, <1>8 DEF SupplyFits, LedgerInv, SupplyIsBalances
<1>10. SumFunction(balances') = SumFunction(balances) + st.total
  BY <1>6, <1>7, <1>9 DEF Credits
<1>11. QED
  BY <1>6, <1>7, <1>8, <1>10 DEF Credits

----------------------------------------------------------------------------
\* The ledger in terms of the slots.

\* What a withdrawal took is a number.
LEMMA ChargeType ==
    ASSUME NEW spend \in Spend, spend.outs # <<>>
    PROVE  ChargeOf(spend) \in Int
<1>1. spend.outs \in Seq(TxOut) /\ spend.fee \in Int
  BY DEF Spend
<1>2. spend.outs[1] \in TxOut
  BY <1>1
<1>3. spend.outs[1].amount \in Int
  BY <1>2 DEF TxOut
<1>4. VscFee(spend.outs[1].amount) \in Int
  BY <1>3, VscFeeType
<1>5. QED
  BY <1>1, <1>3, <1>4 DEF ChargeOf

LEMMA DepositedType ==
    ASSUME NEW obs, IsFiniteSet(obs), \A p \in obs : Paid(p)
    PROVE  Deposited(obs) \in Int
<1> DEFINE f == [o \in obs |-> AmountAt(o)]
<1>1. DOMAIN f = obs /\ \A o \in obs : f[o] \in Int
  BY DEF Paid
<1>2. SumFunction(f) = SumFunctionOnSet(f, obs)
  BY DEF SumFunction
<1> HIDE DEF f
<1>3. Summable(f, obs)
  BY <1>1 DEF Summable
<1>4. SumFunctionOnSet(f, obs) \in Int
  BY <1>3, SumFacts
<1>5. QED
  BY <1>2, <1>4 DEF Deposited, f

LEMMA WithdrawnType ==
    ASSUME TypeOK, IsFiniteSet(Made), \A t \in Made : spendTx[t].outs # <<>>
    PROVE  Withdrawn \in Int
<1> DEFINE f == [t \in Made |-> ChargeOf(spendTx[t])]
<1>1. \A t \in Made : spendTx[t] \in Spend /\ spendTx[t].outs # <<>>
  BY DEF Made, TypeOK
<1>2. DOMAIN f = Made /\ \A t \in Made : f[t] \in Int
  BY <1>1, ChargeType
<1>3. SumFunction(f) = SumFunctionOnSet(f, Made)
  BY DEF SumFunction
<1> HIDE DEF f
<1>4. Summable(f, Made)
  BY <1>2 DEF Summable
<1>5. SumFunctionOnSet(f, Made) \in Int
  BY <1>4, SumFacts
<1>6. QED
  BY <1>3, <1>5 DEF Withdrawn, f

LEMMA LedgerFacts ==
    ASSUME IInv, LedgerInv
    PROVE  /\ Deposited(observed) \in Int /\ Withdrawn \in Int
           /\ SumFunction(balances) \in Nat /\ HeldWorth(utxos) \in Int
           /\ supply.active = SumFunction(balances)
           /\ supply.user = SumFunction(balances)
           /\ HeldWorth(utxos) >= supply.user
           /\ supply.user = Deposited(observed) - Withdrawn
<1>1. /\ utxos \in Stores /\ registry \in Seq(Entry) /\ Consistent(utxos, registry)
      /\ balances \in [Accounts -> Nat]
  BY DEF IInv, TypeOK, RegistryMatchesStore, Stores
<1>2. SumFunction(balances) \in Nat /\ HeldWorth(utxos) \in Int
  BY <1>1, BalancesSum, WorthType
<1>3. HeldWorth(utxos) >= supply.user
  BY <1>1, RegistryWorth DEF LedgerInv, Backed
<1>4. Deposited(observed) \in Int
  BY DepositedType DEF LedgerInv
<1>5. Withdrawn \in Int
  BY WithdrawnType DEF LedgerInv, IInv
<1>6. supply.user = Deposited(observed) - Withdrawn
  BY DEF LedgerInv, DepositsCreditedOnce, Deposited, Withdrawn, AmountAt, ChargeOf
<1>7. QED
  BY <1>2, <1>3, <1>4, <1>5, <1>6 DEF LedgerInv, SupplyIsBalances

\* The other way around, in the state a step leads to.
LEMMA LedgerAfter ==
    ASSUME IInv',
           IsFiniteSet(observed'), IsFiniteSet(Made'),
           \A p \in observed' : Paid(p)',
           \A t \in Made' : spendTx'[t].outs # <<>>,
           supply'.active = SumFunction(balances'),
           supply'.user = SumFunction(balances'),
           HeldWorth(utxos') >= supply'.user,
           supply'.user = Deposited(observed)' - Withdrawn'
    PROVE  LedgerInv'
<1>1. utxos' \in Stores /\ registry' \in Seq(Entry) /\ Consistent(utxos', registry')
  BY DEF IInv, TypeOK, RegistryMatchesStore, Stores
<1>2. SumFunction(Amounts(registry')) = HeldWorth(utxos')
  BY <1>1, RegistryWorth
<1>3. Backed'
  BY <1>2 DEF Backed, Amounts
<1>4. SupplyIsBalances'
  BY DEF SupplyIsBalances
<1>5. DepositsCreditedOnce'
  BY DEF DepositsCreditedOnce, Deposited, Withdrawn, AmountAt, ChargeOf
<1>6. QED
  BY <1>3, <1>4, <1>5 DEF LedgerInv

\* Where no withdrawal is made, what was withdrawn and what an output is worth
\* stay the same.
LEMMA SameSpends ==
    ASSUME UNCHANGED spendTx
    PROVE  /\ Made' = Made /\ Withdrawn' = Withdrawn
           /\ \A p : Paid(p)' <=> Paid(p)
           /\ Deposited(observed)' = Deposited(observed')
<1>1. Made' = Made
  BY DEF Made
<1>2. Withdrawn' = Withdrawn
  BY <1>1 DEF Withdrawn
<1>3. \A t : Outs(t)' = Outs(t)
  BY DEF Outs
<1>4. \A p : AmountAt(p)' = AmountAt(p)
  BY <1>3 DEF AmountAt
<1>5. \A p : Paid(p)' <=> Paid(p)
  BY <1>3, <1>4 DEF Paid
<1>6. [o \in observed' |-> AmountAt(o)'] = [o \in observed' |-> AmountAt(o)]
  BY <1>4
<1>7. Deposited(observed)' = Deposited(observed')
  BY <1>6 DEF Deposited
<1>8. QED
  BY <1>1, <1>2, <1>5, <1>7

LEMMA MapKeepsLedger ==
    ASSUME IInv, LedgerInv, IInv', NEW txid \in TxIds, NEW instrs \in MapInputs,
           NEW sender \in Accounts, NEW drawn \in BOOLEAN,
           Map(txid, instrs, sender, drawn)
    PROVE  LedgerInv'
<1>1. /\ Deposited(observed) \in Int /\ Withdrawn \in Int
      /\ SumFunction(balances) \in Nat /\ HeldWorth(utxos) \in Int
      /\ supply.active = SumFunction(balances) /\ supply.user = SumFunction(balances)
      /\ HeldWorth(utxos) >= supply.user
      /\ supply.user = Deposited(observed) - Withdrawn
  BY LedgerFacts
<1>2. PICK total \in Nat :
               /\ IsFiniteSet(observed') /\ \A p \in observed' : Paid(p)
               /\ HeldWorth(utxos') = HeldWorth(utxos) + total
               /\ Deposited(observed') = Deposited(observed) + total
               /\ SumFunction(balances') = SumFunction(balances) + total
               /\ supply' = [supply EXCEPT !.active = @ + total, !.user = @ + total]
  BY <1>1, MapCredits
<1>3. supply \in [active : Int, user : Int, fee : Int, baseFeeRate : Nat]
  BY DEF IInv, TypeOK
<1>4. supply'.active = supply.active + total /\ supply'.user = supply.user + total
  BY <1>2, <1>3
<1>5. spendTx' = spendTx
  BY DEF Map
<1>6. /\ Made' = Made /\ Withdrawn' = Withdrawn
      /\ \A p : Paid(p)' <=> Paid(p)
      /\ Deposited(observed)' = Deposited(observed')
  BY <1>5, SameSpends
<1>7. \A p \in observed' : Paid(p)'
  BY <1>2, <1>6
<1>8. IsFiniteSet(Made') /\ \A t \in Made' : spendTx'[t].outs # <<>>
  BY <1>5, <1>6 DEF LedgerInv
<1>9. supply'.active = SumFunction(balances') /\ supply'.user = SumFunction(balances')
  BY <1>1, <1>2, <1>4
<1>10. HeldWorth(utxos') >= supply'.user
  BY <1>1, <1>2, <1>4
<1>11. supply'.user = Deposited(observed)' - Withdrawn'
  BY <1>1, <1>2, <1>4, <1>6
<1>12. QED
  BY <1>2, <1>7, <1>8, <1>9, <1>10, <1>11, LedgerAfter

----------------------------------------------------------------------------
\* transfer and addBlocks.

LEMMA TransferSum ==
    ASSUME TypeOK, NEW from \in Accounts, NEW to \in Accounts,
           NEW amount \in TransferAmounts, Transfer(from, to, amount)
    PROVE  SumFunction(balances') = SumFunction(balances)
<1> DEFINE deducted == [balances EXCEPT ![from] = @ - amount]
<1>1. /\ balances \in [Accounts -> Nat] /\ amount \in Nat
      /\ balances[from] >= amount
      /\ balances' = [deducted EXCEPT ![to] = @ + amount]
  BY BtcMappingAssumption DEF TypeOK, Transfer
<1>2. deducted \in [Accounts -> Nat]
  BY <1>1
<1>3. /\ deducted[from] = balances[from] - amount
      /\ \A b \in Accounts : b # from => deducted[b] = balances[b]
  BY <1>1
<1> HIDE DEF deducted
<1>4. SumFunction(deducted) = SumFunction(balances) - balances[from] + deducted[from]
  BY <1>1, <1>2, <1>3, BalanceChanged
<1>5. SumFunction(balances') = SumFunction(deducted) + amount
  BY <1>1, <1>2, BalanceRaised
<1>6. /\ SumFunction(deducted) \in Nat /\ SumFunction(balances) \in Nat
      /\ balances[from] \in Nat
  BY <1>1, <1>2, BalancesSum
<1>7. QED
  BY <1>1, <1>3, <1>4, <1>5, <1>6

\* The accounts hold the same together, and nothing else the ledger is about
\* changes.
LEMMA SameLedger ==
    ASSUME IInv, LedgerInv, IInv', UNCHANGED <<utxos, observed, spendTx>>,
           supply'.active = supply.active, supply'.user = supply.user,
           SumFunction(balances') = SumFunction(balances)
    PROVE  LedgerInv'
<1>1. /\ Made' = Made /\ Withdrawn' = Withdrawn
      /\ \A p : Paid(p)' <=> Paid(p)
      /\ Deposited(observed)' = Deposited(observed')
  BY SameSpends
<1>2. observed' = observed /\ utxos' = utxos /\ spendTx' = spendTx
  OBVIOUS
<1>3. /\ IsFiniteSet(observed') /\ IsFiniteSet(Made')
      /\ \A p \in observed' : Paid(p)'
      /\ \A t \in Made' : spendTx'[t].outs # <<>>
  BY <1>1, <1>2 DEF LedgerInv
<1>4. /\ supply.active = SumFunction(balances) /\ supply.user = SumFunction(balances)
      /\ HeldWorth(utxos) >= supply.user
      /\ supply.user = Deposited(observed) - Withdrawn
  BY LedgerFacts
<1>5. /\ HeldWorth(utxos') = HeldWorth(utxos)
      /\ Deposited(observed') = Deposited(observed)
  BY <1>2
<1>6. QED
  BY <1>1, <1>3, <1>4, <1>5, LedgerAfter

----------------------------------------------------------------------------
\* The fees of a withdrawal, and what is left of its inputs.

\* The protocol fee is more than the dust a withdrawal may leave to the miners.
LEMMA VscFeeCoversDust ==
    ASSUME NEW amount \in Nat
    PROVE  VscFee(amount) \in Nat /\ VscFee(amount) >= MinFee
<1>1. VscFee(amount) \in Int
  BY VscFeeType
<1>2. VscFee(amount) >= MinFee
  BY DEF VscFee, Quotient, FeeRateBps, MinFee
<1>3. QED
  BY <1>1, <1>2 DEF MinFee

LEMMA SpendFeePositive ==
    ASSUME NEW n \in Nat, NEW x \in Nat, NEW d \in Nat, NEW c \in Int, NEW r \in Nat
    PROVE  SpendFee(n, x, d, c, r) \in Nat
<1> DEFINE b == OverheadSize + n * InputSize + d + NumChangeOutputs(c) * ChangeOutputSize
           w == n * SignatureSize + x
<1>1. NumChangeOutputs(c) \in Nat
  BY NumChangeType
<1>2. b \in Nat /\ w \in Nat
  BY <1>1 DEF OverheadSize, InputSize, ChangeOutputSize, SignatureSize
<1> HIDE DEF b, w
<1>3. VirtualSize(b, w) \in Nat
  BY <1>2 DEF VirtualSize
<1> DEFINE v == VirtualSize(b, w)
<1> HIDE DEF v
<1>4. v * r \in Nat
  BY <1>3 DEF v
<1>5. QED
  BY <1>4 DEF SpendFee, b, w, v

LEMMA PrefixSumPositive ==
    ASSUME NEW list \in Seq(Nat)
    PROVE  PrefixSum(list, Len(list)) \in Nat
<1>1. list \in Seq(Int)
  OBVIOUS
<1>2. PrefixSum(list, Len(list)) = SumFunction(list)
  BY <1>1, PrefixSumFacts
<1>3. SumFunction(list) = SumFunctionOnSet(list, DOMAIN list)
  BY DEF SumFunction
<1>4. IsFiniteSet(DOMAIN list) /\ \A j \in DOMAIN list : list[j] \in Nat
  BY FS_Interval
<1> DEFINE D == DOMAIN list
<1> HIDE DEF D
<1>5. SumFunctionOnSet(list, D) \in Nat
  BY <1>4, SumOfNats DEF D
<1>6. QED
  BY <1>2, <1>3, <1>5 DEF D

\* What the outputs of a transaction bring back to the change address.
ChangeWorth(outs) ==
    [j \in DOMAIN outs |-> IF outs[j].addr = ChangeAddress THEN outs[j].amount ELSE 0]

LEMMA ChangeWorthType ==
    ASSUME NEW outs \in Seq(TxOut)
    PROVE  ChangeWorth(outs) \in Seq(Int) /\ Len(ChangeWorth(outs)) = Len(outs)
<1> DEFINE n == Len(outs)
           w == ChangeWorth(outs)
<1>1. n \in Nat /\ DOMAIN outs = 1..n /\ \A j \in 1..n : outs[j] \in TxOut
  OBVIOUS
<1>2. \A j \in 1..n : outs[j].amount \in Int
  BY <1>1 DEF TxOut
<1>3. w \in [1..n -> Int]
  BY <1>1, <1>2 DEF ChangeWorth
<1> HIDE DEF w
<1>4. w \in Seq(Int) /\ Len(w) = n
  BY <1>1, <1>3
<1>5. QED
  BY <1>4 DEF w

\* The parts the change is split into are all of it, and below the dust
\* threshold there are none.
LEMMA ChangeComesBack ==
    ASSUME NEW dest \in Addresses, NEW amount \in Nat, NEW c \in Int, NEW fee \in Nat
    PROVE  LET outs == SpendOuts(dest, amount, c, fee)
           IN  /\ PrefixSum(ChangeWorth(outs), Len(outs)) >= c - fee - DustThreshold
               /\ outs[1].amount = amount /\ outs # <<>>
<1> DEFINE n == NumChangeOutputs(c)
           each == Quotient(c - fee, n)
           change == ChangeAmounts(c, fee)
           outs == SpendOuts(dest, amount, c, fee)
           w == ChangeWorth(outs)
           S(k) == PrefixSum(w, k)
<1>1. n \in 0..4 /\ (n = 0 => c <= DustThreshold)
  BY DEF NumChangeOutputs, DustThreshold, SplitThreshold, MaxChangeOutputs
<1>2. n # 0 => each \in Int
  BY <1>1, QuotientType
<1>3. change \in Seq(Int) /\ outs \in Seq(TxOut)
  BY ChangeAmountsType, SpendOutsType
<1>4. /\ DOMAIN change = 1..n
      /\ \A k \in 1..n : change[k] = IF k = 1 THEN c - fee - each * (n - 1) ELSE each
  BY DEF ChangeAmounts
<1> HIDE DEF n, each, change
<1> DEFINE head == <<[addr |-> dest, amount |-> amount]>>
           tail == [k \in DOMAIN change |-> [addr |-> ChangeAddress, amount |-> change[k]]]
           Pair == [addr : Addresses, amount : Int]
<1>5. outs = head \o tail
  BY DEF SpendOuts, change
<1>6. /\ Len(head) = 1 /\ head[1].addr = dest /\ head[1].amount = amount
      /\ head \in Seq(Pair)
  OBVIOUS
<1>7. /\ Len(tail) = n /\ tail \in Seq(Pair)
      /\ \A k \in 1..n : tail[k].addr = ChangeAddress /\ tail[k].amount = change[k]
  <2>1. \A k \in 1..n : change[k] \in Int
    <3>1. \A k \in DOMAIN change : change[k] \in Int
      BY <1>3
    <3>2. QED
      BY <1>4, <3>1
  <2>2. \A k \in 1..n : [addr |-> ChangeAddress, amount |-> change[k]] \in Pair
    BY <2>1 DEF Addresses
  <2> HIDE DEF Pair
  <2>3. tail \in [1..n -> Pair]
    BY <1>4, <2>2
  <2>4. n \in Nat
    BY <1>1
  <2>5. \A k \in 1..n : tail[k].addr = ChangeAddress /\ tail[k].amount = change[k]
    BY <1>4
  <2> HIDE DEF tail
  <2>6. tail \in Seq(Pair) /\ Len(tail) = n
    BY <2>3, <2>4
  <2>7. QED
    BY <2>5, <2>6
<1> HIDE DEF outs, head, tail, Pair
<1>8. /\ Len(outs) = n + 1 /\ outs[1] = head[1]
      /\ \A k \in 1..n : outs[k + 1] = tail[k]
  <2>1. n \in Nat
    BY <1>1
  <2> DEFINE all == head \o tail
  <2>2. /\ Len(all) = Len(head) + Len(tail)
        /\ \A i \in 1..(Len(head) + Len(tail)) :
               all[i] = IF i <= Len(head) THEN head[i] ELSE tail[i - Len(head)]
    BY <1>6, <1>7, ConcatProperties
  <2> HIDE DEF all
  <2>3. SUFFICES ASSUME NEW k \in 1..n PROVE outs[k + 1] = tail[k]
    BY <1>5, <1>6, <1>7, <2>1, <2>2 DEF all
  <2>4. k + 1 \in 1..(Len(head) + Len(tail)) /\ k + 1 > Len(head) /\ k + 1 - Len(head) = k
    BY <1>6, <1>7, <2>1
  <2>5. QED
    BY <1>5, <2>2, <2>4 DEF all
<1>9. w \in Seq(Int) /\ Len(w) = n + 1
  BY <1>3, <1>8, ChangeWorthType
<1>10. w[1] \in Nat /\ \A k \in 1..n : w[k + 1] = change[k]
  <2>1. DOMAIN outs = 1..(n + 1)
    BY <1>3, <1>8
  <2>2. \A k \in 1..n : k + 1 \in DOMAIN outs
    BY <1>1, <2>1
  <2>3. 1 \in DOMAIN outs
    BY <1>1, <2>1
  <2>4. QED
    BY <1>6, <1>7, <1>8, <2>2, <2>3 DEF ChangeWorth
<1> HIDE DEF w
<1>11. S(0) = 0 /\ \A k \in 1..(n + 1) : S(k) = S(k - 1) + w[k]
  BY <1>9, PrefixSumFacts
<1>12. S(1) = w[1]
  <2>1. 1 \in 1..(n + 1) /\ 1 - 1 = 0
    BY <1>1
  <2>2. S(1) = S(0) + w[1]
    BY <1>11, <2>1
  <2>3. QED
    BY <1>10, <1>11, <2>2
<1>13. \A k \in 1..n : S(k + 1) = S(k) + change[k]
  <2>1. SUFFICES ASSUME NEW k \in 1..n PROVE S(k + 1) = S(k) + change[k]
    OBVIOUS
  <2>2. k + 1 \in 1..(n + 1) /\ k + 1 - 1 = k
    BY <1>1
  <2>3. QED
    BY <1>10, <1>11, <2>2
<1> HIDE DEF S
<1>14. n # 0 => S(n + 1) = w[1] + (c - fee)
  <2>1. CASE n = 1
    BY <1>2, <1>4, <1>10, <1>12, <1>13, <2>1
  <2>2. CASE n = 2
    <3>1. S(2) = S(1) + change[1] /\ S(3) = S(2) + change[2]
      BY <1>13, <2>2
    <3>2. change[1] = c - fee - each /\ change[2] = each
      BY <1>2, <1>4, <2>2
    <3>3. QED
      BY <1>2, <1>10, <1>12, <2>2, <3>1, <3>2
  <2>3. CASE n = 3
    <3>1. S(2) = S(1) + change[1] /\ S(3) = S(2) + change[2] /\ S(4) = S(3) + change[3]
      BY <1>13, <2>3
    <3>2. change[1] = c - fee - each * 2 /\ change[2] = each /\ change[3] = each
      BY <1>2, <1>4, <2>3
    <3>3. QED
      BY <1>2, <1>10, <1>12, <2>3, <3>1, <3>2
  <2>4. CASE n = 4
    <3>1. /\ S(2) = S(1) + change[1] /\ S(3) = S(2) + change[2]
          /\ S(4) = S(3) + change[3] /\ S(5) = S(4) + change[4]
      BY <1>13, <2>4
    <3>2. /\ change[1] = c - fee - each * 3 /\ change[2] = each
          /\ change[3] = each /\ change[4] = each
      BY <1>2, <1>4, <2>4
    <3>3. QED
      BY <1>2, <1>10, <1>12, <2>4, <3>1, <3>2
  <2>5. QED
    BY <1>1, <2>1, <2>2, <2>3, <2>4
<1>15. S(n + 1) >= c - fee - DustThreshold
  <2>1. CASE n = 0
    BY <1>1, <1>10, <1>12, <2>1 DEF DustThreshold
  <2>2. CASE n # 0
    BY <1>10, <1>14, <2>2 DEF DustThreshold
  <2>3. QED
    BY <2>1, <2>2
<1>16. outs # <<>>
  BY <1>1, <1>3, <1>8
<1>17. QED
  BY <1>6, <1>8, <1>15, <1>16 DEF S, w, outs

----------------------------------------------------------------------------
\* The slots of a withdrawal.

LEMMA TrackOutputSteps ==
    ASSUME NEW txid \in SpendIds, NEW outs \in Seq(TxOut), NEW k \in 1..Len(outs),
           NEW st \in TrackingStates
    PROVE  LET R == TrackOutput(st, txid, outs, k - 1)
           IN  \/ R.utxos = st.utxos /\ (R.full \/ outs[k].addr # ChangeAddress)
               \/ /\ outs[k].addr = ChangeAddress
                  /\ \E new \in Slots : \E u \in Utxo :
                         /\ st.utxos[new] = NoUtxo /\ u.amount = outs[k].amount
                         /\ R.utxos = [st.utxos EXCEPT ![new] = u]
<1> DEFINE index == k - 1
           out == outs[index + 1]
           new == FirstFree(st.utxos, UnconfirmedPool, st.next)
           u == [txid |-> txid, vout |-> index, amount |-> out.amount,
                 addr |-> out.addr, tag |-> StoredTag(out.addr)]
           R == TrackOutput(st, txid, outs, index)
<1>1. index \in Nat /\ out = outs[k] /\ out \in TxOut
  OBVIOUS
<1>2. CASE st.full \/ out.addr # ChangeAddress
  BY <1>1, <1>2 DEF TrackOutput
<1>3. CASE /\ ~(st.full \/ out.addr # ChangeAddress)
           /\ Free(st.utxos, UnconfirmedPool) = {}
  <2>1. R = [st EXCEPT !.full = TRUE]
    BY <1>3 DEF TrackOutput
  <2> HIDE DEF R
  <2>2. R.utxos = st.utxos /\ R.full
    BY <2>1 DEF TrackingStates
  <2>3. QED
    BY <2>2 DEF R
<1>4. CASE /\ ~(st.full \/ out.addr # ChangeAddress)
           /\ Free(st.utxos, UnconfirmedPool) # {}
  <2>1. R.utxos = [st.utxos EXCEPT ![new] = u]
    BY <1>4 DEF TrackOutput
  <2>2. st.next \in UnconfirmedPool
    BY DEF TrackingStates
  <2>3. new \in Free(st.utxos, UnconfirmedPool)
    BY <1>4, <2>2, FirstFreeIsFree
  <2>4. new \in Slots /\ st.utxos[new] = NoUtxo
    BY <2>3, PoolsInSlots DEF Free
  <2>5. out.amount \in Int /\ out.addr \in Addresses
    BY <1>1 DEF TxOut
  <2>6. StoredTag(out.addr) \in Tags
    BY <1>4 DEF StoredTag, Tags
  <2>7. u \in Utxo /\ u.amount = outs[k].amount
    BY <1>1, <2>5, <2>6 DEF Utxo, TxIds
  <2>8. outs[k].addr = ChangeAddress
    BY <1>1, <1>4
  <2> HIDE DEF R, new, u
  <2>9. \E a \in Slots : \E v \in Utxo :
            /\ st.utxos[a] = NoUtxo /\ v.amount = outs[k].amount
            /\ R.utxos = [st.utxos EXCEPT ![a] = v]
    BY <2>1, <2>4, <2>7
  <2>10. QED
    BY <2>8, <2>9 DEF R
<1>5. QED
  BY <1>2, <1>3, <1>4

\* Change never goes to a slot that is in use.
LEMMA TrackOutputAdds ==
    ASSUME NEW txid \in SpendIds, NEW outs \in Seq(TxOut), NEW k \in 1..Len(outs),
           NEW st \in TrackingStates
    PROVE  \A s \in Slots : st.utxos[s] # NoUtxo =>
               TrackOutput(st, txid, outs, k - 1).utxos[s] = st.utxos[s]
<1> DEFINE out == outs[(k - 1) + 1]
           new == FirstFree(st.utxos, UnconfirmedPool, st.next)
           R == TrackOutput(st, txid, outs, k - 1)
<1>1. st.utxos \in Stores /\ st.next \in UnconfirmedPool
  BY DEF TrackingStates
<1>2. CASE st.full \/ out.addr # ChangeAddress
  BY <1>2 DEF TrackOutput
<1>3. CASE /\ ~(st.full \/ out.addr # ChangeAddress)
           /\ Free(st.utxos, UnconfirmedPool) = {}
  <2>1. R = [st EXCEPT !.full = TRUE]
    BY <1>3 DEF TrackOutput
  <2> HIDE DEF R
  <2>2. R.utxos = st.utxos
    BY <2>1 DEF TrackingStates
  <2>3. QED
    BY <2>2 DEF R
<1>4. CASE /\ ~(st.full \/ out.addr # ChangeAddress)
           /\ Free(st.utxos, UnconfirmedPool) # {}
  <2>1. PICK u : R.utxos = [st.utxos EXCEPT ![new] = u]
    BY <1>4 DEF TrackOutput
  <2>2. st.utxos[new] = NoUtxo
    BY <1>1, <1>4, FirstFreeIsFree DEF Free
  <2> HIDE DEF R, new
  <2>3. \A s \in Slots : st.utxos[s] # NoUtxo => R.utxos[s] = st.utxos[s]
    BY <1>1, <2>1, <2>2 DEF Stores
  <2>4. QED
    BY <2>3 DEF R
<1>5. QED
  BY <1>2, <1>3, <1>4

\* Once all the change has found a slot, the slots have grown by its worth.
LEMMA TrackedWorth ==
    ASSUME IInv, NEW txid \in SpendIds, NEW outs \in Seq(TxOut)
    PROVE  LET st == TrackOutputs(txid, outs)
           IN  st.full \/ HeldWorth(st.utxos)
                              = HeldWorth(utxos) + PrefixSum(ChangeWorth(outs), Len(outs))
<1> DEFINE n == Len(outs)
           w == ChangeWorth(outs)
           Grown(k) ==
               {st \in Trackings :
                   st.full \/ HeldWorth(st.utxos) = HeldWorth(utxos) + PrefixSum(w, k)}
           Z == [k \in 0..n |-> Grown(k)]
<1>1. n \in Nat
  OBVIOUS
<1>2. w \in Seq(Int) /\ Len(w) = n
  BY ChangeWorthType
<1>3. \A k \in 1..n :
          w[k] = IF outs[k].addr = ChangeAddress THEN outs[k].amount ELSE 0
  BY DEF ChangeWorth
<1>4. utxos \in Stores
  BY DEF IInv, TypeOK, Stores
<1>5. HeldWorth(utxos) \in Int
  BY <1>4, WorthType
<1> HIDE DEF w
<1>6. /\ PrefixSum(w, 0) = 0
      /\ \A k \in 1..n : PrefixSum(w, k) = PrefixSum(w, k - 1) + w[k]
      /\ \A k \in 0..n : PrefixSum(w, k) \in Int
  BY <1>2, PrefixSumFacts, PrefixSumType
<1>7. TrackingStart \in Grown(0)
  <2>1. TrackingStart \in Trackings
    BY TrackingStarts
  <2>2. TrackingStart.utxos = utxos
    BY TrackingStarts
  <2>3. HeldWorth(TrackingStart.utxos) = HeldWorth(utxos) + PrefixSum(w, 0)
    BY <1>5, <1>6, <2>2
  <2>4. QED
    BY <2>1, <2>3
<1>8. ASSUME NEW k \in 1..n, NEW x \in Grown(k - 1)
      PROVE  TrackOutput(x, txid, outs, k - 1) \in Grown(k)
  <2> DEFINE R == TrackOutput(x, txid, outs, k - 1)
  <2>1. x \in Trackings
    OBVIOUS
  <2>2. R \in Trackings
    BY <2>1, TrackOutputStays
  <2>3. x.utxos \in Stores /\ x.full \in BOOLEAN
    BY <2>1 DEF Trackings, TrackingStates
  <2>4. x.full => R.full
    BY DEF TrackOutput
  <2>5. CASE x.full
    BY <2>2, <2>4, <2>5
  <2>6. CASE ~x.full
    <3>1. HeldWorth(x.utxos) = HeldWorth(utxos) + PrefixSum(w, k - 1)
      BY <2>6
    <3>2. /\ PrefixSum(w, k) = PrefixSum(w, k - 1) + w[k]
          /\ PrefixSum(w, k - 1) \in Int
      BY <1>1, <1>6
    <3>3. \/ R.utxos = x.utxos /\ (R.full \/ outs[k].addr # ChangeAddress)
          \/ /\ outs[k].addr = ChangeAddress
             /\ \E new \in Slots : \E u \in Utxo :
                    /\ x.utxos[new] = NoUtxo /\ u.amount = outs[k].amount
                    /\ R.utxos = [x.utxos EXCEPT ![new] = u]
      <4>1. x \in TrackingStates
        BY <2>1 DEF Trackings
      <4>2. QED
        BY <4>1, TrackOutputSteps
    <3> HIDE DEF R, Grown
    <3>4. CASE R.full
      BY <2>2, <3>4 DEF Grown, R
    <3>5. CASE R.utxos = x.utxos /\ outs[k].addr # ChangeAddress
      <4>1. w[k] = 0
        BY <1>3, <3>5
      <4>2. HeldWorth(R.utxos) = HeldWorth(utxos) + PrefixSum(w, k)
        BY <1>5, <3>1, <3>2, <3>5, <4>1
      <4>3. R \in Grown(k)
        BY <2>2, <4>2 DEF Grown
      <4>4. QED
        BY <4>3 DEF R
    <3>6. CASE /\ outs[k].addr = ChangeAddress
               /\ \E new \in Slots : \E u \in Utxo :
                    /\ x.utxos[new] = NoUtxo /\ u.amount = outs[k].amount
                    /\ R.utxos = [x.utxos EXCEPT ![new] = u]
      <4>1. PICK new \in Slots, u \in Utxo :
                 /\ x.utxos[new] = NoUtxo /\ u.amount = outs[k].amount
                 /\ R.utxos = [x.utxos EXCEPT ![new] = u]
        BY <3>6
      <4> DEFINE store == x.utxos
      <4>2. store \in Stores /\ store[new] = NoUtxo /\ u.amount \in Int
        BY <2>3, <4>1 DEF Utxo
      <4> HIDE DEF store
      <4>3. HeldWorth([store EXCEPT ![new] = u]) = HeldWorth(store) + u.amount
        BY <4>2, HeldAfterAdd
      <4>4. w[k] = u.amount
        BY <1>3, <3>6, <4>1
      <4>5. HeldWorth(R.utxos) = HeldWorth(utxos) + PrefixSum(w, k)
        BY <1>5, <3>1, <3>2, <4>1, <4>2, <4>3, <4>4 DEF store
      <4>6. R \in Grown(k)
        BY <2>2, <4>5 DEF Grown
      <4>7. QED
        BY <4>6 DEF R
    <3>7. QED
      BY <3>3, <3>4, <3>5, <3>6
  <2>7. QED
    BY <2>3, <2>5, <2>6
<1>9. \A k \in 0..n : Z[k] = Grown(k)
  OBVIOUS
<1>10. 0 \in 0..n /\ n \in 0..n /\ \A k \in 1..n : k \in 0..n /\ k - 1 \in 0..n
  BY <1>1
<1> HIDE DEF Z, Grown
<1>11. \A k \in 1..n : \A x \in Z[k - 1] \cap Trackings :
           TrackOutput(x, txid, outs, k - 1) \in Z[k]
  BY <1>8, <1>9, <1>10
<1>12. TrackingStart \in Z[0]
  BY <1>7, <1>9, <1>10
<1>13. TrackOutputs(txid, outs) \in Z[n]
  BY <1>11, <1>12, TrackOutputsKeeps
<1>14. TrackOutputs(txid, outs) \in Grown(n)
  BY <1>9, <1>10, <1>13
<1>15. QED
  BY <1>14 DEF Grown, w, n

\* No output is selected twice.
LEMMA SelectInputsApart ==
    ASSUME IInv, NEW amount
    PROVE  \A i, j \in DOMAIN SelectInputs(amount) :
               SelectInputs(amount)[i].id = SelectInputs(amount)[j].id => i = j
<1> DEFINE Covers(n, sum) ==
               sum >= amount + EstimateFee(n, amount, sum, supply.baseFeeRate)
           single == {p \in DOMAIN registry :
                         /\ registry[p].id \in ConfirmedPool
                         /\ Covers(1, registry[p].amount)}
           confirmed == EntriesIn(registry, ConfirmedPool)
           unconfirmed == EntriesIn(registry, UnconfirmedPool)
           list == confirmed \o unconfirmed
           enough == {k \in 1..Len(list) : Covers(k, PrefixSum(Amounts(list), k))}
           First(S) == CHOOSE k \in S : \A l \in S : k <= l
           Apart(e) == \A i, j \in DOMAIN e : e[i].id = e[j].id => i = j
           chosen == SelectInputs(amount)
<1>1. \A T \in SUBSET Nat : T # {} => First(T) \in T
  <2>1. SUFFICES ASSUME NEW T \in SUBSET Nat, T # {} PROVE First(T) \in T
    OBVIOUS
  <2>2. \E k \in T : \A l \in T : k <= l
    BY <2>1, SmallestExists
  <2>3. QED
    BY <2>2
<1> HIDE DEF Covers, First
<1>2. chosen =
          IF single # {} THEN <<registry[First(single)]>>
          ELSE IF enough = {} THEN <<>>
          ELSE [k \in 1..First(enough) |-> list[k]]
  BY DEF SelectInputs, Covers, First
<1> HIDE DEF chosen
<1>3. CASE single # {}
  <2>1. DOMAIN chosen = {1}
    BY <1>2, <1>3
  <2>2. QED
    BY <2>1 DEF chosen
<1>4. CASE single = {} /\ enough = {}
  <2>1. DOMAIN chosen = {}
    BY <1>2, <1>4
  <2>2. QED
    BY <2>1 DEF chosen
<1>5. CASE single = {} /\ enough # {}
  <2>1. registry \in Seq(Entry) /\ Apart(registry)
    BY DEF IInv, TypeOK, RegistryMatchesStore, Consistent
  <2>2. /\ confirmed \in Seq(Entry) /\ Apart(confirmed)
        /\ \A j \in DOMAIN confirmed : confirmed[j].id \in ConfirmedPool
    BY <2>1, EntriesInFacts
  <2>3. /\ unconfirmed \in Seq(Entry) /\ Apart(unconfirmed)
        /\ \A j \in DOMAIN unconfirmed : unconfirmed[j].id \in UnconfirmedPool
    BY <2>1, EntriesInFacts
  <2> HIDE DEF confirmed, unconfirmed
  <2> DEFINE a == Len(confirmed)
             b == Len(unconfirmed)
  <2>4. /\ a \in Nat /\ b \in Nat
        /\ DOMAIN confirmed = 1..a /\ DOMAIN unconfirmed = 1..b
    BY <2>2, <2>3
  <2>5. /\ Len(list) = a + b /\ list \in Seq(Entry)
        /\ \A i \in 1..(a + b) :
               list[i] = IF i <= a THEN confirmed[i] ELSE unconfirmed[i - a]
    BY <2>2, <2>3, ConcatProperties
  <2> HIDE DEF list, a, b
  <2>6. ASSUME NEW i \in 1..(a + b), NEW j \in 1..(a + b), list[i].id = list[j].id
        PROVE  i = j
    <3>1. i <= a => i \in 1..a /\ list[i] = confirmed[i]
      BY <2>4, <2>5
    <3>2. j <= a => j \in 1..a /\ list[j] = confirmed[j]
      BY <2>4, <2>5
    <3>3. ~(i <= a) => i - a \in 1..b /\ list[i] = unconfirmed[i - a]
      BY <2>4, <2>5
    <3>4. ~(j <= a) => j - a \in 1..b /\ list[j] = unconfirmed[j - a]
      BY <2>4, <2>5
    <3>5. i <= a <=> j <= a
      BY <2>2, <2>3, <2>4, <2>6, <3>1, <3>2, <3>3, <3>4, PoolsInSlots
    <3>6. CASE i <= a
      BY <2>2, <2>4, <2>6, <3>1, <3>2, <3>5, <3>6
    <3>7. CASE ~(i <= a)
      <4>1. i - a = j - a
        BY <2>3, <2>4, <2>6, <3>3, <3>4, <3>5, <3>7
      <4>2. QED
        BY <2>4, <4>1
    <3>8. QED
      BY <3>6, <3>7
  <2>7. First(enough) \in 1..(a + b)
    <3>1. enough \in SUBSET Nat
      OBVIOUS
    <3>2. First(enough) \in enough
      BY <1>1, <1>5, <3>1
    <3>3. QED
      BY <2>5, <3>2
  <2> DEFINE m == First(enough)
  <2>8. chosen = [k \in 1..m |-> list[k]]
    BY <1>2, <1>5
  <2> HIDE DEF m
  <2>9. \A k \in 1..m : k \in 1..(a + b)
    BY <2>4, <2>7 DEF m
  <2>10. Apart(chosen)
    BY <2>6, <2>8, <2>9
  <2>11. QED
    BY <2>10 DEF chosen
<1>6. QED
  BY <1>3, <1>4, <1>5

\* What distinct entries are worth is what their slots are.
LEMMA EntriesWorth ==
    ASSUME NEW store \in Stores, NEW list \in Seq(Entry),
           \A i, j \in DOMAIN list : list[i].id = list[j].id => i = j,
           \A j \in DOMAIN list : WorthOf(store[list[j].id]) = list[j].amount
    PROVE  PrefixSum(Amounts(list), Len(list))
               = SumFunctionOnSet(SlotWorth(store), {list[j].id : j \in DOMAIN list})
<1> DEFINE f == Amounts(list)
           g == SlotWorth(store)
           P == 1..Len(list)
           m == [p \in P |-> list[p].id]
           T == {list[j].id : j \in DOMAIN list}
<1>1. DOMAIN list = P /\ IsFiniteSet(P) /\ \A p \in P : list[p] \in Entry
  BY FS_Interval
<1>2. DOMAIN f = P /\ \A p \in P : f[p] = list[p].amount /\ m[p] = list[p].id
  BY <1>1 DEF Amounts
<1>3. \A p \in P : f[p] \in Int /\ m[p] \in Slots
  BY <1>1, <1>2 DEF Entry
<1>4. \A s \in Slots : g[s] = WorthOf(store[s])
  BY WorthType
<1>5. f \in Seq(Int) /\ Len(f) = Len(list)
  BY AmountsType
<1> HIDE DEF f, g, P, m
<1>6. Summable(f, P) /\ Renaming(m, P, T)
  BY <1>1, <1>2, <1>3 DEF Summable, Renaming
<1>7. \A p \in P : g[m[p]] = f[p]
  BY <1>1, <1>2, <1>3, <1>4
<1> HIDE DEF T
<1>8. SumFunctionOnSet(g, T) = SumFunctionOnSet(f, P)
  BY <1>6, <1>7, SumRenamed
<1>9. SumFunction(f) = SumFunctionOnSet(f, P)
  BY <1>2 DEF SumFunction
<1>10. SumFunction(f) = PrefixSum(f, Len(list))
  BY <1>5, PrefixSumFacts
<1>11. QED
  BY <1>8, <1>9, <1>10 DEF f, g, T

----------------------------------------------------------------------------
\* unmap.

\* The fee of a withdrawal is no less than nothing, even when its inputs do
\* not pay for it.
LEMMA UnmapFee ==
    ASSUME TypeOK, NEW sender \in Accounts, NEW amount \in UnmapAmounts,
           NEW dest \in Addresses, NEW txid \in SpendIds,
           Unmap(sender, amount, dest, txid)
    PROVE  LET entries == SelectInputs(amount)
               inputs == [j \in DOMAIN entries |-> utxos[entries[j].id]]
               total == PrefixSum(Amounts(entries), Len(entries))
               scripts == [j \in DOMAIN inputs |-> ScriptSize(inputs[j].tag)]
               fee == SpendFee(Len(entries), PrefixSum(scripts, Len(scripts)),
                               DestSize(dest), total - amount, supply.baseFeeRate)
           IN  total \in Int /\ fee \in Nat
<1> DEFINE entries == SelectInputs(amount)
           inputs == [j \in DOMAIN entries |-> utxos[entries[j].id]]
           total == PrefixSum(Amounts(entries), Len(entries))
           scripts == [j \in DOMAIN inputs |-> ScriptSize(inputs[j].tag)]
           fee == SpendFee(Len(entries), PrefixSum(scripts, Len(scripts)),
                           DestSize(dest), total - amount, supply.baseFeeRate)
<1>1. entries \in Seq(Entry)
  BY UnmapParts
<1>2. amount \in Nat /\ supply.baseFeeRate \in Nat
  BY BtcMappingAssumption DEF TypeOK
<1> HIDE DEF entries
<1>3. Len(entries) \in Nat /\ DOMAIN entries = 1..Len(entries)
  BY <1>1
<1>4. total \in Int
  <2>1. Amounts(entries) \in Seq(Int) /\ Len(Amounts(entries)) = Len(entries)
    BY <1>1, AmountsType
  <2>2. Len(entries) \in 0..Len(Amounts(entries))
    BY <1>3, <2>1
  <2>3. QED
    BY <2>1, <2>2, PrefixSumType
<1>5. PrefixSum(scripts, Len(scripts)) \in Nat
  <2>1. \A j \in DOMAIN inputs : ScriptSize(inputs[j].tag) \in Nat
    BY BtcMappingAssumption DEF ScriptSize
  <2>2. scripts \in [1..Len(entries) -> Nat]
    BY <1>3, <2>1
  <2> HIDE DEF scripts
  <2>3. scripts \in Seq(Nat)
    BY <1>3, <2>2
  <2>4. QED
    BY <2>3, PrefixSumPositive
<1>6. DestSize(dest) \in Nat
  BY BtcMappingAssumption DEF DestSize, ChangeOutputSize
<1>7. fee \in Nat
  <2> DEFINE x == PrefixSum(scripts, Len(scripts))
             r == supply.baseFeeRate
             d == DestSize(dest)
             n == Len(entries)
             c == total - amount
  <2> HIDE DEF total
  <2>1. x \in Nat /\ r \in Nat /\ d \in Nat /\ n \in Nat /\ c \in Int
    BY <1>2, <1>3, <1>4, <1>5, <1>6
  <2> HIDE DEF x, c, r, d, n
  <2>2. SpendFee(n, x, d, c, r) \in Nat
    BY <2>1, SpendFeePositive
  <2>3. QED
    BY <2>2 DEF x, c, r, d, n
<1>8. QED
  BY <1>4, <1>7 DEF entries

\* A withdrawal costs its sender the amount and both fees, and the slots no
\* more than that: what goes to the miners as dust, the protocol fee covers.
UnmapCharges(sender, txid, spend) ==
    LET charge == ChargeOf(spend)
    IN  /\ charge \in Nat
        /\ spend.outs # <<>>
        /\ spendTx' = [spendTx EXCEPT ![txid] = spend]
        /\ supply'.active = supply.active - charge
        /\ supply'.user = supply.user - charge
        /\ balances[sender] >= charge
        /\ balances' = [balances EXCEPT ![sender] = @ - charge]
        /\ HeldWorth(utxos') >= HeldWorth(utxos) - charge

LEMMA UnmapPays ==
    ASSUME IInv, CustodyInv, NEW sender \in Accounts, NEW amount \in UnmapAmounts,
           NEW dest \in Addresses, NEW txid \in SpendIds,
           Unmap(sender, amount, dest, txid)
    PROVE  \E spend \in Spend : UnmapCharges(sender, txid, spend)
<1> DEFINE entries == SelectInputs(amount)
           inputs == [j \in DOMAIN entries |-> utxos[entries[j].id]]
           inputIds == {entries[j].id : j \in DOMAIN entries}
           total == PrefixSum(Amounts(entries), Len(entries))
           scripts == [j \in DOMAIN inputs |-> ScriptSize(inputs[j].tag)]
           fee == SpendFee(Len(entries), PrefixSum(scripts, Len(scripts)),
                           DestSize(dest), total - amount, supply.baseFeeRate)
           outs == SpendOuts(dest, amount, total - amount, fee)
           finalAmt == amount + VscFee(amount) + fee
           st == TrackOutputs(txid, outs)
           points == [j \in DOMAIN inputs |-> <<inputs[j].txid, inputs[j].vout>>]
           spend == [ins |-> points, outs |-> outs, fee |-> fee]
           c == total - amount
<1>1. /\ spendTx[txid] = NoTx /\ ~st.full
      /\ utxos' = [s \in Slots |-> IF s \in inputIds THEN NoUtxo ELSE st.utxos[s]]
      /\ spendTx' = [spendTx EXCEPT ![txid] = spend]
      /\ supply' = [supply EXCEPT !.active = @ - finalAmt, !.user = @ - finalAmt,
                                  !.fee = @ + VscFee(amount)]
      /\ balances[sender] >= finalAmt
      /\ balances' = [balances EXCEPT ![sender] = @ - finalAmt]
  BY DEF Unmap
<1>2. /\ entries \in Seq(Entry)
      /\ \A j \in DOMAIN entries : utxos[entries[j].id] \in Utxo
      /\ points \in Seq(TxIds \X Nat) /\ outs \in Seq(TxOut) /\ fee \in Int
  BY UnmapParts DEF IInv
<1>3. /\ \A i, j \in DOMAIN entries : entries[i].id = entries[j].id => i = j
      /\ \A j \in DOMAIN entries : \E p \in DOMAIN registry : entries[j] = registry[p]
  BY SelectInputsApart, SelectInputsFacts DEF IInv, TypeOK
<1>4. amount \in Nat /\ VscFee(amount) \in Nat /\ VscFee(amount) >= MinFee
  BY VscFeeCoversDust, BtcMappingAssumption
<1>5. supply \in [active : Int, user : Int, fee : Int, baseFeeRate : Nat]
  BY DEF IInv, TypeOK
<1>7. total \in Int /\ fee \in Nat
  BY UnmapFee DEF IInv
<1> HIDE DEF entries
<1>6. Len(entries) \in Nat /\ DOMAIN entries = 1..Len(entries)
  BY <1>2
<1> HIDE DEF total
<1>10. c \in Int
  BY <1>4, <1>7
<1> HIDE DEF fee, scripts, inputs
<1>12. /\ PrefixSum(ChangeWorth(outs), Len(outs)) >= c - fee - DustThreshold
       /\ outs[1].amount = amount /\ outs # <<>>
  <2> HIDE DEF c
  <2>1. LET o == SpendOuts(dest, amount, c, fee)
        IN  /\ PrefixSum(ChangeWorth(o), Len(o)) >= c - fee - DustThreshold
            /\ o[1].amount = amount /\ o # <<>>
    BY <1>4, <1>10, <1>7, ChangeComesBack
  <2>2. QED
    BY <2>1 DEF c
<1> HIDE DEF outs, points
<1>13. st.full \/ HeldWorth(st.utxos)
                      = HeldWorth(utxos) + PrefixSum(ChangeWorth(outs), Len(outs))
  BY <1>2, TrackedWorth
<1>14. st \in Tracked(TrackedPoints \cup ChangePoints(txid, outs, Len(outs)))
  <2>1. Tracks(utxos, TrackedPoints) /\ \A v : <<txid, v>> \notin TrackedPoints
    BY <1>1, TracksTrackedPoints, NewIsUnnoticed
  <2>2. QED
    BY <1>2, <2>1, TrackOutputsTracks
<1> HIDE DEF st
<1>15. st.utxos \in Stores /\ \A s \in Used : st.utxos[s] = utxos[s]
  BY <1>14 DEF Tracked, Trackings, TrackingStates
<1>16. \A j \in DOMAIN entries : WorthOf(st.utxos[entries[j].id]) = entries[j].amount
  <2>1. SUFFICES ASSUME NEW j \in DOMAIN entries
                 PROVE  WorthOf(st.utxos[entries[j].id]) = entries[j].amount
    OBVIOUS
  <2>2. PICK p \in DOMAIN registry : entries[j] = registry[p]
    BY <1>3
  <2>3. entries[j] \in Entry
    BY <1>2
  <2>4. /\ entries[j].id \in Slots /\ utxos[entries[j].id] # NoUtxo
        /\ utxos[entries[j].id].amount = entries[j].amount
    BY <2>2, <2>3 DEF Entry, IInv, RegistryMatchesStore, Consistent
  <2>5. QED
    BY <1>15, <2>4 DEF Used, WorthOf
<1>17. total = SumFunctionOnSet(SlotWorth(st.utxos), inputIds)
  <2> DEFINE store == st.utxos
  <2>1. /\ store \in Stores
        /\ \A j \in DOMAIN entries : WorthOf(store[entries[j].id]) = entries[j].amount
    BY <1>15, <1>16
  <2> HIDE DEF store
  <2>2. PrefixSum(Amounts(entries), Len(entries))
            = SumFunctionOnSet(SlotWorth(store), {entries[j].id : j \in DOMAIN entries})
    BY <1>2, <1>3, <2>1, EntriesWorth
  <2>3. QED
    BY <2>2 DEF store, total
<1>18. inputIds \in SUBSET Slots
  <2>1. \A j \in DOMAIN entries : entries[j] \in Entry
    BY <1>2
  <2>2. QED
    BY <2>1 DEF Entry
<1> HIDE DEF inputIds
<1>19. HeldWorth(utxos') = HeldWorth(st.utxos) - total
  <2> DEFINE store == st.utxos
             left == [s \in Slots |-> IF s \in inputIds THEN NoUtxo ELSE store[s]]
  <2>1. store \in Stores /\ utxos' = left
    BY <1>1, <1>15
  <2> HIDE DEF store
  <2>2. HeldWorth(left) = HeldWorth(store) - SumFunctionOnSet(SlotWorth(store), inputIds)
    BY <1>18, <2>1, HeldAfterRemove
  <2> HIDE DEF left
  <2>3. QED
    BY <1>17, <2>1, <2>2 DEF store
<1>20. utxos \in Stores /\ HeldWorth(utxos) \in Int
  <2>1. utxos \in Stores
    BY DEF IInv, TypeOK, Stores
  <2>2. QED
    BY <2>1, WorthType
<1>21. PrefixSum(ChangeWorth(outs), Len(outs)) \in Int
  <2>1. ChangeWorth(outs) \in Seq(Int) /\ Len(ChangeWorth(outs)) = Len(outs)
    BY <1>2, ChangeWorthType
  <2>2. Len(outs) \in 0..Len(ChangeWorth(outs))
    BY <1>2, <2>1
  <2>3. QED
    BY <2>1, <2>2, PrefixSumType
<1>22. finalAmt \in Nat
  BY <1>4, <1>7
<1>23. HeldWorth(utxos') >= HeldWorth(utxos) - finalAmt
  <2> DEFINE back == PrefixSum(ChangeWorth(outs), Len(outs))
             v == VscFee(amount)
             before == HeldWorth(utxos)
             after == HeldWorth(utxos')
             mid == HeldWorth(st.utxos)
  <2>1. /\ before \in Int /\ back \in Int /\ back >= total - amount - fee - 546
        /\ v \in Nat /\ v >= 1000
    BY <1>4, <1>12, <1>20, <1>21 DEF DustThreshold, MinFee
  <2>2. mid = before + back
    <3>1. ~st.full
      BY <1>1
    <3>2. QED
      BY <1>13, <3>1
  <2>3. after = mid - total
    BY <1>19
  <2> HIDE DEF before, after, mid, back, v
  <2>4. before + back - total >= before - (amount + v + fee)
    BY <1>4, <1>7, <1>7, <2>1
  <2>5. after >= before - (amount + v + fee)
    BY <1>4, <1>7, <1>7, <2>1, <2>2, <2>3, <2>4
  <2>6. QED
    BY <2>5 DEF before, after, v
<1>24. ChargeOf(spend) = finalAmt /\ spend.outs # <<>>
  BY <1>12 DEF ChargeOf
<1>25. spend \in Spend
  BY <1>2 DEF Spend
<1>26. supply'.active = supply.active - finalAmt /\ supply'.user = supply.user - finalAmt
  BY <1>1, <1>5
<1> HIDE DEF spend, finalAmt
<1>27. UnmapCharges(sender, txid, spend)
  BY <1>1, <1>22, <1>23, <1>24, <1>26 DEF UnmapCharges
<1>28. QED
  BY <1>25, <1>27

\* A new transaction takes its charge and changes nothing about deposits.
LEMMA WithdrawnMore ==
    ASSUME TypeOK, IsFiniteSet(Made), \A t \in Made : spendTx[t].outs # <<>>,
           \A p \in observed : Known(p[1]), UNCHANGED observed,
           NEW txid \in SpendIds, spendTx[txid] = NoTx,
           NEW spend \in Spend, ChargeOf(spend) \in Int,
           spendTx' = [spendTx EXCEPT ![txid] = spend]
    PROVE  /\ Made' = Made \cup {txid} /\ txid \notin Made /\ IsFiniteSet(Made')
           /\ spendTx'[txid] = spend
           /\ \A t \in Made : spendTx'[t] = spendTx[t]
           /\ Withdrawn' = Withdrawn + ChargeOf(spend)
           /\ \A t : Known(t) => Known(t)' /\ Outs(t)' = Outs(t)
           /\ \A p \in observed : Paid(p)' <=> Paid(p)
           /\ Deposited(observed)' = Deposited(observed)
<1> DEFINE charge == ChargeOf(spend)
           f == [t \in Made |-> ChargeOf(spendTx[t])]
           g == [t \in Made' |-> ChargeOf(spendTx'[t])]
<1>1. spendTx \in [SpendIds -> Spend \cup {NoTx}] /\ spend # NoTx
  BY BtcMappingAssumption DEF TypeOK
<1>2. /\ spendTx'[txid] = spend
      /\ \A t \in SpendIds : t # txid => spendTx'[t] = spendTx[t]
  BY <1>1
<1>3. Made' = Made \cup {txid} /\ txid \notin Made
  BY <1>1, <1>2 DEF Made
<1>4. \A t \in Made : t \in SpendIds /\ t # txid /\ spendTx'[t] = spendTx[t]
  BY <1>2, <1>3 DEF Made
<1> HIDE DEF charge
<1>5. Withdrawn' = Withdrawn + charge
  <2>1. /\ DOMAIN f = Made /\ DOMAIN g = Made'
        /\ \A t \in Made : f[t] = ChargeOf(spendTx[t]) /\ g[t] = f[t]
        /\ g[txid] = charge
    BY <1>2, <1>3, <1>4 DEF charge
  <2>2. \A t \in Made : spendTx[t] \in Spend /\ spendTx[t].outs # <<>>
    BY <1>1 DEF Made
  <2>3. \A t \in Made : f[t] \in Int
    BY <2>1, <2>2, ChargeType
  <2>4. SumFunction(f) = SumFunctionOnSet(f, Made) /\ SumFunction(g) = SumFunctionOnSet(g, Made')
    BY <2>1 DEF SumFunction
  <2>5. Withdrawn = SumFunction(f) /\ Withdrawn' = SumFunction(g)
    BY DEF Withdrawn
  <2> HIDE DEF f, g
  <2>6. Summable(f, Made) /\ SameOn(Made, f, g) /\ g[txid] \in Int
    BY <2>1, <2>3 DEF Summable, SameOn, charge
  <2> DEFINE after == Made'
  <2>7. after = Made \cup {txid}
    BY <1>3
  <2> HIDE DEF after
  <2>8. SumFunctionOnSet(g, after) = SumFunctionOnSet(f, Made) + g[txid]
    BY <1>3, <2>6, <2>7, SumMore
  <2>9. QED
    BY <2>1, <2>4, <2>5, <2>8 DEF after
<1>6. \A t : Known(t) => Known(t)' /\ Outs(t)' = Outs(t)
  BY <1>1, <1>2 DEF Known, Outs
<1>7. \A p \in observed : Outs(p[1])' = Outs(p[1])
  BY <1>6
<1>8. \A p \in observed : AmountAt(p)' = AmountAt(p) /\ (Paid(p)' <=> Paid(p))
  BY <1>7 DEF AmountAt, Paid
<1>9. Deposited(observed)' = Deposited(observed)
  <2>1. [o \in observed' |-> AmountAt(o)'] = [o \in observed |-> AmountAt(o)]
    BY <1>8
  <2>2. QED
    BY <2>1 DEF Deposited
<1>10. IsFiniteSet(Made')
  BY <1>3, FS_AddElement
<1>11. QED
  BY <1>2, <1>3, <1>4, <1>5, <1>6, <1>8, <1>9, <1>10 DEF charge

LEMMA UnmapKeepsLedger ==
    ASSUME IInv, CustodyInv, LedgerInv, IInv', NEW sender \in Accounts,
           NEW amount \in UnmapAmounts, NEW dest \in Addresses, NEW txid \in SpendIds,
           Unmap(sender, amount, dest, txid)
    PROVE  LedgerInv'
<1>1. PICK spend \in Spend : UnmapCharges(sender, txid, spend)
  BY UnmapPays
<1> DEFINE charge == ChargeOf(spend)
<1>2. /\ charge \in Nat /\ spend.outs # <<>>
      /\ spendTx' = [spendTx EXCEPT ![txid] = spend]
      /\ supply'.active = supply.active - charge /\ supply'.user = supply.user - charge
      /\ balances[sender] >= charge
      /\ balances' = [balances EXCEPT ![sender] = @ - charge]
      /\ HeldWorth(utxos') >= HeldWorth(utxos) - charge
  BY <1>1 DEF UnmapCharges
<1>3. spendTx[txid] = NoTx /\ observed' = observed
  BY DEF Unmap
<1>4. /\ Deposited(observed) \in Int /\ Withdrawn \in Int
      /\ SumFunction(balances) \in Nat /\ HeldWorth(utxos) \in Int
      /\ supply.active = SumFunction(balances) /\ supply.user = SumFunction(balances)
      /\ HeldWorth(utxos) >= supply.user
      /\ supply.user = Deposited(observed) - Withdrawn
  BY LedgerFacts
<1>5. /\ spendTx \in [SpendIds -> Spend \cup {NoTx}]
      /\ balances \in [Accounts -> Nat] /\ utxos' \in Stores
  BY DEF IInv, TypeOK, Stores
<1>6. \A p \in observed : Known(p[1])
  BY DEF CustodyInv
<1>7. /\ TypeOK /\ IsFiniteSet(Made) /\ \A t \in Made : spendTx[t].outs # <<>>
      /\ UNCHANGED observed /\ ChargeOf(spend) \in Int
  BY <1>2, <1>3 DEF LedgerInv, IInv
<1> HIDE DEF charge
<1>8. /\ Made' = Made \cup {txid} /\ IsFiniteSet(Made')
      /\ spendTx'[txid] = spend /\ \A t \in Made : spendTx'[t] = spendTx[t]
      /\ Withdrawn' = Withdrawn + ChargeOf(spend)
      /\ \A p \in observed : Paid(p)' <=> Paid(p)
      /\ Deposited(observed)' = Deposited(observed)
  BY <1>2, <1>3, <1>6, <1>7, WithdrawnMore
<1>9. Withdrawn' = Withdrawn + charge
  BY <1>8 DEF charge
<1>10. SumFunction(balances') = SumFunction(balances) - charge
  <2>1. balances' \in [Accounts -> Nat]
    BY DEF IInv, TypeOK
  <2>2. /\ balances'[sender] = balances[sender] - charge
        /\ \A a \in Accounts : a # sender => balances'[a] = balances[a]
        /\ balances[sender] \in Nat
    BY <1>2, <1>5
  <2>3. SumFunction(balances') = SumFunction(balances) - balances[sender] + balances'[sender]
    BY <1>5, <2>1, <2>2, BalanceChanged
  <2>4. QED
    BY <1>2, <1>4, <2>2, <2>3
<1>11. IsFiniteSet(observed') /\ \A p \in observed' : Paid(p)'
  BY <1>3, <1>8 DEF LedgerInv
<1>12. \A t \in Made' : spendTx'[t].outs # <<>>
  BY <1>2, <1>8 DEF LedgerInv
<1>13. supply'.active = SumFunction(balances') /\ supply'.user = SumFunction(balances')
  BY <1>2, <1>4, <1>10
<1>14. HeldWorth(utxos') >= supply'.user
  <2>1. HeldWorth(utxos') \in Int
    BY <1>5, WorthType
  <2>2. QED
    BY <1>2, <1>4, <2>1
<1>15. supply'.user = Deposited(observed)' - Withdrawn'
  BY <1>2, <1>4, <1>8, <1>9
<1>16. QED
  BY <1>8, <1>11, <1>12, <1>13, <1>14, <1>15, LedgerAfter

----------------------------------------------------------------------------
\* The invariant.

LEMMA LedgerInit == Init => LedgerInv
<1> SUFFICES ASSUME Init PROVE LedgerInv
  OBVIOUS
<1>1. /\ supply.active = 0 /\ supply.user = 0
      /\ balances = [a \in Accounts |-> 0]
      /\ observed = {} /\ registry = <<>>
      /\ spendTx = [t \in SpendIds |-> NoTx]
  BY DEF Init
<1>2. Made = {}
  BY <1>1 DEF Made
<1>3. IsFiniteSet({})
  BY FS_EmptySet
<1>4. \A f : DOMAIN f = {} => SumFunction(f) = 0
  <2>1. SUFFICES ASSUME NEW f, DOMAIN f = {} PROVE SumFunction(f) = 0
    OBVIOUS
  <2>2. SumFunctionOnSet(f, {}) = 0
    BY <1>3, SumOfZeros
  <2>3. QED
    BY <2>1, <2>2 DEF SumFunction
<1>5. SumFunction(balances) = 0
  <2>1. DOMAIN balances = Accounts /\ \A a \in Accounts : balances[a] = 0
    BY <1>1
  <2>2. SumFunctionOnSet(balances, Accounts) = 0
    BY <2>1, SumOfZeros, BtcMappingAssumption
  <2>3. QED
    BY <2>1, <2>2 DEF SumFunction
<1>6. SupplyIsBalances
  BY <1>1, <1>5 DEF SupplyIsBalances
<1>7. Backed
  <2>1. DOMAIN Amounts(registry) = {}
    BY <1>1 DEF Amounts
  <2>2. QED
    BY <1>1, <1>4, <2>1 DEF Backed
<1>8. DepositsCreditedOnce
  <2> DEFINE f == [o \in observed |-> AmountAt(o)]
             g == [t \in Made |-> ChargeOf(spendTx[t])]
  <2>1. DOMAIN f = {} /\ DOMAIN g = {}
    BY <1>1, <1>2
  <2> HIDE DEF f, g
  <2>2. SumFunction(f) = 0 /\ SumFunction(g) = 0
    BY <1>4, <2>1
  <2>3. supply.user = SumFunction(f) - SumFunction(g)
    BY <1>1, <2>2
  <2>4. QED
    BY <2>3 DEF DepositsCreditedOnce, f, g, AmountAt, ChargeOf
<1>9. QED
  BY <1>1, <1>2, <1>3, <1>6, <1>7, <1>8 DEF LedgerInv

LEMMA LedgerNext == IInv /\ CustodyInv /\ LedgerInv /\ [Next]_vars => LedgerInv'
<1> SUFFICES ASSUME IInv, CustodyInv, LedgerInv, [Next]_vars PROVE LedgerInv'
  OBVIOUS
<1>1. IInv'
  BY NextKeeps
<1>2. ASSUME NEW txid \in TxIds, NEW instrs \in MapInputs, NEW sender \in Accounts,
             NEW drawn \in BOOLEAN, Map(txid, instrs, sender, drawn)
      PROVE  LedgerInv'
  BY <1>1, <1>2, MapKeepsLedger
<1>3. ASSUME NEW sender \in Accounts, NEW amount \in UnmapAmounts,
             NEW dest \in Addresses, NEW txid \in SpendIds,
             Unmap(sender, amount, dest, txid)
      PROVE  LedgerInv'
  BY <1>1, <1>3, UnmapKeepsLedger
<1>4. ASSUME NEW from \in Accounts, NEW to \in Accounts, NEW amount \in TransferAmounts,
             Transfer(from, to, amount)
      PROVE  LedgerInv'
  <2>1. UNCHANGED <<utxos, observed, spendTx>> /\ supply' = supply
    BY <1>4 DEF Transfer
  <2>2. SumFunction(balances') = SumFunction(balances)
    BY <1>4, TransferSum DEF IInv
  <2>3. QED
    BY <1>1, <2>1, <2>2, SameLedger
<1>5. ASSUME NEW rate \in FeeRates, AddBlocks(rate)
      PROVE  LedgerInv'
  <2>1. /\ UNCHANGED <<utxos, observed, spendTx>> /\ balances' = balances
        /\ supply' = [supply EXCEPT !.baseFeeRate = rate]
    BY <1>5 DEF AddBlocks
  <2>2. supply'.active = supply.active /\ supply'.user = supply.user
    BY <2>1 DEF IInv, TypeOK
  <2>3. QED
    BY <1>1, <2>1, <2>2, SameLedger
<1>6. CASE UNCHANGED vars
  <2>1. /\ UNCHANGED <<utxos, observed, spendTx>> /\ balances' = balances
        /\ supply' = supply
    BY <1>6 DEF vars
  <2>2. QED
    BY <1>1, <2>1, SameLedger
<1>7. QED
  BY <1>2, <1>3, <1>4, <1>5, <1>6 DEF Next

LEMMA LedgerHolds == Spec => [](IInv /\ CustodyInv /\ LedgerInv)
<1>1. QED
  BY InitHolds, NextKeeps, CustodyInit, CustodyNext, LedgerInit, LedgerNext, PTL DEF Spec

----------------------------------------------------------------------------
\* The theorems.

\* Both supplies are what the accounts hold together, after any sequence of
\* deposits, withdrawals and transfers: a credit that an overflow drops would
\* fail the test of the supply, and the call with it.
THEOREM SuppliesAreBalances == Spec => []SupplyIsBalances
<1>1. LedgerInv => SupplyIsBalances
  BY DEF LedgerInv
<1>2. QED
  BY <1>1, LedgerHolds, PTL

\* The outputs in the registry are worth at least what the accounts hold: the
\* protocol fee of every withdrawal, which is never below 1000, pays for the
\* change below 546 that goes to the miners.
THEOREM BalancesBacked == Spec => []Backed
<1>1. LedgerInv => Backed
  BY DEF LedgerInv
<1>2. QED
  BY <1>1, LedgerHolds, PTL

\* No output is credited twice and none is lost: what the accounts hold is the
\* worth of the outputs observed, each once, less what withdrawals took, in
\* whatever order calls repeat, confirm and spend.
THEOREM EveryDepositCreditedOnce == Spec => []DepositsCreditedOnce
<1>1. LedgerInv => DepositsCreditedOnce
  BY DEF LedgerInv
<1>2. QED
  BY <1>1, LedgerHolds, PTL

----------------------------------------------------------------------------
\* The coins of the bridge.

CoinOf(u) == [txid |-> u.txid, vout |-> u.vout, amount |-> u.amount]
UsedOf(store) == {s \in Slots : store[s] # NoUtxo}
CoinsIn(store) == {CoinOf(store[s]) : s \in UsedOf(store)}

\* The worth of a set of coins.
AmountsOf(S) == [c \in S |-> c.amount]
CoinsWorth(S) == SumFunction(AmountsOf(S))

LEMMA CoinsAreIn ==
    /\ Coins = CoinsIn(utxos)
    /\ Coins' = CoinsIn(utxos')
<1>1. Coins = CoinsIn(utxos)
  BY DEF Coins, CoinsIn, CoinOf, UsedOf, Used
<1>2. Coins' = CoinsIn(utxos')
  BY DEF Coins, CoinsIn, CoinOf, UsedOf, Used
<1>3. QED
  BY <1>1, <1>2

LEMMA CoinPoints ==
    ASSUME NEW u
    PROVE  /\ <<CoinOf(u).txid, CoinOf(u).vout>> = PointOf(u)
           /\ CoinOf(u).txid = PointOf(u)[1]
           /\ CoinOf(u).amount = u.amount
  BY DEF CoinOf, PointOf

\* A coin is tracked in one slot, so the coins are worth what the slots are.
LEMMA CoinsAreWorth ==
    ASSUME NEW store \in Stores, NEW points, Tracks(store, points)
    PROVE  /\ IsFiniteSet(CoinsIn(store))
           /\ \A c \in CoinsIn(store) : c.amount \in Int
           /\ CoinsWorth(CoinsIn(store)) = HeldWorth(store)
<1> DEFINE U == UsedOf(store)
           C == CoinsIn(store)
           f == SlotWorth(store)
           g == AmountsOf(C)
           m == [s \in U |-> CoinOf(store[s])]
<1>1. /\ \A s \in Slots : f[s] = WorthOf(store[s])
      /\ Summable(f, Slots)
  BY WorthType
<1>2. U \in SUBSET Slots /\ \A s \in U : store[s] # NoUtxo /\ store[s] \in Utxo
  BY DEF UsedOf, Stores
<1>3. \A s \in U : m[s] = CoinOf(store[s]) /\ m[s] \in C
  BY DEF CoinsIn
<1>4. \A s, t \in U : m[s] = m[t] => s = t
  <2>1. SUFFICES ASSUME NEW s \in U, NEW t \in U, m[s] = m[t]
                 PROVE  s = t
    OBVIOUS
  <2>2. PointOf(store[s]) = PointOf(store[t])
    BY <1>3, <2>1, CoinPoints
  <2>3. QED
    BY <1>2, <2>2 DEF Tracks
<1>5. \A c \in C : \E s \in U : c = m[s]
  BY DEF CoinsIn
<1> HIDE DEF m
<1>6. Renaming(m, U, C)
  BY <1>3, <1>4, <1>5 DEF Renaming
<1>7. \A s \in U : m[s].amount = f[s] /\ f[s] \in Int
  <2>1. SUFFICES ASSUME NEW s \in U PROVE m[s].amount = f[s] /\ f[s] \in Int
    OBVIOUS
  <2>2. f[s] = store[s].amount
    BY <1>1, <1>2 DEF WorthOf
  <2>3. m[s].amount = store[s].amount
    BY <1>3, CoinPoints
  <2>4. store[s] \in Utxo
    BY <1>2
  <2>5. store[s].amount \in Int
    BY <2>4 DEF Utxo
  <2>6. QED
    BY <2>2, <2>3, <2>5
<1>8. DOMAIN g = C /\ \A c \in C : g[c] = c.amount
  BY DEF AmountsOf
<1> HIDE DEF f, g, U, C
<1>9. Summable(f, U) /\ Summable(f, Slots \ U)
      /\ SumFunctionOnSet(f, U) \in Int /\ SumFunctionOnSet(f, Slots \ U) \in Int
      /\ SumFunctionOnSet(f, Slots) = SumFunctionOnSet(f, U) + SumFunctionOnSet(f, Slots \ U)
  BY <1>1, <1>2, SumApart
<1>10. \A s \in U : g[m[s]] = f[s]
  BY <1>3, <1>7, <1>8
<1>11. Summable(g, C) /\ SumFunctionOnSet(g, C) = SumFunctionOnSet(f, U)
  BY <1>6, <1>9, <1>10, SumRenamed
<1>12. \A s \in Slots \ U : f[s] = 0
  <2>1. \A s \in Slots \ U : store[s] = NoUtxo
    BY DEF U, UsedOf
  <2>2. QED
    BY <1>1, <2>1 DEF WorthOf
<1>13. SumFunctionOnSet(f, Slots \ U) = 0
  BY <1>9, <1>12, SumOfZeros DEF Summable
<1>14. SumFunction(g) = SumFunctionOnSet(g, C)
  BY <1>8 DEF SumFunction
<1>15. CoinsWorth(C) = HeldWorth(store)
  BY <1>9, <1>11, <1>13, <1>14 DEF CoinsWorth, HeldWorth, f, g
<1>16. IsFiniteSet(C) /\ \A c \in C : c.amount \in Int
  BY <1>5, <1>7, <1>11 DEF Summable
<1>17. QED
  BY <1>15, <1>16 DEF C

\* What leaves a set and what comes to it make up the difference of its worth.
LEMMA WorthDifference ==
    ASSUME NEW A, IsFiniteSet(A), NEW B, IsFiniteSet(B),
           \A c \in A : c.amount \in Int, \A c \in B : c.amount \in Int
    PROVE  /\ CoinsWorth(A) \in Int /\ CoinsWorth(B) \in Int
           /\ CoinsWorth(A \ B) \in Int /\ CoinsWorth(B \ A) \in Int
           /\ CoinsWorth(A \ B) - CoinsWorth(B \ A) = CoinsWorth(A) - CoinsWorth(B)
           /\ CoinsWorth({}) = 0
<1> DEFINE all == A \cup B
           g == AmountsOf(all)
           W(S) == SumFunctionOnSet(g, S)
<1>1. IsFiniteSet(all)
  BY FS_Union
<1>2. \A c \in all : g[c] = c.amount /\ g[c] \in Int
  BY DEF AmountsOf
<1> HIDE DEF g
<1>3. Summable(g, all)
  BY <1>1, <1>2 DEF Summable
<1>4. ASSUME NEW S \in SUBSET all
      PROVE  CoinsWorth(S) = W(S) /\ W(S) \in Int
  <2> DEFINE f == AmountsOf(S)
  <2>1. DOMAIN f = S /\ \A c \in S : f[c] = g[c]
    BY <1>2 DEF AmountsOf
  <2> HIDE DEF f, all
  <2>2. Summable(g, S) /\ SameOn(S, g, f)
    BY <1>3, <2>1, SummablePart DEF SameOn
  <2>3. SumFunctionOnSet(f, S) = W(S) /\ W(S) \in Int
    BY <2>2, SumSame, SumFacts
  <2>4. SumFunction(f) = SumFunctionOnSet(f, S)
    BY <2>1 DEF SumFunction
  <2>5. QED
    BY <2>3, <2>4 DEF CoinsWorth, f
<1>5. /\ A \in SUBSET all /\ B \in SUBSET all /\ A \ B \in SUBSET all
      /\ B \ A \in SUBSET all /\ A \cap B \in SUBSET all /\ {} \in SUBSET all
      /\ A \cap B \in SUBSET A /\ A \cap B \in SUBSET B
      /\ A \ (A \cap B) = A \ B /\ B \ (A \cap B) = B \ A
  OBVIOUS
<1>6. W({}) = 0
  BY <1>3, SumFacts
<1> DEFINE I == A \cap B
           dA == A \ I
           dB == B \ I
<1>7. Summable(g, A) /\ Summable(g, B)
  <2> HIDE DEF all
  <2> QED
    BY <1>3, <1>5, SummablePart
<1>8. W(A) = W(I) + W(dA) /\ W(B) = W(I) + W(dB)
  <2>1. I \in SUBSET A /\ I \in SUBSET B
    OBVIOUS
  <2> HIDE DEF I
  <2>2. QED
    BY <1>7, <2>1, SumApart
<1>9. dA = A \ B /\ dB = B \ A
  OBVIOUS
<1>10. W(I) \in Int /\ W(A \ B) \in Int /\ W(B \ A) \in Int /\ W(A) \in Int /\ W(B) \in Int
  <2> HIDE DEF W, all
  <2> QED
    BY <1>4, <1>5
<1>11. W(A) = W(I) + W(A \ B) /\ W(B) = W(I) + W(B \ A)
  <2> HIDE DEF W, I, dA, dB
  <2> QED
    BY <1>8, <1>9, Zenon
<1>12. W(A \ B) - W(B \ A) = W(A) - W(B)
  <2> HIDE DEF W, I
  <2> QED
    BY <1>10, <1>11
<1>13. /\ CoinsWorth(A) = W(A) /\ CoinsWorth(B) = W(B) /\ CoinsWorth({}) = W({})
       /\ CoinsWorth(A \ B) = W(A \ B) /\ CoinsWorth(B \ A) = W(B \ A)
  <2> HIDE DEF W, all
  <2> QED
    BY <1>4, <1>5
<1> HIDE DEF W
<1>14. QED
  BY <1>6, <1>10, <1>12, <1>13

----------------------------------------------------------------------------
\* What a deposit brings.

\* A slot has an output that was tracked before the call.
IsOld(u) == \E r \in Used : u = utxos[r]

LEMMA PromotedOld ==
    ASSUME IInv, NEW txid
    PROVE  \A s \in Slots :
               UpdateUtxoSpends(txid).utxos[s] # NoUtxo
                   => IsOld(UpdateUtxoSpends(txid).utxos[s])
<1> DEFINE Old(store) == \A s \in Slots : store[s] # NoUtxo => IsOld(store[s])
           Y == {x \in Promotions : Old(x.utxos)}
<1>1. PromotionStart \in Promotions /\ PromotionStart.utxos = utxos
  BY PromotionStarts
<1>2. PromotionStart \in Y
  <2>1. Old(utxos)
    BY DEF IsOld, Used
  <2> HIDE DEF Old
  <2>2. QED
    BY <1>1, <2>1
<1>3. ASSUME NEW x \in Y, NEW index \in Nat
      PROVE  Promote(x, txid, index) \in Y
  <2> DEFINE R == Promote(x, txid, index)
             store == x.utxos
  <2>1. R \in Promotions
    BY PromoteStays
  <2>2. \/ R.utxos = store
        \/ \E new, old \in Slots :
               /\ store[new] = NoUtxo /\ store[old] # NoUtxo
               /\ R.utxos = [store EXCEPT ![new] = store[old], ![old] = NoUtxo]
    BY PromoteSteps, PoolsInSlots DEF UnconfirmedAt
  <2>3. store \in Stores /\ Old(store)
    BY DEF Promotions, PromotionStates
  <2> HIDE DEF R, store
  <2>4. Old(R.utxos)
    BY <2>2, <2>3 DEF Stores
  <2> HIDE DEF Old
  <2>5. R \in Y
    BY <2>1, <2>4
  <2>6. QED
    BY <2>5 DEF R
<1> HIDE DEF Y
<1>4. UpdateUtxoSpends(txid) \in Y
  BY <1>2, <1>3, UpdateUtxoSpendsKeeps DEF IInv
<1>5. QED
  BY <1>4 DEF Y

\* The slots have outputs that were there before and outputs of txid that the
\* call has observed, each of them, which were not noticed before.
Brings(txid, store, obs) ==
    /\ \A s \in Slots : store[s] # NoUtxo =>
           IsOld(store[s]) \/ PointOf(store[s]) \in obs \ observed
    /\ \A p \in obs \ observed :
           /\ p[1] = txid /\ p \notin Noticed(observed)
           /\ \E s \in Slots : store[s] # NoUtxo /\ PointOf(store[s]) = p

\* The states of the loop over the outputs of txid.
Brought(txid) ==
    {st \in Arrived :
        /\ Brings(txid, st.utxos, st.observed)
        /\ \A a \in Accounts : st.balances[a] >= balances[a]
        /\ st.observed = observed => st.balances = balances}

LEMMA ProcessOutputBrings ==
    ASSUME IInv, CustodyInv, NEW txid \in TxIds, Known(txid),
           NEW instrs \in SUBSET Instructions, NEW sender \in Accounts,
           NEW drawn \in BOOLEAN, NEW st \in Brought(txid), NEW k \in 1..Len(Outs(txid))
    PROVE  ProcessOutput(st, txid, k - 1, instrs, sender, drawn) \in Brought(txid)
<1> DEFINE R == ProcessOutput(st, txid, k - 1, instrs, sender, drawn)
           out == Outs(txid)[k]
<1>1. TypeOK
  BY DEF IInv
<1>2. /\ st \in Arrived /\ st \in Arrivals /\ observed \subseteq st.observed
      /\ Brings(txid, st.utxos, st.observed)
      /\ \A a \in Accounts : st.balances[a] >= balances[a]
      /\ st.observed = observed => st.balances = balances
  BY DEF Brought, Arrived
<1>3. R \in Arrived
  BY <1>2, ProcessOutputTracks
<1>4. \/ /\ R.utxos = st.utxos /\ R.observed = st.observed
         /\ R.balances = st.balances /\ R.total = st.total
      \/ /\ R.balances = Credited(st.balances, out.addr, sender, out.amount, drawn)
         /\ \E new \in Slots : \E u \in Utxo : Takes(st, R, txid, k, out, new, u)
  BY <1>1, <1>2, ProcessOutputSteps DEF Arrivals
<1>5. /\ st.utxos \in Stores /\ st.balances \in [Accounts -> Nat]
      /\ balances \in [Accounts -> Nat]
  BY <1>1, <1>2 DEF Arrivals, ArrivalStates, TypeOK
<1>6. Outs(txid) \in Seq(TxOut)
  BY <1>1, OutsType
<1>7. R.balances \in [Accounts -> Nat]
  BY <1>3 DEF Arrived, Arrivals, ArrivalStates
<1> HIDE DEF R
<1>8. CASE /\ R.utxos = st.utxos /\ R.observed = st.observed
           /\ R.balances = st.balances /\ R.total = st.total
  <2>1. R \in Brought(txid)
    BY <1>2, <1>3, <1>8 DEF Brought
  <2>2. QED
    BY <2>1 DEF R
<1>9. CASE /\ R.balances = Credited(st.balances, out.addr, sender, out.amount, drawn)
           /\ \E new \in Slots : \E u \in Utxo : Takes(st, R, txid, k, out, new, u)
  <2>1. PICK new \in Slots, u \in Utxo : Takes(st, R, txid, k, out, new, u)
    BY <1>9
  <2> DEFINE p == <<txid, k - 1>>
             store == st.utxos
             store2 == R.utxos
             bal == R.balances
             mid == st.balances
  <2>2. /\ out.amount \in Nat /\ out.addr \in Instructions
        /\ store[new] = NoUtxo /\ PointOf(u) = p
        /\ p \notin st.observed /\ R.observed = st.observed \cup {p}
        /\ store2 = [store EXCEPT ![new] = u]
    BY <2>1 DEF Takes
  <2>3. p \notin Noticed(observed)
    <3>1. p \notin observed
      BY <1>2, <2>2
    <3>2. QED
      BY <1>1, <2>2, <3>1, PaidIsUnnoticed
  <2>4. u # NoUtxo /\ p[1] = txid
    BY BtcMappingAssumption
  <2>5. /\ store2[new] = u /\ \A s \in Slots : s # new => store2[s] = store[s]
        /\ p \in R.observed \ observed
        /\ \A q \in st.observed \ observed : q \in R.observed \ observed
        /\ \A q \in R.observed \ observed : q = p \/ q \in st.observed \ observed
    BY <1>2, <1>5, <2>2 DEF Stores
  <2>6. \A a \in Accounts : bal[a] >= mid[a]
    <3> HIDE DEF out
    <3>1. mid \in [Accounts -> Nat]
      BY <1>5
    <3> HIDE DEF mid, bal
    <3>2. \A a \in Accounts :
              Credited(mid, out.addr, sender, out.amount, drawn)[a] >= mid[a]
      BY <2>2, <3>1, CreditedSum
    <3>3. QED
      BY <1>9, <3>2 DEF mid, bal
  <2>7. /\ \A a \in Accounts : bal[a] \in Nat /\ mid[a] \in Nat /\ balances[a] \in Nat
        /\ \A a \in Accounts : mid[a] >= balances[a]
    BY <1>2, <1>5, <1>7
  <2>8. \A a \in Accounts : bal[a] >= balances[a]
    <3> HIDE DEF bal, mid
    <3> QED
      BY <2>6, <2>7
  <2>9. R.observed # observed
    BY <2>5
  <2> HIDE DEF out, p, store, store2
  <2>10. Brings(txid, store2, R.observed)
    <3>1. /\ \A s \in Slots : store[s] # NoUtxo =>
                 IsOld(store[s]) \/ PointOf(store[s]) \in st.observed \ observed
          /\ \A q \in st.observed \ observed :
                 /\ q[1] = txid /\ q \notin Noticed(observed)
                 /\ \E s \in Slots : store[s] # NoUtxo /\ PointOf(store[s]) = q
      BY <1>2 DEF Brings, store
    <3>2. \A s \in Slots : store2[s] # NoUtxo =>
              IsOld(store2[s]) \/ PointOf(store2[s]) \in R.observed \ observed
      BY <2>2, <2>5, <3>1
    <3>3. ASSUME NEW q \in R.observed \ observed
          PROVE  /\ q[1] = txid /\ q \notin Noticed(observed)
                 /\ \E s \in Slots : store2[s] # NoUtxo /\ PointOf(store2[s]) = q
      <4>1. CASE q = p
        BY <2>2, <2>3, <2>4, <2>5, <4>1
      <4>2. CASE q \in st.observed \ observed
        <5>1. PICK s \in Slots : store[s] # NoUtxo /\ PointOf(store[s]) = q
          BY <3>1, <4>2
        <5>2. s # new /\ store2[s] = store[s]
          BY <2>2, <2>5, <5>1
        <5>3. QED
          BY <3>1, <4>2, <5>1, <5>2
      <4>3. QED
        BY <2>5, <4>1, <4>2
    <3>4. QED
      BY <3>2, <3>3 DEF Brings
  <2>11. R \in Brought(txid)
    BY <1>3, <2>8, <2>9, <2>10 DEF Brought, store2
  <2>12. QED
    BY <2>11 DEF R
<1>10. QED
  BY <1>4, <1>8, <1>9

\* What map writes, in these terms.
LEMMA MapBrings ==
    ASSUME IInv, CustodyInv, NEW txid \in TxIds, NEW instrs \in MapInputs,
           NEW sender \in Accounts, NEW drawn \in BOOLEAN,
           Map(txid, instrs, sender, drawn)
    PROVE  /\ Brings(txid, utxos', observed')
           /\ \A a \in Accounts : balances'[a] >= balances[a]
           /\ observed' = observed => balances' = balances
<1> DEFINE promoted == UpdateUtxoSpends(txid)
           st0 == [utxos |-> promoted.utxos, registry |-> promoted.registry,
                   next |-> promoted.next, observed |-> observed,
                   balances |-> balances, total |-> 0, aborted |-> FALSE]
           st == ProcessUtxos(st0, txid, instrs, sender, drawn)
<1>1. promoted \in Promoted(Noticed(observed) \ Spent)
  BY UpdateUtxoSpendsTracks
<1>2. \A s \in Slots : promoted.utxos[s] # NoUtxo => IsOld(promoted.utxos[s])
  BY PromotedOld
<1>3. Known(txid) /\ instrs \in SUBSET Instructions /\ TypeOK
  BY BtcMappingAssumption DEF Map, IInv
<1>4. st0 \in Brought(txid)
  <2> HIDE DEF promoted
  <2>1. promoted \in Promotions /\ Holds(promoted.utxos)
        /\ Tracks(promoted.utxos, Noticed(observed) \ Spent)
    BY <1>1 DEF Promoted
  <2>2. st0 \in Arrivals
    BY <1>3, <2>1 DEF TypeOK, Promotions, PromotionStates, Arrivals, ArrivalStates
  <2>3. /\ st0.utxos = promoted.utxos /\ st0.observed = observed
        /\ st0.balances = balances
    OBVIOUS
  <2>4. \A p \in observed : Known(p[1])
    BY DEF CustodyInv
  <2>5. \A a \in Accounts : balances[a] >= balances[a]
    BY <1>3 DEF TypeOK
  <2> HIDE DEF st0
  <2>6. st0 \in Arrived
    BY <2>1, <2>2, <2>3, <2>4 DEF Arrived
  <2>7. Brings(txid, st0.utxos, st0.observed)
    BY <1>2, <2>3 DEF Brings
  <2>8. QED
    BY <2>3, <2>5, <2>6, <2>7 DEF Brought
<1>5. \A x \in Brought(txid), k \in 1..Len(Outs(txid)) :
          ProcessOutput(x, txid, k - 1, instrs, sender, drawn) \in Brought(txid)
  BY <1>3, ProcessOutputBrings
<1>6. utxos' = st.utxos /\ observed' = st.observed /\ balances' = st.balances
  BY DEF Map
<1> HIDE DEF st0
<1>7. st \in Brought(txid)
  BY <1>3, <1>4, <1>5, ProcessUtxosKeeps
<1> HIDE DEF st
<1>8. QED
  BY <1>6, <1>7 DEF Brought

----------------------------------------------------------------------------
\* The steps of the bridge.

PointsOf(S) == {<<c.txid, c.vout>> : c \in S}

\* The notions of the bridge are those of the ledger.
LEMMA BridgeTerms ==
    /\ \A S : Promised!Points(S) = PointsOf(S)
    /\ \A S : Promised!Worth(S) = CoinsWorth(S)
    /\ \A bal : Promised!Total(bal) = SumFunction(bal)
<1>1. \A S : Promised!Points(S) = PointsOf(S)
  BY DEF Promised!Points, Promised!Point, PointsOf
<1>2. \A S : Promised!Worth(S) = CoinsWorth(S)
  <2> SUFFICES ASSUME NEW S PROVE Promised!Worth(S) = CoinsWorth(S)
    OBVIOUS
  <2> QED
    BY DEF Promised!Worth, CoinsWorth, AmountsOf, Promised!SumFunction,
           Promised!SumFunctionOnSet, Promised!FoldFunctionOnSet,
           Promised!MapThenFoldSet, SumFunction, SumFunctionOnSet,
           FoldFunctionOnSet, MapThenFoldSet
<1>3. \A bal : Promised!Total(bal) = SumFunction(bal)
  <2> SUFFICES ASSUME NEW bal PROVE Promised!Total(bal) = SumFunction(bal)
    OBVIOUS
  <2> QED
    BY DEF Promised!Total, Promised!SumFunction, Promised!SumFunctionOnSet,
           Promised!FoldFunctionOnSet, Promised!MapThenFoldSet, SumFunction,
           SumFunctionOnSet, FoldFunctionOnSet, MapThenFoldSet
<1>4. QED
  BY <1>1, <1>2, <1>3

\* The coins in a store, and their points, are those of its slots.
LEMMA CoinsPoints ==
    ASSUME NEW store
    PROVE  /\ \A c \in CoinsIn(store) : \E s \in UsedOf(store) :
                  /\ c = CoinOf(store[s])
                  /\ <<c.txid, c.vout>> = PointOf(store[s])
                  /\ c.txid = PointOf(store[s])[1]
           /\ \A s \in UsedOf(store) : CoinOf(store[s]) \in CoinsIn(store)
<1>1. SUFFICES ASSUME NEW s \in UsedOf(store), NEW c, c = CoinOf(store[s])
               PROVE  /\ <<c.txid, c.vout>> = PointOf(store[s])
                      /\ c.txid = PointOf(store[s])[1]
  BY DEF CoinsIn
<1>2. QED
  BY <1>1, CoinPoints

\* The coins are worth what the slots are, before a step and after it.
LEMMA CoinsWorthFacts ==
    ASSUME IInv, CustodyInv, IInv', CustodyInv'
    PROVE  /\ CoinsWorth(Coins' \ Coins) \in Int /\ CoinsWorth(Coins \ Coins') \in Int
           /\ CoinsWorth(Coins' \ Coins) - CoinsWorth(Coins \ Coins')
                  = HeldWorth(utxos') - HeldWorth(utxos)
           /\ HeldWorth(utxos) \in Int /\ HeldWorth(utxos') \in Int
           /\ CoinsWorth({}) = 0
<1> DEFINE A == CoinsIn(utxos')
           B == CoinsIn(utxos)
<1>1. utxos \in Stores /\ utxos' \in Stores
  BY DEF IInv, TypeOK, Stores
<1>2. Tracks(utxos, Noticed(observed) \ Spent)
  BY DEF CustodyInv
<1>3. Tracks(utxos', (Noticed(observed) \ Spent)')
  BY DEF CustodyInv, Tracks
<1>4. /\ IsFiniteSet(B) /\ \A c \in B : c.amount \in Int
      /\ CoinsWorth(B) = HeldWorth(utxos)
  BY <1>1, <1>2, CoinsAreWorth
<1>5. /\ IsFiniteSet(A) /\ \A c \in A : c.amount \in Int
      /\ CoinsWorth(A) = HeldWorth(utxos')
  <2> DEFINE P == (Noticed(observed) \ Spent)'
             store == utxos'
  <2>1. store \in Stores /\ Tracks(store, P)
    BY <1>1, <1>3
  <2> HIDE DEF P, store
  <2>2. /\ IsFiniteSet(CoinsIn(store)) /\ \A c \in CoinsIn(store) : c.amount \in Int
        /\ CoinsWorth(CoinsIn(store)) = HeldWorth(store)
    BY <2>1, CoinsAreWorth
  <2>3. QED
    BY <2>2 DEF store
<1>6. HeldWorth(utxos) \in Int /\ HeldWorth(utxos') \in Int
  BY <1>1, WorthType
<1>7. Coins = B /\ Coins' = A
  BY CoinsAreIn
<1> HIDE DEF A, B
<1>8. /\ CoinsWorth(A \ B) \in Int /\ CoinsWorth(B \ A) \in Int
      /\ CoinsWorth(A \ B) - CoinsWorth(B \ A) = CoinsWorth(A) - CoinsWorth(B)
      /\ CoinsWorth({}) = 0
  BY <1>4, <1>5, WorthDifference
<1>9. QED
  BY <1>4, <1>5, <1>6, <1>7, <1>8

\* A deposit.
LEMMA MapDeposits ==
    ASSUME IInv, CustodyInv, LedgerInv, IInv', CustodyInv', NEW txid \in TxIds,
           NEW instrs \in MapInputs, NEW sender \in Accounts, NEW drawn \in BOOLEAN,
           Map(txid, instrs, sender, drawn)
    PROVE  Promised!Deposit \/ UNCHANGED Promised!vars
<1> DEFINE new == Coins' \ Coins
           N == observed' \ observed
<1>1. /\ observed \subseteq observed' /\ Holds(utxos')
      /\ Spent \subseteq Noticed(observed)
      /\ observed \subseteq Noticed(observed)
  <2>1. observed \subseteq TxIds \X Nat
    BY DEF IInv, TypeOK
  <2>2. observed \subseteq Noticed(observed)
    BY <2>1 DEF Noticed
  <2>3. QED
    BY <2>2, MapTracks DEF CustodyInv
<1>2. /\ \A s \in Slots : utxos'[s] # NoUtxo =>
             IsOld(utxos'[s]) \/ PointOf(utxos'[s]) \in N
      /\ \A p \in N :
             /\ p[1] = txid /\ p \notin Noticed(observed)
             /\ \E s \in Slots : utxos'[s] # NoUtxo /\ PointOf(utxos'[s]) = p
      /\ \A a \in Accounts : balances'[a] >= balances[a]
      /\ observed' = observed => balances' = balances
  BY MapBrings DEF Brings
<1>3. /\ \A c \in Coins : \E s \in Used :
             c = CoinOf(utxos[s]) /\ <<c.txid, c.vout>> = PointOf(utxos[s])
      /\ \A s \in Used : CoinOf(utxos[s]) \in Coins
      /\ \A c \in Coins' : \E s \in Slots :
             /\ utxos'[s] # NoUtxo /\ c = CoinOf(utxos'[s])
             /\ <<c.txid, c.vout>> = PointOf(utxos'[s]) /\ c.txid = PointOf(utxos'[s])[1]
      /\ \A s \in Slots : utxos'[s] # NoUtxo => CoinOf(utxos'[s]) \in Coins'
  BY CoinsAreIn, CoinsPoints DEF UsedOf, Used
<1>4. \A s \in Used : PointOf(utxos[s]) \in Noticed(observed)
  BY DEF CustodyInv, Tracks, Used
<1>5. Coins \subseteq Coins'
  <2>1. \A s \in Used : utxos[s] # NoUtxo /\ \E t \in Slots : utxos'[t] = utxos[s]
    BY <1>1 DEF Holds, Used
  <2>2. QED
    BY <1>3, <2>1
<1>6. \A c \in new : <<c.txid, c.vout>> \in N /\ c.txid = txid
  BY <1>2, <1>3 DEF IsOld
<1>7. \A p \in N : \E c \in new : <<c.txid, c.vout>> = p
  <2>1. SUFFICES ASSUME NEW p \in N
                 PROVE  \E c \in new : <<c.txid, c.vout>> = p
    OBVIOUS
  <2>2. PICK s \in Slots : utxos'[s] # NoUtxo /\ PointOf(utxos'[s]) = p
    BY <1>2
  <2> DEFINE c == CoinOf(utxos'[s])
  <2>3. c \in Coins' /\ <<c.txid, c.vout>> = p
    BY <1>3, <2>2, CoinPoints
  <2>4. p \notin Noticed(observed)
    BY <1>2
  <2> HIDE DEF c
  <2>5. c \notin Coins
    BY <1>3, <1>4, <2>3, <2>4
  <2>6. QED
    BY <2>3, <2>5
<1>8. PointsOf(new) = N
  <2> HIDE DEF new, N
  <2> QED
    BY <1>6, <1>7 DEF PointsOf
<1>9. Spent' = Spent
  <2>1. spendTx' = spendTx
    BY DEF Map
  <2>2. QED
    BY <2>1, SpentUnchanged
<1>10. CASE N = {}
  <2>1. observed' = observed
    BY <1>1, <1>10
  <2>2. new = {}
    BY <1>6, <1>10
  <2>3. Coins' = Coins
    BY <1>5, <2>2
  <2>4. UNCHANGED Promised!vars
    BY <1>2, <1>9, <2>1, <2>3 DEF Promised!vars, Spent
  <2>5. QED
    BY <2>4
<1>11. CASE N # {}
  <2>1. new # {} /\ \A c, d \in new : c.txid = d.txid
    BY <1>6, <1>7, <1>11
  <2>2. PointsOf(Coins) \subseteq Noticed(observed)
    BY <1>3, <1>4 DEF PointsOf
  <2>3. N \cap (observed \cup Spent \cup PointsOf(Coins)) = {}
    BY <1>1, <1>2, <2>2
  <2>4. observed' = observed \cup N
    BY <1>1
  <2>5. SumFunction(balances') = SumFunction(balances) + CoinsWorth(new)
    <3>1. Deposited(observed) \in Int
      BY LedgerFacts
    <3>2. PICK total \in Nat :
              /\ HeldWorth(utxos') = HeldWorth(utxos) + total
              /\ SumFunction(balances') = SumFunction(balances) + total
      BY <3>1, MapCredits
    <3>3. Coins \ Coins' = {}
      BY <1>5
    <3>4. CoinsWorth(Coins \ Coins') = 0
      BY <3>3, CoinsWorthFacts
    <3>5. /\ CoinsWorth(new) \in Int
          /\ CoinsWorth(new) - CoinsWorth(Coins \ Coins')
                 = HeldWorth(utxos') - HeldWorth(utxos)
          /\ HeldWorth(utxos) \in Int /\ HeldWorth(utxos') \in Int
      BY CoinsWorthFacts
    <3> HIDE DEF new
    <3>6. CoinsWorth(new) = total
      BY <3>2, <3>4, <3>5
    <3>7. QED
      BY <3>2, <3>6
  <2>6. UNION {SpentPoints(t) : t \in Made} = Spent
    BY DEF Spent
  <2>7. (UNION {SpentPoints(t) : t \in Made})' = Spent'
    BY DEF Spent
  <2>8. Promised!Deposit
    BY <1>2, <1>5, <1>8, <1>9, <2>1, <2>3, <2>4, <2>5, <2>6, <2>7, BridgeTerms
       DEF Promised!Deposit
  <2>9. QED
    BY <2>8
<1>12. QED
  BY <1>10, <1>11

\* A withdrawal.
LEMMA UnmapWithdraws ==
    ASSUME IInv, CustodyInv, IInv', CustodyInv', NEW sender \in Accounts,
           NEW amount \in UnmapAmounts, NEW dest \in Addresses, NEW txid \in SpendIds,
           Unmap(sender, amount, dest, txid)
    PROVE  Promised!Withdraw(sender)
<1>1. spendTx[txid] = NoTx /\ observed' = observed
  BY UnmapTracks
<1>2. PICK inputIds \in SUBSET Used, spend \in Spend, store \in Trackings :
               UnmapWrites(txid, inputIds, spend, store)
  BY UnmapTracks
<1> DEFINE gone == Coins \ Coins'
           change == Coins' \ Coins
           taken == {Point(s) : s \in inputIds}
           slots == store.utxos
           back == ChangePoints(txid, spend.outs, Len(spend.outs))
<1>3. /\ inputIds # {} /\ inputIds \subseteq Used /\ Used \subseteq Slots
      /\ \A s \in Used : slots[s] = utxos[s] /\ utxos[s] # NoUtxo
      /\ Tracks(slots, TrackedPoints \cup back)
      /\ utxos' = [s \in Slots |-> IF s \in inputIds THEN NoUtxo ELSE slots[s]]
  BY <1>2 DEF UnmapWrites, Tracked, Used
<1>4. Spent' = Spent \cup taken
  BY <1>1, <1>2, UnmapSpends
<1>5. /\ \A c \in Coins : \E s \in Used :
             c = CoinOf(utxos[s]) /\ <<c.txid, c.vout>> = PointOf(utxos[s])
      /\ \A s \in Used : CoinOf(utxos[s]) \in Coins
      /\ \A c \in Coins' : \E s \in Slots :
             /\ utxos'[s] # NoUtxo /\ c = CoinOf(utxos'[s])
             /\ <<c.txid, c.vout>> = PointOf(utxos'[s]) /\ c.txid = PointOf(utxos'[s])[1]
      /\ \A s \in Slots : utxos'[s] # NoUtxo => CoinOf(utxos'[s]) \in Coins'
  BY CoinsAreIn, CoinsPoints DEF UsedOf, Used
<1>6. /\ TrackedPoints \subseteq Noticed(observed) /\ Spent \subseteq Noticed(observed)
      /\ observed \subseteq Noticed(observed)
      /\ \A p \in back : p[1] = txid /\ p \notin Noticed(observed)
  <2>1. observed \subseteq TxIds \X Nat
    BY DEF IInv, TypeOK
  <2>2. observed \subseteq Noticed(observed)
    BY <2>1 DEF Noticed
  <2>3. \A p \in back : p[1] = txid /\ p \notin Noticed(observed)
    BY <1>1, NewIsUnnoticed DEF ChangePoints
  <2>4. QED
    BY <2>2, <2>3, TracksTrackedPoints DEF CustodyInv
<1>7. \A s \in Used : PointOf(utxos[s]) = Point(s) /\ Point(s) \in TrackedPoints
  BY DEF PointOf, Point, TrackedPoints
<1>8. \A s \in Slots : utxos'[s] # NoUtxo => s \notin inputIds /\ utxos'[s] = slots[s]
  BY <1>3
<1>9. \A s \in Used : s \notin inputIds => utxos'[s] = utxos[s]
  BY <1>3
<1> HIDE DEF slots, back
<1>10. \A c \in gone : <<c.txid, c.vout>> \in taken
  <2>1. SUFFICES ASSUME NEW c \in gone PROVE <<c.txid, c.vout>> \in taken
    OBVIOUS
  <2>2. PICK s \in Used : c = CoinOf(utxos[s]) /\ <<c.txid, c.vout>> = PointOf(utxos[s])
    BY <1>5
  <2>3. s \in inputIds
    BY <1>3, <1>5, <1>9, <2>2
  <2>4. QED
    BY <1>7, <2>2, <2>3
<1>11. \A s \in inputIds : \E c \in gone : <<c.txid, c.vout>> = Point(s)
  <2>1. SUFFICES ASSUME NEW s \in inputIds
                 PROVE  \E c \in gone : <<c.txid, c.vout>> = Point(s)
    OBVIOUS
  <2> DEFINE c == CoinOf(utxos[s])
  <2>2. s \in Used /\ c \in Coins /\ <<c.txid, c.vout>> = Point(s)
    BY <1>3, <1>5, <1>7, CoinPoints
  <2> HIDE DEF c
  <2>3. c \notin Coins'
    <3>1. SUFFICES ASSUME c \in Coins' PROVE FALSE
      OBVIOUS
    <3>2. PICK t \in Slots : utxos'[t] # NoUtxo /\ <<c.txid, c.vout>> = PointOf(utxos'[t])
      BY <1>5, <3>1
    <3>3. t \notin inputIds /\ slots[t] # NoUtxo /\ PointOf(slots[t]) = PointOf(slots[s])
      BY <1>3, <1>7, <1>8, <2>2, <3>2
    <3>4. s = t
      BY <1>3, <2>2, <3>3 DEF Tracks
    <3>5. QED
      BY <3>3, <3>4
  <2>4. QED
    BY <2>2, <2>3
<1>12. \A c \in change : c.txid = txid /\ <<c.txid, c.vout>> \notin Noticed(observed)
  <2>1. SUFFICES ASSUME NEW c \in change
                 PROVE  c.txid = txid /\ <<c.txid, c.vout>> \notin Noticed(observed)
    OBVIOUS
  <2>2. PICK s \in Slots :
            /\ utxos'[s] # NoUtxo /\ c = CoinOf(utxos'[s])
            /\ <<c.txid, c.vout>> = PointOf(utxos'[s]) /\ c.txid = PointOf(utxos'[s])[1]
    BY <1>5
  <2>3. s \notin Used
    BY <1>5, <1>8, <1>9, <2>2
  <2>4. slots[s] # NoUtxo /\ PointOf(slots[s]) = <<c.txid, c.vout>>
    BY <1>8, <2>2
  <2>5. PointOf(slots[s]) \notin TrackedPoints
    <3>1. SUFFICES ASSUME PointOf(slots[s]) \in TrackedPoints PROVE FALSE
      OBVIOUS
    <3>2. PICK r \in Used : PointOf(slots[s]) = Point(r)
      BY <3>1 DEF TrackedPoints
    <3>3. PointOf(slots[s]) = PointOf(slots[r]) /\ slots[r] # NoUtxo /\ r \in Slots
      BY <1>3, <1>7, <3>2
    <3>4. QED
      BY <1>3, <2>3, <2>4, <3>3 DEF Tracks
  <2>6. PointOf(slots[s]) \in back
    BY <1>3, <2>4, <2>5 DEF Tracks
  <2>7. QED
    BY <1>6, <1>8, <2>2, <2>4, <2>6
<1>13. PointsOf(gone) = taken /\ gone # {}
  <2>1. \A p \in taken : \E s \in inputIds : p = Point(s)
    OBVIOUS
  <2> HIDE DEF gone, taken
  <2>2. QED
    BY <1>3, <1>10, <1>11, <2>1 DEF PointsOf
<1>14. taken \subseteq Noticed(observed)
  BY <1>3, <1>6, <1>7
<1>15. PointsOf(Coins) \subseteq Noticed(observed)
  BY <1>5, <1>6, <1>7 DEF PointsOf
<1>16. PointsOf(change) \cap (observed \cup Spent' \cup PointsOf(Coins)) = {}
  <2> HIDE DEF change, taken
  <2> QED
    BY <1>4, <1>6, <1>12, <1>14, <1>15 DEF PointsOf
<1>17. /\ balances'[sender] >= 0
       /\ balances[sender] - balances'[sender] >= CoinsWorth(gone) - CoinsWorth(change)
       /\ \A a \in Accounts \ {sender} : balances'[a] = balances[a]
  <2>1. PICK paid \in Spend : UnmapCharges(sender, txid, paid)
    BY UnmapPays
  <2> DEFINE charge == ChargeOf(paid)
  <2>2. /\ charge \in Nat /\ balances[sender] >= charge
        /\ balances' = [balances EXCEPT ![sender] = @ - charge]
        /\ HeldWorth(utxos') >= HeldWorth(utxos) - charge
    BY <2>1 DEF UnmapCharges
  <2>3. balances \in [Accounts -> Nat]
    BY DEF IInv, TypeOK
  <2> HIDE DEF charge
  <2>4. /\ balances'[sender] = balances[sender] - charge
        /\ \A a \in Accounts \ {sender} : balances'[a] = balances[a]
    BY <2>2, <2>3
  <2>5. /\ CoinsWorth(change) \in Int /\ CoinsWorth(gone) \in Int
        /\ CoinsWorth(change) - CoinsWorth(gone) = HeldWorth(utxos') - HeldWorth(utxos)
        /\ HeldWorth(utxos) \in Int /\ HeldWorth(utxos') \in Int
    BY CoinsWorthFacts
  <2>6. balances[sender] \in Nat
    BY <2>3
  <2> HIDE DEF change, gone
  <2>7. charge >= CoinsWorth(gone) - CoinsWorth(change)
    BY <2>2, <2>5
  <2>8. QED
    BY <2>2, <2>4, <2>6, <2>7
<1>18. UNION {SpentPoints(t) : t \in Made} = Spent
  BY DEF Spent
<1>19. (UNION {SpentPoints(t) : t \in Made})' = Spent'
  BY DEF Spent
<1>20. \A c, d \in change : c.txid = d.txid
  BY <1>12
<1>21. QED
  BY <1>1, <1>4, <1>13, <1>16, <1>17, <1>18, <1>19, <1>20, BridgeTerms
     DEF Promised!Withdraw

\* A transfer.
LEMMA TransferTransfers ==
    ASSUME IInv, NEW from \in Accounts, NEW to \in Accounts,
           NEW amount \in TransferAmounts, Transfer(from, to, amount)
    PROVE  Promised!Transfer(from, to)
<1> DEFINE deducted == [balances EXCEPT ![from] = @ - amount]
<1>1. /\ balances \in [Accounts -> Nat] /\ amount \in Nat
      /\ balances[from] >= amount
      /\ balances' = [deducted EXCEPT ![to] = @ + amount]
      /\ UNCHANGED <<utxos, observed, spendTx>>
  BY BtcMappingAssumption DEF IInv, TypeOK, Transfer
<1>2. /\ deducted[from] = balances[from] - amount /\ deducted \in [Accounts -> Nat]
      /\ \A b \in Accounts : b # from => deducted[b] = balances[b]
  BY <1>1
<1> HIDE DEF deducted
<1>3. /\ balances'[to] = deducted[to] + amount
      /\ \A b \in Accounts : b # to => balances'[b] = deducted[b]
  BY <1>1, <1>2
<1>4. /\ balances[from] \in Nat /\ balances[to] \in Nat
      /\ deducted[from] \in Nat /\ deducted[to] \in Nat
  BY <1>1, <1>2
<1>5. /\ balances'[from] + balances'[to] = balances[from] + balances[to]
      /\ balances'[from] >= 0 /\ balances'[to] >= balances[to]
  <2>1. CASE from = to
    <3>1. balances'[from] = balances[from] /\ balances'[to] = balances[to]
      BY <1>1, <1>2, <1>3, <1>4, <2>1
    <3>2. QED
      BY <1>4, <3>1
  <2>2. CASE from # to
    <3>1. /\ balances'[from] = balances[from] - amount
          /\ balances'[to] = balances[to] + amount
      BY <1>2, <1>3, <2>2
    <3>2. QED
      BY <1>1, <1>4, <3>1
  <2>3. QED
    BY <2>1, <2>2
<1>6. \A a \in Accounts \ {from, to} : balances'[a] = balances[a]
  BY <1>2, <1>3
<1>7. Coins' = Coins /\ Spent' = Spent
  BY <1>1, CoinsAreIn, SpentUnchanged
<1>8. QED
  BY <1>1, <1>5, <1>6, <1>7 DEF Promised!Transfer, Spent

LEMMA StartsAsPromised == Init => Promised!Init
<1> SUFFICES ASSUME Init PROVE Promised!Init
  OBVIOUS
<1>1. /\ \A s \in Slots : utxos[s] = NoUtxo
      /\ \A t \in SpendIds : spendTx[t] = NoTx
      /\ observed = {} /\ balances = [a \in Accounts |-> 0]
  BY DEF Init
<1>2. Used = {} /\ Made = {}
  BY <1>1 DEF Used, Made
<1>3. Coins = {}
  BY <1>2 DEF Coins
<1>4. UNION {SpentPoints(t) : t \in Made} = {}
  BY <1>2
<1>5. QED
  BY <1>1, <1>3, <1>4 DEF Promised!Init

\* Every step is a step of the bridge, or none.
LEMMA NextAsPromised ==
    /\ IInv /\ CustodyInv /\ LedgerInv /\ IInv' /\ CustodyInv'
    /\ [Next]_vars
    => [Promised!Next]_(Promised!vars)
<1> SUFFICES ASSUME IInv, CustodyInv, LedgerInv, IInv', CustodyInv', [Next]_vars
             PROVE  Promised!Next \/ UNCHANGED Promised!vars
  OBVIOUS
<1>1. ASSUME NEW txid \in TxIds, NEW instrs \in MapInputs, NEW sender \in Accounts,
             NEW drawn \in BOOLEAN, Map(txid, instrs, sender, drawn)
      PROVE  Promised!Next \/ UNCHANGED Promised!vars
  BY <1>1, MapDeposits DEF Promised!Next
<1>2. ASSUME NEW sender \in Accounts, NEW amount \in UnmapAmounts,
             NEW dest \in Addresses, NEW txid \in SpendIds,
             Unmap(sender, amount, dest, txid)
      PROVE  Promised!Next
  BY <1>2, UnmapWithdraws DEF Promised!Next
<1>3. ASSUME NEW from \in Accounts, NEW to \in Accounts, NEW amount \in TransferAmounts,
             Transfer(from, to, amount)
      PROVE  Promised!Next
  BY <1>3, TransferTransfers DEF Promised!Next
<1>4. ASSUME UNCHANGED <<utxos, observed, spendTx, balances>>
      PROVE  UNCHANGED Promised!vars
  <2>1. Coins' = Coins /\ Spent' = Spent
    BY <1>4, CoinsAreIn, SpentUnchanged
  <2>2. QED
    BY <1>4, <2>1 DEF Promised!vars, Spent
<1>5. ASSUME NEW rate \in FeeRates, AddBlocks(rate)
      PROVE  UNCHANGED Promised!vars
  BY <1>4, <1>5 DEF AddBlocks
<1>6. CASE UNCHANGED vars
  BY <1>4, <1>6 DEF vars
<1>7. QED
  BY <1>1, <1>2, <1>3, <1>5, <1>6 DEF Next

\* The contract implements the bridge: behind slots, pools, a registry that is
\* rewritten and promotions, what the outside sees are deposits of new coins
\* credited at their worth, withdrawals paid by one account, and transfers.
THEOREM PromisesKept == Spec => KeepsPromises
<1>1. Init => Promised!Init
  BY StartsAsPromised
<1>2. /\ IInv /\ CustodyInv /\ LedgerInv /\ IInv' /\ CustodyInv'
      /\ [Next]_vars
      => [Promised!Next]_(Promised!vars)
  BY NextAsPromised
<1>3. QED
  BY <1>1, <1>2, LedgerHolds, PTL DEF Spec, KeepsPromises, Promised!Spec

===============================================================================
