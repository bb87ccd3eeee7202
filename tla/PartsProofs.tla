---------------------------- MODULE PartsProofs -----------------------------
(***************************************************************************)
(* Proofs about the parts of the contract whose models share no state.     *)
(*                                                                         *)
(* Registration: what is registered on mainnet is permanent, and therefore *)
(* every tracked output keeps the keys it was derived from.                *)
(*                                                                         *)
(* IntentSpending: calls nested in a transaction neither make nor destroy  *)
(* money, and nobody loses what no intent of theirs allows.                *)
(*                                                                         *)
(* Instructions: what an accepted deposit does is what its instruction     *)
(* says, on the network that instruction names.                            *)
(*                                                                         *)
(* WitnessScript: the address of a tagged or untagged deposit is spent by  *)
(* the keys it was built from and by nobody else.                          *)
(*                                                                         *)
(* MerkleProof: the loop accepts the transactions of a block, by Bitcoin's *)
(* own proofs, and nothing else.                                           *)
(*                                                                         *)
(* StateCodec: what a call saves is what the next one loads, for bytes and *)
(* numbers of any width.                                                   *)
(***************************************************************************)
EXTENDS Parts, LoopLemmas, SequenceTheorems

----------------------------------------------------------------------------
\* Registration.

\* What a field can do to a key: a registered key of mainnet stays.
LEMMA RegisteredStays ==
    ASSUME NEW existing, NEW field
    PROVE  ~IsTestnet /\ existing # Nothing
               => Registered(existing, field) = existing
    BY DEF Registered

\* A key that decodes, or an empty field, leaves a key or nothing.
LEMMA RegisteredKey ==
    ASSUME NEW existing \in Keys, NEW field \in Fields, Decodes(field)
    PROVE  Registered(existing, field) \in Keys
    BY DEF Registered, Decodes, Keys

\* The variables have their types: registered keys are compressed keys, in
\* every network mode and whatever fields are passed.
THEOREM RegistrationType == Spec => []TypeOK
<1>1. Init => TypeOK
    BY DEF Init, TypeOK, Keys
<1>2. TypeOK /\ [Next]_vars => TypeOK'
    <2> SUFFICES ASSUME TypeOK, [Next]_vars PROVE TypeOK'
        OBVIOUS
    <2> USE DEF TypeOK
    <2>1. ASSUME NEW sender \in Accounts, NEW p \in Fields, NEW b \in Fields,
                 RegisterPublicKey(sender, p, b)
          PROVE  TypeOK'
        <3>1. primary' \in Keys /\ backup' \in Keys
            BY <2>1, RegisteredKey DEF RegisterPublicKey
        <3> QED BY <2>1, <3>1 DEF RegisterPublicKey
    <2>2. ASSUME NEW sender \in Accounts, NEW r \in Routers \cup {Nothing},
                 RegisterRouter(sender, r)
          PROVE  TypeOK'
        BY <2>2 DEF RegisterRouter, Registered
    <2>3. ASSUME NEW sender \in Accounts, CreateKeyPair(sender) PROVE TypeOK'
        BY <2>3, Zenon DEF CreateKeyPair
    <2>4. ASSUME NEW o \in Outpoints, NEW swap \in BOOLEAN, Track(o, swap)
          PROVE  TypeOK'
        <3>1. LoadPublicKeys => <<primary, backup>> \in CompressedKeys \X CompressedKeys
            BY DEF LoadPublicKeys, Keys
        <3> QED BY <2>4, <3>1 DEF Track
    <2>5. ASSUME NEW o \in Outpoints, Spend(o)
          PROVE  TypeOK'
        BY <2>5 DEF Spend
    <2>6. CASE UNCHANGED vars
        BY <2>6 DEF vars
    <2> QED BY <2>1, <2>2, <2>3, <2>4, <2>5, <2>6 DEF Next
<1> QED BY <1>1, <1>2, PTL DEF Spec

\* No step replaces or removes what is registered on mainnet.
LEMMA StepPermanent ==
    ASSUME [Next]_vars, ~IsTestnet
    PROVE  /\ primary # Nothing => primary' = primary
           /\ backup # Nothing => backup' = backup
           /\ routerId # Nothing => routerId' = routerId
<1>1. ASSUME NEW sender \in Accounts, NEW p \in Fields, NEW b \in Fields,
             RegisterPublicKey(sender, p, b)
      PROVE  /\ primary # Nothing => primary' = primary
             /\ backup # Nothing => backup' = backup
             /\ routerId # Nothing => routerId' = routerId
    BY <1>1, RegisteredStays DEF RegisterPublicKey
<1>2. ASSUME NEW sender \in Accounts, NEW r \in Routers \cup {Nothing},
             RegisterRouter(sender, r)
      PROVE  /\ primary # Nothing => primary' = primary
             /\ backup # Nothing => backup' = backup
             /\ routerId # Nothing => routerId' = routerId
    BY <1>2, RegisteredStays DEF RegisterRouter
<1>3. CASE \/ \E sender \in Accounts : CreateKeyPair(sender)
           \/ \E o \in Outpoints, swap \in BOOLEAN : Track(o, swap)
           \/ \E o \in Outpoints : Spend(o)
           \/ UNCHANGED vars
    BY <1>3 DEF CreateKeyPair, Track, Spend, vars
<1> QED BY <1>1, <1>2, <1>3 DEF Next

\* On mainnet a registered key or router is permanent.
THEOREM KeysPermanent == Spec => RegistrationPermanent
<1>1. [Next]_vars =>
          [~IsTestnet =>
              /\ primary # Nothing => primary' = primary
              /\ backup # Nothing => backup' = backup
              /\ routerId # Nothing => routerId' = routerId]_vars
    BY StepPermanent
<1> QED BY <1>1, PTL DEF Spec, RegistrationPermanent

\* The invariant behind OutputsStaySpendable: outputs are only derived from
\* keys that are both there, which then are permanent.
Derived ==
    ~IsTestnet =>
        \A o \in Outpoints : outputs[o] # Nothing =>
            outputs[o] = <<primary, backup>> /\ LoadPublicKeys

\* On mainnet tracked outputs stay spendable with the keys registered.
THEOREM OutputsSpendable == Spec => []OutputsStaySpendable
<1>1. Init => Derived
    BY DEF Init, Derived
<1>2. TypeOK /\ Derived /\ [Next]_vars => Derived'
    <2>0. [Next]_vars => networkMode' = networkMode
        BY DEF Next, vars, RegisterPublicKey, RegisterRouter, CreateKeyPair, Track, Spend
    <2> SUFFICES ASSUME TypeOK, Derived, [Next]_vars, ~IsTestnet,
                        NEW o \in Outpoints, outputs'[o] # Nothing
                 PROVE  outputs'[o] = <<primary', backup'>> /\ LoadPublicKeys'
        BY <2>0 DEF Derived, IsTestnet
    <2>1. CASE outputs'[o] = outputs[o]
        BY <2>1, StepPermanent DEF Derived, LoadPublicKeys
    <2>2. CASE outputs'[o] # outputs[o]
        <3>1. PICK p \in Outpoints, swap \in BOOLEAN : Track(p, swap) \/ Spend(p)
            BY <2>2 DEF Next, vars, RegisterPublicKey, RegisterRouter, CreateKeyPair
        <3>2. CASE Track(p, swap)
            BY <2>2, <3>2 DEF Track, LoadPublicKeys, TypeOK
        <3>3. CASE Spend(p)
            BY <2>2, <3>3 DEF Spend, TypeOK
        <3> QED BY <3>1, <3>2, <3>3
    <2> QED BY <2>1, <2>2
<1>3. Derived => OutputsStaySpendable
    BY DEF Derived, OutputsStaySpendable
<1> QED BY <1>1, <1>2, <1>3, RegistrationType, PTL DEF Spec

----------------------------------------------------------------------------
\* Intents.

\* A set of numbers up to n that is not empty has a largest element.
LEMMA LargestExists ==
    ASSUME NEW n \in Nat, NEW T \in SUBSET (1..n), T # {}
    PROVE  \E x \in T : \A y \in T : x >= y
<1> DEFINE R == {n - x : x \in T}
<1>1. R \in SUBSET Nat /\ R # {}
  <2>1. \A x \in T : x \in 1..n /\ n - x \in Nat
    OBVIOUS
  <2>2. QED
    BY <2>1
<1>2. PICK r \in R : \A y \in R : r <= y
  <2> HIDE DEF R
  <2> QED
    BY <1>1, SmallestExists
<1>3. PICK x \in T : r = n - x
  BY <1>2
<1>4. \A y \in T : n - x <= n - y
  BY <1>2, <1>3
<1>5. QED
  BY <1>3, <1>4

\* The limits that count are those of intents for the bridge.
LEMMA LimitAllows ==
    ASSUME NEW intents \in Seq(Intents!Intent), NEW amount \in Nat \ {0}
    PROVE  /\ Intents!SenderLimit(intents) \in Int
           /\ Intents!CallerLimit(intents) \in Int
           /\ Intents!SenderLimit(intents) >= amount
                  => Intents!FirstAllows(intents, amount)
           /\ Intents!CallerLimit(intents) >= amount
                  => Intents!LastAllows(intents, amount)
<1> DEFINE F == Intents!ForBridge(intents)
<1>1. /\ F \in SUBSET (1..Len(intents)) /\ Len(intents) \in Nat
      /\ \A i \in F : intents[i].for = Bridge /\ intents[i].value \in Int /\ i \in DOMAIN intents
      /\ \A i \in DOMAIN intents : intents[i].for = Bridge => i \in F
  <2>1. DOMAIN intents = 1..Len(intents) /\ Len(intents) \in Nat
    OBVIOUS
  <2>2. \A i \in 1..Len(intents) : intents[i] \in Intents!Intent
    BY <2>1
  <2>3. \A x \in Intents!Intent : x.value \in Int
    BY DEF Intents!Intent
  <2>4. QED
    BY <2>1, <2>2, <2>3 DEF Intents!ForBridge
<1> HIDE DEF F
<1>2. CASE F = {}
  <2>1. Intents!SenderLimit(intents) = 0 /\ Intents!CallerLimit(intents) = 0
    BY <1>2 DEF F, Intents!SenderLimit, Intents!CallerLimit
  <2>2. QED
    BY <2>1
<1>3. CASE F # {}
  <2> DEFINE first == CHOOSE i \in F : \A j \in F : i <= j
             final == CHOOSE i \in F : \A j \in F : i >= j
  <2>1. first \in F /\ \A j \in F : first <= j
    <3>1. F \in SUBSET Nat
      BY <1>1
    <3>2. \E i \in F : \A j \in F : i <= j
      BY <1>3, <3>1, SmallestExists
    <3>3. QED
      BY <3>2
  <2>2. final \in F /\ \A j \in F : final >= j
    <3>1. \E i \in F : \A j \in F : i >= j
      BY <1>1, <1>3, LargestExists
    <3>2. QED
      BY <3>1
  <2>3. /\ Intents!SenderLimit(intents) = intents[first].value
        /\ Intents!CallerLimit(intents) = intents[final].value
    BY <1>3 DEF F, Intents!SenderLimit, Intents!CallerLimit
  <2> HIDE DEF first, final
  <2>4. Intents!SenderLimit(intents) >= amount => Intents!FirstAllows(intents, amount)
    BY <1>1, <2>1, <2>3 DEF Intents!FirstAllows
  <2>5. \A j \in F : j <= final
    BY <1>1, <2>2
  <2>6. Intents!CallerLimit(intents) >= amount => Intents!LastAllows(intents, amount)
    BY <1>1, <2>2, <2>3, <2>5 DEF Intents!LastAllows
  <2>7. QED
    BY <1>1, <2>1, <2>2, <2>3, <2>4, <2>6
<1>4. QED
  BY <1>2, <1>3

\* What a draw from an account presupposes and writes.
Drawn(account, caller, intents, amount) ==
    /\ amount <= balances[account]
    /\ IF account = tx.sender
       THEN Intents!FirstAllows(tx.intents, amount)
       ELSE account = caller /\ Intents!LastAllows(intents, amount)
    /\ ephemeral' \in [{"l", "a"} \X Intents!Accounts -> Nat]

LEMMA DeductDraws ==
    ASSUME Intents!TypeOK, tx # NoTx,
           NEW account \in Intents!Accounts, NEW caller,
           NEW intents \in Seq(Intents!Intent), NEW amount \in Nat \ {0},
           Intents!Deduct(account, caller, intents, amount)
    PROVE  Drawn(account, caller, intents, amount)
<1>1. /\ ephemeral \in [{"l", "a"} \X Intents!Accounts -> Nat]
      /\ tx.intents \in Seq(Intents!Intent)
  BY DEF Intents!TypeOK
<1>2. /\ balances[account] >= amount
      /\ balances[account] \in Int
  BY DEF Intents!Deduct, Intents!TypeOK
<1>3. Intents!Expenditure(account) \in Nat
  BY <1>1 DEF Intents!Expenditure
<1>4. CASE account = tx.sender
  <2>1. /\ Intents!SenderLimit(tx.intents) - Intents!Expenditure(account) >= amount
        /\ ephemeral' = [ephemeral EXCEPT ![<<"a", account>>] =
                                              Intents!Expenditure(account) + amount]
    BY <1>4 DEF Intents!Deduct
  <2>2. Intents!SenderLimit(tx.intents) \in Int
    BY <1>1, LimitAllows
  <2>3. Intents!SenderLimit(tx.intents) >= amount
    BY <1>3, <2>1, <2>2
  <2>4. Intents!FirstAllows(tx.intents, amount)
    BY <1>1, <2>3, LimitAllows
  <2>5. ephemeral' \in [{"l", "a"} \X Intents!Accounts -> Nat]
    BY <1>1, <1>3, <2>1
  <2>6. QED
    BY <1>2, <1>4, <2>4, <2>5 DEF Drawn
<1>5. CASE account # tx.sender
  <2>1. account = caller /\ Intents!CallerLimit(intents) >= amount /\ ephemeral' = ephemeral
    BY <1>5 DEF Intents!Deduct
  <2>2. Intents!LastAllows(intents, amount)
    BY <2>1, LimitAllows
  <2>3. QED
    BY <1>1, <1>2, <1>5, <2>1, <2>2 DEF Drawn
<1>6. QED
  BY <1>4, <1>5

\* A call comes from an account, and is recorded.
LEMMA CalledBy ==
    ASSUME Intents!TypeOK, NEW caller, NEW intents \in Seq(Intents!Intent),
           caller \in Users \cup Contracts, MaxCalls \in Nat,
           Intents!Called(caller, intents)
    PROVE  /\ tx # NoTx /\ tx.active /\ tx.sender \in Intents!Accounts
           /\ calls' \in 0..MaxCalls
           /\ call' = [caller |-> caller, intents |-> intents]
           /\ call' \in [caller : Intents!Accounts \cup {Unnamed},
                         intents : Seq(Intents!Intent)]
  BY DEF Intents!TypeOK, Intents!Called, Intents!Accounts

\* A transfer takes the amount from an account that pays and adds it to one
\* that may be the same.
Paid(payer, to, amount) ==
    /\ payer \in Intents!Accounts /\ to \in Intents!Accounts
    /\ balances[to] + amount <= MaxInt64 \/ to = payer
    /\ balances' = IF to = payer THEN balances
                   ELSE [balances EXCEPT ![payer] = @ - amount, ![to] = @ + amount]

LEMMA TransferDraws ==
    ASSUME Intents!TypeOK, Intents!IntentSpendingAssumption,
           NEW caller \in Users \cup Contracts, NEW intents \in IntentLists,
           NEW from \in Intents!Accounts \cup {Unnamed},
           NEW to \in Intents!Accounts, NEW amount \in Amounts,
           Intents!Transfer(caller, intents, from, to, amount)
    PROVE  \E payer \in Intents!Accounts :
              /\ Drawn(payer, caller, intents, amount)
              /\ Paid(payer, to, amount)
<1> DEFINE payer == Intents!Payer(from, caller)
<1>1. /\ intents \in Seq(Intents!Intent) /\ amount \in Nat \ {0}
      /\ MaxCalls \in Nat /\ MaxInt64 \in Nat
  BY DEF Intents!IntentSpendingAssumption
<1>2. payer \in Intents!Accounts /\ tx # NoTx
  BY <1>1, CalledBy DEF Intents!Transfer, Intents!Payer, Intents!Accounts
<1>3. Intents!Deduct(payer, caller, intents, amount) /\ Intents!Moved(payer, to, amount)
  BY DEF Intents!Transfer
<1> HIDE DEF payer
<1>4. Drawn(payer, caller, intents, amount)
  BY <1>1, <1>2, <1>3, DeductDraws
<1>5. balances \in [Intents!Accounts -> 0..MaxInt64]
  BY DEF Intents!TypeOK
<1>6. Paid(payer, to, amount)
  <2>1. balances[payer] \in Int /\ balances[to] \in Int
    BY <1>2, <1>5
  <2>2. CASE to = payer
    <3>1. [balances EXCEPT ![payer] = @ - amount] [to] = balances[to] - amount
      BY <1>2, <1>5, <2>2
    <3>2. balances' = [balances EXCEPT ![payer] = balances[payer] - amount + amount]
      BY <1>2, <1>3, <1>5, <2>2, <3>1 DEF Intents!Moved
    <3>3. balances[payer] - amount + amount = balances[payer]
      BY <1>1, <2>1
    <3>4. balances' = balances
      BY <1>2, <1>5, <3>2, <3>3
    <3>5. QED
      BY <1>2, <2>2, <3>4 DEF Paid
  <2>3. CASE to # payer
    <3>1. [balances EXCEPT ![payer] = @ - amount] [to] = balances[to]
      BY <1>5, <2>3
    <3>2. QED
      BY <1>2, <1>3, <1>5, <2>3, <3>1 DEF Intents!Moved, Paid
  <2>4. QED
    BY <2>2, <2>3
<1>7. QED
  BY <1>2, <1>4, <1>6

\* unmap draws from the sender.
LEMMA UnmapDraws ==
    ASSUME Intents!TypeOK, Intents!IntentSpendingAssumption,
           NEW caller \in Users \cup Contracts, NEW intents \in IntentLists,
           NEW amount \in Amounts, Intents!Unmap(caller, intents, amount)
    PROVE  /\ tx.sender \in Intents!Accounts
           /\ Drawn(tx.sender, caller, intents, amount)
           /\ balances' = [balances EXCEPT ![tx.sender] = @ - amount]
           /\ withdrawn' = withdrawn + amount
<1>1. intents \in Seq(Intents!Intent) /\ amount \in Nat \ {0} /\ MaxCalls \in Nat
  BY DEF Intents!IntentSpendingAssumption
<1>2. tx.sender \in Intents!Accounts /\ tx # NoTx
  BY <1>1, CalledBy DEF Intents!Unmap
<1>3. Drawn(tx.sender, caller, intents, amount)
  BY <1>1, <1>2, DeductDraws DEF Intents!Unmap
<1>4. QED
  BY <1>2, <1>3 DEF Intents!Unmap

\* The variables have their types: no balance is negative or leaves its width.
LEMMA IntentsType ==
    ASSUME Intents!IntentSpendingAssumption
    PROVE  Intents!Spec => []Intents!TypeOK
<1>0. /\ MaxCalls \in Nat /\ MaxInt64 \in Nat /\ Amounts \subseteq Nat \ {0}
      /\ IntentLists \subseteq Seq(Intents!Intent)
      /\ Opening \in [Intents!Accounts -> 0..MaxInt64]
  BY DEF Intents!IntentSpendingAssumption
<1>1. Intents!Init => Intents!TypeOK
  BY <1>0 DEF Intents!Init, Intents!TypeOK, Intents!NoExpenditure, Intents!NoCall
<1>2. Intents!TypeOK /\ [Intents!Next]_Intents!vars => Intents!TypeOK'
  <2> SUFFICES ASSUME Intents!TypeOK, [Intents!Next]_Intents!vars
               PROVE  Intents!TypeOK'
    OBVIOUS
  <2>1. ASSUME NEW sender \in Users, NEW intents \in IntentLists, NEW active \in BOOLEAN,
               Intents!Begin(sender, intents, active)
        PROVE  Intents!TypeOK'
    BY <1>0, <2>1 DEF Intents!Begin, Intents!TypeOK
  <2>2. ASSUME NEW caller \in Users \cup Contracts, NEW intents \in IntentLists,
               NEW from \in Intents!Accounts \cup {Unnamed},
               NEW to \in Intents!Accounts, NEW amount \in Amounts,
               Intents!Transfer(caller, intents, from, to, amount)
        PROVE  Intents!TypeOK'
    <3>1. PICK payer \in Intents!Accounts :
              Drawn(payer, caller, intents, amount) /\ Paid(payer, to, amount)
      BY <2>2, TransferDraws
    <3>2. balances \in [Intents!Accounts -> 0..MaxInt64] /\ amount \in Nat
      BY <1>0 DEF Intents!TypeOK
    <3>3. balances' \in [Intents!Accounts -> 0..MaxInt64]
      BY <1>0, <3>1, <3>2 DEF Drawn, Paid
    <3>4. calls' \in 0..MaxCalls /\ call' \in [caller : Intents!Accounts \cup {Unnamed},
                                               intents : Seq(Intents!Intent)]
      BY <1>0, <2>2, CalledBy DEF Intents!Transfer
    <3>5. QED
      BY <2>2, <3>1, <3>3, <3>4 DEF Intents!Transfer, Drawn, Intents!TypeOK
  <2>3. ASSUME NEW caller \in Users \cup Contracts, NEW intents \in IntentLists,
               NEW amount \in Amounts, Intents!Unmap(caller, intents, amount)
        PROVE  Intents!TypeOK'
    <3>1. /\ tx.sender \in Intents!Accounts
          /\ Drawn(tx.sender, caller, intents, amount)
          /\ balances' = [balances EXCEPT ![tx.sender] = @ - amount]
          /\ withdrawn' = withdrawn + amount
      BY <2>3, UnmapDraws
    <3>2. balances \in [Intents!Accounts -> 0..MaxInt64] /\ withdrawn \in Nat /\ amount \in Nat
      BY <1>0 DEF Intents!TypeOK
    <3>3. balances' \in [Intents!Accounts -> 0..MaxInt64] /\ withdrawn' \in Nat
      BY <1>0, <3>1, <3>2 DEF Drawn
    <3>4. calls' \in 0..MaxCalls /\ call' \in [caller : Intents!Accounts \cup {Unnamed},
                                               intents : Seq(Intents!Intent)]
      BY <1>0, <2>3, CalledBy DEF Intents!Unmap
    <3>5. QED
      BY <2>3, <3>1, <3>3, <3>4 DEF Intents!Unmap, Drawn, Intents!TypeOK
  <2>4. CASE Intents!End
    BY <1>0, <2>4 DEF Intents!End, Intents!TypeOK, Intents!NoExpenditure, Intents!NoCall
  <2>5. CASE UNCHANGED Intents!vars
    BY <2>5 DEF Intents!vars, Intents!TypeOK
  <2>6. QED
    BY <2>1, <2>2, <2>3, <2>4, <2>5 DEF Intents!Next
<1>3. QED
  BY <1>1, <1>2, PTL DEF Intents!Spec

\* SumFunction as IntentSpending takes it from the community modules.
LEMMA IntentsSum ==
    ASSUME NEW f
    PROVE  Intents!SumFunction(f) = SumFunctionOnSet(f, DOMAIN f)
  BY DEF Intents!SumFunction, Intents!SumFunctionOnSet, Intents!FoldFunctionOnSet,
         Intents!MapThenFoldSet, SumFunctionOnSet, FoldFunctionOnSet, MapThenFoldSet

Taken(b, payer, amount, c) == c = [b EXCEPT ![payer] = @ - amount]
Moved(b, payer, to, amount, c) ==
    to # payer /\ c = [b EXCEPT ![payer] = @ - amount, ![to] = @ + amount]

\* What is taken from an account is missing in the sum, unless it is added to
\* another one.
LEMMA DrawnSum ==
    ASSUME NEW A, NEW b \in [A -> Int], IsFiniteSet(A),
           NEW payer \in A, NEW amount \in Int,
           NEW c, Taken(b, payer, amount, c)
    PROVE  c \in [A -> Int] /\ SumFunctionOnSet(c, A) = SumFunctionOnSet(b, A) - amount
<1>1. /\ SameOn(A \ {payer}, b, c)
      /\ c[payer] = b[payer] - amount /\ c[payer] \in Int /\ b[payer] \in Int
      /\ c \in [A -> Int]
  BY DEF SameOn, Taken
<1>2. Summable(b, A)
  BY DEF Summable
<1>3. SumFunctionOnSet(c, A) = SumFunctionOnSet(b, A) - b[payer] + c[payer]
  BY <1>1, <1>2, SumChanged
<1>4. SumFunctionOnSet(b, A) \in Int
  BY <1>2, SumFacts
<1>5. QED
  BY <1>1, <1>3, <1>4

LEMMA MovedSum ==
    ASSUME NEW A, NEW b \in [A -> Int], IsFiniteSet(A),
           NEW payer \in A, NEW to \in A, NEW amount \in Int,
           NEW c, Moved(b, payer, to, amount, c)
    PROVE  SumFunctionOnSet(c, A) = SumFunctionOnSet(b, A)
<1> DEFINE d == [b EXCEPT ![payer] = @ - amount]
<1>1. Taken(b, payer, amount, d) /\ Taken(d, to, -amount, c)
  <2>1. Taken(b, payer, amount, d)
    BY DEF Taken
  <2>2. d \in [A -> Int] /\ d[to] = b[to] /\ b[to] \in Int
    BY DEF Moved
  <2>3. d[to] - (-amount) = b[to] + amount
    BY <2>2
  <2>4. c = [d EXCEPT ![to] = b[to] + amount]
    BY DEF Moved
  <2> HIDE DEF d
  <2>5. QED
    BY <2>1, <2>3, <2>4 DEF Taken
<1> HIDE DEF d
<1>2. d \in [A -> Int] /\ SumFunctionOnSet(d, A) = SumFunctionOnSet(b, A) - amount
  BY <1>1, DrawnSum
<1>3. SumFunctionOnSet(c, A) = SumFunctionOnSet(d, A) - (-amount)
  <2>1. -amount \in Int
    OBVIOUS
  <2>2. QED
    BY <1>1, <1>2, <2>1, DrawnSum
<1>4. SumFunctionOnSet(b, A) \in Int
  <2>1. Summable(b, A)
    BY DEF Summable
  <2>2. QED
    BY <2>1, SumFacts
<1>5. QED
  BY <1>2, <1>3, <1>4

\* Calls nested in a transaction, among them an account's transfer to itself,
\* neither make nor destroy money, for any number of accounts and calls.
LEMMA IntentsConserve ==
    ASSUME Intents!IntentSpendingAssumption
    PROVE  Intents!Spec => []Intents!Conserved
<1> DEFINE A == Intents!Accounts
           Sum(b) == SumFunctionOnSet(b, A)
<1>0. /\ IsFiniteSet(A) /\ MaxInt64 \in Nat /\ Amounts \subseteq Nat \ {0}
      /\ Opening \in [A -> 0..MaxInt64]
  BY DEF Intents!IntentSpendingAssumption, Intents!IsFiniteSet, IsFiniteSet
<1>1. ASSUME NEW b \in [A -> 0..MaxInt64]
      PROVE  b \in [A -> Int] /\ Intents!SumFunction(b) = Sum(b) /\ Sum(b) \in Int
  <2>1. Summable(b, A) /\ b \in [A -> Int]
    BY <1>0, <1>1 DEF Summable
  <2> HIDE DEF A
  <2>2. Intents!SumFunction(b) = Sum(b)
    BY <1>1, IntentsSum
  <2>3. QED
    BY <2>1, <2>2, SumFacts
<1>2. Intents!Init => Intents!Conserved
  <2>1. Intents!SumFunction(Opening) \in Int
    BY <1>0, <1>1
  <2>2. QED
    BY <2>1 DEF Intents!Init, Intents!Conserved
<1>3. Intents!TypeOK /\ Intents!TypeOK' /\ Intents!Conserved /\ [Intents!Next]_Intents!vars
          => Intents!Conserved'
  <2> SUFFICES ASSUME Intents!TypeOK, Intents!TypeOK', Intents!Conserved,
                      [Intents!Next]_Intents!vars
               PROVE  Intents!Conserved'
    OBVIOUS
  <2>1. /\ balances \in [A -> 0..MaxInt64] /\ balances' \in [A -> 0..MaxInt64]
        /\ withdrawn \in Nat
    BY DEF Intents!TypeOK
  <2>2. /\ balances \in [A -> Int] /\ Sum(balances) \in Int
        /\ Intents!SumFunction(balances) = Sum(balances)
        /\ Intents!SumFunction(balances') = Sum(balances')
    BY <1>1, <2>1
  <2> HIDE DEF A, Sum
  <2>3. ASSUME NEW loss \in Int, withdrawn' = withdrawn + loss,
               Sum(balances') = Sum(balances) - loss
        PROVE  Intents!Conserved'
    BY <2>1, <2>2, <2>3 DEF Intents!Conserved
  <2>4. ASSUME NEW caller \in Users \cup Contracts, NEW intents \in IntentLists,
               NEW from \in Intents!Accounts \cup {Unnamed},
               NEW to \in Intents!Accounts, NEW amount \in Amounts,
               Intents!Transfer(caller, intents, from, to, amount)
        PROVE  Intents!Conserved'
    <3>1. PICK payer \in Intents!Accounts : Paid(payer, to, amount)
      BY <2>4, TransferDraws
    <3>2. payer \in A /\ to \in A /\ amount \in Int
      BY <1>0 DEF A
    <3>3. Sum(balances') = Sum(balances)
      <4>1. CASE to = payer
        BY <3>1, <4>1 DEF Paid
      <4>2. CASE to # payer
        <5>1. Moved(balances, payer, to, amount, balances')
          BY <3>1, <4>2 DEF Paid, Moved
        <5>2. QED
          BY <1>0, <2>2, <3>2, <5>1, MovedSum DEF Sum
      <4>3. QED
        BY <4>1, <4>2
    <3>4. withdrawn' = withdrawn
      BY <2>4 DEF Intents!Transfer
    <3>5. QED
      BY <2>1, <2>2, <2>3, <3>3, <3>4
  <2>5. ASSUME NEW caller \in Users \cup Contracts, NEW intents \in IntentLists,
               NEW amount \in Amounts, Intents!Unmap(caller, intents, amount)
        PROVE  Intents!Conserved'
    <3>1. /\ tx.sender \in A /\ amount \in Int
          /\ Taken(balances, tx.sender, amount, balances')
          /\ withdrawn' = withdrawn + amount
      BY <1>0, <2>5, UnmapDraws DEF A, Taken
    <3>2. Sum(balances') = Sum(balances) - amount
      BY <1>0, <2>2, <3>1, DrawnSum DEF Sum
    <3>3. QED
      BY <2>3, <3>1, <3>2
  <2>6. CASE UNCHANGED <<balances, withdrawn>>
    BY <2>6 DEF Intents!Conserved
  <2>7. QED
    BY <2>4, <2>5, <2>6 DEF Intents!Next, Intents!vars, Intents!Begin, Intents!End
<1>4. QED
  BY <1>2, <1>3, IntentsType, PTL DEF Intents!Spec

\* What a call takes from an account is covered by the intent that counts: the
\* sender's first with the transaction, or another caller's last with the call.
LEMMA IntentsCover ==
    ASSUME Intents!IntentSpendingAssumption, Intents!TypeOK,
           [Intents!Next]_Intents!vars
    PROVE  [Intents!LossCovered]_Intents!vars
<1>0. Amounts \subseteq Nat \ {0} /\ MaxCalls \in Nat
      /\ IntentLists \subseteq Seq(Intents!Intent)
  BY DEF Intents!IntentSpendingAssumption
<1>1. Intents!TypeOK /\ [Intents!Next]_Intents!vars => [Intents!LossCovered]_Intents!vars
  <2> SUFFICES ASSUME Intents!TypeOK, Intents!Next, NEW a \in Intents!Accounts,
                      balances'[a] < balances[a]
               PROVE  /\ tx.active
                      /\ IF a = tx.sender
                         THEN Intents!FirstAllows(tx.intents, balances[a] - balances'[a])
                         ELSE /\ a = call'.caller
                              /\ Intents!LastAllows(call'.intents, balances[a] - balances'[a])
    BY DEF Intents!LossCovered
  <2>1. balances \in [Intents!Accounts -> 0..MaxInt64] /\ balances[a] \in Int
    BY DEF Intents!TypeOK
  <2>2. ASSUME NEW caller \in Users \cup Contracts, NEW intents \in IntentLists,
               NEW amount \in Amounts, Intents!Called(caller, intents),
               Drawn(a, caller, intents, amount), balances[a] - balances'[a] = amount
        PROVE  /\ tx.active
               /\ IF a = tx.sender
                  THEN Intents!FirstAllows(tx.intents, balances[a] - balances'[a])
                  ELSE /\ a = call'.caller
                       /\ Intents!LastAllows(call'.intents, balances[a] - balances'[a])
    <3>1. tx.active /\ call'.caller = caller /\ call'.intents = intents
      BY <1>0, <2>2 DEF Intents!Called
    <3>2. QED
      BY <2>2, <3>1 DEF Drawn
  <2>3. ASSUME NEW caller \in Users \cup Contracts, NEW intents \in IntentLists,
               NEW from \in Intents!Accounts \cup {Unnamed},
               NEW to \in Intents!Accounts, NEW amount \in Amounts,
               Intents!Transfer(caller, intents, from, to, amount)
        PROVE  \E who \in Users \cup Contracts, given \in IntentLists, drawn \in Amounts :
                  /\ Intents!Called(who, given)
                  /\ Drawn(a, who, given, drawn) /\ balances[a] - balances'[a] = drawn
    <3>1. PICK payer \in Intents!Accounts :
              Drawn(payer, caller, intents, amount) /\ Paid(payer, to, amount)
      BY <2>3, TransferDraws
    <3>2. amount \in Nat
      BY <1>0
    <3>3. a = payer /\ to # payer
      BY <2>1, <3>1, <3>2 DEF Paid
    <3>4. balances[a] - balances'[a] = amount
      BY <2>1, <3>1, <3>2, <3>3 DEF Paid
    <3>5. QED
      BY <2>3, <3>1, <3>3, <3>4 DEF Intents!Transfer
  <2>4. ASSUME NEW caller \in Users \cup Contracts, NEW intents \in IntentLists,
               NEW amount \in Amounts, Intents!Unmap(caller, intents, amount)
        PROVE  \E who \in Users \cup Contracts, given \in IntentLists, drawn \in Amounts :
                  /\ Intents!Called(who, given)
                  /\ Drawn(a, who, given, drawn) /\ balances[a] - balances'[a] = drawn
    <3>1. /\ tx.sender \in Intents!Accounts
          /\ Drawn(tx.sender, caller, intents, amount)
          /\ balances' = [balances EXCEPT ![tx.sender] = @ - amount]
      BY <2>4, UnmapDraws
    <3>2. amount \in Nat
      BY <1>0
    <3>3. a = tx.sender /\ balances[a] - balances'[a] = amount
      BY <2>1, <3>1, <3>2
    <3>4. QED
      BY <2>4, <3>1, <3>3 DEF Intents!Unmap
  <2>5. balances' # balances
    BY <2>1
  <2>6. QED
    BY <2>2, <2>3, <2>4, <2>5 DEF Intents!Next, Intents!Begin, Intents!End
<1>2. QED
  BY <1>1

----------------------------------------------------------------------------
\* Instructions.

\* An entry of the registry says what the instruction q of its address says,
\* and its reference is to the parameters of that instruction.
SaysWhat(q, metadata) ==
    IF q.deposit_to # Absent
    THEN /\ metadata.type = "deposit"
         /\ metadata.recipient = q.deposit_to
         /\ q.deposit_to \in Prefixed
    ELSE /\ metadata.type = "swap"
         /\ metadata.recipient = q.swap_to
         /\ q.swap_to \in IF ToLower[q.swap_network_out] = "btc"
                          THEN BtcAddresses ELSE Prefixed

RefersTo(q, metadata, given) ==
    metadata.params \in 1..Len(given) /\ given[metadata.params] = q

\* The invariant behind both properties: each turn has its own parameters.
EntriesTrue ==
    /\ parsed \in Nat /\ Len(cells) = parsed
    /\ instrs \in Seq(Queries \cup {BadQuery})
    /\ cells \in Seq(Queries \cup {BadQuery})
    /\ \A q \in DOMAIN registry : SaysWhat(q, registry[q]) /\ RefersTo(q, registry[q], cells)

\* A validated instruction has the address it names on the network it names.
LEMMA ValidatedLands ==
    ASSUME NEW q
    PROVE  /\ Parsing!ValidateAddress(Parsing!Vsc, q.deposit_to)
                 => q.deposit_to \in Prefixed
           /\ Parsing!ValidateAddress(Parsing!GetNetwork(q.swap_network_out), q.swap_to)
                 => q.swap_to \in IF ToLower[q.swap_network_out] = "btc"
                                  THEN BtcAddresses ELSE Prefixed
  BY DEF Parsing!ValidateAddress, Parsing!GetNetwork, Parsing!Vsc, Parsing!Btc

\* Registering an instruction leaves the entries before it, or the parameters
\* they refer to, as they were.
LEMMA RegisterKeeps ==
    ASSUME EntriesTrue, parsed < Len(instrs),
           NEW q, q = instrs[parsed + 1], NEW type,
           SaysWhat(q, Parsing!Metadata(q, type)),
           Parsing!Register(q, type), parsed' = parsed + 1, instrs' = instrs
    PROVE  EntriesTrue'
<1> DEFINE S == Queries \cup {BadQuery}
<1>1. /\ parsed \in Nat /\ Len(cells) = parsed /\ instrs \in Seq(S) /\ cells \in Seq(S)
      /\ cells' = Append(cells, q)
  BY DEF EntriesTrue, Parsing!Register
<1>2. q \in S
  BY <1>1
<1>3. cells' \in Seq(S) /\ Len(cells') = parsed' /\ parsed' \in Nat
  BY <1>1, <1>2
<1>4. cells'[parsed + 1] = q /\ \A k \in 1..parsed : cells'[k] = cells[k]
  BY <1>1, <1>2
<1>5. Parsing!Metadata(q, type).params = parsed + 1
  BY DEF Parsing!Metadata
<1>6. ASSUME NEW r \in DOMAIN registry'
      PROVE  SaysWhat(r, registry'[r]) /\ RefersTo(r, registry'[r], cells')
  <2>1. /\ r \in DOMAIN registry \cup {q}
        /\ registry'[r] = IF r = q THEN Parsing!Metadata(q, type) ELSE registry[r]
    BY <1>6 DEF Parsing!Register, Parsing!WithEntry
  <2>2. CASE r = q
    <3>1. registry'[r] = Parsing!Metadata(q, type)
      BY <2>1, <2>2
    <3>2. registry'[r].params = parsed + 1 /\ parsed + 1 \in 1..Len(cells')
      BY <1>1, <1>3, <1>5, <3>1
    <3>3. QED
      BY <1>4, <2>2, <3>1, <3>2 DEF RefersTo
  <2>3. CASE r # q
    <3>1. registry'[r] = registry[r] /\ r \in DOMAIN registry
      BY <2>1, <2>3
    <3>2. SaysWhat(r, registry[r]) /\ RefersTo(r, registry[r], cells)
      BY <3>1 DEF EntriesTrue
    <3>3. QED
      BY <1>1, <1>3, <1>4, <3>1, <3>2 DEF RefersTo
  <2>4. QED
    BY <2>2, <2>3
<1>7. QED
  BY <1>1, <1>3, <1>6 DEF EntriesTrue, SaysWhat

\* Every effect comes of an entry, so it does and lands where the instruction
\* of its own address says.
EffectsTrue ==
    /\ Parsing!OutputsFollowTheirInstruction
    /\ Parsing!LandsOnItsNetwork

LEMMA ParsingStarts ==
    ASSUME Parsing!InstructionsAssumption, Parsing!Init
    PROVE  EntriesTrue /\ EffectsTrue
<1>1. instrs \in Seq(Queries \cup {BadQuery})
  <2>1. PICK n \in 0..MaxInstructions : instrs \in [1..n -> Queries \cup {BadQuery}]
    BY DEF Parsing!Init, Parsing!BoundedSeq, Parsing!SeqOf
  <2>2. QED
    BY <2>1
<1>2. QED
  BY <1>1 DEF Parsing!Init, EntriesTrue, EffectsTrue, Parsing!LandsOnItsNetwork,
              Parsing!OutputsFollowTheirInstruction

LEMMA ParsingSteps ==
    ASSUME EntriesTrue, EffectsTrue, [Parsing!Next]_Parsing!vars
    PROVE  EntriesTrue' /\ EffectsTrue'
<1>1. ASSUME effects' = {} PROVE EffectsTrue'
  BY <1>1 DEF EffectsTrue, Parsing!LandsOnItsNetwork,
              Parsing!OutputsFollowTheirInstruction
<1>2. ASSUME effects' = effects PROVE EffectsTrue'
  BY <1>2 DEF EffectsTrue, Parsing!LandsOnItsNetwork,
              Parsing!OutputsFollowTheirInstruction
<1>3. ASSUME UNCHANGED <<instrs, parsed, cells, registry>> PROVE EntriesTrue'
  BY <1>3 DEF EntriesTrue
<1>4. CASE Parsing!Fail
  BY <1>1, <1>3, <1>4 DEF Parsing!Fail
<1>5. CASE Parsing!ParseInstruction /\ ~Parsing!Fail
  <2> DEFINE q == instrs[parsed + 1]
  <2>1. parsed < Len(instrs) /\ parsed' = parsed + 1 /\ instrs' = instrs /\ effects' = effects
    BY <1>5 DEF Parsing!ParseInstruction
  <2>2. CASE \E type : SaysWhat(q, Parsing!Metadata(q, type)) /\ Parsing!Register(q, type)
    BY <1>2, <2>1, <2>2, RegisterKeeps
  <2>3. CASE cells' = Append(cells, q) /\ registry' = registry
    <3>1. /\ parsed \in Nat /\ Len(cells) = parsed
          /\ instrs \in Seq(Queries \cup {BadQuery})
          /\ cells \in Seq(Queries \cup {BadQuery})
      BY DEF EntriesTrue
    <3>2. q \in Queries \cup {BadQuery}
      BY <2>1, <3>1
    <3> HIDE DEF q
    <3>3. /\ cells' \in Seq(Queries \cup {BadQuery}) /\ Len(cells') = parsed + 1
          /\ \A k \in 1..Len(cells) : cells'[k] = cells[k]
      BY <2>3, <3>1, <3>2
    <3>4. \A r \in DOMAIN registry : RefersTo(r, registry[r], cells')
      BY <3>1, <3>3 DEF EntriesTrue, RefersTo
    <3>5. EntriesTrue'
      BY <2>1, <2>3, <3>1, <3>3, <3>4 DEF EntriesTrue, SaysWhat
    <3>6. QED
      BY <1>2, <2>1, <3>5
  <2>4. CASE q.deposit_to # Absent /\ Parsing!Register(q, "deposit")
             /\ Parsing!ValidateAddress(Parsing!Vsc, q.deposit_to)
    <3>1. SaysWhat(q, Parsing!Metadata(q, "deposit"))
      BY <2>4, ValidatedLands DEF SaysWhat, Parsing!Metadata
    <3>2. QED
      BY <2>2, <2>4, <3>1
  <2>5. CASE q.deposit_to = Absent /\ Parsing!Register(q, "swap")
             /\ Parsing!ValidateAddress(Parsing!GetNetwork(q.swap_network_out), q.swap_to)
    <3>1. SaysWhat(q, Parsing!Metadata(q, "swap"))
      BY <2>5, ValidatedLands DEF SaysWhat, Parsing!Metadata
    <3>2. QED
      BY <2>2, <2>5, <3>1
  <2>6. QED
    BY <1>5, <2>3, <2>4, <2>5 DEF Parsing!ParseInstruction
<1>6. CASE Parsing!ProcessUtxo /\ ~Parsing!Fail
  <2>1. PICK q \in DOMAIN registry :
            effects' = effects \cup
                {[address |-> q, type |-> registry[q].type, to |-> registry[q].recipient,
                  asset |-> IF registry[q].type = "swap"
                            THEN cells[registry[q].params].swap_asset_out ELSE Absent]}
    BY <1>6 DEF Parsing!ProcessUtxo
  <2>2. SaysWhat(q, registry[q]) /\ RefersTo(q, registry[q], cells)
    BY DEF EntriesTrue
  <2>3. EntriesTrue'
    BY <1>3, <1>6 DEF Parsing!ProcessUtxo
  <2>4. Parsing!OutputsFollowTheirInstruction'
    BY <2>1, <2>2 DEF EffectsTrue, Parsing!OutputsFollowTheirInstruction, SaysWhat, RefersTo
  <2>5. Parsing!LandsOnItsNetwork'
    BY <2>1, <2>2 DEF EffectsTrue, Parsing!LandsOnItsNetwork, SaysWhat, Parsing!Btc
  <2>6. QED
    BY <2>3, <2>4, <2>5 DEF EffectsTrue
<1>7. CASE UNCHANGED Parsing!vars
  BY <1>2, <1>3, <1>7 DEF Parsing!vars
<1>8. QED
  BY <1>4, <1>5, <1>6, <1>7 DEF Parsing!Next

\* What an output does is what the instruction of its own address says,
\* however many instructions a call brings and in whatever order.
LEMMA ParsingFollows ==
    ASSUME Parsing!InstructionsAssumption
    PROVE  Parsing!Spec => []Parsing!OutputsFollowTheirInstruction
<1>1. EffectsTrue => Parsing!OutputsFollowTheirInstruction
  BY DEF EffectsTrue
<1>2. QED
  BY <1>1, ParsingStarts, ParsingSteps, PTL DEF Parsing!Spec

\* What comes out of a swap goes to an address of the network it names.
LEMMA ParsingLands ==
    ASSUME Parsing!InstructionsAssumption
    PROVE  Parsing!Spec => []Parsing!LandsOnItsNetwork
<1>1. EffectsTrue => Parsing!LandsOnItsNetwork
  BY DEF EffectsTrue
<1>2. QED
  BY <1>1, ParsingStarts, ParsingSteps, PTL DEF Parsing!Spec

----------------------------------------------------------------------------
\* Witness scripts.

\* The elements of two joins of tuples.
LongJoin(s, a, b, c, d, e, f, g, h, k, l, m) ==
    s = <<a>> \o <<b, c, d>> \o <<e>> \o <<f, g, h, k, l>> \o <<m>>
ShortJoin(s, a, b, c, e, f, g, h, k, l, m) ==
    s = <<a>> \o <<b, c>> \o <<e>> \o <<f, g, h, k, l>> \o <<m>>

LEMMA JoinedLong ==
    ASSUME NEW a, NEW b, NEW c, NEW d, NEW e, NEW f, NEW g, NEW h, NEW k, NEW l,
           NEW m, NEW s,
           LongJoin(s, a, b, c, d, e, f, g, h, k, l, m)
    PROVE  /\ Len(s) = 11
           /\ s[1] = a /\ s[2] = b /\ s[3] = c /\ s[4] = d /\ s[5] = e /\ s[6] = f
           /\ s[7] = g /\ s[8] = h /\ s[9] = k /\ s[10] = l /\ s[11] = m
  BY DEF LongJoin

LEMMA JoinedShort ==
    ASSUME NEW a, NEW b, NEW c, NEW e, NEW f, NEW g, NEW h, NEW k, NEW l, NEW m,
           NEW s,
           ShortJoin(s, a, b, c, e, f, g, h, k, l, m)
    PROVE  /\ Len(s) = 10
           /\ s[1] = a /\ s[2] = b /\ s[3] = c /\ s[4] = e /\ s[5] = f
           /\ s[6] = g /\ s[7] = h /\ s[8] = k /\ s[9] = l /\ s[10] = m
  BY DEF ShortJoin

\* The position of ELSE: a tag that is not empty takes an operation more.
ElseAt(t) == IF t = NilTag \/ t # NoBytes THEN 5 ELSE 4

\* The operations of the script of a tag t, by their positions.
Operations(script, e, t) ==
    /\ Len(script) = e + 6
    /\ script[1].op = "IF"
    /\ script[2].op = "PUSH" /\ script[2].data = Primary
    /\ e = 5 => /\ script[3].op = "CHECKSIGVERIFY"
                /\ script[4].op = "PUSH" /\ script[4].data = Witness!Bytes(t)
    /\ e = 4 => script[3].op = "CHECKSIG"
    /\ script[e].op = "ELSE"
    /\ script[e + 1].op = "PUSH" /\ script[e + 1].data = Delay
    /\ script[e + 2].op = "CHECKSEQUENCEVERIFY"
    /\ script[e + 3].op = "DROP"
    /\ script[e + 4].op = "PUSH" /\ script[e + 4].data = Backup
    /\ script[e + 5].op = "CHECKSIG"
    /\ script[e + 6].op = "ENDIF"

LEMMA ScriptOps ==
    ASSUME NEW t
    PROVE  Operations(Witness!Script(t), ElseAt(t), t)
<1> DEFINE script == Witness!Script(t)
           e == ElseAt(t)
<1> DEFINE if == Witness!Op("IF")
           else == Witness!Op("ELSE")
           endif == Witness!Op("ENDIF")
           primary1 == Witness!Push(Primary)
           verify == Witness!Op("CHECKSIGVERIFY")
           bytes == Witness!Push(Witness!Bytes(t))
           check == Witness!Op("CHECKSIG")
           delay == Witness!Push(Delay)
           wait == Witness!Op("CHECKSEQUENCEVERIFY")
           drop == Witness!Op("DROP")
           backup1 == Witness!Push(Backup)
<1>1. /\ if.op = "IF" /\ else.op = "ELSE" /\ endif.op = "ENDIF"
      /\ primary1.op = "PUSH" /\ primary1.data = Primary
      /\ verify.op = "CHECKSIGVERIFY" /\ check.op = "CHECKSIG"
      /\ bytes.op = "PUSH" /\ bytes.data = Witness!Bytes(t)
      /\ delay.op = "PUSH" /\ delay.data = Delay
      /\ wait.op = "CHECKSEQUENCEVERIFY" /\ drop.op = "DROP"
      /\ backup1.op = "PUSH" /\ backup1.data = Backup
  BY DEF Witness!Op, Witness!Push
<1>2. CASE t = NilTag \/ t # NoBytes
  <2>1. LongJoin(script, if, primary1, verify, bytes, else, delay, wait, drop,
                 backup1, check, endif)
    BY <1>2 DEF LongJoin, Witness!Script, Witness!PrimaryPath, Witness!BackupPath
  <2>2. e = 5
    BY <1>2 DEF ElseAt
  <2> HIDE DEF script, e, if, else, endif, primary1, verify, bytes, check, delay, wait, drop, backup1
  <2>3. /\ Len(script) = 11
        /\ script[1] = if /\ script[2] = primary1 /\ script[3] = verify
        /\ script[4] = bytes /\ script[5] = else /\ script[6] = delay
        /\ script[7] = wait /\ script[8] = drop /\ script[9] = backup1
        /\ script[10] = check /\ script[11] = endif
    BY <2>1, JoinedLong
  <2>4. Operations(script, e, t)
    BY <1>1, <2>2, <2>3 DEF Operations
  <2>5. QED
    BY <2>4 DEF script, e
<1>3. CASE ~(t = NilTag \/ t # NoBytes)
  <2>1. ShortJoin(script, if, primary1, check, else, delay, wait, drop,
                  backup1, check, endif)
    BY <1>3 DEF ShortJoin, Witness!Script, Witness!PrimaryPath, Witness!BackupPath
  <2>2. e = 4
    BY <1>3 DEF ElseAt
  <2> HIDE DEF script, e, if, else, endif, primary1, verify, bytes, check, delay, wait, drop, backup1
  <2>3. /\ Len(script) = 10
        /\ script[1] = if /\ script[2] = primary1 /\ script[3] = check
        /\ script[4] = else /\ script[5] = delay
        /\ script[6] = wait /\ script[7] = drop /\ script[8] = backup1
        /\ script[9] = check /\ script[10] = endif
    BY <2>1, JoinedShort
  <2>4. Operations(script, e, t)
    BY <1>1, <2>2, <2>3 DEF Operations
  <2>5. QED
    BY <2>4 DEF script, e
<1>4. QED
  BY <1>2, <1>3

\* Where in the script an operation is run, and what it pushes.
LEMMA RunningAt ==
    ASSUME NEW e, e = ElseAt(tag), pc \in 1..(e + 7), NEW name, Witness!Running(name)
    PROVE  /\ pc <= e + 6 /\ e \in {4, 5} /\ verdict = "none"
           /\ name = "IF" => pc = 1
           /\ name = "ELSE" => pc = e
           /\ name = "ENDIF" => pc = e + 6
           /\ name = "PUSH" =>
                 \/ pc = 2 /\ Witness!Script(tag)[pc].data = Primary
                 \/ /\ e = 5 /\ pc = 4
                    /\ Witness!Script(tag)[pc].data = Witness!Bytes(tag)
                 \/ pc = e + 1 /\ Witness!Script(tag)[pc].data = Delay
                 \/ pc = e + 4 /\ Witness!Script(tag)[pc].data = Backup
           /\ name = "CHECKSIGVERIFY" => e = 5 /\ pc = 3
           /\ name = "CHECKSIG" => pc = e + 5 \/ (e = 4 /\ pc = 3)
           /\ name = "CHECKSEQUENCEVERIFY" => pc = e + 2
           /\ name = "DROP" => pc = e + 3
<1> DEFINE script == Witness!Script(tag)
<1>1. e \in {4, 5}
  BY DEF ElseAt
<1>2. verdict = "none" /\ pc <= Len(script) /\ script[pc].op = name
  BY DEF Witness!Running
<1> HIDE DEF script
<1>3. Operations(script, e, tag)
  BY ScriptOps DEF script
<1>4. pc \in Int /\ 1 <= pc /\ pc <= e + 6
  BY <1>1, <1>2, <1>3 DEF Operations
<1>5. \/ pc = 1 \/ pc = 2 \/ (e = 5 /\ pc = 3) \/ (e = 5 /\ pc = 4) \/ (e = 4 /\ pc = 3)
      \/ pc = e \/ pc = e + 1 \/ pc = e + 2 \/ pc = e + 3 \/ pc = e + 4 \/ pc = e + 5
      \/ pc = e + 6
  BY <1>1, <1>4
<1>6. QED
  BY <1>1, <1>2, <1>3, <1>4, <1>5 DEF Operations, script

\* What can be on the stack, and taking elements off it.
Stackable == Witness!Elements \cup Hashes \cup {Primary, Backup, Delay}

LEMMA Popped ==
    ASSUME NEW s \in Seq(Stackable), NEW k \in 0..Len(s), NEW t, t = SubSeq(s, 1, k)
    PROVE  t \in Seq(Stackable) /\ Len(t) = k /\ \A j \in 1..k : t[j] = s[j]
  OBVIOUS

LEMMA Pushed ==
    ASSUME NEW s \in Seq(Stackable), NEW x \in Stackable, NEW t, t = Append(s, x)
    PROVE  /\ t \in Seq(Stackable) /\ Len(t) = Len(s) + 1 /\ t[Len(s) + 1] = x
           /\ \A j \in 1..Len(s) : t[j] = s[j]
  OBVIOUS

\* Elements that come from the witness, alone or under a key or the delay that
\* the script has pushed, and a stack that only ends the script well if a key
\* has signed.
Given(s) == \A j \in 1..Len(s) : Witness!Gives(s[j])
UnderTop(s, x) ==
    /\ Len(s) >= 1 /\ s[Len(s)] = x
    /\ \A j \in 1..(Len(s) - 1) : Witness!Gives(s[j])
Earned ==
    \/ Witness!Gives(BySignerOf(Primary))
    \/ Witness!Gives(BySignerOf(Backup)) /\ age >= Witness!CsvBlocks
TopEarned(s) == Len(s) >= 1 /\ s[Len(s)] # NoBytes => Earned

\* The stack at each position, in the branch of the primary key, in that of
\* the backup key, and in the one that is passed over.
StackAt(position, taken, s) ==
    LET e == ElseAt(tag) IN
    /\ position = 1 => Len(s) >= 1 /\ Given(s)
    /\ position \in 2..e /\ ~taken => Given(s)
    /\ position = 2 /\ taken => Given(s)
    /\ position = 3 /\ taken => UnderTop(s, Primary)
    /\ e = 5 /\ position = 4 /\ taken => Witness!Gives(BySignerOf(Primary))
    /\ position = e /\ taken => TopEarned(s)
    /\ position \in (e + 1)..(e + 6) /\ ~taken => TopEarned(s)
    /\ position = e + 1 /\ taken => Given(s)
    /\ position \in (e + 2)..(e + 3) /\ taken => UnderTop(s, Delay)
    /\ position \in (e + 3)..(e + 5) /\ taken => age >= Witness!CsvBlocks
    /\ position = e + 4 /\ taken => Given(s)
    /\ position = e + 5 /\ taken => UnderTop(s, Backup)
    /\ position = e + 6 /\ taken => TopEarned(s)
    /\ position = e + 7 => TopEarned(s)

\* The invariant behind OnlyKeysSpend.
OnlyEarned ==
    /\ tag \in Witness!Tags /\ age \in Nat
    /\ pc \in 1..(ElseAt(tag) + 7)
    /\ stack \in Seq(Stackable)
    /\ pc \in 2..(ElseAt(tag) + 6) => branch \in {"taken", "skipped"}
    /\ StackAt(pc, branch = "taken", stack)
    /\ verdict = "valid" => Earned

LEMMA EarnedStays ==
    ASSUME UNCHANGED <<tag, witness, age>>, tag \in Witness!Tags, age \in Nat,
           pc' \in 1..(ElseAt(tag) + 7), stack' \in Seq(Stackable),
           pc' \in 2..(ElseAt(tag) + 6) => branch' \in {"taken", "skipped"},
           StackAt(pc', branch' = "taken", stack'), verdict' = "valid" => Earned
    PROVE  OnlyEarned'
  BY DEF OnlyEarned, StackAt, Given, UnderTop, TopEarned, Earned, Witness!Gives

\* An operation that goes on, to a stack as it may be at the next position.
LEMMA EarnedAdvances ==
    ASSUME OnlyEarned, Witness!Advance, pc <= ElseAt(tag) + 6,
           stack' \in Seq(Stackable),
           pc + 1 \in 2..(ElseAt(tag) + 6) => branch' \in {"taken", "skipped"},
           StackAt(pc + 1, branch' = "taken", stack')
    PROVE  OnlyEarned'
<1>1. ElseAt(tag) \in {4, 5}
  BY DEF ElseAt
<1>2. pc \in 1..(ElseAt(tag) + 7) /\ (verdict = "valid" => Earned) /\ tag \in Witness!Tags
      /\ age \in Nat
  BY DEF OnlyEarned
<1>3. /\ UNCHANGED <<tag, witness, age>> /\ verdict' = verdict /\ pc' = pc + 1
      /\ pc' \in 1..(ElseAt(tag) + 7)
  BY <1>1, <1>2 DEF Witness!Advance
<1>4. QED
  BY <1>2, <1>3, EarnedStays

LEMMA EarnedFails ==
    ASSUME OnlyEarned, Witness!Fail
    PROVE  OnlyEarned'
  BY EarnedStays DEF OnlyEarned, Witness!Fail

\* A step of the script leaves a stack as it may be where it leads to.
LEMMA EarnedSteps ==
    ASSUME OnlyEarned, [Witness!Next]_Witness!vars
    PROVE  OnlyEarned'
<1> DEFINE e == ElseAt(tag)
           K == Len(stack)
<1>1. e \in {4, 5}
  BY DEF ElseAt
<1>2. /\ tag \in Witness!Tags /\ age \in Nat /\ pc \in 1..(e + 7) /\ stack \in Seq(Stackable)
      /\ StackAt(pc, branch = "taken", stack)
      /\ pc \in 2..(e + 6) => branch \in {"taken", "skipped"}
      /\ verdict = "valid" => Earned
  BY DEF OnlyEarned
<1>3. K \in Nat /\ \A j \in 1..K : stack[j] \in Stackable
  BY <1>2
<1>4. CASE Witness!Fail
  BY <1>4, EarnedFails
<1>5. CASE Witness!If
  <2>1. pc = 1 /\ Witness!Advance /\ branch' \in {"taken", "skipped"}
        /\ stack' = SubSeq(stack, 1, Len(stack) - 1)
    BY <1>2, <1>5, RunningAt DEF Witness!If, Witness!Pop
  <2>2. Len(stack) >= 1 /\ Given(stack)
    BY <1>1, <1>2, <2>1 DEF StackAt
  <2>3. stack' \in Seq(Stackable) /\ Given(stack')
    BY <1>2, <1>3, <2>1, <2>2, Popped DEF Given
  <2>4. StackAt(pc + 1, branch' = "taken", stack')
    BY <1>1, <2>1, <2>3 DEF StackAt
  <2>5. QED
    BY <1>1, <2>1, <2>3, <2>4, EarnedAdvances
<1>6. CASE Witness!Else
  <2>1. /\ pc = e /\ Witness!Advance /\ stack' = stack
        /\ branch' = IF branch = "taken" THEN "skipped" ELSE "taken"
    BY <1>2, <1>6, RunningAt DEF Witness!Else
  <2>2. StackAt(pc + 1, branch' = "taken", stack')
    BY <1>1, <1>2, <2>1 DEF StackAt
  <2>3. QED
    BY <1>1, <1>2, <2>1, <2>2, EarnedAdvances
<1>7. CASE Witness!EndIf
  <2>1. pc = e + 6 /\ Witness!Advance /\ stack' = stack /\ branch' = "none"
    BY <1>2, <1>7, RunningAt DEF Witness!EndIf
  <2>2. StackAt(pc + 1, branch' = "taken", stack')
    BY <1>1, <1>2, <2>1 DEF StackAt
  <2>3. QED
    BY <1>1, <1>2, <2>1, <2>2, EarnedAdvances
<1>8. CASE Witness!Skip
  <2>1. /\ branch = "skipped" /\ branch' = branch /\ stack' = stack /\ Witness!Advance
        /\ pc \in (2..(e - 1)) \cup ((e + 1)..(e + 5))
    BY <1>1, <1>2, <1>8, RunningAt DEF Witness!Skip
  <2>2. StackAt(pc + 1, branch' = "taken", stack')
    BY <1>1, <1>2, <2>1 DEF StackAt
  <2>3. QED
    BY <1>1, <1>2, <2>1, <2>2, EarnedAdvances
<1>9. CASE Witness!PushData
  <2> DEFINE x == Witness!Script(tag)[pc].data
  <2>1. /\ branch = "taken" /\ branch' = branch /\ Witness!Advance
        /\ stack' = Append(stack, x)
        /\ \/ pc = 2 /\ x = Primary
           \/ e = 5 /\ pc = 4 /\ x = Witness!Bytes(tag)
           \/ pc = e + 1 /\ x = Delay
           \/ pc = e + 4 /\ x = Backup
    BY <1>2, <1>9, RunningAt DEF Witness!PushData
  <2>2. Witness!Bytes(tag) \in Stackable
    BY <1>2 DEF Witness!Bytes, Witness!Tags, Stackable, Witness!Elements
  <2> HIDE DEF x
  <2>3. x \in Stackable
    BY <2>1, <2>2 DEF Stackable
  <2>4. /\ stack' \in Seq(Stackable) /\ Len(stack') = K + 1 /\ stack'[K + 1] = x
        /\ \A j \in 1..K : stack'[j] = stack[j]
    BY <1>2, <2>1, <2>3, Pushed
  <2>5. Given(stack) => UnderTop(stack', x)
    BY <1>3, <2>4 DEF Given, UnderTop
  <2>6. StackAt(pc + 1, branch' = "taken", stack')
    <3>1. CASE pc = 2 /\ x = Primary
      BY <1>1, <1>2, <2>1, <2>5, <3>1 DEF StackAt
    <3>2. CASE e = 5 /\ pc = 4
      <4>1. Earned
        BY <1>2, <2>1, <3>2 DEF StackAt, Earned
      <4>2. QED
        BY <2>1, <3>2, <4>1 DEF StackAt, TopEarned
    <3>3. CASE pc = e + 1 /\ x = Delay
      BY <1>1, <1>2, <2>1, <2>5, <3>3 DEF StackAt
    <3>4. CASE pc = e + 4 /\ x = Backup
      BY <1>1, <1>2, <2>1, <2>5, <3>4 DEF StackAt
    <3>5. QED
      BY <2>1, <3>1, <3>2, <3>3, <3>4
  <2>7. QED
    BY <1>1, <2>1, <2>4, <2>6, EarnedAdvances
<1>10. CASE Witness!Drop
  <2>1. /\ pc = e + 3 /\ branch = "taken" /\ branch' = branch /\ Witness!Advance
        /\ stack' = SubSeq(stack, 1, Len(stack) - 1)
    BY <1>2, <1>10, RunningAt DEF Witness!Drop, Witness!Pop
  <2>2. UnderTop(stack, Delay) /\ age >= Witness!CsvBlocks
    BY <1>1, <1>2, <2>1 DEF StackAt
  <2>3. stack' \in Seq(Stackable) /\ Given(stack')
    BY <1>2, <1>3, <2>1, <2>2, Popped DEF Given, UnderTop
  <2>4. StackAt(pc + 1, branch' = "taken", stack')
    BY <1>1, <2>1, <2>2, <2>3 DEF StackAt
  <2>5. QED
    BY <1>1, <2>1, <2>3, <2>4, EarnedAdvances
<1>11. CASE Witness!CheckSig /\ ~Witness!Fail
  <2> DEFINE signature == stack[K - 1]
             key == stack[K]
             left == K - 2
             rest == SubSeq(stack, 1, left)
  <2>1. /\ branch = "taken" /\ branch' = branch /\ Witness!Advance
        /\ K >= 2 /\ signature \in {BySignerOf(key), NoBytes}
        /\ stack' = Append(rest, Witness!Truth(signature = BySignerOf(key)))
        /\ pc = e + 5 \/ (e = 4 /\ pc = 3)
    BY <1>2, <1>3, <1>11, RunningAt DEF Witness!CheckSig, Witness!Top
  <2>2. \/ UnderTop(stack, Primary) /\ key = Primary
        \/ UnderTop(stack, Backup) /\ key = Backup /\ age >= Witness!CsvBlocks
    BY <1>1, <1>2, <2>1 DEF StackAt, UnderTop
  <2>3. Witness!Gives(signature)
    BY <1>3, <2>1, <2>2 DEF UnderTop
  <2>4. rest \in Seq(Stackable)
    <3>1. left \in 0..Len(stack)
      BY <1>3, <2>1
    <3> HIDE DEF left
    <3>2. QED
      BY <1>2, <3>1, Popped
  <2>5. \A b \in BOOLEAN : /\ Witness!Truth(b) \in Stackable
                           /\ Witness!Truth(b) # NoBytes => b
    BY DEF Witness!Truth, Stackable, Witness!Elements
  <2> DEFINE x == Witness!Truth(signature = BySignerOf(key))
  <2>6. x \in Stackable /\ (x # NoBytes => signature = BySignerOf(key))
    BY <2>5
  <2>7. x # NoBytes => Earned
    BY <2>2, <2>3, <2>6 DEF Earned
  <2>8. stack' = Append(rest, x)
    BY <2>1
  <2> HIDE DEF x, rest
  <2>9. /\ stack' \in Seq(Stackable) /\ Len(stack') = Len(rest) + 1
        /\ stack'[Len(rest) + 1] = x
    BY <2>4, <2>6, <2>8, Pushed
  <2>10. TopEarned(stack')
    BY <2>7, <2>9 DEF TopEarned
  <2>11. StackAt(pc + 1, branch' = "taken", stack')
    BY <1>1, <2>1, <2>10 DEF StackAt
  <2>12. QED
    BY <1>1, <2>1, <2>9, <2>11, EarnedAdvances
<1>12. CASE Witness!CheckSigVerify /\ ~Witness!Fail
  <2>1. /\ branch = "taken" /\ branch' = branch /\ Witness!Advance
        /\ K >= 2 /\ stack[K - 1] = BySignerOf(stack[K])
        /\ stack' = SubSeq(stack, 1, K - 2)
        /\ e = 5 /\ pc = 3
    BY <1>2, <1>3, <1>12, RunningAt DEF Witness!CheckSigVerify, Witness!Top
  <2>2. UnderTop(stack, Primary)
    BY <1>1, <1>2, <2>1 DEF StackAt
  <2>3. Witness!Gives(BySignerOf(Primary))
    BY <1>3, <2>1, <2>2 DEF UnderTop
  <2>4. stack' \in Seq(Stackable)
    BY <1>2, <1>3, <2>1, Popped
  <2>5. StackAt(pc + 1, branch' = "taken", stack')
    BY <1>1, <2>1, <2>3 DEF StackAt
  <2>6. QED
    BY <1>1, <2>1, <2>4, <2>5, EarnedAdvances
<1>13. CASE Witness!CheckSequenceVerify /\ ~Witness!Fail
  <2>1. /\ branch = "taken" /\ branch' = branch /\ Witness!Advance /\ stack' = stack
        /\ ~(age < Witness!CsvBlocks) /\ pc = e + 2
    BY <1>2, <1>13, RunningAt DEF Witness!CheckSequenceVerify
  <2>2. age >= Witness!CsvBlocks
    BY <1>2, <2>1 DEF Witness!CsvBlocks
  <2>3. StackAt(pc + 1, branch' = "taken", stack')
    BY <1>1, <1>2, <2>1, <2>2 DEF StackAt
  <2>4. QED
    BY <1>1, <1>2, <2>1, <2>3, EarnedAdvances
<1>14. CASE Witness!Finish
  <2>1. /\ pc > Len(Witness!Script(tag))
        /\ verdict' = IF Len(stack) = 1 /\ stack[1] # NoBytes THEN "valid" ELSE "invalid"
        /\ UNCHANGED <<tag, witness, age, pc, stack, branch>>
    BY <1>14 DEF Witness!Finish
  <2>2. Len(Witness!Script(tag)) = e + 6
    BY ScriptOps DEF Operations
  <2>3. TopEarned(stack)
    BY <1>1, <1>2, <2>1, <2>2 DEF StackAt
  <2>4. verdict' = "valid" => Earned
    BY <2>1, <2>3 DEF TopEarned
  <2>5. QED
    BY <1>2, <2>1, <2>4, EarnedStays
<1>15. CASE UNCHANGED Witness!vars
  BY <1>2, <1>15, EarnedStays DEF Witness!vars
<1>16. QED
  BY <1>4, <1>5, <1>6, <1>7, <1>8, <1>9, <1>10, <1>11, <1>12, <1>13, <1>14, <1>15
     DEF Witness!Next

LEMMA EarnedStarts ==
    ASSUME Witness!WitnessScriptAssumption, Witness!Init
    PROVE  OnlyEarned
<1>1. PICK n \in 1..MaxWitness : witness \in [1..n -> Witness!Elements]
  BY DEF Witness!Init, Witness!Witnesses
<1>2. /\ stack \in Seq(Stackable) /\ Len(stack) >= 1 /\ stack = witness
      /\ tag \in Witness!Tags /\ age \in Nat /\ pc = 1 /\ verdict = "none"
  BY <1>1 DEF Witness!Init, Stackable, Witness!WitnessScriptAssumption
<1>3. Given(stack)
  BY <1>2 DEF Given, Witness!Gives
<1>4. ElseAt(tag) \in {4, 5}
  BY DEF ElseAt
<1>5. StackAt(pc, branch = "taken", stack)
  BY <1>2, <1>3, <1>4 DEF StackAt
<1>6. QED
  BY <1>2, <1>4, <1>5 DEF OnlyEarned

\* Whatever witness is tried against the script of whatever tag, it takes the
\* signature of the primary key, or that of the backup key and the delay.
LEMMA WitnessAlone ==
    ASSUME Witness!WitnessScriptAssumption
    PROVE  Witness!Spec => []Witness!OnlyKeysSpend
<1>1. OnlyEarned => Witness!OnlyKeysSpend
  BY DEF OnlyEarned, Earned, Witness!OnlyKeysSpend
<1>2. QED
  BY <1>1, EarnedStarts, EarnedSteps, PTL DEF Witness!Spec

\* Stacks of one and of two elements, and how they come of each other.
One1(s, a) == Len(s) = 1 /\ s[1] = a
Two2(s, a, b) == Len(s) = 2 /\ s[1] = a /\ s[2] = b

LEMMA ShortStacks ==
    ASSUME NEW s \in Seq(Stackable), NEW x, NEW a, NEW b
    PROVE  /\ Len(s) = 0 => One1(Append(s, x), x)
           /\ One1(s, a) => Two2(Append(s, x), a, x)
           /\ Two2(s, a, b) => /\ One1(SubSeq(s, 1, 1), a)
                               /\ Len(SubSeq(s, 1, 0)) = 0
                               /\ One1(Append(SubSeq(s, 1, 0), x), x)
<1>1. Len(s) = 0 => One1(Append(s, x), x)
  BY DEF One1
<1>2. ASSUME Len(s) = 1
      PROVE  /\ Len(Append(s, x)) = 2
             /\ Append(s, x)[1] = s[1]
             /\ Append(s, x)[2] = x
  <2> DEFINE S == Stackable \cup {x}
  <2>1. s \in Seq(S) /\ x \in S
    OBVIOUS
  <2>2. /\ Len(Append(s, x)) = Len(s) + 1
        /\ \A k \in 1..Len(s) : Append(s, x)[k] = s[k]
        /\ Append(s, x)[Len(s) + 1] = x
    <3> HIDE DEF S
    <3> QED
      BY <2>1
  <2> QED
    BY <1>2, <2>2
<1>3. ASSUME Len(s) = 2
      PROVE  Len(SubSeq(s, 1, 1)) = 1 /\ SubSeq(s, 1, 1)[1] = s[1]
  BY <1>3
<1>4. Len(SubSeq(s, 1, 0)) = 0 /\ SubSeq(s, 1, 0) \in Seq(Stackable)
  OBVIOUS
<1>5. One1(Append(SubSeq(s, 1, 0), x), x)
  BY <1>4 DEF One1
<1>6. One1(s, a) => Two2(Append(s, x), a, x)
  <2> SUFFICES ASSUME Len(s) = 1, s[1] = a
               PROVE  Two2(Append(s, x), a, x)
    BY DEF One1
  <2> QED
    BY <1>2 DEF Two2
<1>7. Two2(s, a, b) => One1(SubSeq(s, 1, 1), a)
  <2> SUFFICES ASSUME Len(s) = 2, s[1] = a
               PROVE  One1(SubSeq(s, 1, 1), a)
    BY DEF Two2
  <2> QED
    BY <1>3 DEF One1
<1>8. QED
  BY <1>1, <1>4, <1>5, <1>6, <1>7

\* The run of the primary key's witness: no operation fails, and one element
\* that is not empty is left in the end.
PrimarySigned == witness = <<BySignerOf(Primary), One>> /\ tag # NilTag
PrimaryAt(position, br, s) ==
    LET e == ElseAt(tag) IN
    /\ position = 1 => Two2(s, BySignerOf(Primary), One)
    /\ position \in 2..e => br = "taken"
    /\ position = 2 => One1(s, BySignerOf(Primary))
    /\ position = 3 => Two2(s, BySignerOf(Primary), Primary)
    /\ e = 5 /\ position = 4 => Len(s) = 0
    /\ position \in e..(e + 7) => \E x : x # NoBytes /\ One1(s, x)
    /\ position \in (e + 1)..(e + 6) => br = "skipped"

\* The run of the backup key's witness after the delay.
BackupSigned ==
    witness = <<BySignerOf(Backup), NoBytes>> /\ age >= Witness!CsvBlocks
BackupAt(position, br, s) ==
    LET e == ElseAt(tag) IN
    /\ position = 1 => Two2(s, BySignerOf(Backup), NoBytes)
    /\ position \in 2..e => br = "skipped"
    /\ position \in (e + 1)..(e + 6) => br = "taken"
    /\ position \in (2..(e + 1)) \cup {e + 4} => One1(s, BySignerOf(Backup))
    /\ position \in (e + 2)..(e + 3) => Two2(s, BySignerOf(Backup), Delay)
    /\ position = e + 5 => Two2(s, BySignerOf(Backup), Backup)
    /\ position \in (e + 6)..(e + 7) => One1(s, One)

\* A step that goes on and what it does to the stack, by position; only the
\* script of the other key, or a signature that is not there, makes it fail.
StepFrom(e, K) ==
    \/ UNCHANGED <<pc, branch, stack, verdict>>
    \/ /\ UNCHANGED <<pc, branch, stack>> /\ pc = e + 7
       /\ Len(stack) = 1 /\ stack[1] # NoBytes => verdict' = "valid"
    \/ /\ pc = 1 /\ pc' = pc + 1 /\ verdict' = verdict
       /\ branch' = IF stack[K] = NoBytes THEN "skipped" ELSE "taken"
       /\ stack' = SubSeq(stack, 1, K - 1)
    \/ /\ pc = e /\ pc' = pc + 1 /\ verdict' = verdict /\ stack' = stack
       /\ branch' = IF branch = "taken" THEN "skipped" ELSE "taken"
    \/ /\ pc = e + 6 /\ pc' = pc + 1 /\ verdict' = verdict /\ stack' = stack
    \/ /\ branch = "skipped" /\ pc \in (2..(e - 1)) \cup ((e + 1)..(e + 5))
       /\ pc' = pc + 1 /\ verdict' = verdict /\ UNCHANGED <<stack, branch>>
    \/ /\ branch = "taken" /\ branch' = branch /\ pc' = pc + 1 /\ verdict' = verdict
       /\ \/ pc = 2 /\ stack' = Append(stack, Primary)
          \/ e = 5 /\ pc = 4 /\ stack' = Append(stack, Witness!Bytes(tag))
          \/ pc = e + 1 /\ stack' = Append(stack, Delay)
          \/ pc = e + 4 /\ stack' = Append(stack, Backup)
          \/ pc = e + 3 /\ stack' = SubSeq(stack, 1, K - 1)
          \/ e = 5 /\ pc = 3 /\ stack' = SubSeq(stack, 1, K - 2)
          \/ pc = e + 2 /\ stack' = stack
          \/ /\ (e = 4 /\ pc = 3) \/ pc = e + 5
             /\ stack' = Append(SubSeq(stack, 1, K - 2),
                                Witness!Truth(stack[K - 1] = BySignerOf(stack[K])))
    \/ /\ branch = "taken" /\ UNCHANGED <<pc, branch, stack>>
       /\ \/ pc = e + 2 /\ age < Witness!CsvBlocks
          \/ /\ pc = 3 \/ pc = e + 5
             /\ K < 2 \/ stack[K - 1] # BySignerOf(stack[K])

LEMMA StepsFrom ==
    ASSUME OnlyEarned, [Witness!Next]_Witness!vars, Witness!WitnessScriptAssumption
    PROVE  StepFrom(ElseAt(tag), Len(stack))
<1> DEFINE e == ElseAt(tag)
<1>1. pc \in 1..(e + 7) /\ e \in {4, 5}
  BY DEF OnlyEarned, ElseAt
<1> USE DEF StepFrom
<1>2. Len(Witness!Script(tag)) = e + 6
  BY ScriptOps DEF Operations
<1>3. CASE Witness!If
  BY <1>1, <1>3, RunningAt DEF Witness!If, Witness!Advance, Witness!Pop, Witness!Top
<1>4. CASE Witness!Else
  BY <1>1, <1>4, RunningAt DEF Witness!Else, Witness!Advance
<1>5. CASE Witness!EndIf
  BY <1>1, <1>5, RunningAt DEF Witness!EndIf, Witness!Advance
<1>6. CASE Witness!Skip
  BY <1>1, <1>6, RunningAt DEF Witness!Skip, Witness!Advance
<1>7. CASE Witness!PushData
  BY <1>1, <1>7, RunningAt DEF Witness!PushData, Witness!Advance
<1>8. CASE Witness!Drop
  BY <1>1, <1>8, RunningAt DEF Witness!Drop, Witness!Advance, Witness!Pop
<1>9. CASE Witness!CheckSig
  BY <1>1, <1>9, RunningAt DEF Witness!CheckSig, Witness!Advance, Witness!Top, Witness!Fail
<1>10. CASE Witness!CheckSigVerify
  BY <1>1, <1>10, RunningAt
     DEF Witness!CheckSigVerify, Witness!Advance, Witness!Top, Witness!Fail
<1>11. CASE Witness!CheckSequenceVerify
  BY <1>1, <1>11, RunningAt DEF Witness!CheckSequenceVerify, Witness!Advance, Witness!Fail
<1>12. CASE Witness!Finish
  BY <1>1, <1>2, <1>12 DEF Witness!Finish
<1>13. CASE UNCHANGED Witness!vars
  BY <1>13 DEF Witness!vars
<1>14. QED
  BY <1>3, <1>4, <1>5, <1>6, <1>7, <1>8, <1>9, <1>10, <1>11, <1>12, <1>13
     DEF Witness!Next

LEMMA PrimaryGoesOn ==
    ASSUME OnlyEarned, [Witness!Next]_Witness!vars, Witness!WitnessScriptAssumption,
           tag # NilTag, PrimaryAt(pc, branch, stack), verdict # "invalid"
    PROVE  PrimaryAt(pc', branch', stack') /\ verdict' # "invalid"
<1> DEFINE e == ElseAt(tag)
           K == Len(stack)
           still == UNCHANGED <<pc, branch, stack, verdict>>
<1>1. /\ pc \in 1..(e + 7) /\ e \in {4, 5} /\ stack \in Seq(Stackable)
      /\ One # NoBytes /\ K \in Nat
      /\ e = 5 <=> tag # NoBytes
  BY DEF OnlyEarned, ElseAt, Witness!WitnessScriptAssumption
<1>2. Witness!Bytes(tag) = tag /\ Witness!Truth(TRUE) = One
  BY DEF Witness!Bytes, Witness!Truth
<1>3. StepFrom(e, K)
  BY StepsFrom
<1>4. CASE still
  BY <1>4
<1>5. CASE pc = 1 /\ ~still
  <2>1. Two2(stack, BySignerOf(Primary), One)
    BY <1>5 DEF PrimaryAt
  <2>2. pc' = 2 /\ branch' = "taken" /\ verdict' = verdict /\ stack' = SubSeq(stack, 1, 1)
    BY <1>1, <1>3, <1>5, <2>1 DEF StepFrom, Two2
  <2>3. One1(stack', BySignerOf(Primary))
    BY <1>1, <2>1, <2>2, ShortStacks
  <2>4. QED
    BY <1>1, <2>2, <2>3 DEF PrimaryAt
<1>6. CASE pc = 2 /\ ~still
  <2>1. One1(stack, BySignerOf(Primary)) /\ branch = "taken"
    BY <1>1, <1>6 DEF PrimaryAt
  <2>2. pc' = 3 /\ branch' = "taken" /\ verdict' = verdict /\ stack' = Append(stack, Primary)
    BY <1>1, <1>3, <1>6, <2>1 DEF StepFrom
  <2>3. Two2(stack', BySignerOf(Primary), Primary)
    BY <1>1, <2>1, <2>2, ShortStacks
  <2>4. QED
    BY <1>1, <2>2, <2>3 DEF PrimaryAt
<1>7. CASE pc = 3 /\ ~still
  <2>1. Two2(stack, BySignerOf(Primary), Primary) /\ branch = "taken"
    BY <1>1, <1>7 DEF PrimaryAt
  <2>2. K = 2 /\ stack[K] = Primary /\ stack[K - 1] = BySignerOf(stack[K])
    BY <2>1 DEF Two2
  <2> DEFINE x == Witness!Truth(stack[K - 1] = BySignerOf(stack[K]))
  <2>3. /\ pc' = 4 /\ branch' = "taken" /\ verdict' = verdict
        /\ stack' = IF e = 5 THEN SubSeq(stack, 1, 0)
                    ELSE Append(SubSeq(stack, 1, 0), One)
    <3>1. x = One
      BY <2>2 DEF Witness!Truth
    <3> HIDE DEF x
    <3>2. /\ pc' = 4 /\ branch' = "taken" /\ verdict' = verdict
          /\ stack' = IF e = 5 THEN SubSeq(stack, 1, K - 2)
                      ELSE Append(SubSeq(stack, 1, K - 2), x)
      BY <1>1, <1>3, <1>7, <2>1, <2>2 DEF StepFrom, x
    <3>3. QED
      BY <2>2, <3>1, <3>2
  <2>4. IF e = 5 THEN Len(stack') = 0 ELSE One1(stack', One)
    BY <1>1, <2>1, <2>3, ShortStacks
  <2>5. QED
    BY <1>1, <2>3, <2>4 DEF PrimaryAt
<1>8. CASE pc = 4 /\ e = 5 /\ ~still
  <2>1. Len(stack) = 0 /\ branch = "taken"
    BY <1>1, <1>8 DEF PrimaryAt
  <2>2. pc' = 5 /\ branch' = "taken" /\ verdict' = verdict /\ stack' = Append(stack, tag)
    BY <1>1, <1>2, <1>3, <1>8, <2>1 DEF StepFrom
  <2>3. One1(stack', tag)
    BY <1>1, <2>1, <2>2, ShortStacks
  <2>4. QED
    BY <1>1, <1>8, <2>2, <2>3 DEF PrimaryAt
<1>9. CASE pc \in e..(e + 7) /\ ~still
  <2>1. PICK x : x # NoBytes /\ One1(stack, x)
    BY <1>9 DEF PrimaryAt
  <2>2. IF pc = e THEN branch = "taken" ELSE pc \in (e + 1)..(e + 6) => branch = "skipped"
    BY <1>1, <1>9 DEF PrimaryAt
  <2>3. /\ stack' = stack /\ verdict' # "invalid"
        /\ \/ pc' = pc /\ branch' = branch
           \/ pc' = pc + 1 /\ pc \in e..(e + 6)
              /\ (pc' \in (e + 1)..(e + 6) => branch' = "skipped")
    BY <1>1, <1>3, <1>9, <2>1, <2>2 DEF StepFrom, One1
  <2>4. CASE pc' = pc /\ branch' = branch
    BY <2>3, <2>4
  <2>5. CASE pc' = pc + 1 /\ pc \in e..(e + 6)
    BY <1>1, <2>1, <2>3, <2>5 DEF PrimaryAt
  <2>6. QED
    BY <2>3, <2>4, <2>5
<1>10. QED
  BY <1>1, <1>4, <1>5, <1>6, <1>7, <1>8, <1>9

LEMMA BackupGoesOn ==
    ASSUME OnlyEarned, [Witness!Next]_Witness!vars, Witness!WitnessScriptAssumption,
           age >= Witness!CsvBlocks, BackupAt(pc, branch, stack), verdict # "invalid"
    PROVE  BackupAt(pc', branch', stack') /\ verdict' # "invalid"
<1> DEFINE e == ElseAt(tag)
           K == Len(stack)
           signed == BySignerOf(Backup)
           still == UNCHANGED <<pc, branch, stack, verdict>>
<1>1. /\ pc \in 1..(e + 7) /\ e \in {4, 5} /\ stack \in Seq(Stackable)
      /\ One # NoBytes /\ K \in Nat /\ ~(age < Witness!CsvBlocks)
  BY DEF OnlyEarned, ElseAt, Witness!WitnessScriptAssumption, Witness!CsvBlocks
<1>2. Witness!Truth(TRUE) = One
  BY DEF Witness!Truth
<1>3. StepFrom(e, K)
  BY StepsFrom
<1>4. CASE still
  BY <1>4
<1>5. CASE pc = 1 /\ ~still
  <2>1. Two2(stack, signed, NoBytes)
    BY <1>5 DEF BackupAt
  <2>2. pc' = 2 /\ branch' = "skipped" /\ verdict' = verdict /\ stack' = SubSeq(stack, 1, 1)
    BY <1>1, <1>3, <1>5, <2>1 DEF StepFrom, Two2
  <2>3. One1(stack', signed)
    BY <1>1, <2>1, <2>2, ShortStacks
  <2>4. QED
    BY <1>1, <2>2, <2>3 DEF BackupAt
<1>6. CASE pc \in 2..e /\ ~still
  <2>1. One1(stack, signed) /\ branch = "skipped"
    BY <1>1, <1>6 DEF BackupAt
  <2>2. /\ stack' = stack /\ verdict' = verdict /\ pc' = pc + 1
        /\ branch' = IF pc = e THEN "taken" ELSE "skipped"
    BY <1>1, <1>3, <1>6, <2>1 DEF StepFrom
  <2>3. QED
    BY <1>1, <1>6, <2>1, <2>2 DEF BackupAt
<1>7. CASE pc = e + 1 /\ ~still
  <2>1. One1(stack, signed) /\ branch = "taken"
    BY <1>1, <1>7 DEF BackupAt
  <2>2. pc' = e + 2 /\ branch' = "taken" /\ verdict' = verdict /\ stack' = Append(stack, Delay)
    BY <1>1, <1>3, <1>7, <2>1 DEF StepFrom
  <2>3. Two2(stack', signed, Delay)
    BY <1>1, <2>1, <2>2, ShortStacks
  <2>4. QED
    BY <1>1, <2>2, <2>3 DEF BackupAt
<1>8. CASE pc = e + 2 /\ ~still
  <2>1. Two2(stack, signed, Delay) /\ branch = "taken"
    BY <1>1, <1>8 DEF BackupAt
  <2>2. pc' = e + 3 /\ branch' = "taken" /\ verdict' = verdict /\ stack' = stack
    BY <1>1, <1>3, <1>8, <2>1 DEF StepFrom
  <2>3. QED
    BY <1>1, <2>1, <2>2 DEF BackupAt
<1>9. CASE pc = e + 3 /\ ~still
  <2>1. Two2(stack, signed, Delay) /\ branch = "taken"
    BY <1>1, <1>9 DEF BackupAt
  <2>2. pc' = e + 4 /\ branch' = "taken" /\ verdict' = verdict /\ stack' = SubSeq(stack, 1, 1)
    BY <1>1, <1>3, <1>9, <2>1 DEF StepFrom, Two2
  <2>3. One1(stack', signed)
    BY <1>1, <2>1, <2>2, ShortStacks
  <2>4. QED
    BY <1>1, <2>2, <2>3 DEF BackupAt
<1>10. CASE pc = e + 4 /\ ~still
  <2>1. One1(stack, signed) /\ branch = "taken"
    BY <1>1, <1>10 DEF BackupAt
  <2>2. pc' = e + 5 /\ branch' = "taken" /\ verdict' = verdict /\ stack' = Append(stack, Backup)
    BY <1>1, <1>3, <1>10, <2>1 DEF StepFrom
  <2>3. Two2(stack', signed, Backup)
    BY <1>1, <2>1, <2>2, ShortStacks
  <2>4. QED
    BY <1>1, <2>2, <2>3 DEF BackupAt
<1>11. CASE pc = e + 5 /\ ~still
  <2>1. Two2(stack, signed, Backup) /\ branch = "taken"
    BY <1>1, <1>11 DEF BackupAt
  <2>2. K = 2 /\ stack[K] = Backup /\ stack[K - 1] = BySignerOf(stack[K])
    BY <2>1 DEF Two2
  <2> DEFINE x == Witness!Truth(stack[K - 1] = BySignerOf(stack[K]))
  <2>3. /\ pc' = e + 6 /\ branch' = "taken" /\ verdict' = verdict
        /\ stack' = Append(SubSeq(stack, 1, 0), One)
    <3>1. x = One
      BY <2>2 DEF Witness!Truth
    <3> HIDE DEF x
    <3>2. /\ pc' = e + 6 /\ branch' = "taken" /\ verdict' = verdict
          /\ stack' = Append(SubSeq(stack, 1, K - 2), x)
      BY <1>1, <1>3, <1>11, <2>1, <2>2 DEF StepFrom, x
    <3>3. QED
      BY <2>2, <3>1, <3>2
  <2>4. One1(stack', One)
    BY <1>1, <2>1, <2>3, ShortStacks
  <2>5. QED
    BY <1>1, <2>3, <2>4 DEF BackupAt
<1>12. CASE pc = e + 6 /\ ~still
  <2>1. One1(stack, One) /\ branch = "taken"
    BY <1>1, <1>12 DEF BackupAt
  <2>2. pc' = e + 7 /\ verdict' = verdict /\ stack' = stack
    BY <1>1, <1>3, <1>12, <2>1 DEF StepFrom
  <2>3. QED
    BY <1>1, <2>1, <2>2 DEF BackupAt
<1>13. CASE pc = e + 7 /\ ~still
  <2>1. One1(stack, One)
    BY <1>1, <1>13 DEF BackupAt
  <2>2. UNCHANGED <<pc, branch, stack>> /\ verdict' = "valid"
    BY <1>1, <1>3, <1>13, <2>1 DEF StepFrom, One1
  <2>3. QED
    BY <2>2
<1>14. QED
  BY <1>1, <1>4, <1>5, <1>6, <1>7, <1>8, <1>9, <1>10, <1>11, <1>12, <1>13

\* The invariant behind the two properties that a key can spend.
SignedGoesOn ==
    /\ PrimarySigned => PrimaryAt(pc, branch, stack) /\ verdict # "invalid"
    /\ BackupSigned => BackupAt(pc, branch, stack) /\ verdict # "invalid"

LEMMA SignedStarts ==
    ASSUME Witness!Init
    PROVE  SignedGoesOn
<1>1. stack = witness /\ pc = 1 /\ verdict = "none"
  BY DEF Witness!Init
<1>2. ElseAt(tag) \in {4, 5}
  BY DEF ElseAt
<1>3. ASSUME PrimarySigned PROVE PrimaryAt(pc, branch, stack)
  <2>1. Two2(stack, BySignerOf(Primary), One)
    BY <1>1, <1>3 DEF PrimarySigned, Two2
  <2>2. QED
    BY <1>1, <1>2, <2>1 DEF PrimaryAt
<1>4. ASSUME BackupSigned PROVE BackupAt(pc, branch, stack)
  <2>1. Two2(stack, BySignerOf(Backup), NoBytes)
    BY <1>1, <1>4 DEF BackupSigned, Two2
  <2>2. QED
    BY <1>1, <1>2, <2>1 DEF BackupAt
<1>5. QED
  BY <1>1, <1>3, <1>4 DEF SignedGoesOn

LEMMA SignedSteps ==
    ASSUME OnlyEarned, SignedGoesOn, [Witness!Next]_Witness!vars,
           Witness!WitnessScriptAssumption
    PROVE  SignedGoesOn'
<1>1. UNCHANGED <<tag, witness, age>>
  BY DEF Witness!Next, Witness!vars, Witness!If, Witness!Else, Witness!EndIf, Witness!Skip,
         Witness!PushData, Witness!Drop, Witness!CheckSig, Witness!CheckSigVerify,
         Witness!CheckSequenceVerify, Witness!Finish, Witness!Advance, Witness!Fail
<1>2. PrimarySigned => PrimaryAt(pc', branch', stack') /\ verdict' # "invalid"
  BY PrimaryGoesOn DEF SignedGoesOn, PrimarySigned
<1>3. BackupSigned => BackupAt(pc', branch', stack') /\ verdict' # "invalid"
  BY BackupGoesOn DEF SignedGoesOn, BackupSigned
<1>4. PrimarySigned' => PrimarySigned /\ PrimaryAt(pc, branch, stack)' = PrimaryAt(pc', branch', stack')
  BY <1>1 DEF PrimarySigned, PrimaryAt
<1>5. BackupSigned' => BackupSigned /\ BackupAt(pc, branch, stack)' = BackupAt(pc', branch', stack')
  BY <1>1 DEF BackupSigned, BackupAt
<1>6. QED
  BY <1>2, <1>3, <1>4, <1>5 DEF SignedGoesOn

\* The primary key can always spend what has a tag that is not nil, and the
\* backup key recovers every output, change included, after the delay.
LEMMA WitnessSpends ==
    ASSUME Witness!WitnessScriptAssumption
    PROVE  Witness!Spec => []Witness!KeysSpend
<1>1. SignedGoesOn => Witness!KeysSpend
  BY DEF SignedGoesOn, PrimarySigned, BackupSigned, Witness!KeysSpend,
         Witness!PrimarySpendsTagged, Witness!BackupRecovers
<1>2. QED
  BY <1>1, EarnedStarts, EarnedSteps, SignedStarts, SignedSteps, PTL DEF Witness!Spec

----------------------------------------------------------------------------
\* The parts side by side: a behaviour that runs a part is one of the part.

LEMMA PartStays ==
    ASSUME [PartsNext]_partsVars
    PROVE  UNCHANGED part
  BY DEF PartsNext, partsVars

LEMMA IntentsRun ==
    /\ PartsInit /\ part = "intents" => Intents!Init
    /\ part = "intents" /\ [PartsNext]_partsVars => [Intents!Next]_Intents!vars
  BY DEF PartsInit, PartsNext, partsVars, intentsVars, Intents!vars

LEMMA WitnessRuns ==
    /\ PartsInit /\ part = "witness" => Witness!Init
    /\ part = "witness" /\ [PartsNext]_partsVars => [Witness!Next]_Witness!vars
  BY DEF PartsInit, PartsNext, partsVars, witnessVars, Witness!vars

LEMMA ParsingRuns ==
    /\ PartsInit /\ part = "parsing" => Parsing!Init
    /\ part = "parsing" /\ [PartsNext]_partsVars => [Parsing!Next]_Parsing!vars
  BY DEF PartsInit, PartsNext, partsVars, parsingVars, Parsing!vars

LEMMA WitnessInPart ==
    PartsSpec => [](part = "witness" => Witness!OnlyKeysSpend /\ Witness!KeysSpend)
<1>1. Witness!Spec => [](Witness!OnlyKeysSpend /\ Witness!KeysSpend)
  BY PartsAssumption, WitnessAlone, WitnessSpends, PTL
<1>2. ~(part = "witness") /\ [PartsNext]_partsVars => (~(part = "witness"))'
  BY PartStays
<1>3. part = "witness" /\ [PartsNext]_partsVars => (part = "witness")'
  BY PartStays
<1>4. PartsInit /\ part = "witness" => Witness!Init
  BY WitnessRuns
<1>5. part = "witness" /\ [PartsNext]_partsVars => [Witness!Next]_(Witness!vars)
  BY WitnessRuns
<1>6. QED
  BY <1>1, <1>2, <1>3, <1>4, <1>5, PTL DEF PartsSpec, Witness!Spec

\* Whatever witness is tried against the script of whatever tag, it takes the
\* signature of the primary key, or that of the backup key and the delay.
THEOREM KeysAlone == PartsSpec => []OnlyKeysSpend
<1>1. (part = "witness" => Witness!OnlyKeysSpend /\ Witness!KeysSpend) => OnlyKeysSpend
  BY DEF OnlyKeysSpend
<1>2. QED
  BY <1>1, WitnessInPart, PTL

\* The primary key can always spend what has a tag that is not nil, and the
\* backup key recovers every output, change included, after the delay.
THEOREM KeysCanSpend == PartsSpec => []KeysSpend
<1>1. (part = "witness" => Witness!OnlyKeysSpend /\ Witness!KeysSpend) => KeysSpend
  BY DEF KeysSpend
<1>2. QED
  BY <1>1, WitnessInPart, PTL

LEMMA ParsingInPart ==
    PartsSpec => [](part = "parsing" => /\ Parsing!OutputsFollowTheirInstruction
                                        /\ Parsing!LandsOnItsNetwork)
<1>1. Parsing!Spec => []( /\ Parsing!OutputsFollowTheirInstruction
                          /\ Parsing!LandsOnItsNetwork )
  BY PartsAssumption, ParsingFollows, ParsingLands, PTL
<1>2. ~(part = "parsing") /\ [PartsNext]_partsVars => (~(part = "parsing"))'
  BY PartStays
<1>3. part = "parsing" /\ [PartsNext]_partsVars => (part = "parsing")'
  BY PartStays
<1>4. PartsInit /\ part = "parsing" => Parsing!Init
  BY ParsingRuns
<1>5. part = "parsing" /\ [PartsNext]_partsVars => [Parsing!Next]_(Parsing!vars)
  BY ParsingRuns
<1>6. QED
  BY <1>1, <1>2, <1>3, <1>4, <1>5, PTL DEF PartsSpec, Parsing!Spec

\* What an output does is what the instruction of its own address says,
\* however many instructions a call brings and in whatever order.
THEOREM OutputsFollow == PartsSpec => []OutputsFollowTheirInstruction
<1>1. (part = "parsing" => /\ Parsing!OutputsFollowTheirInstruction
                           /\ Parsing!LandsOnItsNetwork)
          => OutputsFollowTheirInstruction
  BY DEF OutputsFollowTheirInstruction
<1>2. QED
  BY <1>1, ParsingInPart, PTL

\* What comes out of a swap goes to an address of the network it names.
THEOREM OutputsLand == PartsSpec => []LandsOnItsNetwork
<1>1. (part = "parsing" => /\ Parsing!OutputsFollowTheirInstruction
                           /\ Parsing!LandsOnItsNetwork)
          => LandsOnItsNetwork
  BY DEF LandsOnItsNetwork
<1>2. QED
  BY <1>1, ParsingInPart, PTL

LEMMA IntentsInPart ==
    PartsSpec => [](part = "intents" => Intents!TypeOK /\ Intents!Conserved)
<1>1. Intents!Spec => [](Intents!TypeOK /\ Intents!Conserved)
  BY PartsAssumption, IntentsType, IntentsConserve, PTL
<1>2. ~(part = "intents") /\ [PartsNext]_partsVars => (~(part = "intents"))'
  BY PartStays
<1>3. part = "intents" /\ [PartsNext]_partsVars => (part = "intents")'
  BY PartStays
<1>4. PartsInit /\ part = "intents" => Intents!Init
  BY IntentsRun
<1>5. part = "intents" /\ [PartsNext]_partsVars => [Intents!Next]_(Intents!vars)
  BY IntentsRun
<1>6. QED
  BY <1>1, <1>2, <1>3, <1>4, <1>5, PTL DEF PartsSpec, Intents!Spec

\* Calls nested in a transaction, among them an account's transfer to itself,
\* neither make nor destroy money, for any number of accounts and calls.
THEOREM MoneyConserved == PartsSpec => []Conserved
<1>1. (part = "intents" => Intents!TypeOK /\ Intents!Conserved) => Conserved
  BY DEF Conserved
<1>2. QED
  BY <1>1, IntentsInPart, PTL

\* What a call takes from an account is covered by the intent that counts: the
\* sender's first with the transaction, or another caller's last with the call.
THEOREM LossesAreCovered == PartsSpec => LossesCovered
<1>1. ASSUME part = "intents" => Intents!TypeOK /\ Intents!Conserved,
             [PartsNext]_partsVars
      PROVE  [part = "intents" => Intents!LossCovered]_partsVars
  <2> SUFFICES ASSUME part = "intents"
               PROVE  Intents!LossCovered
    OBVIOUS
  <2>1. Intents!TypeOK /\ [Intents!Next]_Intents!vars
    BY <1>1, IntentsRun
  <2>2. [Intents!LossCovered]_Intents!vars
    BY <2>1, PartsAssumption, IntentsCover
  <2>3. CASE UNCHANGED Intents!vars
    <3>1. \A a \in Intents!Accounts : balances[a] \in Int
      BY <2>1 DEF Intents!TypeOK
    <3>2. balances' = balances
      BY <2>3 DEF Intents!vars
    <3>3. QED
      BY <3>1, <3>2 DEF Intents!LossCovered
  <2>4. QED
    BY <2>2, <2>3
<1>2. QED
  BY <1>1, IntentsInPart, PTL DEF PartsSpec, LossesCovered

----------------------------------------------------------------------------
\* MerkleProof.

HashesOf(txs) == [p \in 1..Len(txs) |-> Merkle!TxHash(txs[p])]

LevelsTo(txs, k, f) ==
    f = [j \in 0..k |-> IF j = 0 THEN HashesOf(txs) ELSE Merkle!Parents(f[j - 1])]

\* The recursion of Level has a solution, level by level.
LEMMA LevelsExist ==
    ASSUME NEW txs, NEW k \in Nat
    PROVE  \E f : LevelsTo(txs, k, f)
<1> DEFINE S == {j \in 0..k : \E f : LevelsTo(txs, j, f)}
<1>1. 0 \in S
  <2> DEFINE f == [j \in 0..0 |-> HashesOf(txs)]
  <2>1. LevelsTo(txs, 0, f)
    BY DEF LevelsTo
  <2>2. QED
    BY <2>1
<1>2. ASSUME NEW n \in 1..k, n - 1 \in S PROVE n \in S
  <2>1. PICK f : LevelsTo(txs, n - 1, f)
    BY <1>2
  <2> DEFINE g == [j \in 0..n |-> IF j = n THEN Merkle!Parents(f[n - 1]) ELSE f[j]]
  <2>2. \A j \in 0..(n - 1) :
           f[j] = IF j = 0 THEN HashesOf(txs) ELSE Merkle!Parents(f[j - 1])
    BY <2>1 DEF LevelsTo
  <2>3. \A j \in 0..n :
           g[j] = IF j = 0 THEN HashesOf(txs) ELSE Merkle!Parents(g[j - 1])
    BY <2>2
  <2>4. LevelsTo(txs, n, g)
    <3>1. g = [j \in 0..n |-> g[j]]
      OBVIOUS
    <3> HIDE DEF g
    <3> QED
      BY <2>3, <3>1 DEF LevelsTo
  <2>5. QED
    BY <2>4
<1>3. 0..k \subseteq S
  <2> HIDE DEF S
  <2> QED
    BY <1>1, <1>2, UpTo
<1>4. QED
  BY <1>3

\* Two solutions agree where both are.
LEMMA LevelsAgree ==
    ASSUME NEW txs, NEW k \in Nat, NEW f, LevelsTo(txs, k, f),
           NEW n \in 0..k, NEW g, LevelsTo(txs, n, g)
    PROVE  \A j \in 0..n : f[j] = g[j]
<1> DEFINE S == {j \in 0..n : f[j] = g[j]}
<1>1. /\ \A j \in 0..n : g[j] = IF j = 0 THEN HashesOf(txs) ELSE Merkle!Parents(g[j - 1])
      /\ \A j \in 0..k : f[j] = IF j = 0 THEN HashesOf(txs) ELSE Merkle!Parents(f[j - 1])
  BY DEF LevelsTo
<1>2. 0 \in S
  BY <1>1
<1>3. \A j \in 1..n : j - 1 \in S => j \in S
  BY <1>1
<1>4. 0..n \subseteq S
  <2> HIDE DEF S
  <2> QED
    BY <1>2, <1>3, UpTo
<1>5. QED
  BY <1>4

\* Level by level.
LEMMA LevelSteps ==
    ASSUME NEW txs
    PROVE  /\ Merkle!Level(txs, 0) = HashesOf(txs)
           /\ \A k \in Nat : Merkle!Level(txs, k + 1) = Merkle!Parents(Merkle!Level(txs, k))
<1>1. ASSUME NEW k \in Nat
      PROVE  \E f : LevelsTo(txs, k, f) /\ Merkle!Level(txs, k) = f[k]
  <2> DEFINE f == CHOOSE f : f = [j \in 0..k |->
                      IF j = 0 THEN [p \in 1..Len(txs) |-> Merkle!TxHash(txs[p])]
                      ELSE Merkle!Parents(f[j - 1])]
  <2>1. LevelsTo(txs, k, f)
    BY LevelsExist DEF LevelsTo, HashesOf
  <2>2. Merkle!Level(txs, k) = f[k]
    BY DEF Merkle!Level
  <2>3. QED
    BY <2>1, <2>2
<1>2. Merkle!Level(txs, 0) = HashesOf(txs)
  BY <1>1 DEF LevelsTo
<1>3. ASSUME NEW k \in Nat
      PROVE  Merkle!Level(txs, k + 1) = Merkle!Parents(Merkle!Level(txs, k))
  <2>1. PICK g : LevelsTo(txs, k, g) /\ Merkle!Level(txs, k) = g[k]
    BY <1>1
  <2>2. PICK f : LevelsTo(txs, k + 1, f) /\ Merkle!Level(txs, k + 1) = f[k + 1]
    BY <1>1
  <2>3. f[k] = g[k]
    BY <2>1, <2>2, LevelsAgree
  <2>4. f[k + 1] = Merkle!Parents(f[k])
    BY <2>2 DEF LevelsTo
  <2>5. QED
    BY <2>1, <2>2, <2>3, <2>4
<1>4. QED
  BY <1>2, <1>3

HalvingsTo(place, k, f) ==
    f = [j \in 0..k |-> IF j = 0 THEN place ELSE f[j - 1] \div 2]

\* The recursion of Above has a solution, too.
LEMMA HalvingsExist ==
    ASSUME NEW place \in Nat, NEW k \in Nat
    PROVE  \E f : HalvingsTo(place, k, f)
<1> DEFINE g == [p \in (1..k) \X Nat |-> p[2] \div 2]
<1>1. g \in Iterations(k, Nat)
  <2>1. \A p \in (1..k) \X Nat : p[2] \div 2 \in Nat
    BY Halves
  <2>2. QED
    BY <2>1 DEF Iterations
<1>2. \A j \in 1..k, x \in Nat : g[<<j, x>>] = x \div 2
  OBVIOUS
<1> HIDE DEF g
<1>3. PICK f : f \in Runs(k, Nat, place, g)
  BY <1>1, RunExists
<1>4. /\ f \in [0..k -> Nat] /\ f[0] = place
      /\ \A j \in 1..k : f[j] = g[<<j, f[j - 1]>>]
  BY <1>3 DEF Runs
<1>5. ASSUME NEW j \in 1..k PROVE f[j] = f[j - 1] \div 2
  <2>1. f[j - 1] \in Nat
    BY <1>4
  <2>2. QED
    BY <1>2, <1>4, <2>1
<1>6. f = [j \in 0..k |-> f[j]] /\ \A j \in 0..k : j = 0 \/ j \in 1..k
  BY <1>4
<1>7. \A j \in 0..k : f[j] = IF j = 0 THEN place ELSE f[j - 1] \div 2
  BY <1>4, <1>5, <1>6
<1>8. QED
  BY <1>6, <1>7 DEF HalvingsTo

LEMMA HalvingsAgree ==
    ASSUME NEW place \in Nat, NEW k \in Nat, NEW f, HalvingsTo(place, k, f),
           NEW n \in 0..k, NEW g, HalvingsTo(place, n, g)
    PROVE  \A j \in 0..n : f[j] = g[j] /\ g[j] \in Nat
<1> DEFINE S == {j \in 0..n : f[j] = g[j] /\ g[j] \in Nat}
<1>1. /\ \A j \in 0..n : g[j] = IF j = 0 THEN place ELSE g[j - 1] \div 2
      /\ \A j \in 0..k : f[j] = IF j = 0 THEN place ELSE f[j - 1] \div 2
  BY DEF HalvingsTo
<1>2. 0 \in S
  BY <1>1
<1>3. ASSUME NEW j \in 1..n, j - 1 \in S PROVE j \in S
  <2>1. f[j - 1] = g[j - 1] /\ g[j - 1] \in Nat
    BY <1>3
  <2>2. f[j] = f[j - 1] \div 2 /\ g[j] = g[j - 1] \div 2
    BY <1>1
  <2>3. g[j] \in Nat
    BY <2>1, <2>2, Halves
  <2>4. QED
    BY <2>1, <2>2, <2>3
<1>4. 0..n \subseteq S
  <2> HIDE DEF S
  <2> QED
    BY <1>2, <1>3, UpTo
<1>5. QED
  BY <1>4

\* A place, halving by halving.
LEMMA AboveSteps ==
    ASSUME NEW place \in Nat
    PROVE  /\ Merkle!Above(place, 0) = place
           /\ \A k \in Nat : /\ Merkle!Above(place, k) \in Nat
                             /\ Merkle!Above(place, k + 1) = Merkle!Above(place, k) \div 2
<1>1. ASSUME NEW k \in Nat
      PROVE  \E f : HalvingsTo(place, k, f) /\ Merkle!Above(place, k) = f[k]
  <2> DEFINE f == CHOOSE f : f = [j \in 0..k |-> IF j = 0 THEN place
                                                ELSE f[j - 1] \div 2]
  <2>1. HalvingsTo(place, k, f)
    BY HalvingsExist DEF HalvingsTo
  <2>2. Merkle!Above(place, k) = f[k]
    BY DEF Merkle!Above
  <2>3. QED
    BY <2>1, <2>2
<1>2. Merkle!Above(place, 0) = place
  BY <1>1 DEF HalvingsTo
<1>3. ASSUME NEW k \in Nat
      PROVE  /\ Merkle!Above(place, k) \in Nat
             /\ Merkle!Above(place, k + 1) = Merkle!Above(place, k) \div 2
  <2>1. k + 1 \in Nat /\ k \in 0..(k + 1) /\ k \in 0..k
    OBVIOUS
  <2>2. PICK g : HalvingsTo(place, k, g) /\ Merkle!Above(place, k) = g[k]
    BY <1>1
  <2>3. PICK f : HalvingsTo(place, k + 1, f) /\ Merkle!Above(place, k + 1) = f[k + 1]
    BY <1>1, <2>1
  <2>4. f[k] = g[k] /\ g[k] \in Nat
    BY <2>1, <2>2, <2>3, HalvingsAgree
  <2>5. f[k + 1] = f[k] \div 2
    BY <2>3 DEF HalvingsTo
  <2>6. QED
    BY <2>2, <2>3, <2>4, <2>5
<1>4. QED
  BY <1>2, <1>3

----------------------------------------------------------------------------
\* The levels of a block.

Tall(level) == Len(level) \in Nat \ {0} /\ DOMAIN level = 1..Len(level)

\* The level above has half as many hashes, rounded up.
LEMMA ParentsFacts ==
    ASSUME NEW level, Tall(level)
    PROVE  LET up == Merkle!Parents(level)
           IN  /\ Tall(up) /\ Len(up) = (Len(level) + 1) \div 2
               /\ \A p \in 1..Len(up) :
                     up[p] = <<level[2 * p - 1],
                               IF 2 * p > Len(level) THEN level[2 * p - 1]
                               ELSE level[2 * p]>>
<1> DEFINE m == (Len(level) + 1) \div 2
           up == Merkle!Parents(level)
<1>1. m \in Nat \ {0}
  BY DEF Tall
<1>2. up = [p \in 1..m |-> up[p]]
  BY DEF Merkle!Parents
<1>3. Len(up) = m /\ DOMAIN up = 1..m
  <2> HIDE DEF up, m
  <2> QED
    BY <1>1, <1>2, LengthOf
<1>4. \A p \in 1..m : up[p] = <<level[2 * p - 1],
                                IF 2 * p > Len(level) THEN level[2 * p - 1]
                                ELSE level[2 * p]>>
  BY DEF Merkle!Parents
<1>5. QED
  BY <1>1, <1>3, <1>4 DEF Tall

\* A block has at least a transaction, all of them of the order given.
LEMMA BlockType ==
    ASSUME PartsAssumption, NEW txs \in Merkle!Blocks
    PROVE  Len(txs) \in Nat \ {0} /\ DOMAIN txs = 1..Len(txs)
<1>1. Order \in Seq(Merkle!Range(Order))
  BY DEF PartsAssumption, Merkle!MerkleProofAssumption
<1>2. PICK n \in 1..Len(Order) : txs = SubSeq(Order, 1, n)
  BY DEF Merkle!Blocks
<1>3. Len(Order) \in Nat /\ n \in Nat \ {0}
  BY <1>1, <1>2
<1>4. txs \in Seq(Merkle!Range(Order)) /\ Len(txs) = n
  BY <1>1, <1>2, <1>3
<1>5. QED
  BY <1>3, <1>4

\* Every level of a block has a hash, and that of the transactions theirs.
LEMMA LevelFacts ==
    ASSUME PartsAssumption, NEW txs \in Merkle!Blocks
    PROVE  /\ \A k \in Nat : Tall(Merkle!Level(txs, k))
           /\ Len(Merkle!Level(txs, 0)) = Len(txs)
           /\ \A p \in 1..Len(txs) : Merkle!Level(txs, 0)[p] = <<txs[p]>>
           /\ \A k \in Nat :
                 Len(Merkle!Level(txs, k + 1)) = (Len(Merkle!Level(txs, k)) + 1) \div 2
<1> DEFINE L(k) == Merkle!Level(txs, k)
<1>1. Len(txs) \in Nat \ {0} /\ DOMAIN txs = 1..Len(txs)
  BY BlockType
<1>2. L(0) = HashesOf(txs) /\ \A k \in Nat : L(k + 1) = Merkle!Parents(L(k))
  BY LevelSteps
<1>3. /\ Len(L(0)) = Len(txs) /\ DOMAIN L(0) = 1..Len(txs)
      /\ \A p \in 1..Len(txs) : L(0)[p] = <<txs[p]>>
  <2>1. L(0) = [p \in 1..Len(txs) |-> <<txs[p]>>]
    BY <1>2 DEF HashesOf, Merkle!TxHash
  <2>2. L(0) = [p \in 1..Len(txs) |-> L(0)[p]]
    BY <2>1
  <2> HIDE DEF L
  <2>3. QED
    BY <1>1, <2>1, <2>2, LengthOf
<1>4. ASSUME NEW k \in Nat PROVE Tall(L(k))
  <2> DEFINE S == {j \in 0..k : Tall(L(j))}
  <2>1. 0 \in S
    BY <1>1, <1>3 DEF Tall
  <2>2. ASSUME NEW j \in 1..k, j - 1 \in S PROVE j \in S
    <3>1. Tall(L(j - 1)) /\ j - 1 \in Nat /\ (j - 1) + 1 = j
      BY <2>2
    <3>2. L(j) = Merkle!Parents(L(j - 1))
      BY <1>2, <3>1
    <3>3. Tall(L(j))
      BY <3>1, <3>2, ParentsFacts
    <3>4. QED
      BY <3>3
  <2>3. 0..k \subseteq S
    <3> HIDE DEF S
    <3> QED
      BY <2>1, <2>2, UpTo
  <2>4. QED
    BY <2>3
<1>5. ASSUME NEW k \in Nat PROVE Len(L(k + 1)) = (Len(L(k)) + 1) \div 2
  BY <1>2, <1>4, ParentsFacts
<1>6. QED
  BY <1>3, <1>4, <1>5

\* The levels shrink to one hash, the root.
LEMMA DepthFacts ==
    ASSUME PartsAssumption, NEW txs \in Merkle!Blocks
    PROVE  Merkle!Depth(txs) \in Nat /\ Len(Merkle!Level(txs, Merkle!Depth(txs))) = 1
<1> DEFINE len == [k \in Nat |-> Len(Merkle!Level(txs, k))]
           n == Len(txs)
<1>1. n \in Nat \ {0}
  BY BlockType
<1>2. /\ \A k \in Nat : len[k] \in Nat \ {0}
      /\ len[0] = n
      /\ \A k \in Nat : len[k + 1] = (len[k] + 1) \div 2
  <2>1. ASSUME NEW k \in Nat
        PROVE  /\ len[k] = Len(Merkle!Level(txs, k)) /\ len[k] \in Nat \ {0}
               /\ len[k + 1] = Len(Merkle!Level(txs, k + 1))
    <3>1. k + 1 \in Nat
      OBVIOUS
    <3>2. Tall(Merkle!Level(txs, k))
      BY LevelFacts
    <3>3. QED
      BY <3>1, <3>2 DEF Tall
  <2> HIDE DEF len
  <2>2. ASSUME NEW k \in Nat PROVE len[k + 1] = (len[k] + 1) \div 2
    BY <2>1, LevelFacts
  <2>3. len[0] = n
    BY <2>1, LevelFacts
  <2>4. QED
    BY <2>1, <2>2, <2>3
<1>3. \A k \in Nat : len[k] = Len(Merkle!Level(txs, k))
  OBVIOUS
<1> HIDE DEF len, n
<1> DEFINE S == {k \in 0..n : len[k] = 1 \/ len[k] <= n - k}
           T == {k \in 0..n : len[k] = 1}
<1>4. 0 \in S
  BY <1>1, <1>2
<1>5. ASSUME NEW k \in 1..n, k - 1 \in S PROVE k \in S
  <2>1. k - 1 \in Nat /\ (k - 1) + 1 = k /\ k \in 0..n /\ k \in Nat
    BY <1>1
  <2>2. len[k - 1] = 1 \/ len[k - 1] <= n - (k - 1)
    BY <1>5
  <2> HIDE DEF S, T
  <2>3. len[k] = (len[k - 1] + 1) \div 2 /\ len[k - 1] \in Nat \ {0} /\ len[k] \in Nat
    BY <1>2, <2>1
  <2>4. len[k] = 1 \/ len[k] <= len[k - 1] - 1
    BY <2>3, RoundedUp
  <2>5. len[k] = 1 \/ len[k] <= n - k
    BY <1>1, <2>1, <2>2, <2>3, <2>4
  <2>6. QED
    BY <2>1, <2>5 DEF S
<1>6. 0..n \subseteq S
  <2> HIDE DEF S
  <2> QED
    BY <1>1, <1>4, <1>5, UpTo
<1>7. n \in T
  BY <1>1, <1>2, <1>6
<1>8. PICK d \in T : \A k \in T : d <= k
  <2>1. T \in SUBSET Nat
    BY <1>1
  <2> HIDE DEF T
  <2>2. QED
    BY <1>7, <2>1, SmallestExists
<1>9. ASSUME NEW j \in 0..(d - 1) PROVE len[j] > 1
  <2>1. d \in 0..n /\ j \in 0..n /\ j \in Nat /\ ~(d <= j)
    BY <1>1, <1>8
  <2>2. len[j] # 1
    BY <1>8, <2>1
  <2> HIDE DEF S, T
  <2>3. len[j] \in Nat \ {0}
    BY <1>2, <2>1
  <2>4. QED
    BY <2>2, <2>3
<1>10. \E k \in 0..n : /\ Len(Merkle!Level(txs, k)) = 1
                      /\ \A j \in 0..(k - 1) : Len(Merkle!Level(txs, j)) > 1
  <2>1. d \in 0..n /\ d \in Nat /\ \A j \in 0..(d - 1) : j \in Nat
    BY <1>1, <1>8
  <2>2. Len(Merkle!Level(txs, d)) = 1
    BY <1>3, <1>8, <2>1
  <2>3. \A j \in 0..(d - 1) : Len(Merkle!Level(txs, j)) > 1
    BY <1>3, <1>9, <2>1
  <2>4. QED
    BY <2>1, <2>2, <2>3
<1>11. /\ Merkle!Depth(txs) \in 0..n
       /\ Len(Merkle!Level(txs, Merkle!Depth(txs))) = 1
  BY <1>10 DEF Merkle!Depth, n
<1>12. QED
  BY <1>1, <1>11

----------------------------------------------------------------------------
\* One level of the climb.

\* A hash and its sibling combine to the hash above them.
LEMMA SiblingsCombine ==
    ASSUME NEW level, Tall(level), NEW place \in Nat, place < Len(level)
    PROVE  LET up == Merkle!Parents(level)
           IN  /\ place \div 2 \in Nat /\ place \div 2 < Len(up)
               /\ up[place \div 2 + 1]
                      = Merkle!Combined(level[place + 1],
                                        Merkle!Sibling(level, place), place)
<1> DEFINE up == Merkle!Parents(level)
           q == place \div 2
           len == Len(level)
<1>1. /\ q \in Nat
      /\ \/ place % 2 = 0 /\ place = 2 * q
         \/ place % 2 = 1 /\ place = 2 * q + 1
  BY Halves
<1>2. len \in Nat \ {0} /\ Len(up) = (len + 1) \div 2
  BY ParentsFacts DEF Tall
<1>3. \A p \in 1..Len(up) :
         up[p] = <<level[2 * p - 1],
                   IF 2 * p > len THEN level[2 * p - 1] ELSE level[2 * p]>>
  BY ParentsFacts
<1> HIDE DEF up, q, len
<1>4. place < len
  BY DEF len
<1>5. q < Len(up) /\ q + 1 \in 1..Len(up)
  BY <1>1, <1>2, <1>4
<1>6. 2 * (q + 1) - 1 = 2 * q + 1 /\ 2 * (q + 1) = 2 * q + 2
  BY <1>1
<1>7. up[q + 1] = <<level[2 * q + 1],
                    IF 2 * q + 2 > len THEN level[2 * q + 1] ELSE level[2 * q + 2]>>
  BY <1>3, <1>5, <1>6
<1>8. CASE place % 2 = 0 /\ place + 1 = len
  <2>1. place = 2 * q /\ 2 * q + 2 > len
    BY <1>1, <1>2, <1>8
  <2>2. Merkle!Sibling(level, place) = level[2 * q + 1]
    BY <1>8, <2>1 DEF Merkle!Sibling, Merkle!Doubled, len
  <2>3. QED
    BY <1>1, <1>5, <1>7, <1>8, <2>1, <2>2 DEF Merkle!Combined, up, q
<1>9. CASE place % 2 = 0 /\ place + 1 # len
  <2>1. place = 2 * q /\ ~(2 * q + 2 > len) /\ place + 2 = 2 * q + 2
    BY <1>1, <1>2, <1>4, <1>9
  <2>2. Merkle!Sibling(level, place) = level[2 * q + 2]
    BY <1>9, <2>1 DEF Merkle!Sibling, Merkle!Doubled, len
  <2>3. QED
    BY <1>1, <1>5, <1>7, <1>9, <2>1, <2>2 DEF Merkle!Combined, up, q
<1>10. CASE place % 2 = 1
  <2>1. place = 2 * q + 1 /\ ~(2 * q + 2 > len) /\ place + 1 = 2 * q + 2
    BY <1>1, <1>2, <1>4, <1>10
  <2>2. Merkle!Sibling(level, place) = level[2 * q + 1]
    BY <1>10, <2>1 DEF Merkle!Sibling, Merkle!Doubled
  <2>3. QED
    BY <1>1, <1>5, <1>7, <1>10, <2>1, <2>2 DEF Merkle!Combined, up, q
<1>11. QED
  BY <1>1, <1>8, <1>9, <1>10

\* And what combines to a hash of the level above is a hash and its sibling,
\* on the sides that the index says unless they are the same.
LEMMA PairsComeApart ==
    ASSUME NEW level, Tall(level), NEW hash, NEW sibling, NEW at \in Nat,
           NEW up \in Nat, up < Len(Merkle!Parents(level)),
           Merkle!Combined(hash, sibling, at) = Merkle!Parents(level)[up + 1]
    PROVE  \E place \in Nat :
               /\ place < Len(level) /\ place \div 2 = up
               /\ hash = level[place + 1] /\ sibling = Merkle!Sibling(level, place)
               /\ \/ at % 2 = place % 2
                  \/ Merkle!Doubled(level, place)
<1> DEFINE len == Len(level)
           upper == Merkle!Parents(level)
<1>1. len \in Nat \ {0} /\ Len(upper) = (len + 1) \div 2
  BY ParentsFacts DEF Tall
<1>2. \A p \in 1..Len(upper) :
         upper[p] = <<level[2 * p - 1],
                      IF 2 * p > len THEN level[2 * p - 1] ELSE level[2 * p]>>
  BY ParentsFacts
<1> HIDE DEF len, upper
<1>3. up < Len(upper)
  BY DEF upper
<1>4. up + 1 \in 1..Len(upper) /\ 2 * up + 1 <= len
  BY <1>1, <1>3
<1>5. 2 * (up + 1) - 1 = 2 * up + 1 /\ 2 * (up + 1) = 2 * up + 2
  OBVIOUS
<1>6. upper[up + 1] = <<level[2 * up + 1],
          IF 2 * up + 2 > len THEN level[2 * up + 1] ELSE level[2 * up + 2]>>
  BY <1>2, <1>4, <1>5
<1>7. at % 2 = 0 \/ at % 2 = 1
  BY Halves
<1>8. /\ at % 2 = 0 => <<hash, sibling>> = upper[up + 1]
      /\ at % 2 = 1 => <<sibling, hash>> = upper[up + 1]
  BY DEF Merkle!Combined, upper
<1>9. /\ 2 * up \in Nat /\ (2 * up) % 2 = 0 /\ (2 * up) \div 2 = up
      /\ 2 * up + 1 \in Nat /\ (2 * up + 1) % 2 = 1 /\ (2 * up + 1) \div 2 = up
  BY Even, Odd
<1>10. CASE 2 * up + 2 > len
  <2>1. 2 * up + 1 = len
    BY <1>1, <1>4, <1>10
  <2>2. hash = level[2 * up + 1] /\ sibling = level[2 * up + 1]
    BY <1>6, <1>7, <1>8, <1>10
  <2>3. Merkle!Doubled(level, 2 * up)
    BY <1>9, <2>1 DEF Merkle!Doubled, len
  <2>4. Merkle!Sibling(level, 2 * up) = level[2 * up + 1]
    BY <1>9, <2>3 DEF Merkle!Sibling, Merkle!Doubled
  <2>5. 2 * up < len
    BY <2>1
  <2>6. QED
    BY <1>9, <2>2, <2>3, <2>4, <2>5 DEF len
<1>11. CASE ~(2 * up + 2 > len)
  <2>1. 2 * up < len /\ 2 * up + 1 < len /\ 2 * up + 1 # len /\ (2 * up + 1) + 1 = 2 * up + 2
    BY <1>1, <1>11
  <2>2. upper[up + 1] = <<level[2 * up + 1], level[2 * up + 2]>>
    BY <1>6, <1>11
  <2>3. CASE at % 2 = 0
    <3>1. hash = level[2 * up + 1] /\ sibling = level[2 * up + 2]
      BY <1>8, <2>2, <2>3
    <3>2. Merkle!Sibling(level, 2 * up) = level[2 * up + 2]
      BY <1>9, <2>1 DEF Merkle!Sibling, Merkle!Doubled, len
    <3>3. QED
      BY <1>9, <2>1, <2>3, <3>1, <3>2 DEF len
  <2>4. CASE at % 2 = 1
    <3>1. hash = level[2 * up + 2] /\ sibling = level[2 * up + 1]
      BY <1>8, <2>2, <2>4
    <3>2. Merkle!Sibling(level, 2 * up + 1) = level[2 * up + 1]
      BY <1>9 DEF Merkle!Sibling, Merkle!Doubled
    <3>3. QED
      BY <1>9, <2>1, <2>4, <3>1, <3>2 DEF len
  <2>5. QED
    BY <1>7, <2>3, <2>4
<1>12. QED
  BY <1>1, <1>10, <1>11

\* A place as seen from the level above.
LEMMA AboveHalved ==
    ASSUME NEW place \in Nat, NEW k \in Nat
    PROVE  Merkle!Above(place, k + 1) = Merkle!Above(place \div 2, k)
<1> DEFINE S == {j \in 0..k : Merkle!Above(place, j + 1) = Merkle!Above(place \div 2, j)}
<1>1. place \div 2 \in Nat
  BY Halves
<1>2. 0 \in S
  <2>1. Merkle!Above(place, 0 + 1) = place \div 2
    BY AboveSteps
  <2>2. Merkle!Above(place \div 2, 0) = place \div 2
    BY <1>1, AboveSteps
  <2>3. QED
    BY <2>1, <2>2
<1>3. ASSUME NEW j \in 1..k, j - 1 \in S PROVE j \in S
  <2>1. /\ j - 1 \in Nat /\ (j - 1) + 1 = j /\ j \in Nat
        /\ Merkle!Above(place, j) = Merkle!Above(place \div 2, j - 1)
    BY <1>3
  <2>2. Merkle!Above(place, j + 1) = Merkle!Above(place, j) \div 2
    BY <2>1, AboveSteps
  <2>3. Merkle!Above(place \div 2, j) = Merkle!Above(place \div 2, j - 1) \div 2
    BY <1>1, <2>1, AboveSteps
  <2>4. QED
    BY <2>1, <2>2, <2>3
<1>4. 0..k \subseteq S
  <2> HIDE DEF S
  <2> QED
    BY <1>2, <1>3, UpTo
<1>5. QED
  BY <1>4

----------------------------------------------------------------------------
\* The whole climb.

\* The hashes of the loop over the first m hashes of a proof.
Climbs(c, t, claimed, hashes, m) ==
    /\ c[0] = <<t>>
    /\ \A j \in 1..m :
          c[j] = Merkle!Combined(c[j - 1], hashes[j], Merkle!Above(claimed, j - 1))

\* A place of a transaction is a place on every level.
LEMMA PlaceWithin ==
    ASSUME PartsAssumption, NEW txs \in Merkle!Blocks,
           NEW place \in Nat, place < Len(txs), NEW k \in Nat
    PROVE  Merkle!Above(place, k) < Len(Merkle!Level(txs, k))
<1> DEFINE S == {j \in 0..k : Merkle!Above(place, j) < Len(Merkle!Level(txs, j))}
<1>1. 0 \in S
  BY AboveSteps, LevelFacts
<1>2. ASSUME NEW j \in 1..k, j - 1 \in S PROVE j \in S
  <2>1. /\ j - 1 \in Nat /\ (j - 1) + 1 = j
        /\ Merkle!Above(place, j - 1) < Len(Merkle!Level(txs, j - 1))
    BY <1>2
  <2>2. /\ Merkle!Above(place, j - 1) \in Nat
        /\ Merkle!Above(place, j) = Merkle!Above(place, j - 1) \div 2
    BY <2>1, AboveSteps
  <2>3. Tall(Merkle!Level(txs, j - 1))
    BY <2>1, LevelFacts
  <2>4. Merkle!Level(txs, j) = Merkle!Parents(Merkle!Level(txs, j - 1))
    BY <2>1, LevelSteps
  <2>5. Merkle!Above(place, j) < Len(Merkle!Level(txs, j))
    BY <2>1, <2>2, <2>3, <2>4, SiblingsCombine
  <2>6. QED
    BY <2>5
<1>3. 0..k \subseteq S
  <2> HIDE DEF S
  <2> QED
    BY <1>1, <1>2, UpTo
<1>4. QED
  BY <1>3

LEMMA ProofLength ==
    ASSUME PartsAssumption, NEW txs \in Merkle!Blocks, NEW place
    PROVE  /\ Len(Merkle!ProofOf(txs, place)) = Merkle!Depth(txs)
           /\ \A k \in 1..Merkle!Depth(txs) :
                 Merkle!ProofOf(txs, place)[k] =
                     Merkle!Sibling(Merkle!Level(txs, k - 1), Merkle!Above(place, k - 1))
<1> DEFINE s == Merkle!ProofOf(txs, place)
           m == Merkle!Depth(txs)
<1>1. m \in Nat
  BY DepthFacts
<1>2. s = [k \in 1..m |-> s[k]]
  BY DEF Merkle!ProofOf
<1>3. \A k \in 1..m : s[k] = Merkle!Sibling(Merkle!Level(txs, k - 1), Merkle!Above(place, k - 1))
  BY DEF Merkle!ProofOf
<1>4. Len(s) = m
  <2> HIDE DEF s, m
  <2> QED
    BY <1>1, <1>2, LengthOf
<1>5. QED
  BY <1>3, <1>4

\* Bitcoin's proof of a transaction leads from its place on each level to the
\* one above it, and so to the root.
LEMMA ProofLeadsToRoot ==
    ASSUME PartsAssumption, NEW txs \in Merkle!Blocks,
           NEW place \in Nat, place < Len(txs),
           NEW c, Climbs(c, txs[place + 1], place, Merkle!ProofOf(txs, place),
                         Merkle!Depth(txs))
    PROVE  c[Merkle!Depth(txs)] = Merkle!Root(txs)
<1> DEFINE m == Merkle!Depth(txs)
           S == {k \in 0..m :
                    c[k] = Merkle!Level(txs, k)[Merkle!Above(place, k) + 1]}
<1>1. m \in Nat /\ Len(Merkle!Level(txs, m)) = 1
  BY DepthFacts
<1> HIDE DEF m
<1>2. 0 \in S
  <2>1. Merkle!Above(place, 0) = place /\ place + 1 \in 1..Len(txs)
    BY AboveSteps, BlockType
  <2>2. c[0] = <<txs[place + 1]>>
    BY DEF Climbs
  <2>3. Merkle!Level(txs, 0)[place + 1] = <<txs[place + 1]>>
    BY <2>1, LevelFacts
  <2>4. QED
    BY <1>1, <2>1, <2>2, <2>3
<1>3. ASSUME NEW k \in 1..m, k - 1 \in S PROVE k \in S
  <2> DEFINE level == Merkle!Level(txs, k - 1)
             at == Merkle!Above(place, k - 1)
  <2>1. k - 1 \in Nat /\ (k - 1) + 1 = k /\ k \in 0..m
    BY <1>1
  <2>2. c[k - 1] = level[at + 1]
    BY <1>3
  <2>3. at \in Nat /\ Merkle!Above(place, k) = at \div 2
    BY <2>1, AboveSteps
  <2>4. Tall(level) /\ Merkle!Level(txs, k) = Merkle!Parents(level)
    BY <2>1, LevelFacts, LevelSteps
  <2>5. at < Len(level)
    BY <2>1, PlaceWithin
  <2>6. c[k] = Merkle!Combined(c[k - 1], Merkle!Sibling(level, at), at)
    BY ProofLength DEF Climbs, m
  <2> HIDE DEF level, at
  <2>7. c[k] = Merkle!Parents(level)[at \div 2 + 1]
    BY <2>2, <2>3, <2>4, <2>5, <2>6, SiblingsCombine
  <2>8. QED
    BY <2>1, <2>3, <2>4, <2>7
<1>4. 0..m \subseteq S
  <2> HIDE DEF S
  <2> QED
    BY <1>1, <1>2, <1>3, UpTo
<1>5. c[m] = Merkle!Level(txs, m)[Merkle!Above(place, m) + 1]
  BY <1>1, <1>4
<1>6. Merkle!Above(place, m) = 0
  <2>1. Merkle!Above(place, m) \in Nat
    BY <1>1, AboveSteps
  <2>2. Merkle!Above(place, m) < Len(Merkle!Level(txs, m))
    BY <1>1, PlaceWithin
  <2>3. QED
    BY <1>1, <2>1, <2>2
<1>7. QED
  BY <1>5, <1>6 DEF Merkle!Root, m

\* The hash of a transaction is no hash of two, on any level.
LEMMA NoPair ==
    ASSUME NEW t, NEW hash, NEW sibling, NEW at \in Nat
    PROVE  Merkle!Combined(hash, sibling, at) # <<t>>
  BY DEF Merkle!Combined

\* A climb is, after k hashes, at one of the hashes of a level.
OnLevel(txs, c, k, level) ==
    \E place \in Nat : /\ place < Len(Merkle!Level(txs, level))
                      /\ c[k] = Merkle!Level(txs, level)[place + 1]

\* A climb that ends at the root, n levels down from there: it is at a hash of
\* the block.
LEMMA ComesFromLevel ==
    ASSUME PartsAssumption, NEW txs \in Merkle!Blocks, NEW t, NEW claimed \in Nat,
           NEW hashes, NEW m \in Nat, NEW c, Climbs(c, t, claimed, hashes, m),
           c[m] = Merkle!Root(txs),
           NEW n \in 0..m, n <= Merkle!Depth(txs)
    PROVE  OnLevel(txs, c, m - n, Merkle!Depth(txs) - n)
<1> DEFINE top == Merkle!Depth(txs)
           S == {d \in 0..n : OnLevel(txs, c, m - d, top - d)}
<1>1. top \in Nat /\ Len(Merkle!Level(txs, top)) = 1 /\ n <= top
  BY DepthFacts
<1>2. c[m] = Merkle!Level(txs, top)[0 + 1]
  BY DEF Merkle!Root
<1> HIDE DEF top
<1>3. 0 \in S
  <2>1. OnLevel(txs, c, m, top)
    BY <1>1, <1>2 DEF OnLevel
  <2>2. top - 0 = top /\ m - 0 = m /\ 0 \in 0..n
    <3> HIDE DEF S
    <3> QED
      BY <1>1
  <2>3. QED
    BY <2>1, <2>2
<1>4. ASSUME NEW d \in 1..n, d - 1 \in S PROVE d \in S
  <2> DEFINE level == Merkle!Level(txs, top - d)
  <2>1. /\ top - d \in Nat /\ (top - d) + 1 = top - (d - 1)
        /\ m - (d - 1) \in 1..m /\ (m - (d - 1)) - 1 = m - d /\ m - d \in Nat
    BY <1>1
  <2>2. PICK up \in Nat :
            /\ up < Len(Merkle!Level(txs, top - (d - 1)))
            /\ c[m - (d - 1)] = Merkle!Level(txs, top - (d - 1))[up + 1]
    BY <1>4 DEF OnLevel
  <2>3. Merkle!Level(txs, top - (d - 1)) = Merkle!Parents(level) /\ Tall(level)
    BY <2>1, LevelSteps, LevelFacts
  <2>4. c[m - (d - 1)] = Merkle!Combined(c[m - d], hashes[m - (d - 1)],
                                         Merkle!Above(claimed, m - d))
    BY <2>1 DEF Climbs
  <2>5. Merkle!Above(claimed, m - d) \in Nat
    BY <2>1, AboveSteps
  <2>6. \E place \in Nat : place < Len(level) /\ c[m - d] = level[place + 1]
    <3> DEFINE hash == c[m - d]
               sibling == hashes[m - (d - 1)]
               at == Merkle!Above(claimed, m - d)
    <3>1. /\ at \in Nat /\ up < Len(Merkle!Parents(level))
          /\ Merkle!Combined(hash, sibling, at) = Merkle!Parents(level)[up + 1]
          /\ Tall(level)
      BY <2>2, <2>3, <2>4, <2>5
    <3> HIDE DEF S, level, hash, sibling, at
    <3>2. \E place \in Nat : place < Len(level) /\ hash = level[place + 1]
      BY <3>1, PairsComeApart
    <3>3. QED
      BY <3>2 DEF hash
  <2>7. OnLevel(txs, c, m - d, top - d)
    BY <2>6 DEF OnLevel, level
  <2>8. QED
    BY <2>7
<1>5. 0..n \subseteq S
  <2> HIDE DEF S
  <2> QED
    BY <1>1, <1>3, <1>4, UpTo
<1>6. n \in S
  BY <1>1, <1>5
<1>7. QED
  BY <1>6 DEF top

\* So it climbs exactly as many levels as there are.
LEMMA ClimbsAllLevels ==
    ASSUME PartsAssumption, NEW txs \in Merkle!Blocks, NEW t, NEW claimed \in Nat,
           NEW hashes, NEW m \in Nat, NEW c, Climbs(c, t, claimed, hashes, m),
           c[m] = Merkle!Root(txs)
    PROVE  m = Merkle!Depth(txs)
<1> DEFINE top == Merkle!Depth(txs)
<1>1. top \in Nat
  BY DepthFacts
<1>2. ASSUME m < top PROVE FALSE
  <2>1. PICK place \in Nat : /\ place < Len(Merkle!Level(txs, top - m))
                             /\ c[0] = Merkle!Level(txs, top - m)[place + 1]
    <3>1. m \in 0..m /\ m <= top /\ m - m = 0
      BY <1>1, <1>2
    <3>2. OnLevel(txs, c, m - m, top - m)
      BY <3>1, ComesFromLevel
    <3>3. QED
      BY <3>1, <3>2 DEF OnLevel
  <2> DEFINE level == Merkle!Level(txs, top - m - 1)
  <2>2. top - m - 1 \in Nat /\ (top - m - 1) + 1 = top - m
    BY <1>1, <1>2
  <2>3. Tall(level) /\ Merkle!Level(txs, top - m) = Merkle!Parents(level)
    BY <2>2, LevelFacts, LevelSteps
  <2> HIDE DEF level
  <2>4. Len(Merkle!Parents(level)) \in Nat
    BY <2>3, ParentsFacts DEF Tall
  <2>5. place + 1 \in 1..Len(Merkle!Parents(level))
    BY <2>1, <2>3, <2>4
  <2>6. \E x, y : Merkle!Parents(level)[place + 1] = <<x, y>>
    BY <2>3, <2>5, ParentsFacts
  <2>7. c[0] = <<t>>
    BY DEF Climbs
  <2>8. \A x, y : <<t>> # <<x, y>>
    OBVIOUS
  <2>9. QED
    BY <2>1, <2>3, <2>6, <2>7, <2>8
<1>3. ASSUME top < m PROVE FALSE
  <2>1. PICK place \in Nat : /\ place < Len(Merkle!Level(txs, 0))
                             /\ c[m - top] = Merkle!Level(txs, 0)[place + 1]
    <3>1. top \in 0..m /\ top <= top /\ top - top = 0
      BY <1>1, <1>3
    <3>2. OnLevel(txs, c, m - top, top - top)
      BY <3>1, ComesFromLevel
    <3>3. QED
      BY <3>1, <3>2 DEF OnLevel
  <2>2. m - top \in 1..m /\ (m - top) - 1 \in Nat
    BY <1>1, <1>3
  <2>3. place + 1 \in 1..Len(txs)
    BY <2>1, <2>2, LevelFacts, BlockType
  <2>4. c[m - top] = <<txs[place + 1]>>
    BY <2>1, <2>2, <2>3, LevelFacts
  <2>5. c[m - top] = Merkle!Combined(c[m - top - 1], hashes[m - top],
                                     Merkle!Above(claimed, m - top - 1))
    BY <2>2 DEF Climbs
  <2>6. Merkle!Above(claimed, m - top - 1) \in Nat
    BY <2>2, AboveSteps
  <2>7. QED
    BY <2>4, <2>5, <2>6, NoPair
<1>4. QED
  BY <1>1, <1>2, <1>3

\* On level j a place is on the side the index says, unless it is on both.
OnSide(txs, j, place, claimed) ==
    \/ Merkle!Above(claimed, j) % 2 = place % 2
    \/ Merkle!Doubled(Merkle!Level(txs, j), place)

\* From the root down to the transaction: each level gives the place on it,
\* and the hash of the proof on that level.
StandsAt(txs, c, claimed, hashes, k, place) ==
    /\ place \in Nat /\ place < Len(Merkle!Level(txs, k))
    /\ c[k] = Merkle!Level(txs, k)[place + 1]
    /\ \A j \in k..(Merkle!Depth(txs) - 1) :
          /\ hashes[j + 1] = Merkle!Sibling(Merkle!Level(txs, j), Merkle!Above(place, j - k))
          /\ OnSide(txs, j, Merkle!Above(place, j - k), claimed)

LEMMA StandsOneBelow ==
    ASSUME PartsAssumption, NEW txs \in Merkle!Blocks, NEW t, NEW claimed \in Nat,
           NEW hashes, NEW c, Climbs(c, t, claimed, hashes, Merkle!Depth(txs)),
           NEW k \in 1..Merkle!Depth(txs),
           NEW up, StandsAt(txs, c, claimed, hashes, k, up)
    PROVE  \E place : StandsAt(txs, c, claimed, hashes, k - 1, place)
<1> DEFINE top == Merkle!Depth(txs)
           level == Merkle!Level(txs, k - 1)
           at == Merkle!Above(claimed, k - 1)
<1>1. top \in Nat /\ k - 1 \in Nat /\ (k - 1) + 1 = k
  BY DepthFacts
<1>2. Tall(level) /\ Merkle!Level(txs, k) = Merkle!Parents(level)
  BY <1>1, LevelFacts, LevelSteps
<1>3. at \in Nat
  BY <1>1, AboveSteps
<1>4. c[k] = Merkle!Combined(c[k - 1], hashes[k], at)
  BY DEF Climbs
<1>5. /\ up \in Nat /\ up < Len(Merkle!Parents(level))
      /\ c[k] = Merkle!Parents(level)[up + 1]
  BY <1>2 DEF StandsAt
<1>6. PICK place \in Nat :
          /\ place < Len(level) /\ place \div 2 = up
          /\ c[k - 1] = level[place + 1] /\ hashes[k] = Merkle!Sibling(level, place)
          /\ at % 2 = place % 2 \/ Merkle!Doubled(level, place)
  <2> DEFINE hash == c[k - 1]
             sibling == hashes[k]
  <2>1. /\ Tall(level) /\ at \in Nat /\ up \in Nat /\ up < Len(Merkle!Parents(level))
        /\ Merkle!Combined(hash, sibling, at) = Merkle!Parents(level)[up + 1]
    BY <1>2, <1>3, <1>4, <1>5
  <2> HIDE DEF level, at, hash, sibling
  <2>2. \E place \in Nat :
           /\ place < Len(level) /\ place \div 2 = up
           /\ hash = level[place + 1] /\ sibling = Merkle!Sibling(level, place)
           /\ at % 2 = place % 2 \/ Merkle!Doubled(level, place)
    BY <2>1, PairsComeApart
  <2>3. QED
    BY <2>2 DEF hash, sibling
<1>7. ASSUME NEW j \in (k - 1)..(top - 1)
      PROVE  /\ hashes[j + 1] = Merkle!Sibling(Merkle!Level(txs, j),
                                               Merkle!Above(place, j - (k - 1)))
             /\ OnSide(txs, j, Merkle!Above(place, j - (k - 1)), claimed)
  <2>1. CASE j = k - 1
    <3>1. j - (k - 1) = 0 /\ j + 1 = k
      BY <1>1, <2>1
    <3>2. Merkle!Above(place, 0) = place
      BY AboveSteps
    <3>3. QED
      BY <1>6, <2>1, <3>1, <3>2 DEF OnSide
  <2>2. CASE j # k - 1
    <3>1. j \in k..(top - 1) /\ j - k \in Nat /\ (j - k) + 1 = j - (k - 1)
      BY <1>1, <2>2
    <3>2. Merkle!Above(place, j - (k - 1)) = Merkle!Above(up, j - k)
      BY <1>6, <3>1, AboveHalved
    <3>3. QED
      BY <3>1, <3>2 DEF StandsAt
  <2>3. QED
    BY <2>1, <2>2
<1>8. StandsAt(txs, c, claimed, hashes, k - 1, place)
  BY <1>6, <1>7 DEF StandsAt
<1>9. QED
  BY <1>8

LEMMA StandsSomewhere ==
    ASSUME PartsAssumption, NEW txs \in Merkle!Blocks, NEW t, NEW claimed \in Nat,
           NEW hashes, NEW c, Climbs(c, t, claimed, hashes, Merkle!Depth(txs)),
           c[Merkle!Depth(txs)] = Merkle!Root(txs)
    PROVE  \E place : StandsAt(txs, c, claimed, hashes, 0, place)
<1> DEFINE top == Merkle!Depth(txs)
           S == {d \in 0..top : \E place : StandsAt(txs, c, claimed, hashes, top - d, place)}
<1>1. top \in Nat /\ Len(Merkle!Level(txs, top)) = 1
  BY DepthFacts
<1>2. 0 \in S
  <2>1. StandsAt(txs, c, claimed, hashes, top, 0)
    BY <1>1 DEF StandsAt, Merkle!Root
  <2>2. QED
    BY <1>1, <2>1
<1>3. ASSUME NEW d \in 1..top, d - 1 \in S PROVE d \in S
  <2>1. PICK up : StandsAt(txs, c, claimed, hashes, top - (d - 1), up)
    BY <1>3
  <2>2. top - (d - 1) \in 1..top /\ top - (d - 1) - 1 = top - d
    BY <1>1
  <2>3. \E place : StandsAt(txs, c, claimed, hashes, top - d, place)
    BY <2>1, <2>2, StandsOneBelow
  <2>4. QED
    BY <2>3
<1>4. 0..top \subseteq S
  <2> HIDE DEF S
  <2> QED
    BY <1>1, <1>2, <1>3, UpTo
<1>5. top \in S /\ top - top = 0
  BY <1>1, <1>4
<1>6. QED
  BY <1>5

\* An index within the block is on its own side everywhere, and nowhere else.
LEMMA SamePlace ==
    ASSUME PartsAssumption, NEW txs \in Merkle!Blocks,
           NEW claimed \in Nat, claimed < Len(txs),
           NEW place \in Nat, place < Len(txs),
           \A j \in 0..(Merkle!Depth(txs) - 1) :
               OnSide(txs, j, Merkle!Above(place, j), claimed)
    PROVE  place = claimed
<1> DEFINE top == Merkle!Depth(txs)
           S == {d \in 0..top : Merkle!Above(place, top - d) = Merkle!Above(claimed, top - d)}
<1>1. top \in Nat /\ Len(Merkle!Level(txs, top)) = 1
  BY DepthFacts
<1>2. ASSUME NEW k \in Nat
      PROVE  /\ Merkle!Above(place, k) \in Nat /\ Merkle!Above(claimed, k) \in Nat
             /\ Merkle!Above(place, k) < Len(Merkle!Level(txs, k))
             /\ Merkle!Above(claimed, k) < Len(Merkle!Level(txs, k))
             /\ Len(Merkle!Level(txs, k)) \in Nat
  <2>1. Len(Merkle!Level(txs, k)) \in Nat
    <3>1. Tall(Merkle!Level(txs, k))
      BY LevelFacts
    <3>2. QED
      BY <3>1 DEF Tall
  <2>2. Merkle!Above(place, k) \in Nat /\ Merkle!Above(claimed, k) \in Nat
    BY AboveSteps
  <2>3. /\ Merkle!Above(place, k) < Len(Merkle!Level(txs, k))
        /\ Merkle!Above(claimed, k) < Len(Merkle!Level(txs, k))
    BY PlaceWithin
  <2>4. QED
    BY <2>1, <2>2, <2>3
<1>3. 0 \in S
  <2>1. Merkle!Above(place, top) = 0 /\ Merkle!Above(claimed, top) = 0
    <3> HIDE DEF top, S
    <3>1. /\ Merkle!Above(place, top) \in Nat /\ Merkle!Above(place, top) < 1
          /\ Merkle!Above(claimed, top) \in Nat /\ Merkle!Above(claimed, top) < 1
      BY <1>1, <1>2
    <3>2. QED
      BY <3>1
  <2>2. QED
    BY <1>1, <2>1
<1>4. ASSUME NEW d \in 1..top, d - 1 \in S PROVE d \in S
  <2> DEFINE k == top - d
             x == Merkle!Above(place, k)
             y == Merkle!Above(claimed, k)
             len == Len(Merkle!Level(txs, k))
  <2>1. k \in Nat /\ k + 1 = top - (d - 1) /\ k \in 0..(top - 1)
    BY <1>1
  <2>2. x \div 2 = y \div 2
    <3>1. Merkle!Above(place, k + 1) = Merkle!Above(claimed, k + 1)
      BY <1>4, <2>1
    <3>2. QED
      BY <2>1, <3>1, AboveSteps
  <2>3. x \in Nat /\ y \in Nat /\ x < len /\ y < len /\ len \in Nat
    BY <1>2, <2>1
  <2>4. y % 2 = x % 2 \/ (x % 2 = 0 /\ x + 1 = len)
    <3>1. OnSide(txs, k, x, claimed)
      BY <2>1
    <3>2. QED
      BY <3>1 DEF OnSide, Merkle!Doubled
  <2> HIDE DEF S, k, x, y, len
  <2>5. x = y
    BY <2>2, <2>3, <2>4, SameHalf
  <2>6. QED
    BY <2>5 DEF S, k, x, y
<1>5. 0..top \subseteq S
  <2> HIDE DEF S
  <2> QED
    BY <1>1, <1>3, <1>4, UpTo
<1>6. Merkle!Above(place, 0) = Merkle!Above(claimed, 0)
  <2>1. top \in S /\ top - top = 0
    BY <1>1, <1>5
  <2>2. QED
    BY <2>1
<1>7. QED
  BY <1>6, AboveSteps

\* What climbs to the root of a block is a transaction of it, by the proof of a
\* place where it stands, which is that of the index if there is one.
LEMMA RootShowsPlace ==
    ASSUME PartsAssumption, NEW txs \in Merkle!Blocks, NEW t, NEW claimed \in Nat,
           NEW hashes, NEW m \in Nat, m = Len(hashes),
           hashes = [k \in 1..m |-> hashes[k]],
           NEW c, Climbs(c, t, claimed, hashes, m), c[m] = Merkle!Root(txs)
    PROVE  \E place \in 0..(Len(txs) - 1) :
               /\ t = txs[place + 1]
               /\ hashes = Merkle!ProofOf(txs, place)
               /\ \A k \in 0..(Merkle!Depth(txs) - 1) :
                     OnSide(txs, k, Merkle!Above(place, k), claimed)
               /\ claimed < Len(txs) => place = claimed
<1>1. m = Merkle!Depth(txs)
  BY ClimbsAllLevels
<1>2. PICK place : StandsAt(txs, c, claimed, hashes, 0, place)
  BY <1>1, StandsSomewhere
<1>3. /\ place \in Nat /\ place < Len(Merkle!Level(txs, 0))
      /\ c[0] = Merkle!Level(txs, 0)[place + 1]
      /\ \A k \in 0..(m - 1) :
            /\ hashes[k + 1] = Merkle!Sibling(Merkle!Level(txs, k), Merkle!Above(place, k))
            /\ OnSide(txs, k, Merkle!Above(place, k), claimed)
  <2>1. \A k \in 0..(m - 1) : k - 0 = k
    OBVIOUS
  <2>2. QED
    BY <1>1, <1>2, <2>1 DEF StandsAt
<1>4. place \in 0..(Len(txs) - 1) /\ place < Len(txs) /\ place + 1 \in 1..Len(txs)
  BY <1>3, LevelFacts, BlockType
<1>5. t = txs[place + 1]
  <2>1. <<t>> = <<txs[place + 1]>>
    BY <1>3, <1>4, LevelFacts DEF Climbs
  <2>2. QED
    BY <2>1
<1>6. hashes = Merkle!ProofOf(txs, place)
  <2> DEFINE s == Merkle!ProofOf(txs, place)
  <2>1. s = [k \in 1..m |-> s[k]]
    BY <1>1 DEF Merkle!ProofOf
  <2>2. ASSUME NEW k \in 1..m PROVE hashes[k] = s[k]
    <3>1. k - 1 \in 0..(m - 1) /\ (k - 1) + 1 = k
      OBVIOUS
    <3>2. hashes[k] = Merkle!Sibling(Merkle!Level(txs, k - 1), Merkle!Above(place, k - 1))
      BY <1>3, <3>1
    <3>3. QED
      BY <1>1, <3>2, ProofLength
  <2> HIDE DEF s
  <2>3. hashes = s
    BY <2>1, <2>2
  <2>4. QED
    BY <2>3 DEF s
<1>7. claimed < Len(txs) => place = claimed
  BY <1>1, <1>3, <1>4, SamePlace
<1>8. QED
  BY <1>1, <1>3, <1>4, <1>5, <1>6, <1>7

\* The loop has climbed as many hashes as it has taken turns, and its verdict
\* is about all of them.
MerkleInv ==
    /\ block \in Merkle!Blocks /\ stored \in BOOLEAN /\ txIndex \in Nat
    /\ Len(proof) \in Nat /\ proof = [k \in 1..Len(proof) |-> proof[k]]
    /\ turn \in 0..Len(proof) /\ index = Merkle!Above(txIndex, turn)
    /\ \E c : Climbs(c, tx, txIndex, proof, turn) /\ currentHash = c[turn]
    /\ currentHash # Merkle!Zero
    /\ verdict \in {"none", "true", "false"}
    /\ verdict # "none" => turn = Len(proof)
    /\ verdict = "true" => currentHash = Merkle!MerkleRoot
    /\ verdict = "false" => currentHash # Merkle!MerkleRoot

LEMMA MerkleStarts ==
    ASSUME PartsAssumption, Merkle!Init
    PROVE  MerkleInv
<1>1. /\ block \in Merkle!Blocks /\ stored \in BOOLEAN /\ txIndex \in Nat
      /\ verdict = "none" /\ turn = 0 /\ index = txIndex /\ currentHash = <<tx>>
  BY DEF Merkle!Init, PartsAssumption, Merkle!MerkleProofAssumption, Merkle!TxHash
<1>2. Len(proof) \in Nat /\ proof = [k \in 1..Len(proof) |-> proof[k]]
  <2>1. PICK n \in 0..MaxProof : proof \in [1..n -> Merkle!Nodes(block)]
    BY DEF Merkle!Init
  <2>2. n \in Nat /\ proof = [k \in 1..n |-> proof[k]]
    BY <2>1 DEF PartsAssumption, Merkle!MerkleProofAssumption
  <2>3. Len(proof) = n
    BY <2>2, LengthOf
  <2>4. QED
    BY <2>2, <2>3
<1>3. index = Merkle!Above(txIndex, turn)
  BY <1>1, AboveSteps
<1>4. Climbs([j \in 0..0 |-> <<tx>>], tx, txIndex, proof, turn)
  BY <1>1 DEF Climbs
<1>5. \E c : Climbs(c, tx, txIndex, proof, turn) /\ currentHash = c[turn]
  BY <1>1, <1>4
<1>6. currentHash # Merkle!Zero
  BY <1>1 DEF Merkle!Zero
<1>7. QED
  BY <1>1, <1>2, <1>3, <1>5, <1>6 DEF MerkleInv

LEMMA MerkleSteps ==
    ASSUME MerkleInv, [Merkle!Next]_Merkle!vars
    PROVE  MerkleInv'
<1>1. CASE Merkle!Climb
  <2> DEFINE up == Merkle!Combined(currentHash, proof[turn + 1], index)
  <2>1. /\ turn < Len(proof) /\ currentHash' = up
        /\ index' = index \div 2 /\ turn' = turn + 1
        /\ UNCHANGED <<block, stored, tx, txIndex, proof, verdict>>
    BY <1>1 DEF Merkle!Climb, Merkle!Halved
  <2>2. /\ turn \in Nat /\ turn + 1 \in 0..Len(proof) /\ verdict = "none"
        /\ txIndex \in Nat /\ index = Merkle!Above(txIndex, turn)
    BY <2>1 DEF MerkleInv
  <2>3. index \div 2 = Merkle!Above(txIndex, turn + 1)
    BY <2>2, AboveSteps
  <2>4. up # Merkle!Zero
    BY DEF Merkle!Combined, Merkle!Zero
  <2>5. PICK c : Climbs(c, tx, txIndex, proof, turn) /\ currentHash = c[turn]
    BY DEF MerkleInv
  <2> DEFINE d == [j \in 0..(turn + 1) |-> IF j = turn + 1 THEN up ELSE c[j]]
  <2>6. /\ d[turn + 1] = up /\ \A j \in 0..turn : d[j] = c[j]
    BY <2>2
  <2>7. Climbs(d, tx, txIndex, proof, turn + 1)
    <3>1. c[0] = <<tx>> /\ d[0] = c[0]
      BY <2>2, <2>5, <2>6 DEF Climbs
    <3>2. ASSUME NEW j \in 1..(turn + 1)
          PROVE  d[j] = Merkle!Combined(d[j - 1], proof[j], Merkle!Above(txIndex, j - 1))
      <4>1. CASE j = turn + 1
        <5>1. d[j] = up /\ d[j - 1] = currentHash /\ j - 1 = turn
          BY <2>2, <2>5, <2>6, <4>1
        <5>2. QED
          BY <2>2, <4>1, <5>1
      <4>2. CASE j # turn + 1
        <5>1. j \in 1..turn /\ d[j] = c[j] /\ d[j - 1] = c[j - 1]
          BY <2>2, <2>6, <4>2
        <5>2. QED
          BY <2>5, <5>1 DEF Climbs
      <4>3. QED
        BY <4>1, <4>2
    <3> HIDE DEF d
    <3>3. QED
      BY <3>1, <3>2 DEF Climbs
  <2>8. (\E e : Climbs(e, tx, txIndex, proof, turn) /\ currentHash = e[turn])'
    <3> HIDE DEF d, up
    <3> QED
      BY <2>1, <2>6, <2>7 DEF Climbs
  <2> HIDE DEF up
  <2>9. QED
    BY <2>1, <2>2, <2>3, <2>4, <2>8 DEF MerkleInv
<1>2. CASE Merkle!Compare
  BY <1>2 DEF Merkle!Compare, MerkleInv, Climbs, Merkle!MerkleRoot
<1>3. CASE UNCHANGED Merkle!vars
  BY <1>3 DEF Merkle!vars, MerkleInv, Climbs, Merkle!MerkleRoot
<1>4. QED
  BY <1>1, <1>2, <1>3 DEF Merkle!Next

LEMMA MerkleShows ==
    ASSUME PartsAssumption, MerkleInv
    PROVE  Merkle!Sound /\ Merkle!StandsAtIndex
<1>1. SUFFICES ASSUME verdict = "true"
               PROVE  /\ stored
                      /\ \E place \in 0..(Len(block) - 1) :
                            /\ tx = block[place + 1]
                            /\ proof = Merkle!ProofOf(block, place)
                            /\ \A k \in 0..(Merkle!Depth(block) - 1) :
                                  OnSide(block, k, Merkle!Above(place, k), txIndex)
                            /\ txIndex < Len(block) => place = txIndex
  <2>1. ASSUME NEW place \in 0..(Len(block) - 1), tx = block[place + 1]
        PROVE  tx \in Merkle!Range(block)
    <3>1. place + 1 \in DOMAIN block
      BY BlockType DEF MerkleInv
    <3>2. QED
      BY <2>1, <3>1 DEF Merkle!Range
  <2>2. QED
    BY <2>1 DEF Merkle!Sound, Merkle!StandsAtIndex, OnSide
<1>2. PICK c : Climbs(c, tx, txIndex, proof, turn) /\ currentHash = c[turn]
  BY DEF MerkleInv
<1>3. /\ turn = Len(proof) /\ currentHash = Merkle!MerkleRoot
      /\ currentHash # Merkle!Zero
      /\ block \in Merkle!Blocks /\ txIndex \in Nat
      /\ Len(proof) \in Nat /\ proof = [k \in 1..Len(proof) |-> proof[k]]
  BY <1>1 DEF MerkleInv
<1>4. stored /\ currentHash = Merkle!Root(block)
  BY <1>3 DEF Merkle!MerkleRoot
<1> DEFINE m == Len(proof)
<1>5. /\ m \in Nat /\ m = Len(proof) /\ proof = [k \in 1..m |-> proof[k]]
      /\ Climbs(c, tx, txIndex, proof, m) /\ c[m] = Merkle!Root(block)
  BY <1>2, <1>3, <1>4
<1> HIDE DEF m
<1>6. QED
  BY <1>3, <1>4, <1>5, RootShowsPlace

LEMMA MerkleAccepts ==
    ASSUME PartsAssumption, MerkleInv
    PROVE  Merkle!Complete
<1>1. SUFFICES ASSUME stored, txIndex < Len(block), tx = block[txIndex + 1],
                      proof = Merkle!ProofOf(block, txIndex), verdict = "false"
               PROVE  FALSE
  BY DEF Merkle!Complete
<1>2. PICK c : Climbs(c, tx, txIndex, proof, turn) /\ currentHash = c[turn]
  BY DEF MerkleInv
<1>3. /\ turn = Len(proof) /\ currentHash # Merkle!Root(block)
      /\ block \in Merkle!Blocks /\ txIndex \in Nat
  BY <1>1 DEF MerkleInv, Merkle!MerkleRoot
<1>4. Len(proof) = Merkle!Depth(block)
  BY <1>1, <1>3, ProofLength
<1>5. c[Merkle!Depth(block)] = Merkle!Root(block)
  BY <1>1, <1>2, <1>3, <1>4, ProofLeadsToRoot
<1>6. QED
  BY <1>2, <1>3, <1>4, <1>5

LEMMA MerkleRuns ==
    /\ PartsInit /\ part = "merkle" => Merkle!Init
    /\ part = "merkle" /\ [PartsNext]_partsVars => [Merkle!Next]_Merkle!vars
  BY DEF PartsInit, PartsNext, partsVars, merkleVars, Merkle!vars

LEMMA MerkleInPart ==
    PartsSpec => [](part = "merkle" => MerkleInv)
<1>1. PartsInit /\ part = "merkle" => MerkleInv
  BY PartsAssumption, MerkleRuns, MerkleStarts
<1>2. (part = "merkle" => MerkleInv) /\ [PartsNext]_partsVars
        => (part = "merkle" => MerkleInv)'
  BY PartStays, MerkleRuns, MerkleSteps
<1>3. QED
  BY <1>1, <1>2, PTL DEF PartsSpec

\* Whatever block the contract has a header of, and whatever hashes of it a
\* caller strings together, only a transaction of that block is accepted, by
\* the proof of a place where it stands: that of the index, if the block has a
\* transaction there.
THEOREM ProofsShowMembers == PartsSpec => []Sound
<1>1. (part = "merkle" => MerkleInv) => Sound
  BY PartsAssumption, MerkleShows DEF Sound
<1>2. QED
  BY <1>1, MerkleInPart, PTL

\* Bitcoin's own proof of a transaction is accepted, in a block of any size.
THEOREM MembersAreShown == PartsSpec => []Complete
<1>1. (part = "merkle" => MerkleInv) => Complete
  BY PartsAssumption, MerkleAccepts DEF Complete
<1>2. QED
  BY <1>1, MerkleInPart, PTL

----------------------------------------------------------------------------
\* StateCodec: bytes and numbers.

LEMMA CodecTypes ==
    ASSUME PartsAssumption
    PROVE  /\ Base \in Nat \ {0, 1}
           /\ Int64Len \in Nat \ {0} /\ Uint32Len \in Nat \ {0} /\ IdLen \in Nat \ {0}
  BY DEF PartsAssumption, Codec!StateCodecAssumption

LEMMA Divides ==
    ASSUME NEW n \in Nat, NEW b \in Nat \ {0}
    PROVE  /\ n \div b \in Nat /\ n % b \in 0..(b - 1)
           /\ n = (n \div b) * b + (n % b)
  OBVIOUS

LEMMA ShiftFacts ==
    ASSUME PartsAssumption, NEW n \in Nat, NEW width \in Nat
    PROVE  LET shift == Codec!Shifts(n, width)
           IN  /\ shift \in [0..width -> Nat] /\ shift[0] = n
               /\ \A j \in 1..width : shift[j] = shift[j - 1] \div Base
<1> DEFINE g == [p \in (1..width) \X Nat |-> p[2] \div Base]
           Shifting(f) == f = [j \in 0..width |-> IF j = 0 THEN n ELSE f[j - 1] \div Base]
           shift == CHOOSE f : Shifting(f)
<1>1. g \in Iterations(width, Nat)
  <2>1. \A p \in (1..width) \X Nat : p[2] \div Base \in Nat
    BY CodecTypes, Divides
  <2>2. QED
    BY <2>1 DEF Iterations
<1>2. \A j \in 1..width, x \in Nat : g[<<j, x>>] = x \div Base
  OBVIOUS
<1>3. \A j \in 0..width : j = 0 \/ j \in 1..width
  OBVIOUS
<1> HIDE DEF g
<1>4. \E f : Shifting(f)
  <2>1. PICK f : f \in Runs(width, Nat, n, g)
    BY <1>1, RunExists
  <2>2. /\ f \in [0..width -> Nat] /\ f[0] = n
        /\ \A j \in 1..width : f[j] = g[<<j, f[j - 1]>>]
    BY <2>1 DEF Runs
  <2>3. \A j \in 1..width : f[j] = f[j - 1] \div Base
    <3>1. ASSUME NEW j \in 1..width PROVE f[j] = f[j - 1] \div Base
      <4>1. f[j - 1] \in Nat
        BY <2>2
      <4>2. QED
        BY <1>2, <2>2, <4>1
    <3>2. QED
      BY <3>1
  <2>4. Shifting(f)
    BY <1>3, <2>2, <2>3
  <2>5. QED
    BY <2>4
<1>5. Shifting(shift)
  BY <1>4
<1>6. Codec!Shifts(n, width) = shift
  BY DEF Codec!Shifts
<1>7. \A j \in 0..width : shift[j] = IF j = 0 THEN n ELSE shift[j - 1] \div Base
  BY <1>5
<1>8. shift = [j \in 0..width |-> shift[j]]
  BY <1>5
<1> HIDE DEF shift
<1>9. \A j \in 1..width : shift[j] = shift[j - 1] \div Base
  BY <1>7
<1>10. shift[0] = n
  BY <1>7
<1> DEFINE S == {j \in 0..width : shift[j] \in Nat}
<1>11. 0 \in S
  BY <1>10
<1>12. ASSUME NEW j \in 1..width, j - 1 \in S PROVE j \in S
  <2>1. shift[j - 1] \in Nat /\ shift[j] = shift[j - 1] \div Base
    BY <1>9, <1>12
  <2> DEFINE x == shift[j - 1]
  <2> HIDE DEF x, S
  <2>2. x \div Base \in Nat
    BY <2>1, CodecTypes, Divides DEF x
  <2>3. QED
    BY <2>1, <2>2 DEF x, S
<1>13. 0..width \subseteq S
  <2> HIDE DEF S
  <2> QED
    BY <1>11, <1>12, UpTo
<1>14. shift \in [0..width -> Nat]
  BY <1>8, <1>13
<1>15. QED
  BY <1>6, <1>9, <1>10, <1>14

LEMMA PowerFacts ==
    ASSUME PartsAssumption, NEW width \in Nat
    PROVE  \E power \in [0..width -> Nat \ {0}] :
              /\ power[0] = 1 /\ Codec!Power(width) = power[width]
              /\ \A j \in 1..width : power[j] = power[j - 1] * Base
<1> DEFINE Y == Nat \ {0}
           g == [p \in (1..width) \X Y |-> p[2] * Base]
           Rising(f) == f = [j \in 0..width |-> IF j = 0 THEN 1 ELSE f[j - 1] * Base]
           power == CHOOSE f : Rising(f)
<1>1. g \in Iterations(width, Y)
  <2>1. \A p \in (1..width) \X Y : p[2] * Base \in Y
    BY CodecTypes
  <2>2. QED
    BY <2>1 DEF Iterations
<1>2. \A j \in 1..width, x \in Y : g[<<j, x>>] = x * Base
  OBVIOUS
<1>3. 1 \in Y /\ \A j \in 0..width : j = 0 \/ j \in 1..width
  OBVIOUS
<1> HIDE DEF g, Y
<1>4. \E f : Rising(f)
  <2>1. PICK f : f \in Runs(width, Y, 1, g)
    BY <1>1, <1>3, RunExists
  <2>2. /\ f \in [0..width -> Y] /\ f[0] = 1
        /\ \A j \in 1..width : f[j] = g[<<j, f[j - 1]>>]
    BY <2>1 DEF Runs
  <2>3. ASSUME NEW j \in 1..width PROVE f[j] = f[j - 1] * Base
    <3>1. f[j - 1] \in Y
      BY <2>2
    <3>2. QED
      BY <1>2, <2>2, <3>1
  <2>4. Rising(f)
    BY <1>3, <2>2, <2>3
  <2>5. QED
    BY <2>4
<1>5. Rising(power)
  BY <1>4
<1>6. Codec!Power(width) = power[width]
  BY DEF Codec!Power
<1>7. \A j \in 0..width : power[j] = IF j = 0 THEN 1 ELSE power[j - 1] * Base
  BY <1>5
<1>8. power = [j \in 0..width |-> power[j]]
  BY <1>5
<1> HIDE DEF power
<1>9. \A j \in 1..width : power[j] = power[j - 1] * Base
  BY <1>7
<1>10. power[0] = 1
  BY <1>7
<1> DEFINE S == {j \in 0..width : power[j] \in Y}
<1>11. 0 \in S
  BY <1>3, <1>10
<1>12. ASSUME NEW j \in 1..width, j - 1 \in S PROVE j \in S
  <2>1. power[j - 1] \in Nat \ {0}
    BY <1>12 DEF Y
  <2>2. power[j] \in Nat \ {0}
    BY <1>9, <2>1, CodecTypes
  <2>3. QED
    BY <2>2 DEF Y
<1>13. 0..width \subseteq S
  <2> HIDE DEF S
  <2> QED
    BY <1>11, <1>12, UpTo
<1>14. power \in [0..width -> Nat \ {0}]
  BY <1>8, <1>13 DEF Y
<1>15. QED
  BY <1>6, <1>9, <1>10, <1>14

\* A number that width bytes can hold is gone after as many shifts.
LEMMA ShiftedOut ==
    ASSUME PartsAssumption, NEW n \in Nat, NEW width \in Nat, n < Codec!Power(width)
    PROVE  Codec!Shifts(n, width)[width] = 0
<1> DEFINE shift == Codec!Shifts(n, width)
<1>1. PICK power \in [0..width -> Nat \ {0}] :
          /\ power[0] = 1 /\ Codec!Power(width) = power[width]
          /\ \A j \in 1..width : power[j] = power[j - 1] * Base
  BY PowerFacts
<1>2. /\ shift \in [0..width -> Nat] /\ shift[0] = n
      /\ \A j \in 1..width : shift[j] = shift[j - 1] \div Base
  BY ShiftFacts
<1> HIDE DEF shift
<1> DEFINE S == {j \in 0..width : shift[j] < power[width - j]}
<1>3. 0 \in S
  BY <1>1, <1>2
<1>4. ASSUME NEW j \in 1..width, j - 1 \in S PROVE j \in S
  <2>1. /\ shift[j - 1] < power[width - (j - 1)] /\ shift[j - 1] \in Nat
        /\ width - (j - 1) \in 1..width /\ width - (j - 1) - 1 = width - j
    BY <1>2, <1>4
  <2>2. power[width - (j - 1)] = power[width - j] * Base /\ power[width - j] \in Nat
    BY <1>1, <2>1
  <2>3. shift[j] = shift[j - 1] \div Base
    BY <1>2
  <2> DEFINE x == shift[j - 1]
             y == power[width - j]
  <2>4. x \in Nat /\ y \in Nat /\ x < y * Base /\ Base \in Nat \ {0}
    BY <2>1, <2>2, CodecTypes
  <2> HIDE DEF x, y, S
  <2>5. x \div Base < y
    BY <2>4
  <2>6. QED
    BY <2>3, <2>5 DEF x, y, S
<1>5. 0..width \subseteq S
  <2> HIDE DEF S
  <2> QED
    BY <1>3, <1>4, UpTo
<1>6. shift[width] < power[0]
  <2>1. width \in S /\ width - width = 0
    BY <1>5
  <2>2. QED
    BY <2>1
<1>7. QED
  BY <1>1, <1>2, <1>6 DEF shift

\* PutUint makes width bytes.
LEMMA PutUintFacts ==
    ASSUME PartsAssumption, NEW n \in Nat, NEW width \in Nat
    PROVE  /\ Codec!PutUint(n, width) \in [1..width -> Codec!Byte]
           /\ Codec!PutUint(n, width) \in Seq(Codec!Byte)
           /\ Len(Codec!PutUint(n, width)) = width
           /\ \A k \in 1..width :
                 Codec!PutUint(n, width)[k] = Codec!Shifts(n, width)[width - k] % Base
<1> DEFINE bytes == Codec!PutUint(n, width)
<1>1. ASSUME NEW k \in 1..width
      PROVE  Codec!Shifts(n, width)[width - k] % Base \in Codec!Byte
  <2>1. Codec!Shifts(n, width)[width - k] \in Nat
    BY ShiftFacts
  <2>2. QED
    BY <2>1, CodecTypes, Divides DEF Codec!Byte
<1>2. /\ bytes \in [1..width -> Codec!Byte]
      /\ \A k \in 1..width : bytes[k] = Codec!Shifts(n, width)[width - k] % Base
  BY <1>1 DEF Codec!PutUint
<1> HIDE DEF bytes
<1>3. bytes \in Seq(Codec!Byte) /\ Len(bytes) = width
  BY <1>2
<1>4. QED
  BY <1>2, <1>3 DEF bytes

\* What is written in big-endian order is read back.
LEMMA UintComesBack ==
    ASSUME PartsAssumption, NEW n \in Nat, NEW width \in Nat, n < Codec!Power(width)
    PROVE  Codec!Uint(Codec!PutUint(n, width)) = n
<1> DEFINE bytes == Codec!PutUint(n, width)
           shift == Codec!Shifts(n, width)
           g == [p \in (1..width) \X Nat |-> p[2] * Base + bytes[p[1]]]
           Reading(f) == f = [k \in 0..width |->
                                 IF k = 0 THEN 0 ELSE f[k - 1] * Base + bytes[k]]
           read == CHOOSE f : Reading(f)
<1>1. /\ Len(bytes) = width
      /\ \A k \in 1..width : bytes[k] \in Nat /\ bytes[k] = shift[width - k] % Base
  <2>1. /\ Len(bytes) = width /\ bytes \in [1..width -> Codec!Byte]
        /\ \A k \in 1..width : bytes[k] = shift[width - k] % Base
    BY PutUintFacts
  <2> HIDE DEF bytes, shift
  <2>2. Codec!Byte \subseteq Nat
    BY DEF Codec!Byte
  <2>3. QED
    BY <2>1, <2>2
<1>2. /\ shift \in [0..width -> Nat] /\ shift[0] = n /\ shift[width] = 0
      /\ \A j \in 1..width : shift[j] = shift[j - 1] \div Base
  BY ShiftFacts, ShiftedOut
<1>3. Codec!Uint(bytes) = read[width]
  BY <1>1 DEF Codec!Uint
<1> HIDE DEF bytes, shift
<1>4. g \in Iterations(width, Nat)
  <2>1. ASSUME NEW p \in (1..width) \X Nat PROVE p[2] * Base + bytes[p[1]] \in Nat
    <3>1. p[2] \in Nat /\ bytes[p[1]] \in Nat /\ Base \in Nat
      BY <1>1, CodecTypes
    <3>2. QED
      BY <3>1
  <2>2. QED
    BY <2>1 DEF Iterations
<1>5. /\ \A k \in 1..width, x \in Nat : g[<<k, x>>] = x * Base + bytes[k]
      /\ \A k \in 0..width : k = 0 \/ k \in 1..width
  OBVIOUS
<1> HIDE DEF g
<1>6. \E f : Reading(f)
  <2>1. PICK f : f \in Runs(width, Nat, 0, g)
    BY <1>4, RunExists
  <2>2. /\ f \in [0..width -> Nat] /\ f[0] = 0
        /\ \A k \in 1..width : f[k] = g[<<k, f[k - 1]>>]
    BY <2>1 DEF Runs
  <2>3. ASSUME NEW k \in 1..width PROVE f[k] = f[k - 1] * Base + bytes[k]
    <3>1. f[k - 1] \in Nat
      BY <2>2
    <3>2. QED
      BY <1>5, <2>2, <3>1
  <2>4. Reading(f)
    BY <1>5, <2>2, <2>3
  <2>5. QED
    BY <2>4
<1>7. Reading(read)
  BY <1>6
<1>8. \A k \in 0..width : read[k] = IF k = 0 THEN 0 ELSE read[k - 1] * Base + bytes[k]
  BY <1>7
<1> HIDE DEF read
<1> DEFINE S == {k \in 0..width : read[k] = shift[width - k]}
<1>9. 0 \in S
  BY <1>2, <1>8
<1>10. ASSUME NEW k \in 1..width, k - 1 \in S PROVE k \in S
  <2>1. width - k \in 0..width /\ width - (k - 1) \in 1..width
        /\ width - (k - 1) - 1 = width - k /\ k \in 0..width /\ k # 0
    OBVIOUS
  <2>2. /\ read[k] = read[k - 1] * Base + bytes[k]
        /\ read[k - 1] = shift[width - (k - 1)]
        /\ bytes[k] = shift[width - k] % Base
    BY <1>1, <1>8, <1>10, <2>1
  <2>3. shift[width - (k - 1)] = shift[width - k] \div Base /\ shift[width - k] \in Nat
    BY <1>2, <2>1
  <2> DEFINE x == shift[width - k]
  <2>4. x \in Nat /\ Base \in Nat \ {0} /\ read[k] = (x \div Base) * Base + (x % Base)
    BY <2>2, <2>3, CodecTypes
  <2> HIDE DEF x, S
  <2>5. read[k] = x
    BY <2>4, Divides
  <2>6. QED
    BY <2>1, <2>5 DEF S, x
<1>11. 0..width \subseteq S
  <2> HIDE DEF S
  <2> QED
    BY <1>9, <1>10, UpTo
<1>12. read[width] = shift[0]
  <2>1. width \in S /\ width - width = 0
    BY <1>11
  <2>2. QED
    BY <2>1
<1>13. QED
  BY <1>2, <1>3, <1>12 DEF bytes

LEMMA PowerType ==
    ASSUME PartsAssumption, NEW width \in Nat
    PROVE  Codec!Power(width) \in Nat \ {0}
<1>1. PICK power \in [0..width -> Nat \ {0}] : Codec!Power(width) = power[width]
  BY PowerFacts
<1>2. QED
  BY <1>1

\* An int64 and the uint64 with the same bits.
LEMMA SameBits ==
    ASSUME PartsAssumption, NEW n \in Codec!Int64s
    PROVE  /\ n % Codec!Power(Int64Len) \in Nat
           /\ n % Codec!Power(Int64Len) < Codec!Power(Int64Len)
           /\ Codec!Int64(n % Codec!Power(Int64Len)) = n
<1> DEFINE m == Codec!Power(Int64Len)
<1>1. m \in Nat \ {0}
  BY CodecTypes, PowerType
<1>2. n \in Int /\ 0 - m <= 2 * n /\ 2 * n < m
  BY DEF Codec!Int64s
<1> HIDE DEF m
<1>3. n % m = IF n < 0 THEN n + m ELSE n
  BY <1>1, <1>2
<1>4. n % m \in Nat /\ n % m < m
  BY <1>1, <1>2, <1>3
<1>5. (IF 2 * (n % m) >= m THEN (n % m) - m ELSE n % m) = n
  BY <1>1, <1>2, <1>3
<1>6. QED
  BY <1>4, <1>5 DEF Codec!Int64, m

LEMMA PutInt64Facts ==
    ASSUME PartsAssumption, NEW n \in Codec!Int64s
    PROVE  /\ Codec!PutInt64(n) \in [1..Int64Len -> Codec!Byte]
           /\ Codec!PutInt64(n) \in Seq(Codec!Byte) /\ Len(Codec!PutInt64(n)) = Int64Len
           /\ Codec!Int64(Codec!Uint(Codec!PutInt64(n))) = n
<1> DEFINE bits == n % Codec!Power(Int64Len)
<1>1. bits \in Nat /\ bits < Codec!Power(Int64Len) /\ Codec!Int64(bits) = n
  BY SameBits
<1>2. Int64Len \in Nat
  BY CodecTypes
<1>3. Codec!PutInt64(n) = Codec!PutUint(bits, Int64Len)
  BY DEF Codec!PutInt64
<1> HIDE DEF bits
<1>4. Codec!Uint(Codec!PutUint(bits, Int64Len)) = bits
  BY <1>1, <1>2, UintComesBack
<1>5. QED
  BY <1>1, <1>2, <1>3, <1>4, PutUintFacts

LEMMA GetInt64Back ==
    ASSUME PartsAssumption, NEW n \in Codec!Int64s, NEW data, NEW offset,
           SubSeq(data, offset + 1, offset + Int64Len) = Codec!PutInt64(n)
    PROVE  Codec!GetInt64(data, offset) = n
  BY PutInt64Facts DEF Codec!GetInt64

----------------------------------------------------------------------------
\* StateCodec: layouts.

\* The bytes of data after the first offset ones.
LEMMA Slice ==
    ASSUME NEW S, NEW data \in Seq(S), NEW offset \in Nat,
           NEW t \in Seq(S), offset + Len(t) <= Len(data),
           \A j \in 1..Len(t) : data[offset + j] = t[j]
    PROVE  SubSeq(data, offset + 1, offset + Len(t)) = t
<1> DEFINE m == offset + 1
           n == offset + Len(t)
           sub == SubSeq(data, m, n)
<1>1. m \in Int /\ n \in Int /\ n - m + 1 = Len(t) /\ Len(t) \in Nat
  OBVIOUS
<1>2. \A i \in m..n : data[i] \in S
  BY ElementOfSeq
<1> HIDE DEF m, n
<1>3. /\ sub \in Seq(S) /\ Len(sub) = (IF m <= n THEN n - m + 1 ELSE 0)
      /\ \A i \in 1..(n - m + 1) : sub[i] = data[m + i - 1]
  BY <1>1, <1>2, SubSeqProperties
<1> HIDE DEF sub
<1>4. Len(sub) = Len(t)
  BY <1>1, <1>3
<1>5. ASSUME NEW i \in 1..Len(sub) PROVE sub[i] = t[i]
  <2>1. sub[i] = data[m + i - 1] /\ m + i - 1 = offset + i
    BY <1>1, <1>3, <1>4 DEF m
  <2>2. QED
    BY <1>4, <2>1
<1>6. sub = t
  BY <1>3, <1>4, <1>5, SeqEqual
<1>7. QED
  BY <1>6 DEF sub, m, n

StartsWith(data, s) ==
    Len(s) <= Len(data) /\ \A i \in 1..Len(s) : data[i] = s[i]

LEMMA StartsWithItself ==
    ASSUME NEW S, NEW data \in Seq(S)
    PROVE  StartsWith(data, data)
  BY DEF StartsWith

\* What was written after s is read after s.
ReadAfter(data, s, t) ==
    /\ Len(s) + Len(t) <= Len(data)
    /\ SubSeq(data, Len(s) + 1, Len(s) + Len(t)) = t
    /\ \A j \in 1..Len(t) : data[Len(s) + j] = t[j]

LEMMA Written ==
    ASSUME NEW S, NEW data \in Seq(S), NEW s \in Seq(S), NEW t \in Seq(S),
           StartsWith(data, s \o t)
    PROVE  StartsWith(data, s) /\ ReadAfter(data, s, t)
<1>1. /\ Len(s \o t) = Len(s) + Len(t) /\ Len(s) \in Nat /\ Len(t) \in Nat
      /\ \A i \in 1..(Len(s) + Len(t)) :
            (s \o t)[i] = IF i <= Len(s) THEN s[i] ELSE t[i - Len(s)]
  BY ConcatProperties
<1>2. /\ Len(s) + Len(t) <= Len(data)
      /\ \A i \in 1..(Len(s) + Len(t)) : data[i] = (s \o t)[i]
  BY <1>1 DEF StartsWith
<1>3. ASSUME NEW i \in 1..Len(s) PROVE data[i] = s[i]
  BY <1>1, <1>2
<1>4. ASSUME NEW j \in 1..Len(t) PROVE data[Len(s) + j] = t[j]
  <2>1. Len(s) + j \in 1..(Len(s) + Len(t)) /\ ~(Len(s) + j <= Len(s)) /\ Len(s) + j - Len(s) = j
    BY <1>1
  <2>2. QED
    BY <1>1, <1>2, <2>1
<1>5. SubSeq(data, Len(s) + 1, Len(s) + Len(t)) = t
  BY <1>1, <1>2, <1>4, Slice
<1>6. StartsWith(data, s)
  BY <1>1, <1>2, <1>3 DEF StartsWith
<1>7. QED
  BY <1>2, <1>4, <1>5, <1>6 DEF ReadAfter

LEMMA Quotient ==
    ASSUME NEW q \in Nat, NEW b \in Nat \ {0}, NEW r \in 0..(b - 1)
    PROVE  (q * b + r) \div b = q /\ (q * b + r) % b = r
  OBVIOUS

\* The entries, all of one width, lie one after the other in data.
InPlace(data, entries, width) ==
    /\ Len(data) = Len(entries) * width
    /\ Len(data) % width = 0 /\ Len(data) \div width = Len(entries)
    /\ \A k \in 1..Len(entries), j \in 1..width :
          /\ (k - 1) * width + j \in 1..Len(data)
          /\ data[(k - 1) * width + j] = entries[k][j]

LEMMA PackedFacts ==
    ASSUME NEW S, NEW width \in Nat \ {0}, NEW entries \in Seq([1..width -> S]),
           NEW data, data = Codec!Packed(entries, width)
    PROVE  data \in Seq(S) /\ InPlace(data, entries, width)
<1> DEFINE n == Len(entries)
           total == n * width
<1>1. n \in Nat /\ total \in Nat
  OBVIOUS
<1>2. /\ data = [p \in 1..total |-> data[p]]
      /\ \A p \in 1..total : data[p] = entries[((p - 1) \div width) + 1][((p - 1) % width) + 1]
  BY DEF Codec!Packed
<1>3. ASSUME NEW p \in 1..total
      PROVE  ((p - 1) \div width) + 1 \in 1..n /\ ((p - 1) % width) + 1 \in 1..width
  <2> DEFINE q == (p - 1) \div width
             r == (p - 1) % width
  <2>1. q \in Nat /\ r \in 0..(width - 1) /\ p - 1 = q * width + r
    <3> DEFINE x == p - 1
    <3>1. x \in Nat
      BY <1>1
    <3> HIDE DEF x
    <3>2. /\ x \div width \in Nat /\ x % width \in 0..(width - 1)
          /\ x = (x \div width) * width + (x % width)
      BY <3>1, Divides
    <3>3. QED
      BY <3>2 DEF x
  <2> HIDE DEF q, r
  <2>2. q < n
    <3>1. q * width < n * width
      BY <1>1, <2>1
    <3> HIDE DEF n
    <3>2. QED
      BY <1>1, <2>1, <3>1
  <2>3. q + 1 \in 1..n /\ r + 1 \in 1..width
    BY <1>1, <2>1, <2>2
  <2>4. QED
    BY <2>3 DEF q, r
<1>4. ASSUME NEW p \in 1..total PROVE data[p] \in S
  <2>1. entries[((p - 1) \div width) + 1] \in [1..width -> S]
    BY <1>3, ElementOfSeq
  <2>2. QED
    BY <1>2, <1>3, <2>1
<1>5. total % width = 0 /\ total \div width = n
  <2>1. 0 \in 0..(width - 1) /\ total = n * width + 0
    BY <1>1
  <2> HIDE DEF n, total
  <2>2. QED
    BY <1>1, <2>1, Quotient
<1>6. ASSUME NEW k \in 1..n, NEW j \in 1..width
      PROVE  /\ (k - 1) * width + j \in 1..total
             /\ data[(k - 1) * width + j] = entries[k][j]
  <2> DEFINE p == (k - 1) * width + j
             q == k - 1
             r == j - 1
  <2>1. q \in Nat /\ r \in 0..(width - 1) /\ p - 1 = q * width + r /\ q + 1 = k /\ r + 1 = j
    BY <1>1
  <2>2. (q * width + r) \div width = q /\ (q * width + r) % width = r
    <3> HIDE DEF q, r
    <3> QED
      BY <2>1, Quotient
  <2>3. p \in 1..total
    <3>1. q + 1 <= n
      BY <2>1
    <3>2. q * width + width <= total
      <4> HIDE DEF q, n
      <4>1. (q + 1) * width <= n * width
        BY <1>1, <2>1, <3>1
      <4>2. QED
        BY <1>1, <2>1, <4>1
    <3> HIDE DEF q, r, total
    <3>3. p - 1 >= 0 /\ p <= total
      <4>1. q * width \in Nat
        BY <2>1
      <4> DEFINE x == q * width
      <4> HIDE DEF x, p
      <4>2. x \in Nat /\ x + width <= total /\ p - 1 = x + r /\ p \in Int
        BY <2>1, <3>2, <4>1 DEF x, p, q
      <4>3. QED
        BY <1>1, <2>1, <4>2
    <3>4. QED
      BY <1>1, <3>3
  <2>4. ((p - 1) \div width) + 1 = k /\ ((p - 1) % width) + 1 = j
    BY <2>1, <2>2
  <2>5. QED
    BY <1>2, <2>3, <2>4
<1>7. data \in Seq(S) /\ Len(data) = total
  <2> HIDE DEF total
  <2>1. data \in [1..total -> S]
    BY <1>2, <1>4
  <2>2. QED
    BY <1>1, <2>1
<1>8. QED
  BY <1>5, <1>6, <1>7 DEF InPlace

\* A sequence that is written after another.
FollowedBy(data, s, t) ==
    /\ Len(data) = Len(s) + Len(t)
    /\ \A i \in 1..Len(s) : data[i] = s[i]
    /\ \A j \in 1..Len(t) : data[Len(s) + j] = t[j]

LEMMA Appended ==
    ASSUME NEW S, NEW s \in Seq(S), NEW t \in Seq(S)
    PROVE  s \o t \in Seq(S) /\ FollowedBy(s \o t, s, t)
  BY DEF FollowedBy

\* An entry of the registry: a slot and the amount in it.
EntryBytes(entry) == <<entry.id>> \o Codec!PutInt64(entry.amount)

LEMMA EntryFacts ==
    ASSUME PartsAssumption, NEW entry \in [id : Codec!Byte, amount : Codec!Int64s]
    PROVE  /\ EntryBytes(entry) \in [1..(1 + Int64Len) -> Codec!Byte]
           /\ EntryBytes(entry)[1] = entry.id
           /\ \A j \in 1..Int64Len :
                 EntryBytes(entry)[1 + j] = Codec!PutInt64(entry.amount)[j]
<1> DEFINE s == <<entry.id>>
           t == Codec!PutInt64(entry.amount)
<1>1. /\ entry.id \in Codec!Byte /\ entry.amount \in Codec!Int64s
      /\ Int64Len \in Nat /\ 1 \in Nat
  BY CodecTypes
<1>2. t \in Seq(Codec!Byte) /\ Len(t) = Int64Len
  BY <1>1, PutInt64Facts
<1>3. s \in Seq(Codec!Byte) /\ Len(s) = 1 /\ s[1] = entry.id /\ 1 \in 1..1
  BY <1>1
<1> HIDE DEF s, t
<1>4. /\ s \o t \in Seq(Codec!Byte) /\ Len(s \o t) = 1 + Int64Len
      /\ (s \o t)[1] = s[1] /\ \A j \in 1..Int64Len : (s \o t)[1 + j] = t[j]
  <2>1. s \o t \in Seq(Codec!Byte) /\ FollowedBy(s \o t, s, t)
    BY <1>2, <1>3, Appended
  <2>2. QED
    BY <1>2, <1>3, <2>1 DEF FollowedBy
<1>5. s \o t \in [1..(1 + Int64Len) -> Codec!Byte]
  BY <1>4, LenProperties
<1>6. QED
  BY <1>3, <1>4, <1>5 DEF EntryBytes, s, t

LEMMA RegistryBack ==
    ASSUME PartsAssumption, NEW r \in Seq([id : Codec!Byte, amount : Codec!Int64s])
    PROVE  /\ Codec!MarshalUtxoRegistry(r) \in Seq(Codec!Byte)
           /\ Codec!UnmarshalUtxoRegistry(Codec!MarshalUtxoRegistry(r)) = r
<1> DEFINE width == 1 + Int64Len
           n == Len(r)
           entries == [k \in 1..n |-> EntryBytes(r[k])]
           data == Codec!Packed(entries, width)
<1>1. /\ width \in Nat \ {0} /\ n \in Nat /\ Int64Len \in Nat
      /\ 1 \in 1..width /\ width \in 1..width
      /\ \A j \in 1..Int64Len : 1 + j \in 1..width
  BY CodecTypes
<1>2. Codec!MarshalUtxoRegistry(r) = data
  BY DEF Codec!MarshalUtxoRegistry, EntryBytes
<1>3. Codec!UnmarshalUtxoRegistry(data)
         = IF Len(data) % width # 0 THEN Error
           ELSE [k \in 1..(Len(data) \div width) |->
                    [id     |-> data[(k - 1) * width + 1],
                     amount |-> Codec!GetInt64(data, (k - 1) * width + 1)]]
  BY DEF Codec!UnmarshalUtxoRegistry
<1>4. \A k \in 1..n : r[k] \in [id : Codec!Byte, amount : Codec!Int64s]
  BY ElementOfSeq
<1>5. r = [k \in 1..n |-> r[k]]
  BY LenProperties
<1>6. /\ entries \in [1..n -> [1..width -> Codec!Byte]]
      /\ \A k \in 1..n : entries[k] = EntryBytes(r[k])
  BY <1>4, EntryFacts
<1> HIDE DEF width, n, entries
<1>7. entries \in Seq([1..width -> Codec!Byte]) /\ Len(entries) = n
  BY <1>1, <1>6
<1>12. /\ width \in Nat \ {0} /\ entries \in Seq([1..width -> Codec!Byte])
       /\ data = Codec!Packed(entries, width)
  BY <1>1, <1>7
<1> HIDE DEF data
<1>8. data \in Seq(Codec!Byte) /\ InPlace(data, entries, width)
  BY <1>12, PackedFacts
<1>9. ASSUME NEW k \in 1..n
      PROVE  [id     |-> data[(k - 1) * width + 1],
              amount |-> Codec!GetInt64(data, (k - 1) * width + 1)] = r[k]
  <2> DEFINE x == (k - 1) * width
             t == Codec!PutInt64(r[k].amount)
  <2>1. x \in Nat
    BY <1>1
  <2>2. \A j \in 1..width : x + j \in 1..Len(data) /\ data[x + j] = EntryBytes(r[k])[j]
    BY <1>6, <1>7, <1>8 DEF InPlace
  <2> HIDE DEF x
  <2>3. data[x + 1] = r[k].id
    BY <1>1, <1>4, <2>2, EntryFacts
  <2>4. r[k].amount \in Codec!Int64s /\ r[k] = [id |-> r[k].id, amount |-> r[k].amount]
    BY <1>4
  <2>5. t \in Seq(Codec!Byte) /\ Len(t) = Int64Len
    BY <2>4, PutInt64Facts
  <2>6. ASSUME NEW j \in 1..Int64Len PROVE data[x + 1 + j] = t[j]
    <3>1. data[x + (1 + j)] = EntryBytes(r[k])[1 + j]
      BY <1>1, <2>2
    <3>2. x + (1 + j) = x + 1 + j
      BY <1>1, <2>1
    <3>3. EntryBytes(r[k])[1 + j] = t[j]
      BY <1>4, EntryFacts
    <3>4. QED
      BY <3>1, <3>2, <3>3
  <2> HIDE DEF t
  <2> DEFINE y == x + 1
  <2>7. y \in Nat /\ y + Len(t) <= Len(data) /\ \A j \in 1..Len(t) : data[y + j] = t[j]
    <3>1. x + width \in 1..Len(data) /\ Len(data) \in Nat
      BY <1>1, <1>8, <2>2
    <3>2. QED
      BY <1>1, <2>1, <2>5, <2>6, <3>1 DEF width
  <2> HIDE DEF y
  <2>8. SubSeq(data, y + 1, y + Len(t)) = t
    BY <1>8, <2>5, <2>7, Slice
  <2>9. Codec!GetInt64(data, y) = r[k].amount
    BY <2>4, <2>5, <2>8, GetInt64Back DEF t
  <2>10. QED
    BY <2>3, <2>4, <2>9 DEF x, y
<1>10. Codec!UnmarshalUtxoRegistry(data) = r
  BY <1>3, <1>5, <1>7, <1>8, <1>9 DEF InPlace
<1>11. QED
  BY <1>2, <1>8, <1>10

LEMMA SpendsBack ==
    ASSUME PartsAssumption, NEW ts \in Seq([1..IdLen -> Codec!Byte])
    PROVE  /\ Codec!MarshalTxSpendsRegistry(ts) \in Seq(Codec!Byte)
           /\ Codec!UnmarshalTxSpendsRegistry(Codec!MarshalTxSpendsRegistry(ts)) = ts
<1> DEFINE data == Codec!Packed(ts, IdLen)
<1>1. IdLen \in Nat \ {0} /\ Len(ts) \in Nat /\ IdLen \in 1..IdLen
  BY CodecTypes
<1>2. data \in Seq(Codec!Byte) /\ InPlace(data, ts, IdLen)
  BY <1>1, PackedFacts
<1> HIDE DEF data
<1>3. ASSUME NEW k \in 1..Len(ts)
      PROVE  SubSeq(data, (k - 1) * IdLen + 1, k * IdLen) = ts[k]
  <2> DEFINE x == (k - 1) * IdLen
             t == ts[k]
  <2>1. x \in Nat /\ k * IdLen = x + IdLen
    BY <1>1
  <2>2. t \in Seq(Codec!Byte) /\ Len(t) = IdLen
    <3>1. t \in [1..IdLen -> Codec!Byte]
      BY ElementOfSeq
    <3> HIDE DEF t
    <3>2. QED
      BY <1>1, <3>1
  <2>3. \A j \in 1..IdLen : x + j \in 1..Len(data) /\ data[x + j] = t[j]
    BY <1>2 DEF InPlace
  <2> HIDE DEF x, t
  <2>4. x + Len(t) <= Len(data)
    <3>1. x + IdLen \in 1..Len(data) /\ Len(data) \in Nat
      BY <1>1, <1>2, <2>3
    <3>2. QED
      BY <1>1, <2>1, <2>2, <3>1
  <2>5. SubSeq(data, x + 1, x + Len(t)) = t
    BY <1>2, <2>1, <2>2, <2>3, <2>4, Slice
  <2>6. QED
    BY <2>1, <2>2, <2>5 DEF x, t
<1>4. Codec!UnmarshalTxSpendsRegistry(data)
         = [k \in 1..Len(ts) |-> SubSeq(data, (k - 1) * IdLen + 1, k * IdLen)]
  BY <1>2 DEF InPlace, Codec!UnmarshalTxSpendsRegistry
<1>5. ts = [k \in 1..Len(ts) |-> ts[k]]
  BY LenProperties
<1>6. Codec!UnmarshalTxSpendsRegistry(data) = ts
  BY <1>3, <1>4, <1>5
<1>7. QED
  BY <1>2, <1>6 DEF data, Codec!MarshalTxSpendsRegistry

Supplies ==
    [active : Codec!Int64s, user : Codec!Int64s, fee : Codec!Int64s,
     baseFeeRate : Codec!Int64s]

LEMMA SupplyBack ==
    ASSUME PartsAssumption, NEW s \in Supplies
    PROVE  /\ Codec!MarshalSupply(s) \in Seq(Codec!Byte) /\ Codec!MarshalSupply(s) # <<>>
           /\ Codec!UnmarshalSupply(Codec!MarshalSupply(s)) = s
<1> DEFINE a == Codec!PutInt64(s.active)
           b == Codec!PutInt64(s.user)
           c == Codec!PutInt64(s.fee)
           d == Codec!PutInt64(s.baseFeeRate)
           ab == a \o b
           abc == ab \o c
           data == abc \o d
           w == Int64Len
<1>1. /\ s.active \in Codec!Int64s /\ s.user \in Codec!Int64s /\ s.fee \in Codec!Int64s
      /\ s.baseFeeRate \in Codec!Int64s
      /\ s = [active |-> s.active, user |-> s.user, fee |-> s.fee,
              baseFeeRate |-> s.baseFeeRate]
  BY DEF Supplies
<1>2. /\ a \in Seq(Codec!Byte) /\ b \in Seq(Codec!Byte) /\ c \in Seq(Codec!Byte)
      /\ d \in Seq(Codec!Byte)
      /\ Len(a) = w /\ Len(b) = w /\ Len(c) = w /\ Len(d) = w /\ w \in Nat \ {0}
  BY <1>1, CodecTypes, PutInt64Facts
<1>3. Codec!MarshalSupply(s) = data
  BY DEF Codec!MarshalSupply
<1> HIDE DEF a, b, c, d
<1>4. /\ ab \in Seq(Codec!Byte) /\ Len(ab) = 2 * w
      /\ abc \in Seq(Codec!Byte) /\ Len(abc) = 3 * w
      /\ data \in Seq(Codec!Byte) /\ Len(data) = 4 * w
  <2>1. ab \in Seq(Codec!Byte) /\ FollowedBy(ab, a, b)
    BY <1>2, Appended
  <2>2. abc \in Seq(Codec!Byte) /\ FollowedBy(abc, ab, c)
    BY <1>2, <2>1, Appended
  <2>3. data \in Seq(Codec!Byte) /\ FollowedBy(data, abc, d)
    BY <1>2, <2>2, Appended
  <2> HIDE DEF ab, abc, data
  <2>4. /\ Len(ab) = Len(a) + Len(b) /\ Len(abc) = Len(ab) + Len(c)
        /\ Len(data) = Len(abc) + Len(d)
    BY <2>1, <2>2, <2>3 DEF FollowedBy
  <2>5. QED
    BY <1>2, <2>1, <2>2, <2>3, <2>4
<1>5. StartsWith(data, abc \o d)
  <2>1. data = abc \o d
    OBVIOUS
  <2> HIDE DEF data, abc
  <2>2. QED
    BY <1>4, <2>1 DEF StartsWith
<1> HIDE DEF data
<1>6. /\ StartsWith(data, ab \o c)
      /\ SubSeq(data, 3 * w + 1, 3 * w + w) = d
  <2> HIDE DEF ab
  <2>1. StartsWith(data, abc) /\ ReadAfter(data, abc, d)
    <3> HIDE DEF abc
    <3> QED
      BY <1>2, <1>4, <1>5, Written
  <2>2. QED
    BY <1>2, <1>4, <2>1 DEF ReadAfter
<1> HIDE DEF abc
<1>7. /\ StartsWith(data, a \o b)
      /\ SubSeq(data, 2 * w + 1, 2 * w + w) = c
  <2>1. StartsWith(data, ab) /\ ReadAfter(data, ab, c)
    <3> HIDE DEF ab
    <3> QED
      BY <1>2, <1>4, <1>6, Written
  <2>2. QED
    BY <1>2, <1>4, <2>1 DEF ReadAfter
<1>8. /\ StartsWith(data, a) /\ SubSeq(data, w + 1, w + w) = b
  <2>1. StartsWith(data, a) /\ ReadAfter(data, a, b)
    BY <1>2, <1>4, <1>7, Written
  <2>2. QED
    BY <1>2, <2>1 DEF ReadAfter
<1> HIDE DEF ab
<1>9. SubSeq(data, 0 + 1, 0 + w) = a
  <2>1. 0 \in Nat /\ 0 + Len(a) <= Len(data) /\ \A j \in 1..Len(a) : data[0 + j] = a[j]
    BY <1>2, <1>4, <1>8 DEF StartsWith
  <2>2. SubSeq(data, 0 + 1, 0 + Len(a)) = a
    BY <1>2, <1>4, <2>1, Slice
  <2>3. QED
    BY <1>2, <2>2
<1>10. /\ Codec!GetInt64(data, 0) = s.active /\ Codec!GetInt64(data, w) = s.user
       /\ Codec!GetInt64(data, 2 * w) = s.fee /\ Codec!GetInt64(data, 3 * w) = s.baseFeeRate
  BY <1>1, <1>6, <1>7, <1>8, <1>9, GetInt64Back DEF a, b, c, d
<1>11. Codec!UnmarshalSupply(data) = s
  BY <1>1, <1>4, <1>10 DEF Codec!UnmarshalSupply
<1>12. data # <<>>
  BY <1>2, <1>4
<1>13. QED
  BY <1>3, <1>4, <1>11, <1>12

\* Two sequences written after a third.
TwoAfter(data, s, t, u) ==
    /\ StartsWith(data, s) /\ ReadAfter(data, s, t) /\ ReadAfter(data, s \o t, u)
    /\ Len(s \o t) = Len(s) + Len(t) /\ Len((s \o t) \o u) = Len(s) + Len(t) + Len(u)

LEMMA TwoWritten ==
    ASSUME NEW S, NEW data \in Seq(S), NEW s \in Seq(S), NEW t \in Seq(S),
           NEW u \in Seq(S), NEW r, r = (s \o t) \o u, StartsWith(data, r)
    PROVE  r \in Seq(S) /\ TwoAfter(data, s, t, u)
<1> DEFINE st == s \o t
<1>1. st \in Seq(S) /\ FollowedBy(st, s, t)
  BY Appended
<1>2. st = s \o t /\ r = st \o u /\ StartsWith(data, st \o u)
  OBVIOUS
<1> HIDE DEF st
<1>3. r \in Seq(S) /\ FollowedBy(r, st, u)
  BY <1>1, <1>2, Appended
<1>4. StartsWith(data, st) /\ ReadAfter(data, st, u)
  BY <1>1, <1>2, Written
<1>5. StartsWith(data, s) /\ ReadAfter(data, s, t)
  BY <1>1, <1>2, <1>4, Written
<1>6. Len(st) = Len(s) + Len(t) /\ Len(r) = Len(s) + Len(t) + Len(u)
  <2>1. Len(st) = Len(s) + Len(t) /\ Len(r) = Len(st) + Len(u)
    BY <1>1, <1>3 DEF FollowedBy
  <2>2. QED
    BY <2>1
<1>7. QED
  BY <1>2, <1>3, <1>4, <1>5, <1>6 DEF TwoAfter

LEMMA UintBack ==
    ASSUME PartsAssumption, NEW n \in 0..(Codec!Power(Uint32Len) - 1)
    PROVE  /\ Codec!PutUint(n, Uint32Len) \in Seq(Codec!Byte)
           /\ Len(Codec!PutUint(n, Uint32Len)) = Uint32Len
           /\ Codec!Uint(Codec!PutUint(n, Uint32Len)) = n
<1>1. Uint32Len \in Nat /\ Codec!Power(Uint32Len) \in Nat
  BY CodecTypes, PowerType
<1>2. n \in Nat /\ n < Codec!Power(Uint32Len)
  BY <1>1
<1>3. QED
  BY <1>1, <1>2, PutUintFacts, UintComesBack

\* The tag as it is written, and an output as it is read again.
WrittenTag(u) == IF u.tag = NilTag THEN <<>> ELSE u.tag
ReadUtxo(u) == IF u.tag = NilTag THEN [u EXCEPT !.tag = <<>>] ELSE u

LEMMA ShortLength ==
    ASSUME PartsAssumption, NEW bytes \in Codec!ShortBytes
    PROVE  /\ bytes \in Seq(Codec!Byte) /\ Len(bytes) \in Codec!Byte
           /\ Len(bytes) % Base = Len(bytes)
<1>1. bytes \in Seq(Codec!Byte) /\ Len(bytes) \in Nat /\ Len(bytes) < Base
  BY DEF Codec!ShortBytes
<1> DEFINE n == Len(bytes)
<1>2. n \in Nat /\ n < Base /\ Base \in Nat \ {0}
  BY <1>1, CodecTypes
<1> HIDE DEF n
<1>3. n % Base = n /\ n \in 0..(Base - 1)
  BY <1>2
<1>4. QED
  BY <1>1, <1>3 DEF n, Codec!Byte

LEMMA UtxoTypes ==
    ASSUME PartsAssumption, NEW u \in Codec!Outputs
    PROVE  /\ u.txid \in Seq(Codec!Byte) /\ Len(u.txid) = IdLen
           /\ u.vout \in 0..(Codec!Power(Uint32Len) - 1) /\ u.amount \in Codec!Int64s
           /\ u.pkScript \in Codec!ShortBytes /\ WrittenTag(u) \in Codec!ShortBytes
           /\ ReadUtxo(u) = [txid |-> u.txid, vout |-> u.vout, amount |-> u.amount,
                             pkScript |-> u.pkScript, tag |-> WrittenTag(u)]
<1>1. /\ u.txid \in [1..IdLen -> Codec!Byte]
      /\ u.vout \in 0..(Codec!Power(Uint32Len) - 1) /\ u.amount \in Codec!Int64s
      /\ u.pkScript \in Codec!ShortBytes
      /\ u.tag \in Codec!ShortBytes \cup {NilTag}
      /\ u = [txid |-> u.txid, vout |-> u.vout, amount |-> u.amount,
              pkScript |-> u.pkScript, tag |-> u.tag]
  BY DEF Codec!Outputs
<1>2. u.txid \in Seq(Codec!Byte) /\ Len(u.txid) = IdLen
  <2> DEFINE t == u.txid
  <2>1. t \in [1..IdLen -> Codec!Byte] /\ IdLen \in Nat
    BY <1>1, CodecTypes
  <2> HIDE DEF t
  <2>2. t \in Seq(Codec!Byte) /\ Len(t) = IdLen
    BY <2>1
  <2>3. QED
    BY <2>2 DEF t
<1>3. WrittenTag(u) \in Codec!ShortBytes
  <2>1. <<>> \in Codec!ShortBytes
    BY CodecTypes DEF Codec!ShortBytes
  <2>2. QED
    BY <1>1, <2>1 DEF WrittenTag
<1>4. ReadUtxo(u) = [txid |-> u.txid, vout |-> u.vout, amount |-> u.amount,
                     pkScript |-> u.pkScript, tag |-> WrittenTag(u)]
  BY <1>1 DEF ReadUtxo, WrittenTag
<1>5. QED
  BY <1>1, <1>2, <1>3, <1>4

LEMMA UtxoBack ==
    ASSUME PartsAssumption, NEW u \in Codec!Outputs
    PROVE  /\ Codec!MarshalUtxo(u) \in Seq(Codec!Byte) /\ Codec!MarshalUtxo(u) # <<>>
           /\ Codec!UnmarshalUtxo(Codec!MarshalUtxo(u)) = ReadUtxo(u)
<1> DEFINE a == u.txid
           b == Codec!PutUint(u.vout, Uint32Len)
           c == Codec!PutInt64(u.amount)
           e == u.pkScript
           g == WrittenTag(u)
           d == <<Len(e) % Base>>
           f == <<Len(g) % Base>>
           abc == (a \o b) \o c
           abcde == (abc \o d) \o e
           data == (abcde \o f) \o g
           fixed == IdLen + Uint32Len + Int64Len
           p == Len(e)
           t == Len(g)
<1>1. /\ a \in Seq(Codec!Byte) /\ Len(a) = IdLen
      /\ b \in Seq(Codec!Byte) /\ Len(b) = Uint32Len /\ Codec!Uint(b) = u.vout
      /\ c \in Seq(Codec!Byte) /\ Len(c) = Int64Len
      /\ e \in Seq(Codec!Byte) /\ Len(e) % Base = p /\ p \in Codec!Byte
      /\ g \in Seq(Codec!Byte) /\ Len(g) % Base = t /\ t \in Codec!Byte
  BY UtxoTypes, UintBack, PutInt64Facts, ShortLength
<1>2. Codec!MarshalUtxo(u) = data
  BY DEF Codec!MarshalUtxo, WrittenTag
<1>3. Codec!UnmarshalUtxo(data)
         = LET pkLen == data[fixed + 1]
               tagLen == data[fixed + 1 + pkLen + 1]
               tagAt == fixed + 1 + pkLen + 1
           IN  IF \/ Len(data) < fixed + 2
                  \/ fixed + 1 + pkLen >= Len(data)
                  \/ tagAt + tagLen > Len(data)
               THEN Error
               ELSE [txid     |-> SubSeq(data, 1, IdLen),
                     vout     |-> Codec!Uint(SubSeq(data, IdLen + 1, IdLen + Uint32Len)),
                     amount   |-> Codec!GetInt64(data, IdLen + Uint32Len),
                     pkScript |-> SubSeq(data, fixed + 2, fixed + 1 + pkLen),
                     tag      |-> SubSeq(data, tagAt + 1, tagAt + tagLen)]
  BY DEF Codec!UnmarshalUtxo
<1>4. /\ d = <<p>> /\ f = <<t>>
      /\ abc = (a \o b) \o c /\ abcde = (abc \o d) \o e /\ data = (abcde \o f) \o g
  BY <1>1
<1>5. /\ p \in Nat /\ t \in Nat /\ IdLen \in Nat /\ Uint32Len \in Nat /\ Int64Len \in Nat
      /\ fixed = IdLen + Uint32Len + Int64Len /\ fixed \in Nat /\ p = Len(e) /\ t = Len(g)
  BY <1>1, CodecTypes
<1> HIDE DEF a, b, c, d, e, f, g, p, t, abc, abcde, data, fixed
<1>6. /\ d \in Seq(Codec!Byte) /\ Len(d) = 1 /\ d[1] = p
      /\ f \in Seq(Codec!Byte) /\ Len(f) = 1 /\ f[1] = t
  BY <1>1, <1>4
<1>7. /\ abc \in Seq(Codec!Byte) /\ abcde \in Seq(Codec!Byte) /\ data \in Seq(Codec!Byte)
      /\ TwoAfter(data, a, b, c) /\ TwoAfter(data, abc, d, e) /\ TwoAfter(data, abcde, f, g)
  <2> DEFINE ab == a \o b
             abcd == abc \o d
             abcdef == abcde \o f
  <2>1. ab \in Seq(Codec!Byte) /\ abc = ab \o c
    BY <1>1, <1>4, Appended
  <2> HIDE DEF ab
  <2>2. abc \in Seq(Codec!Byte)
    BY <1>1, <2>1, Appended
  <2>3. abcd \in Seq(Codec!Byte) /\ abcde = abcd \o e
    BY <1>4, <1>6, <2>2, Appended
  <2> HIDE DEF abcd
  <2>4. abcde \in Seq(Codec!Byte)
    BY <1>1, <2>3, Appended
  <2>5. abcdef \in Seq(Codec!Byte) /\ data = abcdef \o g
    BY <1>4, <1>6, <2>4, Appended
  <2> HIDE DEF abcdef
  <2>6. data \in Seq(Codec!Byte)
    BY <1>1, <2>5, Appended
  <2>7. StartsWith(data, data)
    BY <2>6, StartsWithItself
  <2>8. TwoAfter(data, abcde, f, g)
    BY <1>1, <1>4, <1>6, <2>4, <2>6, <2>7, TwoWritten
  <2>9. StartsWith(data, abcde)
    BY <2>8 DEF TwoAfter
  <2>10. TwoAfter(data, abc, d, e)
    BY <1>1, <1>4, <1>6, <2>2, <2>6, <2>9, TwoWritten
  <2>11. StartsWith(data, abc)
    BY <2>10 DEF TwoAfter
  <2>12. TwoAfter(data, a, b, c)
    BY <1>1, <1>4, <2>6, <2>11, TwoWritten
  <2>13. QED
    BY <2>2, <2>4, <2>6, <2>8, <2>10, <2>12
<1>8. /\ Len(abc) = fixed /\ Len(abcde) = fixed + 1 + p
      /\ Len(data) = fixed + 1 + p + 1 + t
  <2>1. /\ Len(abc) = Len(a) + Len(b) + Len(c)
        /\ Len(abcde) = Len(abc) + Len(d) + Len(e)
        /\ Len(data) = Len(abcde) + Len(f) + Len(g)
    BY <1>4, <1>7 DEF TwoAfter
  <2>2. QED
    BY <1>1, <1>5, <1>6, <2>1
<1>9. /\ Len(a \o b) = IdLen + Uint32Len /\ Len(abc \o d) = fixed + 1
      /\ Len(abcde \o f) = fixed + 1 + p + 1
  <2>1. /\ Len(a \o b) = Len(a) + Len(b) /\ Len(abc \o d) = Len(abc) + Len(d)
        /\ Len(abcde \o f) = Len(abcde) + Len(f)
    BY <1>7 DEF TwoAfter
  <2>2. QED
    BY <1>1, <1>6, <1>8, <2>1
<1>10. SubSeq(data, 1, IdLen) = a
  <2>1. 0 \in Nat /\ 0 + Len(a) <= Len(data) /\ \A j \in 1..Len(a) : data[0 + j] = a[j]
    BY <1>1, <1>5, <1>7 DEF TwoAfter, StartsWith
  <2>2. SubSeq(data, 0 + 1, 0 + Len(a)) = a
    BY <1>1, <1>7, <2>1, Slice
  <2>3. QED
    BY <1>1, <1>5, <2>2
<1>11. Codec!Uint(SubSeq(data, IdLen + 1, IdLen + Uint32Len)) = u.vout
  <2>1. SubSeq(data, Len(a) + 1, Len(a) + Len(b)) = b
    BY <1>7 DEF TwoAfter, ReadAfter
  <2>2. QED
    BY <1>1, <2>1
<1>12. Codec!GetInt64(data, IdLen + Uint32Len) = u.amount
  <2> DEFINE offset == IdLen + Uint32Len
  <2>1. SubSeq(data, Len(a \o b) + 1, Len(a \o b) + Len(c)) = c
    BY <1>7 DEF TwoAfter, ReadAfter
  <2>2. SubSeq(data, offset + 1, offset + Int64Len) = c
    BY <1>1, <1>9, <2>1
  <2> HIDE DEF offset
  <2>3. Codec!GetInt64(data, offset) = u.amount
    BY <2>2, UtxoTypes, GetInt64Back DEF c
  <2>4. QED
    BY <2>3 DEF offset
<1>13. data[fixed + 1] = p
  <2>1. \A j \in 1..Len(d) : data[Len(abc) + j] = d[j]
    BY <1>7 DEF TwoAfter, ReadAfter
  <2>2. QED
    BY <1>6, <1>8, <2>1
<1>14. SubSeq(data, fixed + 2, fixed + 1 + p) = e
  <2>1. SubSeq(data, Len(abc \o d) + 1, Len(abc \o d) + Len(e)) = e
    BY <1>7 DEF TwoAfter, ReadAfter
  <2>2. fixed + 1 + 1 = fixed + 2
    BY <1>5
  <2>3. QED
    BY <1>5, <1>9, <2>1, <2>2
<1>15. data[fixed + 1 + p + 1] = t
  <2>1. \A j \in 1..Len(f) : data[Len(abcde) + j] = f[j]
    BY <1>7 DEF TwoAfter, ReadAfter
  <2>2. QED
    BY <1>6, <1>8, <2>1
<1>16. SubSeq(data, fixed + 1 + p + 1 + 1, fixed + 1 + p + 1 + t) = g
  <2>1. SubSeq(data, Len(abcde \o f) + 1, Len(abcde \o f) + Len(g)) = g
    BY <1>7 DEF TwoAfter, ReadAfter
  <2>2. QED
    BY <1>5, <1>9, <2>1
<1>17. /\ ~(Len(data) < fixed + 2) /\ ~(fixed + 1 + p >= Len(data))
       /\ ~(fixed + 1 + p + 1 + t > Len(data))
  BY <1>5, <1>8
<1>18. Codec!UnmarshalUtxo(data)
          = [txid |-> a, vout |-> u.vout, amount |-> u.amount, pkScript |-> e, tag |-> g]
  BY <1>3, <1>10, <1>11, <1>12, <1>13, <1>14, <1>15, <1>16, <1>17
<1>19. Codec!UnmarshalUtxo(data) = ReadUtxo(u)
  BY <1>18, UtxoTypes DEF a, e, g
<1>20. data # <<>>
  BY <1>5, <1>8
<1>21. QED
  BY <1>2, <1>7, <1>19, <1>20

\* Of a positive number some shift is the first to leave nothing, and none
\* after it leaves anything.
LEMMA SignificantFacts ==
    ASSUME PartsAssumption, NEW n \in Nat \ {0}, n < Codec!Power(Int64Len)
    PROVE  /\ Codec!Significant(n) \in 1..Int64Len
           /\ \A j \in 0..Int64Len :
                 j < Codec!Significant(n) \/ Codec!Shifts(n, Int64Len)[j] = 0
<1> DEFINE w == Int64Len
           shift == Codec!Shifts(n, w)
           k == Codec!Significant(n)
<1>1. /\ w \in Nat /\ shift \in [0..w -> Nat] /\ shift[0] = n /\ shift[w] = 0
      /\ \A j \in 1..w : shift[j] = shift[j - 1] \div Base
  BY CodecTypes, ShiftFacts, ShiftedOut
<1>2. k = CHOOSE j \in 1..w : shift[j] = 0 /\ shift[j - 1] # 0
  BY DEF Codec!Significant
<1> HIDE DEF shift
<1>3. \E j \in 1..w : shift[j] = 0 /\ shift[j - 1] # 0
  <2>1. SUFFICES ASSUME \A j \in 1..w : ~(shift[j] = 0 /\ shift[j - 1] # 0) PROVE FALSE
    OBVIOUS
  <2> DEFINE S == {j \in 0..w : shift[j] # 0}
  <2>2. 0 \in S
    BY <1>1
  <2>3. ASSUME NEW j \in 1..w, j - 1 \in S PROVE j \in S
    BY <2>1, <2>3
  <2>4. 0..w \subseteq S
    <3> HIDE DEF S
    <3> QED
      BY <1>1, <2>2, <2>3, UpTo
  <2>5. QED
    BY <1>1, <2>4
<1>4. k \in 1..w /\ shift[k] = 0
  <2> HIDE DEF k
  <2> QED
    BY <1>2, <1>3
<1> HIDE DEF k
<1> DEFINE S == {j \in 0..w : j < k \/ shift[j] = 0}
<1>5. 0 \in S
  BY <1>1, <1>4
<1>6. ASSUME NEW j \in 1..w, j - 1 \in S PROVE j \in S
  <2>1. CASE j <= k
    BY <1>4, <2>1
  <2>2. CASE j > k
    <3>1. shift[j - 1] = 0
      BY <1>4, <1>6, <2>2
    <3>2. shift[j] = 0 \div Base
      BY <1>1, <3>1
    <3>3. 0 \div Base = 0
      BY CodecTypes
    <3>4. QED
      BY <3>2, <3>3
  <2>3. QED
    BY <1>4, <2>1, <2>2
<1>7. 0..w \subseteq S
  <2> HIDE DEF S
  <2> QED
    BY <1>1, <1>5, <1>6, UpTo
<1>8. QED
  BY <1>4, <1>7 DEF k, shift

LEMMA OwnRemainder ==
    ASSUME NEW m \in Nat \ {0}, NEW n \in Nat, 2 * n < m
    PROVE  n < m /\ n % m = n
  OBVIOUS

LEMMA ZerosFacts ==
    ASSUME PartsAssumption, NEW z \in Nat, NEW zeros, zeros = [i \in 1..z |-> 0]
    PROVE  zeros \in Seq(Codec!Byte) /\ Len(zeros) = z /\ \A i \in 1..z : zeros[i] = 0
<1>1. 0 \in Codec!Byte
  BY CodecTypes DEF Codec!Byte
<1>2. QED
  BY <1>1

\* The bytes that a balance is kept without are zeros.
LEMMA BalanceBack ==
    ASSUME PartsAssumption, NEW n \in Codec!Int64s \cap Nat, n # 0,
           NEW bytes, bytes = Codec!Compact(n),
           NEW zeros, zeros = [i \in 1..(Int64Len - Len(bytes)) |-> 0]
    PROVE  /\ bytes \in Seq(Codec!Byte) /\ bytes # <<>>
           /\ Codec!GetInt64(zeros \o bytes, 0) = n
<1> DEFINE w == Int64Len
           k == Codec!Significant(n)
           full == Codec!PutInt64(n)
           m == Codec!Power(w)
<1>1. m \in Nat \ {0} /\ w \in Nat \ {0}
  BY CodecTypes, PowerType
<1>2. n \in Nat \ {0} /\ 2 * n < m
  BY DEF Codec!Int64s
<1>3. full = Codec!PutUint(n % m, w)
  BY DEF Codec!PutInt64
<1>4. bytes = SubSeq(full, w - k + 1, w)
  BY DEF Codec!Compact
<1>5. n % m = n /\ n < m
  <2> HIDE DEF m
  <2> QED
    BY <1>1, <1>2, OwnRemainder
<1>6. /\ full \in [1..w -> Codec!Byte] /\ full \in Seq(Codec!Byte) /\ Len(full) = w
      /\ \A i \in 1..w : full[i] = Codec!Shifts(n, w)[w - i] % Base
  <2>1. full = Codec!PutUint(n, w)
    BY <1>3, <1>5
  <2> HIDE DEF full
  <2>2. n \in Nat /\ w \in Nat
    BY <1>1, <1>2
  <2>3. QED
    BY <2>1, <2>2, PutUintFacts
<1>7. k \in 1..w /\ \A j \in 0..w : j < k \/ Codec!Shifts(n, w)[j] = 0
  BY <1>2, <1>5, SignificantFacts
<1> HIDE DEF k, full, m
<1>8. \A i \in 1..(w - k) : full[i] = 0
  <2>1. ASSUME NEW i \in 1..(w - k) PROVE full[i] = 0
    <3>1. i \in 1..w /\ w - i \in 0..w /\ ~(w - i < k)
      BY <1>1, <1>7
    <3>2. full[i] = 0 % Base
      BY <1>6, <1>7, <3>1
    <3>3. 0 % Base = 0
      BY CodecTypes
    <3>4. QED
      BY <3>2, <3>3
  <2>2. QED
    BY <2>1
<1>9. /\ bytes \in Seq(Codec!Byte) /\ Len(bytes) = k
      /\ \A j \in 1..k : bytes[j] = full[w - k + j]
  <2> DEFINE from == w - k + 1
  <2>1. /\ from \in Int /\ w \in Int /\ from <= w /\ w - from + 1 = k
        /\ \A i \in from..w : i \in 1..w
    BY <1>1, <1>7
  <2>2. \A i \in from..w : full[i] \in Codec!Byte
    BY <1>6, <2>1
  <2>3. bytes = SubSeq(full, from, w)
    BY <1>4
  <2> HIDE DEF from
  <2>4. /\ SubSeq(full, from, w) \in Seq(Codec!Byte)
        /\ Len(SubSeq(full, from, w)) = IF from <= w THEN w - from + 1 ELSE 0
        /\ \A j \in 1..(w - from + 1) : SubSeq(full, from, w)[j] = full[from + j - 1]
    BY <2>1, <2>2, SubSeqProperties
  <2>5. \A j \in 1..k : from + j - 1 = w - k + j
    BY <1>1, <1>7 DEF from
  <2>6. QED
    BY <2>1, <2>3, <2>4, <2>5
<1>10. /\ zeros \in Seq(Codec!Byte) /\ Len(zeros) = w - k
       /\ \A i \in 1..(w - k) : zeros[i] = 0
  <2> DEFINE z == w - k
  <2>1. z \in Nat /\ zeros = [i \in 1..z |-> 0]
    BY <1>1, <1>7, <1>9
  <2> HIDE DEF z
  <2>2. /\ zeros \in Seq(Codec!Byte) /\ Len(zeros) = z
        /\ \A i \in 1..z : zeros[i] = 0
    BY <2>1, ZerosFacts
  <2>3. QED
    BY <2>2 DEF z
<1> DEFINE data == zeros \o bytes
<1>11. data \in Seq(Codec!Byte) /\ FollowedBy(data, zeros, bytes)
  BY <1>9, <1>10, Appended
<1> HIDE DEF data
<1>12. Len(data) = w
  BY <1>1, <1>7, <1>9, <1>10, <1>11 DEF FollowedBy
<1>13. ASSUME NEW j \in 1..w PROVE data[0 + j] = full[j]
  <2>1. CASE j <= w - k
    <3>1. j \in 1..(w - k)
      BY <1>1, <1>7, <2>1
    <3>2. data[j] = zeros[j] /\ zeros[j] = 0 /\ full[j] = 0
      BY <1>8, <1>10, <1>11, <3>1 DEF FollowedBy
    <3>3. QED
      BY <3>2
  <2>2. CASE j > w - k
    <3> DEFINE i == j - (w - k)
    <3>1. i \in 1..k /\ (w - k) + i = j
      BY <1>1, <1>7, <2>2
    <3> HIDE DEF i
    <3>2. data[(w - k) + i] = bytes[i] /\ bytes[i] = full[(w - k) + i]
      BY <1>9, <1>10, <1>11, <3>1 DEF FollowedBy
    <3>3. QED
      BY <3>1, <3>2
  <2>3. QED
    BY <1>1, <1>7, <2>1, <2>2
<1>14. SubSeq(data, 0 + 1, 0 + w) = full
  <2>1. 0 \in Nat /\ 0 + Len(full) <= Len(data) /\ \A j \in 1..Len(full) : data[0 + j] = full[j]
    BY <1>1, <1>6, <1>12, <1>13
  <2>2. SubSeq(data, 0 + 1, 0 + Len(full)) = full
    BY <1>6, <1>11, <2>1, Slice
  <2>3. QED
    BY <1>6, <2>2
<1>15. Codec!GetInt64(data, 0) = n
  BY <1>14, GetInt64Back DEF full
<1>16. bytes # <<>>
  BY <1>7, <1>9
<1>17. QED
  BY <1>9, <1>15, <1>16 DEF data

----------------------------------------------------------------------------
\* StateCodec: the calls.

LEMMA KeysApart ==
    /\ <<"r">> # <<"i">> /\ <<"r">> # <<"p">> /\ <<"r">> # <<"s">> /\ <<"r">> # <<"a">>
    /\ <<"i">> # <<"p">> /\ <<"i">> # <<"s">> /\ <<"i">> # <<"a">>
    /\ <<"p">> # <<"s">> /\ <<"p">> # <<"a">> /\ <<"s">> # <<"a">>
    /\ \A id : /\ <<"u", id>> # <<"r">> /\ <<"u", id>> # <<"i">> /\ <<"u", id>> # <<"p">>
               /\ <<"u", id>> # <<"s">> /\ <<"u", id>> # <<"a">>
    /\ \A id, other : <<"u", id>> = <<"u", other>> => id = other
<1>1. ASSUME NEW id
      PROVE  /\ <<"u", id>> # <<"r">> /\ <<"u", id>> # <<"i">> /\ <<"u", id>> # <<"p">>
             /\ <<"u", id>> # <<"s">> /\ <<"u", id>> # <<"a">>
  OBVIOUS
<1>2. ASSUME NEW id, NEW other, <<"u", id>> = <<"u", other>> PROVE id = other
  BY <1>2
<1>3. QED
  BY <1>1, <1>2

\* What the calls meant to keep, of its types, is what is read.
CodecInv ==
    /\ last \in [state : Codec!States, utxos : [Ids -> Codec!Outputs \cup {Error}],
                 balance : Int]
    /\ Codec!TypeOK
    /\ Codec!StateComesBack /\ Codec!UtxosComeBack /\ Codec!BalanceComesBack

LEMMA NothingMeansEmpty ==
    ASSUME PartsAssumption
    PROVE  /\ Codec!UnmarshalUtxoRegistry(<<>>) = <<>>
           /\ Codec!UnmarshalTxSpendsRegistry(<<>>) = <<>>
<1>1. ASSUME NEW width \in Nat \ {0} PROVE 0 % width = 0 /\ 0 \div width = 0
  OBVIOUS
<1>2. /\ 0 % (1 + Int64Len) = 0 /\ 0 \div (1 + Int64Len) = 0
      /\ 0 % IdLen = 0 /\ 0 \div IdLen = 0
  <2>1. 1 + Int64Len \in Nat \ {0} /\ IdLen \in Nat \ {0}
    BY CodecTypes
  <2>2. QED
    BY <1>1, <2>1
<1>3. Codec!UnmarshalUtxoRegistry(<<>>) = <<>>
  BY <1>2 DEF Codec!UnmarshalUtxoRegistry
<1>4. Codec!UnmarshalTxSpendsRegistry(<<>>) = <<>>
  BY <1>2 DEF Codec!UnmarshalTxSpendsRegistry
<1>5. QED
  BY <1>3, <1>4

LEMMA ZeroTypes ==
    ASSUME PartsAssumption
    PROVE  0 \in Codec!Int64s /\ 0 \in Codec!Byte /\ ConfirmedStart \in Codec!Byte
<1>1. Codec!Power(Int64Len) \in Nat \ {0}
  BY CodecTypes, PowerType
<1>2. QED
  BY <1>1, CodecTypes
     DEF Codec!Int64s, Codec!Byte, PartsAssumption, Codec!StateCodecAssumption

LEMMA CodecStarts ==
    ASSUME PartsAssumption, Codec!Init
    PROVE  CodecInv
<1> USE DEF Codec!Init
<1>1. \A k \in Codec!Keys : kv[k] = <<>>
  OBVIOUS
<1>2. /\ kv[<<"r">>] = <<>> /\ kv[<<"i">>] = <<>> /\ kv[<<"p">>] = <<>>
      /\ kv[<<"s">>] = <<>> /\ kv[<<"a">>] = <<>>
      /\ \A id \in Ids : kv[<<"u", id>>] = <<>>
  BY <1>1 DEF Codec!Keys
<1>3. last.state \in Codec!States
  BY ZeroTypes DEF Codec!States, Codec!NoSupply
<1>4. last \in [state : Codec!States, utxos : [Ids -> Codec!Outputs \cup {Error}],
                balance : Int]
  BY <1>3
<1>5. Codec!TypeOK
  BY DEF Codec!TypeOK
<1>6. Codec!StateComesBack
  BY <1>2, NothingMeansEmpty
     DEF Codec!StateComesBack, Codec!IntializeContractState, Codec!SupplyFromState
<1>7. Codec!UtxosComeBack
  BY <1>2 DEF Codec!UtxosComeBack, Codec!LoadUtxo
<1>8. Codec!BalanceComesBack
  BY <1>2 DEF Codec!BalanceComesBack, Codec!GetAccBal
<1>9. QED
  BY <1>4, <1>5, <1>6, <1>7, <1>8 DEF CodecInv

\* The keys are strings of bytes whatever is written to them.
LEMMA KeysHold ==
    ASSUME NEW f \in [Codec!Keys -> Seq(Codec!Byte)], NEW k \in Codec!Keys,
           NEW bytes \in Seq(Codec!Byte)
    PROVE  /\ [f EXCEPT ![k] = bytes] \in [Codec!Keys -> Seq(Codec!Byte)]
           /\ [f EXCEPT ![k] = bytes][k] = bytes
           /\ \A other \in Codec!Keys : other # k => [f EXCEPT ![k] = bytes][other] = f[other]
  OBVIOUS

LEMMA KeysAre ==
    /\ <<"r">> \in Codec!Keys /\ <<"i">> \in Codec!Keys /\ <<"p">> \in Codec!Keys
    /\ <<"s">> \in Codec!Keys /\ <<"a">> \in Codec!Keys
    /\ \A id \in Ids : <<"u", id>> \in Codec!Keys
  BY DEF Codec!Keys

LEMMA StateSaved ==
    ASSUME PartsAssumption, CodecInv, NEW cs \in ContractStates, Codec!SaveToState(cs)
    PROVE  CodecInv'
<1> DEFINE r == Codec!MarshalUtxoRegistry(cs.registry)
           i == <<cs.confirmed, cs.unconfirmed>>
           p == Codec!MarshalTxSpendsRegistry(cs.spends)
           s == Codec!MarshalSupply(cs.supply)
           kv1 == [kv EXCEPT ![<<"r">>] = r]
           kv2 == [kv1 EXCEPT ![<<"i">>] = i]
           kv3 == [kv2 EXCEPT ![<<"p">>] = p]
           kv4 == [kv3 EXCEPT ![<<"s">>] = s]
<1>1. cs \in Codec!States
  BY DEF PartsAssumption, Codec!StateCodecAssumption
<1>2. /\ cs.registry \in Seq([id : Codec!Byte, amount : Codec!Int64s])
      /\ cs.confirmed \in Codec!Byte /\ cs.unconfirmed \in Codec!Byte
      /\ cs.spends \in Seq([1..IdLen -> Codec!Byte]) /\ cs.supply \in Supplies
      /\ cs = [registry |-> cs.registry, confirmed |-> cs.confirmed,
               unconfirmed |-> cs.unconfirmed, spends |-> cs.spends,
               supply |-> cs.supply]
  BY <1>1 DEF Codec!States, Supplies
<1>3. kv' = kv4 /\ last' = [last EXCEPT !.state = cs]
  BY DEF Codec!SaveToState
<1>4. /\ r \in Seq(Codec!Byte) /\ Codec!UnmarshalUtxoRegistry(r) = cs.registry
      /\ p \in Seq(Codec!Byte) /\ Codec!UnmarshalTxSpendsRegistry(p) = cs.spends
      /\ s \in Seq(Codec!Byte) /\ s # <<>> /\ Codec!UnmarshalSupply(s) = cs.supply
  BY <1>2, RegistryBack, SpendsBack, SupplyBack
<1>5. /\ i \in Seq(Codec!Byte) /\ Len(i) = 2
      /\ i[1] = cs.confirmed /\ i[2] = cs.unconfirmed
  BY <1>2
<1>6. kv \in [Codec!Keys -> Seq(Codec!Byte)]
  BY DEF CodecInv, Codec!TypeOK
<1> HIDE DEF r, i, p, s
<1>7. kv4 \in [Codec!Keys -> Seq(Codec!Byte)]
  <2>1. kv1 \in [Codec!Keys -> Seq(Codec!Byte)]
    BY <1>4, <1>6, KeysAre, KeysHold
  <2> HIDE DEF kv1
  <2>2. kv2 \in [Codec!Keys -> Seq(Codec!Byte)]
    BY <1>5, <2>1, KeysAre, KeysHold
  <2> HIDE DEF kv2
  <2>3. kv3 \in [Codec!Keys -> Seq(Codec!Byte)]
    BY <1>4, <2>2, KeysAre, KeysHold
  <2> HIDE DEF kv3
  <2>4. QED
    BY <1>4, <2>3, KeysAre, KeysHold
<1>8. /\ kv4[<<"r">>] = r /\ kv4[<<"i">>] = i /\ kv4[<<"p">>] = p /\ kv4[<<"s">>] = s
      /\ kv4[<<"a">>] = kv[<<"a">>] /\ \A id \in Ids : kv4[<<"u", id>>] = kv[<<"u", id>>]
  BY <1>6, KeysAre, KeysApart
<1> HIDE DEF kv4
<1>9. /\ last' \in [state : Codec!States, utxos : [Ids -> Codec!Outputs \cup {Error}],
                    balance : Int]
      /\ last'.state = cs /\ last'.utxos = last.utxos /\ last'.balance = last.balance
  BY <1>1, <1>3 DEF CodecInv
<1>10. Codec!TypeOK'
  BY <1>3, <1>7 DEF Codec!TypeOK
<1>11. Codec!StateComesBack'
  BY <1>2, <1>3, <1>4, <1>5, <1>8, <1>9
     DEF Codec!StateComesBack, Codec!IntializeContractState, Codec!SupplyFromState
<1>12. Codec!UtxosComeBack'
  BY <1>3, <1>8, <1>9 DEF CodecInv, Codec!UtxosComeBack, Codec!LoadUtxo
<1>13. Codec!BalanceComesBack'
  BY <1>3, <1>8, <1>9 DEF CodecInv, Codec!BalanceComesBack, Codec!GetAccBal
<1>14. QED
  BY <1>9, <1>10, <1>11, <1>12, <1>13 DEF CodecInv

LEMMA SupplySaved ==
    ASSUME PartsAssumption, CodecInv, NEW rate \in FeeRates, Codec!SaveSupplyToState(rate)
    PROVE  CodecInv'
<1> DEFINE supply == [Codec!SupplyFromState EXCEPT !.baseFeeRate = rate]
           s == Codec!MarshalSupply(supply)
           state == last.state
<1>1. rate \in Codec!Int64s
  BY DEF PartsAssumption, Codec!StateCodecAssumption
<1>2. /\ last \in [state : Codec!States, utxos : [Ids -> Codec!Outputs \cup {Error}],
                   balance : Int]
      /\ state \in Codec!States /\ state.supply \in Supplies
  BY DEF CodecInv, Codec!States, Supplies
<1>3. /\ Codec!SupplyFromState = state.supply
      /\ Codec!UnmarshalUtxoRegistry(kv[<<"r">>]) = state.registry
      /\ (IF Len(kv[<<"i">>]) = 2 THEN kv[<<"i">>][1] ELSE ConfirmedStart) = state.confirmed
      /\ (IF Len(kv[<<"i">>]) = 2 THEN kv[<<"i">>][2] ELSE 0) = state.unconfirmed
      /\ Codec!UnmarshalTxSpendsRegistry(kv[<<"p">>]) = state.spends
  BY DEF CodecInv, Codec!StateComesBack, Codec!IntializeContractState
<1>4. supply \in Supplies /\ supply = [state.supply EXCEPT !.baseFeeRate = rate]
  BY <1>1, <1>2, <1>3 DEF Supplies
<1> HIDE DEF supply
<1>5. /\ s \in Seq(Codec!Byte) /\ s # <<>> /\ Codec!UnmarshalSupply(s) = supply
  BY <1>4, SupplyBack
<1>6. /\ kv' = [kv EXCEPT ![<<"s">>] = s]
      /\ last' = [last EXCEPT !.state.supply.baseFeeRate = rate]
  BY DEF Codec!SaveSupplyToState, supply
<1> HIDE DEF s
<1>7. kv \in [Codec!Keys -> Seq(Codec!Byte)]
  BY DEF CodecInv, Codec!TypeOK
<1>8. kv' \in [Codec!Keys -> Seq(Codec!Byte)]
  BY <1>5, <1>6, <1>7, KeysAre, KeysHold
<1>9. /\ kv'[<<"s">>] = s /\ kv'[<<"r">>] = kv[<<"r">>] /\ kv'[<<"i">>] = kv[<<"i">>]
      /\ kv'[<<"p">>] = kv[<<"p">>] /\ kv'[<<"a">>] = kv[<<"a">>]
      /\ \A id \in Ids : kv'[<<"u", id>>] = kv[<<"u", id>>]
  BY <1>6, <1>7, KeysAre, KeysApart
<1>10. /\ last'.state = [state EXCEPT !.supply = supply]
       /\ last'.utxos = last.utxos /\ last'.balance = last.balance
  BY <1>2, <1>4, <1>6 DEF Codec!States
<1>11. last'.state \in Codec!States
  BY <1>2, <1>4, <1>10 DEF Codec!States, Supplies
<1>12. last' \in [state : Codec!States, utxos : [Ids -> Codec!Outputs \cup {Error}],
                  balance : Int]
  BY <1>2, <1>6, <1>11
<1>13. Codec!TypeOK'
  BY <1>8 DEF Codec!TypeOK
<1>14. Codec!StateComesBack'
  <2>1. /\ last'.state.registry = state.registry /\ last'.state.confirmed = state.confirmed
        /\ last'.state.unconfirmed = state.unconfirmed
        /\ last'.state.spends = state.spends /\ last'.state.supply = supply
        /\ last'.state = [registry    |-> last'.state.registry,
                          confirmed   |-> last'.state.confirmed,
                          unconfirmed |-> last'.state.unconfirmed,
                          spends      |-> last'.state.spends,
                          supply      |-> last'.state.supply]
    BY <1>2, <1>10, <1>11 DEF Codec!States
  <2>2. Codec!SupplyFromState' = supply
    BY <1>5, <1>9 DEF Codec!SupplyFromState
  <2>3. QED
    BY <1>3, <1>9, <2>1, <2>2 DEF Codec!StateComesBack, Codec!IntializeContractState
<1>15. Codec!UtxosComeBack'
  BY <1>9, <1>10 DEF CodecInv, Codec!UtxosComeBack, Codec!LoadUtxo
<1>16. Codec!BalanceComesBack'
  BY <1>9, <1>10 DEF CodecInv, Codec!BalanceComesBack, Codec!GetAccBal
<1>17. QED
  BY <1>12, <1>13, <1>14, <1>15, <1>16 DEF CodecInv

\* What changes when one key other than those of the state is written.
LEMMA OtherKeyWritten ==
    ASSUME CodecInv, NEW k \in Codec!Keys,
           k # <<"r">>, k # <<"i">>, k # <<"p">>, k # <<"s">>,
           NEW bytes \in Seq(Codec!Byte),
           kv' = [kv EXCEPT ![k] = bytes], last'.state = last.state
    PROVE  /\ Codec!TypeOK' /\ Codec!StateComesBack' /\ kv'[k] = bytes
           /\ \A other \in Codec!Keys : other # k => kv'[other] = kv[other]
<1>1. kv \in [Codec!Keys -> Seq(Codec!Byte)]
  BY DEF CodecInv, Codec!TypeOK
<1>2. /\ kv' \in [Codec!Keys -> Seq(Codec!Byte)] /\ kv'[k] = bytes
      /\ \A other \in Codec!Keys : other # k => kv'[other] = kv[other]
  BY <1>1, KeysHold
<1>3. Codec!TypeOK'
  BY <1>2 DEF Codec!TypeOK
<1>4. /\ kv'[<<"r">>] = kv[<<"r">>] /\ kv'[<<"i">>] = kv[<<"i">>]
      /\ kv'[<<"p">>] = kv[<<"p">>] /\ kv'[<<"s">>] = kv[<<"s">>]
  BY <1>2, KeysAre
<1>5. Codec!StateComesBack'
  BY <1>4 DEF CodecInv, Codec!StateComesBack, Codec!IntializeContractState,
              Codec!SupplyFromState
<1>6. QED
  BY <1>2, <1>3, <1>5

LEMMA UtxoSaved ==
    ASSUME PartsAssumption, CodecInv, NEW id \in Ids, NEW u \in Codec!Outputs \cup {Error},
           NEW bytes \in Seq(Codec!Byte),
           IF u = Error THEN bytes = <<>>
           ELSE bytes # <<>> /\ Codec!UnmarshalUtxo(bytes) = ReadUtxo(u),
           kv' = [kv EXCEPT ![<<"u", id>>] = bytes],
           last' = [last EXCEPT !.utxos[id] = u]
    PROVE  CodecInv'
<1>1. last \in [state : Codec!States, utxos : [Ids -> Codec!Outputs \cup {Error}],
                balance : Int]
  BY DEF CodecInv
<1>2. /\ last' \in [state : Codec!States, utxos : [Ids -> Codec!Outputs \cup {Error}],
                    balance : Int]
      /\ last'.state = last.state /\ last'.balance = last.balance
      /\ last'.utxos[id] = u
      /\ \A other \in Ids : other # id => last'.utxos[other] = last.utxos[other]
  BY <1>1
<1> DEFINE k == <<"u", id>>
<1>3. /\ k \in Codec!Keys
      /\ k # <<"r">> /\ k # <<"i">> /\ k # <<"p">> /\ k # <<"s">> /\ k # <<"a">>
      /\ \A other \in Ids : other # id => <<"u", other>> # k
  BY KeysAre, KeysApart
<1>4. kv' = [kv EXCEPT ![k] = bytes]
  OBVIOUS
<1> HIDE DEF k
<1>5. /\ Codec!TypeOK' /\ Codec!StateComesBack' /\ kv'[k] = bytes
      /\ \A other \in Codec!Keys : other # k => kv'[other] = kv[other]
  BY <1>2, <1>3, <1>4, OtherKeyWritten
<1>6. ASSUME NEW other \in Ids
      PROVE  Codec!LoadUtxo(other)' = IF last'.utxos[other] # Error
                                          /\ last'.utxos[other].tag = NilTag
                                      THEN [last'.utxos[other] EXCEPT !.tag = <<>>]
                                      ELSE last'.utxos[other]
  <2>1. CASE other = id
    <3>1. kv'[<<"u", other>>] = bytes /\ last'.utxos[other] = u
      BY <1>2, <1>5, <2>1 DEF k
    <3>2. QED
      BY <3>1 DEF Codec!LoadUtxo, ReadUtxo
  <2>2. CASE other # id
    <3>1. /\ kv'[<<"u", other>>] = kv[<<"u", other>>]
          /\ last'.utxos[other] = last.utxos[other]
      BY <1>2, <1>3, <1>5, <2>2, KeysAre
    <3>2. QED
      BY <3>1 DEF CodecInv, Codec!UtxosComeBack, Codec!LoadUtxo
  <2>3. QED
    BY <2>1, <2>2
<1>7. Codec!UtxosComeBack'
  BY <1>6 DEF Codec!UtxosComeBack
<1>8. Codec!BalanceComesBack'
  <2>1. kv'[<<"a">>] = kv[<<"a">>]
    BY <1>3, <1>5, KeysAre
  <2>2. QED
    BY <1>2, <2>1 DEF CodecInv, Codec!BalanceComesBack, Codec!GetAccBal
<1>9. QED
  BY <1>2, <1>5, <1>7, <1>8 DEF CodecInv

LEMMA BalanceSaved ==
    ASSUME PartsAssumption, CodecInv, NEW balance \in Balances, Codec!SetAccBal(balance)
    PROVE  CodecInv'
<1> DEFINE bytes == IF balance = 0 THEN <<>> ELSE Codec!Compact(balance)
           zeros == [i \in 1..(Int64Len - Len(bytes)) |-> 0]
           k == <<"a">>
<1>1. balance \in Codec!Int64s \cap Nat
  BY DEF PartsAssumption, Codec!StateCodecAssumption
<1>2. kv' = [kv EXCEPT ![k] = bytes] /\ last' = [last EXCEPT !.balance = balance]
  BY DEF Codec!SetAccBal
<1>3. /\ last' \in [state : Codec!States, utxos : [Ids -> Codec!Outputs \cup {Error}],
                    balance : Int]
      /\ last'.state = last.state /\ last'.balance = balance /\ last'.utxos = last.utxos
  BY <1>1, <1>2 DEF CodecInv
<1>4. /\ bytes \in Seq(Codec!Byte)
      /\ IF bytes = <<>> THEN balance = 0
         ELSE Codec!GetInt64(zeros \o bytes, 0) = balance
  <2>1. CASE balance = 0
    BY <2>1
  <2>2. CASE balance # 0
    <3>1. bytes = Codec!Compact(balance)
      BY <2>2
    <3>2. zeros = [i \in 1..(Int64Len - Len(bytes)) |-> 0]
      OBVIOUS
    <3> HIDE DEF bytes, zeros
    <3>3. /\ bytes \in Seq(Codec!Byte) /\ bytes # <<>>
          /\ Codec!GetInt64(zeros \o bytes, 0) = balance
      BY <1>1, <2>2, <3>1, <3>2, BalanceBack
    <3>4. QED
      BY <3>3
  <2>3. QED
    BY <2>1, <2>2
<1>5. /\ k \in Codec!Keys /\ k # <<"r">> /\ k # <<"i">> /\ k # <<"p">> /\ k # <<"s">>
      /\ \A id \in Ids : <<"u", id>> # k
  BY KeysAre, KeysApart
<1>6. zeros = [i \in 1..(Int64Len - Len(bytes)) |-> 0] /\ k = <<"a">>
  OBVIOUS
<1> HIDE DEF bytes, zeros, k
<1>7. /\ Codec!TypeOK' /\ Codec!StateComesBack' /\ kv'[k] = bytes
      /\ \A other \in Codec!Keys : other # k => kv'[other] = kv[other]
  BY <1>2, <1>3, <1>4, <1>5, OtherKeyWritten
<1>8. Codec!UtxosComeBack'
  <2>1. \A id \in Ids : kv'[<<"u", id>>] = kv[<<"u", id>>]
    BY <1>5, <1>7, KeysAre
  <2>2. QED
    BY <1>3, <2>1 DEF CodecInv, Codec!UtxosComeBack, Codec!LoadUtxo
<1>9. Codec!BalanceComesBack'
  BY <1>3, <1>4, <1>6, <1>7 DEF Codec!BalanceComesBack, Codec!GetAccBal
<1>10. QED
  BY <1>3, <1>7, <1>8, <1>9 DEF CodecInv

LEMMA CodecSteps ==
    ASSUME PartsAssumption, CodecInv, [Codec!Next]_Codec!vars
    PROVE  CodecInv'
<1>1. CASE UNCHANGED Codec!vars
  BY <1>1 DEF Codec!vars, CodecInv, Codec!TypeOK, Codec!StateComesBack,
              Codec!IntializeContractState, Codec!SupplyFromState, Codec!UtxosComeBack,
              Codec!LoadUtxo, Codec!BalanceComesBack, Codec!GetAccBal
<1>2. ASSUME NEW id \in Ids, Codec!DeleteUtxo(id) PROVE CodecInv'
  <2>1. <<>> \in Seq(Codec!Byte) /\ Error \in Codec!Outputs \cup {Error}
    OBVIOUS
  <2>2. /\ kv' = [kv EXCEPT ![<<"u", id>>] = <<>>]
        /\ last' = [last EXCEPT !.utxos[id] = Error]
    BY <1>2 DEF Codec!DeleteUtxo
  <2>3. QED
    BY <2>1, <2>2, UtxoSaved
<1>3. ASSUME NEW id \in Ids, NEW u \in Utxos, Codec!SaveUtxo(id, u) PROVE CodecInv'
  <2> DEFINE bytes == Codec!MarshalUtxo(u)
  <2>1. u \in Codec!Outputs /\ u # Error
    BY DEF PartsAssumption, Codec!StateCodecAssumption
  <2>2. /\ bytes \in Seq(Codec!Byte) /\ bytes # <<>>
        /\ Codec!UnmarshalUtxo(bytes) = ReadUtxo(u)
    BY <2>1, UtxoBack
  <2>3. /\ kv' = [kv EXCEPT ![<<"u", id>>] = bytes]
        /\ last' = [last EXCEPT !.utxos[id] = u]
    BY <1>3 DEF Codec!SaveUtxo
  <2> HIDE DEF bytes
  <2>4. QED
    BY <2>1, <2>2, <2>3, UtxoSaved
<1>4. QED
  BY <1>1, <1>2, <1>3, StateSaved, SupplySaved, BalanceSaved DEF Codec!Next

LEMMA CodecRuns ==
    /\ PartsInit /\ part = "codec" => Codec!Init
    /\ part = "codec" /\ [PartsNext]_partsVars => [Codec!Next]_Codec!vars
  BY DEF PartsInit, PartsNext, partsVars, codecVars, Codec!vars

LEMMA CodecInPart ==
    PartsSpec => [](part = "codec" => CodecInv)
<1>1. PartsInit /\ part = "codec" => CodecInv
  BY PartsAssumption, CodecRuns, CodecStarts
<1>2. (part = "codec" => CodecInv) /\ [PartsNext]_partsVars
        => (part = "codec" => CodecInv)'
  BY PartsAssumption, PartStays, CodecRuns, CodecSteps
<1>3. QED
  BY <1>1, <1>2, PTL DEF PartsSpec

\* Whatever the widths of bytes, numbers and ids and whatever the calls keep, as
\* long as it has the types of the code and scripts and tags are no longer than
\* a byte can say, the next call loads it from the keys as it was.
THEOREM StateSurvives == PartsSpec => []SavedComesBack
<1>1. (part = "codec" => CodecInv) => SavedComesBack
  BY DEF CodecInv, SavedComesBack
<1>2. QED
  BY <1>1, CodecInPart, PTL

----------------------------------------------------------------------------
\* Types: the stack of a witness script never outgrows the longest witness.

\* How many elements less than the longest witness the stack has at each
\* position: one where an operation to come pushes one before any takes one.
Spare(position, taken) ==
    LET e == ElseAt(tag) IN
    IF \/ taken /\ position \in {2, e + 1, e + 4}
       \/ taken /\ e = 5 /\ position = 4
       \/ ~taken /\ position \in 2..e
    THEN 1 ELSE 0

Roomy ==
    /\ age \in Ages
    /\ branch \in {"none", "taken", "skipped"}
    /\ verdict \in {"none", "valid", "invalid"}
    /\ Len(stack) + Spare(pc, branch = "taken") <= MaxWitness

LEMMA RoomyStarts ==
    ASSUME Witness!WitnessScriptAssumption, Witness!Init
    PROVE  Roomy
<1>1. PICK n \in 1..MaxWitness : witness \in [1..n -> Witness!Elements]
  BY DEF Witness!Init, Witness!Witnesses
<1>2. Len(stack) = n /\ n <= MaxWitness
  BY <1>1 DEF Witness!Init, Witness!WitnessScriptAssumption
<1>3. pc = 1 /\ branch = "none" /\ ElseAt(tag) \in {4, 5}
  BY DEF Witness!Init, ElseAt
<1>4. Spare(pc, branch = "taken") = 0
  BY <1>3 DEF Spare
<1>5. QED
  BY <1>1, <1>2, <1>4 DEF Witness!Init, Roomy, Witness!WitnessScriptAssumption

LEMMA RoomySteps ==
    ASSUME Witness!WitnessScriptAssumption, OnlyEarned, Roomy,
           [Witness!Next]_Witness!vars
    PROVE  Roomy'
<1> DEFINE e == ElseAt(tag)
           K == Len(stack)
<1>1. e \in {4, 5}
  BY DEF ElseAt
<1>2. /\ pc \in 1..(e + 7) /\ stack \in Seq(Stackable) /\ K \in Nat
      /\ StackAt(pc, branch = "taken", stack)
      /\ pc \in 2..(e + 6) => branch \in {"taken", "skipped"}
  BY DEF OnlyEarned
<1>3. /\ age \in Ages /\ branch \in {"none", "taken", "skipped"}
      /\ verdict \in {"none", "valid", "invalid"}
      /\ K + Spare(pc, branch = "taken") <= MaxWitness /\ MaxWitness \in Nat
  BY DEF Roomy, Witness!WitnessScriptAssumption
<1>4. ASSUME Witness!Advance, branch' \in {"none", "taken", "skipped"},
             Len(stack') + Spare(pc + 1, branch' = "taken") <= MaxWitness
      PROVE  Roomy'
  BY <1>3, <1>4 DEF Witness!Advance, Roomy, Spare
<1>5. ASSUME NEW k \in 1..K, Witness!Advance, branch' \in {"none", "taken", "skipped"},
              stack' = SubSeq(stack, 1, K - k)
       PROVE  Roomy'
  <2> DEFINE left == K - k
             before == Spare(pc, branch = "taken")
             after == Spare(pc + 1, branch' = "taken")
  <2>1. left \in 0..Len(stack) /\ stack' = SubSeq(stack, 1, left) /\ left <= K - 1
    BY <1>2, <1>5
  <2>2. before \in {0, 1} /\ after \in {0, 1} /\ K + before <= MaxWitness
    BY <1>3 DEF Spare
  <2> HIDE DEF left, before, after
  <2>3. Len(stack') = left
    BY <1>2, <2>1, Popped
  <2>4. Len(stack') + after <= MaxWitness
    BY <1>2, <1>3, <2>1, <2>2, <2>3
  <2>5. QED
    BY <1>4, <1>5, <2>4 DEF after
<1>6. CASE Witness!Fail
  BY <1>3, <1>6 DEF Witness!Fail, Roomy, Spare
<1>7. CASE Witness!If
  <2>1. pc = 1 /\ Witness!Advance /\ branch' \in {"taken", "skipped"}
        /\ stack' = SubSeq(stack, 1, K - 1)
    BY <1>2, <1>7, RunningAt DEF Witness!If, Witness!Pop
  <2>2. K >= 1
    BY <1>1, <1>2, <2>1 DEF StackAt
  <2>3. QED
    BY <1>2, <1>5, <2>1, <2>2
<1>8. CASE Witness!Else
  <2>1. /\ pc = e /\ Witness!Advance /\ stack' = stack
        /\ branch' = IF branch = "taken" THEN "skipped" ELSE "taken"
    BY <1>2, <1>8, RunningAt DEF Witness!Else
  <2>2. Spare(pc + 1, branch' = "taken") <= Spare(pc, branch = "taken")
    BY <1>1, <1>2, <2>1 DEF Spare
  <2>3. QED
    BY <1>2, <1>3, <1>4, <2>1, <2>2 DEF Spare
<1>9. CASE Witness!EndIf
  <2>1. pc = e + 6 /\ Witness!Advance /\ stack' = stack /\ branch' = "none"
    BY <1>2, <1>9, RunningAt DEF Witness!EndIf
  <2>2. Spare(pc + 1, branch' = "taken") = 0
    BY <1>1, <2>1 DEF Spare
  <2>3. QED
    BY <1>2, <1>3, <1>4, <2>1, <2>2 DEF Spare
<1>10. CASE Witness!Skip
  <2>1. /\ branch = "skipped" /\ branch' = branch /\ stack' = stack /\ Witness!Advance
        /\ pc \in (2..(e - 1)) \cup ((e + 1)..(e + 5))
    BY <1>1, <1>2, <1>10, RunningAt DEF Witness!Skip
  <2>2. Spare(pc + 1, branch' = "taken") = Spare(pc, branch = "taken")
    BY <1>1, <2>1 DEF Spare
  <2>3. QED
    BY <1>2, <1>3, <1>4, <2>1, <2>2
<1>11. CASE Witness!PushData
  <2> DEFINE x == Witness!Script(tag)[pc].data
  <2>1. /\ branch = "taken" /\ branch' = branch /\ Witness!Advance
        /\ stack' = Append(stack, x)
        /\ pc = 2 \/ (e = 5 /\ pc = 4) \/ pc = e + 1 \/ pc = e + 4
    BY <1>2, <1>11, RunningAt DEF Witness!PushData
  <2> HIDE DEF x
  <2>2. Len(stack') = K + 1
    BY <1>2, <2>1
  <2>3. Spare(pc, branch = "taken") = 1 /\ Spare(pc + 1, branch' = "taken") = 0
    BY <1>1, <2>1 DEF Spare
  <2>4. QED
    BY <1>2, <1>3, <1>4, <2>1, <2>2, <2>3
<1>12. CASE Witness!Drop
  <2>1. /\ pc = e + 3 /\ branch = "taken" /\ branch' = branch /\ Witness!Advance
        /\ stack' = SubSeq(stack, 1, K - 1)
    BY <1>2, <1>12, RunningAt DEF Witness!Drop, Witness!Pop
  <2>2. K >= 1
    BY <1>1, <1>2, <2>1 DEF StackAt, UnderTop
  <2>3. QED
    BY <1>2, <1>5, <2>1, <2>2
<1>13. CASE Witness!CheckSig /\ ~Witness!Fail
  <2> DEFINE left == K - 2
             x == Witness!Truth(stack[K - 1] = BySignerOf(stack[K]))
             rest == SubSeq(stack, 1, left)
  <2>1. /\ branch = "taken" /\ branch' = branch /\ Witness!Advance
        /\ K >= 2 /\ stack' = Append(rest, x)
        /\ pc = e + 5 \/ (e = 4 /\ pc = 3)
    BY <1>2, <1>13, RunningAt DEF Witness!CheckSig, Witness!Top
  <2>2. left \in 0..Len(stack) /\ left = K - 2
    BY <1>2, <2>1
  <2> HIDE DEF left, x
  <2>3. rest \in Seq(Stackable) /\ Len(rest) = left
    BY <1>2, <2>2, Popped
  <2> HIDE DEF rest
  <2>4. Len(stack') = K - 1
    BY <1>2, <2>1, <2>2, <2>3
  <2>5. Spare(pc, branch = "taken") \in Nat /\ Spare(pc + 1, branch' = "taken") \in {0, 1}
    BY DEF Spare
  <2>6. QED
    BY <1>2, <1>3, <1>4, <2>1, <2>4, <2>5
<1>14. CASE Witness!CheckSigVerify /\ ~Witness!Fail
  <2>1. /\ branch = "taken" /\ branch' = branch /\ Witness!Advance
        /\ K >= 2 /\ stack' = SubSeq(stack, 1, K - 2)
    BY <1>2, <1>14 DEF Witness!CheckSigVerify
  <2>2. QED
    BY <1>2, <1>5, <2>1
<1>15. CASE Witness!CheckSequenceVerify /\ ~Witness!Fail
  <2>1. /\ branch = "taken" /\ branch' = branch /\ Witness!Advance /\ stack' = stack
        /\ pc = e + 2
    BY <1>2, <1>15, RunningAt DEF Witness!CheckSequenceVerify
  <2>2. Spare(pc + 1, branch' = "taken") = 0
    BY <1>1, <2>1 DEF Spare
  <2>3. QED
    BY <1>2, <1>3, <1>4, <2>1, <2>2 DEF Spare
<1>16. CASE Witness!Finish
  BY <1>3, <1>16 DEF Witness!Finish, Roomy, Spare
<1>17. CASE UNCHANGED Witness!vars
  BY <1>3, <1>17 DEF Witness!vars, Roomy, Spare
<1>18. QED
  BY <1>6, <1>7, <1>8, <1>9, <1>10, <1>11, <1>12, <1>13, <1>14, <1>15, <1>16, <1>17
     DEF Witness!Next

LEMMA WitnessTyped ==
    ASSUME Witness!WitnessScriptAssumption, OnlyEarned, Roomy
    PROVE  Witness!TypeOK
<1>1. Len(Witness!Script(tag)) = ElseAt(tag) + 6 /\ ElseAt(tag) \in {4, 5}
  BY ScriptOps DEF Operations, ElseAt
<1>2. pc \in 1..(Len(Witness!Script(tag)) + 1)
  BY <1>1 DEF OnlyEarned
<1>3. Len(stack) <= MaxWitness
  <2>1. Len(stack) \in Nat /\ Spare(pc, branch = "taken") \in Nat
    BY DEF OnlyEarned, Spare
  <2>2. QED
    BY <2>1 DEF Roomy, Witness!WitnessScriptAssumption
<1>4. QED
  BY <1>2, <1>3 DEF Witness!TypeOK, OnlyEarned, Roomy, Stackable

LEMMA WitnessTypeInPart ==
    PartsSpec => [](part = "witness" => OnlyEarned /\ Roomy)
<1>1. PartsInit /\ part = "witness" => OnlyEarned /\ Roomy
  BY PartsAssumption, WitnessRuns, EarnedStarts, RoomyStarts DEF PartsAssumption
<1>2. (part = "witness" => OnlyEarned /\ Roomy) /\ [PartsNext]_partsVars
        => (part = "witness" => OnlyEarned /\ Roomy)'
  BY PartsAssumption, PartStays, WitnessRuns, EarnedSteps, RoomySteps DEF PartsAssumption
<1>3. QED
  BY <1>1, <1>2, PTL DEF PartsSpec

\* For any users and amounts no balance leaves the int64s, for any witness the
\* stack of a script stays within the witness's own size, in any block the index
\* of the Merkle loop has the bits left that it has not used, and the keys hold
\* bytes.
THEOREM PartsTyped == PartsSpec => []PartsTypeOK
<1>1. /\ part = "intents" => Intents!TypeOK /\ Intents!Conserved
      /\ part = "witness" => OnlyEarned /\ Roomy
      /\ part = "merkle" => MerkleInv
      /\ part = "codec" => CodecInv
      => PartsTypeOK
  BY PartsAssumption, WitnessTyped
     DEF PartsAssumption, MerkleInv, Merkle!TypeOK, CodecInv, PartsTypeOK
<1>2. QED
  BY <1>1, IntentsInPart, WitnessTypeInPart, MerkleInPart, CodecInPart, PTL

=============================================================================
