----------------------------- MODULE BtcMapping -----------------------------
(***************************************************************************)
(* The mapping contract (contract/mapping): deposits of bitcoin become     *)
(* balances (map), balances move between accounts (transfer and            *)
(* transferFrom), and balances become withdrawals (unmap), whose           *)
(* transaction the contract builds out of the unspent outputs it tracks.   *)
(*                                                                         *)
(* A call is atomic: the host runs one at a time and rolls back every      *)
(* write of a call that aborts, so an aborting call is a stuttering step   *)
(* and every action below is a call that commits.  The variables are the   *)
(* state keys of the contract; spendTx remembers the transactions that     *)
(* unmap has handed out, which Bitcoin may include in a block at any time. *)
(*                                                                         *)
(* Public keys are taken as registered and fixed.  An address is then      *)
(* determined by the tag of its script, and stands for it.                 *)
(***************************************************************************)
EXTENDS SlotPools, Fees, Sequences, FiniteSets, Functions

CONSTANTS
    Accounts,       \* accounts of the host chain
    Router,         \* the account of the router contract
    Instructions,   \* deposit instructions, each with its own address
    Kind,           \* "deposit" or "swap", for each instruction
    Recipient,      \* the account an instruction names
    External,       \* bitcoin addresses the bridge does not control
    OutputSize,     \* bytes of an output that pays an external address
    ChangeAddress,  \* the address derived from the tag nil
    EmptyTag,       \* the tag of length zero that is not nil
    Deposits,       \* ids of bitcoin transactions others have made
    DepositOuts,    \* the outputs of each of them
    SpendIds,       \* ids for the transactions unmap makes
    TaggedScript,   \* bytes of a witness script with a 32-byte tag
    UntaggedScript, \* bytes of a witness script for the tag of length zero
    MaxInt64,       \* math.MaxInt64
    MapInputs,      \* the instruction sets callers pass to map
    UnmapAmounts,   \* the amounts callers withdraw
    TransferAmounts,\* the amounts callers transfer
    FeeRates,       \* the fee rates the oracle reports
    NoTx            \* the answer for a spend id that is not in use

Addresses == Instructions \cup External \cup {ChangeAddress}
Tags == Instructions \cup {EmptyTag}
TxIds == Deposits \cup SpendIds
\* An amount below zero can only be that of change.
TxOut == {o \in [addr : Addresses, amount : Int] :
             o.addr # ChangeAddress => o.amount \in Nat}
Utxo == [txid : TxIds, vout : Nat, amount : Int, addr : Addresses, tag : Tags]
Entry == [id : Slots, amount : Int]
Spend == [ins : Seq(TxIds \X Nat), outs : Seq(TxOut), fee : Int]

ASSUME BtcMappingAssumption ==
    /\ IsFiniteSet(Accounts)
    /\ Router \in Accounts
    /\ Kind \in [Instructions -> {"deposit", "swap"}]
    /\ Recipient \in [Instructions -> Accounts]
    /\ OutputSize \in [External -> Nat]
    /\ DepositOuts \in [Deposits -> Seq([addr : Addresses, amount : Nat])]
    /\ TaggedScript \in Nat /\ UntaggedScript \in Nat
    /\ MaxInt64 \in Nat
    /\ MapInputs \subseteq SUBSET Instructions
    /\ UnmapAmounts \subseteq Nat \ {0}
    /\ TransferAmounts \subseteq Nat \ {0}
    /\ FeeRates \subseteq Nat
    /\ Instructions \cap External = {}
    /\ ChangeAddress \notin Instructions \cup External
    /\ EmptyTag \notin Instructions
    /\ Deposits \cap SpendIds = {}
    /\ NoUtxo \notin Utxo
    /\ NoTx \notin Spend \cup Seq(Tags)

VARIABLES
    utxos,      \* state keys "u-<slot>"
    registry,   \* state key "r": slot and amount of each unspent output
    nextId,     \* state key "i": the next candidate slot of each pool
    spends,     \* state keys "d-<txid>": the tag of each input's script
    spendsList, \* state key "p": ids of the spends not yet seen in a block
    supply,     \* state key "s"
    balances,   \* state keys "a-<account>"
    observed,   \* state keys "o-<txid>:<vout>"
    spendTx     \* history variable: the transactions unmap has made

vars == <<utxos, registry, nextId, spends, spendsList, supply, balances,
          observed, spendTx>>

Init ==
    /\ utxos = [s \in Slots |-> NoUtxo]
    /\ registry = <<>>
    /\ nextId = [confirmed |-> ConfirmedStart, unconfirmed |-> 0]
    /\ spends = [t \in SpendIds |-> NoTx]
    /\ spendsList = <<>>
    /\ supply = [active |-> 0, user |-> 0, fee |-> 0, baseFeeRate |-> 0]
    /\ balances = [a \in Accounts |-> 0]
    /\ observed = {}
    /\ spendTx = [t \in SpendIds |-> NoTx]

----------------------------------------------------------------------------
\* The registry.

\* The entries whose slots are in a set, in their order.  A recursive
\* function rather than SelectSeq, so that it can be proved about.
EntriesIn(list, slots) ==
    LET kept[k \in 0..Len(list)] ==
            IF k = 0 THEN <<>>
            ELSE IF list[k].id \in slots THEN Append(kept[k - 1], list[k])
            ELSE kept[k - 1]
    IN  kept[Len(list)]

\* The sum of the first k elements of a sequence of integers.
PrefixSum(list, k) ==
    LET acc[j \in 0..Len(list)] == IF j = 0 THEN 0 ELSE acc[j - 1] + list[j]
    IN  acc[k]

Amounts(list) == [j \in DOMAIN list |-> list[j].amount]

\* A slot read from the state: what UnmarshalUtxo returns for the tag nil
\* of a change output is an empty, non-nil tag.
StoredTag(addr) == IF addr = ChangeAddress THEN EmptyTag ELSE addr

\* The address that createP2WSHAddressWithBackup derives from a tag, tags
\* standing for their addresses: only nil gives the change address.
AddressOf(tag) == tag

----------------------------------------------------------------------------
\* Transactions that Bitcoin may include in a block: anybody's deposits, and
\* the spends of the contract once they are signed and broadcast.  Any spend
\* may be included, before or after those it spends from: the contract sees
\* each in a call of its own and cannot tell.

Known(txid) == txid \in Deposits \/ (txid \in SpendIds /\ spendTx[txid] # NoTx)

Outs(txid) == IF txid \in Deposits THEN DepositOuts[txid] ELSE spendTx[txid].outs

----------------------------------------------------------------------------
\* map, first part: updateUtxoSpends.

\* The positions in the registry of the unconfirmed outputs that the loop
\* matches with the input of index index: the comparison is of the input's
\* index with the output's Vout.
Matching(st, txid, index) ==
    {p \in DOMAIN st.registry :
        /\ st.registry[p].id \in UnconfirmedPool
        /\ st.utxos[st.registry[p].id].txid = txid
        /\ st.utxos[st.registry[p].id].vout = index}

\* Mutant of Promote: the unconfirmed key is not deleted.
PromoteKeepsKey(st, txid, index) ==
    IF st.full \/ Matching(st, txid, index) = {} THEN st
    ELSE IF Free(st.utxos, ConfirmedPool) = {} THEN [st EXCEPT !.full = TRUE]
    ELSE LET p == CHOOSE q \in Matching(st, txid, index) : TRUE
             new == FirstFree(st.utxos, ConfirmedPool, st.next)
         IN  [utxos    |-> [st.utxos EXCEPT ![new] = st.utxos[st.registry[p].id]],
              registry |-> [st.registry EXCEPT ![p].id = new],
              next     |-> AfterSlot(new),
              full     |-> FALSE]

\* Move the matching output to the confirmed pool.  An output has one Vout, so
\* at most one matches; with the pool full the loop returns.
Promote(st, txid, index) ==
    IF st.full \/ Matching(st, txid, index) = {} THEN st
    ELSE IF Free(st.utxos, ConfirmedPool) = {} THEN [st EXCEPT !.full = TRUE]
    ELSE LET p == CHOOSE q \in Matching(st, txid, index) : TRUE
             old == st.registry[p].id
             new == FirstFree(st.utxos, ConfirmedPool, st.next)
         IN  [utxos    |-> [st.utxos EXCEPT ![new] = st.utxos[old],
                                            ![old] = NoUtxo],
              registry |-> [st.registry EXCEPT ![p].id = new],
              next     |-> AfterSlot(new),
              full     |-> FALSE]

\* The loop over the sighashes of the spend, one for each of its inputs.
UpdateUtxoSpends(txid) ==
    LET n == IF txid \in SpendIds /\ spends[txid] # NoTx
             THEN Len(spends[txid]) ELSE 0
        loop[k \in 0..n] ==
            IF k = 0 THEN [utxos |-> utxos, registry |-> registry,
                           next |-> nextId.confirmed, full |-> FALSE]
            ELSE Promote(loop[k - 1], txid, k - 1)
    IN  loop[n]

\* Mutant of SwapRemove: the list is shortened without the swap.
SwapRemoveLast(list, txid) ==
    IF txid \in {list[i] : i \in DOMAIN list}
    THEN SubSeq(list, 1, Len(list) - 1) ELSE list

\* The first element equal to txid gives its place to the last one.
SwapRemove(list, txid) ==
    LET hits == {i \in DOMAIN list : list[i] = txid}
        first == CHOOSE i \in hits : \A j \in hits : i <= j
    IN  IF hits = {} THEN list
        ELSE [i \in 1..(Len(list) - 1) |->
                 IF i = first THEN list[Len(list)] ELSE list[i]]

\* Mutant of ForgetSpend: the signing data goes even when the loop returned
\* with outputs left to promote.
ForgetSpendAlways(txid, full) ==
    IF txid \in SpendIds /\ spends[txid] # NoTx
    THEN /\ spends' = [spends EXCEPT ![txid] = NoTx]
         /\ spendsList' = SwapRemove(spendsList, txid)
    ELSE UNCHANGED <<spends, spendsList>>

\* Mutant of ForgetSpend: a spend of which nothing is left to promote stays.
ForgetSpendPromoted(txid, full) ==
    IF /\ txid \in SpendIds /\ spends[txid] # NoTx /\ ~full
       /\ \E s \in UnconfirmedPool : utxos[s] # NoUtxo /\ utxos[s].txid = txid
    THEN /\ spends' = [spends EXCEPT ![txid] = NoTx]
         /\ spendsList' = SwapRemove(spendsList, txid)
    ELSE UNCHANGED <<spends, spendsList>>

\* The signing data goes when the loop has run to its end, promoting or not.
ForgetSpend(txid, full) ==
    IF txid \in SpendIds /\ spends[txid] # NoTx /\ ~full
    THEN /\ spends' = [spends EXCEPT ![txid] = NoTx]
         /\ spendsList' = SwapRemove(spendsList, txid)
    ELSE UNCHANGED <<spends, spendsList>>

----------------------------------------------------------------------------
\* map, second part: indexOutputs and processUtxos.

\* What an iteration does to the balances: a deposit goes to the recipient
\* of the instruction, and if that overflows the error is dropped; a swap goes
\* to the sender, from whom the router, when it draws, takes the same amount
\* by transferFrom.  Of use only where the call does not abort.
Credited(bal, instr, sender, amount, drawn) ==
    IF Kind[instr] = "deposit"
    THEN IF bal[Recipient[instr]] + amount > MaxInt64 THEN bal
         ELSE [bal EXCEPT ![Recipient[instr]] = @ + amount]
    ELSE IF drawn
         THEN [bal EXCEPT ![Router] = @ + amount]
         ELSE [bal EXCEPT ![sender] = @ + amount]

\* A swap fails when the sender's balance, or after it the router's, overflows.
CreditAborts(bal, instr, sender, amount, drawn) ==
    /\ Kind[instr] = "swap"
    /\ \/ bal[sender] + amount > MaxInt64
       \/ drawn /\ Router # sender /\ bal[Router] + amount > MaxInt64

\* Mutant of Passed: an output already observed is processed again.
PassedUnobserved(st, txid, index, instrs) ==
    \/ st.aborted
    \/ Outs(txid)[index + 1].addr \notin instrs

\* The outputs an iteration has nothing to do for: those that pay no address
\* of the instructions, and those that an earlier call has observed.
Passed(st, txid, index, instrs) ==
    \/ st.aborted
    \/ Outs(txid)[index + 1].addr \notin instrs
    \/ <<txid, index>> \in st.observed

\* The loop over the outputs of a transaction, index being an output's Vout.
ProcessOutput(st, txid, index, instrs, sender, drawn) ==
    LET out == Outs(txid)[index + 1]
        new == FirstFree(st.utxos, ConfirmedPool, st.next)
    IN  IF Passed(st, txid, index, instrs) THEN st
        ELSE IF \/ Free(st.utxos, ConfirmedPool) = {}
                \/ CreditAborts(st.balances, out.addr, sender, out.amount, drawn)
                \/ st.total + out.amount > MaxInt64
        THEN [st EXCEPT !.aborted = TRUE]
        ELSE [utxos    |-> [st.utxos EXCEPT ![new] =
                               [txid |-> txid, vout |-> index,
                                amount |-> out.amount, addr |-> out.addr,
                                tag |-> StoredTag(out.addr)]],
              registry |-> Append(st.registry, [id |-> new, amount |-> out.amount]),
              next     |-> AfterSlot(new),
              observed |-> st.observed \cup {<<txid, index>>},
              balances |-> Credited(st.balances, out.addr, sender, out.amount, drawn),
              total    |-> st.total + out.amount,
              aborted  |-> FALSE]

ProcessUtxos(st0, txid, instrs, sender, drawn) ==
    LET loop[k \in 0..Len(Outs(txid))] ==
            IF k = 0 THEN st0
            ELSE ProcessOutput(loop[k - 1], txid, k - 1, instrs, sender, drawn)
    IN  loop[Len(Outs(txid))]

\* Mutant of OutputsFit: outputs that were observed before are not counted.
OutputsFitUnobserved(txid, instrs) ==
    Cardinality({v \in DOMAIN Outs(txid) : /\ Outs(txid)[v].addr \in instrs
                                           /\ <<txid, v - 1>> \notin observed})
        = Cardinality(instrs)

\* indexOutputs makes room for one output per instruction: the call traps
\* unless exactly as many outputs pay the addresses of the instructions.
OutputsFit(txid, instrs) ==
    Cardinality({v \in DOMAIN Outs(txid) : Outs(txid)[v].addr \in instrs})
        = Cardinality(instrs)

\* Mutant of SupplyFits: the new supplies are not tested for overflow.
SupplyUnchecked(total) == TRUE

\* safeAdd64 on both supplies.
SupplyFits(total) ==
    /\ supply.active + total <= MaxInt64
    /\ supply.user + total <= MaxInt64

\* map: sender passes a transaction that is in a block with a set of
\* instructions.  The Merkle proof is that of a known transaction.  (The sets
\* of one element make TLC compute promoted and st once, under ENABLED too.)
Map(txid, instrs, sender, drawn) ==
    /\ Known(txid)
    /\ OutputsFit(txid, instrs)
    /\ \E promoted \in {UpdateUtxoSpends(txid)} :
       \E st \in {ProcessUtxos(
                     [utxos |-> promoted.utxos, registry |-> promoted.registry,
                      next |-> promoted.next, observed |-> observed,
                      balances |-> balances, total |-> 0, aborted |-> FALSE],
                     txid, instrs, sender, drawn)} :
           /\ ~st.aborted
           /\ SupplyFits(st.total)
           /\ utxos' = st.utxos
           /\ registry' = st.registry
           /\ nextId' = [nextId EXCEPT !.confirmed = st.next]
           /\ ForgetSpend(txid, promoted.full)
           /\ supply' = [supply EXCEPT !.active = @ + st.total,
                                       !.user = @ + st.total]
           /\ balances' = st.balances
           /\ observed' = st.observed
           /\ UNCHANGED spendTx

----------------------------------------------------------------------------
\* unmap.

\* getInputUtxoIds: the first confirmed output that covers the amount and the
\* estimated fee by itself, or else the fewest outputs that cover them
\* together, taken in the order of the registry, confirmed ones first.  The
\* empty sequence when all of them do not.
SelectInputs(amount) ==
    LET Covers(n, sum) ==
            sum >= amount + EstimateFee(n, amount, sum, supply.baseFeeRate)
        single == {p \in DOMAIN registry :
                      /\ registry[p].id \in ConfirmedPool
                      /\ Covers(1, registry[p].amount)}
        list == EntriesIn(registry, ConfirmedPool)
                    \o EntriesIn(registry, UnconfirmedPool)
        enough == {k \in 1..Len(list) : Covers(k, PrefixSum(Amounts(list), k))}
        First(S) == CHOOSE k \in S : \A l \in S : k <= l
    IN  IF single # {} THEN <<registry[First(single)]>>
        ELSE IF enough = {} THEN <<>>
        ELSE [k \in 1..First(enough) |-> list[k]]

ScriptSize(tag) == IF tag = EmptyTag THEN UntaggedScript ELSE TaggedScript

DestSize(dest) == IF dest \in External THEN OutputSize[dest] ELSE ChangeOutputSize

\* createSpendTransaction: the receiver's output, then the change.
SpendOuts(dest, amount, totalChange, fee) ==
    LET change == ChangeAmounts(totalChange, fee)
    IN  <<[addr |-> dest, amount |-> amount]>>
            \o [k \in DOMAIN change |->
                   [addr |-> ChangeAddress, amount |-> change[k]]]

\* One output of the new transaction in indexUnconfimedOutputs and the loop
\* after it: what pays the change address gets a slot of the unconfirmed pool.
TrackOutput(st, txid, outs, index) ==
    LET out == outs[index + 1]
        new == FirstFree(st.utxos, UnconfirmedPool, st.next)
    IN  IF st.full \/ out.addr # ChangeAddress THEN st
        ELSE IF Free(st.utxos, UnconfirmedPool) = {} THEN [st EXCEPT !.full = TRUE]
        ELSE [utxos    |-> [st.utxos EXCEPT ![new] =
                               [txid |-> txid, vout |-> index,
                                amount |-> out.amount, addr |-> out.addr,
                                tag |-> StoredTag(out.addr)]],
              registry |-> Append(st.registry, [id |-> new, amount |-> out.amount]),
              next     |-> AfterSlot(new),
              full     |-> FALSE]

TrackOutputs(txid, outs) ==
    LET loop[k \in 0..Len(outs)] ==
            IF k = 0 THEN [utxos |-> utxos, registry |-> registry,
                           next |-> nextId.unconfirmed, full |-> FALSE]
            ELSE TrackOutput(loop[k - 1], txid, outs, k - 1)
    IN  loop[Len(outs)]

\* unmap: the sender, with an intent that covers it, withdraws amount to dest.
\* The id is that of a transaction nobody has seen: its inputs are new.
Unmap(sender, amount, dest, txid) ==
    LET entries == SelectInputs(amount)
        inputs == [j \in DOMAIN entries |-> utxos[entries[j].id]]
        inputIds == {entries[j].id : j \in DOMAIN entries}
        total == PrefixSum(Amounts(entries), Len(entries))
        scripts == [j \in DOMAIN inputs |-> ScriptSize(inputs[j].tag)]
        fee == SpendFee(Len(entries), PrefixSum(scripts, Len(scripts)),
                        DestSize(dest), total - amount, supply.baseFeeRate)
        outs == SpendOuts(dest, amount, total - amount, fee)
        finalAmt == amount + VscFee(amount) + fee
        st == TrackOutputs(txid, outs)
    IN  /\ spendTx[txid] = NoTx
        /\ CoversVscFee(amount)
        /\ entries # <<>>
        /\ NoUtxo \notin {inputs[j] : j \in DOMAIN inputs}
        /\ total <= MaxInt64
        /\ balances[sender] >= finalAmt
        /\ ~st.full
        /\ supply.fee + VscFee(amount) <= MaxInt64
        /\ utxos' = [s \in Slots |-> IF s \in inputIds THEN NoUtxo ELSE st.utxos[s]]
        /\ registry' = EntriesIn(st.registry, Slots \ inputIds)
        /\ nextId' = [nextId EXCEPT !.unconfirmed = st.next]
        /\ spends' = [spends EXCEPT ![txid] = [j \in DOMAIN inputs |-> inputs[j].tag]]
        /\ spendsList' = Append(spendsList, txid)
        /\ supply' = [supply EXCEPT !.active = @ - finalAmt, !.user = @ - finalAmt,
                                    !.fee = @ + VscFee(amount)]
        /\ balances' = [balances EXCEPT ![sender] = @ - finalAmt]
        /\ spendTx' = [spendTx EXCEPT ![txid] =
                          [ins  |-> [j \in DOMAIN inputs |->
                                        <<inputs[j].txid, inputs[j].vout>>],
                           outs |-> outs, fee |-> fee]]
        /\ UNCHANGED observed

----------------------------------------------------------------------------
\* transfer and transferFrom: from is the caller or the sender, whose intent
\* covers the amount.
Transfer(from, to, amount) ==
    LET deducted == [balances EXCEPT ![from] = @ - amount]
    IN  /\ balances[from] >= amount
        /\ deducted[to] + amount <= MaxInt64
        /\ balances' = [deducted EXCEPT ![to] = @ + amount]
        /\ UNCHANGED <<utxos, registry, nextId, spends, spendsList, supply,
                       observed, spendTx>>

\* addBlocks, of which the header list is in BlockList: the new fee rate.
AddBlocks(rate) ==
    /\ supply' = [supply EXCEPT !.baseFeeRate = rate]
    /\ UNCHANGED <<utxos, registry, nextId, spends, spendsList, balances,
                   observed, spendTx>>

Next ==
    \/ \E txid \in TxIds, instrs \in MapInputs, sender \in Accounts,
          drawn \in BOOLEAN : Map(txid, instrs, sender, drawn)
    \/ \E sender \in Accounts, amount \in UnmapAmounts, dest \in Addresses,
          txid \in SpendIds : Unmap(sender, amount, dest, txid)
    \/ \E from \in Accounts, to \in Accounts, amount \in TransferAmounts :
          Transfer(from, to, amount)
    \/ \E rate \in FeeRates : AddBlocks(rate)

Spec == Init /\ [][Next]_vars

----------------------------------------------------------------------------

TypeOK ==
    /\ utxos \in [Slots -> Utxo \cup {NoUtxo}]
    /\ registry \in Seq(Entry)
    /\ nextId \in [confirmed : ConfirmedPool, unconfirmed : UnconfirmedPool]
    /\ spends \in [SpendIds -> Seq(Tags) \cup {NoTx}]
    /\ spendsList \in Seq(SpendIds)
    /\ supply \in [active : Int, user : Int, fee : Int, baseFeeRate : Nat]
    /\ balances \in [Accounts -> Nat]
    /\ observed \subseteq TxIds \X Nat
    /\ spendTx \in [SpendIds -> Spend \cup {NoTx}]

Used == {s \in Slots : utxos[s] # NoUtxo}
Made == {t \in SpendIds : spendTx[t] # NoTx}
Point(s) == <<utxos[s].txid, utxos[s].vout>>
SpentPoints(t) == {spendTx[t].ins[i] : i \in DOMAIN spendTx[t].ins}

\* A list of entries and a store name the same slots with the same amounts,
\* each once.
Consistent(store, list) ==
    /\ \A p, q \in DOMAIN list : list[p].id = list[q].id => p = q
    /\ \A p \in DOMAIN list :
           store[list[p].id] # NoUtxo /\ store[list[p].id].amount = list[p].amount
    /\ \A s \in Slots : store[s] # NoUtxo => \E p \in DOMAIN list : list[p].id = s

\* The registry, from which inputs are selected, and the slots, from which
\* they are loaded, never disagree, whatever maps, promotions cut short by a
\* full pool and withdrawals wrote to one after the other.
RegistryMatchesStore == Consistent(utxos, registry)

\* An output is tracked in one slot at most, and is not tracked any more once
\* a withdrawal has spent it.
TrackedOnce ==
    /\ \A s, t \in Used : Point(s) = Point(t) => s = t
    /\ \A s \in Used, t \in Made : Point(s) \notin SpentPoints(t)

\* Change that a confirmation can still promote keeps the signing data that
\* triggers it: a confirmation cut short by a full pool can be repeated.
PromotableKeepsSpend ==
    \A s \in Used \cap UnconfirmedPool :
        utxos[s].vout < Len(spendTx[utxos[s].txid].ins)
            => spends[utxos[s].txid] # NoTx

\* No two withdrawals spend the same output: both could never be mined.
NoDoubleSpend ==
    \A t, u \in Made : t # u => SpentPoints(t) \cap SpentPoints(u) = {}

\* The list of pending spends and the signing data stay in step through
\* swap-removal: same transactions, each listed once.
SpendsListed ==
    /\ \A i, j \in DOMAIN spendsList : spendsList[i] = spendsList[j] => i = j
    /\ {spendsList[i] : i \in DOMAIN spendsList} = {t \in SpendIds : spends[t] # NoTx}

\* An output that is tracked stays tracked, in the same slot or promoted to
\* another, until a withdrawal spends it: no slot is overwritten.
OutputsNeverLost ==
    [][\A s \in Used :
          \/ \E t \in Slots : utxos'[t] = utxos[s]
          \/ \E t \in Made' : \E i \in DOMAIN spendTx'[t].ins :
                 spendTx'[t].ins[i] = Point(s)]_vars

\* Both supplies are what the accounts hold together, although maps and
\* withdrawals update them from one place and transfers from another, and an
\* overflow in the credit of a deposit is ignored.
SupplyIsBalances ==
    /\ supply.active = SumFunction(balances)
    /\ supply.user = SumFunction(balances)

\* The outputs the contract can spend are worth at least what the accounts
\* hold: everybody can be paid, whatever was given to miners as dust.
Backed == SumFunction(Amounts(registry)) >= supply.user

\* What the accounts hold is what was deposited, each output once, less what
\* the withdrawals took: their amounts, protocol fees and bitcoin fees.
DepositsCreditedOnce ==
    supply.user =
        SumFunction([o \in observed |-> Outs(o[1])[o[2] + 1].amount])
        - SumFunction([t \in Made |->
              LET amount == spendTx[t].outs[1].amount
              IN  amount + VscFee(amount) + spendTx[t].fee])

----------------------------------------------------------------------------
\* What the repository says and the code does not do.

\* mapping.go's comment: a confirmation transitions the matching unconfirmed
\* outputs to the confirmed pool.  So no output of a spend that is no longer
\* pending should remain in the unconfirmed pool.
ChangeConfirmed ==
    \A s \in Used \cap UnconfirmedPool : spends[utxos[s].txid] # NoTx

\* export.go: the address of the tag nil is the change address, that of the
\* empty tag is another.  The witness script of every input of a pending
\* spend should be the one its output pays to.
InputsUnlock ==
    \A t \in SpendIds : spends[t] # NoTx =>
        \A i \in DOMAIN spends[t] :
            LET point == spendTx[t].ins[i]
            IN  AddressOf(spends[t][i]) = Outs(point[1])[point[2] + 1].addr

\* unmapping.go's comment: the estimate of the fee is a slight overestimate,
\* to make sure there is enough balance.  So the outputs selected always pay
\* for a transaction all of whose outputs are positive.
OutputsPositive ==
    \A t \in Made : \A k \in DOMAIN spendTx[t].outs : spendTx[t].outs[k].amount > 0

=============================================================================
