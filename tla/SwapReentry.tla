---------------------------- MODULE SwapReentry ----------------------------
(***************************************************************************)
(* map with the calls it makes to the router while it runs.  Map of        *)
(* BtcMapping is one step, in which the router at most draws the credited  *)
(* amount.  Here a call of map loads the state, goes through its outputs   *)
(* one by one, waits for the router in the middle of each swap and saves   *)
(* what it holds in memory at its end.  The router may call the contract   *)
(* again in the meantime, and such a call loads what is stored.            *)
(*                                                                         *)
(* Slots, balances, observed keys and signing data are written at once;    *)
(* registry, counters, list of spends and supply are in the memory of the  *)
(* call until it saves them.  A call that aborts takes the whole           *)
(* transaction back: here its steps just do not go on, and nothing is said *)
(* about states in the middle of a transaction that need not be true of    *)
(* those between transactions.                                             *)
(***************************************************************************)
EXTENDS BtcMapping

CONSTANT
    MaxDepth        \* bound on the calls of map that are under way

ASSUME SwapReentryAssumption == MaxDepth \in Nat \ {0}

VARIABLES
    frames,         \* the calls of map under way, the innermost last
    reentered       \* history: the router has called unmap or map

swapVars == <<vars, frames, reentered>>

SwapInit == Init /\ frames = <<>> /\ reentered = FALSE

AtRest == frames = <<>>
Top == frames[Len(frames)]
SetTop(frame) == [frames EXCEPT ![Len(frames)] = frame]
Waiting == ~AtRest /\ Top.waiting

----------------------------------------------------------------------------

\* updateUtxoSpends loads every unconfirmed output of the registry first, by
\* its position there: those of a stale registry may name an empty slot, or
\* two of them the same slot.
Loaded ==
    [p \in {q \in DOMAIN registry : registry[q].id \in UnconfirmedPool} |->
        utxos[registry[p].id]]

\* The loaded output at position p, if it is the one the loop matches with the
\* input of index index and has not been moved.
PromoteEntry(st, txid, index, p) ==
    IF \/ st.full
       \/ p \notin DOMAIN Loaded
       \/ st.registry[p].id \notin UnconfirmedPool
       \/ <<Loaded[p].txid, Loaded[p].vout>> # <<txid, index>>
    THEN st
    ELSE IF Free(st.utxos, ConfirmedPool) = {} THEN [st EXCEPT !.full = TRUE]
    ELSE LET new == FirstFree(st.utxos, ConfirmedPool, st.next)
         IN  [utxos    |-> [st.utxos EXCEPT ![new] = Loaded[p],
                                            ![st.registry[p].id] = NoUtxo],
              registry |-> [st.registry EXCEPT ![p].id = new],
              next     |-> AfterSlot(new),
              full     |-> FALSE]

\* The loop over the inputs and, for each of them, over the registry.  An error
\* of loading ends it before it begins, and like that of a full pool is dropped.
PromoteLoaded(txid) ==
    LET m == Len(registry)
        turns == IF txid \in SpendIds /\ spends[txid] # NoTx
                 THEN Len(spends[txid]) * m ELSE 0
        loop[k \in 0..turns] ==
            IF k = 0 THEN [utxos |-> utxos, registry |-> registry,
                           next |-> nextId.confirmed,
                           full |-> \E p \in DOMAIN Loaded : Loaded[p] = NoUtxo]
            ELSE PromoteEntry(loop[k - 1], txid, (k - 1) \div m, ((k - 1) % m) + 1)
    IN  loop[turns]

\* The call loads the state and handles the confirmation of a spend.
BeginMap(txid, instrs, sender) ==
    /\ Len(frames) < MaxDepth
    /\ Known(txid)
    /\ OutputsFit(txid, instrs)
    /\ \E st \in {PromoteLoaded(txid)} :
        LET forgotten == txid \in SpendIds /\ spends[txid] # NoTx /\ ~st.full
        IN  /\ utxos' = st.utxos
            /\ spends' = IF forgotten THEN [spends EXCEPT ![txid] = NoTx] ELSE spends
            /\ frames' = Append(frames,
                  [txid |-> txid, instrs |-> instrs, sender |-> sender,
                   index |-> 0, waiting |-> FALSE, total |-> 0,
                   registry |-> st.registry,
                   nextId |-> [nextId EXCEPT !.confirmed = st.next],
                   spendsList |-> IF forgotten THEN SwapRemove(spendsList, txid)
                                  ELSE spendsList,
                   supply |-> supply])
    /\ reentered' = (reentered \/ ~AtRest)
    /\ UNCHANGED <<registry, nextId, spendsList, supply, balances, observed,
                   spendTx>>

\* One output, up to the call of the router if it is that of a swap.
MapOutput ==
    /\ ~AtRest /\ ~Top.waiting
    /\ Top.index < Len(Outs(Top.txid))
    /\ \E st0 \in {[utxos |-> utxos, registry |-> Top.registry,
                    next |-> Top.nextId.confirmed, observed |-> observed,
                    balances |-> balances, total |-> Top.total,
                    aborted |-> FALSE]} :
       \E st \in {ProcessOutput(st0, Top.txid, Top.index, Top.instrs,
                                Top.sender, FALSE)} :
        /\ ~st.aborted
        /\ utxos' = st.utxos
        /\ observed' = st.observed
        /\ balances' = st.balances
        /\ frames' = SetTop([Top EXCEPT
              !.registry = st.registry,
              !.nextId.confirmed = st.next,
              !.total = st.total,
              !.index = @ + 1,
              !.waiting = /\ ~Passed(st0, Top.txid, Top.index, Top.instrs)
                          /\ Kind[Outs(Top.txid)[Top.index + 1].addr] = "swap"])
    /\ UNCHANGED <<registry, nextId, spends, spendsList, supply, spendTx,
                   reentered>>

\* Mutant of RouterReturns: the loop goes on with the registry that is stored.
RouterReturnsReload ==
    /\ Waiting
    /\ frames' = SetTop([Top EXCEPT !.waiting = FALSE, !.registry = registry])
    /\ UNCHANGED <<vars, reentered>>

RouterReturns ==
    /\ Waiting
    /\ frames' = SetTop([Top EXCEPT !.waiting = FALSE])
    /\ UNCHANGED <<vars, reentered>>

\* SaveToState: what the call holds in memory replaces what is stored.
EndMap ==
    /\ ~AtRest /\ ~Top.waiting
    /\ Top.index = Len(Outs(Top.txid))
    /\ Top.supply.active + Top.total <= MaxInt64
    /\ Top.supply.user + Top.total <= MaxInt64
    /\ registry' = Top.registry
    /\ nextId' = Top.nextId
    /\ spendsList' = Top.spendsList
    /\ supply' = [Top.supply EXCEPT !.active = @ + Top.total,
                                    !.user = @ + Top.total]
    /\ frames' = SubSeq(frames, 1, Len(frames) - 1)
    /\ UNCHANGED <<utxos, spends, balances, observed, spendTx, reentered>>

----------------------------------------------------------------------------
\* What the router does, on behalf of the sender of the transaction.

\* The intent that map passes on allows the amount of the output, each call.
RouterDraws(amount) ==
    /\ Waiting
    /\ amount <= Outs(Top.txid)[Top.index].amount
    /\ Transfer(Top.sender, Router, amount)
    /\ UNCHANGED <<frames, reentered>>

RouterUnmaps(amount, dest, txid) ==
    /\ Waiting
    /\ Unmap(Top.sender, amount, dest, txid)
    /\ reentered' = TRUE
    /\ UNCHANGED frames

RouterMaps(txid, instrs) ==
    /\ Waiting
    /\ BeginMap(txid, instrs, Top.sender)

\* Transactions of the host, one at a time.
CallsAtRest ==
    /\ AtRest
    /\ \/ \E txid \in TxIds, instrs \in MapInputs, sender \in Accounts :
             BeginMap(txid, instrs, sender)
       \/ /\ \/ \E sender \in Accounts, amount \in UnmapAmounts,
                   dest \in Addresses, txid \in SpendIds :
                   Unmap(sender, amount, dest, txid)
             \/ \E from, to \in Accounts, amount \in TransferAmounts :
                   Transfer(from, to, amount)
             \/ \E rate \in FeeRates : AddBlocks(rate)
          /\ UNCHANGED <<frames, reentered>>

SwapNext ==
    \/ CallsAtRest
    \/ MapOutput
    \/ RouterReturns
    \/ EndMap
    \/ \E amount \in TransferAmounts : RouterDraws(amount)
    \/ \E amount \in UnmapAmounts, dest \in Addresses, txid \in SpendIds :
          RouterUnmaps(amount, dest, txid)
    \/ \E txid \in TxIds, instrs \in MapInputs : RouterMaps(txid, instrs)

SwapSpec == SwapInit /\ [][SwapNext]_swapVars

----------------------------------------------------------------------------

\* Whatever the router calls in the middle of whatever maps, the accounts hold
\* what was deposited, each output once, less what withdrawals took: even of
\* a transaction that is mapped again while it is being mapped.
BalancesCreditedOnce ==
    SumFunction(balances) =
        SumFunction([o \in observed |-> Outs(o[1])[o[2] + 1].amount])
        - SumFunction([t \in Made |->
              LET amount == spendTx[t].outs[1].amount
              IN  amount + VscFee(amount) + spendTx[t].fee])

\* As long as the router only ever drew, the transactions leave registry and
\* slots, supplies and balances in agreement, as if map had been the single
\* step it is in BtcMapping, though the draws change balances while it runs.
AgreeAtRest ==
    AtRest /\ ~reentered => RegistryMatchesStore /\ SupplyIsBalances

=============================================================================
