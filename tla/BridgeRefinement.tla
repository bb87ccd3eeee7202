-------------------------- MODULE BridgeRefinement --------------------------
(***************************************************************************)
(* BtcMapping keeps the promises of Bridge.  Its coins are the outputs in  *)
(* the slots that are in use, whatever pool they are in: a promotion and   *)
(* the forgetting of a spend are no step of the bridge at all.             *)
(***************************************************************************)
EXTENDS BtcMapping

Coins == {[txid |-> utxos[s].txid, vout |-> utxos[s].vout,
           amount |-> utxos[s].amount] : s \in Used}

Promised == INSTANCE Bridge WITH
    coins <- Coins,
    seen <- observed,
    spent <- UNION {SpentPoints(t) : t \in Made}

\* Whatever slots, registry and counters do in between, map brings coins that
\* are new and credits their worth, and unmap takes from one account at least
\* what the coins it gives up are worth.
KeepsPromises == Promised!Spec

=============================================================================
