---------------------------- MODULE MCBtcMapping ----------------------------
(***************************************************************************)
(* Instances of BtcMapping.  Amounts are in the range where the thresholds *)
(* of the code bite: withdrawals near the dust limit, change large enough  *)
(* to be split, and balances near a small stand-in for math.MaxInt64.      *)
(***************************************************************************)
EXTENDS BridgeRefinement, TLC

CONSTANTS alice, bob, toAlice, swap, wallet, d1, d2, d3, t1, t2, t3

MCKind == (toAlice :> "deposit") @@ (swap :> "swap")
MCRecipient == (toAlice :> alice) @@ (swap :> alice)
MCOutputSize == (wallet :> 43)

Pay(addr, amount) == [addr |-> addr, amount |-> amount]

\* Outputs whose change is split in two, and that only together cover the
\* larger withdrawal.
CustodyOuts ==
    (d1 :> <<Pay(wallet, 700), Pay(toAlice, 2100000)>>)
    @@ (d2 :> <<Pay(toAlice, 50000)>>)
    @@ (d3 :> <<Pay(swap, 4000)>>)

\* A plain deposit, and a transaction with a deposit beside a swap.
LedgerOuts ==
    (d1 :> <<Pay(toAlice, 6000)>>)
    @@ (d2 :> <<Pay(toAlice, 1500), Pay(swap, 2500)>>)

\* Outputs for the corner cases of a single withdrawal.
SpendOutsOfOne ==
    (d1 :> <<Pay(toAlice, 6000)>>) @@ (d2 :> <<Pay(toAlice, 3000)>>)

MCMapInputs == SUBSET {toAlice, swap}
MCSymmetry == Permutations(SpendIds)

=============================================================================
