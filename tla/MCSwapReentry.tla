--------------------------- MODULE MCSwapReentry ---------------------------
(***************************************************************************)
(* Instances of SwapReentry: a swap beside a deposit in one transaction    *)
(* and a deposit in another, either of which the router may map, and whose *)
(* outputs it may withdraw, while it is called for the swap.               *)
(***************************************************************************)
EXTENDS SwapReentry, TLC

CONSTANTS alice, router, toAlice, swap, wallet, d1, d2, t1

MCKind == (toAlice :> "deposit") @@ (swap :> "swap")
MCRecipient == (toAlice :> alice) @@ (swap :> alice)
MCOutputSize == (wallet :> 43)
MCMapInputs == SUBSET {toAlice, swap} \ {{}}

Pay(addr, amount) == [addr |-> addr, amount |-> amount]

MCDepositOuts ==
    (d1 :> <<Pay(swap, 5000), Pay(toAlice, 4000)>>) @@ (d2 :> <<Pay(toAlice, 6000)>>)

=============================================================================
