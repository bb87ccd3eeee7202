---------------------------- MODULE MCMappingBot ----------------------------
(***************************************************************************)
(* An instance of MappingBot: deposits that fit the confirmed pool only    *)
(* one after the other, one of them beside a swap without an asset to buy, *)
(* and withdrawals with one input or with two, of which one may spend the  *)
(* change of the other.                                                    *)
(***************************************************************************)
EXTENDS MappingBot, TLC

CONSTANTS alice, toAlice, swap, bare, wallet, d1, d2, t1, t2

MCKind == (toAlice :> "deposit") @@ (swap :> "swap") @@ (bare :> "swap")
MCRecipient == (toAlice :> alice) @@ (swap :> alice) @@ (bare :> alice)
MCOutputSize == (wallet :> 43)
MCMapInputs == {{}, {toAlice}}

Pay(addr, amount) == [addr |-> addr, amount |-> amount]

\* A deposit beside a swap that cannot be carried out, and one beside a swap
\* that can, once there is a router that answers.
MCDepositOuts ==
    (d1 :> <<Pay(bare, 700), Pay(toAlice, 9000)>>)
    @@ (d2 :> <<Pay(toAlice, 6000), Pay(swap, 4000)>>)

=============================================================================
