---------------------------- MODULE MCBlockList ----------------------------
(***************************************************************************)
(* A fork for the header list: g <- a1 <- a2 <- a3 and a1 <- b2 <- b3, and *)
(* a header x on a2 without proof of work.  Every batch of up to three     *)
(* headers is tried in every state.                                        *)
(***************************************************************************)
EXTENDS BlockList

CONSTANTS g, a1, a2, a3, b2, b3, x, outside

MCHeaders == {g, a1, a2, a3, b2, b3, x}
MCValidPow == MCHeaders \ {x}
MCPrev ==
    [h \in MCHeaders |->
        CASE h = g -> outside
          [] h = a1 -> g
          [] h \in {a2, b2} -> a1
          [] h \in {a3, x} -> a2
          [] h = b3 -> b2]

\* A seed in the middle of the chain, one on the other branch, one malformed.
MCSeedInputs == {g, a1, b2, Malformed}

=============================================================================
