----------------------------- MODULE MerkleProof -----------------------------
(***************************************************************************)
(* How map decides that a transaction is in a block (contract/mapping/     *)
(* proof.go): from the hash of the transaction and the siblings of the     *)
(* proof it climbs to a root, and compares it with that of the header.     *)
(*                                                                         *)
(* A hash is the tuple of what was hashed, a transaction or two hashes:    *)
(* the double SHA-256 is taken to be injective, and the bytes of a         *)
(* transaction to be no two hashes.                                        *)
(***************************************************************************)
EXTENDS Integers, Sequences, SequencesExt

CONSTANTS
    Order,      \* transactions
    Foreign,    \* a transaction that is in no block
    MaxProof,   \* bound on the hashes of a proof
    Indices     \* the indices a caller claims

MerkleProofAssumption ==
    /\ Order \in Seq(Range(Order))
    /\ MaxProof \in Nat /\ Indices \subseteq Nat

Txs == Range(Order) \cup {Foreign}

\* Transactions have no order of their own, so blocks of the first n will do.
Blocks == {SubSeq(Order, 1, n) : n \in 1..Len(Order)}

TxHash(t) == <<t>>

\* The hash of 32 zero bytes is the hash of nothing.
Zero == <<>>

----------------------------------------------------------------------------
\* Bitcoin's own tree, the reference: level k + 1 has the pairs of level k,
\* of which an odd last one is paired with itself.

Parents(level) ==
    [p \in 1..((Len(level) + 1) \div 2) |->
        <<level[2 * p - 1],
          IF 2 * p > Len(level) THEN level[2 * p - 1] ELSE level[2 * p]>>]

Level(txs, k) ==
    LET level[j \in 0..k] ==
            IF j = 0 THEN [p \in 1..Len(txs) |-> TxHash(txs[p])]
            ELSE Parents(level[j - 1])
    IN  level[k]

Depth(txs) == CHOOSE k \in 0..Len(txs) :
    Len(Level(txs, k)) = 1 /\ \A j \in 0..(k - 1) : Len(Level(txs, j)) > 1

Root(txs) == Level(txs, Depth(txs))[1]

Nodes(txs) == UNION {Range(Level(txs, k)) : k \in 0..Depth(txs)}

\* The place, counting from 0, that one of the transactions has k levels up.
Above(place, k) ==
    LET above[j \in 0..k] == IF j = 0 THEN place ELSE above[j - 1] \div 2
    IN  above[k]

\* An odd last hash of a level, which is its own sibling.
Doubled(level, place) == place % 2 = 0 /\ place + 1 = Len(level)

Sibling(level, place) ==
    CASE Doubled(level, place) -> level[place + 1]
      [] place % 2 = 0 /\ ~Doubled(level, place) -> level[place + 2]
      [] place % 2 = 1 -> level[place]

\* The siblings on the way up from the transaction at a place.
ProofOf(txs, place) ==
    [k \in 1..Depth(txs) |-> Sibling(Level(txs, k - 1), Above(place, k - 1))]

----------------------------------------------------------------------------
VARIABLES
    block,      \* the transactions of the block at the height of the request
    stored,     \* whether the contract has the header at that height
    tx, txIndex, proof,     \* the request
    currentHash, index, i,  \* the variables of the loop
    verdict     \* "none", then "true" or "false"

vars == <<block, stored, tx, txIndex, proof, currentHash, index, i, verdict>>

Init ==
    /\ block \in Blocks
    /\ stored \in BOOLEAN
    /\ tx \in Txs
    /\ txIndex \in Indices
    /\ proof \in UNION {[1..n -> Nodes(block)] : n \in 0..MaxProof}
    /\ currentHash = TxHash(tx)
    /\ index = txIndex
    /\ i = 0
    /\ verdict = "none"

\* Mutant of MerkleRoot: any header will do that was read before.
MerkleRootOfAny == Root(block)

\* A height without a header reads as a header of no bytes, whose decoding
\* fails unseen and leaves the root zero.
MerkleRoot == IF stored THEN Root(block) ELSE Zero

\* Mutant of Combined: the sides are swapped.
CombinedSwapped(hash, sibling, at) ==
    IF at % 2 = 1 THEN <<hash, sibling>> ELSE <<sibling, hash>>

Combined(hash, sibling, at) ==
    IF at % 2 = 0 THEN <<hash, sibling>> ELSE <<sibling, hash>>

Halved(at) == at \div 2

\* One turn of the loop over the hashes of the proof.
Climb ==
    /\ i < Len(proof)
    /\ currentHash' = Combined(currentHash, proof[i + 1], index)
    /\ index' = Halved(index)
    /\ i' = i + 1
    /\ UNCHANGED <<block, stored, tx, txIndex, proof, verdict>>

Compare ==
    /\ i = Len(proof)
    /\ verdict = "none"
    /\ verdict' = IF currentHash = MerkleRoot THEN "true" ELSE "false"
    /\ UNCHANGED <<block, stored, tx, txIndex, proof, currentHash, index, i>>

Next == Climb \/ Compare

Spec == Init /\ [][Next]_vars

----------------------------------------------------------------------------

TypeOK ==
    /\ i \in 0..Len(proof)
    /\ index = Above(txIndex, i)
    /\ verdict \in {"none", "true", "false"}

\* A proof that is accepted is of a transaction of the block whose header the
\* contract has, whatever hashes of that block it is made of and whatever
\* index it claims.
Sound == verdict = "true" => stored /\ tx \in Range(block)

\* Moreover it is Bitcoin's own proof of a place where that transaction stands,
\* at every level on the side that the index says, but for an odd last hash,
\* which stands on both.  If the block has a transaction at the index, it is
\* that place; bits above the tree and copies have indices beyond.
StandsAtIndex ==
    verdict = "true" =>
        \E place \in 0..(Len(block) - 1) :
            /\ tx = block[place + 1]
            /\ proof = ProofOf(block, place)
            /\ \A k \in 0..(Depth(block) - 1) :
                  \/ Above(txIndex, k) % 2 = Above(place, k) % 2
                  \/ Doubled(Level(block, k), Above(place, k))
            /\ txIndex < Len(block) => place = txIndex

\* The proof Bitcoin's tree gives for a transaction of the block is accepted.
Complete ==
    stored /\ txIndex < Len(block) /\ tx = block[txIndex + 1]
        /\ proof = ProofOf(block, txIndex)
    => verdict # "false"

=============================================================================
