----------------------------- MODULE BlockList -----------------------------
(***************************************************************************)
(* The Bitcoin header chain the contract keeps (contract/blocklist), with  *)
(* the two administrator calls that write it, seedBlocks and addBlocks     *)
(* (contract/main.go).  A deposit is accepted only against a header stored *)
(* here, so what this list can hold is what the bridge believes of the     *)
(* Bitcoin chain.                                                          *)
(*                                                                         *)
(* A call is atomic: the host runs one at a time and rolls back every      *)
(* write of a call that aborts.  An aborting call is therefore a           *)
(* stuttering step and has no action here.                                 *)
(*                                                                         *)
(* A header stands for its own hash, so Prev[h] is the header that h       *)
(* names as its predecessor, or a hash that is no header of the model.     *)
(***************************************************************************)
EXTENDS Integers, Sequences

CONSTANTS
    Headers,        \* 80-byte block headers
    Malformed,      \* a stored string that is too short to decode as a header
    Prev,           \* the hash each header names as its predecessor
    ValidPow,       \* the headers that pass CheckProofOfWork
    MaxHeight,      \* stands for math.MaxUint32
    SeedInputs,     \* the values an administrator may seed
    SeedHeights,    \* the heights an administrator may seed at
    FeeRates,       \* the fee rates the oracle reports, in sats per vbyte
    MaxBatch,       \* bound on the headers of one addBlocks call
    None            \* the answer of the state for a key that is not set

Heights == 0..MaxHeight

ASSUME BlockListAssumption ==
    /\ MaxHeight \in Nat
    /\ ValidPow \subseteq Headers
    /\ SeedInputs \subseteq Headers \cup {Malformed}
    /\ SeedHeights \subseteq Heights
    /\ FeeRates \subseteq Nat
    /\ MaxBatch \in Nat
    /\ Malformed \notin Headers
    /\ None \notin Headers \cup {Malformed} \cup Heights

VARIABLES
    isTestnet,      \* constants.IsTestnet(NetworkMode); never changes
    blocks,         \* state keys "b-<height>"
    lastHeight,     \* state key "h"
    baseFeeRate,    \* SystemSupply.BaseFeeRate, in state key "s"
    seededAt        \* history variable: the height of the latest seedBlocks

vars == <<isTestnet, blocks, lastHeight, baseFeeRate, seededAt>>

Init ==
    /\ isTestnet \in BOOLEAN
    /\ blocks = [h \in Heights |-> None]
    /\ lastHeight = None
    /\ baseFeeRate = 0
    /\ seededAt = None

----------------------------------------------------------------------------

\* Mutant of SeedBlocks: allowReseed is not consulted.
SeedBlocksAgain(header, height) ==
    /\ lastHeight # None => lastHeight = 0 \/ lastHeight < height
    /\ blocks' = [blocks EXCEPT ![height] = header]
    /\ lastHeight' = height
    /\ seededAt' = height
    /\ UNCHANGED <<isTestnet, baseFeeRate>>

\* HandleSeedBlocks: the first seed, or, on a testnet, a seed above the
\* current height (any height when that height is 0).
SeedBlocks(header, height) ==
    /\ \/ lastHeight = None
       \/ /\ isTestnet
          /\ lastHeight # None
          /\ lastHeight = 0 \/ lastHeight < height
    /\ blocks' = [blocks EXCEPT ![height] = header]
    /\ lastHeight' = height
    /\ seededAt' = height
    /\ UNCHANGED <<isTestnet, baseFeeRate>>

\* Mutant of Tip: the loop does not move lastBlockHeader forward.
TipOfList(batch, j) == blocks[lastHeight]

\* The header the j-th header of a batch must name as its predecessor.
Tip(batch, j) == IF j = 1 THEN blocks[lastHeight] ELSE batch[j - 1]

\* Mutant of Admissible: the height limit is not tested.
AdmissibleAnyHeight(batch, j) == batch[j] \in ValidPow

\* The checks of the loop before the linkage test; failing one aborts.
Admissible(batch, j) ==
    /\ lastHeight + j - 1 # MaxHeight
    /\ batch[j] \in ValidPow

Linked(batch, j) == Prev[batch[j]] = Tip(batch, j)

\* The first k headers of a batch pass every check of the loop.
Accepted(batch, k) ==
    \A j \in 1..k : Admissible(batch, j) /\ Linked(batch, j)

\* The writes of the loop for the first k headers.
Store(batch, k) ==
    [h \in Heights |-> IF h \in (lastHeight + 1)..(lastHeight + k)
                       THEN batch[h - lastHeight]
                       ELSE blocks[h]]

\* HandleAddBlocks reads the height and decodes the tip before the loop.
CanAppend ==
    /\ lastHeight # None
    /\ blocks[lastHeight] \in Headers

\* addBlocks when every header of the batch is accepted.
AddBlocks(batch, fee) ==
    /\ CanAppend
    /\ Accepted(batch, Len(batch))
    /\ blocks' = Store(batch, Len(batch))
    /\ lastHeight' = lastHeight + Len(batch)
    /\ baseFeeRate' = fee
    /\ UNCHANGED <<isTestnet, seededAt>>

\* addBlocks when header k + 1 does not link to the one before it: the k
\* headers before it stay stored, HandleAddBlocks returns height 0 with
\* ErrorSequenceIncorrect, and main.go, which lets that error through,
\* stores the 0 and the fee rate.
AddBlocksOutOfSequence(batch, k, fee) ==
    /\ CanAppend
    /\ k < Len(batch)
    /\ Accepted(batch, k)
    /\ Admissible(batch, k + 1)
    /\ ~Linked(batch, k + 1)
    /\ blocks' = Store(batch, k)
    /\ lastHeight' = 0
    /\ baseFeeRate' = fee
    /\ UNCHANGED <<isTestnet, seededAt>>

Batches == UNION {[1..n -> Headers] : n \in 0..MaxBatch}

Next ==
    \/ \E header \in SeedInputs, height \in SeedHeights :
           SeedBlocks(header, height)
    \/ \E batch \in Batches, fee \in FeeRates : AddBlocks(batch, fee)
    \/ \E batch \in Batches, fee \in FeeRates :
           \E k \in 0..MaxBatch : AddBlocksOutOfSequence(batch, k, fee)

Spec == Init /\ [][Next]_vars

----------------------------------------------------------------------------

TypeOK ==
    /\ isTestnet \in BOOLEAN
    /\ blocks \in [Heights -> Headers \cup {Malformed, None}]
    /\ lastHeight \in Heights \cup {None}
    /\ baseFeeRate \in Nat
    /\ seededAt \in Heights \cup {None}
    /\ lastHeight = None <=> seededAt = None

\* The chain from the latest seed up to the stored height has no hole, each
\* of its headers carries proof of work and names the one below it as its
\* predecessor: whatever seedBlocks and addBlocks calls came before, with
\* stale headers of an earlier seed or of a failed batch in the way.
ChainLinked ==
    lastHeight # None =>
        \A h \in (seededAt + 1)..lastHeight :
            /\ blocks[h] \in ValidPow
            /\ Prev[blocks[h]] = blocks[h - 1]

\* On mainnet, seeded above height 0, a header once stored is never
\* replaced: a Merkle proof that verifies against the list keeps verifying,
\* through batches that fail half way and attempts to seed again.  A seed at
\* height 0, which the schema admits, breaks it: a rejected batch leaves the
\* height at that header, and the next one is stored over its successors.
HeadersPermanent ==
    [][~isTestnet =>
           \A h \in Heights : blocks[h] # None => blocks'[h] = blocks[h]]_vars

\* docs/actions.md describes addBlocks as appending to the stored chain, so
\* the stored height should always be that of a stored header.  It is not
\* after a batch with a header out of sequence: the height falls to 0.
TipStored == lastHeight # None => blocks[lastHeight] # None

=============================================================================
