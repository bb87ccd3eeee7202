-------------------------- MODULE BlockListProofs --------------------------
(***************************************************************************)
(* Proofs about the header list, for every set of headers and every size   *)
(* of batch: its type invariant, that the chain above the latest seed is   *)
(* linked, and that on mainnet a stored header is never replaced.          *)
(***************************************************************************)
EXTENDS BlockList, TLAPS

\* The writes of a batch change only the heights it covers, and keep the
\* list a list of headers.
LEMMA StoreType ==
    ASSUME TypeOK, CanAppend,
           NEW batch \in Batches, NEW k \in 0..Len(batch),
           Accepted(batch, k)
    PROVE  /\ lastHeight \in Nat
           /\ lastHeight + k \in Heights
           /\ Len(batch) \in Nat
           /\ \A j \in 1..Len(batch) : batch[j] \in Headers
           /\ Store(batch, k) \in [Heights -> Headers \cup {Malformed, None}]
<1> USE BlockListAssumption
<1>1. lastHeight \in Heights /\ lastHeight \in Nat
  BY DEF TypeOK, CanAppend, Heights
<1>2. PICK n \in 0..MaxBatch : batch \in [1..n -> Headers]
  BY DEF Batches
<1>3. /\ batch \in Seq(Headers)
      /\ Len(batch) = n
      /\ \A j \in 1..n : batch[j] \in Headers
  BY <1>2
<1>4. lastHeight + k \in Heights
  <2>1. CASE k = 0
    BY <2>1, <1>1
  <2>2. CASE k # 0
    \* An induction on k is not needed: no prefix of the batch starts at
    \* MaxHeight, so MaxHeight is not among lastHeight .. lastHeight + k - 1.
    <3>1. \A j \in 1..k : lastHeight + j - 1 # MaxHeight
      BY DEF Accepted, Admissible
    <3>2. SUFFICES ASSUME lastHeight + k > MaxHeight PROVE FALSE
      BY <1>1, <1>3 DEF Heights
    <3>3. (MaxHeight - lastHeight) + 1 \in 1..k
      BY <3>2, <1>1, <1>3 DEF Heights
    <3>4. QED
      BY <3>1, <3>3, <1>1
  <2>3. QED
    BY <2>1, <2>2
<1>5. \A h \in (lastHeight + 1)..(lastHeight + k) : batch[h - lastHeight] \in Headers
  <2> TAKE h \in (lastHeight + 1)..(lastHeight + k)
  <2>1. h - lastHeight \in 1..n
    BY <1>1, <1>3
  <2>2. QED
    BY <2>1, <1>3
<1>6. Store(batch, k) \in [Heights -> Headers \cup {Malformed, None}]
  BY <1>5 DEF Store, TypeOK
<1>7. QED
  BY <1>1, <1>3, <1>4, <1>6

\* Every reachable state has its type; in particular addBlocks never
\* computes a height beyond MaxHeight.
THEOREM BlockListType == Spec => []TypeOK
<1> USE BlockListAssumption
<1>1. Init => TypeOK
  BY DEF Init, TypeOK, Heights
<1>2. TypeOK /\ [Next]_vars => TypeOK'
  <2> SUFFICES ASSUME TypeOK, [Next]_vars PROVE TypeOK'
    OBVIOUS
  <2>1. ASSUME NEW header \in SeedInputs, NEW height \in SeedHeights,
               SeedBlocks(header, height)
        PROVE  TypeOK'
    BY <2>1 DEF SeedBlocks, TypeOK
  <2>2. ASSUME NEW batch \in Batches, NEW fee \in FeeRates, AddBlocks(batch, fee)
        PROVE  TypeOK'
    <3>1. Len(batch) \in 0..Len(batch)
      BY DEF Batches
    <3>2. CanAppend /\ Accepted(batch, Len(batch))
      BY <2>2 DEF AddBlocks
    <3>3. lastHeight' \in Heights
      BY <2>2, <3>1, <3>2, StoreType DEF AddBlocks
    <3>4. blocks' \in [Heights -> Headers \cup {Malformed, None}]
      BY <2>2, <3>1, <3>2, StoreType DEF AddBlocks
    <3>5. QED
      BY <2>2, <3>2, <3>3, <3>4 DEF AddBlocks, TypeOK, CanAppend
  <2>3. ASSUME NEW batch \in Batches, NEW fee \in FeeRates, NEW k \in 0..MaxBatch,
               AddBlocksOutOfSequence(batch, k, fee)
        PROVE  TypeOK'
    <3>1. k \in 0..Len(batch)
      BY <2>3 DEF Batches, AddBlocksOutOfSequence
    <3>2. CanAppend /\ Accepted(batch, k)
      BY <2>3 DEF AddBlocksOutOfSequence
    <3>3. blocks' \in [Heights -> Headers \cup {Malformed, None}]
      BY <2>3, <3>1, <3>2, StoreType DEF AddBlocksOutOfSequence
    <3>4. lastHeight' \in Heights
      BY <2>3 DEF AddBlocksOutOfSequence, Heights
    <3>5. QED
      BY <2>3, <3>2, <3>3, <3>4 DEF AddBlocksOutOfSequence, TypeOK, CanAppend
  <2>4. CASE UNCHANGED vars
    BY <2>4 DEF vars, TypeOK
  <2>5. QED
    BY <2>1, <2>2, <2>3, <2>4 DEF Next
<1>3. QED
  BY <1>1, <1>2, PTL DEF Spec


----------------------------------------------------------------------------

\* A batch appended in part or whole extends the linked stretch by as many
\* heights as it has accepted headers.
LEMMA StoreLinked ==
    ASSUME TypeOK, CanAppend, ChainLinked,
           NEW batch \in Batches, NEW k \in 0..Len(batch),
           Accepted(batch, k)
    PROVE  \A h \in (seededAt + 1)..(lastHeight + k) :
               /\ Store(batch, k)[h] \in ValidPow
               /\ Prev[Store(batch, k)[h]] = Store(batch, k)[h - 1]
<1> USE BlockListAssumption
<1>1. /\ lastHeight \in Nat /\ seededAt \in Nat /\ k \in Nat
      /\ lastHeight + k \in Heights
  BY StoreType DEF TypeOK, CanAppend, Heights, Batches
<1>2. SUFFICES ASSUME NEW h \in (seededAt + 1)..(lastHeight + k)
               PROVE  /\ Store(batch, k)[h] \in ValidPow
                      /\ Prev[Store(batch, k)[h]] = Store(batch, k)[h - 1]
  OBVIOUS
<1>3. h \in Heights /\ h - 1 \in Heights /\ h \in Nat
  BY <1>1 DEF Heights
<1>4. CASE h <= lastHeight
  <2>1. Store(batch, k)[h] = blocks[h] /\ Store(batch, k)[h - 1] = blocks[h - 1]
    BY <1>1, <1>3, <1>4 DEF Store
  <2>2. QED
    BY <2>1, <1>1, <1>3, <1>4 DEF ChainLinked, CanAppend
<1>5. CASE h > lastHeight
  <2>1. h - lastHeight \in 1..k
    BY <1>1, <1>3, <1>5
  <2>2. Store(batch, k)[h] = batch[h - lastHeight]
    BY <1>1, <1>3, <1>5 DEF Store
  <2>3. Store(batch, k)[h - 1] = Tip(batch, h - lastHeight)
    <3>1. CASE h - 1 = lastHeight
      BY <3>1, <1>1, <1>3 DEF Store, Tip
    <3>2. CASE h - 1 # lastHeight
      BY <3>2, <1>1, <1>3, <1>5 DEF Store, Tip
    <3>3. QED
      BY <3>1, <3>2
  <2>4. Admissible(batch, h - lastHeight) /\ Linked(batch, h - lastHeight)
    BY <2>1 DEF Accepted
  <2>5. QED
    BY <2>2, <2>3, <2>4 DEF Admissible, Linked
<1>6. QED
  BY <1>1, <1>3, <1>4, <1>5

\* The chain above the latest seed is linked and carries proof of work in
\* every reachable state, on mainnet and on a testnet.
THEOREM ChainIsLinked == Spec => []ChainLinked
<1> USE BlockListAssumption
<1>1. Init => ChainLinked
  BY DEF Init, ChainLinked
<1>2. TypeOK /\ ChainLinked /\ [Next]_vars => ChainLinked'
  <2> SUFFICES ASSUME TypeOK, ChainLinked, [Next]_vars PROVE ChainLinked'
    OBVIOUS
  <2>1. ASSUME NEW header \in SeedInputs, NEW height \in SeedHeights,
               SeedBlocks(header, height)
        PROVE  ChainLinked'
    \* The linked stretch above a new seed is empty.
    <3>1. lastHeight' = height /\ seededAt' = height
      BY <2>1 DEF SeedBlocks
    <3>2. height \in Int
      BY DEF Heights
    <3>3. \A h \in (seededAt' + 1)..lastHeight' : FALSE
      BY <3>1, <3>2
    <3>4. QED
      BY <3>3 DEF ChainLinked
  <2>2. ASSUME NEW batch \in Batches, NEW fee \in FeeRates, AddBlocks(batch, fee)
        PROVE  ChainLinked'
    <3>1. Len(batch) \in 0..Len(batch)
      BY DEF Batches
    <3>2. CanAppend /\ Accepted(batch, Len(batch))
      BY <2>2 DEF AddBlocks
    <3>3. QED
      BY <2>2, <3>1, <3>2, StoreLinked DEF AddBlocks, ChainLinked
  <2>3. ASSUME NEW batch \in Batches, NEW fee \in FeeRates, NEW k \in 0..MaxBatch,
               AddBlocksOutOfSequence(batch, k, fee)
        PROVE  ChainLinked'
    \* The height falls to 0, below every seed: nothing is claimed any more.
    <3>1. seededAt' \in Nat /\ lastHeight' = 0
      BY <2>3 DEF AddBlocksOutOfSequence, CanAppend, TypeOK, Heights
    <3>2. \A n \in Nat : \A h \in (n + 1)..0 : FALSE
      OBVIOUS
    <3>3. \A h \in (seededAt' + 1)..lastHeight' : FALSE
      BY <3>1, <3>2, Zenon
    <3>4. QED
      BY <3>3 DEF ChainLinked
  <2>4. CASE UNCHANGED vars
    BY <2>4 DEF vars, ChainLinked
  <2>5. QED
    BY <2>1, <2>2, <2>3, <2>4 DEF Next
<1>3. QED
  BY <1>1, <1>2, BlockListType, PTL DEF Spec

----------------------------------------------------------------------------

\* What holds on a mainnet seeded above height 0: nothing is stored before
\* the seed, at height 0 (so a rejected batch, which leaves the height at 0,
\* leaves no header for addBlocks to build on), or above the stored height.
SeededOnce ==
    /\ lastHeight = None => \A h \in Heights : blocks[h] = None
    /\ blocks[0] = None
    /\ lastHeight # None /\ lastHeight # 0 =>
           \A h \in Heights : h > lastHeight => blocks[h] = None

Mainnet == ~isTestnet => SeededOnce

\* On mainnet, seeded above height 0, no call replaces a stored header.
THEOREM HeadersArePermanent ==
    ASSUME 0 \notin SeedHeights
    PROVE  Spec => HeadersPermanent
<1> USE BlockListAssumption
<1> DEFINE Kept == \A h \in Heights : blocks[h] # None => blocks'[h] = blocks[h]
<1>1. Init => Mainnet
  BY DEF Init, Mainnet, SeededOnce, Heights
<1>2. TypeOK /\ Mainnet /\ [Next]_vars
          => Mainnet' /\ ((~isTestnet => Kept) \/ UNCHANGED vars)
  <2> SUFFICES ASSUME TypeOK, SeededOnce, [Next]_vars, ~isTestnet
               PROVE  SeededOnce' /\ (Kept \/ UNCHANGED vars)
    <3>1. [Next]_vars => isTestnet' = isTestnet
      BY DEF Next, vars, SeedBlocks, AddBlocks, AddBlocksOutOfSequence
    <3> QED
      BY <3>1 DEF Mainnet
  <2>1. ASSUME NEW header \in SeedInputs, NEW height \in SeedHeights,
               SeedBlocks(header, height)
        PROVE  SeededOnce' /\ Kept
    <3>1. lastHeight = None /\ \A h \in Heights : blocks[h] = None
      BY <2>1 DEF SeedBlocks, SeededOnce
    <3>2. height \in Heights /\ height # 0
      OBVIOUS
    <3>3. \A h \in Heights : h # height => blocks'[h] = None
      BY <2>1, <3>1, <3>2 DEF SeedBlocks, TypeOK
    <3>4. QED
      BY <2>1, <3>1, <3>2, <3>3 DEF SeedBlocks, SeededOnce, Heights
  <2>2. ASSUME NEW batch \in Batches, NEW k \in 0..Len(batch),
               CanAppend, Accepted(batch, k), blocks' = Store(batch, k)
        PROVE  /\ Kept
               /\ lastHeight # 0
               /\ lastHeight + k # 0
               /\ blocks'[0] = None <=> blocks[0] = None
               /\ \A h \in Heights : h > lastHeight + k => blocks'[h] = None
    <3>1. lastHeight \in Nat /\ k \in Nat
      BY <2>2, StoreType DEF Batches
    <3>2. lastHeight # 0 /\ lastHeight # None
      BY <2>2 DEF CanAppend, SeededOnce
    <3>3. \A h \in Heights : h > lastHeight => blocks[h] = None
      BY <3>2 DEF SeededOnce
    <3>4. QED
      BY <2>2, <3>1, <3>2, <3>3 DEF Store, Heights
  <2>3. ASSUME NEW batch \in Batches, NEW fee \in FeeRates, AddBlocks(batch, fee)
        PROVE  SeededOnce' /\ Kept
    <3>1. Len(batch) \in 0..Len(batch)
      BY DEF Batches
    <3>2. lastHeight' # None /\ lastHeight' = lastHeight + Len(batch)
      BY <2>3, <3>1, StoreType DEF AddBlocks
    <3>3. QED
      BY <2>2, <2>3, <3>1, <3>2 DEF AddBlocks, SeededOnce
  <2>4. ASSUME NEW batch \in Batches, NEW fee \in FeeRates, NEW k \in 0..MaxBatch,
               AddBlocksOutOfSequence(batch, k, fee)
        PROVE  SeededOnce' /\ Kept
    \* The batch is rejected only above a seed, so height 0 was never written.
    <3>1. k \in 0..Len(batch)
      BY <2>4 DEF Batches, AddBlocksOutOfSequence
    <3>2. Kept /\ (blocks'[0] = None <=> blocks[0] = None)
      BY <2>2, <2>4, <3>1 DEF AddBlocksOutOfSequence
    <3>3. lastHeight' = 0 /\ None # 0
      BY <2>4 DEF AddBlocksOutOfSequence, Heights
    <3>4. QED
      BY <3>2, <3>3 DEF SeededOnce
  <2>5. CASE UNCHANGED vars
    BY <2>5 DEF vars, SeededOnce
  <2>6. QED
    BY <2>1, <2>3, <2>4, <2>5 DEF Next
<1>3. QED
  BY <1>1, <1>2, BlockListType, PTL DEF Spec, HeadersPermanent

=============================================================================
