------------------------- MODULE LeakingHeapProofs -------------------------
(***************************************************************************)
(* The blocks LeakingHeap hands out are apart and the statistics are       *)
(* theirs, for every width of a word, size of a page, limit of the host    *)
(* and size that is asked for, those that wrap around included.            *)
(***************************************************************************)
EXTENDS LeakingHeap, TLAPS

----------------------------------------------------------------------------
\* Remainders, and products of an unknown factor.

LEMMA RemainderRange ==
    ASSUME NEW n \in Nat, NEW a \in Nat \ {0}
    PROVE  n % a \in 0..(a - 1)
OBVIOUS

LEMMA MultipleRemainder ==
    ASSUME NEW k \in Nat, NEW a \in Nat \ {0}
    PROVE  (a * k) % a = 0
OBVIOUS

LEMMA DivisionRemainder ==
    ASSUME NEW n \in Nat, NEW a \in Nat \ {0}
    PROVE  n \div a \in Nat /\ n = a * (n \div a) + (n % a)
OBVIOUS

\* What is left of a number without its remainder has none.
LEMMA RoundedRemainder ==
    ASSUME NEW n \in Nat, NEW a \in Nat \ {0}
    PROVE  (n - (n % a)) % a = 0
BY DivisionRemainder, MultipleRemainder, RemainderRange

\* Multiples add up to a multiple.
LEMMA SumRemainder ==
    ASSUME NEW n \in Nat, NEW m \in Nat, NEW a \in Nat \ {0},
           n % a = 0, m % a = 0
    PROVE  (n + m) % a = 0
<1> DEFINE p == n \div a
           q == m \div a
<1>1. p \in Nat /\ q \in Nat /\ n = a * p /\ m = a * q
  <2>1. p \in Nat /\ n = a * p + (n % a)
    BY DivisionRemainder
  <2>2. q \in Nat /\ m = a * q + (m % a)
    BY DivisionRemainder
  <2> QED
    BY <2>1, <2>2
<1> HIDE DEF p, q
<1>2. (a * (p + q)) % a = 0
  <2>1. p + q \in Nat
    BY <1>1
  <2> QED
    BY <2>1, MultipleRemainder
<1>3. n + m = a * (p + q)
  BY <1>1
<1> QED
  BY <1>2, <1>3

LEMMA ProductMonotone ==
    ASSUME NEW m \in Nat, NEW n \in Nat, NEW k \in Nat, m <= n
    PROVE  m * k <= n * k
OBVIOUS

LEMMA SmallRemainder ==
    ASSUME NEW a \in Nat \ {0}, NEW n \in 0..(a - 1)
    PROVE  n % a = n
OBVIOUS

\* What a block of this size, for so many bytes, holds of them.
Holds(asked, size) == IF RoundsToZero(asked) THEN size = 0 ELSE asked <= size

\* An aligned size is one that holds what was asked for, or zero when the sum
\* wraps around.
LEMMA AlignHolds ==
    ASSUME NEW size \in Sizes
    PROVE  /\ Align(size) \in Nat /\ Align(size) < Word
           /\ Align(size) % Alignment = 0
           /\ Holds(size, Align(size))
<1> DEFINE n == size + Alignment - 1
<1>1. /\ n \in Nat /\ size \in Nat /\ size < Word
      /\ Alignment \in Nat \ {0} /\ Word \in Nat \ {0}
  BY LeakingHeapAssumption
<1>2. CASE RoundsToZero(size)
  <2>1. n - Word \in 0..(Alignment - 1) /\ n >= Word
    BY <1>1, <1>2 DEF RoundsToZero
  <2>2. (n - Word) % Alignment = n - Word
    BY <1>1, <2>1, SmallRemainder
  <2>3. Align(size) = 0
    BY <1>1, <2>1, <2>2 DEF Align, Wrap
  <2>4. 0 % Alignment = 0
    BY <1>1, SmallRemainder
  <2> QED
    BY <1>1, <1>2, <2>3, <2>4 DEF Holds
<1>3. CASE ~RoundsToZero(size)
  <2>1. n < Word
    BY <1>1, <1>3 DEF RoundsToZero
  <2>2. Align(size) = n - (n % Alignment)
    BY <1>1, <2>1 DEF Align, Wrap
  <2>3. n % Alignment \in 0..(Alignment - 1)
    BY <1>1, RemainderRange
  <2>4. (n - (n % Alignment)) % Alignment = 0
    BY <1>1, RoundedRemainder
  <2>5. n - (n % Alignment) >= size
    BY <1>1, <2>3
  <2>6. n - (n % Alignment) \in Nat /\ n - (n % Alignment) < Word
    BY <1>1, <2>1, <2>3, <2>5
  <2> QED
    BY <1>3, <2>2, <2>4, <2>5, <2>6 DEF Holds
<1> QED
  BY <1>2, <1>3

\* A memory that is not full ends a page before the last word or earlier.
LEMMA PageLeft ==
    ASSUME NEW n \in Nat, n * Page < Word
    PROVE  n * Page <= Word - Page
<1> DEFINE k == Word \div Page
<1>1. Page \in Nat \ {0} /\ Word \in Nat /\ Word % Page = 0
  BY LeakingHeapAssumption
<1>2. k \in Nat /\ Word = Page * k + (Word % Page)
  BY <1>1, DivisionRemainder
<1> HIDE DEF k
<1>3. Word = k * Page
  BY <1>1, <1>2
<1>4. n < k
  <2>1. CASE k <= n
    BY <1>1, <1>2, <1>3, <2>1, ProductMonotone
  <2> QED
    BY <1>2, <2>1
<1>5. (n + 1) * Page <= k * Page
  <2>1. n + 1 \in Nat /\ n + 1 <= k
    BY <1>2, <1>4
  <2> QED
    BY <1>1, <1>2, <2>1, ProductMonotone
<1>6. (n + 1) * Page = n * Page + Page
  BY <1>1
<1> QED
  BY <1>1, <1>3, <1>5, <1>6

----------------------------------------------------------------------------
\* The inductive invariant.

Block == [addr : Nat, size : Nat, asked : Nat, copied : Nat]

\* The pointer, or while a call is under way its address: below it are the
\* blocks, and as many bytes as the counter has.
Floor == IF pc = "alloc" THEN call.addr ELSE heapptr

MemoryInv ==
    /\ pages \in Nat \ {0} /\ pages <= MaxPages
    /\ Memory \in Nat /\ Memory <= Word
    /\ heapEnd = EndOf(pages)

PointerInv ==
    /\ heapptr \in Nat /\ total \in Nat
    /\ pc \in {"idle", "alloc", "trapped"}
    /\ pc = "idle" =>
          /\ HeapStart <= heapptr /\ heapptr <= heapEnd /\ heapptr < Word
          /\ heapptr % Alignment = 0
          /\ total = heapptr - HeapStart
    /\ pc = "alloc" =>
          /\ call \in Block
          /\ HeapStart <= call.addr /\ call.addr < Word
          /\ call.addr % Alignment = 0 /\ call.size % Alignment = 0
          /\ Holds(call.asked, call.size) /\ call.size < Word
          /\ call.copied \in {0, call.asked}
          /\ heapptr = Wrap(call.addr + call.size)
          /\ total = call.addr + call.size - HeapStart

BlocksInv ==
    /\ blocks \subseteq Block
    /\ BlocksApart
    /\ pc # "trapped" => \A b \in blocks : b.addr + b.size <= Floor

IInv == MemoryInv /\ PointerInv /\ BlocksInv

LEMMA InitInv == Init => IInv
<1> SUFFICES ASSUME Init PROVE IInv
  OBVIOUS
<1>1. FirstPages * Page \in Nat /\ FirstPages * Page < Word
  BY LeakingHeapAssumption
<1>2. MemoryInv
  BY <1>1, LeakingHeapAssumption DEF Init, MemoryInv, Memory
<1>3. heapEnd = FirstPages * Page
  BY <1>1 DEF Init, EndOf
<1>4. PointerInv
  BY <1>1, <1>3, LeakingHeapAssumption DEF Init, PointerInv
<1>5. BlocksInv
  BY DEF Init, BlocksInv, BlocksApart
<1> QED
  BY <1>2, <1>4, <1>5 DEF IInv

\* The beginning of an allocation.
LEMMA BeginKeeps ==
    ASSUME IInv, NEW size \in Sizes, NEW copied \in {0, size},
           Begin(size, copied)
    PROVE  IInv'
<1>1. MemoryInv'
  BY DEF IInv, MemoryInv, Memory, Begin
<1>2. PointerInv'
  <2>1. /\ Align(size) \in Nat /\ Align(size) < Word
        /\ Align(size) % Alignment = 0 /\ Holds(size, Align(size))
        /\ size \in Nat /\ copied \in Nat
    BY AlignHolds, LeakingHeapAssumption
  <2>2. Wrap(heapptr + Align(size)) \in Nat
    BY <2>1, LeakingHeapAssumption DEF IInv, PointerInv, Wrap
  <2>3. total + Align(size) = heapptr + Align(size) - HeapStart
    BY <2>1, LeakingHeapAssumption DEF IInv, PointerInv, Begin
  <2> HIDE DEF Align
  <2> QED
    BY <2>1, <2>2, <2>3 DEF IInv, PointerInv, Begin, Block
<1>3. BlocksInv'
  BY DEF IInv, BlocksInv, BlocksApart, Below, Memory, Floor, Begin
<1> QED
  BY <1>1, <1>2, <1>3 DEF IInv

\* The memory only grows, and not past a word.
LEMMA GrowKeeps ==
    ASSUME IInv, Grow
    PROVE  IInv'
<1>1. /\ pages \in Nat \ {0} /\ 2 * pages \in Nat \ {0} /\ 2 * pages <= MaxPages
      /\ Page \in Nat /\ MaxPages \in Nat /\ MaxPages * Page <= Word
  BY LeakingHeapAssumption DEF IInv, MemoryInv, Grow
<1>2. (2 * pages) * Page <= MaxPages * Page
  BY <1>1, ProductMonotone
<1>3. pages * Page <= (2 * pages) * Page
  BY <1>1, ProductMonotone
<1>4. /\ (2 * pages) * Page \in Nat /\ (2 * pages) * Page <= Word
      /\ Memory <= Memory' /\ Memory \in Nat
  BY <1>1, <1>2, <1>3, LeakingHeapAssumption DEF Memory, Grow
<1>5. MemoryInv'
  BY <1>1, <1>4 DEF MemoryInv, Memory, Grow
<1>6. PointerInv'
  BY DEF IInv, PointerInv, Grow
<1>7. BlocksInv'
  <2>1. blocks' = blocks /\ call' = call /\ heapptr' = heapptr /\ pc' = pc
    BY DEF Grow
  <2>2. Memory' \in Nat
    BY <1>5 DEF MemoryInv
  <2>3. \A b \in blocks : b.addr + b.size <= Memory'
    BY <1>4, <2>2 DEF IInv, BlocksInv, BlocksApart, Block
  <2>4. BlocksApart'
    BY <2>1, <2>3 DEF IInv, BlocksInv, BlocksApart, Below
  <2> QED
    BY <2>1, <2>4 DEF IInv, BlocksInv, Floor
<1> QED
  BY <1>5, <1>6, <1>7 DEF IInv

\* A block that is handed out lies above all the others and below the pointer,
\* which has not wrapped around.
LEMMA ReturnKeeps ==
    ASSUME IInv, Return
    PROVE  IInv'
<1>1. MemoryInv'
  BY DEF IInv, MemoryInv, Memory, Return
<1> DEFINE Leaves == call.addr + call.size > Memory \/ call.addr + call.copied > Memory
<1>2. CASE Leaves
  <2>1. pc' = "trapped" /\ UNCHANGED <<blocks, call, heapptr, total, pages>>
    BY <1>2 DEF Return
  <2>2. PointerInv'
    BY <2>1 DEF IInv, PointerInv
  <2>3. BlocksInv'
    BY <2>1 DEF IInv, BlocksInv, BlocksApart, Below, Memory
  <2> QED
    BY <1>1, <2>2, <2>3 DEF IInv
<1>3. CASE ~Leaves
  <2>1. /\ pc = "alloc" /\ pc' = "idle" /\ heapptr < heapEnd
        /\ blocks' = blocks \cup {call}
        /\ UNCHANGED <<heapptr, total, pages, heapEnd>>
    BY <1>3 DEF Return
  <2>2. /\ call \in Block
        /\ call.addr \in Nat /\ call.size \in Nat /\ call.asked \in Nat
        /\ call.copied \in Nat /\ call.copied \in {0, call.asked}
        /\ HeapStart <= call.addr /\ Holds(call.asked, call.size)
        /\ call.addr % Alignment = 0 /\ call.size % Alignment = 0
        /\ heapptr = Wrap(call.addr + call.size)
        /\ total = call.addr + call.size - HeapStart
        /\ heapptr \in Nat
    BY <2>1 DEF IInv, PointerInv, Block
  <2>3. /\ Memory \in Nat /\ Memory < Word /\ heapEnd = Memory
    BY <2>1, <2>2, LeakingHeapAssumption DEF IInv, MemoryInv, Memory, EndOf
  <2>4. call.addr + call.size <= Memory /\ call.addr + call.copied <= Memory
    BY <1>3, <2>2, <2>3
  <2>9. call.copied <= call.size
    <3>1. CASE RoundsToZero(call.asked)
      <4>1. Memory <= Word - Page
        BY <2>1, <2>3, PageLeft, LeakingHeapAssumption DEF IInv, MemoryInv, Memory
      <4>2. call.copied # call.asked
        BY <2>2, <2>3, <2>4, <3>1, <4>1, LeakingHeapAssumption DEF RoundsToZero
      <4> QED
        BY <2>2, <4>2
    <3>2. CASE ~RoundsToZero(call.asked)
      BY <2>2, <3>2 DEF Holds
    <3> QED
      BY <3>1, <3>2
  <2>5. heapptr = call.addr + call.size /\ heapptr < Word
    BY <2>2, <2>3, <2>4, LeakingHeapAssumption DEF Wrap
  <2>6. heapptr % Alignment = 0
    BY <2>2, <2>5, SumRemainder, LeakingHeapAssumption
  <2>7. PointerInv'
    BY <2>1, <2>2, <2>3, <2>5, <2>6, LeakingHeapAssumption
    DEF PointerInv
  <2>8. BlocksInv'
    <3>2. \A b \in blocks : b.addr + b.size <= call.addr
      BY <2>1 DEF IInv, BlocksInv, Floor
    <3>3. \A b \in blocks : b.addr + b.size <= heapptr
      BY <2>2, <2>5, <3>2 DEF IInv, BlocksInv, Block
    <3>4. Memory' = Memory
      BY <2>1 DEF Memory
    <3>5. BlocksApart'
      BY <2>1, <2>2, <2>4, <2>9, <3>2, <3>4
      DEF IInv, BlocksInv, BlocksApart, Below, Holds
    <3> QED
      BY <2>1, <2>2, <2>5, <3>3, <3>5 DEF IInv, BlocksInv, Floor
  <2> QED
    BY <1>1, <2>7, <2>8 DEF IInv
<1> QED
  BY <1>2, <1>3

LEMMA NextKeeps == IInv /\ [Next]_vars => IInv'
<1> SUFFICES ASSUME IInv, [Next]_vars PROVE IInv'
  OBVIOUS
<1>1. CASE \E size \in Sizes : Alloc(size)
  <2>1. PICK size \in Sizes : Begin(size, 0)
    BY <1>1 DEF Alloc
  <2> QED
    BY <2>1, BeginKeeps
<1>2. CASE \E size \in Sizes : Realloc(size)
  <2>1. PICK size \in Sizes : Begin(size, size)
    BY <1>2 DEF Realloc
  <2> QED
    BY <2>1, BeginKeeps
<1>3. CASE Grow
  BY <1>3, GrowKeeps
<1>4. CASE GrowFails
  BY <1>4 DEF GrowFails, IInv, MemoryInv, PointerInv, BlocksInv, BlocksApart,
              Below, Memory
<1>5. CASE Return
  BY <1>5, ReturnKeeps
<1>6. CASE UNCHANGED vars
  BY <1>6 DEF vars, IInv, MemoryInv, PointerInv, BlocksInv, BlocksApart, Below,
              Memory, Floor
<1> QED
  BY <1>1, <1>2, <1>3, <1>4, <1>5, <1>6 DEF Next

----------------------------------------------------------------------------

\* Blocks are apart, aligned, inside the memory and as large as was asked for,
\* or empty for a size that rounds to zero, into which nothing is copied: for
\* every width of a word and every size up to the last word.
THEOREM HeapBlocksApart == Spec => []BlocksApart
<1>1. IInv => BlocksApart
  BY DEF IInv, BlocksInv
<1> QED
  BY <1>1, InitInv, NextKeeps, PTL DEF Spec

\* The statistics are those of the blocks, and fit the memory.
THEOREM HeapStatsFit == Spec => []StatsFit
<1>1. IInv => StatsFit
  BY LeakingHeapAssumption DEF IInv, PointerInv, StatsFit
<1> QED
  BY <1>1, InitInv, NextKeeps, PTL DEF Spec

=============================================================================
