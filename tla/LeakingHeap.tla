---------------------------- MODULE LeakingHeap ----------------------------
(***************************************************************************)
(* The allocator the contract is built with                                *)
(* (runtime/gc_leaking_exported.go): a pointer into the linear memory that *)
(* only moves up, in words that wrap around, and a memory that doubles     *)
(* until the host refuses.  An allocation goes step by step, since it may  *)
(* grow the memory several times; a trap ends the instance.                *)
(***************************************************************************)
EXTENDS Integers, FiniteSets

CONSTANTS
    Word,       \* values of a uintptr
    Page,       \* wasmPageSize
    Alignment,  \* heapAlign
    HeapStart,  \* the address of __heap_base
    FirstPages, \* pages of the memory to begin with
    MaxPages,   \* pages the host grants at most
    Sizes       \* sizes that are asked for

ASSUME LeakingHeapAssumption ==
    /\ {Word, Page, Alignment} \subseteq Nat \ {0}
    /\ FirstPages \in Nat \ {0} /\ MaxPages \in Nat
    /\ FirstPages <= MaxPages /\ MaxPages * Page <= Word
    /\ Word % Page = 0 /\ Alignment <= Page
    /\ HeapStart \in Nat /\ HeapStart <= FirstPages * Page
    /\ FirstPages * Page < Word
    /\ HeapStart % Alignment = 0
    /\ Sizes \subseteq 0..(Word - 1)

VARIABLES
    heapptr,
    pages,      \* the size of the memory
    heapEnd,
    total,      \* gcTotalAlloc
    call,       \* the allocation under way: where, how much, and what is copied
    blocks,     \* history variable: the blocks handed out
    pc          \* "idle", "alloc" or "trapped"

vars == <<heapptr, pages, heapEnd, total, call, blocks, pc>>

NoCall == [addr |-> 0, size |-> 0, asked |-> 0, copied |-> 0]

\* The sum of two words.
Wrap(n) == IF n >= Word THEN n - Word ELSE n

\* Mutant of Align: the size is rounded down.
AlignDown(size) == size - (size % Alignment)

\* The sum wraps around too: align gives zero for the sizes next to Word.
Align(size) ==
    LET n == Wrap(size + Alignment - 1)
    IN  n - (n % Alignment)

Memory == pages * Page
EndOf(n) == IF n * Page = Word THEN 0 ELSE n * Page

Init ==
    /\ heapptr = HeapStart
    /\ pages = FirstPages
    /\ heapEnd = EndOf(FirstPages)
    /\ total = 0
    /\ call = NoCall
    /\ blocks = {}
    /\ pc = "idle"

\* Mutant of Begin: the pointer moves by the size that was asked for.
BeginUnaligned(size, copied) ==
    /\ pc = "idle"
    /\ pc' = "alloc"
    /\ call' = [addr |-> heapptr, size |-> Align(size), asked |-> size,
                copied |-> copied]
    /\ heapptr' = Wrap(heapptr + size)
    /\ total' = total + Align(size)
    /\ UNCHANGED <<pages, heapEnd, blocks>>

\* The beginning of alloc, whose caller copies so many bytes into the block.
Begin(size, copied) ==
    /\ pc = "idle"
    /\ pc' = "alloc"
    /\ call' = [addr |-> heapptr, size |-> Align(size), asked |-> size,
                copied |-> copied]
    /\ heapptr' = Wrap(heapptr + Align(size))
    /\ total' = total + Align(size)
    /\ UNCHANGED <<pages, heapEnd, blocks>>

Alloc(size) == Begin(size, 0)

\* realloc of a block there is: a new block, into which memcpy copies as many
\* bytes of the old one, and of what follows it, as are asked for.
Realloc(size) == blocks # {} /\ Begin(size, size)

\* growHeap asks for as much again as there is.
Grow ==
    /\ pc = "alloc" /\ heapptr >= heapEnd
    /\ 2 * pages <= MaxPages
    /\ pages' = 2 * pages
    /\ heapEnd' = EndOf(2 * pages)
    /\ UNCHANGED <<heapptr, total, call, blocks, pc>>

\* Mutant of GrowFails: the loop goes on when the memory did not grow.
GrowFailsContinues ==
    /\ pc = "alloc" /\ heapptr >= heapEnd
    /\ 2 * pages > MaxPages
    /\ UNCHANGED vars

GrowFails ==
    /\ pc = "alloc" /\ heapptr >= heapEnd
    /\ 2 * pages > MaxPages
    /\ pc' = "trapped"
    /\ UNCHANGED <<heapptr, pages, heapEnd, total, call, blocks>>

\* memzero traps when it leaves the memory, and so does the memcpy that follows
\* for a realloc: it reads below what it writes.
Return ==
    /\ pc = "alloc" /\ heapptr < heapEnd
    /\ IF call.addr + call.size > Memory \/ call.addr + call.copied > Memory
       THEN pc' = "trapped" /\ UNCHANGED <<blocks, call>>
       ELSE /\ pc' = "idle"
            /\ blocks' = blocks \cup {call}
            /\ call' = NoCall
    /\ UNCHANGED <<heapptr, pages, heapEnd, total>>

Next ==
    \/ \E size \in Sizes : Alloc(size) \/ Realloc(size)
    \/ Grow \/ GrowFails \/ Return

\* The instance runs alloc to its end.
Spec == Init /\ [][Next]_vars /\ WF_vars(Grow \/ GrowFails \/ Return)

----------------------------------------------------------------------------

Below(a, b) == a.addr + a.size <= b.addr

\* The sizes that align rounds up past the last word, to zero.
RoundsToZero(size) == size > Word - Alignment

\* Every block is aligned, inside the memory, above the static data, and apart
\* from all the others, although the pointer wraps around and the end of a
\* memory of full size is the word zero.  It is as large as was asked for, save
\* that alloc does not refuse a size it rounds to zero: that block is empty.
\* What realloc copies fits its block even then, since memcpy traps.
BlocksApart ==
    \A b \in blocks :
        /\ HeapStart <= b.addr /\ b.addr + b.size <= Memory
        /\ b.addr % Alignment = 0
        /\ IF RoundsToZero(b.asked) THEN b.size = 0 ELSE b.asked <= b.size
        /\ b.copied <= b.size
        /\ \A a \in blocks \ {b} : Below(a, b) \/ Below(b, a)

\* The bytes ReadMemStats reports in use are those of the blocks, and fit the
\* memory it reports to have of the system.
StatsFit ==
    pc = "idle" => total = heapptr - HeapStart /\ HeapStart + total <= heapEnd

\* An allocation ends: the memory cannot double for ever.
AllocEnds == pc = "alloc" ~> pc # "alloc"

=============================================================================
