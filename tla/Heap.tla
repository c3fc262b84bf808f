------------------------------- MODULE Heap -------------------------------
(* The kernel heap of memory.c: one list of blocks, each a header followed  *)
(* by its payload, that together fill the heap.  Addresses are offsets from *)
(* heap_start.  A header that has been merged away is payload, so only the  *)
(* blocks of the list are kept.  No interrupt handler allocates, so every   *)
(* call is one step; callers free and reallocate only what they hold.       *)
EXTENDS Integers

CONSTANTS HEAP_SIZE,   \* KERNEL_HEAP_SIZE (0x400000)
          HEADER,      \* sizeof(memory_block_t) (16)
          ALIGN,       \* allocation granularity (4)
          WORD,        \* 2^32, the range of size_t
          Requests,    \* the sizes callers ask for
          NULL

\* Headers, like payloads, are multiples of the granularity; one block fits.
ASSUME HeapAssumption ==
    /\ ALIGN \in Nat \ {0} /\ HEADER \in Nat \ {0} /\ HEAP_SIZE \in Nat /\ WORD \in Nat \ {0}
    /\ HEADER % ALIGN = 0 /\ HEAP_SIZE % ALIGN = 0 /\ WORD % ALIGN = 0
    /\ HEADER < HEAP_SIZE /\ HEAP_SIZE + HEADER < WORD
    /\ Requests \subseteq 0 .. WORD - 1
    /\ NULL \notin Int

VARIABLES block,      \* the headers of the list: address -> memory_block_t
          heap_end,   \* address of the last block
          held,       \* pointers callers hold -> size they asked for
          last        \* the last call: [asked |-> size, got |-> pointer]

vars == <<block, heap_end, held, last>>

Address == 0 .. HEAP_SIZE

\* memory_init: one free block.
memory_init ==
    [block |-> [a \in {0} |-> [size |-> HEAP_SIZE - HEADER, is_free |-> TRUE,
                               next |-> NULL, prev |-> NULL]],
     end   |-> 0]

Nothing == [asked |-> 0, got |-> NULL]

Init ==
    /\ block = memory_init.block
    /\ heap_end = memory_init.end
    /\ held = [p \in {} |-> 0]
    /\ last = Nothing

---------------------------------------------------------------------------
(* The static functions, on a heap h = [block, end]. *)

\* A bug: the block after the new one still points back over it.
SplitWithoutBackLink(h, b, size) ==
    LET n    == b + HEADER + size
        rest == [h.block[b] EXCEPT !.size = @ - size - HEADER, !.is_free = TRUE, !.prev = b]
    IN  IF h.block[b].size <= size + HEADER THEN h
        ELSE [block |-> [a \in DOMAIN h.block \cup {n} |->
                            CASE a = n -> rest
                              [] a = b -> [h.block[b] EXCEPT !.next = n, !.size = size]
                              [] OTHER -> h.block[a]],
              end   |-> IF h.block[b].next = NULL THEN n ELSE h.end]

\* split_block: cut the tail of b off as a free block, if it holds a header.
split_block(h, b, size) ==
    LET n     == b + HEADER + size
        after == h.block[b].next
        rest  == [h.block[b] EXCEPT !.size = @ - size - HEADER, !.is_free = TRUE, !.prev = b]
    IN  IF h.block[b].size <= size + HEADER THEN h
        ELSE [block |-> [a \in DOMAIN h.block \cup {n} |->
                            CASE a = n     -> rest
                              [] a = b     -> [h.block[b] EXCEPT !.next = n, !.size = size]
                              [] a = after -> [h.block[a] EXCEPT !.prev = n]
                              [] OTHER     -> h.block[a]],
              end   |-> IF after = NULL THEN n ELSE h.end]

\* A bug: the header of the absorbed block is lost.
AbsorbPayload(h, b, c) ==
    LET after == h.block[c].next
    IN  [block |-> [a \in DOMAIN h.block \ {c} |->
                       CASE a = b     -> [h.block[b] EXCEPT !.size = @ + h.block[c].size,
                                                            !.next = after]
                         [] a = after -> [h.block[a] EXCEPT !.prev = b]
                         [] OTHER     -> h.block[a]],
         end   |-> IF after = NULL THEN b ELSE h.end]

\* A bug: two headers are counted for the one that goes.
AbsorbTwoHeaders(h, b, c) ==
    LET after == h.block[c].next
    IN  [block |-> [a \in DOMAIN h.block \ {c} |->
                       CASE a = b     -> [h.block[b] EXCEPT !.size = @ + 2 * HEADER + h.block[c].size,
                                                            !.next = after]
                         [] a = after -> [h.block[a] EXCEPT !.prev = b]
                         [] OTHER     -> h.block[a]],
         end   |-> IF after = NULL THEN b ELSE h.end]

\* Block b takes over block c, which follows it in the list.
Absorb(h, b, c) ==
    LET after == h.block[c].next
    IN  [block |-> [a \in DOMAIN h.block \ {c} |->
                       CASE a = b     -> [h.block[b] EXCEPT !.size = @ + HEADER + h.block[c].size,
                                                            !.next = after]
                         [] a = after -> [h.block[a] EXCEPT !.prev = b]
                         [] OTHER     -> h.block[a]],
         end   |-> IF after = NULL THEN b ELSE h.end]

MergeNext(h, b) ==
    LET n == h.block[b].next
    IN  IF n # NULL /\ h.block[n].is_free THEN Absorb(h, b, n) ELSE h

MergePrevious(h, b) ==
    LET p == h.block[b].prev
    IN  IF p # NULL /\ h.block[p].is_free THEN Absorb(h, p, b) ELSE h

\* A bug: only the following block is merged.
MergeForwardOnly(h, b) == MergeNext(h, b)

merge_free_blocks(h, b) == MergePrevious(MergeNext(h, b), b)

heap == [block |-> block, end |-> heap_end]

BecomesHeap(h) == block' = h.block /\ heap_end' = h.end

\* (size + 3) & ~3 in 32 bits
Aligned(n) == LET m == (n + ALIGN - 1) % WORD IN m - (m % ALIGN)

\* A bug: the block's header is counted as room.
SuitsWithHeader(b, size) == block[b].is_free /\ block[b].size + HEADER >= size

Suits(b, size) == block[b].is_free /\ block[b].size >= size

\* find_free_block: the first block of the list that is free and large enough.
find_free_block(b, size) ==
    Suits(b, size) /\ \A a \in DOMAIN block : a < b => ~Suits(a, size)

Exhausted(size) == \A b \in DOMAIN block : ~Suits(b, size)

\* A bug: the block given out stays marked free.
GiveOutFree(b, size) == split_block(heap, b, size)

\* The heap after the first suitable block b is given out.
GiveOut(b, size) ==
    LET h == split_block(heap, b, size)
    IN  [h EXCEPT !.block[b].is_free = FALSE]

\* The heap h after the block of pointer p is given back.
GiveBack(h, p) ==
    LET b == p - HEADER
    IN  merge_free_blocks([h EXCEPT !.block[b].is_free = TRUE], b)

HoldAlso(f, p, n) == [q \in DOMAIN f \cup {p} |-> IF q = p THEN n ELSE f[q]]

HoldNoMore(p) == [q \in DOMAIN held \ {p} |-> held[q]]

---------------------------------------------------------------------------
(* The calls.  A caller asks for wanted bytes and passes size, the same     *)
(* number unless kcalloc's product overflowed.                              *)

Allocates(wanted, size) ==
    /\ size # 0
    /\ \E b \in DOMAIN block :
          /\ find_free_block(b, Aligned(size))
          /\ BecomesHeap(GiveOut(b, Aligned(size)))
          /\ held' = HoldAlso(held, b + HEADER, wanted)
          /\ last' = [asked |-> wanted, got |-> b + HEADER]

Refuses(wanted, size) ==
    /\ size = 0 \/ Exhausted(Aligned(size))
    /\ last' = [asked |-> wanted, got |-> NULL]
    /\ UNCHANGED <<block, heap_end, held>>

kmalloc(n) == Allocates(n, n) \/ Refuses(n, n)

kfree(p) ==
    /\ BecomesHeap(GiveBack(heap, p))
    /\ held' = HoldNoMore(p)
    /\ last' = Nothing

\* krealloc of a pointer; krealloc(NULL, n) is kmalloc(n), krealloc(p, 0) kfree(p).
ReallocInPlace(p, n) ==
    /\ n # 0
    /\ block[p - HEADER].size >= n
    /\ held' = [held EXCEPT ![p] = n]
    /\ last' = [asked |-> n, got |-> p]
    /\ UNCHANGED <<block, heap_end>>

ReallocMove(p, n) ==
    /\ n # 0
    /\ block[p - HEADER].size < n
    /\ \E b \in DOMAIN block :
          /\ find_free_block(b, Aligned(n))
          /\ BecomesHeap(GiveBack(GiveOut(b, Aligned(n)), p))
          /\ held' = HoldAlso(HoldNoMore(p), b + HEADER, n)
          /\ last' = [asked |-> n, got |-> b + HEADER]

ReallocFail(p, n) ==
    /\ n # 0
    /\ block[p - HEADER].size < n
    /\ Refuses(n, n)

krealloc(p, n) == ReallocInPlace(p, n) \/ ReallocMove(p, n) \/ ReallocFail(p, n)

kcalloc(num, size) ==
    Allocates(num * size, (num * size) % WORD) \/ Refuses(num * size, (num * size) % WORD)

Next ==
    \/ \E n \in Requests : kmalloc(n)
    \/ \E p \in DOMAIN held : kfree(p)
    \/ \E p \in DOMAIN held, n \in Requests : krealloc(p, n)
    \/ \E num, size \in Requests : kcalloc(num, size)

Spec == Init /\ [][Next]_vars

---------------------------------------------------------------------------
(* Properties. *)

\* Headers are headers, at addresses of the heap, and pointers point into it.
TypeOK ==
    /\ DOMAIN block \subseteq Address
    /\ \A b \in DOMAIN block :
          block[b] \in [size : 0 .. HEAP_SIZE - HEADER, is_free : BOOLEAN,
                        next : Address \cup {NULL}, prev : Address \cup {NULL}]
    /\ heap_end \in Address
    /\ DOMAIN held \subseteq Address
    /\ last.got \in Address \cup {NULL}

End(b) == b + HEADER + block[b].size

(* The list covers the heap: every block ends where the next begins, the    *)
(* links agree in both directions, the first block is at heap_start, and    *)
(* the last, which heap_end names, ends with the heap.                      *)
ListCoversHeap ==
    /\ 0 \in DOMAIN block
    /\ heap_end \in DOMAIN block /\ block[heap_end].next = NULL
    /\ \A b \in DOMAIN block :
          /\ IF block[b].next = NULL
             THEN End(b) = HEAP_SIZE /\ b = heap_end
             ELSE /\ block[b].next = End(b)
                  /\ block[b].next \in DOMAIN block
                  /\ block[block[b].next].prev = b
          /\ IF block[b].prev = NULL
             THEN b = 0
             ELSE block[b].prev \in DOMAIN block /\ block[block[b].prev].next = b
          /\ \A c \in DOMAIN block : b < c => End(b) <= c

(* Free blocks are always merged: no two neighbours are free, so freed      *)
(* memory never stays cut up.                                               *)
NoFreeNeighbours ==
    \A b \in DOMAIN block :
        block[b].is_free /\ block[b].next # NULL => ~block[block[b].next].is_free

\* A block is in use exactly while a caller holds its pointer.
HeldIsUsed ==
    {b + HEADER : b \in {a \in DOMAIN block : ~block[a].is_free}} = DOMAIN held

(* Nothing leaks: once every pointer has been freed, in whatever order, the *)
(* heap is again the single block of memory_init.                           *)
AllFreedIsInitial == DOMAIN held = {} => heap = memory_init

A == INSTANCE Allocator
       WITH SIZE <- HEAP_SIZE, HEADER <- HEADER, NULL <- NULL, last <- last,
            region <- [p \in DOMAIN held |-> block[p - HEADER].size]

(* First fit with splitting and merging implements the allocator: disjoint  *)
(* allocations, never smaller than asked, refused only for want of room.    *)
RefinesAllocator == A!Spec
===========================================================================
