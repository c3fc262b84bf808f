--------------------------- MODULE PagingProofs ---------------------------
(* Machine-checked proofs about Paging, for every geometry: what happens to *)
(* the heap and to the tables while paging_init builds them, and what       *)
(* enabling paging leads to.                                                *)
EXTENDS Paging, TLAPS

---------------------------------------------------------------------------
(* The inductive invariant. *)

\* The header of the directory's block, of the tables' and of the rest.
B0 == HEAP_START
B1 == HEAP_START + BLOCK
B2 == HEAP_START + 2 * BLOCK

\* The directory, and the page that its entries name as the table.
D == HEAP_START + HEADER
T == HEAP_START + PAGE_SIZE

\* What paging_identity_map stores for page v.
Entry(v) == v * PAGE_SIZE + 7

\* Where split_block stores when it takes the entry of page v for a block.
Past(v) == Entry(v) + PREV

\* No directory has been allocated: the heap is one free block.
Untouched ==
    /\ next_page = 0
    /\ \E s \in HeapSizes : mem[B0 + SIZE] = s - HEADER
    /\ mem[B0 + IS_FREE] = 1
    /\ mem[B0 + NEXT] = NULL

DirectoryEmpty == \A d \in 0 .. DIRS - 1 : mem[D + WORD * d] = 0

\* What is left beside the directory is too small for a table.
NoRoom ==
    /\ DirectoryEmpty
    /\ strayed = {}
    /\ \/ mem[B0 + NEXT] = NULL
       \/ mem[B0 + NEXT] = B1 /\ mem[B1 + SIZE] < PAGE_SIZE /\ mem[B1 + NEXT] = NULL

\* It is large enough, and there is no table yet.
FirstRoom ==
    /\ DirectoryEmpty
    /\ strayed = {}
    /\ next_page = 0
    /\ mem[B0 + NEXT] = B1
    /\ mem[B1 + SIZE] >= PAGE_SIZE + BLOCK
    /\ mem[B1 + IS_FREE] # 0
    /\ mem[B1 + NEXT] = NULL

(* The header of the tables' block, when entries up to the j-th of          *)
(* directory entry k have been stored over it, and that of the rest.        *)
Overwritten(k, j) ==
    /\ mem[B1 + SIZE] = IF j >= 4 THEN Entry(k * ENTRIES + 4) ELSE PAGE_SIZE
    /\ mem[B1 + IS_FREE] = IF j >= 5 THEN Entry(k * ENTRIES + 5) ELSE 0
    /\ mem[B1 + NEXT] = IF j >= 6 THEN Entry(k * ENTRIES + 6) ELSE B2
    /\ mem[B2 + IS_FREE] # 0
    /\ mem[B2 + SIZE] >= PAGE_SIZE

\* All tables so far are in one block, and found in the page before its end.
Tables ==
    /\ next_page > 0
    /\ mem[B0 + NEXT] = B1
    /\ \A d \in 0 .. DIRS - 1 :
          mem[D + WORD * d] = IF d <= directory_index(next_page - 1) THEN T + 7 ELSE 0
    /\ strayed \subseteq {Past(i * ENTRIES + 6) : i \in 0 .. DIRS - 1}
    /\ pc = "init" => Overwritten(directory_index(next_page - 1), table_index(next_page - 1))

\* The directory's block keeps its header, whose size is even.
Directory ==
    /\ kernel_directory = D
    /\ mem[B0 + SIZE] % 2 = 0
    /\ mem[B0 + IS_FREE] = 0
    /\ NoRoom \/ FirstRoom \/ Tables

IInv ==
    /\ TypeOK
    /\ kernel_directory = NULL => Untouched /\ strayed = {}
    /\ kernel_directory # NULL => Directory
    /\ paging_on => pc = "reset"

---------------------------------------------------------------------------
(* Arithmetic of the geometry. *)

\* The sizes and the place of the heap.
LEMMA Sizes ==
  /\ ENTRIES \in Nat /\ ENTRIES >= 9 /\ DIRS \in Nat /\ 1 <= DIRS /\ 4 * DIRS + 32 <= PAGE_SIZE
  /\ PAGE_SIZE \in Nat /\ PAGE_SIZE = 4 * ENTRIES /\ PAGE_SIZE >= 36
  /\ HEAP_PAGE \in Nat /\ HEAP_PAGE >= 9
  /\ HEAP_START \in Nat /\ HEAP_START >= 9 * PAGE_SIZE /\ HEAP_START = 4 * (HEAP_PAGE * ENTRIES)
  /\ HEAP_PAGE * ENTRIES \in Nat
  /\ MAPPED \in Nat /\ MAPPED >= ENTRIES
  /\ KERNEL \in Nat /\ VGA \in Nat /\ KERNEL < ENTRIES /\ VGA < ENTRIES
<1>1. /\ ENTRIES \in Nat /\ ENTRIES >= 9 /\ DIRS \in Nat /\ 1 <= DIRS
      /\ HEAP_PAGE \in Nat /\ HEAP_PAGE >= 9 /\ DIRS + 8 <= ENTRIES
      /\ KERNEL \in Nat /\ VGA \in Nat /\ KERNEL < ENTRIES /\ VGA < ENTRIES
  BY GeometryAssumption
<1>2. PAGE_SIZE = 4 * ENTRIES
  BY DEF PAGE_SIZE, WORD
<1>3. PAGE_SIZE \in Nat /\ PAGE_SIZE >= 36 /\ 4 * DIRS + 32 <= PAGE_SIZE
  BY <1>1, <1>2
<1>4. HEAP_PAGE * ENTRIES \in Nat /\ HEAP_PAGE * ENTRIES >= 9 * ENTRIES
  BY <1>1
<1>5. HEAP_START = 4 * (HEAP_PAGE * ENTRIES)
  BY <1>1 DEF HEAP_START, PAGE_SIZE, WORD
<1>6. HEAP_START \in Nat /\ HEAP_START >= 9 * PAGE_SIZE
  BY ONLY <1>1, <1>2, <1>4, <1>5
<1>7. MAPPED \in Nat /\ MAPPED >= ENTRIES
  BY <1>1 DEF MAPPED
<1> QED
  BY <1>1, <1>2, <1>3, <1>4, <1>5, <1>6, <1>7

\* Words of the three blocks are words of the memory.
LEMMA InWords ==
  ASSUME NEW x \in Nat, 4 * x < 3 * BLOCK
  PROVE  HEAP_START + 4 * x \in Words
<1>1. HEAP_WORDS \in Nat /\ 3 * BLOCK <= 4 * HEAP_WORDS
  BY GeometryAssumption DEF WORD
<1>2. BLOCK \in Nat
  BY Sizes DEF BLOCK, HEADER
<1>3. x \in 0 .. HEAP_WORDS - 1
  BY <1>1, <1>2
<1> QED
  BY <1>3 DEF Words, WORD

\* All words are at multiples of four, from HEAP_START on.
LEMMA WordsAreHigh ==
  ASSUME NEW a \in Words
  PROVE  a \in Nat /\ a >= HEAP_START /\ \E n \in Nat : a = 4 * n
<1>1. PICK i \in 0 .. HEAP_WORDS - 1 : a = HEAP_START + 4 * i
  BY DEF Words, WORD
<1>2. i \in Nat
  BY GeometryAssumption
<1>3. a = 4 * (HEAP_PAGE * ENTRIES + i) /\ HEAP_PAGE * ENTRIES + i \in Nat
  BY <1>1, <1>2, Sizes
<1> QED
  BY <1>1, <1>2, <1>3, Sizes

\* The headers, the directory and the page of the tables.
LEMMA Placed ==
  /\ B0 + SIZE \in Words /\ B0 + IS_FREE \in Words /\ B0 + NEXT \in Words /\ B0 + PREV \in Words
  /\ B1 + SIZE \in Words /\ B1 + IS_FREE \in Words /\ B1 + NEXT \in Words /\ B1 + PREV \in Words
  /\ B2 + SIZE \in Words /\ B2 + IS_FREE \in Words /\ B2 + NEXT \in Words /\ B2 + PREV \in Words
  /\ B0 \in Words /\ B1 \in Words /\ B2 \in Words
  /\ B1 + HEADER \in Words
  /\ \A d \in 0 .. DIRS - 1 : D + WORD * d \in Words
  /\ \A j \in 0 .. ENTRIES - 1 : T + WORD * j \in Words
<1>1. \A x \in Nat : 4 * x < 3 * BLOCK => HEAP_START + 4 * x \in Words
  BY InWords
<1>2. BLOCK = PAGE_SIZE + 16 /\ BLOCK = 4 * (ENTRIES + 4)
  BY Sizes DEF BLOCK, HEADER
<1>3. ASSUME NEW x \in 0 .. 3
      PROVE  /\ HEAP_START + 4 * x \in Words
             /\ HEAP_START + 4 * (ENTRIES + 4 + x) \in Words
             /\ HEAP_START + 4 * (2 * ENTRIES + 8 + x) \in Words
  <2>1. /\ x \in Nat /\ 4 * x < 3 * BLOCK
        /\ ENTRIES + 4 + x \in Nat /\ 4 * (ENTRIES + 4 + x) < 3 * BLOCK
        /\ 2 * ENTRIES + 8 + x \in Nat /\ 4 * (2 * ENTRIES + 8 + x) < 3 * BLOCK
    BY <1>2, Sizes
  <2> QED
    BY <1>1, <2>1, Zenon
<1>4. HEAP_START + 4 * (ENTRIES + 8) \in Words
  <2>1. ENTRIES + 8 \in Nat /\ 4 * (ENTRIES + 8) < 3 * BLOCK
    BY <1>2, Sizes
  <2> QED
    BY <1>1, <2>1, Zenon
<1>5. ASSUME NEW d \in 0 .. DIRS - 1 PROVE D + WORD * d \in Words
  <2>1. 4 + d \in Nat /\ 4 * (4 + d) < 3 * BLOCK
    BY <1>2, Sizes
  <2>2. HEAP_START + 4 * (4 + d) \in Words
    BY <1>1, <2>1, Zenon
  <2> QED
    BY <2>2, Sizes DEF D, HEADER, WORD
<1>6. ASSUME NEW j \in 0 .. ENTRIES - 1 PROVE T + WORD * j \in Words
  <2>1. ENTRIES + j \in Nat /\ 4 * (ENTRIES + j) < 3 * BLOCK
    BY <1>2, Sizes
  <2>2. HEAP_START + 4 * (ENTRIES + j) \in Words
    BY <1>1, <2>1, Zenon
  <2> QED
    BY <2>2, Sizes DEF T, WORD
<1>7. /\ B0 + SIZE = HEAP_START + 4 * 0 /\ B0 + IS_FREE = HEAP_START + 4 * 1
      /\ B0 + NEXT = HEAP_START + 4 * 2 /\ B0 + PREV = HEAP_START + 4 * 3
      /\ B1 + SIZE = HEAP_START + 4 * (ENTRIES + 4 + 0) /\ B1 + IS_FREE = HEAP_START + 4 * (ENTRIES + 4 + 1)
      /\ B1 + NEXT = HEAP_START + 4 * (ENTRIES + 4 + 2) /\ B1 + PREV = HEAP_START + 4 * (ENTRIES + 4 + 3)
      /\ B2 + SIZE = HEAP_START + 4 * (2 * ENTRIES + 8 + 0)
      /\ B2 + IS_FREE = HEAP_START + 4 * (2 * ENTRIES + 8 + 1)
      /\ B2 + NEXT = HEAP_START + 4 * (2 * ENTRIES + 8 + 2)
      /\ B2 + PREV = HEAP_START + 4 * (2 * ENTRIES + 8 + 3)
      /\ B1 + HEADER = HEAP_START + 4 * (ENTRIES + 8)
      /\ B0 = B0 + SIZE /\ B1 = B1 + SIZE /\ B2 = B2 + SIZE
  BY <1>2, Sizes DEF B0, B1, B2, SIZE, IS_FREE, NEXT, PREV, HEADER
<1>8. 0 \in 0 .. 3 /\ 1 \in 0 .. 3 /\ 2 \in 0 .. 3 /\ 3 \in 0 .. 3
  OBVIOUS
<1> QED
  BY <1>3, <1>4, <1>5, <1>6, <1>7, <1>8

\* The page of an address.
LEMMA PageOf ==
  ASSUME NEW q \in Nat, NEW r \in Nat, r < PAGE_SIZE
  PROVE  /\ q * PAGE_SIZE \in Nat
         /\ (q * PAGE_SIZE + r) \div PAGE_SIZE = q
         /\ get_address(q * PAGE_SIZE + r) = q * PAGE_SIZE
<1>1. PAGE_SIZE \in Nat /\ PAGE_SIZE > 0 /\ q * PAGE_SIZE \in Nat
  BY Sizes
<1>2. \A p \in Nat : \A n, m \in Nat : p > 0 /\ m < p => (n * p + m) \div p = n
  OBVIOUS
<1>3. (q * PAGE_SIZE + r) \div PAGE_SIZE = q
  BY <1>1, <1>2
<1> QED
  BY <1>1, <1>3 DEF get_address

\* The indexes of the pages that are mapped.
LEMMA Indexes ==
  ASSUME NEW v \in Nat, v < MAPPED
  PROVE  /\ directory_index(v) \in 0 .. DIRS - 1 /\ table_index(v) \in 0 .. ENTRIES - 1
         /\ v = directory_index(v) * ENTRIES + table_index(v)
<1> DEFINE d == v \div ENTRIES
           i == v % ENTRIES
<1>1. v < DIRS * ENTRIES /\ DIRS * ENTRIES \in Nat
  BY Sizes DEF MAPPED
<1>2. d \in Int /\ i \in 0 .. ENTRIES - 1 /\ v = d * ENTRIES + i
  BY <1>1, Sizes
<1>3. d >= 0
  BY <1>1, Sizes
<1> HIDE DEF d, i
<1>4. d < DIRS
  <2>1. SUFFICES ASSUME d >= DIRS PROVE FALSE
    BY <1>2, Sizes
  <2>2. d * ENTRIES >= DIRS * ENTRIES
    BY <1>2, <2>1, Sizes
  <2> QED
    BY <1>1, <1>2, <2>2, Sizes
<1>5. d \in 0 .. DIRS - 1
  BY <1>2, <1>3, <1>4, Sizes
<1> QED
  BY <1>2, <1>5 DEF directory_index, table_index, d, i

\* The next page is in the same table, or the first of the next table.
LEMMA IndexesAfter ==
  ASSUME NEW v \in Nat, v > 0, v < MAPPED
  PROVE  LET k == directory_index(v - 1)
             j == table_index(v - 1)
         IN  IF j = ENTRIES - 1
             THEN directory_index(v) = k + 1 /\ table_index(v) = 0
             ELSE directory_index(v) = k /\ table_index(v) = j + 1
<1> DEFINE k == directory_index(v - 1)
           j == table_index(v - 1)
<1>1. k \in 0 .. DIRS - 1 /\ j \in 0 .. ENTRIES - 1 /\ v - 1 = k * ENTRIES + j
  <2>1. v - 1 \in Nat /\ v - 1 < MAPPED
    BY Sizes
  <2> QED
    BY <2>1, Indexes
<1> HIDE DEF k, j
<1>2. \A e \in Nat : \A n, m \in Nat : m < e => (n * e + m) \div e = n /\ (n * e + m) % e = m
  OBVIOUS
<1>3. k \in Nat /\ j \in Nat /\ k * ENTRIES \in Nat
  BY <1>1, Sizes
<1>4. CASE j = ENTRIES - 1
  <2>1. v = (k + 1) * ENTRIES + 0
    BY <1>1, <1>3, <1>4, Sizes
  <2>2. v \div ENTRIES = k + 1 /\ v % ENTRIES = 0
    BY <1>2, <1>3, <2>1, Sizes
  <2> QED
    BY <1>4, <2>2 DEF directory_index, table_index, k, j
<1>5. CASE j # ENTRIES - 1
  <2>1. v = k * ENTRIES + (j + 1) /\ j + 1 < ENTRIES
    BY <1>1, <1>3, <1>5, Sizes
  <2>2. v \div ENTRIES = k /\ v % ENTRIES = j + 1
    BY <1>2, <1>3, <2>1, Sizes
  <2> QED
    BY <1>5, <2>2 DEF directory_index, table_index, k, j
<1> QED
  BY <1>4, <1>5

\* The entry of a page is a number above that page's address, and odd.
LEMMA EntryIs ==
  ASSUME NEW v \in Nat
  PROVE  /\ v * PAGE_SIZE \in Nat /\ Entry(v) \in Nat /\ Past(v) \in Nat
         /\ Past(v) = v * PAGE_SIZE + 19 /\ Past(v) \div PAGE_SIZE = v
         /\ Past(v) \notin Words /\ create_pte(v * PAGE_SIZE, 7) = Entry(v)
<1>1. v * PAGE_SIZE \in Nat /\ v * ENTRIES \in Nat /\ v * PAGE_SIZE = 4 * (v * ENTRIES)
  BY Sizes
<1>2. Entry(v) \in Nat /\ Past(v) = v * PAGE_SIZE + 19
  BY <1>1 DEF Entry, Past, PREV
<1>3. Past(v) \div PAGE_SIZE = v
  BY <1>2, PageOf, Sizes
<1>4. get_address(v * PAGE_SIZE) = v * PAGE_SIZE
  <2>1. 0 \in Nat /\ 0 < PAGE_SIZE
    BY Sizes
  <2>2. get_address(v * PAGE_SIZE + 0) = v * PAGE_SIZE
    BY <2>1, PageOf, Zenon
  <2>3. v * PAGE_SIZE + 0 = v * PAGE_SIZE
    BY <1>1
  <2> QED
    BY <2>2, <2>3, Zenon
<1>5. Past(v) \notin Words
  <2>1. SUFFICES ASSUME Past(v) \in Words PROVE FALSE
    OBVIOUS
  <2>2. PICK n \in Nat : Past(v) = 4 * n
    BY <2>1, WordsAreHigh
  <2>3. \A x, y \in Nat : 4 * x + 19 # 4 * y
    OBVIOUS
  <2> QED
    BY <1>1, <1>2, <2>2, <2>3
<1> QED
  BY <1>1, <1>2, <1>3, <1>4, <1>5 DEF create_pte, Entry

\* The address of a new table and its directory entry keep only its page, which is T.
LEMMA TablePage ==
  /\ create_pde(B1 + HEADER, 7) = T + 7 /\ get_address(T + 7) = T /\ is_present(T + 7)
  /\ get_address(D) = HEAP_START /\ T + 7 \in Nat /\ ~is_present(0)
<1>1. /\ T = (HEAP_PAGE + 1) * PAGE_SIZE /\ HEAP_START = HEAP_PAGE * PAGE_SIZE
      /\ B1 + HEADER = T + 32
  BY Sizes DEF T, HEAP_START, B1, BLOCK, HEADER
<1>2. /\ HEAP_PAGE \in Nat /\ HEAP_PAGE + 1 \in Nat
      /\ 7 \in Nat /\ 7 < PAGE_SIZE /\ 32 \in Nat /\ 32 < PAGE_SIZE /\ 16 \in Nat /\ 16 < PAGE_SIZE
  BY Sizes
<1>3. get_address(T + 7) = T /\ get_address(T + 32) = T /\ get_address(HEAP_START + 16) = HEAP_START
  BY <1>1, <1>2, PageOf, Zenon
<1>4. T = 4 * (HEAP_PAGE * ENTRIES + ENTRIES) /\ T \in Nat /\ HEAP_PAGE * ENTRIES + ENTRIES \in Nat
  BY Sizes DEF T
<1>5. (T + 7) % 2 = 1
  <2>1. \A n \in Nat : (4 * n + 7) % 2 = 1
    OBVIOUS
  <2> QED
    BY <1>4, <2>1
<1> QED
  BY <1>1, <1>3, <1>4, <1>5 DEF create_pde, is_present, D, HEADER

---------------------------------------------------------------------------
(* What the allocator does. *)

\* split_block on a block that is large enough, when next leads to no word of memory.
LEMMA SplitIs ==
  ASSUME mem \in [Words -> Nat], NEW b \in Nat, Splits(b),
         b + SIZE \in Words, b + IS_FREE \in Words, b + NEXT \in Words,
         Rest(b) + SIZE \in Words, Rest(b) + IS_FREE \in Words,
         Rest(b) + NEXT \in Words, Rest(b) + PREV \in Words,
         mem[b + NEXT] + PREV \notin Words
  PROVE  /\ Allocated(b) \in [Words -> Nat]
         /\ Allocated(b)[b + SIZE] = PAGE_SIZE
         /\ Allocated(b)[b + IS_FREE] = 0
         /\ Allocated(b)[b + NEXT] = Rest(b)
         /\ Allocated(b)[Rest(b) + SIZE] = mem[b + SIZE] - PAGE_SIZE - HEADER
         /\ Allocated(b)[Rest(b) + IS_FREE] = 1
         /\ Allocated(b)[Rest(b) + NEXT] = mem[b + NEXT]
         /\ \A a \in Words : a < b => Allocated(b)[a] = mem[a]
<1> DEFINE R == Rest(b)
           x == mem[b + NEXT] + PREV
<1>1. R \in Nat /\ R >= b + 52
  BY Sizes DEF Rest, HEADER
<1>2. mem[b + SIZE] \in Nat /\ mem[b + NEXT] \in Nat /\ mem[b + SIZE] - PAGE_SIZE - HEADER \in Nat
  BY Sizes DEF Splits, Read, HEADER
<1>3. x # b + SIZE /\ x # b + IS_FREE /\ x # b + NEXT
      /\ x # R + SIZE /\ x # R + IS_FREE /\ x # R + NEXT /\ x # R + PREV
  OBVIOUS
<1>4. Allocated(b) = [mem EXCEPT ![R + SIZE] = mem[b + SIZE] - PAGE_SIZE - HEADER,
                                 ![R + IS_FREE] = 1,
                                 ![R + NEXT] = mem[b + NEXT],
                                 ![R + PREV] = b,
                                 ![x] = R,
                                 ![b + NEXT] = R,
                                 ![b + SIZE] = PAGE_SIZE,
                                 ![b + IS_FREE] = 0]
  BY DEF Allocated
<1> HIDE DEF R, x
<1>5. x \notin Words
  BY DEF x
<1>6. R + SIZE \in Words /\ R + IS_FREE \in Words /\ R + NEXT \in Words /\ R + PREV \in Words
  BY DEF R
<1> DEFINE m1 == [mem EXCEPT ![R + SIZE] = mem[b + SIZE] - PAGE_SIZE - HEADER,
                             ![R + IS_FREE] = 1, ![R + NEXT] = mem[b + NEXT], ![R + PREV] = b]
           m2 == [m1 EXCEPT ![x] = R]
           m3 == [m2 EXCEPT ![b + NEXT] = R, ![b + SIZE] = PAGE_SIZE, ![b + IS_FREE] = 0]
<1>7. /\ m1 \in [Words -> Nat]
      /\ m1[R + SIZE] = mem[b + SIZE] - PAGE_SIZE - HEADER
      /\ m1[R + IS_FREE] = 1
      /\ m1[R + NEXT] = mem[b + NEXT]
      /\ \A a \in Words : a < b => m1[a] = mem[a]
  <2>1. \A a \in Words : a < b => a # R + SIZE /\ a # R + IS_FREE /\ a # R + NEXT /\ a # R + PREV
    BY <1>1, WordsAreHigh DEF SIZE, IS_FREE, NEXT, PREV
  <2>2. R + SIZE # R + IS_FREE /\ R + SIZE # R + NEXT /\ R + SIZE # R + PREV
        /\ R + IS_FREE # R + NEXT /\ R + IS_FREE # R + PREV /\ R + NEXT # R + PREV
    BY <1>1 DEF SIZE, IS_FREE, NEXT, PREV
  <2> QED
    BY <1>2, <1>6, <2>1, <2>2
<1> HIDE DEF m1
<1>8. m2 = m1
  BY <1>5, <1>7
<1> HIDE DEF m2
<1>9. /\ m3 \in [Words -> Nat]
      /\ m3[b + SIZE] = PAGE_SIZE /\ m3[b + IS_FREE] = 0 /\ m3[b + NEXT] = R
      /\ m3[R + SIZE] = m1[R + SIZE] /\ m3[R + IS_FREE] = m1[R + IS_FREE]
      /\ m3[R + NEXT] = m1[R + NEXT]
      /\ \A a \in Words : a < b => m3[a] = m1[a]
  <2>1. \A a \in Words : a < b => a # b + SIZE /\ a # b + IS_FREE /\ a # b + NEXT
    BY WordsAreHigh DEF SIZE, IS_FREE, NEXT
  <2>2. /\ b + SIZE # b + IS_FREE /\ b + SIZE # b + NEXT /\ b + IS_FREE # b + NEXT
        /\ \A y \in {R + SIZE, R + IS_FREE, R + NEXT} : y # b + SIZE /\ y # b + IS_FREE /\ y # b + NEXT
    BY <1>1 DEF SIZE, IS_FREE, NEXT
  <2> QED
    BY <1>1, <1>6, <1>7, <1>8, <2>1, <2>2, Sizes
<1>10. Allocated(b) = m3
  BY <1>4, Zenon DEF m1, m2, m3
<1> QED
  BY <1>7, <1>9, <1>10 DEF R

\* A block that is not split only becomes used.
LEMMA TakeIs ==
  ASSUME mem \in [Words -> Nat], NEW b, ~Splits(b), b + IS_FREE \in Words
  PROVE  /\ Allocated(b) \in [Words -> Nat]
         /\ Allocated(b)[b + IS_FREE] = 0
         /\ \A a \in Words : a # b + IS_FREE => Allocated(b)[a] = mem[a]
  BY DEF Allocated

\* The loop that clears.
LEMMA ClearedIs ==
  ASSUME NEW m \in [Words -> Nat], NEW base \in Nat
  PROVE  /\ Cleared(m, base) \in [Words -> Nat]
         /\ \A a \in Words : base <= a /\ a < base + PAGE_SIZE => Cleared(m, base)[a] = 0
         /\ \A a \in Words : ~(base <= a /\ a < base + PAGE_SIZE) => Cleared(m, base)[a] = m[a]
<1>1. \A a \in Words : a \in base .. base + PAGE_SIZE - 1 <=> base <= a /\ a < base + PAGE_SIZE
  BY WordsAreHigh, Sizes
<1> QED
  BY <1>1 DEF Cleared

\* Where the blocks are, in terms of the heap's start and the page size.
LEMMA Layout ==
  /\ B0 = HEAP_START /\ B1 = HEAP_START + PAGE_SIZE + 16 /\ B2 = HEAP_START + 2 * PAGE_SIZE + 32
  /\ D = HEAP_START + 16 /\ T = HEAP_START + PAGE_SIZE /\ BLOCK = PAGE_SIZE + 16
  /\ Rest(B0) = B1 /\ Rest(B1) = B2 /\ B0 + HEADER = D
  /\ B0 # NULL /\ B1 # NULL /\ B2 # NULL /\ D # NULL
  /\ B0 \in Nat /\ B1 \in Nat /\ B2 \in Nat /\ D \in Nat
  BY Sizes DEF B0, B1, B2, D, T, BLOCK, HEADER, Rest, NULL

\* find_free_block on the heap that memory_init leaves.
LEMMA WalkUntouched ==
  ASSUME mem \in [Words -> Nat], Untouched
  PROVE  /\ Advance(B0) \in {B0, NULL} /\ find_free_block = Advance(B0)
         /\ find_free_block # NULL => Fits(B0)
<1>1. Fits(B0) => Advance(B0) = B0
  BY DEF Advance
<1>2. ~Fits(B0) => Advance(B0) = NULL
  BY Placed, Layout DEF Advance, Read, Untouched
<1>3. Advance(NULL) = NULL
  BY DEF Advance
<1> QED
  BY <1>1, <1>2, <1>3 DEF find_free_block, B0

\* With the directory alone, and too little left.
LEMMA WalkNoRoom ==
  ASSUME mem \in [Words -> Nat], mem[B0 + IS_FREE] = 0, NoRoom
  PROVE  Advance(B0) \in {B1, NULL} /\ find_free_block = NULL
<1>1. Advance(B0) = mem[B0 + NEXT]
  BY Placed, Layout DEF Advance, Fits, Read
<1>2. CASE mem[B0 + NEXT] = NULL
  BY <1>1, <1>2 DEF find_free_block, Advance, B0
<1>3. CASE mem[B0 + NEXT] = B1 /\ mem[B1 + SIZE] < PAGE_SIZE /\ mem[B1 + NEXT] = NULL
  <2>1. ~Fits(B1)
    BY <1>3, Placed, Sizes DEF Fits, Read
  <2>2. Advance(B1) = NULL
    BY <1>3, <2>1, Placed, Layout DEF Advance, Read
  <2> QED
    BY <1>1, <1>3, <2>2 DEF find_free_block, B0
<1> QED
  BY <1>2, <1>3 DEF NoRoom

\* With the directory alone, and enough left.
LEMMA WalkFirstRoom ==
  ASSUME mem \in [Words -> Nat], mem[B0 + IS_FREE] = 0, FirstRoom
  PROVE  Advance(B0) = B1 /\ find_free_block = B1 /\ Fits(B1)
<1>1. Advance(B0) = B1
  BY Placed, Layout DEF Advance, Fits, Read, FirstRoom
<1>2. Fits(B1)
  <2>1. mem[B1 + SIZE] \in Nat
    BY Placed
  <2>2. mem[B1 + SIZE] >= PAGE_SIZE + BLOCK
    BY DEF FirstRoom
  <2>3. mem[B1 + SIZE] >= PAGE_SIZE
    BY ONLY <2>1, <2>2, Sizes DEF BLOCK, HEADER
  <2> QED
    BY <2>3, Placed DEF Fits, Read, FirstRoom
<1> QED
  BY <1>1, <1>2 DEF find_free_block, Advance, B0

(* While tables are filled: the tables' block is passed over, and its       *)
(* pointer good, until an entry makes it look free.                         *)
LEMMA WalkTables ==
  ASSUME mem \in [Words -> Nat], mem[B0 + IS_FREE] = 0, mem[B0 + NEXT] = B1,
         NEW k \in Nat, NEW j \in Nat, Overwritten(k, j)
  PROVE  /\ Advance(B0) = B1
         /\ find_free_block = IF j >= 5 THEN B1 ELSE B2
         /\ Fits(find_free_block)
<1>1. Advance(B0) = B1
  BY Placed, Layout DEF Advance, Fits, Read
<1>2. CASE j >= 5
  <2>1. k * ENTRIES \in Nat
    BY Sizes
  <2>2. /\ Entry(k * ENTRIES + 5) # 0
        /\ Entry(k * ENTRIES + 4) >= PAGE_SIZE
    <3>1. \A n \in Nat : (n + 4) * PAGE_SIZE >= PAGE_SIZE /\ (n + 5) * PAGE_SIZE >= PAGE_SIZE
      BY Sizes
    <3> QED
      BY <2>1, <3>1, Sizes DEF Entry
  <2>3. Fits(B1)
    BY <1>2, <2>2, Placed DEF Overwritten, Fits, Read
  <2> QED
    BY <1>1, <1>2, <2>3 DEF find_free_block, Advance, B0
<1>3. CASE ~(j >= 5)
  <2>1. ~Fits(B1) /\ Read(B1 + NEXT) = B2
    BY <1>3, Placed DEF Overwritten, Fits, Read
  <2>2. Fits(B2)
    BY Placed DEF Overwritten, Fits, Read
  <2>3. Advance(B1) = B2
    BY <2>1, Layout DEF Advance
  <2> QED
    BY <1>1, <1>3, <2>2, <2>3 DEF find_free_block, B0
<1> QED
  BY <1>2, <1>3

(* A table obtained from the block after the directory's: its header and    *)
(* that of the rest, and the words below it.                                *)
LEMMA NewTable ==
  ASSUME mem \in [Words -> Nat], mem[B1 + SIZE] > PAGE_SIZE + HEADER,
         mem[B1 + NEXT] + PREV \notin Words,
         NEW d \in 0 .. DIRS - 1, NEW e \in Nat,
         mem' = [Cleared(Allocated(B1), B1 + HEADER) EXCEPT
                  ![D + WORD * d] = T + 7, ![B1 + HEADER] = e]
  PROVE  /\ mem' \in [Words -> Nat]
         /\ mem'[B1 + SIZE] = PAGE_SIZE /\ mem'[B1 + IS_FREE] = 0 /\ mem'[B1 + NEXT] = B2
         /\ mem'[B2 + SIZE] = mem[B1 + SIZE] - PAGE_SIZE - HEADER /\ mem'[B2 + IS_FREE] = 1
         /\ mem'[B0 + SIZE] = mem[B0 + SIZE] /\ mem'[B0 + IS_FREE] = mem[B0 + IS_FREE]
         /\ mem'[B0 + NEXT] = mem[B0 + NEXT]
         /\ mem'[D + WORD * d] = T + 7
         /\ \A c \in 0 .. DIRS - 1 : c # d => mem'[D + WORD * c] = mem[D + WORD * c]
<1> DEFINE A == Allocated(B1)
           m == Cleared(A, B1 + HEADER)
<1>1. Splits(B1)
  BY Placed DEF Splits, Read
<1>2. /\ A \in [Words -> Nat]
      /\ A[B1 + SIZE] = PAGE_SIZE /\ A[B1 + IS_FREE] = 0 /\ A[B1 + NEXT] = B2
      /\ A[B2 + SIZE] = mem[B1 + SIZE] - PAGE_SIZE - HEADER /\ A[B2 + IS_FREE] = 1
      /\ \A a \in Words : a < B1 => A[a] = mem[a]
  BY <1>1, SplitIs, Placed, Layout
<1> HIDE DEF A
<1>3. B1 + HEADER \in Nat
  BY Layout DEF HEADER
<1>4. /\ m \in [Words -> Nat]
      /\ \A a \in Words : ~(B1 + HEADER <= a /\ a < B1 + HEADER + PAGE_SIZE) => m[a] = A[a]
  BY <1>2, <1>3, ClearedIs, Zenon
<1> HIDE DEF m
<1>5. mem' = [m EXCEPT ![D + WORD * d] = T + 7, ![B1 + HEADER] = e]
  BY DEF m, A
<1>6. mem' \in [Words -> Nat]
  BY <1>4, <1>5, TablePage
<1>7. \A a \in Words : a # D + WORD * d /\ a # B1 + HEADER => mem'[a] = m[a]
  BY <1>4, <1>5
<1>8. mem'[D + WORD * d] = T + 7
  <2>1. D + WORD * d # B1 + HEADER
    BY Layout, Sizes DEF WORD, HEADER
  <2> QED
    BY <1>4, <1>5, <2>1, Placed
<1>9. ASSUME NEW a \in Words, a < B1, a # D + WORD * d
      PROVE  mem'[a] = mem[a]
  <2>1. a # B1 + HEADER /\ ~(B1 + HEADER <= a)
    BY <1>9, WordsAreHigh, Layout DEF HEADER
  <2> QED
    BY <1>2, <1>4, <1>7, <1>9, <2>1
<1>10. ASSUME NEW a \in Words, a \in {B1 + SIZE, B1 + IS_FREE, B1 + NEXT, B2 + SIZE, B2 + IS_FREE}
       PROVE  mem'[a] = A[a]
  <2>1. a # D + WORD * d /\ a # B1 + HEADER /\ ~(B1 + HEADER <= a /\ a < B1 + HEADER + PAGE_SIZE)
    BY <1>10, Layout, Sizes DEF HEADER, WORD, SIZE, IS_FREE, NEXT
  <2> QED
    BY <1>4, <1>7, <2>1
<1>11. /\ mem'[B1 + SIZE] = A[B1 + SIZE] /\ mem'[B1 + IS_FREE] = A[B1 + IS_FREE] /\ mem'[B1 + NEXT] = A[B1 + NEXT]
       /\ mem'[B2 + SIZE] = A[B2 + SIZE] /\ mem'[B2 + IS_FREE] = A[B2 + IS_FREE]
  BY <1>10, Placed
<1>12. /\ mem'[B0 + SIZE] = mem[B0 + SIZE] /\ mem'[B0 + IS_FREE] = mem[B0 + IS_FREE]
       /\ mem'[B0 + NEXT] = mem[B0 + NEXT]
  <2>1. \A a \in {B0 + SIZE, B0 + IS_FREE, B0 + NEXT} : a < B1 /\ a # D + WORD * d
    BY Layout, Sizes DEF WORD, SIZE, IS_FREE, NEXT
  <2> QED
    BY <1>9, <2>1, Placed
<1>13. ASSUME NEW c \in 0 .. DIRS - 1, c # d
       PROVE  mem'[D + WORD * c] = mem[D + WORD * c]
  <2>1. D + WORD * c < B1 /\ D + WORD * c # D + WORD * d
    BY <1>13, Layout, Sizes DEF WORD
  <2> QED
    BY <1>9, <2>1, Placed
<1> QED
  BY <1>2, <1>6, <1>8, <1>11, <1>12, <1>13

---------------------------------------------------------------------------
(* Every step keeps the invariant. *)

\* The heap as memory_init leaves it.
LEMMA InitInvariant == Init => IInv
<1> SUFFICES ASSUME Init PROVE IInv
  OBVIOUS
<1>1. PICK s \in HeapSizes :
          mem = [a \in Words |-> CASE a = HEAP_START + SIZE    -> s - HEADER
                                   [] a = HEAP_START + IS_FREE -> 1
                                   [] a = HEAP_START + NEXT    -> NULL
                                   [] a = HEAP_START + PREV    -> NULL
                                   [] OTHER                    -> elsewhere]
  BY DEF Init
<1>2. s - HEADER \in Nat /\ elsewhere \in Nat
  BY GeometryAssumption DEF Init, HEADER
<1>3. mem \in [Words -> Nat]
  BY <1>1, <1>2 DEF NULL
<1>4. TypeOK
  <2>1. /\ strayed = {} /\ kernel_directory = NULL /\ next_page = 0 /\ pc = "init"
        /\ paging_enabled = FALSE /\ cr3 = 0 /\ paging_on = FALSE
    BY DEF Init
  <2>2. next_page \in 0 .. MAPPED
    BY <2>1, Sizes
  <2> QED
    BY <1>2, <1>3, <2>1, <2>2, Zenon DEF TypeOK, NULL
<1>5. mem[B0 + SIZE] = s - HEADER /\ mem[B0 + IS_FREE] = 1 /\ mem[B0 + NEXT] = NULL
  <2>1. B0 + SIZE # B0 + IS_FREE /\ B0 + SIZE # B0 + NEXT /\ B0 + SIZE # B0 + PREV
        /\ B0 + IS_FREE # B0 + NEXT /\ B0 + IS_FREE # B0 + PREV /\ B0 + NEXT # B0 + PREV
    BY Layout DEF SIZE, IS_FREE, NEXT, PREV
  <2> QED
    BY <1>1, <2>1, Placed DEF B0
<1> QED
  BY <1>4, <1>5 DEF IInv, Untouched, Init

\* The directory is allocated in the first block, which is split or taken whole.
LEMMA DirectoryStep ==
  ASSUME IInv, AllocateDirectory
  PROVE  IInv'
<1>1. TypeOK /\ Untouched /\ strayed = {} /\ kernel_directory = NULL /\ pc = "init" /\ ~paging_on
  BY DEF IInv, AllocateDirectory
<1>2. mem \in [Words -> Nat] /\ mem[B0 + IS_FREE] = 1 /\ mem[B0 + NEXT] = NULL /\ next_page = 0
  BY <1>1 DEF TypeOK, Untouched
<1>3. find_free_block = B0 /\ Fits(B0)
  BY <1>1, <1>2, WalkUntouched DEF AllocateDirectory, Obtain, HasMemory
<1>4. PICK s \in HeapSizes : mem[B0 + SIZE] = s - HEADER
  BY <1>1 DEF Untouched
<1>5. s \in Nat /\ s % 4 = 0 /\ s > 16 /\ (s < 2 * BLOCK \/ 3 * BLOCK <= s)
  BY GeometryAssumption DEF WORD, HEADER
<1>6. /\ mem' = Cleared(Allocated(B0), D)
      /\ strayed' = strayed \cup Strayed(B0)
      /\ kernel_directory' = D
      /\ UNCHANGED <<elsewhere, next_page, pc, paging_enabled, processor>>
  BY <1>3, Layout DEF AllocateDirectory, Obtain
<1>7. strayed' = {}
  BY <1>1, <1>2, <1>6 DEF Strayed
<1>8. D \in Nat /\ D \in Words
  <2>1. 0 \in 0 .. DIRS - 1 /\ D + WORD * 0 = D
    BY Sizes, Layout DEF WORD
  <2> QED
    BY <2>1, Layout, Placed
<1> DEFINE A == Allocated(B0)
<1>9. \A a \in {B0 + SIZE, B0 + IS_FREE, B0 + NEXT, B1 + SIZE, B1 + IS_FREE, B1 + NEXT} :
         /\ a \in Words
         /\ ~(D <= a /\ a < D + PAGE_SIZE)
  BY Placed, Layout, Sizes DEF SIZE, IS_FREE, NEXT
<1>10. ASSUME A \in [Words -> Nat]
       PROVE  /\ mem' \in [Words -> Nat]
              /\ \A a \in {B0 + SIZE, B0 + IS_FREE, B0 + NEXT, B1 + SIZE, B1 + IS_FREE, B1 + NEXT} :
                    mem'[a] = A[a]
              /\ DirectoryEmpty'
  <2> HIDE DEF A
  <2>1. mem' = Cleared(A, D)
    BY <1>6 DEF A
  <2>2. /\ mem' \in [Words -> Nat]
        /\ \A a \in Words : D <= a /\ a < D + PAGE_SIZE => mem'[a] = 0
        /\ \A a \in Words : ~(D <= a /\ a < D + PAGE_SIZE) => mem'[a] = A[a]
    BY <1>8, <1>10, <2>1, ClearedIs, Zenon
  <2>3. \A d \in 0 .. DIRS - 1 : D <= D + WORD * d /\ D + WORD * d < D + PAGE_SIZE
    BY Layout, Sizes DEF WORD
  <2>4. \A d \in 0 .. DIRS - 1 : mem'[D + WORD * d] = 0
    BY <2>2, <2>3, Placed, Zenon
  <2>5. DirectoryEmpty'
    BY <2>4 DEF DirectoryEmpty
  <2> QED
    BY <1>9, <2>2, <2>5
<1>11. mem' \in [Words -> Nat] => TypeOK'
  BY <1>1, <1>6, <1>7, <1>8 DEF TypeOK, processor
<1>12. CASE Splits(B0)
  <2>1. NULL + PREV \notin Words
    BY WordsAreHigh, Sizes DEF NULL, PREV
  <2>2. /\ A \in [Words -> Nat]
        /\ A[B0 + SIZE] = PAGE_SIZE /\ A[B0 + IS_FREE] = 0 /\ A[B0 + NEXT] = B1
        /\ A[B1 + SIZE] = mem[B0 + SIZE] - PAGE_SIZE - HEADER
        /\ A[B1 + IS_FREE] = 1 /\ A[B1 + NEXT] = NULL
    BY <1>2, <1>12, <2>1, SplitIs, Placed, Layout
  <2> HIDE DEF A
  <2>3. /\ mem'[B0 + SIZE] = PAGE_SIZE /\ mem'[B0 + IS_FREE] = 0 /\ mem'[B0 + NEXT] = B1
        /\ mem'[B1 + SIZE] = s - PAGE_SIZE - 32
        /\ mem'[B1 + IS_FREE] = 1 /\ mem'[B1 + NEXT] = NULL
    BY <1>4, <1>5, <1>10, <2>2, Sizes DEF HEADER
  <2>4. PAGE_SIZE % 2 = 0
    <3>1. \A n \in Nat : (4 * n) % 2 = 0
      OBVIOUS
    <3> QED
      BY <3>1, Sizes
  <2>5. (NoRoom \/ FirstRoom)'
    <3>1. CASE s < 2 * BLOCK
      <4>1. s - PAGE_SIZE - 32 < PAGE_SIZE
        BY <1>5, <3>1, Layout, Sizes
      <4> QED
        BY <1>7, <1>10, <2>2, <2>3, <4>1 DEF NoRoom, B1
    <3>2. CASE 3 * BLOCK <= s
      <4>1. s - PAGE_SIZE - 32 >= PAGE_SIZE + BLOCK
        BY <1>5, <3>2, Layout, Sizes
      <4> QED
        BY <1>2, <1>6, <1>7, <1>10, <2>2, <2>3, <4>1 DEF FirstRoom, B1
    <3> QED
      BY <1>5, <3>1, <3>2
  <2> QED
    BY <1>1, <1>6, <1>8, <1>10, <1>11, <2>2, <2>3, <2>4, <2>5, Layout
    DEF IInv, Directory, D, processor
<1>13. CASE ~Splits(B0)
  <2>1. /\ A \in [Words -> Nat]
        /\ A[B0 + IS_FREE] = 0
        /\ \A a \in Words : a # B0 + IS_FREE => A[a] = mem[a]
    BY <1>2, <1>13, TakeIs, Placed
  <2> HIDE DEF A
  <2>2. B0 + SIZE # B0 + IS_FREE /\ B0 + NEXT # B0 + IS_FREE
    BY Layout DEF SIZE, IS_FREE, NEXT
  <2>3. mem'[B0 + SIZE] = s - 16 /\ mem'[B0 + IS_FREE] = 0 /\ mem'[B0 + NEXT] = NULL
    BY <1>2, <1>4, <1>10, <2>1, <2>2, Placed DEF HEADER
  <2>4. (s - 16) % 2 = 0
    <3>1. \A n \in Nat : n % 4 = 0 => (n - 16) % 2 = 0
      OBVIOUS
    <3> QED
      BY <1>5, <3>1
  <2>5. NoRoom'
    BY <1>7, <1>10, <2>1, <2>3 DEF NoRoom
  <2> QED
    BY <1>1, <1>6, <1>8, <1>10, <1>11, <2>1, <2>3, <2>4, <2>5, Layout
    DEF IInv, Directory, D, processor
<1> QED
  BY <1>12, <1>13

\* The stages a directory can be in, and what the allocator finds in each.
LEMMA Stages ==
  ASSUME IInv, kernel_directory # NULL
  PROVE  /\ mem \in [Words -> Nat] /\ kernel_directory = D /\ mem[B0 + IS_FREE] = 0
         /\ next_page \in Nat /\ MAPPED \in Nat /\ next_page <= MAPPED
         /\ NoRoom => find_free_block = NULL /\ Advance(B0) \in {B1, NULL}
         /\ FirstRoom => find_free_block = B1 /\ Advance(B0) = B1 /\ Fits(B1)
         /\ Tables => /\ next_page > 0
                      /\ directory_index(next_page - 1) \in 0 .. DIRS - 1
                      /\ table_index(next_page - 1) \in 0 .. ENTRIES - 1
                      /\ pc = "init" => Advance(B0) = B1 /\ Fits(find_free_block)
         /\ Tables /\ pc = "init" => find_free_block = IF table_index(next_page - 1) >= 5 THEN B1 ELSE B2
<1>1. mem \in [Words -> Nat] /\ kernel_directory = D /\ mem[B0 + IS_FREE] = 0
  BY DEF IInv, Directory, TypeOK
<1>2. next_page \in Nat /\ MAPPED \in Nat /\ next_page <= MAPPED
  BY Sizes DEF IInv, TypeOK
<1>3. NoRoom => find_free_block = NULL /\ Advance(B0) \in {B1, NULL}
  BY <1>1, WalkNoRoom
<1>4. FirstRoom => find_free_block = B1 /\ Advance(B0) = B1 /\ Fits(B1)
  BY <1>1, WalkFirstRoom
<1>5. ASSUME Tables
      PROVE  /\ next_page > 0
             /\ directory_index(next_page - 1) \in 0 .. DIRS - 1
             /\ table_index(next_page - 1) \in 0 .. ENTRIES - 1
  <2>1. next_page > 0
    BY <1>5 DEF Tables
  <2>2. next_page - 1 \in Nat /\ next_page - 1 < MAPPED
    BY <1>2, <2>1
  <2> QED
    BY <2>1, <2>2, Indexes
<1>6. ASSUME Tables, pc = "init"
      PROVE  /\ Advance(B0) = B1 /\ Fits(find_free_block)
             /\ find_free_block = IF table_index(next_page - 1) >= 5 THEN B1 ELSE B2
  <2>1. directory_index(next_page - 1) \in Nat /\ table_index(next_page - 1) \in Nat
    BY <1>5, <1>6, Sizes
  <2>2. /\ mem[B0 + NEXT] = B1
        /\ Overwritten(directory_index(next_page - 1), table_index(next_page - 1))
    BY <1>6 DEF Tables
  <2> QED
    BY <1>1, <2>1, <2>2, WalkTables
<1> QED
  BY <1>1, <1>2, <1>3, <1>4, <1>5, <1>6

(* The directory entry for a page that is mapped: none before there is a    *)
(* table, and afterwards the page of the tables or none.                    *)
LEMMA EntryOf ==
  ASSUME IInv, kernel_directory # NULL, NEW v \in Nat, v < MAPPED
  PROVE  /\ NoRoom \/ FirstRoom => ~is_present(mem[pde_of(v)])
         /\ Tables => IF directory_index(v) <= directory_index(next_page - 1)
                      THEN mem[pde_of(v)] = T + 7 ELSE mem[pde_of(v)] = 0
         /\ pde_of(v) = D + WORD * directory_index(v)
         /\ is_present(mem[pde_of(v)]) => Tables
<1>1. directory_index(v) \in 0 .. DIRS - 1
  BY Indexes
<1>2. pde_of(v) = D + WORD * directory_index(v)
  BY DEF IInv, Directory, pde_of
<1>3. NoRoom \/ FirstRoom => mem[pde_of(v)] = 0
  BY <1>1, <1>2 DEF NoRoom, FirstRoom, DirectoryEmpty
<1>4. Tables => mem[pde_of(v)] = IF directory_index(v) <= directory_index(next_page - 1) THEN T + 7 ELSE 0
  BY <1>1, <1>2 DEF Tables
<1>5. NoRoom \/ FirstRoom \/ Tables
  BY DEF IInv, Directory
<1> QED
  BY <1>2, <1>3, <1>4, <1>5, TablePage

(* A store to the page of the tables changes neither the directory nor the  *)
(* header of its block; only entries 4, 5 and 6 reach the next header.      *)
LEMMA StoreInTable ==
  ASSUME mem \in [Words -> Nat], NEW j \in 0 .. ENTRIES - 1, NEW e \in Nat,
         mem' = [mem EXCEPT ![T + WORD * j] = e]
  PROVE  /\ mem' \in [Words -> Nat]
         /\ mem'[B0 + SIZE] = mem[B0 + SIZE] /\ mem'[B0 + IS_FREE] = mem[B0 + IS_FREE]
         /\ mem'[B0 + NEXT] = mem[B0 + NEXT]
         /\ \A d \in 0 .. DIRS - 1 : mem'[D + WORD * d] = mem[D + WORD * d]
         /\ mem'[B1 + SIZE] = IF j = 4 THEN e ELSE mem[B1 + SIZE]
         /\ mem'[B1 + IS_FREE] = IF j = 5 THEN e ELSE mem[B1 + IS_FREE]
         /\ mem'[B1 + NEXT] = IF j = 6 THEN e ELSE mem[B1 + NEXT]
         /\ mem'[B2 + SIZE] = mem[B2 + SIZE] /\ mem'[B2 + IS_FREE] = mem[B2 + IS_FREE]
<1>1. T + WORD * j \in Words
  BY Placed
<1>2. mem' \in [Words -> Nat]
  BY <1>1
<1>3. \A a \in Words : a # T + WORD * j => mem'[a] = mem[a]
  OBVIOUS
<1>4. mem'[T + WORD * j] = e
  BY <1>1
<1>5. \A a \in {B0 + SIZE, B0 + IS_FREE, B0 + NEXT, B2 + SIZE, B2 + IS_FREE} : a # T + WORD * j
  BY Layout, Sizes DEF WORD, SIZE, IS_FREE, NEXT
<1>6. \A d \in 0 .. DIRS - 1 : D + WORD * d # T + WORD * j
  BY Layout, Sizes DEF WORD
<1>7. /\ B1 + SIZE = T + WORD * j <=> j = 4
      /\ B1 + IS_FREE = T + WORD * j <=> j = 5
      /\ B1 + NEXT = T + WORD * j <=> j = 6
  BY Layout, Sizes DEF WORD, SIZE, IS_FREE, NEXT
<1>8. \A d \in 0 .. DIRS - 1 : mem'[D + WORD * d] = mem[D + WORD * d]
  BY <1>3, <1>6, Placed
<1>9. /\ mem'[B1 + SIZE] = IF j = 4 THEN e ELSE mem[B1 + SIZE]
      /\ mem'[B1 + IS_FREE] = IF j = 5 THEN e ELSE mem[B1 + IS_FREE]
      /\ mem'[B1 + NEXT] = IF j = 6 THEN e ELSE mem[B1 + NEXT]
  BY <1>3, <1>4, <1>7, Placed
<1> QED
  BY <1>2, <1>3, <1>5, <1>8, <1>9, Placed

\* The turn of the loop of paging_identity_map around paging_map_page.
Turn ==
    /\ pc = "init"
    /\ kernel_directory # NULL
    /\ next_page < MAPPED
    /\ next_page' = next_page + 1
    /\ UNCHANGED <<kernel_directory, pc, paging_enabled, processor>>

\* What a turn does to the types, whatever it does to memory.
LEMMA TurnTypes ==
  ASSUME IInv, Turn, mem' \in [Words -> Nat], elsewhere' = elsewhere, strayed' \subseteq Nat
  PROVE  /\ TypeOK' /\ kernel_directory' = D /\ kernel_directory' # NULL
         /\ pc' = "init" /\ ~paging_on'
<1>1. next_page' \in 0 .. MAPPED
  BY Sizes DEF IInv, TypeOK, Turn
<1>2. TypeOK
  BY DEF IInv
<1>3. TypeOK'
  BY <1>1, <1>2 DEF TypeOK, Turn, processor
<1> QED
  BY <1>3 DEF IInv, Turn, processor, Directory

\* A turn that finds no memory changes nothing else: there was no room before.
LEMMA FailStep ==
  ASSUME IInv, Turn, MapFails(next_page)
  PROVE  IInv'
<1>1. find_free_block = NULL /\ UNCHANGED memory
  BY DEF MapFails, HasMemory
<1>2. mem \in [Words -> Nat] /\ strayed \subseteq Nat /\ Directory
  BY DEF IInv, TypeOK, Turn
<1>3. /\ TypeOK' /\ kernel_directory' = D /\ kernel_directory' # NULL
      /\ pc' = "init" /\ ~paging_on'
  BY <1>1, <1>2, TurnTypes DEF memory
<1>4. NoRoom
  <2>1. ~FirstRoom
    BY <1>1, Stages, Layout DEF Turn
  <2>2. ~Tables
    BY <1>1, Stages, Layout DEF Turn
  <2> QED
    BY <1>2, <2>1, <2>2 DEF Directory
<1>5. NoRoom'
  BY <1>1, <1>4 DEF NoRoom, DirectoryEmpty, memory, B0, B1, D
<1>6. Directory'
  BY <1>1, <1>2, <1>3, <1>5 DEF Directory, memory, B0, D
<1> QED
  BY <1>3, <1>6 DEF IInv

\* A turn that finds a table stores the next entry of the same table.
LEMMA TableStep ==
  ASSUME IInv, Turn, MapInTable(next_page, 7)
  PROVE  IInv'
<1> DEFINE v == next_page
           k == directory_index(v - 1)
           j == table_index(v - 1)
<1>1. mem \in [Words -> Nat] /\ strayed \subseteq Nat /\ Directory /\ v \in Nat /\ v < MAPPED
  BY Stages DEF IInv, TypeOK, Turn
<1>2. Tables /\ directory_index(v) <= k /\ mem[pde_of(v)] = T + 7
  BY <1>1, EntryOf, TablePage DEF MapInTable, Turn
<1>3. v > 0 /\ k \in 0 .. DIRS - 1 /\ j \in 0 .. ENTRIES - 1
  BY <1>2, Stages DEF Turn
<1>4. directory_index(v) = k /\ table_index(v) = j + 1 /\ j + 1 \in 0 .. ENTRIES - 1
  <2>1. j # ENTRIES - 1
    BY <1>1, <1>2, <1>3, IndexesAfter, Sizes
  <2> QED
    BY <1>1, <1>3, <2>1, IndexesAfter, Sizes
<1>5. v = k * ENTRIES + (j + 1)
  BY <1>1, <1>4, Indexes
<1>6. /\ mem' = [mem EXCEPT ![T + WORD * (j + 1)] = Entry(v)]
      /\ elsewhere' = elsewhere /\ strayed' = strayed
  BY <1>1, <1>2, <1>4, EntryIs, TablePage DEF MapInTable
<1>7. Entry(v) \in Nat
  BY <1>1, EntryIs
<1>8. Overwritten(k, j)
  BY <1>2 DEF Tables, Turn
<1> HIDE DEF v, k, j
<1>9. /\ mem' \in [Words -> Nat]
      /\ mem'[B0 + SIZE] = mem[B0 + SIZE] /\ mem'[B0 + IS_FREE] = mem[B0 + IS_FREE]
      /\ mem'[B0 + NEXT] = mem[B0 + NEXT]
      /\ \A d \in 0 .. DIRS - 1 : mem'[D + WORD * d] = mem[D + WORD * d]
      /\ mem'[B1 + SIZE] = IF j + 1 = 4 THEN Entry(v) ELSE mem[B1 + SIZE]
      /\ mem'[B1 + IS_FREE] = IF j + 1 = 5 THEN Entry(v) ELSE mem[B1 + IS_FREE]
      /\ mem'[B1 + NEXT] = IF j + 1 = 6 THEN Entry(v) ELSE mem[B1 + NEXT]
      /\ mem'[B2 + SIZE] = mem[B2 + SIZE] /\ mem'[B2 + IS_FREE] = mem[B2 + IS_FREE]
  BY <1>1, <1>4, <1>6, <1>7, StoreInTable
<1>10. /\ TypeOK' /\ kernel_directory' = D /\ kernel_directory' # NULL
       /\ pc' = "init" /\ ~paging_on'
  BY <1>1, <1>6, <1>9, TurnTypes
<1>11. j \in Nat /\ k \in Nat
  BY <1>3, Sizes
<1>12. /\ mem'[B1 + SIZE] = IF j + 1 >= 4 THEN Entry(k * ENTRIES + 4) ELSE PAGE_SIZE
       /\ mem'[B1 + IS_FREE] = IF j + 1 >= 5 THEN Entry(k * ENTRIES + 5) ELSE 0
       /\ mem'[B1 + NEXT] = IF j + 1 >= 6 THEN Entry(k * ENTRIES + 6) ELSE B2
  <2>1. mem[B1 + SIZE] = (IF j >= 4 THEN Entry(k * ENTRIES + 4) ELSE PAGE_SIZE)
    BY <1>8 DEF Overwritten
  <2>2. mem[B1 + IS_FREE] = (IF j >= 5 THEN Entry(k * ENTRIES + 5) ELSE 0)
    BY <1>8 DEF Overwritten
  <2>3. mem[B1 + NEXT] = (IF j >= 6 THEN Entry(k * ENTRIES + 6) ELSE B2)
    BY <1>8 DEF Overwritten
  <2>4. \A c \in Nat : j + 1 = c => Entry(v) = Entry(k * ENTRIES + c)
    BY <1>5
  <2> QED
    BY <1>9, <1>11, <2>1, <2>2, <2>3, <2>4
<1>13. mem'[B2 + IS_FREE] # 0 /\ mem'[B2 + SIZE] >= PAGE_SIZE
  BY <1>8, <1>9 DEF Overwritten
<1>14. next_page' - 1 = v /\ next_page' > 0
  BY <1>1 DEF Turn, v
<1>15. directory_index(next_page' - 1) = k /\ table_index(next_page' - 1) = j + 1
  BY <1>4, <1>14
<1>16. Tables'
  <2>1. /\ (directory_index(next_page - 1))' = k /\ (table_index(next_page - 1))' = j + 1
    BY <1>15 DEF directory_index, table_index
  <2>2. \A d \in 0 .. DIRS - 1 : mem'[D + WORD * d] = IF d <= k THEN T + 7 ELSE 0
    BY <1>2, <1>9 DEF Tables, k, v
  <2>3. mem'[B0 + NEXT] = B1 /\ strayed' \subseteq {Past(i * ENTRIES + 6) : i \in 0 .. DIRS - 1}
    BY <1>2, <1>6, <1>9 DEF Tables
  <2> QED
    BY <1>12, <1>13, <1>14, <2>1, <2>2, <2>3
    DEF Tables, Overwritten, B0, B1, B2, D, T, Entry, Past
<1> QED
  BY <1>1, <1>9, <1>10, <1>16 DEF IInv, Directory, B0, D

(* When a turn needs a new table: it is the first entry of that table, the  *)
(* block after the directory's is handed out, for the first time or again,  *)
(* and it can be split.                                                     *)
LEMMA BeforeNewTable ==
  ASSUME IInv, Turn, MapInNewTable(next_page, 7)
  PROVE  LET d == directory_index(next_page)
         IN  /\ d \in 0 .. DIRS - 1 /\ table_index(next_page) = 0
             /\ find_free_block = B1
             /\ mem[B1 + SIZE] \in Nat /\ mem[B1 + SIZE] >= 2 * PAGE_SIZE + 16
             /\ mem[B1 + NEXT] + PREV \notin Words
             /\ mem[B0 + NEXT] = B1
             /\ strayed' \subseteq {Past(i * ENTRIES + 6) : i \in 0 .. DIRS - 1}
             /\ \A c \in 0 .. DIRS - 1 : c # d => mem[D + WORD * c] = IF c <= d THEN T + 7 ELSE 0
<1> DEFINE v == next_page
           k == directory_index(v - 1)
           j == table_index(v - 1)
           d == directory_index(v)
           Strays == {Past(i * ENTRIES + 6) : i \in 0 .. DIRS - 1}
<1>1. /\ mem \in [Words -> Nat] /\ Directory /\ v \in Nat /\ v < MAPPED
      /\ ~is_present(mem[pde_of(v)]) /\ find_free_block # NULL
      /\ strayed' = strayed \cup Strayed(find_free_block)
  BY Stages DEF IInv, TypeOK, Turn, MapInNewTable, Obtain, HasMemory
<1>2. d \in 0 .. DIRS - 1 /\ table_index(v) \in 0 .. ENTRIES - 1
  BY <1>1, Indexes
<1>3. mem[B1 + SIZE] \in Nat
  BY <1>1, Placed
<1>4. CASE FirstRoom
  <2>1. v = 0 /\ mem[B1 + NEXT] = NULL /\ mem[B0 + NEXT] = B1 /\ strayed = {}
        /\ mem[B1 + SIZE] >= PAGE_SIZE + BLOCK
    BY <1>4 DEF FirstRoom
  <2>2. d = 0 /\ table_index(v) = 0
    BY <2>1, Sizes DEF directory_index, table_index
  <2>3. find_free_block = B1
    BY <1>4, Stages DEF Turn
  <2>4. strayed' = {}
    BY <1>1, <2>1, <2>3 DEF Strayed
  <2>5. mem[B1 + NEXT] + PREV \notin Words
    BY <2>1, WordsAreHigh, Sizes DEF NULL, PREV
  <2>6. mem[B1 + SIZE] >= 2 * PAGE_SIZE + 16
    BY ONLY <1>3, <2>1, Layout, Sizes
  <2>7. \A c \in 0 .. DIRS - 1 : c # d => mem[D + WORD * c] = IF c <= d THEN T + 7 ELSE 0
    BY <1>4, <2>2 DEF FirstRoom, DirectoryEmpty
  <2> QED
    BY <1>2, <1>3, <2>1, <2>2, <2>3, <2>4, <2>5, <2>6, <2>7
<1>5. CASE Tables
  <2>1. v > 0 /\ k \in 0 .. DIRS - 1 /\ j \in 0 .. ENTRIES - 1
    BY <1>5, Stages DEF Turn
  <2>2. ~(d <= k)
    BY <1>1, <1>5, EntryOf, TablePage DEF Turn
  <2>3. j = ENTRIES - 1 /\ d = k + 1 /\ table_index(v) = 0
    <3>1. j = ENTRIES - 1
      BY <1>1, <1>2, <2>1, <2>2, IndexesAfter, Sizes
    <3> QED
      BY <1>1, <2>1, <3>1, IndexesAfter
  <2>4. j >= 6
    BY <2>3, Sizes
  <2>5. Overwritten(k, j) /\ mem[B0 + NEXT] = B1 /\ strayed \subseteq Strays
    BY <1>5 DEF Tables, Turn
  <2>6. find_free_block = B1
    <3>1. find_free_block = IF j >= 5 THEN B1 ELSE B2
      BY <1>5, Stages DEF Turn
    <3> QED
      BY <2>1, <2>4, <3>1, Sizes
  <2>7. mem[B1 + SIZE] = Entry(k * ENTRIES + 4) /\ mem[B1 + NEXT] = Entry(k * ENTRIES + 6)
    BY <2>1, <2>4, <2>5, Sizes DEF Overwritten
  <2>8. k * ENTRIES \in Nat
    BY <2>1, Sizes
  <2>9. mem[B1 + NEXT] + PREV = Past(k * ENTRIES + 6)
    BY <2>7 DEF Past
  <2>10. mem[B1 + NEXT] + PREV \notin Words
    BY <2>8, <2>9, EntryIs
  <2>11. mem[B1 + SIZE] >= 2 * PAGE_SIZE + 16
    <3>1. \A n \in Nat : (n + 4) * PAGE_SIZE >= 4 * PAGE_SIZE
      BY Sizes
    <3> QED
      BY <2>7, <2>8, <3>1, Sizes DEF Entry
  <2>12. strayed' \subseteq Strays
    <3>1. Strayed(B1) \subseteq {Past(k * ENTRIES + 6)}
      BY <2>9 DEF Strayed
    <3> QED
      BY <1>1, <2>1, <2>5, <2>6, <3>1
  <2>13. \A c \in 0 .. DIRS - 1 : c # d => mem[D + WORD * c] = IF c <= d THEN T + 7 ELSE 0
    <3>1. \A c \in 0 .. DIRS - 1 : mem[D + WORD * c] = IF c <= k THEN T + 7 ELSE 0
      BY <1>5 DEF Tables
    <3>2. \A c \in 0 .. DIRS - 1 : c # d => (c <= k <=> c <= d)
      BY <2>1, <2>3, Sizes
    <3> QED
      BY <3>1, <3>2
  <2> QED
    BY <1>2, <1>3, <2>3, <2>5, <2>6, <2>10, <2>11, <2>12, <2>13
<1>6. ~NoRoom
  BY <1>1, Stages DEF Turn
<1> QED
  BY <1>1, <1>4, <1>5, <1>6 DEF Directory

\* A turn that makes a table leaves the blocks as the next turns need them.
LEMMA NewTableStep ==
  ASSUME IInv, Turn, MapInNewTable(next_page, 7)
  PROVE  IInv'
<1> DEFINE v == next_page
           d == directory_index(v)
<1>1. mem \in [Words -> Nat] /\ Directory /\ v \in Nat /\ v < MAPPED
  BY Stages DEF IInv, TypeOK, Turn
<1>2. /\ d \in 0 .. DIRS - 1 /\ table_index(v) = 0 /\ find_free_block = B1
      /\ mem[B1 + SIZE] \in Nat /\ mem[B1 + SIZE] >= 2 * PAGE_SIZE + 16
      /\ mem[B1 + NEXT] + PREV \notin Words /\ mem[B0 + NEXT] = B1
      /\ strayed' \subseteq {Past(i * ENTRIES + 6) : i \in 0 .. DIRS - 1}
      /\ \A c \in 0 .. DIRS - 1 : c # d => mem[D + WORD * c] = IF c <= d THEN T + 7 ELSE 0
  BY BeforeNewTable
<1>3. Entry(v) \in Nat /\ create_pte(v * PAGE_SIZE, 7) = Entry(v)
  BY <1>1, EntryIs
<1>4. pde_of(v) = D + WORD * d /\ B1 + HEADER + WORD * table_index(v) = B1 + HEADER
  <2>1. B1 + HEADER \in Nat
    BY Layout DEF HEADER
  <2> QED
    BY <1>1, <1>2, <2>1, EntryOf DEF Turn, WORD
<1>5. mem' = [Cleared(Allocated(B1), B1 + HEADER) EXCEPT
                 ![D + WORD * d] = T + 7, ![B1 + HEADER] = Entry(v)]
  BY <1>2, <1>3, <1>4, TablePage DEF MapInNewTable
<1>6. elsewhere' = elsewhere
  BY DEF MapInNewTable
<1> HIDE DEF v, d
<1>7. mem[B1 + SIZE] > PAGE_SIZE + HEADER
  BY <1>2, Sizes DEF HEADER
<1>8. /\ mem' \in [Words -> Nat]
      /\ mem'[B1 + SIZE] = PAGE_SIZE /\ mem'[B1 + IS_FREE] = 0 /\ mem'[B1 + NEXT] = B2
      /\ mem'[B2 + SIZE] = mem[B1 + SIZE] - PAGE_SIZE - HEADER /\ mem'[B2 + IS_FREE] = 1
      /\ mem'[B0 + SIZE] = mem[B0 + SIZE] /\ mem'[B0 + IS_FREE] = mem[B0 + IS_FREE]
      /\ mem'[B0 + NEXT] = mem[B0 + NEXT]
      /\ mem'[D + WORD * d] = T + 7
      /\ \A c \in 0 .. DIRS - 1 : c # d => mem'[D + WORD * c] = mem[D + WORD * c]
  BY <1>1, <1>2, <1>3, <1>5, <1>7, NewTable
<1>9. mem'[B2 + SIZE] >= PAGE_SIZE
  BY <1>2, <1>8, Sizes DEF HEADER
<1>10. strayed' \subseteq Nat
  <2>1. \A i \in 0 .. DIRS - 1 : Past(i * ENTRIES + 6) \in Nat
    <3>1. \A i \in 0 .. DIRS - 1 : i * ENTRIES + 6 \in Nat
      BY Sizes
    <3> QED
      BY <3>1, EntryIs
  <2> QED
    BY <1>2, <2>1
<1>11. /\ TypeOK' /\ kernel_directory' = D /\ kernel_directory' # NULL
       /\ pc' = "init" /\ ~paging_on'
  BY <1>6, <1>8, <1>10, TurnTypes
<1>12. \A c \in 0 .. DIRS - 1 : mem'[D + WORD * c] = IF c <= d THEN T + 7 ELSE 0
  BY <1>2, <1>8, Sizes
<1>13. next_page' - 1 = v /\ next_page' > 0
  BY <1>1 DEF Turn, v
<1>14. (directory_index(next_page - 1))' = d /\ (table_index(next_page - 1))' = 0
  BY <1>2, <1>13 DEF directory_index, table_index, d
<1>15. Tables'
  BY <1>2, <1>8, <1>9, <1>12, <1>13, <1>14
  DEF Tables, Overwritten, B0, B1, B2, D, T, Entry, Past
<1> QED
  BY <1>1, <1>8, <1>11, <1>15 DEF IInv, Directory, B0, D

\* The last store of paging_init, to the entry of the text buffer.
LEMMA VgaStep ==
  ASSUME IInv, MapVga
  PROVE  IInv'
<1>1. /\ pc = "init" /\ next_page >= MAPPED /\ paging_map_page(VGA, 3) /\ pc' = "ready"
      /\ UNCHANGED <<kernel_directory, next_page, paging_enabled, processor>>
  BY DEF MapVga, PAGE_PRESENT, PAGE_WRITE
<1>2. TypeOK /\ next_page \in Nat /\ next_page > 0
  BY <1>1, Sizes DEF IInv, TypeOK
<1>3. kernel_directory # NULL /\ Directory
  BY <1>2 DEF IInv, Untouched
<1>4. mem \in [Words -> Nat] /\ VGA \in Nat /\ VGA < MAPPED /\ VGA < ENTRIES
  BY <1>2, Sizes DEF TypeOK
<1>5. directory_index(VGA) = 0 /\ table_index(VGA) \in 0 .. ENTRIES - 1
  BY <1>4, Sizes DEF directory_index, table_index
<1>6. Tables => mem[pde_of(VGA)] = T + 7 /\ is_present(mem[pde_of(VGA)])
  <2>1. Tables => directory_index(VGA) <= directory_index(next_page - 1)
    BY <1>3, <1>5, Stages, Sizes
  <2> QED
    BY <1>3, <1>4, <2>1, EntryOf, TablePage
<1>7. ~FirstRoom
  BY <1>2 DEF FirstRoom
<1>8. ~paging_on /\ ~paging_on'
  BY <1>1 DEF IInv, processor
<1>9. CASE MapInTable(VGA, 3)
  <2>1. Tables /\ mem[pde_of(VGA)] = T + 7
    BY <1>3, <1>4, <1>6, <1>9, EntryOf DEF MapInTable
  <2> DEFINE e == create_pte(VGA * PAGE_SIZE, 3)
  <2>2. e \in Nat
    <3>1. VGA * PAGE_SIZE \in Nat
      BY <1>4, EntryIs
    <3>2. create_pte(VGA * PAGE_SIZE, 7) = Entry(VGA) /\ Entry(VGA) = VGA * PAGE_SIZE + 7
      BY <1>4, EntryIs DEF Entry
    <3>3. get_address(VGA * PAGE_SIZE) \in Int
      BY <3>1, Sizes DEF get_address
    <3> QED
      BY <3>1, <3>2, <3>3 DEF create_pte
  <2>3. /\ mem' = [mem EXCEPT ![T + WORD * table_index(VGA)] = e]
        /\ elsewhere' = elsewhere /\ strayed' = strayed
    BY <1>9, <2>1, TablePage DEF MapInTable
  <2> HIDE DEF e
  <2>4. /\ mem' \in [Words -> Nat]
        /\ mem'[B0 + SIZE] = mem[B0 + SIZE] /\ mem'[B0 + IS_FREE] = mem[B0 + IS_FREE]
        /\ mem'[B0 + NEXT] = mem[B0 + NEXT]
        /\ \A d \in 0 .. DIRS - 1 : mem'[D + WORD * d] = mem[D + WORD * d]
    BY <1>4, <1>5, <2>2, <2>3, StoreInTable
  <2>5. TypeOK'
    BY <1>1, <1>2, <2>3, <2>4 DEF TypeOK, processor
  <2>6. (directory_index(next_page - 1))' = directory_index(next_page - 1)
    BY <1>1 DEF directory_index
  <2>7. Tables'
    BY <1>1, <2>1, <2>3, <2>4, <2>6 DEF Tables, B0, B1, D, T, Past, Entry
  <2>8. Directory'
    BY <1>1, <1>3, <2>4, <2>7 DEF Directory, B0, D
  <2> QED
    BY <1>1, <1>3, <1>8, <2>5, <2>8 DEF IInv
<1>10. CASE MapFails(VGA)
  <2>1. NoRoom /\ UNCHANGED memory
    BY <1>3, <1>6, <1>7, <1>10 DEF Directory, MapFails
  <2>2. TypeOK'
    BY <1>1, <1>2, <2>1 DEF TypeOK, processor, memory
  <2>3. NoRoom'
    BY <2>1 DEF NoRoom, DirectoryEmpty, memory, B0, B1, D
  <2>4. Directory'
    BY <1>1, <1>3, <2>1, <2>3 DEF Directory, memory, B0, D
  <2> QED
    BY <1>1, <1>3, <1>8, <2>2, <2>4 DEF IInv
<1>11. ~MapInNewTable(VGA, 3)
  <2>1. SUFFICES ASSUME MapInNewTable(VGA, 3) PROVE FALSE
    OBVIOUS
  <2>2. ~is_present(mem[pde_of(VGA)]) /\ find_free_block # NULL
    BY <2>1 DEF MapInNewTable, Obtain, HasMemory
  <2>3. NoRoom
    BY <1>3, <1>6, <1>7, <2>2 DEF Directory
  <2> QED
    BY <1>3, <2>2, <2>3, Stages
<1> QED
  BY <1>1, <1>9, <1>10, <1>11 DEF paging_map_page

\* The size in the header of the directory's block is no entry that is present.
LEMMA KernelNotFound ==
  ASSUME IInv, kernel_directory # NULL
  PROVE  Walk(kernel_directory, KERNEL) = 0
<1>1. kernel_directory = D /\ mem[B0 + SIZE] % 2 = 0
  BY DEF IInv, Directory
<1>2. directory_index(KERNEL) = 0
  BY Sizes DEF directory_index
<1>3. get_address(D) + WORD * directory_index(KERNEL) = B0 + SIZE
  BY <1>2, TablePage, Layout, Sizes DEF WORD, SIZE
<1>4. Read(get_address(D) + WORD * directory_index(KERNEL)) = mem[B0 + SIZE]
  BY <1>3, Placed DEF Read
<1>5. ~is_present(mem[B0 + SIZE])
  BY <1>1 DEF is_present
<1> QED
  BY <1>1, <1>4, <1>5 DEF Walk

\* What does not touch memory, the directory or the loop keeps their part of the invariant.
LEMMA Untouching ==
  ASSUME IInv, UNCHANGED <<memory, kernel_directory, next_page>>, TypeOK',
         pc' = "init" => pc = "init", paging_on' => pc' = "reset"
  PROVE  IInv'
<1>1. /\ mem' = mem /\ strayed' = strayed /\ kernel_directory' = kernel_directory
      /\ next_page' = next_page
  BY DEF memory
<1>2. Untouched => Untouched'
  BY <1>1 DEF Untouched, B0
<1>3. NoRoom => NoRoom'
  BY <1>1 DEF NoRoom, DirectoryEmpty, B0, B1, D
<1>4. FirstRoom => FirstRoom'
  BY <1>1 DEF FirstRoom, DirectoryEmpty, B0, B1, D
<1>5. Tables => Tables'
  <2>1. /\ (directory_index(next_page - 1))' = directory_index(next_page - 1)
        /\ (table_index(next_page - 1))' = table_index(next_page - 1)
    BY <1>1 DEF directory_index, table_index
  <2> QED
    BY <1>1, <2>1 DEF Tables, Overwritten, B0, B1, B2, D, T, Past, Entry
<1>6. Directory => Directory'
  BY <1>1, <1>3, <1>4, <1>5 DEF Directory, B0, D
<1> QED
  BY <1>1, <1>2, <1>6 DEF IInv

\* Every step keeps the invariant.
LEMMA StepInvariant == IInv /\ [Next]_vars => IInv'
<1> SUFFICES ASSUME IInv, [Next]_vars PROVE IInv'
  OBVIOUS
<1>1. CASE NoDirectory
  <2>1. TypeOK'
    BY <1>1 DEF IInv, TypeOK, NoDirectory, memory, processor
  <2> QED
    BY <1>1, <2>1, Untouching DEF IInv, NoDirectory, processor
<1>2. CASE AllocateDirectory
  BY <1>2, DirectoryStep
<1>3. CASE paging_identity_map
  <2>1. Turn /\ paging_map_page(next_page, 7)
    BY <1>3 DEF paging_identity_map, Turn, PageAfter, PAGE_PRESENT, PAGE_WRITE, PAGE_USER
  <2> QED
    BY <2>1, FailStep, TableStep, NewTableStep DEF paging_map_page
<1>4. CASE MapVga
  BY <1>4, VgaStep
<1>5. CASE EnableRefused
  <2>1. TypeOK'
    BY <1>5 DEF IInv, TypeOK, EnableRefused, memory, processor
  <2> QED
    BY <1>5, <2>1, Untouching DEF IInv, EnableRefused, processor
<1>6. CASE EnablePaging
  <2>1. pc' = "reset" /\ paging_enabled' = paging_enabled
    BY <1>6, KernelNotFound DEF EnablePaging, pd_physical
  <2>2. TypeOK'
    BY <1>6, <2>1 DEF IInv, TypeOK, EnablePaging, pd_physical, memory
  <2> QED
    BY <1>6, <2>1, <2>2, Untouching DEF EnablePaging
<1>7. CASE UNCHANGED vars
  <2>1. TypeOK'
    BY <1>7 DEF IInv, TypeOK, vars, memory, processor
  <2> QED
    BY <1>7, <2>1, Untouching DEF IInv, vars, processor
<1> QED
  BY <1>1, <1>2, <1>3, <1>4, <1>5, <1>6, <1>7 DEF Next, paging_init, paging_enable

---------------------------------------------------------------------------
(* Theorems. *)

\* The invariant holds in every behaviour.
LEMMA Invariant == Spec => []IInv
  BY InitInvariant, StepInvariant, PTL DEF Spec

\* Words stay words and pointers point to memory, also when the heap is too small.
THEOREM TypeCorrect == Spec => []TypeOK
<1>1. IInv => TypeOK
  BY DEF IInv
<1> QED
  BY <1>1, Invariant, PTL

(* paging_map_page never stores over the directory, although the tables it  *)
(* fills are not the blocks it allocated for them.                          *)
THEOREM DirectorySurvives == Spec => []TablesOffDirectory
<1>1. IInv => TablesOffDirectory
  <2>1. SUFFICES ASSUME IInv, kernel_directory # NULL, NEW d \in 0 .. DIRS - 1,
                        is_present(mem[kernel_directory + WORD * d])
                 PROVE  LET page == get_address(mem[kernel_directory + WORD * d])
                        IN  /\ page >= kernel_directory + WORD * DIRS
                            /\ page \in Words /\ page + PAGE_SIZE - WORD \in Words
    BY DEF TablesOffDirectory
  <2>2. kernel_directory = D /\ (NoRoom \/ FirstRoom \/ Tables)
    BY <2>1 DEF IInv, Directory
  <2>3. mem[D + WORD * d] # 0
    BY <2>1, <2>2, TablePage
  <2>4. mem[D + WORD * d] = T + 7
    BY <2>2, <2>3 DEF NoRoom, FirstRoom, DirectoryEmpty, Tables
  <2>5. get_address(mem[kernel_directory + WORD * d]) = T
    BY <2>2, <2>4, TablePage
  <2>6. T >= D + WORD * DIRS
    BY Layout, Sizes DEF WORD
  <2>7. T \in Words /\ T + PAGE_SIZE - WORD \in Words
    <3>1. 0 \in 0 .. ENTRIES - 1 /\ ENTRIES - 1 \in 0 .. ENTRIES - 1
      BY Sizes
    <3>2. T + WORD * 0 = T /\ T + WORD * (ENTRIES - 1) = T + PAGE_SIZE - WORD
      BY Layout, Sizes DEF WORD
    <3> QED
      BY <3>1, <3>2, Placed
  <2> QED
    BY <2>2, <2>5, <2>6, <2>7
<1> QED
  BY <1>1, Invariant, PTL

(* The allocator's walk never follows an entry: whenever boot calls it, the *)
(* pointer it follows is one that split_block stored.                       *)
THEOREM WalkIsSafe == Spec => []WalkSafe
<1>1. IInv => WalkSafe
  <2>1. SUFFICES ASSUME IInv, pc = "init"
                 PROVE  /\ Advance(B0) \in Words \cup {NULL}
                        /\ find_free_block # NULL => find_free_block \in Words /\ Fits(find_free_block)
    BY DEF WalkSafe, B0
  <2>2. CASE kernel_directory = NULL
    <3>1. mem \in [Words -> Nat] /\ Untouched
      BY <2>1, <2>2 DEF IInv, TypeOK
    <3> QED
      BY <3>1, WalkUntouched, Placed
  <2>3. CASE kernel_directory # NULL
    <3>1. NoRoom \/ FirstRoom \/ Tables
      BY <2>1, <2>3 DEF IInv, Directory
    <3> QED
      BY <2>1, <2>3, <3>1, Stages, Placed
  <2> QED
    BY <2>2, <2>3
<1> QED
  BY <1>1, Invariant, PTL

(* split_block stores through an entry once for every table but the first,  *)
(* and each time outside the kernel and the blocks in use.                  *)
THEOREM StrayStoresMissAll == Spec => []StrayStoresMiss
<1>1. IInv => StrayStoresMiss
  <2>1. SUFFICES ASSUME IInv, NEW a \in strayed
                 PROVE  a \notin InUse /\ a \div PAGE_SIZE \notin Image
    BY DEF StrayStoresMiss
  <2>2. Tables
    BY <2>1 DEF IInv, Directory, NoRoom, FirstRoom
  <2>3. PICK i \in 0 .. DIRS - 1 : a = Past(i * ENTRIES + 6)
    BY <2>2 DEF Tables
  <2>4. i \in Nat /\ i * ENTRIES \in Nat /\ (i = 0 \/ i * ENTRIES >= ENTRIES)
    BY Sizes
  <2> DEFINE v == i * ENTRIES + 6
  <2>5. v \in Nat /\ a = v * PAGE_SIZE + 19 /\ a \div PAGE_SIZE = v /\ v * PAGE_SIZE \in Nat
    BY <2>3, <2>4, EntryIs
  <2>6. v = 6 \/ v >= ENTRIES + 6
    BY <2>4, Sizes
  <2> HIDE DEF v
  <2>7. 7 < KERNEL /\ HEAP_PAGE < ENTRIES
    BY GeometryAssumption
  <2>8. v \notin Image
    BY <2>5, <2>6, <2>7, Sizes DEF Image
  <2>9. HEAP_START = HEAP_PAGE * PAGE_SIZE
    BY DEF HEAP_START
  <2>10. v * PAGE_SIZE <= 6 * PAGE_SIZE \/ v * PAGE_SIZE >= HEAP_START + 4 * PAGE_SIZE
    <3>1. CASE v = 6
      BY <3>1, Sizes
    <3>2. CASE v >= ENTRIES + 6
      <4>1. v >= HEAP_PAGE + 4
        BY <2>5, <2>7, <3>2, Sizes
      <4>2. \A x, y, z \in Nat : x >= y => x * z >= y * z
        OBVIOUS
      <4>3. v * PAGE_SIZE >= (HEAP_PAGE + 4) * PAGE_SIZE
        BY <2>5, <4>1, <4>2, Sizes
      <4>4. (HEAP_PAGE + 4) * PAGE_SIZE = HEAP_START + 4 * PAGE_SIZE
        BY <2>9, Sizes
      <4> QED
        BY <4>3, <4>4
    <3> QED
      BY <2>6, <3>1, <3>2
  <2>11. a \notin InUse
    BY <2>5, <2>10, Sizes DEF InUse, BLOCK, HEADER
  <2> QED
    BY <2>5, <2>8, <2>11
<1> QED
  BY <1>1, Invariant, PTL

(* Once CR0.PG is set the machine is stopped: the kernel never runs with    *)
(* the tables of paging_init.                                               *)
THEOREM EnablingAlwaysStops == Spec => []EnablingStops
<1>1. IInv => EnablingStops
  BY DEF IInv, EnablingStops
<1> QED
  BY <1>1, Invariant, PTL
===========================================================================
