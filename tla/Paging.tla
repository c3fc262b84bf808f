------------------------------ MODULE Paging ------------------------------
(* The page tables that paging_init builds in blocks of the heap, and what  *)
(* "paging enable" does with them.  The heap's block headers and the        *)
(* entries of directory and tables are words of one memory: kmalloc returns *)
(* the address after a header, which is never that of a page, while entries *)
(* and CR3 keep only the page of an address.  So entries are stored over    *)
(* headers, and the allocator reads entries as sizes and pointers.          *)
(*                                                                          *)
(* Boot runs with interrupts off.  paging_map_page is called by paging_init *)
(* alone; paging_unmap_page, paging_switch_directory and page_fault_handler *)
(* by nobody.  The two commands that allocate, meminfo and test malloc, are *)
(* left out: the heap is as boot leaves it when paging is enabled.          *)
EXTENDS Integers

CONSTANTS ENTRIES,      \* PAGE_ENTRIES (1024)
          DIRS,         \* directory entries that paging_init fills (4, for 16 MB)
          HEAP_PAGE,    \* KERNEL_HEAP_START, as a page (2 MB)
          HeapSizes,    \* values of KERNEL_HEAP_SIZE, in bytes (4 MB)
          HEAP_WORDS,   \* words of memory modelled from there on, a bound
          OldContents,  \* words that memory may hold before it is used
          KERNEL,       \* the page the kernel is loaded at and executes in (1 MB)
          VGA           \* the page of the text buffer (0xB8000)

WORD == 4

PAGE_SIZE == WORD * ENTRIES

HEADER == 16            \* sizeof(memory_block_t)

NULL == 0

HEAP_START == HEAP_PAGE * PAGE_SIZE

Words == {HEAP_START + WORD * i : i \in 0 .. HEAP_WORDS - 1}

\* The pages of 0 to 16 MB, which paging_init maps to themselves.
MAPPED == DIRS * ENTRIES

\* Header and payload of the directory or a table.
BLOCK == HEADER + PAGE_SIZE

(* The geometry: a page has room for two headers and the entries in use;    *)
(* the kernel and the heap start in the range of the first table, the heap  *)
(* above the kernel; the heap has room for less than two blocks of a page   *)
(* or for three.                                                            *)
ASSUME GeometryAssumption ==
    /\ ENTRIES \in Nat /\ DIRS \in Nat \ {0} /\ DIRS + 8 <= ENTRIES
    /\ HEAP_PAGE \in Nat /\ KERNEL \in Nat /\ VGA \in Nat
    /\ 7 < KERNEL /\ KERNEL < HEAP_PAGE /\ HEAP_PAGE < ENTRIES /\ VGA < ENTRIES
    /\ HeapSizes \subseteq Nat
    /\ \A s \in HeapSizes : s % WORD = 0 /\ s > HEADER /\ (s < 2 * BLOCK \/ 3 * BLOCK <= s)
    /\ HEAP_WORDS \in Nat /\ 3 * BLOCK <= WORD * HEAP_WORDS
    /\ OldContents \subseteq Nat

VARIABLES
    mem,               \* the words of memory from HEAP_START on
    elsewhere,         \* a word of the memory that is not modelled
    strayed,           \* where stores through an overwritten pointer went
    kernel_directory,
    next_page,         \* addr of paging_identity_map, as a page
    pc,                \* "init", "ready" for commands, or "reset"
    paging_enabled,    \* the shell's
    cr3, paging_on     \* CR3 and CR0.PG

memory == <<mem, elsewhere, strayed>>
processor == <<cr3, paging_on>>
vars == <<memory, kernel_directory, next_page, pc, paging_enabled, processor>>

---------------------------------------------------------------------------
(* kmalloc(PAGE_SIZE).  A block is the address of its header. *)

SIZE    == 0
IS_FREE == 4
NEXT    == 8
PREV    == 12

Read(a) == IF a \in Words THEN mem[a] ELSE elsewhere

Fits(b) == Read(b + IS_FREE) # 0 /\ Read(b + SIZE) >= PAGE_SIZE

\* One step of the loop of find_free_block.
Advance(b) == IF b = NULL \/ Fits(b) THEN b ELSE Read(b + NEXT)

(* The first block that fits, or NULL.  Two steps are enough while there    *)
(* are no more blocks than the directory's, the tables' and the rest.       *)
find_free_block == Advance(Advance(HEAP_START))

\* A bug: the null pointer of a full heap is not noticed.
NotNoticed(b) == TRUE

HasMemory(b) == b # NULL

Splits(b) == Read(b + SIZE) > PAGE_SIZE + HEADER

\* The block that split_block makes of what is left of b.
Rest(b) == b + HEADER + PAGE_SIZE

(* split_block and the store to is_free.  The successor of b gets a new     *)
(* predecessor; where its header was overwritten, next is an entry.         *)
Allocated(b) ==
    IF Splits(b)
    THEN [mem EXCEPT ![Rest(b) + SIZE] = mem[b + SIZE] - PAGE_SIZE - HEADER,
                     ![Rest(b) + IS_FREE] = 1,
                     ![Rest(b) + NEXT] = mem[b + NEXT],
                     ![Rest(b) + PREV] = b,
                     ![mem[b + NEXT] + PREV] = Rest(b),
                     ![b + NEXT] = Rest(b),
                     ![b + SIZE] = PAGE_SIZE,
                     ![b + IS_FREE] = 0]
    ELSE [mem EXCEPT ![b + IS_FREE] = 0]

\* The store to that predecessor, when it leads to no word of memory above.
Strayed(b) ==
    IF Splits(b) /\ mem[b + NEXT] # NULL THEN {mem[b + NEXT] + PREV} \ Words ELSE {}

\* A bug: the loop that clears a new directory or table is missing.
NotCleared(m, base) == m

\* The loop that clears a new directory or table.
Cleared(m, base) == [a \in Words |-> IF a \in base .. base + PAGE_SIZE - 1 THEN 0 ELSE m[a]]

---------------------------------------------------------------------------
(* Entries: a page and flags. *)

PAGE_PRESENT == 1
PAGE_WRITE   == 2
PAGE_USER    == 4

directory_index(v) == v \div ENTRIES

table_index(v) == v % ENTRIES

is_present(entry) == entry % 2 = 1

\* & 0xFFFFF000
get_address(entry) == (entry \div PAGE_SIZE) * PAGE_SIZE

\* A bug: addresses are taken to count from where the kernel is loaded.
FromKernel(address, flags) == get_address(address) + KERNEL * PAGE_SIZE + flags

create_pte(address, flags) == get_address(address) + flags

create_pde(table, flags) == get_address(table) + flags

\* Address of the directory entry for v.
pde_of(v) == kernel_directory + WORD * directory_index(v)

---------------------------------------------------------------------------
(* Boot. *)

(* memory_init has made the heap one free block. *)
Init ==
    /\ elsewhere \in OldContents
    /\ \E size \in HeapSizes :
          mem = [a \in Words |-> CASE a = HEAP_START + SIZE    -> size - HEADER
                                   [] a = HEAP_START + IS_FREE -> 1
                                   [] a = HEAP_START + NEXT    -> NULL
                                   [] a = HEAP_START + PREV    -> NULL
                                   [] OTHER                    -> elsewhere]
    /\ strayed = {}
    /\ kernel_directory = NULL
    /\ next_page = 0
    /\ pc = "init"
    /\ paging_enabled = FALSE
    /\ cr3 = 0
    /\ paging_on = FALSE

\* kmalloc and the loop that clears, for a directory or a table in block b.
Obtain(b, m) ==
    /\ HasMemory(b)
    /\ m = Cleared(Allocated(b), b + HEADER)
    /\ strayed' = strayed \cup Strayed(b)

\* No memory for the directory: paging_init returns, and boot goes on.
NoDirectory ==
    /\ pc = "init"
    /\ kernel_directory = NULL
    /\ ~HasMemory(find_free_block)
    /\ pc' = "ready"
    /\ UNCHANGED <<memory, kernel_directory, next_page, paging_enabled, processor>>

AllocateDirectory ==
    /\ pc = "init"
    /\ kernel_directory = NULL
    /\ Obtain(find_free_block, mem')
    /\ kernel_directory' = find_free_block + HEADER
    /\ UNCHANGED <<elsewhere, next_page, pc, paging_enabled, processor>>

\* There is a table for v: its entry is stored in the page the directory names.
MapInTable(v, flags) ==
    /\ is_present(mem[pde_of(v)])
    /\ mem' = [mem EXCEPT ![get_address(mem[pde_of(v)]) + WORD * table_index(v)] =
                               create_pte(v * PAGE_SIZE, flags)]
    /\ UNCHANGED <<elsewhere, strayed>>

\* There is none: a new one is entered, and its entry stored through its own address.
MapInNewTable(v, flags) ==
    LET table == find_free_block + HEADER
        m     == Cleared(Allocated(find_free_block), table)
    IN  /\ ~is_present(mem[pde_of(v)])
        /\ Obtain(find_free_block, m)
        /\ mem' = [m EXCEPT ![pde_of(v)] = create_pde(table, flags),
                            ![table + WORD * table_index(v)] = create_pte(v * PAGE_SIZE, flags)]
        /\ UNCHANGED elsewhere

\* No memory for a table: an error is printed and nothing is mapped.
MapFails(v) ==
    /\ ~is_present(mem[pde_of(v)])
    /\ ~HasMemory(find_free_block)
    /\ UNCHANGED memory

\* Page v is mapped to itself; all callers ask for that.
paging_map_page(v, flags) == MapInTable(v, flags) \/ MapInNewTable(v, flags) \/ MapFails(v)

\* A bug: every other page is left out.
SkipOne(p) == p + 2

\* addr += PAGE_SIZE
PageAfter(p) == p + 1

\* One turn of the loop of paging_identity_map.
paging_identity_map ==
    /\ pc = "init"
    /\ kernel_directory # NULL
    /\ next_page < MAPPED
    /\ paging_map_page(next_page, PAGE_PRESENT + PAGE_WRITE + PAGE_USER)
    /\ next_page' = PageAfter(next_page)
    /\ UNCHANGED <<kernel_directory, pc, paging_enabled, processor>>

\* The text buffer is mapped once more, closed to ring 3, and boot goes on.
MapVga ==
    /\ pc = "init"
    /\ next_page >= MAPPED
    /\ paging_map_page(VGA, PAGE_PRESENT + PAGE_WRITE)
    /\ pc' = "ready"
    /\ UNCHANGED <<kernel_directory, next_page, paging_enabled, processor>>

paging_init == NoDirectory \/ AllocateDirectory \/ paging_identity_map \/ MapVga

---------------------------------------------------------------------------
(* "paging enable". *)

(* The processor's walk for page v: the entry it ends at, or 0.  Of CR3 it   *)
(* uses the page.                                                           *)
Walk(directory, v) ==
    LET pde == Read(get_address(directory) + WORD * directory_index(v))
        pte == Read(get_address(pde) + WORD * table_index(v))
    IN  IF is_present(pde) /\ is_present(pte) THEN pte ELSE 0

\* paging_enable finds no directory; the shell believes that paging is on.
EnableRefused ==
    /\ pc = "ready"
    /\ ~paging_enabled
    /\ kernel_directory = NULL
    /\ paging_enabled' = TRUE
    /\ UNCHANGED <<memory, kernel_directory, next_page, pc, processor>>

\* A bug: CR3 is not loaded.
NotLoaded == cr3

\* What paging_load_directory loads.
pd_physical == kernel_directory

(* CR3, then CR0.PG.  The next instruction is fetched through the tables.   *)
(* If it is not there, neither is the handler of the page fault, nor that   *)
(* of the double fault, and the processor resets.                           *)
EnablePaging ==
    /\ pc = "ready"
    /\ ~paging_enabled
    /\ kernel_directory # NULL
    /\ cr3' = pd_physical
    /\ paging_on' = TRUE
    /\ IF Walk(pd_physical, KERNEL) = 0
       THEN pc' = "reset" /\ UNCHANGED paging_enabled
       ELSE paging_enabled' = TRUE /\ UNCHANGED pc
    /\ UNCHANGED <<memory, kernel_directory, next_page>>

paging_enable == EnableRefused \/ EnablePaging

Next == paging_init \/ paging_enable

Spec == Init /\ [][Next]_vars

---------------------------------------------------------------------------
(* Properties. *)

\* Words hold words, pointers point to memory, and boot is at one of its stages.
TypeOK ==
    /\ mem \in [Words -> Nat]
    /\ elsewhere \in Nat
    /\ strayed \subseteq Nat
    /\ kernel_directory \in Words \cup {NULL}
    /\ next_page \in 0 .. MAPPED
    /\ pc \in {"init", "ready", "reset"}
    /\ paging_enabled \in BOOLEAN
    /\ cr3 \in Words \cup {NULL}
    /\ paging_on \in BOOLEAN

(* The stores of paging_map_page through a directory entry go to a page of  *)
(* the heap above the directory entries in use, although that page is not   *)
(* the table that was allocated: no table overwrites the entries by which   *)
(* the others are found.                                                    *)
TablesOffDirectory ==
    kernel_directory # NULL =>
        \A d \in 0 .. DIRS - 1 :
            LET pde  == mem[kernel_directory + WORD * d]
                page == get_address(pde)
            IN  is_present(pde) =>
                    /\ page >= kernel_directory + WORD * DIRS
                    /\ page \in Words /\ page + PAGE_SIZE - WORD \in Words

(* find_free_block never takes a page table entry for a pointer, whenever   *)
(* it is called in boot: entries reach is_free of the tables' block before  *)
(* next, and then the block is taken for a free one.  The walk ends.        *)
WalkSafe ==
    pc = "init" =>
        LET second == Advance(HEAP_START)
        IN  /\ second \in Words \cup {NULL}
            /\ find_free_block # NULL => find_free_block \in Words /\ Fits(find_free_block)

\* The kernel is linked at 1 MB; its .bss reaches past 2 MB, but not past the first table.
Image == KERNEL .. ENTRIES - 1

\* The directory's block, the tables' and the header of the rest.
InUse == HEAP_START .. HEAP_START + 2 * BLOCK + HEADER - 1

(* split_block does store through an entry, as the pointer to the next      *)
(* block; these stores hit neither the kernel nor the blocks in use.        *)
StrayStoresMiss == \A a \in strayed : a \notin InUse /\ a \div PAGE_SIZE \notin Image

(* The kernel never executes with the misplaced tables: what the processor  *)
(* takes for the kernel's directory entry is the size in the header of the  *)
(* directory's block, which is even and which no store of boot changes, so  *)
(* that enabling paging stops the machine before another instruction.       *)
EnablingStops == paging_on => pc = "reset"

(* "Kernel still running = paging works!" (PHASE_4_STEP_2_PAGING_ENABLE.md): *)
(* once paging is on the processor finds the page the kernel executes in    *)
(* where it is.  The code does not satisfy this.                            *)
KernelReachable ==
    paging_on => LET pte == Walk(cr3, KERNEL)
                 IN  is_present(pte) /\ get_address(pte) = KERNEL * PAGE_SIZE
===========================================================================
