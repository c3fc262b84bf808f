# A TLA+ model of the Aether OS kernel

Aether OS is a 32-bit x86 teaching kernel: one processor, a shell as the only
kernel thread, preemptive round-robin scheduling from the timer interrupt,
ring-3 processes with four system calls, a first-fit heap and a PS/2 keyboard.
This directory models it in TLA+, from the first instruction of `kmain` on,
checks it with TLC and proves its safety properties with TLAPS. Paths
below are relative to the repository; `kernel/` stands for `src/kernel/`.

## Inventory

| part | state | operations | interacts with |
|---|---|---|---|
| scheduler (`kernel/scheduler.c`) | `ready_queue_head/tail/count`, links in `process_t`, `scheduler_enabled` | add, remove, schedule, tick, yield, enable, disable | called from the timer interrupt, from INT 0x80 and from the shell |
| processes (`kernel/process.c`) | `process_table`, `stack_allocated`, `next_pid`, `current_process` | init, create, exit, destroy | shell creates, system calls exit |
| context switch, TSS (`kernel/context_switch.asm`, `kernel/tss.c`) | saved registers, `esp0` | switch | called by tick and yield; resumes in the middle of either |
| interrupts (`kernel/pic.c`, `panic.c`, `idt_handlers.asm`) | masks, requests and service of the two PICs | remap, enable, dispatch, EOI, panic | the EOI of a tick comes after the switch made by it |
| timer (`kernel/timer.c`) | `system_ticks`, frequency | tick, sleep | kmain and commands sleep on it, the scheduler is called from it |
| system calls, user mode (`kernel/syscall.c`, `syscall_handler.asm`, `usermode.c`, `user_test_code.asm`) | register frame | exit, write, read, yield | |
| shell (`kernel/shell.c`) | command being executed | `ps create`, `usermode test`, `sched ...`, `exit`, display commands | runs with interrupts on as PID 0 |
| heap (`kernel/memory.c`) | block list | kmalloc, kfree, krealloc, kcalloc | no interrupt handler allocates |
| keyboard (`kernel/keyboard.c`) | modifiers, ring buffer | IRQ 1 handler, getchar, readline | shell reads while IRQ 1 writes |
| console (`kernel/printk.c`) | cursor, VGA memory | print, scroll, clear, backspace, number conversion | the shell prints, IRQ 1 echoes, no lock between them |
| paging (`kernel/paging.c`) | directory and tables, in blocks of the heap | init, map, enable; unmap, switch and the fault handler have no caller | entries are stored over the heap's headers; the processor walks the tables |
| GDT, IDT, boot (`kernel/gdt.c`, `idt.c`, `kernel.c`) | descriptors, gates | initialisation, in the order of `kmain` | an interrupt needs all of them |

What is hard here: the timer interrupt is split by the context switch it makes,
so the rest of one process's handler runs whenever that process is next chosen,
perhaps by a yield; the shell changes shared structures with interrupts on; an
exit leaves the process on the CPU; IRQ 1 echoes into a console that the shell
is in the middle of; hardware (PIC, MMU, PIT) has state of its own that must
agree with the kernel's; assembly and C must agree on layouts.
`PROJECT.json` lists each hazard at its line.

Correctness, per component: the ready queue is one list that holds every READY
process once (`NoLostProcess`) and is served first-in first-out
(`RefinesRoundRobin`); suspended timer handlers do not pile up
(`NoNestedTick`) and their EOI is not forgotten (`EoiNotLost`); an interrupt
uses the stack of the process it interrupts (`OwnKernelStack`); exit is final
(`ExitIsFinal`); the heap list partitions the heap and is merged
(`ListCoversHeap`, `NoFreeNeighbours`, `AllFreedIsInitial`), and callers see
disjoint, sufficient allocations (`RefinesAllocator`); the keyboard ring holds
exactly what was typed and not read (`RingHoldsAccepted`, `NoPhantomCharacter`)
and it is read (`InputIsRead`); the cursor stays on the screen
(`CursorOnScreen`), output never lands on old text (`BlankAfterCursor`) and
numbers are printed as what they are (`NumberReadsBack`); live processes own
their stacks (`LiveOwnsStack`) and are a family (`FamilyTree`); no interrupt
comes before its tables (`InterruptsInOrder`), boot ends (`BootReachesShell`),
sleeps end on time (`SleepEnds`, `SleepLength`) and keys are served
(`KeyIsServed`). Once paging is on the kernel should be where it was
(`KernelReachable`): it is not, because the page tables are misplaced. What can
be said of them is that the damage is contained: the directory is not
overwritten (`TablesOffDirectory`), the heap's list is not followed into a table
(`WalkSafe`), stores through overwritten headers hit nothing in use
(`StrayStoresMiss`), and no instruction is executed with the misplaced tables
(`EnablingStops`).

## Modules

| module | models | used by |
|---|---|---|
| `ReadyQueue` | the pointers of the ready queue, add and remove, and what list they mean | `Multitasking` |
| `Multitasking` | scheduler, creation, exit, switch, TSS, PIC, timer, system calls, test programs, shell | TLC, `MultitaskingProofs` |
| `RoundRobin` | abstract: a FIFO, the process that runs, and those that have finished | refinement of `Multitasking` |
| `Heap` | `memory.c` | TLC, `HeapProofs` |
| `Allocator` | abstract: what callers of the heap rely on | refinement of `Heap` |
| `Keyboard` | `keyboard.c` and its reader | TLC, `KeyboardProofs` |
| `Console` | `printk.c` and the echo of `keyboard.c` | TLC, `ConsoleProofs` |
| `ProcessTable` | `process.c` as an API, with parents and children | TLC, `ProcessTableProofs` |
| `Paging` | `paging.c` and `kmalloc` on the words of the heap, the processor's walk | TLC, `PagingProofs` |
| `Interrupts` | `kmain`, GDT, TSS and IDT set-up, PICs, dispatch, timer and sleeping | TLC, `InterruptsProofs` |
| `ReadyQueueProofs`, `MultitaskingProofs`, `HeapProofs`, `KeyboardProofs`, `ConsoleProofs`, `ProcessTableProofs`, `PagingProofs`, `InterruptsProofs` | theorems about the module of that name | |

The operators that comments call "a bug" are variants of the definition that
follows them; they are not part of any specification, and each shows that one
of the properties notices that mistake.

### Multitasking

A `process_t*` is a PID or `NULL`. Interrupts are off in interrupt handlers and
in INT 0x80 (an interrupt gate), so each is one action: `timer_handler` (its
three outcomes `TickKeepRunning`, `TickRenew`, `TickSwitch`),
`keyboard_handler`, `Int80`. The shell has interrupts on; its actions are the
stores of `scheduler_add_process` in the order gcc -O2 makes them (`Create`,
which loads the tail, `AddLink`, `AddTail`, `AddCount`), and the test and the
rest of `scheduler_yield`. Two simplifications are argued in the text: the
creation of a slot is one step, because a slot that is not yet in the queue is
reachable from nowhere else; the rest of the shell's `scheduler_yield` is one
step, because it starts by giving idle a full quantum of 100 ms.

`context[p]` says where `context_switch` would resume `p`. `"tick"` means in
`scheduler_tick`, so that resuming `p` returns to `timer_handler`, which sends
the EOI: `context_switch` includes that EOI. `"kernel"` is what
`process_create` builds: DS = SS = 0, so loading SS faults and `isr_handler`
halts the machine. `in_service` is the in-service register of the master PIC;
`Deliverable` is its priority rule, in the mode `pic_init` sets.

`pushad_frame` and `registers_t` are the two layouts that meet in
`syscall_handler`. They disagree: the field `eax` is the caller's EDI. The
shipped programs keep their loop counter there, so that none of their calls is
recognised, the counter is reset at every call and they loop for ever
(`UserCode = "test"`). `UserCode = "any"` is other ring-3 code written with
`userlib.h`, with anything in EDI, which therefore reaches every system call,
and which may also fault at any time.

`typed` abstracts the keyboard ring to complete command lines; `Keyboard`
models the ring. `CreateWhileEnabled = FALSE` is the order the documents show
(create, then `sched start`); `TRUE` allows creation under a running scheduler,
where the race of `v_add_race` is.

### Heap

`block` maps addresses (offsets from `heap_start`) to headers; a header merged
away is forgotten. Blocks lie in the list in address order (`ListCoversHeap`),
so first fit is the lowest address. `last` and `held` record what callers asked
for and got. `krealloc(NULL, n)` and `krealloc(p, 0)` are `kmalloc` and `kfree`.
Sizes wrap at `WORD`.

### Keyboard

`reader` is the shell inside `keyboard_getchar`, inlined in `console_readline`.
In the code gcc -O2 generates, the count is loaded, its decrement is stored, and
then the character and the tail are accessed; these are the steps. `accepted`
is a history variable: what the handler buffered and the shell has not read.
A key between the load and the store of the count is buffered but its increment
is overwritten: `slipped` counts these, up to `MAX_SLIPS`. Each costs exactly
one: that many characters stay unread until more are typed, and from then on
input arrives so many places late. Once one has slipped the ring may also be
filled past its end, so that `RingHoldsAccepted` speaks of its contents only
before that.
A command that calls `keyboard_getchar` to "Wait for keypress"
(kernel/shell.c:255, also 346) does not wait: with an empty ring it goes on.

### Console

`screen` is the set of cells that are not blank. In the code gcc -O2 generates
for `console_putchar` the coordinates are loaded, used for the cell, and stored
from registers; `writer` is at one of these accesses and IRQ 1 (`keyboard_handler`,
one step) may come before any of them. An echo in between is partly undone by
the stores that follow: text may be lost or overwritten (`torn` records that),
but the cursor is back on the screen when the character is done. While the row
is below the screen, up to `BELOW` rows are followed. The loops of
`console_scroll` and `console_clear` are one step each. `printk` is one action
per directive. Numbers are converted in `BITS` bits; the least int is printed
wrongly by `itoa`, which `NumberReadsBack` excepts. Widths such as `%08X` are
unknown specifiers: the text is put as it is and the argument is left for the
next conversion, so that `ps` (kernel/process.c:310) prints the PID for the
runtime and `uptime` (kernel/shell.c:206) the minutes for the seconds.

### ProcessTable

The functions of `process.h` as an API that callers use in any order; the kernel
itself never destroys a process. `spoiled` is a history variable that records
which of four things have happened after which parents and children no longer
agree: a full child list, a slot cleared under its family by a creation that is
then refused, PID 1 destroyed (its children are given to itself), and a creation
by a process that was destroyed. `FamilyTree` says that nothing else breaks the
tree; `TypeOK` and `LiveOwnsStack` hold regardless.

### Paging

`mem` is the words of memory from `KERNEL_HEAP_START` on, by byte address: the
headers of blocks, with the 16 bytes and the field offsets of `memory_block_t`,
and the entries of directory and tables are words of it. `kmalloc` is modelled
as the loads and stores of `find_free_block` and `split_block`, whatever these
words hold. `Init` is the heap after `memory_init`; boot then allocates the
directory, and each turn of `paging_identity_map` is one step.

What happens at boot, in the geometry of the code: the directory is at 0x200010.
The first table is allocated at 0x201020, whose page is 0x201000; `paging_create_pde` keeps the page, so that the entries of the
table are stored from there on, entries 4 to 7 over the header of its own block
at 0x201010. Entry 5 lands on `is_free`. When the second table is needed the
block looks free and is handed out again, and its `next`, now entry 6, is taken
for a block whose `prev` is stored: a stray store at 0x6013, and one at 0x406013
and 0x806013 for the further tables (`strayed`). All four directory entries name the page
0x201000. "paging enable" loads 0x200010 into CR3, of which the processor uses
0x200000; the first word there is the size of the directory's block, 4096, which
as a directory entry is not present. The kernel's next instruction cannot be
fetched, nor any handler, and the machine resets.

`elsewhere` is what any word holds that is not in `mem`. `HeapSizes` has, beside
a heap that is large enough, sizes with room for no directory, for a directory
that takes the whole heap, and for a directory and a rest too small for a table
(`NoDirectory`, `MapFails`, `EnableRefused`). `find_free_block` makes two steps
of its loop; `WalkSafe` includes that it needs no third.

Left out: allocations after boot (`meminfo`, `test malloc`), which are given the
tables' block; what they do to the tables shows only in `paging status`.
`paging_unmap_page`, `paging_switch_directory` and `page_fault_handler` have no
caller, and `paging_map_page` none after boot; nothing is cached as long as
paging is off, so that there is no translation lookaside buffer in the model.

### Interrupts

`boot` walks through the calls of `kmain`; what the other subsystems initialise
is in their modules. `pic` holds vector bases, masks, requests and service of
both controllers; a request is latched even while masked, and ICW1 forgets the
requests but not that the keyboard's line is up, which is why `keyboard_init`
has to read the byte that waits (`KeyIsServed`). An interrupt through a missing
gate resets the machine, one through the gate of an exception panics. `sleeper`
is the kernel's one thread in `timer_sleep_ticks`: test, `hlt`, and again.
`system_ticks` has `BITS` bits. When the target or the tick after it does not
fit, the sleep may end at once or last until the counter comes round again
(`wraps`); the properties are about the other sleeps.

## Runs

| run | bounds | shows |
|---|---|---|
| `shipped` | 4 slots, quantum 2, yield every 2 of 4 iterations, 2 commands typed ahead | the shipped system with all commands |
| `anycode` | 3 slots, as above, any ring-3 code | the same core when every system call is reached |
| `heap` | 18 bytes, header 2, granularity 2, requests 0, 1, 3, 4 | all orders of calls |
| `keyboard` | ring of 3, line of 4, all keys, two slips | all interleavings |
| `console` | 3 x 3 cells, tab stops at 2, strings of up to 2, 5-bit numbers | all interleavings of output and echo |
| `paging` | pages of 64 words, 4 tables, heap at page 32, kernel at page 16 (a sixteenth of the code's numbers), headers of 16 bytes, four heap sizes, old memory all zero or all entries | boot and `paging enable` |
| `process_table` | 4 slots, 2 children, one kind of spoiler | all orders of calls |
| `interrupts` | 3-bit ticks, sleeps of 1 and 2 ticks, IRQ 0, 1 and 14 | boot, and sleeps over the wrap of the counter |

Four slots hold idle, both processes of one command and a further one, so the
table fills up in the middle of a command. In `anycode` processes exit, and a
creation that comes to their slot is refused (`CreateNoStack`): exit never
releases the stack, so that the slot is not used again. A quantum of 2 has a tick that only counts and one that switches. The
heap holds up to four blocks: enough for a free block with used and free
neighbours on either side. The ring of 3 fills and wraps. Three rows
and three columns have an inner cell, a wrap and a scroll; F1 to F3 print two
line feeds, so that an echo may scroll in the middle of a scroll. Five bits
hold numbers of one and two digits in either base, and negative ones. Smaller
pages change nothing in `paging` but the number of turns: `GeometryAssumption`
has what matters, the theorems are about all geometries that satisfy it, and the
code's (1024 entries, 4 tables, heap at page 512, kernel at 256) does. Four slots allow a grandchild and a sibling;
lists of 2 fill up. A sleep that starts at tick 5, 6 or 7 of 8 wraps. IRQ 14
stands for a device nobody handles, behind the cascade. The multitasking runs
do not check deadlock: the machine may halt (`exit`, panic), and a ring-3
program that spins with the timer unacknowledged takes no step of the model.
Neither do `paging` (the machine may reset) and `process_table` (nothing is
followed once two kinds of spoilers have come).

In `shipped` a process that owes the EOI of a tick is never resumed, because
the ring-3 programs reach no system call (`v_fairness`); `EoiNotLost` says that
it at least still waits in the queue. In `anycode` yields resume it, and there
the EOI can be lost altogether: a process that has exited, runs on and is
preempted is not queued again and never resumes its `timer_handler`. Then no
tick comes any more, although kernel/panic.c:161 says "timer_handler calls
pic_send_eoi(0)".

Runs that refute a statement of the repository:

| run | statement | what happens |
|---|---|---|
| `v_kernel_process` | TESTING.md:122 "Kernel does NOT panic" | `ps create`, `sched start`: SS = 0 is loaded |
| `v_fairness` | QUICKSTART.md:155 "All processes share CPU time fairly" | the first switch leaves IRQ 0 unacknowledged in ring 3 |
| `v_add_race` | QUICKSTART.md:155 "rotates through them" | a tick inside `scheduler_add_process` drops a process |
| `v_paging` | PHASE_4_STEP_2_PAGING_ENABLE.md:118 "Kernel still running = paging works!" | the directory starts 16 bytes past a page, and the processor reads a block header as its first entry |

Met while modelling, and part of the models without a run of their own:

- The `pushad` frame is read as a `registers_t`: EDI is taken for the number of
  the system call and receives its result ("Return value goes in EAX",
  kernel/syscall.c:44). It is one of the causes of `v_fairness`.
- `sys_exit` ("Never returns", kernel/syscall.c:61) returns; `anycode` includes
  what such a process may go on to do.
- Sizes within three bytes of 2^32 round to 0 in `kmalloc`, and products wrap in
  `kcalloc` (kernel/memory.c:99,157). The heap invariants hold for such sizes
  too; the abstract allocator does not describe them.
- A key inside `buffer_count--` slips (see Keyboard); `printk` widths shift
  arguments and `itoa` fails for the least int (see Console).

### Fairness

`FairSpec` assumes that the timer fires again whenever the PIC would deliver it,
that the shell's instructions are executed while it has the CPU, and those of
the test programs while they have it. The hardware gives these. Nothing is
assumed of the operator or of other ring-3 code. In `Keyboard` the timer
interrupts and the shell runs: this is the machine with the scheduler off, as
it is after boot. Nobody need type. In `Interrupts` the kernel executes its
instructions and the timer raises IRQ 0 again and again; requests of IRQ 0 and
IRQ 1 that the PIC would deliver infinitely often are delivered (strong
fairness: a handler is far shorter than a tick, so that IRQ 0 does not starve
IRQ 1), and the loop of `keyboard_init` that empties the controller sees it
empty in the end, as a look at a status port takes less than a keystroke. For
the same reason no two ticks fall between two steps of the sleeping loop, which
`Deliver` states as a guard, and `BOOT_TICKS` bounds the ticks between `sti` and
the sleep of `kmain`. A command that sleeps is not obliged to.

## Proofs

The theorems hold for every value of the constants that satisfies the named
assumptions of the modules, which TLC evaluates in the runs, and the hypotheses
named here. Each rests on an inductive invariant; what it has beyond the
property is what the property alone lacks to be preserved by every action.

`ReadyQueueProofs`: on pointers that form a list, `scheduler_add_process`
appends a process that has not terminated and refuses one that has
(`AddAppends`), and `scheduler_remove_process` of the head takes the
first (`RemoveHeadTakesFirst`).

`MultitaskingProofs`, for every table size, quantum and kind of ring-3 code:

- `TypeCorrect` (`TypeOK`) and `TimerHandlerDoesNotNest` (`NoNestedTick`): a
  tick is only delivered when IRQ 0 is not in service, so then nobody is
  suspended in the handler; it suspends at most one process; a switch to it, by
  whatever route, sends exactly the EOI that is due. These are about `context`
  and `in_service` alone and hold with the race of `v_add_race` too.
- `StackOfItsOwn` (`OwnKernelStack`), with that race too: `StacksOwned` says
  that whatever pointers the queue is left with, each names a process whose
  stack is reserved.
- `NobodyIsLost` (`NoLostProcess`), when processes are created with the
  scheduler off (`~CreateWhileEnabled`, the order of the documents; without it
  `v_add_race` is the counterexample). `QueueInv`: the queue is a list `s` of
  exactly the READY processes, except that the stores of an addition under way
  are behind (`Underlies`); then nothing interrupts it that uses the queue.
- From `QueueInv` and under the same hypothesis `ExitedStaysExited`
  (`ExitIsFinal`) and `SchedulerIsRoundRobin` (`RefinesRoundRobin`), which shows
  that the walk of `ReadyList` reads `s` in each state of an addition.
- `EoiWillBeSent` (`EoiNotLost`), with the shipped programs too
  (`UserCode = "test"`): EDI is 0 at each of their calls (`TestPrograms`), which
  is no call's number, so that none of them exits and then owes the EOI. With other code it does.

`KeyboardProofs`, for every ring, line and number of slips: `TypeCorrect`,
`CountNeverOvershoots` (`NoPhantomCharacter`) and `RingIsFaithful`
(`RingHoldsAccepted`). They are inductive together and with `StoresCounted`: a
count that is about to be stored was positive when it was loaded.

`ConsoleProofs`, for every screen and distance of tab stops: `TypeCorrect`,
`CursorComesBack` (`CursorOnScreen`) and `TextIsNotOverwritten`
(`BlankAfterCursor`). `Midway` says what a character half written has done to
the screen and has in registers, in the words of the console as a value (`Tidy`).
`NumbersReadBack` (`NumberReadsBack`), for every width of an int and every word:
the loop of `itoa` and `utoa` ends, as C's division brings every number but 0
nearer to 0 (`DivisionShrinks`), one round adds one digit at the right place
(`DigitsStep`), and a row of digits with one more denotes the base times what
it denoted plus that digit (`DenotedAppend`). The least int is the only word
whose negation is not in range (`IntsOfWords`). `PowerAssumption` (2 to the
BITS is twice 2 to the BITS - 1) stands for the arithmetic of powers.

`InterruptsProofs`, for every width of the counter, frequency, sleep and set of
lines: `TypeCorrect`, `BootIsInOrder` (`InterruptsInOrder`) and
`SleepsAreExact` (`SleepLength`). `ReadyBeforeSti` and `OnTheWay` say which
tables, masks and requests each stage of `kmain` has; `SleeperOK` relates the
target in a register to the ticks that have passed, modulo the width.
`WordAssumption` (a power of two is positive) stands for the arithmetic of
powers that the provers do not have.

`HeapProofs`, for every size of heap, header and granularity and all requests,
those whose size wraps included: `TypeCorrect`, `ListAlwaysCovers`
(`ListCoversHeap`), `FreeBlocksAreMerged` (`NoFreeNeighbours`),
`UsedBlocksAreHeld` (`HeldIsUsed`) and `NothingLeaks` (`AllFreedIsInitial`). The
invariant `HeapInv` says that the headers are a doubly linked list in the order
of addresses whose blocks end where the next begins (`Covers`), that no two
neighbours are free, that sizes are multiples of `ALIGN` (a free block that is
large enough for a request is then large enough for the rounded one, so that
`kmalloc` refuses nothing that fits) and that the blocks in use are those held.
What the stores of `split_block` and of a merge do to such a list is stated once
(`SplitAt`, `AbsorbAt`). `HeapIsAllocator` (`RefinesAllocator`) has the hypothesis
`NothingWraps`: no request of the callers wraps when it is rounded or multiplied.

`PagingProofs`, for every geometry that `GeometryAssumption` allows, with the
headers as they are: `TypeCorrect`, `DirectorySurvives` (`TablesOffDirectory`),
`WalkIsSafe` (`WalkSafe`), `StrayStoresMissAll` (`StrayStoresMiss`) and
`EnablingAlwaysStops` (`EnablingStops`). The invariant `IInv` says what the
heap's words are at each stage: `Untouched`, then a `Directory` with `NoRoom` for
a table, `FirstRoom` for one, or `Tables`. In `Tables` the header of the tables'
block is known word by word from the index of the last entry stored
(`Overwritten`): its size is an entry from index 4 on, its flag from 5 on, its
pointer from 6 on. That is why the walk is safe: a block is passed over, and its
pointer used, only while the flag is 0, and the pointer is overwritten after the
flag. A stray store is at the entry of index 6 plus 12, which is no multiple of
4 and so no word of the heap (`EntryIs`), and in a page below the kernel or
beyond the first table. `NewTable` and `StoreInTable` say which words the two
kinds of turn change; none is in the header of the directory's block, whose size
stays even.

`ProcessTableProofs`, for every table and length of child lists and every order
of calls: `TypeCorrect` (no list runs past its array, in particular not that of
a PID 1 that adopts) and `LiveProcessesOwnStacks` (`LiveOwnsStack`).
`FamilyStaysTree` (`FamilyTree`) rests on `FamilyInv`, which holds as long as
nothing is `spoiled`: child lists are without repetition and hold exactly the
existing processes with that parent, parents exist, PID 1 is a child of idle
from the first creation on, and the slots have an order, idle first and PID 1
second, in which parents come before their children (`Ordered`). The order is
what the property lacks: a creation moves the new slot to its end
(`MovedIsOrder`), also when the PID is used again, and a destruction hands the
children to PID 1, which comes before all of them. It is at most as long as the
table, so that the walk to idle that `FamilyTree` bounds arrives
(`AncestorIsIdle`).

The library's induction theorems cannot be instantiated here. Where a recursive
function or an unbounded list needs induction (`AdoptAll`, `Ancestor`, `Digits`,
`Denoted`, `ReadyList`, the heap block that holds an address), the proofs take the least counterexample instead
(`LeastNatural`, from the well-foundedness of `<`); in the same way they show
that a function with these equations exists before they use it (`Recursion`,
`DigitsUpTo`).

Every safety invariant and action property of the passing runs is stated by a
theorem. Only model-checked is liveness (`PreemptedOnceAcknowledged`,
`InputIsRead`, `SleepEnds`, `BootReachesShell`, `KeyIsServed`), as the proof
system does not treat fairness. The hypotheses named above (`NothingWraps`,
`~CreateWhileEnabled`) hold in those runs.

## Not modelled

- What is only displayed: `help`, `info`, statistics, heap dumps, the texts of
  panics, colours.
- Functions without a caller that change nothing the models tell apart, or
  whose effect is one assignment: `keyboard_flush`, `console_enable_input` and
  `console_disable_input`, `pic_disable_irq`, `enter_user_mode`; and
  `paging_unmap_page`, `paging_switch_directory` and `page_fault_handler`.
- Allocations after boot in a heap whose headers hold page table entries:
  `Heap` models the allocator on a sound list, `Paging` what boot does to it.
- Contents of memory other than the heap's headers and page tables, and
  registers other than EDI and CR3; CR3 = 0 of a new process, which would matter
  with paging on; base, limit and access bits of descriptors. The megabyte of process 1
  starts at 5 MB, inside the heap's 2 to 6 MB (kernel/usermode.c:48): no model
  covers both. The heap itself starts inside the kernel's `.bss`, whose
  `process_stacks` reach past 2 MB: the stacks of the last slots of the process
  table share memory with the directory.
- The boot loader and the assembly before `kmain`: straight-line code that runs
  once with interrupts off.

## Plan

What the plan had is done: the components above are modelled, their runs pass
and their safety properties are proved. Left for later:

- the hazards without a property in `PROJECT.json`: the sizes that wrap in
  `kmalloc` and `kcalloc` (the `heap` run asks for less, as the kernel does; the
  list's theorems hold for them too, `HeapIsAllocator` does not), a width in a
  format, and what shares memory with the heap (the megabyte of process 1, the
  last stacks);
- allocation and release of blocks after boot, on the list that `paging_init`
  leaves; then mapping over a live mapping, rights of later tables and CR3 = 0,
  once the tables are where the processor reads them;
- liveness for every value of the constants, which needs a prover with fairness.
