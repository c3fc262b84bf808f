--------------------------- MODULE Multitasking ---------------------------
(* The multitasking core of the kernel: process creation and exit           *)
(* (process.c), the round-robin scheduler (scheduler.c), the context switch *)
(* (context_switch.asm), the timer interrupt and its end-of-interrupt       *)
(* (timer.c, panic.c, pic.c), the TSS, system calls (syscall.c,             *)
(* syscall_handler.asm), the ring-3 test programs (user_test_code.asm), and *)
(* the shell commands that drive them (shell.c).                            *)
(*                                                                          *)
(* One processor.  Interrupt and system-call handlers run with interrupts   *)
(* off, so each is one atomic step.  The shell, which is the thread of the  *)
(* idle process (PID 0), runs with interrupts on: between any two of its    *)
(* steps the timer may fire.                                                *)
EXTENDS ReadyQueue

CONSTANTS QUANTUM,            \* quantum_ticks (10 in scheduler.c)
          YIELD_EVERY,        \* loop iterations between yields (1000000)
          ITERATIONS,         \* loop iterations before exit (50000000)
          UserCode,           \* what runs in ring 3: "test" or "any"
          Commands,           \* the commands the operator may type
          TYPE_AHEAD,         \* bound on command lines waiting to be read
          CreateWhileEnabled  \* may processes be created while enabled?

AllCommands == {"ps create", "usermode test", "sched start", "sched stop",
                "sched yield", "exit"}

\* The bounds leave the timer and the test programs something to count.
ASSUME BoundsAssumption ==
    /\ QUANTUM \in Nat \ {0}
    /\ YIELD_EVERY \in Nat \ {0}
    /\ ITERATIONS \in Nat \ {0}
    /\ TYPE_AHEAD \in Nat

\* "test" are the shipped programs, "any" is ring-3 code of any kind.
ASSUME ModeAssumption ==
    /\ UserCode \in {"test", "any"}
    /\ Commands \subseteq AllCommands
    /\ CreateWhileEnabled \in BOOLEAN

VARIABLES
    rq,                 \* ready_queue_head, _tail, _count and the links
    state,              \* process_table[p].state
    quantum,            \* process_table[p].quantum
    stack_allocated,    \* stack_allocated[p]
    next_pid,
    current_process,
    scheduler_enabled,
    context,            \* what process_table[p].registers resume
    esp0,               \* kernel_tss.esp0, as the process whose stack it is
    in_service,         \* in-service register of the master PIC, IRQ 0 and 1
    typed,              \* command lines in the keyboard buffer
    shell,              \* where the shell is
    user,               \* where the ring-3 program of p is, and its EDI
    halted              \* "no", or why the machine stopped

scheduling == <<rq, state, quantum>>
switching == <<current_process, context, esp0, in_service, halted>>
creation == <<stack_allocated, next_pid>>
vars == <<scheduling, switching, creation, scheduler_enabled, typed, shell, user>>

---------------------------------------------------------------------------
(* process_state_t; BLOCKED is never assigned by the code, and NEW only    *)
(* between two stores of process_create.                                   *)
States == {"READY", "RUNNING", "TERMINATED"}

(* The saved registers of a process resume it                              *)
(*   "boot"   nowhere: idle before it was first switched out               *)
(*   "kernel" at a kernel entry point with DS = SS = 0 (process_create)    *)
(*   "user"   in ring 3 through the iret frame (process_setup_user_mode)   *)
(*   "tick"   inside scheduler_tick, before timer_handler's EOI            *)
(*   "yield"  inside scheduler_yield                                       *)
Contexts == {"boot", "kernel", "user", "tick", "yield"}

(* The shell is in console_readline ("read"), about to create a process    *)
(* ("create"), between two stores of scheduler_add_process ("link",        *)
(* "tail", "count"), or past the tests of scheduler_yield ("yield").       *)
ShellAt == {"read", "create", "link", "tail", "count", "yield"}

ShellState == [pc : ShellAt, kind : {"kernel", "user"}, left : 0 .. 2,
               process : PID, tail : Pointer]

AtPrompt == [pc |-> "read", kind |-> "user", left |-> 0, process |-> 0, tail |-> NULL]

(* The test programs write, loop, exit and hlt; any other code runs, and   *)
(* spins once it has called exit (userlib.h).                              *)
UserAt == {"write", "loop", "exit", "hlt", "run", "spin"}

Started == [pc |-> IF UserCode = "test" THEN "write" ELSE "run", edi |-> 0]

(* The operator's machine has been booted: kmain has called process_init   *)
(* and scheduler_init, enabled interrupts and entered shell_run.           *)
Init ==
    /\ rq = EmptyQueue
    /\ state = [p \in PID |-> IF p = 0 THEN "RUNNING" ELSE "TERMINATED"]
    /\ quantum = [p \in PID |-> IF p = 0 THEN 1 ELSE 0]
    /\ stack_allocated = [p \in PID |-> FALSE]
    /\ next_pid = 1
    /\ current_process = 0
    /\ scheduler_enabled = FALSE
    /\ context = [p \in PID |-> "boot"]
    /\ esp0 = 0
    /\ in_service = {}
    /\ typed = <<>>
    /\ shell = AtPrompt
    /\ user = [p \in PID |-> Started]
    /\ halted = "no"

---------------------------------------------------------------------------
(* The scheduler. *)

\* The lowest set bit of the in-service register is cleared (non-specific EOI).
pic_send_eoi(isr) == IF 0 \in isr THEN isr \ {0} ELSE isr \ {1}

\* A bug: the process with the highest PID is picked, not the first one.
PickHighest(q, st, qu) ==
    LET ready == {p \in PID : st[p] = "READY"}
        p     == CHOOSE h \in ready : \A r \in ready : r <= h
    IN  IF q.head = NULL
        THEN [next |-> 0, rq |-> q, state |-> st, quantum |-> qu]
        ELSE [next    |-> p,
              rq      |-> scheduler_remove_process(q, p),
              state   |-> [st EXCEPT ![p] = "RUNNING"],
              quantum |-> [qu EXCEPT ![p] = QUANTUM]]

(* scheduler_schedule on a queue, a state and a quantum function: the      *)
(* process picked and what becomes of the three.                           *)
scheduler_schedule(q, st, qu) ==
    IF q.head = NULL
    THEN [next |-> 0, rq |-> q, state |-> st, quantum |-> qu]
    ELSE [next    |-> q.head,
          rq      |-> scheduler_remove_process(q, q.head),
          state   |-> [st EXCEPT ![q.head] = "RUNNING"],
          quantum |-> [qu EXCEPT ![q.head] = QUANTUM]]

(* context_switch: save the registers of old at the place it is in, load   *)
(* those of next.  A context saved in scheduler_tick returns through       *)
(* timer_handler, which sends the EOI; one with null segments faults.      *)
context_switch(old, next, place, isr) ==
    /\ context' = [context EXCEPT ![old] = place]
    /\ in_service' = IF context[next] = "tick" THEN pic_send_eoi(isr) ELSE isr
    /\ halted' = IF context[next] = "kernel" THEN "panic" ELSE halted

\* A bug: interrupts keep using the stack of the process before.
TssNotSet(p) == esp0' = esp0

\* The stack of p is the one an interrupt in ring 3 switches to.
tss_set_kernel_stack(p) == esp0' = p

(* A bug: the process that loses the CPU is marked READY, exited or not,   *)
(* before it is handed to scheduler_add_process.                           *)
RequeueAsReady(p) == scheduler_add_process(rq, [state EXCEPT ![p] = "READY"], p)

\* A bug: a process that is preempted is not put back.
RequeueNever(p) == [rq |-> rq, state |-> state]

\* Only a process that still runs is handed to scheduler_add_process.
Requeued(p) ==
    IF state[p] = "RUNNING" THEN scheduler_add_process(rq, state, p)
    ELSE [rq |-> rq, state |-> state]

(* The part scheduler_tick and scheduler_yield share: requeue the process  *)
(* that runs unless it has terminated, pick the next, and if it is another *)
(* one set the TSS and switch.  qu is quantum as it is by then, isr the    *)
(* in-service register, and kept what it becomes when nothing switches.    *)
Reschedule(place, qu, isr, kept) ==
    LET old    == current_process
        queued == Requeued(old)
        picked == scheduler_schedule(queued.rq, queued.state, qu)
    IN  /\ rq' = picked.rq
        /\ state' = picked.state
        /\ quantum' = picked.quantum
        /\ current_process' = picked.next
        /\ IF picked.next = old
           THEN /\ in_service' = kept
                /\ UNCHANGED <<context, esp0, halted>>
           ELSE /\ tss_set_kernel_stack(picked.next)
                /\ context_switch(old, picked.next, place, isr)

\* A bug: the quantum is added to what is left of the last one.
YieldAccumulates ==
    LET qu == IF state[current_process] = "RUNNING"
              THEN [quantum EXCEPT ![current_process] = @ + QUANTUM] ELSE quantum
    IN  Reschedule("yield", qu, in_service, in_service)

(* scheduler_yield, after its tests.  A process that still runs gets a     *)
(* full quantum first.                                                     *)
YieldNow ==
    LET qu == IF state[current_process] = "RUNNING"
              THEN [quantum EXCEPT ![current_process] = QUANTUM] ELSE quantum
    IN  Reschedule("yield", qu, in_service, in_service)

scheduler_yield ==
    IF scheduler_enabled /\ rq.count > 0
    THEN YieldNow
    ELSE UNCHANGED <<scheduling, switching>>

---------------------------------------------------------------------------
(* IRQ 0.  With the scheduler disabled timer_handler changes nothing that  *)
(* is modelled here.                                                       *)

\* Interrupts are on and the PIC delivers IRQ n: none as urgent is in service.
Deliverable(n) == halted = "no" /\ \A i \in in_service : n < i

\* A bug: the tick is not counted.
NoTimePasses == quantum[current_process]

TimeLeft == IF quantum[current_process] > 0 THEN quantum[current_process] - 1 ELSE 0

Decremented == [quantum EXCEPT ![current_process] = TimeLeft]

\* The quantum lasts: decrement and acknowledge.
TickKeepRunning ==
    /\ Deliverable(0)
    /\ scheduler_enabled
    /\ TimeLeft > 0
    /\ quantum' = Decremented
    /\ UNCHANGED <<rq, state, switching, creation, scheduler_enabled, typed, shell, user>>

\* The quantum is over and nobody waits: a new one.
TickRenew ==
    /\ Deliverable(0)
    /\ scheduler_enabled
    /\ TimeLeft = 0
    /\ rq.count = 0
    /\ quantum' = [quantum EXCEPT ![current_process] = QUANTUM]
    /\ UNCHANGED <<rq, state, switching, creation, scheduler_enabled, typed, shell, user>>

\* A bug: timer_handler acknowledges before it calls scheduler_tick.
TickEoiFirst ==
    /\ Deliverable(0)
    /\ scheduler_enabled
    /\ TimeLeft = 0
    /\ rq.count > 0
    /\ Reschedule("tick", Decremented, in_service, in_service)
    /\ UNCHANGED <<creation, scheduler_enabled, typed, shell, user>>

(* The quantum is over and somebody waits.  IRQ 0 is in service while      *)
(* scheduler_tick runs; it stays so if another context than a tick resumes.*)
TickSwitch ==
    /\ Deliverable(0)
    /\ scheduler_enabled
    /\ TimeLeft = 0
    /\ rq.count > 0
    /\ Reschedule("tick", Decremented, in_service \cup {0},
                  pic_send_eoi(in_service \cup {0}))
    /\ UNCHANGED <<creation, scheduler_enabled, typed, shell, user>>

timer_handler == TickKeepRunning \/ TickRenew \/ TickSwitch

---------------------------------------------------------------------------
(* IRQ 1 and the shell. *)

Creates == {"ps create", "usermode test"}

(* The operator completes a command line; keyboard_handler is one handler. *)
(* Unless CreateWhileEnabled, processes are created as the docs show it:   *)
(* before the scheduler is started, or after it is stopped.                *)
Type(command) ==
    /\ Deliverable(1)
    /\ Len(typed) < TYPE_AHEAD
    /\ command \in Creates /\ ~CreateWhileEnabled =>
          ~scheduler_enabled /\ \A i \in DOMAIN typed : typed[i] # "sched start"
    /\ typed' = Append(typed, command)
    /\ UNCHANGED <<scheduling, switching, creation, scheduler_enabled, shell, user>>

keyboard_handler == \E command \in Commands : Type(command)

\* The shell executes an instruction: the idle process has the CPU.
ShellRuns(pc) == halted = "no" /\ current_process = 0 /\ shell.pc = pc

\* console_readline returns a line and shell_process_command starts on it.
Reads(command) ==
    /\ ShellRuns("read")
    /\ typed # <<>>
    /\ Head(typed) = command
    /\ typed' = Tail(typed)

cmd_create(command) ==
    /\ Reads(command)
    /\ shell' = [shell EXCEPT !.pc = "create", !.left = 2,
                              !.kind = IF command = "ps create" THEN "kernel" ELSE "user"]
    /\ UNCHANGED <<scheduling, switching, creation, scheduler_enabled, user>>

cmd_sched_start ==
    /\ Reads("sched start")
    /\ scheduler_enabled' = TRUE
    /\ UNCHANGED <<scheduling, switching, creation, shell, user>>

cmd_sched_stop ==
    /\ Reads("sched stop")
    /\ scheduler_enabled' = FALSE
    /\ UNCHANGED <<scheduling, switching, creation, shell, user>>

\* The tests of the command and of scheduler_yield; a tick may follow them.
cmd_sched_yield ==
    /\ Reads("sched yield")
    /\ shell' = IF scheduler_enabled /\ rq.count > 0
                THEN [shell EXCEPT !.pc = "yield"] ELSE shell
    /\ UNCHANGED <<scheduling, switching, creation, scheduler_enabled, user>>

\* "cli; hlt"
cmd_exit ==
    /\ Reads("exit")
    /\ halted' = "exit"
    /\ UNCHANGED <<scheduling, current_process, context, esp0, in_service, creation,
                   scheduler_enabled, shell, user>>

(* The rest of scheduler_yield.  It runs with interrupts on, but it starts *)
(* by giving idle a full quantum and takes far less than one, so ticks in  *)
(* it only decrement a quantum that is set again before idle next runs.    *)
ShellYield ==
    /\ ShellRuns("yield")
    /\ YieldNow
    /\ shell' = AtPrompt
    /\ UNCHANGED <<creation, scheduler_enabled, typed, user>>

Free(pids) == {p \in pids : state[p] = "TERMINATED"}

\* The scan stops at p: the first free slot from next_pid on, else from 1 on.
process_allocate_pid(p) ==
    /\ p \in Free(1 .. MAX_PROCESSES - 1)
    /\ IF p >= next_pid
       THEN Free(next_pid .. p - 1) = {}
       ELSE Free(next_pid .. MAX_PROCESSES - 1) = {} /\ Free(1 .. p - 1) = {}

\* The next of the two processes of the command, or the prompt.
NextCreation ==
    IF shell.left > 1 THEN [shell EXCEPT !.pc = "create", !.left = @ - 1] ELSE AtPrompt

\* process_create finds no free slot.
CreateNoPid ==
    /\ ShellRuns("create")
    /\ Free(1 .. MAX_PROCESSES - 1) = {}
    /\ shell' = NextCreation
    /\ UNCHANGED <<scheduling, switching, creation, scheduler_enabled, typed, user>>

(* process_create has cleared the slot when it finds that its stack was    *)
(* never released; process_free_pid gives the slot back.                   *)
CreateNoStack(p) ==
    /\ ShellRuns("create")
    /\ process_allocate_pid(p)
    /\ stack_allocated[p]
    /\ next_pid' = p + 1
    /\ rq' = Enter(rq, p, NULL)
    /\ quantum' = [quantum EXCEPT ![p] = QUANTUM]
    /\ context' = [context EXCEPT ![p] = "kernel"]
    /\ shell' = NextCreation
    /\ UNCHANGED <<state, stack_allocated, current_process, esp0, in_service,
                   halted, scheduler_enabled, typed, user>>

(* process_create succeeds, process_setup_user_mode follows for a ring-3   *)
(* process, and scheduler_add_process, which finds the state process_create *)
(* set, READY, and so does not refuse p, loads the tail and fills in p.     *)
Create(p) ==
    /\ ShellRuns("create")
    /\ process_allocate_pid(p)
    /\ ~stack_allocated[p]
    /\ next_pid' = p + 1
    /\ stack_allocated' = [stack_allocated EXCEPT ![p] = TRUE]
    /\ state' = [state EXCEPT ![p] = "READY"]
    /\ quantum' = [quantum EXCEPT ![p] = QUANTUM]
    /\ context' = [context EXCEPT ![p] = shell.kind]
    /\ user' = [user EXCEPT ![p] = Started]
    /\ rq' = Enter(rq, p, rq.tail)
    /\ shell' = [shell EXCEPT !.pc = "link", !.process = p, !.tail = rq.tail]
    /\ UNCHANGED <<current_process, esp0, in_service, halted, scheduler_enabled, typed>>

process_create == CreateNoPid \/ \E p \in PID : CreateNoStack(p) \/ Create(p)

\* The remaining stores of scheduler_add_process(shell.process), one by one.
AddStep(pc, q, after) ==
    /\ ShellRuns(pc)
    /\ rq' = q
    /\ shell' = after
    /\ UNCHANGED <<state, quantum, switching, creation, scheduler_enabled, typed, user>>

AddLink  == AddStep("link", Link(rq, shell.process, shell.tail), [shell EXCEPT !.pc = "tail"])
AddTail  == AddStep("tail", SetTail(rq, shell.process), [shell EXCEPT !.pc = "count"])
AddCount == AddStep("count", IncrementCount(rq), NextCreation)

shell_run ==
    \/ \E command \in Creates : cmd_create(command)
    \/ cmd_sched_start
    \/ cmd_sched_stop
    \/ cmd_sched_yield
    \/ cmd_exit
    \/ ShellYield
    \/ process_create
    \/ AddLink
    \/ AddTail
    \/ AddCount

---------------------------------------------------------------------------
(* Ring 3 and INT 0x80. *)

\* What pushad leaves in memory, lowest address first.
pushad_frame == <<"edi", "esi", "ebp", "esp", "ebx", "edx", "ecx", "eax">>

\* The first fields of registers_t, by which syscall_handler reads the frame.
registers_t == <<"eax", "ebx", "ecx", "edx", "esi", "edi", "ebp", "esp">>

\* The register of the caller that the handler finds in a field.
RegisterIn(field) ==
    pushad_frame[CHOOSE i \in DOMAIN registers_t : registers_t[i] = field]

\* process_exit: the process is marked, and goes on.
process_exit == [state EXCEPT ![current_process] = "TERMINATED"]

\* The call syscall_handler selects for a caller with these registers.
syscall_num(eax, edi) == IF RegisterIn("eax") = "edi" THEN edi ELSE eax

(* sys_exit, sys_yield and sys_write return 0 here (the buffer pointer     *)
(* sys_write finds is EBP, null in the test programs), the others -1.      *)
syscall_result(num) == IF num \in {1, 2, 4} THEN 0 ELSE -1

\* The EDI the caller gets back: the result, if that is where it is stored.
ReturnedEdi(eax, edi) ==
    IF RegisterIn("eax") = "edi" THEN syscall_result(syscall_num(eax, edi)) ELSE edi

syscall_handler(num) ==
    \/ /\ num = 1
       /\ state' = process_exit
       /\ UNCHANGED <<rq, quantum, switching>>
    \/ /\ num = 4
       /\ scheduler_yield
    \/ /\ num \notin {1, 4}
       /\ UNCHANGED <<scheduling, switching>>

\* A ring-3 instruction of p is executed.
UserRuns(p) == halted = "no" /\ current_process = p /\ p # 0

\* INT 0x80 with these registers; the program is at pc when it returns.
Int80(p, eax, edi, pc) ==
    /\ syscall_handler(syscall_num(eax, edi))
    /\ user' = [user EXCEPT ![p] =
          [pc |-> pc, edi |-> IF UserCode = "test" THEN ReturnedEdi(eax, edi) ELSE 0]]
    /\ UNCHANGED <<creation, scheduler_enabled, typed, shell>>

\* The calls outside the loop: write before it, exit after it.
TestCall(p) ==
    /\ UserRuns(p)
    /\ user[p].pc \in {"write", "exit"}
    /\ IF user[p].pc = "write"
       THEN Int80(p, 2, user[p].edi, "loop")
       ELSE Int80(p, 1, user[p].edi, "hlt")

\* The compare that ends an iteration.
AfterIteration(edi) == IF edi < ITERATIONS THEN "loop" ELSE "exit"

\* One iteration: count, yield every YIELD_EVERY times, compare.
TestLoop(p) ==
    LET edi == user[p].edi + 1
    IN  /\ UserRuns(p)
        /\ user[p].pc = "loop"
        /\ IF edi % YIELD_EVERY = 0
           THEN Int80(p, 4, edi, AfterIteration(ReturnedEdi(4, edi)))
           ELSE /\ user' = [user EXCEPT ![p] = [pc |-> AfterIteration(edi), edi |-> edi]]
                /\ UNCHANGED <<scheduling, switching, creation, scheduler_enabled, typed, shell>>

(* Other ring-3 code, written with userlib.h: it calls anything with       *)
(* anything in EDI, and loops for ever after exit.                         *)
AnyCall(p) ==
    /\ UserRuns(p)
    /\ user[p].pc = "run"
    /\ \E eax \in 1 .. 4, edi \in 0 .. 4 :
          Int80(p, eax, edi, IF eax = 1 THEN "spin" ELSE "run")

(* A privileged instruction in ring 3 (the hlt after exit in the test      *)
(* programs): general protection fault, isr_handler panics and halts.      *)
UserFault(p) ==
    /\ UserRuns(p)
    /\ user[p].pc \in {"hlt", "run"}
    /\ halted' = "panic"
    /\ UNCHANGED <<scheduling, current_process, context, esp0, in_service, creation,
                   scheduler_enabled, typed, shell, user>>

user_program(p) == TestCall(p) \/ TestLoop(p) \/ AnyCall(p) \/ UserFault(p)

---------------------------------------------------------------------------
Next ==
    \/ timer_handler
    \/ keyboard_handler
    \/ shell_run
    \/ \E p \in PID : user_program(p)

Spec == Init /\ [][Next]_vars

(* The timer keeps firing, and the processor executes instructions: the    *)
(* shell's when idle is current and ring-3 ones otherwise.                 *)
Fairness ==
    /\ WF_vars(timer_handler)
    /\ WF_vars(shell_run)
    /\ WF_vars(\E p \in PID : TestCall(p) \/ TestLoop(p))

FairSpec == Spec /\ Fairness

---------------------------------------------------------------------------
(* Properties. *)

\* Every variable holds a value of the type its C declaration and the code give it.
TypeOK ==
    /\ rq \in Queue
    /\ state \in [PID -> States]
    /\ quantum \in [PID -> 0 .. QUANTUM]
    /\ stack_allocated \in [PID -> BOOLEAN]
    /\ next_pid \in 1 .. MAX_PROCESSES
    /\ current_process \in PID
    /\ scheduler_enabled \in BOOLEAN
    /\ context \in [PID -> Contexts]
    /\ esp0 \in PID
    /\ in_service \in SUBSET {0, 1}
    /\ typed \in Seq(Commands)
    /\ shell \in ShellState
    /\ user \in [PID -> [pc : UserAt, edi : Int]]
    /\ halted \in {"no", "panic", "exit"}

\* The processes switched out inside scheduler_tick, before timer_handler's EOI.
SuspendedInTick == {p \in PID \ {current_process} : context[p] = "tick"}

(* At most one process is suspended in the timer handler, and while one is *)
(* IRQ 0 is in service: the PIC holds back every further tick until the    *)
(* handler that was switched away has resumed and acknowledged.  This is   *)
(* what keeps timer_handler from nesting through scheduler_tick, and the   *)
(* one EOI a resumed handler sends from acknowledging another interrupt.   *)
NoNestedTick ==
    /\ \A p, r \in SuspendedInTick : p = r
    /\ SuspendedInTick # {} => 0 \in in_service

\* The lists the ready queue can be: sequences of distinct processes.
Lists == {s \in UNION {[1 .. n -> PID] : n \in 0 .. MAX_PROCESSES} : Injective(s)}

\* The process the shell has created but not yet counted into the queue.
BeingAdded == IF shell.pc \in {"link", "tail", "count"} THEN {shell.process} ELSE {}

(* The scheduler loses nobody and duplicates nobody: between two           *)
(* operations on it, the pointers of the ready queue form one list that    *)
(* holds every READY process exactly once and nobody else, and the only    *)
(* RUNNING process is current_process.                                     *)
NoLostProcess ==
    /\ BeingAdded = {} =>
          \E s \in Lists : IsQueue(rq, s) /\ Members(s) = {p \in PID : state[p] = "READY"}
    /\ \A p \in PID : state[p] = "RUNNING" => p = current_process

(* An unacknowledged timer interrupt is not forgotten: the process that     *)
(* will send its EOI is live and waits in the ready queue.                 *)
EoiNotLost ==
    0 \in in_service => \E p \in SuspendedInTick : state[p] = "READY"

(* An interrupt taken in ring 3 finds in the TSS the stack of the process  *)
(* that runs, and that stack is reserved for it.                           *)
OwnKernelStack ==
    current_process # 0 => esp0 = current_process /\ stack_allocated[current_process]

\* The processes that were created and have exited.
Exited == {p \in PID : stack_allocated[p] /\ state[p] = "TERMINATED"}

(* Exit is final: whatever yields and ticks follow, and although the code   *)
(* after the exit may run on, a process that has exited is never READY or   *)
(* RUNNING again.  process_create does not revive it either: the search     *)
(* for a slot may stop at its slot, whose stack was never released.         *)
ExitIsFinal == [][Exited \subseteq Exited']_vars

(* Preemption, as far as it goes: a process that runs while others wait,   *)
(* the scheduler is on and IRQ 0 is acknowledged, loses the CPU in the end.*)
PreemptedOnceAcknowledged ==
    \A p \in PID :
        (/\ current_process = p
         /\ scheduler_enabled
         /\ rq.count > 0
         /\ 0 \notin in_service)
        ~> (current_process # p \/ ~scheduler_enabled \/ halted # "no")

\* The processes in queue order, found as scheduler_print_stats finds them.
ReadyList ==
    LET node[i \in 1 .. rq.count] == IF i = 1 THEN rq.head ELSE rq.next[node[i - 1]]
    IN  [i \in 1 .. rq.count |-> node[i]]

RR == INSTANCE RoundRobin
        WITH Process <- PID, Idle <- 0, ready <- ReadyList, running <- current_process,
             finished <- Exited

(* The pointers, the steps in which the shell adds a process, ticks, yields *)
(* and exits together implement the FIFO of RoundRobin.                    *)
RefinesRoundRobin == RR!Spec

---------------------------------------------------------------------------
(* Statements of the repository about this part that the code does not     *)
(* satisfy; each is checked by a run that finds the violation.             *)

\* "Kernel does NOT panic" (TESTING.md, test 6: ps create, sched start).
NoPanic == halted # "panic"

(* "All processes share CPU time fairly. The scheduler rotates through     *)
(* them in round-robin fashion." (QUICKSTART.md)                           *)
EveryReadyProcessRuns ==
    \A p \in PID :
        (state[p] = "READY" /\ scheduler_enabled)
        ~> (current_process = p \/ ~scheduler_enabled \/ halted # "no")
===========================================================================
