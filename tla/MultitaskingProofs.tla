------------------------ MODULE MultitaskingProofs ------------------------
(* Machine-checked proofs about Multitasking, for every number of           *)
(* processes, quantum, set of commands and ring-3 program.                  *)
EXTENDS Multitasking, ReadyQueueProofs, FiniteSetTheorems

---------------------------------------------------------------------------
(* The operations on the queue keep its fields pointers and a count.        *)

\* The empty queue of scheduler_init is a queue.
LEMMA EmptyQueueType == EmptyQueue \in Queue
  BY DEF EmptyQueue, Queue, Pointer

\* Each store of scheduler_add_process leaves a queue.
LEMMA StoreTypes ==
  ASSUME NEW q \in Queue, NEW p \in PID, NEW t \in Pointer
  PROVE  /\ Enter(q, p, t) \in Queue
         /\ Link(q, p, t) \in Queue
         /\ SetTail(q, p) \in Queue
         /\ IncrementCount(q) \in Queue
<1>1. Enter(q, p, t) \in Queue
  BY DEF Enter, Queue, Pointer
<1>2. Link(q, p, t) \in Queue
  BY DEF Link, Queue, Pointer
<1>3. SetTail(q, p) \in Queue
  BY DEF SetTail, Queue, Pointer
<1>4. IncrementCount(q) \in Queue
  BY DEF IncrementCount, Queue, Pointer
<1> QED
  BY <1>1, <1>2, <1>3, <1>4

\* The stores of scheduler_add_process together return a queue.
LEMMA AddType ==
  ASSUME NEW q \in Queue, NEW p \in PID
  PROVE  Appended(q, p) \in Queue
<1>1. q.tail \in Pointer
  BY DEF Queue
<1> DEFINE entered == Enter(q, p, q.tail)
           linked  == Link(entered, p, q.tail)
           tailed  == SetTail(linked, p)
<1>2. entered \in Queue
  BY <1>1, StoreTypes
<1> HIDE DEF entered
<1>3. linked \in Queue
  BY <1>1, <1>2, StoreTypes
<1> HIDE DEF linked
<1>4. tailed \in Queue
  BY <1>1, <1>3, StoreTypes
<1> HIDE DEF tailed
<1>5. IncrementCount(tailed) \in Queue
  BY <1>1, <1>4, StoreTypes
<1> QED
  BY <1>5 DEF Appended, tailed, linked, entered

\* scheduler_remove_process returns a queue.
LEMMA RemoveType ==
  ASSUME NEW q \in Queue, NEW p \in PID
  PROVE  scheduler_remove_process(q, p) \in Queue
  BY DEF scheduler_remove_process, Queue, Pointer

(* scheduler_schedule returns a process of the table, and a queue, a state  *)
(* and a quantum function of their types.                                   *)
LEMMA ScheduleType ==
  ASSUME NEW q \in Queue, NEW st \in [PID -> States], NEW qu \in [PID -> 0 .. QUANTUM]
  PROVE  LET picked == scheduler_schedule(q, st, qu)
         IN  /\ picked.next \in PID
             /\ picked.rq \in Queue
             /\ picked.state \in [PID -> States]
             /\ picked.quantum \in [PID -> 0 .. QUANTUM]
<1>1. 0 \in PID /\ QUANTUM \in 0 .. QUANTUM
  BY MaxProcessesAssumption, BoundsAssumption DEF PID
<1>2. CASE q.head = NULL
  BY <1>1, <1>2 DEF scheduler_schedule
<1>3. CASE q.head # NULL
  <2>1. q.head \in PID
    BY <1>3 DEF Queue, Pointer
  <2>2. scheduler_remove_process(q, q.head) \in Queue
    BY <2>1, RemoveType
  <2> QED
    BY <1>1, <1>3, <2>1, <2>2 DEF scheduler_schedule, States
<1> QED
  BY <1>2, <1>3

(* A process that still runs is not refused by scheduler_add_process: it is *)
(* appended and READY.  Any other is left where it is.                      *)
LEMMA RequeuedIs ==
  ASSUME TypeOK
  PROVE  LET old     == current_process
             requeue == state[old] = "RUNNING"
         IN  /\ Requeued(old).rq = IF requeue THEN Appended(rq, old) ELSE rq
             /\ Requeued(old).state = IF requeue THEN [state EXCEPT ![old] = "READY"] ELSE state
  BY NullAssumption DEF TypeOK, Requeued, scheduler_add_process

(* What a rescheduling does, whichever process it picks: the types hold,    *)
(* and either nothing is switched or the old process is suspended at place  *)
(* and an EOI is sent exactly when the new one resumes in the tick handler. *)
LEMMA RescheduleEffect ==
  ASSUME TypeOK,
         NEW place \in {"tick", "yield"}, NEW qu \in [PID -> 0 .. QUANTUM],
         NEW isr \in SUBSET {0, 1}, NEW kept \in SUBSET {0, 1},
         Reschedule(place, qu, isr, kept)
  PROVE  /\ rq' \in Queue
         /\ state' \in [PID -> States]
         /\ quantum' \in [PID -> 0 .. QUANTUM]
         /\ current_process' \in PID
         /\ context' \in [PID -> Contexts]
         /\ esp0' \in PID
         /\ in_service' \in SUBSET {0, 1}
         /\ halted' \in {"no", "panic", "exit"}
         /\ \/ /\ current_process' = current_process
               /\ context' = context
               /\ in_service' = kept
            \/ /\ current_process' # current_process
               /\ context' = [context EXCEPT ![current_process] = place]
               /\ in_service' = IF context[current_process'] = "tick"
                                THEN pic_send_eoi(isr) ELSE isr
<1> DEFINE old     == current_process
           requeue == state[old] = "RUNNING"
           q       == IF requeue THEN Appended(rq, old) ELSE rq
           st      == IF requeue THEN [state EXCEPT ![old] = "READY"] ELSE state
           picked  == scheduler_schedule(q, st, qu)
<1>1. old \in PID /\ rq \in Queue /\ state \in [PID -> States]
      /\ context \in [PID -> Contexts] /\ esp0 \in PID /\ halted \in {"no", "panic", "exit"}
  BY DEF TypeOK
<1>2. q \in Queue
  BY <1>1, AddType
<1>3. st \in [PID -> States]
  BY <1>1 DEF States
<1>4. /\ rq' = picked.rq
      /\ state' = picked.state
      /\ quantum' = picked.quantum
      /\ current_process' = picked.next
      /\ IF picked.next = old
         THEN in_service' = kept /\ UNCHANGED <<context, esp0, halted>>
         ELSE esp0' = picked.next /\ context_switch(old, picked.next, place, isr)
  BY RequeuedIs DEF Reschedule, tss_set_kernel_stack
<1>5. /\ picked.next \in PID
      /\ picked.rq \in Queue
      /\ picked.state \in [PID -> States]
      /\ picked.quantum \in [PID -> 0 .. QUANTUM]
  <2> HIDE DEF q, st
  <2> QED
    BY <1>2, <1>3, ScheduleType
<1> HIDE DEF picked
<1>6. CASE picked.next = old
  BY <1>1, <1>4, <1>5, <1>6
<1>7. CASE picked.next # old
  <2>1. /\ context' = [context EXCEPT ![old] = place]
        /\ in_service' = IF context[picked.next] = "tick" THEN pic_send_eoi(isr) ELSE isr
        /\ halted' = IF context[picked.next] = "kernel" THEN "panic" ELSE halted
        /\ esp0' = picked.next
    BY <1>4, <1>7 DEF context_switch
  <2>2. pic_send_eoi(isr) \in SUBSET {0, 1}
    BY DEF pic_send_eoi
  <2>3. context' \in [PID -> Contexts]
    BY <1>1, <2>1 DEF Contexts
  <2> QED
    BY <1>1, <1>4, <1>5, <1>7, <2>1, <2>2, <2>3
<1> QED
  BY <1>6, <1>7

---------------------------------------------------------------------------
(* Type correctness. *)

\* The prompt, and every place of the creation loop, is a legal shell state.
LEMMA ShellTypes ==
  ASSUME TypeOK
  PROVE  /\ AtPrompt \in ShellState
         /\ NextCreation \in ShellState
         /\ \A at \in ShellAt : [shell EXCEPT !.pc = at] \in ShellState
<1>1. AtPrompt \in ShellState
  <2>1. 0 \in PID /\ NULL \in Pointer
    BY MaxProcessesAssumption DEF PID, Pointer
  <2> QED
    BY <2>1 DEF AtPrompt, ShellState, ShellAt
<1>2. shell \in ShellState
  BY DEF TypeOK
<1>3. NextCreation \in ShellState
  <2>1. CASE shell.left > 1
    <3>1. shell.left - 1 \in 0 .. 2
      BY <1>2, <2>1 DEF ShellState
    <3>2. "create" \in ShellAt
      BY DEF ShellAt
    <3>3. [shell EXCEPT !.pc = "create", !.left = shell.left - 1] \in ShellState
      BY <1>2, <3>1, <3>2 DEF ShellState
    <3> QED
      BY <2>1, <3>3 DEF NextCreation
  <2>2. CASE ~(shell.left > 1)
    BY <1>1, <2>2 DEF NextCreation
  <2> QED
    BY <2>1, <2>2
<1>4. \A at \in ShellAt : [shell EXCEPT !.pc = at] \in ShellState
  BY <1>2 DEF ShellState
<1> QED
  BY <1>1, <1>3, <1>4

\* A tick changes no type.
LEMMA TickType ==
  ASSUME TypeOK, timer_handler
  PROVE  TypeOK'
<1>1. Decremented \in [PID -> 0 .. QUANTUM]
  BY BoundsAssumption DEF Decremented, TimeLeft, TypeOK
<1>2. [quantum EXCEPT ![current_process] = QUANTUM] \in [PID -> 0 .. QUANTUM]
  BY BoundsAssumption DEF TypeOK
<1>3. CASE TickKeepRunning
  BY <1>1, <1>3 DEF TickKeepRunning, TypeOK, switching, creation
<1>4. CASE TickRenew
  BY <1>2, <1>4 DEF TickRenew, TypeOK, switching, creation
<1>5. CASE TickSwitch
  <2>1. /\ in_service \cup {0} \in SUBSET {0, 1}
        /\ pic_send_eoi(in_service \cup {0}) \in SUBSET {0, 1}
    BY DEF TypeOK, pic_send_eoi
  <2>2. Reschedule("tick", Decremented, in_service \cup {0},
                   pic_send_eoi(in_service \cup {0}))
    BY <1>5 DEF TickSwitch
  <2>3. /\ rq' \in Queue
        /\ state' \in [PID -> States]
        /\ quantum' \in [PID -> 0 .. QUANTUM]
        /\ current_process' \in PID
        /\ context' \in [PID -> Contexts]
        /\ esp0' \in PID
        /\ in_service' \in SUBSET {0, 1}
        /\ halted' \in {"no", "panic", "exit"}
    BY <1>1, <2>1, <2>2, RescheduleEffect
  <2> QED
    BY <1>5, <2>3 DEF TickSwitch, TypeOK, creation
<1> QED
  BY <1>3, <1>4, <1>5 DEF timer_handler

\* A yield, of the shell or of ring-3 code, changes no type.
LEMMA YieldType ==
  ASSUME TypeOK, YieldNow \/ UNCHANGED <<scheduling, switching>>
  PROVE  /\ rq' \in Queue
         /\ state' \in [PID -> States]
         /\ quantum' \in [PID -> 0 .. QUANTUM]
         /\ current_process' \in PID
         /\ context' \in [PID -> Contexts]
         /\ esp0' \in PID
         /\ in_service' \in SUBSET {0, 1}
         /\ halted' \in {"no", "panic", "exit"}
<1>1. CASE YieldNow
  <2> DEFINE qu == IF state[current_process] = "RUNNING"
                   THEN [quantum EXCEPT ![current_process] = QUANTUM] ELSE quantum
  <2>1. qu \in [PID -> 0 .. QUANTUM]
    BY BoundsAssumption DEF TypeOK
  <2>2. in_service \in SUBSET {0, 1}
    BY DEF TypeOK
  <2>3. Reschedule("yield", qu, in_service, in_service)
    BY <1>1 DEF YieldNow
  <2> HIDE DEF qu
  <2> QED
    BY <2>1, <2>2, <2>3, RescheduleEffect
<1>2. CASE UNCHANGED <<scheduling, switching>>
  BY <1>2 DEF scheduling, switching, TypeOK
<1> QED
  BY <1>1, <1>2

\* A step of the shell changes no type.
LEMMA ShellType ==
  ASSUME TypeOK, shell_run
  PROVE  TypeOK'
<1> USE DEF TypeOK
<1>1. ASSUME NEW command \in Creates, cmd_create(command)
      PROVE  TypeOK'
  <2>1. shell' \in ShellState
    <3>1. PICK kind \in {"kernel", "user"} :
             shell' = [shell EXCEPT !.pc = "create", !.left = 2, !.kind = kind]
      BY <1>1 DEF cmd_create
    <3>2. "create" \in ShellAt /\ 2 \in 0 .. 2
      BY DEF ShellAt
    <3> QED
      BY <3>1, <3>2 DEF ShellState
  <2>2. typed' \in Seq(Commands)
    BY <1>1, HeadTailProperties DEF cmd_create, Reads
  <2> QED
    BY <1>1, <2>1, <2>2 DEF cmd_create, scheduling, switching, creation
<1>2. CASE cmd_sched_start
  <2>1. typed' \in Seq(Commands)
    BY <1>2, HeadTailProperties DEF cmd_sched_start, Reads
  <2> QED
    BY <1>2, <2>1 DEF cmd_sched_start, scheduling, switching, creation
<1>3. CASE cmd_sched_stop
  <2>1. typed' \in Seq(Commands)
    BY <1>3, HeadTailProperties DEF cmd_sched_stop, Reads
  <2> QED
    BY <1>3, <2>1 DEF cmd_sched_stop, scheduling, switching, creation
<1>4. CASE cmd_sched_yield
  <2>1. typed' \in Seq(Commands)
    BY <1>4, HeadTailProperties DEF cmd_sched_yield, Reads
  <2>2. shell' \in ShellState
    BY <1>4, ShellTypes DEF cmd_sched_yield, ShellAt
  <2> QED
    BY <1>4, <2>1, <2>2 DEF cmd_sched_yield, scheduling, switching, creation
<1>5. CASE cmd_exit
  <2>1. typed' \in Seq(Commands)
    BY <1>5, HeadTailProperties DEF cmd_exit, Reads
  <2> QED
    BY <1>5, <2>1 DEF cmd_exit, scheduling, creation
<1>6. CASE ShellYield
  <2>1. YieldNow
    BY <1>6 DEF ShellYield
  <2>2. /\ rq' \in Queue
        /\ state' \in [PID -> States]
        /\ quantum' \in [PID -> 0 .. QUANTUM]
        /\ current_process' \in PID
        /\ context' \in [PID -> Contexts]
        /\ esp0' \in PID
        /\ in_service' \in SUBSET {0, 1}
        /\ halted' \in {"no", "panic", "exit"}
    BY <2>1, YieldType
  <2>3. shell' \in ShellState
    BY <1>6, ShellTypes DEF ShellYield
  <2> QED
    BY <1>6, <2>2, <2>3 DEF ShellYield, creation
<1>7. CASE CreateNoPid
  <2>1. shell' \in ShellState
    BY <1>7, ShellTypes DEF CreateNoPid
  <2> QED
    BY <1>7, <2>1 DEF CreateNoPid, scheduling, switching, creation
<1>8. ASSUME NEW p \in PID, CreateNoStack(p) \/ Create(p)
      PROVE  TypeOK'
  <2>1. p + 1 \in 1 .. MAX_PROCESSES
    BY MaxProcessesAssumption DEF PID
  <2>2. NULL \in Pointer /\ rq.tail \in Pointer
    BY DEF Queue, Pointer
  <2>3. /\ Enter(rq, p, NULL) \in Queue
        /\ Enter(rq, p, rq.tail) \in Queue
    BY <2>2, StoreTypes
  <2>4. [quantum EXCEPT ![p] = QUANTUM] \in [PID -> 0 .. QUANTUM]
    BY BoundsAssumption
  <2>5. CASE CreateNoStack(p)
    <3>1. shell' \in ShellState
      BY <2>5, ShellTypes DEF CreateNoStack
    <3>2. context' \in [PID -> Contexts]
      BY <2>5 DEF CreateNoStack, Contexts
    <3> QED
      BY <2>1, <2>3, <2>4, <2>5, <3>1, <3>2 DEF CreateNoStack
  <2>6. CASE Create(p)
    <3>1. shell' \in ShellState
      <4>1. shell' = [shell EXCEPT !.pc = "link", !.process = p, !.tail = rq.tail]
        BY <2>6 DEF Create
      <4>2. "link" \in ShellAt
        BY DEF ShellAt
      <4> QED
        BY <2>2, <4>1, <4>2 DEF ShellState
    <3>2. context' \in [PID -> Contexts]
      <4>1. shell.kind \in Contexts
        BY DEF ShellState, Contexts
      <4> QED
        BY <2>6, <4>1 DEF Create
    <3>3. user' \in [PID -> [pc : UserAt, edi : Int]]
      <4>1. Started \in [pc : UserAt, edi : Int]
        BY DEF Started, UserAt
      <4> QED
        BY <2>6, <4>1 DEF Create
    <3>4. state' \in [PID -> States]
      BY <2>6 DEF Create, States
    <3>5. stack_allocated' \in [PID -> BOOLEAN]
      BY <2>6 DEF Create
    <3> QED
      BY <2>1, <2>3, <2>4, <2>6, <3>1, <3>2, <3>3, <3>4, <3>5 DEF Create
  <2> QED
    BY <1>8, <2>5, <2>6
<1>9. CASE AddLink \/ AddTail \/ AddCount
  <2>1. shell.process \in PID /\ shell.tail \in Pointer
    BY DEF ShellState
  <2>2. /\ Link(rq, shell.process, shell.tail) \in Queue
        /\ SetTail(rq, shell.process) \in Queue
        /\ IncrementCount(rq) \in Queue
    BY <2>1, StoreTypes
  <2>3. rq' \in Queue
    BY <1>9, <2>2 DEF AddLink, AddTail, AddCount, AddStep
  <2>4. shell' \in ShellState
    BY <1>9, ShellTypes DEF AddLink, AddTail, AddCount, AddStep, ShellAt
  <2>5. UNCHANGED <<state, quantum, switching, creation, scheduler_enabled, typed, user>>
    BY <1>9 DEF AddLink, AddTail, AddCount, AddStep
  <2> QED
    BY <2>3, <2>4, <2>5 DEF switching, creation
<1> QED
  BY <1>1, <1>2, <1>3, <1>4, <1>5, <1>6, <1>7, <1>8, <1>9 DEF shell_run, process_create

(* The code the handler runs for a system call, and the registers it gives  *)
(* back, are of their types whatever number it found.                       *)
LEMMA SyscallType ==
  ASSUME TypeOK, NEW num \in Int, syscall_handler(num)
  PROVE  /\ rq' \in Queue
         /\ state' \in [PID -> States]
         /\ quantum' \in [PID -> 0 .. QUANTUM]
         /\ current_process' \in PID
         /\ context' \in [PID -> Contexts]
         /\ esp0' \in PID
         /\ in_service' \in SUBSET {0, 1}
         /\ halted' \in {"no", "panic", "exit"}
<1>1. CASE num = 1
  <2>1. state' = process_exit /\ UNCHANGED <<rq, quantum, switching>>
    BY <1>1 DEF syscall_handler
  <2>2. process_exit \in [PID -> States]
    BY DEF process_exit, TypeOK, States
  <2> QED
    BY <2>1, <2>2 DEF switching, TypeOK
<1>2. CASE num = 4
  <2>1. YieldNow \/ UNCHANGED <<scheduling, switching>>
    BY <1>2 DEF syscall_handler, scheduler_yield
  <2> QED
    BY <2>1, YieldType
<1>3. CASE num \notin {1, 4}
  <2>1. UNCHANGED <<scheduling, switching>>
    BY <1>3 DEF syscall_handler
  <2> QED
    BY <2>1, YieldType
<1> QED
  BY <1>1, <1>2, <1>3

\* INT 0x80 changes no type, wherever the program continues.
LEMMA Int80Type ==
  ASSUME TypeOK, NEW p \in PID, NEW eax \in Int, NEW edi \in Int, NEW pc \in UserAt,
         Int80(p, eax, edi, pc)
  PROVE  TypeOK'
<1>1. syscall_num(eax, edi) \in Int
  BY DEF syscall_num
<1>2. ReturnedEdi(eax, edi) \in Int
  BY DEF ReturnedEdi, syscall_result
<1>3. /\ syscall_handler(syscall_num(eax, edi))
      /\ user' = [user EXCEPT ![p] =
            [pc |-> pc, edi |-> IF UserCode = "test" THEN ReturnedEdi(eax, edi) ELSE 0]]
      /\ UNCHANGED <<creation, scheduler_enabled, typed, shell>>
  BY DEF Int80
<1>4. user' \in [PID -> [pc : UserAt, edi : Int]]
  BY <1>2, <1>3 DEF TypeOK
<1>5. /\ rq' \in Queue
      /\ state' \in [PID -> States]
      /\ quantum' \in [PID -> 0 .. QUANTUM]
      /\ current_process' \in PID
      /\ context' \in [PID -> Contexts]
      /\ esp0' \in PID
      /\ in_service' \in SUBSET {0, 1}
      /\ halted' \in {"no", "panic", "exit"}
  BY <1>1, <1>3, SyscallType
<1> QED
  BY <1>3, <1>4, <1>5 DEF TypeOK, creation

\* A step of a ring-3 program changes no type.
LEMMA UserType ==
  ASSUME TypeOK, NEW p \in PID, user_program(p)
  PROVE  TypeOK'
<1>1. user[p].pc \in UserAt /\ user[p].edi \in Int
  BY DEF TypeOK
<1>2. CASE TestCall(p)
  <2>1. {"loop", "hlt"} \subseteq UserAt
    BY DEF UserAt
  <2>2. CASE user[p].pc = "write"
    <3>1. Int80(p, 2, user[p].edi, "loop")
      BY <1>2, <2>2 DEF TestCall
    <3> QED
      BY <1>1, <2>1, <3>1, Int80Type
  <2>3. CASE user[p].pc # "write"
    <3>1. Int80(p, 1, user[p].edi, "hlt")
      BY <1>2, <2>3 DEF TestCall
    <3> QED
      BY <1>1, <2>1, <3>1, Int80Type
  <2> QED
    BY <2>2, <2>3
<1>3. CASE TestLoop(p)
  <2> DEFINE edi == user[p].edi + 1
  <2>1. edi \in Int
    BY <1>1
  <2>2. \A e : AfterIteration(e) \in UserAt
    BY DEF AfterIteration, UserAt
  <2>3. CASE edi % YIELD_EVERY = 0
    <3>1. Int80(p, 4, edi, AfterIteration(ReturnedEdi(4, edi)))
      BY <1>3, <2>3 DEF TestLoop
    <3> QED
      BY <2>1, <2>2, <3>1, Int80Type
  <2>4. CASE edi % YIELD_EVERY # 0
    <3>1. /\ user' = [user EXCEPT ![p] = [pc |-> AfterIteration(edi), edi |-> edi]]
          /\ UNCHANGED <<scheduling, switching, creation, scheduler_enabled, typed, shell>>
      BY <1>3, <2>4 DEF TestLoop
    <3>2. user' \in [PID -> [pc : UserAt, edi : Int]]
      BY <2>1, <2>2, <3>1 DEF TypeOK
    <3> QED
      BY <3>1, <3>2 DEF TypeOK, scheduling, switching, creation
  <2> QED
    BY <2>3, <2>4
<1>4. CASE AnyCall(p)
  <2>1. PICK eax \in 1 .. 4, edi \in 0 .. 4 :
           Int80(p, eax, edi, IF eax = 1 THEN "spin" ELSE "run")
    BY <1>4 DEF AnyCall
  <2>2. (IF eax = 1 THEN "spin" ELSE "run") \in UserAt
    BY DEF UserAt
  <2> QED
    BY <2>1, <2>2, Int80Type
<1>5. CASE UserFault(p)
  BY <1>5 DEF UserFault, TypeOK, scheduling, creation
<1> QED
  BY <1>2, <1>3, <1>4, <1>5 DEF user_program

\* A command line typed is a command.
LEMMA KeyboardType ==
  ASSUME TypeOK, keyboard_handler
  PROVE  TypeOK'
<1>1. PICK command \in Commands : Type(command)
  BY DEF keyboard_handler
<1>2. typed' \in Seq(Commands)
  BY <1>1, AppendProperties DEF Type, TypeOK
<1> QED
  BY <1>1, <1>2 DEF Type, TypeOK, scheduling, switching, creation

(* Every variable keeps its type for ever: no operation on the process      *)
(* table, the ready queue or the shell leaves it, for any number of         *)
(* processes and whatever is typed and executed in ring 3.                  *)
THEOREM TypeCorrect == Spec => []TypeOK
<1>1. Init => TypeOK
  <2> SUFFICES ASSUME Init PROVE TypeOK
    OBVIOUS
  <2>1. 0 \in PID /\ 1 \in 0 .. QUANTUM /\ 0 \in 0 .. QUANTUM
        /\ 1 \in 1 .. MAX_PROCESSES
    BY MaxProcessesAssumption, BoundsAssumption DEF PID
  <2>2. shell \in ShellState
    <3>1. NULL \in Pointer
      BY DEF Pointer
    <3> QED
      BY <2>1, <3>1 DEF Init, AtPrompt, ShellState, ShellAt
  <2>3. user \in [PID -> [pc : UserAt, edi : Int]]
    BY DEF Init, Started, UserAt
  <2>4. typed \in Seq(Commands)
    BY EmptySeq DEF Init
  <2>5. state \in [PID -> States] /\ context \in [PID -> Contexts]
    BY DEF Init, States, Contexts
  <2> QED
    BY <2>1, <2>2, <2>3, <2>4, <2>5, EmptyQueueType DEF Init, TypeOK
<1>2. TypeOK /\ [Next]_vars => TypeOK'
  <2> SUFFICES ASSUME TypeOK, [Next]_vars PROVE TypeOK'
    OBVIOUS
  <2>1. CASE timer_handler
    BY <2>1, TickType
  <2>2. CASE keyboard_handler
    BY <2>2, KeyboardType
  <2>3. CASE shell_run
    BY <2>3, ShellType
  <2>4. ASSUME NEW p \in PID, user_program(p) PROVE TypeOK'
    BY <2>4, UserType
  <2>5. CASE UNCHANGED vars
    BY <2>5 DEF vars, scheduling, switching, creation, TypeOK
  <2> QED
    BY <2>1, <2>2, <2>3, <2>4, <2>5 DEF Next
<1> QED
  BY <1>1, <1>2, PTL DEF Spec

---------------------------------------------------------------------------
(* The timer handler does not nest.  NoNestedTick is inductive together     *)
(* with the types: a tick needs IRQ 0 out of service, hence nobody          *)
(* suspended in an earlier one; a switch to the one process that is         *)
(* suspended there acknowledges, and any other switch leaves both alone.    *)

\* A step that neither switches nor acknowledges keeps the property.
LEMMA NoSwitchNoNesting ==
  ASSUME NoNestedTick, UNCHANGED <<current_process, context, in_service>>
  PROVE  NoNestedTick'
  BY DEF NoNestedTick, SuspendedInTick

\* A yield suspends no one in the tick handler.
LEMMA YieldNoNesting ==
  ASSUME TypeOK, NoNestedTick, YieldNow \/ UNCHANGED <<scheduling, switching>>
  PROVE  NoNestedTick'
<1>1. CASE YieldNow
  <2> DEFINE qu == IF state[current_process] = "RUNNING"
                   THEN [quantum EXCEPT ![current_process] = QUANTUM] ELSE quantum
  <2>1. qu \in [PID -> 0 .. QUANTUM] /\ in_service \in SUBSET {0, 1}
    BY BoundsAssumption DEF TypeOK
  <2>2. Reschedule("yield", qu, in_service, in_service)
    BY <1>1 DEF YieldNow
  <2> HIDE DEF qu
  <2>3. /\ current_process' \in PID
        /\ \/ /\ current_process' = current_process
              /\ context' = context
              /\ in_service' = in_service
           \/ /\ current_process' # current_process
              /\ context' = [context EXCEPT ![current_process] = "yield"]
              /\ in_service' = IF context[current_process'] = "tick"
                               THEN pic_send_eoi(in_service) ELSE in_service
    BY <2>1, <2>2, RescheduleEffect
  <2>4. CASE current_process' = current_process
    BY <2>3, <2>4, NoSwitchNoNesting
  <2>5. CASE current_process' # current_process
    <3>1. SuspendedInTick' = SuspendedInTick \ {current_process'}
      BY <2>3, <2>5 DEF SuspendedInTick, TypeOK
    <3>2. CASE context[current_process'] = "tick"
      <4>1. current_process' \in SuspendedInTick
        BY <2>3, <2>5, <3>2 DEF SuspendedInTick
      <4>2. SuspendedInTick' = {}
        BY <3>1, <4>1 DEF NoNestedTick
      <4> QED
        BY <4>2 DEF NoNestedTick
    <3>3. CASE context[current_process'] # "tick"
      <4>1. in_service' = in_service
        BY <2>3, <2>5, <3>3
      <4> QED
        BY <3>1, <4>1 DEF NoNestedTick
    <3> QED
      BY <3>2, <3>3
  <2> QED
    BY <2>4, <2>5
<1>2. CASE UNCHANGED <<scheduling, switching>>
  BY <1>2, NoSwitchNoNesting DEF switching
<1> QED
  BY <1>1, <1>2

\* A tick that switches finds no process suspended in another.
LEMMA TickNoNesting ==
  ASSUME TypeOK, NoNestedTick, timer_handler
  PROVE  NoNestedTick'
<1>1. CASE TickKeepRunning \/ TickRenew
  BY <1>1, NoSwitchNoNesting DEF TickKeepRunning, TickRenew, switching
<1>2. CASE TickSwitch
  <2>1. 0 \notin in_service
    BY <1>2 DEF TickSwitch, Deliverable
  <2>2. SuspendedInTick = {}
    BY <2>1 DEF NoNestedTick
  <2> DEFINE isr  == in_service \cup {0}
             kept == pic_send_eoi(isr)
  <2>3. isr \in SUBSET {0, 1} /\ kept \in SUBSET {0, 1} /\ 0 \in isr
    BY DEF TypeOK, pic_send_eoi
  <2>4. Decremented \in [PID -> 0 .. QUANTUM]
    BY BoundsAssumption DEF Decremented, TimeLeft, TypeOK
  <2>5. Reschedule("tick", Decremented, isr, kept)
    BY <1>2 DEF TickSwitch
  <2> HIDE DEF isr, kept
  <2>6. /\ current_process' \in PID
        /\ \/ /\ current_process' = current_process
              /\ context' = context
              /\ in_service' = kept
           \/ /\ current_process' # current_process
              /\ context' = [context EXCEPT ![current_process] = "tick"]
              /\ in_service' = IF context[current_process'] = "tick"
                               THEN pic_send_eoi(isr) ELSE isr
    BY <2>3, <2>4, <2>5, RescheduleEffect
  <2>7. CASE current_process' = current_process
    <3>1. SuspendedInTick' = {}
      BY <2>2, <2>6, <2>7 DEF SuspendedInTick
    <3> QED
      BY <3>1 DEF NoNestedTick
  <2>8. CASE current_process' # current_process
    <3>1. context[current_process'] # "tick"
      BY <2>2, <2>6, <2>8 DEF SuspendedInTick
    <3>2. 0 \in in_service'
      BY <2>3, <2>6, <2>8, <3>1
    <3>3. SuspendedInTick' \subseteq {current_process}
      BY <2>2, <2>6, <2>8 DEF SuspendedInTick, TypeOK
    <3> QED
      BY <3>2, <3>3 DEF NoNestedTick
  <2> QED
    BY <2>7, <2>8
<1> QED
  BY <1>1, <1>2 DEF timer_handler

\* The shell suspends no one in the tick handler.
LEMMA ShellNoNesting ==
  ASSUME TypeOK, NoNestedTick, shell_run
  PROVE  NoNestedTick'
<1>1. CASE ShellYield
  BY <1>1, YieldNoNesting DEF ShellYield
<1>2. ASSUME NEW p \in PID, CreateNoStack(p) \/ Create(p)
      PROVE  NoNestedTick'
  <2>1. PICK kind \in {"kernel", "user"} : context' = [context EXCEPT ![p] = kind]
    BY <1>2 DEF CreateNoStack, Create, TypeOK, ShellState
  <2>2. UNCHANGED <<current_process, in_service>>
    BY <1>2 DEF CreateNoStack, Create
  <2>3. SuspendedInTick' \subseteq SuspendedInTick
    BY <2>1, <2>2 DEF SuspendedInTick, TypeOK
  <2> QED
    BY <2>2, <2>3 DEF NoNestedTick
<1>3. ASSUME NEW command \in Creates, cmd_create(command)
      PROVE  NoNestedTick'
  BY <1>3, NoSwitchNoNesting DEF cmd_create, switching
<1>4. CASE cmd_sched_start \/ cmd_sched_stop \/ cmd_sched_yield \/ cmd_exit
  BY <1>4, NoSwitchNoNesting
     DEF cmd_sched_start, cmd_sched_stop, cmd_sched_yield, cmd_exit, switching
<1>5. CASE CreateNoPid
  BY <1>5, NoSwitchNoNesting DEF CreateNoPid, switching
<1>6. CASE AddLink \/ AddTail \/ AddCount
  BY <1>6, NoSwitchNoNesting DEF AddLink, AddTail, AddCount, AddStep, switching
<1> QED
  BY <1>1, <1>2, <1>3, <1>4, <1>5, <1>6 DEF shell_run, process_create

\* Neither does a system call.
LEMMA SyscallNoNesting ==
  ASSUME TypeOK, NoNestedTick, NEW num, syscall_handler(num)
  PROVE  NoNestedTick'
<1>1. CASE UNCHANGED <<rq, quantum, switching>>
  BY <1>1, NoSwitchNoNesting DEF switching
<1>2. CASE YieldNow \/ UNCHANGED <<scheduling, switching>>
  BY <1>2, YieldNoNesting
<1> QED
  BY <1>1, <1>2 DEF syscall_handler, scheduler_yield

\* Nor any other step of a ring-3 program.
LEMMA UserNoNesting ==
  ASSUME TypeOK, NoNestedTick, NEW p \in PID, user_program(p)
  PROVE  NoNestedTick'
<1>1. ASSUME NEW eax, NEW edi, NEW pc, Int80(p, eax, edi, pc)
      PROVE  NoNestedTick'
  BY <1>1, SyscallNoNesting DEF Int80
<1>2. CASE TestCall(p)
  BY <1>1, <1>2 DEF TestCall
<1>3. CASE TestLoop(p)
  <2>1. CASE UNCHANGED <<scheduling, switching, creation, scheduler_enabled, typed, shell>>
    BY <2>1, NoSwitchNoNesting DEF switching
  <2> QED
    BY <1>1, <1>3, <2>1 DEF TestLoop
<1>4. CASE AnyCall(p)
  BY <1>1, <1>4 DEF AnyCall
<1>5. CASE UserFault(p)
  BY <1>5, NoSwitchNoNesting DEF UserFault
<1> QED
  BY <1>2, <1>3, <1>4, <1>5 DEF user_program

(* At every moment at most one process is suspended inside the timer        *)
(* handler, and while one is the PIC still has IRQ 0 in service; for any    *)
(* number of processes and any mix of ticks, yields, exits and commands,    *)
(* including ones that corrupt the ready queue.                             *)
THEOREM TimerHandlerDoesNotNest == Spec => []NoNestedTick
<1>1. Init => NoNestedTick
  BY DEF Init, NoNestedTick, SuspendedInTick
<1>2. TypeOK /\ NoNestedTick /\ [Next]_vars => NoNestedTick'
  <2> SUFFICES ASSUME TypeOK, NoNestedTick, [Next]_vars PROVE NoNestedTick'
    OBVIOUS
  <2>1. CASE timer_handler
    BY <2>1, TickNoNesting
  <2>2. CASE keyboard_handler
    BY <2>2, NoSwitchNoNesting DEF keyboard_handler, Type, switching
  <2>3. CASE shell_run
    BY <2>3, ShellNoNesting
  <2>4. ASSUME NEW p \in PID, user_program(p) PROVE NoNestedTick'
    BY <2>4, UserNoNesting
  <2>5. CASE UNCHANGED vars
    BY <2>5, NoSwitchNoNesting DEF vars, switching
  <2> QED
    BY <2>1, <2>2, <2>3, <2>4, <2>5 DEF Next
<1> QED
  BY <1>1, <1>2, TypeCorrect, PTL DEF Spec

---------------------------------------------------------------------------
(* The steps, by what they do to the scheduler. *)

(* A tick leaves queue, states and CPU alone, or reschedules; the scheduler *)
(* is enabled then.                                                         *)
LEMMA TickSteps ==
  ASSUME TypeOK, timer_handler
  PROVE  /\ scheduler_enabled
         /\ UNCHANGED <<creation, scheduler_enabled, typed, shell, user>>
         /\ \/ UNCHANGED <<rq, state, switching>>
            \/ \E qu \in [PID -> 0 .. QUANTUM], isr, kept \in SUBSET {0, 1} :
                  Reschedule("tick", qu, isr, kept)
<1>1. CASE TickKeepRunning \/ TickRenew
  BY <1>1 DEF TickKeepRunning, TickRenew
<1>2. CASE TickSwitch
  <2>1. /\ in_service \cup {0} \in SUBSET {0, 1}
        /\ pic_send_eoi(in_service \cup {0}) \in SUBSET {0, 1}
    BY DEF TypeOK, pic_send_eoi
  <2>2. Decremented \in [PID -> 0 .. QUANTUM]
    BY BoundsAssumption DEF Decremented, TimeLeft, TypeOK
  <2>3. /\ scheduler_enabled
        /\ UNCHANGED <<creation, scheduler_enabled, typed, shell, user>>
        /\ Reschedule("tick", Decremented, in_service \cup {0},
                      pic_send_eoi(in_service \cup {0}))
    BY <1>2 DEF TickSwitch
  <2> QED
    BY <2>1, <2>2, <2>3, Zenon
<1> QED
  BY <1>1, <1>2 DEF timer_handler

\* A yield past its tests reschedules and leaves the in-service register to the switch.
LEMMA YieldReschedules ==
  ASSUME TypeOK, YieldNow
  PROVE  \E qu \in [PID -> 0 .. QUANTUM] :
            Reschedule("yield", qu, in_service, in_service)
<1> DEFINE qu == IF state[current_process] = "RUNNING"
                 THEN [quantum EXCEPT ![current_process] = QUANTUM] ELSE quantum
<1>1. qu \in [PID -> 0 .. QUANTUM]
  BY BoundsAssumption DEF TypeOK
<1>2. Reschedule("yield", qu, in_service, in_service)
  BY DEF YieldNow
<1> QED
  BY <1>1, <1>2, Zenon

(* A step in ring 3 is a yield while the scheduler is enabled, an exit, or  *)
(* nothing to the scheduler.                                                *)
LEMMA UserSteps ==
  ASSUME NEW p \in PID, user_program(p)
  PROVE  /\ UserRuns(p)
         /\ UNCHANGED <<creation, scheduler_enabled, typed, shell>>
         /\ \/ scheduler_enabled /\ YieldNow
            \/ state' = process_exit /\ UNCHANGED <<rq, quantum, switching>>
            \/ UNCHANGED <<scheduling, current_process, context, esp0, in_service>>
<1> DEFINE Effect == /\ UNCHANGED <<creation, scheduler_enabled, typed, shell>>
                     /\ \/ scheduler_enabled /\ YieldNow
                        \/ state' = process_exit /\ UNCHANGED <<rq, quantum, switching>>
                        \/ UNCHANGED <<scheduling, current_process, context, esp0, in_service>>
<1>1. ASSUME NEW eax, NEW edi, NEW pc, Int80(p, eax, edi, pc)
      PROVE  Effect
  BY <1>1 DEF Int80, syscall_handler, scheduler_yield, switching
<1> HIDE DEF Effect
<1>2. ASSUME TestCall(p) PROVE UserRuns(p) /\ Effect
  BY <1>1, <1>2 DEF TestCall
<1>3. ASSUME TestLoop(p) PROVE UserRuns(p) /\ Effect
  <2>1. CASE UNCHANGED <<scheduling, switching, creation, scheduler_enabled, typed, shell>>
    BY <1>3, <2>1 DEF Effect, TestLoop, switching
  <2> QED
    BY <1>1, <1>3, <2>1 DEF TestLoop
<1>4. ASSUME AnyCall(p) PROVE UserRuns(p) /\ Effect
  BY <1>1, <1>4 DEF AnyCall
<1>5. ASSUME UserFault(p) PROVE UserRuns(p) /\ Effect
  BY <1>5 DEF UserFault, Effect
<1> QED
  BY <1>2, <1>3, <1>4, <1>5 DEF user_program, Effect

---------------------------------------------------------------------------
(* Stacks.  No stack is ever released here, so it is enough that no pointer *)
(* of the ready queue, wherever a step of scheduler_add_process or a race   *)
(* with it has left it, names a slot without a stack.  This needs no        *)
(* well-formed queue and holds for creations while the scheduler runs too.  *)

\* What a process_t* of the scheduler may be: null, idle, or a created process.
Owned == {NULL, 0} \cup {p \in PID : stack_allocated[p]}

PointsInto(q, owned) ==
    /\ q.head \in owned
    /\ q.tail \in owned
    /\ \A p \in PID : q.next[p] \in owned /\ q.prev[p] \in owned

StacksOwned ==
    /\ PointsInto(rq, Owned)
    /\ shell.tail \in Owned
    /\ BeingAdded \subseteq Owned
    /\ current_process \in Owned
    /\ current_process # 0 => esp0 = current_process

\* The stores of scheduler_add_process store only the pointers they are given.
LEMMA StoresPoint ==
  ASSUME NEW q \in Queue, NEW owned, PointsInto(q, owned), NULL \in owned,
         NEW p \in PID, p \in owned, NEW t \in Pointer, t \in owned
  PROVE  /\ PointsInto(Enter(q, p, t), owned)
         /\ PointsInto(Link(q, p, t), owned)
         /\ PointsInto(SetTail(q, p), owned)
         /\ PointsInto(IncrementCount(q), owned)
<1>1. PointsInto(Enter(q, p, t), owned)
  BY DEF PointsInto, Enter, Queue, Pointer
<1>2. PointsInto(Link(q, p, t), owned)
  BY DEF PointsInto, Link, Queue, Pointer
<1>3. PointsInto(SetTail(q, p), owned)
  BY DEF PointsInto, SetTail, Queue, Pointer
<1>4. PointsInto(IncrementCount(q), owned)
  BY DEF PointsInto, IncrementCount, Queue, Pointer
<1> QED
  BY <1>1, <1>2, <1>3, <1>4

\* Neither operation on the queue makes up a pointer.
LEMMA OperationsPoint ==
  ASSUME NEW q \in Queue, NEW owned, PointsInto(q, owned), NULL \in owned,
         NEW p \in PID, p \in owned
  PROVE  /\ PointsInto(Appended(q, p), owned)
         /\ PointsInto(scheduler_remove_process(q, p), owned)
<1>1. q.tail \in Pointer /\ q.tail \in owned
  BY DEF Queue, PointsInto
<1>2. PointsInto(Appended(q, p), owned)
  <2> DEFINE entered == Enter(q, p, q.tail)
             linked  == Link(entered, p, q.tail)
             tailed  == SetTail(linked, p)
  <2>1. entered \in Queue /\ PointsInto(entered, owned)
    BY <1>1, StoreTypes, StoresPoint
  <2> HIDE DEF entered
  <2>2. linked \in Queue /\ PointsInto(linked, owned)
    BY <1>1, <2>1, StoreTypes, StoresPoint
  <2> HIDE DEF linked
  <2>3. tailed \in Queue /\ PointsInto(tailed, owned)
    BY <1>1, <2>2, StoreTypes, StoresPoint
  <2> HIDE DEF tailed
  <2>4. PointsInto(IncrementCount(tailed), owned)
    BY <1>1, <2>3, StoresPoint
  <2> QED
    BY <2>4 DEF Appended, tailed, linked, entered
<1>3. PointsInto(scheduler_remove_process(q, p), owned)
  BY DEF PointsInto, scheduler_remove_process, Queue, Pointer
<1> QED
  BY <1>2, <1>3

(* A rescheduling gives the CPU to idle or to a process of the queue, and   *)
(* sets the TSS when it switches.                                           *)
LEMMA RescheduleOwned ==
  ASSUME TypeOK, StacksOwned,
         NEW place, NEW qu \in [PID -> 0 .. QUANTUM], NEW isr, NEW kept,
         Reschedule(place, qu, isr, kept)
  PROVE  /\ PointsInto(rq', Owned)
         /\ current_process' \in Owned
         /\ current_process' # 0 => esp0' = current_process'
<1> DEFINE old     == current_process
           requeue == state[old] = "RUNNING"
           q       == IF requeue THEN Appended(rq, old) ELSE rq
           st      == IF requeue THEN [state EXCEPT ![old] = "READY"] ELSE state
           picked  == scheduler_schedule(q, st, qu)
<1>1. /\ rq' = picked.rq
      /\ current_process' = picked.next
      /\ IF picked.next = old THEN esp0' = esp0 ELSE esp0' = picked.next
  BY RequeuedIs DEF Reschedule, tss_set_kernel_stack
<1>2. old \in PID /\ old \in Owned /\ NULL \in Owned /\ 0 \in Owned /\ rq \in Queue
      /\ PointsInto(rq, Owned)
  BY DEF TypeOK, StacksOwned, Owned
<1>3. q \in Queue /\ PointsInto(q, Owned)
  BY <1>2, AddType, OperationsPoint
<1> HIDE DEF q, st
<1>4. picked.next \in Owned /\ PointsInto(picked.rq, Owned)
  <2>1. CASE q.head = NULL
    BY <1>2, <1>3, <2>1 DEF scheduler_schedule
  <2>2. CASE q.head # NULL
    <3>1. q.head \in PID /\ q.head \in Owned
      BY <1>3, <2>2 DEF Queue, Pointer, PointsInto
    <3>2. PointsInto(scheduler_remove_process(q, q.head), Owned)
      BY <1>2, <1>3, <3>1, OperationsPoint
    <3>3. picked.next = q.head /\ picked.rq = scheduler_remove_process(q, q.head)
      BY <2>2 DEF scheduler_schedule
    <3> QED
      BY <3>1, <3>2, <3>3
  <2> QED
    BY <2>1, <2>2
<1> HIDE DEF picked
<1> QED
  BY <1>1, <1>4 DEF StacksOwned

\* A step that touches neither stacks nor queue nor CPU, and points the shell nowhere new.
LEMMA SameStacks ==
  ASSUME TypeOK, StacksOwned,
         UNCHANGED <<rq, stack_allocated, current_process, esp0>>,
         shell'.tail \in {shell.tail, NULL},
         shell'.pc \in {"link", "tail", "count"} =>
            shell'.process = shell.process /\ shell.pc \in {"link", "tail", "count"}
  PROVE  StacksOwned'
<1>1. Owned' = Owned /\ NULL \in Owned
  BY DEF Owned
<1>2. BeingAdded' \subseteq BeingAdded
  BY DEF BeingAdded
<1> QED
  BY <1>1, <1>2 DEF StacksOwned, PointsInto

\* A rescheduling, whatever the shell does at the same time.
LEMMA RescheduleKeepsStacks ==
  ASSUME TypeOK, StacksOwned, UNCHANGED creation, shell' \in {shell, AtPrompt},
         NEW place, NEW qu \in [PID -> 0 .. QUANTUM], NEW isr, NEW kept,
         Reschedule(place, qu, isr, kept)
  PROVE  StacksOwned'
<1>1. Owned' = Owned /\ NULL \in Owned
  BY DEF Owned, creation
<1>2. /\ PointsInto(rq', Owned)
      /\ current_process' \in Owned
      /\ current_process' # 0 => esp0' = current_process'
  BY RescheduleOwned
<1>3. shell'.tail \in Owned /\ BeingAdded' \subseteq Owned
  BY <1>1 DEF StacksOwned, AtPrompt, BeingAdded
<1> QED
  BY <1>1, <1>2, <1>3 DEF StacksOwned, PointsInto

\* The next place in the creation loop adds nobody.
LEMMA NextCreationPoints ==
  ASSUME TypeOK
  PROVE  NextCreation.tail \in {shell.tail, NULL} /\ NextCreation.pc \in {"create", "read"}
<1>1. shell \in ShellState
  BY DEF TypeOK
<1> QED
  BY <1>1 DEF ShellState, NextCreation, AtPrompt

\* A step of the shell gives no pointer to a slot without a stack.
LEMMA ShellKeepsStacks ==
  ASSUME TypeOK, StacksOwned, shell_run
  PROVE  StacksOwned'
<1>0. shell \in ShellState /\ rq \in Queue
  BY DEF TypeOK
<1>1. ASSUME NEW command \in Creates, cmd_create(command)
      PROVE  StacksOwned'
  <2>1. shell'.tail = shell.tail /\ shell'.pc = "create"
    BY <1>0, <1>1 DEF cmd_create, ShellState
  <2> QED
    BY <1>1, <2>1, SameStacks DEF cmd_create, scheduling, switching, creation
<1>2. CASE cmd_sched_start \/ cmd_sched_stop \/ cmd_exit
  BY <1>2, SameStacks DEF cmd_sched_start, cmd_sched_stop, cmd_exit, scheduling, switching, creation
<1>3. CASE cmd_sched_yield
  <2>1. \/ shell' = shell
        \/ shell'.tail = shell.tail /\ shell'.pc = "yield"
    BY <1>0, <1>3 DEF cmd_sched_yield, ShellState
  <2> QED
    BY <1>3, <2>1, SameStacks DEF cmd_sched_yield, scheduling, switching, creation
<1>4. CASE ShellYield
  <2>1. YieldNow /\ shell' = AtPrompt /\ UNCHANGED creation
    BY <1>4 DEF ShellYield
  <2>2. PICK qu \in [PID -> 0 .. QUANTUM] : Reschedule("yield", qu, in_service, in_service)
    BY <2>1, YieldReschedules
  <2> QED
    BY <2>1, <2>2, RescheduleKeepsStacks
<1>5. CASE CreateNoPid
  <2>1. shell' = NextCreation
    BY <1>5 DEF CreateNoPid
  <2> QED
    BY <1>5, <2>1, NextCreationPoints, SameStacks DEF CreateNoPid, scheduling, switching, creation
<1>6. ASSUME NEW p \in PID, CreateNoStack(p)
      PROVE  StacksOwned'
  <2>1. /\ shell' = NextCreation
        /\ rq' = Enter(rq, p, NULL)
        /\ UNCHANGED <<stack_allocated, current_process, esp0>>
        /\ stack_allocated[p]
    BY <1>6 DEF CreateNoStack
  <2>2. Owned' = Owned /\ NULL \in Owned /\ p \in Owned
    BY <2>1 DEF Owned
  <2>3. PointsInto(rq', Owned)
    <3>1. NULL \in Pointer /\ PointsInto(rq, Owned)
      BY DEF Pointer, StacksOwned
    <3> QED
      BY <1>0, <2>1, <2>2, <3>1, StoresPoint
  <2>4. shell'.tail \in Owned /\ BeingAdded' = {}
    BY <2>1, <2>2, NextCreationPoints DEF StacksOwned, BeingAdded
  <2> QED
    BY <2>1, <2>2, <2>3, <2>4 DEF StacksOwned, PointsInto
<1>7. ASSUME NEW p \in PID, Create(p)
      PROVE  StacksOwned'
  <2>1. /\ stack_allocated' = [stack_allocated EXCEPT ![p] = TRUE]
        /\ rq' = Enter(rq, p, rq.tail)
        /\ shell' = [shell EXCEPT !.pc = "link", !.process = p, !.tail = rq.tail]
        /\ UNCHANGED <<current_process, esp0>>
    BY <1>7 DEF Create
  <2>2. Owned \subseteq Owned' /\ p \in Owned' /\ NULL \in Owned'
    BY <2>1 DEF Owned, TypeOK
  <2>3. PointsInto(rq, Owned') /\ rq.tail \in Pointer /\ rq.tail \in Owned'
    BY <1>0, <2>2 DEF StacksOwned, PointsInto, Queue
  <2>4. PointsInto(rq', Owned')
    BY <1>0, <2>1, <2>2, <2>3, StoresPoint
  <2>5. shell'.tail = rq.tail /\ shell'.process = p
    BY <1>0, <2>1 DEF ShellState
  <2>6. BeingAdded' \subseteq {p}
    BY <2>5 DEF BeingAdded
  <2> QED
    BY <2>1, <2>2, <2>3, <2>4, <2>5, <2>6 DEF StacksOwned, PointsInto
<1>8. CASE AddLink \/ AddTail \/ AddCount
  <2>1. /\ shell.process \in PID /\ shell.process \in Owned
        /\ shell.tail \in Pointer /\ shell.tail \in Owned
        /\ NULL \in Owned /\ PointsInto(rq, Owned)
    BY <1>0, <1>8 DEF AddLink, AddTail, AddCount, AddStep, ShellRuns, StacksOwned, BeingAdded,
                      ShellState, Owned
  <2>2. PointsInto(rq', Owned)
    BY <1>0, <1>8, <2>1, StoresPoint DEF AddLink, AddTail, AddCount, AddStep
  <2>3. UNCHANGED <<stack_allocated, current_process, esp0>>
    BY <1>8 DEF AddLink, AddTail, AddCount, AddStep, creation, switching
  <2>4. Owned' = Owned
    BY <2>3 DEF Owned
  <2>5. shell'.tail \in {shell.tail, NULL} /\ BeingAdded' \subseteq {shell.process}
    <3>1. \A at \in ShellAt : [shell EXCEPT !.pc = at].tail = shell.tail
                              /\ [shell EXCEPT !.pc = at].process = shell.process
      BY <1>0 DEF ShellState
    <3> QED
      BY <1>8, <3>1, NextCreationPoints
         DEF AddLink, AddTail, AddCount, AddStep, BeingAdded, ShellAt
  <2> QED
    BY <2>1, <2>2, <2>3, <2>4, <2>5 DEF StacksOwned, PointsInto
<1> QED
  BY <1>1, <1>2, <1>3, <1>4, <1>5, <1>6, <1>7, <1>8 DEF shell_run, process_create

(* An interrupt in ring 3 always switches to the stack of the process it    *)
(* interrupts, and that stack is reserved: whatever is created, exits,      *)
(* yields and is preempted, and even when a creation races with a tick and  *)
(* corrupts the ready queue.                                                *)
THEOREM StackOfItsOwn == Spec => []OwnKernelStack
<1>1. Init => StacksOwned
  BY DEF Init, StacksOwned, PointsInto, Owned, EmptyQueue, AtPrompt, BeingAdded
<1>2. TypeOK /\ StacksOwned /\ [Next]_vars => StacksOwned'
  <2> SUFFICES ASSUME TypeOK, StacksOwned, [Next]_vars PROVE StacksOwned'
    OBVIOUS
  <2>1. ASSUME UNCHANGED <<rq, creation, shell, current_process, esp0>> PROVE StacksOwned'
    BY <2>1, SameStacks DEF creation
  <2>2. CASE timer_handler
    <3>1. UNCHANGED <<creation, shell>>
      BY <2>2, TickSteps
    <3>2. CASE UNCHANGED <<rq, state, switching>>
      BY <2>1, <3>1, <3>2 DEF switching
    <3>3. ASSUME NEW qu \in [PID -> 0 .. QUANTUM], NEW isr, NEW kept,
                 Reschedule("tick", qu, isr, kept)
          PROVE  StacksOwned'
      BY <3>1, <3>3, RescheduleKeepsStacks
    <3> QED
      BY <2>2, <3>2, <3>3, TickSteps
  <2>3. CASE keyboard_handler
    BY <2>1, <2>3 DEF keyboard_handler, Type, scheduling, switching
  <2>4. CASE shell_run
    BY <2>4, ShellKeepsStacks
  <2>5. ASSUME NEW p \in PID, user_program(p) PROVE StacksOwned'
    <3>1. UNCHANGED <<creation, shell>>
      BY <2>5, UserSteps
    <3>2. CASE YieldNow
      <4>1. PICK qu \in [PID -> 0 .. QUANTUM] : Reschedule("yield", qu, in_service, in_service)
        BY <3>2, YieldReschedules
      <4> QED
        BY <3>1, <4>1, RescheduleKeepsStacks
    <3> QED
      BY <2>1, <2>5, <3>1, <3>2, UserSteps DEF scheduling, switching
  <2>6. CASE UNCHANGED vars
    BY <2>1, <2>6 DEF vars, scheduling, switching
  <2> QED
    BY <2>2, <2>3, <2>4, <2>5, <2>6 DEF Next
<1>3. TypeOK /\ StacksOwned => OwnKernelStack
  BY NullAssumption DEF TypeOK, StacksOwned, Owned, OwnKernelStack
<1> QED
  BY <1>1, <1>2, <1>3, TypeCorrect, PTL DEF Spec

---------------------------------------------------------------------------
(* Nobody is lost.  The invariant says what the pointers of the ready queue *)
(* are at every moment, between the stores of scheduler_add_process too:    *)
(* what those stores have made, so far, of a well-formed queue q.  It needs *)
(* that the shell adds only while the scheduler is off and idle has the     *)
(* CPU, which is where the order of the commands comes in.                  *)

Ready == {p \in PID : state[p] = "READY"}

\* What is in the keyboard buffer starts the scheduler only after all creations.
CommandsInOrder ==
    /\ shell.pc \in {"create", "link", "tail", "count"} => ~scheduler_enabled
    /\ shell.pc = "yield" => scheduler_enabled
    /\ \A i \in DOMAIN typed : typed[i] \in Creates =>
          ~scheduler_enabled /\ \A j \in 1 .. i - 1 : typed[j] # "sched start"

\* Only the scheduler takes the CPU from idle, and only idle stops it.
IdleWhenStopped == ~scheduler_enabled => current_process = 0

\* Idle never exits; the process that has the CPU does not wait for it.
WhoRuns ==
    /\ state[0] # "TERMINATED"
    /\ state[current_process] # "READY"
    /\ \A p \in PID : state[p] = "RUNNING" => p = current_process

\* The queue q with the stores of scheduler_add_process(p) before pc done.
Stored(pc, q, p) ==
    CASE pc = "link"  -> Enter(q, p, q.tail)
      [] pc = "tail"  -> Link(Enter(q, p, q.tail), p, q.tail)
      [] pc = "count" -> SetTail(Link(Enter(q, p, q.tail), p, q.tail), p)
      [] OTHER        -> q

\* s lists the processes of the queue q, which is about to take the one being added.
Underlies(q, s) ==
    /\ IsQueue(q, s)
    /\ Members(s) = Ready \ BeingAdded
    /\ BeingAdded \subseteq Ready
    /\ BeingAdded # {} => shell.tail = q.tail
    /\ rq = Stored(shell.pc, q, shell.process)

QueueOK == \E q \in Queue, s \in Seq(PID) : Underlies(q, s)

QueueInv == CommandsInOrder /\ IdleWhenStopped /\ WhoRuns /\ QueueOK

\* The members of a list that grows at its end and shrinks at its front.
LEMMA MembersOf ==
  ASSUME NEW s \in Seq(PID), NEW p \in PID
  PROVE  /\ Members(Append(s, p)) = Members(s) \cup {p}
         /\ s # <<>> /\ Injective(s) => /\ Head(s) \in Members(s)
                                        /\ Members(Tail(s)) = Members(s) \ {Head(s)}
<1>1. /\ DOMAIN s = 1 .. Len(s) /\ Len(s) \in Nat
      /\ DOMAIN Append(s, p) = 1 .. Len(s) + 1
      /\ \A i \in 1 .. Len(s) : Append(s, p)[i] = s[i]
      /\ Append(s, p)[Len(s) + 1] = p
  BY LenProperties, AppendProperties
<1>2. Members(Append(s, p)) = Members(s) \cup {p}
  BY <1>1 DEF Members
<1>3. ASSUME s # <<>>, Injective(s)
      PROVE  /\ Head(s) \in Members(s)
             /\ Members(Tail(s)) = Members(s) \ {Head(s)}
  <2>1. /\ Head(s) = s[1] /\ Len(s) >= 1
        /\ DOMAIN Tail(s) = 1 .. Len(s) - 1
        /\ \A i \in 1 .. Len(s) - 1 : Tail(s)[i] = s[i + 1]
    BY <1>1, <1>3, HeadTailProperties, EmptySeq, LenProperties
  <2>2. Head(s) \in Members(s)
    BY <1>1, <2>1 DEF Members
  <2>3. ASSUME NEW x \in Members(Tail(s)) PROVE x \in Members(s) /\ x # Head(s)
    <3>1. PICK i \in 1 .. Len(s) - 1 : x = s[i + 1]
      BY <2>1, <2>3 DEF Members
    <3>2. i + 1 \in DOMAIN s /\ 1 \in DOMAIN s /\ i + 1 # 1
      BY <1>1, <2>1, <3>1
    <3> QED
      BY <1>3, <2>1, <3>1, <3>2 DEF Members, Injective
  <2>4. ASSUME NEW x \in Members(s), x # Head(s) PROVE x \in Members(Tail(s))
    <3>1. PICK i \in 1 .. Len(s) : x = s[i]
      BY <1>1, <2>4 DEF Members
    <3>2. i - 1 \in 1 .. Len(s) - 1 /\ s[(i - 1) + 1] = x
      BY <1>1, <2>1, <2>4, <3>1
    <3> QED
      BY <2>1, <3>2 DEF Members
  <2> QED
    BY <2>2, <2>3, <2>4
<1> QED
  BY <1>2, <1>3

(* What a rescheduling does to a well-formed queue: the process that runs   *)
(* joins at the back unless it has terminated, and the one in front gets    *)
(* the CPU.  Nobody else changes, and nobody who has terminated comes back. *)
LEMMA RescheduleRotates ==
  ASSUME TypeOK, WhoRuns,
         NEW s \in Seq(PID), IsQueue(rq, s), Members(s) = Ready,
         NEW place, NEW qu \in [PID -> 0 .. QUANTUM], NEW isr, NEW kept,
         Reschedule(place, qu, isr, kept)
  PROVE  LET t == IF state[current_process] = "RUNNING" THEN Append(s, current_process) ELSE s
         IN  /\ t \in Seq(PID) /\ t # <<>>
             /\ current_process' = Head(t)
             /\ rq' \in Queue
             /\ IsQueue(rq', Tail(t))
             /\ Members(Tail(t)) = Ready'
             /\ WhoRuns'
             /\ state'[current_process'] = "RUNNING"
             /\ \A p \in PID : state[p] = "TERMINATED" <=> state'[p] = "TERMINATED"
             /\ \A p \in PID : state[p] = "READY" /\ p # current_process' => state'[p] = "READY"
             /\ state[current_process] = "RUNNING" /\ current_process' # current_process
                => state'[current_process] = "READY"
<1> DEFINE old     == current_process
           requeue == state[old] = "RUNNING"
           q       == IF requeue THEN Appended(rq, old) ELSE rq
           st      == IF requeue THEN [state EXCEPT ![old] = "READY"] ELSE state
           picked  == scheduler_schedule(q, st, qu)
           t       == IF requeue THEN Append(s, old) ELSE s
<1>1. rq' = picked.rq /\ state' = picked.state /\ current_process' = picked.next
  BY RequeuedIs DEF Reschedule
<1>2. old \in PID /\ 0 \in PID /\ rq \in Queue /\ state \in [PID -> States]
  BY MaxProcessesAssumption DEF TypeOK, PID
<1>3. st \in [PID -> States]
  BY <1>2 DEF States
<1>4. /\ q \in Queue /\ t \in Seq(PID) /\ IsQueue(q, t) /\ t # <<>>
      /\ Members(t) = {p \in PID : st[p] = "READY"}
  <2>1. CASE requeue
    <3>1. old \notin Members(s)
      BY <2>1 DEF Ready
    <3>2. q \in Queue /\ IsQueue(q, t)
      BY <1>2, <2>1, <3>1, AddType, StoresAppend
    <3>3. t \in Seq(PID) /\ t # <<>>
      BY <1>2, <2>1, AppendProperties
    <3>4. Members(t) = Ready \cup {old}
      BY <1>2, <2>1, MembersOf
    <3>5. {p \in PID : st[p] = "READY"} = Ready \cup {old}
      BY <1>2, <2>1 DEF Ready
    <3> QED
      BY <3>2, <3>3, <3>4, <3>5
  <2>2. CASE ~requeue
    <3>1. old # 0 /\ 0 \in Ready
      BY <1>2, <2>2 DEF WhoRuns, Ready, States
    <3>2. s # <<>>
      BY <3>1, EmptySeq DEF Members
    <3> QED
      BY <1>2, <2>2, <3>2 DEF Ready
  <2> QED
    BY <2>1, <2>2
<1>5. /\ \A p \in PID : st[p] # "RUNNING"
      /\ \A p \in PID : state[p] = "TERMINATED" <=> st[p] = "TERMINATED"
      /\ \A p \in PID : state[p] = "READY" => st[p] = "READY"
      /\ requeue => st[old] = "READY"
      /\ st[0] # "TERMINATED"
  BY <1>2 DEF WhoRuns, States
<1> HIDE DEF q, st, t
<1>6. /\ q.head = Head(t) /\ Head(t) \in Members(t)
      /\ IsQueue(scheduler_remove_process(q, q.head), Tail(t))
      /\ Members(Tail(t)) = Members(t) \ {Head(t)}
  <2>1. Injective(t)
    BY <1>4 DEF IsQueue
  <2> QED
    BY <1>2, <1>4, <2>1, MembersOf, RemoveHeadTakesFirst
<1>7. q.head \in PID /\ q.head # NULL /\ st[q.head] = "READY"
  BY <1>4, <1>6, NullAssumption
<1>8. /\ picked.next = q.head
      /\ picked.rq = scheduler_remove_process(q, q.head)
      /\ picked.state = [st EXCEPT ![q.head] = "RUNNING"]
  BY <1>7 DEF scheduler_schedule
<1> HIDE DEF picked
<1>9. /\ rq' = scheduler_remove_process(q, q.head)
      /\ state' = [st EXCEPT ![q.head] = "RUNNING"]
      /\ current_process' = q.head
  BY <1>1, <1>8
<1>10. rq' \in Queue
  BY <1>4, <1>7, <1>9, RemoveType
<1>11. Members(Tail(t)) = Ready'
  BY <1>3, <1>4, <1>6, <1>7, <1>9 DEF Ready
<1>12. WhoRuns'
  BY <1>2, <1>3, <1>5, <1>7, <1>9 DEF WhoRuns
<1>13. /\ state'[current_process'] = "RUNNING"
       /\ \A p \in PID : state[p] = "TERMINATED" <=> state'[p] = "TERMINATED"
       /\ \A p \in PID : state[p] = "READY" /\ p # current_process' => state'[p] = "READY"
       /\ requeue /\ current_process' # old => state'[old] = "READY"
  BY <1>2, <1>3, <1>5, <1>7, <1>9
<1> QED
  BY <1>4, <1>6, <1>9, <1>10, <1>11, <1>12, <1>13 DEF t

\* Away from scheduler_add_process the queue is the list of the READY processes.
LEMMA QueueAtRest ==
  ASSUME BeingAdded = {}
  PROVE  /\ QueueOK => rq \in Queue /\ \E s \in Seq(PID) : IsQueue(rq, s) /\ Members(s) = Ready
         /\ \A s \in Seq(PID) : rq \in Queue /\ IsQueue(rq, s) /\ Members(s) = Ready => QueueOK
<1>1. shell.pc \notin {"link", "tail", "count"}
  BY DEF BeingAdded
<1>2. \A q : Stored(shell.pc, q, shell.process) = q
  BY <1>1 DEF Stored
<1>3. ASSUME QueueOK
      PROVE  rq \in Queue /\ \E s \in Seq(PID) : IsQueue(rq, s) /\ Members(s) = Ready
  BY <1>2, <1>3 DEF QueueOK, Underlies
<1>4. ASSUME NEW s \in Seq(PID), rq \in Queue, IsQueue(rq, s), Members(s) = Ready
      PROVE  QueueOK
  <2>1. Underlies(rq, s)
    BY <1>2, <1>4 DEF Underlies
  <2> QED
    BY <1>4, <2>1 DEF QueueOK
<1> QED
  BY <1>3, <1>4

\* Nothing but the shell's place in its own loop changes.
LEMMA SameQueue ==
  ASSUME QueueOK, UNCHANGED <<rq, state>>, BeingAdded = {}, BeingAdded' = {}
  PROVE  QueueOK'
<1>1. rq \in Queue /\ \E s \in Seq(PID) : IsQueue(rq, s) /\ Members(s) = Ready
  BY QueueAtRest
<1>2. PICK s \in Seq(PID) : IsQueue(rq, s) /\ Members(s) = Ready
  BY <1>1
<1>3. Ready' = Ready
  BY DEF Ready
<1>4. rq' \in Queue /\ IsQueue(rq', s) /\ Members(s) = Ready'
  BY <1>1, <1>2, <1>3
<1>5. \A z \in Seq(PID) : (rq' \in Queue /\ IsQueue(rq', z) /\ Members(z) = Ready') => QueueOK'
  <2>1. shell'.pc \notin {"link", "tail", "count"}
    BY DEF BeingAdded
  <2>2. \A q : Stored(shell'.pc, q, shell'.process) = q
    BY <2>1 DEF Stored
  <2> QED
    BY <2>2 DEF QueueOK, Underlies
<1> QED
  BY <1>4, <1>5

\* A line that is read leaves the others in their order.
LEMMA TailInOrder ==
  ASSUME TypeOK, typed # <<>>, CommandsInOrder, typed' = Tail(typed)
  PROVE  /\ Head(typed) = typed[1] /\ 1 \in DOMAIN typed
         /\ \A i \in DOMAIN typed' :
               /\ i + 1 \in DOMAIN typed /\ typed'[i] = typed[i + 1]
               /\ typed'[i] \in Creates =>
                     /\ ~scheduler_enabled
                     /\ typed[1] # "sched start"
                     /\ \A j \in 1 .. i - 1 : typed'[j] # "sched start"
<1>1. /\ typed \in Seq(Commands) /\ DOMAIN typed = 1 .. Len(typed) /\ Len(typed) \in Nat
      /\ Len(typed) >= 1
      /\ Head(typed) = typed[1]
      /\ DOMAIN Tail(typed) = 1 .. Len(typed) - 1
      /\ \A i \in 1 .. Len(typed) - 1 : Tail(typed)[i] = typed[i + 1]
  <2>1. typed \in Seq(Commands)
    BY DEF TypeOK
  <2> QED
    BY <2>1, HeadTailProperties, EmptySeq, LenProperties
<1>2. ASSUME NEW i \in DOMAIN typed'
      PROVE  i \in 1 .. Len(typed) - 1 /\ i + 1 \in DOMAIN typed /\ typed'[i] = typed[i + 1]
  BY <1>1, <1>2
<1>3. ASSUME NEW i \in DOMAIN typed', typed'[i] \in Creates
      PROVE  /\ ~scheduler_enabled
             /\ typed[1] # "sched start"
             /\ \A j \in 1 .. i - 1 : typed'[j] # "sched start"
  <2>1. i \in 1 .. Len(typed) - 1 /\ i + 1 \in DOMAIN typed /\ typed[i + 1] \in Creates
    BY <1>2, <1>3
  <2>2. ~scheduler_enabled /\ \A j \in 1 .. (i + 1) - 1 : typed[j] # "sched start"
    BY <2>1 DEF CommandsInOrder
  <2>3. ASSUME NEW j \in 1 .. i - 1 PROVE typed'[j] # "sched start"
    <3>1. j \in 1 .. Len(typed) - 1 /\ j + 1 \in 1 .. (i + 1) - 1
      BY <1>1, <2>1, <2>3
    <3> QED
      BY <1>1, <2>2, <3>1
  <2>4. 1 \in 1 .. (i + 1) - 1
    BY <2>1
  <2> QED
    BY <2>2, <2>3, <2>4
<1>4. 1 \in DOMAIN typed
  BY <1>1
<1> QED
  BY <1>1, <1>2, <1>3, <1>4, Zenon

\* A creation typed in time keeps the order.
LEMMA KeyboardKeepsOrder ==
  ASSUME TypeOK, QueueInv, ~CreateWhileEnabled, keyboard_handler
  PROVE  QueueInv'
<1>1. PICK command \in Commands : Type(command)
  BY DEF keyboard_handler
<1>2. UNCHANGED <<rq, state, current_process, shell, scheduler_enabled>>
  BY <1>1 DEF Type, scheduling, switching
<1>3. CommandsInOrder'
  <2> DEFINE more == Append(typed, command)
  <2>0. /\ typed \in Seq(Commands) /\ DOMAIN typed = 1 .. Len(typed) /\ Len(typed) \in Nat
        /\ DOMAIN more = 1 .. Len(typed) + 1
        /\ \A i \in 1 .. Len(typed) : more[i] = typed[i]
        /\ more[Len(typed) + 1] = command
    <3>1. typed \in Seq(Commands)
      BY DEF TypeOK
    <3> QED
      BY <3>1, LenProperties, AppendProperties
  <2>1. typed' = more
    BY <1>1 DEF Type
  <2> HIDE DEF more
  <2>2. command \in Creates =>
           ~scheduler_enabled /\ \A i \in DOMAIN typed : typed[i] # "sched start"
    BY <1>1 DEF Type
  <2>3. ASSUME NEW i \in DOMAIN more, more[i] \in Creates
        PROVE  ~scheduler_enabled /\ \A j \in 1 .. i - 1 : more[j] # "sched start"
    <3>1. i \in 1 .. Len(typed) + 1
      BY <2>0, <2>3, Zenon
    <3>2. \A j \in 1 .. i - 1 : j \in 1 .. Len(typed)
      BY ONLY <2>0, <3>1
    <3>3. CASE i \in 1 .. Len(typed)
      <4>1. more[i] = typed[i] /\ i \in DOMAIN typed
        BY <2>0, <3>3, Zenon
      <4>2. ~scheduler_enabled /\ \A j \in 1 .. i - 1 : typed[j] # "sched start"
        BY <2>3, <4>1, Zenon DEF QueueInv, CommandsInOrder
      <4> QED
        BY <2>0, <3>2, <4>2, Zenon
    <3>4. CASE i = Len(typed) + 1
      <4>1. ~scheduler_enabled /\ \A k \in DOMAIN typed : typed[k] # "sched start"
        BY <2>0, <2>2, <2>3, <3>4, Zenon
      <4> QED
        BY <2>0, <3>2, <4>1, Zenon
    <3>5. i \in 1 .. Len(typed) \/ i = Len(typed) + 1
      BY ONLY <2>0, <3>1
    <3> QED
      BY <3>3, <3>4, <3>5, Zenon
  <2> QED
    BY <1>2, <2>1, <2>3 DEF QueueInv, CommandsInOrder
<1>4. QueueOK'
  BY <1>2 DEF QueueInv, QueueOK, Underlies, Ready, BeingAdded
<1> QED
  BY <1>2, <1>3, <1>4 DEF QueueInv, IdleWhenStopped, WhoRuns

\* A rescheduling between two commands or in scheduler_yield.
LEMMA RescheduleKeepsQueue ==
  ASSUME TypeOK, QueueInv, scheduler_enabled,
         NEW place, NEW qu \in [PID -> 0 .. QUANTUM], NEW isr, NEW kept,
         Reschedule(place, qu, isr, kept)
  PROVE  /\ WhoRuns'
         /\ BeingAdded' = {} => QueueOK'
         /\ \A p \in PID : state[p] = "TERMINATED" <=> state'[p] = "TERMINATED"
         /\ state'[current_process'] = "RUNNING"
         /\ \A p \in PID : state[p] = "READY" /\ p # current_process' => state'[p] = "READY"
         /\ state[current_process] = "RUNNING" /\ current_process' # current_process
            => state'[current_process] = "READY"
<1>1. BeingAdded = {}
  BY DEF QueueInv, CommandsInOrder, BeingAdded
<1>2. PICK s \in Seq(PID) : IsQueue(rq, s) /\ Members(s) = Ready
  BY <1>1, QueueAtRest DEF QueueInv
<1> DEFINE t == IF state[current_process] = "RUNNING" THEN Append(s, current_process) ELSE s
<1>3. WhoRuns
  BY DEF QueueInv
<1>4. /\ t \in Seq(PID) /\ t # <<>>
      /\ rq' \in Queue
      /\ IsQueue(rq', Tail(t))
      /\ Members(Tail(t)) = Ready'
      /\ WhoRuns'
      /\ state'[current_process'] = "RUNNING"
      /\ \A p \in PID : state[p] = "TERMINATED" <=> state'[p] = "TERMINATED"
      /\ \A p \in PID : state[p] = "READY" /\ p # current_process' => state'[p] = "READY"
      /\ state[current_process] = "RUNNING" /\ current_process' # current_process
         => state'[current_process] = "READY"
  BY <1>2, <1>3, RescheduleRotates
<1> HIDE DEF t
<1>5. Tail(t) \in Seq(PID)
  BY <1>4, HeadTailProperties
<1>6. ASSUME BeingAdded' = {} PROVE QueueOK'
  <2>1. shell'.pc \notin {"link", "tail", "count"}
    BY <1>6 DEF BeingAdded
  <2>2. Stored(shell'.pc, rq', shell'.process) = rq'
    BY <2>1 DEF Stored
  <2>3. Members(Tail(t)) = Ready' \ BeingAdded' /\ BeingAdded' \subseteq Ready'
    BY <1>4, <1>6
  <2> QED
    BY <1>4, <1>5, <1>6, <2>2, <2>3, Zenon DEF QueueOK, Underlies
<1> QED
  BY <1>4, <1>6, Zenon

(* The shell creates and adds, starts, stops and yields.  Adding goes from  *)
(* one store to the next, and the last makes the queue whole again.         *)
LEMMA ShellKeepsQueue ==
  ASSUME TypeOK, QueueInv, shell_run
  PROVE  QueueInv'
<1> USE DEF QueueInv
<1>0. shell \in ShellState /\ rq \in Queue /\ state \in [PID -> States]
      /\ scheduler_enabled \in BOOLEAN /\ 0 \in PID
  BY MaxProcessesAssumption DEF TypeOK, PID
<1>1. ASSUME NEW command \in Creates, cmd_create(command)
      PROVE  QueueInv'
  <2>1. /\ shell.pc = "read" /\ typed # <<>> /\ Head(typed) = command /\ typed' = Tail(typed)
        /\ UNCHANGED <<rq, state, current_process, scheduler_enabled>>
    BY <1>1 DEF cmd_create, Reads, ShellRuns, scheduling, switching
  <2>2. shell'.pc = "create"
    BY <1>0, <1>1 DEF cmd_create, ShellState
  <2>3. CommandsInOrder'
    <3>1. ~scheduler_enabled
      BY <1>1, <2>1, TailInOrder DEF CommandsInOrder
    <3> QED
      BY <2>1, <2>2, <3>1, TailInOrder DEF CommandsInOrder
  <2>4. QueueOK'
    BY <2>1, <2>2, SameQueue DEF BeingAdded
  <2> QED
    BY <2>1, <2>3, <2>4 DEF IdleWhenStopped, WhoRuns
<1>2. CASE cmd_sched_start
  <2>1. /\ shell.pc = "read" /\ typed # <<>> /\ Head(typed) = "sched start" /\ typed' = Tail(typed)
        /\ scheduler_enabled' = TRUE
        /\ UNCHANGED <<rq, state, current_process, shell>>
    BY <1>2 DEF cmd_sched_start, Reads, ShellRuns, scheduling, switching
  <2>2. CommandsInOrder'
    BY <2>1, TailInOrder DEF CommandsInOrder
  <2>3. QueueOK'
    BY <2>1, SameQueue DEF BeingAdded
  <2> QED
    BY <2>1, <2>2, <2>3 DEF IdleWhenStopped, WhoRuns
<1>3. CASE cmd_sched_stop
  <2>1. /\ shell.pc = "read" /\ typed # <<>> /\ typed' = Tail(typed) /\ current_process = 0
        /\ scheduler_enabled' = FALSE
        /\ UNCHANGED <<rq, state, current_process, shell>>
    BY <1>3 DEF cmd_sched_stop, Reads, ShellRuns, scheduling, switching
  <2>2. CommandsInOrder'
    BY <2>1, TailInOrder DEF CommandsInOrder
  <2>3. QueueOK'
    BY <2>1, SameQueue DEF BeingAdded
  <2> QED
    BY <2>1, <2>2, <2>3 DEF IdleWhenStopped, WhoRuns
<1>4. CASE cmd_sched_yield
  <2>1. /\ shell.pc = "read" /\ typed # <<>> /\ typed' = Tail(typed)
        /\ UNCHANGED <<rq, state, current_process, scheduler_enabled>>
    BY <1>4 DEF cmd_sched_yield, Reads, ShellRuns, scheduling, switching
  <2>2. \/ shell'.pc = "read"
        \/ shell'.pc = "yield" /\ scheduler_enabled
    BY <1>0, <1>4, <2>1 DEF cmd_sched_yield, ShellState
  <2>3. CommandsInOrder'
    BY <2>1, <2>2, TailInOrder DEF CommandsInOrder
  <2>4. QueueOK'
    BY <2>1, <2>2, SameQueue DEF BeingAdded
  <2> QED
    BY <2>1, <2>3, <2>4 DEF IdleWhenStopped, WhoRuns
<1>5. CASE cmd_exit
  <2>1. /\ shell.pc = "read" /\ typed # <<>> /\ typed' = Tail(typed)
        /\ UNCHANGED <<rq, state, current_process, scheduler_enabled, shell>>
    BY <1>5 DEF cmd_exit, Reads, ShellRuns, scheduling
  <2>2. CommandsInOrder'
    BY <2>1, TailInOrder DEF CommandsInOrder
  <2>3. QueueOK'
    BY <2>1, SameQueue DEF BeingAdded
  <2> QED
    BY <2>1, <2>2, <2>3 DEF IdleWhenStopped, WhoRuns
<1>6. CASE ShellYield
  <2>1. /\ shell.pc = "yield" /\ YieldNow /\ shell' = AtPrompt
        /\ UNCHANGED <<scheduler_enabled, typed>>
    BY <1>6 DEF ShellYield, ShellRuns
  <2>2. scheduler_enabled /\ BeingAdded' = {} /\ shell'.pc = "read"
    BY <2>1 DEF CommandsInOrder, BeingAdded, AtPrompt
  <2>3. PICK qu \in [PID -> 0 .. QUANTUM] : Reschedule("yield", qu, in_service, in_service)
    BY <2>1, YieldReschedules
  <2>4. WhoRuns' /\ QueueOK'
    BY <2>2, <2>3, RescheduleKeepsQueue
  <2>5. CommandsInOrder'
    BY <2>1, <2>2 DEF CommandsInOrder
  <2> QED
    BY <2>1, <2>2, <2>4, <2>5 DEF IdleWhenStopped
<1>7. CASE CreateNoPid
  <2>1. /\ shell.pc = "create" /\ shell' = NextCreation
        /\ UNCHANGED <<rq, state, current_process, scheduler_enabled, typed>>
    BY <1>7 DEF CreateNoPid, ShellRuns, scheduling, switching
  <2>2. shell'.pc \in {"create", "read"}
    BY <2>1, NextCreationPoints
  <2>3. CommandsInOrder'
    BY <2>1, <2>2 DEF CommandsInOrder
  <2>4. QueueOK'
    BY <2>1, <2>2, SameQueue DEF BeingAdded
  <2> QED
    BY <2>1, <2>3, <2>4 DEF IdleWhenStopped, WhoRuns
<1>8. ASSUME NEW p \in PID, CreateNoStack(p)
      PROVE  QueueInv'
  <2>1. /\ shell.pc = "create" /\ shell' = NextCreation /\ state[p] = "TERMINATED"
        /\ rq' = Enter(rq, p, NULL)
        /\ UNCHANGED <<state, current_process, scheduler_enabled, typed>>
    BY <1>8 DEF CreateNoStack, ShellRuns, process_allocate_pid, Free
  <2>2. shell'.pc \in {"create", "read"}
    BY <2>1, NextCreationPoints
  <2>3. CommandsInOrder'
    BY <2>1, <2>2 DEF CommandsInOrder
  <2>4. BeingAdded = {} /\ BeingAdded' = {} /\ Ready' = Ready
    BY <2>1, <2>2 DEF BeingAdded, Ready
  <2>5. PICK s \in Seq(PID) : IsQueue(rq, s) /\ Members(s) = Ready
    BY <2>4, QueueAtRest
  <2>6. rq' \in Queue
    BY <1>0, <2>1, StoreTypes DEF Pointer
  <2>7. IsQueue(rq', s)
    <3>1. p \in PID \ Members(s)
      BY <2>1, <2>5 DEF Ready
    <3>2. rq.next[p] = NULL /\ rq.prev[p] = NULL
      BY <2>5, <3>1 DEF IsQueue
    <3>3. rq' = rq
      BY <1>0, <2>1, <3>2 DEF Enter, Queue
    <3> QED
      BY <2>5, <3>3
  <2>8. QueueOK'
    <3>1. Stored(shell'.pc, rq', shell'.process) = rq'
      BY <2>2 DEF Stored
    <3>2. Members(s) = Ready' \ BeingAdded' /\ BeingAdded' \subseteq Ready'
      BY <2>4, <2>5
    <3> QED
      BY <2>4, <2>6, <2>7, <3>1, <3>2, Zenon DEF QueueOK, Underlies
  <2> QED
    BY <2>1, <2>3, <2>8 DEF IdleWhenStopped, WhoRuns
<1>9. ASSUME NEW p \in PID, Create(p)
      PROVE  QueueInv'
  <2>1. /\ shell.pc = "create" /\ current_process = 0 /\ state[p] = "TERMINATED"
        /\ state' = [state EXCEPT ![p] = "READY"]
        /\ rq' = Enter(rq, p, rq.tail)
        /\ shell' = [shell EXCEPT !.pc = "link", !.process = p, !.tail = rq.tail]
        /\ UNCHANGED <<current_process, scheduler_enabled, typed>>
    BY <1>9 DEF Create, ShellRuns, process_allocate_pid, Free
  <2>2. shell'.pc = "link" /\ shell'.process = p /\ shell'.tail = rq.tail
    BY <1>0, <2>1 DEF ShellState
  <2>3. CommandsInOrder'
    BY <2>1, <2>2 DEF CommandsInOrder
  <2>4. WhoRuns'
    BY <1>0, <2>1 DEF WhoRuns
  <2>5. QueueOK'
    <3>1. BeingAdded = {} /\ BeingAdded' = {p}
      BY <2>1, <2>2 DEF BeingAdded
    <3>2. PICK s \in Seq(PID) : IsQueue(rq, s) /\ Members(s) = Ready
      BY <3>1, QueueAtRest
    <3>3. Ready' = Ready \cup {p} /\ p \notin Ready
      BY <1>0, <2>1 DEF Ready
    <3>4. Members(s) = Ready' \ BeingAdded' /\ BeingAdded' \subseteq Ready'
      BY <3>1, <3>2, <3>3
    <3>5. rq' = Stored(shell'.pc, rq, shell'.process)
      BY <2>1, <2>2 DEF Stored
    <3> QED
      BY <1>0, <2>2, <3>2, <3>4, <3>5, Zenon DEF QueueOK, Underlies
  <2> QED
    BY <2>1, <2>3, <2>4, <2>5 DEF IdleWhenStopped
<1>10. CASE AddLink \/ AddTail \/ AddCount
  <2>1. /\ shell.pc \in {"link", "tail", "count"}
        /\ UNCHANGED <<state, current_process, scheduler_enabled, typed>>
    BY <1>10 DEF AddLink, AddTail, AddCount, AddStep, ShellRuns, switching
  <2> DEFINE p == shell.process
  <2>2. p \in PID /\ BeingAdded = {p} /\ Ready' = Ready
    BY <1>0, <2>1 DEF BeingAdded, Ready, ShellState
  <2>3. PICK q \in Queue, s \in Seq(PID) : Underlies(q, s)
    BY DEF QueueOK
  <2>4. /\ IsQueue(q, s)
        /\ Members(s) = Ready \ {p} /\ p \in Ready
        /\ shell.tail = q.tail
        /\ rq = Stored(shell.pc, q, p)
    BY <2>2, <2>3 DEF Underlies
  <2> HIDE DEF p
  <2>5. \A at \in ShellAt : LET next == [shell EXCEPT !.pc = at]
                            IN  next.pc = at /\ next.process = p /\ next.tail = shell.tail
    BY <1>0 DEF ShellState, p
  <2>6. CASE AddLink
    <3>1. shell.pc = "link" /\ rq' = Link(rq, p, shell.tail) /\ shell' = [shell EXCEPT !.pc = "tail"]
      BY <2>6 DEF AddLink, AddStep, ShellRuns, p
    <3>2. shell'.pc = "tail" /\ shell'.process = p /\ shell'.tail = q.tail
      BY <2>4, <2>5, <3>1 DEF ShellAt
    <3>3. rq' = Stored("tail", q, p)
      BY <2>4, <3>1 DEF Stored
    <3>4. BeingAdded' = {p}
      BY <3>2 DEF BeingAdded
    <3>5. QueueOK'
      <4>1. Members(s) = Ready' \ BeingAdded' /\ BeingAdded' \subseteq Ready'
        BY <2>2, <2>4, <3>4
      <4> QED
        BY <2>4, <3>2, <3>3, <4>1, Zenon DEF QueueOK, Underlies
    <3>6. CommandsInOrder'
      BY <2>1, <3>1, <3>2 DEF CommandsInOrder
    <3> QED
      BY <2>1, <3>5, <3>6 DEF IdleWhenStopped, WhoRuns
  <2>7. CASE AddTail
    <3>1. shell.pc = "tail" /\ rq' = SetTail(rq, p) /\ shell' = [shell EXCEPT !.pc = "count"]
      BY <2>7 DEF AddTail, AddStep, ShellRuns, p
    <3>2. shell'.pc = "count" /\ shell'.process = p /\ shell'.tail = q.tail
      BY <2>4, <2>5, <3>1 DEF ShellAt
    <3>3. rq' = Stored("count", q, p)
      BY <2>4, <3>1 DEF Stored
    <3>4. BeingAdded' = {p}
      BY <3>2 DEF BeingAdded
    <3>5. QueueOK'
      <4>1. Members(s) = Ready' \ BeingAdded' /\ BeingAdded' \subseteq Ready'
        BY <2>2, <2>4, <3>4
      <4> QED
        BY <2>4, <3>2, <3>3, <4>1, Zenon DEF QueueOK, Underlies
    <3>6. CommandsInOrder'
      BY <2>1, <3>1, <3>2 DEF CommandsInOrder
    <3> QED
      BY <2>1, <3>5, <3>6 DEF IdleWhenStopped, WhoRuns
  <2>8. CASE AddCount
    <3>1. shell.pc = "count" /\ rq' = IncrementCount(rq) /\ shell' = NextCreation
      BY <2>8 DEF AddCount, AddStep, ShellRuns
    <3>2. shell'.pc \in {"create", "read"}
      BY <3>1, NextCreationPoints
    <3>3. rq' = Appended(q, p)
      BY <2>4, <3>1 DEF Stored, Appended
    <3>4. BeingAdded' = {}
      BY <3>2 DEF BeingAdded
    <3>5. QueueOK'
      <4>1. /\ Append(s, p) \in Seq(PID)
            /\ Members(Append(s, p)) = Ready'
        <5>1. Append(s, p) \in Seq(PID) /\ Members(Append(s, p)) = Members(s) \cup {p}
          BY <2>2, MembersOf, AppendProperties
        <5>2. Members(s) \cup {p} = Ready
          BY <2>4
        <5> QED
          BY <2>2, <5>1, <5>2
      <4>2. rq' \in Queue /\ IsQueue(rq', Append(s, p))
        BY <2>2, <2>4, <3>3, AddType, StoresAppend
      <4>3. Stored(shell'.pc, rq', shell'.process) = rq'
        BY <3>2 DEF Stored
      <4>4. Members(Append(s, p)) = Ready' \ BeingAdded' /\ BeingAdded' \subseteq Ready'
        BY <3>4, <4>1
      <4> QED
        BY <3>4, <4>1, <4>2, <4>3, <4>4, Zenon DEF QueueOK, Underlies
    <3>6. CommandsInOrder'
      BY <2>1, <3>1, <3>2 DEF CommandsInOrder
    <3> QED
      BY <2>1, <3>5, <3>6 DEF IdleWhenStopped, WhoRuns
  <2> QED
    BY <1>10, <2>6, <2>7, <2>8
<1> QED
  BY <1>1, <1>2, <1>3, <1>4, <1>5, <1>6, <1>7, <1>8, <1>9, <1>10 DEF shell_run, process_create

\* A tick, a system call or an instruction in ring 3 while nobody is being added.
LEMMA TickKeepsQueue ==
  ASSUME TypeOK, QueueInv, timer_handler
  PROVE  QueueInv'
<1>1. scheduler_enabled /\ UNCHANGED <<scheduler_enabled, typed, shell>>
  BY TickSteps
<1>2. BeingAdded = {} /\ BeingAdded' = {}
  BY <1>1 DEF QueueInv, CommandsInOrder, BeingAdded
<1>3. CommandsInOrder' /\ IdleWhenStopped'
  BY <1>1 DEF QueueInv, CommandsInOrder, IdleWhenStopped
<1>4. CASE UNCHANGED <<rq, state, switching>>
  BY <1>2, <1>3, <1>4, SameQueue DEF QueueInv, WhoRuns, switching
<1>5. ASSUME NEW qu \in [PID -> 0 .. QUANTUM], NEW isr, NEW kept,
             Reschedule("tick", qu, isr, kept)
      PROVE  QueueInv'
  BY <1>1, <1>2, <1>3, <1>5, RescheduleKeepsQueue DEF QueueInv
<1> QED
  BY <1>4, <1>5, TickSteps

(* A step of a ring-3 program changes the queue only by a yield, and the    *)
(* states only by a yield or an exit.                                       *)
LEMMA UserKeepsQueue ==
  ASSUME TypeOK, QueueInv, NEW p \in PID, user_program(p)
  PROVE  QueueInv'
<1>1. /\ current_process = p /\ p # 0
      /\ UNCHANGED <<scheduler_enabled, typed, shell>>
  BY UserSteps DEF UserRuns
<1>2. scheduler_enabled /\ BeingAdded = {} /\ BeingAdded' = {}
  BY <1>1 DEF QueueInv, IdleWhenStopped, CommandsInOrder, BeingAdded
<1>3. CommandsInOrder' /\ IdleWhenStopped'
  BY <1>1, <1>2 DEF QueueInv, CommandsInOrder, IdleWhenStopped
<1>4. CASE YieldNow
  <2>1. PICK qu \in [PID -> 0 .. QUANTUM] : Reschedule("yield", qu, in_service, in_service)
    BY <1>4, YieldReschedules
  <2> QED
    BY <1>2, <1>3, <2>1, RescheduleKeepsQueue DEF QueueInv
<1>5. CASE state' = process_exit /\ UNCHANGED <<rq, quantum, switching>>
  <2>1. /\ state' = [state EXCEPT ![p] = "TERMINATED"] /\ state \in [PID -> States]
        /\ UNCHANGED <<rq, current_process>>
    BY <1>1, <1>5 DEF process_exit, switching, TypeOK
  <2>2. WhoRuns /\ state[p] # "READY"
    BY <1>1 DEF QueueInv, WhoRuns
  <2>3. WhoRuns'
    BY <1>1, <2>1, <2>2, MaxProcessesAssumption DEF WhoRuns, PID
  <2>4. Ready' = Ready
    BY <2>1, <2>2 DEF Ready
  <2>5. PICK s \in Seq(PID) : rq \in Queue /\ IsQueue(rq, s) /\ Members(s) = Ready
    BY <1>2, QueueAtRest DEF QueueInv
  <2>6. QueueOK'
    <3>1. Stored(shell'.pc, rq', shell'.process) = rq'
      BY <1>2 DEF Stored, BeingAdded
    <3>2. Members(s) = Ready' \ BeingAdded' /\ BeingAdded' \subseteq Ready'
      BY <1>2, <2>4, <2>5
    <3>3. rq' \in Queue /\ IsQueue(rq', s)
      BY <2>1, <2>5
    <3> QED
      BY <1>2, <3>1, <3>2, <3>3, Zenon DEF QueueOK, Underlies
  <2> QED
    BY <1>3, <2>3, <2>6 DEF QueueInv
<1>6. CASE UNCHANGED <<scheduling, current_process, context, esp0, in_service>>
  BY <1>2, <1>3, <1>6, SameQueue DEF QueueInv, WhoRuns, scheduling
<1> QED
  BY <1>4, <1>5, <1>6, UserSteps

\* QueueInv is inductive when processes are created only with the scheduler off.
LEMMA QueueInvHolds ==
  /\ Init => QueueInv
  /\ TypeOK /\ ~CreateWhileEnabled /\ QueueInv /\ [Next]_vars => QueueInv'
<1>1. ASSUME Init PROVE QueueInv
  <2>0. 0 \in PID
    BY MaxProcessesAssumption DEF PID
  <2>1. shell.pc = "read" /\ current_process = 0 /\ rq = EmptyQueue /\ BeingAdded = {} /\ Ready = {}
    BY <1>1 DEF Init, AtPrompt, BeingAdded, Ready
  <2>2. CommandsInOrder
    BY <1>1, <2>1, EmptySeq DEF Init, CommandsInOrder
  <2>3. WhoRuns
    BY <1>1, <2>0 DEF Init, WhoRuns
  <2>4. QueueOK
    <3>1. <<>> \in Seq(PID) /\ DOMAIN <<>> = {} /\ Len(<<>>) = 0
      BY EmptySeq
    <3>2. Members(<<>>) = {}
      BY <3>1 DEF Members
    <3>3. IsQueue(EmptyQueue, <<>>)
      BY <3>1, <3>2 DEF IsQueue, EmptyQueue, Injective
    <3> QED
      BY <2>1, <3>1, <3>2, <3>3, EmptyQueueType, QueueAtRest
  <2> QED
    BY <2>1, <2>2, <2>3, <2>4 DEF QueueInv, IdleWhenStopped
<1>2. ASSUME TypeOK, ~CreateWhileEnabled, QueueInv, [Next]_vars PROVE QueueInv'
  <2>1. CASE timer_handler
    BY <1>2, <2>1, TickKeepsQueue
  <2>2. CASE keyboard_handler
    BY <1>2, <2>2, KeyboardKeepsOrder
  <2>3. CASE shell_run
    BY <1>2, <2>3, ShellKeepsQueue
  <2>4. ASSUME NEW p \in PID, user_program(p) PROVE QueueInv'
    BY <1>2, <2>4, UserKeepsQueue
  <2>5. CASE UNCHANGED vars
    BY <1>2, <2>5 DEF vars, scheduling, switching, QueueInv, CommandsInOrder, IdleWhenStopped,
                      WhoRuns, QueueOK, Underlies, Ready, BeingAdded
  <2> QED
    BY <1>2, <2>1, <2>2, <2>3, <2>4, <2>5 DEF Next
<1> QED
  BY <1>1, <1>2

\* A list of distinct processes is no longer than the table.
LEMMA ListsAreShort ==
  ASSUME NEW s \in Seq(PID), Injective(s)
  PROVE  s \in Lists
<1>1. /\ s \in [1 .. Len(s) -> PID] /\ Len(s) \in Nat /\ DOMAIN s = 1 .. Len(s)
  BY LenProperties
<1>2. IsFiniteSet(PID) /\ Cardinality(PID) = MAX_PROCESSES
  <2>1. 0 \in Int /\ MAX_PROCESSES - 1 \in Int /\ ~(0 > MAX_PROCESSES - 1)
    BY MaxProcessesAssumption
  <2>2. /\ IsFiniteSet(0 .. MAX_PROCESSES - 1)
        /\ Cardinality(0 .. MAX_PROCESSES - 1) = (MAX_PROCESSES - 1) - 0 + 1
    BY <2>1, FS_Interval
  <2> QED
    BY <2>2, MaxProcessesAssumption DEF PID
<1>3. Cardinality(1 .. Len(s)) = Len(s)
  <2>1. 1 \in Int /\ Len(s) \in Int
    BY <1>1
  <2>2. Cardinality(1 .. Len(s)) = IF 1 > Len(s) THEN 0 ELSE Len(s) - 1 + 1
    BY <2>1, FS_Interval
  <2> QED
    BY <1>1, <2>2
<1>4. s \in Injection(1 .. Len(s), PID)
  BY <1>1 DEF Injective, Injection, IsInjective
<1>5. Cardinality(1 .. Len(s)) <= Cardinality(PID)
  BY <1>2, <1>4, FS_Injection
<1>6. Len(s) \in 0 .. MAX_PROCESSES
  BY <1>1, <1>2, <1>3, <1>5, MaxProcessesAssumption
<1>7. s \in UNION {[1 .. n -> PID] : n \in 0 .. MAX_PROCESSES}
  BY <1>1, <1>6
<1> QED
  BY <1>7 DEF Lists

(* The scheduler loses nobody and duplicates nobody, for any number of      *)
(* processes, any ring-3 code and any timing of ticks, as long as processes *)
(* are created with the scheduler off: whenever no process is being added,  *)
(* head, tail, links and count form one list of exactly the READY           *)
(* processes, and only current_process is RUNNING.                          *)
THEOREM NobodyIsLost == ASSUME ~CreateWhileEnabled PROVE Spec => []NoLostProcess
<1>1. TypeOK /\ QueueInv => NoLostProcess
  <2> SUFFICES ASSUME TypeOK, QueueInv PROVE NoLostProcess
    OBVIOUS
  <2>1. ASSUME BeingAdded = {}
        PROVE  \E s \in Lists : IsQueue(rq, s) /\ Members(s) = {p \in PID : state[p] = "READY"}
    <3>1. PICK s \in Seq(PID) : IsQueue(rq, s) /\ Members(s) = Ready
      BY <2>1, QueueAtRest DEF QueueInv
    <3>2. s \in Lists
      BY <3>1, ListsAreShort DEF IsQueue
    <3> QED
      BY <3>1, <3>2 DEF Ready
  <2> QED
    BY <2>1 DEF QueueInv, WhoRuns, NoLostProcess
<1>2. TypeOK /\ QueueInv /\ [Next]_vars => QueueInv'
  BY QueueInvHolds
<1> QED
  BY <1>1, <1>2, QueueInvHolds, TypeCorrect, PTL DEF Spec

---------------------------------------------------------------------------
(* Exit.  The queue holds READY processes only, so a rescheduling cannot    *)
(* pick one that has exited; and process_create turns the slot of one down, *)
(* because its stack is still reserved.                                     *)

\* A rescheduling ends nobody and revives nobody.
LEMMA RescheduleKeepsExited ==
  ASSUME TypeOK, QueueInv, scheduler_enabled, UNCHANGED stack_allocated,
         NEW place, NEW qu \in [PID -> 0 .. QUANTUM], NEW isr, NEW kept,
         Reschedule(place, qu, isr, kept)
  PROVE  Exited' = Exited
<1>1. \A p \in PID : state[p] = "TERMINATED" <=> state'[p] = "TERMINATED"
  BY RescheduleKeepsQueue
<1> QED
  BY <1>1 DEF Exited

\* Nor does a creation: the slot it fills had no stack.
LEMMA CreationKeepsExited ==
  ASSUME TypeOK, process_create \/ AddLink \/ AddTail \/ AddCount
  PROVE  Exited' = Exited
<1>1. CASE CreateNoPid
  BY <1>1 DEF CreateNoPid, scheduling, creation, Exited
<1>2. ASSUME NEW p \in PID, CreateNoStack(p) PROVE Exited' = Exited
  BY <1>2 DEF CreateNoStack, Exited
<1>3. ASSUME NEW p \in PID, Create(p) PROVE Exited' = Exited
  BY <1>3 DEF Create, Exited, TypeOK
<1>4. CASE AddLink \/ AddTail \/ AddCount
  BY <1>4 DEF AddLink, AddTail, AddCount, AddStep, creation, Exited
<1> QED
  BY <1>1, <1>2, <1>3, <1>4 DEF process_create

\* The set of exited processes grows by the process that runs, or not at all.
LEMMA NobodyComesBack ==
  ASSUME TypeOK, QueueInv, [Next]_vars
  PROVE  Exited \subseteq Exited'
<1>1. ASSUME scheduler_enabled, UNCHANGED stack_allocated,
             NEW place, NEW qu \in [PID -> 0 .. QUANTUM], NEW isr, NEW kept,
             Reschedule(place, qu, isr, kept)
      PROVE  Exited' = Exited
  BY <1>1, RescheduleKeepsExited
<1>2. ASSUME UNCHANGED <<state, stack_allocated>> PROVE Exited' = Exited
  BY <1>2 DEF Exited
<1>3. CASE timer_handler
  BY <1>1, <1>2, <1>3, TickSteps DEF creation
<1>4. CASE keyboard_handler
  BY <1>2, <1>4 DEF keyboard_handler, Type, scheduling, creation
<1>5. CASE shell_run
  <2>1. CASE ShellYield
    <3>1. scheduler_enabled /\ YieldNow /\ UNCHANGED stack_allocated
      BY <2>1 DEF ShellYield, ShellRuns, QueueInv, CommandsInOrder, creation
    <3> QED
      BY <1>1, <3>1, YieldReschedules
  <2>2. CASE process_create \/ AddLink \/ AddTail \/ AddCount
    BY <2>2, CreationKeepsExited
  <2>3. CASE cmd_sched_start \/ cmd_sched_stop \/ cmd_sched_yield \/ cmd_exit
    BY <1>2, <2>3
       DEF cmd_sched_start, cmd_sched_stop, cmd_sched_yield, cmd_exit, scheduling, creation
  <2>4. ASSUME NEW command \in Creates, cmd_create(command) PROVE Exited' = Exited
    BY <1>2, <2>4 DEF cmd_create, scheduling, creation
  <2> QED
    BY <1>5, <2>1, <2>2, <2>3, <2>4 DEF shell_run
<1>6. ASSUME NEW p \in PID, user_program(p) PROVE Exited \subseteq Exited'
  <2>1. UNCHANGED stack_allocated
    BY <1>6, UserSteps DEF creation
  <2>2. CASE scheduler_enabled /\ YieldNow
    BY <1>1, <2>1, <2>2, YieldReschedules
  <2>3. CASE state' = process_exit
    BY <2>1, <2>3 DEF process_exit, TypeOK, Exited
  <2> QED
    BY <1>2, <1>6, <2>1, <2>2, <2>3, UserSteps DEF scheduling
<1>7. CASE UNCHANGED vars
  BY <1>2, <1>7 DEF vars, scheduling, creation
<1> QED
  BY <1>3, <1>4, <1>5, <1>6, <1>7 DEF Next

(* A process that has exited never runs or waits again, whatever it does    *)
(* after the exit, however often it is preempted and whatever is created.   *)
THEOREM ExitedStaysExited == ASSUME ~CreateWhileEnabled PROVE Spec => ExitIsFinal
<1>1. TypeOK /\ QueueInv /\ [Next]_vars => [Exited \subseteq Exited']_vars
  BY NobodyComesBack
<1>2. TypeOK /\ QueueInv /\ [Next]_vars => QueueInv'
  BY QueueInvHolds
<1> QED
  BY <1>1, <1>2, QueueInvHolds, TypeCorrect, PTL DEF Spec, ExitIsFinal

---------------------------------------------------------------------------
(* The EOI of a suspended tick, for the programs the kernel ships.  Their   *)
(* exit is never reached and their yields are never carried out, because    *)
(* the handler reads the call number from EDI; so the process that is       *)
(* switched out in a tick is RUNNING, is put back, and stays in the queue   *)
(* until a switch to it resumes the handler, which acknowledges.            *)

\* Where the test programs can be: EDI is 0 before the first call and -1 after any.
TestPrograms ==
    \A p \in PID : \/ user[p].pc = "write" /\ user[p].edi = 0
                   \/ user[p].pc = "loop" /\ user[p].edi = -1

EoiInv == TestPrograms /\ state[current_process] = "RUNNING" /\ EoiNotLost

\* syscall_handler takes the caller's EDI for its EAX.
LEMMA EaxIsEdi == RegisterIn("eax") = "edi"
<1>1. DOMAIN registers_t = 1 .. 8 /\ registers_t[1] = "eax"
      /\ \A i \in 2 .. 8 : registers_t[i] # "eax"
  BY DEF registers_t
<1>2. \A i \in DOMAIN registers_t : registers_t[i] = "eax" <=> i = 1
  BY <1>1
<1>3. (CHOOSE i \in DOMAIN registers_t : registers_t[i] = "eax") = 1
  BY <1>1, <1>2
<1>4. pushad_frame[1] = "edi"
  BY DEF pushad_frame
<1> QED
  BY <1>3, <1>4 DEF RegisterIn

\* A step of a test program does nothing to the scheduler.
LEMMA TestStep ==
  ASSUME TypeOK, TestPrograms, UserCode = "test", NEW p \in PID, user_program(p)
  PROVE  TestPrograms' /\ UNCHANGED <<scheduling, current_process, context, in_service>>
<1>0. user \in [PID -> [pc : UserAt, edi : Int]] /\ user[p].edi \in Int
  BY DEF TypeOK
<1>1. ASSUME NEW eax, NEW edi \in {0, -1}, Int80(p, eax, edi, "loop")
      PROVE  TestPrograms' /\ UNCHANGED <<scheduling, current_process, context, in_service>>
  <2>1. syscall_num(eax, edi) = edi /\ ReturnedEdi(eax, edi) = -1
    BY EaxIsEdi DEF syscall_num, ReturnedEdi, syscall_result
  <2>2. UNCHANGED <<scheduling, switching>>
    BY <1>1, <2>1 DEF Int80, syscall_handler
  <2>3. user' = [user EXCEPT ![p] = [pc |-> "loop", edi |-> -1]]
    BY <1>1, <2>1 DEF Int80
  <2> QED
    BY <1>0, <2>2, <2>3 DEF TestPrograms, switching
<1>2. CASE user[p].pc = "write" /\ user[p].edi = 0
  <2>1. Int80(p, 2, 0, "loop")
    BY <1>2 DEF user_program, TestCall, TestLoop, AnyCall, UserFault
  <2> QED
    BY <1>1, <2>1
<1>3. CASE user[p].pc = "loop" /\ user[p].edi = -1
  <2>1. TestLoop(p)
    BY <1>3 DEF user_program, TestCall, TestLoop, AnyCall, UserFault
  <2>2. user[p].edi + 1 = 0
    BY <1>3
  <2>3. 0 % YIELD_EVERY = 0
    BY BoundsAssumption
  <2>4. Int80(p, 4, 0, AfterIteration(ReturnedEdi(4, 0)))
    BY <2>1, <2>2, <2>3 DEF TestLoop
  <2>5. AfterIteration(ReturnedEdi(4, 0)) = "loop"
    <3>1. ReturnedEdi(4, 0) = -1
      BY EaxIsEdi DEF syscall_num, ReturnedEdi, syscall_result
    <3> QED
      BY <3>1, BoundsAssumption DEF AfterIteration
  <2> QED
    BY <1>1, <2>4, <2>5
<1> QED
  BY <1>2, <1>3 DEF TestPrograms

\* A step that leaves the CPU, the PIC and the READY processes with their contexts alone.
LEMMA SameEoi ==
  ASSUME TypeOK, EoiNotLost, UNCHANGED <<current_process, in_service>>,
         \A p \in PID : state[p] = "READY" => state'[p] = "READY" /\ context'[p] = context[p]
  PROVE  EoiNotLost'
<1> SUFFICES ASSUME 0 \in in_service'
             PROVE  \E p \in SuspendedInTick' : state'[p] = "READY"
  BY DEF EoiNotLost
<1>1. PICK p \in SuspendedInTick : state[p] = "READY"
  BY DEF EoiNotLost
<1>2. p \in PID /\ p # current_process /\ context[p] = "tick"
  BY <1>1 DEF SuspendedInTick
<1>3. p \in SuspendedInTick' /\ state'[p] = "READY"
  BY <1>1, <1>2 DEF SuspendedInTick
<1> QED
  BY <1>3

\* A yield acknowledges if it resumes the suspended tick, and else lets it wait.
LEMMA YieldKeepsEoi ==
  ASSUME TypeOK, QueueInv, scheduler_enabled, EoiInv, YieldNow
  PROVE  EoiNotLost' /\ state'[current_process'] = "RUNNING"
<1>1. PICK qu \in [PID -> 0 .. QUANTUM] : Reschedule("yield", qu, in_service, in_service)
  BY YieldReschedules
<1>2. in_service \in SUBSET {0, 1}
  BY DEF TypeOK
<1>3. /\ current_process' \in PID
      /\ \/ /\ current_process' = current_process
            /\ context' = context
            /\ in_service' = in_service
         \/ /\ current_process' # current_process
            /\ context' = [context EXCEPT ![current_process] = "yield"]
            /\ in_service' = IF context[current_process'] = "tick"
                             THEN pic_send_eoi(in_service) ELSE in_service
  BY <1>1, <1>2, RescheduleEffect
<1>4. /\ state'[current_process'] = "RUNNING"
      /\ \A p \in PID : state[p] = "READY" /\ p # current_process' => state'[p] = "READY"
  BY <1>1, RescheduleKeepsQueue
<1>5. ASSUME 0 \in in_service'
      PROVE  \E p \in SuspendedInTick' : state'[p] = "READY"
  <2>1. /\ 0 \in in_service
        /\ current_process' = current_process \/ context[current_process'] # "tick"
    BY <1>2, <1>3, <1>5 DEF pic_send_eoi
  <2>2. PICK p \in SuspendedInTick : state[p] = "READY"
    BY <2>1 DEF EoiInv, EoiNotLost
  <2>3. p \in PID /\ p # current_process /\ context[p] = "tick" /\ p # current_process'
    BY <2>1, <2>2 DEF SuspendedInTick
  <2>4. context'[p] = "tick"
    BY <1>3, <2>3 DEF TypeOK
  <2>5. p \in SuspendedInTick' /\ state'[p] = "READY"
    BY <1>4, <2>2, <2>3, <2>4 DEF SuspendedInTick
  <2> QED
    BY <2>5
<1> QED
  BY <1>4, <1>5 DEF EoiNotLost

\* A tick that switches leaves behind a process that is READY.
LEMMA TickKeepsEoi ==
  ASSUME TypeOK, QueueInv, EoiInv, timer_handler
  PROVE  EoiNotLost' /\ state'[current_process'] = "RUNNING"
<1>1. CASE TickKeepRunning \/ TickRenew
  <2>1. UNCHANGED <<state, context, current_process, in_service>>
    BY <1>1 DEF TickKeepRunning, TickRenew, switching
  <2> QED
    BY <2>1, SameEoi DEF EoiInv
<1>2. CASE TickSwitch
  <2> DEFINE isr  == in_service \cup {0}
             kept == pic_send_eoi(isr)
  <2>1. isr \in SUBSET {0, 1} /\ kept \in SUBSET {0, 1} /\ 0 \notin kept
    BY DEF TypeOK, pic_send_eoi
  <2>2. Decremented \in [PID -> 0 .. QUANTUM]
    BY BoundsAssumption DEF Decremented, TimeLeft, TypeOK
  <2>3. scheduler_enabled /\ Reschedule("tick", Decremented, isr, kept)
    BY <1>2 DEF TickSwitch
  <2> HIDE DEF isr, kept
  <2>4. \/ /\ current_process' = current_process
           /\ in_service' = kept
        \/ /\ current_process' # current_process
           /\ context' = [context EXCEPT ![current_process] = "tick"]
    BY <2>1, <2>2, <2>3, RescheduleEffect
  <2>5. /\ state'[current_process'] = "RUNNING"
        /\ state[current_process] = "RUNNING" /\ current_process' # current_process
           => state'[current_process] = "READY"
    BY <2>2, <2>3, RescheduleKeepsQueue
  <2>6. ASSUME 0 \in in_service' PROVE \E p \in SuspendedInTick' : state'[p] = "READY"
    <3>1. /\ current_process' # current_process
          /\ context' = [context EXCEPT ![current_process] = "tick"]
      BY <2>1, <2>4, <2>6
    <3>2. current_process \in SuspendedInTick'
      BY <3>1 DEF SuspendedInTick, TypeOK
    <3> QED
      BY <2>5, <3>1, <3>2 DEF EoiInv
  <2> QED
    BY <2>5, <2>6 DEF EoiNotLost
<1> QED
  BY <1>1, <1>2 DEF timer_handler

\* A creation gives a context only to a process that has terminated.
LEMMA ShellKeepsEoi ==
  ASSUME TypeOK, QueueInv, UserCode = "test", EoiInv, shell_run
  PROVE  EoiInv'
<1>0. state \in [PID -> States] /\ context \in [PID -> Contexts] /\ current_process \in PID
      /\ user \in [PID -> [pc : UserAt, edi : Int]]
  BY DEF TypeOK
<1>1. ASSUME UNCHANGED <<state, user, current_process, context, in_service>> PROVE EoiInv'
  BY <1>1, SameEoi DEF EoiInv, TestPrograms
<1>2. CASE ShellYield
  <2>1. YieldNow /\ UNCHANGED user /\ scheduler_enabled
    BY <1>2 DEF ShellYield, ShellRuns, QueueInv, CommandsInOrder
  <2> QED
    BY <2>1, YieldKeepsEoi DEF EoiInv, TestPrograms
<1>3. ASSUME NEW p \in PID, CreateNoStack(p) PROVE EoiInv'
  <2>1. /\ state[p] = "TERMINATED" /\ context' = [context EXCEPT ![p] = "kernel"]
        /\ UNCHANGED <<state, user, current_process, in_service>>
    BY <1>3 DEF CreateNoStack, process_allocate_pid, Free
  <2>2. EoiNotLost'
    BY <1>0, <2>1, SameEoi DEF EoiInv
  <2> QED
    BY <2>1, <2>2 DEF EoiInv, TestPrograms
<1>4. ASSUME NEW p \in PID, Create(p) PROVE EoiInv'
  <2>1. /\ state[p] = "TERMINATED" /\ context' = [context EXCEPT ![p] = shell.kind]
        /\ state' = [state EXCEPT ![p] = "READY"]
        /\ user' = [user EXCEPT ![p] = Started]
        /\ UNCHANGED <<current_process, in_service>>
    BY <1>4 DEF Create, process_allocate_pid, Free
  <2>2. EoiNotLost'
    BY <1>0, <2>1, SameEoi DEF EoiInv
  <2>3. state'[current_process'] = "RUNNING"
    BY <1>0, <2>1 DEF EoiInv
  <2>4. Started = [pc |-> "write", edi |-> 0]
    BY DEF Started
  <2>5. TestPrograms'
    BY <1>0, <2>1, <2>4 DEF EoiInv, TestPrograms
  <2> QED
    BY <2>2, <2>3, <2>5 DEF EoiInv
<1>5. CASE CreateNoPid
  BY <1>1, <1>5 DEF CreateNoPid, scheduling, switching
<1>6. CASE AddLink \/ AddTail \/ AddCount
  BY <1>1, <1>6 DEF AddLink, AddTail, AddCount, AddStep, switching
<1>7. CASE cmd_sched_start \/ cmd_sched_stop \/ cmd_sched_yield \/ cmd_exit
  BY <1>1, <1>7 DEF cmd_sched_start, cmd_sched_stop, cmd_sched_yield, cmd_exit, scheduling, switching
<1>8. ASSUME NEW command \in Creates, cmd_create(command) PROVE EoiInv'
  BY <1>1, <1>8 DEF cmd_create, scheduling, switching
<1> QED
  BY <1>2, <1>3, <1>4, <1>5, <1>6, <1>7, <1>8 DEF shell_run, process_create

(* With the programs the kernel ships, an unacknowledged timer interrupt is *)
(* never forgotten: for any number of processes the one that will send its  *)
(* EOI is READY, and so in the queue.                                       *)
THEOREM EoiWillBeSent ==
  ASSUME ~CreateWhileEnabled, UserCode = "test"
  PROVE  Spec => []EoiNotLost
<1>1. Init => EoiInv
  <2> SUFFICES ASSUME Init PROVE EoiInv
    OBVIOUS
  <2>1. 0 \in PID
    BY MaxProcessesAssumption DEF PID
  <2>2. TestPrograms
    BY DEF Init, TestPrograms, Started
  <2>3. state[current_process] = "RUNNING" /\ EoiNotLost
    BY <2>1 DEF Init, EoiNotLost
  <2> QED
    BY <2>2, <2>3 DEF EoiInv
<1>2. TypeOK /\ QueueInv /\ [Next]_vars => QueueInv'
  BY QueueInvHolds
<1>3. TypeOK /\ QueueInv /\ EoiInv /\ [Next]_vars => EoiInv'
  <2> SUFFICES ASSUME TypeOK, QueueInv, EoiInv, [Next]_vars PROVE EoiInv'
    OBVIOUS
  <2>1. ASSUME UNCHANGED <<state, user, current_process, context, in_service>> PROVE EoiInv'
    BY <2>1, SameEoi DEF EoiInv, TestPrograms
  <2>2. CASE timer_handler
    <3>1. UNCHANGED user
      BY <2>2, TickSteps
    <3> QED
      BY <2>2, <3>1, TickKeepsEoi DEF EoiInv, TestPrograms
  <2>3. CASE keyboard_handler
    BY <2>1, <2>3 DEF keyboard_handler, Type, scheduling, switching
  <2>4. CASE shell_run
    BY <2>4, ShellKeepsEoi
  <2>5. ASSUME NEW p \in PID, user_program(p) PROVE EoiInv'
    <3>1. TestPrograms' /\ UNCHANGED <<scheduling, current_process, context, in_service>>
      BY <2>5, TestStep DEF EoiInv
    <3> QED
      BY <3>1, SameEoi DEF EoiInv, scheduling
  <2>6. CASE UNCHANGED vars
    BY <2>1, <2>6 DEF vars, scheduling, switching
  <2> QED
    BY <2>2, <2>3, <2>4, <2>5, <2>6 DEF Next
<1>4. EoiInv => EoiNotLost
  BY DEF EoiInv
<1> QED
  BY <1>1, <1>2, <1>3, <1>4, QueueInvHolds, TypeCorrect, PTL DEF Spec

---------------------------------------------------------------------------
(* Round robin.  The list that RoundRobin speaks about is read off the      *)
(* pointers by a walk of rq.count steps, as scheduler_print_stats does it.  *)
(* On what the stores of scheduler_add_process have made of a queue, the    *)
(* walk gives the queue before them until the count is stored.              *)

\* Every set of naturals that is not empty has a least element.
LEMMA LeastNatural ==
  ASSUME NEW T, T \subseteq Nat, T # {}
  PROVE  \E x \in T : \A y \in T : x <= y
<1>1. PICK x \in T : \A y \in T : ~(<<y, x>> \in OpToRel(<, Nat))
  BY NatLessThanWellFounded, WFMin, Zenon
<1>2. ASSUME NEW y \in T PROVE x <= y
  <2>1. ~(<<y, x>> \in OpToRel(<, Nat))
    BY <1>1
  <2>2. ~(y < x)
    BY <2>1 DEF OpToRel
  <2> QED
    BY <2>2
<1> QED
  BY <1>1, <1>2

\* A queue, or one that is being added to, as the walk sees it.
ReadsAs(q, s) ==
    /\ q.count = Len(s)
    /\ Len(s) > 0 => s[1] = q.head
    /\ \A i \in 1 .. Len(s) - 1 : s[i + 1] = q.next[s[i]]

(* Walking along the links from the head reads the list they form: the     *)
(* list satisfies the equation of the walk, and the walk cannot leave it.  *)
LEMMA WalkReadsList ==
  ASSUME NEW s \in Seq(PID), NEW q, ReadsAs(q, s)
  PROVE  LET node[i \in 1 .. q.count] == IF i = 1 THEN q.head ELSE q.next[node[i - 1]]
         IN  [i \in 1 .. q.count |-> node[i]] = s
<1>0. /\ q.count \in Nat /\ DOMAIN s = 1 .. q.count /\ s = [i \in 1 .. q.count |-> s[i]]
      /\ q.count > 0 => s[1] = q.head
      /\ \A i \in 1 .. q.count - 1 : s[i + 1] = q.next[s[i]]
  <2>1. Len(s) \in Nat /\ DOMAIN s = 1 .. Len(s) /\ s = [i \in 1 .. Len(s) |-> s[i]]
    BY LenProperties
  <2> QED
    BY <2>1, Zenon DEF ReadsAs
<1> DEFINE F(f) == [i \in 1 .. q.count |-> IF i = 1 THEN q.head ELSE q.next[f[i - 1]]]
           node[i \in 1 .. q.count] == IF i = 1 THEN q.head ELSE q.next[node[i - 1]]
<1>1. s = F(s)
  <2>1. ASSUME NEW i \in 1 .. q.count PROVE s[i] = IF i = 1 THEN q.head ELSE q.next[s[i - 1]]
    <3>1. CASE i = 1
      BY <1>0, <2>1, <3>1
    <3>2. CASE i # 1
      <4>1. i - 1 \in 1 .. q.count - 1 /\ (i - 1) + 1 = i
        BY <1>0, <2>1, <3>2
      <4> QED
        BY <1>0, <3>2, <4>1
    <3> QED
      BY <3>1, <3>2
  <2> QED
    BY <1>0, <2>1
<1>2. node = F(node)
  BY <1>1, Zenon
<1> HIDE DEF node
<1>3. \A i \in 1 .. q.count : node[i] = IF i = 1 THEN q.head ELSE q.next[node[i - 1]]
  BY <1>2
<1>4. ASSUME NEW k \in 1 .. q.count, node[k] # s[k] PROVE FALSE
  <2> DEFINE T == {i \in 1 .. q.count : node[i] # s[i]}
  <2>1. T \subseteq Nat /\ T # {}
    BY <1>0, <1>4
  <2>2. PICK x \in T : \A y \in T : x <= y
    BY <2>1, LeastNatural
  <2>3. x \in 1 .. q.count /\ node[x] # s[x]
    BY <2>2
  <2>4. CASE x = 1
    BY <1>0, <1>3, <2>3, <2>4
  <2>5. CASE x # 1
    <3>1. x - 1 \in 1 .. q.count - 1 /\ x - 1 \in 1 .. q.count /\ (x - 1) + 1 = x /\ ~(x <= x - 1)
      BY <1>0, <2>3, <2>5
    <3>2. node[x - 1] = s[x - 1]
      BY <2>2, <3>1
    <3>3. node[x] = q.next[s[x - 1]] /\ s[x] = q.next[s[x - 1]]
      BY <1>0, <1>3, <2>3, <2>5, <3>1, <3>2
    <3> QED
      BY <2>3, <3>3
  <2> QED
    BY <2>4, <2>5
<1>5. [i \in 1 .. q.count |-> node[i]] = s
  BY <1>0, <1>4
<1> QED
  BY <1>5 DEF node

\* Pointers that read as a list are walked as that list, before and after a step.
LEMMA ReadyListIs ==
  ASSUME NEW s \in Seq(PID)
  PROVE  /\ ReadsAs(rq, s) => ReadyList = s
         /\ ReadsAs(rq', s) => ReadyList' = s
<1>1. ASSUME ReadsAs(rq, s) PROVE ReadyList = s
  BY <1>1, WalkReadsList, Zenon DEF ReadyList
<1>2. ASSUME ReadsAs(rq', s) PROVE ReadyList' = s
  BY <1>2, WalkReadsList, Zenon DEF ReadyList
<1> QED
  BY <1>1, <1>2

\* Between two additions the walk reads the queue.
LEMMA QueueReadsAs ==
  ASSUME NEW q, NEW s \in Seq(PID), IsQueue(q, s)
  PROVE  ReadsAs(q, s)
<1>1. Len(s) \in Nat /\ DOMAIN s = 1 .. Len(s) /\ (s = <<>> <=> Len(s) = 0)
  BY LenProperties, EmptySeq
<1>2. /\ q.count = Len(s)
      /\ s # <<>> => q.head = s[1]
      /\ \A i \in DOMAIN s : i # Len(s) => q.next[s[i]] = s[i + 1]
  BY Zenon DEF IsQueue
<1>3. \A i \in 1 .. Len(s) - 1 : i \in DOMAIN s /\ i # Len(s)
  <2>1. \A n \in Nat : \A i \in 1 .. n - 1 : i \in 1 .. n /\ i # n
    OBVIOUS
  <2> QED
    BY <1>1, <2>1, Zenon
<1>4. Len(s) > 0 => s # <<>>
  BY <1>1
<1> QED
  BY <1>2, <1>3, <1>4, Zenon DEF ReadsAs

\* Until the count is stored, the walk does not see the process being added.
LEMMA StoredReadsAs ==
  ASSUME NEW q \in Queue, NEW s \in Seq(PID), IsQueue(q, s), NEW p \in PID, NEW pc,
         p \notin Members(s)
  PROVE  ReadsAs(Stored(pc, q, p), s)
<1>1. /\ Len(s) \in Nat /\ DOMAIN s = 1 .. Len(s) /\ (s = <<>> <=> Len(s) = 0)
      /\ \A i \in 1 .. Len(s) : s[i] \in PID /\ s[i] # p
  BY LenProperties, ElementOfSeq, EmptySeq DEF Members
<1>2. ReadsAs(q, s)
  BY QueueReadsAs
<1> DEFINE e == Enter(q, p, q.tail)
           l == Link(e, p, q.tail)
<1>3. /\ e.count = q.count /\ e.head = q.head /\ e.next = [q.next EXCEPT ![p] = NULL]
      /\ q.next \in [PID -> Pointer] /\ e \in Queue /\ q.tail \in Pointer
  BY DEF Enter, Queue, Pointer
<1>4. ReadsAs(e, s)
  BY <1>1, <1>2, <1>3 DEF ReadsAs
<1> HIDE DEF e
<1>5. ReadsAs(l, s)
  <2>1. CASE q.tail = NULL
    <3>1. Len(s) = 0
      BY <1>1, <2>1, NullAssumption DEF IsQueue
    <3>2. l.count = e.count
      BY <1>3, <2>1 DEF Link, Queue
    <3> QED
      BY <1>4, <3>1, <3>2 DEF ReadsAs
  <2>2. CASE q.tail # NULL
    <3>1. q.tail = s[Len(s)] /\ Len(s) > 0
      BY <1>1, <2>2 DEF IsQueue
    <3>2. l.count = e.count /\ l.head = e.head /\ l.next = [e.next EXCEPT ![q.tail] = p]
          /\ e.next \in [PID -> Pointer]
      BY <1>3, <2>2 DEF Link, Queue
    <3>3. \A i \in 1 .. Len(s) - 1 : s[i] # q.tail
      BY <1>1, <3>1 DEF IsQueue, Injective
    <3> QED
      BY <1>1, <1>4, <3>2, <3>3 DEF ReadsAs
  <2> QED
    BY <2>1, <2>2
<1>6. l \in Queue
  BY <1>3, StoreTypes
<1> HIDE DEF l
<1>7. ReadsAs(SetTail(l, p), s)
  BY <1>5, <1>6 DEF SetTail, ReadsAs, Queue
<1> QED
  BY <1>2, <1>4, <1>5, <1>7 DEF Stored, e, l

\* A rescheduling is a rotation, a retirement, or nothing when nobody else waits.
LEMMA RescheduleRefines ==
  ASSUME TypeOK, QueueInv, OwnKernelStack, scheduler_enabled, UNCHANGED stack_allocated,
         NEW place, NEW qu \in [PID -> 0 .. QUANTUM], NEW isr, NEW kept,
         Reschedule(place, qu, isr, kept)
  PROVE  [RR!Next]_RR!vars
<1>1. BeingAdded = {} /\ WhoRuns
  BY DEF QueueInv, CommandsInOrder, BeingAdded
<1>2. PICK s \in Seq(PID) : IsQueue(rq, s) /\ Members(s) = Ready
  BY <1>1, QueueAtRest DEF QueueInv
<1> DEFINE old == current_process
           t   == IF state[old] = "RUNNING" THEN Append(s, old) ELSE s
<1>3. t \in Seq(PID) /\ t # <<>> /\ current_process' = Head(t) /\ IsQueue(rq', Tail(t))
  BY <1>1, <1>2, RescheduleRotates
<1>4. Tail(t) \in Seq(PID)
  BY <1>3, HeadTailProperties
<1>5. ReadyList = s /\ ReadyList' = Tail(t)
  <2>1. ReadsAs(rq, s)
    BY <1>2, QueueReadsAs
  <2>2. ReadsAs(rq', Tail(t))
    BY <1>3, <1>4, QueueReadsAs
  <2> QED
    BY <1>4, <2>1, <2>2, ReadyListIs
<1>6. old \in PID /\ s \in Seq(PID) /\ Exited' = Exited
  BY RescheduleKeepsExited DEF TypeOK
<1>7. CASE state[old] = "RUNNING" /\ s = <<>>
  <2>1. Head(t) = old /\ Tail(t) = <<>>
    BY <1>6, <1>7, HeadTailAppend
  <2> QED
    BY <1>3, <1>5, <1>6, <1>7, <2>1 DEF RR!vars
<1>8. CASE state[old] = "RUNNING" /\ s # <<>>
  <2>1. Head(t) = Head(s) /\ Tail(t) = Append(Tail(s), old)
    BY <1>6, <1>8, HeadTailAppend
  <2>2. RR!Rotate
    BY <1>3, <1>5, <1>6, <1>8, <2>1 DEF RR!Rotate, Exited
  <2> QED
    BY <2>2 DEF RR!Next
<1>9. CASE state[old] # "RUNNING"
  <2>1. t = s /\ old \in Exited
    BY <1>1, <1>6, <1>9 DEF WhoRuns, TypeOK, States, OwnKernelStack, Exited
  <2>2. RR!Retire
    BY <1>3, <1>5, <1>6, <2>1 DEF RR!Retire
  <2> QED
    BY <2>2 DEF RR!Next
<1> QED
  BY <1>7, <1>8, <1>9

\* Creating and the stores of an addition are seen as nothing, the count as an admission.
LEMMA CreationRefines ==
  ASSUME TypeOK, QueueInv,
         process_create \/ AddLink \/ AddTail \/ AddCount
  PROVE  [RR!Next]_RR!vars
<1>0. shell \in ShellState /\ rq \in Queue /\ Exited' = Exited
  BY CreationKeepsExited DEF TypeOK
<1>1. ASSUME NEW s \in Seq(PID), ReadsAs(rq, s), ReadsAs(rq', s), UNCHANGED current_process
      PROVE  [RR!Next]_RR!vars
  BY <1>0, <1>1, ReadyListIs DEF RR!vars
<1>2. CASE CreateNoPid
  BY <1>0, <1>2 DEF CreateNoPid, scheduling, switching, ReadyList, RR!vars
<1>3. ASSUME NEW p \in PID, CreateNoStack(p) \/ Create(p)
      PROVE  [RR!Next]_RR!vars
  <2>1. /\ shell.pc = "create" /\ state[p] = "TERMINATED"
        /\ rq' = Enter(rq, p, NULL) \/ rq' = Enter(rq, p, rq.tail)
        /\ UNCHANGED current_process
    BY <1>3 DEF CreateNoStack, Create, ShellRuns, process_allocate_pid, Free
  <2>2. PICK s \in Seq(PID) : IsQueue(rq, s) /\ Members(s) = Ready
    BY <2>1, QueueAtRest DEF BeingAdded, QueueInv
  <2>3. p \notin Members(s)
    BY <2>1, <2>2 DEF Ready
  <2>4. ReadsAs(Enter(rq, p, rq.tail), s)
    BY <1>0, <2>2, <2>3, StoredReadsAs DEF Stored
  <2>5. \A t : LET e == Enter(rq, p, t)
               IN  e.count = rq.count /\ e.head = rq.head /\ e.next = [rq.next EXCEPT ![p] = NULL]
    BY <1>0 DEF Enter, Queue
  <2> DEFINE e == Enter(rq, p, rq.tail)
  <2>6. rq'.count = e.count /\ rq'.head = e.head /\ rq'.next = e.next
    <3>1. CASE rq' = Enter(rq, p, NULL)
      BY ONLY <2>5, <3>1
    <3>2. CASE rq' = Enter(rq, p, rq.tail)
      BY ONLY <3>2
    <3> QED
      BY ONLY <2>1, <3>1, <3>2
  <2> HIDE DEF e
  <2>7. ReadsAs(e, s)
    BY <2>4 DEF e
  <2>8. ReadsAs(rq', s)
    BY ONLY <2>6, <2>7 DEF ReadsAs
  <2> QED
    BY <1>1, <2>1, <2>2, <2>8, QueueReadsAs
<1>4. CASE AddLink \/ AddTail \/ AddCount
  <2>1. shell.pc \in {"link", "tail", "count"} /\ UNCHANGED current_process
    BY <1>4 DEF AddLink, AddTail, AddCount, AddStep, ShellRuns, switching
  <2> DEFINE p == shell.process
  <2>2. p \in PID /\ BeingAdded = {p}
    BY <1>0, <2>1 DEF BeingAdded, ShellState
  <2>3. PICK q \in Queue, s \in Seq(PID) : Underlies(q, s)
    BY DEF QueueInv, QueueOK
  <2>4. /\ IsQueue(q, s)
        /\ Members(s) = Ready \ {p} /\ p \in Ready
        /\ shell.tail = q.tail
        /\ rq = Stored(shell.pc, q, p)
    BY <2>2, <2>3 DEF Underlies
  <2>5. p \notin Members(s)
    BY <2>4
  <2> HIDE DEF p
  <2>6. ReadsAs(rq, s) /\ ReadsAs(Stored("tail", q, p), s) /\ ReadsAs(Stored("count", q, p), s)
    BY <2>2, <2>4, <2>5, StoredReadsAs
  <2>7. CASE AddLink
    <3>1. shell.pc = "link" /\ rq' = Link(rq, p, shell.tail)
      BY <2>7 DEF AddLink, AddStep, ShellRuns, p
    <3>2. rq' = Stored("tail", q, p)
      BY <2>4, <3>1 DEF Stored
    <3> QED
      BY <1>1, <2>1, <2>6, <3>2
  <2>8. CASE AddTail
    <3>1. shell.pc = "tail" /\ rq' = SetTail(rq, p)
      BY <2>8 DEF AddTail, AddStep, ShellRuns, p
    <3>2. rq' = Stored("count", q, p)
      BY <2>4, <3>1 DEF Stored
    <3> QED
      BY <1>1, <2>1, <2>6, <3>2
  <2>9. CASE AddCount
    <3>1. shell.pc = "count" /\ rq' = IncrementCount(rq)
      BY <2>9 DEF AddCount, AddStep, ShellRuns
    <3>2. rq' = Appended(q, p)
      BY <2>4, <3>1 DEF Stored, Appended
    <3>3. Append(s, p) \in Seq(PID) /\ IsQueue(rq', Append(s, p))
      BY <2>2, <2>4, <2>5, <3>2, AppendProperties, StoresAppend
    <3>4. ReadyList = s /\ ReadyList' = Append(s, p)
      BY <2>6, <3>3, QueueReadsAs, ReadyListIs
    <3>5. p \notin {s[i] : i \in DOMAIN s} \cup {current_process} \cup Exited
      BY <2>4, <2>5 DEF QueueInv, WhoRuns, Ready, Members, Exited
    <3>6. RR!Admit(p)
      BY <1>0, <2>1, <3>4, <3>5 DEF RR!Admit, RR!Waiting
    <3> QED
      BY <2>2, <3>6 DEF RR!Next
  <2> QED
    BY <1>4, <2>7, <2>8, <2>9
<1> QED
  BY <1>2, <1>3, <1>4 DEF process_create

(* The scheduler implements round robin, for any number of processes and    *)
(* any code in ring 3, as long as processes are created with the scheduler  *)
(* off: every step of the kernel is an admission at the back of the FIFO, a *)
(* rotation, an exit, the retirement of a process that has exited, or       *)
(* invisible.                                                               *)
THEOREM SchedulerIsRoundRobin == ASSUME ~CreateWhileEnabled PROVE Spec => RefinesRoundRobin
<1>1. Init => RR!Init
  <2> SUFFICES ASSUME Init PROVE ReadyList = <<>> /\ current_process = 0
    BY DEF RR!Init, Init, Exited
  <2>1. <<>> \in Seq(PID) /\ Len(<<>>) = 0
    BY EmptySeq
  <2>2. ReadsAs(rq, <<>>)
    BY <2>1 DEF Init, EmptyQueue, ReadsAs
  <2> QED
    BY <2>1, <2>2, ReadyListIs DEF Init
<1>2. TypeOK /\ QueueInv /\ OwnKernelStack /\ [Next]_vars => [RR!Next]_RR!vars
  <2> SUFFICES ASSUME TypeOK, QueueInv, OwnKernelStack, [Next]_vars
               PROVE  [RR!Next]_RR!vars
    OBVIOUS
  <2>1. ASSUME UNCHANGED <<rq, current_process, state, stack_allocated>>
        PROVE  [RR!Next]_RR!vars
    BY <2>1 DEF ReadyList, Exited, RR!vars
  <2>2. CASE timer_handler
    <3>1. scheduler_enabled /\ UNCHANGED stack_allocated
      BY <2>2, TickSteps DEF creation
    <3>2. CASE UNCHANGED <<rq, state, switching>>
      BY <2>1, <3>1, <3>2 DEF switching
    <3>3. ASSUME NEW qu \in [PID -> 0 .. QUANTUM], NEW isr, NEW kept,
                 Reschedule("tick", qu, isr, kept)
          PROVE  [RR!Next]_RR!vars
      BY <3>1, <3>3, RescheduleRefines
    <3> QED
      BY <2>2, <3>2, <3>3, TickSteps
  <2>3. CASE keyboard_handler
    BY <2>1, <2>3 DEF keyboard_handler, Type, scheduling, switching, creation
  <2>4. CASE shell_run
    <3>1. CASE ShellYield
      <4>1. scheduler_enabled /\ YieldNow /\ UNCHANGED stack_allocated
        BY <3>1 DEF ShellYield, ShellRuns, QueueInv, CommandsInOrder, creation
      <4>2. PICK qu \in [PID -> 0 .. QUANTUM] : Reschedule("yield", qu, in_service, in_service)
        BY <4>1, YieldReschedules
      <4> QED
        BY <4>1, <4>2, RescheduleRefines
    <3>2. CASE process_create \/ AddLink \/ AddTail \/ AddCount
      BY <3>2, CreationRefines
    <3>3. CASE cmd_sched_start \/ cmd_sched_stop \/ cmd_sched_yield \/ cmd_exit
      BY <2>1, <3>3
         DEF cmd_sched_start, cmd_sched_stop, cmd_sched_yield, cmd_exit, scheduling,
             switching, creation
    <3>4. ASSUME NEW command \in Creates, cmd_create(command)
          PROVE  [RR!Next]_RR!vars
      BY <2>1, <3>4 DEF cmd_create, scheduling, switching, creation
    <3> QED
      BY <2>4, <3>1, <3>2, <3>3, <3>4 DEF shell_run
  <2>5. ASSUME NEW p \in PID, user_program(p)
        PROVE  [RR!Next]_RR!vars
    <3>0. UNCHANGED stack_allocated
      BY <2>5, UserSteps DEF creation
    <3>1. CASE scheduler_enabled /\ YieldNow
      <4>1. PICK qu \in [PID -> 0 .. QUANTUM] : Reschedule("yield", qu, in_service, in_service)
        BY <3>1, YieldReschedules
      <4> QED
        BY <3>0, <3>1, <4>1, RescheduleRefines
    <3>2. CASE state' = process_exit /\ UNCHANGED <<rq, current_process>>
      <4>1. current_process \in PID /\ current_process # 0 /\ stack_allocated[current_process]
        BY <2>5, UserSteps DEF UserRuns, TypeOK, OwnKernelStack
      <4>2. Exited' = Exited \cup {current_process}
        BY <3>0, <3>2, <4>1 DEF process_exit, TypeOK, Exited
      <4>3. RR!Finish
        BY <3>2, <4>1, <4>2 DEF RR!Finish, ReadyList
      <4> QED
        BY <4>3 DEF RR!Next
    <3> QED
      BY <2>1, <2>5, <3>0, <3>1, <3>2, UserSteps DEF scheduling, switching
  <2>6. CASE UNCHANGED vars
    BY <2>1, <2>6 DEF vars, scheduling, switching, creation
  <2> QED
    BY <2>2, <2>3, <2>4, <2>5, <2>6 DEF Next
<1>3. TypeOK /\ QueueInv /\ [Next]_vars => QueueInv'
  BY QueueInvHolds
<1> QED
  BY <1>1, <1>2, <1>3, QueueInvHolds, TypeCorrect, StackOfItsOwn, PTL
     DEF Spec, RefinesRoundRobin, RR!Spec
===========================================================================
