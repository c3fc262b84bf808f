---------------------------- MODULE ReadyQueue ----------------------------
(* The ready queue of scheduler.c: a doubly linked list threaded through   *)
(* the process table by the next and prev fields of process_t, with a      *)
(* head, a tail and a count.  A process_t* is the PID of its slot, or NULL. *)
(* The operators are the two list operations of the file, whole; the steps  *)
(* in which the shell executes one of them are in Multitasking.             *)
EXTENDS Integers, Sequences

CONSTANTS MAX_PROCESSES,   \* slots of process_table (256 in process.h)
          NULL             \* the null process_t*

PID == 0 .. MAX_PROCESSES - 1

Pointer == PID \cup {NULL}

\* There is room for the idle process and one more.
ASSUME MaxProcessesAssumption == MAX_PROCESSES \in Nat /\ MAX_PROCESSES >= 2

\* The null pointer is no process of the table.
ASSUME NullAssumption == NULL \notin PID

Queue == [head : Pointer, tail : Pointer, count : Nat,
          next : [PID -> Pointer], prev : [PID -> Pointer]]

\* scheduler_init: no ready process; process_init cleared every link.
EmptyQueue == [head |-> NULL, tail |-> NULL, count |-> 0,
               next |-> [p \in PID |-> NULL], prev |-> [p \in PID |-> NULL]]

---------------------------------------------------------------------------
(* The stores of scheduler_add_process, in the order the build makes them.  *)
(* t is the tail it loaded once, before the first of them.                  *)

Enter(q, p, t) == [q EXCEPT !.next[p] = NULL, !.prev[p] = t]

Link(q, p, t) ==
    IF t # NULL THEN [q EXCEPT !.next[t] = p] ELSE [q EXCEPT !.head = p]

SetTail(q, p) == [q EXCEPT !.tail = p]

IncrementCount(q) == [q EXCEPT !.count = @ + 1]

\* A bug the properties must notice: the old tail keeps its null next.
AddWithoutLink(q, p) ==
    IncrementCount(SetTail(Enter(q, p, q.tail), p))

\* All the stores to the list: p is appended.
Appended(q, p) ==
    IncrementCount(SetTail(Link(Enter(q, p, q.tail), p, q.tail), p))

(* The operation executed with interrupts off, on a queue and the states of *)
(* the processes: no process, or one that has terminated, is refused.       *)
scheduler_add_process(q, st, p) ==
    IF p = NULL \/ st[p] = "TERMINATED"
    THEN [rq |-> q, state |-> st]
    ELSE [rq |-> Appended(q, p), state |-> [st EXCEPT ![p] = "READY"]]

\* A bug: the tail stays when the last process is removed.
RemoveKeepsTail(q, p) ==
    LET before == q.prev[p]
        after  == q.next[p]
    IN  [q EXCEPT !.head = IF before = NULL THEN after ELSE @,
                  !.count = IF @ > 0 THEN @ - 1 ELSE @,
                  !.next = [i \in PID |-> IF i = p THEN NULL
                                          ELSE IF i = before THEN after ELSE q.next[i]],
                  !.prev = [i \in PID |-> IF i = p THEN NULL
                                          ELSE IF i = after THEN before ELSE q.prev[i]]]

\* The neighbours are joined, or the head or tail moved, then p is cleared.
scheduler_remove_process(q, p) ==
    LET before == q.prev[p]
        after  == q.next[p]
    IN  [head  |-> IF before = NULL THEN after ELSE q.head,
         tail  |-> IF after = NULL THEN before ELSE q.tail,
         count |-> IF q.count > 0 THEN q.count - 1 ELSE q.count,
         next  |-> [i \in PID |-> IF i = p THEN NULL
                                  ELSE IF i = before THEN after ELSE q.next[i]],
         prev  |-> [i \in PID |-> IF i = p THEN NULL
                                  ELSE IF i = after THEN before ELSE q.prev[i]]]

---------------------------------------------------------------------------
(* What the pointers must mean: they are the list of the processes in s, in *)
(* order, each once, and the links of every other slot are clear.           *)

Injective(s) == \A i, j \in DOMAIN s : s[i] = s[j] => i = j

Members(s) == {s[i] : i \in DOMAIN s}

IsQueue(q, s) ==
    /\ Injective(s)
    /\ q.count = Len(s)
    /\ q.head = IF s = <<>> THEN NULL ELSE s[1]
    /\ q.tail = IF s = <<>> THEN NULL ELSE s[Len(s)]
    /\ \A i \in DOMAIN s :
          /\ q.next[s[i]] = IF i = Len(s) THEN NULL ELSE s[i + 1]
          /\ q.prev[s[i]] = IF i = 1 THEN NULL ELSE s[i - 1]
    /\ \A p \in PID \ Members(s) : q.next[p] = NULL /\ q.prev[p] = NULL
===========================================================================
