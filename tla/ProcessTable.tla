--------------------------- MODULE ProcessTable ---------------------------
(* The process table of process.c: slots, stacks, parents and children.     *)
(* process.h offers creation, exit, destruction and the setters; callers    *)
(* may use them in any order.  The kernel itself never destroys a process;  *)
(* exit, which it does call, keeps slot, stack and family as they are.      *)
(* The calls run one at a time: no interrupt handler makes them while       *)
(* another is under way.                                                    *)
EXTENDS Integers, Sequences, FiniteSets

CONSTANTS MAX_PROCESSES,  \* slots of process_table (256)
          MAX_CHILDREN,   \* length of children[] (16)
          MAX_SPOILED,    \* how many kinds of spoilers are followed, a bound
          NULL

\* PID 1 exists and there is room for a child.
ASSUME TableAssumption ==
    /\ MAX_PROCESSES \in Nat /\ MAX_PROCESSES >= 2
    /\ MAX_CHILDREN \in Nat \ {0}
    /\ MAX_SPOILED \in Nat
    /\ NULL \notin Nat

VARIABLES
    state,            \* process_table[p].state
    parent,           \* process_table[p].parent, as a PID or NULL
    children,         \* process_table[p].children, num_children of them
    stack_allocated,
    next_pid,
    current_process,
    spoiled           \* what has happened so far that a family does not survive (history)

table == <<state, parent, children, stack_allocated, next_pid>>
vars == <<table, current_process, spoiled>>

PID == 0 .. MAX_PROCESSES - 1

\* NEW, READY, RUNNING and BLOCKED make no difference here.
States == {"alive", "TERMINATED"}

(* "list full"      a child found no place in the list of its parent        *)
(* "slot cleared"   process_create has cleared the slot of a process that   *)
(*                  has exited, and then refused it                         *)
(* "init destroyed" PID 1, to whom orphans are given, was destroyed         *)
(* "no parent"      the current process was destroyed and has then created  *)
Spoilers == {"list full", "slot cleared", "init destroyed", "no parent"}

\* Created and not destroyed.
Exists(p) == p = 0 \/ stack_allocated[p]

\* process_init: the idle process and free slots.
Init ==
    /\ state = [p \in PID |-> IF p = 0 THEN "alive" ELSE "TERMINATED"]
    /\ parent = [p \in PID |-> NULL]
    /\ children = [p \in PID |-> <<>>]
    /\ stack_allocated = [p \in PID |-> FALSE]
    /\ next_pid = 1
    /\ current_process = 0
    /\ spoiled = {}

---------------------------------------------------------------------------
\* process_get_by_pid finds the processes that have not terminated.
process_get_by_pid == {p \in PID : state[p] # "TERMINATED"}

\* The scan stops at p: the first free slot from next_pid on, else from 1 on.
process_allocate_pid(p) ==
    LET free(pids) == pids \ process_get_by_pid
    IN  /\ p \in free(1 .. MAX_PROCESSES - 1)
        /\ IF p >= next_pid
           THEN free(next_pid .. p - 1) = {}
           ELSE free(next_pid .. MAX_PROCESSES - 1) = {} /\ free(1 .. p - 1) = {}

\* A bug: the child is entered past the end of a full list.
AdoptAnyway(list, p) == Append(list, p)

\* A list takes another child while there is room, and else drops it silently.
Adopt(list, p) == IF Len(list) < MAX_CHILDREN THEN Append(list, p) ELSE list

\* All slots are taken.
CreateNoPid ==
    /\ 1 .. MAX_PROCESSES - 1 \subseteq process_get_by_pid
    /\ UNCHANGED vars

(* The slot was cleared before its stack turned out to be reserved still,   *)
(* for a process that has exited and was not destroyed.                     *)
CreateNoStack(p) ==
    /\ process_allocate_pid(p)
    /\ stack_allocated[p]
    /\ parent' = [parent EXCEPT ![p] = NULL]
    /\ children' = [children EXCEPT ![p] = <<>>]
    /\ next_pid' = p + 1
    /\ spoiled' = spoiled \cup {"slot cleared"}
    /\ UNCHANGED <<state, stack_allocated, current_process>>

(* The new process is a child of the current one.  The list of the slot is  *)
(* cleared before the current process, which may own the slot, gets it.     *)
Create(p) ==
    LET cleared == [children EXCEPT ![p] = <<>>]
    IN  /\ process_allocate_pid(p)
        /\ ~stack_allocated[p]
        /\ state' = [state EXCEPT ![p] = "alive"]
        /\ parent' = [parent EXCEPT ![p] = current_process]
        /\ children' = [cleared EXCEPT ![current_process] = Adopt(@, p), ![p] = <<>>]
        /\ stack_allocated' = [stack_allocated EXCEPT ![p] = TRUE]
        /\ next_pid' = p + 1
        /\ spoiled' = spoiled
              \cup (IF Len(cleared[current_process]) < MAX_CHILDREN THEN {} ELSE {"list full"})
              \cup (IF Exists(current_process) THEN {} ELSE {"no parent"})
        /\ UNCHANGED current_process

process_create == CreateNoPid \/ \E p \in PID : CreateNoStack(p) \/ Create(p)

---------------------------------------------------------------------------
\* A bug: the slot is not given back.
StaysAlive(p) == UNCHANGED state

\* The slot of p counts as free.
Terminate(p) == state' = [state EXCEPT ![p] = "TERMINATED"]

\* A bug: the children after p are not moved up, the last one is dropped.
RemoveLast(list, p) ==
    IF \E i \in DOMAIN list : list[i] = p THEN SubSeq(list, 1, Len(list) - 1) ELSE list

\* The first entry for p is removed and those after it are moved up.
RemoveChild(list, p) ==
    IF \E i \in DOMAIN list : list[i] = p
    THEN LET i == CHOOSE i \in DOMAIN list :
                     list[i] = p /\ \A j \in 1 .. i - 1 : list[j] # p
         IN  SubSeq(list, 1, i - 1) \o SubSeq(list, i + 1, Len(list))
    ELSE list

\* What becomes of a list that adopts the members of another, one by one.
AdoptAll(list, orphans) ==
    LET adopted[i \in 0 .. Len(orphans)] ==
            IF i = 0 THEN list ELSE Adopt(adopted[i - 1], orphans[i])
    IN  adopted[Len(orphans)]

(* PID 1 gives its children to itself: the loop runs over the list it       *)
(* extends, so that the list repeats until it is full.                      *)
AdoptOwn(list) ==
    IF list = <<>> THEN <<>>
    ELSE [i \in 1 .. MAX_CHILDREN |-> list[((i - 1) % Len(list)) + 1]]

\* Every child listed by a destroyed process gets PID 1 for its parent.
NewParent(q, orphans) ==
    IF \E i \in DOMAIN orphans : orphans[i] = q THEN 1 ELSE parent[q]

(* process_destroy(p), p being a process that was created and not yet       *)
(* destroyed, alive or exited.  It leaves the list of its parent, its       *)
(* children go to PID 1 (next_pid is above 1 once p exists), and stack and  *)
(* slot are free.  p itself keeps its list until the slot is reused.        *)
process_destroy(p) ==
    LET left == IF parent[p] = NULL THEN children
                ELSE [children EXCEPT ![parent[p]] = RemoveChild(@, p)]
    IN  /\ p # 0
        /\ stack_allocated[p]
        /\ children' = IF p = 1 THEN [left EXCEPT ![1] = AdoptOwn(@)]
                       ELSE [left EXCEPT ![1] = AdoptAll(@, left[p])]
        /\ parent' = [q \in PID |-> NewParent(q, left[p])]
        /\ stack_allocated' = [stack_allocated EXCEPT ![p] = FALSE]
        /\ Terminate(p)
        /\ spoiled' = spoiled
              \cup (IF p = 1 THEN {"init destroyed"} ELSE {})
              \cup (IF Len(left[1]) + Len(left[p]) > MAX_CHILDREN THEN {"list full"} ELSE {})
        /\ UNCHANGED <<next_pid, current_process>>

\* The current process terminates; it keeps stack, family and the CPU.
process_exit ==
    /\ Terminate(current_process)
    /\ UNCHANGED <<parent, children, stack_allocated, next_pid, current_process, spoiled>>

\* Of a process that process_get_by_pid has found.
process_set_state(p, s) ==
    /\ p \in process_get_by_pid
    /\ state' = [state EXCEPT ![p] = s]
    /\ UNCHANGED <<parent, children, stack_allocated, next_pid, current_process, spoiled>>

process_set_current(p) ==
    /\ p \in process_get_by_pid
    /\ current_process' = p
    /\ UNCHANGED <<table, spoiled>>

\* Once the family is spoiled in more ways than that, nothing is followed.
Followed == Cardinality(spoiled) <= MAX_SPOILED

Next ==
    /\ Followed
    /\ \/ process_create
       \/ process_exit
       \/ \E p \in PID : process_destroy(p) \/ process_set_current(p)
       \/ \E p \in PID, s \in States : process_set_state(p, s)

Spec == Init /\ [][Next]_vars

---------------------------------------------------------------------------
(* Properties. *)

\* No child list runs past its array, and pointers are to slots of the table.
TypeOK ==
    /\ state \in [PID -> States]
    /\ parent \in [PID -> PID \cup {NULL}]
    /\ children \in [PID -> Seq(PID)]
    /\ \A p \in PID : Len(children[p]) <= MAX_CHILDREN
    /\ stack_allocated \in [PID -> BOOLEAN]
    /\ next_pid \in 1 .. MAX_PROCESSES
    /\ current_process \in PID
    /\ spoiled \subseteq Spoilers

(* A process that can run has its stack to itself: reuse of slots, refused  *)
(* creations and destruction in any order never free the stack of a live    *)
(* process, and a slot is only given out again when its stack is free.      *)
LiveOwnsStack == \A p \in process_get_by_pid : Exists(p)

\* The k-th ancestor, 0 standing for its own parent.
Ancestor(k, p) ==
    LET up[i \in 0 .. k] == IF i = 0 THEN p
                            ELSE IF up[i - 1] \in PID \ {0} THEN parent[up[i - 1]] ELSE up[i - 1]
    IN  up[k]

(* Parents and children agree and form a tree with the idle process as its  *)
(* root, through every order of creations, exits and destructions, as long  *)
(* as none of four things has happened: a child in nobody's list, a slot    *)
(* cleared under its family, orphans given to a PID 1 that is gone, and a   *)
(* creation by a destroyed process.                                         *)
FamilyTree ==
    spoiled = {} =>
        \A p \in PID : Exists(p) =>
            /\ \A i, j \in DOMAIN children[p] : children[p][i] = children[p][j] => i = j
            /\ {children[p][i] : i \in DOMAIN children[p]}
                 = {q \in PID \ {0} : Exists(q) /\ parent[q] = p}
            /\ Ancestor(MAX_PROCESSES, p) = 0
===========================================================================
