---------------------------- MODULE RoundRobin ----------------------------
(* What scheduler.c promises: a FIFO of waiting processes and one that has  *)
(* the CPU.  A process joins at the back, the process at the front gets the *)
(* CPU, and the one that loses it goes to the back, unless it has finished. *)
(* No order other than this one is allowed, nobody is dropped who has not   *)
(* finished, and nobody who has comes back.                                 *)
EXTENDS Integers, Sequences

CONSTANTS Process, Idle

VARIABLES ready, running, finished

vars == <<ready, running, finished>>

Waiting == {ready[i] : i \in DOMAIN ready}

Init == ready = <<>> /\ running = Idle /\ finished = {}

\* A new process joins the queue.
Admit(p) ==
    /\ p \notin Waiting \cup {running} \cup finished
    /\ ready' = Append(ready, p)
    /\ UNCHANGED <<running, finished>>

\* The process that runs, never idle, finishes; it keeps the CPU for now.
Finish ==
    /\ running # Idle
    /\ finished' = finished \cup {running}
    /\ UNCHANGED <<ready, running>>

\* The process that runs is preempted or yields.
Rotate ==
    /\ ready # <<>>
    /\ running \notin finished
    /\ running' = Head(ready)
    /\ ready' = Append(Tail(ready), running)
    /\ UNCHANGED finished

\* The process that runs and has finished loses the CPU for good.
Retire ==
    /\ ready # <<>>
    /\ running \in finished
    /\ running' = Head(ready)
    /\ ready' = Tail(ready)
    /\ UNCHANGED finished

Next == (\E p \in Process : Admit(p)) \/ Finish \/ Rotate \/ Retire

Spec == Init /\ [][Next]_vars
===========================================================================
