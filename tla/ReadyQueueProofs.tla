------------------------- MODULE ReadyQueueProofs -------------------------
(* Proofs about the list operations of scheduler.c, for queues of any       *)
(* length: executed whole on a well-formed queue, scheduler_add_process     *)
(* appends and scheduler_remove_process of the head takes the first.        *)
EXTENDS ReadyQueue, SequenceTheorems, TLAPS

(* The pointers after the stores of scheduler_add_process for a process     *)
(* that is not queued are the list with that process appended.              *)
LEMMA StoresAppend ==
  ASSUME NEW q \in Queue, NEW s \in Seq(PID), NEW p \in PID,
         IsQueue(q, s), p \notin Members(s)
  PROVE  IsQueue(Appended(q, p), Append(s, p))
<1> DEFINE r == Appended(q, p)
           t == Append(s, p)
           n == Len(s)
<1>1. /\ n \in Nat /\ DOMAIN s = 1 .. n
      /\ \A i \in 1 .. n : s[i] \in PID
      /\ Len(t) = n + 1 /\ DOMAIN t = 1 .. n + 1
      /\ \A i \in 1 .. n : t[i] = s[i]
      /\ t[n + 1] = p /\ t # <<>>
  BY LenProperties, ElementOfSeq, AppendProperties
<1>2. NULL # p /\ \A i \in 1 .. n : s[i] # p /\ s[i] # NULL
  BY <1>1, NullAssumption DEF Members
<1>3. /\ q.head \in Pointer /\ q.tail \in Pointer /\ q.count \in Nat
      /\ q.next \in [PID -> Pointer] /\ q.prev \in [PID -> Pointer]
  BY DEF Queue
<1>4. /\ r.count = q.count + 1
      /\ r.tail = p
      /\ r.head = IF q.tail # NULL THEN q.head ELSE p
      /\ r.prev = [q.prev EXCEPT ![p] = q.tail]
      /\ r.next = IF q.tail # NULL THEN [[q.next EXCEPT ![p] = NULL] EXCEPT ![q.tail] = p]
                  ELSE [q.next EXCEPT ![p] = NULL]
  BY DEF Appended, IncrementCount, SetTail, Link, Enter, Queue
<1>5. s = <<>> <=> n = 0
  BY EmptySeq, LenProperties
<1>6. /\ q.tail = IF n = 0 THEN NULL ELSE s[n]
      /\ q.head = IF n = 0 THEN NULL ELSE s[1]
      /\ q.count = n
  BY <1>5 DEF IsQueue
<1>7. \A i, j \in 1 .. n : s[i] = s[j] => i = j
  BY <1>1 DEF IsQueue, Injective
<1> HIDE DEF r, t
<1>8. Injective(t)
  <2> SUFFICES ASSUME NEW i \in 1 .. n + 1, NEW j \in 1 .. n + 1, t[i] = t[j]
               PROVE  i = j
    BY <1>1 DEF Injective
  <2> QED
    BY <1>1, <1>2, <1>7
<1>9. r.count = Len(t)
  BY <1>1, <1>4, <1>6
<1>10. r.head = (IF t = <<>> THEN NULL ELSE t[1]) /\ r.tail = (IF t = <<>> THEN NULL ELSE t[Len(t)])
  BY <1>1, <1>2, <1>4, <1>6
<1>11. ASSUME NEW i \in DOMAIN t
       PROVE  /\ r.next[t[i]] = IF i = Len(t) THEN NULL ELSE t[i + 1]
              /\ r.prev[t[i]] = IF i = 1 THEN NULL ELSE t[i - 1]
  <2>1. CASE i = n + 1
    <3>1. r.next[p] = NULL
      BY <1>1, <1>2, <1>3, <1>4, <1>6
    <3>2. r.prev[p] = q.tail
      BY <1>3, <1>4
    <3> QED
      BY <1>1, <1>6, <2>1, <3>1, <3>2
  <2>2. CASE i \in 1 .. n
    <3>1. /\ q.next[s[i]] = IF i = n THEN NULL ELSE s[i + 1]
          /\ q.prev[s[i]] = IF i = 1 THEN NULL ELSE s[i - 1]
      BY <1>1, <2>2 DEF IsQueue
    <3>2. r.prev[s[i]] = q.prev[s[i]]
      BY <1>1, <1>2, <1>3, <1>4, <2>2
    <3>3. r.next[s[i]] = IF i = n THEN p ELSE q.next[s[i]]
      BY <1>1, <1>2, <1>3, <1>4, <1>6, <1>7, <2>2
    <3> QED
      BY <1>1, <2>2, <3>1, <3>2, <3>3
  <2> QED
    BY <1>1, <2>1, <2>2
<1>12. ASSUME NEW x \in PID \ Members(t)
       PROVE  r.next[x] = NULL /\ r.prev[x] = NULL
  <2>1. x # p /\ x \notin Members(s)
    BY <1>1 DEF Members
  <2>2. q.next[x] = NULL /\ q.prev[x] = NULL
    BY <2>1 DEF IsQueue
  <2>3. q.tail # x
    BY <1>1, <1>6, <2>1, NullAssumption DEF Members
  <2> QED
    BY <1>3, <1>4, <2>1, <2>2, <2>3
<1> QED
  BY <1>8, <1>9, <1>10, <1>11, <1>12 DEF IsQueue, r, t

(* scheduler_add_process of a process that is not queued: unless it has     *)
(* terminated it is appended to the list and READY, otherwise neither the   *)
(* list nor a state changes.                                                *)
THEOREM AddAppends ==
  ASSUME NEW q \in Queue, NEW s \in Seq(PID), NEW p \in PID,
         NEW Value, NEW st \in [PID -> Value],
         IsQueue(q, s), p \notin Members(s)
  PROVE  LET r == scheduler_add_process(q, st, p)
         IN  IF st[p] = "TERMINATED"
             THEN r.state = st /\ IsQueue(r.rq, s)
             ELSE r.state = [st EXCEPT ![p] = "READY"] /\ IsQueue(r.rq, Append(s, p))
<1>1. p # NULL
  BY NullAssumption
<1>2. CASE st[p] = "TERMINATED"
  BY <1>2 DEF scheduler_add_process
<1>3. CASE st[p] # "TERMINATED"
  BY <1>1, <1>3, StoresAppend DEF scheduler_add_process
<1> QED
  BY <1>2, <1>3

(* The pointers after scheduler_remove_process of the head, as              *)
(* scheduler_schedule calls it, are the list without its first process.     *)
THEOREM RemoveHeadTakesFirst ==
  ASSUME NEW q \in Queue, NEW s \in Seq(PID), s # <<>>, IsQueue(q, s)
  PROVE  /\ q.head = Head(s)
         /\ IsQueue(scheduler_remove_process(q, q.head), Tail(s))
<1> DEFINE n == Len(s)
           t == Tail(s)
           h == q.head
           r == scheduler_remove_process(q, h)
<1>1. /\ n \in Nat /\ n >= 1 /\ DOMAIN s = 1 .. n
      /\ \A i \in 1 .. n : s[i] \in PID
      /\ t \in Seq(PID) /\ Len(t) = n - 1 /\ DOMAIN t = 1 .. n - 1
      /\ \A i \in 1 .. n - 1 : t[i] = s[i + 1]
      /\ Head(s) = s[1]
  BY LenProperties, ElementOfSeq, HeadTailProperties, EmptySeq
<1>2. \A i \in 1 .. n : s[i] # NULL
  BY <1>1, NullAssumption
<1>3. h = s[1] /\ q.tail = s[n] /\ q.count = n
  BY DEF IsQueue
<1>4. \A i, j \in 1 .. n : s[i] = s[j] => i = j
  BY <1>1 DEF IsQueue, Injective
<1>5. \A i \in 1 .. n : /\ q.next[s[i]] = IF i = n THEN NULL ELSE s[i + 1]
                        /\ q.prev[s[i]] = IF i = 1 THEN NULL ELSE s[i - 1]
  BY <1>1 DEF IsQueue
<1>6. q.prev[h] = NULL /\ q.next[h] = IF n = 1 THEN NULL ELSE s[2]
  <2> HIDE DEF h, n
  <2>1. 1 \in 1 .. n
    BY <1>1
  <2>2. /\ q.next[s[1]] = IF 1 = n THEN NULL ELSE s[1 + 1]
        /\ q.prev[s[1]] = IF 1 = 1 THEN NULL ELSE s[1 - 1]
    BY <1>5, <2>1
  <2> QED
    BY <1>3, <2>2
<1>7. /\ r.head = q.next[h]
      /\ r.tail = IF q.next[h] = NULL THEN NULL ELSE q.tail
      /\ r.count = n - 1
      /\ r.next = [i \in PID |-> IF i = h THEN NULL
                                 ELSE IF i = NULL THEN q.next[h] ELSE q.next[i]]
      /\ r.prev = [i \in PID |-> IF i = h THEN NULL
                                 ELSE IF i = q.next[h] THEN NULL ELSE q.prev[i]]
  <2> HIDE DEF h, n
  <2>1. n > 0 /\ q.count = n
    BY <1>1, <1>3
  <2> QED
    BY <1>6, <2>1 DEF scheduler_remove_process
<1>8. t = <<>> <=> n = 1
  BY <1>1, EmptySeq, LenProperties
<1> HIDE DEF r, t, h
<1>9. Injective(t)
  BY <1>1, <1>4 DEF Injective
<1>10. /\ r.count = Len(t)
       /\ r.head = IF t = <<>> THEN NULL ELSE t[1]
  BY <1>1, <1>6, <1>7, <1>8
<1>11. r.tail = IF t = <<>> THEN NULL ELSE t[Len(t)]
  BY <1>1, <1>2, <1>3, <1>6, <1>7, <1>8
<1>12. ASSUME NEW i \in DOMAIN t
       PROVE  /\ r.next[t[i]] = IF i = Len(t) THEN NULL ELSE t[i + 1]
              /\ r.prev[t[i]] = IF i = 1 THEN NULL ELSE t[i - 1]
  <2>1. i \in 1 .. n - 1 /\ i + 1 \in 1 .. n /\ t[i] = s[i + 1] /\ s[i + 1] \in PID
    BY <1>1
  <2>2. s[i + 1] # h /\ s[i + 1] # NULL
    BY <1>1, <1>2, <1>3, <1>4, <2>1
  <2>3. r.next[t[i]] = q.next[s[i + 1]]
    BY <1>7, <2>1, <2>2
  <2>4. q.next[s[i + 1]] = IF i + 1 = n THEN NULL ELSE s[i + 2]
    BY <1>5, <2>1
  <2>5. r.next[t[i]] = IF i = Len(t) THEN NULL ELSE t[i + 1]
    BY <1>1, <2>1, <2>3, <2>4
  <2>6. q.prev[s[i + 1]] = s[i]
    <3>1. q.prev[s[i + 1]] = IF i + 1 = 1 THEN NULL ELSE s[i + 1 - 1]
      BY <1>5, <2>1
    <3>2. i + 1 # 1 /\ i + 1 - 1 = i
      BY <2>1
    <3> QED
      BY <3>1, <3>2
  <2>7. q.next[h] = s[2]
    BY <1>1, <1>6, <2>1
  <2>8. CASE i = 1
    <3>1. s[i + 1] = q.next[h]
      BY <2>7, <2>8
    <3>2. r.prev[s[i + 1]] = NULL
      BY <1>7, <2>1, <2>2, <3>1
    <3> QED
      BY <2>1, <2>5, <2>8, <3>2
  <2>9. CASE i # 1
    <3>1. s[i + 1] # q.next[h]
      BY <1>1, <1>4, <2>1, <2>7, <2>9
    <3>2. r.prev[t[i]] = s[i]
      BY <1>7, <2>1, <2>2, <2>6, <3>1
    <3> QED
      BY <1>1, <2>1, <2>5, <2>9, <3>2
  <2> QED
    BY <2>5, <2>8, <2>9
<1>13. ASSUME NEW x \in PID \ Members(t)
       PROVE  r.next[x] = NULL /\ r.prev[x] = NULL
  <2>1. CASE x = h
    BY <1>7, <2>1
  <2>2. CASE x # h
    <3>1. x \notin Members(s)
      <4> SUFFICES ASSUME NEW i \in 1 .. n, x = s[i] PROVE FALSE
        BY <1>1 DEF Members
      <4>1. i # 1 /\ i - 1 \in 1 .. n - 1
        BY <1>1, <1>3, <2>2
      <4>2. t[i - 1] = x
        BY <1>1, <4>1
      <4> QED
        BY <1>1, <4>1, <4>2 DEF Members
    <3>2. q.next[x] = NULL /\ q.prev[x] = NULL
      BY <3>1 DEF IsQueue
    <3>3. x # NULL
      BY NullAssumption
    <3> QED
      BY <1>7, <2>2, <3>2, <3>3
  <2> QED
    BY <2>1, <2>2
<1> QED
  BY <1>1, <1>3, <1>9, <1>10, <1>11, <1>12, <1>13 DEF IsQueue, r, t, h
===========================================================================
