------------------------ MODULE ProcessTableProofs ------------------------
(* Machine-checked proofs about ProcessTable, for tables and child lists of *)
(* any size and every order of creations, exits, destructions and setters.  *)
EXTENDS ProcessTable, SequenceTheorems, FiniteSetTheorems, TLAPS

---------------------------------------------------------------------------
(* The child lists.  ChildList is what children[] can be: PIDs, and no more *)
(* of them than the array has room for.                                     *)

ChildList == {list \in Seq(PID) : Len(list) <= MAX_CHILDREN}

Injective(list) == \A i, j \in DOMAIN list : list[i] = list[j] => i = j

Entries(list) == {list[i] : i \in DOMAIN list}

\* Every set of naturals that is not empty has a least element.
LEMMA LeastNatural ==
  ASSUME NEW T, T \subseteq Nat, T # {}
  PROVE  \E x \in T : \A y \in T : x <= y
<1>1. PICK x \in T : \A y \in T : ~(<<y, x>> \in OpToRel(<, Nat))
  BY NatLessThanWellFounded, WFMin, Zenon
<1>2. ASSUME NEW y \in T PROVE x <= y
  <2>1. ~(<<y, x>> \in OpToRel(<, Nat))
    BY <1>1
  <2>2. ~(y < x)
    BY <2>1 DEF OpToRel
  <2> QED
    BY <2>2
<1> QED
  BY <1>1, <1>2

\* Idle and PID 1 are slots, and an empty list is a child list.
LEMMA Basics ==
  /\ 0 \in PID /\ 1 \in PID /\ 1 \in 1 .. MAX_PROCESSES
  /\ <<>> \in ChildList
  /\ NULL \notin PID
<1>1. <<>> \in Seq(PID) /\ Len(<<>>) = 0
  BY EmptySeq
<1> QED
  BY <1>1, TableAssumption DEF PID, ChildList

\* A list that adopts stays within its array: a full one drops the child.
LEMMA AdoptType ==
  ASSUME NEW list \in ChildList, NEW p \in PID
  PROVE  Adopt(list, p) \in ChildList
<1>1. list \in Seq(PID) /\ Len(list) \in Nat /\ Len(list) <= MAX_CHILDREN
  BY LenProperties DEF ChildList
<1>2. Append(list, p) \in Seq(PID) /\ Len(Append(list, p)) = Len(list) + 1
  BY <1>1, AppendProperties
<1> QED
  BY <1>1, <1>2, TableAssumption DEF Adopt, ChildList

(* Moving the children up: the entry for p is gone and those after it are   *)
(* one place earlier.                                                       *)
LEMMA RemoveChildIs ==
  ASSUME NEW list \in ChildList, NEW p, p \in Entries(list)
  PROVE  LET left == RemoveChild(list, p)
         IN  /\ left \in Seq(PID) /\ Len(left) = Len(list) - 1
             /\ \E i \in 1 .. Len(list) :
                   /\ list[i] = p
                   /\ \A k \in 1 .. Len(left) : left[k] = IF k < i THEN list[k] ELSE list[k + 1]
<1>1. list \in Seq(PID) /\ Len(list) \in Nat /\ Len(list) <= MAX_CHILDREN
      /\ DOMAIN list = 1 .. Len(list)
  BY LenProperties DEF ChildList
<1>2. \E i \in DOMAIN list : list[i] = p
  BY DEF Entries
<1> DEFINE T == {i \in DOMAIN list : list[i] = p}
           i == CHOOSE i \in DOMAIN list : list[i] = p /\ \A j \in 1 .. i - 1 : list[j] # p
           first == SubSeq(list, 1, i - 1)
           rest == SubSeq(list, i + 1, Len(list))
           left == first \o rest
<1>3. PICK x \in T : \A y \in T : x <= y
  <2>1. T \subseteq Nat /\ T # {}
    BY <1>1, <1>2
  <2> QED
    BY <2>1, LeastNatural
<1>4. x \in DOMAIN list /\ list[x] = p /\ \A j \in 1 .. x - 1 : list[j] # p
  BY <1>1, <1>3
<1>5. i \in DOMAIN list /\ list[i] = p
  BY <1>4, Zenon
<1>6. RemoveChild(list, p) = left
  BY <1>2, Zenon DEF RemoveChild
<1> HIDE DEF i, first, rest, left
<1>7. i \in 1 .. Len(list) /\ i \in Nat
  BY <1>1, <1>5
<1>8. /\ first \in Seq(PID) /\ Len(first) = i - 1
      /\ \A k \in 1 .. i - 1 : first[k] = list[k]
  <2> DEFINE m == 1
             n == i - 1
  <2>1. /\ m \in Int /\ n \in Int /\ (IF m <= n THEN n - m + 1 ELSE 0) = n
        /\ \A k \in m .. n : list[k] \in PID
    BY <1>1, <1>7, ElementOfSeq
  <2>2. /\ SubSeq(list, m, n) \in Seq(PID)
        /\ Len(SubSeq(list, m, n)) = IF m <= n THEN n - m + 1 ELSE 0
        /\ \A k \in 1 .. n - m + 1 : SubSeq(list, m, n)[k] = list[m + k - 1]
    <3>1. m \in Int /\ n \in Int /\ \A k \in m .. n : list[k] \in PID
      BY <2>1
    <3> HIDE DEF m, n
    <3> QED
      BY ONLY <3>1, SubSeqProperties
  <2>3. \A k \in 1 .. i - 1 : k \in 1 .. n - m + 1 /\ m + k - 1 = k
    BY <1>7
  <2> QED
    BY <2>1, <2>2, <2>3 DEF first
<1>9. /\ rest \in Seq(PID) /\ Len(rest) = Len(list) - i
      /\ \A k \in 1 .. Len(list) - i : rest[k] = list[i + k]
  <2> DEFINE m == i + 1
             n == Len(list)
  <2>1. /\ m \in Int /\ n \in Int
        /\ m <= n => n - m + 1 = n - i
        /\ ~(m <= n) => 0 = n - i
    <3>1. Len(list) \in Nat /\ i \in Nat /\ i <= Len(list)
      BY <1>1, <1>7
    <3> QED
      BY ONLY <3>1
  <2>2. \A k \in m .. n : list[k] \in PID
    BY <1>1, <1>7, ElementOfSeq
  <2>3. /\ SubSeq(list, m, n) \in Seq(PID)
        /\ Len(SubSeq(list, m, n)) = IF m <= n THEN n - m + 1 ELSE 0
        /\ \A k \in 1 .. n - m + 1 : SubSeq(list, m, n)[k] = list[m + k - 1]
    <3>1. m \in Int /\ n \in Int
      BY <2>1
    <3> HIDE DEF m, n
    <3> QED
      BY ONLY <2>2, <3>1, SubSeqProperties
  <2>4. \A k \in 1 .. Len(list) - i : k \in 1 .. n - m + 1 /\ m + k - 1 = i + k
    BY <1>1, <1>7
  <2> QED
    BY <2>1, <2>3, <2>4 DEF rest
<1>10. /\ left \in Seq(PID) /\ Len(left) = (i - 1) + (Len(list) - i)
       /\ \A k \in 1 .. Len(first) + Len(rest) :
             left[k] = IF k <= Len(first) THEN first[k] ELSE rest[k - Len(first)]
  <2>1. /\ left \in Seq(PID) /\ Len(left) = Len(first) + Len(rest)
        /\ \A k \in 1 .. Len(first) + Len(rest) :
              left[k] = IF k <= Len(first) THEN first[k] ELSE rest[k - Len(first)]
    <3>1. first \in Seq(PID) /\ rest \in Seq(PID)
      BY <1>8, <1>9
    <3> QED
      BY ONLY <3>1, ConcatProperties DEF left
  <2> QED
    BY <1>8, <1>9, <2>1
<1>11. Len(left) = Len(list) - 1
  BY <1>1, <1>7, <1>10
<1>12. ASSUME NEW k \in 1 .. Len(left) PROVE left[k] = IF k < i THEN list[k] ELSE list[k + 1]
  <2>1. k \in 1 .. Len(first) + Len(rest) /\ k \in Nat
    BY <1>1, <1>7, <1>8, <1>9, <1>11
  <2>2. CASE k < i
    <3>1. k <= Len(first) /\ k \in 1 .. i - 1
      BY <1>7, <1>8, <2>1, <2>2
    <3> QED
      BY <1>8, <1>10, <2>1, <2>2, <3>1
  <2>3. CASE ~(k < i)
    <3>1. ~(k <= Len(first)) /\ k - Len(first) \in 1 .. Len(list) - i /\ i + (k - Len(first)) = k + 1
      BY <1>1, <1>7, <1>8, <1>11, <2>1, <2>3
    <3> QED
      BY <1>9, <1>10, <2>1, <2>3, <3>1
  <2> QED
    BY <2>2, <2>3
<1> QED
  BY <1>5, <1>6, <1>7, <1>10, <1>11, <1>12

\* A list is what it was or shorter after a child has been removed.
LEMMA RemoveChildType ==
  ASSUME NEW list \in ChildList, NEW p
  PROVE  RemoveChild(list, p) \in ChildList
<1>1. CASE p \in Entries(list)
  <2>1. Len(list) \in Nat /\ Len(list) <= MAX_CHILDREN
    BY LenProperties DEF ChildList
  <2>2. RemoveChild(list, p) \in Seq(PID) /\ Len(RemoveChild(list, p)) = Len(list) - 1
    BY <1>1, RemoveChildIs
  <2> QED
    BY <2>1, <2>2, TableAssumption DEF ChildList
<1>2. CASE p \notin Entries(list)
  BY <1>2 DEF Entries, RemoveChild
<1> QED
  BY <1>1, <1>2

\* A list without repetitions stays one, and only p is gone from it.
LEMMA RemoveChildRemoves ==
  ASSUME NEW list \in ChildList, NEW p, Injective(list)
  PROVE  /\ Injective(RemoveChild(list, p))
         /\ Entries(RemoveChild(list, p)) = Entries(list) \ {p}
<1>1. CASE p \in Entries(list)
  <2> DEFINE left == RemoveChild(list, p)
             n == Len(list)
  <2>1. PICK i \in 1 .. n :
           /\ left \in Seq(PID) /\ Len(left) = n - 1
           /\ list[i] = p
           /\ \A k \in 1 .. Len(left) : left[k] = IF k < i THEN list[k] ELSE list[k + 1]
    BY <1>1, RemoveChildIs
  <2> HIDE DEF left
  <2>2. n \in Nat /\ DOMAIN list = 1 .. n /\ i \in Nat
    BY LenProperties DEF ChildList
  <2> HIDE DEF n
  <2>3. DOMAIN left = 1 .. n - 1 /\ Len(left) = n - 1
    BY <2>1, LenProperties
  <2>4. ASSUME NEW j \in 1 .. n, NEW k \in 1 .. n, list[j] = list[k] PROVE j = k
    BY <2>2, <2>4 DEF Injective
  <2>5. \A k \in 1 .. n - 1 : /\ k < i => left[k] = list[k] /\ k \in 1 .. n
                              /\ ~(k < i) => left[k] = list[k + 1] /\ k + 1 \in 1 .. n
    BY <2>1, <2>2, <2>3
  <2>6. ASSUME NEW j \in 1 .. n - 1, NEW k \in 1 .. n - 1, left[j] = left[k] PROVE j = k
    <3>1. CASE j < i /\ k < i
      BY <2>4, <2>5, <2>6, <3>1
    <3>2. CASE j < i /\ ~(k < i)
      <4>1. j = k + 1
        BY <2>4, <2>5, <2>6, <3>2
      <4> QED
        BY <2>2, <3>2, <4>1
    <3>3. CASE ~(j < i) /\ k < i
      <4>1. j + 1 = k
        BY <2>4, <2>5, <2>6, <3>3
      <4> QED
        BY <2>2, <3>3, <4>1
    <3>4. CASE ~(j < i) /\ ~(k < i)
      <4>1. j + 1 = k + 1
        BY <2>4, <2>5, <2>6, <3>4
      <4> QED
        BY <2>2, <4>1
    <3> QED
      BY <3>1, <3>2, <3>3, <3>4
  <2>7. ASSUME NEW k \in 1 .. n - 1 PROVE left[k] \in Entries(list) \ {p}
    <3>1. CASE k < i
      <4>1. left[k] = list[k] /\ k \in 1 .. n /\ k # i
        BY <2>2, <2>5, <3>1
      <4> QED
        BY <2>1, <2>2, <2>4, <4>1 DEF Entries
    <3>2. CASE ~(k < i)
      <4>1. left[k] = list[k + 1] /\ k + 1 \in 1 .. n /\ k + 1 # i
        BY <2>2, <2>5, <3>2
      <4> QED
        BY <2>1, <2>2, <2>4, <4>1 DEF Entries
    <3> QED
      BY <3>1, <3>2
  <2>8. ASSUME NEW j \in 1 .. n, list[j] # p PROVE \E k \in 1 .. n - 1 : left[k] = list[j]
    <3>1. j # i
      BY <2>1, <2>8
    <3>2. CASE j < i
      <4>1. j \in 1 .. n - 1
        BY <2>2, <3>2
      <4> QED
        BY <2>5, <3>2, <4>1
    <3>3. CASE ~(j < i)
      <4>1. j - 1 \in 1 .. n - 1 /\ ~(j - 1 < i) /\ (j - 1) + 1 = j
        BY <2>2, <3>1, <3>3
      <4> QED
        BY <2>5, <4>1
    <3> QED
      BY <3>2, <3>3
  <2>9. Injective(left)
    BY <2>3, <2>6 DEF Injective
  <2>10. Entries(left) = Entries(list) \ {p}
    <3>1. Entries(left) \subseteq Entries(list) \ {p}
      BY <2>3, <2>7 DEF Entries
    <3>2. Entries(list) \ {p} \subseteq Entries(left)
      BY <2>2, <2>3, <2>8 DEF Entries
    <3> QED
      BY <3>1, <3>2
  <2> QED
    BY <2>9, <2>10 DEF left
<1>2. CASE p \notin Entries(list)
  <2>1. RemoveChild(list, p) = list
    BY <1>2 DEF Entries, RemoveChild
  <2> QED
    BY <1>2, <2>1
<1> QED
  BY <1>1, <1>2

(* f are the values of a loop that starts with base; g is what its rounds do. *)
Loops(f, D, base, n, g) ==
    /\ f \in [0 .. n -> D]
    /\ f[0] = base
    /\ \A i \in 1 .. n : f[i] = g[i][f[i - 1]]

(* A loop of n rounds over values of D: a recursive function exists for     *)
(* every number of rounds.  A least number for which it does not cannot be. *)
LEMMA Recursion ==
  ASSUME NEW D, NEW base \in D, NEW n \in Nat, NEW g \in [1 .. n -> [D -> D]]
  PROVE  \E f : Loops(f, D, base, n, g)
<1> USE DEF Loops
<1> DEFINE Good(f, k) == Loops(f, D, base, k, g)
           T == {k \in 0 .. n : ~ \E f : Good(f, k)}
<1>1. SUFFICES ASSUME T # {} PROVE FALSE
  <2>1. n \in 0 .. n
    OBVIOUS
  <2>2. \E f : Good(f, n)
    BY <1>1, <2>1
  <2> QED
    BY <2>2
<1>2. PICK x \in T : \A y \in T : x <= y
  <2>1. T \subseteq Nat
    OBVIOUS
  <2> QED
    BY <1>1, <2>1, LeastNatural
<1>3. x \in 0 .. n /\ ~ \E f : Good(f, x)
  BY <1>2
<1>4. CASE x = 0
  <2> DEFINE f == [i \in 0 .. 0 |-> base]
  <2>1. Good(f, 0)
    OBVIOUS
  <2> QED
    BY <1>3, <1>4, <2>1
<1>5. CASE x # 0
  <2>1. x - 1 \in 0 .. n /\ ~(x <= x - 1) /\ x \in 1 .. n
    BY <1>3, <1>5
  <2>2. PICK f : Good(f, x - 1)
    BY <1>2, <2>1
  <2> DEFINE last == g[x][f[x - 1]]
             h == [i \in 0 .. x |-> IF i = x THEN last ELSE f[i]]
  <2>3. f[x - 1] \in D
    BY <2>1, <2>2
  <2>4. last \in D
    BY <2>1, <2>3
  <2> HIDE DEF last
  <2>5. h \in [0 .. x -> D] /\ h[0] = base /\ h[x] = last /\ \A i \in 0 .. x - 1 : h[i] = f[i]
    BY <2>1, <2>2, <2>4
  <2> HIDE DEF h
  <2>6. ASSUME NEW i \in 1 .. x PROVE h[i] = g[i][h[i - 1]]
    <3>1. i - 1 \in 0 .. x - 1 /\ h[i - 1] = f[i - 1]
      BY <2>1, <2>5, <2>6
    <3>2. CASE i = x
      BY <2>5, <3>1, <3>2 DEF last
    <3>3. CASE i # x
      <4>1. i \in 1 .. x - 1 /\ i \in 0 .. x - 1
        BY <2>1, <2>6, <3>3
      <4> QED
        BY <2>2, <2>5, <3>1, <4>1
    <3> QED
      BY <3>2, <3>3
  <2> QED
    BY <1>3, <2>5, <2>6
<1> QED
  BY <1>4, <1>5

(* The list after each of the orphans has been offered to it is what the    *)
(* loop of process_destroy makes, and a child list in every round.          *)
LEMMA AdoptAllSteps ==
  ASSUME NEW list \in ChildList, NEW orphans \in Seq(PID)
  PROVE  \E f \in [0 .. Len(orphans) -> ChildList] :
            /\ f[0] = list
            /\ \A i \in 1 .. Len(orphans) : f[i] = Adopt(f[i - 1], orphans[i])
            /\ AdoptAll(list, orphans) = f[Len(orphans)]
<1> DEFINE n == Len(orphans)
           F(f, k) == [i \in 0 .. k |-> IF i = 0 THEN list ELSE Adopt(f[i - 1], orphans[i])]
           adopted[i \in 0 .. n] == IF i = 0 THEN list ELSE Adopt(adopted[i - 1], orphans[i])
           g == [i \in 1 .. n |-> [old \in ChildList |-> Adopt(old, orphans[i])]]
<1>1. n \in Nat /\ \A i \in 1 .. n : orphans[i] \in PID
  BY LenProperties, ElementOfSeq
<1> HIDE DEF n
<1>2. g \in [1 .. n -> [ChildList -> ChildList]]
  BY <1>1, AdoptType
<1>3. PICK f : f = F(f, n)
  <2>1. \A i \in 1 .. n, old \in ChildList : g[i][old] = Adopt(old, orphans[i])
    OBVIOUS
  <2> HIDE DEF g
  <2>2. PICK f : Loops(f, ChildList, list, n, g)
    BY <1>1, <1>2, Recursion
  <2>3. ASSUME NEW i \in 1 .. n PROVE f[i] = Adopt(f[i - 1], orphans[i])
    <3>1. i - 1 \in 0 .. n
      BY <1>1, <2>3
    <3> QED
      BY <2>1, <2>2, <3>1 DEF Loops
  <2>4. \A i \in 0 .. n : f[i] = IF i = 0 THEN list ELSE Adopt(f[i - 1], orphans[i])
    BY <1>1, <2>2, <2>3 DEF Loops
  <2>5. f = F(f, n)
    BY <2>2, <2>4 DEF Loops
  <2> QED
    BY <2>5
<1>4. adopted = F(adopted, n)
  BY <1>3, Zenon
<1> HIDE DEF adopted
<1>5. \A i \in 0 .. n : adopted[i] = IF i = 0 THEN list ELSE Adopt(adopted[i - 1], orphans[i])
  BY <1>4
<1>6. \A i \in 0 .. n : adopted[i] \in ChildList
  <2> SUFFICES ASSUME NEW k \in 0 .. n, adopted[k] \notin ChildList PROVE FALSE
    OBVIOUS
  <2> DEFINE T == {i \in 0 .. n : adopted[i] \notin ChildList}
  <2>1. T \subseteq Nat /\ T # {}
    BY <1>1
  <2>2. PICK x \in T : \A y \in T : x <= y
    BY <2>1, LeastNatural
  <2>3. x \in 0 .. n /\ adopted[x] \notin ChildList
    BY <2>2
  <2>4. x # 0
    BY <1>5, <2>3
  <2>5. x - 1 \in 0 .. n /\ ~(x <= x - 1) /\ x \in 1 .. n
    BY <1>1, <2>3, <2>4
  <2>6. adopted[x - 1] \in ChildList
    BY <2>2, <2>5
  <2>7. adopted[x] = Adopt(adopted[x - 1], orphans[x])
    BY <1>5, <2>3, <2>4
  <2> QED
    BY <1>1, <2>3, <2>5, <2>6, <2>7, AdoptType
<1>7. /\ adopted \in [0 .. n -> ChildList] /\ adopted[0] = list
      /\ \A i \in 1 .. n : adopted[i] = Adopt(adopted[i - 1], orphans[i])
  <2>1. DOMAIN adopted = 0 .. n /\ adopted = [i \in 0 .. n |-> adopted[i]]
    BY <1>4
  <2>2. 0 \in 0 .. n /\ \A i \in 1 .. n : i \in 0 .. n /\ i # 0
    BY <1>1
  <2> QED
    BY <1>5, <1>6, <2>1, <2>2
<1>8. AdoptAll(list, orphans) = adopted[n]
  BY DEF AdoptAll, adopted, n
<1> QED
  BY <1>7, <1>8 DEF n

\* The list of PID 1 stays within its array, however many it is offered.
LEMMA AdoptAllType ==
  ASSUME NEW list \in ChildList, NEW orphans \in Seq(PID)
  PROVE  AdoptAll(list, orphans) \in ChildList
<1>1. Len(orphans) \in 0 .. Len(orphans)
  BY LenProperties
<1> QED
  BY <1>1, AdoptAllSteps

\* PID 1 repeats its own list until the array is full.
LEMMA AdoptOwnType ==
  ASSUME NEW list \in ChildList
  PROVE  AdoptOwn(list) \in ChildList
<1>1. list \in Seq(PID) /\ Len(list) \in Nat /\ DOMAIN list = 1 .. Len(list)
  BY LenProperties DEF ChildList
<1>2. CASE list = <<>>
  BY <1>2, Basics DEF AdoptOwn
<1>3. CASE list # <<>>
  <2>1. Len(list) > 0
    BY <1>1, <1>3, EmptySeq
  <2>2. \A k \in Nat : k % Len(list) \in 0 .. Len(list) - 1
    BY <1>1, <2>1
  <2>3. ASSUME NEW i \in 1 .. MAX_CHILDREN
        PROVE  list[((i - 1) % Len(list)) + 1] \in PID
    <3>1. i - 1 \in Nat
      BY <2>3, TableAssumption
    <3>2. (i - 1) % Len(list) \in 0 .. Len(list) - 1
      BY <2>2, <3>1
    <3>3. ((i - 1) % Len(list)) + 1 \in 1 .. Len(list)
      BY <1>1, <3>2
    <3> QED
      BY <1>1, <3>3, ElementOfSeq
  <2> DEFINE own == [i \in 1 .. MAX_CHILDREN |-> list[((i - 1) % Len(list)) + 1]]
  <2>4. own \in [1 .. MAX_CHILDREN -> PID]
    BY <2>3
  <2>5. AdoptOwn(list) = own
    BY <1>3 DEF AdoptOwn
  <2> HIDE DEF own
  <2>6. own \in Seq(PID) /\ Len(own) = MAX_CHILDREN
    <3>1. MAX_CHILDREN \in Nat
      BY TableAssumption
    <3>2. own \in Seq(PID)
      BY <2>4, <3>1, SeqDef
    <3> QED
      BY <2>4, <3>1, <3>2, LenProperties
  <2> QED
    BY <2>5, <2>6, TableAssumption DEF ChildList
<1> QED
  BY <1>2, <1>3

---------------------------------------------------------------------------
(* Type correctness. *)

\* The two conjuncts of TypeOK on the lists, as one.
LEMMA ListsTyped ==
  ASSUME NEW f
  PROVE  f \in [PID -> ChildList]
         <=> f \in [PID -> Seq(PID)] /\ \A p \in PID : Len(f[p]) <= MAX_CHILDREN
  BY DEF ChildList

\* A slot that process_allocate_pid finds, and the next_pid after it.
LEMMA Allocated ==
  ASSUME NEW p \in PID, process_allocate_pid(p)
  PROVE  p # 0 /\ p + 1 \in 1 .. MAX_PROCESSES /\ p \notin process_get_by_pid
  BY TableAssumption DEF process_allocate_pid, PID

\* process_create, refused or not, keeps the types.
LEMMA CreateType ==
  ASSUME TypeOK, process_create
  PROVE  TypeOK'
<1> USE DEF TypeOK
<1>0. children \in [PID -> ChildList]
  BY ListsTyped
<1>1. CASE CreateNoPid
  BY <1>1 DEF CreateNoPid, vars, table
<1>2. ASSUME NEW p \in PID, CreateNoStack(p)
      PROVE  TypeOK'
  <2>1. p + 1 \in 1 .. MAX_PROCESSES
    BY <1>2, Allocated DEF CreateNoStack
  <2>2. children' \in [PID -> ChildList]
    BY <1>0, <1>2, Basics DEF CreateNoStack
  <2>3. parent' \in [PID -> PID \cup {NULL}]
    BY <1>2 DEF CreateNoStack
  <2>4. spoiled' \subseteq Spoilers
    BY <1>2 DEF CreateNoStack, Spoilers
  <2> QED
    BY <1>2, <2>1, <2>2, <2>3, <2>4, ListsTyped DEF CreateNoStack
<1>3. ASSUME NEW p \in PID, Create(p)
      PROVE  TypeOK'
  <2>1. p + 1 \in 1 .. MAX_PROCESSES
    BY <1>3, Allocated DEF Create
  <2> DEFINE cleared == [children EXCEPT ![p] = <<>>]
  <2>2. cleared \in [PID -> ChildList]
    BY <1>0, Basics
  <2>3. children' \in [PID -> ChildList]
    <3>1. children' = [cleared EXCEPT ![current_process] = Adopt(@, p), ![p] = <<>>]
      BY <1>3 DEF Create
    <3> HIDE DEF cleared
    <3>2. Adopt(cleared[current_process], p) \in ChildList
      BY <2>2, AdoptType
    <3> QED
      BY <2>2, <3>1, <3>2, Basics
  <2>4. /\ state' \in [PID -> States]
        /\ parent' \in [PID -> PID \cup {NULL}]
        /\ stack_allocated' \in [PID -> BOOLEAN]
    BY <1>3 DEF Create, States
  <2>5. spoiled' \subseteq Spoilers
    BY <1>3 DEF Create, Spoilers
  <2> QED
    BY <1>3, <2>1, <2>3, <2>4, <2>5, ListsTyped DEF Create
<1> QED
  BY <1>1, <1>2, <1>3 DEF process_create

\* process_destroy keeps the types: orphans find room in the list of PID 1 or are dropped.
LEMMA DestroyType ==
  ASSUME TypeOK, NEW p \in PID, process_destroy(p)
  PROVE  TypeOK'
<1> USE DEF TypeOK
<1>0. children \in [PID -> ChildList] /\ parent \in [PID -> PID \cup {NULL}]
  BY ListsTyped
<1> DEFINE left == IF parent[p] = NULL THEN children
                   ELSE [children EXCEPT ![parent[p]] = RemoveChild(@, p)]
<1>1. left \in [PID -> ChildList]
  <2>1. parent[p] # NULL => RemoveChild(children[parent[p]], p) \in ChildList
    BY <1>0, RemoveChildType
  <2> QED
    BY <1>0, <2>1
<1>2. /\ children' = IF p = 1 THEN [left EXCEPT ![1] = AdoptOwn(@)]
                     ELSE [left EXCEPT ![1] = AdoptAll(@, left[p])]
      /\ parent' = [q \in PID |-> NewParent(q, left[p])]
      /\ stack_allocated' = [stack_allocated EXCEPT ![p] = FALSE]
      /\ state' = [state EXCEPT ![p] = "TERMINATED"]
      /\ spoiled' = spoiled
            \cup (IF p = 1 THEN {"init destroyed"} ELSE {})
            \cup (IF Len(left[1]) + Len(left[p]) > MAX_CHILDREN THEN {"list full"} ELSE {})
      /\ UNCHANGED <<next_pid, current_process>>
  BY DEF process_destroy, Terminate
<1> HIDE DEF left
<1>3. children' \in [PID -> ChildList]
  <2>1. 1 \in PID /\ left[1] \in ChildList /\ left[p] \in ChildList /\ left[p] \in Seq(PID)
    BY <1>1, Basics DEF ChildList
  <2>2. AdoptOwn(left[1]) \in ChildList /\ AdoptAll(left[1], left[p]) \in ChildList
    BY <2>1, AdoptOwnType, AdoptAllType
  <2> QED
    BY <1>1, <1>2, <2>1, <2>2
<1>4. parent' \in [PID -> PID \cup {NULL}]
  <2>1. \A q \in PID : NewParent(q, left[p]) \in PID \cup {NULL}
    BY <1>0, Basics DEF NewParent
  <2> QED
    BY <1>2, <2>1
<1>5. state' \in [PID -> States] /\ stack_allocated' \in [PID -> BOOLEAN]
  BY <1>2 DEF States
<1>6. spoiled' \subseteq Spoilers
  BY <1>2 DEF Spoilers
<1> QED
  BY <1>2, <1>3, <1>4, <1>5, <1>6, ListsTyped

(* No child list runs past its array and every pointer of the table names a *)
(* slot, whatever is created, adopted, removed and destroyed, in any order. *)
THEOREM TypeCorrect == Spec => []TypeOK
<1>1. Init => TypeOK
  <2> SUFFICES ASSUME Init PROVE TypeOK
    OBVIOUS
  <2>1. children \in [PID -> ChildList]
    BY Basics DEF Init
  <2>2. state \in [PID -> States] /\ parent \in [PID -> PID \cup {NULL}]
        /\ stack_allocated \in [PID -> BOOLEAN]
    BY DEF Init, States
  <2> QED
    BY <2>1, <2>2, Basics, ListsTyped DEF Init, TypeOK
<1>2. TypeOK /\ [Next]_vars => TypeOK'
  <2> SUFFICES ASSUME TypeOK, [Next]_vars PROVE TypeOK'
    OBVIOUS
  <2>1. CASE process_create
    BY <2>1, CreateType
  <2>2. CASE process_exit
    BY <2>2 DEF process_exit, Terminate, TypeOK, States
  <2>3. ASSUME NEW p \in PID, process_destroy(p) PROVE TypeOK'
    BY <2>3, DestroyType
  <2>4. ASSUME NEW p \in PID, process_set_current(p) PROVE TypeOK'
    BY <2>4 DEF process_set_current, table, TypeOK
  <2>5. ASSUME NEW p \in PID, NEW s \in States, process_set_state(p, s) PROVE TypeOK'
    BY <2>5 DEF process_set_state, TypeOK
  <2>6. CASE UNCHANGED vars
    BY <2>6 DEF vars, table, TypeOK
  <2> QED
    BY <2>1, <2>2, <2>3, <2>4, <2>5, <2>6 DEF Next
<1> QED
  BY <1>1, <1>2, PTL DEF Spec

---------------------------------------------------------------------------
(* Stacks.  LiveOwnsStack is inductive with the types: a slot becomes live  *)
(* only together with its stack, and loses its stack only when it dies.     *)

(* A process that can run owns its stack, through every reuse of slots and  *)
(* every order of creations, refused creations, exits and destructions.     *)
THEOREM LiveProcessesOwnStacks == Spec => []LiveOwnsStack
<1>1. Init => LiveOwnsStack
  BY DEF Init, LiveOwnsStack, process_get_by_pid, Exists
<1>2. TypeOK /\ LiveOwnsStack /\ [Next]_vars => LiveOwnsStack'
  <2> SUFFICES ASSUME TypeOK, LiveOwnsStack, [Next]_vars,
                      NEW q \in PID, state'[q] # "TERMINATED"
               PROVE  q = 0 \/ stack_allocated'[q]
    BY DEF LiveOwnsStack, process_get_by_pid, Exists
  <2>0. state \in [PID -> States] /\ stack_allocated \in [PID -> BOOLEAN]
    BY DEF TypeOK
  <2>1. state[q] # "TERMINATED" => q = 0 \/ stack_allocated[q]
    BY DEF LiveOwnsStack, process_get_by_pid, Exists
  <2>2. CASE process_create
    <3>1. ASSUME NEW p \in PID, Create(p) PROVE q = 0 \/ stack_allocated'[q]
      <4>1. /\ state' = [state EXCEPT ![p] = "alive"]
            /\ stack_allocated' = [stack_allocated EXCEPT ![p] = TRUE]
        BY <3>1 DEF Create
      <4>2. CASE q = p
        BY <2>0, <4>1, <4>2
      <4>3. CASE q # p
        BY <2>0, <2>1, <4>1, <4>3
      <4> QED
        BY <4>2, <4>3
    <3>2. CASE UNCHANGED <<state, stack_allocated>>
      BY <2>1, <3>2
    <3> QED
      BY <2>2, <3>1, <3>2 DEF process_create, CreateNoPid, CreateNoStack, vars, table
  <2>3. CASE process_exit
    <3>1. state[q] # "TERMINATED" /\ UNCHANGED stack_allocated
      BY <2>0, <2>3 DEF process_exit, Terminate, TypeOK
    <3> QED
      BY <2>1, <3>1
  <2>4. ASSUME NEW p \in PID, process_destroy(p) PROVE q = 0 \/ stack_allocated'[q]
    <3>1. /\ state' = [state EXCEPT ![p] = "TERMINATED"]
          /\ stack_allocated' = [stack_allocated EXCEPT ![p] = FALSE]
      BY <2>4 DEF process_destroy, Terminate
    <3>2. q # p /\ state[q] # "TERMINATED"
      BY <2>0, <3>1
    <3> QED
      BY <2>0, <2>1, <3>1, <3>2
  <2>5. ASSUME NEW p \in PID, NEW s \in States, process_set_state(p, s)
        PROVE  q = 0 \/ stack_allocated'[q]
    <3>1. /\ state[p] # "TERMINATED"
          /\ state' = [state EXCEPT ![p] = s]
          /\ UNCHANGED stack_allocated
      BY <2>5 DEF process_set_state, process_get_by_pid
    <3>2. state[q] # "TERMINATED"
      BY <2>0, <3>1
    <3> QED
      BY <2>1, <3>1, <3>2
  <2>6. CASE UNCHANGED <<state, stack_allocated>>
    BY <2>1, <2>6
  <2> QED
    BY <2>2, <2>3, <2>4, <2>5, <2>6 DEF Next, process_set_current, vars, table
<1> QED
  BY <1>1, <1>2, TypeCorrect, PTL DEF Spec

---------------------------------------------------------------------------
(* The family.  Until one of the spoilers has come, the lists name every    *)
(* child once, parents exist, PID 1 is there as soon as anybody is and its  *)
(* parent is idle, and the slots can be put in an order in which every      *)
(* parent comes before its children, idle first and PID 1 second: PID 1     *)
(* may then adopt anybody without closing a cycle.                          *)

ChildrenOf(p) == {q \in PID \ {0} : Exists(q) /\ parent[q] = p}

ListsAgree ==
    \A p \in PID : Exists(p) => /\ Injective(children[p])
                                /\ Entries(children[p]) = ChildrenOf(p)

ParentsExist == \A q \in PID \ {0} : Exists(q) => parent[q] \in PID /\ Exists(parent[q])

InitIsFirst ==
    \/ stack_allocated[1] /\ parent[1] = 0
    \/ next_pid = 1 /\ current_process = 0 /\ \A p \in PID : ~stack_allocated[p]

IsOrder(order) ==
    /\ order \in [PID -> PID]
    /\ \A p, q \in PID : order[p] = order[q] => p = q
    /\ order[0] = 0 /\ order[1] = 1

ParentsFirst(order) ==
    \A q \in PID \ {0} : Exists(q) => order[parent[q]] < order[q]

Ordered == \E order : IsOrder(order) /\ ParentsFirst(order)

Family == ListsAgree /\ ParentsExist /\ InitIsFirst /\ Ordered

FamilyInv == spoiled = {} => Family

\* A new child at the end of a list.
LEMMA AppendAdds ==
  ASSUME NEW list \in Seq(PID), NEW p \in PID, Injective(list), p \notin Entries(list)
  PROVE  /\ Injective(Append(list, p))
         /\ Entries(Append(list, p)) = Entries(list) \cup {p}
<1> DEFINE n == Len(list)
           longer == Append(list, p)
<1>1. /\ n \in Nat /\ DOMAIN list = 1 .. n
      /\ longer \in Seq(PID) /\ Len(longer) = n + 1
      /\ \A i \in 1 .. n : longer[i] = list[i]
      /\ longer[n + 1] = p
  BY LenProperties, AppendProperties
<1>2. DOMAIN longer = 1 .. n + 1
  BY <1>1, LenProperties
<1> HIDE DEF n, longer
<1>3. \A i \in 1 .. n : list[i] # p
  BY <1>1 DEF Entries
<1>4. \A i, j \in 1 .. n : list[i] = list[j] => i = j
  BY <1>1 DEF Injective
<1>5. \A i \in 1 .. n + 1 : i \in 1 .. n \/ i = n + 1
  BY <1>1
<1>6. Injective(longer)
  BY <1>1, <1>2, <1>3, <1>4, <1>5 DEF Injective
<1>7. Entries(longer) = Entries(list) \cup {p}
  <2>1. \A i \in 1 .. n : i \in 1 .. n + 1
    BY <1>1
  <2>2. n + 1 \in 1 .. n + 1
    BY <1>1
  <2>3. Entries(longer) \subseteq Entries(list) \cup {p}
    BY <1>1, <1>2, <1>5 DEF Entries
  <2>4. Entries(list) \cup {p} \subseteq Entries(longer)
    BY <1>1, <1>2, <2>1, <2>2 DEF Entries
  <2> QED
    BY <2>3, <2>4
<1> QED
  BY <1>6, <1>7 DEF longer

\* Where there is room for all orphans, all are adopted, each once.
LEMMA AdoptAllAdds ==
  ASSUME NEW list \in ChildList, NEW orphans \in ChildList,
         Len(list) + Len(orphans) <= MAX_CHILDREN,
         Injective(list), Injective(orphans), Entries(list) \cap Entries(orphans) = {}
  PROVE  /\ Injective(AdoptAll(list, orphans))
         /\ Entries(AdoptAll(list, orphans)) = Entries(list) \cup Entries(orphans)
<1> DEFINE n == Len(orphans)
<1>1. /\ n \in Nat /\ orphans \in Seq(PID) /\ DOMAIN orphans = 1 .. n
      /\ Len(list) \in Nat
      /\ \A i \in 1 .. n : orphans[i] \in PID
  BY LenProperties, ElementOfSeq DEF ChildList
<1>2. PICK f \in [0 .. n -> ChildList] :
         /\ f[0] = list
         /\ \A i \in 1 .. n : f[i] = Adopt(f[i - 1], orphans[i])
         /\ AdoptAll(list, orphans) = f[n]
  BY <1>1, AdoptAllSteps
<1> HIDE DEF n
<1> DEFINE Taken(i) == {orphans[j] : j \in 1 .. i}
           Good(i) == /\ Len(f[i]) = Len(list) + i
                      /\ Injective(f[i])
                      /\ Entries(f[i]) = Entries(list) \cup Taken(i)
           T == {i \in 0 .. n : ~Good(i)}
<1>3. T = {}
  <2>1. SUFFICES ASSUME T # {} PROVE FALSE
    OBVIOUS
  <2>2. PICK x \in T : \A y \in T : x <= y
    <3>1. T \subseteq Nat
      BY <1>1
    <3> QED
      BY <2>1, <3>1, LeastNatural
  <2>3. x \in 0 .. n /\ ~Good(x) /\ x \in Nat
    BY <1>1, <2>2
  <2>4. Good(0)
    <3>1. Taken(0) = {}
      OBVIOUS
    <3> QED
      BY <1>1, <1>2, <3>1
  <2>5. x # 0
    BY <2>3, <2>4
  <2>6. x \in 1 .. n /\ x - 1 \in 0 .. n /\ ~(x <= x - 1)
    BY <1>1, <2>3, <2>5
  <2>7. Good(x - 1)
    BY <2>2, <2>6
  <2> DEFINE old == f[x - 1]
  <2>8. old \in ChildList /\ old \in Seq(PID)
    BY <1>2, <2>6 DEF ChildList
  <2>9. Len(old) = Len(list) + (x - 1) /\ Len(old) < MAX_CHILDREN
    <3>1. Len(list) + n <= MAX_CHILDREN /\ x <= n /\ MAX_CHILDREN \in Nat
      BY <2>6, TableAssumption DEF n
    <3> QED
      BY <1>1, <2>3, <2>7, <3>1
  <2>10. f[x] = Append(old, orphans[x])
    BY <1>2, <2>6, <2>9 DEF Adopt
  <2>11. orphans[x] \notin Entries(old)
    <3>1. orphans[x] \in Entries(orphans)
      BY <1>1, <2>6 DEF Entries
    <3>2. orphans[x] \notin Taken(x - 1)
      <4>1. \A j \in 1 .. x - 1 : j \in 1 .. n /\ j # x
        BY <1>1, <2>6
      <4> QED
        BY <1>1, <2>6, <4>1 DEF Injective
    <3> QED
      BY <2>7, <3>1, <3>2
  <2>12. Injective(f[x]) /\ Entries(f[x]) = Entries(old) \cup {orphans[x]}
    <3>1. orphans[x] \in PID /\ Injective(old)
      BY <1>1, <2>6, <2>7
    <3> HIDE DEF old
    <3> QED
      BY <2>8, <2>10, <2>11, <3>1, AppendAdds
  <2>13. Taken(x) = Taken(x - 1) \cup {orphans[x]}
    <3>1. \A j \in 1 .. x : j \in 1 .. x - 1 \/ j = x
      BY <2>3
    <3>2. x \in 1 .. x /\ \A j \in 1 .. x - 1 : j \in 1 .. x
      BY <2>6
    <3>3. Taken(x) \subseteq Taken(x - 1) \cup {orphans[x]}
      BY <3>1
    <3>4. Taken(x - 1) \cup {orphans[x]} \subseteq Taken(x)
      BY <3>2
    <3> QED
      BY <3>3, <3>4
  <2>14. Len(f[x]) = Len(list) + x
    <3>1. Len(f[x]) = Len(old) + 1
      BY <1>1, <2>6, <2>8, <2>10, AppendProperties
    <3> QED
      BY <1>1, <2>3, <2>9, <3>1
  <2> QED
    BY <2>3, <2>7, <2>12, <2>13, <2>14
<1>4. Good(n)
  <2>1. n \in 0 .. n
    BY <1>1
  <2> QED
    BY <1>3, <2>1
<1>5. Taken(n) = Entries(orphans)
  BY <1>1 DEF Entries
<1> QED
  BY <1>2, <1>4, <1>5


\* Up from any process, idle is reached in fewer steps than there are slots.
LEMMA AncestorIsIdle ==
  ASSUME TypeOK, ParentsExist, Ordered, NEW p \in PID, Exists(p)
  PROVE  Ancestor(MAX_PROCESSES, p) = 0
<1> DEFINE n == MAX_PROCESSES
           D == PID \cup {NULL}
           F(f) == [i \in 0 .. n |-> IF i = 0 THEN p
                                     ELSE IF f[i - 1] \in PID \ {0} THEN parent[f[i - 1]]
                                     ELSE f[i - 1]]
           up[i \in 0 .. n] == IF i = 0 THEN p
                               ELSE IF up[i - 1] \in PID \ {0} THEN parent[up[i - 1]]
                               ELSE up[i - 1]
           g == [i \in 1 .. n |-> [q \in D |-> IF q \in PID \ {0} THEN parent[q] ELSE q]]
<1>1. n \in Nat /\ p \in D /\ parent \in [PID -> D]
  BY TableAssumption DEF TypeOK
<1> HIDE DEF n
<1>2. g \in [1 .. n -> [D -> D]]
  BY <1>1
<1>3. PICK f : f = F(f)
  <2>1. \A i \in 1 .. n, q \in D : g[i][q] = IF q \in PID \ {0} THEN parent[q] ELSE q
    OBVIOUS
  <2> HIDE DEF g, D
  <2>2. PICK f : Loops(f, D, p, n, g)
    BY <1>1, <1>2, Recursion
  <2>3. ASSUME NEW i \in 1 .. n
        PROVE  f[i] = IF f[i - 1] \in PID \ {0} THEN parent[f[i - 1]] ELSE f[i - 1]
    <3>1. i - 1 \in 0 .. n
      BY <1>1, <2>3
    <3>2. f[i - 1] \in D /\ f[i] = g[i][f[i - 1]]
      BY <2>2, <3>1 DEF Loops
    <3> QED
      BY <2>1, <3>2
  <2>4. \A i \in 0 .. n : f[i] = IF i = 0 THEN p
                                 ELSE IF f[i - 1] \in PID \ {0} THEN parent[f[i - 1]]
                                 ELSE f[i - 1]
    BY <1>1, <2>2, <2>3 DEF Loops
  <2>5. f = F(f)
    BY <2>2, <2>4 DEF Loops
  <2> QED
    BY <2>5
<1>4. up = F(up)
  BY <1>3, Zenon
<1> HIDE DEF up
<1>5. \A i \in 0 .. n : up[i] = IF i = 0 THEN p
                                ELSE IF up[i - 1] \in PID \ {0} THEN parent[up[i - 1]]
                                ELSE up[i - 1]
  BY <1>4
<1>6. PICK order : IsOrder(order) /\ ParentsFirst(order)
  BY DEF Ordered
<1>7. \A q \in PID : order[q] \in Nat /\ order[q] < n
  BY <1>1, <1>6 DEF IsOrder, PID, n
<1> DEFINE Good(i) == /\ up[i] \in PID /\ Exists(up[i])
                      /\ up[i] = 0 \/ order[up[i]] + i <= order[p]
           T == {i \in 0 .. n : ~Good(i)}
<1>8. T = {}
  <2>1. SUFFICES ASSUME T # {} PROVE FALSE
    OBVIOUS
  <2>2. PICK x \in T : \A y \in T : x <= y
    <3>1. T \subseteq Nat
      BY <1>1
    <3> QED
      BY <2>1, <3>1, LeastNatural
  <2>3. x \in 0 .. n /\ ~Good(x) /\ x \in Nat
    BY <1>1, <2>2
  <2>4. Good(0)
    <3>1. up[0] = p
      BY <1>1, <1>5
    <3> QED
      BY <1>7, <3>1
  <2>5. x \in 1 .. n /\ x - 1 \in 0 .. n /\ ~(x <= x - 1)
    BY <1>1, <2>3, <2>4
  <2>6. Good(x - 1)
    BY <2>2, <2>5
  <2> DEFINE u == up[x - 1]
  <2>7. up[x] = IF u \in PID \ {0} THEN parent[u] ELSE u
    BY <1>5, <2>3, <2>5
  <2>8. CASE u = 0
    BY <2>3, <2>6, <2>7, <2>8 DEF Exists
  <2>9. CASE u # 0
    <3>1. u \in PID \ {0} /\ Exists(u) /\ order[u] + (x - 1) <= order[p]
      BY <2>6, <2>9
    <3>2. up[x] = parent[u] /\ parent[u] \in PID /\ Exists(parent[u])
      BY <2>7, <3>1 DEF ParentsExist
    <3>3. order[parent[u]] < order[u]
      BY <1>6, <3>1 DEF ParentsFirst
    <3> HIDE DEF u
    <3>4. order[parent[u]] + x <= order[p]
      <4>1. order[parent[u]] \in Nat /\ order[u] \in Nat /\ order[p] \in Nat
        BY <1>7, <3>1, <3>2
      <4> QED
        BY ONLY <2>3, <3>1, <3>3, <4>1
    <3> QED
      BY <2>3, <3>2, <3>4
  <2> QED
    BY <2>8, <2>9
<1>9. up[n] = 0
  <2>1. n \in 0 .. n /\ Good(n)
    BY <1>1, <1>8
  <2>2. up[n] \in PID /\ ~(order[up[n]] + n <= order[p])
    <3>1. order[up[n]] \in Nat /\ order[p] \in Nat /\ order[p] < n
      BY <1>7, <2>1
    <3> QED
      BY <1>1, <2>1, <3>1
  <2> QED
    BY <2>1, <2>2
<1> QED
  BY <1>9 DEF Ancestor, up, n

\* The invariant has all that FamilyTree says.
LEMMA FamilySuffices ==
  ASSUME TypeOK, FamilyInv
  PROVE  FamilyTree
<1>1. SUFFICES ASSUME spoiled = {}, NEW p \in PID, Exists(p)
               PROVE  /\ \A i, j \in DOMAIN children[p] : children[p][i] = children[p][j] => i = j
                      /\ {children[p][i] : i \in DOMAIN children[p]}
                           = {q \in PID \ {0} : Exists(q) /\ parent[q] = p}
                      /\ Ancestor(MAX_PROCESSES, p) = 0
  BY DEF FamilyTree
<1>2. ListsAgree /\ ParentsExist /\ Ordered
  BY <1>1 DEF FamilyInv, Family
<1>3. Injective(children[p]) /\ Entries(children[p]) = ChildrenOf(p)
  BY <1>1, <1>2 DEF ListsAgree
<1>4. Ancestor(MAX_PROCESSES, p) = 0
  BY <1>1, <1>2, AncestorIsIdle
<1> QED
  BY <1>3, <1>4 DEF Injective, Entries, ChildrenOf


(* The order after a slot p is taken by a child of c: p goes to the end and *)
(* those behind it move up.                                                 *)
MovedToEnd(order, p) ==
    [q \in PID |-> CASE q = p -> MAX_PROCESSES - 1
                     [] q # p /\ order[q] > order[p] -> order[q] - 1
                     [] q # p /\ ~(order[q] > order[p]) -> order[q]]

\* Moving a slot other than 0 and 1 keeps an order, and the order of the others.
LEMMA MovedIsOrder ==
  ASSUME NEW order, IsOrder(order), NEW p \in PID \ {0, 1}
  PROVE  /\ IsOrder(MovedToEnd(order, p))
         /\ \A q \in PID \ {p} : MovedToEnd(order, p)[q] < MovedToEnd(order, p)[p]
         /\ \A q, r \in PID \ {p} : order[q] < order[r]
               => MovedToEnd(order, p)[q] < MovedToEnd(order, p)[r]
<1> DEFINE N == MAX_PROCESSES
           new == MovedToEnd(order, p)
<1>1. /\ N \in Nat /\ PID = 0 .. N - 1 /\ 0 \in PID /\ 1 \in PID
      /\ \A q \in PID : order[q] \in Nat /\ order[q] < N
      /\ \A q, r \in PID : order[q] = order[r] => q = r
      /\ order[0] = 0 /\ order[1] = 1
  BY TableAssumption DEF IsOrder, PID
<1>2. order[p] > 1
  <2>1. order[p] # 0 /\ order[p] # 1
    BY <1>1
  <2> QED
    BY <1>1, <2>1
<1>3. /\ new[p] = N - 1
      /\ \A q \in PID \ {p} : /\ order[q] > order[p] => new[q] = order[q] - 1
                              /\ ~(order[q] > order[p]) => new[q] = order[q]
      /\ new = [q \in PID |-> new[q]]
  BY DEF MovedToEnd
<1> HIDE DEF N, new
<1>4. \A q \in PID \ {p} : order[q] # order[p]
  BY <1>1
<1>5. ASSUME NEW q \in PID \ {p} PROVE new[q] \in Nat /\ new[q] < N - 1
  <2>1. order[q] \in Nat /\ order[q] < N /\ order[p] \in Nat /\ order[p] < N
    BY <1>1
  <2>2. CASE order[q] > order[p]
    BY <1>1, <1>3, <2>1, <2>2
  <2>3. CASE ~(order[q] > order[p])
    BY <1>1, <1>3, <1>4, <2>1, <2>3
  <2> QED
    BY <2>2, <2>3
<1>6. ASSUME NEW q \in PID \ {p}, NEW r \in PID \ {p}, order[q] < order[r]
      PROVE  new[q] < new[r]
  <2>1. /\ order[q] \in Nat /\ order[r] \in Nat /\ order[p] \in Nat
        /\ order[q] # order[p] /\ order[r] # order[p]
    BY <1>1, <1>4
  <2>2. CASE order[q] > order[p]
    <3>1. new[q] = order[q] - 1 /\ new[r] = order[r] - 1
      BY <1>3, <1>6, <2>1, <2>2
    <3> QED
      BY <1>6, <2>1, <3>1
  <2>3. CASE ~(order[q] > order[p]) /\ order[r] > order[p]
    <3>1. new[q] = order[q] /\ new[r] = order[r] - 1
      BY <1>3, <2>3
    <3> QED
      BY <2>1, <2>3, <3>1
  <2>4. CASE ~(order[q] > order[p]) /\ ~(order[r] > order[p])
    BY <1>3, <1>6, <2>4
  <2> QED
    BY <2>2, <2>3, <2>4
<1>7. /\ new \in [PID -> PID] /\ new[0] = 0 /\ new[1] = 1
  <2>1. \A q \in PID : new[q] \in PID
    <3>1. new[p] \in PID
      BY <1>1, <1>3
    <3>2. ASSUME NEW q \in PID \ {p} PROVE new[q] \in PID
      BY <1>1, <1>5, <3>2
    <3> QED
      BY <3>1, <3>2
  <2>2. new[0] = 0 /\ new[1] = 1
    <3>1. ~(order[0] > order[p]) /\ ~(order[1] > order[p]) /\ 0 \in PID \ {p} /\ 1 \in PID \ {p}
      BY <1>1, <1>2
    <3> QED
      BY <1>1, <1>3, <3>1
  <2> QED
    BY <1>3, <2>1, <2>2
<1>8. ASSUME NEW q \in PID, NEW r \in PID, new[q] = new[r] PROVE q = r
  <2>1. CASE q = p \/ r = p
    BY <1>3, <1>5, <1>8, <2>1
  <2>2. CASE q # p /\ r # p
    <3>1. ~(order[q] < order[r]) /\ ~(order[r] < order[q])
      <4>1. ~(new[q] < new[r]) /\ ~(new[r] < new[q])
        BY <1>5, <1>8, <2>2
      <4> QED
        BY <1>6, <2>2, <4>1
    <3>2. order[q] = order[r]
      BY <1>1, <3>1
    <3> QED
      BY <1>1, <3>2
  <2> QED
    BY <2>1, <2>2
<1> QED
  BY <1>3, <1>5, <1>6, <1>7, <1>8 DEF IsOrder, new

(* A creation that spoils nothing: the current process, which exists, has a *)
(* new last child, in a slot that nobody had.                               *)
LEMMA CreateEffect ==
  ASSUME TypeOK, NEW p \in PID, Create(p), spoiled' = {}
  PROVE  /\ spoiled = {} /\ p # 0 /\ ~Exists(p) /\ process_allocate_pid(p)
         /\ current_process \in PID /\ Exists(current_process) /\ current_process # p
         /\ parent' = [parent EXCEPT ![p] = current_process]
         /\ children' = [children EXCEPT ![p] = <<>>,
                                         ![current_process] = Append(children[current_process], p)]
         /\ stack_allocated' = [stack_allocated EXCEPT ![p] = TRUE]
         /\ UNCHANGED current_process
<1> DEFINE c == current_process
           cleared == [children EXCEPT ![p] = <<>>]
<1>1. /\ process_allocate_pid(p) /\ ~stack_allocated[p]
      /\ parent' = [parent EXCEPT ![p] = c]
      /\ children' = [cleared EXCEPT ![c] = Adopt(@, p), ![p] = <<>>]
      /\ stack_allocated' = [stack_allocated EXCEPT ![p] = TRUE]
      /\ spoiled' = spoiled
            \cup (IF Len(cleared[c]) < MAX_CHILDREN THEN {} ELSE {"list full"})
            \cup (IF Exists(c) THEN {} ELSE {"no parent"})
      /\ c' = c
  BY DEF Create
<1>2. c \in PID /\ children \in [PID -> Seq(PID)]
  BY DEF TypeOK
<1>3. p # 0
  BY <1>1, Allocated
<1>4. ~Exists(p)
  BY <1>1, <1>3 DEF Exists
<1>5. spoiled = {} /\ Exists(c)
  BY <1>1
<1>6. c # p
  BY <1>4, <1>5
<1>7. cleared[c] = children[c]
  BY <1>2, <1>6
<1>8. Adopt(cleared[c], p) = Append(children[c], p)
  BY <1>1, <1>7 DEF Adopt
<1>9. children' = [children EXCEPT ![p] = <<>>, ![c] = Append(children[c], p)]
  BY <1>1, <1>2, <1>6, <1>8
<1> QED
  BY <1>1, <1>2, <1>3, <1>4, <1>5, <1>6, <1>9


\* The first process that is created is PID 1, a child of idle.
LEMMA FirstCreated ==
  ASSUME TypeOK, LiveOwnsStack, InitIsFirst, NEW p \in PID, process_allocate_pid(p),
         ~stack_allocated[1]
  PROVE  p = 1 /\ current_process = 0 /\ \A q \in PID : ~stack_allocated[q]
<1>1. next_pid = 1 /\ current_process = 0 /\ \A q \in PID : ~stack_allocated[q]
  BY DEF InitIsFirst
<1>2. 1 \notin process_get_by_pid
  BY <1>1, Basics DEF LiveOwnsStack, Exists
<1>3. p \in 1 .. MAX_PROCESSES - 1 /\ p >= 1 /\ (1 .. p - 1) \ process_get_by_pid = {}
  BY <1>1, TableAssumption DEF process_allocate_pid
<1>4. ~(1 \in 1 .. p - 1)
  BY <1>2, <1>3
<1> QED
  BY <1>1, <1>3, <1>4, TableAssumption

\* process_create keeps the family.
LEMMA CreateKeepsFamily ==
  ASSUME TypeOK, LiveOwnsStack, Family, NEW p \in PID, Create(p), spoiled' = {}
  PROVE  Family'
<1> DEFINE c == current_process
<1>1. /\ p # 0 /\ ~Exists(p) /\ process_allocate_pid(p)
      /\ c \in PID /\ Exists(c) /\ c # p
      /\ parent' = [parent EXCEPT ![p] = c]
      /\ children' = [children EXCEPT ![p] = <<>>, ![c] = Append(children[c], p)]
      /\ stack_allocated' = [stack_allocated EXCEPT ![p] = TRUE]
  BY CreateEffect
<1>2. /\ parent \in [PID -> PID \cup {NULL}] /\ children \in [PID -> Seq(PID)]
      /\ stack_allocated \in [PID -> BOOLEAN]
  BY DEF TypeOK
<1>3. ListsAgree /\ ParentsExist /\ InitIsFirst /\ Ordered
  BY DEF Family
<1>4. \A q \in PID : Exists(q)' <=> Exists(q) \/ q = p
  BY <1>1, <1>2 DEF Exists
<1>5. parent'[p] = c /\ \A q \in PID \ {p} : parent'[q] = parent[q]
  BY <1>1, <1>2
<1>6. /\ children'[p] = <<>> /\ children'[c] = Append(children[c], p)
      /\ \A q \in PID \ {p, c} : children'[q] = children[q]
  BY <1>1, <1>2
<1> HIDE DEF c
<1>7. \A q \in PID \ {0} : Exists(q) => parent[q] \in PID \ {p} /\ q # p
  BY <1>1, <1>3 DEF ParentsExist
<1>8. \A r \in PID : ChildrenOf(r)' = IF r = c THEN ChildrenOf(r) \cup {p} ELSE ChildrenOf(r)
  <2>1. ASSUME NEW r \in PID, NEW q \in PID \ {0}
        PROVE  Exists(q)' /\ parent'[q] = r <=> (Exists(q) /\ parent[q] = r) \/ (q = p /\ r = c)
    BY <1>1, <1>4, <1>5, <1>7, <2>1
  <2>2. \A r \in PID : ChildrenOf(r)' = {q \in PID \ {0} : Exists(q)' /\ parent'[q] = r}
    BY DEF ChildrenOf
  <2>3. ASSUME NEW r \in PID
        PROVE  ChildrenOf(r)' = IF r = c THEN ChildrenOf(r) \cup {p} ELSE ChildrenOf(r)
    <3>1. CASE r = c
      <4>1. ChildrenOf(r)' = ChildrenOf(r) \cup {p}
        BY <1>1, <2>1, <2>2, <3>1 DEF ChildrenOf
      <4> QED
        BY <3>1, <4>1
    <3>2. CASE r # c
      <4>1. ChildrenOf(r)' = ChildrenOf(r)
        BY <1>1, <2>1, <2>2, <3>2 DEF ChildrenOf
      <4> QED
        BY <3>2, <4>1
    <3> QED
      BY <3>1, <3>2
  <2> QED
    BY <2>3
<1>9. ListsAgree'
  <2>1. ASSUME NEW r \in PID, Exists(r)'
        PROVE  Injective(children'[r]) /\ Entries(children'[r]) = ChildrenOf(r)'
    <3>1. CASE r = p
      <4>1. ChildrenOf(p) = {}
        BY <1>7 DEF ChildrenOf
      <4>2. DOMAIN <<>> = {}
        BY EmptySeq
      <4>3. Injective(<<>>) /\ Entries(<<>>) = {}
        BY <4>2 DEF Injective, Entries
      <4> QED
        BY <1>1, <1>6, <1>8, <3>1, <4>1, <4>3
    <3>2. CASE r = c
      <4>1. Injective(children[c]) /\ Entries(children[c]) = ChildrenOf(c)
        BY <1>1, <1>3 DEF ListsAgree
      <4>2. p \notin ChildrenOf(c)
        BY <1>1 DEF ChildrenOf
      <4>3. children[c] \in Seq(PID)
        BY <1>1, <1>2
      <4>4. /\ Injective(Append(children[c], p))
            /\ Entries(Append(children[c], p)) = ChildrenOf(c) \cup {p}
        BY <4>1, <4>2, <4>3, AppendAdds
      <4> QED
        BY <1>1, <1>6, <1>8, <3>2, <4>4
    <3>3. CASE r \notin {p, c}
      <4>1. Exists(r)
        BY <1>4, <2>1, <3>3
      <4>2. children'[r] = children[r] /\ ChildrenOf(r)' = ChildrenOf(r)
        BY <1>6, <1>8, <3>3
      <4> QED
        BY <1>3, <4>1, <4>2 DEF ListsAgree
    <3> QED
      BY <3>1, <3>2, <3>3
  <2> QED
    BY <2>1 DEF ListsAgree
<1>10. ParentsExist'
  <2>1. ASSUME NEW q \in PID \ {0}, Exists(q)'
        PROVE  parent'[q] \in PID /\ (parent'[q] = 0 \/ stack_allocated'[parent'[q]])
    <3>1. CASE q = p
      BY <1>1, <1>4, <1>5, <3>1 DEF Exists
    <3>2. CASE q # p
      <4>1. Exists(q) /\ parent'[q] = parent[q]
        BY <1>4, <1>5, <2>1, <3>2
      <4>2. parent[q] \in PID /\ Exists(parent[q])
        BY <1>3, <4>1 DEF ParentsExist
      <4> QED
        BY <1>1, <1>2, <4>1, <4>2 DEF Exists
    <3> QED
      BY <3>1, <3>2
  <2> QED
    BY <2>1 DEF ParentsExist, Exists
<1>11. CASE ~stack_allocated[1]
  <2>1. p = 1 /\ c = 0 /\ \A q \in PID : ~stack_allocated[q]
    BY <1>1, <1>3, <1>11, FirstCreated DEF c
  <2>2. \A q \in PID \ {0} : Exists(q)' <=> q = 1
    BY <1>4, <2>1 DEF Exists
  <2>3. InitIsFirst'
    BY <1>1, <1>2, <1>5, <2>1 DEF InitIsFirst
  <2> DEFINE order == [q \in PID |-> q]
  <2>4. IsOrder(order)
    BY Basics DEF IsOrder
  <2>5. ParentsFirst(order)'
    <3>1. \A q \in PID \ {0} : Exists(q)' => order[parent'[q]] < order[q]
      BY <1>5, <2>1, <2>2, Basics
    <3> QED
      BY <3>1 DEF ParentsFirst
  <2> HIDE DEF order
  <2>6. Ordered'
    BY <2>4, <2>5 DEF Ordered
  <2> QED
    BY <1>9, <1>10, <2>3, <2>6 DEF Family
<1>12. CASE stack_allocated[1] = TRUE
  <2>1. p # 1 /\ parent[1] = 0
    BY <1>1, <1>3, <1>12, Basics DEF InitIsFirst, Exists
  <2>2. InitIsFirst'
    BY <1>1, <1>2, <1>5, <1>12, <2>1, Basics DEF InitIsFirst
  <2>3. PICK order : IsOrder(order) /\ ParentsFirst(order)
    BY <1>3 DEF Ordered
  <2> DEFINE new == MovedToEnd(order, p)
  <2>4. /\ IsOrder(new)
        /\ \A q \in PID \ {p} : new[q] < new[p]
        /\ \A q, r \in PID \ {p} : order[q] < order[r] => new[q] < new[r]
    BY <1>1, <2>1, <2>3, MovedIsOrder
  <2> HIDE DEF new
  <2>5. ASSUME NEW q \in PID \ {0}, Exists(q)' PROVE new[parent'[q]] < new[q]
    <3>1. CASE q = p
      BY <1>1, <1>5, <2>4, <3>1
    <3>2. CASE q # p
      <4>1. Exists(q) /\ parent'[q] = parent[q] /\ parent[q] \in PID \ {p}
        BY <1>4, <1>5, <1>7, <2>5, <3>2
      <4>2. order[parent[q]] < order[q]
        BY <2>3, <4>1 DEF ParentsFirst
      <4> QED
        BY <2>4, <3>2, <4>1, <4>2
    <3> QED
      BY <3>1, <3>2
  <2>6. Ordered'
    <3>1. ParentsFirst(new)'
      BY <2>5 DEF ParentsFirst
    <3> QED
      BY <2>4, <3>1 DEF Ordered
  <2> QED
    BY <1>9, <1>10, <2>2, <2>6 DEF Family
<1> QED
  BY <1>2, <1>11, <1>12, Basics


(* A destruction that spoils nothing: p leaves the list of its parent, and  *)
(* its children become children of PID 1, which has room for them.          *)
LEMMA DestroyEffect ==
  ASSUME TypeOK, Family, NEW p \in PID, process_destroy(p), spoiled' = {}
  PROVE  LET left == [children EXCEPT ![parent[p]] = RemoveChild(@, p)]
         IN  /\ p \notin {0, 1} /\ Exists(p)
             /\ parent[p] \in PID /\ parent[p] # p
             /\ stack_allocated[1] /\ parent[1] = 0
             /\ Len(left[1]) + Len(children[p]) <= MAX_CHILDREN
             /\ children' = [left EXCEPT ![1] = AdoptAll(left[1], children[p])]
             /\ parent' = [q \in PID |-> IF q \in ChildrenOf(p) THEN 1 ELSE parent[q]]
             /\ stack_allocated' = [stack_allocated EXCEPT ![p] = FALSE]
             /\ UNCHANGED <<next_pid, current_process>>
<1> DEFINE left == IF parent[p] = NULL THEN children
                   ELSE [children EXCEPT ![parent[p]] = RemoveChild(@, p)]
<1>1. /\ p # 0 /\ stack_allocated[p]
      /\ children' = IF p = 1 THEN [left EXCEPT ![1] = AdoptOwn(@)]
                     ELSE [left EXCEPT ![1] = AdoptAll(@, left[p])]
      /\ parent' = [q \in PID |-> NewParent(q, left[p])]
      /\ stack_allocated' = [stack_allocated EXCEPT ![p] = FALSE]
      /\ spoiled' = spoiled
            \cup (IF p = 1 THEN {"init destroyed"} ELSE {})
            \cup (IF Len(left[1]) + Len(left[p]) > MAX_CHILDREN THEN {"list full"} ELSE {})
      /\ UNCHANGED <<next_pid, current_process>>
  BY DEF process_destroy
<1>2. children \in [PID -> ChildList]
  BY ListsTyped DEF TypeOK
<1>3. ListsAgree /\ ParentsExist /\ InitIsFirst /\ Ordered
  BY DEF Family
<1>4. Exists(p)
  BY <1>1 DEF Exists
<1>5. parent[p] \in PID /\ parent[p] # p
  <2>1. parent[p] \in PID
    BY <1>1, <1>3, <1>4 DEF ParentsExist
  <2>2. PICK order : IsOrder(order) /\ ParentsFirst(order)
    BY <1>3 DEF Ordered
  <2>3. order[p] \in Int /\ order[parent[p]] < order[p]
    <3>1. order[p] \in PID /\ order[parent[p]] < order[p]
      BY <1>1, <1>4, <2>2 DEF ParentsFirst, IsOrder
    <3> QED
      BY <3>1 DEF PID
  <2> QED
    BY <2>1, <2>3
<1>6. left = [children EXCEPT ![parent[p]] = RemoveChild(@, p)]
  BY <1>5, Basics
<1>7. left[p] = children[p]
  BY <1>2, <1>5, <1>6
<1>8. p # 1 /\ ~(Len(left[1]) + Len(left[p]) > MAX_CHILDREN)
  BY <1>1
<1>9. Len(left[1]) + Len(children[p]) <= MAX_CHILDREN
  <2> HIDE DEF left
  <2>1. left \in [PID -> ChildList]
    <3>1. RemoveChild(children[parent[p]], p) \in ChildList
      BY <1>2, <1>5, RemoveChildType
    <3> QED
      BY <1>2, <1>6, <3>1
  <2>2. Len(left[1]) \in Nat /\ Len(left[p]) \in Nat
    BY <2>1, Basics, LenProperties DEF ChildList
  <2>3. MAX_CHILDREN \in Nat
    BY TableAssumption
  <2>4. Len(left[1]) + Len(left[p]) <= MAX_CHILDREN
    <3>1. \A a, b, m \in Nat : ~(a + b > m) => a + b <= m
      OBVIOUS
    <3> QED
      BY ONLY <1>8, <2>2, <2>3, <3>1, Zenon
  <2> QED
    BY <1>7, <2>4
<1>10. \A q \in PID : NewParent(q, left[p]) = IF q \in ChildrenOf(p) THEN 1 ELSE parent[q]
  <2>1. Entries(children[p]) = ChildrenOf(p)
    BY <1>3, <1>4 DEF ListsAgree
  <2>2. \A q \in PID : NewParent(q, children[p])
                       = IF q \in Entries(children[p]) THEN 1 ELSE parent[q]
    BY DEF NewParent, Entries
  <2> QED
    BY <1>7, <2>1, <2>2
<1>11. stack_allocated[1] /\ parent[1] = 0
  BY <1>1, <1>3 DEF InitIsFirst
<1> HIDE DEF left
<1>12. children' = [left EXCEPT ![1] = AdoptAll(left[1], children[p])]
  BY <1>1, <1>7, <1>8
<1>13. parent' = [q \in PID |-> IF q \in ChildrenOf(p) THEN 1 ELSE parent[q]]
  BY <1>1, <1>10
<1> QED
  BY <1>1, <1>4, <1>5, <1>6, <1>8, <1>9, <1>11, <1>12, <1>13

\* process_destroy keeps the family: PID 1 takes the place of the parent that is gone.
LEMMA DestroyKeepsFamily ==
  ASSUME TypeOK, Family, NEW p \in PID, process_destroy(p), spoiled' = {}
  PROVE  Family'
<1> DEFINE r == parent[p]
           left == [children EXCEPT ![parent[p]] = RemoveChild(@, p)]
<1>1. /\ p \notin {0, 1} /\ Exists(p) /\ r \in PID /\ r # p
      /\ stack_allocated[1] /\ parent[1] = 0
      /\ Len(left[1]) + Len(children[p]) <= MAX_CHILDREN
      /\ children' = [left EXCEPT ![1] = AdoptAll(left[1], children[p])]
      /\ parent' = [q \in PID |-> IF q \in ChildrenOf(p) THEN 1 ELSE parent[q]]
      /\ stack_allocated' = [stack_allocated EXCEPT ![p] = FALSE]
  BY DestroyEffect
<1>2. /\ children \in [PID -> ChildList] /\ stack_allocated \in [PID -> BOOLEAN]
      /\ 0 \in PID /\ 1 \in PID
  BY ListsTyped, Basics DEF TypeOK
<1>3. ListsAgree /\ ParentsExist /\ Ordered
  BY DEF Family
<1>4. \A q \in PID : Exists(q)' <=> Exists(q) /\ q # p
  BY <1>1, <1>2 DEF Exists
<1>5. ASSUME NEW s \in PID, Exists(s)
      PROVE  /\ left[s] \in ChildList /\ Injective(left[s])
             /\ Entries(left[s]) = ChildrenOf(s) \ {p}
  <2>1. /\ children[s] \in ChildList /\ Injective(children[s])
        /\ Entries(children[s]) = ChildrenOf(s)
    BY <1>2, <1>3, <1>5 DEF ListsAgree
  <2>2. CASE s = r
    <3>1. left[s] = RemoveChild(children[s], p)
      BY <1>2, <2>2
    <3> QED
      BY <2>1, <3>1, RemoveChildRemoves, RemoveChildType
  <2>3. CASE s # r
    <3>1. left[s] = children[s]
      BY <1>1, <1>2, <2>3
    <3>2. p \notin ChildrenOf(s)
      BY <2>3 DEF ChildrenOf
    <3> QED
      BY <2>1, <3>1, <3>2
  <2> QED
    BY <2>2, <2>3
<1>6. Exists(1) /\ left[p] = children[p]
  BY <1>1, <1>2 DEF Exists
<1>7. /\ children'[1] = AdoptAll(left[1], children[p])
      /\ \A s \in PID \ {1} : children'[s] = left[s]
  BY <1>1, <1>2
<1> HIDE DEF left, r
<1>8. /\ Injective(children'[1])
      /\ Entries(children'[1]) = (ChildrenOf(1) \ {p}) \cup ChildrenOf(p)
  <2>1. /\ left[1] \in ChildList /\ Injective(left[1]) /\ Entries(left[1]) = ChildrenOf(1) \ {p}
    BY <1>2, <1>5, <1>6
  <2>2. /\ children[p] \in ChildList /\ Injective(children[p])
        /\ Entries(children[p]) = ChildrenOf(p)
    BY <1>1, <1>2, <1>3 DEF ListsAgree
  <2>3. Entries(left[1]) \cap Entries(children[p]) = {}
    BY <1>1, <2>1, <2>2 DEF ChildrenOf
  <2>4. /\ Injective(AdoptAll(left[1], children[p]))
        /\ Entries(AdoptAll(left[1], children[p])) = Entries(left[1]) \cup Entries(children[p])
    BY <1>1, <2>1, <2>2, <2>3, AdoptAllAdds
  <2> QED
    BY <1>7, <2>1, <2>2, <2>4
<1>9. \A q \in PID : parent'[q] = IF q \in ChildrenOf(p) THEN 1 ELSE parent[q]
  BY <1>1
<1>10. p \notin ChildrenOf(p)
  BY <1>1 DEF ChildrenOf, r
<1>11. ASSUME NEW s \in PID \ {p}
       PROVE  ChildrenOf(s)' = IF s = 1 THEN (ChildrenOf(1) \ {p}) \cup ChildrenOf(p)
                               ELSE ChildrenOf(s) \ {p}
  <2>1. ASSUME NEW q \in PID \ {0}
        PROVE  /\ q \in ChildrenOf(s)' <=> Exists(q) /\ q # p /\ parent'[q] = s
               /\ q \in ChildrenOf(s) <=> Exists(q) /\ parent[q] = s
               /\ q \in ChildrenOf(p) <=> Exists(q) /\ parent[q] = p
               /\ q \in ChildrenOf(1) <=> Exists(q) /\ parent[q] = 1
    BY <1>4 DEF ChildrenOf
  <2>2. ChildrenOf(s)' \subseteq PID \ {0} /\ \A t \in PID : ChildrenOf(t) \subseteq PID \ {0}
    BY DEF ChildrenOf
  <2>3. CASE s = 1
    <3>1. ASSUME NEW q \in PID \ {0}
          PROVE  q \in ChildrenOf(s)' <=> q \in (ChildrenOf(1) \ {p}) \cup ChildrenOf(p)
      <4>1. CASE q \in ChildrenOf(p)
        BY <1>9, <1>10, <2>1, <2>3, <4>1
      <4>2. CASE q \notin ChildrenOf(p)
        BY <1>9, <2>1, <2>3, <4>2
      <4> QED
        BY <4>1, <4>2
    <3>2. ChildrenOf(s)' = (ChildrenOf(1) \ {p}) \cup ChildrenOf(p)
      BY <1>2, <2>2, <3>1
    <3> QED
      BY <2>3, <3>2
  <2>4. CASE s # 1
    <3>1. ASSUME NEW q \in PID \ {0}
          PROVE  q \in ChildrenOf(s)' <=> q \in ChildrenOf(s) \ {p}
      <4>1. CASE q \in ChildrenOf(p)
        BY <1>9, <1>11, <2>1, <2>4, <4>1
      <4>2. CASE q \notin ChildrenOf(p)
        BY <1>9, <2>1, <4>2
      <4> QED
        BY <4>1, <4>2
    <3>2. ChildrenOf(s)' = ChildrenOf(s) \ {p}
      BY <2>2, <3>1
    <3> QED
      BY <2>4, <3>2
  <2> QED
    BY <2>3, <2>4
<1>12. ListsAgree'
  <2>1. ASSUME NEW s \in PID, Exists(s)'
        PROVE  Injective(children'[s]) /\ Entries(children'[s]) = ChildrenOf(s)'
    <3>1. s \in PID \ {p} /\ Exists(s)
      BY <1>4, <2>1
    <3>2. CASE s = 1
      BY <1>8, <1>11, <3>1, <3>2
    <3>3. CASE s # 1
      BY <1>5, <1>7, <1>11, <3>1, <3>3
    <3> QED
      BY <3>2, <3>3
  <2> QED
    BY <2>1 DEF ListsAgree
<1>13. ASSUME NEW q \in PID \ {0}, Exists(q)'
       PROVE  /\ Exists(q) /\ q # p
              /\ \/ parent'[q] = 1 /\ q # 1
                 \/ parent'[q] = parent[q] /\ parent[q] \in PID \ {p} /\ Exists(parent[q])
  <2>1. Exists(q) /\ q # p
    BY <1>4, <1>13
  <2>2. CASE q \in ChildrenOf(p)
    BY <1>1, <1>9, <2>1, <2>2 DEF ChildrenOf
  <2>3. CASE q \notin ChildrenOf(p)
    <3>1. parent[q] # p /\ parent[q] \in PID /\ Exists(parent[q])
      BY <1>3, <2>1, <2>3 DEF ChildrenOf, ParentsExist
    <3> QED
      BY <1>9, <2>1, <2>3, <3>1
  <2> QED
    BY <2>2, <2>3
<1>14. ParentsExist'
  <2>1. ASSUME NEW q \in PID \ {0}, Exists(q)'
        PROVE  parent'[q] \in PID /\ (parent'[q] = 0 \/ stack_allocated'[parent'[q]])
    BY <1>1, <1>2, <1>13, <2>1 DEF Exists
  <2> QED
    BY <2>1 DEF ParentsExist, Exists
<1>15. InitIsFirst'
  <2>1. 1 \notin ChildrenOf(p)
    BY <1>1 DEF ChildrenOf
  <2> QED
    BY <1>1, <1>2, <1>9, <2>1 DEF InitIsFirst
<1>16. Ordered'
  <2>1. PICK order : IsOrder(order) /\ ParentsFirst(order)
    BY <1>3 DEF Ordered
  <2>2. ASSUME NEW q \in PID \ {0}, Exists(q)' PROVE order[parent'[q]] < order[q]
    <3>1. Exists(q)
      BY <1>13, <2>2
    <3>2. CASE parent'[q] = 1 /\ q # 1
      <4>1. order[q] # order[0] /\ order[q] # order[1] /\ order[q] \in Nat
        BY <1>2, <2>1, <3>2, TableAssumption DEF IsOrder, PID
      <4>2. order[0] = 0 /\ order[1] = 1
        BY <2>1 DEF IsOrder
      <4> QED
        BY <3>2, <4>1, <4>2
    <3>3. CASE parent'[q] = parent[q]
      BY <2>1, <3>1, <3>3 DEF ParentsFirst
    <3> QED
      BY <1>13, <2>2, <3>2, <3>3
  <2>3. ParentsFirst(order)'
    BY <2>2 DEF ParentsFirst
  <2> QED
    BY <2>1, <2>3 DEF Ordered
<1> QED
  BY <1>12, <1>14, <1>15, <1>16 DEF Family

(* Parents and children agree and form a tree with the idle process as its  *)
(* root, for every size of the table and of child lists and through every   *)
(* order of creations, exits and destructions, as long as none of the four  *)
(* spoilers has come; PID 1 takes orphans without closing a cycle.          *)
THEOREM FamilyStaysTree == Spec => []FamilyTree
<1>1. Init => FamilyInv
  <2> SUFFICES ASSUME Init PROVE Family
    BY DEF FamilyInv
  <2>1. \A p \in PID : Exists(p) <=> p = 0
    BY DEF Init, Exists
  <2>2. \A p \in PID : ChildrenOf(p) = {} /\ children[p] = <<>>
    BY <2>1 DEF Init, ChildrenOf
  <2>3. Injective(<<>>) /\ Entries(<<>>) = {}
    <3>1. DOMAIN <<>> = {}
      BY EmptySeq
    <3> QED
      BY <3>1 DEF Injective, Entries
  <2>4. ListsAgree /\ ParentsExist
    BY <2>1, <2>2, <2>3 DEF ListsAgree, ParentsExist
  <2>5. InitIsFirst
    BY DEF Init, InitIsFirst
  <2>6. Ordered
    <3> DEFINE order == [q \in PID |-> q]
    <3>1. IsOrder(order) /\ ParentsFirst(order)
      BY <2>1, Basics DEF IsOrder, ParentsFirst
    <3> HIDE DEF order
    <3> QED
      BY <3>1 DEF Ordered
  <2> QED
    BY <2>4, <2>5, <2>6 DEF Family
<1>2. TypeOK /\ LiveOwnsStack /\ FamilyInv /\ [Next]_vars => FamilyInv'
  <2> SUFFICES ASSUME TypeOK, LiveOwnsStack, FamilyInv, [Next]_vars, spoiled' = {}
               PROVE  Family'
    BY DEF FamilyInv
  <2>1. CASE UNCHANGED <<parent, children, stack_allocated, next_pid, current_process, spoiled>>
    BY <2>1 DEF FamilyInv, Family, ListsAgree, ParentsExist, InitIsFirst, Ordered, ParentsFirst,
                ChildrenOf, Exists
  <2>2. ASSUME NEW p \in PID, Create(p) PROVE Family'
    <3>1. Family
      BY <2>2, CreateEffect DEF FamilyInv
    <3> QED
      BY <2>2, <3>1, CreateKeepsFamily
  <2>3. ASSUME NEW p \in PID, CreateNoStack(p) PROVE Family'
    BY <2>3 DEF CreateNoStack
  <2>4. ASSUME NEW p \in PID, process_destroy(p) PROVE Family'
    <3>1. spoiled = {}
      BY <2>4 DEF process_destroy
    <3> QED
      BY <2>4, <3>1, DestroyKeepsFamily DEF FamilyInv
  <2>5. ASSUME NEW p \in PID, process_set_current(p) PROVE Family'
    <3>1. /\ UNCHANGED <<parent, children, stack_allocated, next_pid, spoiled>>
          /\ current_process' = p /\ p \in process_get_by_pid
      BY <2>5 DEF process_set_current, table
    <3>2. Family
      BY <3>1 DEF FamilyInv
    <3>3. ListsAgree' /\ ParentsExist' /\ Ordered'
      BY <3>1, <3>2 DEF Family, ListsAgree, ParentsExist, Ordered, ParentsFirst, ChildrenOf, Exists
    <3>4. InitIsFirst'
      <4>1. p = 0 \/ stack_allocated[p]
        BY <3>1 DEF LiveOwnsStack, Exists
      <4> QED
        BY <3>1, <3>2, <4>1 DEF Family, InitIsFirst
    <3> QED
      BY <3>3, <3>4 DEF Family
  <2> QED
    BY <2>1, <2>2, <2>3, <2>4, <2>5
       DEF Next, process_create, CreateNoPid, process_exit, process_set_state, vars, table
<1>3. TypeOK /\ FamilyInv => FamilyTree
  BY FamilySuffices
<1> QED
  BY <1>1, <1>2, <1>3, TypeCorrect, LiveProcessesOwnStacks, PTL DEF Spec
===========================================================================
