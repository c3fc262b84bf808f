---------------------------- MODULE HeapProofs ----------------------------
(* Machine-checked proofs about Heap, for every heap size, header size and  *)
(* granularity, all requests and every order of calls.                      *)
EXTENDS Heap, WellFoundedInduction, TLAPS

---------------------------------------------------------------------------
(* The list of blocks, on a set D of addresses, their headers f and the     *)
(* address e of the last one; between the steps of a call it is the list    *)
(* that split_block and merge_free_blocks have made so far.                 *)

Header == [size : 0 .. HEAP_SIZE - HEADER, is_free : BOOLEAN,
           next : Address \cup {NULL}, prev : Address \cup {NULL}]

EndOf(f, b) == b + HEADER + f[b].size

LinkedForward(D, f, e, b) ==
    IF f[b].next = NULL
    THEN EndOf(f, b) = HEAP_SIZE /\ b = e
    ELSE f[b].next = EndOf(f, b) /\ f[b].next \in D /\ f[f[b].next].prev = b

LinkedBack(D, f, b) ==
    IF f[b].prev = NULL
    THEN b = 0
    ELSE f[b].prev \in D /\ f[f[b].prev].next = b

Covers(D, f, e) ==
    /\ D \subseteq Address
    /\ f \in [D -> Header]
    /\ 0 \in D
    /\ e \in D /\ f[e].next = NULL
    /\ \A b \in D : LinkedForward(D, f, e, b)
    /\ \A b \in D : LinkedBack(D, f, b)
    /\ \A b, c \in D : b < c => EndOf(f, b) <= c

\* The constants are numbers, and the null pointer is none.
LEMMA Sizes ==
  /\ HEADER \in Nat /\ HEADER > 0 /\ HEAP_SIZE \in Nat /\ HEADER < HEAP_SIZE
  /\ NULL \notin Int /\ NULL \notin Address
<1>1. HEADER \in Nat \ {0} /\ HEAP_SIZE \in Nat /\ HEADER < HEAP_SIZE /\ NULL \notin Int
  BY HeapAssumption
<1> QED
  BY <1>1 DEF Address

\* The fields of a header, and where its block ends.
LEMMA Fields ==
  ASSUME NEW D, NEW f, NEW e, Covers(D, f, e), NEW b \in D
  PROVE  /\ b \in Int /\ b >= 0 /\ b + HEADER <= HEAP_SIZE
         /\ f[b].size \in Int /\ f[b].size >= 0
         /\ EndOf(f, b) \in Int /\ EndOf(f, b) > b /\ EndOf(f, b) <= HEAP_SIZE
         /\ f[b].next = NULL \/ f[b].next \in Address
         /\ f[b].prev = NULL \/ f[b].prev \in Address
         /\ f[b].is_free \in BOOLEAN
         /\ f[b].next # b
<1>1. b \in Address /\ f[b] \in Header
  BY DEF Covers
<1>2. /\ f[b].size \in 0 .. HEAP_SIZE - HEADER
      /\ f[b].next \in Address \cup {NULL} /\ f[b].prev \in Address \cup {NULL}
      /\ f[b].is_free \in BOOLEAN
  BY <1>1 DEF Header
<1>3. b \in Int /\ b >= 0 /\ f[b].size \in Int /\ f[b].size >= 0
  BY <1>1, <1>2, Sizes DEF Address
<1>4. EndOf(f, b) \in Int /\ EndOf(f, b) > b /\ EndOf(f, b) >= b + HEADER
  BY <1>3, Sizes DEF EndOf
<1>5. LinkedForward(D, f, e, b)
  BY DEF Covers
<1>6. EndOf(f, b) <= HEAP_SIZE
  BY <1>2, <1>4, <1>5, Sizes DEF LinkedForward, Address
<1>7. f[b].next # b
  BY <1>3, <1>4, <1>5, Sizes DEF LinkedForward
<1> QED
  BY <1>2, <1>3, <1>4, <1>6, <1>7, Sizes

---------------------------------------------------------------------------
(* What the stores of split_block and merge_free_blocks do to the list. *)

\* The headers after block b was cut at n.
SplitAt(f, D, b, n, size) ==
    [a \in D \cup {n} |->
        CASE a = n         -> [f[b] EXCEPT !.size = @ - size - HEADER, !.is_free = TRUE, !.prev = b]
          [] a = b         -> [f[b] EXCEPT !.next = n, !.size = size]
          [] a = f[b].next -> [f[a] EXCEPT !.prev = n]
          [] OTHER         -> f[a]]

\* The same, field by field.
HasSplit(f, D, b, n, size, g) ==
    /\ n \notin D /\ n \in Address
    /\ g \in [D \cup {n} -> Header]
    /\ g[n].size = f[b].size - size - HEADER /\ g[n].next = f[b].next /\ g[n].prev = b
    /\ g[n].is_free = TRUE
    /\ g[b].size = size /\ g[b].next = n
    /\ \A a \in D : /\ g[a].is_free = f[a].is_free
                    /\ a # b => g[a].size = f[a].size /\ g[a].next = f[a].next
                    /\ g[a].prev = IF a = f[b].next THEN n ELSE f[a].prev

\* A block that is cut really is cut so.
LEMMA SplitFields ==
  ASSUME NEW D, NEW f, NEW e, Covers(D, f, e), NEW b \in D, NEW size \in Nat,
         f[b].size > size + HEADER, NEW n, n = b + HEADER + size,
         NEW g, g = SplitAt(f, D, b, n, size)
  PROVE  HasSplit(f, D, b, n, size, g)
<1>1. /\ b \in Int /\ b >= 0 /\ f[b].size \in Int /\ f[b].next # b
      /\ EndOf(f, b) \in Int /\ EndOf(f, b) <= HEAP_SIZE /\ b \in Address
      /\ f \in [D -> Header] /\ f[b] \in Header
  BY Fields DEF Covers
<1>2. n \in Int /\ b < n /\ n < EndOf(f, b)
  BY <1>1, Sizes DEF EndOf
<1>3. n \in Address
  BY <1>1, <1>2, Sizes DEF Address
<1>4. n \notin D
  <2>1. SUFFICES ASSUME n \in D PROVE FALSE
    OBVIOUS
  <2>2. EndOf(f, b) <= n
    BY <1>2, <2>1 DEF Covers
  <2> QED
    BY <1>1, <1>2, <2>2
<1>5. n # b /\ n # f[b].next
  <2>1. LinkedForward(D, f, e, b)
    BY DEF Covers
  <2> QED
    BY <1>2, <2>1, Sizes DEF LinkedForward
<1> DEFINE rest == [f[b] EXCEPT !.size = @ - size - HEADER, !.is_free = TRUE, !.prev = b]
           cut  == [f[b] EXCEPT !.next = n, !.size = size]
           back(a) == [f[a] EXCEPT !.prev = n]
<1>6. /\ rest \in Header /\ rest.size = f[b].size - size - HEADER /\ rest.is_free = TRUE
      /\ rest.prev = b /\ rest.next = f[b].next
  <2>1. f[b].size \in 0 .. HEAP_SIZE - HEADER
    BY <1>1 DEF Header
  <2>2. f[b].size - size - HEADER \in 0 .. HEAP_SIZE - HEADER
    BY <2>1, Sizes
  <2> QED
    BY <1>1, <2>2 DEF Header
<1>7. cut \in Header /\ cut.size = size /\ cut.next = n /\ cut.prev = f[b].prev
      /\ cut.is_free = f[b].is_free
  <2>1. size \in 0 .. HEAP_SIZE - HEADER
    BY <1>1, Sizes DEF Header
  <2> QED
    BY <1>1, <1>3, <2>1 DEF Header
<1>8. ASSUME NEW a \in D
      PROVE  /\ back(a) \in Header /\ back(a).prev = n /\ back(a).size = f[a].size
             /\ back(a).next = f[a].next /\ back(a).is_free = f[a].is_free
  BY <1>1, <1>3 DEF Header
<1>9. g = [a \in D \cup {n} |-> CASE a = n -> rest [] a = b -> cut [] a = f[b].next -> back(a)
                                [] OTHER -> f[a]]
  BY DEF SplitAt
<1> HIDE DEF rest, cut, back
<1>10. g[n] = rest /\ g[b] = cut /\ DOMAIN g = D \cup {n}
  <2>1. f[b].next # b
    BY <1>1
  <2> QED
    BY <1>5, <1>9, <2>1
<1>11. ASSUME NEW a \in D, a # b
       PROVE  g[a] = IF a = f[b].next THEN back(a) ELSE f[a]
  BY <1>4, <1>9, <1>11
<1>12. ASSUME NEW a \in D
       PROVE  /\ g[a] \in Header
              /\ g[a].is_free = f[a].is_free
              /\ a # b => g[a].size = f[a].size /\ g[a].next = f[a].next
              /\ g[a].prev = IF a = f[b].next THEN n ELSE f[a].prev
  <2>1. CASE a = b
    BY <1>1, <1>7, <1>10, <2>1
  <2>2. CASE a # b /\ a = f[b].next
    BY <1>8, <1>11, <2>2
  <2>3. CASE a # b /\ a # f[b].next
    BY <1>1, <1>11, <2>3
  <2> QED
    BY <2>1, <2>2, <2>3
<1>13. g \in [D \cup {n} -> Header]
  BY <1>6, <1>9, <1>10, <1>12
<1> QED
  BY <1>3, <1>4, <1>6, <1>7, <1>10, <1>12, <1>13 DEF HasSplit

\* Cutting a block leaves a list that covers the heap.
LEMMA SplitCovers ==
  ASSUME NEW D, NEW f, NEW e, Covers(D, f, e), NEW b \in D, NEW size \in Nat,
         f[b].size > size + HEADER, NEW n, n = b + HEADER + size,
         NEW g, HasSplit(f, D, b, n, size, g)
  PROVE  Covers(D \cup {n}, g, IF f[b].next = NULL THEN n ELSE e)
<1> DEFINE k == IF f[b].next = NULL THEN n ELSE e
           E == D \cup {n}
           after == f[b].next
<1>1. /\ n \notin D /\ n \in Address
      /\ g \in [E -> Header]
      /\ g[n].size = f[b].size - size - HEADER /\ g[n].next = after /\ g[n].prev = b
      /\ g[b].size = size /\ g[b].next = n
      /\ \A a \in D : /\ a # b => g[a].size = f[a].size /\ g[a].next = f[a].next
                      /\ g[a].prev = IF a = after THEN n ELSE f[a].prev
  BY DEF HasSplit
<1>2. /\ b \in Int /\ f[b].size \in Int /\ EndOf(f, b) \in Int
      /\ D \subseteq Address /\ 0 \in D /\ e \in D /\ f[e].next = NULL
      /\ \A a \in D : a \in Int /\ EndOf(f, a) \in Int /\ EndOf(f, a) > a
      /\ \A a, c \in D : a < c => EndOf(f, a) <= c
  BY Fields DEF Covers
<1>3. n \in Int /\ b < n /\ n < EndOf(f, b) /\ n # NULL
  BY <1>2, Sizes DEF EndOf
<1>4. /\ EndOf(g, n) = EndOf(f, b) /\ EndOf(g, b) = n
      /\ \A a \in D : a # b => EndOf(g, a) = EndOf(f, a)
  BY <1>1, <1>2, Sizes DEF EndOf
<1>5. LinkedForward(D, f, e, b) /\ after # b /\ after # n
  BY <1>1, <1>2, <1>3, Fields, Sizes DEF Covers, LinkedForward
<1>6. k \in E /\ g[k].next = NULL
  <2>1. CASE after = NULL
    BY <1>1, <2>1
  <2>2. CASE after # NULL
    <3>1. e # b
      BY <1>2, <2>2
    <3> QED
      BY <1>1, <1>2, <2>2, <3>1
  <2> QED
    BY <2>1, <2>2
<1>7. ASSUME NEW a \in E PROVE LinkedForward(E, g, k, a)
  <2>1. CASE a = n
    BY <1>1, <1>3, <1>4, <1>5, <2>1 DEF LinkedForward
  <2>2. CASE a = b
    BY <1>1, <1>3, <1>4, <2>2 DEF LinkedForward
  <2>3. CASE a \in D /\ a # b
    <3>1. LinkedForward(D, f, e, a)
      BY <2>3 DEF Covers
    <3>2. g[a].next = f[a].next /\ EndOf(g, a) = EndOf(f, a)
      BY <1>1, <1>4, <2>3
    <3>3. CASE f[a].next = NULL
      <4>1. a = e /\ EndOf(f, a) = HEAP_SIZE
        BY <3>1, <3>3 DEF LinkedForward
      <4>2. after # NULL
        BY <1>5, <2>3, <4>1 DEF LinkedForward
      <4> QED
        BY <3>2, <3>3, <4>1, <4>2 DEF LinkedForward
    <3>4. CASE f[a].next # NULL
      <4>1. f[a].next = EndOf(f, a) /\ f[a].next \in D /\ f[f[a].next].prev = a
        BY <3>1, <3>4 DEF LinkedForward
      <4>2. f[a].next # after
        <5>1. CASE after = NULL
          BY <3>4, <5>1
        <5>2. CASE after # NULL
          BY <1>5, <2>3, <4>1, <5>2 DEF LinkedForward
        <5> QED
          BY <5>1, <5>2
      <4>3. g[f[a].next].prev = a
        BY <1>1, <4>1, <4>2
      <4> QED
        BY <3>2, <3>4, <4>1, <4>3 DEF LinkedForward
    <3> QED
      BY <3>3, <3>4
  <2> QED
    BY <2>1, <2>2, <2>3
<1>8. ASSUME NEW a \in E PROVE LinkedBack(E, g, a)
  <2>1. CASE a = n
    BY <1>1, <1>2, <2>1, Sizes DEF LinkedBack
  <2>2. CASE a \in D /\ a = after
    <3>1. g[a].prev = n /\ g[n].next = a
      BY <1>1, <2>2
    <3> QED
      BY <1>3, <3>1 DEF LinkedBack
  <2>3. CASE a \in D /\ a # after
    <3>1. LinkedBack(D, f, a) /\ g[a].prev = f[a].prev
      BY <1>1, <2>3 DEF Covers
    <3>2. CASE f[a].prev = NULL
      BY <3>1, <3>2 DEF LinkedBack
    <3>3. CASE f[a].prev # NULL
      <4>1. f[a].prev \in D /\ f[f[a].prev].next = a
        BY <3>1, <3>3 DEF LinkedBack
      <4>2. f[a].prev # b
        BY <2>3, <4>1
      <4>3. g[f[a].prev].next = a
        BY <1>1, <4>1, <4>2
      <4> QED
        BY <3>1, <3>3, <4>1, <4>3 DEF LinkedBack
    <3> QED
      BY <3>2, <3>3
  <2> QED
    BY <2>1, <2>2, <2>3
<1>9. ASSUME NEW a \in E, NEW c \in E, a < c PROVE EndOf(g, a) <= c
  <2>1. CASE a = n
    BY <1>2, <1>3, <1>4, <1>9, <2>1
  <2>2. CASE a = b
    BY <1>2, <1>3, <1>4, <1>9, <2>2
  <2>3. CASE a \in D /\ a # b
    <3>1. CASE c = n
      <4>1. a < b
        BY <1>2, <1>3, <1>9, <2>3, <3>1
      <4>2. EndOf(f, a) <= b /\ EndOf(g, a) = EndOf(f, a) /\ EndOf(f, a) \in Int
        BY <1>2, <1>4, <2>3, <4>1
      <4> QED
        BY <1>2, <1>3, <3>1, <4>2
    <3>2. CASE c # n
      BY <1>2, <1>4, <1>9, <2>3, <3>2
    <3> QED
      BY <3>1, <3>2
  <2> QED
    BY <2>1, <2>2, <2>3
<1> HIDE DEF k, E
<1>10. E \subseteq Address /\ 0 \in E /\ g \in [E -> Header]
  BY <1>1, <1>2 DEF E
<1>11. Covers(E, g, k)
  BY <1>6, <1>7, <1>8, <1>9, <1>10 DEF Covers
<1> QED
  BY <1>11 DEF E, k


\* The headers after block b took over block c.
AbsorbAt(f, D, b, c) ==
    [a \in D \ {c} |->
        CASE a = b         -> [f[b] EXCEPT !.size = @ + HEADER + f[c].size, !.next = f[c].next]
          [] a = f[c].next -> [f[a] EXCEPT !.prev = b]
          [] OTHER         -> f[a]]

\* The same, field by field.
HasAbsorbed(f, D, b, c, g) ==
    /\ g \in [D \ {c} -> Header]
    /\ g[b].size = f[b].size + HEADER + f[c].size /\ g[b].next = f[c].next
    /\ \A a \in D \ {c} : /\ g[a].is_free = f[a].is_free
                          /\ a # b => g[a].size = f[a].size /\ g[a].next = f[a].next
                          /\ g[a].prev = IF a = f[c].next THEN b ELSE f[a].prev

\* Two blocks that are linked follow each other in the heap.
LEMMA Linked ==
  ASSUME NEW D, NEW f, NEW e, Covers(D, f, e), NEW b \in D, NEW c \in D, f[b].next = c
  PROVE  /\ b \in Int /\ c \in Int /\ b < c /\ c = EndOf(f, b) /\ f[c].prev = b /\ c # NULL
         /\ EndOf(f, c) \in Int /\ EndOf(f, c) > c /\ EndOf(f, c) <= HEAP_SIZE
         /\ f[c].next # b /\ f[c].next # c
<1>1. /\ b \in Int /\ c \in Int /\ EndOf(f, b) \in Int /\ EndOf(f, b) > b
      /\ EndOf(f, c) \in Int /\ EndOf(f, c) > c /\ EndOf(f, c) <= HEAP_SIZE /\ f[c].next # c
  BY Fields
<1>2. c # NULL /\ b # NULL
  BY <1>1, Sizes
<1>3. LinkedForward(D, f, e, b) /\ LinkedForward(D, f, e, c)
  BY DEF Covers
<1>4. c = EndOf(f, b) /\ f[c].prev = b
  BY <1>2, <1>3 DEF LinkedForward
<1>5. f[c].next # b
  BY <1>1, <1>2, <1>3, <1>4 DEF LinkedForward
<1> QED
  BY <1>1, <1>2, <1>4, <1>5

\* A block that is taken over really is taken over so.
LEMMA AbsorbFields ==
  ASSUME NEW D, NEW f, NEW e, Covers(D, f, e), NEW b \in D, NEW c \in D, f[b].next = c,
         NEW g, g = AbsorbAt(f, D, b, c)
  PROVE  HasAbsorbed(f, D, b, c, g)
<1>1. /\ b \in Int /\ c \in Int /\ b < c /\ c = EndOf(f, b) /\ EndOf(f, c) \in Int
      /\ EndOf(f, c) <= HEAP_SIZE /\ f[c].next # b
  BY Linked
<1>2. /\ b >= 0 /\ f[b].size \in Int /\ f[b].size >= 0 /\ f[c].size \in Int /\ f[c].size >= 0
  BY Fields
<1>3. f \in [D -> Header] /\ f[b] \in Header /\ f[c] \in Header /\ b \in Address
  BY DEF Covers
<1> DEFINE more == f[b].size + HEADER + f[c].size
           both == [f[b] EXCEPT !.size = @ + HEADER + f[c].size, !.next = f[c].next]
           back(a) == [f[a] EXCEPT !.prev = b]
<1>4. more \in 0 .. HEAP_SIZE - HEADER
  BY <1>1, <1>2, Sizes DEF EndOf
<1>5. /\ both \in Header /\ both.size = more /\ both.next = f[c].next /\ both.prev = f[b].prev
      /\ both.is_free = f[b].is_free
  <2> HIDE DEF more
  <2>1. both = [f[b] EXCEPT !.size = more, !.next = f[c].next]
    BY DEF more
  <2>2. f[c].next \in Address \cup {NULL}
    BY <1>3 DEF Header
  <2> QED
    BY <1>3, <1>4, <2>1, <2>2 DEF Header
<1>6. ASSUME NEW a \in D
      PROVE  /\ back(a) \in Header /\ back(a).prev = b /\ back(a).size = f[a].size
             /\ back(a).next = f[a].next /\ back(a).is_free = f[a].is_free
  BY <1>3 DEF Header
<1>7. g = [a \in D \ {c} |-> CASE a = b -> both [] a = f[c].next -> back(a) [] OTHER -> f[a]]
  BY DEF AbsorbAt
<1> HIDE DEF both, back
<1>8. b # c
  BY <1>1
<1>9. g[b] = both /\ DOMAIN g = D \ {c}
  BY <1>1, <1>7, <1>8
<1>10. ASSUME NEW a \in D \ {c}, a # b
       PROVE  g[a] = IF a = f[c].next THEN back(a) ELSE f[a]
  BY <1>7, <1>10
<1>11. ASSUME NEW a \in D \ {c}
       PROVE  /\ g[a] \in Header
              /\ g[a].is_free = f[a].is_free
              /\ a # b => g[a].size = f[a].size /\ g[a].next = f[a].next
              /\ g[a].prev = IF a = f[c].next THEN b ELSE f[a].prev
  <2>1. CASE a = b
    BY <1>1, <1>5, <1>9, <2>1
  <2>2. CASE a # b /\ a = f[c].next
    BY <1>6, <1>10, <2>2
  <2>3. CASE a # b /\ a # f[c].next
    BY <1>3, <1>10, <2>3
  <2> QED
    BY <2>1, <2>2, <2>3
<1>12. g \in [D \ {c} -> Header]
  BY <1>7, <1>9, <1>11
<1> QED
  BY <1>5, <1>9, <1>11, <1>12 DEF HasAbsorbed

\* Taking a block over leaves a list that covers the heap.
LEMMA AbsorbCovers ==
  ASSUME NEW D, NEW f, NEW e, Covers(D, f, e), NEW b \in D, NEW c \in D, f[b].next = c,
         NEW g, HasAbsorbed(f, D, b, c, g)
  PROVE  Covers(D \ {c}, g, IF f[c].next = NULL THEN b ELSE e)
<1> DEFINE k == IF f[c].next = NULL THEN b ELSE e
           E == D \ {c}
           after == f[c].next
<1>1. /\ g \in [E -> Header]
      /\ g[b].size = f[b].size + HEADER + f[c].size /\ g[b].next = after
      /\ \A a \in E : /\ a # b => g[a].size = f[a].size /\ g[a].next = f[a].next
                      /\ g[a].prev = IF a = after THEN b ELSE f[a].prev
  BY DEF HasAbsorbed
<1>2. /\ D \subseteq Address /\ 0 \in D /\ e \in D /\ f[e].next = NULL
      /\ \A a \in D : /\ a \in Int /\ a >= 0 /\ EndOf(f, a) \in Int /\ f[a].size \in Int
                      /\ EndOf(f, a) > a
      /\ \A a, d \in D : a < d => EndOf(f, a) <= d
      /\ \A a \in D : LinkedForward(D, f, e, a) /\ LinkedBack(D, f, a)
  BY Fields DEF Covers
<1>3. /\ b \in Int /\ c \in Int /\ b < c /\ c = EndOf(f, b) /\ f[c].prev = b /\ c # NULL
      /\ EndOf(f, c) \in Int /\ EndOf(f, c) > c /\ after # b /\ after # c
  BY Linked
<1>4. b \in E /\ b # c
  BY <1>3
<1>5. /\ EndOf(g, b) = EndOf(f, c)
      /\ \A a \in E : a # b => EndOf(g, a) = EndOf(f, a)
  BY <1>1, <1>2, <1>3, Sizes DEF EndOf
<1>6. k \in E /\ g[k].next = NULL
  <2>1. CASE after = NULL
    BY <1>1, <1>4, <2>1
  <2>2. CASE after # NULL
    <3>1. e # c /\ e # b
      BY <1>2, <1>3, <2>2
    <3> QED
      BY <1>1, <1>2, <2>2, <3>1
  <2> QED
    BY <2>1, <2>2
<1>7. ASSUME NEW a \in E PROVE LinkedForward(E, g, k, a)
  <2>1. CASE a = b
    <3>1. LinkedForward(D, f, e, c)
      BY <1>2
    <3>2. CASE after = NULL
      BY <1>1, <1>5, <2>1, <3>1, <3>2 DEF LinkedForward
    <3>3. CASE after # NULL
      <4>1. after = EndOf(f, c) /\ after \in D
        BY <3>1, <3>3 DEF LinkedForward
      <4>2. after \in E /\ g[after].prev = b
        BY <1>1, <1>3, <4>1
      <4> QED
        BY <1>1, <1>5, <2>1, <3>3, <4>1, <4>2 DEF LinkedForward
    <3> QED
      BY <3>2, <3>3
  <2>2. CASE a # b
    <3>1. LinkedForward(D, f, e, a) /\ LinkedForward(D, f, e, c)
      BY <1>2
    <3>2. g[a].next = f[a].next /\ EndOf(g, a) = EndOf(f, a)
      BY <1>1, <1>5, <2>2
    <3>3. CASE f[a].next = NULL
      <4>1. a = e /\ EndOf(f, a) = HEAP_SIZE
        BY <3>1, <3>3 DEF LinkedForward
      <4>2. after # NULL
        BY <3>1, <4>1 DEF LinkedForward
      <4> QED
        BY <3>2, <3>3, <4>1, <4>2 DEF LinkedForward
    <3>4. CASE f[a].next # NULL
      <4>1. f[a].next = EndOf(f, a) /\ f[a].next \in D /\ f[f[a].next].prev = a
        BY <3>1, <3>4 DEF LinkedForward
      <4>2. f[a].next # c
        BY <1>3, <2>2, <4>1
      <4>3. f[a].next # after
        <5>1. CASE after = NULL
          BY <3>4, <5>1
        <5>2. CASE after # NULL
          <6>1. f[after].prev = c
            BY <3>1, <5>2 DEF LinkedForward
          <6> QED
            BY <4>1, <6>1
        <5> QED
          BY <5>1, <5>2
      <4>4. g[f[a].next].prev = a
        BY <1>1, <4>1, <4>2, <4>3
      <4> QED
        BY <3>2, <3>4, <4>1, <4>2, <4>4 DEF LinkedForward
    <3> QED
      BY <3>3, <3>4
  <2> QED
    BY <2>1, <2>2
<1>8. ASSUME NEW a \in E PROVE LinkedBack(E, g, a)
  <2>1. CASE a = after
    <3>1. g[a].prev = b /\ g[b].next = a /\ b # NULL
      BY <1>1, <1>3, <2>1, Sizes
    <3> QED
      BY <1>4, <3>1 DEF LinkedBack
  <2>2. CASE a # after
    <3>1. LinkedBack(D, f, a) /\ g[a].prev = f[a].prev
      BY <1>1, <1>2, <2>2
    <3>2. CASE f[a].prev = NULL
      BY <3>1, <3>2 DEF LinkedBack
    <3>3. CASE f[a].prev # NULL
      <4>1. f[a].prev \in D /\ f[f[a].prev].next = a
        BY <3>1, <3>3 DEF LinkedBack
      <4>2. f[a].prev # b /\ f[a].prev # c
        BY <2>2, <4>1
      <4>3. f[a].prev \in E /\ g[f[a].prev].next = a
        BY <1>1, <4>1, <4>2
      <4> QED
        BY <3>1, <3>3, <4>3 DEF LinkedBack
    <3> QED
      BY <3>2, <3>3
  <2> QED
    BY <2>1, <2>2
<1>9. ASSUME NEW a \in E, NEW d \in E, a < d PROVE EndOf(g, a) <= d
  <2>1. CASE a = b
    <3>1. c <= d /\ c # d /\ d \in Int
      BY <1>2, <1>3, <1>9, <2>1
    <3>2. c < d
      BY <1>3, <3>1
    <3>3. EndOf(f, c) <= d
      BY <1>2, <3>2
    <3> QED
      BY <1>5, <2>1, <3>3
  <2>2. CASE a # b
    <3>1. EndOf(f, a) <= d
      BY <1>2, <1>9
    <3> QED
      BY <1>5, <2>2, <3>1
  <2> QED
    BY <2>1, <2>2
<1>10. E \subseteq Address /\ 0 \in E
  <2>1. c # 0
    BY <1>2, <1>3
  <2> QED
    BY <1>2, <2>1
<1> HIDE DEF k, E
<1>11. Covers(E, g, k)
  BY <1>1, <1>6, <1>7, <1>8, <1>9, <1>10 DEF Covers
<1> QED
  BY <1>11 DEF E, k


---------------------------------------------------------------------------
(* The same for the functions of the heap. *)

GoodHeap(h) ==
    h = [block |-> h.block, end |-> h.end] /\ Covers(DOMAIN h.block, h.block, h.end)

InUse(h) == {a \in DOMAIN h.block : ~h.block[a].is_free}

\* Free blocks a with a free one behind them are among those of S.
Apart(h, S) ==
    \A a \in DOMAIN h.block \ S :
        h.block[a].is_free /\ h.block[a].next # NULL => ~h.block[h.block[a].next].is_free

Multiple(n) == \E q \in Int : n = q * ALIGN

\* Every payload is a multiple of the granularity.
Grained(h) == \A a \in DOMAIN h.block : Multiple(h.block[a].size)

\* Sums and differences of multiples are multiples.
LEMMA MultipleSum ==
  ASSUME NEW a, NEW b, Multiple(a), Multiple(b)
  PROVE  Multiple(a + b) /\ Multiple(a - b)
<1>1. PICK q \in Int : a = q * ALIGN
  BY DEF Multiple
<1>2. PICK r \in Int : b = r * ALIGN
  BY DEF Multiple
<1>3. ALIGN \in Int
  BY HeapAssumption
<1>4. a + b = (q + r) * ALIGN /\ q + r \in Int
  BY <1>1, <1>2, <1>3
<1>5. a - b = (q - r) * ALIGN /\ q - r \in Int
  BY <1>1, <1>2, <1>3
<1> QED
  BY <1>4, <1>5 DEF Multiple

\* Cutting off the remainder leaves a multiple.
LEMMA MultipleOfAlign ==
  ASSUME NEW n \in Nat
  PROVE  Multiple(n - (n % ALIGN))
<1>1. ALIGN \in Int /\ ALIGN > 0
  BY HeapAssumption
<1>2. n \div ALIGN \in Int
  BY <1>1
<1>3. n - (n % ALIGN) = (n \div ALIGN) * ALIGN
  BY <1>1, <1>2
<1> QED
  BY <1>2, <1>3 DEF Multiple

\* The sizes of a header and of the heap are multiples.
LEMMA HeaderMultiple ==
  Multiple(HEADER) /\ Multiple(HEAP_SIZE)
<1>1. HEADER \in Nat /\ HEAP_SIZE \in Nat /\ HEADER % ALIGN = 0 /\ HEAP_SIZE % ALIGN = 0
  BY HeapAssumption
<1>2. HEADER - (HEADER % ALIGN) = HEADER /\ HEAP_SIZE - (HEAP_SIZE % ALIGN) = HEAP_SIZE
  BY <1>1
<1>3. Multiple(HEADER - (HEADER % ALIGN)) /\ Multiple(HEAP_SIZE - (HEAP_SIZE % ALIGN))
  BY <1>1, MultipleOfAlign
<1> QED
  BY <1>2, <1>3

\* From h to g the same blocks are in use, and none of them changed its size.
SameUse(h, g) ==
    /\ InUse(g) = InUse(h)
    /\ \A a \in InUse(h) : g.block[a].size = h.block[a].size

\* Cutting a free block of a heap.
LEMMA SplitHeap ==
  ASSUME NEW h, GoodHeap(h), Apart(h, {}), NEW b \in DOMAIN h.block, h.block[b].is_free,
         NEW size \in Nat, h.block[b].size >= size,
         NEW g, g = split_block(h, b, size)
  PROVE  /\ GoodHeap(g) /\ Apart(g, {b}) /\ SameUse(h, g)
         /\ b \in DOMAIN g.block /\ g.block[b].size >= size /\ g.block[b].size <= h.block[b].size
         /\ Multiple(size) /\ Grained(h) => Grained(g)
<1> DEFINE f == h.block
           D == DOMAIN h.block
           e == h.end
           n == b + HEADER + size
<1>1. Covers(D, f, e) /\ f[b].size \in Int /\ \A a \in D : f[a].is_free \in BOOLEAN
  BY Fields DEF GoodHeap
<1>2. CASE f[b].size <= size + HEADER
  <2>1. g = h
    BY <1>2 DEF split_block
  <2> QED
    BY <2>1, <1>1 DEF SameUse, Apart
<1>3. CASE ~(f[b].size <= size + HEADER)
  <2>1. f[b].size > size + HEADER
    BY <1>1, <1>3, Sizes
  <2> DEFINE w == SplitAt(f, D, b, n, size)
             k == IF f[b].next = NULL THEN n ELSE e
  <2>2. g = [block |-> w, end |-> k]
    BY <1>3 DEF split_block, SplitAt
  <2>3. HasSplit(f, D, b, n, size, w)
    BY <1>1, <2>1, SplitFields
  <2>4. Covers(D \cup {n}, w, k)
    BY <1>1, <2>1, <2>3, SplitCovers
  <2> HIDE DEF w, k
  <2>5. g.block = w /\ g.end = k /\ DOMAIN w = D \cup {n} /\ n \notin D
    BY <2>2, <2>3 DEF HasSplit
  <2>6. GoodHeap(g)
    BY <2>2, <2>4, <2>5 DEF GoodHeap
  <2> HIDE DEF f, D, e, n
  <2>7. SameUse(h, g)
    BY <2>3, <2>5 DEF SameUse, InUse, HasSplit, D, f
  <2>8. Apart(g, {b})
    <3>1. SUFFICES ASSUME NEW a \in D \cup {n}, a # b, w[a].is_free, w[a].next # NULL
                   PROVE  ~w[w[a].next].is_free
      BY <2>5 DEF Apart
    <3>2. CASE a = n
      BY <1>1, <2>3, <3>1, <3>2 DEF Apart, HasSplit, D, f, Covers, LinkedForward
    <3>3. CASE a \in D
      BY <1>1, <2>3, <3>1, <3>3 DEF Apart, HasSplit, D, f, Covers, LinkedForward
    <3> QED
      BY <3>1, <3>2, <3>3
  <2>9. b \in DOMAIN g.block /\ g.block[b].size = size
    BY <2>3, <2>5 DEF HasSplit, D
  <2>10. ASSUME Multiple(size), Grained(h) PROVE Grained(g)
    <3>1. Multiple(f[b].size - size - HEADER)
      BY <2>10, HeaderMultiple, MultipleSum DEF Grained, f
    <3>2. ASSUME NEW a \in D \cup {n} PROVE Multiple(w[a].size)
      <4>1. CASE a = n
        BY <2>3, <3>1, <4>1 DEF HasSplit
      <4>2. CASE a = b
        BY <2>3, <2>10, <4>2 DEF HasSplit
      <4>3. CASE a \in D /\ a # b
        BY <2>3, <2>10, <4>3 DEF HasSplit, Grained, f, D
      <4> QED
        BY <4>1, <4>2, <4>3
    <3> QED
      BY <2>5, <3>2 DEF Grained
  <2> QED
    BY <1>1, <2>1, <2>6, <2>7, <2>8, <2>9, <2>10, Sizes DEF f
<1> QED
  BY <1>2, <1>3


\* Setting the is_free of a block changes nothing else.
LEMMA MarkHeap ==
  ASSUME NEW h, GoodHeap(h), NEW b \in DOMAIN h.block, NEW v \in BOOLEAN,
         NEW g, g = [h EXCEPT !.block[b].is_free = v]
  PROVE  /\ GoodHeap(g) /\ DOMAIN g.block = DOMAIN h.block
         /\ g.block[b].is_free = v
         /\ \A a \in DOMAIN h.block :
               /\ g.block[a].size = h.block[a].size /\ g.block[a].next = h.block[a].next
               /\ g.block[a].prev = h.block[a].prev
               /\ a # b => g.block[a].is_free = h.block[a].is_free
<1> DEFINE f == h.block
           D == DOMAIN h.block
           e == h.end
           w == [f EXCEPT ![b] = [@ EXCEPT !.is_free = v]]
<1>1. Covers(D, f, e) /\ h = [block |-> f, end |-> e] /\ f \in [D -> Header]
  BY DEF GoodHeap, Covers
<1>2. g = [block |-> w, end |-> e]
  BY <1>1
<1>3. DOMAIN w = D /\ w = [a \in D |-> w[a]]
  OBVIOUS
<1>4. ASSUME NEW a \in D
      PROVE  /\ w[a] \in Header
             /\ w[a].size = f[a].size /\ w[a].next = f[a].next /\ w[a].prev = f[a].prev
             /\ a # b => w[a].is_free = f[a].is_free
             /\ a = b => w[a].is_free = v
  <2>1. CASE a = b
    <3>1. w[a] = [f[a] EXCEPT !.is_free = v] /\ f[a] \in Header
      BY <1>1, <2>1
    <3> HIDE DEF w
    <3> QED
      BY <2>1, <3>1 DEF Header
  <2>2. CASE a # b
    <3>1. w[a] = f[a]
      BY <2>2
    <3> QED
      BY <1>1, <2>2, <3>1
  <2> QED
    BY <2>1, <2>2
<1> HIDE DEF w
<1>5. g.block = w /\ g.end = e /\ w \in [D -> Header]
  BY <1>2, <1>3, <1>4
<1> HIDE DEF f, D, e
<1>6. \A a \in D : EndOf(w, a) = EndOf(f, a)
  BY <1>4 DEF EndOf
<1>7. ASSUME NEW a \in D PROVE LinkedForward(D, w, e, a) /\ LinkedBack(D, w, a)
  BY <1>1, <1>4, <1>6 DEF LinkedForward, LinkedBack, Covers
<1>8. Covers(D, w, e)
  BY <1>1, <1>4, <1>5, <1>6, <1>7 DEF Covers
<1>9. b \in D
  BY DEF D
<1> QED
  BY <1>2, <1>3, <1>4, <1>5, <1>8, <1>9 DEF GoodHeap, D, f

\* A free block takes over the free block behind it.
LEMMA AbsorbHeap ==
  ASSUME NEW h, GoodHeap(h), NEW b \in DOMAIN h.block, NEW c \in DOMAIN h.block,
         h.block[b].next = c, h.block[b].is_free, h.block[c].is_free,
         NEW g, g = Absorb(h, b, c)
  PROVE  /\ GoodHeap(g) /\ SameUse(h, g) /\ DOMAIN g.block = DOMAIN h.block \ {c}
         /\ b \in DOMAIN g.block /\ c # NULL /\ h.block[c].next # b
         /\ HasAbsorbed(h.block, DOMAIN h.block, b, c, g.block)
         /\ Grained(h) => Grained(g)
<1> DEFINE f == h.block
           D == DOMAIN h.block
           e == h.end
           w == AbsorbAt(f, D, b, c)
           k == IF f[c].next = NULL THEN b ELSE e
<1>1. Covers(D, f, e)
  BY DEF GoodHeap
<1>2. g = [block |-> w, end |-> k]
  BY DEF Absorb, AbsorbAt
<1>3. HasAbsorbed(f, D, b, c, w)
  BY <1>1, AbsorbFields
<1>4. Covers(D \ {c}, w, k)
  BY <1>1, <1>3, AbsorbCovers
<1>5. b < c /\ b \in Int /\ c \in Int /\ c # NULL /\ f[c].next # b
  BY <1>1, Linked
<1> HIDE DEF w, k
<1>6. g.block = w /\ g.end = k /\ DOMAIN w = D \ {c} /\ b # c
  BY <1>2, <1>3, <1>5 DEF HasAbsorbed
<1>7. GoodHeap(g)
  BY <1>2, <1>4, <1>6 DEF GoodHeap
<1>8. SameUse(h, g)
  BY <1>3, <1>6 DEF SameUse, InUse, HasAbsorbed
<1>9. ASSUME Grained(h) PROVE Grained(g)
  <2>1. Multiple(f[b].size) /\ Multiple(f[c].size)
    BY <1>9 DEF Grained
  <2>2. Multiple(f[b].size + HEADER + f[c].size)
    BY <2>1, HeaderMultiple, MultipleSum
  <2>3. ASSUME NEW a \in D \ {c} PROVE Multiple(w[a].size)
    <3>1. CASE a = b
      BY <1>3, <2>2, <3>1 DEF HasAbsorbed
    <3>2. CASE a # b
      BY <1>3, <1>9, <3>2 DEF HasAbsorbed, Grained
    <3> QED
      BY <3>1, <3>2
  <2> QED
    BY <1>6, <2>3 DEF Grained
<1> QED
  BY <1>3, <1>5, <1>6, <1>7, <1>8, <1>9

\* merge_free_blocks, first half: nothing free is left behind b.
LEMMA MergeNextHeap ==
  ASSUME NEW h, GoodHeap(h), NEW b \in DOMAIN h.block, h.block[b].is_free,
         \A a \in DOMAIN h.block \ {b} : h.block[a].is_free /\ h.block[a].next # NULL
            => h.block[a].next = b \/ ~h.block[h.block[a].next].is_free,
         NEW g, g = MergeNext(h, b)
  PROVE  /\ GoodHeap(g) /\ SameUse(h, g)
         /\ Grained(h) => Grained(g)
         /\ b \in DOMAIN g.block /\ g.block[b].is_free
         /\ \A a \in DOMAIN g.block : g.block[a].is_free /\ g.block[a].next # NULL
               => g.block[a].next = b \/ ~g.block[g.block[a].next].is_free
<1> DEFINE c == h.block[b].next
           D == DOMAIN h.block
           f == h.block
<1>1. Covers(D, f, h.end)
  BY DEF GoodHeap
<1>2. CASE c # NULL /\ h.block[c].is_free
  <2>1. c \in D /\ c # b
    BY <1>1, <1>2, Fields DEF Covers, LinkedForward
  <2>2. g = Absorb(h, b, c)
    BY <1>2 DEF MergeNext
  <2>3. /\ GoodHeap(g) /\ SameUse(h, g) /\ DOMAIN g.block = D \ {c}
        /\ b \in DOMAIN g.block /\ f[c].next # b
        /\ Grained(h) => Grained(g)
        /\ HasAbsorbed(f, D, b, c, g.block)
    BY <1>2, <2>1, <2>2, AbsorbHeap
  <2>4. Covers(D \ {c}, g.block, g.end)
    BY <2>3 DEF GoodHeap
  <2>5. ASSUME NEW a \in D \ {c}, g.block[a].is_free, g.block[a].next # NULL,
               g.block[a].next # b
        PROVE  ~g.block[g.block[a].next].is_free
    <3>1. g.block[a].next \in D \ {c}
      BY <2>4, <2>5 DEF Covers, LinkedForward
    <3>2. CASE a = b
      <4>1. g.block[a].next = f[c].next
        BY <2>3, <3>2 DEF HasAbsorbed
      <4>2. ~f[f[c].next].is_free
        BY <1>2, <2>1, <2>3, <2>5, <4>1
      <4> QED
        BY <2>3, <3>1, <4>1, <4>2 DEF HasAbsorbed
    <3>3. CASE a # b
      <4>1. g.block[a].next = f[a].next /\ f[a].is_free
        BY <2>3, <2>5, <3>3 DEF HasAbsorbed
      <4>2. ~f[f[a].next].is_free
        BY <2>5, <3>3, <4>1
      <4> QED
        BY <2>3, <3>1, <4>1, <4>2 DEF HasAbsorbed
    <3> QED
      BY <3>2, <3>3
  <2>6. g.block[b].is_free
    BY <2>3 DEF HasAbsorbed
  <2> QED
    BY <2>3, <2>5, <2>6
<1>3. CASE ~(c # NULL /\ h.block[c].is_free)
  <2>1. g = h
    BY <1>3 DEF MergeNext
  <2> QED
    BY <1>3, <2>1 DEF SameUse
<1> QED
  BY <1>2, <1>3

\* merge_free_blocks, second half: nothing free is left before it.
LEMMA MergePreviousHeap ==
  ASSUME NEW h, GoodHeap(h), NEW b \in DOMAIN h.block, h.block[b].is_free,
         \A a \in DOMAIN h.block : h.block[a].is_free /\ h.block[a].next # NULL
            => h.block[a].next = b \/ ~h.block[h.block[a].next].is_free,
         NEW g, g = MergePrevious(h, b)
  PROVE  /\ GoodHeap(g) /\ SameUse(h, g) /\ Apart(g, {})
         /\ Grained(h) => Grained(g)
<1> DEFINE p == h.block[b].prev
           D == DOMAIN h.block
           f == h.block
<1>1. Covers(D, f, h.end)
  BY DEF GoodHeap
<1>2. CASE p # NULL /\ h.block[p].is_free
  <2>1. p \in D /\ f[p].next = b
    BY <1>1, <1>2 DEF Covers, LinkedBack
  <2>2. g = Absorb(h, p, b)
    BY <1>2 DEF MergePrevious
  <2>3. /\ GoodHeap(g) /\ SameUse(h, g) /\ DOMAIN g.block = D \ {b}
        /\ HasAbsorbed(f, D, p, b, g.block)
        /\ Grained(h) => Grained(g)
    BY <1>2, <2>1, <2>2, AbsorbHeap
  <2>4. Covers(D \ {b}, g.block, g.end)
    BY <2>3 DEF GoodHeap
  <2>5. ASSUME NEW a \in D \ {b}, g.block[a].is_free, g.block[a].next # NULL
        PROVE  ~g.block[g.block[a].next].is_free
    <3>1. g.block[a].next \in D \ {b}
      BY <2>4, <2>5 DEF Covers, LinkedForward
    <3>2. CASE a = p
      <4>1. g.block[a].next = f[b].next /\ f[b].next # b
        BY <2>3, <3>1, <3>2 DEF HasAbsorbed
      <4>2. ~f[f[b].next].is_free
        BY <2>5, <4>1
      <4> QED
        BY <2>3, <3>1, <4>1, <4>2 DEF HasAbsorbed
    <3>3. CASE a # p
      <4>1. g.block[a].next = f[a].next /\ f[a].is_free
        BY <2>3, <2>5, <3>3 DEF HasAbsorbed
      <4>2. ~f[f[a].next].is_free
        BY <2>5, <3>1, <4>1
      <4> QED
        BY <2>3, <3>1, <4>1, <4>2 DEF HasAbsorbed
    <3> QED
      BY <3>2, <3>3
  <2> QED
    BY <2>3, <2>5 DEF Apart
<1>3. CASE ~(p # NULL /\ h.block[p].is_free)
  <2>1. g = h
    BY <1>3 DEF MergePrevious
  <2>2. ASSUME NEW a \in D, f[a].next # NULL, f[a].next = b PROVE p = a
    BY <1>1, <2>2 DEF Covers, LinkedForward
  <2>3. ASSUME NEW a \in D, f[a].is_free, f[a].next # NULL PROVE ~f[f[a].next].is_free
    <3>1. p # NULL => ~f[p].is_free
      BY <1>3
    <3>2. a # NULL
      BY <1>1, Fields, Sizes
    <3>3. f[a].next # b
      BY <2>2, <2>3, <3>1, <3>2
    <3> QED
      BY <2>3, <3>3
  <2> QED
    BY <2>1, <2>3 DEF SameUse, Apart
<1> QED
  BY <1>2, <1>3


\* Giving out a free block that is large enough.
LEMMA GiveOutHeap ==
  ASSUME GoodHeap(heap), Apart(heap, {}), NEW size \in Nat,
         NEW b \in DOMAIN block, Suits(b, size),
         NEW g, g = GiveOut(b, size)
  PROVE  /\ GoodHeap(g) /\ Apart(g, {}) /\ b \notin InUse(heap)
         /\ InUse(g) = InUse(heap) \cup {b}
         /\ \A a \in InUse(heap) : g.block[a].size = block[a].size
         /\ g.block[b].size >= size /\ g.block[b].size <= block[b].size
         /\ Multiple(size) /\ Grained(heap) => Grained(g)
<1> DEFINE s == split_block(heap, b, size)
<1>1. heap.block = block /\ heap.end = heap_end
  BY DEF heap
<1>2. block[b].is_free /\ block[b].size >= size
  BY DEF Suits
<1>3. /\ GoodHeap(s) /\ Apart(s, {b}) /\ SameUse(heap, s)
      /\ b \in DOMAIN s.block /\ s.block[b].size >= size /\ s.block[b].size <= block[b].size
      /\ Multiple(size) /\ Grained(heap) => Grained(s)
  BY <1>1, <1>2, SplitHeap
<1>4. g = [s EXCEPT !.block[b].is_free = FALSE]
  BY DEF GiveOut
<1> HIDE DEF s
<1>5. /\ GoodHeap(g) /\ DOMAIN g.block = DOMAIN s.block
      /\ g.block[b].is_free = FALSE
      /\ \A a \in DOMAIN s.block :
            /\ g.block[a].size = s.block[a].size /\ g.block[a].next = s.block[a].next
            /\ a # b => g.block[a].is_free = s.block[a].is_free
  <2> DEFINE v == FALSE
  <2>1. v \in BOOLEAN /\ g = [s EXCEPT !.block[b].is_free = v]
    BY <1>4
  <2> HIDE DEF v
  <2>2. /\ GoodHeap(g) /\ DOMAIN g.block = DOMAIN s.block
        /\ g.block[b].is_free = v
        /\ \A a \in DOMAIN s.block :
              /\ g.block[a].size = s.block[a].size /\ g.block[a].next = s.block[a].next
              /\ a # b => g.block[a].is_free = s.block[a].is_free
    BY <1>3, <2>1, MarkHeap
  <2> QED
    BY <2>2 DEF v
<1>6. \A a \in DOMAIN s.block : s.block[a].next = NULL \/ s.block[a].next \in DOMAIN s.block
  BY <1>3 DEF GoodHeap, Covers, LinkedForward
<1>7. Apart(g, {})
  BY <1>3, <1>5, <1>6 DEF Apart
<1>8. InUse(g) = InUse(s) \cup {b} /\ InUse(s) = InUse(heap) /\ b \notin InUse(heap)
  BY <1>1, <1>2, <1>3, <1>5 DEF InUse, SameUse
<1>9. ASSUME NEW a \in InUse(heap) PROVE g.block[a].size = block[a].size
  BY <1>1, <1>3, <1>5, <1>8 DEF InUse, SameUse
<1>10. Grained(s) => Grained(g)
  BY <1>5 DEF Grained
<1> QED
  BY <1>3, <1>5, <1>7, <1>8, <1>9, <1>10

\* Giving a block back.
LEMMA GiveBackHeap ==
  ASSUME NEW h, GoodHeap(h), Apart(h, {}), NEW p, p - HEADER \in InUse(h),
         NEW g, g = GiveBack(h, p)
  PROVE  /\ GoodHeap(g) /\ Apart(g, {})
         /\ InUse(g) = InUse(h) \ {p - HEADER}
         /\ \A a \in InUse(g) : g.block[a].size = h.block[a].size
         /\ Grained(h) => Grained(g)
<1> DEFINE b == p - HEADER
           m == [h EXCEPT !.block[b].is_free = TRUE]
           n == MergeNext(m, b)
<1>1. b \in DOMAIN h.block /\ ~h.block[b].is_free
  BY DEF InUse
<1>2. /\ GoodHeap(m) /\ DOMAIN m.block = DOMAIN h.block
      /\ m.block[b].is_free = TRUE
      /\ \A a \in DOMAIN h.block :
            /\ m.block[a].size = h.block[a].size /\ m.block[a].next = h.block[a].next
            /\ a # b => m.block[a].is_free = h.block[a].is_free
  <2> DEFINE v == TRUE
  <2>1. v \in BOOLEAN /\ m = [h EXCEPT !.block[b].is_free = v]
    OBVIOUS
  <2> HIDE DEF v, m, b
  <2>2. /\ GoodHeap(m) /\ DOMAIN m.block = DOMAIN h.block
        /\ m.block[b].is_free = v
        /\ \A a \in DOMAIN h.block :
              /\ m.block[a].size = h.block[a].size /\ m.block[a].next = h.block[a].next
              /\ a # b => m.block[a].is_free = h.block[a].is_free
    BY <1>1, <2>1, MarkHeap
  <2> QED
    BY <2>2 DEF v
<1>3. g = MergePrevious(n, b)
  BY DEF GiveBack, merge_free_blocks
<1> HIDE DEF b, m
<1>4. \A a \in DOMAIN h.block : h.block[a].next = NULL \/ h.block[a].next \in DOMAIN h.block
  BY DEF GoodHeap, Covers, LinkedForward
<1>5. \A a \in DOMAIN m.block \ {b} : m.block[a].is_free /\ m.block[a].next # NULL
         => m.block[a].next = b \/ ~m.block[m.block[a].next].is_free
  BY <1>2, <1>4 DEF Apart
<1>6. /\ GoodHeap(n) /\ SameUse(m, n)
      /\ Grained(m) => Grained(n)
      /\ b \in DOMAIN n.block /\ n.block[b].is_free
      /\ \A a \in DOMAIN n.block : n.block[a].is_free /\ n.block[a].next # NULL
            => n.block[a].next = b \/ ~n.block[n.block[a].next].is_free
  BY <1>1, <1>2, <1>5, MergeNextHeap
<1> HIDE DEF n
<1>7. /\ GoodHeap(g) /\ SameUse(n, g) /\ Apart(g, {})
      /\ Grained(n) => Grained(g)
  BY <1>3, <1>6, MergePreviousHeap
<1>8. InUse(m) = InUse(h) \ {b} /\ \A a \in InUse(m) : m.block[a].size = h.block[a].size
  BY <1>2 DEF InUse
<1>9. InUse(g) = InUse(h) \ {b} /\ \A a \in InUse(g) : g.block[a].size = h.block[a].size
  BY <1>6, <1>7, <1>8 DEF SameUse
<1>10. Grained(h) => Grained(m)
  BY <1>2 DEF Grained
<1> QED
  BY <1>6, <1>7, <1>9, <1>10 DEF b

---------------------------------------------------------------------------
(* The invariant: the list covers the heap in blocks of whole grains, is    *)
(* merged, and its used blocks are those whose pointers are held.           *)
HeapInv ==
    /\ GoodHeap(heap)
    /\ Apart(heap, {})
    /\ Grained(heap)
    /\ HeldIsUsed
    /\ last.got \in Address \cup {NULL}

\* A rounded size is a multiple of the granularity.
LEMMA AlignedNat ==
  ASSUME NEW n \in Nat
  PROVE  Aligned(n) \in Nat /\ Multiple(Aligned(n))
<1>1. ALIGN \in Nat /\ ALIGN > 0 /\ WORD \in Nat /\ WORD > 0
  BY HeapAssumption
<1> DEFINE m == (n + ALIGN - 1) % WORD
<1>2. m \in Nat
  BY <1>1
<1> HIDE DEF m
<1>3. m % ALIGN \in Int /\ m % ALIGN <= m
  BY <1>1, <1>2
<1>4. m - (m % ALIGN) \in Nat
  BY <1>2, <1>3
<1>5. Multiple(m - (m % ALIGN))
  BY <1>2, MultipleOfAlign
<1> QED
  BY <1>4, <1>5 DEF Aligned, m

\* What is held, block by block.
LEMMA Holders ==
  ASSUME HeapInv
  PROVE  /\ DOMAIN held = {b + HEADER : b \in InUse(heap)}
         /\ \A p \in DOMAIN held : p \in Int /\ p - HEADER \in InUse(heap)
         /\ DOMAIN held \subseteq Address
<1>1. heap.block = block /\ Covers(DOMAIN block, block, heap_end)
  BY DEF HeapInv, GoodHeap, heap
<1>2. DOMAIN held = {b + HEADER : b \in InUse(heap)}
  BY <1>1 DEF HeapInv, HeldIsUsed, InUse
<1>3. ASSUME NEW b \in InUse(heap)
      PROVE  b + HEADER \in Int /\ (b + HEADER) - HEADER = b /\ b + HEADER \in Address
  <2>1. b \in DOMAIN block
    BY <1>1 DEF InUse
  <2>2. b \in Int /\ b >= 0 /\ b + HEADER <= HEAP_SIZE
    BY <1>1, <2>1, Fields
  <2> QED
    BY <2>2, Sizes DEF Address
<1> QED
  BY <1>2, <1>3


\* The heap of the next state is the one the call computed.
LEMMA NextHeap ==
  ASSUME NEW g, GoodHeap(g), BecomesHeap(g)
  PROVE  heap' = g /\ block' = g.block /\ heap_end' = g.end
BY DEF BecomesHeap, GoodHeap, heap

\* Held pointers follow the blocks in use.
LEMMA HeldFollows ==
  ASSUME NEW g, heap' = g, block' = g.block,
         DOMAIN held' = {b + HEADER : b \in InUse(g)}
  PROVE  HeldIsUsed'
BY DEF HeldIsUsed, InUse

\* Numbers asked for.
LEMMA Asked ==
  /\ \A n \in Requests : n \in Nat
  /\ \A n, m \in Requests : n * m \in Nat /\ (n * m) % WORD \in Nat
<1>1. WORD \in Nat /\ WORD > 0 /\ Requests \subseteq 0 .. WORD - 1
  BY HeapAssumption
<1>2. \A n \in Requests : n \in Nat
  BY <1>1
<1>3. \A n, m \in Nat : n * m \in Nat
  OBVIOUS
<1>4. \A k \in Nat : k % WORD \in Nat
  BY <1>1
<1> QED
  BY <1>2, <1>3, <1>4

\* An allocation keeps the invariant.
LEMMA AllocatesKeeps ==
  ASSUME HeapInv, NEW wanted, NEW size \in Nat, Allocates(wanted, size)
  PROVE  HeapInv'
<1>1. PICK b \in DOMAIN block :
         /\ find_free_block(b, Aligned(size))
         /\ BecomesHeap(GiveOut(b, Aligned(size)))
         /\ held' = HoldAlso(held, b + HEADER, wanted)
         /\ last' = [asked |-> wanted, got |-> b + HEADER]
  BY DEF Allocates
<1> DEFINE g == GiveOut(b, Aligned(size))
<1>2. /\ Aligned(size) \in Nat /\ Multiple(Aligned(size)) /\ Suits(b, Aligned(size))
      /\ GoodHeap(heap) /\ Apart(heap, {}) /\ Grained(heap)
  BY <1>1, AlignedNat DEF find_free_block, HeapInv
<1>3. GoodHeap(g) /\ Apart(g, {}) /\ Grained(g) /\ InUse(g) = InUse(heap) \cup {b}
  BY <1>2, GiveOutHeap
<1>4. BecomesHeap(g)
  BY <1>1
<1> HIDE DEF g
<1>5. heap' = g /\ block' = g.block
  BY <1>3, <1>4, NextHeap
<1>6. DOMAIN held' = DOMAIN held \cup {b + HEADER} /\ last'.got = b + HEADER
  BY <1>1 DEF HoldAlso
<1>7. DOMAIN held = {a + HEADER : a \in InUse(heap)}
  BY Holders
<1>8. HeldIsUsed'
  <2>1. DOMAIN held' = {a + HEADER : a \in InUse(g)}
    BY <1>3, <1>6, <1>7
  <2> QED
    BY <1>5, <2>1, HeldFollows
<1>9. b + HEADER \in Address
  <2>1. Covers(DOMAIN block, block, heap_end)
    BY <1>2 DEF GoodHeap, heap
  <2>2. b \in Int /\ b >= 0 /\ b + HEADER <= HEAP_SIZE
    BY <2>1, Fields
  <2> QED
    BY <2>2, Sizes DEF Address
<1>10. GoodHeap(heap') /\ Apart(heap', {}) /\ Grained(heap')
  BY <1>3, <1>5
<1> QED
  BY <1>6, <1>8, <1>9, <1>10 DEF HeapInv

\* So does a free.
LEMMA FreeKeeps ==
  ASSUME HeapInv, NEW p \in DOMAIN held, kfree(p)
  PROVE  HeapInv'
<1> DEFINE g == GiveBack(heap, p)
<1>1. p \in Int /\ p - HEADER \in InUse(heap) /\ DOMAIN held = {a + HEADER : a \in InUse(heap)}
  BY Holders
<1>2. GoodHeap(heap) /\ Apart(heap, {}) /\ Grained(heap)
  BY DEF HeapInv
<1>3. GoodHeap(g) /\ Apart(g, {}) /\ Grained(g) /\ InUse(g) = InUse(heap) \ {p - HEADER}
  BY <1>1, <1>2, GiveBackHeap
<1>4. BecomesHeap(g) /\ held' = HoldNoMore(p) /\ last' = Nothing
  BY DEF kfree
<1> HIDE DEF g
<1>5. heap' = g /\ block' = g.block
  BY <1>3, <1>4, NextHeap
<1>6. DOMAIN held' = DOMAIN held \ {p} /\ last'.got = NULL
  BY <1>4 DEF HoldNoMore, Nothing
<1>7. DOMAIN held' = {a + HEADER : a \in InUse(g)}
  <2>1. \A a \in InUse(heap) : a \in Int
    <3>1. Covers(DOMAIN block, block, heap_end) /\ InUse(heap) \subseteq DOMAIN block
      BY <1>2 DEF GoodHeap, heap, InUse
    <3> QED
      BY <3>1, Fields
  <2>2. \A a \in InUse(heap) : a + HEADER = p <=> a = p - HEADER
    BY <1>1, <2>1, Sizes
  <2> QED
    BY <1>1, <1>3, <1>6, <2>2
<1>8. HeldIsUsed'
  BY <1>5, <1>7, HeldFollows
<1>9. GoodHeap(heap') /\ Apart(heap', {}) /\ Grained(heap')
  BY <1>3, <1>5
<1> QED
  BY <1>6, <1>8, <1>9 DEF HeapInv

\* And a reallocation that moves.
LEMMA MoveKeeps ==
  ASSUME HeapInv, NEW p \in DOMAIN held, NEW n \in Nat, ReallocMove(p, n)
  PROVE  HeapInv'
<1>1. PICK b \in DOMAIN block :
         /\ find_free_block(b, Aligned(n))
         /\ BecomesHeap(GiveBack(GiveOut(b, Aligned(n)), p))
         /\ held' = HoldAlso(HoldNoMore(p), b + HEADER, n)
         /\ last' = [asked |-> n, got |-> b + HEADER]
  BY DEF ReallocMove
<1> DEFINE h == GiveOut(b, Aligned(n))
           g == GiveBack(h, p)
<1>2. /\ Aligned(n) \in Nat /\ Multiple(Aligned(n)) /\ Suits(b, Aligned(n))
      /\ GoodHeap(heap) /\ Apart(heap, {}) /\ Grained(heap)
  BY <1>1, AlignedNat DEF find_free_block, HeapInv
<1>3. p \in Int /\ p - HEADER \in InUse(heap) /\ DOMAIN held = {a + HEADER : a \in InUse(heap)}
  BY Holders
<1>4. /\ GoodHeap(h) /\ Apart(h, {}) /\ Grained(h)
      /\ InUse(h) = InUse(heap) \cup {b} /\ b \notin InUse(heap)
  BY <1>2, GiveOutHeap
<1>5. BecomesHeap(g)
  BY <1>1
<1> HIDE DEF h
<1>6. GoodHeap(g) /\ Apart(g, {}) /\ Grained(g) /\ InUse(g) = InUse(h) \ {p - HEADER}
  BY <1>3, <1>4, GiveBackHeap
<1> HIDE DEF g
<1>7. heap' = g /\ block' = g.block
  BY <1>5, <1>6, NextHeap
<1>8. DOMAIN held' = (DOMAIN held \ {p}) \cup {b + HEADER} /\ last'.got = b + HEADER
  BY <1>1 DEF HoldAlso, HoldNoMore
<1>9. DOMAIN held' = {a + HEADER : a \in InUse(g)} /\ b + HEADER \in Address
  <2>1. Covers(DOMAIN block, block, heap_end) /\ InUse(heap) \subseteq DOMAIN block
    BY <1>2 DEF GoodHeap, heap, InUse
  <2>2. b \in Int /\ b >= 0 /\ b + HEADER <= HEAP_SIZE /\ \A a \in InUse(heap) : a \in Int
    BY <2>1, Fields
  <2>3. \A a \in InUse(heap) : a + HEADER = p <=> a = p - HEADER
    BY <1>3, <2>2, Sizes
  <2>4. b # p - HEADER /\ b + HEADER # p
    BY <1>3, <1>4, <2>2, Sizes
  <2>5. InUse(g) = (InUse(heap) \ {p - HEADER}) \cup {b}
    BY <1>4, <1>6, <2>4
  <2>6. b + HEADER \in Address
    BY <2>2, Sizes DEF Address
  <2> QED
    BY <1>3, <1>8, <2>3, <2>4, <2>5, <2>6
<1>10. HeldIsUsed'
  BY <1>7, <1>9, HeldFollows
<1>11. GoodHeap(heap') /\ Apart(heap', {}) /\ Grained(heap')
  BY <1>6, <1>7
<1> QED
  BY <1>8, <1>9, <1>10, <1>11 DEF HeapInv

\* memory_init makes a list of one block.
LEMMA InitKeeps ==
  ASSUME Init PROVE HeapInv
<1> DEFINE one == [size |-> HEAP_SIZE - HEADER, is_free |-> TRUE, next |-> NULL, prev |-> NULL]
<1>1. block = [a \in {0} |-> one] /\ heap_end = 0 /\ DOMAIN held = {} /\ last.got = NULL
  BY DEF Init, memory_init, Nothing
<1>2. one \in Header
  BY Sizes DEF Header
<1>3. one.size = HEAP_SIZE - HEADER /\ one.is_free = TRUE /\ one.next = NULL /\ one.prev = NULL
  OBVIOUS
<1> HIDE DEF one
<1>4. DOMAIN block = {0} /\ block \in [{0} -> Header] /\ block[0] = one
  BY <1>1, <1>2
<1>5. EndOf(block, 0) = HEAP_SIZE
  BY <1>3, <1>4, Sizes DEF EndOf
<1>6. 0 \in Address
  BY Sizes DEF Address
<1>7. Covers({0}, block, 0)
  BY <1>3, <1>4, <1>5, <1>6 DEF Covers, LinkedForward, LinkedBack
<1>8. GoodHeap(heap) /\ Apart(heap, {}) /\ InUse(heap) = {}
  BY <1>1, <1>3, <1>4, <1>7 DEF GoodHeap, heap, Apart, InUse
<1>9. HeldIsUsed
  BY <1>1, <1>3, <1>4 DEF HeldIsUsed
<1>10. Grained(heap)
  BY <1>3, <1>4, HeaderMultiple, MultipleSum DEF Grained, heap
<1> QED
  BY <1>1, <1>8, <1>9, <1>10 DEF HeapInv

\* Every call keeps the invariant.
LEMMA NextKeeps ==
  ASSUME HeapInv, [Next]_vars
  PROVE  HeapInv'
<1>1. ASSUME UNCHANGED <<block, heap_end>>, DOMAIN held' = DOMAIN held,
             last'.got \in Address \cup {NULL}
      PROVE  HeapInv'
  BY <1>1 DEF HeapInv, heap, GoodHeap, Apart, Grained, HeldIsUsed
<1>2. ASSUME NEW w, NEW n, Refuses(w, n) PROVE HeapInv'
  BY <1>1, <1>2 DEF Refuses
<1>3. CASE \E n \in Requests : kmalloc(n)
  BY <1>2, <1>3, Asked, AllocatesKeeps DEF kmalloc
<1>4. CASE \E p \in DOMAIN held : kfree(p)
  BY <1>4, FreeKeeps
<1>5. CASE \E p \in DOMAIN held, n \in Requests : krealloc(p, n)
  <2>1. PICK p \in DOMAIN held, n \in Requests : krealloc(p, n)
    BY <1>5
  <2>2. CASE ReallocInPlace(p, n)
    <3>1. p \in Address
      BY Holders
    <3> QED
      BY <1>1, <2>2, <3>1 DEF ReallocInPlace
  <2>3. CASE ReallocMove(p, n)
    BY <2>3, Asked, MoveKeeps
  <2>4. CASE ReallocFail(p, n)
    BY <1>2, <2>4 DEF ReallocFail
  <2> QED
    BY <2>1, <2>2, <2>3, <2>4 DEF krealloc
<1>6. CASE \E num, size \in Requests : kcalloc(num, size)
  BY <1>2, <1>6, Asked, AllocatesKeeps DEF kcalloc
<1>7. CASE UNCHANGED vars
  BY <1>1, <1>7 DEF vars, HeapInv
<1> QED
  BY <1>3, <1>4, <1>5, <1>6, <1>7 DEF Next

\* The invariant holds in every reachable state.
LEMMA HeapInvariant == Spec => []HeapInv
<1>1. Init => HeapInv
  BY InitKeeps
<1>2. HeapInv /\ [Next]_vars => HeapInv'
  BY NextKeeps
<1> QED
  BY <1>1, <1>2, PTL DEF Spec

(* Headers are headers at addresses of the heap, and pointers given out     *)
(* point into it, whatever the order of kmalloc, kfree, krealloc and        *)
(* kcalloc.                                                                 *)
THEOREM TypeCorrect == Spec => []TypeOK
<1>1. HeapInv => TypeOK
  <2>1. SUFFICES ASSUME HeapInv PROVE TypeOK
    OBVIOUS
  <2>2. Covers(DOMAIN block, block, heap_end)
    BY <2>1 DEF HeapInv, GoodHeap, heap
  <2>3. DOMAIN block \subseteq Address /\ heap_end \in Address /\ \A b \in DOMAIN block : block[b] \in Header
    BY <2>2 DEF Covers
  <2>4. DOMAIN held \subseteq Address /\ last.got \in Address \cup {NULL}
    BY <2>1, Holders DEF HeapInv
  <2> QED
    BY <2>3, <2>4 DEF TypeOK, Header
<1> QED
  BY <1>1, HeapInvariant, PTL

(* split_block and merge_free_blocks keep one list that covers the heap     *)
(* without gap or overlap, linked in both directions, with heap_end at its  *)
(* last block.                                                              *)
THEOREM ListAlwaysCovers == Spec => []ListCoversHeap
<1>1. HeapInv => ListCoversHeap
  <2>1. SUFFICES ASSUME HeapInv PROVE ListCoversHeap
    OBVIOUS
  <2>2. Covers(DOMAIN block, block, heap_end)
    BY <2>1 DEF HeapInv, GoodHeap, heap
  <2> QED
    BY <2>2 DEF Covers, LinkedForward, LinkedBack, EndOf, ListCoversHeap, End
<1> QED
  BY <1>1, HeapInvariant, PTL

\* merge_free_blocks never leaves two free blocks side by side.
THEOREM FreeBlocksAreMerged == Spec => []NoFreeNeighbours
<1>1. HeapInv => NoFreeNeighbours
  BY DEF HeapInv, Apart, heap, NoFreeNeighbours
<1> QED
  BY <1>1, HeapInvariant, PTL

\* A block is marked used exactly while a caller holds its pointer.
THEOREM UsedBlocksAreHeld == Spec => []HeldIsUsed
<1>1. HeapInv => HeldIsUsed
  BY DEF HeapInv
<1> QED
  BY <1>1, HeapInvariant, PTL

(* Freeing everything, in whatever order, gives back the heap of            *)
(* memory_init: all blocks are free, no two are neighbours, so the first is *)
(* the only one.                                                            *)
THEOREM NothingLeaks == Spec => []AllFreedIsInitial
<1>1. HeapInv => AllFreedIsInitial
  <2>1. SUFFICES ASSUME HeapInv, DOMAIN held = {} PROVE heap = memory_init
    BY DEF AllFreedIsInitial
  <2>2. Covers(DOMAIN block, block, heap_end) /\ Apart(heap, {}) /\ heap.block = block
    BY <2>1 DEF HeapInv, GoodHeap, heap
  <2>3. InUse(heap) = {}
    BY <2>1, Holders
  <2>4. \A b \in DOMAIN block : block[b].is_free
    BY <2>2, <2>3 DEF InUse
  <2>5. \A b \in DOMAIN block : block[b].next = NULL
    BY <2>2, <2>4 DEF Apart, Covers, LinkedForward
  <2>6. DOMAIN block = {0} /\ heap_end = 0
    BY <2>2, <2>5 DEF Covers, LinkedForward
  <2>7. block \in [{0} -> Header] /\ EndOf(block, 0) = HEAP_SIZE
    BY <2>2, <2>5, <2>6 DEF Covers, LinkedForward
  <2>8. block[0].size = HEAP_SIZE - HEADER /\ block[0].next = NULL
    BY <2>2, <2>5, <2>6, <2>7, Fields, Sizes DEF EndOf
  <2>9. block[0].prev = NULL
    BY <2>2, <2>5, <2>6, Sizes, Fields DEF Covers, LinkedBack
  <2>10. block[0].is_free = TRUE
    <3>1. block[0].is_free \in BOOLEAN /\ block[0].is_free
      BY <2>2, <2>4, <2>6, Fields
    <3> QED
      BY <3>1
  <2>11. block[0] = [size |-> HEAP_SIZE - HEADER, is_free |-> TRUE, next |-> NULL, prev |-> NULL]
    BY <2>7, <2>8, <2>9, <2>10 DEF Header
  <2> QED
    BY <2>6, <2>7, <2>11 DEF heap, memory_init
<1> QED
  BY <1>1, HeapInvariant, PTL


---------------------------------------------------------------------------
(* memory.c implements Allocator. *)

\* Neither rounding a size up nor the product of kcalloc leaves 32 bits.
NothingWraps ==
    /\ \A n \in Requests : n + ALIGN - 1 < WORD
    /\ \A n, m \in Requests : n * m + ALIGN - 1 < WORD

Region == [p \in DOMAIN held |-> block[p - HEADER].size]

\* Every set of naturals that is not empty has a least element.
LEMMA LeastNatural ==
  ASSUME NEW T, T \subseteq Nat, T # {}
  PROVE  \E x \in T : \A y \in T : x <= y
<1>1. PICK x \in T : \A y \in T : ~(<<y, x>> \in OpToRel(<, Nat))
  BY NatLessThanWellFounded, WFMin, Zenon
<1>2. ASSUME NEW y \in T PROVE x <= y
  <2>1. ~(<<y, x>> \in OpToRel(<, Nat))
    BY <1>1
  <2>2. ~(y < x)
    BY <2>1 DEF OpToRel
  <2> QED
    BY <2>2
<1> QED
  BY <1>1, <1>2

\* Every byte of the heap is a byte of some block: of the last that starts before it.
LEMMA BlockAt ==
  ASSUME NEW D, NEW f, NEW e, Covers(D, f, e), NEW x \in Nat, x < HEAP_SIZE
  PROVE  \E c \in D : c <= x /\ x < EndOf(f, c)
<1> DEFINE T == {k \in Nat : x - k \in D}
<1>1. x \in T
  BY DEF Covers
<1>2. PICK k \in T : \A j \in T : k <= j
  BY <1>1, LeastNatural
<1> DEFINE c == x - k
<1>3. k \in Nat /\ c \in D /\ c \in Int /\ c <= x
  OBVIOUS
<1>4. EndOf(f, c) \in Int /\ EndOf(f, c) > c
  BY <1>3, Fields
<1>5. LinkedForward(D, f, e, c)
  BY <1>3 DEF Covers
<1> HIDE DEF c
<1>6. SUFFICES ASSUME EndOf(f, c) <= x PROVE FALSE
  BY <1>3, <1>4
<1>7. EndOf(f, c) \in D
  BY <1>4, <1>5, <1>6, Sizes DEF LinkedForward
<1>8. x - EndOf(f, c) \in Nat /\ x - (x - EndOf(f, c)) = EndOf(f, c)
  BY <1>4, <1>6
<1>9. x - EndOf(f, c) \in T
  BY <1>7, <1>8
<1>10. k <= x - EndOf(f, c)
  BY <1>2, <1>9
<1> QED
  BY <1>3, <1>4, <1>10 DEF c

\* The bytes Allocator calls used are those of the used blocks, headers included.
LEMMA UsedBytes ==
  ASSUME HeapInv, NEW x
  PROVE  x \in A!Used <=> x \in Int /\ \E b \in InUse(heap) : b <= x /\ x < EndOf(block, b)
<1>1. /\ DOMAIN held = {b + HEADER : b \in InUse(heap)}
      /\ Covers(DOMAIN block, block, heap_end) /\ InUse(heap) \subseteq DOMAIN block
  BY Holders DEF HeapInv, GoodHeap, heap, InUse
<1>2. ASSUME NEW b \in InUse(heap)
      PROVE  A!Extent(b + HEADER, Region[b + HEADER]) = b .. EndOf(block, b) - 1
  <2>1. b \in Int /\ block[b].size \in Int
    BY <1>1, Fields
  <2>2. (b + HEADER) - HEADER = b /\ b + HEADER + block[b].size - 1 = EndOf(block, b) - 1
    BY <2>1, Sizes DEF EndOf
  <2>3. Region[b + HEADER] = block[b].size
    BY <1>1, <2>2 DEF Region
  <2> QED
    BY <2>2, <2>3 DEF A!Extent
<1>3. x \in A!Used <=> \E p \in DOMAIN held : x \in A!Extent(p, Region[p])
  BY DEF A!Used, Region
<1>4. x \in A!Used <=> \E b \in InUse(heap) : x \in b .. EndOf(block, b) - 1
  BY <1>1, <1>2, <1>3
<1>5. \A b \in InUse(heap) : b \in Int /\ EndOf(block, b) \in Int
  BY <1>1, Fields
<1> QED
  BY <1>4, <1>5

\* The front of a free block is a place for an allocation.
LEMMA FreeFits ==
  ASSUME HeapInv, NEW b \in DOMAIN block, block[b].is_free,
         NEW n \in Int, 0 <= n, n <= block[b].size
  PROVE  A!Fits(b + HEADER, n)
<1>1. Covers(DOMAIN block, block, heap_end) /\ heap.block = block
  BY DEF HeapInv, GoodHeap, heap
<1>2. /\ b \in Int /\ b >= 0 /\ block[b].size \in Int /\ EndOf(block, b) \in Int
      /\ EndOf(block, b) <= HEAP_SIZE
  BY <1>1, Fields
<1>3. A!Extent(b + HEADER, n) = b .. b + HEADER + n - 1
  <2>1. (b + HEADER) - HEADER = b
    BY <1>2, Sizes
  <2> QED
    BY <2>1 DEF A!Extent
<1>4. b + HEADER + n <= EndOf(block, b)
  BY <1>2, Sizes DEF EndOf
<1>5. A!Extent(b + HEADER, n) \subseteq 0 .. HEAP_SIZE - 1
  BY <1>2, <1>3, <1>4, Sizes
<1>6. ASSUME NEW x \in A!Extent(b + HEADER, n), x \in A!Used PROVE FALSE
  <2>1. x \in Int /\ b <= x /\ x < EndOf(block, b)
    BY <1>2, <1>3, <1>4, Sizes
  <2>2. PICK a \in InUse(heap) : a <= x /\ x < EndOf(block, a)
    BY <1>6, UsedBytes
  <2>3. a \in DOMAIN block /\ a # b
    BY <1>1, <2>2 DEF InUse
  <2>4. a \in Int /\ EndOf(block, a) \in Int
    BY <1>1, <2>3, Fields
  <2>5. (a < b => EndOf(block, a) <= b) /\ (b < a => EndOf(block, b) <= a)
    BY <1>1, <2>3 DEF Covers
  <2> QED
    BY <1>2, <2>1, <2>2, <2>3, <2>4, <2>5
<1> QED
  BY <1>5, <1>6 DEF A!Fits

\* Rounding up: no less than asked, and no more than any multiple that is enough.
LEMMA RoundsUp ==
  ASSUME NEW n \in Nat, n + ALIGN - 1 < WORD
  PROVE  /\ Aligned(n) \in Nat /\ Aligned(n) >= n
         /\ \A k \in Nat : k >= n /\ Multiple(k) => Aligned(n) <= k
<1> DEFINE m == n + ALIGN - 1
<1>1. ALIGN \in Nat /\ ALIGN > 0 /\ WORD \in Nat /\ m \in Nat /\ m < WORD
  BY HeapAssumption
<1>2. Aligned(n) = m - (m % ALIGN)
  <2>1. m % WORD = m
    BY <1>1
  <2> QED
    BY <2>1 DEF Aligned
<1>3. m = n + ALIGN - 1
  OBVIOUS
<1> HIDE DEF m
<1>4. m % ALIGN \in Int /\ m % ALIGN >= 0 /\ m % ALIGN <= ALIGN - 1
  BY <1>1
<1>5. Aligned(n) \in Nat /\ Aligned(n) >= n
  BY <1>1, <1>2, <1>3, <1>4, AlignedNat
<1>6. ASSUME NEW k \in Nat, k >= n, Multiple(k) PROVE Aligned(n) <= k
  <2>1. PICK q \in Int : k = q * ALIGN
    BY <1>6 DEF Multiple
  <2>2. PICK r \in Int : m - (m % ALIGN) = r * ALIGN
    BY <1>1, MultipleOfAlign DEF Multiple
  <2>3. r * ALIGN <= m /\ r * ALIGN \in Int
    BY <1>1, <1>4, <2>2
  <2>4. r <= q
    <3>1. SUFFICES ASSUME r >= q + 1 PROVE FALSE
      OBVIOUS
    <3>2. r * ALIGN >= (q + 1) * ALIGN
      BY <1>1, <3>1
    <3>3. (q + 1) * ALIGN = q * ALIGN + ALIGN
      BY <1>1
    <3> QED
      BY <1>1, <1>3, <1>6, <2>1, <2>3, <3>2, <3>3
  <2>5. r * ALIGN <= q * ALIGN
    BY <1>1, <2>4
  <2> QED
    BY <1>2, <2>1, <2>2, <2>5
<1> QED
  BY <1>5, <1>6

\* When find_free_block finds nothing, the request fits nowhere.
LEMMA ExhaustedMeansFull ==
  ASSUME HeapInv, NEW n \in Nat, n > 0, n + ALIGN - 1 < WORD, Exhausted(Aligned(n)),
         NEW q \in HEADER .. HEAP_SIZE, A!Fits(q, n)
  PROVE  FALSE
<1>1. Covers(DOMAIN block, block, heap_end) /\ heap.block = block
  BY DEF HeapInv, GoodHeap, heap
<1> DEFINE x == q - HEADER
<1>2. x \in Nat /\ x + HEADER = q /\ q \in Int
  BY Sizes
<1>3. A!Extent(q, n) = x .. q + n - 1
  BY DEF A!Extent
<1> HIDE DEF x
<1>4. /\ \A y \in x .. q + n - 1 : y \in 0 .. HEAP_SIZE - 1
      /\ \A y \in x .. q + n - 1 : y \notin A!Used
  BY <1>3 DEF A!Fits
<1>5. x \in x .. q + n - 1 /\ q + n - 1 \in x .. q + n - 1
  BY <1>2, Sizes
<1>6. x < HEAP_SIZE /\ x \notin A!Used
  BY <1>2, <1>4, <1>5, Sizes
<1>7. PICK c \in DOMAIN block : c <= x /\ x < EndOf(block, c)
  BY <1>1, <1>2, <1>6, BlockAt
<1>8. /\ c \in Int /\ c >= 0 /\ block[c].size \in Int /\ block[c].size >= 0
      /\ EndOf(block, c) \in Int
  BY <1>1, Fields
<1>9. block[c].is_free
  <2>1. c \notin InUse(heap)
    BY <1>2, <1>6, <1>7, UsedBytes
  <2> QED
    BY <1>1, <2>1 DEF InUse
<1>10. block[c].size < n
  <2>1. ~(block[c].size >= Aligned(n))
    BY <1>9 DEF Exhausted, Suits
  <2>2. Multiple(block[c].size)
    BY <1>1 DEF HeapInv, Grained
  <2>3. block[c].size >= n => Aligned(n) <= block[c].size
    BY <1>8, <2>2, RoundsUp
  <2>4. Aligned(n) \in Nat
    BY AlignedNat
  <2> QED
    BY <1>8, <2>1, <2>3, <2>4
<1> DEFINE d == EndOf(block, c)
<1>11. d \in x .. q + n - 1
  BY <1>2, <1>7, <1>8, <1>10, Sizes DEF EndOf
<1>12. d < HEAP_SIZE /\ d \notin A!Used
  BY <1>4, <1>8, <1>11, Sizes
<1>13. block[c].next = d /\ d \in DOMAIN block /\ block[c].next # NULL
  <2>1. LinkedForward(DOMAIN block, block, heap_end, c)
    BY <1>1 DEF Covers
  <2> QED
    BY <1>8, <1>12, <2>1, Sizes DEF LinkedForward
<1>14. ~block[d].is_free
  BY <1>1, <1>9, <1>13 DEF HeapInv, Apart
<1>15. d \in InUse(heap)
  BY <1>1, <1>13, <1>14 DEF InUse
<1>16. d \in Int /\ d < EndOf(block, d)
  BY <1>1, <1>13, Fields
<1> QED
  BY <1>12, <1>15, <1>16, UsedBytes


\* A block given out is an allocation of the size it now has.
LEMMA GivenOutRefines ==
  ASSUME HeapInv, NEW n \in Nat, n + ALIGN - 1 < WORD,
         NEW b \in DOMAIN block, find_free_block(b, Aligned(n)),
         NEW g, g = GiveOut(b, Aligned(n))
  PROVE  LET p == b + HEADER
             k == g.block[b].size
         IN  /\ p \in HEADER .. HEAP_SIZE /\ k \in 0 .. HEAP_SIZE /\ k >= n
             /\ A!Fits(p, k)
             /\ p \notin DOMAIN held /\ p - HEADER = b
<1>1. /\ Aligned(n) \in Nat /\ Aligned(n) >= n /\ Suits(b, Aligned(n))
      /\ GoodHeap(heap) /\ Apart(heap, {})
  BY RoundsUp DEF find_free_block, HeapInv
<1>2. /\ b \notin InUse(heap) /\ GoodHeap(g) /\ InUse(g) = InUse(heap) \cup {b}
      /\ g.block[b].size >= Aligned(n) /\ g.block[b].size <= block[b].size
  BY <1>1, GiveOutHeap
<1>3. Covers(DOMAIN block, block, heap_end) /\ heap.block = block
  BY <1>1 DEF GoodHeap, heap
<1>4. /\ b \in Int /\ b >= 0 /\ b + HEADER <= HEAP_SIZE /\ block[b].size \in Int
      /\ EndOf(block, b) <= HEAP_SIZE
  BY <1>3, Fields
<1>5. g.block[b].size \in Int
  BY <1>2, Fields DEF GoodHeap, InUse
<1>6. block[b].is_free
  BY <1>1 DEF Suits
<1>7. A!Fits(b + HEADER, g.block[b].size)
  BY <1>1, <1>2, <1>4, <1>5, <1>6, FreeFits
<1>8. b + HEADER \notin DOMAIN held /\ (b + HEADER) - HEADER = b
  BY <1>2, <1>4, Holders, Sizes
<1>9. /\ b + HEADER \in HEADER .. HEAP_SIZE /\ g.block[b].size \in 0 .. HEAP_SIZE
      /\ g.block[b].size >= n
  BY <1>1, <1>2, <1>4, <1>5, Sizes DEF EndOf
<1> QED
  BY <1>7, <1>8, <1>9

\* kmalloc, and kcalloc of a product that does not wrap, make an allocation.
LEMMA AllocatesRefines ==
  ASSUME HeapInv, NEW n \in Nat, n + ALIGN - 1 < WORD, Allocates(n, n)
  PROVE  A!Alloc
<1>1. PICK b \in DOMAIN block :
         /\ find_free_block(b, Aligned(n))
         /\ BecomesHeap(GiveOut(b, Aligned(n)))
         /\ held' = HoldAlso(held, b + HEADER, n)
         /\ last' = [asked |-> n, got |-> b + HEADER]
  BY DEF Allocates
<1> DEFINE g == GiveOut(b, Aligned(n))
           p == b + HEADER
           k == g.block[b].size
<1>2. /\ p \in HEADER .. HEAP_SIZE /\ k \in 0 .. HEAP_SIZE /\ k >= n
      /\ A!Fits(p, k) /\ p \notin DOMAIN held /\ p - HEADER = b
  BY <1>1, GivenOutRefines
<1>3. Aligned(n) \in Nat /\ Suits(b, Aligned(n)) /\ GoodHeap(heap) /\ Apart(heap, {})
  BY <1>1, AlignedNat DEF find_free_block, HeapInv
<1>4. GoodHeap(g) /\ \A a \in InUse(heap) : g.block[a].size = block[a].size
  BY <1>3, GiveOutHeap
<1>5. BecomesHeap(g)
  BY <1>1
<1> HIDE DEF g
<1>6. block' = g.block
  BY <1>4, <1>5, NextHeap
<1>7. DOMAIN held' = DOMAIN held \cup {p} /\ last'.got = p /\ last'.asked = n /\ n # 0
  BY <1>1 DEF HoldAlso, Allocates
<1> HIDE DEF p
<1>8. \A q \in DOMAIN held : q - HEADER \in InUse(heap)
  BY Holders
<1>9. Region' = A!With(Region, p, k)
  <2>1. ASSUME NEW q \in DOMAIN held \cup {p}
        PROVE  block'[q - HEADER].size = IF q = p THEN k ELSE Region[q]
    <3>1. CASE q = p
      BY <1>2, <1>6, <3>1
    <3>2. CASE q # p
      <4>1. q \in DOMAIN held
        BY <3>2
      <4>2. block'[q - HEADER].size = block[q - HEADER].size
        BY <1>4, <1>6, <1>8, <4>1
      <4> QED
        BY <3>2, <4>1, <4>2 DEF Region
    <3> QED
      BY <3>1, <3>2
  <2> HIDE DEF k
  <2>2. Region' = [q \in DOMAIN held \cup {p} |-> IF q = p THEN k ELSE Region[q]]
    BY <1>7, <2>1 DEF Region
  <2>3. DOMAIN Region = DOMAIN held
    BY DEF Region
  <2> QED
    BY <2>2, <2>3 DEF A!With
<1> HIDE DEF k
<1>10. last'.asked > 0
  BY <1>7
<1> QED
  BY <1>2, <1>7, <1>9, <1>10 DEF A!Alloc, A!Allocate, Region

\* A free ends the allocation of its pointer and touches no other.
LEMMA FreeRefines ==
  ASSUME HeapInv, NEW p \in DOMAIN held, kfree(p)
  PROVE  A!Free
<1> DEFINE g == GiveBack(heap, p)
<1>1. p \in Int /\ \A q \in DOMAIN held : q \in Int /\ q - HEADER \in InUse(heap)
  BY Holders
<1>2. GoodHeap(heap) /\ Apart(heap, {}) /\ heap.block = block
  BY DEF HeapInv, heap
<1>3. /\ GoodHeap(g) /\ InUse(g) = InUse(heap) \ {p - HEADER}
      /\ \A a \in InUse(g) : g.block[a].size = block[a].size
  BY <1>1, <1>2, GiveBackHeap
<1>4. BecomesHeap(g) /\ held' = HoldNoMore(p) /\ last' = [asked |-> 0, got |-> NULL]
  BY DEF kfree, Nothing
<1> HIDE DEF g
<1>5. block' = g.block
  BY <1>3, <1>4, NextHeap
<1>6. DOMAIN held' = DOMAIN held \ {p}
  BY <1>4 DEF HoldNoMore
<1>7. ASSUME NEW q \in DOMAIN held \ {p} PROVE block'[q - HEADER].size = Region[q]
  <2>1. q - HEADER # p - HEADER
    BY <1>1, Sizes
  <2>2. q - HEADER \in InUse(g)
    BY <1>1, <1>3, <2>1
  <2> QED
    BY <1>3, <1>5, <2>2 DEF Region
<1>8. Region' = A!Without(p)
  <2>1. Region' = [q \in DOMAIN held \ {p} |-> Region[q]]
    BY <1>6, <1>7 DEF Region
  <2> QED
    BY <2>1 DEF A!Without, Region
<1>9. p \in DOMAIN Region
  BY DEF Region
<1> QED
  BY <1>4, <1>8, <1>9 DEF A!Free, Region

\* A reallocation that moves makes the new allocation before it ends the old one.
LEMMA MoveRefines ==
  ASSUME HeapInv, NEW p \in DOMAIN held, NEW n \in Nat, n + ALIGN - 1 < WORD, ReallocMove(p, n)
  PROVE  A!Move
<1>1. PICK b \in DOMAIN block :
         /\ find_free_block(b, Aligned(n))
         /\ BecomesHeap(GiveBack(GiveOut(b, Aligned(n)), p))
         /\ held' = HoldAlso(HoldNoMore(p), b + HEADER, n)
         /\ last' = [asked |-> n, got |-> b + HEADER]
  BY DEF ReallocMove
<1> DEFINE h == GiveOut(b, Aligned(n))
           g == GiveBack(h, p)
           r == b + HEADER
           k == h.block[b].size
<1>2. /\ r \in HEADER .. HEAP_SIZE /\ k \in 0 .. HEAP_SIZE /\ k >= n
      /\ A!Fits(r, k) /\ r \notin DOMAIN held /\ r - HEADER = b
  BY <1>1, GivenOutRefines
<1>3. Aligned(n) \in Nat /\ Suits(b, Aligned(n)) /\ GoodHeap(heap) /\ Apart(heap, {})
  BY <1>1, AlignedNat DEF find_free_block, HeapInv
<1>4. /\ GoodHeap(h) /\ Apart(h, {}) /\ InUse(h) = InUse(heap) \cup {b} /\ b \notin InUse(heap)
      /\ \A a \in InUse(heap) : h.block[a].size = block[a].size
  BY <1>3, GiveOutHeap
<1>5. BecomesHeap(g)
  BY <1>1
<1> HIDE DEF h
<1>6. p \in Int /\ \A q \in DOMAIN held : q \in Int /\ q - HEADER \in InUse(heap)
  BY Holders
<1>7. /\ GoodHeap(g) /\ InUse(g) = InUse(h) \ {p - HEADER}
      /\ \A a \in InUse(g) : g.block[a].size = h.block[a].size
  BY <1>4, <1>6, GiveBackHeap
<1> HIDE DEF g
<1>8. block' = g.block
  BY <1>5, <1>7, NextHeap
<1>9. /\ DOMAIN held' = (DOMAIN held \ {p}) \cup {r}
      /\ last'.got = r /\ last'.asked = n /\ n # 0
  BY <1>1 DEF HoldAlso, HoldNoMore, ReallocMove
<1> HIDE DEF r
<1>10. b # p - HEADER
  BY <1>4, <1>6
<1>11. ASSUME NEW q \in (DOMAIN held \ {p}) \cup {r}
       PROVE  block'[q - HEADER].size = IF q = r THEN k ELSE Region[q]
  <2>1. CASE q = r
    BY <1>2, <1>4, <1>7, <1>8, <1>10, <2>1
  <2>2. CASE q # r
    <3>1. q \in DOMAIN held /\ q # p
      BY <2>2
    <3>2. q - HEADER \in InUse(heap) /\ q - HEADER # p - HEADER
      BY <1>6, <3>1, Sizes
    <3>3. block'[q - HEADER].size = block[q - HEADER].size
      BY <1>4, <1>7, <1>8, <3>2
    <3> QED
      BY <2>2, <3>1, <3>3 DEF Region
  <2> QED
    BY <2>1, <2>2
<1> HIDE DEF k
<1>12. Region' = A!With(A!Without(p), r, k)
  <2>1. Region' = [q \in (DOMAIN held \ {p}) \cup {r} |-> IF q = r THEN k ELSE Region[q]]
    BY <1>9, <1>11 DEF Region
  <2>2. A!Without(p) = [q \in DOMAIN held \ {p} |-> Region[q]]
    BY DEF A!Without, Region
  <2> DEFINE w == A!Without(p)
  <2>3. DOMAIN w = DOMAIN held \ {p} /\ \A q \in DOMAIN held \ {p} : w[q] = Region[q]
    BY <2>2
  <2> HIDE DEF w
  <2>4. A!With(w, r, k) = [q \in (DOMAIN held \ {p}) \cup {r} |-> IF q = r THEN k ELSE w[q]]
    BY <2>3 DEF A!With
  <2>5. Region' = A!With(w, r, k)
    BY <2>1, <2>3, <2>4
  <2> QED
    BY <2>5 DEF w
<1>13. last'.asked > 0
  BY <1>9
<1>14. A!Allocate(A!Without(p))
  BY <1>2, <1>9, <1>12 DEF A!Allocate, Region
<1> QED
  BY <1>13, <1>14 DEF A!Move

\* A refusal comes only when the request fits nowhere.
LEMMA RefusesRefines ==
  ASSUME HeapInv, NEW n \in Nat, n + ALIGN - 1 < WORD, Refuses(n, n)
  PROVE  A!Refuse
<1>1. last'.got = NULL /\ last'.asked = n /\ Region' = Region
  BY DEF Refuses, Region
<1>2. ASSUME n > 0, NEW q \in HEADER .. HEAP_SIZE PROVE ~A!Fits(q, n)
  BY <1>2, ExhaustedMeansFull DEF Refuses
<1> QED
  BY <1>1, <1>2 DEF A!Refuse, Region

(* First fit with splitting and merging implements the allocator, for every *)
(* heap and every order of calls, as long as no size wraps in 32 bits:      *)
(* allocations are disjoint and never smaller than asked, a request is      *)
(* refused only when it fits nowhere, and only a free or a move ends one.   *)
THEOREM HeapIsAllocator == ASSUME NothingWraps PROVE Spec => RefinesAllocator
<1>1. Init => A!Init
  BY DEF Init, A!Init, Nothing
<1>2. HeapInv /\ [Next]_vars => [A!Next]_<<Region, last>>
  <2> SUFFICES ASSUME HeapInv, [Next]_vars PROVE [A!Next]_<<Region, last>>
    OBVIOUS
  <2>1. \A n \in Requests : n \in Nat /\ n + ALIGN - 1 < WORD
    BY Asked DEF NothingWraps
  <2>2. \A n, m \in Requests : /\ n * m \in Nat /\ n * m + ALIGN - 1 < WORD
                               /\ (n * m) % WORD = n * m
    <3>1. ASSUME NEW k \in Nat, k + ALIGN - 1 < WORD PROVE k % WORD = k
      BY <3>1, HeapAssumption
    <3> QED
      BY <3>1, Asked DEF NothingWraps
  <2>3. CASE \E n \in Requests : kmalloc(n)
    BY <2>1, <2>3, AllocatesRefines, RefusesRefines DEF kmalloc, A!Next
  <2>4. CASE \E p \in DOMAIN held : kfree(p)
    BY <2>4, FreeRefines DEF A!Next
  <2>5. CASE \E p \in DOMAIN held, n \in Requests : krealloc(p, n)
    <3>1. PICK p \in DOMAIN held, n \in Requests : krealloc(p, n)
      BY <2>5
    <3>2. CASE ReallocInPlace(p, n)
      <4>1. /\ last'.got = p /\ last'.asked = n /\ block[p - HEADER].size >= n
            /\ block' = block /\ DOMAIN held' = DOMAIN held
        BY <3>2 DEF ReallocInPlace
      <4>2. Region' = Region /\ p \in DOMAIN Region /\ Region[p] = block[p - HEADER].size
        BY <4>1 DEF Region
      <4> QED
        BY <4>1, <4>2 DEF A!Next, A!Keep, Region
    <3>3. CASE ReallocMove(p, n)
      BY <2>1, <3>3, MoveRefines DEF A!Next
    <3>4. CASE ReallocFail(p, n)
      BY <2>1, <3>4, RefusesRefines DEF A!Next, ReallocFail
    <3> QED
      BY <3>1, <3>2, <3>3, <3>4 DEF krealloc
  <2>6. CASE \E num, size \in Requests : kcalloc(num, size)
    BY <2>2, <2>6, AllocatesRefines, RefusesRefines DEF kcalloc, A!Next
  <2>7. CASE UNCHANGED vars
    BY <2>7 DEF vars, Region
  <2> QED
    BY <2>3, <2>4, <2>5, <2>6, <2>7 DEF Next
<1> QED
  BY <1>1, <1>2, HeapInvariant, PTL DEF Spec, RefinesAllocator, A!Spec, Region
===========================================================================
