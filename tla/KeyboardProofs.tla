-------------------------- MODULE KeyboardProofs --------------------------
(* What the runs of Keyboard show for a small ring is proved here for every *)
(* size of input_buffer, every max_len of console_readline and any number   *)
(* of slips: the invariants of the ring between IRQ 1 and its reader.       *)
EXTENDS Keyboard, SequenceTheorems, TLAPS

---------------------------------------------------------------------------
(* Arithmetic modulo a size that is not a number, for the indexes of the    *)
(* ring: the provers need it spelled out.                                   *)

\* Division with remainder, as x86 div leaves both.
LEMMA DivMod ==
    ASSUME NEW B \in Nat, B >= 1, NEW a \in Int
    PROVE  /\ a \div B \in Int
           /\ a % B \in 0 .. B - 1
           /\ a = B * (a \div B) + (a % B)
OBVIOUS

\* The remainder is unique.
LEMMA ModUnique ==
    ASSUME NEW B \in Nat, B >= 1, NEW q \in Int, NEW r \in 0 .. B - 1
    PROVE  (B * q + r) % B = r
OBVIOUS

\* An index that wrapped may be moved on as if it had not.
LEMMA ModPlus ==
    ASSUME NEW B \in Nat, B >= 1, NEW a \in Int, NEW k \in Int
    PROVE  ((a % B) + k) % B = (a + k) % B
<1> DEFINE q == a \div B
           b == a % B
           p == (b + k) \div B
           r == (b + k) % B
<1>1. /\ q \in Int /\ b \in Int /\ p \in Int /\ r \in 0 .. B - 1
      /\ a = B * q + b
      /\ b + k = B * p + r
  BY DivMod
<1>2. q + p \in Int
  BY <1>1
<1>3. (a + k) % B = r
  <2> HIDE DEF q, b, p, r
  <2>1. a + k = B * (q + p) + r
    BY <1>1
  <2>2. (B * (q + p) + r) % B = r
    BY <1>1, <1>2, ModUnique
  <2> QED BY <2>1, <2>2
<1> QED BY <1>3

\* Two places of the ring less than its size apart are different slots.
LEMMA ModApart ==
    ASSUME NEW B \in Nat, B >= 1, NEW a \in Int, NEW n \in 1 .. B - 1
    PROVE  (a + n) % B # a % B
<1> DEFINE q == a \div B
           b == a % B
<1>1. q \in Int /\ b \in 0 .. B - 1 /\ a = B * q + b
  BY DivMod
<1> HIDE DEF q, b
<1>2. CASE b + n < B
  <2>1. a + n = B * q + (b + n)
    BY <1>1
  <2>2. (B * q + (b + n)) % B = b + n
    BY ModUnique, <1>1, <1>2
  <2> QED BY <2>1, <2>2, <1>1 DEF b
<1>3. CASE b + n >= B
  <2>1. a + n = B * (q + 1) + (b + n - B)
    BY <1>1
  <2>2. b + n - B \in 0 .. B - 1
    BY <1>1, <1>3
  <2>3. q + 1 \in Int
    BY <1>1
  <2>4. (B * (q + 1) + (b + n - B)) % B = b + n - B
    BY ModUnique, <2>2, <2>3
  <2>5. (a + n) % B = b + n - B
    BY <2>1, <2>4
  <2>6. b + n - B # b
    BY <1>1
  <2> QED BY <2>5, <2>6 DEF b
<1> QED BY <1>1, <1>2, <1>3

\* The same for the ring itself.
LEMMA RingIndexes ==
    /\ BUFFER \in Nat /\ BUFFER >= 1
    /\ \A a \in Int : a % BUFFER \in 0 .. BUFFER - 1
    /\ \A a, k \in Int : ((a % BUFFER) + k) % BUFFER = (a + k) % BUFFER
    /\ \A a \in Int : \A n \in 1 .. BUFFER - 1 : (a + n) % BUFFER # a % BUFFER
<1>1. BUFFER \in Nat /\ BUFFER >= 1
  BY KeyboardAssumption
<1>2. \A a \in Int : a % BUFFER \in 0 .. BUFFER - 1
  BY ONLY <1>1, DivMod
<1>3. \A a, k \in Int : ((a % BUFFER) + k) % BUFFER = (a + k) % BUFFER
  BY ONLY <1>1, ModPlus, Zenon
<1>4. \A a \in Int : \A n \in 1 .. BUFFER - 1 : (a + n) % BUFFER # a % BUFFER
  BY ONLY <1>1, ModApart, Zenon
<1> QED BY <1>1, <1>2, <1>3, <1>4

---------------------------------------------------------------------------
(* The inductive invariant. *)

\* keyboard_getchar stores only a count that it found not to be zero.
StoresCounted == reader.pc = "store" => reader.count >= 1

IInv == TypeOK /\ StoresCounted /\ NoPhantomCharacter /\ RingHoldsAccepted

\* keyboard_init leaves an empty ring.
LEMMA InitIInv == Init => IInv
<1> SUFFICES ASSUME Init
             PROVE  IInv
  OBVIOUS
<1> USE KeyboardAssumption DEF Init
<1>1. TypeOK
  BY DEF TypeOK, Char, ReaderAt, Callers
<1>2. StoresCounted /\ NoPhantomCharacter
  BY DEF StoresCounted, NoPhantomCharacter
<1>3. RingHoldsAccepted
  BY ModUnique DEF RingHoldsAccepted
<1> QED BY <1>1, <1>2, <1>3 DEF IInv

\* What waking the reader changes: not the count it goes on with.
LEMMA WokenReader ==
    ASSUME TypeOK
    PROVE  /\ Woken \in [pc : ReaderAt, count : 0 .. BUFFER - 1, caller : Callers,
                         pos : 0 .. MAX_LEN - 2]
           /\ Woken.count = reader.count
           /\ Woken.pc = reader.pc \/ (reader.pc = "halted" /\ Woken.pc = "load")
BY DEF TypeOK, Woken, ReaderAt

(* keyboard_add_to_buffer, whatever the reader is doing: nothing, or one    *)
(* more character at the head, with a slot that stays unused.               *)
LEMMA AddToBuffer ==
    ASSUME TypeOK, NEW c \in Char, keyboard_add_to_buffer(c)
    PROVE  \/ UNCHANGED <<buffer, accepted>>
           \/ /\ buffer_count < BUFFER - 1
              /\ input_buffer' = [input_buffer EXCEPT ![buffer_head] = c]
              /\ buffer_head' = (buffer_head + 1) % BUFFER
              /\ buffer_count' = buffer_count + 1
              /\ accepted' = Append(accepted, c)
              /\ buffer_tail' = buffer_tail
BY DEF keyboard_add_to_buffer

\* A key pressed or released is a character offered to the buffer, or none.
LEMMA HandlerEffect ==
    ASSUME TypeOK, NEW key \in Keys, keyboard_handler(key)
    PROVE  /\ modifiers' \subseteq {"shift", "ctrl", "alt", "caps"}
           /\ UNCHANGED <<buffer, accepted>> \/ \E c \in Char : keyboard_add_to_buffer(c)
           /\ reader' = Woken
           /\ Deliverable
           /\ slipped' = IF reader.pc = "store" /\ accepted' # accepted
                         THEN slipped + 1 ELSE slipped
<1>1. key \in AllKeys
  BY KeyboardAssumption
<1>2. CASE key \in {"letter", "enter", "backspace"}
  <2>1. /\ Letter \in Char /\ "newline" \in Char /\ "erase" \in Char
    BY DEF Letter, Char
  <2>2. /\ UNCHANGED modifiers
        /\ \E c \in Char : keyboard_add_to_buffer(c)
    BY <1>2, <2>1 DEF keyboard_handler, KeyCharacter
  <2> QED BY <2>2 DEF keyboard_handler, TypeOK
<1>3. CASE key \notin {"letter", "enter", "backspace"}
  <2>1. KeyModifier(key)
    BY <1>3 DEF keyboard_handler
  <2>2. UNCHANGED <<buffer, accepted>>
    BY <2>1 DEF KeyModifier
  <2>3. modifiers' \subseteq {"shift", "ctrl", "alt", "caps"}
    BY <2>1, <1>1, <1>3 DEF KeyModifier, AllKeys, TypeOK
  <2> QED BY <2>2, <2>3 DEF keyboard_handler
<1> QED BY <1>2, <1>3

(* One more character at the head: the slot it takes holds no unread        *)
(* character, because fewer than BUFFER are unread while no count slipped.  *)
LEMMA AppendKeepsRing ==
    ASSUME TypeOK, RingHoldsAccepted, NEW c \in Char,
           slipped' \in Nat, slipped' >= slipped,
           slipped' = 0 => Len(accepted) < BUFFER,
           input_buffer' = [input_buffer EXCEPT ![buffer_head] = c],
           buffer_head' = (buffer_head + 1) % BUFFER,
           buffer_tail' = buffer_tail,
           accepted' = Append(accepted, c)
    PROVE  RingHoldsAccepted'
<1> USE KeyboardAssumption
<1> DEFINE n == Len(accepted)
<1>1. /\ n \in Nat /\ Len(accepted') = n + 1
      /\ buffer_tail \in Nat /\ buffer_head \in 0 .. BUFFER - 1
      /\ DOMAIN accepted' = 1 .. n + 1 /\ DOMAIN accepted = 1 .. n
      /\ slipped \in Nat
      /\ accepted'[n + 1] = c
      /\ \A i \in 1 .. n : accepted'[i] = accepted[i]
  BY DEF TypeOK
<1>2. (buffer_tail' + Len(accepted')) % BUFFER = buffer_head'
  <2>1. (buffer_tail + n) % BUFFER = buffer_head
    BY DEF RingHoldsAccepted
  <2>2. (((buffer_tail + n) % BUFFER) + 1) % BUFFER = ((buffer_tail + n) + 1) % BUFFER
    <3>1. buffer_tail + n \in Int /\ 1 \in Int
      BY <1>1
    <3> HIDE DEF n
    <3> QED BY ONLY <3>1, RingIndexes, Zenon
  <2>3. (buffer_tail + n) + 1 = buffer_tail + (n + 1)
    BY <1>1
  <2> QED BY <1>1, <2>1, <2>2, <2>3
<1>3. ASSUME slipped' = 0
      PROVE  /\ Len(accepted') <= BUFFER
             /\ \A i \in DOMAIN accepted' :
                   input_buffer'[(buffer_tail' + i - 1) % BUFFER] = accepted'[i]
  <2>1. slipped = 0 /\ n < BUFFER
    BY <1>1, <1>3
  <2>2. Len(accepted') <= BUFFER
    BY <1>1, <2>1
  <2>3. ASSUME NEW i \in 1 .. n
        PROVE  input_buffer'[(buffer_tail' + i - 1) % BUFFER] = accepted'[i]
    <3> DEFINE a == buffer_tail + i - 1
               d == n - i + 1
    <3>1. a \in Int /\ d \in 1 .. BUFFER - 1 /\ a + d = buffer_tail + n
      BY <1>1, <2>1
    <3>2. (a + d) % BUFFER # a % BUFFER
      <4> HIDE DEF a, d
      <4> QED BY ONLY <3>1, RingIndexes, Zenon
    <3>3. a % BUFFER # buffer_head
      BY <3>1, <3>2 DEF RingHoldsAccepted
    <3>4. a % BUFFER \in 0 .. BUFFER - 1
      BY ONLY <3>1, RingIndexes, Zenon
    <3>5. input_buffer'[a % BUFFER] = input_buffer[a % BUFFER]
      <4> HIDE DEF a
      <4> QED BY <3>3, <3>4 DEF TypeOK
    <3>6. input_buffer[a % BUFFER] = accepted[i]
      BY <1>1, <2>1 DEF RingHoldsAccepted
    <3> QED BY <1>1, <3>5, <3>6
  <2>4. input_buffer'[(buffer_tail' + (n + 1) - 1) % BUFFER] = accepted'[n + 1]
    <3>1. buffer_tail + (n + 1) - 1 = buffer_tail + n
      BY <1>1
    <3>2. (buffer_tail + n) % BUFFER = buffer_head
      BY DEF RingHoldsAccepted
    <3>3. input_buffer'[buffer_head] = c
      BY <1>1 DEF TypeOK
    <3> QED BY <1>1, <3>1, <3>2, <3>3
  <2>5. \A i \in 1 .. n + 1 : i \in 1 .. n \/ i = n + 1
    BY <1>1
  <2> QED BY <1>1, <2>2, <2>3, <2>4, <2>5
<1> QED BY <1>2, <1>3 DEF RingHoldsAccepted

\* The character at the tail is read: the others keep their slots.
LEMMA TakeKeepsRing ==
    ASSUME TypeOK, RingHoldsAccepted, accepted # <<>>,
           buffer_tail' = (buffer_tail + 1) % BUFFER,
           accepted' = Tail(accepted),
           UNCHANGED <<input_buffer, buffer_head, slipped>>
    PROVE  RingHoldsAccepted'
<1> USE KeyboardAssumption
<1> DEFINE n == Len(accepted)
<1>1. /\ n \in Nat /\ n >= 1 /\ Len(accepted') = n - 1
      /\ DOMAIN accepted' = 1 .. n - 1 /\ DOMAIN accepted = 1 .. n
      /\ \A i \in 1 .. n - 1 : accepted'[i] = accepted[i + 1]
      /\ buffer_tail \in Nat
  BY DEF TypeOK
<1>2. ASSUME NEW k \in Int
      PROVE  (buffer_tail' + k) % BUFFER = (buffer_tail + (k + 1)) % BUFFER
  <2>1. buffer_tail + 1 \in Int /\ (buffer_tail + 1) + k = buffer_tail + (k + 1)
    BY <1>1
  <2>2. (((buffer_tail + 1) % BUFFER) + k) % BUFFER = ((buffer_tail + 1) + k) % BUFFER
    BY ONLY <2>1, RingIndexes, k \in Int, Zenon
  <2> QED BY <2>1, <2>2
<1>3. (buffer_tail' + Len(accepted')) % BUFFER = buffer_head'
  <2>1. (n - 1) \in Int /\ (n - 1) + 1 = n
    BY <1>1
  <2>2. (buffer_tail' + (n - 1)) % BUFFER = (buffer_tail + ((n - 1) + 1)) % BUFFER
    BY <1>2, <2>1
  <2> QED BY <1>1, <2>1, <2>2 DEF RingHoldsAccepted
<1>4. ASSUME slipped' = 0
      PROVE  /\ Len(accepted') <= BUFFER
             /\ \A i \in DOMAIN accepted' :
                   input_buffer'[(buffer_tail' + i - 1) % BUFFER] = accepted'[i]
  <2>1. n <= BUFFER /\ \A j \in 1 .. n :
                          input_buffer[(buffer_tail + j - 1) % BUFFER] = accepted[j]
    BY <1>4, <1>1 DEF RingHoldsAccepted
  <2>2. ASSUME NEW i \in 1 .. n - 1
        PROVE  input_buffer'[(buffer_tail' + i - 1) % BUFFER] = accepted'[i]
    <3>1. /\ i - 1 \in Int /\ i + 1 \in 1 .. n
          /\ buffer_tail + ((i - 1) + 1) = buffer_tail + (i + 1) - 1
      BY <1>1
    <3>2. (buffer_tail' + (i - 1)) % BUFFER = (buffer_tail + (i + 1) - 1) % BUFFER
      BY <1>2, <3>1
    <3>3. buffer_tail' + i - 1 = buffer_tail' + (i - 1)
      BY <1>1, DivMod
    <3> QED BY <1>1, <2>1, <3>1, <3>2, <3>3
  <2>3. Len(accepted') <= BUFFER
    BY <1>1, <2>1, RingIndexes
  <2> HIDE DEF n
  <2> QED BY ONLY <1>1, <2>2, <2>3, Zenon
<1> QED BY <1>3, <1>4 DEF RingHoldsAccepted

---------------------------------------------------------------------------
(* Every step keeps the invariant. *)

\* NoPhantomCharacter, case by case: which count the reader goes on with.
LEMMA CountCases ==
    ASSUME NoPhantomCharacter
    PROVE  /\ reader.pc = "store" => Len(accepted) = slipped + reader.count
           /\ reader.pc = "take" => Len(accepted) = slipped + (buffer_count + 1)
           /\ reader.pc \notin {"store", "take"} => Len(accepted) = slipped + buffer_count
<1>1. CASE reader.pc = "store"
  BY <1>1 DEF NoPhantomCharacter
<1>2. CASE reader.pc = "take"
  BY <1>2 DEF NoPhantomCharacter
<1>3. CASE reader.pc \notin {"store", "take"}
  BY <1>3 DEF NoPhantomCharacter
<1> QED BY <1>1, <1>2, <1>3

\* The numbers among the variables.
LEMMA Counts ==
    ASSUME TypeOK
    PROVE  /\ reader.count \in Nat /\ reader.count < BUFFER
           /\ buffer_count \in Nat /\ buffer_count < BUFFER
           /\ slipped \in Nat /\ BUFFER \in Nat
<1>1. reader.count \in 0 .. BUFFER - 1 /\ buffer_count \in 0 .. BUFFER - 1 /\ slipped \in 0 .. MAX_SLIPS
  BY DEF TypeOK
<1> QED BY <1>1, KeyboardAssumption

\* IRQ 1 at any point of the reader.
LEMMA HandlerKeepsIInv ==
    ASSUME IInv, NEW key \in Keys, keyboard_handler(key)
    PROVE  IInv'
<1> USE KeyboardAssumption
<1>0. TypeOK /\ StoresCounted /\ NoPhantomCharacter /\ RingHoldsAccepted
  BY DEF IInv
<1>2. /\ modifiers' \subseteq {"shift", "ctrl", "alt", "caps"}
      /\ reader' = Woken
      /\ Deliverable
      /\ slipped' = IF reader.pc = "store" /\ accepted' # accepted THEN slipped + 1 ELSE slipped
  BY <1>0, HandlerEffect
<1>3. /\ reader' \in [pc : ReaderAt, count : 0 .. BUFFER - 1, caller : Callers,
                      pos : 0 .. MAX_LEN - 2]
      /\ reader'.count = reader.count
      /\ reader'.pc = reader.pc \/ (reader.pc = "halted" /\ reader'.pc = "load")
  BY <1>0, <1>2, WokenReader
<1>4. /\ slipped' \in 0 .. MAX_SLIPS /\ slipped' \in Nat
      /\ slipped \in Nat /\ slipped' >= slipped
  BY <1>0, <1>2 DEF TypeOK, Deliverable
<1>5. StoresCounted'
  BY <1>0, <1>3 DEF StoresCounted
<1>6. CASE UNCHANGED <<buffer, accepted>>
  <2>1. slipped' = slipped
    BY <1>2, <1>6
  <2>2. TypeOK'
    BY <1>0, <1>2, <1>3, <1>4, <1>6 DEF TypeOK, buffer
  <2>3. NoPhantomCharacter'
    BY <1>0, <1>3, <1>6, <2>1 DEF NoPhantomCharacter, buffer
  <2>4. RingHoldsAccepted'
    BY <1>0, <1>6, <2>1 DEF RingHoldsAccepted, buffer
  <2> QED BY <1>5, <2>2, <2>3, <2>4 DEF IInv
<1>7. ASSUME NEW c \in Char,
             buffer_count < BUFFER - 1,
             input_buffer' = [input_buffer EXCEPT ![buffer_head] = c],
             buffer_head' = (buffer_head + 1) % BUFFER,
             buffer_count' = buffer_count + 1,
             accepted' = Append(accepted, c),
             buffer_tail' = buffer_tail
      PROVE  IInv'
  <2>1. /\ accepted \in Seq(Char) /\ Len(accepted) \in Nat
        /\ accepted' \in Seq(Char) /\ Len(accepted') = Len(accepted) + 1
        /\ accepted' # accepted
        /\ buffer_count \in Nat
    BY <1>0, <1>7 DEF TypeOK
  <2>2. slipped' = IF reader.pc = "store" THEN slipped + 1 ELSE slipped
    BY <1>2, <2>1
  <2>3. buffer_head' \in 0 .. BUFFER - 1
    BY <1>0, <1>7, DivMod DEF TypeOK
  <2>4. TypeOK'
    BY <1>0, <1>2, <1>3, <1>4, <1>7, <2>1, <2>3 DEF TypeOK
  <2>5. NoPhantomCharacter'
    <3>1. CASE reader.pc = "store"
      <4>1. Len(accepted') = slipped' + reader'.count
        <5>1. Len(accepted) = slipped + reader.count /\ reader.count \in Nat
          BY <1>0, <3>1, CountCases, Counts
        <5>2. slipped' = slipped + 1 /\ reader'.count = reader.count
          BY <1>3, <2>2, <3>1
        <5> QED BY ONLY <1>4, <2>1, <5>1, <5>2
      <4> QED BY <1>3, <3>1, <4>1 DEF NoPhantomCharacter
    <3>2. CASE reader.pc = "take"
      <4>1. Len(accepted') = slipped' + (buffer_count' + 1)
        <5>1. Len(accepted) = slipped + (buffer_count + 1) /\ slipped' = slipped
          BY <1>0, <2>2, <3>2, CountCases
        <5> QED BY ONLY <1>4, <1>7, <2>1, <5>1
      <4> QED BY <1>3, <3>2, <4>1 DEF NoPhantomCharacter
    <3>3. CASE reader.pc \notin {"store", "take"}
      <4>0. Len(accepted) = slipped + buffer_count
        BY <1>0, <3>3, CountCases
      <4>1. Len(accepted') = slipped' + buffer_count'
        BY <1>4, <1>7, <2>1, <2>2, <3>3, <4>0
      <4> QED BY <1>3, <3>3, <4>1 DEF NoPhantomCharacter
    <3> QED BY <3>1, <3>2, <3>3
  <2>6. slipped' = 0 => Len(accepted) < BUFFER
    <3>1. SUFFICES ASSUME slipped' = 0 PROVE Len(accepted) < BUFFER
      OBVIOUS
    <3>2. reader.pc # "store" /\ slipped = 0
      BY <1>4, <2>2, <3>1
    <3>3. Len(accepted) = buffer_count \/ Len(accepted) = buffer_count + 1
      BY <1>0, <2>1, <3>2, CountCases
    <3> QED BY ONLY <1>7, <2>1, <3>3, KeyboardAssumption
  <2>7. RingHoldsAccepted'
    BY <1>0, <1>4, <1>7, <2>6, AppendKeepsRing
  <2> QED BY <1>5, <2>4, <2>5, <2>7 DEF IInv
<1> QED BY <1>0, <1>6, <1>7, HandlerEffect, AddToBuffer

\* The load: a count of zero is never taken to "store".
LEMMA LoadKeepsIInv ==
    ASSUME IInv, GetcharLoad
    PROVE  IInv'
<1> USE KeyboardAssumption DEF IInv, GetcharLoad
<1>1. UNCHANGED <<modifiers, input_buffer, buffer_head, buffer_tail, buffer_count,
                  accepted, slipped>>
  BY DEF buffer
<1>2. TypeOK'
  BY <1>1 DEF TypeOK, ReaderAt, Callers
<1>3. StoresCounted' /\ NoPhantomCharacter'
  BY <1>1 DEF TypeOK, StoresCounted, NoPhantomCharacter
<1>4. RingHoldsAccepted'
  BY <1>1 DEF RingHoldsAccepted
<1> QED BY <1>2, <1>3, <1>4

\* The store: the reader goes on with the count it loaded.
LEMMA StoreKeepsIInv ==
    ASSUME IInv, GetcharStore
    PROVE  IInv'
<1> USE KeyboardAssumption DEF IInv, GetcharStore
<1>1. TypeOK'
  <2>1. buffer_count' \in 0 .. BUFFER - 1
    <3>1. reader.count >= 1 /\ buffer_count' = reader.count - 1
      BY DEF StoresCounted
    <3> QED BY <3>1, Counts
  <2>2. reader' \in [pc : ReaderAt, count : 0 .. BUFFER - 1, caller : Callers,
                     pos : 0 .. MAX_LEN - 2]
    <3>1. reader \in [pc : ReaderAt, count : 0 .. BUFFER - 1, caller : Callers,
                      pos : 0 .. MAX_LEN - 2]
      BY DEF TypeOK
    <3>2. reader' = [reader EXCEPT !.pc = "take", !.count = 0]
      OBVIOUS
    <3>3. "take" \in ReaderAt /\ 0 \in 0 .. BUFFER - 1
      BY DEF ReaderAt
    <3> QED BY ONLY <3>1, <3>2, <3>3
  <2> QED BY <2>1, <2>2 DEF TypeOK
<1>2. StoresCounted' /\ NoPhantomCharacter'
  <2>1. /\ reader'.pc = "take" /\ buffer_count' = reader.count - 1
        /\ UNCHANGED <<accepted, slipped>>
    <3>1. reader \in [pc : ReaderAt, count : 0 .. BUFFER - 1, caller : Callers,
                      pos : 0 .. MAX_LEN - 2]
      BY DEF TypeOK
    <3> HIDE DEF IInv
    <3> QED BY <3>1
  <2>2. Len(accepted) = slipped + reader.count /\ reader.count \in Nat
    BY CountCases, Counts
  <2>3. Len(accepted') = slipped' + (buffer_count' + 1)
    BY ONLY <2>1, <2>2
  <2> QED BY ONLY <2>1, <2>3 DEF StoresCounted, NoPhantomCharacter
<1>3. RingHoldsAccepted'
  BY DEF RingHoldsAccepted
<1> QED BY <1>1, <1>2, <1>3

\* The character: at "take" one is unread, whatever slipped before.
LEMMA TakeKeepsIInv ==
    ASSUME IInv, GetcharTake
    PROVE  IInv'
<1> USE KeyboardAssumption DEF IInv
<1>1. /\ reader.pc = "take"
      /\ buffer_tail' = (buffer_tail + 1) % BUFFER
      /\ accepted' = Tail(accepted)
      /\ UNCHANGED <<modifiers, input_buffer, buffer_head, buffer_count, slipped>>
  BY DEF GetcharTake
<1>2. /\ accepted \in Seq(Char) /\ accepted # <<>>
      /\ Len(accepted) = slipped + buffer_count + 1
      /\ slipped \in Nat /\ buffer_count \in Nat
  <2>1. accepted \in Seq(Char)
    BY DEF TypeOK
  <2>2. Len(accepted) = slipped + (buffer_count + 1)
    BY <1>1, CountCases
  <2> QED BY ONLY <2>1, <2>2, TypeOK, Counts
<1>3. accepted' \in Seq(Char) /\ Len(accepted') = Len(accepted) - 1
  BY <1>1, <1>2
<1>4. /\ reader' \in [pc : ReaderAt, count : 0 .. BUFFER - 1, caller : Callers,
                      pos : 0 .. MAX_LEN - 2]
      /\ reader'.pc = "load"
  <2>1. PICK caller \in Callers :
           reader' = [pc |-> "load", count |-> 0, caller |-> caller,
                      pos |-> IF reader.caller = "command" \/ EndsLine(input_buffer[buffer_tail])
                              THEN 0 ELSE PosAfter(input_buffer[buffer_tail])]
    BY DEF GetcharTake, Callers
  <2>2. ~EndsLine(input_buffer[buffer_tail])
           => PosAfter(input_buffer[buffer_tail]) \in 0 .. MAX_LEN - 2
    BY DEF EndsLine, PosAfter, TypeOK
  <2>3. 0 \in 0 .. MAX_LEN - 2 /\ 0 \in 0 .. BUFFER - 1 /\ "load" \in ReaderAt
    BY DEF ReaderAt
  <2> QED BY <2>1, <2>2, <2>3
<1>5. buffer_tail' \in 0 .. BUFFER - 1
  BY <1>1, DivMod DEF TypeOK
<1>6. TypeOK'
  BY <1>1, <1>3, <1>4, <1>5 DEF TypeOK
<1>7. StoresCounted' /\ NoPhantomCharacter'
  BY <1>1, <1>2, <1>3, <1>4 DEF StoresCounted, NoPhantomCharacter
<1>8. RingHoldsAccepted'
  BY <1>1, <1>2, TakeKeepsRing
<1> QED BY <1>6, <1>7, <1>8

\* Halting and being woken by IRQ 0 touch only where the reader is.
LEMMA HaltKeepsIInv ==
    ASSUME IInv, Hlt \/ TimerInterrupt
    PROVE  IInv'
<1> USE DEF IInv
<1>1. UNCHANGED <<modifiers, input_buffer, buffer_head, buffer_tail, buffer_count,
                  accepted, slipped>>
  BY DEF Hlt, TimerInterrupt, buffer
<1>2. /\ reader' \in [pc : ReaderAt, count : 0 .. BUFFER - 1, caller : Callers,
                      pos : 0 .. MAX_LEN - 2]
      /\ reader.pc \in {"hlt", "halted"} /\ reader'.pc \in {"halted", "load"}
  BY DEF Hlt, TimerInterrupt, Woken, TypeOK, ReaderAt
<1>3. TypeOK'
  BY <1>1, <1>2 DEF TypeOK
<1>4. StoresCounted' /\ NoPhantomCharacter'
  BY <1>1, <1>2 DEF StoresCounted, NoPhantomCharacter
<1>5. RingHoldsAccepted'
  BY <1>1 DEF RingHoldsAccepted
<1> QED BY <1>3, <1>4, <1>5

\* The invariant is inductive.
LEMMA NextKeepsIInv == IInv /\ [Next]_vars => IInv'
<1> SUFFICES ASSUME IInv, [Next]_vars
             PROVE  IInv'
  OBVIOUS
<1>1. ASSUME NEW key \in Keys, keyboard_handler(key)
      PROVE  IInv'
  BY <1>1, HandlerKeepsIInv
<1>2. CASE TimerInterrupt
  BY <1>2, HaltKeepsIInv
<1>3. CASE shell
  BY <1>3, LoadKeepsIInv, StoreKeepsIInv, TakeKeepsIInv, HaltKeepsIInv DEF shell
<1>4. CASE UNCHANGED vars
  BY <1>4 DEF IInv, vars, buffer, TypeOK, StoresCounted, NoPhantomCharacter, RingHoldsAccepted
<1> QED BY <1>1, <1>2, <1>3, <1>4 DEF Next

\* The invariant holds in every state the driver and the shell can reach.
LEMMA Invariance == Spec => []IInv
BY InitIInv, NextKeepsIInv, PTL DEF Spec

(* The indexes stay in input_buffer, buffer_count below its size and pos    *)
(* inside the line, for every size of both.                                 *)
THEOREM TypeCorrect == Spec => []TypeOK
<1>1. IInv => TypeOK
  BY DEF IInv
<1> QED BY <1>1, Invariance, PTL

(* keyboard_getchar never returns a character that was not typed, wherever  *)
(* IRQ 1 interrupts it, and what the count misses is exactly the keys that  *)
(* came between its load and its store.                                     *)
THEOREM CountNeverOvershoots == Spec => []NoPhantomCharacter
<1>1. IInv => NoPhantomCharacter
  BY DEF IInv
<1> QED BY <1>1, Invariance, PTL

(* Head and tail stay as far apart as there are unread characters, and      *)
(* until a count slips no unread character is overwritten: for every BUFFER *)
(* the one slot keyboard_add_to_buffer leaves unused is enough.             *)
THEOREM RingIsFaithful == Spec => []RingHoldsAccepted
<1>1. IInv => RingHoldsAccepted
  BY DEF IInv
<1> QED BY <1>1, Invariance, PTL
===========================================================================
