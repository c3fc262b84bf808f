---------------------------- MODULE Allocator -----------------------------
(* What memory.c promises its callers: every allocation is at least as      *)
(* large as asked and overlaps no other and no header, a request is refused *)
(* only when nowhere in the heap a run of unused bytes could hold it and    *)
(* its header, and nothing but a free ends an allocation.                   *)
EXTENDS Integers

CONSTANTS SIZE,     \* bytes of the heap
          HEADER,   \* bytes in front of every allocation
          NULL

VARIABLES region,   \* the allocations: pointer -> usable length
          last      \* the last call: [asked |-> size, got |-> pointer]

Extent(p, n) == (p - HEADER) .. (p + n - 1)

Used == UNION {Extent(p, region[p]) : p \in DOMAIN region}

\* p is a place for n bytes and their header.
Fits(p, n) ==
    /\ Extent(p, n) \subseteq 0 .. SIZE - 1
    /\ Extent(p, n) \cap Used = {}

Without(p) == [r \in DOMAIN region \ {p} |-> region[r]]

With(f, p, n) == [r \in DOMAIN f \cup {p} |-> IF r = p THEN n ELSE f[r]]

Init == DOMAIN region = {} /\ last = [asked |-> 0, got |-> NULL]

\* f is what remains of the allocations when the new one is made.
Allocate(f) ==
    \E p \in HEADER .. SIZE, n \in 0 .. SIZE :
        /\ n >= last'.asked
        /\ Fits(p, n)
        /\ region' = With(f, p, n)
        /\ last'.got = p

Alloc == last'.asked > 0 /\ Allocate(region)

Free == \E p \in DOMAIN region : region' = Without(p) /\ last' = [asked |-> 0, got |-> NULL]

\* The allocation at p moves, and is released only after the new one is made.
Move == last'.asked > 0 /\ \E p \in DOMAIN region : Allocate(Without(p))

\* The allocation at p is already large enough.
Keep ==
    /\ last'.got \in DOMAIN region
    /\ region[last'.got] >= last'.asked
    /\ region' = region

Refuse ==
    /\ last'.got = NULL
    /\ last'.asked > 0 => \A p \in HEADER .. SIZE : ~Fits(p, last'.asked)
    /\ region' = region

Next == Alloc \/ Free \/ Move \/ Keep \/ Refuse

Spec == Init /\ [][Next]_<<region, last>>
===========================================================================
