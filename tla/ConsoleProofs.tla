--------------------------- MODULE ConsoleProofs ---------------------------
(* For every size of the screen and every distance of tab stops: wherever   *)
(* IRQ 1 interrupts console_putchar or console_clear, the cursor stays on   *)
(* the screen, and text is never written over while no character is torn.   *)
(* For every width of an int: numbers are read back as what was printed.    *)
EXTENDS Console, SequenceTheorems, WellFoundedInduction, TLAPS

---------------------------------------------------------------------------
(* The console as a value. *)

\* The sizes, without what is assumed of numbers that are printed.
LEMMA Sizes ==
    /\ WIDTH \in Nat /\ WIDTH > 1 /\ HEIGHT \in Nat /\ HEIGHT > 1
    /\ TAB \in Nat /\ TAB >= 1 /\ BELOW \in Nat /\ BELOW >= 1
    /\ NONE \notin Int
<1>1. TAB \in Nat \ {0} /\ BELOW \in Nat \ {0}
  BY ConsoleAssumption, Zenon
<1>2. WIDTH \in Nat /\ WIDTH > 1 /\ HEIGHT \in Nat /\ HEIGHT > 1 /\ NONE \notin Int
  BY ConsoleAssumption, Zenon
<1>3. TAB \in Nat /\ TAB >= 1 /\ BELOW \in Nat /\ BELOW >= 1
  BY <1>1
<1> QED BY <1>2, <1>3, Zenon

\* Cells on the screen, and a cursor whose column is.
Consoles == [cells : SUBSET Cell, row : Nat, column : 0 .. WIDTH - 1]

\* Every cell comes before the place in row r and column c.
Before(cells, r, c) == \A cell \in cells : cell[1] < r \/ (cell[1] = r /\ cell[2] < c)

\* What an interrupt finds and leaves between two characters.
Tidy(k) == k.row < HEIGHT /\ Before(k.cells, k.row, k.column)

\* A cell has a row and a column.
LEMMA CellParts ==
    ASSUME NEW cell \in Cell
    PROVE  /\ cell[1] \in 0 .. HEIGHT - 1 /\ cell[2] \in 0 .. WIDTH - 1
           /\ cell = <<cell[1], cell[2]>>
BY DEF Cell

\* The first loop of console_scroll leaves nothing for the last row.
LEMMA ScrolledCells ==
    ASSUME NEW cells \in SUBSET Cell
    PROVE  /\ Scrolled(cells) \in SUBSET Cell
           /\ \A cell \in Scrolled(cells) : cell[1] < HEIGHT - 1
<1> SUFFICES ASSUME NEW d \in Scrolled(cells)
             PROVE  d \in Cell /\ d[1] < HEIGHT - 1
  OBVIOUS
<1>1. PICK cell \in cells : cell[1] > 0 /\ d = <<cell[1] - 1, cell[2]>>
  BY DEF Scrolled
<1>2. cell[1] \in 0 .. HEIGHT - 1 /\ cell[2] \in 0 .. WIDTH - 1
  BY CellParts
<1>3. /\ cell[1] - 1 \in 0 .. HEIGHT - 1 /\ cell[1] - 1 < HEIGHT - 1
      /\ d[1] = cell[1] - 1
  BY <1>1, <1>2, Sizes
<1> QED BY <1>1, <1>2, <1>3 DEF Cell

(* A new line: never past the last row from a row on the screen, and blank  *)
(* if nothing is below the row that is left.                                *)
LEMMA NewLineKeeps ==
    ASSUME NEW k \in Consoles
    PROVE  /\ NewLine(k) \in Consoles
           /\ k.row < HEIGHT => NewLine(k).row < HEIGHT
           /\ k.row < HEIGHT /\ Before(k.cells, k.row + 1, 0) => Tidy(NewLine(k))
<1> USE Sizes
<1>0. k.cells \in SUBSET Cell /\ k.row \in Nat /\ k.column \in 0 .. WIDTH - 1
  BY DEF Consoles
<1>1. CASE k.row + 1 = HEIGHT
  <2>1. NewLine(k) = [cells |-> Scrolled(k.cells), row |-> HEIGHT - 1, column |-> 0]
    BY <1>1 DEF NewLine
  <2>2. Before(Scrolled(k.cells), HEIGHT - 1, 0)
    BY <1>0, ScrolledCells DEF Before
  <2>3. NewLine(k) \in Consoles
    BY <1>0, <2>1, ScrolledCells DEF Consoles
  <2> QED BY <2>1, <2>2, <2>3 DEF Tidy
<1>2. CASE k.row + 1 # HEIGHT
  <2>1. /\ NewLine(k) \in Consoles
        /\ NewLine(k).cells = k.cells /\ NewLine(k).row = k.row + 1 /\ NewLine(k).column = 0
    <3>1. NewLine(k) = [k EXCEPT !.row = @ + 1, !.column = 0]
      BY <1>2 DEF NewLine
    <3>2. k.row + 1 \in Nat /\ 0 \in 0 .. WIDTH - 1
      BY <1>0
    <3> QED BY <1>0, <3>1, <3>2 DEF Consoles
  <2>2. k.row < HEIGHT => k.row + 1 < HEIGHT
    BY <1>0, <1>2
  <2> QED BY <2>1, <2>2 DEF Tidy
<1> QED BY <1>1, <1>2

\* One cell more, and the cursor after it.
LEMMA PutVisibleKeeps ==
    ASSUME NEW k \in Consoles
    PROVE  /\ PutVisible(k) \in Consoles
           /\ k.row < HEIGHT => PutVisible(k).row < HEIGHT
           /\ Tidy(k) => Tidy(PutVisible(k))
<1> USE Sizes
<1> DEFINE shown == [k EXCEPT !.cells = @ \cup ({<<k.row, k.column>>} \cap Cell)]
<1>0. k.cells \in SUBSET Cell /\ k.row \in Nat /\ k.column \in 0 .. WIDTH - 1
  BY DEF Consoles
<1>1. /\ shown \in Consoles /\ shown.row = k.row /\ shown.column = k.column
      /\ shown.cells = k.cells \cup ({<<k.row, k.column>>} \cap Cell)
  BY <1>0 DEF Consoles
<1>2. Tidy(k) => Before(shown.cells, k.row, k.column + 1)
  <2> SUFFICES ASSUME Tidy(k), NEW cell \in shown.cells
               PROVE  cell[1] < k.row \/ (cell[1] = k.row /\ cell[2] < k.column + 1)
    BY DEF Before
  <2>1. CASE cell \in k.cells
    <3>1. cell[1] \in Nat /\ cell[2] \in Nat
      BY <1>0, <2>1, CellParts
    <3> QED BY <1>0, <2>1, <3>1 DEF Tidy, Before
  <2>2. CASE cell = <<k.row, k.column>>
    BY <1>0, <2>2
  <2> HIDE DEF shown
  <2> QED BY <1>1, <2>1, <2>2
<1>3. CASE k.column + 1 = WIDTH
  <2>1. PutVisible(k) = NewLine(shown)
    BY <1>3 DEF PutVisible
  <2>2. Tidy(k) => Before(shown.cells, shown.row + 1, 0)
    <3> SUFFICES ASSUME Tidy(k), NEW cell \in shown.cells
                 PROVE  cell[1] < k.row + 1
      BY <1>1 DEF Before
    <3>1. cell[1] \in Nat
      BY <1>1, CellParts DEF Consoles
    <3>2. cell[1] <= k.row
      BY <1>0, <1>2, <3>1 DEF Before
    <3> QED BY <1>0, <3>1, <3>2
  <2> HIDE DEF shown
  <2> QED BY <1>1, <2>1, <2>2, NewLineKeeps DEF Tidy
<1>4. CASE k.column + 1 # WIDTH
  <2>1. /\ PutVisible(k) = [shown EXCEPT !.column = @ + 1]
        /\ k.column + 1 \in 0 .. WIDTH - 1
    BY <1>0, <1>4 DEF PutVisible
  <2> HIDE DEF shown
  <2>2. /\ PutVisible(k) \in Consoles /\ PutVisible(k).row = k.row
        /\ PutVisible(k).column = k.column + 1 /\ PutVisible(k).cells = shown.cells
    BY <1>1, <2>1 DEF Consoles
  <2> QED BY <1>2, <2>2 DEF Tidy
<1> QED BY <1>3, <1>4

\* The cell before the cursor is cleared, also that at the end of the line above.
LEMMA BackspaceKeeps ==
    ASSUME NEW k \in Consoles
    PROVE  /\ console_backspace(k) \in Consoles
           /\ k.row < HEIGHT => console_backspace(k).row < HEIGHT
           /\ Tidy(k) => Tidy(console_backspace(k))
<1> USE Sizes
<1>0. k.cells \in SUBSET Cell /\ k.row \in Nat /\ k.column \in 0 .. WIDTH - 1
  BY DEF Consoles
<1>1. CASE k.column > 0
  <2>1. console_backspace(k) = [k EXCEPT !.column = @ - 1,
                                         !.cells = @ \ {<<k.row, k.column - 1>>}]
    BY <1>1 DEF console_backspace
  <2>2. /\ console_backspace(k) \in Consoles /\ console_backspace(k).row = k.row
        /\ console_backspace(k).column = k.column - 1
        /\ console_backspace(k).cells = k.cells \ {<<k.row, k.column - 1>>}
    <3>1. /\ k.column - 1 \in 0 .. WIDTH - 1
          /\ k.cells \ {<<k.row, k.column - 1>>} \in SUBSET Cell
      BY <1>0, <1>1
    <3>2. console_backspace(k) = [cells |-> k.cells \ {<<k.row, k.column - 1>>},
                                  row |-> k.row, column |-> k.column - 1]
      BY <2>1 DEF Consoles
    <3> QED BY <1>0, <3>1, <3>2 DEF Consoles
  <2>3. Tidy(k) => Before(k.cells \ {<<k.row, k.column - 1>>}, k.row, k.column - 1)
    <3> SUFFICES ASSUME Tidy(k), NEW cell \in k.cells, cell # <<k.row, k.column - 1>>
                 PROVE  cell[1] < k.row \/ (cell[1] = k.row /\ cell[2] < k.column - 1)
      BY DEF Before
    <3>1. cell[1] \in Nat /\ cell[2] \in Nat /\ cell = <<cell[1], cell[2]>>
      BY <1>0, CellParts
    <3>2. cell[1] < k.row \/ (cell[1] = k.row /\ cell[2] < k.column)
      BY DEF Tidy, Before
    <3> QED BY <1>0, <3>1, <3>2
  <2> QED BY <2>2, <2>3 DEF Tidy
<1>2. CASE k.column = 0 /\ k.row > 0
  <2>1. console_backspace(k) = [cells |-> k.cells \ {<<k.row - 1, WIDTH - 1>>},
                                row |-> k.row - 1, column |-> WIDTH - 1]
    BY <1>2 DEF console_backspace
  <2>2. /\ console_backspace(k) \in Consoles
        /\ k.row < HEIGHT => k.row - 1 < HEIGHT
    BY <1>0, <1>2, <2>1 DEF Consoles
  <2>3. Tidy(k) => Before(k.cells \ {<<k.row - 1, WIDTH - 1>>}, k.row - 1, WIDTH - 1)
    <3> SUFFICES ASSUME Tidy(k), NEW cell \in k.cells, cell # <<k.row - 1, WIDTH - 1>>
                 PROVE  cell[1] < k.row - 1 \/ (cell[1] = k.row - 1 /\ cell[2] < WIDTH - 1)
      BY DEF Before
    <3>1. /\ cell[1] \in Nat /\ cell[2] \in 0 .. WIDTH - 1 /\ cell = <<cell[1], cell[2]>>
      BY <1>0, CellParts
    <3>2. cell[1] < k.row \/ (cell[1] = k.row /\ cell[2] < k.column)
      BY DEF Tidy, Before
    <3> QED BY <1>0, <1>2, <3>1, <3>2
  <2> QED BY <2>1, <2>2, <2>3 DEF Tidy
<1>3. CASE k.column = 0 /\ k.row = 0
  BY <1>3 DEF console_backspace
<1> QED BY <1>0, <1>1, <1>2, <1>3

\* The echo of a key as a whole.
LEMMA EchoKeeps ==
    ASSUME NEW k \in Consoles, NEW key \in Keys
    PROVE  /\ Echo(k, key) \in Consoles
           /\ k.row < HEIGHT => Echo(k, key).row < HEIGHT
           /\ Tidy(k) => Tidy(Echo(k, key))
<1>0. ASSUME NEW j \in Consoles
      PROVE  Tidy(j) => j.row < HEIGHT /\ Before(j.cells, j.row + 1, 0)
  <2> SUFFICES ASSUME Tidy(j), NEW cell \in j.cells
               PROVE  cell[1] < j.row + 1
    BY DEF Tidy, Before
  <2>1. cell[1] \in Nat /\ j.row \in Nat
    BY CellParts, Sizes DEF Consoles
  <2> QED BY <2>1 DEF Tidy, Before
<1>1. CASE key = "letter"
  BY <1>1, PutVisibleKeeps DEF Echo
<1>2. CASE key = "enter"
  BY <1>0, <1>2, NewLineKeeps DEF Echo
<1>3. CASE key = "backspace"
  BY <1>3, BackspaceKeeps DEF Echo
<1>4. CASE key = "function"
  <2>1. Echo(k, key) = NewLine(PutVisible(NewLine(k)))
    BY <1>4 DEF Echo
  <2>2. /\ NewLine(k) \in Consoles
        /\ k.row < HEIGHT => NewLine(k).row < HEIGHT
        /\ Tidy(k) => Tidy(NewLine(k))
    BY <1>0, NewLineKeeps
  <2>3. /\ PutVisible(NewLine(k)) \in Consoles
        /\ k.row < HEIGHT => PutVisible(NewLine(k)).row < HEIGHT
        /\ Tidy(k) => Tidy(PutVisible(NewLine(k)))
    BY <2>2, PutVisibleKeeps
  <2> QED BY <1>0, <2>1, <2>3, NewLineKeeps
<1> QED BY <1>1, <1>2, <1>3, <1>4 DEF Keys

---------------------------------------------------------------------------
(* The inductive invariant. *)

\* The fields of the writer; its steps do not go by the type of the others.
IsWriter(w) ==
    /\ DOMAIN w = {"pc", "c", "left", "line", "col", "row", "number"}
    /\ w.pc \in Accesses /\ w.c \in Chars
    /\ w.col \in 0 .. WIDTH - 1
    /\ w.row \in (0 .. HEIGHT - 1) \cup {NONE}
    /\ w.pc \in {"cell", "store row"} => w.row # NONE
    /\ w.pc = "cell" => w.c = "x"

\* What comes next is a character's first access.
IsBetween(w) ==
    \/ w.pc \in {"next", "load column"}
    \/ w.pc = "load row" /\ w.c = "newline"
    \/ w.pc = "zero column" /\ w.c = "return"

ConsoleOK ==
    /\ screen \in SUBSET Cell
    /\ console_row \in 0 .. HEIGHT + BELOW - 1
    /\ console_column \in 0 .. WIDTH - 1
    /\ torn \in BOOLEAN

(* While no interrupt tore a character: between two of them the screen is   *)
(* blank from the cursor on.  Inside one what is in the registers is what   *)
(* is in memory, and what is on the screen comes before the place that the  *)
(* cursor is about to be moved to.                                          *)
Midway ==
    torn = FALSE =>
        /\ IsBetween(writer) =>
              Before(screen, console_row, console_column)
        /\ writer.pc = "load row" =>
              /\ writer.c = "x" => writer.col = console_column
              /\ Before(screen, console_row, console_column)
        /\ writer.pc = "cell" =>
              /\ writer.row = console_row /\ writer.col = console_column
              /\ Before(screen, console_row, console_column)
        /\ writer.pc = "store column" =>
              Before(screen, console_row, writer.col)
        /\ writer.pc = "zero column" /\ writer.c # "return" =>
              /\ writer.row = NONE => Before(screen, console_row, 0)
              /\ writer.row # NONE => /\ writer.row = console_row
                                      /\ Before(screen, console_row + 1, 0)
        /\ writer.pc = "store row" =>
              /\ writer.row = console_row /\ console_column = 0
              /\ Before(screen, console_row + 1, 0)
        /\ writer.pc = "last row" =>
              Before(screen, HEIGHT - 1, 0)
        /\ writer.pc = "first row" =>
              screen = {}

IInv == ConsoleOK /\ IsWriter(writer) /\ CursorOnScreen /\ Midway

\* The invariant says what TypeOK and BlankAfterCursor say.
LEMMA IInvSuffices ==
    ASSUME IInv
    PROVE  TypeOK /\ BlankAfterCursor
<1>1. TypeOK
  BY DEF IInv, ConsoleOK, IsWriter, TypeOK
<1>2. BlankAfterCursor
  <2> SUFFICES ASSUME ~torn, BetweenCharacters, NEW cell \in screen
               PROVE  ~AtOrAfterCursor(cell)
    BY DEF BlankAfterCursor
  <2>1. torn = FALSE
    BY Zenon DEF IInv, ConsoleOK
  <2>2. Before(screen, console_row, console_column)
    BY <2>1 DEF IInv, Midway, IsBetween, BetweenCharacters
  <2>3. /\ cell[1] \in Int /\ cell[2] \in Int
        /\ console_row \in Int /\ console_column \in Int
    BY CellParts, Sizes DEF IInv, ConsoleOK
  <2> QED BY <2>2, <2>3 DEF Before, AtOrAfterCursor
<1> QED BY <1>1, <1>2

\* kmain clears the console before it prints.
LEMMA InitIInv == Init => IInv
<1> SUFFICES ASSUME Init
             PROVE  IInv
  OBVIOUS
<1> USE Sizes DEF Init
<1>1. ConsoleOK
  <2>1. torn \in BOOLEAN
    BY Zenon
  <2> QED BY <2>1 DEF ConsoleOK
<1>2. IsWriter(writer)
  BY DEF IsWriter, Free, Accesses, Chars
<1>3. CursorOnScreen
  <2>1. console_row < HEIGHT
    OBVIOUS
  <2> QED BY <2>1, Zenon DEF CursorOnScreen
<1>4. Midway
  BY DEF Midway, Before, Free
<1> QED BY <1>1, <1>2, <1>3, <1>4 DEF IInv

---------------------------------------------------------------------------
(* The writer. *)

\* Characters handed to console_putchar start with their first access.
LEMMA PuttingStarts ==
    ASSUME NEW w, IsWriter(w), IsBetween(w), NEW c \in Chars, NEW n
    PROVE  IsWriter(Putting(w, c, n)) /\ IsBetween(Putting(w, c, n))
<1>1. CASE n = 0
  BY <1>1 DEF Putting
<1>2. CASE n # 0
  <2> DEFINE v == [w EXCEPT !.pc = FirstAccess(c), !.c = c, !.left = n]
  <2>1. Putting(w, c, n) = v
    BY <1>2 DEF Putting
  <2>2. /\ DOMAIN v = DOMAIN w /\ v.pc = FirstAccess(c) /\ v.c = c
        /\ v.col = w.col /\ v.row = w.row
    BY DEF IsWriter
  <2>3. \/ FirstAccess(c) = "load column"
        \/ FirstAccess(c) = "load row" /\ c = "newline"
        \/ FirstAccess(c) = "zero column" /\ c = "return"
    BY DEF FirstAccess, Chars
  <2> HIDE DEF v
  <2> QED BY <2>1, <2>2, <2>3 DEF IsWriter, IsBetween, Accesses
<1> QED BY <1>1, <1>2

\* After a character comes a first access, or the next directive.
LEMMA DoneIsBetween ==
    ASSUME IsWriter(writer)
    PROVE  IsWriter(Done) /\ IsBetween(Done)
<1> DEFINE w == [writer EXCEPT !.col = 0, !.row = 0, !.number = NONE]
<1>0. /\ 0 \in 0 .. WIDTH - 1 /\ 0 \in (0 .. HEIGHT - 1) \cup {NONE} /\ 0 # NONE
  <2>1. 0 \in Int /\ 0 \in 0 .. WIDTH - 1 /\ 0 \in 0 .. HEIGHT - 1
    BY Sizes
  <2>2. 0 # NONE
    BY <2>1, Sizes, Zenon
  <2> QED BY <2>1, <2>2
<1>1. /\ DOMAIN w = {"pc", "c", "left", "line", "col", "row", "number"}
      /\ w.c \in Chars /\ w.col = 0 /\ w.row = 0
  BY DEF IsWriter
<1>2. \/ FirstAccess(w.c) = "load column"
      \/ FirstAccess(w.c) = "load row" /\ w.c = "newline"
      \/ FirstAccess(w.c) = "zero column" /\ w.c = "return"
  BY <1>1 DEF FirstAccess, Chars
<1>3. CASE w.left > 1
  <2> DEFINE v == [w EXCEPT !.left = @ - 1, !.pc = FirstAccess(w.c)]
  <2>1. Done = v
    BY <1>3 DEF Done
  <2>2. /\ DOMAIN v = DOMAIN w /\ v.pc = FirstAccess(w.c) /\ v.c = w.c
        /\ v.col = 0 /\ v.row = 0
    <3> HIDE DEF w
    <3> QED BY <1>1
  <2> HIDE DEF v, w
  <2> QED BY <1>0, <1>1, <1>2, <2>1, <2>2 DEF IsWriter, IsBetween, Accesses
<1>4. CASE ~(w.left > 1) /\ w.line
  <2> DEFINE u == [w EXCEPT !.line = FALSE]
             v == [u EXCEPT !.pc = "load row", !.c = "newline", !.left = 1]
  <2>1. Done = v
    BY <1>4 DEF Done, Putting, FirstAccess
  <2>2. DOMAIN u = DOMAIN w /\ u.col = 0 /\ u.row = 0
    <3> HIDE DEF w
    <3> QED BY <1>1
  <2>3. /\ DOMAIN v = DOMAIN w /\ v.pc = "load row" /\ v.c = "newline"
        /\ v.col = 0 /\ v.row = 0
    <3> HIDE DEF w, u
    <3> QED BY <1>1, <2>2
  <2> HIDE DEF u, v, w
  <2> QED BY <1>0, <1>1, <2>1, <2>3 DEF IsWriter, IsBetween, Accesses, Chars
<1>5. CASE ~(w.left > 1) /\ ~w.line
  <2> DEFINE v == [w EXCEPT !.left = 0, !.c = "x", !.pc = "next"]
  <2>1. Done = v
    BY <1>5 DEF Done
  <2>2. DOMAIN v = DOMAIN w /\ v.pc = "next" /\ v.c = "x" /\ v.col = 0 /\ v.row = 0
    <3> HIDE DEF w
    <3> QED BY <1>1
  <2> HIDE DEF v, w
  <2> QED BY <1>0, <1>1, <2>1, <2>2 DEF IsWriter, IsBetween, Accesses, Chars
<1> QED BY <1>3, <1>4, <1>5

---------------------------------------------------------------------------
(* Every step keeps the invariant. *)

(* IRQ 1 at any access: between two characters it finds a tidy console and  *)
(* leaves one, elsewhere it tears the character.                            *)
LEMMA KeyKeepsIInv ==
    ASSUME IInv, NEW key \in Keys, keyboard_handler(key)
    PROVE  IInv'
<1> DEFINE k == [cells |-> screen, row |-> console_row, column |-> console_column]
           after == Echo(k, key)
<1>0. ConsoleOK /\ IsWriter(writer) /\ CursorOnScreen /\ Midway
  BY DEF IInv
<1>1. k \in Consoles /\ k.cells = screen /\ k.row = console_row /\ k.column = console_column
  BY <1>0, Sizes DEF ConsoleOK, Consoles
<1>2. /\ after.row < HEIGHT + BELOW
      /\ screen' = after.cells /\ console_row' = after.row /\ console_column' = after.column
      /\ torn' = (torn \/ ~BetweenCharacters)
      /\ writer' = writer
  BY DEF keyboard_handler
<1> HIDE DEF k
<1>3. /\ after \in Consoles
      /\ k.row < HEIGHT => after.row < HEIGHT
      /\ Tidy(k) => Tidy(after)
  BY <1>1, EchoKeeps
<1> HIDE DEF after
<1>4. torn' \in BOOLEAN /\ (torn' = FALSE => torn = FALSE /\ IsBetween(writer))
  <2>1. torn \in BOOLEAN
    BY <1>0 DEF ConsoleOK
  <2>2. BetweenCharacters <=> IsBetween(writer)
    BY Zenon DEF BetweenCharacters, IsBetween
  <2>3. torn' = FALSE => ~torn /\ BetweenCharacters
    BY <1>2, Zenon
  <2>4. torn' \in BOOLEAN
    BY <1>2, Zenon
  <2> QED BY <2>1, <2>2, <2>3, <2>4, Zenon
<1>5. ConsoleOK'
  <2>1. /\ after.cells \in SUBSET Cell /\ after.row \in Nat
        /\ after.column \in 0 .. WIDTH - 1
    BY <1>3 DEF Consoles
  <2>2. after.row \in 0 .. HEIGHT + BELOW - 1
    BY <1>2, <2>1, Sizes
  <2> QED BY <1>2, <1>4, <2>1, <2>2 DEF ConsoleOK
<1>6. IsWriter(writer')
  BY <1>0, <1>2
<1>7. CursorOnScreen'
  BY <1>0, <1>1, <1>2, <1>3 DEF CursorOnScreen
<1>8. Midway'
  <2> SUFFICES ASSUME torn' = FALSE
               PROVE  Midway'
    BY DEF Midway
  <2>1. torn = FALSE /\ IsBetween(writer)
    BY <1>4
  <2>2. Before(screen, console_row, console_column)
    BY <1>0, <2>1 DEF Midway
  <2>3. console_row < HEIGHT
    BY <1>0, <2>1 DEF CursorOnScreen, IsBetween
  <2>4. Tidy(after)
    BY <1>1, <1>3, <2>2, <2>3 DEF Tidy
  <2>5. Before(screen', console_row', console_column')
    BY <1>2, <2>4 DEF Tidy
  <2> QED BY <1>2, <2>1, <2>5 DEF Midway, IsBetween
<1> QED BY <1>5, <1>6, <1>7, <1>8 DEF IInv

\* A directive of the format: from "next" to the first access of a character.
LEMMA PrintkKeepsIInv ==
    ASSUME IInv, printk
    PROVE  IInv'
<1>0. ConsoleOK /\ IsWriter(writer) /\ CursorOnScreen /\ Midway
  BY DEF IInv
<1>1. /\ writer.pc = "next"
      /\ UNCHANGED <<screen, console_row, console_column, torn>>
  BY DEF printk, console
<1>2. IsBetween(writer)
  BY <1>1 DEF IsBetween
<1>3. IsWriter(writer') /\ IsBetween(writer')
  <2>1. ASSUME NEW c \in Chars, NEW n, writer' = Putting(writer, c, n)
        PROVE  IsWriter(writer') /\ IsBetween(writer')
    BY <1>0, <1>2, <2>1, PuttingStarts
  <2>2. "x" \in Chars
    BY DEF Chars
  <2>3. CASE \/ \E c \in Chars : Ordinary(c)
             \/ ConvertString \/ ConvertChar \/ Unknown
    BY <2>1, <2>2, <2>3 DEF Ordinary, ConvertString, ConvertChar, Unknown
  <2>4. CASE ConvertNumber
    <3>1. PICK number, n : writer' = Putting([writer EXCEPT !.number = number], "x", n)
      BY <2>4, Zenon DEF ConvertNumber
    <3> DEFINE w == [writer EXCEPT !.number = number]
    <3>2. /\ DOMAIN w = DOMAIN writer /\ w.pc = writer.pc /\ w.c = writer.c
          /\ w.col = writer.col /\ w.row = writer.row
      BY <1>0 DEF IsWriter
    <3>3. writer' = Putting(w, "x", n)
      BY <3>1
    <3> HIDE DEF w
    <3>4. IsWriter(w) /\ IsBetween(w)
      BY <1>0, <1>1, <3>2 DEF IsWriter, IsBetween
    <3> QED BY <2>2, <3>3, <3>4, PuttingStarts
  <2>5. CASE Log
    <3>1. PICK n : writer' = [Putting(Free, "x", n) EXCEPT !.line = TRUE]
      BY <2>5, Zenon DEF Log
    <3>2. IsWriter(Free) /\ IsBetween(Free)
      BY Sizes DEF IsWriter, IsBetween, Free, Accesses, Chars
    <3> DEFINE w == Putting(Free, "x", n)
    <3>3. IsWriter(w) /\ IsBetween(w)
      BY <2>2, <3>2, PuttingStarts
    <3>4. writer' = [w EXCEPT !.line = TRUE]
      BY <3>1
    <3> HIDE DEF w
    <3>5. /\ DOMAIN writer' = DOMAIN w /\ writer'.pc = w.pc /\ writer'.c = w.c
          /\ writer'.col = w.col /\ writer'.row = w.row
      BY <3>3, <3>4 DEF IsWriter
    <3> QED BY <3>3, <3>5 DEF IsWriter, IsBetween
  <2> QED BY <2>3, <2>4, <2>5 DEF printk
<1>4. ConsoleOK'
  BY <1>0, <1>1 DEF ConsoleOK
<1>5. CursorOnScreen'
  BY <1>0, <1>1 DEF CursorOnScreen
<1>6. Midway'
  BY <1>0, <1>1, <1>2, <1>3 DEF Midway, IsBetween
<1> QED BY <1>3, <1>4, <1>5, <1>6 DEF IInv

\* A place further on comes after the same cells.
LEMMA BeforeLater ==
    ASSUME NEW cells \in SUBSET Cell, NEW r \in Nat, NEW c \in Nat, Before(cells, r, c)
    PROVE  /\ \A d \in Nat : c <= d => Before(cells, r, d)
           /\ Before(cells, r + 1, 0)
<1> SUFFICES ASSUME NEW cell \in cells, NEW d \in Nat, c <= d
             PROVE  /\ cell[1] < r \/ (cell[1] = r /\ cell[2] < d)
                    /\ cell[1] < r + 1
  <2>1. c <= c
    OBVIOUS
  <2> QED BY <2>1 DEF Before
<1>1. cell[1] \in Nat /\ cell[2] \in Nat
  BY CellParts, Sizes
<1>2. cell[1] < r \/ (cell[1] = r /\ cell[2] < c)
  BY DEF Before
<1> QED BY <1>1, <1>2

\* A tab stop lies after the column.
LEMMA StopIsAfter ==
    ASSUME NEW col \in Nat
    PROVE  Stop(col) \in Nat /\ col < Stop(col)
<1> DEFINE q == col \div TAB
           r == col % TAB
<1>1. q \in Nat /\ r \in 0 .. TAB - 1 /\ col = TAB * q + r
  BY Sizes
<1> HIDE DEF q, r
<1>2. (q + 1) * TAB = TAB * q + TAB /\ TAB * q \in Nat
  BY <1>1, Sizes
<1>3. TAB \in Nat /\ TAB >= 1
  BY Sizes
<1>4. (q + 1) * TAB \in Nat /\ col < (q + 1) * TAB
  BY ONLY <1>1, <1>2, <1>3, col \in Nat
<1> QED BY <1>4 DEF Stop, q

\* The loads: the registers hold what is in memory.
LEMMA LoadsKeepIInv ==
    ASSUME IInv, LoadColumn \/ LoadRow
    PROVE  IInv'
<1>0. ConsoleOK /\ IsWriter(writer) /\ CursorOnScreen /\ Midway
  BY DEF IInv
<1>1. UNCHANGED <<screen, console_row, console_column, torn>>
  BY DEF LoadColumn, LoadRow, console
<1>2. ConsoleOK'
  BY <1>0, <1>1 DEF ConsoleOK
<1>3. /\ screen \in SUBSET Cell /\ console_row \in Nat /\ console_column \in 0 .. WIDTH - 1
      /\ console_column \in Nat
  BY <1>0, Sizes DEF ConsoleOK
<1>4. CASE LoadColumn /\ writer.c = "tab" /\ Stop(console_column) < WIDTH
  <2>1. /\ writer.pc = "load column"
        /\ writer' = [GoTo("store column") EXCEPT !.col = Stop(console_column), !.number = NONE]
    BY <1>4 DEF LoadColumn
  <2>2. /\ DOMAIN writer' = DOMAIN writer /\ writer'.pc = "store column"
        /\ writer'.c = writer.c /\ writer'.col = Stop(console_column)
        /\ writer'.row = writer.row
    BY <1>0, <2>1 DEF IsWriter, GoTo
  <2>3. Stop(console_column) \in 0 .. WIDTH - 1 /\ console_column <= Stop(console_column)
    BY <1>3, <1>4, StopIsAfter, Sizes
  <2>4. IsWriter(writer')
    BY <1>0, <2>2, <2>3 DEF IsWriter, Accesses
  <2>5. CursorOnScreen'
    BY <1>0, <1>1, <2>1 DEF CursorOnScreen
  <2>6. torn = FALSE => Before(screen, console_row, Stop(console_column))
    BY <1>0, <1>3, <2>1, <2>3, BeforeLater, StopIsAfter DEF Midway, IsBetween
  <2>7. Midway'
    BY <1>1, <2>2, <2>6 DEF Midway, IsBetween
  <2> QED BY <1>2, <2>4, <2>5, <2>7 DEF IInv
<1>5. CASE LoadColumn /\ ~(writer.c = "tab" /\ Stop(console_column) < WIDTH)
  <2>1. /\ writer.pc = "load column"
        /\ writer' = [GoTo("load row") EXCEPT !.col = console_column, !.number = NONE]
    BY <1>5 DEF LoadColumn
  <2>2. /\ DOMAIN writer' = DOMAIN writer /\ writer'.pc = "load row"
        /\ writer'.c = writer.c /\ writer'.col = console_column
        /\ writer'.row = writer.row
    BY <1>0, <2>1 DEF IsWriter, GoTo
  <2>3. IsWriter(writer')
    BY <1>0, <1>3, <2>2 DEF IsWriter, Accesses
  <2>4. CursorOnScreen'
    BY <1>0, <1>1, <2>1 DEF CursorOnScreen
  <2>5. Midway'
    BY <1>0, <1>1, <2>1, <2>2 DEF Midway, IsBetween
  <2> QED BY <1>2, <2>3, <2>4, <2>5 DEF IInv
<1>6. CASE LoadRow
  <2> DEFINE pc == IF writer.c = "x" THEN "cell" ELSE "zero column"
  <2>1. writer.pc = "load row" /\ writer' = [GoTo(pc) EXCEPT !.row = console_row]
    BY <1>6 DEF LoadRow
  <2>2. /\ DOMAIN writer' = DOMAIN writer /\ writer'.pc = pc
        /\ writer'.c = writer.c /\ writer'.col = writer.col
        /\ writer'.row = console_row
    <3> HIDE DEF pc
    <3> QED BY <1>0, <2>1 DEF IsWriter, GoTo
  <2>3. console_row \in 0 .. HEIGHT - 1 /\ console_row # NONE
    <3>1. console_row < HEIGHT
      BY <1>0, <2>1 DEF CursorOnScreen
    <3>2. console_row \in 0 .. HEIGHT - 1 /\ console_row \in Int
      BY <1>3, <3>1, Sizes
    <3>3. console_row # NONE
      BY <3>2, Sizes, Zenon
    <3> QED BY <3>2, <3>3
  <2>4. IsWriter(writer')
    BY <1>0, <2>2, <2>3 DEF IsWriter, Accesses
  <2>5. CursorOnScreen'
    BY <1>0, <1>1, <2>1 DEF CursorOnScreen
  <2>6. torn = FALSE => /\ Before(screen, console_row, console_column)
                        /\ Before(screen, console_row + 1, 0)
                        /\ writer.c = "x" => writer.col = console_column
    BY <1>0, <1>3, <2>1, BeforeLater DEF Midway
  <2>7. Midway'
    BY <1>1, <2>2, <2>3, <2>6 DEF Midway, IsBetween
  <2> QED BY <1>2, <2>4, <2>5, <2>7 DEF IInv
<1> QED BY <1>4, <1>5, <1>6

\* The cell at the cursor; what is on the screen then comes before the next.
LEMMA CellKeepsIInv ==
    ASSUME IInv, console_putchar_at
    PROVE  IInv'
<1>0. ConsoleOK /\ IsWriter(writer) /\ CursorOnScreen /\ Midway
  BY DEF IInv
<1>1. /\ writer.pc = "cell"
      /\ screen' = screen \cup ({<<writer.row, writer.col>>} \cap Cell)
      /\ UNCHANGED <<console_row, console_column, torn>>
  BY DEF console_putchar_at
<1>2. /\ screen \in SUBSET Cell /\ screen' \in SUBSET Cell
      /\ console_row \in Nat /\ console_column \in 0 .. WIDTH - 1 /\ console_column \in Nat
      /\ writer.col \in 0 .. WIDTH - 1 /\ writer.row # NONE
  BY <1>0, <1>1, Sizes DEF ConsoleOK, IsWriter
<1>3. ConsoleOK'
  BY <1>0, <1>1, <1>2 DEF ConsoleOK
<1>4. CursorOnScreen'
  BY <1>0, <1>1 DEF CursorOnScreen
<1>5. torn = FALSE => /\ writer.row = console_row /\ writer.col = console_column
                      /\ Before(screen', console_row, console_column + 1)
                      /\ Before(screen', console_row + 1, 0)
  <2> SUFFICES ASSUME torn = FALSE
               PROVE  /\ writer.row = console_row /\ writer.col = console_column
                      /\ Before(screen', console_row, console_column + 1)
                      /\ Before(screen', console_row + 1, 0)
    OBVIOUS
  <2>1. /\ writer.row = console_row /\ writer.col = console_column
        /\ Before(screen, console_row, console_column)
    BY <1>0, <1>1 DEF Midway
  <2>2. Before(screen', console_row, console_column + 1)
    <3> SUFFICES ASSUME NEW cell \in screen'
                 PROVE  \/ cell[1] < console_row
                        \/ cell[1] = console_row /\ cell[2] < console_column + 1
      BY DEF Before
    <3>1. CASE cell \in screen
      <4>1. cell[1] \in Nat /\ cell[2] \in Nat
        BY <1>2, <3>1, CellParts, Sizes
      <4> QED BY <1>2, <2>1, <3>1, <4>1 DEF Before
    <3>2. CASE cell = <<console_row, console_column>>
      BY <1>2, <3>2
    <3> QED BY <1>1, <2>1, <3>1, <3>2
  <2>3. console_column + 1 \in Nat
    BY <1>2
  <2> QED BY <1>2, <2>1, <2>2, <2>3, BeforeLater
<1>6. CASE writer.col + 1 = WIDTH
  <2>1. writer' = GoTo("zero column")
    BY <1>6 DEF console_putchar_at
  <2>2. /\ DOMAIN writer' = DOMAIN writer /\ writer'.pc = "zero column"
        /\ writer'.c = writer.c /\ writer'.col = writer.col /\ writer'.row = writer.row
    BY <1>0, <2>1 DEF IsWriter, GoTo
  <2>3. IsWriter(writer')
    BY <1>0, <2>2 DEF IsWriter, Accesses
  <2>4. writer'.c = "x"
    BY <1>0, <1>1, <2>2 DEF IsWriter
  <2>5. Midway'
    BY <1>1, <1>2, <1>5, <2>2, <2>4 DEF Midway, IsBetween
  <2> QED BY <1>3, <1>4, <2>3, <2>5 DEF IInv
<1>7. CASE writer.col + 1 # WIDTH
  <2>1. writer' = [GoTo("store column") EXCEPT !.col = @ + 1]
    BY <1>7 DEF console_putchar_at
  <2>2. /\ DOMAIN writer' = DOMAIN writer /\ writer'.pc = "store column"
        /\ writer'.c = writer.c /\ writer'.col = writer.col + 1 /\ writer'.row = writer.row
    BY <1>0, <2>1 DEF IsWriter, GoTo
  <2>3. writer.col + 1 \in 0 .. WIDTH - 1
    BY <1>2, <1>7, Sizes
  <2>4. IsWriter(writer')
    BY <1>0, <2>2, <2>3 DEF IsWriter, Accesses
  <2>5. Midway'
    BY <1>1, <1>5, <2>2 DEF Midway, IsBetween
  <2> QED BY <1>3, <1>4, <2>4, <2>5 DEF IInv
<1> QED BY <1>6, <1>7

\* The column is stored, and the character is done.
LEMMA StoreColumnKeepsIInv ==
    ASSUME IInv, StoreColumn
    PROVE  IInv'
<1>0. ConsoleOK /\ IsWriter(writer) /\ CursorOnScreen /\ Midway
  BY DEF IInv
<1>1. /\ writer.pc = "store column" /\ console_column' = writer.col /\ writer' = Done
      /\ UNCHANGED <<screen, console_row, torn>>
  BY DEF StoreColumn
<1>2. ConsoleOK'
  BY <1>0, <1>1 DEF ConsoleOK, IsWriter
<1>3. IsWriter(writer') /\ IsBetween(writer')
  BY <1>0, <1>1, DoneIsBetween
<1>4. CursorOnScreen'
  BY <1>0, <1>1 DEF CursorOnScreen
<1>5. Midway'
  BY <1>0, <1>1, <1>3 DEF Midway, IsBetween
<1> QED BY <1>2, <1>3, <1>4, <1>5 DEF IInv

(* Column 0, before the next row or as the last access of console_scroll,   *)
(* console_clear or \r.                                                     *)
LEMMA ZeroColumnKeepsIInv ==
    ASSUME IInv, ZeroColumn
    PROVE  IInv'
<1>0. ConsoleOK /\ IsWriter(writer) /\ CursorOnScreen /\ Midway
  BY DEF IInv
<1>1. /\ writer.pc = "zero column" /\ console_column' = 0
      /\ torn' = (torn \/ writer.c = "return")
      /\ UNCHANGED <<screen, console_row>>
  BY DEF ZeroColumn
<1>2. torn' \in BOOLEAN /\ (torn' = FALSE => torn = FALSE /\ writer.c # "return")
  <2>1. torn \in BOOLEAN
    BY <1>0 DEF ConsoleOK
  <2> QED BY <1>1, <2>1, Zenon
<1>3. ConsoleOK'
  <2>1. 0 \in 0 .. WIDTH - 1
    BY Sizes
  <2> QED BY <1>0, <1>1, <1>2, <2>1 DEF ConsoleOK
<1>4. console_row < HEIGHT
  BY <1>0, <1>1 DEF CursorOnScreen
<1>5. CursorOnScreen'
  BY <1>1, <1>4 DEF CursorOnScreen
<1>6. CASE writer.c = "return" \/ writer.row = NONE
  <2>1. writer' = Done
    BY <1>6 DEF ZeroColumn
  <2>2. IsWriter(writer') /\ IsBetween(writer')
    BY <1>0, <2>1, DoneIsBetween
  <2>3. Midway'
    BY <1>0, <1>1, <1>2, <1>6, <2>2 DEF Midway, IsBetween
  <2> QED BY <1>3, <1>5, <2>2, <2>3 DEF IInv
<1>7. CASE ~(writer.c = "return" \/ writer.row = NONE)
  <2>1. writer' = GoTo("store row")
    BY <1>7 DEF ZeroColumn
  <2>2. /\ DOMAIN writer' = DOMAIN writer /\ writer'.pc = "store row"
        /\ writer'.c = writer.c /\ writer'.col = writer.col /\ writer'.row = writer.row
    BY <1>0, <2>1 DEF IsWriter, GoTo
  <2>3. IsWriter(writer')
    BY <1>0, <1>7, <2>2 DEF IsWriter, Accesses
  <2>4. Midway'
    BY <1>0, <1>1, <1>2, <1>7, <2>2 DEF Midway, IsBetween
  <2> QED BY <1>3, <1>5, <2>3, <2>4 DEF IInv
<1> QED BY <1>6, <1>7

\* The row is stored; only when it is HEIGHT does console_scroll follow.
LEMMA StoreRowKeepsIInv ==
    ASSUME IInv, StoreRow
    PROVE  IInv'
<1>0. ConsoleOK /\ IsWriter(writer) /\ CursorOnScreen /\ Midway
  BY DEF IInv
<1>1. /\ writer.pc = "store row" /\ console_row' = writer.row + 1
      /\ UNCHANGED <<screen, console_column, torn>>
  BY DEF StoreRow
<1>2. writer.row \in 0 .. HEIGHT - 1
  BY <1>0, <1>1 DEF IsWriter
<1>3. console_row' \in 0 .. HEIGHT + BELOW - 1
  <2>1. writer.row + 1 \in 0 .. HEIGHT + BELOW - 1
    BY <1>2, Sizes
  <2> QED BY <1>1, <2>1, Zenon
<1>4. ConsoleOK'
  BY <1>0, <1>1, <1>3 DEF ConsoleOK
<1>5. CASE writer.row + 1 = HEIGHT
  <2>1. writer' = GoTo("copy")
    BY <1>5 DEF StoreRow
  <2>2. /\ DOMAIN writer' = DOMAIN writer /\ writer'.pc = "copy"
        /\ writer'.c = writer.c /\ writer'.col = writer.col /\ writer'.row = writer.row
    BY <1>0, <2>1 DEF IsWriter, GoTo
  <2>3. IsWriter(writer')
    BY <1>0, <2>2 DEF IsWriter, Accesses
  <2>4. CursorOnScreen' /\ Midway'
    BY <2>2 DEF CursorOnScreen, Midway, IsBetween
  <2> QED BY <1>4, <2>3, <2>4 DEF IInv
<1>6. CASE writer.row + 1 # HEIGHT
  <2>1. writer' = Done
    BY <1>6 DEF StoreRow
  <2>2. IsWriter(writer') /\ IsBetween(writer')
    BY <1>0, <2>1, DoneIsBetween
  <2>3. console_row' < HEIGHT
    <3>1. writer.row + 1 < HEIGHT
      BY <1>2, <1>6, Sizes
    <3> QED BY <1>1, <3>1, Zenon
  <2>4. torn' = FALSE => Before(screen', console_row', console_column')
    BY <1>0, <1>1 DEF Midway
  <2>5. Midway'
    BY <2>2, <2>4 DEF Midway, IsBetween
  <2> QED BY <1>4, <2>2, <2>3, <2>5 DEF IInv, CursorOnScreen
<1> QED BY <1>5, <1>6

\* console_scroll: the copy, the blank row, the cursor in it.
LEMMA ScrollKeepsIInv ==
    ASSUME IInv, console_scroll
    PROVE  IInv'
<1>0. ConsoleOK /\ IsWriter(writer) /\ CursorOnScreen /\ Midway
  BY DEF IInv
<1>1. CASE /\ writer.pc = "copy"
           /\ screen' = Scrolled(screen) \cup {cell \in screen : cell[1] = HEIGHT - 1}
           /\ writer' = GoTo("blank")
           /\ UNCHANGED <<console_row, console_column, torn>>
  <2>1. screen' \in SUBSET Cell
    BY <1>0, <1>1, ScrolledCells DEF ConsoleOK
  <2>2. ConsoleOK'
    BY <1>0, <1>1, <2>1 DEF ConsoleOK
  <2>3. /\ DOMAIN writer' = DOMAIN writer /\ writer'.pc = "blank"
        /\ writer'.c = writer.c /\ writer'.col = writer.col /\ writer'.row = writer.row
    BY <1>0, <1>1 DEF IsWriter, GoTo
  <2>4. IsWriter(writer')
    BY <1>0, <2>3 DEF IsWriter, Accesses
  <2>5. CursorOnScreen' /\ Midway'
    BY <2>3 DEF CursorOnScreen, Midway, IsBetween
  <2> QED BY <2>2, <2>4, <2>5 DEF IInv
<1>2. CASE /\ writer.pc = "blank"
           /\ screen' = LastRowBlank(screen)
           /\ writer' = GoTo("last row")
           /\ UNCHANGED <<console_row, console_column, torn>>
  <2>1. screen' \in SUBSET Cell /\ \A cell \in screen' : cell[1] < HEIGHT - 1
    BY <1>0, <1>2 DEF ConsoleOK, LastRowBlank
  <2>2. ConsoleOK'
    BY <1>0, <1>2, <2>1 DEF ConsoleOK
  <2>3. /\ DOMAIN writer' = DOMAIN writer /\ writer'.pc = "last row"
        /\ writer'.c = writer.c /\ writer'.col = writer.col /\ writer'.row = writer.row
    BY <1>0, <1>2 DEF IsWriter, GoTo
  <2>4. IsWriter(writer')
    BY <1>0, <2>3 DEF IsWriter, Accesses
  <2>5. Before(screen', HEIGHT - 1, 0)
    BY <2>1 DEF Before
  <2>6. CursorOnScreen' /\ Midway'
    BY <2>3, <2>5 DEF CursorOnScreen, Midway, IsBetween
  <2> QED BY <2>2, <2>4, <2>6 DEF IInv
<1>3. CASE /\ writer.pc = "last row"
           /\ console_row' = HEIGHT - 1
           /\ writer' = [GoTo("zero column") EXCEPT !.row = NONE]
           /\ UNCHANGED <<screen, console_column, torn>>
  <2>1. /\ DOMAIN writer' = DOMAIN writer /\ writer'.pc = "zero column"
        /\ writer'.c = writer.c /\ writer'.col = writer.col /\ writer'.row = NONE
    BY <1>0, <1>3 DEF IsWriter, GoTo
  <2>2. IsWriter(writer')
    BY <1>0, <2>1 DEF IsWriter, Accesses
  <2>3. console_row' \in 0 .. HEIGHT + BELOW - 1 /\ console_row' < HEIGHT
    <3>1. HEIGHT - 1 \in 0 .. HEIGHT + BELOW - 1 /\ HEIGHT - 1 < HEIGHT
      BY Sizes
    <3> QED BY ONLY <1>3, <3>1, Zenon
  <2>4. ConsoleOK' /\ CursorOnScreen'
    BY <1>0, <1>3, <2>3 DEF ConsoleOK, CursorOnScreen
  <2>5. torn = FALSE => /\ Before(screen', console_row', 0)
                        /\ Before(screen', console_row', console_column')
    <3>1. torn = FALSE => Before(screen, HEIGHT - 1, 0)
      BY <1>0, <1>3 DEF Midway
    <3>2. /\ HEIGHT - 1 \in Nat /\ 0 \in Nat /\ console_column \in Nat /\ 0 <= console_column
          /\ screen \in SUBSET Cell
      BY <1>0, Sizes DEF ConsoleOK
    <3>3. torn = FALSE => Before(screen, HEIGHT - 1, console_column)
      BY <3>1, <3>2, BeforeLater
    <3> QED BY <1>3, <3>1, <3>3
  <2>6. Midway'
    BY <1>3, <2>1, <2>5 DEF Midway, IsBetween
  <2> QED BY <2>2, <2>4, <2>6 DEF IInv
<1> QED BY <1>1, <1>2, <1>3 DEF console_scroll

\* console_clear: the wipe also forgets the characters that were torn.
LEMMA ClearKeepsIInv ==
    ASSUME IInv, console_clear
    PROVE  IInv'
<1>0. ConsoleOK /\ IsWriter(writer) /\ CursorOnScreen /\ Midway
  BY DEF IInv
<1>1. CASE writer = Free /\ writer' = GoTo("wipe") /\ UNCHANGED <<console, torn>>
  <2>1. writer.pc = "next" /\ UNCHANGED <<screen, console_row, console_column, torn>>
    BY <1>1 DEF Free, console
  <2>2. /\ DOMAIN writer' = DOMAIN writer /\ writer'.pc = "wipe"
        /\ writer'.c = writer.c /\ writer'.col = writer.col /\ writer'.row = writer.row
    BY <1>0, <1>1 DEF IsWriter, GoTo
  <2>3. IsWriter(writer')
    BY <1>0, <2>2 DEF IsWriter, Accesses
  <2>4. ConsoleOK' /\ CursorOnScreen'
    BY <1>0, <2>1 DEF ConsoleOK, CursorOnScreen
  <2>5. Midway'
    BY <2>2 DEF Midway, IsBetween
  <2> QED BY <2>3, <2>4, <2>5 DEF IInv
<1>2. CASE /\ writer.pc = "wipe" /\ screen' = {} /\ torn' = FALSE
           /\ writer' = GoTo("first row") /\ UNCHANGED <<console_row, console_column>>
  <2>1. /\ DOMAIN writer' = DOMAIN writer /\ writer'.pc = "first row"
        /\ writer'.c = writer.c /\ writer'.col = writer.col /\ writer'.row = writer.row
    BY <1>0, <1>2 DEF IsWriter, GoTo
  <2>2. IsWriter(writer')
    BY <1>0, <2>1 DEF IsWriter, Accesses
  <2>3. torn' \in BOOLEAN
    BY <1>2, Zenon
  <2>4. ConsoleOK' /\ CursorOnScreen'
    BY <1>0, <1>2, <2>3 DEF ConsoleOK, CursorOnScreen
  <2>5. Midway'
    BY <1>2, <2>1 DEF Midway, IsBetween
  <2> QED BY <2>2, <2>4, <2>5 DEF IInv
<1>3. CASE /\ writer.pc = "first row" /\ console_row' = 0
           /\ writer' = [GoTo("zero column") EXCEPT !.row = NONE]
           /\ UNCHANGED <<screen, console_column, torn>>
  <2>1. /\ DOMAIN writer' = DOMAIN writer /\ writer'.pc = "zero column"
        /\ writer'.c = writer.c /\ writer'.col = writer.col /\ writer'.row = NONE
    BY <1>0, <1>3 DEF IsWriter, GoTo
  <2>2. IsWriter(writer')
    BY <1>0, <2>1 DEF IsWriter, Accesses
  <2>3. console_row' \in 0 .. HEIGHT + BELOW - 1 /\ console_row' < HEIGHT
    <3>1. 0 \in 0 .. HEIGHT + BELOW - 1 /\ 0 < HEIGHT
      BY Sizes
    <3> QED BY ONLY <1>3, <3>1, Zenon
  <2>4. ConsoleOK' /\ CursorOnScreen'
    BY <1>0, <1>3, <2>3 DEF ConsoleOK, CursorOnScreen
  <2>5. torn' = FALSE => screen' = {}
    BY <1>0, <1>3 DEF Midway
  <2>6. torn' = FALSE => /\ Before(screen', console_row', 0)
                         /\ Before(screen', console_row', console_column')
    BY <2>5 DEF Before
  <2>7. Midway'
    BY <2>1, <2>6 DEF Midway, IsBetween
  <2> QED BY <2>2, <2>4, <2>7 DEF IInv
<1> QED BY <1>1, <1>2, <1>3 DEF console_clear

---------------------------------------------------------------------------
(* The theorems. *)

\* Every step keeps the invariant.
LEMMA NextKeepsIInv == IInv /\ [Next]_vars => IInv'
<1> SUFFICES ASSUME IInv, [Next]_vars
             PROVE  IInv'
  OBVIOUS
<1>1. ASSUME NEW key \in Keys, keyboard_handler(key)
      PROVE  IInv'
  BY <1>1, KeyKeepsIInv
<1>2. CASE printk
  BY <1>2, PrintkKeepsIInv
<1>3. CASE console_putchar
  BY <1>3, LoadsKeepIInv, CellKeepsIInv, StoreColumnKeepsIInv, ZeroColumnKeepsIInv,
     StoreRowKeepsIInv, ScrollKeepsIInv DEF console_putchar
<1>4. CASE console_clear
  BY <1>4, ClearKeepsIInv
<1>5. CASE UNCHANGED vars
  <2>1. UNCHANGED <<screen, console_row, console_column, writer, torn>>
    BY <1>5 DEF vars, console
  <2> QED BY <2>1 DEF IInv, ConsoleOK, CursorOnScreen, Midway
<1> QED BY <1>1, <1>2, <1>3, <1>4, <1>5 DEF Next

\* The invariant holds whatever is printed and typed.
LEMMA Invariance == Spec => []IInv
BY InitIInv, NextKeepsIInv, PTL DEF Spec

(* The column is never WIDTH or more, in memory or in a register: for every *)
(* size of the screen the tests of console_putchar for equality are enough, *)
(* wherever the echo of a key interrupts it.                                *)
THEOREM TypeCorrect == Spec => []TypeOK
<1>1. IInv => TypeOK
  BY IInvSuffices
<1> QED BY <1>1, Invariance, PTL

(* The row leaves the screen only between the store of HEIGHT and the end   *)
(* of console_scroll, for every size of the screen.                         *)
THEOREM CursorComesBack == Spec => []CursorOnScreen
<1>1. IInv => CursorOnScreen
  BY DEF IInv
<1> QED BY <1>1, Invariance, PTL

(* Text never lands on text, for every size of the screen and every tab     *)
(* stop, unless a key was echoed inside console_putchar or \r went back.    *)
THEOREM TextIsNotOverwritten == Spec => []BlankAfterCursor
<1>1. IInv => BlankAfterCursor
  BY IInvSuffices
<1> QED BY <1>1, Invariance, PTL

---------------------------------------------------------------------------
(* Numbers.  Digits and Denoted are recursive functions; that they exist,   *)
(* and what they compute, is shown by least counterexample.                 *)

Bases == {10, 16}

Magnitude(k) == IF k < 0 THEN -k ELSE k

\* Every set of naturals that is not empty has a least element.
LEMMA LeastNatural ==
  ASSUME NEW T, T \subseteq Nat, T # {}
  PROVE  \E x \in T : \A y \in T : x <= y
<1>1. PICK x \in T : \A y \in T : ~(<<y, x>> \in OpToRel(<, Nat))
  BY NatLessThanWellFounded, WFMin, Zenon
<1>2. ASSUME NEW y \in T PROVE x <= y
  <2>1. ~(<<y, x>> \in OpToRel(<, Nat))
    BY <1>1
  <2>2. ~(y < x)
    BY <2>1 DEF OpToRel
  <2> QED
    BY <2>2
<1> QED
  BY <1>1, <1>2

\* The division of C, in either base: a smaller number and a digit.
LEMMA DivisionShrinks ==
  ASSUME NEW base \in Bases, NEW k \in Int
  PROVE  /\ Quotient(k, base) \in Int
         /\ k # 0 => Magnitude(Quotient(k, base)) < Magnitude(k)
         /\ k >= 0 => /\ Quotient(k, base) \in Nat
                      /\ Remainder(k, base) \in 0 .. base - 1
                      /\ k = Quotient(k, base) * base + Remainder(k, base)
<1>1. CASE base = 10
  <2>1. CASE k >= 0
    <3> DEFINE q == k \div 10
    <3>1. q \in Int /\ 10 * q <= k /\ k < 10 * q + 10
      BY <2>1
    <3>2. Quotient(k, base) = q
      BY <1>1, <2>1 DEF Quotient
    <3> HIDE DEF q
    <3> QED
      BY <1>1, <2>1, <3>1, <3>2 DEF Remainder, Magnitude
  <2>2. CASE k < 0
    <3> DEFINE q == (-k) \div 10
    <3>1. q \in Int /\ 10 * q <= -k /\ -k < 10 * q + 10
      BY <2>2
    <3>2. Quotient(k, base) = -q
      BY <1>1, <2>2 DEF Quotient
    <3> HIDE DEF q
    <3> QED
      BY <2>2, <3>1, <3>2 DEF Magnitude
  <2> QED
    BY <2>1, <2>2
<1>2. CASE base = 16
  <2>1. CASE k >= 0
    <3> DEFINE q == k \div 16
    <3>1. q \in Int /\ 16 * q <= k /\ k < 16 * q + 16
      BY <2>1
    <3>2. Quotient(k, base) = q
      BY <1>2, <2>1 DEF Quotient
    <3> HIDE DEF q
    <3> QED
      BY <1>2, <2>1, <3>1, <3>2 DEF Remainder, Magnitude
  <2>2. CASE k < 0
    <3> DEFINE q == (-k) \div 16
    <3>1. q \in Int /\ 16 * q <= -k /\ -k < 16 * q + 16
      BY <2>2
    <3>2. Quotient(k, base) = -q
      BY <1>2, <2>2 DEF Quotient
    <3> HIDE DEF q
    <3> QED
      BY <2>2, <3>1, <3>2 DEF Magnitude
  <2> QED
    BY <2>1, <2>2
<1> QED
  BY <1>1, <1>2 DEF Bases

\* One round of the loop over the digits: f are the digits of smaller numbers.
Round(f, base, k) == IF k = 0 THEN <<>> ELSE Append(f[Quotient(k, base)], Remainder(k, base))

\* f is right for the numbers up to m.
RightTo(f, base, m) ==
    \A k \in Int : Magnitude(k) <= m => f[k] = Round(f, base, k)

\* For every m there are digits that are right up to m.
LEMMA DigitsUpTo ==
  ASSUME NEW base \in Bases, NEW m \in Nat
  PROVE  \E f : RightTo(f, base, m)
<1> DEFINE T == {n \in Nat : ~ \E f : RightTo(f, base, n)}
<1>1. SUFFICES ASSUME T # {} PROVE FALSE
  BY <1>1
<1>2. PICK x \in T : \A y \in T : x <= y
  BY <1>1, LeastNatural
<1>3. x \in Nat /\ ~ \E f : RightTo(f, base, x)
  BY <1>2
<1>4. \E f : \A k \in Int : Magnitude(k) < x => f[k] = Round(f, base, k)
  <2>1. CASE x = 0
    BY <2>1 DEF Magnitude
  <2>2. CASE x # 0
    <3>1. x - 1 \in Nat /\ ~(x <= x - 1)
      BY <1>3, <2>2
    <3>2. PICK f : RightTo(f, base, x - 1)
      BY <1>2, <3>1
    <3>3. \A k \in Int : Magnitude(k) < x => Magnitude(k) <= x - 1
      BY <1>3 DEF Magnitude
    <3> QED
      BY <3>2, <3>3 DEF RightTo
  <2> QED
    BY <2>1, <2>2
<1>5. PICK f : \A k \in Int : Magnitude(k) < x => f[k] = Round(f, base, k)
  BY <1>4
<1> DEFINE h == [k \in Int |-> Round(f, base, k)]
<1>6. \A k \in Int : h[k] = Round(f, base, k)
  OBVIOUS
<1> HIDE DEF h
<1>7. ASSUME NEW k \in Int, Magnitude(k) <= x PROVE h[k] = Round(h, base, k)
  <2>1. CASE k = 0
    BY <1>6, <2>1 DEF Round
  <2>2. CASE k # 0
    <3>1. Quotient(k, base) \in Int /\ Magnitude(Quotient(k, base)) < Magnitude(k)
      BY <2>2, DivisionShrinks
    <3>2. Magnitude(Quotient(k, base)) < x
      BY <1>3, <1>7, <3>1 DEF Magnitude
    <3>3. h[Quotient(k, base)] = f[Quotient(k, base)]
      BY <1>5, <1>6, <3>1, <3>2
    <3> QED
      BY <1>6, <2>2, <3>3 DEF Round
  <2> QED
    BY <2>1, <2>2
<1> QED
  BY <1>3, <1>7 DEF RightTo

\* Digits that are right are the same.
LEMMA DigitsUnique ==
  ASSUME NEW base \in Bases, NEW m \in Nat, NEW n \in Nat, NEW f, NEW g,
         RightTo(f, base, m), RightTo(g, base, n),
         NEW k \in Int, Magnitude(k) <= m, Magnitude(k) <= n
  PROVE  f[k] = g[k]
<1> DEFINE T == {a \in Nat : \E j \in Int : /\ Magnitude(j) = a /\ a <= m /\ a <= n
                                            /\ f[j] # g[j]}
<1>1. SUFFICES ASSUME f[k] # g[k] PROVE FALSE
  OBVIOUS
<1>2. T \subseteq Nat /\ T # {}
  <2>1. Magnitude(k) \in Nat
    BY DEF Magnitude
  <2> QED
    BY <1>1, <2>1
<1>3. PICK x \in T : \A y \in T : x <= y
  BY <1>2, LeastNatural
<1>4. PICK j \in Int : Magnitude(j) = x /\ x <= m /\ x <= n /\ f[j] # g[j]
  BY <1>3
<1>5. f[j] = Round(f, base, j) /\ g[j] = Round(g, base, j)
  BY <1>4 DEF RightTo
<1>6. j # 0
  BY <1>4, <1>5 DEF Round
<1> DEFINE q == Quotient(j, base)
<1>7. q \in Int /\ Magnitude(q) < x
  BY <1>4, <1>6, DivisionShrinks
<1>8. f[q] = g[q]
  <2>1. Magnitude(q) \in Nat /\ x \in Nat /\ ~(x <= Magnitude(q))
        /\ Magnitude(q) <= m /\ Magnitude(q) <= n
    <3> HIDE DEF q
    <3>1. x \in Nat
      BY <1>3
    <3> QED
      BY <1>4, <1>7, <3>1 DEF Magnitude
  <2> QED
    BY <1>3, <1>7, <2>1
<1> QED
  BY <1>4, <1>5, <1>6, <1>8 DEF Round


\* What the loop of itoa and utoa finds for k: nothing, or the digits of the quotient and one more.
LEMMA DigitsStep ==
  ASSUME NEW base \in Bases
  PROVE  /\ Digits(0, base) = <<>>
         /\ \A k \in Int \ {0} :
               Digits(k, base) = Append(Digits(Quotient(k, base), base), Remainder(k, base))
<1> DEFINE P(f, m) == RightTo(f, base, m)
           to(m) == CHOOSE f : P(f, m)
           g == [k \in Int |-> to(Magnitude(k))[k]]
           F(f) == [k \in Int |-> IF k = 0 THEN <<>>
                                  ELSE Append(f[Quotient(k, base)], Remainder(k, base))]
           digits[k \in Int] ==
              IF k = 0 THEN <<>> ELSE Append(digits[Quotient(k, base)], Remainder(k, base))
<1>1. \A m \in Nat : P(to(m), m)
  <2>1. \A m \in Nat : \E f : P(f, m)
    BY DigitsUpTo
  <2> QED
    BY <2>1
<1>2. \A k \in Int : g[k] = to(Magnitude(k))[k]
  OBVIOUS
<1>3. ASSUME NEW k \in Int PROVE g[k] = Round(g, base, k)
  <2> DEFINE m == Magnitude(k)
             f == to(m)
  <2>1. m \in Nat
    BY DEF Magnitude
  <2>2. P(f, m) /\ g[k] = f[k]
    BY <1>1, <1>2, <2>1
  <2> HIDE DEF to, g
  <2>3. f[k] = Round(f, base, k)
    BY <2>1, <2>2 DEF RightTo
  <2>4. CASE k = 0
    BY <2>2, <2>3, <2>4 DEF Round
  <2>5. CASE k # 0
    <3> DEFINE q == Quotient(k, base)
               n == Magnitude(q)
    <3>1. q \in Int /\ n < m
      BY <2>5, DivisionShrinks
    <3>2. n \in Nat
      BY <3>1 DEF Magnitude
    <3>3. P(to(n), n) /\ g[q] = to(n)[q]
      BY <1>1, <1>2, <3>1, <3>2
    <3>4. f[q] = to(n)[q]
      <4>1. n <= m /\ n <= n
        BY <2>1, <3>1, <3>2
      <4> HIDE DEF q, m, n
      <4>2. Magnitude(q) <= m /\ Magnitude(q) <= n
        BY <4>1 DEF n
      <4> QED
        BY <2>1, <2>2, <3>1, <3>2, <3>3, <4>2, DigitsUnique
    <3> QED
      BY <2>2, <2>3, <2>5, <3>3, <3>4 DEF Round
  <2> QED
    BY <2>4, <2>5
<1>4. g = F(g)
  <2>1. g = [k \in Int |-> g[k]]
    OBVIOUS
  <2> HIDE DEF g
  <2> QED
    BY <1>3, <2>1 DEF Round
<1> HIDE DEF g
<1>5. digits = F(digits)
  BY <1>4, Zenon
<1>6. \A k \in Int : Digits(k, base) = digits[k]
  BY DEF Digits
<1> HIDE DEF digits
<1>7. \A k \in Int : digits[k] = IF k = 0 THEN <<>>
                                 ELSE Append(digits[Quotient(k, base)], Remainder(k, base))
  BY <1>5
<1>8. Digits(0, base) = <<>>
  <2>1. 0 \in Int
    OBVIOUS
  <2> QED
    BY ONLY <1>6, <1>7, <2>1
<1>9. ASSUME NEW k \in Int \ {0}
      PROVE  Digits(k, base) = Append(Digits(Quotient(k, base), base), Remainder(k, base))
  <2> DEFINE q == Quotient(k, base)
  <2>1. k \in Int /\ k # 0
    OBVIOUS
  <2>2. q \in Int
    BY <2>1, DivisionShrinks
  <2> HIDE DEF q
  <2>3. Digits(k, base) = digits[k] /\ Digits(q, base) = digits[q]
    BY ONLY <1>6, <2>1, <2>2
  <2>4. digits[k] = Append(digits[q], Remainder(k, base))
    BY ONLY <1>7, <2>1 DEF q
  <2> QED
    BY ONLY <2>3, <2>4 DEF q
<1> QED
  BY <1>8, <1>9

\* How a row of digits is read, from the first one on.
LEMMA DenotedSteps ==
  ASSUME NEW digits, NEW base, Len(digits) \in Nat
  PROVE  \E up : /\ up[0] = 0
                 /\ \A i \in 1 .. Len(digits) : up[i] = up[i - 1] * base + digits[i]
                 /\ Denoted(digits, base) = up[Len(digits)]
<1> DEFINE n == Len(digits)
           F(f) == [i \in 0 .. n |-> IF i = 0 THEN 0 ELSE f[i - 1] * base + digits[i]]
           Value(f, i) == IF i = 0 THEN 0 ELSE f[i - 1] * base + digits[i]
           Right(f, m) == \A i \in 0 .. m : f[i] = Value(f, i)
           T == {m \in 0 .. n : ~ \E f : Right(f, m)}
           upTo[i \in 0 .. n] == IF i = 0 THEN 0 ELSE upTo[i - 1] * base + digits[i]
<1>0. n \in Nat
  OBVIOUS
<1> HIDE DEF n
<1>1. T = {}
  <2>1. SUFFICES ASSUME T # {} PROVE FALSE
    OBVIOUS
  <2>2. PICK x \in T : \A y \in T : x <= y
    <3>1. T \subseteq Nat
      BY <1>0
    <3> QED
      BY <2>1, <3>1, LeastNatural
  <2>3. x \in 0 .. n /\ x \in Nat /\ ~ \E f : Right(f, x)
    BY <1>0, <2>2
  <2>4. \E f : \A i \in 0 .. x - 1 : f[i] = Value(f, i)
    <3>1. CASE x = 0
      BY <3>1
    <3>2. CASE x # 0
      <4>1. x - 1 \in 0 .. n /\ ~(x <= x - 1)
        BY <1>0, <2>3, <3>2
      <4> QED
        BY <2>2, <4>1
    <3> QED
      BY <3>1, <3>2
  <2>5. PICK f : \A i \in 0 .. x - 1 : f[i] = Value(f, i)
    BY <2>4
  <2> DEFINE h == [i \in 0 .. x |-> Value(f, i)]
  <2>6. \A i \in 0 .. x : h[i] = Value(f, i)
    OBVIOUS
  <2> HIDE DEF h
  <2>7. ASSUME NEW i \in 0 .. x PROVE h[i] = Value(h, i)
    <3>1. CASE i = 0
      BY <2>6, <3>1
    <3>2. CASE i # 0
      <4>1. i - 1 \in 0 .. x - 1 /\ i - 1 \in 0 .. x
        BY <2>3, <2>7, <3>2
      <4>2. h[i - 1] = f[i - 1]
        BY <2>5, <2>6, <4>1
      <4> QED
        BY <2>6, <3>2, <4>2
    <3> QED
      BY <3>1, <3>2
  <2> QED
    BY <2>3, <2>7
<1>2. PICK f : Right(f, n)
  <2>1. n \in 0 .. n
    BY <1>0
  <2> QED
    BY <1>1, <2>1
<1> DEFINE h == F(f)
<1>3. h = F(h)
  <2>1. \A i \in 0 .. n : h[i] = f[i]
    BY <1>2
  <2>2. \A i \in 0 .. n : i # 0 => i - 1 \in 0 .. n
    BY <1>0
  <2>3. \A i \in 0 .. n : Value(f, i) = Value(h, i)
    <3> HIDE DEF h
    <3> QED
      BY <2>1, <2>2
  <2> QED
    BY <2>3
<1> HIDE DEF h
<1>4. upTo = F(upTo)
  BY <1>3, Zenon
<1>5. Denoted(digits, base) = upTo[n]
  BY DEF Denoted, n
<1> HIDE DEF upTo
<1>6. upTo[0] = 0 /\ \A i \in 1 .. n : upTo[i] = upTo[i - 1] * base + digits[i]
  <2>1. \A i \in 0 .. n : upTo[i] = Value(upTo, i)
    BY <1>4
  <2>2. 0 \in 0 .. n /\ \A i \in 1 .. n : i \in 0 .. n /\ i # 0
    BY <1>0
  <2> QED
    BY <2>1, <2>2
<1> QED
  BY <1>5, <1>6 DEF n

\* One digit more: the value so far, times the base, plus the digit.
LEMMA DenotedAppend ==
  ASSUME NEW S, NEW digits \in Seq(S), NEW d \in S, NEW base
  PROVE  /\ Denoted(<<>>, base) = 0
         /\ Denoted(Append(digits, d), base) = Denoted(digits, base) * base + d
<1> DEFINE longer == Append(digits, d)
           n == Len(digits)
<1>1. /\ n \in Nat /\ Len(longer) = n + 1 /\ Len(<<>>) = 0
      /\ \A i \in 1 .. n : longer[i] = digits[i]
      /\ longer[n + 1] = d
  BY LenProperties, AppendProperties, EmptySeq
<1>2. Denoted(<<>>, base) = 0
  <2>1. Len(<<>>) \in Nat /\ Len(<<>>) = 0
    BY <1>1
  <2>2. PICK up : up[0] = 0 /\ Denoted(<<>>, base) = up[Len(<<>>)]
    BY <2>1, DenotedSteps
  <2> QED
    BY <2>1, <2>2
<1> HIDE DEF n, longer
<1>3. PICK up : /\ up[0] = 0
                /\ \A i \in 1 .. n : up[i] = up[i - 1] * base + digits[i]
                /\ Denoted(digits, base) = up[n]
  BY <1>1, DenotedSteps DEF n
<1>4. PICK more : /\ more[0] = 0
                  /\ \A i \in 1 .. n + 1 : more[i] = more[i - 1] * base + longer[i]
                  /\ Denoted(longer, base) = more[n + 1]
  <2>1. Len(longer) \in Nat
    BY <1>1
  <2>2. PICK more : /\ more[0] = 0
                    /\ \A i \in 1 .. Len(longer) : more[i] = more[i - 1] * base + longer[i]
                    /\ Denoted(longer, base) = more[Len(longer)]
    BY <2>1, DenotedSteps
  <2> QED
    BY <1>1, <2>2, Zenon
<1> DEFINE T == {i \in 0 .. n : more[i] # up[i]}
<1>5. T = {}
  <2>1. SUFFICES ASSUME T # {} PROVE FALSE
    OBVIOUS
  <2>2. PICK x \in T : \A y \in T : x <= y
    <3>1. T \subseteq Nat
      BY <1>1
    <3> QED
      BY <2>1, <3>1, LeastNatural
  <2>3. x \in 0 .. n /\ more[x] # up[x] /\ x # 0
    BY <1>3, <1>4, <2>2
  <2>4. x \in 1 .. n /\ x \in 1 .. n + 1 /\ x - 1 \in 0 .. n /\ ~(x <= x - 1)
    BY <1>1, <2>3
  <2>5. more[x - 1] = up[x - 1]
    BY <2>2, <2>4
  <2>6. more[x] = more[x - 1] * base + longer[x] /\ up[x] = up[x - 1] * base + digits[x]
    BY <1>3, <1>4, <2>4
  <2> QED
    BY <1>1, <2>3, <2>4, <2>5, <2>6
<1>6. more[n] = up[n] /\ more[n + 1] = more[n] * base + d
  <2>1. n \in 0 .. n /\ n + 1 \in 1 .. n + 1 /\ (n + 1) - 1 = n
    BY <1>1
  <2> QED
    BY <1>1, <1>4, <1>5, <2>1
<1> QED
  BY <1>2, <1>3, <1>4, <1>6 DEF longer

\* The digits of a number are digits of the base and denote the number.
LEMMA DigitsReadBack ==
  ASSUME NEW base \in Bases, NEW k \in Nat
  PROVE  /\ Digits(k, base) \in Seq(0 .. base - 1)
         /\ Denoted(Digits(k, base), base) = k
<1> DEFINE Good(n) == /\ Digits(n, base) \in Seq(0 .. base - 1)
                      /\ Denoted(Digits(n, base), base) = n
           T == {n \in Nat : ~Good(n)}
<1>1. SUFFICES ASSUME T # {} PROVE FALSE
  OBVIOUS
<1>2. PICK x \in T : \A y \in T : x <= y
  BY <1>1, LeastNatural
<1>3. x \in Nat /\ ~Good(x)
  BY <1>2
<1>4. CASE x = 0
  <2>1. Digits(0, base) = <<>> /\ <<>> \in Seq(0 .. base - 1)
    BY DigitsStep, EmptySeq
  <2>2. Denoted(<<>>, base) = 0
    <3>1. <<>> \in Seq(Int) /\ 0 \in Int
      BY EmptySeq
    <3> QED
      BY <3>1, DenotedAppend
  <2> QED
    BY <1>3, <1>4, <2>1, <2>2
<1>5. CASE x # 0
  <2> DEFINE q == Quotient(x, base)
             d == Remainder(x, base)
             s == Digits(q, base)
  <2>1. q \in Nat /\ d \in 0 .. base - 1 /\ x = q * base + d /\ Magnitude(q) < Magnitude(x)
    BY <1>3, <1>5, DivisionShrinks
  <2>2. Digits(x, base) = Append(s, d)
    BY <1>3, <1>5, DigitsStep
  <2> HIDE DEF q, d, s
  <2>3. ~(x <= q)
    BY <1>3, <2>1 DEF Magnitude
  <2>4. Good(q)
    BY <1>2, <2>1, <2>3
  <2>5. s \in Seq(0 .. base - 1) /\ Denoted(s, base) = q
    BY <2>4 DEF s
  <2>6. Append(s, d) \in Seq(0 .. base - 1)
    BY <2>1, <2>5, AppendProperties
  <2>7. Denoted(Append(s, d), base) = Denoted(s, base) * base + d
    BY <2>1, <2>5, DenotedAppend
  <2> QED
    BY <1>3, <2>1, <2>2, <2>5, <2>6, <2>7
<1> QED
  BY <1>4, <1>5


\* A remainder by more than the number is the number.
LEMMA SmallRemainder ==
  ASSUME NEW a \in Nat, NEW b \in Nat, a < b
  PROVE  a % b = a
OBVIOUS

(* What is left of a word in an int, and of the number without its sign:    *)
(* all of it, except for the least int.                                     *)
LEMMA IntsOfWords ==
  ASSUME NEW word \in Words
  PROVE  /\ word \in Nat /\ AsInt(word) \in Int
         /\ AsInt(word) < 0 /\ AsInt(word) # -2^(BITS - 1) => AsInt(-AsInt(word)) = -AsInt(word)
<1> DEFINE W == 2^BITS
           H == 2^(BITS - 1)
           n == AsInt(word)
<1>1. H \in Nat /\ H > 0 /\ W = 2 * H /\ Words \subseteq 0 .. W - 1
  <2>1. H \in Nat \ {0} /\ W = 2 * H
    BY PowerAssumption, Zenon
  <2>2. Words \subseteq 0 .. W - 1
    BY ConsoleAssumption, Zenon
  <2> HIDE DEF W, H
  <2> QED
    BY <2>1, <2>2
<1>2. \A m : AsInt(m) = IF m % W < H THEN m % W ELSE (m % W) - W
  BY DEF AsInt
<1> HIDE DEF W, H, n
<1>3. word \in Nat /\ word < W /\ W \in Nat
  BY <1>1
<1>4. word % W = word
  BY <1>3, SmallRemainder
<1>5. n = IF word < H THEN word ELSE word - W
  BY <1>2, <1>4 DEF n
<1>6. n \in Int
  BY <1>1, <1>3, <1>5
<1>7. ASSUME n < 0, n # -H PROVE AsInt(-n) = -n
  <2>1. -n \in Nat /\ -n < H /\ -n < W
    BY <1>1, <1>3, <1>5, <1>7
  <2>2. (-n) % W = -n
    BY <1>3, <2>1, SmallRemainder
  <2> QED
    BY <1>2, <2>1, <2>2
<1> QED
  BY <1>3, <1>6, <1>7 DEF n, H

\* What NumberReadsBack says of a number that was converted.
ReadsBack(n) ==
  n # NONE /\ n.value # -2^(BITS - 1) =>
    /\ \A i \in DOMAIN n.text.digits : n.text.digits[i] \in 0 .. n.base - 1
    /\ (IF n.text.minus THEN -1 ELSE 1) * Denoted(n.text.digits, n.base) = n.value

\* Digits that were found and their sign denote a number together.
LEMMA SignedReadsBack ==
  ASSUME NEW base \in Bases, NEW value, NEW minus \in BOOLEAN, NEW digits,
         value # -2^(BITS - 1) =>
            /\ digits \in Seq(0 .. base - 1)
            /\ Denoted(digits, base) \in Int
            /\ value = IF minus THEN -Denoted(digits, base) ELSE Denoted(digits, base)
  PROVE  ReadsBack(Number(value, base, [minus |-> minus, digits |-> digits]))
<1> DEFINE text == [minus |-> minus, digits |-> digits]
           n == Number(value, base, text)
<1>1. n.value = value /\ n.base = base /\ n.text.minus = minus /\ n.text.digits = digits
  BY DEF Number
<1> HIDE DEF n
<1>2. SUFFICES ASSUME value # -2^(BITS - 1)
               PROVE  /\ \A i \in DOMAIN digits : digits[i] \in 0 .. base - 1
                      /\ (IF minus THEN -1 ELSE 1) * Denoted(digits, base) = value
  BY <1>1, Zenon DEF ReadsBack, n
<1>3. /\ digits \in Seq(0 .. base - 1)
      /\ Denoted(digits, base) \in Int
      /\ value = IF minus THEN -Denoted(digits, base) ELSE Denoted(digits, base)
  BY <1>2
<1>4. \A i \in DOMAIN digits : digits[i] \in 0 .. base - 1
  BY <1>3, ElementOfSeq, LenProperties
<1>5. (IF minus THEN -1 ELSE 1) * Denoted(digits, base) = value
  <2>1. \A d \in Int : (-1) * d = -d /\ 1 * d = d
    OBVIOUS
  <2>2. CASE minus
    BY <1>3, <2>1, <2>2
  <2>3. CASE ~minus
    BY <1>3, <2>1, <2>3
  <2> QED
    BY <2>2, <2>3
<1> QED
  BY <1>4, <1>5

\* utoa writes every natural number, 0 too.
LEMMA UnsignedReadsBack ==
  ASSUME NEW base \in Bases, NEW k \in Nat
  PROVE  ReadsBack(Number(k, base, utoa(k, base)))
<1> DEFINE digits == IF k = 0 THEN <<0>> ELSE Digits(k, base)
<1>1. digits \in Seq(0 .. base - 1) /\ Denoted(digits, base) = k
  <2>1. CASE k = 0
    <3> DEFINE D == 0 .. base - 1
    <3>1. 0 \in D
      BY DEF Bases
    <3>2. <<>> \in Seq(D) /\ Append(<<>>, 0) = <<0>>
      BY EmptySeq
    <3> HIDE DEF D
    <3>3. Append(<<>>, 0) \in Seq(D)
      BY <3>1, <3>2, AppendProperties
    <3>4. /\ Denoted(<<>>, base) = 0
          /\ Denoted(Append(<<>>, 0), base) = Denoted(<<>>, base) * base + 0
      BY <3>1, <3>2, DenotedAppend
    <3>5. 0 * base + 0 = 0
      BY DEF Bases
    <3> QED
      BY <2>1, <3>2, <3>3, <3>4, <3>5 DEF D
  <2>2. CASE k # 0
    BY <2>2, DigitsReadBack
  <2> QED
    BY <2>1, <2>2
<1>2. utoa(k, base) = [minus |-> FALSE, digits |-> digits]
  BY DEF utoa
<1> HIDE DEF digits
<1>3. /\ digits \in Seq(0 .. base - 1)
      /\ Denoted(digits, base) \in Int
      /\ k = IF FALSE THEN -Denoted(digits, base) ELSE Denoted(digits, base)
  BY <1>1
<1>4. ReadsBack(Number(k, base, [minus |-> FALSE, digits |-> digits]))
  BY <1>3, SignedReadsBack
<1> QED
  BY <1>2, <1>4

\* itoa writes every int but the least one.
LEMMA SignedIntReadsBack ==
  ASSUME NEW word \in Words
  PROVE  ReadsBack(Number(AsInt(word), 10, itoa(AsInt(word))))
<1> DEFINE n == AsInt(word)
<1>0. 10 \in Bases
  BY DEF Bases
<1>1. n \in Int /\ (n < 0 /\ n # -2^(BITS - 1) => AsInt(-n) = -n)
  BY IntsOfWords
<1> HIDE DEF n
<1>2. CASE n < 0
  <2> DEFINE digits == Digits(AsInt(-n), 10)
  <2>1. itoa(n) = [minus |-> TRUE, digits |-> digits]
    BY <1>2 DEF itoa
  <2>2. ASSUME n # -2^(BITS - 1)
        PROVE  digits \in Seq(0 .. 10 - 1) /\ Denoted(digits, 10) = -n
    <3>1. AsInt(-n) = -n /\ -n \in Nat
      BY <1>1, <1>2, <2>2
    <3> QED
      BY <1>0, <3>1, DigitsReadBack
  <2>3. -n \in Int /\ n = -(-n)
    BY <1>1
  <2> HIDE DEF digits
  <2> QED
    BY <1>0, <2>1, <2>2, <2>3, SignedReadsBack DEF n
<1>3. CASE ~(n < 0)
  <2>1. n \in Nat
    BY <1>1, <1>3
  <2>2. itoa(n) = utoa(n, 10)
    BY <1>3 DEF itoa
  <2> QED
    BY <1>0, <2>1, <2>2, UnsignedReadsBack DEF n
<1> QED
  BY <1>2, <1>3

\* A character more is put with the same number.
LEMMA PuttingKeepsNumber ==
  ASSUME NEW w, "number" \in DOMAIN w, NEW c, NEW n
  PROVE  Putting(w, c, n).number = w.number
BY DEF Putting

\* The characters that are left of a number say no more than it does.
LEMMA DoneForgetsNumber ==
  ASSUME IsWriter(writer)
  PROVE  Done.number = NONE
<1> DEFINE w == [writer EXCEPT !.col = 0, !.row = 0, !.number = NONE]
           v == [w EXCEPT !.line = FALSE]
<1>1. w.number = NONE /\ DOMAIN w = DOMAIN writer
  BY DEF IsWriter
<1>2. "number" \in DOMAIN w
  BY <1>1 DEF IsWriter
<1>3. Done = IF w.left > 1 THEN [w EXCEPT !.left = @ - 1, !.pc = FirstAccess(w.c)]
             ELSE IF w.line THEN Putting(v, "newline", 1)
             ELSE [w EXCEPT !.left = 0, !.c = "x", !.pc = "next"]
  BY DEF Done
<1> HIDE DEF w
<1>4. v.number = NONE /\ "number" \in DOMAIN v
  BY <1>1, <1>2
<1> HIDE DEF v
<1>5. Putting(v, "newline", 1).number = NONE
  BY <1>4, PuttingKeepsNumber
<1> QED
  BY <1>1, <1>2, <1>3, <1>5

\* A step leaves the number that was converted, forgets it, or converts one.
LEMMA NumberSteps ==
  ASSUME IInv, Next
  PROVE  \/ writer'.number \in {writer.number, NONE}
         \/ \E word \in Words :
               writer'.number \in
                  {Number(AsInt(word), 10, itoa(AsInt(word))), Number(word, 10, utoa(word, 10)),
                   Number(word, 16, utoa(word, 16))}
<1>0. IsWriter(writer) /\ "number" \in DOMAIN writer
  BY DEF IInv, IsWriter
<1>1. \A pc : GoTo(pc).number = writer.number
  BY <1>0 DEF GoTo
<1>2. Done.number = NONE
  BY <1>0, DoneForgetsNumber
<1>3. CASE \E key \in Keys : keyboard_handler(key)
  BY <1>3, Zenon DEF keyboard_handler
<1>4. CASE printk
  <2>1. CASE \/ \E c \in Chars : Ordinary(c)
             \/ ConvertString \/ ConvertChar \/ Unknown
    BY <1>0, <2>1, PuttingKeepsNumber DEF Ordinary, ConvertString, ConvertChar, Unknown
  <2>2. CASE ConvertNumber
    <3>0. PICK word \in Words, prefix \in {0, 2} :
             \E n \in {Number(AsInt(word), 10, itoa(AsInt(word))), Number(word, 10, utoa(word, 10)),
                       Number(word, 16, utoa(word, 16))} :
                writer' = Putting([writer EXCEPT !.number = n], "x", prefix + TextLength(n.text))
      BY <2>2, Zenon DEF ConvertNumber
    <3>1. PICK n \in {Number(AsInt(word), 10, itoa(AsInt(word))), Number(word, 10, utoa(word, 10)),
                      Number(word, 16, utoa(word, 16))} :
             writer' = Putting([writer EXCEPT !.number = n], "x", prefix + TextLength(n.text))
      BY <3>0, Zenon
    <3> DEFINE w == [writer EXCEPT !.number = n]
               m == prefix + TextLength(n.text)
    <3>2. w.number = n /\ "number" \in DOMAIN w
      BY <1>0
    <3>3. writer' = Putting(w, "x", m)
      BY <3>1
    <3> HIDE DEF w, m
    <3>4. writer'.number = n
      BY <3>2, <3>3, PuttingKeepsNumber
    <3> QED
      BY <3>1, <3>4, Zenon
  <2>3. CASE Log
    <3>1. PICK n : writer' = [Putting(Free, "x", n) EXCEPT !.line = TRUE]
      BY <2>3, Zenon DEF Log
    <3> DEFINE w == Putting(Free, "x", n)
    <3>2. w.number = NONE
      <4>1. Free.number = NONE /\ "number" \in DOMAIN Free
        BY DEF Free
      <4> QED
        BY <4>1, PuttingKeepsNumber
    <3>3. "number" \in DOMAIN w
      BY DEF Putting, Free
    <3>4. writer' = [w EXCEPT !.line = TRUE]
      BY <3>1
    <3> HIDE DEF w
    <3> QED
      BY <3>2, <3>3, <3>4
  <2> QED
    BY <1>4, <2>1, <2>2, <2>3 DEF printk
<1>5. CASE console_putchar
  <2>1. CASE LoadColumn
    BY <1>0, <2>1 DEF LoadColumn, GoTo
  <2>2. CASE LoadRow
    BY <1>0, <2>2 DEF LoadRow, GoTo
  <2>3. CASE console_putchar_at
    BY <1>0, <2>3 DEF console_putchar_at, GoTo
  <2>4. CASE StoreColumn \/ ZeroColumn \/ StoreRow
    BY <1>1, <1>2, <2>4 DEF StoreColumn, ZeroColumn, StoreRow
  <2>5. CASE console_scroll
    BY <1>0, <2>5 DEF console_scroll, GoTo
  <2> QED
    BY <1>5, <2>1, <2>2, <2>3, <2>4, <2>5 DEF console_putchar
<1>6. CASE console_clear
  BY <1>0, <1>6 DEF console_clear, GoTo
<1> QED
  BY <1>3, <1>4, <1>5, <1>6 DEF Next

(* What printk writes for %d, %u, %x, %X and %p is read back as the number, *)
(* digit by digit in the right order and with its sign, for every width of  *)
(* an int and every word but the least int, which itoa cannot negate.       *)
THEOREM NumbersReadBack == Spec => []NumberReadsBack
<1> DEFINE Reads == ReadsBack(writer.number)
<1>0. \A n : n = NONE => ReadsBack(n)
  BY DEF ReadsBack
<1>1. Init => Reads
  BY <1>0 DEF Init, Free
<1>2. ASSUME IInv, Reads, [Next]_vars PROVE Reads'
  <2>1. CASE UNCHANGED vars
    BY <1>2, <2>1 DEF vars
  <2>2. CASE Next
    <3>1. CASE writer'.number \in {writer.number, NONE}
      BY <1>0, <1>2, <3>1
    <3>2. ASSUME NEW word \in Words,
                 writer'.number \in
                    {Number(AsInt(word), 10, itoa(AsInt(word))), Number(word, 10, utoa(word, 10)),
                     Number(word, 16, utoa(word, 16))}
          PROVE  Reads'
      <4>1. 10 \in Bases /\ 16 \in Bases /\ word \in Nat
        BY IntsOfWords DEF Bases
      <4>2. ReadsBack(Number(AsInt(word), 10, itoa(AsInt(word))))
        BY SignedIntReadsBack
      <4>3. ReadsBack(Number(word, 10, utoa(word, 10))) /\ ReadsBack(Number(word, 16, utoa(word, 16)))
        BY <4>1, UnsignedReadsBack
      <4>4. ReadsBack(writer'.number)
        BY <3>2, <4>2, <4>3, Zenon
      <4> QED
        BY <4>4
    <3> QED
      BY <1>2, <2>2, <3>1, <3>2, NumberSteps
  <2> QED
    BY <1>2, <2>1, <2>2
<1>3. Reads => NumberReadsBack
  BY DEF ReadsBack, NumberReadsBack
<1> QED
  BY <1>1, <1>2, <1>3, Invariance, PTL DEF Spec
===========================================================================
