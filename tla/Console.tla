------------------------------ MODULE Console ------------------------------
(* The text console of printk.c.  The kernel prints with interrupts on, so  *)
(* that console_putchar and console_clear take one step per access to       *)
(* console_row, console_column or the text buffer, in the order of the      *)
(* build (gcc -O2): the coordinates are loaded first, used for the cell,    *)
(* and stored from the registers.  IRQ 1 echoes keys to the same console    *)
(* between any two of these steps, with interrupts off: one step.  Colours  *)
(* are left out, and what a character is beyond its effect on the cursor.   *)
EXTENDS Integers, Sequences, FiniteSets

CONSTANTS WIDTH, HEIGHT,  \* VGA_WIDTH (80), VGA_HEIGHT (25)
          TAB,            \* distance of tab stops (8)
          BELOW,          \* rows below the screen that interrupts reach, a bound
          BITS,           \* width of an int
          Words,          \* the 32-bit words that are printed as numbers
          LENGTH,         \* the longest string that is printed, a bound
          NONE

ASSUME ConsoleAssumption ==
    /\ WIDTH \in Nat /\ WIDTH > 1
    /\ HEIGHT \in Nat /\ HEIGHT > 1
    /\ TAB \in Nat \ {0}
    /\ {BELOW, BITS, LENGTH} \subseteq Nat \ {0}
    /\ Words \subseteq 0 .. 2^BITS - 1
    /\ NONE \notin Int

\* A power of two doubles with its exponent: the proofs have no arithmetic of powers.
ASSUME PowerAssumption == 2^(BITS - 1) \in Nat \ {0} /\ 2^BITS = 2 * 2^(BITS - 1)

VARIABLES
    screen,           \* the cells of VGA_MEMORY that are not blank
    console_row, console_column,
    writer,           \* the kernel inside printk, see Writer
    torn              \* an interrupt came inside console_putchar or \r was
                      \* printed since the screen was cleared (history)

console == <<screen, console_row, console_column>>
vars == <<console, writer, torn>>

Cell == (0 .. HEIGHT - 1) \X (0 .. WIDTH - 1)

\* What a character does to the cursor; "x" is one that is shown.
Chars == {"x", "newline", "return", "tab"}

(* pc: "next" between two directives of a format, or the access that        *)
(* console_putchar(c) or console_clear makes next.  left characters like c  *)
(* are to be put, then a newline if line.  col and row are in registers,    *)
(* number is what was just converted.                                       *)
Accesses == {"next", "load column", "load row", "cell", "store column", "zero column",
             "store row", "copy", "blank", "last row", "wipe", "first row"}

Free == [pc |-> "next", c |-> "x", left |-> 0, line |-> FALSE, col |-> 0, row |-> 0,
         number |-> NONE]

\* The console after console_clear in kmain.
Init ==
    /\ screen = {}
    /\ console_row = 0
    /\ console_column = 0
    /\ writer = Free
    /\ torn = FALSE

---------------------------------------------------------------------------
(* Numbers. *)

\* Two's complement: what is left of n in an int.
AsInt(n) == LET m == n % 2^BITS IN IF m < 2^(BITS - 1) THEN m ELSE m - 2^BITS

\* / and % of C truncate towards zero.
Quotient(n, base) == IF n < 0 THEN -((-n) \div base) ELSE n \div base

Remainder(n, base) == n - base * Quotient(n, base)

\* A bug: the digits stay in the order they were found.
DigitsFound(n, base) ==
    LET digits[k \in Int] ==
            IF k = 0 THEN <<>> ELSE <<Remainder(k, base)>> \o digits[Quotient(k, base)]
    IN  digits[n]

\* The loop that finds the digits from the last one, and reverse_string.
Digits(n, base) ==
    LET digits[k \in Int] ==
            IF k = 0 THEN <<>> ELSE Append(digits[Quotient(k, base)], Remainder(k, base))
    IN  digits[n]

\* utoa and utoa_upper
utoa(n, base) ==
    [minus |-> FALSE, digits |-> IF n = 0 THEN <<0>> ELSE Digits(n, base)]

\* -value overflows for the least int, whose remainders are then negative.
itoa(n) ==
    IF n < 0 THEN [minus |-> TRUE, digits |-> Digits(AsInt(-n), 10)] ELSE utoa(n, 10)

Number(value, base, text) == [value |-> value, base |-> base, text |-> text]

---------------------------------------------------------------------------
(* The console as a whole, as an interrupt finds and leaves it. *)

Scrolled(cells) == {<<cell[1] - 1, cell[2]>> : cell \in {d \in cells : d[1] > 0}}

\* Row and column after ++console_row, which only == HEIGHT makes scroll.
NewLine(k) ==
    IF k.row + 1 = HEIGHT
    THEN [cells |-> Scrolled(k.cells), row |-> HEIGHT - 1, column |-> 0]
    ELSE [k EXCEPT !.row = @ + 1, !.column = 0]

\* Below the screen the text buffer goes on, unseen.
PutVisible(k) ==
    LET shown == [k EXCEPT !.cells = @ \cup ({<<k.row, k.column>>} \cap Cell)]
    IN  IF k.column + 1 = WIDTH THEN NewLine(shown) ELSE [shown EXCEPT !.column = @ + 1]

console_backspace(k) ==
    CASE k.column > 0 -> [k EXCEPT !.column = @ - 1, !.cells = @ \ {<<k.row, k.column - 1>>}]
      [] k.column = 0 /\ k.row > 0 ->
            [cells |-> k.cells \ {<<k.row - 1, WIDTH - 1>>},
             row |-> k.row - 1, column |-> WIDTH - 1]
      [] OTHER -> k

\* The echo of a key; F1 to F3 print a line of their own.
Echo(k, key) ==
    CASE key = "letter"    -> PutVisible(k)
      [] key = "enter"     -> NewLine(k)
      [] key = "backspace" -> console_backspace(k)
      [] key = "function"  -> NewLine(PutVisible(NewLine(k)))

Keys == {"letter", "enter", "backspace", "function"}

\* Nothing is loaded or half done: what comes next is a character's first access.
BetweenCharacters ==
    \/ writer.pc \in {"next", "load column"}
    \/ writer.pc = "load row" /\ writer.c = "newline"
    \/ writer.pc = "zero column" /\ writer.c = "return"

keyboard_handler(key) ==
    LET after == Echo([cells |-> screen, row |-> console_row, column |-> console_column], key)
    IN  /\ after.row < HEIGHT + BELOW
        /\ screen' = after.cells
        /\ console_row' = after.row
        /\ console_column' = after.column
        /\ torn' = (torn \/ ~BetweenCharacters)
        /\ UNCHANGED writer

---------------------------------------------------------------------------
(* printk, one directive of the format at a time. *)

FirstAccess(c) ==
    CASE c \in {"x", "tab"} -> "load column"
      [] c = "newline"      -> "load row"
      [] c = "return"       -> "zero column"

\* n characters like c are handed to console_putchar one after the other.
Putting(w, c, n) ==
    IF n = 0 THEN w ELSE [w EXCEPT !.pc = FirstAccess(c), !.c = c, !.left = n]

\* A character that is not '%'; "%%" comes to the same.
Ordinary(c) == writer' = Putting(writer, c, 1)

ConvertString == \E n \in 0 .. LENGTH : writer' = Putting(writer, "x", n)

ConvertChar == \E c \in Chars : writer' = Putting(writer, c, 1)

TextLength(text) == Len(text.digits) + IF text.minus THEN 1 ELSE 0

\* %d and %u in decimal, %x, %X and, with its prefix, %p in hexadecimal.
ConvertNumber ==
    \E word \in Words, prefix \in {0, 2} :
        \E n \in {Number(AsInt(word), 10, itoa(AsInt(word))), Number(word, 10, utoa(word, 10)),
                  Number(word, 16, utoa(word, 16))} :
            /\ prefix = 2 => n.base = 16
            /\ writer' = Putting([writer EXCEPT !.number = n], "x", prefix + TextLength(n.text))

(* A width or a flag is an unknown specifier: '%' and the character after   *)
(* it are put, the rest follows as ordinary characters.  The argument stays *)
(* for the next conversion.                                                 *)
Unknown == writer' = Putting(writer, "x", 2)

\* printk_info, printk_warn, printk_error: the format as it is, and a newline.
Log == \E n \in 1 .. LENGTH : writer' = [Putting(Free, "x", n) EXCEPT !.line = TRUE]

printk ==
    /\ writer.pc = "next"
    /\ \/ \E c \in Chars : Ordinary(c)
       \/ ConvertString \/ ConvertChar \/ ConvertNumber \/ Unknown
       \/ Log
    /\ UNCHANGED <<console, torn>>

---------------------------------------------------------------------------
(* console_putchar and console_clear. *)

\* The character is done: the next one, the newline, or the next directive.
Done ==
    LET w == [writer EXCEPT !.col = 0, !.row = 0, !.number = NONE]
    IN  IF w.left > 1 THEN [w EXCEPT !.left = @ - 1, !.pc = FirstAccess(w.c)]
        ELSE IF w.line THEN Putting([w EXCEPT !.line = FALSE], "newline", 1)
        ELSE [w EXCEPT !.left = 0, !.c = "x", !.pc = "next"]

GoTo(pc) == [writer EXCEPT !.pc = pc]

\* The tab stop after the column.
Stop(col) == (col \div TAB + 1) * TAB

\* A character needs the row too, a tab only if there is no stop left in it.
LoadColumn ==
    /\ writer.pc = "load column"
    /\ writer' = IF writer.c = "tab" /\ Stop(console_column) < WIDTH
                 THEN [GoTo("store column") EXCEPT !.col = Stop(console_column), !.number = NONE]
                 ELSE [GoTo("load row") EXCEPT !.col = console_column, !.number = NONE]
    /\ UNCHANGED <<console, torn>>

LoadRow ==
    /\ writer.pc = "load row"
    /\ writer' = [GoTo(IF writer.c = "x" THEN "cell" ELSE "zero column") EXCEPT !.row = console_row]
    /\ UNCHANGED <<console, torn>>

\* A bug: the column is compared before it is incremented.
WrapsLate ==
    /\ writer.pc = "cell"
    /\ screen' = screen \cup ({<<writer.row, writer.col>>} \cap Cell)
    /\ writer' = IF writer.col = WIDTH THEN GoTo("zero column")
                 ELSE [GoTo("store column") EXCEPT !.col = @ + 1]
    /\ UNCHANGED <<console_row, console_column, torn>>

\* The cell; then the column after it, or the next line.
console_putchar_at ==
    /\ writer.pc = "cell"
    /\ screen' = screen \cup ({<<writer.row, writer.col>>} \cap Cell)
    /\ writer' = IF writer.col + 1 = WIDTH THEN GoTo("zero column")
                 ELSE [GoTo("store column") EXCEPT !.col = @ + 1]
    /\ UNCHANGED <<console_row, console_column, torn>>

StoreColumn ==
    /\ writer.pc = "store column"
    /\ console_column' = writer.col
    /\ writer' = Done
    /\ UNCHANGED <<screen, console_row, torn>>

\* Also the end of console_scroll and of console_clear, which have no row in a register.
ZeroColumn ==
    /\ writer.pc = "zero column"
    /\ console_column' = 0
    /\ torn' = (torn \/ writer.c = "return")
    /\ writer' = IF writer.c = "return" \/ writer.row = NONE THEN Done ELSE GoTo("store row")
    /\ UNCHANGED <<screen, console_row>>

\* A bug: console_row++ == VGA_HEIGHT.
TestThenStore ==
    /\ writer.pc = "store row"
    /\ console_row' = writer.row + 1
    /\ writer' = IF writer.row = HEIGHT THEN GoTo("copy") ELSE Done
    /\ UNCHANGED <<screen, console_column, torn>>

\* ++console_row in a register, stored, and compared with VGA_HEIGHT.
StoreRow ==
    /\ writer.pc = "store row"
    /\ console_row' = writer.row + 1
    /\ writer' = IF writer.row + 1 = HEIGHT THEN GoTo("copy") ELSE Done
    /\ UNCHANGED <<screen, console_column, torn>>

\* A bug: the last row is kept.
LastRowKept(cells) == cells

\* The second loop of console_scroll.
LastRowBlank(cells) == {cell \in cells : cell[1] < HEIGHT - 1}

\* The rows are copied one up, the last one is cleared, the cursor put there.
console_scroll ==
    \/ /\ writer.pc = "copy"
       /\ screen' = Scrolled(screen) \cup {cell \in screen : cell[1] = HEIGHT - 1}
       /\ writer' = GoTo("blank")
       /\ UNCHANGED <<console_row, console_column, torn>>
    \/ /\ writer.pc = "blank"
       /\ screen' = LastRowBlank(screen)
       /\ writer' = GoTo("last row")
       /\ UNCHANGED <<console_row, console_column, torn>>
    \/ /\ writer.pc = "last row"
       /\ console_row' = HEIGHT - 1
       /\ writer' = [GoTo("zero column") EXCEPT !.row = NONE]
       /\ UNCHANGED <<screen, console_column, torn>>

\* The "clear" command.
console_clear ==
    \/ /\ writer = Free
       /\ writer' = GoTo("wipe")
       /\ UNCHANGED <<console, torn>>
    \/ /\ writer.pc = "wipe"
       /\ screen' = {}
       /\ torn' = FALSE
       /\ writer' = GoTo("first row")
       /\ UNCHANGED <<console_row, console_column>>
    \/ /\ writer.pc = "first row"
       /\ console_row' = 0
       /\ writer' = [GoTo("zero column") EXCEPT !.row = NONE]
       /\ UNCHANGED <<screen, console_column, torn>>

console_putchar ==
    LoadColumn \/ LoadRow \/ console_putchar_at \/ StoreColumn \/ ZeroColumn \/ StoreRow \/ console_scroll

Next == (\E key \in Keys : keyboard_handler(key)) \/ printk \/ console_putchar \/ console_clear

Spec == Init /\ [][Next]_vars

---------------------------------------------------------------------------
(* Properties. *)

(* A column is never WIDTH or more, in memory or in a register, whatever    *)
(* interrupts console_putchar: its tests are for equality and would not see *)
(* a cursor that is past them.                                              *)
TypeOK ==
    /\ screen \subseteq Cell
    /\ console_row \in 0 .. HEIGHT + BELOW - 1
    /\ console_column \in 0 .. WIDTH - 1
    /\ torn \in BOOLEAN
    /\ writer.pc \in Accesses /\ writer.c \in Chars
    /\ writer.col \in 0 .. WIDTH - 1
    /\ writer.row \in (0 .. HEIGHT - 1) \cup {NONE}

(* The row is on the screen except between the store of HEIGHT and the end  *)
(* of console_scroll: a newline echoed in between moves it further down,    *)
(* where == HEIGHT never holds, but not for good.                           *)
CursorOnScreen == console_row < HEIGHT \/ writer.pc \in {"copy", "blank", "last row"}

\* Where the cursor is, or comes before.
AtOrAfterCursor(cell) ==
    \/ cell[1] > console_row
    \/ cell[1] = console_row /\ cell[2] >= console_column

(* New text and the echo of keys never land on old text: from the cursor on *)
(* the screen is blank, through wrapping, scrolling, tabs and backspaces    *)
(* over line ends, unless an interrupt hit console_putchar or \r went back. *)
BlankAfterCursor ==
    ~torn /\ BetweenCharacters => \A cell \in screen : ~AtOrAfterCursor(cell)

\* The value that a reader takes a row of digits for.
Denoted(digits, base) ==
    LET upTo[i \in 0 .. Len(digits)] ==
            IF i = 0 THEN 0 ELSE upTo[i - 1] * base + digits[i]
    IN  upTo[Len(digits)]

(* The characters of a number are digits of its base and denote it, in      *)
(* decimal or hexadecimal, signed or not; the least int is the exception,   *)
(* which itoa cannot negate.                                                *)
NumberReadsBack ==
    writer.number # NONE /\ writer.number.value # -2^(BITS - 1) =>
        LET n == writer.number
        IN  /\ \A i \in DOMAIN n.text.digits : n.text.digits[i] \in 0 .. n.base - 1
            /\ (IF n.text.minus THEN -1 ELSE 1) * Denoted(n.text.digits, n.base) = n.value
===========================================================================
