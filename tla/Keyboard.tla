----------------------------- MODULE Keyboard -----------------------------
(* The PS/2 keyboard driver of keyboard.c and its reader, the shell.  IRQ 1 *)
(* runs keyboard_handler with interrupts off: one step.  The shell runs     *)
(* with interrupts on: it reads a line (console_readline), executes it, and *)
(* a command may itself call keyboard_getchar once (cmd_test, cmd_paging).  *)
(* The steps of keyboard_getchar are the memory accesses of the build (gcc  *)
(* -O2): the count is loaded, stored decremented, and only then follow the  *)
(* character and the tail.                                                  *)
EXTENDS Integers, Sequences

CONSTANTS BUFFER,        \* sizeof input_buffer (256)
          MAX_LEN,       \* max_len of console_readline (MAX_COMMAND_LENGTH)
          Keys,          \* the keys the operator uses
          MAX_SLIPS      \* bound on the characters whose count is lost

\* What a scancode means; letter stands for the keys that have two cases.
AllKeys == {"letter", "enter", "backspace", "function",
            "shift down", "shift up", "ctrl down", "ctrl up", "alt down", "alt up", "caps"}

\* A character fits in the buffer beside the slot that stays unused.
ASSUME KeyboardAssumption ==
    /\ BUFFER \in Nat /\ BUFFER >= 2
    /\ MAX_LEN \in Nat /\ MAX_LEN >= 2
    /\ Keys \subseteq AllKeys
    /\ MAX_SLIPS \in Nat

VARIABLES
    modifiers,      \* keyboard_state.modifiers
    input_buffer,   \* keyboard_state.input_buffer
    buffer_head, buffer_tail, buffer_count,
    reader,         \* where keyboard_getchar is, the count it loaded, its
                    \* caller, and pos in console_readline
    accepted,       \* the characters buffered and not yet read (history)
    slipped         \* how many of them the count has lost (history)

buffer == <<input_buffer, buffer_head, buffer_tail, buffer_count>>
vars == <<modifiers, buffer, reader, accepted, slipped>>

Char == {"a", "A", "newline", "erase"}

(* "load"   about to test buffer_count                                      *)
(* "store"  count loaded and not zero, about to store it decremented        *)
(* "take"   about to read the character at buffer_tail                      *)
(* "hlt"    found the buffer empty, about to halt; "halted" until an IRQ    *)
ReaderAt == {"load", "store", "take", "hlt", "halted"}

\* Who called keyboard_getchar: console_readline, or a command.
Callers == {"readline", "command"}

\* keyboard_init, and the shell in its first console_readline.
Init ==
    /\ modifiers = {}
    /\ input_buffer = [i \in 0 .. BUFFER - 1 |-> "a"]
    /\ buffer_head = 0
    /\ buffer_tail = 0
    /\ buffer_count = 0
    /\ reader = [pc |-> "load", count |-> 0, caller |-> "readline", pos |-> 0]
    /\ accepted = <<>>
    /\ slipped = 0

---------------------------------------------------------------------------
(* IRQ 1. *)

\* An interrupt ends a hlt that has been executed, and nothing else.
Woken == IF reader.pc = "halted" THEN [reader EXCEPT !.pc = "load"] ELSE reader

\* A key may arrive at any point; at most MAX_SLIPS of them in "store".
Deliverable == reader.pc = "store" => slipped < MAX_SLIPS

\* A bug: the last slot is used too.
AddToTheLastSlot(c) ==
    IF buffer_count < BUFFER
    THEN /\ input_buffer' = [input_buffer EXCEPT ![buffer_head] = c]
         /\ buffer_head' = (buffer_head + 1) % BUFFER
         /\ buffer_count' = buffer_count + 1
         /\ accepted' = Append(accepted, c)
         /\ UNCHANGED buffer_tail
    ELSE UNCHANGED <<buffer, accepted>>

\* A bug: a character that was dropped is counted.
CountDropped(c) ==
    /\ buffer_count' = buffer_count + 1
    /\ UNCHANGED buffer_tail
    /\ IF buffer_count < BUFFER - 1
       THEN /\ input_buffer' = [input_buffer EXCEPT ![buffer_head] = c]
            /\ buffer_head' = (buffer_head + 1) % BUFFER
            /\ accepted' = Append(accepted, c)
       ELSE UNCHANGED <<input_buffer, buffer_head, accepted>>

\* One slot stays unused; a character that finds no other is dropped.
keyboard_add_to_buffer(c) ==
    IF buffer_count < BUFFER - 1
    THEN /\ input_buffer' = [input_buffer EXCEPT ![buffer_head] = c]
         /\ buffer_head' = (buffer_head + 1) % BUFFER
         /\ buffer_count' = buffer_count + 1
         /\ accepted' = Append(accepted, c)
         /\ UNCHANGED buffer_tail
    ELSE UNCHANGED <<buffer, accepted>>

\* The tables give a case by shift; caps lock then swaps it.
Letter == IF ("shift" \in modifiers) # ("caps" \in modifiers) THEN "A" ELSE "a"

\* A key that yields a character is echoed and buffered.
KeyCharacter(key) ==
    /\ key \in {"letter", "enter", "backspace"}
    /\ keyboard_add_to_buffer(CASE key = "letter" -> Letter
                                [] key = "enter" -> "newline"
                                [] key = "backspace" -> "erase")
    /\ UNCHANGED modifiers

\* Left and right shift are one bit, set by either press, cleared by either release.
KeyModifier(key) ==
    /\ modifiers' = CASE key = "shift down" -> modifiers \cup {"shift"}
                      [] key = "shift up"   -> modifiers \ {"shift"}
                      [] key = "ctrl down"  -> modifiers \cup {"ctrl"}
                      [] key = "ctrl up"    -> modifiers \ {"ctrl"}
                      [] key = "alt down"   -> modifiers \cup {"alt"}
                      [] key = "alt up"     -> modifiers \ {"alt"}
                      [] key = "caps" -> IF "caps" \in modifiers THEN modifiers \ {"caps"}
                                         ELSE modifiers \cup {"caps"}
                      [] key = "function"   -> modifiers
    /\ UNCHANGED <<buffer, accepted>>

keyboard_handler(key) ==
    /\ Deliverable
    /\ IF key \in {"letter", "enter", "backspace"} THEN KeyCharacter(key) ELSE KeyModifier(key)
    /\ reader' = Woken
    /\ slipped' = IF reader.pc = "store" /\ accepted' # accepted THEN slipped + 1 ELSE slipped

\* A bug: IRQ 0 is masked in the PIC.
TimerMasked ==
    /\ FALSE
    /\ UNCHANGED vars

\* IRQ 0 touches nothing here, but it too ends a hlt.
TimerInterrupt ==
    /\ reader.pc = "halted"
    /\ reader' = Woken
    /\ UNCHANGED <<modifiers, buffer, accepted, slipped>>

---------------------------------------------------------------------------
(* The shell. *)

(* The count is loaded and tested.  With an empty buffer keyboard_getchar   *)
(* returns 0: console_readline halts, a command just goes on.               *)
GetcharLoad ==
    /\ reader.pc = "load"
    /\ reader' = IF buffer_count # 0
                 THEN [reader EXCEPT !.pc = "store", !.count = buffer_count]
                 ELSE IF reader.caller = "readline"
                      THEN [reader EXCEPT !.pc = "hlt"]
                      ELSE [reader EXCEPT !.caller = "readline"]
    /\ UNCHANGED <<modifiers, buffer, accepted, slipped>>

(* The count loaded, less one, is stored: the increment of a key that came  *)
(* since the load is overwritten.                                           *)
GetcharStore ==
    /\ reader.pc = "store"
    /\ buffer_count' = reader.count - 1
    /\ reader' = [reader EXCEPT !.pc = "take", !.count = 0]
    /\ UNCHANGED <<modifiers, input_buffer, buffer_head, buffer_tail, accepted, slipped>>

\* A bug: the line may be one character too long.
EndsLineLate(c) == c = "newline" \/ (c # "erase" /\ reader.pos + 1 >= MAX_LEN)

\* A newline ends the line, and so does a character in its last place.
EndsLine(c) == c = "newline" \/ (c # "erase" /\ reader.pos + 1 >= MAX_LEN - 1)

\* A backspace takes one character of the line back, if there is one.
PosAfter(c) ==
    IF c # "erase" THEN reader.pos + 1
    ELSE IF reader.pos > 0 THEN reader.pos - 1 ELSE 0

(* The character is read and the tail moved.  After a line its command      *)
(* runs, and may call keyboard_getchar; a command ignores the character.    *)
GetcharTake ==
    LET c == input_buffer[buffer_tail]
    IN  /\ reader.pc = "take"
        /\ buffer_tail' = (buffer_tail + 1) % BUFFER
        /\ \E caller \in IF reader.caller = "readline" /\ EndsLine(c)
                         THEN Callers ELSE {"readline"} :
              reader' = [pc |-> "load", count |-> 0, caller |-> caller,
                         pos |-> IF reader.caller = "command" \/ EndsLine(c) THEN 0
                                 ELSE PosAfter(c)]
        /\ accepted' = Tail(accepted)
        /\ UNCHANGED <<modifiers, input_buffer, buffer_head, buffer_count, slipped>>

\* hlt, then continue when an interrupt has come.
Hlt ==
    /\ reader.pc = "hlt"
    /\ reader' = [reader EXCEPT !.pc = "halted"]
    /\ UNCHANGED <<modifiers, buffer, accepted, slipped>>

shell == GetcharLoad \/ GetcharStore \/ GetcharTake \/ Hlt

Next == (\E key \in Keys : keyboard_handler(key)) \/ TimerInterrupt \/ shell

\* The timer ticks and the shell executes instructions; nobody need type.
Spec == Init /\ [][Next]_vars /\ WF_vars(TimerInterrupt) /\ WF_vars(shell)

---------------------------------------------------------------------------
(* Properties. *)

\* Indexes stay in the buffer, the count below its size, pos in the line.
TypeOK ==
    /\ modifiers \subseteq {"shift", "ctrl", "alt", "caps"}
    /\ input_buffer \in [0 .. BUFFER - 1 -> Char]
    /\ buffer_head \in 0 .. BUFFER - 1
    /\ buffer_tail \in 0 .. BUFFER - 1
    /\ buffer_count \in 0 .. BUFFER - 1
    /\ reader \in [pc : ReaderAt, count : 0 .. BUFFER - 1, caller : Callers,
                   pos : 0 .. MAX_LEN - 2]
    /\ accepted \in Seq(Char)
    /\ slipped \in 0 .. MAX_SLIPS

(* The count never promises a character that is not there, and misses only  *)
(* those that slipped: wherever IRQ 1 interrupts keyboard_getchar, the      *)
(* count it goes on with is the number of unread characters less one for    *)
(* each key that came between its load and its store of buffer_count.       *)
NoPhantomCharacter ==
    Len(accepted) = slipped + CASE reader.pc = "store" -> reader.count
                                [] reader.pc = "take"  -> buffer_count + 1
                                [] OTHER               -> buffer_count

(* Head and tail stay as far apart as there are unread characters.  As long *)
(* as no count slipped the ring between them holds exactly those, in order: *)
(* the handler does not overwrite one that is unread, not even the one      *)
(* keyboard_getchar has already uncounted and is about to read.             *)
RingHoldsAccepted ==
    /\ (buffer_tail + Len(accepted)) % BUFFER = buffer_head
    /\ slipped = 0 =>
          /\ Len(accepted) <= BUFFER
          /\ \A i \in DOMAIN accepted :
                input_buffer[(buffer_tail + i - 1) % BUFFER] = accepted[i]

(* Characters that wait are read, all but as many as the count has lost:    *)
(* the hlt in console_readline never sleeps through the last key, even one  *)
(* that came between test and hlt, and a slip never costs more than itself. *)
InputIsRead == Len(accepted) > slipped ~> reader.pc = "take"
===========================================================================
