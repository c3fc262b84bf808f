---------------------------- MODULE Interrupts ----------------------------
(* Boot and hardware interrupts: the calls of kmain in their order, the     *)
(* descriptor tables (gdt.c, tss.c, idt.c), the two interrupt controllers   *)
(* (pic.c), the dispatch of an interrupt (idt_handlers.asm, panic.c), and   *)
(* the timer with those who sleep on it (timer.c).  A handler runs with     *)
(* interrupts off: one step.  The scheduler is off, Multitasking models it; *)
(* the thread of the kernel is kmain, then the shell.                       *)
EXTENDS Integers, Sequences, FiniteSets, FiniteSetsExt

CONSTANTS BITS,        \* width of system_ticks (32)
          HZ,          \* frequency asked of timer_init (100)
          BOOT_TICKS,  \* ticks between sti and the sleep of kmain, a bound
          BOOT_SLEEP,  \* milliseconds that kmain sleeps (500)
          Sleeps,      \* milliseconds that commands sleep (500, 3000)
          Lines        \* the IRQ lines that devices raise

PIT_FREQUENCY == 1193182

WORD == 2^BITS

ASSUME InterruptsAssumption ==
    /\ BITS \in Nat \ {0}
    /\ HZ \in 1 .. 1000 /\ BOOT_TICKS \in Nat
    \* far from the overflow of milliseconds * timer_frequency_hz
    /\ \A ms \in Sleeps \cup {BOOT_SLEEP} : ms \in 0 .. 3000
    /\ {0, 1} \subseteq Lines /\ Lines \subseteq 0 .. 15

\* A power of two is positive: the proofs have no arithmetic of powers.
ASSUME WordAssumption == WORD > 0

VARIABLES
    boot,           \* how far kmain is, an index of BootOrder
    interrupts_on,  \* EFLAGS.IF
    gdt,            \* descriptors that are present: index -> what it is
    gates,          \* gates that are present: vector -> the kind of its stub
    pic,            \* both controllers: vector bases, imr, irr, isr
    obf,            \* a byte waits in the keyboard controller
    system_ticks, timer_frequency_hz,
    sleeper,        \* the thread of the kernel in timer_sleep_ticks, see Sleeping
    fault           \* "no", or what an interrupt or a segment load ended in

tables == <<gdt, gates>>
timer == <<system_ticks, timer_frequency_hz>>
vars == <<boot, interrupts_on, tables, pic, obf, timer, sleeper, fault>>

\* kmain; what "others" initialise is modelled in the modules on them.
BootOrder == <<"gdt", "tss", "idt", "pic", "timer", "memory", "paging", "process",
               "scheduler", "usermode", "syscall", "keyboard", "sti", "sleep", "shell">>

Others == {"memory", "paging", "process", "scheduler", "usermode"}

At(step) == fault = "no" /\ BootOrder[boot] = step

Awake == [pc |-> "awake", target |-> 0, ticks |-> 0, elapsed |-> 0, wraps |-> FALSE,
          ticked |-> FALSE]

\* What GRUB and the BIOS leave: interrupts off, IRQ 0 at vector 8, nothing masked.
Init ==
    /\ boot = 1
    /\ interrupts_on = FALSE
    /\ gdt = <<>>
    /\ gates = <<>>
    /\ pic = [master |-> 8, slave |-> 112, imr |-> {}, irr |-> {}, isr |-> {}]
    /\ obf = FALSE
    /\ system_ticks = 0
    /\ timer_frequency_hz = 0
    /\ sleeper = Awake
    /\ fault = "no"

---------------------------------------------------------------------------
(* The interrupt controllers. *)

\* A non-specific EOI ends the most urgent interrupt in service.
Eoi(isr) == IF isr = {} THEN {} ELSE isr \ {Min(isr)}

\* The slave hears of IRQ 8 to 15, the master of all.
pic_send_eoi(isr, irq) ==
    LET master == isr \cap 0 .. 7
        slave  == isr \cap 8 .. 15
    IN  Eoi(master) \cup IF irq >= 8 THEN Eoi(slave) ELSE slave

pic_enable_irq(irq) == pic' = [pic EXCEPT !.imr = @ \ {irq}]

\* A bug: the bases stay as the BIOS has set them.
pic_not_remapped ==
    /\ At("pic")
    /\ boot' = boot + 1
    /\ pic' = [pic EXCEPT !.imr = (0 .. 15) \ {2}, !.irr = {}, !.isr = {}]
    /\ UNCHANGED <<interrupts_on, tables, obf, timer, sleeper, fault>>

(* ICW1 forgets requests and service, and asks for new edges; ICW2 moves    *)
(* the vectors; then all but the cascade is masked.                         *)
pic_init ==
    /\ At("pic")
    /\ boot' = boot + 1
    /\ pic' = [master |-> 32, slave |-> 40, imr |-> (0 .. 15) \ {2}, irr |-> {}, isr |-> {}]
    /\ UNCHANGED <<interrupts_on, tables, obf, timer, sleeper, fault>>

\* A device raises its line; a request is latched, masked or not.
Raise(irq) ==
    /\ irq # 1
    /\ irq \notin pic.irr
    /\ pic' = [pic EXCEPT !.irr = @ \cup {irq}]
    /\ UNCHANGED <<boot, interrupts_on, tables, obf, timer, sleeper, fault>>

\* The line of the keyboard rises with a byte and stays up until it is read.
KeyPressed ==
    /\ ~obf
    /\ obf' = TRUE
    /\ pic' = [pic EXCEPT !.irr = @ \cup {1}]
    /\ UNCHANGED <<boot, interrupts_on, tables, timer, sleeper, fault>>

---------------------------------------------------------------------------
(* The tables. *)

kernel_cs == 1
kernel_ds == 2

Loads(selector, what) == selector \in DOMAIN gdt' /\ gdt'[selector] = what

\* Five descriptors, then gdt_flush loads the segment registers from them.
gdt_init ==
    /\ At("gdt")
    /\ boot' = boot + 1
    /\ gdt' = [i \in 1 .. 4 |-> CASE i = 1 -> "kernel code" [] i = 2 -> "kernel data"
                                  [] i = 3 -> "user code"   [] i = 4 -> "user data"]
    /\ fault' = IF Loads(kernel_ds, "kernel data") /\ Loads(kernel_cs, "kernel code")
                THEN fault ELSE "reset"
    /\ UNCHANGED <<interrupts_on, gates, pic, obf, timer, sleeper>>

\* Descriptor 5, then ltr.
tss_init ==
    /\ At("tss")
    /\ boot' = boot + 1
    /\ gdt' = [i \in DOMAIN gdt \cup {5} |-> IF i = 5 THEN "tss" ELSE gdt[i]]
    /\ fault' = IF Loads(5, "tss") THEN fault ELSE "reset"
    /\ UNCHANGED <<interrupts_on, gates, pic, obf, timer, sleeper>>

\* Exceptions have isr_common_stub behind them, IRQs irq_common_stub.
idt_init ==
    /\ At("idt")
    /\ boot' = boot + 1
    /\ gates' = [v \in 0 .. 47 |-> IF v < 32 THEN "isr" ELSE "irq"]
    /\ UNCHANGED <<interrupts_on, gdt, pic, obf, timer, sleeper, fault>>

\* The gate of int 0x80.
syscall_init ==
    /\ At("syscall")
    /\ boot' = boot + 1
    /\ gates' = [v \in DOMAIN gates \cup {128} |-> IF v = 128 THEN "syscall" ELSE gates[v]]
    /\ UNCHANGED <<interrupts_on, gdt, pic, obf, timer, sleeper, fault>>

---------------------------------------------------------------------------
(* The rest of boot. *)

OtherInit ==
    /\ fault = "no"
    /\ BootOrder[boot] \in Others
    /\ boot' = boot + 1
    /\ UNCHANGED <<interrupts_on, tables, pic, obf, timer, sleeper, fault>>

Clamped(divisor) == IF divisor < 1 THEN 1 ELSE IF divisor > 65535 THEN 65535 ELSE divisor

\* A bug: IRQ 0 stays masked.
timer_init_masked ==
    /\ At("timer")
    /\ boot' = boot + 1
    /\ timer_frequency_hz' = PIT_FREQUENCY \div Clamped(PIT_FREQUENCY \div HZ)
    /\ UNCHANGED <<interrupts_on, tables, pic, obf, system_ticks, sleeper, fault>>

timer_init ==
    /\ At("timer")
    /\ boot' = boot + 1
    /\ timer_frequency_hz' = PIT_FREQUENCY \div Clamped(PIT_FREQUENCY \div HZ)
    /\ pic_enable_irq(0)
    /\ UNCHANGED <<interrupts_on, tables, obf, system_ticks, sleeper, fault>>

\* A bug: what was typed during boot is left in the controller.
keyboard_init_no_drain ==
    /\ At("keyboard")
    /\ boot' = boot + 1
    /\ pic_enable_irq(1)
    /\ UNCHANGED <<interrupts_on, tables, obf, timer, sleeper, fault>>

(* Bytes that wait are discarded, then IRQ 1 is enabled.  A key may follow  *)
(* the last look at the status before that: its request is latched.         *)
keyboard_init ==
    /\ At("keyboard")
    /\ IF obf
       THEN /\ obf' = FALSE
            /\ UNCHANGED <<boot, pic>>
       ELSE /\ boot' = boot + 1
            /\ pic_enable_irq(1)
            /\ UNCHANGED obf
    /\ UNCHANGED <<interrupts_on, tables, timer, sleeper, fault>>

Sti ==
    /\ At("sti")
    /\ boot' = boot + 1
    /\ interrupts_on' = TRUE
    /\ UNCHANGED <<tables, pic, obf, timer, sleeper, fault>>

---------------------------------------------------------------------------
(* Interrupts. *)

Cascaded(irq) == IF irq >= 8 THEN {2, irq} ELSE {irq}

\* Neither masked, nor less urgent than what is in service.
Deliverable ==
    {irq \in pic.irr : /\ Cascaded(irq) \cap pic.imr = {}
                       /\ \A i \in pic.isr : Min(Cascaded(irq)) < i}

Vector(irq) == IF irq < 8 THEN pic.master + irq ELSE pic.slave + irq - 8

\* An interrupt ends a hlt that has been executed, and nothing else.
Woken(s) == IF s.pc = "halted" THEN [s EXCEPT !.pc = "test"] ELSE s

\* The history of a sleep counts ticks, as far as they tell anything.
Counted(s) ==
    IF s.pc \in {"awake", "done"} THEN s
    ELSE [s EXCEPT !.elapsed = IF @ < WORD + 2 THEN @ + 1 ELSE @, !.ticked = TRUE]

\* A bug: the counter has another width than the sleepers' target.
wide_ticks ==
    /\ system_ticks' = system_ticks + 1
    /\ sleeper' = Counted(Woken(sleeper))
    /\ UNCHANGED <<timer_frequency_hz, obf>>

\* A bug: the tick is not counted.
no_ticks ==
    /\ sleeper' = Counted(Woken(sleeper))
    /\ UNCHANGED <<timer, obf>>

timer_handler ==
    /\ system_ticks' = (system_ticks + 1) % WORD
    /\ sleeper' = Counted(Woken(sleeper))
    /\ UNCHANGED <<timer_frequency_hz, obf>>

\* The byte is read, even if there is none.
keyboard_handler ==
    /\ obf' = FALSE
    /\ sleeper' = Woken(sleeper)
    /\ UNCHANGED timer

Unhandled ==
    /\ sleeper' = Woken(sleeper)
    /\ UNCHANGED <<timer, obf>>

(* irq_handler by the vector, and its EOI.  Without a gate, or behind that  *)
(* of an exception, it is not reached.                                      *)
irq_handler(irq, vector, isr) ==
    IF vector \in DOMAIN gates /\ gates[vector] = "irq" /\ gdt[kernel_cs] = "kernel code"
    THEN /\ CASE vector = 32 -> timer_handler
              [] vector = 33 -> keyboard_handler
              [] OTHER       -> Unhandled
         /\ pic' = [pic EXCEPT !.irr = @ \ {irq}, !.isr = pic_send_eoi(isr, irq)]
         /\ UNCHANGED fault
    ELSE /\ fault' = IF vector \in DOMAIN gates THEN "panic" ELSE "reset"
         /\ UNCHANGED <<timer, sleeper, obf, pic>>

(* The most urgent request.  A step of the sleeping loop takes far less     *)
(* than a tick: two ticks never fall between two of them.                   *)
Deliver(irq) ==
    /\ fault = "no"
    /\ interrupts_on
    /\ irq \in Deliverable /\ irq = Min(Deliverable)
    /\ irq = 0 /\ At("sleep") => system_ticks < BOOT_TICKS
    /\ irq = 0 /\ sleeper.pc \in {"test", "hlt"} => ~sleeper.ticked
    /\ irq_handler(irq, Vector(irq), pic.isr \cup Cascaded(irq))
    /\ UNCHANGED <<boot, interrupts_on, tables>>

(* A line that falls back before it is acknowledged arrives as IRQ 7 with   *)
(* nothing in service; irq_handler acknowledges all the same.               *)
Spurious ==
    /\ fault = "no"
    /\ interrupts_on
    /\ irq_handler(7, Vector(7), pic.isr)
    /\ UNCHANGED <<boot, interrupts_on, tables>>

---------------------------------------------------------------------------
(* Sleeping. *)

\* A bug: a sleep of less than a tick is none.
TicksRoundedDown(ms) == (ms * timer_frequency_hz) \div 1000

\* timer_sleep_ms
Ticks(ms) ==
    LET ticks == (ms * timer_frequency_hz) \div 1000
    IN  IF ticks = 0 THEN 1 ELSE ticks

(* timer_sleep_ticks adds in 32 bits.  wraps says that the counter may pass *)
(* its end before the sleeper has seen the target.                          *)
Sleeping(ms) ==
    [Awake EXCEPT !.pc     = "test",
                  !.ticks  = Ticks(ms),
                  !.target = (system_ticks + Ticks(ms)) % WORD,
                  !.wraps  = system_ticks + Ticks(ms) + 1 >= WORD]

FallAsleep ==
    /\ fault = "no"
    /\ sleeper.pc = "awake"
    /\ \/ /\ At("sleep")
          /\ boot' = boot + 1
          /\ sleeper' = Sleeping(BOOT_SLEEP)
       \/ /\ At("shell")
          /\ \E ms \in Sleeps : sleeper' = Sleeping(ms)
          /\ UNCHANGED boot
    /\ UNCHANGED <<interrupts_on, tables, pic, obf, timer, fault>>

\* while (system_ticks < target)
Test ==
    /\ fault = "no"
    /\ sleeper.pc = "test"
    /\ sleeper' = IF system_ticks < sleeper.target
                  THEN [sleeper EXCEPT !.pc = "hlt", !.ticked = FALSE]
                  ELSE [sleeper EXCEPT !.pc = "done"]
    /\ UNCHANGED <<boot, interrupts_on, tables, pic, obf, timer, fault>>

Hlt ==
    /\ fault = "no"
    /\ sleeper.pc = "hlt"
    /\ sleeper' = [sleeper EXCEPT !.pc = "halted", !.ticked = FALSE]
    /\ UNCHANGED <<boot, interrupts_on, tables, pic, obf, timer, fault>>

WakeUp ==
    /\ fault = "no"
    /\ sleeper.pc = "done"
    /\ sleeper' = Awake
    /\ UNCHANGED <<boot, interrupts_on, tables, pic, obf, timer, fault>>

timer_sleep == Test \/ Hlt \/ WakeUp

kmain == gdt_init \/ tss_init \/ idt_init \/ pic_init \/ timer_init \/ OtherInit
         \/ syscall_init \/ keyboard_init \/ Sti

Next ==
    \/ kmain \/ FallAsleep \/ timer_sleep
    \/ \E irq \in Lines : Raise(irq) \/ Deliver(irq)
    \/ KeyPressed \/ Spurious

(* The kernel executes instructions, also those of boot's one sleep, and    *)
(* the timer goes on.  A request is served before long: a handler takes far *)
(* less than the time between two ticks, so that IRQ 0 cannot starve IRQ 1. *)
(* A look at the status of the keyboard takes far less than a keystroke.    *)
Fairness ==
    /\ WF_vars(kmain \/ (boot < Len(BootOrder) /\ FallAsleep) \/ timer_sleep)
    /\ SF_vars(~obf /\ keyboard_init)
    /\ WF_vars(Raise(0))
    /\ SF_vars(Deliver(0))
    /\ SF_vars(Deliver(1))

Spec == Init /\ [][Next]_vars /\ Fairness

---------------------------------------------------------------------------
(* Properties. *)

TypeOK ==
    /\ boot \in DOMAIN BootOrder
    /\ interrupts_on \in BOOLEAN /\ obf \in BOOLEAN
    /\ DOMAIN gdt \subseteq 1 .. 5 /\ DOMAIN gates \subseteq 0 .. 255
    /\ pic.imr \subseteq 0 .. 15 /\ pic.irr \subseteq Lines /\ pic.isr \subseteq 0 .. 15
    /\ system_ticks \in 0 .. WORD - 1
    /\ timer_frequency_hz \in Nat
    /\ sleeper.pc \in {"awake", "test", "hlt", "halted", "done"}
    /\ sleeper.target \in 0 .. WORD - 1

(* No interrupt arrives through the vector of an exception, as those of the *)
(* BIOS would, or through a gate or a segment that is not there yet; none   *)
(* is left in service by its handler, which would block the others.         *)
InterruptsInOrder == fault = "no" /\ pic.isr = {}

(* A sleep lasts as many ticks as were asked for, at least one, and at most *)
(* one more, the one that comes between the test and the hlt; unless the    *)
(* 32-bit counter wraps meanwhile, when it may end at once or sleep on.     *)
SleepLength ==
    sleeper.pc = "done" /\ ~sleeper.wraps =>
        /\ sleeper.elapsed >= 1
        /\ sleeper.elapsed \in sleeper.ticks .. sleeper.ticks + 1

(* A sleep ends, whatever interrupts come between the test and the hlt;     *)
(* unless the counter wraps.                                                *)
SleepEnds == sleeper.pc = "test" /\ ~sleeper.wraps ~> sleeper.pc = "awake"

\* kmain gets to the shell: the sleep before it needs the timer to tick.
BootReachesShell == <>(At("shell") /\ sleeper.pc = "awake")

(* A key is read, also one from before pic_init: the controller then wants  *)
(* a new edge of a line that is up and stays up until somebody reads.       *)
KeyIsServed == obf ~> ~obf
===========================================================================
