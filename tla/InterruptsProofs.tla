------------------------- MODULE InterruptsProofs -------------------------
(* For every width of the tick counter, every frequency of the timer, every *)
(* sleep and every set of IRQ lines: boot sets up the tables and the        *)
(* controllers in an order in which no interrupt finds them unready, and a  *)
(* sleep lasts what it should.                                              *)
EXTENDS Interrupts, TLAPS

---------------------------------------------------------------------------
(* Facts about the operators. *)

\* Division leaves numbers.
LEMMA Division ==
    ASSUME NEW a \in Nat, NEW b \in Nat, b >= 1
    PROVE  /\ a \div b \in Nat
           /\ a % b \in 0 .. b - 1
           /\ a < b => a % b = a
OBVIOUS

\* The ticks are counted modulo a positive number.
LEMMA WordType == WORD \in Nat /\ WORD >= 1
<1>1. WORD \in Int
  BY InterruptsAssumption DEF WORD
<1> QED BY <1>1, WordAssumption

\* Where kmain is, by the step it is about to take.
LEMMA BootSteps ==
    /\ DOMAIN BootOrder = 1 .. 15
    /\ \A i \in 1 .. 15 :
          /\ BootOrder[i] = "gdt"      <=> i = 1
          /\ BootOrder[i] = "tss"      <=> i = 2
          /\ BootOrder[i] = "idt"      <=> i = 3
          /\ BootOrder[i] = "pic"      <=> i = 4
          /\ BootOrder[i] = "timer"    <=> i = 5
          /\ BootOrder[i] \in Others   <=> i \in 6 .. 10
          /\ BootOrder[i] = "syscall"  <=> i = 11
          /\ BootOrder[i] = "keyboard" <=> i = 12
          /\ BootOrder[i] = "sti"      <=> i = 13
          /\ BootOrder[i] = "sleep"    <=> i = 14
          /\ BootOrder[i] = "shell"    <=> i = 15
BY DEF BootOrder, Others

\* Ending the only interrupt in service leaves none.
LEMMA EoiOfOne ==
    ASSUME NEW irq \in 0 .. 15
    PROVE  Eoi({irq}) = {}
<1>1. Min({irq}) = irq
  BY DEF Min
<1> QED BY <1>1 DEF Eoi

(* With nothing else in service, pic_send_eoi ends what an interrupt put    *)
(* there, in the slave and on the cascade line of the master too.           *)
LEMMA EoiEndsService ==
    ASSUME NEW irq \in 0 .. 15
    PROVE  /\ pic_send_eoi({} \cup Cascaded(irq), irq) = {}
           /\ pic_send_eoi({}, irq) = {}
<1>1. Eoi({}) = {}
  BY DEF Eoi
<1>2. pic_send_eoi({}, irq) = {}
  <2>1. {} \cap 0 .. 7 = {} /\ {} \cap 8 .. 15 = {}
    OBVIOUS
  <2> QED BY <1>1, <2>1 DEF pic_send_eoi
<1>3. CASE irq < 8
  <2>1. {} \cup Cascaded(irq) = {irq}
    BY <1>3 DEF Cascaded
  <2>2. {irq} \cap 0 .. 7 = {irq} /\ {irq} \cap 8 .. 15 = {}
    <3>1. irq \in 0 .. 7 /\ irq \notin 8 .. 15
      BY <1>3
    <3> QED BY ONLY <3>1, Zenon
  <2> QED BY <1>2, <1>3, <2>1, <2>2, EoiOfOne DEF pic_send_eoi
<1>4. CASE irq >= 8
  <2>1. {} \cup Cascaded(irq) = {2, irq}
    BY <1>4 DEF Cascaded
  <2>2. {2, irq} \cap 0 .. 7 = {2} /\ {2, irq} \cap 8 .. 15 = {irq}
    <3>1. irq \notin 0 .. 7 /\ irq \in 8 .. 15 /\ 2 \in 0 .. 7 /\ 2 \notin 8 .. 15
      BY <1>4
    <3> QED BY ONLY <3>1, Zenon
  <2> QED BY <1>2, <1>4, <2>1, <2>2, EoiOfOne DEF pic_send_eoi
<1> QED BY <1>3, <1>4

\* A sleep is at least a tick, and its target a value of the counter.
LEMMA TicksType ==
    ASSUME NEW ms \in Nat, timer_frequency_hz \in Nat
    PROVE  Ticks(ms) \in Nat /\ Ticks(ms) >= 1
<1>1. ms * timer_frequency_hz \in Nat
  OBVIOUS
<1>2. (ms * timer_frequency_hz) \div 1000 \in Nat
  BY <1>1, Division
<1> QED BY <1>2 DEF Ticks

---------------------------------------------------------------------------
(* The inductive invariant. *)

\* What irq_handler needs of the tables.
CodeSegment(g) == kernel_cs \in DOMAIN g /\ g[kernel_cs] = "kernel code"
IrqGates(g) == \A v \in 32 .. 47 : v \in DOMAIN g /\ g[v] = "irq"

(* Why no interrupt faults: what kmain has passed is set up, and it passes  *)
(* sti after all of it.                                                     *)
ReadyBeforeSti ==
    /\ boot > 1 => CodeSegment(gdt)
    /\ boot > 3 => IrqGates(gates)
    /\ boot > 4 => pic.master = 32 /\ pic.slave = 40
    /\ boot <= 13 => interrupts_on = FALSE

(* Why a sleep is neither short nor long: the counter is as far from the    *)
(* target as ticks are missing.  It passes the target by one at most, and   *)
(* between the test and the hlt by none, where a tick goes unnoticed.       *)
OnTheWay ==
    sleeper.pc \in {"test", "hlt", "halted"} /\ ~sleeper.wraps =>
        /\ sleeper.ticks >= 1
        /\ sleeper.ticks <= sleeper.target
        /\ sleeper.target + 1 < WORD
        /\ system_ticks = (sleeper.target - sleeper.ticks) + sleeper.elapsed
        /\ sleeper.pc = "hlt" /\ ~sleeper.ticked => system_ticks < sleeper.target
        /\ sleeper.pc = "test" /\ sleeper.ticked => system_ticks <= sleeper.target + 1
        /\ ~(sleeper.pc = "test" /\ sleeper.ticked) => system_ticks <= sleeper.target

\* The sleeper and the counter it looks at.
SleeperOK ==
    /\ sleeper \in [pc : {"awake", "test", "hlt", "halted", "done"},
                    target : 0 .. WORD - 1, ticks : Nat, elapsed : Nat,
                    wraps : BOOLEAN, ticked : BOOLEAN]
    /\ system_ticks \in 0 .. WORD - 1
    /\ OnTheWay
    /\ SleepLength

\* What boot sets up, and the controllers.
BootOK ==
    /\ boot \in 1 .. 15
    /\ interrupts_on \in BOOLEAN /\ obf \in BOOLEAN
    /\ DOMAIN gdt \subseteq 1 .. 5 /\ DOMAIN gates \subseteq 0 .. 255
    /\ pic \in [master : Nat, slave : Nat, imr : SUBSET (0 .. 15), irr : SUBSET Lines,
                isr : SUBSET (0 .. 15)]
    /\ timer_frequency_hz \in Nat
    /\ InterruptsInOrder
    /\ ReadyBeforeSti

IInv == BootOK /\ SleeperOK

\* The invariant has the types of TypeOK in it.
LEMMA IInvTypes == IInv => TypeOK
BY BootSteps DEF IInv, BootOK, SleeperOK, TypeOK

\* What GRUB hands over: nothing is set up, and interrupts are off.
LEMMA InitIInv == Init => IInv
<1> SUFFICES ASSUME Init
             PROVE  IInv
  OBVIOUS
<1> USE InterruptsAssumption, WordType DEF Init
<1>1. BootOK
  <2>1. DOMAIN gdt = {} /\ DOMAIN gates = {}
    OBVIOUS
  <2>2. interrupts_on \in BOOLEAN /\ obf \in BOOLEAN
    BY Zenon
  <2>3. InterruptsInOrder /\ ReadyBeforeSti
    BY DEF InterruptsInOrder, ReadyBeforeSti
  <2>4. pic \in [master : Nat, slave : Nat, imr : SUBSET (0 .. 15), irr : SUBSET Lines,
                 isr : SUBSET (0 .. 15)]
    OBVIOUS
  <2> QED BY <2>1, <2>2, <2>3, <2>4 DEF BootOK
<1>2. SleeperOK
  BY DEF SleeperOK, OnTheWay, SleepLength, Awake
<1> QED BY <1>1, <1>2 DEF IInv

---------------------------------------------------------------------------
(* The sleeper. *)

\* timer_sleep_ms reads the counter and sets the target.
LEMMA FallAsleepKeeps ==
    ASSUME SleeperOK, timer_frequency_hz \in Nat, NEW ms \in Nat,
           sleeper' = Sleeping(ms), UNCHANGED timer
    PROVE  SleeperOK'
<1> DEFINE n == Ticks(ms)
<1>1. n \in Nat /\ n >= 1
  BY TicksType
<1>2. system_ticks \in Nat /\ system_ticks < WORD /\ system_ticks + n \in Nat
  BY <1>1, WordType DEF SleeperOK
<1>3. /\ (system_ticks + n) % WORD \in 0 .. WORD - 1
      /\ system_ticks + n < WORD => (system_ticks + n) % WORD = system_ticks + n
  BY <1>2, WordType, Division
<1>4. /\ sleeper' = [pc |-> "test", target |-> (system_ticks + n) % WORD, ticks |-> n,
                     elapsed |-> 0, wraps |-> system_ticks + n + 1 >= WORD,
                     ticked |-> FALSE]
      /\ system_ticks' = system_ticks
  BY DEF Sleeping, Awake, timer
<1> HIDE DEF n
<1>9. /\ sleeper'.pc = "test" /\ sleeper'.target = (system_ticks + n) % WORD
      /\ sleeper'.ticks = n /\ sleeper'.elapsed = 0
      /\ ~sleeper'.wraps => ~(system_ticks + n + 1 >= WORD)
      /\ ~sleeper'.ticked
  <2> DEFINE w == system_ticks + n + 1 >= WORD
  <2>1. sleeper'.wraps = w /\ sleeper'.ticked = FALSE
    <3>1. sleeper' = [pc |-> "test", target |-> (system_ticks + n) % WORD, ticks |-> n,
                      elapsed |-> 0, wraps |-> w, ticked |-> FALSE]
      BY <1>4, Zenon
    <3>2. w \in BOOLEAN
      BY <1>1, <1>2, WordType
    <3> HIDE DEF w
    <3> QED BY ONLY <3>1, <3>2
  <2>2. ~sleeper'.wraps => ~(system_ticks + n + 1 >= WORD)
    BY ONLY <2>1, Zenon
  <2>3. ~sleeper'.ticked
    BY ONLY <2>1, Zenon
  <2> QED BY <1>4, <2>2, <2>3
<1>5. /\ sleeper' \in [pc : {"awake", "test", "hlt", "halted", "done"},
                       target : 0 .. WORD - 1, ticks : Nat, elapsed : Nat,
                       wraps : BOOLEAN, ticked : BOOLEAN]
      /\ system_ticks' \in 0 .. WORD - 1
  BY <1>1, <1>3, <1>4 DEF SleeperOK
<1>6. OnTheWay'
  <2> SUFFICES ASSUME ~(system_ticks + n + 1 >= WORD)
               PROVE  /\ n >= 1
                      /\ n <= (system_ticks + n) % WORD
                      /\ ((system_ticks + n) % WORD) + 1 < WORD
                      /\ system_ticks = (((system_ticks + n) % WORD) - n) + 0
                      /\ system_ticks <= (system_ticks + n) % WORD
    BY <1>4, <1>9 DEF OnTheWay
  <2>1. (system_ticks + n) % WORD = system_ticks + n
    BY <1>1, <1>2, <1>3, WordType
  <2> QED BY <1>1, <1>2, <2>1, WordType
<1>7. SleepLength'
  BY <1>4 DEF SleepLength
<1> QED BY <1>5, <1>6, <1>7 DEF SleeperOK

\* The loop of timer_sleep_ticks: a test that finds the target passed ends it.
LEMMA LoopKeeps ==
    ASSUME SleeperOK, timer_sleep
    PROVE  SleeperOK'
<1> USE WordType
<1>1. UNCHANGED system_ticks
  BY DEF timer_sleep, Test, Hlt, WakeUp, timer
<1>2. sleeper' \in [pc : {"awake", "test", "hlt", "halted", "done"},
                    target : 0 .. WORD - 1, ticks : Nat, elapsed : Nat,
                    wraps : BOOLEAN, ticked : BOOLEAN]
  <2>1. CASE Test
    BY <2>1 DEF Test, SleeperOK
  <2>2. CASE Hlt
    BY <2>2 DEF Hlt, SleeperOK
  <2>3. CASE WakeUp
    BY <2>3 DEF WakeUp, Awake
  <2> QED BY <2>1, <2>2, <2>3 DEF timer_sleep
<1>3. CASE Test
  <2>1. CASE system_ticks < sleeper.target
    <3>1. /\ sleeper.pc = "test"
          /\ sleeper' = [sleeper EXCEPT !.pc = "hlt", !.ticked = FALSE]
      BY <1>3, <2>1 DEF Test
    <3> QED BY <1>1, <1>2, <2>1, <3>1 DEF SleeperOK, OnTheWay, SleepLength
  <2>2. CASE ~(system_ticks < sleeper.target)
    <3>1. /\ sleeper.pc = "test"
          /\ sleeper' = [sleeper EXCEPT !.pc = "done"]
      BY <1>3, <2>2 DEF Test
    <3>2. ~sleeper.wraps => /\ sleeper.elapsed >= 1
                            /\ sleeper.elapsed \in sleeper.ticks .. sleeper.ticks + 1
      BY <2>2, <3>1 DEF SleeperOK, OnTheWay
    <3> QED BY <1>1, <1>2, <3>1, <3>2 DEF SleeperOK, OnTheWay, SleepLength
  <2> QED BY <2>1, <2>2
<1>4. CASE Hlt
  BY <1>1, <1>2, <1>4 DEF Hlt, SleeperOK, OnTheWay, SleepLength
<1>5. CASE WakeUp
  BY <1>1, <1>2, <1>5 DEF WakeUp, Awake, SleeperOK, OnTheWay, SleepLength
<1> QED BY <1>3, <1>4, <1>5 DEF timer_sleep

\* An interrupt that is not the timer's may end the hlt.
LEMMA WokenKeeps ==
    ASSUME SleeperOK, sleeper' = Woken(sleeper), UNCHANGED system_ticks
    PROVE  SleeperOK'
<1> USE WordType
<1>1. CASE sleeper.pc = "halted"
  <2>1. sleeper' = [sleeper EXCEPT !.pc = "test"]
    BY <1>1 DEF Woken
  <2>2. sleeper' \in [pc : {"awake", "test", "hlt", "halted", "done"},
                      target : 0 .. WORD - 1, ticks : Nat, elapsed : Nat,
                      wraps : BOOLEAN, ticked : BOOLEAN]
    BY <2>1 DEF SleeperOK
  <2> QED BY <1>1, <2>1, <2>2 DEF SleeperOK, OnTheWay, SleepLength
<1>2. CASE sleeper.pc # "halted"
  BY <1>2 DEF Woken, SleeperOK, OnTheWay, SleepLength
<1> QED BY <1>1, <1>2

(* A tick: between two steps of the loop there is one at most, so that the  *)
(* counter is not yet past the target when it comes.                        *)
LEMMA TickKeeps ==
    ASSUME SleeperOK,
           sleeper.pc \in {"test", "hlt"} => ~sleeper.ticked,
           system_ticks' = (system_ticks + 1) % WORD,
           sleeper' = Counted(Woken(sleeper))
    PROVE  SleeperOK'
<1> USE WordType
<1>1. /\ system_ticks \in Nat /\ system_ticks < WORD
      /\ system_ticks' \in 0 .. WORD - 1
      /\ system_ticks + 1 < WORD => system_ticks' = system_ticks + 1
  <2>1. system_ticks \in Nat /\ system_ticks < WORD /\ system_ticks + 1 \in Nat
    BY DEF SleeperOK
  <2> QED BY ONLY <2>1, WordType, Division, system_ticks' = (system_ticks + 1) % WORD
<1>2. CASE sleeper.pc \in {"awake", "done"}
  <2>1. sleeper' = sleeper
    BY <1>2 DEF Counted, Woken
  <2> QED BY <1>1, <1>2, <2>1 DEF SleeperOK, OnTheWay, SleepLength
<1>3. CASE sleeper.pc \notin {"awake", "done"}
  <2>1. /\ sleeper.pc \in {"test", "hlt", "halted"}
        /\ sleeper' = [sleeper EXCEPT !.pc = IF @ = "halted" THEN "test" ELSE @,
                                      !.elapsed = IF @ < WORD + 2 THEN @ + 1 ELSE @,
                                      !.ticked = TRUE]
    BY <1>3 DEF Counted, Woken, SleeperOK
  <2>2. sleeper' \in [pc : {"awake", "test", "hlt", "halted", "done"},
                      target : 0 .. WORD - 1, ticks : Nat, elapsed : Nat,
                      wraps : BOOLEAN, ticked : BOOLEAN]
    <3>1. (IF sleeper.elapsed < WORD + 2 THEN sleeper.elapsed + 1 ELSE sleeper.elapsed) \in Nat
      BY DEF SleeperOK
    <3> QED BY <2>1, <3>1 DEF SleeperOK
  <2>3. /\ sleeper'.pc \in {"test", "hlt"} /\ sleeper'.ticked
        /\ sleeper'.wraps = sleeper.wraps /\ sleeper'.ticks = sleeper.ticks
        /\ sleeper'.target = sleeper.target
        /\ sleeper.pc = "hlt" <=> sleeper'.pc = "hlt"
    BY <2>1 DEF SleeperOK
  <2>4. ASSUME ~sleeper.wraps
        PROVE  /\ system_ticks' = system_ticks + 1
               /\ sleeper'.elapsed = sleeper.elapsed + 1
    <3>1. system_ticks <= sleeper.target /\ sleeper.target + 1 < WORD
      BY <2>1, <2>4 DEF SleeperOK, OnTheWay
    <3>2. sleeper.elapsed < WORD + 2
      BY <2>1, <2>4, <3>1 DEF SleeperOK, OnTheWay
    <3> QED BY <1>1, <2>1, <3>1, <3>2 DEF SleeperOK
  <2>5. OnTheWay'
    BY <1>1, <2>1, <2>2, <2>3, <2>4 DEF SleeperOK, OnTheWay
  <2>6. SleepLength'
    BY <2>3 DEF SleepLength
  <2> QED BY <1>1, <2>2, <2>5, <2>6 DEF SleeperOK
<1> QED BY <1>2, <1>3

---------------------------------------------------------------------------
(* Boot. *)

\* A step of kmain leaves the sleeper and the counter alone.
LEMMA BootLeavesSleeper ==
    ASSUME kmain
    PROVE  UNCHANGED <<sleeper, system_ticks>>
BY DEF kmain, gdt_init, tss_init, idt_init, pic_init, timer_init, OtherInit, syscall_init,
       keyboard_init, Sti, timer

\* The tables: each is loaded after it is filled.
LEMMA TablesKeepBootOK ==
    ASSUME BootOK, gdt_init \/ tss_init \/ idt_init \/ syscall_init
    PROVE  BootOK'
<1>1. CASE gdt_init
  <2>1. /\ boot = 1 /\ boot' = 2
        /\ UNCHANGED <<interrupts_on, gates, pic, obf, timer_frequency_hz>>
    <3>1. /\ At("gdt") /\ boot' = boot + 1
          /\ UNCHANGED <<interrupts_on, gates, pic, obf, timer>>
      BY <1>1, Zenon DEF gdt_init
    <3> QED BY <3>1, BootSteps DEF At, BootOK, timer
  <2>2. /\ DOMAIN gdt' = 1 .. 4 /\ 1 \in DOMAIN gdt' /\ 2 \in DOMAIN gdt'
        /\ gdt'[1] = "kernel code" /\ gdt'[2] = "kernel data"
    <3> DEFINE d(i) == CASE i = 1 -> "kernel code" [] i = 2 -> "kernel data"
                         [] i = 3 -> "user code"   [] i = 4 -> "user data"
    <3>1. gdt' = [i \in 1 .. 4 |-> d(i)]
      BY <1>1 DEF gdt_init
    <3>2. d(1) = "kernel code" /\ d(2) = "kernel data"
      OBVIOUS
    <3>3. 1 \in 1 .. 4 /\ 2 \in 1 .. 4
      OBVIOUS
    <3> HIDE DEF d
    <3> QED BY ONLY <3>1, <3>2, <3>3
  <2>3. fault' = fault
    <3>1. Loads(kernel_ds, "kernel data") /\ Loads(kernel_cs, "kernel code")
      BY <2>2, Zenon DEF Loads, kernel_ds, kernel_cs
    <3> QED BY <1>1, <3>1, Zenon DEF gdt_init
  <2>4. CodeSegment(gdt')
    BY <2>2, Zenon DEF CodeSegment, kernel_cs
  <2>5. InterruptsInOrder' /\ ReadyBeforeSti'
    BY <2>1, <2>3, <2>4 DEF BootOK, InterruptsInOrder, ReadyBeforeSti
  <2>6. DOMAIN gdt' \subseteq 1 .. 5
    <3>1. 1 .. 4 \subseteq 1 .. 5
      OBVIOUS
    <3> QED BY <2>2, <3>1, Zenon
  <2> QED BY <2>1, <2>5, <2>6 DEF BootOK
<1>2. CASE tss_init
  <2>1. /\ boot = 2 /\ boot' = 3
        /\ UNCHANGED <<interrupts_on, gates, pic, obf, timer_frequency_hz>>
    BY <1>2, BootSteps DEF At, tss_init, BootOK, timer
  <2>2. /\ DOMAIN gdt' = DOMAIN gdt \cup {5} /\ gdt'[5] = "tss"
        /\ \A i \in DOMAIN gdt : i # 5 => gdt'[i] = gdt[i]
    BY <1>2 DEF tss_init
  <2>3. fault' = fault
    BY <1>2, <2>2 DEF tss_init, Loads
  <2>4. CodeSegment(gdt')
    <3>1. CodeSegment(gdt)
      BY <2>1 DEF BootOK, ReadyBeforeSti
    <3>2. 1 # 5
      OBVIOUS
    <3> QED BY <2>2, <3>1, <3>2, Zenon DEF CodeSegment, kernel_cs
  <2>5. InterruptsInOrder' /\ ReadyBeforeSti'
    BY <2>1, <2>3, <2>4 DEF BootOK, InterruptsInOrder, ReadyBeforeSti
  <2>6. DOMAIN gdt' \subseteq 1 .. 5
    BY <2>2 DEF BootOK
  <2> QED BY <2>1, <2>5, <2>6 DEF BootOK
<1>3. CASE idt_init
  <2>1. /\ boot = 3 /\ boot' = 4
        /\ UNCHANGED <<interrupts_on, gdt, pic, obf, timer_frequency_hz, fault>>
    BY <1>3, BootSteps DEF At, idt_init, BootOK, timer
  <2>2. DOMAIN gates' = 0 .. 47 /\ \A v \in 32 .. 47 : gates'[v] = "irq"
    BY <1>3 DEF idt_init
  <2>3. IrqGates(gates') /\ DOMAIN gates' \subseteq 0 .. 255
    BY <2>2 DEF IrqGates
  <2>4. InterruptsInOrder' /\ ReadyBeforeSti'
    BY <2>1, <2>3 DEF BootOK, InterruptsInOrder, ReadyBeforeSti
  <2> QED BY <2>1, <2>3, <2>4 DEF BootOK
<1>4. CASE syscall_init
  <2>1. /\ boot = 11 /\ boot' = 12
        /\ UNCHANGED <<interrupts_on, gdt, pic, obf, timer_frequency_hz, fault>>
    BY <1>4, BootSteps DEF At, syscall_init, BootOK, timer
  <2>2. /\ DOMAIN gates' = DOMAIN gates \cup {128}
        /\ \A v \in DOMAIN gates : v # 128 => gates'[v] = gates[v]
    BY <1>4 DEF syscall_init
  <2>3. IrqGates(gates') /\ DOMAIN gates' \subseteq 0 .. 255
    <3>1. IrqGates(gates)
      BY <2>1 DEF BootOK, ReadyBeforeSti
    <3> QED BY <2>2, <3>1 DEF IrqGates, BootOK
  <2>4. InterruptsInOrder' /\ ReadyBeforeSti'
    BY <2>1, <2>3 DEF BootOK, InterruptsInOrder, ReadyBeforeSti
  <2> QED BY <2>1, <2>3, <2>4 DEF BootOK
<1> QED BY <1>1, <1>2, <1>3, <1>4

\* The controllers and the devices: only pic_init moves the vectors.
LEMMA DevicesKeepBootOK ==
    ASSUME BootOK, pic_init \/ timer_init \/ keyboard_init
    PROVE  BootOK'
<1> USE InterruptsAssumption
<1>1. CASE pic_init
  <2>1. /\ boot = 4 /\ boot' = 5
        /\ pic' = [master |-> 32, slave |-> 40, imr |-> (0 .. 15) \ {2}, irr |-> {},
                   isr |-> {}]
        /\ UNCHANGED <<interrupts_on, gdt, gates, obf, timer_frequency_hz, fault>>
    BY <1>1, BootSteps DEF At, pic_init, BootOK, tables, timer
  <2>2. InterruptsInOrder' /\ ReadyBeforeSti'
    BY <2>1 DEF BootOK, InterruptsInOrder, ReadyBeforeSti
  <2> QED BY <2>1, <2>2 DEF BootOK
<1>2. CASE timer_init
  <2>1. /\ boot = 5 /\ boot' = 6
        /\ pic' = [pic EXCEPT !.imr = @ \ {0}]
        /\ timer_frequency_hz' = PIT_FREQUENCY \div Clamped(PIT_FREQUENCY \div HZ)
        /\ UNCHANGED <<interrupts_on, gdt, gates, obf, fault>>
    BY <1>2, BootSteps DEF At, timer_init, pic_enable_irq, BootOK, tables
  <2>2. timer_frequency_hz' \in Nat
    <3>1. PIT_FREQUENCY \div HZ \in Nat
      BY Division DEF PIT_FREQUENCY
    <3>2. Clamped(PIT_FREQUENCY \div HZ) \in Nat /\ Clamped(PIT_FREQUENCY \div HZ) >= 1
      BY <3>1 DEF Clamped
    <3>3. PIT_FREQUENCY \in Nat
      BY DEF PIT_FREQUENCY
    <3> QED BY ONLY <2>1, <3>2, <3>3, Division
  <2>3. InterruptsInOrder' /\ ReadyBeforeSti'
    BY <2>1 DEF BootOK, InterruptsInOrder, ReadyBeforeSti
  <2> QED BY <2>1, <2>2, <2>3 DEF BootOK
<1>3. CASE keyboard_init
  <2>1. /\ boot = 12 /\ boot' \in {12, 13}
        /\ \/ UNCHANGED pic /\ obf' = FALSE
           \/ pic' = [pic EXCEPT !.imr = @ \ {1}] /\ UNCHANGED obf
        /\ UNCHANGED <<interrupts_on, gdt, gates, timer_frequency_hz, fault>>
    BY <1>3, BootSteps DEF At, keyboard_init, pic_enable_irq, BootOK, tables, timer
  <2>2. obf' \in BOOLEAN
    <3>1. obf \in BOOLEAN /\ (obf' = FALSE \/ obf' = obf)
      BY <2>1, Zenon DEF BootOK
    <3> QED BY ONLY <3>1, Zenon
  <2>3. InterruptsInOrder' /\ ReadyBeforeSti'
    BY <2>1 DEF BootOK, InterruptsInOrder, ReadyBeforeSti
  <2> QED BY <2>1, <2>2, <2>3 DEF BootOK
<1> QED BY <1>1, <1>2, <1>3

\* What is left of kmain: interrupts go on when all is set up.
LEMMA RestKeepsBootOK ==
    ASSUME BootOK, OtherInit \/ Sti \/ FallAsleep
    PROVE  BootOK'
<1>1. CASE OtherInit \/ FallAsleep
  <2>1. /\ boot' \in {boot, boot + 1} /\ (boot' # boot => boot \in 6 .. 10 \/ boot = 14)
        /\ UNCHANGED <<interrupts_on, gdt, gates, pic, obf, timer_frequency_hz, fault>>
    <3>1. CASE OtherInit
      BY <3>1, BootSteps DEF At, OtherInit, BootOK, tables, timer
    <3>2. CASE FallAsleep
      BY <3>2, BootSteps DEF At, FallAsleep, BootOK, tables, timer
    <3> QED BY <1>1, <3>1, <3>2
  <2>2. boot' \in 1 .. 15
    BY <2>1 DEF BootOK
  <2>3. InterruptsInOrder' /\ ReadyBeforeSti'
    BY <2>1, <2>2 DEF BootOK, InterruptsInOrder, ReadyBeforeSti
  <2> QED BY <2>1, <2>2, <2>3 DEF BootOK
<1>2. CASE Sti
  <2>1. /\ boot = 13 /\ boot' = 14 /\ interrupts_on' = TRUE
        /\ UNCHANGED <<gdt, gates, pic, obf, timer_frequency_hz, fault>>
    BY <1>2, BootSteps DEF At, Sti, BootOK, tables, timer
  <2>2. interrupts_on' \in BOOLEAN
    BY <2>1, Zenon
  <2>3. InterruptsInOrder' /\ ReadyBeforeSti'
    BY <2>1 DEF BootOK, InterruptsInOrder, ReadyBeforeSti
  <2> QED BY <2>1, <2>2, <2>3 DEF BootOK
<1> QED BY <1>1, <1>2

---------------------------------------------------------------------------
(* Interrupts. *)

(* irq_handler with interrupts on: the tables are set up, the vector is     *)
(* that of an IRQ, and the EOI leaves nothing in service.                   *)
LEMMA IrqKeepsIInv ==
    ASSUME IInv, interrupts_on, NEW irq \in 0 .. 15, NEW isr,
           pic_send_eoi(isr, irq) = {},
           irq = 0 /\ sleeper.pc \in {"test", "hlt"} => ~sleeper.ticked,
           irq_handler(irq, Vector(irq), isr),
           UNCHANGED <<boot, interrupts_on, tables>>
    PROVE  IInv'
<1> DEFINE v == Vector(irq)
<1>0. /\ BootOK /\ SleeperOK
      /\ UNCHANGED <<boot, interrupts_on, gdt, gates>>
  BY DEF IInv, tables
<1>1. boot > 13
  <2>1. boot \in 1 .. 15 /\ ~(boot <= 13)
    BY <1>0, Zenon DEF BootOK, ReadyBeforeSti
  <2> QED BY <2>1
<1>2. CodeSegment(gdt) /\ IrqGates(gates) /\ pic.master = 32 /\ pic.slave = 40
  BY <1>0, <1>1 DEF BootOK, ReadyBeforeSti
<1>3. v \in 32 .. 47 /\ (v = 32 <=> irq = 0)
  BY <1>2 DEF Vector
<1>4. v \in DOMAIN gates /\ gates[v] = "irq" /\ gdt[kernel_cs] = "kernel code"
  BY <1>2, <1>3, Zenon DEF CodeSegment, IrqGates
<1>5. /\ CASE v = 32 -> timer_handler
           [] v = 33 -> keyboard_handler
           [] OTHER  -> Unhandled
      /\ pic' = [pic EXCEPT !.irr = @ \ {irq}, !.isr = pic_send_eoi(isr, irq)]
      /\ UNCHANGED fault
  BY <1>4, Zenon DEF irq_handler
<1> HIDE DEF v
<1>6. \/ v = 32 /\ timer_handler
      \/ keyboard_handler
      \/ Unhandled
  BY <1>5
<1>7. /\ timer_frequency_hz' = timer_frequency_hz
      /\ obf' = FALSE \/ obf' = obf
      /\ \/ v = 32 /\ timer_handler
         \/ sleeper' = Woken(sleeper) /\ UNCHANGED system_ticks
  BY <1>6 DEF timer_handler, keyboard_handler, Unhandled, timer
<1>8. SleeperOK'
  <2>1. CASE v = 32 /\ timer_handler
    BY <1>0, <1>3, <2>1, TickKeeps DEF timer_handler
  <2>2. CASE sleeper' = Woken(sleeper) /\ UNCHANGED system_ticks
    BY <1>0, <2>2, WokenKeeps
  <2> QED BY <1>7, <2>1, <2>2
<1>9. BootOK'
  <2>1. obf' \in BOOLEAN
    <3>1. obf \in BOOLEAN
      BY <1>0 DEF BootOK
    <3> QED BY ONLY <1>7, <3>1, Zenon
  <2>2. /\ pic' \in [master : Nat, slave : Nat, imr : SUBSET (0 .. 15), irr : SUBSET Lines,
                     isr : SUBSET (0 .. 15)]
        /\ pic'.isr = {} /\ pic'.master = pic.master /\ pic'.slave = pic.slave
    BY <1>0, <1>5 DEF BootOK
  <2>3. InterruptsInOrder' /\ ReadyBeforeSti'
    BY <1>0, <1>5, <2>2 DEF BootOK, InterruptsInOrder, ReadyBeforeSti
  <2> QED BY <1>0, <1>7, <2>1, <2>2, <2>3 DEF BootOK
<1> QED BY <1>8, <1>9 DEF IInv

\* A request, and the one that fell back before it was acknowledged.
LEMMA DeliveryKeepsIInv ==
    ASSUME IInv, Spurious \/ \E irq \in Lines : Deliver(irq)
    PROVE  IInv'
<1>1. pic.isr = {}
  BY DEF IInv, BootOK, InterruptsInOrder
<1>2. CASE Spurious
  <2>1. 7 \in 0 .. 15 /\ ~(7 = 0)
    OBVIOUS
  <2>2. pic_send_eoi(pic.isr, 7) = {}
    BY <1>1, <2>1, EoiEndsService
  <2> QED BY <1>2, <2>1, <2>2, IrqKeepsIInv DEF Spurious
<1>3. ASSUME NEW irq \in Lines, Deliver(irq)
      PROVE  IInv'
  <2>1. irq \in 0 .. 15
    BY InterruptsAssumption
  <2>2. pic_send_eoi(pic.isr \cup Cascaded(irq), irq) = {}
    BY <1>1, <2>1, EoiEndsService
  <2> QED BY <1>3, <2>1, <2>2, IrqKeepsIInv, Zenon DEF Deliver
<1> QED BY <1>2, <1>3

\* A device asks for service: only the requests change.
LEMMA RequestKeepsIInv ==
    ASSUME IInv, KeyPressed \/ \E irq \in Lines : Raise(irq)
    PROVE  IInv'
<1>0. BootOK /\ SleeperOK
  BY DEF IInv
<1>1. PICK irq \in Lines :
         /\ pic' = [pic EXCEPT !.irr = @ \cup {irq}]
         /\ obf' = TRUE \/ obf' = obf
         /\ UNCHANGED <<boot, interrupts_on, tables, timer, sleeper, fault>>
  <2>1. 1 \in Lines
    BY InterruptsAssumption
  <2> QED BY <2>1, Zenon DEF KeyPressed, Raise
<1>2. UNCHANGED <<boot, interrupts_on, gdt, gates, system_ticks, timer_frequency_hz,
                  sleeper, fault>>
  BY <1>1 DEF tables, timer
<1>3. obf' \in BOOLEAN
  <2>1. obf \in BOOLEAN
    BY <1>0 DEF BootOK
  <2> QED BY <1>1, <2>1, Zenon
<1>4. /\ pic' \in [master : Nat, slave : Nat, imr : SUBSET (0 .. 15), irr : SUBSET Lines,
                   isr : SUBSET (0 .. 15)]
      /\ pic'.isr = pic.isr /\ pic'.master = pic.master /\ pic'.slave = pic.slave
  BY <1>0, <1>1 DEF BootOK
<1>5. InterruptsInOrder' /\ ReadyBeforeSti'
  BY <1>0, <1>2, <1>4 DEF BootOK, InterruptsInOrder, ReadyBeforeSti
<1>6. BootOK'
  BY <1>0, <1>2, <1>3, <1>4, <1>5 DEF BootOK
<1>7. SleeperOK'
  BY <1>0, <1>2 DEF SleeperOK, OnTheWay, SleepLength
<1> QED BY <1>6, <1>7 DEF IInv

---------------------------------------------------------------------------
(* The theorems. *)

\* Nothing changes.
LEMMA StutterKeepsIInv ==
    ASSUME IInv, UNCHANGED vars
    PROVE  IInv'
<1>0. BootOK /\ SleeperOK
  BY DEF IInv
<1>1. UNCHANGED <<boot, interrupts_on, gdt, gates, pic, obf, system_ticks,
                  timer_frequency_hz, sleeper, fault>>
  BY DEF vars, tables, timer
<1>2. BootOK'
  BY <1>0, <1>1 DEF BootOK, InterruptsInOrder, ReadyBeforeSti
<1>3. SleeperOK'
  BY <1>0, <1>1 DEF SleeperOK, OnTheWay, SleepLength
<1> QED BY <1>2, <1>3 DEF IInv

\* Every step keeps the invariant.
LEMMA NextKeepsIInv == IInv /\ [Next]_vars => IInv'
<1> SUFFICES ASSUME IInv, [Next]_vars
             PROVE  IInv'
  OBVIOUS
<1>0. BootOK /\ SleeperOK
  BY DEF IInv
<1>1. CASE kmain
  <2>1. BootOK'
    BY <1>0, <1>1, TablesKeepBootOK, DevicesKeepBootOK, RestKeepsBootOK DEF kmain
  <2>2. SleeperOK'
    BY <1>0, <1>1, BootLeavesSleeper DEF SleeperOK, OnTheWay, SleepLength
  <2> QED BY <2>1, <2>2 DEF IInv
<1>2. CASE FallAsleep
  <2>1. BootOK'
    BY <1>0, <1>2, RestKeepsBootOK
  <2>2. PICK ms \in Sleeps \cup {BOOT_SLEEP} : sleeper' = Sleeping(ms)
    BY <1>2 DEF FallAsleep
  <2>3. ms \in Nat
    <3>1. \A m \in Sleeps \cup {BOOT_SLEEP} : m \in 0 .. 3000
      BY InterruptsAssumption, Zenon
    <3>2. ms \in 0 .. 3000
      BY ONLY <2>2, <3>1
    <3> QED BY <3>2
  <2>4. UNCHANGED timer /\ timer_frequency_hz \in Nat
    BY <1>0, <1>2 DEF FallAsleep, BootOK
  <2> QED BY <1>0, <2>1, <2>2, <2>3, <2>4, FallAsleepKeeps DEF IInv
<1>3. CASE timer_sleep
  <2>1. UNCHANGED <<boot, interrupts_on, gdt, gates, pic, obf, timer_frequency_hz, fault>>
    BY <1>3 DEF timer_sleep, Test, Hlt, WakeUp, tables, timer
  <2>2. BootOK'
    BY <1>0, <2>1 DEF BootOK, InterruptsInOrder, ReadyBeforeSti
  <2> QED BY <1>0, <1>3, <2>2, LoopKeeps DEF IInv
<1>4. CASE \E irq \in Lines : Raise(irq) \/ Deliver(irq)
  BY <1>4, RequestKeepsIInv, DeliveryKeepsIInv
<1>5. CASE KeyPressed \/ Spurious
  BY <1>5, RequestKeepsIInv, DeliveryKeepsIInv
<1>6. CASE UNCHANGED vars
  BY <1>6, StutterKeepsIInv
<1> QED BY <1>1, <1>2, <1>3, <1>4, <1>5, <1>6 DEF Next

\* The invariant holds from the first instruction of kmain on.
LEMMA Invariance == Spec => []IInv
BY InitIInv, NextKeepsIInv, PTL DEF Spec

\* The types of the boot, the controllers and the sleeper, for every width.
THEOREM TypeCorrect == Spec => []TypeOK
BY Invariance, IInvTypes, PTL

(* The order of the calls in kmain is right for every set of IRQ lines that *)
(* devices raise during boot: no interrupt is taken before its gate, its    *)
(* segment and its vector are set up, and the EOI of irq_handler, of a      *)
(* cascaded and of a spurious one too, leaves nothing in service.           *)
THEOREM BootIsInOrder == Spec => []InterruptsInOrder
<1>1. IInv => InterruptsInOrder
  BY DEF IInv, BootOK
<1> QED BY <1>1, Invariance, PTL

(* timer_sleep_ms lasts the ticks asked for or one more, for every width of *)
(* system_ticks, every frequency and every duration, unless the counter     *)
(* wraps during the sleep.                                                  *)
THEOREM SleepsAreExact == Spec => []SleepLength
<1>1. IInv => SleepLength
  BY DEF IInv, SleeperOK
<1> QED BY <1>1, Invariance, PTL
===========================================================================
