--------------------------------- MODULE Hal ---------------------------------
(***************************************************************************)
(* The hardware abstraction layer, kernel/hal/hal.cpp: interrupt set-up    *)
(* and dispatch, the PIT clock and the keyboard latch, on one processor.   *)
(*                                                                         *)
(* Two activities interleave.  The main thread calls the functions of      *)
(* hal.h; where interrupts are enabled one may come between any two of its *)
(* loads and stores.  An interrupt runs hal_interrupt_dispatcher with the  *)
(* interrupt flag clear, from the handler to the end-of-interrupt: one     *)
(* step.  The devices (PIT, keyboard controller, 8259) raise requests.     *)
(*                                                                         *)
(* Scancodes are numbered in the order the keyboard sends them; 0 is what  *)
(* keyboard_read_scancode returns for no key.  system_ticks is two machine *)
(* words, and a load of it two instructions, the low word first.           *)
(***************************************************************************)
EXTENDS Naturals

CONSTANTS WORD,          \* 2^32: a word counts modulo WORD
          MaxScancodes,  \* bound: scancodes the keyboard sends
          Delays,        \* the arguments of msleep
          HasApic,       \* whether CPUID reports a local APIC
          ReadModes      \* whether callers of keyboard_read_scancode disable
                         \* interrupts around the call: {TRUE}, {FALSE} or both

ASSUME HalAssumption ==
    /\ WORD \in Nat \ {0, 1}
    /\ MaxScancodes \in Nat
    /\ Delays \subseteq 1 .. (WORD - 1)
    /\ HasApic \in BOOLEAN
    /\ ReadModes \subseteq BOOLEAN

Irqs == 0 .. 15

Vector(irq) == irq + 32

VARIABLES apic_enabled,
          mask,                \* the IRQs masked in the two PICs
          interrupt_handlers,  \* vector -> handler, for those registered
          interrupts,          \* the interrupt flag of the processor
          irr,                 \* the IRQs requested and not yet accepted
          ticks_low, ticks_high,         \* system_ticks
          last_scancode, keyboard_ready, \* the keyboard latch
          output_buffer,  \* the keyboard controller's scancode, 0 if read
          sent,           \* how many scancodes the keyboard has sent
          pc,             \* where the main thread is
          low,            \* the low word it has loaded
          start, ms,      \* locals of msleep
          elapsed,        \* clock interrupts since msleep was called, up to ms
          code,           \* local of keyboard_read_scancode
          received,       \* the last scancode it returned, not counting 0
          moved           \* the main thread has moved since the last tick

config == <<apic_enabled, interrupt_handlers>>
ticks == <<ticks_low, ticks_high>>
latch == <<last_scancode, keyboard_ready>>
devices == <<irr, output_buffer, sent>>
sleeping == <<low, start, ms, elapsed>>
reading == <<code, received>>

vars == <<config, mask, interrupts, ticks, latch, devices, pc, sleeping,
          reading, moved>>

-----------------------------------------------------------------------------
\* Start-up: init, with interrupts off until its last call.

\* apic_init_internal: CPUID decides.
apic_init_internal == apic_enabled' = HasApic

\* irq_enable and irq_disable do nothing in APIC mode.
Switched(apic, irqs) == IF apic THEN {} ELSE irqs

\* A mistake: init_timer does not unmask its interrupt.
StartMask_NoTimer == Irqs \ Switched(HasApic, {1, 2})

\* The masks after pic_init (all set) and the irq_enable calls of init, of
\* init_timer and of keyboard_init.
StartMask == Irqs \ Switched(HasApic, {0, 1, 2})

\* A mistake: the handlers are registered at their IRQs, not their vectors.
StartHandlers_ByIrq ==
    [v \in {0, 1} |-> IF v = 0 THEN "pit" ELSE "keyboard"]

\* register_interrupt_handler by init_timer and keyboard_init.
StartHandlers == [v \in {32, 33} |-> IF v = 32 THEN "pit" ELSE "keyboard"]

init ==
    /\ pc = "boot"
    /\ apic_init_internal
    /\ mask' = StartMask
    /\ interrupt_handlers' = StartHandlers
    /\ interrupts' = TRUE
    /\ pc' = "idle"
    /\ UNCHANGED <<ticks, latch, devices, sleeping, reading, moved>>

-----------------------------------------------------------------------------
\* Interrupts.

pit_handler ==
    /\ ticks_low' = (ticks_low + 1) % WORD
    /\ ticks_high' = IF ticks_low + 1 = WORD THEN (ticks_high + 1) % WORD
                                             ELSE ticks_high
    /\ elapsed' = IF elapsed < ms THEN elapsed + 1 ELSE elapsed
    /\ moved' = FALSE
    /\ UNCHANGED <<latch, output_buffer>>

\* A mistake: a scancode is left in the controller while one is unread.
keyboard_handler_Latched ==
    /\ IF output_buffer # 0 /\ ~keyboard_ready
       THEN /\ last_scancode' = output_buffer
            /\ keyboard_ready' = TRUE
            /\ output_buffer' = 0
       ELSE UNCHANGED <<latch, output_buffer>>
    /\ UNCHANGED <<ticks, elapsed, moved>>

\* keyboard_handler: the status port says whether there is a scancode.
keyboard_handler ==
    /\ IF output_buffer # 0
       THEN /\ last_scancode' = output_buffer
            /\ keyboard_ready' = TRUE
            /\ output_buffer' = 0
       ELSE UNCHANGED <<latch, output_buffer>>
    /\ UNCHANGED <<ticks, elapsed, moved>>

Handler(vector) ==
    IF vector \in DOMAIN interrupt_handlers THEN interrupt_handlers[vector]
                                            ELSE "none"

\* A request the 8259 passes on; the end-of-interrupt that closes the
\* dispatcher makes the processor ready for the next.
hal_interrupt_dispatcher(irq) ==
    /\ interrupts
    /\ irq \in irr \ mask
    /\ \A other \in irr \ mask : irq <= other
    /\ irr' = irr \ {irq}
    /\ \/ Handler(Vector(irq)) = "pit" /\ pit_handler
       \/ Handler(Vector(irq)) = "keyboard" /\ keyboard_handler
       \/ /\ Handler(Vector(irq)) = "none"
          /\ UNCHANGED <<ticks, elapsed, moved, latch, output_buffer>>
    /\ pc' = IF pc = "hlt" THEN "wake" ELSE pc
    /\ UNCHANGED <<config, mask, interrupts, sent, low, start, ms, reading>>

-----------------------------------------------------------------------------
\* Devices.

\* The PIT asks for IRQ 0, periodically: the main thread executes at least one
\* instruction, or has nothing to execute, between two ticks.
Tick ==
    /\ pc # "boot"
    /\ moved \/ pc \in {"idle", "hlt"}
    /\ irr' = irr \cup {0}
    /\ UNCHANGED <<config, mask, interrupts, ticks, latch, output_buffer, sent,
                   pc, sleeping, reading, moved>>

\* The keyboard controller offers the next scancode once the last was read.
SendScancode ==
    /\ pc # "boot"
    /\ sent < MaxScancodes
    /\ output_buffer = 0
    /\ output_buffer' = sent + 1
    /\ sent' = sent + 1
    /\ irr' = irr \cup {1}
    /\ UNCHANGED <<config, mask, interrupts, ticks, latch, pc, sleeping,
                   reading, moved>>

-----------------------------------------------------------------------------
\* The main thread.

\* Before each instruction the processor accepts what the 8259 passes on.
Interrupted == interrupts /\ irr \ mask # {}

Step(from, to) ==
    /\ ~Interrupted
    /\ pc = from
    /\ pc' = to
    /\ moved' = TRUE

irq_enable(irq) ==
    /\ Step("idle", "idle")
    /\ mask' = mask \ Switched(apic_enabled, {irq})
    /\ UNCHANGED <<config, interrupts, ticks, latch, devices, sleeping, reading>>

irq_disable(irq) ==
    /\ Step("idle", "idle")
    /\ mask' = mask \cup Switched(apic_enabled, {irq})
    /\ UNCHANGED <<config, interrupts, ticks, latch, devices, sleeping, reading>>

\* A client keeps the keyboard quiet for a while.
MaskKeyboard == irq_enable(1) \/ irq_disable(1)

\* msleep: start = system_ticks, then compare and halt in turn.
Asleep == UNCHANGED <<config, mask, interrupts, ticks, latch, devices, reading>>

msleep(delay) ==
    /\ Step("idle", "start")
    /\ ms' = delay
    /\ elapsed' = 0
    /\ UNCHANGED <<low, start>>
    /\ Asleep

LoadLow(from, to) ==
    /\ Step(from, to)
    /\ low' = ticks_low
    /\ UNCHANGED <<start, ms, elapsed>>
    /\ Asleep

Loaded == ticks_high * WORD + low

LoadStart ==
    /\ Step("start_high", "wake")
    /\ start' = Loaded
    /\ UNCHANGED <<low, ms, elapsed>>
    /\ Asleep

\* (system_ticks - start) < ms, in 64-bit unsigned arithmetic.
Since == (Loaded + WORD * WORD - start) % (WORD * WORD)

Compare ==
    /\ Asleep
    /\ \/ Since < ms /\ Step("high", "halt") /\ UNCHANGED sleeping
       \/ /\ Since >= ms
          /\ Step("high", "idle")
          /\ low' = 0 /\ start' = 0 /\ ms' = 0 /\ elapsed' = 0

\* halt_cpu: an interrupt accepted before the hlt executes does not end it.
Halt == Step("halt", "hlt") /\ UNCHANGED sleeping /\ Asleep

Sleep == \/ LoadLow("start", "start_high") \/ LoadStart
         \/ LoadLow("wake", "high") \/ Compare \/ Halt

\* keyboard_read_scancode: the test, the copy and the reset.
Awake == UNCHANGED <<config, mask, ticks, devices, sleeping>>

keyboard_read_scancode(masked) ==
    /\ Step("idle", "ready?")
    /\ interrupts' = ~masked
    /\ UNCHANGED <<latch, reading>>
    /\ Awake

TestReady ==
    /\ pc = "ready?"
    /\ \/ /\ ~keyboard_ready
          /\ Step("ready?", "idle")
          /\ interrupts' = TRUE
       \/ /\ keyboard_ready
          /\ Step("ready?", "copy")
          /\ UNCHANGED interrupts
    /\ UNCHANGED <<latch, reading>>
    /\ Awake

CopyScancode ==
    /\ Step("copy", "reset")
    /\ code' = last_scancode
    /\ UNCHANGED <<latch, interrupts, received>>
    /\ Awake

\* A mistake: the latch is not emptied.
ResetReady_Kept ==
    /\ Step("reset", "idle")
    /\ received' = code
    /\ code' = 0
    /\ interrupts' = TRUE
    /\ UNCHANGED latch
    /\ Awake

ResetReady ==
    /\ Step("reset", "idle")
    /\ keyboard_ready' = FALSE
    /\ received' = code
    /\ code' = 0
    /\ interrupts' = TRUE
    /\ UNCHANGED last_scancode
    /\ Awake

Read == TestReady \/ CopyScancode \/ ResetReady

-----------------------------------------------------------------------------
Init ==
    /\ apic_enabled = FALSE
    /\ mask = Irqs
    /\ interrupt_handlers = << >>
    /\ interrupts = FALSE
    /\ irr = {}
    /\ ticks_low = 0 /\ ticks_high = 0
    /\ last_scancode = 0 /\ keyboard_ready = FALSE
    /\ output_buffer = 0 /\ sent = 0
    /\ pc = "boot"
    /\ low = 0 /\ start = 0 /\ ms = 0 /\ elapsed = 0
    /\ code = 0 /\ received = 0
    /\ moved = FALSE

Devices == Tick \/ SendScancode

\* A main thread that calls the functions of hal.h in any order.
Client ==
    \/ MaskKeyboard
    \/ \E delay \in Delays : msleep(delay)
    \/ Sleep
    \/ \E masked \in ReadModes : keyboard_read_scancode(masked)
    \/ Read

Next ==
    \/ init
    \/ \E irq \in Irqs : hal_interrupt_dispatcher(irq)
    \/ Devices
    \/ Client

Spec == Init /\ [][Next]_vars

\* The processor executes its next instruction, the PIT keeps ticking, and the
\* processor accepts a request of either IRQ that it could accept again and
\* again: the keyboard's waits for the clock's, which has priority, to be served.
FairSpec ==
    /\ Spec
    /\ WF_vars(init) /\ WF_vars(Sleep) /\ WF_vars(Read)
    /\ WF_vars(Tick)
    /\ \A irq \in {0, 1} : SF_vars(hal_interrupt_dispatcher(irq))

-----------------------------------------------------------------------------
Scancodes == 0 .. MaxScancodes

Ticks == 0 .. (WORD * WORD - 1)

TypeOK ==
    /\ apic_enabled \in BOOLEAN
    /\ mask \subseteq Irqs
    /\ DOMAIN interrupt_handlers \subseteq {32, 33}
    /\ interrupts \in BOOLEAN
    /\ irr \subseteq Irqs
    /\ ticks_low \in 0 .. (WORD - 1) /\ ticks_high \in 0 .. (WORD - 1)
    /\ last_scancode \in Scancodes /\ keyboard_ready \in BOOLEAN
    /\ output_buffer \in Scancodes /\ sent \in Scancodes
    /\ pc \in {"boot", "idle", "start", "start_high", "wake", "high", "halt",
               "hlt", "ready?", "copy", "reset"}
    /\ low \in 0 .. (WORD - 1) /\ start \in Ticks
    /\ ms \in Delays \cup {0} /\ elapsed \in 0 .. ms
    /\ code \in Scancodes /\ received \in Scancodes
    /\ moved \in BOOLEAN

\* keyboard_read_scancode never returns a scancode again and never an older one
\* behind a newer one, wherever the interrupts fall between its three accesses
\* to the latch.
ScancodesInOrder ==
    [][pc = "reset" /\ pc' = "idle" => received' > received]_vars

\* msleep(ms) returns only after ms clock interrupts.
MsleepLasts == [][pc = "high" /\ pc' = "idle" => elapsed >= ms]_vars

\* msleep returns: a tick that comes between the comparison and the hlt is not
\* noticed by the hlt, the next one must be.
MsleepReturns == pc = "start" ~> pc = "idle"

\* Every scancode the keyboard sends reaches the latch, whatever was masked
\* when it came, provided the keyboard interrupt does not stay masked.
ScancodesHandled ==
    []<>(1 \notin mask) =>
        \A k \in 1 .. MaxScancodes : output_buffer = k ~> last_scancode = k
=============================================================================
