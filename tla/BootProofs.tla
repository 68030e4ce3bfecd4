----------------------------- MODULE BootProofs -----------------------------
(***************************************************************************)
(* Theorems about Boot, and with it about the layer of module Hal, for     *)
(* every word size, number of keys and set of delays.                      *)
(***************************************************************************)
EXTENDS Boot, TLAPS

\* The scancodes on their way from the controller to the caller, oldest last:
\* output_buffer, last_scancode, code, received.
InOrder ==
    /\ received <= last_scancode /\ last_scancode <= sent
    /\ output_buffer # 0 => last_scancode < output_buffer /\ output_buffer <= sent
    /\ keyboard_ready => received < last_scancode
    /\ pc = "copy" => keyboard_ready
    /\ pc = "reset" => received < code /\ code <= last_scancode

\* Only the vector of IRQ 1 leads the layer to the keyboard's handler.
OneKeyboard ==
    \A v \in DOMAIN interrupt_handlers : interrupt_handlers[v] = "keyboard" => v = 33

HalInv == TypeOK /\ InOrder /\ OneKeyboard

\* Once a scancode has been typed the latch is empty for good.
OneKeyTyped ==
    /\ typed # {} => gate = "main" /\ ~keyboard_ready
    /\ \A first, second \in typed : first = second

\* kernel_main calls none of the functions of several steps.
KernelPc ==
    /\ gate = "main" => program = "kernel_main"
    /\ program = "kernel_main" => pc \in {"boot", "idle", "hlt", "wake"}

BootInv == HalInv /\ BootTypeOK /\ OneKeyTyped /\ KernelPc

USE HalAssumption

-----------------------------------------------------------------------------
\* A count of two words.
LEMMA LoadedType ==
    /\ 0 \in Ticks
    /\ \A h, l \in 0 .. (WORD - 1) : h * WORD + l \in Ticks
<1>1. WORD * WORD \in Nat /\ WORD * WORD > 0
  OBVIOUS
<1>2. ASSUME NEW h \in 0 .. (WORD - 1), NEW l \in 0 .. (WORD - 1)
      PROVE  h * WORD + l \in 0 .. (WORD * WORD - 1)
  <2>1. h * WORD <= (WORD - 1) * WORD /\ h * WORD >= 0
    OBVIOUS
  <2>2. (WORD - 1) * WORD = WORD * WORD - WORD
    OBVIOUS
  <2>3. h * WORD \in Nat /\ WORD * WORD \in Nat
    OBVIOUS
  <2> QED
    BY <2>1, <2>2, <2>3
<1> QED
  BY <1>1, <1>2 DEF Ticks

\* What the order of the scancodes needs of their types.
LEMMA Numbers ==
    ASSUME TypeOK
    PROVE  /\ sent \in Nat /\ output_buffer \in Nat /\ last_scancode \in Nat
           /\ code \in Nat /\ received \in Nat
           /\ ms \in Nat /\ 0 \in Scancodes
BY DEF TypeOK, Scancodes

LEMMA HalInitOK == Init => HalInv
<1> SUFFICES ASSUME Init PROVE HalInv
  OBVIOUS
<1>1. TypeOK
  <2>1. DOMAIN interrupt_handlers = {}
    BY DEF Init
  <2>2. 0 \in 0 .. 0 /\ 0 \in 0 .. (WORD - 1) /\ 0 \in Scancodes
    BY DEF Scancodes
  <2> QED
    BY <2>1, <2>2, LoadedType DEF Init, TypeOK
<1>2. InOrder /\ OneKeyboard
  BY DEF Init, InOrder, OneKeyboard
<1> QED
  BY <1>1, <1>2 DEF HalInv

LEMMA StartOK == ASSUME HalInv, init PROVE HalInv'
<1> USE DEF HalInv, ticks, latch, devices, sleeping, reading
<1>1. TypeOK'
  BY DEF init, apic_init_internal, StartMask, StartHandlers, Switched, TypeOK, Irqs
<1>2. InOrder'
  BY DEF init, InOrder
<1>3. OneKeyboard'
  BY DEF init, StartHandlers, OneKeyboard
<1> QED
  BY <1>1, <1>2, <1>3

\* The counters stay words.
LEMMA ClockOK ==
    ASSUME TypeOK, pit_handler
    PROVE  ticks_low' \in 0 .. (WORD - 1) /\ ticks_high' \in 0 .. (WORD - 1)
BY DEF TypeOK, pit_handler

LEMMA DispatchOK ==
    ASSUME HalInv, NEW irq \in Irqs, hal_interrupt_dispatcher(irq) PROVE HalInv'
<1> USE DEF HalInv, hal_interrupt_dispatcher, config, ticks, latch, reading
<1>1. CASE pit_handler
  <2>1. TypeOK'
    <3>1. elapsed' \in 0 .. ms
      BY <1>1, Numbers DEF pit_handler, TypeOK
    <3> QED
      BY <1>1, <3>1, ClockOK DEF pit_handler, TypeOK
  <2> QED
    BY <1>1, <2>1 DEF pit_handler, InOrder, OneKeyboard
<1>2. CASE keyboard_handler
  <2>1. TypeOK'
    <3>1. /\ last_scancode' \in Scancodes /\ keyboard_ready' \in BOOLEAN
          /\ output_buffer' \in Scancodes
      <4>1. CASE output_buffer # 0
        BY <1>2, <4>1, Numbers DEF keyboard_handler, TypeOK
      <4>2. CASE output_buffer = 0
        BY <1>2, <4>2 DEF keyboard_handler, TypeOK
      <4> QED
        BY <4>1, <4>2
    <3> QED
      BY <1>2, <3>1 DEF keyboard_handler, TypeOK
  <2>2. InOrder'
    BY <1>2, Numbers DEF keyboard_handler, InOrder
  <2> QED
    BY <1>2, <2>1, <2>2 DEF keyboard_handler, OneKeyboard
<1>3. CASE UNCHANGED <<ticks, elapsed, moved, latch, output_buffer>>
  <2>1. TypeOK'
    BY <1>3 DEF TypeOK
  <2> QED
    BY <1>3, <2>1 DEF InOrder, OneKeyboard
<1> QED
  BY <1>1, <1>2, <1>3

LEMMA DevicesOK == ASSUME HalInv, Devices PROVE HalInv'
<1> USE DEF HalInv, config, ticks, latch, sleeping, reading
<1>1. CASE Tick
  BY <1>1 DEF Tick, TypeOK, InOrder, OneKeyboard, Irqs
<1>2. CASE SendScancode
  <2>1. TypeOK'
    BY <1>2 DEF SendScancode, TypeOK, Irqs, Scancodes
  <2>2. InOrder'
    BY <1>2, Numbers DEF SendScancode, InOrder
  <2> QED
    BY <1>2, <2>1, <2>2 DEF SendScancode, OneKeyboard
<1> QED
  BY <1>1, <1>2 DEF Devices

\* msleep and the masks touch neither a scancode nor a handler.
LEMMA AsleepOK ==
    ASSUME HalInv, TypeOK', pc' \notin {"copy", "reset"},
           UNCHANGED <<latch, devices, reading, config>>
    PROVE  HalInv'
BY DEF HalInv, InOrder, OneKeyboard, latch, devices, reading, config

LEMMA ClientOK == ASSUME HalInv, Client PROVE HalInv'
<1> USE DEF Step, config, ticks, latch, devices, sleeping, reading
<1>1. CASE MaskKeyboard
  <2>1. mask' \subseteq Irqs
    <3>1. mask \subseteq Irqs /\ Switched(apic_enabled, {1}) \subseteq Irqs
      BY DEF HalInv, TypeOK, Switched, Irqs
    <3> QED
      BY <1>1, <3>1 DEF MaskKeyboard, irq_enable, irq_disable
  <2>2. /\ pc' = "idle" /\ moved' = TRUE
        /\ UNCHANGED <<config, interrupts, ticks, latch, devices, sleeping, reading>>
    BY <1>1 DEF MaskKeyboard, irq_enable, irq_disable
  <2>3. TypeOK'
    BY <2>1, <2>2 DEF HalInv, TypeOK
  <2> QED
    BY <2>2, <2>3, AsleepOK
<1>2. ASSUME NEW delay \in Delays, msleep(delay) PROVE HalInv'
  BY <1>2, AsleepOK DEF HalInv, msleep, Asleep, TypeOK
<1>3. CASE Sleep
  <2>1. ASSUME NEW from, NEW to \in {"start_high", "high"}, LoadLow(from, to) PROVE HalInv'
    BY <2>1, AsleepOK DEF HalInv, LoadLow, Asleep, TypeOK
  <2>2. CASE LoadStart
    <3>1. Loaded \in Ticks
      BY LoadedType DEF HalInv, TypeOK, Loaded
    <3> QED
      BY <2>2, <3>1, AsleepOK DEF HalInv, LoadStart, Asleep, TypeOK
  <2>3. CASE Compare
    <3>1. 0 \in 0 .. 0 /\ 0 \in 0 .. (WORD - 1)
      OBVIOUS
    <3>2. CASE Step("high", "halt") /\ UNCHANGED sleeping
      BY <2>3, <3>2, AsleepOK DEF HalInv, Compare, Asleep, TypeOK
    <3>3. CASE /\ Step("high", "idle")
               /\ low' = 0 /\ start' = 0 /\ ms' = 0 /\ elapsed' = 0
      BY <2>3, <3>1, <3>3, LoadedType, AsleepOK DEF HalInv, Compare, Asleep, TypeOK
    <3> QED
      BY <2>3, <3>2, <3>3 DEF Compare
  <2>4. CASE Halt
    BY <2>4, AsleepOK DEF HalInv, Halt, Asleep, TypeOK
  <2> QED
    BY <1>3, <2>1, <2>2, <2>3, <2>4 DEF Sleep
<1>4. ASSUME NEW masked \in ReadModes, keyboard_read_scancode(masked) PROVE HalInv'
  BY <1>4 DEF HalInv, keyboard_read_scancode, Awake, TypeOK, InOrder, OneKeyboard
<1>5. CASE Read
  <2>1. CASE TestReady
    BY <2>1 DEF HalInv, TestReady, Awake, TypeOK, InOrder, OneKeyboard
  <2>2. CASE CopyScancode
    <3>1. TypeOK'
      BY <2>2 DEF HalInv, CopyScancode, Awake, TypeOK
    <3> QED
      BY <2>2, <3>1, Numbers DEF HalInv, CopyScancode, Awake, InOrder, OneKeyboard
  <2>3. CASE ResetReady
    <3>1. TypeOK'
      BY <2>3, Numbers DEF HalInv, ResetReady, Awake, TypeOK
    <3> QED
      BY <2>3, <3>1, Numbers DEF HalInv, ResetReady, Awake, InOrder, OneKeyboard
  <2> QED
    BY <1>5, <2>1, <2>2, <2>3 DEF Read
<1> QED
  BY <1>1, <1>2, <1>3, <1>4, <1>5 DEF Client
-----------------------------------------------------------------------------
LEMMA BootInitOK == BootInit => BootInv
<1> SUFFICES ASSUME BootInit PROVE BootInv
  OBVIOUS
<1>1. HalInv
  BY HalInitOK DEF BootInit
<1>2. KernelPc /\ OneKeyTyped
  BY DEF BootInit, Init, KernelPc, OneKeyTyped
<1>3. calls \in 0 .. Len(Calls)
  BY DEF BootInit, Calls
<1> QED
  BY <1>1, <1>2, <1>3 DEF BootInv, HalInv, BootInit, BootTypeOK

\* A step of the layer alone keeps the invariant if it leaves an empty latch
\* empty behind a typed scancode and kernel_main where it may be.
LEMMA LayerOK ==
    ASSUME BootInv, HalInv', UNCHANGED boot, typed = {} \/ keyboard_ready' = keyboard_ready,
           program = "kernel_main" => pc' \in {"boot", "idle", "hlt", "wake"}
    PROVE  BootInv'
<1>1. BootTypeOK' /\ KernelPc'
  BY DEF BootInv, HalInv, BootTypeOK, KernelPc, boot
<1>2. OneKeyTyped'
  BY DEF BootInv, OneKeyTyped, boot
<1> QED
  BY <1>1, <1>2 DEF BootInv

LEMMA BootNextOK == BootInv /\ [BootNext]_bootVars => BootInv'
<1> SUFFICES ASSUME BootInv, [BootNext]_bootVars PROVE BootInv'
  OBVIOUS
<1> USE DEF boot
<1>1. CASE init /\ UNCHANGED boot
  BY <1>1, StartOK, LayerOK DEF BootInv, init, latch
<1>2. CASE program = "client" /\ Client /\ UNCHANGED boot
  <2>1. typed = {}
    BY <1>2 DEF BootInv, OneKeyTyped, KernelPc
  <2> QED
    BY <1>2, <2>1, ClientOK, LayerOK DEF BootInv
<1>3. CASE KernelCall
  <2>1. HalInv'
    BY <1>3 DEF BootInv, KernelCall, Step, HalInv, TypeOK, InOrder, OneKeyboard, config,
                ticks, latch, devices, sleeping, reading
  <2>2. calls' \in 0 .. Len(Calls) /\ gate' \in {"hal", "main"}
    BY <1>3 DEF BootInv, KernelCall, BootTypeOK, Calls
  <2> QED
    BY <1>3, <2>1, <2>2 DEF BootInv, KernelCall, Step, HalInv, BootTypeOK, OneKeyTyped,
                            KernelPc, latch
<1>4. CASE HaltLoop
  <2>1. HalInv'
    BY <1>4 DEF BootInv, HaltLoop, Step, HalInv, TypeOK, InOrder, OneKeyboard, config,
                ticks, latch, devices, sleeping, reading
  <2> QED
    BY <1>4, <2>1, LayerOK DEF HaltLoop, Step, latch
<1>5. CASE keyboard_handler_asm
  <2>1. PICK scancode \in Scancodes :
            /\ ReadLatch(scancode)
            /\ typed' = typed \cup ({scancode} \ {0})
    BY <1>5 DEF keyboard_handler_asm, Scancodes
  <2>2. scancode # 0 => typed = {}
    BY <2>1 DEF ReadLatch, BootInv, OneKeyTyped
  <2>3. OneKeyTyped' /\ typed' \subseteq 1 .. MaxScancodes
    BY <1>5, <2>1, <2>2 DEF keyboard_handler_asm, ReadLatch, BootInv, OneKeyTyped,
                            BootTypeOK, Scancodes
  <2>4. TypeOK'
    BY <1>5, <2>1 DEF keyboard_handler_asm, ReadLatch, BootInv, HalInv, TypeOK, config,
                      ticks, sleeping, reading
  <2>5. pc \notin {"copy", "reset"} /\ pc' \in {"boot", "idle", "hlt", "wake"}
    BY <1>5 DEF keyboard_handler_asm, BootInv, KernelPc
  <2>6. InOrder' /\ OneKeyboard'
    BY <1>5, <2>1, <2>5 DEF keyboard_handler_asm, ReadLatch, BootInv, HalInv, InOrder,
                            OneKeyboard, config, reading
  <2> QED
    BY <1>5, <2>3, <2>4, <2>5, <2>6 DEF keyboard_handler_asm, BootInv, HalInv, BootTypeOK,
                                        KernelPc
<1>6. ASSUME NEW irq \in Irqs, Dispatch(irq) PROVE BootInv'
  <2>1. HalInv'
    BY <1>6, DispatchOK DEF Dispatch, BootInv
  <2>2. gate = "main" => keyboard_ready' = keyboard_ready
    BY <1>6 DEF Dispatch, hal_interrupt_dispatcher, Handler, Vector, BootInv, HalInv,
                OneKeyboard, Irqs, latch, pit_handler
  <2>3. program = "kernel_main" => pc' \in {"boot", "idle", "hlt", "wake"}
    BY <1>6 DEF Dispatch, hal_interrupt_dispatcher, BootInv, KernelPc
  <2> QED
    BY <1>6, <2>1, <2>2, <2>3, LayerOK DEF Dispatch, BootInv, OneKeyTyped
<1>7. CASE BootTick
  BY <1>7, DevicesOK, LayerOK DEF BootTick, Tick, Devices, BootInv, KernelPc, latch
<1>8. CASE SendScancode /\ UNCHANGED boot
  BY <1>8, DevicesOK, LayerOK DEF SendScancode, Devices, BootInv, KernelPc, latch
<1>9. CASE UNCHANGED bootVars
  BY <1>9 DEF bootVars, vars, config, ticks, latch, devices, sleeping, reading, BootInv,
              HalInv, BootTypeOK, TypeOK, InOrder, OneKeyboard, OneKeyTyped, KernelPc
<1> QED
  BY <1>1, <1>2, <1>3, <1>4, <1>5, <1>6, <1>7, <1>8, <1>9 DEF BootNext

\* Every reachable state satisfies the invariant.
LEMMA Invariance == BootSpec => []BootInv
BY BootInitOK, BootNextOK, PTL DEF BootSpec

\* The registers, the latch and the locals of the main thread keep their types.
THEOREM TypeCorrect == BootSpec => []BootTypeOK
<1>1. BootInv => BootTypeOK
  BY DEF BootInv
<1> QED
  BY <1>1, Invariance, PTL

\* At most one scancode ever reaches the editor, so that a command, which takes
\* a character and Enter, never does: kernel_main's gate shuts out the handler
\* that fills the latch, and the one key it may still hold is read once.
THEOREM OneKeyReachesEditor == BootSpec => []OneKeyTyped
<1>1. BootInv => OneKeyTyped
  BY DEF BootInv
<1> QED
  BY <1>1, Invariance, PTL

-----------------------------------------------------------------------------
\* Interrupts come only when the layer's handlers are registered.
Registered ==
    /\ pc = "boot" => ~interrupts
    /\ pc # "boot" => interrupt_handlers = StartHandlers

RequestInv == Registered /\ UnreadIsRequested

\* The request of the keyboard is accepted by its handler, which reads the
\* scancode; that of another device leaves it pending.
LEMMA DispatchKeepsRequest ==
    ASSUME RequestInv, NEW irq \in Irqs, Dispatch(irq) PROVE RequestInv'
<1>1. interrupts /\ pc # "boot" /\ interrupt_handlers = StartHandlers
  BY DEF Dispatch, hal_interrupt_dispatcher, RequestInv, Registered
<1>2. Registered'
  BY <1>1 DEF Dispatch, hal_interrupt_dispatcher, Registered, config
<1>3. UnreadIsRequested'
  <2>1. gate' = gate /\ irr' = irr \ {irq}
    BY DEF Dispatch, hal_interrupt_dispatcher, boot
  <2>2. CASE irq = 1
    <3>1. Handler(Vector(irq)) = "keyboard"
      BY <1>1, <2>2 DEF Handler, Vector, StartHandlers
    <3>2. keyboard_handler
      BY <3>1 DEF Dispatch, hal_interrupt_dispatcher
    <3>3. output_buffer' = 0
      BY <3>2 DEF keyboard_handler
    <3> QED
      BY <3>3 DEF UnreadIsRequested
  <2>3. CASE irq # 1
    <3>1. Handler(Vector(irq)) # "keyboard"
      BY <1>1, <2>3 DEF Handler, Vector, StartHandlers, Irqs
    <3>2. output_buffer' = output_buffer
      BY <3>1 DEF Dispatch, hal_interrupt_dispatcher, pit_handler
    <3> QED
      BY <2>1, <2>3, <3>2 DEF RequestInv, UnreadIsRequested
  <2> QED
    BY <2>2, <2>3
<1> QED
  BY <1>2, <1>3 DEF RequestInv

LEMMA RequestNext == RequestInv /\ [BootNext]_bootVars => RequestInv'
<1> SUFFICES ASSUME RequestInv, [BootNext]_bootVars PROVE RequestInv'
  OBVIOUS
<1> USE DEF RequestInv, Registered, UnreadIsRequested, config, devices
<1>1. CASE init /\ UNCHANGED boot
  BY <1>1 DEF init, boot
<1>2. CASE Client /\ UNCHANGED boot
  <2>1. UNCHANGED <<interrupt_handlers, devices>> /\ pc # "boot" /\ pc' # "boot"
    BY <1>2 DEF Client, MaskKeyboard, irq_enable, irq_disable, msleep, Sleep, LoadLow, LoadStart,
                Compare, Halt, keyboard_read_scancode, Read, TestReady, CopyScancode, ResetReady,
                Step, Asleep, Awake
  <2> QED
    BY <1>2, <2>1 DEF boot
<1>3. CASE KernelCall
  <2>1. UNCHANGED <<interrupt_handlers, devices>> /\ pc # "boot" /\ pc' # "boot"
    BY <1>3 DEF KernelCall, Step
  <2>2. gate' = "hal" => gate = "hal"
    BY <1>3 DEF KernelCall
  <2> QED
    BY <2>1, <2>2
<1>4. CASE HaltLoop
  BY <1>4 DEF HaltLoop, Step, boot
<1>5. CASE keyboard_handler_asm
  BY <1>5 DEF keyboard_handler_asm
<1>6. ASSUME NEW irq \in Irqs, Dispatch(irq) PROVE RequestInv'
  BY <1>6, DispatchKeepsRequest
<1>7. CASE BootTick
  BY <1>7 DEF BootTick, Tick, boot
<1>8. CASE SendScancode /\ UNCHANGED boot
  BY <1>8 DEF SendScancode, boot
<1>9. CASE UNCHANGED bootVars
  BY <1>9 DEF bootVars, vars, boot
<1> QED
  BY <1>1, <1>2, <1>3, <1>4, <1>5, <1>6, <1>7, <1>8, <1>9 DEF BootNext

\* As long as the layer's handler serves the keyboard, no scancode is left in
\* the controller without a request, whatever the main thread masks and
\* wherever the interrupts fall.
THEOREM NoRequestIsLost == BootSpec => []UnreadIsRequested
<1>1. BootInit => RequestInv
  BY DEF BootInit, Init, RequestInv, Registered, UnreadIsRequested
<1>2. RequestInv => UnreadIsRequested
  BY DEF RequestInv
<1> QED
  BY <1>1, <1>2, RequestNext, PTL DEF BootSpec

\* keyboard_read_scancode returns every scancode at most once and never an older
\* one behind a newer one, with an interrupt between any two of its accesses.
THEOREM ScancodesStayInOrder == BootSpec => ScancodesInOrder
<1>1. BootInv /\ [BootNext]_bootVars =>
        [pc = "reset" /\ pc' = "idle" => received' > received]_vars
  <2> SUFFICES ASSUME BootInv, [BootNext]_bootVars, pc = "reset", pc' = "idle"
               PROVE  received' > received
    OBVIOUS
  <2>1. CASE ResetReady
    BY <2>1, Numbers DEF ResetReady, BootInv, HalInv, InOrder
  <2>2. CASE UNCHANGED pc
    BY <2>2
  <2>3. ASSUME NEW irq \in Irqs, Dispatch(irq) PROVE UNCHANGED pc
    BY <2>3 DEF Dispatch, hal_interrupt_dispatcher
  <2>4. UNCHANGED pc \/ ResetReady
    BY <2>3 DEF BootNext, bootVars, vars, init, Client, MaskKeyboard, irq_enable, irq_disable,
                msleep, Sleep, LoadLow, LoadStart, Compare, Halt, keyboard_read_scancode,
                Read, TestReady, CopyScancode, Step, KernelCall, HaltLoop,
                keyboard_handler_asm, BootTick, Tick, SendScancode
  <2> QED
    BY <2>1, <2>2, <2>4
<1> QED
  BY <1>1, Invariance, PTL DEF BootSpec, ScancodesInOrder
=============================================================================
