-------------------------------- MODULE Boot --------------------------------
(***************************************************************************)
(* kernel_main of kernel/main.cpp on the hardware abstraction layer: the   *)
(* order of initialisation, the gate it puts at the keyboard's vector and  *)
(* the handler behind it, against interrupts that are enabled from the end *)
(* of hal::init on.  Besides this main thread the module keeps the one of  *)
(* module Hal, which calls hal.h in any order.                             *)
(*                                                                         *)
(* main.cpp calls the layer by names hal.h does not have: hal_init is      *)
(* taken as hal::init, and end_of_interrupt as the end of the interrupt.   *)
(***************************************************************************)
EXTENDS Hal, Sequences

CONSTANT Programs   \* the main threads: "client", "kernel_main" or both

VARIABLES program,  \* the main thread
          calls,    \* how many calls of kernel_main behind hal_init are done
          gate,     \* whose code the gate of vector 0x21 leads to
          typed     \* the scancodes that have reached the line editor

boot == <<program, calls, gate, typed>>
bootVars == <<vars, boot>>

-----------------------------------------------------------------------------
\* What kernel_main calls behind hal_init, in order.
Calls == <<"idt_set_gate", "vfs.init", "manager.init", "register_builtin_apps",
           "enable_interrupts", "clear_screen", "banner", "prompt">>

KernelCall ==
    /\ program = "kernel_main"
    /\ calls < Len(Calls)
    /\ Step("idle", "idle")
    /\ calls' = calls + 1
    /\ gate' = IF Calls[calls'] = "idt_set_gate" THEN "main" ELSE gate
    /\ interrupts' = (interrupts \/ Calls[calls'] = "enable_interrupts")
    /\ UNCHANGED <<config, mask, ticks, latch, devices, sleeping, reading,
                   program, typed>>

\* The loop of halt_cpu at the end of kernel_main.
HaltLoop ==
    /\ program = "kernel_main"
    /\ calls = Len(Calls)
    /\ Step("idle", "hlt") \/ Step("wake", "hlt")
    /\ UNCHANGED <<config, mask, interrupts, ticks, latch, devices, sleeping,
                   reading, boot>>

\* keyboard_read_scancode, called with interrupts off.
ReadLatch(scancode) ==
    /\ scancode = IF keyboard_ready THEN last_scancode ELSE 0
    /\ keyboard_ready' = FALSE
    /\ UNCHANGED <<last_scancode, output_buffer>>

\* keyboard_handler of main.cpp, entered through its own gate: what it reads it
\* hands to the line editor (module LineEditor), to which 0 is no key.
keyboard_handler_asm ==
    /\ gate = "main"
    /\ interrupts
    /\ irr \ mask = {1}
    /\ irr' = irr \ {1}
    /\ \E scancode \in 0 .. MaxScancodes :
          /\ ReadLatch(scancode)
          /\ typed' = typed \cup ({scancode} \ {0})
    /\ pc' = IF pc = "hlt" THEN "wake" ELSE pc
    /\ UNCHANGED <<config, mask, interrupts, ticks, sent, sleeping, reading,
                   moved, program, calls, gate>>

\* Every other interrupt goes through the layer's dispatcher.
Dispatch(irq) ==
    /\ irq = 1 => gate = "hal"
    /\ hal_interrupt_dispatcher(irq)
    /\ UNCHANGED boot

\* kernel_main is never idle: it executes something between two ticks.
BootTick ==
    /\ program = "kernel_main" => moved \/ pc = "hlt"
    /\ Tick
    /\ UNCHANGED boot

BootInit ==
    /\ Init
    /\ program \in Programs
    /\ calls = 0
    /\ gate = "hal"
    /\ typed = {}

BootNext ==
    \/ init /\ UNCHANGED boot
    \/ program = "client" /\ Client /\ UNCHANGED boot
    \/ KernelCall
    \/ HaltLoop
    \/ keyboard_handler_asm
    \/ \E irq \in Irqs : Dispatch(irq)
    \/ BootTick
    \/ SendScancode /\ UNCHANGED boot

BootSpec == BootInit /\ [][BootNext]_bootVars

\* The fairness of module Hal, for the steps as they are here.
BootFairSpec ==
    /\ BootSpec
    /\ WF_bootVars(init /\ UNCHANGED boot)
    /\ WF_bootVars(program = "client" /\ Sleep /\ UNCHANGED boot)
    /\ WF_bootVars(program = "client" /\ Read /\ UNCHANGED boot)
    /\ WF_bootVars(KernelCall) /\ WF_bootVars(HaltLoop)
    /\ WF_bootVars(BootTick)
    /\ \A irq \in {0, 1} : SF_bootVars(Dispatch(irq))
    /\ SF_bootVars(keyboard_handler_asm)

-----------------------------------------------------------------------------
BootTypeOK ==
    /\ TypeOK
    /\ program \in Programs
    /\ calls \in 0 .. Len(Calls)
    /\ gate \in {"hal", "main"}
    /\ typed \subseteq 1 .. MaxScancodes

\* As long as the keyboard's vector leads to the layer, a scancode nobody has
\* read yet has its request pending, whatever was masked when it came: the
\* controller asks once per scancode and sends no other before it is read, so a
\* request that is accepted and leaves the scancode there is the last.
UnreadIsRequested == gate = "hal" /\ output_buffer # 0 => 1 \in irr

\* kernel_main gets through its calls, and its loop never halts for good: the
\* clock keeps waking it, although a scancode nobody reads stays in the
\* controller and the keyboard, the only other device, has fallen silent.
HaltLoopWakes == program = "kernel_main" => []<>(pc = "wake")

\* As long as the keyboard's vector leads to the layer, every scancode reaches
\* the latch.
ScancodesReachLatch == program = "client" => ScancodesHandled

\* A key pressed when the prompt's handler is in place reaches the editor.
EveryKeyReachesEditor ==
    \A k \in 1 .. MaxScancodes :
        gate = "main" /\ output_buffer = k ~> k \in typed
=============================================================================
