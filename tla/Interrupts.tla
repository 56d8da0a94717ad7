----------------------------- MODULE Interrupts -----------------------------
(***************************************************************************)
(* init_interrupts and what follows: with an APIC the PICs are masked and  *)
(* Irq runs, without one Pic does.  kernel_main then executes a breakpoint *)
(* and tests a mapping before it goes on.                                  *)
(***************************************************************************)
EXTENDS Irq

CONSTANTS PicLines, MaxPicIrqs

\* Line 2 of the master is the slave.
ASSUME PicAssumption == PicLines \subseteq (0 .. 15) \ {2}

VARIABLES stage, idt, iflag, frames, offset, pic_masked, pic_irr, pic_isr, pic_raises,
          cpuid_apic_available

INSTANCE Pic

picstate == <<iflag, frames, offset, pic_masked, pic_irr, pic_isr, pic_raises>>
allvars  == <<vars, stage, idt, picstate, cpuid_apic_available>>

InterruptsInit ==
    /\ Init /\ PicInit
    /\ stage = "cpuid" /\ idt = {}
    /\ cpuid_apic_available \in BOOLEAN
    /\ ~cpuid_apic_available => madt = <<>>

\* disable_pic, and the gates that init_apic sets first.
UseApic ==
    /\ stage = "cpuid" /\ cpuid_apic_available
    /\ stage' = "apic" /\ idt' = {"exceptions", "apic"}
    /\ pic_masked' = 0 .. 15
    /\ UNCHANGED <<vars, iflag, frames, offset, pic_irr, pic_isr, pic_raises, cpuid_apic_available>>

UsePic ==
    /\ stage = "cpuid" /\ ~cpuid_apic_available
    /\ stage' = "pic"
    /\ UNCHANGED <<vars, idt, picstate, cpuid_apic_available>>

\* The rest of init_apic, and enable_interrupts.
InitApic ==
    /\ stage = "apic" /\ Booting
    /\ stage' = IF pc' = "run" THEN "tests" ELSE stage
    /\ UNCHANGED <<idt, picstate, cpuid_apic_available>>

Idle == running = NoLine /\ frames = <<>> /\ pc # "fault"

\* exc1, exc3, exc9 and exc15 return; the others halt with interrupts disabled.
Returns(v) == v \in {1, 3, 9, 15}

\* int 3, or a page fault of test_mapping.
Exception(v) ==
    /\ stage = "tests" /\ Idle
    /\ IF Returns(v) /\ Gate(v) = "exception"
       THEN stage' = "kernel" /\ iflag' = iflag
       ELSE stage' = "halted" /\ iflag' = FALSE
    /\ UNCHANGED <<vars, idt, frames, offset, pic_masked, pic_irr, pic_isr, pic_raises,
                   cpuid_apic_available>>

\* Irq: interrupts from when they are enabled, the kernel's calls from when it goes
\* on.  After a fatal exception nothing happens.
Apic(stages) == cpuid_apic_available /\ stage \in stages
                /\ UNCHANGED <<stage, idt, picstate, cpuid_apic_available>>
Pic == ~cpuid_apic_available /\ stage # "halted" /\ UNCHANGED <<vars, cpuid_apic_available>>

Next ==
    \/ UseApic \/ UsePic \/ InitApic
    \/ \E v \in {3, 14} : Exception(v)
    \/ Apic({"kernel"}) /\ (KernelCall \/ EndCall)
    \/ Apic({"tests", "kernel"}) /\ (apic_err_handler \/ Deliver \/ apic_interrupt_handler
                                      \/ \E g \in Lines : Raise(g))
    \/ Pic /\ (PicSetup \/ Acknowledge \/ PicHandlers \/ SpuriousIrq
               \/ \E l \in PicLines : PicRaise(l))

\* The processor runs, and takes an interrupt that waits while they are enabled.
Spec ==
    /\ InterruptsInit /\ [][Next]_allvars
    /\ WF_allvars(UseApic \/ UsePic \/ InitApic)
    /\ WF_allvars(Apic({"kernel"}) /\ EndCall)
    /\ WF_allvars(Apic({"tests", "kernel"}) /\ Deliver)
    /\ WF_allvars(Apic({"tests", "kernel"}) /\ apic_interrupt_handler)
    /\ WF_allvars(Pic /\ (PicSetup \/ Acknowledge \/ PicHandlers))
-----------------------------------------------------------------------------
(***************************************************************************)
(* An interrupt that the APIC has accepted is taken, unless the kernel has *)
(* called a missing handler, has halted in an exception or the local APIC  *)
(* has reported an error: every handler but that of errors signals the end *)
(* of interrupt, and the breakpoint of kernel_main returns.                *)
(***************************************************************************)
InterruptsAreTaken ==
    \A g \in Lines : g \in irr ~> \/ g \notin irr \/ pc = "fault"
                                   \/ stage = "halted" \/ isr = {IO_VECTOR_COUNT - 2}
=============================================================================
