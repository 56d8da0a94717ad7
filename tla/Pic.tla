-------------------------------- MODULE Pic --------------------------------
(***************************************************************************)
(* interrupt/pic: the two 8259 interrupt controllers, used when there is   *)
(* no APIC, and the handlers of pic.c.                                     *)
(*                                                                         *)
(* Lines 0 to 7 are the master's, 8 to 15 the slave's, whose requests are  *)
(* line 2 of the master.  A lower line has priority, and a line in service *)
(* holds back itself and those behind it.  The controllers are external.   *)
(*                                                                         *)
(* A handler enters with interrupts disabled (interrupt gates).  The       *)
(* keyboard's enables them before it returns, so that handlers can nest;   *)
(* frames is the stack of those that run, the last one on top.             *)
(***************************************************************************)
EXTENDS Integers, Sequences, SequencesExt, FiniteSets, FiniteSetsExt

CONSTANTS PicLines,   \* lines with a device
          MaxPicIrqs  \* bound: interrupts

VARIABLES
    stage,       \* where init_interrupts is
    idt,         \* the functions that have set their gates
    iflag,       \* interrupts are enabled
    frames,
    offset,      \* first vectors of master and slave
    pic_masked, pic_irr, pic_isr,
    pic_raises

Master == 0 .. 7
Slave  == 8 .. 15

\* As the BIOS leaves them.
PicInit ==
    /\ iflag = FALSE /\ frames = <<>>
    /\ offset = [master |-> 8, slave |-> 112]
    /\ pic_masked = {} /\ pic_irr = {} /\ pic_isr = {}
    /\ pic_raises = 0

(***************************************************************************)
(* The gates set by init_exceptions, init_irq_handlers and                 *)
(* apic_init_irq_handlers.  In pic.c vector 34 has none.                   *)
(***************************************************************************)
Gate(v) ==
    CASE "exceptions" \in idt /\ v \in 0 .. 19              -> "exception"
      [] "irq" \in idt /\ v = 32                            -> "timer"
      [] "irq" \in idt /\ v = 33                            -> "keyboard"
      [] "irq" \in idt /\ v \in 35 .. 255                   -> "interrupt"
      [] "apic" \in idt /\ v \in 32 .. 253                  -> "wrapper"
      [] "apic" \in idt /\ v = 254                          -> "err"
      [] "apic" \in idt /\ v = 255                          -> "spurious"
      [] OTHER                                              -> "none"

\* init_pic
init_irq_handlers ==
    /\ stage = "pic" /\ "irq" \notin idt
    /\ idt' = idt \cup {"irq"}
    /\ UNCHANGED <<stage, iflag, frames, offset, pic_masked, pic_irr, pic_isr, pic_raises>>

init_exceptions ==
    /\ stage = "pic" /\ "irq" \in idt /\ "exceptions" \notin idt
    /\ idt' = idt \cup {"exceptions"}
    /\ UNCHANGED <<stage, iflag, frames, offset, pic_masked, pic_irr, pic_isr, pic_raises>>

\* Mutant of remap_pic: the vectors of the slave are not set.
remap_picMasterOnly ==
    /\ stage = "pic" /\ idt = {"irq", "exceptions"}
    /\ offset' = [offset EXCEPT !.master = 32]
    /\ pic_masked' = {} /\ pic_irr' = {} /\ pic_isr' = {}
    /\ iflag' = TRUE /\ stage' = "tests"
    /\ UNCHANGED <<idt, frames, pic_raises>>

\* remap_pic initialises both controllers, which forget what they have seen, unmasks
\* all lines and enables interrupts.
remap_pic ==
    /\ stage = "pic" /\ idt = {"irq", "exceptions"}
    /\ offset' = [master |-> 32, slave |-> 40]
    /\ pic_masked' = {} /\ pic_irr' = {} /\ pic_isr' = {}
    /\ iflag' = TRUE /\ stage' = "tests"
    /\ UNCHANGED <<idt, frames, pic_raises>>

(***************************************************************************)
(* The controllers.                                                        *)
(***************************************************************************)
PicRaise(l) ==
    /\ pic_raises < MaxPicIrqs /\ pic_raises' = pic_raises + 1
    /\ pic_irr' = pic_irr \cup {l}
    /\ UNCHANGED <<stage, idt, iflag, frames, offset, pic_masked, pic_isr>>

Eligible(side) == {l \in (pic_irr \ pic_masked) \cap side : \A q \in pic_isr \cap side : l < q}

\* The lines the master may interrupt for.
Requests ==
    {l \in Eligible(Master) \cup (IF Eligible(Slave) # {} THEN {2} ELSE {}) :
        \A q \in pic_isr \cap Master : l < q}

VectorOf(l) == IF l \in Master THEN offset.master + l ELSE offset.slave + (l - 8)

Enter(l, real) ==
    /\ frames' = Append(frames, [line |-> l, real |-> real, sent |-> FALSE, vector |-> VectorOf(l)])
    /\ iflag' = FALSE

\* The processor takes the request of the highest priority.
Acknowledge ==
    /\ iflag /\ Requests # {}
    /\ LET m == Min(Requests)
           l == IF m = 2 THEN Min(Eligible(Slave)) ELSE m
       IN  /\ pic_irr' = pic_irr \ {l}
           /\ pic_isr' = pic_isr \cup {m, l}
           /\ Enter(l, TRUE)
    /\ UNCHANGED <<stage, idt, offset, pic_masked, pic_raises>>

\* A request that is withdrawn too late: line 7 is reported and not in service.
SpuriousIrq ==
    /\ iflag /\ 0 \notin pic_isr /\ pic_raises < MaxPicIrqs
    /\ pic_raises' = pic_raises + 1
    /\ Enter(7, FALSE)
    /\ UNCHANGED <<stage, idt, offset, pic_masked, pic_irr, pic_isr>>

(***************************************************************************)
(* The handlers.  outb(0x20, 0x20) ends the interrupt of the highest       *)
(* priority that the master has in service, whichever handler writes it;   *)
(* no handler writes to the slave.                                         *)
(***************************************************************************)
InHandler == frames # <<>>
Handler   == Gate(Last(frames).vector)
Handled   == Handler \in {"timer", "keyboard", "interrupt"}

AfterEoi == IF pic_isr \cap Master = {} THEN pic_isr ELSE pic_isr \ {Min(pic_isr \cap Master)}

\* Mutant of Eoi: interrupt_handler does not end the interrupt.
EoiTimerKeyboard ==
    /\ InHandler /\ Handled /\ ~Last(frames).sent
    /\ pic_isr' = IF Handler = "interrupt" THEN pic_isr ELSE AfterEoi
    /\ frames' = [frames EXCEPT ![Len(frames)].sent = TRUE]
    /\ UNCHANGED <<stage, idt, iflag, offset, pic_masked, pic_irr, pic_raises>>

\* Everything in a handler up to the end of interrupt.
Eoi ==
    /\ InHandler /\ Handled /\ ~Last(frames).sent
    /\ pic_isr' = AfterEoi
    /\ frames' = [frames EXCEPT ![Len(frames)].sent = TRUE]
    /\ UNCHANGED <<stage, idt, iflag, offset, pic_masked, pic_irr, pic_raises>>

\* Mutant of KeyboardEnables: interrupts are enabled before the interrupt is ended.
KeyboardEnablesFirst ==
    /\ InHandler /\ Handler = "keyboard" /\ ~iflag
    /\ iflag' = TRUE
    /\ UNCHANGED <<stage, idt, frames, offset, pic_masked, pic_irr, pic_isr, pic_raises>>

\* enable_interrupts at the end of keyboard_handler.
KeyboardEnables ==
    /\ InHandler /\ Handler = "keyboard" /\ Last(frames).sent /\ ~iflag
    /\ iflag' = TRUE
    /\ UNCHANGED <<stage, idt, frames, offset, pic_masked, pic_irr, pic_isr, pic_raises>>

\* iret: back to code that had interrupts enabled.
Iret ==
    /\ InHandler /\ Last(frames).sent
    /\ Handler = "keyboard" => iflag
    /\ frames' = Front(frames) /\ iflag' = TRUE
    /\ UNCHANGED <<stage, idt, offset, pic_masked, pic_irr, pic_isr, pic_raises>>

PicSetup    == init_irq_handlers \/ init_exceptions \/ remap_pic
PicHandlers == Eoi \/ KeyboardEnables \/ Iret
-----------------------------------------------------------------------------
HandlerOf(l) == IF l = 0 THEN "timer" ELSE IF l = 1 THEN "keyboard" ELSE "interrupt"

(***************************************************************************)
(* An interrupt of the PICs is handled by the handler of its line, at the  *)
(* vector that remap_pic gave it; none arrives at an exception's gate or   *)
(* at the missing gate of vector 34.                                       *)
(***************************************************************************)
IrqReachesHandler ==
    \A k \in DOMAIN frames :
        /\ frames[k].vector = 32 + frames[k].line
        /\ Gate(frames[k].vector) = HandlerOf(frames[k].line)

(***************************************************************************)
(* What the master has in service is what handlers have still to end, each *)
(* for itself: no handler ends another's interrupt, also when handlers     *)
(* nest in keyboard_handler and when a spurious interrupt is ended.        *)
(***************************************************************************)
Bit(l) == IF l \in Master THEN l ELSE 2

InServiceIsUnended ==
    pic_isr \cap Master
      = {Bit(f.line) : f \in {f \in ToSet(frames) : f.real /\ ~f.sent}}

(***************************************************************************)
(* A line of the master that has requested an interrupt gets it, although  *)
(* the slave is never told the end of an interrupt; a line of the slave    *)
(* gets its own unless the line or one before it has had one already.      *)
(***************************************************************************)
PicInterruptsAreTaken ==
    \A l \in PicLines :
        l \in pic_irr ~> \/ l \notin pic_irr \/ stage = "halted"
                         \/ \E q \in pic_isr \cap Slave : q <= l
=============================================================================
