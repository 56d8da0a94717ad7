------------------------------- MODULE Xhci --------------------------------
(***************************************************************************)
(* driver/xhci/xhci.c: bringing up one USB host controller, and the two    *)
(* rings it shares with the driver.  The controller itself is external: it *)
(* is modelled by what the driver relies on.  It may be late or never      *)
(* answer, in which case the driver goes on (no return value of            *)
(* halt_controller, reset_controller or wait_op_bits is looked at).        *)
(*                                                                         *)
(* The driver writes the command ring and the controller reads it; the     *)
(* controller writes the event ring and the driver polls it.  On both, a   *)
(* cycle bit that the producer flips at each pass tells what is new.       *)
(***************************************************************************)
EXTENDS Integers, Sequences

CONSTANTS XHCI_MAX_COMMANDS,  \* entries of the command ring
          XHCI_MAX_EVENTS,    \* entries of the event ring
          Commands,           \* the commands the driver queues, in order
          Ports               \* events that are not completions (port changes), negative

ASSUME RingAssumption == /\ XHCI_MAX_COMMANDS \in Nat \ {0, 1}
                         /\ XHCI_MAX_EVENTS \in Nat \ {0, 1}
                         /\ Commands \in Seq({"no_op", "enable_slot"})
                         /\ Ports \subseteq Int \ Nat

VARIABLES
    \* the driver: where init_xhci_controller is, and xhci_controller_t
    pc, queued, cmd_ring_idx, cmd_pcs, event_idx, event_ccs,
    \* shared memory
    cmd_ring, event_ring,
    \* the controller: its state, command ring pointer and cycle, doorbell,
    \* event ring pointer and cycle, the event it is writing, and ERDP
    run, bios_owned, cr_ptr, cr_cycle, doorbell, ev_ptr, ev_cycle, writing, erdp,
    \* history: the event processed last, and the completions seen
    taken, completed

driver     == <<pc, queued, cmd_ring_idx, cmd_pcs, event_idx, event_ccs>>
controller == <<run, bios_owned, cr_ptr, cr_cycle, doorbell, ev_ptr, ev_cycle, writing, erdp>>
history    == <<taken, completed>>
vars       == <<driver, cmd_ring, event_ring, controller, history>>

Completions == 1 .. Len(Commands)
Event == Completions \cup Ports
Nothing == 0

\* A cleared TRB; the entry after the ring stands for the memory behind it.
ClearTrb   == [type |-> "clear", cycle |-> 0, tc |-> 0, id |-> 0]
LinkTrb    == [type |-> "link", cycle |-> 0, tc |-> 0, id |-> 0]
ClearEvent == [event |-> Nothing, cycle |-> 0]
Link       == XHCI_MAX_COMMANDS - 1

Init ==
    /\ pc = "probe" /\ queued = 0
    /\ cmd_ring_idx = 0 /\ cmd_pcs = 1 /\ event_idx = 0 /\ event_ccs = 1
    /\ cmd_ring = [i \in 0 .. XHCI_MAX_COMMANDS |-> ClearTrb]
    /\ event_ring = [i \in 0 .. (XHCI_MAX_EVENTS - 1) |-> ClearEvent]
    /\ run \in {"running", "halted"} /\ bios_owned \in BOOLEAN
    /\ cr_ptr = 0 /\ cr_cycle = 1 /\ doorbell = FALSE
    /\ ev_ptr = 0 /\ ev_cycle = 1 /\ writing = Nothing /\ erdp = 0
    /\ taken = Nothing /\ completed = <<>>

(***************************************************************************)
(* init_xhci_controller.                                                   *)
(***************************************************************************)
Step(from, to) == /\ pc = from /\ pc' = to
                  /\ UNCHANGED <<queued, cmd_ring_idx, cmd_pcs, event_idx, event_ccs, history>>

\* BAR0 is there and its registers are mapped and read; or it is missing or empty.
Probe == /\ \/ Step("probe", "handoff")
            \/ Step("probe", "failed")
         /\ UNCHANGED <<cmd_ring, event_ring, controller>>

\* The BIOS gives the controller up, or its flag is cleared after 20 looks.
bios_handoff ==
    /\ Step("handoff", "halt")
    /\ bios_owned' = FALSE
    /\ UNCHANGED <<cmd_ring, event_ring, run, cr_ptr, cr_cycle, doorbell, ev_ptr, ev_cycle,
                   writing, erdp>>

\* "lost": the controller did not do what it was told within the timeout.
halt_controller ==
    /\ Step("halt", "reset")
    /\ run' \in {"halted", "lost"}
    /\ UNCHANGED <<cmd_ring, event_ring, bios_owned, cr_ptr, cr_cycle, doorbell, ev_ptr,
                   ev_cycle, writing, erdp>>

reset_controller ==
    /\ Step("reset", "setup")
    /\ run' \in {"halted", "lost"}
    /\ UNCHANGED <<cmd_ring, event_ring, bios_owned, cr_ptr, cr_cycle, doorbell, ev_ptr,
                   ev_cycle, writing, erdp>>

\* The controller does not support 4K pages.
Refused == Step("setup", "failed") /\ UNCHANGED <<cmd_ring, event_ring, controller>>

\* init_dcbaa, init_cmd_ring and init_event_ring_seg_table.
init_rings ==
    /\ Step("setup", "start")
    /\ cmd_ring' = [i \in 0 .. XHCI_MAX_COMMANDS |-> IF i = Link THEN LinkTrb ELSE ClearTrb]
    /\ event_ring' = [i \in 0 .. (XHCI_MAX_EVENTS - 1) |-> ClearEvent]
    /\ cr_ptr' = 0 /\ cr_cycle' = 1
    /\ ev_ptr' = 0 /\ ev_cycle' = 1 /\ erdp' = 0
    /\ UNCHANGED <<run, bios_owned, doorbell, writing>>

\* A controller that is still starting when the wait times out starts later.
start_controller ==
    /\ Step("start", "cmd")
    /\ IF run = "halted" THEN run' \in {"running", "starting"} ELSE run' = run
    /\ UNCHANGED <<cmd_ring, event_ring, bios_owned, cr_ptr, cr_cycle, doorbell, ev_ptr,
                   ev_cycle, writing, erdp>>

(***************************************************************************)
(* no_op_cmd, enable_slot_cmd: queue_cmd and the doorbell, which a         *)
(* controller that does not run ignores.                                   *)
(***************************************************************************)

\* Mutant of Queued: the cycle bit of a command is not set.
QueuedNoCycle(trb) == [cmd_ring EXCEPT ![cmd_ring_idx] = [trb EXCEPT !.cycle = 0]]

\* The ring with the command in it; after the last entry the link is armed.
Queued(trb) ==
    LET put == [cmd_ring EXCEPT ![cmd_ring_idx] = [trb EXCEPT !.cycle = cmd_pcs]]
    IN  IF cmd_ring_idx + 1 >= XHCI_MAX_COMMANDS
        THEN [put EXCEPT ![Link].tc = 1, ![Link].cycle = IF cmd_pcs = 1 THEN 1 ELSE @]
        ELSE put

queue_cmd(trb) ==
    /\ cmd_ring' = Queued(trb)
    /\ IF cmd_ring_idx + 1 >= XHCI_MAX_COMMANDS
       THEN cmd_ring_idx' = 0 /\ cmd_pcs' = 1 - cmd_pcs
       ELSE cmd_ring_idx' = cmd_ring_idx + 1 /\ UNCHANGED cmd_pcs

Command ==
    /\ pc = "cmd" /\ queued < Len(Commands)
    /\ queue_cmd([ClearTrb EXCEPT !.type = Commands[queued + 1], !.id = queued + 1])
    /\ doorbell' = (doorbell \/ run = "running")
    /\ queued' = queued + 1
    /\ pc' = IF queued' = Len(Commands) THEN "poll" ELSE "cmd"
    /\ UNCHANGED <<event_idx, event_ccs, event_ring, run, bios_owned, cr_ptr, cr_cycle, ev_ptr,
                   ev_cycle, writing, erdp, history>>

(***************************************************************************)
(* process_event, which never returns: poll the cycle bit, take the event, *)
(* move on, tell the controller.                                           *)
(***************************************************************************)
Poll == /\ event_ring[event_idx].cycle = event_ccs
        /\ Step("poll", "take")
        /\ UNCHANGED <<cmd_ring, event_ring, controller>>

\* Mutant of TakeEvent: the expected cycle bit is the same in every pass.
TakeEventSameCycle ==
    /\ pc = "take" /\ pc' = "ack"
    /\ taken' = event_ring[event_idx].event
    /\ completed' = IF taken' \in Completions THEN Append(completed, taken') ELSE completed
    /\ event_idx' = (event_idx + 1) % XHCI_MAX_EVENTS
    /\ UNCHANGED <<queued, cmd_ring_idx, cmd_pcs, event_ccs, cmd_ring, event_ring, controller>>

TakeEvent ==
    /\ pc = "take" /\ pc' = "ack"
    /\ taken' = event_ring[event_idx].event
    /\ completed' = IF taken' \in Completions THEN Append(completed, taken') ELSE completed
    /\ IF event_idx + 1 = XHCI_MAX_EVENTS
       THEN event_idx' = 0 /\ event_ccs' = 1 - event_ccs
       ELSE event_idx' = event_idx + 1 /\ UNCHANGED event_ccs
    /\ UNCHANGED <<queued, cmd_ring_idx, cmd_pcs, cmd_ring, event_ring, controller>>

\* Mutant of Acknowledge: ERDP stays where it is.
AcknowledgeNothing ==
    /\ Step("ack", "poll")
    /\ UNCHANGED <<cmd_ring, event_ring, controller>>

Acknowledge ==
    /\ Step("ack", "poll")
    /\ erdp' = event_idx
    /\ UNCHANGED <<cmd_ring, event_ring, run, bios_owned, cr_ptr, cr_cycle, doorbell, ev_ptr,
                   ev_cycle, writing>>

(***************************************************************************)
(* The controller (external).  It keeps one entry of the event ring free,  *)
(* and writes the cycle bit of an event last.                              *)
(***************************************************************************)
Room == writing = Nothing /\ (ev_ptr + 1) % XHCI_MAX_EVENTS # erdp

HcLateStart ==
    /\ run = "starting" /\ run' = "running"
    /\ UNCHANGED <<driver, cmd_ring, event_ring, bios_owned, cr_ptr, cr_cycle, doorbell,
                   ev_ptr, ev_cycle, writing, erdp, history>>

HcExecute ==
    /\ run = "running" /\ doorbell /\ Room
    /\ cmd_ring[cr_ptr].cycle = cr_cycle /\ cmd_ring[cr_ptr].type # "link"
    /\ writing' = cmd_ring[cr_ptr].id
    /\ cr_ptr' = cr_ptr + 1
    /\ UNCHANGED <<driver, cmd_ring, event_ring, run, bios_owned, cr_cycle, doorbell, ev_ptr,
                   ev_cycle, erdp, history>>

\* No more commands: until the doorbell rings again.
HcIdle ==
    /\ run = "running" /\ doorbell /\ cmd_ring[cr_ptr].cycle # cr_cycle
    /\ doorbell' = FALSE
    /\ UNCHANGED <<driver, cmd_ring, event_ring, run, bios_owned, cr_ptr, cr_cycle, ev_ptr,
                   ev_cycle, writing, erdp, history>>

HcPortChange(e) ==
    /\ run = "running" /\ Room
    /\ writing' = e
    /\ UNCHANGED <<driver, cmd_ring, event_ring, run, bios_owned, cr_ptr, cr_cycle, doorbell,
                   ev_ptr, ev_cycle, erdp, history>>

HcReport ==
    /\ writing # Nothing
    /\ event_ring' = [event_ring EXCEPT ![ev_ptr] = [event |-> writing, cycle |-> ev_cycle]]
    /\ IF ev_ptr + 1 = XHCI_MAX_EVENTS
       THEN ev_ptr' = 0 /\ ev_cycle' = 1 - ev_cycle
       ELSE ev_ptr' = ev_ptr + 1 /\ UNCHANGED ev_cycle
    /\ writing' = Nothing
    /\ UNCHANGED <<driver, cmd_ring, run, bios_owned, cr_ptr, cr_cycle, doorbell, erdp, history>>

Driver ==
    \/ Probe \/ bios_handoff \/ halt_controller \/ reset_controller \/ Refused \/ init_rings
    \/ start_controller \/ Command \/ Poll \/ TakeEvent \/ Acknowledge

\* The controller leaves the rings alone until the driver has set them up.
Controller ==
    /\ pc \in {"cmd", "poll", "take", "ack"}
    /\ \/ HcLateStart \/ HcExecute \/ HcIdle \/ HcReport
       \/ \E e \in Ports : HcPortChange(e)

Next == Driver \/ Controller

\* The driver's loop is all the processor does; a controller that runs serves
\* its rings, and port changes do not keep commands waiting for ever.
Spec == /\ Init /\ [][Next]_vars
        /\ WF_vars(Driver)
        /\ WF_vars(Controller /\ (HcReport \/ HcIdle))
        /\ SF_vars(Controller /\ HcExecute)
-----------------------------------------------------------------------------
(***************************************************************************)
(* The event ring is a first in first out queue: every event the           *)
(* controller reports is processed exactly once and in order, over any     *)
(* number of passes, and an event that was not yet processed is never      *)
(* overwritten.  Depends on the cycle bits of both sides and on ERDP.      *)
(***************************************************************************)
Waiting == (ev_ptr - event_idx) % XHCI_MAX_EVENTS

Q == INSTANCE EventQueue
       WITH Capacity <- XHCI_MAX_EVENTS - 1, None <- Nothing,
            queue <- [k \in 1 .. Waiting |->
                        event_ring[(event_idx + k - 1) % XHCI_MAX_EVENTS].event]

ImplementsEventQueue == Q!Spec

(***************************************************************************)
(* Commands are executed and reported as completed in the order in which   *)
(* they were queued, none twice.                                           *)
(***************************************************************************)
CommandsInOrder == Len(completed) <= queued /\ \A k \in 1 .. Len(completed) : completed[k] = k

(***************************************************************************)
(* If the controller runs by the time start_controller has waited for it,  *)
(* every command completes and the driver sees it.                         *)
(***************************************************************************)
CommandsComplete ==
    (pc = "cmd" /\ queued = 0 /\ run = "running") ~> Len(completed) = Len(Commands)
=============================================================================
