----------------------------- MODULE XhciProofs -----------------------------
(***************************************************************************)
(* For every ring size, every list of commands and every set of ports: the *)
(* event ring of Xhci implements the queue of EventQueue; and commands     *)
(* complete in the order in which they were queued, provided they fit on   *)
(* the command ring.                                                       *)
(***************************************************************************)
EXTENDS Xhci, TLAPS, SequenceTheorems

N == XHCI_MAX_EVENTS

Working == {"cmd", "poll", "take", "ack"}
Labels  == Working \cup {"probe", "failed", "handoff", "halt", "reset", "setup", "start"}

\* The entry after, and the entry before, entry i of the event ring.
After(i)  == IF i + 1 = N THEN 0 ELSE i + 1
Before(i) == IF i = 0 THEN N - 1 ELSE i - 1

\* Types, and the rings as they are before the driver works with them.
TypeInv ==
    /\ pc \in Labels
    /\ event_idx \in 0 .. (N - 1) /\ event_ccs \in {0, 1}
    /\ ev_ptr \in 0 .. (N - 1) /\ ev_cycle \in {0, 1} /\ erdp \in 0 .. (N - 1)
    /\ event_ring \in [0 .. (N - 1) -> [event : Event \cup {Nothing}, cycle : {0, 1}]]
    /\ writing \in Event \cup {Nothing}
    /\ pc \notin Working => /\ event_idx = 0 /\ event_ccs = 1 /\ ev_ptr = 0 /\ ev_cycle = 1
                            /\ writing = Nothing /\ erdp = 0

\* What the cycle bits say: an entry has the controller's bit if and only if the
\* controller has written it in its present pass; and the two sides have the
\* same bit if and only if they are in the same pass, the driver behind.
CycleInv ==
    /\ \A i \in 0 .. (N - 1) :
          event_ring[i].cycle = IF i < ev_ptr THEN ev_cycle ELSE 1 - ev_cycle
    /\ IF ev_cycle = event_ccs THEN event_idx <= ev_ptr ELSE ev_ptr < event_idx
    /\ pc = "take" => ev_ptr # event_idx

\* What ERDP is for: it is behind the driver by the event that is not yet
\* acknowledged, and an event is written only if an entry stays free after it.
RoomInv ==
    /\ erdp = IF pc = "ack" THEN Before(event_idx) ELSE event_idx
    /\ pc = "ack" => ev_ptr # erdp
    /\ writing # Nothing => After(ev_ptr) # erdp

\* Whatever the controller may execute is a command the driver has queued; the
\* entry behind the ring is never valid.
CommandInv ==
    /\ queued \in Nat /\ cmd_ring_idx \in 0 .. Link /\ cmd_pcs \in {0, 1}
    /\ cr_ptr \in 0 .. XHCI_MAX_COMMANDS /\ cr_cycle = 1
    /\ \A i \in 0 .. XHCI_MAX_COMMANDS :
          /\ cmd_ring[i].cycle \in {0, 1} /\ cmd_ring[i].id \in Nat
          /\ cmd_ring[i].cycle = 1 => cmd_ring[i].id \in Completions
    /\ cmd_ring[XHCI_MAX_COMMANDS].cycle = 0
    /\ DOMAIN cmd_ring = 0 .. XHCI_MAX_COMMANDS

IInv == TypeInv /\ CycleInv /\ RoomInv /\ CommandInv

\* The queue the event ring stands for.
Pending == [k \in 1 .. Waiting |->
               event_ring[(event_idx + k - 1) % XHCI_MAX_EVENTS].event]

\* The completions that were taken (done), then those in the queue q, then the
\* one being written (w), are 1, 2, ... , last, in this order.
InOrder(q, w, done, last) ==
    /\ done \in Seq(Nat) /\ Len(done) <= last
    /\ \A k \in 1 .. Len(done) : done[k] = k
    /\ \A k, l \in 1 .. Len(q) :
          k < l /\ q[k] \in Completions /\ q[l] \in Completions => q[k] < q[l]
    /\ w \in Completions => w = last /\ \A k \in 1 .. Len(q) : q[k] # w
    /\ \A c \in Completions :
          (c = w \/ \E k \in 1 .. Len(q) : q[k] = c) <=> (Len(done) < c /\ c <= last)

\* As long as the commands fit on the ring, the entries up to the driver's are
\* the commands in order, and the controller is behind.
OrderInv ==
    /\ queued <= Len(Commands) /\ cr_ptr <= queued
    /\ pc \notin Working => queued = 0 /\ completed = <<>>
    /\ queued < XHCI_MAX_COMMANDS => cmd_ring_idx = queued /\ cmd_pcs = 1
    /\ \A i \in 0 .. XHCI_MAX_COMMANDS :
          /\ cmd_ring[i].cycle = 1 <=> i < queued
          /\ i < queued => cmd_ring[i].id = i + 1
    /\ InOrder(Pending, writing, completed, cr_ptr)

-----------------------------------------------------------------------------
(***************************************************************************)
(* Arithmetic of the ring: what % does to the indices that occur.          *)
(***************************************************************************)
LEMMA ModOnce ==
    ASSUME NEW a \in Int, 0 <= a, a < 2 * N
    PROVE  a % N = IF a < N THEN a ELSE a - N
<1>1. N \in Int /\ N >= 2
  BY RingAssumption DEF N
<1> DEFINE d == a \div N
           m == a % N
<1>2. d \in Int /\ m \in 0 .. (N - 1) /\ a = d * N + m
  BY <1>1, Z3
<1> HIDE DEF d, m
<1>3. d >= 2 => d * N >= 2 * N
  BY <1>1, <1>2, Z3
<1>4. d <= -1 => d * N <= -N
  BY <1>1, <1>2, Z3
<1>5. d = 0 \/ d = 1
  BY <1>1, <1>2, <1>3, <1>4
<1>6. m = IF a < N THEN a ELSE a - N
  BY <1>1, <1>2, <1>5
<1> QED BY <1>6 DEF m

LEMMA ModBelow ==
    ASSUME NEW a \in Int, -N < a, a < 0
    PROVE  a % N = a + N
<1>1. N \in Int /\ N >= 2
  BY RingAssumption DEF N
<1> DEFINE d == a \div N
           m == a % N
<1>2. d \in Int /\ m \in 0 .. (N - 1) /\ a = d * N + m
  BY <1>1, Z3
<1> HIDE DEF d, m
<1>3. d >= 0 => d * N >= 0
  BY <1>1, <1>2, Z3
<1>4. d <= -2 => d * N <= -2 * N
  BY <1>1, <1>2, Z3
<1>5. d = -1
  BY <1>1, <1>2, <1>3, <1>4
<1>6. m = a + N
  BY <1>1, <1>2, <1>5
<1> QED BY <1>6 DEF m

\* How many entries lie from entry i to entry j, and where the k-th of them is.
LEMMA DistanceIs ==
    ASSUME NEW i \in 0 .. (N - 1), NEW j \in 0 .. (N - 1)
    PROVE  /\ (j - i) % N \in 0 .. (N - 1)
           /\ (j - i) % N = IF i <= j THEN j - i ELSE j - i + N
<1>1. N \in Int /\ N >= 2
  BY RingAssumption DEF N
<1> HIDE DEF N
<1>2. CASE i <= j
  BY <1>1, <1>2, ModOnce
<1>3. CASE j < i
  BY <1>1, <1>3, ModBelow
<1> QED BY <1>1, <1>2, <1>3

LEMMA SlotIs ==
    ASSUME NEW i \in 0 .. (N - 1), NEW k \in 1 .. N
    PROVE  /\ (i + k - 1) % N \in 0 .. (N - 1)
           /\ (i + k - 1) % N = IF i + k - 1 < N THEN i + k - 1 ELSE i + k - 1 - N
<1>1. N \in Int /\ N >= 2
  BY RingAssumption DEF N
<1> HIDE DEF N
<1> QED BY <1>1, ModOnce

LEMMA AfterIs ==
    ASSUME NEW i \in 0 .. (N - 1)
    PROVE  (i + 1) % XHCI_MAX_EVENTS = After(i) /\ After(i) \in 0 .. (N - 1)
<1>1. N \in Int /\ N >= 2
  BY RingAssumption DEF N
<1>2. (i + 1) % N = After(i) /\ After(i) \in 0 .. (N - 1)
  <2> HIDE DEF N
  <2> QED BY <1>1, ModOnce DEF After
<1> QED BY <1>2 DEF N

-----------------------------------------------------------------------------
(***************************************************************************)
(* The inductive invariant.                                                *)
(***************************************************************************)
LEMMA InitIInv == Init => IInv
<1> SUFFICES ASSUME Init PROVE IInv
  OBVIOUS
<1>1. TypeInv
  BY RingAssumption DEF Init, TypeInv, Labels, Working, ClearEvent, N
<1>2. CycleInv /\ RoomInv
  BY RingAssumption DEF Init, CycleInv, RoomInv, ClearEvent, N
<1>3. CommandInv
  BY RingAssumption DEF Init, CommandInv, ClearTrb, Link
<1> QED BY <1>1, <1>2, <1>3 DEF IInv

\* Everything the controller can execute or report is an event.
LEMMA NothingIsNoEvent == Nothing \notin Event /\ Completions \subseteq Nat
<1>1. Len(Commands) \in Nat
  BY RingAssumption
<1> QED BY <1>1, RingAssumption DEF Nothing, Event, Completions

\* Bringing the controller up: the rings stay as they are, or are cleared.
LEMMA SetupIInv ==
    ASSUME IInv,
           Probe \/ bios_handoff \/ halt_controller \/ reset_controller \/ Refused \/ init_rings
           \/ start_controller
    PROVE  IInv'
<1>1. pc \notin Working
  BY DEF Probe, bios_handoff, halt_controller, reset_controller, Refused, init_rings,
         start_controller, Step, Working
<1>2. CASE Probe \/ bios_handoff \/ halt_controller \/ reset_controller \/ Refused
           \/ start_controller
  <2>1. /\ UNCHANGED <<queued, cmd_ring_idx, cmd_pcs, event_idx, event_ccs, cmd_ring,
                       event_ring, cr_ptr, cr_cycle, ev_ptr, ev_cycle, writing, erdp>>
        /\ pc' \in Labels \ {"poll", "take", "ack"}
    BY <1>2 DEF Probe, bios_handoff, halt_controller, reset_controller, Refused,
                start_controller, Step, controller, Labels, Working
  <2>2. TypeInv'
    BY <1>1, <2>1 DEF IInv, TypeInv, Working
  <2>3. CycleInv' /\ RoomInv'
    BY <1>1, <2>1 DEF IInv, TypeInv, CycleInv, RoomInv, Working, Before
  <2>4. CommandInv'
    BY <2>1 DEF IInv, CommandInv
  <2> QED BY <2>2, <2>3, <2>4 DEF IInv
<1>3. CASE init_rings
  <2>1. TypeInv'
    BY <1>1, <1>3, RingAssumption
       DEF init_rings, Step, IInv, TypeInv, Labels, Working, ClearEvent, N
  <2>2. CycleInv' /\ RoomInv'
    BY <1>1, <1>3, RingAssumption
       DEF init_rings, Step, IInv, TypeInv, CycleInv, RoomInv, Working, ClearEvent, N
  <2>3. CommandInv'
    BY <1>3, RingAssumption DEF init_rings, Step, IInv, CommandInv, ClearTrb, LinkTrb, Link
  <2> QED BY <2>1, <2>2, <2>3 DEF IInv
<1> QED BY <1>2, <1>3

\* queue_cmd leaves the event ring alone.
LEMMA CommandIInv == ASSUME IInv, Command PROVE IInv'
<1> USE DEF IInv
<1>1. /\ UNCHANGED <<event_idx, event_ccs, event_ring, ev_ptr, ev_cycle, writing, erdp, cr_ptr,
                     cr_cycle>>
      /\ pc = "cmd" /\ pc' \in {"cmd", "poll"}
  BY DEF Command, history
<1>2. TypeInv'
  BY <1>1 DEF TypeInv, Labels, Working
<1>3. CycleInv' /\ RoomInv'
  BY <1>1 DEF CycleInv, RoomInv
<1>4. CommandInv'
  <2> DEFINE trb == [ClearTrb EXCEPT !.type = Commands[queued + 1], !.id = queued + 1]
  <2>1. queued \in Nat /\ queued' = queued + 1 /\ queued + 1 \in Completions
    BY RingAssumption DEF Command, CommandInv, Completions
  <2>2. trb.id = queued + 1 /\ DOMAIN trb = {"type", "cycle", "tc", "id"}
    BY DEF ClearTrb
  <2> HIDE DEF trb
  <2>3. cmd_ring' = Queued(trb) /\ queue_cmd(trb)
    BY DEF Command, queue_cmd, trb
  <2>4. XHCI_MAX_COMMANDS \in Nat /\ XHCI_MAX_COMMANDS >= 2
    BY RingAssumption
  <2>5. cmd_ring_idx' \in 0 .. Link /\ cmd_pcs' \in {0, 1}
    BY <2>3, <2>4 DEF queue_cmd, CommandInv, Link
  <2>6. /\ DOMAIN cmd_ring' = 0 .. XHCI_MAX_COMMANDS
        /\ \A i \in 0 .. XHCI_MAX_COMMANDS :
              /\ i # cmd_ring_idx => cmd_ring'[i] = cmd_ring[i]
              /\ i = cmd_ring_idx => cmd_ring'[i].id = queued + 1 /\ cmd_ring'[i].cycle = cmd_pcs
    BY <2>2, <2>3, <2>4 DEF Queued, CommandInv, Link
  <2> QED BY <1>1, <2>1, <2>4, <2>5, <2>6, NothingIsNoEvent DEF CommandInv, Link
<1> QED BY <1>2, <1>3, <1>4

\* An event is there when the cycle bit says so.
LEMMA PollIInv == ASSUME IInv, Poll PROVE IInv'
<1> USE DEF IInv
<1>1. /\ UNCHANGED <<queued, cmd_ring_idx, cmd_pcs, event_idx, event_ccs, cmd_ring, event_ring,
                     cr_ptr, cr_cycle, ev_ptr, ev_cycle, writing, erdp>>
      /\ pc = "poll" /\ pc' = "take"
  BY DEF Poll, Step, controller
<1>2. ev_ptr # event_idx
  BY DEF Poll, CycleInv, TypeInv
<1>3. TypeInv' /\ CycleInv' /\ RoomInv' /\ CommandInv'
  BY <1>1, <1>2 DEF TypeInv, CycleInv, RoomInv, CommandInv, Labels, Working
<1> QED BY <1>3

LEMMA TakeIInv == ASSUME IInv, TakeEvent PROVE IInv'
<1> USE DEF IInv
<1>1. /\ UNCHANGED <<queued, cmd_ring_idx, cmd_pcs, cmd_ring, event_ring, cr_ptr, cr_cycle,
                     ev_ptr, ev_cycle, writing, erdp>>
      /\ pc = "take" /\ pc' = "ack"
      /\ event_idx' = After(event_idx)
      /\ event_ccs' = IF event_idx + 1 = N THEN 1 - event_ccs ELSE event_ccs
  BY DEF TakeEvent, controller, After, N
<1>2. N \in Int /\ N >= 2
  BY RingAssumption DEF N
<1>3. TypeInv'
  BY <1>1, <1>2 DEF TypeInv, Labels, Working, After
<1>4. CycleInv'
  BY <1>1, <1>2 DEF TypeInv, CycleInv, After
<1>5. RoomInv'
  BY <1>1, <1>2 DEF TypeInv, CycleInv, RoomInv, After, Before
<1>6. CommandInv'
  BY <1>1 DEF CommandInv
<1> QED BY <1>3, <1>4, <1>5, <1>6

LEMMA AcknowledgeIInv == ASSUME IInv, Acknowledge PROVE IInv'
<1> USE DEF IInv
<1>1. /\ UNCHANGED <<queued, cmd_ring_idx, cmd_pcs, event_idx, event_ccs, cmd_ring, event_ring,
                     cr_ptr, cr_cycle, ev_ptr, ev_cycle, writing>>
      /\ pc = "ack" /\ pc' = "poll" /\ erdp' = event_idx
  BY DEF Acknowledge, Step
<1>2. N \in Int /\ N >= 2
  BY RingAssumption DEF N
<1>3. TypeInv' /\ CycleInv' /\ CommandInv'
  BY <1>1 DEF TypeInv, CycleInv, CommandInv, Labels, Working
<1>4. RoomInv'
  BY <1>1, <1>2 DEF TypeInv, RoomInv, After, Before
<1> QED BY <1>3, <1>4

\* The controller starts to write an event only if there is room for it.
LEMMA HcBeginIInv ==
    ASSUME IInv, pc \in Working, HcExecute \/ \E e \in Ports : HcPortChange(e)
    PROVE  IInv'
<1> USE DEF IInv
<1>1. /\ UNCHANGED <<pc, queued, cmd_ring_idx, cmd_pcs, event_idx, event_ccs, cmd_ring,
                     event_ring, cr_cycle, ev_ptr, ev_cycle, erdp>>
      /\ Room
  BY DEF HcExecute, HcPortChange, driver
<1>2. /\ writing' \in Event /\ cr_ptr' \in 0 .. XHCI_MAX_COMMANDS
  <2>1. CASE HcExecute
    BY <2>1, RingAssumption DEF HcExecute, CommandInv, Event
  <2>2. CASE \E e \in Ports : HcPortChange(e)
    BY <2>2 DEF HcPortChange, CommandInv, Event
  <2> QED BY <2>1, <2>2
<1>3. After(ev_ptr) # erdp
  BY <1>1, AfterIs DEF Room, TypeInv
<1>4. TypeInv' /\ CycleInv' /\ RoomInv' /\ CommandInv'
  BY <1>1, <1>2, <1>3 DEF TypeInv, CycleInv, RoomInv, CommandInv
<1> QED BY <1>4

LEMMA HcReportIInv == ASSUME IInv, pc \in Working, HcReport PROVE IInv'
<1> USE DEF IInv
<1>1. /\ UNCHANGED <<pc, queued, cmd_ring_idx, cmd_pcs, event_idx, event_ccs, cmd_ring, cr_ptr,
                     cr_cycle, erdp>>
      /\ writing # Nothing /\ writing' = Nothing
      /\ event_ring' = [event_ring EXCEPT ![ev_ptr] = [event |-> writing, cycle |-> ev_cycle]]
      /\ ev_ptr' = After(ev_ptr)
      /\ ev_cycle' = IF ev_ptr + 1 = N THEN 1 - ev_cycle ELSE ev_cycle
  BY DEF HcReport, driver, After, N
<1>2. N \in Int /\ N >= 2
  BY RingAssumption DEF N
<1>3. TypeInv'
  BY <1>1, <1>2 DEF TypeInv, After
<1>4. CycleInv'
  <2>1. ASSUME NEW i \in 0 .. (N - 1)
        PROVE  event_ring'[i].cycle = IF i < ev_ptr' THEN ev_cycle' ELSE 1 - ev_cycle'
    <3>1. event_ring'[i].cycle = IF i = ev_ptr THEN ev_cycle ELSE event_ring[i].cycle
      BY <1>1 DEF TypeInv
    <3> QED BY <1>1, <1>2, <3>1 DEF TypeInv, CycleInv, After
  <2>2. IF ev_cycle' = event_ccs' THEN event_idx' <= ev_ptr' ELSE ev_ptr' < event_idx'
    BY <1>1, <1>2 DEF TypeInv, CycleInv, RoomInv, After, Before
  <2>3. (pc = "take" => ev_ptr # event_idx)'
    BY <1>1, <1>2 DEF TypeInv, RoomInv
  <2> QED BY <2>1, <2>2, <2>3 DEF CycleInv
<1>5. RoomInv'
  BY <1>1, <1>2 DEF TypeInv, RoomInv, After, Before
<1>6. CommandInv'
  BY <1>1 DEF CommandInv
<1> QED BY <1>3, <1>4, <1>5, <1>6

\* The controller starts late, or stops looking at the command ring.
LEMMA HcOtherIInv == ASSUME IInv, HcLateStart \/ HcIdle PROVE IInv'
<1>1. UNCHANGED <<driver, cmd_ring, event_ring, cr_ptr, cr_cycle, ev_ptr, ev_cycle, writing, erdp>>
  BY DEF HcLateStart, HcIdle
<1> QED BY <1>1 DEF driver, IInv, TypeInv, CycleInv, RoomInv, CommandInv

LEMMA NextIInv == IInv /\ [Next]_vars => IInv'
<1> SUFFICES ASSUME IInv, [Next]_vars PROVE IInv'
  OBVIOUS
<1>1. CASE Driver
  BY <1>1, SetupIInv, CommandIInv, PollIInv, TakeIInv, AcknowledgeIInv DEF Driver
<1>2. CASE Controller
  BY <1>2, HcBeginIInv, HcReportIInv, HcOtherIInv DEF Controller, Working
<1>3. CASE UNCHANGED vars
  BY <1>3 DEF vars, driver, controller, IInv, TypeInv, CycleInv, RoomInv, CommandInv
<1> QED BY <1>1, <1>2, <1>3 DEF Next

-----------------------------------------------------------------------------
(***************************************************************************)
(* The queue that the event ring stands for, step by step.                 *)
(***************************************************************************)
LEMMA PendingIs ==
    ASSUME TypeInv
    PROVE  /\ Pending \in Seq(Event \cup {Nothing})
           /\ Waiting \in 0 .. (N - 1) /\ Waiting = (ev_ptr - event_idx) % N
           /\ Len(Pending) = Waiting /\ DOMAIN Pending = 1 .. Waiting
           /\ \A k \in 1 .. Waiting :
                 Pending[k] = event_ring[(event_idx + k - 1) % N].event
<1>1. Waiting \in 0 .. (N - 1) /\ Waiting = (ev_ptr - event_idx) % N
  BY DistanceIs DEF TypeInv, Waiting, N
<1>2. N \in Int /\ N >= 2
  BY RingAssumption DEF N
<1>3. ASSUME NEW k \in 1 .. Waiting
      PROVE  event_ring[(event_idx + k - 1) % N].event \in Event \cup {Nothing}
  <2>1. (event_idx + k - 1) % N \in 0 .. (N - 1)
    BY <1>1, <1>2, SlotIs DEF TypeInv
  <2> QED BY <2>1 DEF TypeInv
<1>4. Pending = [k \in 1 .. Waiting |-> event_ring[(event_idx + k - 1) % N].event]
  BY DEF Pending, N
<1> QED BY <1>1, <1>2, <1>3, <1>4

\* A step that leaves the ring and both indices alone leaves the queue alone,
\* and so does the one that clears a ring nothing waits on.
LEMMA PendingStays ==
    ASSUME TypeInv, UNCHANGED <<event_idx, ev_ptr>>,
           UNCHANGED event_ring \/ event_idx = ev_ptr
    PROVE  UNCHANGED Pending
<1>1. CASE UNCHANGED event_ring
  BY <1>1 DEF Pending, Waiting
<1>2. CASE event_idx = ev_ptr
  <2>1. (ev_ptr - event_idx) % N = 0
    BY <1>2, DistanceIs DEF TypeInv
  <2>2. Waiting = 0 /\ Waiting' = 0
    BY <2>1 DEF Waiting, N
  <2> QED BY <2>2 DEF Pending
<1> QED BY <1>1, <1>2

\* The controller's report is appended, and there was room for it.
LEMMA ReportAppends ==
    ASSUME IInv, pc \in Working, HcReport
    PROVE  /\ Len(Pending) < N - 1
           /\ Pending' = Append(Pending, writing)
           /\ writing \in Event
<1>1. /\ UNCHANGED event_idx
      /\ event_ring' = [event_ring EXCEPT ![ev_ptr] = [event |-> writing, cycle |-> ev_cycle]]
      /\ ev_ptr' = After(ev_ptr)
      /\ writing # Nothing
  BY DEF HcReport, driver, After, N
<1>2. N \in Int /\ N >= 2
  BY RingAssumption DEF N
<1>3. /\ event_idx \in 0 .. (N - 1) /\ ev_ptr \in 0 .. (N - 1) /\ ev_ptr' \in 0 .. (N - 1)
      /\ TypeInv /\ DOMAIN event_ring = 0 .. (N - 1)
  BY <1>1, <1>2 DEF IInv, TypeInv, After
<1>4. Waiting = IF event_idx <= ev_ptr THEN ev_ptr - event_idx ELSE ev_ptr - event_idx + N
  BY <1>3, DistanceIs DEF Waiting, N
<1>5. Waiting' = IF event_idx <= ev_ptr' THEN ev_ptr' - event_idx ELSE ev_ptr' - event_idx + N
  BY <1>1, <1>3, DistanceIs DEF Waiting, N
<1>6. Waiting' = Waiting + 1 /\ Waiting \in Nat /\ Waiting + 1 <= N - 1
  BY <1>1, <1>2, <1>3, <1>4, <1>5 DEF IInv, RoomInv, After, Before
<1>7. writing \in Event
  BY <1>1 DEF IInv, TypeInv
<1>8. ASSUME NEW k \in 1 .. Waiting PROVE (event_idx + k - 1) % N # ev_ptr
  BY <1>2, <1>3, <1>4, <1>6, SlotIs
<1>9. (event_idx + (Waiting + 1) - 1) % N = ev_ptr
  BY <1>2, <1>3, <1>4, <1>6, SlotIs
<1>10. \A k \in 1 .. (Waiting + 1) : (event_idx + k - 1) % N \in 0 .. (N - 1)
  BY <1>2, <1>3, <1>6, SlotIs
<1>11. Pending' = [k \in 1 .. (Waiting + 1) |-> event_ring'[(event_idx + k - 1) % N].event]
  BY <1>1, <1>6 DEF Pending, N
<1>12. \A k \in 1 .. (Waiting + 1) :
          Pending'[k] = IF k = Waiting + 1 THEN writing ELSE Pending[k]
  <2> SUFFICES ASSUME NEW k \in 1 .. (Waiting + 1)
               PROVE  Pending'[k] = IF k = Waiting + 1 THEN writing ELSE Pending[k]
    OBVIOUS
  <2>1. CASE k = Waiting + 1
    BY <2>1, <1>1, <1>3, <1>6, <1>9, <1>11
  <2>2. CASE k # Waiting + 1
    <3>1. k \in 1 .. Waiting
      BY <2>2, <1>6
    <3>2. Pending'[k] = event_ring'[(event_idx + k - 1) % N].event
      BY <1>11
    <3>3. event_ring'[(event_idx + k - 1) % N] = event_ring[(event_idx + k - 1) % N]
      BY <3>1, <1>1, <1>3, <1>8, <1>10
    <3> QED BY <2>2, <3>1, <3>2, <3>3, <1>3, PendingIs
  <2> QED BY <2>1, <2>2
<1>13. Len(Pending) = Waiting /\ Pending \in Seq(Event \cup {Nothing})
  BY <1>3, PendingIs
<1>14. Pending' = Append(Pending, writing)
  <2> DEFINE T == Event \cup {Nothing}
  <2>1. /\ Append(Pending, writing) \in Seq(T)
        /\ Len(Append(Pending, writing)) = Waiting + 1
        /\ \A k \in 1 .. (Waiting + 1) : Append(Pending, writing)[k] = Pending'[k]
    BY <1>6, <1>7, <1>12, <1>13
  <2>2. \A k \in 1 .. (Waiting + 1) : Pending'[k] \in T
    <3>1. \A k \in 1 .. Waiting : Pending[k] \in T
      BY <1>13, ElementOfSeq
    <3> QED BY <3>1, <1>6, <1>7, <1>12
  <2>3. Pending' \in Seq(T) /\ Len(Pending') = Waiting + 1
    BY <2>2, <1>6, <1>11
  <2> QED BY <2>1, <2>3, SeqEqual
<1> QED BY <1>6, <1>7, <1>13, <1>14, <1>2

\* process_event takes the head.
LEMMA TakeTakes ==
    ASSUME IInv, TakeEvent
    PROVE  /\ Pending # <<>>
           /\ taken' = Head(Pending)
           /\ Pending' = Tail(Pending)
<1>1. /\ UNCHANGED <<event_ring, ev_ptr>>
      /\ event_idx' = After(event_idx)
      /\ taken' = event_ring[event_idx].event
      /\ pc = "take"
  BY DEF TakeEvent, controller, After, N
<1>2. N \in Int /\ N >= 2
  BY RingAssumption DEF N
<1>3. /\ event_idx \in 0 .. (N - 1) /\ ev_ptr \in 0 .. (N - 1) /\ event_idx' \in 0 .. (N - 1)
      /\ TypeInv /\ DOMAIN event_ring = 0 .. (N - 1) /\ ev_ptr # event_idx
  BY <1>1, <1>2 DEF IInv, TypeInv, CycleInv, After
<1>4. Waiting = IF event_idx <= ev_ptr THEN ev_ptr - event_idx ELSE ev_ptr - event_idx + N
  BY <1>3, DistanceIs DEF Waiting, N
<1>5. Waiting' = IF event_idx' <= ev_ptr THEN ev_ptr - event_idx' ELSE ev_ptr - event_idx' + N
  BY <1>1, <1>3, DistanceIs DEF Waiting, N
<1>6. Waiting' = Waiting - 1 /\ Waiting \in 1 .. (N - 1)
  BY <1>1, <1>2, <1>3, <1>4, <1>5 DEF After
<1>7. /\ Len(Pending) = Waiting /\ Pending \in Seq(Event \cup {Nothing})
      /\ \A k \in 1 .. Waiting : Pending[k] = event_ring[(event_idx + k - 1) % N].event
  BY <1>3, PendingIs
<1>8. Pending # <<>> /\ taken' = Head(Pending)
  <2>1. (event_idx + 1 - 1) % N = event_idx
    BY <1>2, <1>3, SlotIs
  <2>2. Pending[1] = taken'
    BY <1>1, <1>6, <1>7, <2>1
  <2> QED BY <1>6, <1>7, <2>2
<1>9. Pending' = [k \in 1 .. (Waiting - 1) |-> event_ring[(event_idx' + k - 1) % N].event]
  BY <1>1, <1>6 DEF Pending, N
<1>10. ASSUME NEW k \in 1 .. (Waiting - 1) PROVE Pending'[k] = Pending[k + 1]
  <2>1. (event_idx' + k - 1) % N = (event_idx + (k + 1) - 1) % N
    <3>1. k \in 1 .. N /\ k + 1 \in 1 .. N
      BY <1>2, <1>6
    <3> QED BY <3>1, <1>1, <1>2, <1>3, SlotIs DEF After
  <2>2. k + 1 \in 1 .. Waiting
    BY <1>6
  <2> QED BY <2>1, <2>2, <1>7, <1>9
<1>11. Pending' = Tail(Pending)
  <2> DEFINE T == Event \cup {Nothing}
  <2>1. /\ Tail(Pending) \in Seq(T) /\ Len(Tail(Pending)) = Waiting - 1
        /\ \A k \in 1 .. (Waiting - 1) : Tail(Pending)[k] = Pending[k + 1]
    BY <1>7, <1>8, HeadTailProperties
  <2>2. \A k \in 1 .. Waiting : Pending[k] \in T
    BY <1>7, ElementOfSeq
  <2>3. \A k \in 1 .. (Waiting - 1) : Pending'[k] \in T
    BY <2>2, <1>6, <1>10
  <2>4. Pending' \in Seq(T) /\ Len(Pending') = Waiting - 1
    BY <2>3, <1>6, <1>9
  <2> QED BY <2>1, <2>4, <1>10, SeqEqual
<1> QED BY <1>8, <1>11

LEMMA Invariance == Spec => []IInv
BY InitIInv, NextIInv, PTL DEF Spec

(***************************************************************************)
(* Every step of the driver and the controller is a step of the queue or   *)
(* leaves it alone.                                                        *)
(***************************************************************************)
LEMMA StepRefines ==
    ASSUME IInv, [Next]_vars
    PROVE  \/ UNCHANGED <<Pending, taken>>
           \/ Controller /\ HcReport
           \/ TakeEvent
<1> SUFFICES ASSUME ~ (Controller /\ HcReport), ~ TakeEvent
             PROVE  UNCHANGED <<Pending, taken>>
  OBVIOUS
<1>1. /\ UNCHANGED <<event_idx, ev_ptr, taken>>
      /\ UNCHANGED event_ring \/ event_idx = ev_ptr
  <2>1. CASE UNCHANGED vars
    BY <2>1 DEF vars, driver, controller, history
  <2>2. CASE init_rings
    BY <2>2 DEF init_rings, Step, IInv, TypeInv, Working, history
  <2>3. CASE Driver /\ ~ init_rings
    BY <2>3 DEF Driver, Probe, bios_handoff, halt_controller, reset_controller, Refused,
                start_controller, Command, Poll, Acknowledge, Step, controller, history
  <2>4. CASE Controller
    BY <2>4 DEF Controller, HcLateStart, HcExecute, HcIdle, HcPortChange, driver, history
  <2> QED BY <2>1, <2>2, <2>3, <2>4 DEF Next
<1> QED BY <1>1, PendingStays DEF IInv

(***************************************************************************)
(* The event ring implements the queue: what the controller reports is     *)
(* taken once and in order, and nothing that still waits is overwritten,   *)
(* for every size of the ring and over any number of passes.               *)
(***************************************************************************)
THEOREM EventRingIsQueue == Spec => ImplementsEventQueue
<1>1. ASSUME Init PROVE Q!Init
  <2>1. Waiting = 0
    <3>1. ev_ptr \in 0 .. (N - 1) /\ event_idx = ev_ptr
      BY <1>1, InitIInv DEF Init, IInv, TypeInv
    <3>2. (ev_ptr - event_idx) % N = 0
      BY <3>1, DistanceIs
    <3> QED BY <3>2 DEF Waiting, N
  <2> QED BY <1>1, <2>1 DEF Init, Q!Init
<1>2. ASSUME IInv, [Next]_vars PROVE [Q!Next]_<<Pending, taken>>
  <2>1. CASE Controller /\ HcReport
    <3>1. pc \in Working
      BY <2>1 DEF Controller, Working
    <3>2. UNCHANGED taken
      BY <2>1 DEF HcReport, history
    <3>3. writing \in Event /\ Len(Pending) < N - 1 /\ Pending' = Append(Pending, writing)
      BY <2>1, <3>1, <1>2, ReportAppends
    <3>4. \E e \in Event : Q!Report(e)
      BY <3>2, <3>3 DEF Q!Report, Pending, N
    <3> QED BY <3>4 DEF Q!Next
  <2>2. CASE TakeEvent
    <3>1. Pending # <<>> /\ taken' = Head(Pending) /\ Pending' = Tail(Pending)
      BY <2>2, <1>2, TakeTakes
    <3>2. Q!Take
      BY <3>1 DEF Q!Take, Pending
    <3> QED BY <3>2 DEF Q!Next
  <2> QED BY <2>1, <2>2, <1>2, StepRefines
<1>3. IInv /\ [Next]_vars => [Q!Next]_<<Pending, taken>>
  BY <1>2
<1> QED
  BY <1>1, <1>3, Invariance, PTL DEF Spec, ImplementsEventQueue, Q!Spec, Pending

-----------------------------------------------------------------------------
(***************************************************************************)
(* The order of completions, through each of the places a completion is    *)
(* in: written, queued, taken.                                             *)
(***************************************************************************)
LEMMA OrderExecute ==
    ASSUME NEW q \in Seq(Event \cup {Nothing}), NEW done, NEW last \in Nat,
           InOrder(q, Nothing, done, last), last + 1 \in Completions
    PROVE  InOrder(q, last + 1, done, last + 1)
<1>1. Nothing \notin Completions /\ Completions \subseteq Nat
  BY NothingIsNoEvent DEF Event
<1>2. done \in Seq(Nat) /\ Len(done) \in Nat /\ Len(done) <= last /\ Len(q) \in Nat
  BY DEF InOrder
<1>3. \A k \in 1 .. Len(q) : q[k] # last + 1
  BY <1>1, <1>2 DEF InOrder
<1>4. ASSUME NEW c \in Completions
      PROVE  (c = last + 1 \/ \E k \in 1 .. Len(q) : q[k] = c)
             <=> (Len(done) < c /\ c <= last + 1)
  <2>1. c \in Nat /\ c # Nothing
    BY <1>1
  <2>2. (\E k \in 1 .. Len(q) : q[k] = c) <=> (Len(done) < c /\ c <= last)
    BY <2>1 DEF InOrder
  <2> QED BY <2>1, <2>2, <1>2
<1> QED BY <1>2, <1>3, <1>4 DEF InOrder

LEMMA OrderPort ==
    ASSUME NEW q \in Seq(Event \cup {Nothing}), NEW done, NEW last \in Nat,
           InOrder(q, Nothing, done, last), NEW e \in Ports
    PROVE  InOrder(q, e, done, last)
<1>1. Nothing \notin Completions /\ e \notin Completions
  BY NothingIsNoEvent, RingAssumption DEF Event
<1> QED BY <1>1 DEF InOrder

LEMMA OrderReport ==
    ASSUME NEW q \in Seq(Event \cup {Nothing}), NEW done, NEW last \in Nat, NEW w \in Event,
           InOrder(q, w, done, last)
    PROVE  InOrder(Append(q, w), Nothing, done, last)
<1>1. Nothing \notin Completions /\ Completions \subseteq Nat
  BY NothingIsNoEvent DEF Event
<1> DEFINE n == Len(q)
           a == Append(q, w)
<1>2. n \in Nat /\ Len(a) = n + 1 /\ a[n + 1] = w /\ \A k \in 1 .. n : a[k] = q[k]
  OBVIOUS
<1> HIDE DEF a
<1>3. ASSUME NEW k \in 1 .. (n + 1), NEW l \in 1 .. (n + 1), k < l,
             a[k] \in Completions, a[l] \in Completions
      PROVE  a[k] < a[l]
  <2>1. k \in 1 .. n /\ a[k] = q[k]
    BY <1>2, <1>3
  <2>2. CASE l = n + 1
    <3>1. w \in Completions /\ w = last /\ q[k] # w /\ q[k] \in Completions
      BY <2>1, <2>2, <1>2, <1>3 DEF InOrder
    <3>2. q[k] <= last
      BY <2>1, <3>1 DEF InOrder
    <3>3. q[k] < w
      <4>1. q[k] \in Nat
        BY <3>1, <1>1
      <4> QED BY <4>1, <3>1, <3>2
    <3>4. a[l] = w
      BY <2>2, <1>2
    <3> QED BY <2>1, <3>3, <3>4
  <2>3. CASE l # n + 1
    <3>1. l \in 1 .. n /\ a[l] = q[l]
      BY <2>3, <1>2
    <3>2. q[k] < q[l]
      BY <2>1, <3>1, <1>3 DEF InOrder
    <3> QED BY <2>1, <3>1, <3>2
  <2> QED BY <2>2, <2>3
<1>4. ASSUME NEW c \in Completions
      PROVE  (c = Nothing \/ \E k \in 1 .. (n + 1) : a[k] = c)
             <=> (Len(done) < c /\ c <= last)
  <2>1. (\E k \in 1 .. (n + 1) : a[k] = c) <=> (c = w \/ \E k \in 1 .. n : q[k] = c)
    BY <1>2
  <2> QED BY <2>1, <1>1 DEF InOrder
<1>5. InOrder(a, Nothing, done, last)
  BY <1>1, <1>2, <1>3, <1>4 DEF InOrder
<1> QED BY <1>5 DEF a

LEMMA OrderTake ==
    ASSUME NEW q \in Seq(Event \cup {Nothing}), NEW done, NEW last \in Nat, NEW w,
           InOrder(q, w, done, last), q # <<>>
    PROVE  InOrder(Tail(q), w,
                   IF Head(q) \in Completions THEN Append(done, Head(q)) ELSE done, last)
<1>1. Completions \subseteq Nat /\ \A c \in Completions : c \in 1 .. Len(Commands)
  BY NothingIsNoEvent DEF Completions
<1> DEFINE n == Len(q)
           t == Tail(q)
           h == Head(q)
<1>2. /\ n \in Nat /\ n >= 1 /\ Len(t) = n - 1 /\ h = q[1]
      /\ \A k \in 1 .. (n - 1) : t[k] = q[k + 1]
  BY HeadTailProperties, EmptySeq
<1>3. done \in Seq(Nat) /\ Len(done) \in Nat /\ Len(done) <= last
  BY DEF InOrder
<1> HIDE DEF t, h
<1>4. \A k, l \in 1 .. (n - 1) :
         k < l /\ t[k] \in Completions /\ t[l] \in Completions => t[k] < t[l]
  <2> SUFFICES ASSUME NEW k \in 1 .. (n - 1), NEW l \in 1 .. (n - 1), k < l,
                      t[k] \in Completions, t[l] \in Completions
               PROVE  t[k] < t[l]
    OBVIOUS
  <2>1. k + 1 \in 1 .. n /\ l + 1 \in 1 .. n /\ k + 1 < l + 1
    BY <1>2
  <2> QED BY <2>1, <1>2 DEF InOrder
<1>5. w \in Completions => w = last /\ \A k \in 1 .. (n - 1) : t[k] # w
  BY <1>2 DEF InOrder
<1>6. ASSUME NEW c
      PROVE  (\E k \in 1 .. n : q[k] = c) <=> (c = h \/ \E k \in 1 .. (n - 1) : t[k] = c)
  <2>1. ASSUME NEW k \in 1 .. n, q[k] = c, c # h PROVE \E j \in 1 .. (n - 1) : t[j] = c
    <3>1. k - 1 \in 1 .. (n - 1) /\ (k - 1) + 1 = k
      BY <2>1, <1>2
    <3>2. t[k - 1] = q[k]
      BY <3>1, <1>2
    <3> QED BY <3>1, <3>2, <2>1
  <2>2. ASSUME NEW j \in 1 .. (n - 1) PROVE t[j] = q[j + 1] /\ j + 1 \in 1 .. n
    BY <1>2
  <2>3. h = q[1] /\ 1 \in 1 .. n
    BY <1>2
  <2> QED BY <2>1, <2>2, <2>3
<1>7. CASE h \notin Completions
  <2>1. \A c \in Completions :
           (c = w \/ \E k \in 1 .. (n - 1) : t[k] = c) <=> (Len(done) < c /\ c <= last)
    BY <1>6, <1>7 DEF InOrder
  <2>2. InOrder(t, w, done, last)
    BY <1>2, <1>3, <1>4, <1>5, <2>1 DEF InOrder
  <2> QED BY <1>7, <2>2 DEF t, h
<1>8. CASE h \in Completions
  <2>1. h \in Nat /\ Len(done) < h /\ h <= last
    BY <1>1, <1>2, <1>8 DEF InOrder
  <2>2. h # w
    BY <1>2, <1>8 DEF InOrder
  <2>3. ASSUME NEW c \in Completions, Len(done) < c, c <= last PROVE h <= c
    <3>1. CASE c = w
      <4>1. w = last
        BY <3>1, <2>3 DEF InOrder
      <4> QED BY <3>1, <4>1, <2>1
    <3>2. CASE c # w
      <4>1. PICK k \in 1 .. n : q[k] = c
        BY <3>2, <2>3 DEF InOrder
      <4>2. CASE k = 1
        BY <4>1, <4>2, <1>1, <1>2
      <4>3. CASE k # 1
        <5>1. 1 \in 1 .. n /\ 1 < k
          BY <4>3, <1>2
        <5>2. q[1] < q[k]
          BY <5>1, <4>1, <1>2, <1>8, <2>3 DEF InOrder
        <5> QED BY <5>2, <4>1, <1>1, <1>2, <2>1
      <4> QED BY <4>2, <4>3
    <3> QED BY <3>1, <3>2
  <2>4. h = Len(done) + 1
    <3>1. Len(done) + 1 \in Completions
      BY <2>1, <1>1, <1>3, <1>8, RingAssumption DEF Completions
    <3> QED BY <3>1, <2>1, <2>3, <1>3
  <2> DEFINE d == Append(done, h)
  <2>5. /\ d \in Seq(Nat) /\ Len(d) = Len(done) + 1
        /\ \A k \in 1 .. Len(d) : d[k] = k
    BY <2>1, <2>4, <1>3 DEF InOrder
  <2> HIDE DEF d
  <2>6. ASSUME NEW k \in 1 .. (n - 1) PROVE t[k] # h
    <3>1. k + 1 \in 1 .. n /\ 1 < k + 1 /\ 1 \in 1 .. n /\ t[k] = q[k + 1]
      BY <1>2
    <3>2. ASSUME t[k] = h PROVE FALSE
      <4>1. q[1] < q[k + 1]
        BY <3>1, <3>2, <1>2, <1>8 DEF InOrder
      <4> QED BY <4>1, <3>1, <3>2, <1>2, <2>1
    <3> QED BY <3>2
  <2>7. ASSUME NEW c \in Completions
        PROVE  (c = w \/ \E k \in 1 .. (n - 1) : t[k] = c) <=> (Len(d) < c /\ c <= last)
    <3>1. (c = w \/ c = h \/ \E k \in 1 .. (n - 1) : t[k] = c)
          <=> (Len(done) < c /\ c <= last)
      BY <1>6 DEF InOrder
    <3>2. (c = w \/ \E k \in 1 .. (n - 1) : t[k] = c) => c # h
      BY <2>2, <2>6
    <3> QED BY <3>1, <3>2, <2>4, <2>5, <1>1, <1>3
  <2>8. Len(d) <= last
    BY <2>1, <2>4, <2>5
  <2>9. InOrder(t, w, d, last)
    BY <1>2, <1>4, <1>5, <2>5, <2>7, <2>8 DEF InOrder
  <2> QED BY <1>8, <2>9 DEF t, h, d
<1> QED BY <1>7, <1>8

-----------------------------------------------------------------------------
CommandsFit == Len(Commands) <= XHCI_MAX_COMMANDS

LEMMA InitOrderInv == Init => OrderInv
<1> SUFFICES ASSUME Init PROVE OrderInv
  OBVIOUS
<1>1. Pending = <<>>
  <2>1. ev_ptr \in 0 .. (N - 1) /\ event_idx = ev_ptr
    BY InitIInv DEF Init, IInv, TypeInv
  <2>2. (ev_ptr - event_idx) % N = 0
    BY <2>1, DistanceIs
  <2> QED BY <2>2 DEF Pending, Waiting, N
<1>2. InOrder(<<>>, Nothing, <<>>, 0)
  BY NothingIsNoEvent DEF InOrder, Event
<1> QED BY <1>1, <1>2, RingAssumption DEF Init, OrderInv, ClearTrb

\* The steps that neither queue nor execute nor report anything.
LEMMA OtherOrderInv ==
    ASSUME IInv, OrderInv, UNCHANGED <<queued, cmd_ring_idx, cmd_pcs, cmd_ring, cr_ptr, completed>>,
           UNCHANGED <<Pending, writing>>, pc' \in Working \/ pc \notin Working
    PROVE  OrderInv'
BY DEF OrderInv, InOrder

LEMMA NextOrderInv ==
    ASSUME CommandsFit
    PROVE  IInv /\ OrderInv /\ [Next]_vars => OrderInv'
<1> SUFFICES ASSUME IInv, OrderInv, [Next]_vars PROVE OrderInv'
  OBVIOUS
<1>1. XHCI_MAX_COMMANDS \in Nat /\ XHCI_MAX_COMMANDS >= 2 /\ Len(Commands) \in Nat
  BY RingAssumption
<1>2. /\ queued \in Nat /\ cr_ptr \in Nat /\ Pending \in Seq(Event \cup {Nothing})
      /\ DOMAIN cmd_ring = 0 .. XHCI_MAX_COMMANDS
  BY PendingIs DEF IInv, CommandInv
<1>3. InOrder(Pending, writing, completed, cr_ptr)
  BY DEF OrderInv
<1>4. CASE Controller /\ HcReport
  <2>1. /\ UNCHANGED <<pc, queued, cmd_ring_idx, cmd_pcs, cmd_ring, cr_ptr, completed>>
        /\ writing' = Nothing
        /\ pc \in Working
    BY <1>4 DEF Controller, HcReport, driver, history, Working
  <2>2. Pending' = Append(Pending, writing) /\ writing \in Event
    BY <1>4, <2>1, ReportAppends
  <2>3. InOrder(Pending', writing', completed', cr_ptr')
    BY <1>2, <1>3, <2>1, <2>2, OrderReport
  <2> QED BY <2>1, <2>3 DEF OrderInv
<1>5. CASE TakeEvent
  <2>1. /\ UNCHANGED <<queued, cmd_ring_idx, cmd_pcs, cmd_ring, cr_ptr, writing>>
        /\ pc' = "ack"
        /\ completed' = IF taken' \in Completions THEN Append(completed, taken') ELSE completed
    BY <1>5 DEF TakeEvent, controller
  <2>2. Pending # <<>> /\ taken' = Head(Pending) /\ Pending' = Tail(Pending)
    BY <1>5, TakeTakes
  <2>3. InOrder(Pending', writing', completed', cr_ptr')
    BY <1>2, <1>3, <2>1, <2>2, OrderTake
  <2> QED BY <2>1, <2>3 DEF OrderInv, Working
<1>6. CASE ~ (Controller /\ HcReport) /\ ~ TakeEvent
  <2>1. UNCHANGED Pending
    BY <1>6, StepRefines
  <2>2. CASE UNCHANGED vars
    BY <2>1, <2>2, OtherOrderInv DEF vars, driver, controller, history
  <2>3. CASE init_rings
    <3>1. /\ queued = 0 /\ completed = <<>> /\ writing = Nothing /\ cr_ptr = 0
          /\ pc \notin Working
      BY <2>3, <1>2 DEF init_rings, Step, OrderInv, IInv, TypeInv, Working
    <3>2. /\ UNCHANGED <<queued, cmd_ring_idx, cmd_pcs, completed, writing, cr_ptr>>
      BY <2>3, <3>1 DEF init_rings, Step, history
    <3>3. \A i \in 0 .. XHCI_MAX_COMMANDS : cmd_ring'[i].cycle = 0
      BY <2>3 DEF init_rings, ClearTrb, LinkTrb
    <3>4. InOrder(Pending', writing', completed', cr_ptr')
      BY <2>1, <3>2, <1>3
    <3> QED BY <3>1, <3>2, <3>3, <3>4 DEF OrderInv
  <2>4. CASE Probe \/ bios_handoff \/ halt_controller \/ reset_controller \/ Refused
             \/ start_controller \/ Poll \/ Acknowledge
    BY <2>1, <2>4, OtherOrderInv
       DEF Probe, bios_handoff, halt_controller, reset_controller, Refused, start_controller,
           Poll, Acknowledge, Step, controller, history, Working
  <2>5. CASE Command
    <3>1. /\ pc = "cmd" /\ pc' \in {"cmd", "poll"} /\ queued < Len(Commands)
          /\ queued' = queued + 1 /\ UNCHANGED <<cr_ptr, writing, completed>>
          /\ queue_cmd([ClearTrb EXCEPT !.type = Commands[queued + 1], !.id = queued + 1])
      BY <2>5 DEF Command, history
    <3>2. cmd_ring_idx = queued /\ cmd_pcs = 1 /\ queued < XHCI_MAX_COMMANDS
      BY <1>1, <1>2, <3>1 DEF OrderInv, CommandsFit
    <3>3. \A i \in 0 .. XHCI_MAX_COMMANDS :
             /\ i # queued => cmd_ring'[i] = cmd_ring[i]
             /\ i = queued => cmd_ring'[i].id = queued + 1 /\ cmd_ring'[i].cycle = 1
      <4> DEFINE trb == [ClearTrb EXCEPT !.type = Commands[queued + 1], !.id = queued + 1]
      <4>1. trb.id = queued + 1 /\ DOMAIN trb = {"type", "cycle", "tc", "id"}
        BY DEF ClearTrb
      <4> HIDE DEF trb
      <4>2. cmd_ring' = Queued(trb)
        BY <3>1 DEF queue_cmd, trb
      <4> QED BY <4>1, <4>2, <3>2, <1>1, <1>2 DEF Queued, Link
    <3>4. queued' < XHCI_MAX_COMMANDS => cmd_ring_idx' = queued' /\ cmd_pcs' = 1
      BY <3>1, <3>2, <1>1, <1>2 DEF queue_cmd
    <3>5. InOrder(Pending', writing', completed', cr_ptr')
      BY <2>1, <3>1, <1>3
    <3>6. ASSUME NEW i \in 0 .. XHCI_MAX_COMMANDS
          PROVE  /\ cmd_ring'[i].cycle = 1 <=> i < queued'
                 /\ i < queued' => cmd_ring'[i].id = i + 1
      BY <3>1, <3>3, <1>2 DEF OrderInv
    <3> QED BY <3>1, <3>4, <3>5, <3>6, <1>1, <1>2 DEF OrderInv, Working
  <2>6. CASE Controller
    <3>1. CASE HcExecute
      <4>1. /\ UNCHANGED <<pc, queued, cmd_ring_idx, cmd_pcs, cmd_ring, completed>>
            /\ writing = Nothing
            /\ writing' = cmd_ring[cr_ptr].id /\ cr_ptr' = cr_ptr + 1
            /\ cmd_ring[cr_ptr].cycle = 1
        BY <3>1 DEF HcExecute, Room, driver, history, IInv, CommandInv
      <4>2. cr_ptr < queued /\ cmd_ring[cr_ptr].id = cr_ptr + 1
        BY <4>1, <1>2 DEF OrderInv, IInv, CommandInv
      <4>3. cr_ptr + 1 \in Completions
        BY <4>2, <1>1, <1>2 DEF OrderInv, Completions
      <4>4. InOrder(Pending', writing', completed', cr_ptr')
        BY <1>2, <1>3, <2>1, <4>1, <4>2, <4>3, OrderExecute
      <4> QED BY <4>1, <4>2, <4>4, <1>2 DEF OrderInv
    <3>2. ASSUME NEW e \in Ports, HcPortChange(e) PROVE OrderInv'
      <4>1. /\ UNCHANGED <<pc, queued, cmd_ring_idx, cmd_pcs, cmd_ring, completed, cr_ptr>>
            /\ writing = Nothing /\ writing' = e
        BY <3>2 DEF HcPortChange, Room, driver, history
      <4>2. InOrder(Pending', writing', completed', cr_ptr')
        BY <1>2, <1>3, <2>1, <4>1, OrderPort
      <4> QED BY <4>1, <4>2 DEF OrderInv
    <3>3. CASE HcLateStart \/ HcIdle
      BY <3>3, <2>1, OtherOrderInv DEF HcLateStart, HcIdle, driver, history
    <3> QED BY <2>6, <3>1, <3>2, <3>3, <1>6 DEF Controller
  <2> QED BY <2>2, <2>3, <2>4, <2>5, <2>6, <1>6 DEF Next, Driver
<1> QED BY <1>4, <1>5, <1>6

(***************************************************************************)
(* Commands complete in the order in which they were queued and none       *)
(* twice, whatever else is reported in between, for every ring size and    *)
(* every list of commands that fits on the command ring (the driver's two  *)
(* do; queue_cmd does not stop at the link TRB, so more would not).        *)
(***************************************************************************)
THEOREM CommandOrder ==
    ASSUME CommandsFit
    PROVE  Spec => []CommandsInOrder
<1>1. IInv /\ OrderInv => CommandsInOrder
  <2> SUFFICES ASSUME IInv, OrderInv PROVE CommandsInOrder
    OBVIOUS
  <2>1. Len(completed) \in Nat /\ Len(completed) <= cr_ptr /\ cr_ptr <= queued
    BY DEF OrderInv, InOrder
  <2> QED BY <2>1 DEF OrderInv, InOrder, CommandsInOrder, IInv, CommandInv
<1>2. IInv /\ OrderInv /\ [Next]_vars => OrderInv'
  BY NextOrderInv
<1> QED
  BY <1>1, <1>2, InitOrderInv, Invariance, PTL DEF Spec
=============================================================================
