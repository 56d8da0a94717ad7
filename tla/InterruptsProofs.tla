-------------------------- MODULE InterruptsProofs --------------------------
(***************************************************************************)
(* For every set of devices on the PICs, and every size of the IO APIC and *)
(* every MADT whose overrides do not collide: interrupts reach the handler *)
(* of their line, and the right one is ended.                              *)
(***************************************************************************)
EXTENDS Interrupts, TLAPS, WellFoundedInduction, SequenceTheorems

(***************************************************************************)
(* A set of natural numbers that is not empty has a least one, and one     *)
(* with a bound a greatest, so Min and Max of the model are members.       *)
(***************************************************************************)
LEMMA LeastExists ==
    ASSUME NEW S \in SUBSET Nat, S # {}
    PROVE  \E m \in S : \A t \in S : m <= t
<1>1. PICK m \in S : \A t \in S : ~ (<<t, m>> \in OpToRel(<, Nat))
  BY WFMin, NatLessThanWellFounded
<1>2. ASSUME NEW t \in S PROVE m <= t
  <2>1. t \in Nat /\ m \in Nat
    OBVIOUS
  <2>2. t < m => <<t, m>> \in OpToRel(<, Nat)
    BY <2>1 DEF OpToRel
  <2>3. ~ (t < m)
    BY <1>1, <2>2, Zenon
  <2> QED BY <2>1, <2>3
<1> QED BY <1>2

LEMMA MinIsMember ==
    ASSUME NEW S \in SUBSET Nat, S # {}
    PROVE  Min(S) \in S /\ \A t \in S : Min(S) <= t
<1>1. PICK m \in S : \A t \in S : m <= t
  BY LeastExists
<1>2. Min(S) = CHOOSE x \in S : \A y \in S : x <= y
  BY DEF Min
<1> QED BY <1>1, <1>2

LEMMA MaxIsMember ==
    ASSUME NEW b \in Nat, NEW S \in SUBSET (0 .. b), S # {}
    PROVE  Max(S) \in S
<1> DEFINE T == {b - k : k \in S}
<1>1. T \subseteq Nat /\ T # {}
  <2>1. ASSUME NEW k \in S PROVE b - k \in Nat
    OBVIOUS
  <2>2. PICK k \in S : TRUE
    OBVIOUS
  <2>3. b - k \in T
    BY <2>2
  <2> QED BY <2>1, <2>3
<1>2. PICK m \in T : \A t \in T : m <= t
  BY <1>1, LeastExists
<1>3. PICK k \in S : m = b - k
  OBVIOUS
<1>4. ASSUME NEW l \in S PROVE k >= l
  <2>1. m <= b - l
    BY <1>2
  <2> QED BY <2>1, <1>3
<1>5. Max(S) = CHOOSE x \in S : \A y \in S : x >= y
  BY DEF Max
<1> QED BY <1>4, <1>5

-----------------------------------------------------------------------------
(***************************************************************************)
(* The PICs.  Until remap_pic has run, and for ever if there is an APIC,   *)
(* no interrupt of theirs arrives; afterwards at most one interrupt of the *)
(* master is in service, that of the handler on top of the stack, because  *)
(* interrupts are only enabled by handlers that have ended theirs.         *)
(***************************************************************************)
Quiet == cpuid_apic_available \/ stage \in {"cpuid", "apic", "pic"}

Frame == [line : (0 .. 15) \ {2}, real : BOOLEAN, sent : BOOLEAN, vector : Nat]

Top == frames[Len(frames)]

PicInv ==
    /\ Quiet => iflag = FALSE /\ frames = <<>> /\ pic_isr = {}
    /\ ~Quiet => offset = [master |-> 32, slave |-> 40] /\ idt = {"irq", "exceptions"}
    /\ stage = "apic" => cpuid_apic_available
    /\ cpuid_apic_available \in BOOLEAN /\ iflag \in BOOLEAN
    /\ pic_irr \subseteq PicLines
    /\ pic_isr \subseteq 0 .. 15
    /\ frames \in Seq(Frame)
    /\ \A k \in 1 .. Len(frames) : /\ frames[k].vector = 32 + frames[k].line
                                   /\ iflag \/ k < Len(frames) => frames[k].sent
    /\ pic_isr \cap Master
         = IF frames # <<>> /\ Top.real /\ ~Top.sent THEN {Bit(Top.line)} ELSE {}

LEMMA InitPicInv == InterruptsInit => PicInv
<1> SUFFICES ASSUME InterruptsInit PROVE PicInv
  OBVIOUS
<1>1. /\ iflag = FALSE /\ frames = <<>> /\ pic_irr = {} /\ pic_isr = {} /\ stage = "cpuid"
      /\ cpuid_apic_available \in BOOLEAN
  BY DEF InterruptsInit, PicInit
<1>2. frames \in Seq(Frame) /\ Len(frames) = 0
  BY <1>1
<1>3. Quiet
  BY <1>1 DEF Quiet
<1>4. pic_isr \subseteq 0 .. 15 /\ pic_irr \subseteq PicLines /\ pic_isr \cap Master = {}
  BY <1>1
<1>5. \A k \in 1 .. Len(frames) : /\ frames[k].vector = 32 + frames[k].line
                                  /\ iflag \/ k < Len(frames) => frames[k].sent
  BY <1>2
<1>6. iflag \in BOOLEAN
  BY <1>1
<1>7. pic_isr \cap Master = IF frames # <<>> /\ Top.real /\ ~Top.sent THEN {Bit(Top.line)} ELSE {}
  BY <1>1, <1>4
<1>8. stage = "apic" => cpuid_apic_available
  BY <1>1
<1> QED BY <1>1, <1>2, <1>3, <1>4, <1>5, <1>6, <1>7, <1>8 DEF PicInv

\* The steps that concern the processor and the APICs only.
LEMMA OtherPicInv ==
    ASSUME PicInv, UNCHANGED <<frames, offset, pic_irr, pic_isr, cpuid_apic_available>>,
           UNCHANGED iflag \/ iflag' = FALSE, Quiet <=> Quiet', Quiet \/ UNCHANGED idt,
           stage' = "apic" => cpuid_apic_available
    PROVE  PicInv'
<1>1. Top' = Top
  BY DEF Top
<1>2. iflag' \in BOOLEAN /\ (iflag' => iflag)
  <2>1. iflag \in BOOLEAN
    BY DEF PicInv
  <2>2. CASE UNCHANGED iflag
    BY <2>1, <2>2
  <2>3. CASE iflag' = FALSE
    BY <2>3
  <2> QED BY <2>2, <2>3
<1>3. \A k \in 1 .. Len(frames') : /\ frames'[k].vector = 32 + frames'[k].line
                                   /\ iflag' \/ k < Len(frames') => frames'[k].sent
  BY <1>2 DEF PicInv
<1>4. (pic_isr \cap Master)'
        = IF frames' # <<>> /\ Top'.real /\ ~Top'.sent THEN {Bit(Top'.line)} ELSE {}
  BY <1>1 DEF PicInv
<1>5. Quiet' => iflag' = FALSE /\ frames' = <<>> /\ pic_isr' = {}
  BY <1>2 DEF PicInv
<1>6. ~Quiet' => offset' = [master |-> 32, slave |-> 40] /\ idt' = {"irq", "exceptions"}
  BY DEF PicInv
<1> QED BY <1>2, <1>3, <1>4, <1>5, <1>6 DEF PicInv

LEMMA PicSetupInv == ASSUME PicInv, Pic, PicSetup PROVE PicInv'
<1>1. UNCHANGED cpuid_apic_available /\ cpuid_apic_available = FALSE
  BY DEF Pic, PicInv
<1>2. stage = "pic" /\ iflag = FALSE /\ frames = <<>> /\ pic_isr = {}
  BY <1>1 DEF PicSetup, init_irq_handlers, init_exceptions, remap_pic, PicInv, Quiet
<1>3. CASE init_irq_handlers \/ init_exceptions
  BY <1>1, <1>2, <1>3 DEF init_irq_handlers, init_exceptions, PicInv, Quiet, Top
<1>4. CASE remap_pic
  BY <1>1, <1>2, <1>4 DEF remap_pic, PicInv, Quiet, Top
<1> QED BY <1>3, <1>4 DEF PicSetup

LEMMA PicRaiseInv == ASSUME PicInv, Pic, NEW l \in PicLines, PicRaise(l) PROVE PicInv'
BY DEF Pic, PicInv, PicRaise, Quiet, Top, Bit

\* A handler is entered with interrupts enabled: all others have ended theirs.
LEMMA EnterInv ==
    ASSUME PicInv, ~Quiet, iflag, NEW l \in (0 .. 15) \ {2}, NEW real \in BOOLEAN,
           Enter(l, real), UNCHANGED <<stage, idt, offset, cpuid_apic_available>>,
           pic_irr' \subseteq PicLines, pic_isr' \subseteq 0 .. 15,
           pic_isr' \cap Master = IF real THEN {Bit(l)} ELSE {}
    PROVE  PicInv'
<1> DEFINE f == [line |-> l, real |-> real, sent |-> FALSE, vector |-> VectorOf(l)]
           n == Len(frames)
<1>1. VectorOf(l) = 32 + l
  BY DEF PicInv, VectorOf, Master
<1>2. f \in Frame /\ f.vector = 32 + f.line /\ f.real = real /\ f.sent = FALSE /\ f.line = l
  BY <1>1 DEF Frame
<1> HIDE DEF f
<1>3. frames' = Append(frames, f) /\ iflag' = FALSE
  BY DEF Enter, f
<1>4. frames \in Seq(Frame) /\ n \in Nat
  BY DEF PicInv
<1>5. /\ frames' \in Seq(Frame) /\ frames' # <<>> /\ Len(frames') = n + 1
      /\ frames'[n + 1] = f /\ \A k \in 1 .. n : frames'[k] = frames[k]
  BY <1>2, <1>3, <1>4
<1>6. \A k \in 1 .. Len(frames') : /\ frames'[k].vector = 32 + frames'[k].line
                                   /\ iflag' \/ k < Len(frames') => frames'[k].sent
  BY <1>2, <1>3, <1>4, <1>5 DEF PicInv
<1>7. Top' = f
  BY <1>5 DEF Top
<1> QED BY <1>2, <1>3, <1>5, <1>6, <1>7 DEF PicInv, Quiet

\* While interrupts are enabled the master has nothing in service.
LEMMA NothingInService ==
    ASSUME PicInv, Pic, iflag
    PROVE  ~Quiet /\ pic_isr \cap Master = {}
<1>1. frames # <<>> => Len(frames) \in 1 .. Len(frames)
  BY EmptySeq DEF PicInv
<1>2. frames # <<>> => Top.sent
  BY <1>1 DEF PicInv, Top
<1> QED BY <1>2 DEF PicInv

LEMMA AcknowledgeInv == ASSUME PicInv, Pic, Acknowledge PROVE PicInv'
<1> DEFINE m == Min(Requests)
           l == IF m = 2 THEN Min(Eligible(Slave)) ELSE m
<1>1. iflag /\ ~Quiet /\ pic_isr \cap Master = {}
  BY NothingInService DEF Acknowledge
<1>2. pic_irr \subseteq (0 .. 15) \ {2}
  BY PicAssumption DEF PicInv
<1>3. Requests \subseteq Nat /\ Requests # {}
  <2>1. ASSUME NEW S PROVE Eligible(S) \subseteq pic_irr
    BY DEF Eligible
  <2>2. Requests \subseteq pic_irr \cup {2}
    BY <2>1 DEF Requests
  <2>3. Requests # {}
    BY DEF Acknowledge
  <2> QED BY <2>2, <2>3, <1>2
<1>4. m \in Requests
  BY <1>3, MinIsMember
<1>5. l \in pic_irr /\ m = Bit(l) /\ m \in Master
  <2>1. CASE m = 2
    <3>1. 2 \notin Eligible(Master) /\ Eligible(Slave) \subseteq Nat
      <4>1. Eligible(Master) \subseteq pic_irr
        BY DEF Eligible
      <4>2. Eligible(Slave) \subseteq pic_irr
        BY DEF Eligible
      <4>3. 2 \notin pic_irr /\ pic_irr \subseteq Nat
        BY <1>2
      <4>4. Eligible(Slave) \subseteq Nat
        BY <4>2, <4>3, Zenon
      <4> QED BY <4>1, <4>3, <4>4, Zenon
    <3>2. Eligible(Slave) # {}
      BY <2>1, <3>1, <1>4 DEF Requests
    <3>3. l \in Eligible(Slave)
      BY <2>1, <3>1, <3>2, MinIsMember
    <3> HIDE DEF l, m
    <3> QED BY <2>1, <3>3 DEF Eligible, Slave, Master, Bit
  <2>2. CASE m # 2
    <3>1. m \in Eligible(Master)
      BY <2>2, <1>4 DEF Requests
    <3> QED BY <2>2, <3>1 DEF Eligible, Master, Bit
  <2> QED BY <2>1, <2>2
<1>6. /\ pic_irr' = pic_irr \ {l} /\ pic_isr' = pic_isr \cup {m, l} /\ Enter(l, TRUE)
      /\ UNCHANGED <<stage, idt, offset, cpuid_apic_available>>
  BY DEF Acknowledge, Pic
<1> HIDE DEF l, m
<1>7. l \in (0 .. 15) \ {2}
  BY <1>2, <1>5
<1>8. pic_isr' \cap Master = {Bit(l)}
  BY <1>1, <1>5, <1>6, <1>7 DEF Bit, Master
<1>9. pic_irr' \subseteq PicLines /\ pic_isr' \subseteq 0 .. 15
  <2>1. m \in 0 .. 15
    BY <1>5 DEF Master
  <2>2. pic_irr' \subseteq PicLines
    BY <1>6 DEF PicInv
  <2> QED BY <2>1, <2>2, <1>6, <1>7 DEF PicInv
<1>10. pic_isr' \cap Master = IF TRUE THEN {Bit(l)} ELSE {}
  BY <1>8
<1> QED BY <1>1, <1>6, <1>7, <1>9, <1>10, EnterInv, Zenon

LEMMA SpuriousInv == ASSUME PicInv, Pic, SpuriousIrq PROVE PicInv'
<1>1. iflag /\ ~Quiet /\ pic_isr \cap Master = {}
  BY NothingInService DEF SpuriousIrq
<1>2. /\ Enter(7, FALSE) /\ UNCHANGED <<stage, idt, offset, pic_irr, pic_isr, cpuid_apic_available>>
  BY DEF SpuriousIrq, Pic
<1>3. pic_irr' \subseteq PicLines /\ pic_isr' \subseteq 0 .. 15 /\ pic_isr' \cap Master = {}
  BY <1>1, <1>2 DEF PicInv
<1>4. pic_isr' \cap Master = IF FALSE THEN {Bit(7)} ELSE {}
  BY <1>3
<1>5. 7 \in (0 .. 15) \ {2} /\ FALSE \in BOOLEAN
  OBVIOUS
<1> QED BY <1>1, <1>2, <1>3, <1>4, <1>5, EnterInv, Zenon

\* What a handler ends is its own interrupt, or nothing if it is spurious.
LEMMA EoiInv == ASSUME PicInv, Pic, Eoi PROVE PicInv'
<1> DEFINE n == Len(frames)
<1>1. frames \in Seq(Frame) /\ frames # <<>>
  BY DEF Eoi, InHandler, PicInv
<1>2. n \in Nat /\ n >= 1 /\ n \in 1 .. n /\ \A k \in 1 .. n : frames[k] \in Frame
  BY <1>1, EmptySeq, ElementOfSeq
<1>3. /\ ~Top.sent /\ frames' = [frames EXCEPT ![n].sent = TRUE] /\ pic_isr' = AfterEoi
      /\ UNCHANGED <<stage, idt, iflag, offset, pic_irr, cpuid_apic_available>>
  BY DEF Eoi, Pic, Top, Last
<1>4. /\ frames' \in Seq(Frame) /\ Len(frames') = n
      /\ \A k \in 1 .. n : /\ frames'[k].line = frames[k].line
                           /\ frames'[k].vector = frames[k].vector
                           /\ frames'[k].sent = IF k = n THEN TRUE ELSE frames[k].sent
  <2> DEFINE e == [frames[n] EXCEPT !.sent = TRUE]
  <2>1. e \in Frame /\ e.line = frames[n].line /\ e.vector = frames[n].vector /\ e.sent = TRUE
    BY <1>2 DEF Frame
  <2> HIDE DEF e
  <2>2. frames' = [frames EXCEPT ![n] = e]
    BY <1>3 DEF e
  <2>3. /\ frames' \in Seq(Frame) /\ Len(frames') = n
        /\ \A k \in 1 .. n : frames'[k] = IF k = n THEN e ELSE frames[k]
    <3> HIDE DEF n
    <3> QED BY <1>1, <1>2, <2>1, <2>2, ExceptSeq DEF n
  <2> HIDE DEF n
  <2>4. ASSUME NEW k \in 1 .. n
        PROVE  /\ frames'[k].line = frames[k].line
               /\ frames'[k].vector = frames[k].vector
               /\ frames'[k].sent = IF k = n THEN TRUE ELSE frames[k].sent
    <3>1. CASE k = n
      BY <3>1, <2>1, <2>3
    <3>2. CASE k # n
      <4>1. frames'[k] = frames[k]
        BY <3>2, <2>3
      <4> QED BY <3>2, <4>1
    <3> QED BY <3>1, <3>2
  <2> QED BY <2>3, <2>4
<1>5. pic_isr' \cap Master = {}
  <2>1. CASE pic_isr \cap Master = {}
    BY <2>1, <1>3 DEF AfterEoi
  <2>2. CASE pic_isr \cap Master # {}
    <3>1. pic_isr \cap Master = {Bit(Top.line)}
      BY <2>2 DEF PicInv
    <3>2. pic_isr \cap Master \subseteq Nat
      BY DEF Master
    <3>3. Min(pic_isr \cap Master) \in pic_isr \cap Master
      BY <2>2, <3>2, MinIsMember
    <3>4. pic_isr' = pic_isr \ {Min(pic_isr \cap Master)}
      BY <2>2, <1>3 DEF AfterEoi
    <3> QED BY <3>1, <3>3, <3>4
  <2> QED BY <2>1, <2>2
<1>6. pic_isr' \subseteq 0 .. 15
  BY <1>3 DEF AfterEoi, PicInv
<1>7. Top'.sent
  BY <1>2, <1>4 DEF Top
<1>8. \A k \in 1 .. Len(frames') : /\ frames'[k].vector = 32 + frames'[k].line
                                   /\ iflag' \/ k < Len(frames') => frames'[k].sent
  BY <1>2, <1>3, <1>4 DEF PicInv
<1>9. Quiet' <=> Quiet
  BY <1>3 DEF Quiet
<1>10. ~Quiet
  BY <1>1 DEF PicInv
<1> QED BY <1>3, <1>4, <1>5, <1>6, <1>7, <1>8, <1>9, <1>10 DEF PicInv

LEMMA ReturnInv == ASSUME PicInv, Pic, KeyboardEnables \/ Iret PROVE PicInv'
<1> DEFINE n == Len(frames)
<1>1. frames \in Seq(Frame) /\ frames # <<>>
  BY DEF KeyboardEnables, Iret, InHandler, PicInv
<1>2. n \in Nat /\ n >= 1 /\ n \in 1 .. n /\ \A k \in 1 .. n : frames[k] \in Frame
  BY <1>1, EmptySeq, ElementOfSeq
<1>3. /\ frames[n].sent /\ iflag' = TRUE
      /\ UNCHANGED <<stage, idt, offset, pic_irr, pic_isr, cpuid_apic_available>>
  BY DEF KeyboardEnables, Iret, Pic, Last
<1>4. pic_isr \cap Master = {} /\ ~Quiet /\ (Quiet' <=> Quiet)
  BY <1>1, <1>3 DEF PicInv, Top, Quiet
<1>5. \A k \in 1 .. n : frames[k].sent
  <2> SUFFICES ASSUME NEW k \in 1 .. n PROVE frames[k].sent
    OBVIOUS
  <2>1. CASE k = n
    BY <2>1, <1>3
  <2>2. CASE k < n
    BY <2>2 DEF PicInv
  <2> QED BY <2>1, <2>2, <1>2
<1>6. /\ frames' \in Seq(Frame) /\ Len(frames') \in 0 .. n
      /\ \A k \in 1 .. Len(frames') : frames'[k] = frames[k]
  <2>1. CASE KeyboardEnables
    BY <2>1, <1>1, <1>2 DEF KeyboardEnables
  <2>2. CASE Iret
    <3>1. frames' = SubSeq(frames, 1, n - 1)
      BY <2>2 DEF Iret, Front
    <3>2. \A k \in 1 .. (n - 1) : frames[k] \in Frame
      BY <1>2
    <3>3. n - 1 \in Int
      BY <1>2
    <3>4. /\ frames' \in Seq(Frame) /\ Len(frames') = IF 1 <= n - 1 THEN n - 1 - 1 + 1 ELSE 0
          /\ \A k \in 1 .. (n - 1 - 1 + 1) : frames'[k] = frames[1 + k - 1]
      BY <3>1, <3>2, <3>3, SubSeqProperties
    <3> HIDE DEF n
    <3>5. Len(frames') = n - 1
      BY <3>4, <1>2
    <3>6. ASSUME NEW k \in 1 .. (n - 1) PROVE frames'[k] = frames[k]
      <4>1. k \in 1 .. (n - 1 - 1 + 1) /\ 1 + k - 1 = k
        BY <1>2
      <4> QED BY <4>1, <3>4
    <3> QED BY <3>4, <3>5, <3>6, <1>2
  <2> QED BY <2>1, <2>2
<1>7. \A k \in 1 .. Len(frames') : frames'[k].vector = 32 + frames'[k].line /\ frames'[k].sent
  BY <1>2, <1>5, <1>6 DEF PicInv
<1>8. frames' # <<>> => Top'.sent
  <2>1. frames' # <<>> => Len(frames') \in 1 .. Len(frames')
    BY <1>6, EmptySeq
  <2> QED BY <2>1, <1>7 DEF Top
<1> QED BY <1>3, <1>4, <1>6, <1>7, <1>8 DEF PicInv

LEMMA NextPicInv == PicInv /\ [Next]_allvars => PicInv'
<1> SUFFICES ASSUME PicInv, [Next]_allvars PROVE PicInv'
  OBVIOUS
<1>1. CASE UNCHANGED allvars
  BY <1>1, OtherPicInv DEF allvars, picstate, Quiet, PicInv
<1>2. CASE UseApic \/ UsePic
  BY <1>2, OtherPicInv DEF UseApic, UsePic, picstate, Quiet
<1>3. CASE InitApic
  BY <1>3, OtherPicInv DEF InitApic, picstate, Quiet, PicInv
<1>4. ASSUME NEW v \in {3, 14}, Exception(v) PROVE PicInv'
  BY <1>4, OtherPicInv DEF Exception, Quiet
<1>5. ASSUME NEW S, Apic(S) PROVE PicInv'
  BY <1>5, OtherPicInv DEF Apic, picstate, Quiet, PicInv
<1>6. CASE Pic /\ (PicSetup \/ Acknowledge \/ PicHandlers \/ SpuriousIrq
                   \/ \E l \in PicLines : PicRaise(l))
  BY <1>6, PicSetupInv, AcknowledgeInv, EoiInv, ReturnInv, SpuriousInv, PicRaiseInv
     DEF PicHandlers
<1> QED BY <1>1, <1>2, <1>3, <1>4, <1>5, <1>6 DEF Next

LEMMA PicInvariance == Spec => []PicInv
BY InitPicInv, NextPicInv, PTL DEF Spec

(***************************************************************************)
(* Every interrupt of the PICs is handled at the vector that remap_pic     *)
(* gave its line, by the handler of its line, for every set of devices.    *)
(***************************************************************************)
THEOREM HandlerIsReached == Spec => []IrqReachesHandler
<1>1. PicInv => IrqReachesHandler
  <2> SUFFICES ASSUME PicInv, NEW k \in DOMAIN frames
               PROVE  /\ frames[k].vector = 32 + frames[k].line
                      /\ Gate(frames[k].vector) = HandlerOf(frames[k].line)
    BY DEF IrqReachesHandler
  <2>1. frames \in Seq(Frame) /\ k \in 1 .. Len(frames)
    BY DEF PicInv
  <2>2. frames[k] \in Frame
    BY <2>1, ElementOfSeq
  <2> DEFINE l == frames[k].line
  <2>3. frames[k].vector = 32 + l /\ l \in (0 .. 15) \ {2}
    BY <2>1, <2>2 DEF PicInv, Frame
  <2>4. idt = {"irq", "exceptions"}
    BY <2>1 DEF PicInv
  <2> HIDE DEF l
  <2>5. Gate(32 + l) = HandlerOf(l)
    BY <2>3, <2>4 DEF Gate, HandlerOf
  <2> QED BY <2>3, <2>5 DEF l
<1> QED BY PicInvariance, <1>1, PTL

(***************************************************************************)
(* No handler ends another's interrupt: what the master has in service is  *)
(* exactly what running handlers have still to end, however they nest.     *)
(***************************************************************************)
THEOREM EachEndsItsOwn == Spec => []InServiceIsUnended
<1>1. PicInv => InServiceIsUnended
  <2> SUFFICES ASSUME PicInv PROVE InServiceIsUnended
    OBVIOUS
  <2> DEFINE n == Len(frames)
             open == {f \in ToSet(frames) : f.real /\ ~f.sent}
  <2>1. frames \in Seq(Frame) /\ n \in Nat /\ (frames # <<>> => n \in 1 .. n)
    BY EmptySeq DEF PicInv
  <2>2. open = IF frames # <<>> /\ Top.real /\ ~Top.sent THEN {Top} ELSE {}
    <3>1. ASSUME NEW f \in open PROVE frames # <<>> /\ f = Top
      <4>1. PICK k \in 1 .. n : f = frames[k]
        BY <2>1 DEF ToSet
      <4>2. ~ (k < n)
        BY <4>1, <3>1 DEF PicInv
      <4> QED BY <4>1, <4>2, <2>1 DEF Top
    <3>2. frames # <<>> => Top \in ToSet(frames)
      BY <2>1 DEF Top, ToSet
    <3>3. CASE frames # <<>> /\ Top.real /\ ~Top.sent
      <4>1. Top \in open
        BY <3>2, <3>3
      <4> QED BY <3>1, <3>3, <4>1
    <3>4. CASE ~ (frames # <<>> /\ Top.real /\ ~Top.sent)
      BY <3>1, <3>4
    <3> QED BY <3>3, <3>4
  <2> HIDE DEF open
  <2>3. {Bit(f.line) : f \in open} = pic_isr \cap Master
    BY <2>2 DEF PicInv
  <2> QED BY <2>3 DEF InServiceIsUnended, open
<1> QED BY PicInvariance, <1>1, PTL

(***************************************************************************)
(* The APIC.  A source that has been overridden has its forwarding handler *)
(* at its line, and no other handler forwards.  What the kernel unmasks    *)
(* then always leads to a driver, through at most one forwarding handler,  *)
(* until one is removed.                                                   *)
(***************************************************************************)
Handlers == {None, Driver} \cup {Forward(s) : s \in Sources}
Steps    == [do : {"nothing"}] \cup [do : {"enable", "disable"}, vector : Lines]

IrqTypeInv ==
    /\ pc \in {"overrides", "reserve", "keyboard", "run", "fault"}
    /\ \E f \in Firmwares : madt = f.madt
    /\ seen \in 0 .. Len(madt)
    /\ overrides \in [Sources -> Sources \cup {NoLine}]
    /\ io_handlers \in [Vectors -> Handlers]
    /\ step \in Steps
    /\ irr \subseteq Lines /\ running \in Lines \cup {NoLine}
    /\ installed \subseteq Lines

\* The overrides that init_overrides has looked at, and only they, are in the tables.
RoutingInv ==
    /\ \A k \in 1 .. seen : Accepted(madt[k]) => overrides[madt[k].src] = madt[k].gsi
    /\ \A s \in Sources : overrides[s] # NoLine =>
          /\ io_handlers[overrides[s]] = Forward(s)
          /\ \E k \in 1 .. seen : Accepted(madt[k]) /\ madt[k].src = s /\ madt[k].gsi = overrides[s]
    /\ \A v \in Vectors, s \in Sources : io_handlers[v] = Forward(s) => overrides[s] = v

BootInv ==
    /\ pc # "overrides" => seen = Len(madt)
    /\ pc # "overrides" => \A g \in Lines \ Sources : kind[g] = "level"
    /\ pc # "overrides" => \A g \in Sources :
          kind[g] = IF g = 0 \/ overrides[g] = NoLine THEN "edge"
                    ELSE madt[Max(OverridesOf(madt, g))].kind
    /\ pc \in {"reserve", "keyboard"} => masked = Lines
    /\ pc \in {"overrides", "reserve", "keyboard"} =>
          /\ \A v \in Vectors : io_handlers[v] # Driver
          /\ irr = {} /\ running = NoLine /\ installed = {} /\ step = [do |-> "nothing"]

DriverInv ==
    /\ \A v \in installed : io_handlers[v] = Driver /\ LineOf(overrides, v) \notin masked
    /\ step.do = "enable" => io_handlers[step.vector] = Driver
    /\ step.do = "disable" => io_handlers[step.vector] = None /\ removed # {}

Reaches(h, g) == \/ h[g] = Driver
                 \/ \E s \in Sources : h[g] = Forward(s) /\ h[s] = Driver

LiveInv ==
    removed = {} =>
      /\ \A g \in irr : Reaches(io_handlers, g)
      /\ running # NoLine => Reaches(io_handlers, running)
      /\ pc = "run" => \A g \in Lines \ masked : Reaches(io_handlers, g)
      /\ pc # "fault"

IrqInv == IrqTypeInv /\ RoutingInv /\ BootInv /\ DriverInv /\ LiveInv

LEMMA Ranges ==
    /\ Sources \subseteq Lines /\ Lines \subseteq Vectors /\ Vectors \subseteq Nat
    /\ 1 \in Sources /\ NoLine \notin Vectors
    /\ \A n \in Nat : n < ISA_INTERRUPT_COUNT <=> n \in Sources
BY IrqConstants DEF Sources, Lines, Vectors, NoLine

LEMMA HandlersDiffer ==
    /\ None # Driver
    /\ \A s : Forward(s) # None /\ Forward(s) # Driver
    /\ \A s, t : Forward(s) = Forward(t) => s = t
    /\ None.kind # "forward" /\ Driver.kind # "forward"
    /\ \A s : Forward(s).kind = "forward" /\ Forward(s).to = s
<1>1. /\ None.kind = "none" /\ Driver.kind = "driver"
      /\ \A s : Forward(s).kind = "forward" /\ Forward(s).to = s
  BY DEF None, Driver, Forward
<1>2. ASSUME NEW s PROVE Forward(s) # None /\ Forward(s) # Driver
  BY <1>1
<1>3. ASSUME NEW s, NEW t, Forward(s) = Forward(t) PROVE s = t
  BY <1>1, <1>3
<1> QED BY <1>1, <1>2, <1>3

LEMMA MadtFacts ==
    ASSUME IrqTypeInv
    PROVE  /\ Len(madt) \in Nat /\ DOMAIN madt = 1 .. Len(madt)
           /\ \A k \in 1 .. Len(madt) : madt[k].src \in Sources /\ madt[k].gsi \in Nat
           /\ \A i, j \in 1 .. Len(madt) :
                 i # j /\ Accepted(madt[i]) /\ Accepted(madt[j])
                 => madt[i].src # madt[j].src /\ madt[i].gsi # madt[j].gsi
<1> DEFINE T == [src : Sources, gsi : Nat, kind : {"edge", "level"}]
<1>1. PICK f \in Firmwares : madt = f.madt
  BY DEF IrqTypeInv
<1>2. madt \in Seq(T) /\ DOMAIN madt = 1 .. Len(madt)
  <2>1. madt \in Seq(T)
    BY <1>1, FirmwareAssumption, Zenon
  <2> HIDE DEF T
  <2> QED BY <2>1
<1>3. ASSUME NEW k \in 1 .. Len(madt) PROVE madt[k].src \in Sources /\ madt[k].gsi \in Nat
  <2>1. madt[k] \in T
    BY <1>2, ElementOfSeq
  <2> QED BY <2>1
<1>4. ASSUME NEW i \in 1 .. Len(madt), NEW j \in 1 .. Len(madt), i # j,
             Accepted(madt[i]), Accepted(madt[j])
      PROVE  madt[i].src # madt[j].src /\ madt[i].gsi # madt[j].gsi
  BY <1>1, <1>2, <1>4, FirmwareAssumption
<1> QED BY <1>2, <1>3, <1>4

LEMMA InitIrqInv == InterruptsInit => IrqInv
<1> SUFFICES ASSUME InterruptsInit PROVE IrqInv
  OBVIOUS
<1>1. PICK f \in Firmwares : madt = f.madt
  BY DEF InterruptsInit, Init
<1>2. Len(madt) \in Nat
  BY <1>1, FirmwareAssumption
<1>3. \A v \in Vectors : io_handlers[v] = None
  BY DEF InterruptsInit, Init
<1>4. IrqTypeInv
  BY <1>1, <1>2 DEF InterruptsInit, Init, IrqTypeInv, Handlers, Steps
<1>5. RoutingInv
  BY <1>3, HandlersDiffer DEF InterruptsInit, Init, RoutingInv
<1>6. BootInv
  BY <1>3, HandlersDiffer DEF InterruptsInit, Init, BootInv
<1>7. DriverInv /\ LiveInv
  BY DEF InterruptsInit, Init, DriverInv, LiveInv
<1> QED BY <1>4, <1>5, <1>6, <1>7 DEF IrqInv

\* init_overrides finds the line it forwards free: another override to it, or
\* another of the source, would be a collision in the MADT.
LEMMA OverrideInv == ASSUME IrqInv, InitOverride PROVE IrqInv'
<1> DEFINE o == madt[seen + 1]
<1>1. /\ pc = "overrides" /\ seen \in Nat /\ seen + 1 \in 1 .. Len(madt) /\ seen' = seen + 1
      /\ UNCHANGED <<pc, madt, kind, irr, running, step, installed, removed>>
  BY MadtFacts DEF IrqInv, IrqTypeInv, InitOverride, firmware, cpu, calling
<1>2. o.src \in Sources /\ o.gsi \in Nat
  BY <1>1, MadtFacts DEF IrqInv
<1>3. ASSUME Accepted(o), NEW k \in 1 .. seen, Accepted(madt[k])
      PROVE  madt[k].src # o.src /\ madt[k].gsi # o.gsi
  BY <1>1, <1>3, MadtFacts DEF IrqInv
<1> HIDE DEF o
<1>4. CASE ~Accepted(o)
  <2>1. UNCHANGED <<overrides, io_handlers, masked>>
    BY <1>2, <1>4, IrqConstants DEF InitOverride, Accepted, o
  <2>2. IrqTypeInv'
    BY <1>1, <2>1 DEF IrqInv, IrqTypeInv
  <2>3. RoutingInv'
    BY <1>1, <1>4, <2>1 DEF IrqInv, RoutingInv, o
  <2> QED BY <1>1, <2>1, <2>2, <2>3 DEF IrqInv, BootInv, DriverInv, LiveInv
<1>5. CASE Accepted(o)
  <2>1. o.gsi \in Sources
    BY <1>2, <1>5, Ranges DEF Accepted
  <2>2. overrides[o.src] = NoLine
    BY <1>2, <1>3, <1>5 DEF IrqInv, RoutingInv
  <2>3. io_handlers[o.gsi] = None
    <3>1. io_handlers[o.gsi] \in Handlers /\ io_handlers[o.gsi] # Driver /\ o.gsi # NoLine
      BY <1>1, <2>1, Ranges DEF IrqInv, IrqTypeInv, BootInv
    <3>2. ASSUME NEW s \in Sources, io_handlers[o.gsi] = Forward(s) PROVE FALSE
      <4>1. overrides[s] = o.gsi
        BY <2>1, <3>2, Ranges DEF IrqInv, RoutingInv
      <4>2. PICK k \in 1 .. seen : Accepted(madt[k]) /\ madt[k].gsi = o.gsi
        BY <3>1, <4>1 DEF IrqInv, RoutingInv
      <4> QED BY <1>3, <1>5, <4>2
    <3> QED BY <3>1, <3>2 DEF Handlers
  <2>4. /\ overrides' = [overrides EXCEPT ![o.src] = o.gsi]
        /\ io_handlers' = [io_handlers EXCEPT ![o.gsi] = Forward(o.src)]
    BY <1>2, <1>5, <2>3, IrqConstants DEF InitOverride, Accepted, CanInstall, o
  <2>5. /\ overrides' \in [Sources -> Sources \cup {NoLine}] /\ io_handlers' \in [Vectors -> Handlers]
        /\ \A s \in Sources : overrides'[s] = IF s = o.src THEN o.gsi ELSE overrides[s]
        /\ \A v \in Vectors : io_handlers'[v] = IF v = o.gsi THEN Forward(o.src) ELSE io_handlers[v]
    BY <1>2, <2>1, <2>4, Ranges DEF IrqInv, IrqTypeInv, Handlers
  <2>6. IrqTypeInv'
    BY <1>1, <2>5 DEF IrqInv, IrqTypeInv
  <2>7. \A k \in 1 .. seen' : Accepted(madt'[k]) => overrides'[madt'[k].src] = madt'[k].gsi
    <3>1. ASSUME NEW k \in 1 .. seen, Accepted(madt[k])
          PROVE  overrides'[madt[k].src] = madt[k].gsi
      BY <1>1, <1>3, <1>5, <2>5, <3>1, MadtFacts DEF IrqInv, RoutingInv
    <3>2. overrides'[madt[seen + 1].src] = madt[seen + 1].gsi
      BY <1>2, <2>5 DEF o
    <3> QED BY <1>1, <3>1, <3>2
  <2>8. ASSUME NEW s \in Sources, overrides'[s] # NoLine
        PROVE  /\ io_handlers'[overrides'[s]] = Forward(s)
               /\ \E k \in 1 .. seen' : /\ Accepted(madt'[k]) /\ madt'[k].src = s
                                        /\ madt'[k].gsi = overrides'[s]
    <3>1. CASE s = o.src
      <4>1. seen + 1 \in 1 .. seen'
        BY <1>1
      <4> QED BY <1>1, <1>5, <2>1, <2>5, <3>1, <4>1, Ranges DEF o
    <3>2. CASE s # o.src
      <4>1. overrides'[s] = overrides[s] /\ overrides[s] \in Vectors
        BY <2>5, <2>8, <3>2, Ranges DEF IrqInv, IrqTypeInv
      <4>2. PICK k \in 1 .. seen : Accepted(madt[k]) /\ madt[k].src = s /\ madt[k].gsi = overrides[s]
        BY <2>8, <4>1 DEF IrqInv, RoutingInv
      <4>3. overrides[s] # o.gsi
        BY <1>3, <1>5, <4>2
      <4>4. io_handlers'[overrides'[s]] = Forward(s)
        BY <2>5, <2>8, <4>1, <4>3 DEF IrqInv, RoutingInv
      <4>5. k \in 1 .. seen'
        BY <1>1
      <4> QED BY <1>1, <4>1, <4>2, <4>4, <4>5
    <3> QED BY <3>1, <3>2
  <2>9. ASSUME NEW v \in Vectors, NEW s \in Sources, io_handlers'[v] = Forward(s)
        PROVE  overrides'[s] = v
    <3>1. CASE v = o.gsi
      BY <1>2, <2>5, <2>9, <3>1, HandlersDiffer
    <3>2. CASE v # o.gsi
      <4>1. overrides[s] = v
        BY <2>5, <2>9, <3>2 DEF IrqInv, RoutingInv
      <4> QED BY <2>2, <2>5, <4>1, Ranges
    <3> QED BY <3>1, <3>2
  <2>10. RoutingInv'
    BY <2>7, <2>8, <2>9 DEF RoutingInv
  <2>11. BootInv'
    BY <1>1, <2>5, HandlersDiffer DEF IrqInv, BootInv
  <2>12. DriverInv' /\ LiveInv'
    BY <1>1 DEF IrqInv, BootInv, DriverInv, LiveInv
  <2> QED BY <2>6, <2>10, <2>11, <2>12 DEF IrqInv
<1> QED BY <1>4, <1>5

LEMMA ApicsInv == ASSUME IrqInv, init_io_apics PROVE IrqInv'
<1>1. /\ pc = "overrides" /\ pc' = "reserve" /\ seen = Len(madt) /\ masked' = Lines
      /\ UNCHANGED <<madt, seen, overrides, io_handlers, irr, running, step, installed, removed>>
      /\ kind' = [g \in Lines |-> KindOf(g)]
  BY DEF init_io_apics, firmware, cpu, calling
<1>2. \A g \in Lines \ Sources : kind'[g] = "level"
  BY <1>1 DEF KindOf
<1>3. \A g \in Sources :
         kind'[g] = IF g = 0 \/ overrides[g] = NoLine THEN "edge"
                    ELSE madt[Max(OverridesOf(madt, g))].kind
  BY <1>1, Ranges DEF KindOf, override_entry
<1>4. IrqTypeInv' /\ RoutingInv' /\ DriverInv' /\ LiveInv'
  BY <1>1 DEF IrqInv, IrqTypeInv, RoutingInv, BootInv, DriverInv, LiveInv
<1>5. BootInv'
  BY <1>1, <1>2, <1>3 DEF IrqInv, BootInv
<1> QED BY <1>4, <1>5 DEF IrqInv

LEMMA ReserveInv == ASSUME IrqInv, ReserveLocal PROVE IrqInv'
<1>1. /\ pc = "reserve" /\ pc' = "keyboard"
      /\ UNCHANGED <<madt, seen, overrides, kind, io_handlers, masked, irr, running, step,
                     installed, removed>>
  BY DEF ReserveLocal, routing, firmware, cpu, calling
<1> QED BY <1>1 DEF IrqInv, IrqTypeInv, RoutingInv, BootInv, DriverInv, LiveInv

\* The line that is unmasked for a driver leads to it.
LEMMA LineOfReaches ==
    ASSUME IrqInv, NEW v \in Lines, NEW h \in [Vectors -> Handlers], h[v] = Driver,
           \A w \in Vectors : w # v => h[w] = io_handlers[w],
           io_handlers[v] \in {None, Driver}
    PROVE  LineOf(overrides, v) \in Lines /\ Reaches(h, LineOf(overrides, v))
<1>1. CASE v \in Sources /\ overrides[v] # NoLine
  <2>1. overrides[v] \in Sources /\ io_handlers[overrides[v]] = Forward(v)
    BY <1>1 DEF IrqInv, IrqTypeInv, RoutingInv
  <2>2. h[overrides[v]] = Forward(v)
    BY <2>1, Ranges, HandlersDiffer
  <2> QED BY <1>1, <2>1, <2>2, Ranges DEF LineOf, Reaches
<1>2. CASE ~ (v \in Sources /\ overrides[v] # NoLine)
  BY <1>2 DEF LineOf, Reaches
<1> QED BY <1>1, <1>2

\* A driver in an empty entry of io_handlers disturbs none of the tables.
LEMMA InstalledTable ==
    ASSUME IrqInv, NEW v \in Lines, io_handlers[v] = None,
           io_handlers' = [io_handlers EXCEPT ![v] = Driver],
           UNCHANGED <<madt, seen, overrides>>
    PROVE  /\ io_handlers' \in [Vectors -> Handlers] /\ io_handlers'[v] = Driver
           /\ \A w \in Vectors : w # v => io_handlers'[w] = io_handlers[w]
           /\ RoutingInv'
           /\ \A g \in Lines : Reaches(io_handlers, g) => Reaches(io_handlers', g)
<1>1. /\ io_handlers' \in [Vectors -> Handlers] /\ io_handlers'[v] = Driver
      /\ \A w \in Vectors : w # v => io_handlers'[w] = io_handlers[w]
  BY Ranges DEF IrqInv, IrqTypeInv, Handlers
<1>2. RoutingInv'
  <2>1. ASSUME NEW s \in Sources, overrides[s] # NoLine
        PROVE  io_handlers'[overrides[s]] = Forward(s)
    BY <1>1, <2>1, Ranges, HandlersDiffer DEF IrqInv, IrqTypeInv, RoutingInv
  <2>2. ASSUME NEW w \in Vectors, NEW s \in Sources, io_handlers'[w] = Forward(s)
        PROVE  overrides[s] = w
    BY <1>1, <2>2, Ranges, HandlersDiffer DEF IrqInv, RoutingInv
  <2> QED BY <2>1, <2>2 DEF IrqInv, RoutingInv
<1>3. ASSUME NEW g \in Lines, Reaches(io_handlers, g) PROVE Reaches(io_handlers', g)
  BY <1>1, <1>3, Ranges, HandlersDiffer DEF Reaches
<1> QED BY <1>1, <1>2, <1>3

LEMMA KeyboardInv == ASSUME IrqInv, InstallKeyboard PROVE IrqInv'
<1>1. /\ pc = "keyboard" /\ pc' = "run" /\ masked = Lines /\ installed = {} /\ irr = {}
      /\ running = NoLine /\ step = [do |-> "nothing"] /\ 1 \in Lines /\ seen = Len(madt)
      /\ UNCHANGED <<madt, seen, overrides, kind, irr, running, step, removed>>
  BY Ranges DEF InstallKeyboard, IrqInv, BootInv, routing, firmware, cpu
<1>2. CASE io_handlers[1] = None
  <2>1. /\ io_handlers' = [io_handlers EXCEPT ![1] = Driver] /\ installed' = {1}
        /\ masked' = masked \ {LineOf(overrides, 1)}
    BY <1>2 DEF InstallKeyboard, CanInstall
  <2>2. /\ io_handlers' \in [Vectors -> Handlers] /\ io_handlers'[1] = Driver /\ RoutingInv'
        /\ \A w \in Vectors : w # 1 => io_handlers'[w] = io_handlers[w]
    BY <1>1, <1>2, <2>1, InstalledTable
  <2>3. LineOf(overrides, 1) \in Lines /\ Reaches(io_handlers', LineOf(overrides, 1))
    BY <1>1, <1>2, <2>2, LineOfReaches
  <2>4. IrqTypeInv'
    BY <1>1, <2>1, <2>2 DEF IrqInv, IrqTypeInv
  <2>5. BootInv'
    BY <1>1 DEF IrqInv, BootInv
  <2>6. DriverInv'
    BY <1>1, <2>1, <2>2 DEF DriverInv, LineOf
  <2>7. LiveInv'
    BY <1>1, <2>1, <2>3 DEF LiveInv
  <2> QED BY <2>2, <2>4, <2>5, <2>6, <2>7 DEF IrqInv
<1>3. CASE io_handlers[1] # None
  <2>1. UNCHANGED <<io_handlers, masked, installed>>
    BY <1>3 DEF InstallKeyboard, CanInstall
  <2> QED BY <1>1, <2>1 DEF IrqInv, IrqTypeInv, RoutingInv, BootInv, DriverInv, LiveInv
<1> QED BY <1>2, <1>3

LEMMA InstallInv ==
    ASSUME IrqInv, NEW v \in Lines, install_io_interrupt_handler(v) PROVE IrqInv'
<1>1. /\ pc = "run" /\ running = NoLine /\ step.do = "nothing"
      /\ UNCHANGED <<pc, madt, seen, overrides, kind, masked, irr, running, installed, removed>>
  BY DEF install_io_interrupt_handler, Calls, routing, firmware, cpu
<1>2. CASE io_handlers[v] = None
  <2>1. io_handlers' = [io_handlers EXCEPT ![v] = Driver] /\ step' = [do |-> "enable", vector |-> v]
    BY <1>2 DEF install_io_interrupt_handler, CanInstall
  <2>2. /\ io_handlers' \in [Vectors -> Handlers] /\ io_handlers'[v] = Driver /\ RoutingInv'
        /\ \A w \in Vectors : w # v => io_handlers'[w] = io_handlers[w]
        /\ \A g \in Lines : Reaches(io_handlers, g) => Reaches(io_handlers', g)
    BY <1>1, <1>2, <2>1, InstalledTable
  <2>3. step' \in Steps /\ step'.do = "enable" /\ step'.vector = v
    BY <2>1 DEF Steps
  <2>4. IrqTypeInv'
    BY <1>1, <2>2, <2>3 DEF IrqInv, IrqTypeInv
  <2>5. BootInv'
    BY <1>1 DEF IrqInv, BootInv
  <2>6. DriverInv'
    <3>1. ASSUME NEW w \in installed
          PROVE  io_handlers'[w] = Driver /\ LineOf(overrides, w) \notin masked
      BY <2>2, Ranges DEF IrqInv, IrqTypeInv, DriverInv
    <3> QED BY <1>1, <2>2, <2>3, <3>1 DEF DriverInv, LineOf
  <2>7. LiveInv'
    BY <1>1, <2>2 DEF IrqInv, IrqTypeInv, LiveInv
  <2> QED BY <2>2, <2>4, <2>5, <2>6, <2>7 DEF IrqInv
<1>3. CASE io_handlers[v] # None
  <2>1. UNCHANGED <<io_handlers, step>>
    BY <1>3 DEF install_io_interrupt_handler, CanInstall
  <2> QED BY <1>1, <2>1 DEF IrqInv, IrqTypeInv, RoutingInv, BootInv, DriverInv, LiveInv
<1> QED BY <1>2, <1>3

LEMMA RemoveInv ==
    ASSUME IrqInv, NEW v \in Lines, remove_io_interrupt_handler(v) PROVE IrqInv'
<1>1. /\ pc = "run" /\ v \in installed /\ v \in removed'
      /\ io_handlers' = [io_handlers EXCEPT ![v] = None] /\ installed' = installed \ {v}
      /\ step' = [do |-> "disable", vector |-> v]
      /\ UNCHANGED <<pc, madt, seen, overrides, kind, masked, irr, running>>
  BY DEF remove_io_interrupt_handler, Calls, routing, firmware, cpu
<1>2. io_handlers[v] = Driver
  BY <1>1 DEF IrqInv, DriverInv
<1>3. /\ io_handlers' \in [Vectors -> Handlers] /\ io_handlers'[v] = None
      /\ \A w \in Vectors : w # v => io_handlers'[w] = io_handlers[w]
  BY <1>1, Ranges DEF IrqInv, IrqTypeInv, Handlers
<1>4. step' \in Steps /\ step'.do = "disable" /\ step'.vector = v
  BY <1>1 DEF Steps
<1>5. IrqTypeInv'
  BY <1>1, <1>3, <1>4 DEF IrqInv, IrqTypeInv
<1>6. RoutingInv'
  <2>1. ASSUME NEW s \in Sources, overrides[s] # NoLine
        PROVE  io_handlers'[overrides[s]] = Forward(s)
    <3>1. io_handlers[overrides[s]] = Forward(s) /\ overrides[s] \in Vectors
      BY <2>1, Ranges DEF IrqInv, IrqTypeInv, RoutingInv
    <3>2. overrides[s] # v
      BY <1>2, <3>1, HandlersDiffer
    <3> QED BY <1>3, <3>1, <3>2
  <2>2. ASSUME NEW w \in Vectors, NEW s \in Sources, io_handlers'[w] = Forward(s)
        PROVE  overrides[s] = w
    BY <1>3, <2>2, Ranges, HandlersDiffer DEF IrqInv, RoutingInv
  <2> QED BY <1>1, <2>1, <2>2 DEF IrqInv, RoutingInv
<1>7. BootInv'
  BY <1>1 DEF IrqInv, BootInv
<1>8. DriverInv'
  <2>1. ASSUME NEW w \in installed'
        PROVE  io_handlers'[w] = Driver /\ LineOf(overrides, w) \notin masked
    BY <1>1, <1>3, Ranges DEF IrqInv, IrqTypeInv, DriverInv
  <2> QED BY <1>1, <1>3, <1>4, <2>1 DEF DriverInv, LineOf
<1>9. LiveInv'
  BY <1>1 DEF LiveInv
<1> QED BY <1>5, <1>6, <1>7, <1>8, <1>9 DEF IrqInv

LEMMA EnableInv == ASSUME IrqInv, enable_io_interrupt PROVE IrqInv'
<1> DEFINE v == step.vector
           g == LineOf(overrides, v)
<1>1. /\ pc = "run" /\ step.do = "enable" /\ masked' = masked \ {g}
      /\ installed' = installed \cup {v} /\ step' = [do |-> "nothing"]
      /\ UNCHANGED <<pc, madt, seen, overrides, kind, io_handlers, irr, running, removed>>
  BY DEF enable_io_interrupt, routing, firmware, cpu
<1>2. v \in Lines /\ io_handlers[v] = Driver
  BY <1>1 DEF IrqInv, IrqTypeInv, Steps, DriverInv
<1>3. g \in Lines /\ Reaches(io_handlers, g)
  BY <1>2, LineOfReaches DEF IrqInv, IrqTypeInv
<1>4. step' \in Steps /\ step'.do = "nothing"
  BY <1>1 DEF Steps
<1> HIDE DEF g, v
<1>5. IrqTypeInv' /\ RoutingInv' /\ BootInv'
  BY <1>1, <1>2, <1>4 DEF IrqInv, IrqTypeInv, RoutingInv, BootInv
<1>6. DriverInv'
  <2>1. ASSUME NEW w \in installed'
        PROVE  io_handlers[w] = Driver /\ LineOf(overrides, w) \notin masked'
    BY <1>1, <1>2 DEF IrqInv, DriverInv, g
  <2> QED BY <1>1, <1>4, <2>1 DEF DriverInv, LineOf
<1>7. LiveInv'
  BY <1>1, <1>3 DEF IrqInv, LiveInv
<1> QED BY <1>5, <1>6, <1>7 DEF IrqInv

\* The line that is masked is no other driver's: an override would have put its
\* forwarding handler where the removed driver was.
LEMMA DisableInv == ASSUME IrqInv, disable_io_interrupt PROVE IrqInv'
<1> DEFINE v == step.vector
<1>1. /\ pc = "run" /\ step.do = "disable" /\ masked' = masked \cup {v} /\ step' = [do |-> "nothing"]
      /\ UNCHANGED <<pc, madt, seen, overrides, kind, io_handlers, irr, running, installed, removed>>
  BY DEF disable_io_interrupt, routing, firmware, cpu
<1>2. v \in Lines /\ io_handlers[v] = None /\ removed # {}
  BY <1>1 DEF IrqInv, IrqTypeInv, Steps, DriverInv
<1>3. step' \in Steps /\ step'.do = "nothing"
  BY <1>1 DEF Steps
<1> HIDE DEF v
<1>4. IrqTypeInv' /\ RoutingInv' /\ BootInv' /\ LiveInv'
  BY <1>1, <1>2, <1>3 DEF IrqInv, IrqTypeInv, RoutingInv, BootInv, LiveInv
<1>5. ASSUME NEW w \in installed PROVE LineOf(overrides, w) # v
  <2>1. io_handlers[w] = Driver
    BY DEF IrqInv, DriverInv
  <2>2. CASE w \in Sources /\ overrides[w] # NoLine
    <3>1. io_handlers[overrides[w]] = Forward(w)
      BY <2>2 DEF IrqInv, RoutingInv
    <3> QED BY <1>2, <2>2, <3>1, HandlersDiffer DEF LineOf
  <2>3. CASE ~ (w \in Sources /\ overrides[w] # NoLine)
    BY <1>2, <2>1, <2>3, HandlersDiffer DEF LineOf
  <2> QED BY <2>2, <2>3
<1>6. DriverInv'
  <2>1. ASSUME NEW w \in installed
        PROVE  io_handlers[w] = Driver /\ LineOf(overrides, w) \notin masked'
    BY <1>1, <1>5 DEF IrqInv, DriverInv
  <2> QED BY <1>1, <1>3, <2>1 DEF DriverInv, LineOf
<1> QED BY <1>4, <1>6 DEF IrqInv

\* A driver is found by one hop at most: Follow does not move from its vector.
LEMMA FollowFinds ==
    ASSUME NEW g \in Vectors, NEW v \in Vectors, io_handlers[v] = Driver,
           g = v \/ io_handlers[g] = Forward(v)
    PROVE  Follow(g) = v
<1> DEFINE I == 0 .. ISA_INTERRUPT_COUNT
           To(w) == IF io_handlers[w].kind = "forward" THEN io_handlers[w].to ELSE w
           Body(h) == [n \in I |-> IF n = 0 THEN g ELSE To(h[n - 1])]
           Hop == CHOOSE h : h = Body(h)
           h0 == [n \in I |-> IF n = 0 THEN g ELSE v]
<1>1. To(v) = v /\ To(g) = v
  BY HandlersDiffer
<1>2. \E h : h = Body(h)
  <2>1. ASSUME NEW n \in I PROVE h0[n] = IF n = 0 THEN g ELSE To(h0[n - 1])
    <3>1. CASE n = 0
      BY <3>1
    <3>2. CASE n # 0
      <4>1. n - 1 \in I
        BY <3>2, IrqConstants
      <4>2. h0[n - 1] \in {g, v}
        BY <4>1
      <4> HIDE DEF To
      <4> QED BY <1>1, <3>2, <4>2
    <3> QED BY <3>1, <3>2
  <2> HIDE DEF To
  <2>2. h0 = Body(h0)
    BY <2>1
  <2> QED BY <2>2
<1>3. Hop = Body(Hop)
  <2> HIDE DEF Body
  <2> QED BY <1>2
<1> HIDE DEF To, Hop
<1>4. \A n \in I : Hop[n] = IF n = 0 THEN g ELSE To(Hop[n - 1])
  BY <1>3
<1>5. \A n \in I : n # 0 => Hop[n] = v
  <2> SUFFICES ASSUME NEW m \in I, m # 0, Hop[m] # v PROVE FALSE
    OBVIOUS
  <2> DEFINE S == {n \in I : n # 0 /\ Hop[n] # v}
  <2>1. S \subseteq Nat /\ m \in S
    OBVIOUS
  <2>2. PICK n \in S : \A t \in S : n <= t
    BY <2>1, LeastExists
  <2>3. n \in I /\ n # 0 /\ Hop[n] # v /\ n - 1 \in I /\ n - 1 \notin S
    BY <2>2, IrqConstants
  <2>4. Hop[n - 1] \in {g, v}
    BY <2>3, <1>4
  <2> QED BY <1>1, <1>4, <2>3, <2>4
<1>6. Hop[ISA_INTERRUPT_COUNT] = v
  BY <1>5, IrqConstants
<1> QED BY <1>6 DEF Follow, Hop, To

LEMMA TakeInv == ASSUME IrqInv, Deliver \/ apic_interrupt_handler PROVE IrqInv'
<1>1. CASE Deliver
  <2>1. /\ pc = "run" /\ irr # {} /\ running' = Max(irr) /\ irr' = irr \ {running'}
        /\ UNCHANGED <<pc, madt, seen, overrides, kind, io_handlers, masked, step, installed, removed>>
    BY <1>1 DEF Deliver, tables, routing, firmware, calling
  <2>2. running' \in irr
    <3>1. irr \in SUBSET (0 .. (MaxEntries - 1)) /\ MaxEntries - 1 \in Nat
      BY IrqConstants DEF IrqInv, IrqTypeInv, Lines
    <3> QED BY <2>1, <3>1, MaxIsMember
  <2>3. running' # NoLine
    BY <2>2, Ranges DEF IrqInv, IrqTypeInv
  <2> QED BY <2>1, <2>2, <2>3 DEF IrqInv, IrqTypeInv, RoutingInv, BootInv, DriverInv, LiveInv, LineOf
<1>2. CASE apic_interrupt_handler
  <2>1. /\ pc = "run" /\ running # NoLine /\ running' = NoLine
        /\ pc' = IF io_handlers[Follow(running)] = Driver THEN "run" ELSE "fault"
        /\ UNCHANGED <<madt, seen, overrides, kind, io_handlers, masked, irr, step, installed, removed>>
    BY <1>2 DEF apic_interrupt_handler, tables, routing, firmware, calling
  <2>2. removed = {} => pc' = "run"
    <3> SUFFICES ASSUME removed = {} PROVE io_handlers[Follow(running)] = Driver
      BY <2>1
    <3>1. running \in Lines /\ Reaches(io_handlers, running)
      BY <2>1 DEF IrqInv, IrqTypeInv, LiveInv
    <3>2. PICK v \in Vectors : /\ io_handlers[v] = Driver
                               /\ running = v \/ io_handlers[running] = Forward(v)
      BY <3>1, Ranges DEF Reaches
    <3>3. Follow(running) = v
      BY <3>1, <3>2, Ranges, FollowFinds
    <3> QED BY <3>2, <3>3
  <2>3. pc' \in {"run", "fault"}
    BY <2>1
  <2>4. IrqTypeInv' /\ RoutingInv' /\ BootInv' /\ DriverInv'
    BY <2>1, <2>3 DEF IrqInv, IrqTypeInv, RoutingInv, BootInv, DriverInv, LineOf
  <2>5. LiveInv'
    BY <2>1, <2>2, <2>3 DEF IrqInv, LiveInv
  <2> QED BY <2>4, <2>5 DEF IrqInv
<1> QED BY <1>1, <1>2

\* The steps that change nothing the invariant is about, or a line that waits.
LEMMA OtherIrqInv ==
    ASSUME IrqInv, UNCHANGED <<pc, madt, seen, overrides, kind, io_handlers, masked, running, step,
                               installed, removed>>,
           UNCHANGED irr \/ \E g \in Lines : Raise(g)
    PROVE  IrqInv'
<1>1. IrqTypeInv' /\ RoutingInv' /\ DriverInv'
  BY DEF IrqInv, IrqTypeInv, RoutingInv, DriverInv, LineOf, Raise
<1>2. BootInv'
  BY DEF IrqInv, BootInv, Raise
<1>3. LiveInv'
  BY DEF IrqInv, LiveInv, Raise
<1> QED BY <1>1, <1>2, <1>3 DEF IrqInv

LEMMA NextIrqInv == IrqInv /\ [Next]_allvars => IrqInv'
<1> SUFFICES ASSUME IrqInv, [Next]_allvars PROVE IrqInv'
  OBVIOUS
<1>1. ASSUME UNCHANGED vars PROVE IrqInv'
  BY <1>1, OtherIrqInv DEF vars, tables, routing, firmware, cpu, calling
<1>2. CASE InitApic
  BY <1>2, OverrideInv, ApicsInv, ReserveInv, KeyboardInv DEF InitApic, Booting
<1>3. CASE KernelCall
  <2>1. ASSUME NEW junk, NEW count, alloc_io_interrupts(junk, count) PROVE IrqInv'
    BY <2>1, OtherIrqInv DEF alloc_io_interrupts, routing, firmware, cpu
  <2>2. ASSUME NEW v, free_io_interrupt(v) PROVE IrqInv'
    BY <2>2, OtherIrqInv DEF free_io_interrupt, routing, firmware, cpu
  <2> QED BY <1>3, <2>1, <2>2, InstallInv, RemoveInv DEF KernelCall
<1>4. CASE EndCall
  BY <1>4, EnableInv, DisableInv DEF EndCall
<1>5. CASE Deliver \/ apic_interrupt_handler
  BY <1>5, TakeInv
<1>6. CASE apic_err_handler
  BY <1>6, OtherIrqInv DEF apic_err_handler, tables, routing, firmware, calling
<1>7. ASSUME NEW g \in Lines, Raise(g) PROVE IrqInv'
  <2>1. UNCHANGED <<pc, madt, seen, overrides, kind, io_handlers, masked, running, step,
                    installed, removed>>
    BY <1>7 DEF Raise, tables, routing, firmware, calling
  <2> QED BY <1>7, <2>1, OtherIrqInv
<1>8. UNCHANGED vars \/ InitApic \/ KernelCall \/ EndCall \/ Deliver \/ apic_interrupt_handler
        \/ apic_err_handler \/ \E g \in Lines : Raise(g)
  BY DEF Next, allvars, UseApic, UsePic, Exception, Pic
<1> QED BY <1>1, <1>2, <1>3, <1>4, <1>5, <1>6, <1>7, <1>8

LEMMA IrqInvariance == Spec => []IrqInv
BY InitIrqInv, NextIrqInv, PTL DEF Spec

(***************************************************************************)
(* For every MADT whose overrides do not collide, every size of the IO     *)
(* APIC and all calls: a driver that was told its handler is installed has *)
(* its line unmasked and leading to it.  The line is of the kind that the  *)
(* MADT gives the source with the line's number, which need not be the     *)
(* driver's source.                                                        *)
(***************************************************************************)
THEOREM DriversAreReached == Spec => []LineReachesItsDriver
<1>1. IrqInv => LineReachesItsDriver
  <2> SUFFICES ASSUME IrqInv, NEW v \in installed, NEW g \in Lines, Wired(v, g)
               PROVE  /\ g \notin masked /\ Follow(g) = v /\ io_handlers[v] = Driver
                      /\ kind[g] = IF g = 0 THEN "edge" ELSE MadtKind(g)
    BY DEF LineReachesItsDriver
  <2> DEFINE here == OverridesOf(madt, v)
  <2>1. /\ v \in Lines /\ io_handlers[v] = Driver /\ LineOf(overrides, v) \notin masked
        /\ pc # "overrides" /\ seen = Len(madt)
    BY DEF IrqInv, IrqTypeInv, DriverInv, BootInv
  <2>2. here = {k \in 1 .. Len(madt) : madt[k].src = v /\ Accepted(madt[k])}
    BY MadtFacts DEF IrqInv, OverridesOf
  <2>3. IF here = {} THEN g = v ELSE \E k \in here : madt[k].gsi = g
    BY DEF Wired
  <2>4. kind[g] = IF g = 0 THEN "edge" ELSE MadtKind(g)
    <3> DEFINE own == OverridesOf(madt, g)
    <3>1. own = {k \in 1 .. Len(madt) : madt[k].src = g /\ Accepted(madt[k])}
      BY MadtFacts DEF IrqInv, OverridesOf
    <3>2. MadtKind(g) = IF own # {} THEN madt[Max(own)].kind
                        ELSE IF g \in Sources THEN "edge" ELSE "level"
      BY DEF MadtKind
    <3>3. g \in Sources => kind[g] = IF g = 0 \/ overrides[g] = NoLine THEN "edge"
                                     ELSE madt[Max(own)].kind
      BY <2>1 DEF IrqInv, BootInv
    <3> HIDE DEF own
    <3>4. CASE g \notin Sources
      <4>1. own = {}
        BY <3>1, <3>4, MadtFacts DEF IrqInv
      <4>2. kind[g] = "level" /\ g # 0
        <5>1. 0 \in Sources
          BY IrqConstants DEF Sources
        <5> QED BY <2>1, <3>4, <5>1 DEF IrqInv, BootInv
      <4> QED BY <3>2, <3>4, <4>1, <4>2
    <3>5. CASE g \in Sources /\ own = {}
      <4>1. overrides[g] = NoLine
        BY <2>1, <3>1, <3>5 DEF IrqInv, RoutingInv
      <4> QED BY <3>2, <3>3, <3>5, <4>1
    <3>6. CASE g \in Sources /\ own # {}
      <4>1. PICK k \in 1 .. Len(madt) : madt[k].src = g /\ Accepted(madt[k])
        BY <3>1, <3>6
      <4>2. overrides[g] = madt[k].gsi /\ madt[k].gsi \in Nat
        BY <2>1, <4>1, MadtFacts DEF IrqInv, RoutingInv
      <4>3. overrides[g] # NoLine
        BY <4>2 DEF NoLine
      <4> QED BY <3>2, <3>3, <3>6, <4>3
    <3> QED BY <3>4, <3>5, <3>6
  <2> HIDE DEF here
  <2>5. CASE here = {}
    <3>1. v \in Sources => overrides[v] = NoLine
      BY <2>1, <2>2, <2>5 DEF IrqInv, RoutingInv
    <3>2. g = v /\ LineOf(overrides, v) = v
      BY <2>3, <2>5, <3>1 DEF LineOf
    <3>3. Follow(g) = v
      BY <2>1, <3>2, Ranges, FollowFinds
    <3> QED BY <2>1, <2>4, <3>2, <3>3
  <2>6. CASE here # {}
    <3>1. PICK k \in 1 .. Len(madt) : madt[k].src = v /\ Accepted(madt[k]) /\ madt[k].gsi = g
      BY <2>2, <2>3, <2>6
    <3>2. v \in Sources /\ overrides[v] = g
      BY <2>1, <3>1, MadtFacts DEF IrqInv, RoutingInv
    <3>3. g # NoLine
      BY Ranges
    <3>4. io_handlers[g] = Forward(v) /\ LineOf(overrides, v) = g
      BY <3>2, <3>3 DEF IrqInv, RoutingInv, LineOf
    <3>5. Follow(g) = v
      BY <2>1, <3>4, Ranges, FollowFinds
    <3> QED BY <2>1, <2>4, <3>4, <3>5
  <2> QED BY <2>5, <2>6
<1> QED BY IrqInvariance, <1>1, PTL

(***************************************************************************)
(* Until a driver is removed, no interrupt is executed without a handler,  *)
(* whatever the MADT, the calls and the order of the interrupts.           *)
(***************************************************************************)
THEOREM FaultOnlyAfterRemove == Spec => []NoHandlerOnlyAfterRemove
<1>1. IrqInv => NoHandlerOnlyAfterRemove
  BY DEF IrqInv, LiveInv, NoHandlerOnlyAfterRemove
<1> QED BY IrqInvariance, <1>1, PTL
=============================================================================
