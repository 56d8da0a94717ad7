----------------------------- MODULE PmmProofs -----------------------------
(***************************************************************************)
(* Proofs about the frame allocator for every block size, bitmap size, set *)
(* of reserved frames and set of counts.                                   *)
(***************************************************************************)
EXTENDS Pmm, FrameBitmapProofs

PmmType == PmmOver(bitmap_size)

LEMMA FramesOfBitmap == Frames = BitmapFrames(bitmap_size)
BY DEF Frames, BitmapFrames
-----------------------------------------------------------------------------
(***************************************************************************)
(* Type correctness.  That an allocation stays inside the bitmap needs     *)
(* frame 0 to be reserved, hence Accounting: the two go together.          *)
(***************************************************************************)
IInv == TypeOK /\ Accounting

LEMMA InitIInv == Init => IInv
<1> SUFFICES ASSUME Init PROVE IInv
  OBVIOUS
<1>1. TypeOK
  BY BaseAssumption DEF Init, TypeOK
<1>2. Accounting
  BY DEF Init, Accounting
<1> QED
  BY <1>1, <1>2 DEF IInv

\* Under the invariant an allocation has one of the two outcomes.
LEMMA AllocOutcomes ==
    ASSUME IInv, NEW count \in Counts
    PROVE  AllocOutcome(bitmap_size, pmm, count, pmm_alloc_unmapped(pmm, bitmap_size, count))
<1>1. pmm \in PmmType /\ count \in Nat /\ 0 \in pmm.bitmap
  BY FramesOfBitmap, BaseAssumption, CountsAssumption DEF IInv, TypeOK, Accounting, PmmType, PmmOver
<1> QED
  BY <1>1, TwoPasses, SizeAssumption DEF PmmType

LEMMA AllocIInv ==
    ASSUME IInv, NEW count \in Counts, pmm_alloc(count)
    PROVE  IInv'
<1> DEFINE r == pmm_alloc_unmapped(pmm, bitmap_size, count)
           b == [addr |-> r.addr, count |-> count]
<1>1. AllocOutcome(bitmap_size, pmm, count, r)
  BY AllocOutcomes
<1>2. /\ pmm' = r.pmm
      /\ live' = IF r.addr # 0 THEN live \cup {b} ELSE live
      /\ failed' = IF r.addr # 0 THEN {} ELSE {count}
  BY DEF pmm_alloc
<1>3. count \in Nat
  BY CountsAssumption
<1> HIDE DEF r
<1>4. CASE r.addr = 0
  BY FramesOfBitmap, <1>1, <1>2, <1>4 DEF IInv, TypeOK, Accounting, AllocOutcome, PmmType, PmmOver
<1>5. CASE r.addr # 0
  <2>1. /\ r.addr \in Nat /\ count # 0
        /\ FrameRange(r.addr, count) \subseteq Frames \ pmm.bitmap
        /\ pmm'.bitmap = pmm.bitmap \cup Footprint(r.addr, count)
        /\ pmm' \in PmmType
    BY FramesOfBitmap, <1>1, <1>2, <1>5 DEF AllocOutcome, PmmType
  <2>2. b.addr = r.addr /\ b.count = count
    OBVIOUS
  <2>3. live' = live \cup {b} /\ failed' = {}
    BY <1>2, <1>5
  <2> HIDE DEF b
  <2>4. Marked(b) \subseteq FrameRange(r.addr, count)
    BY <2>1, <2>2, <1>3, FootprintInRange DEF Marked
  <2>5. r.addr \in Frames
    BY <2>1, <1>3 DEF FrameRange
  <2>6. TypeOK'
    <3>1. b \in Block
      BY <2>5 DEF Block, b
    <3> QED
      BY FramesOfBitmap, <2>1, <2>3, <3>1 DEF IInv, TypeOK, PmmType, PmmOver
  <2>7. Marked(b) \cap pmm.bitmap = {}
    BY <2>1, <2>4
  <2>8. \A c \in live : Marked(c) \subseteq pmm.bitmap
    BY DEF IInv, Accounting
  <2>9. Base \subseteq pmm.bitmap
    BY DEF IInv, Accounting
  <2>10. pmm'.bitmap = Base \cup (UNION {Marked(c) : c \in live'})
    <3>1. pmm'.bitmap = pmm.bitmap \cup Marked(b)
      BY <2>1, <2>2 DEF Marked
    <3>2. pmm.bitmap = Base \cup (UNION {Marked(c) : c \in live})
      BY DEF IInv, Accounting
    <3>3. (UNION {Marked(c) : c \in live'}) = (UNION {Marked(c) : c \in live}) \cup Marked(b)
      BY <2>3
    <3> QED
      BY <3>1, <3>2, <3>3
  <2>11. \A c \in live' : Marked(c) \cap Base = {}
    BY <2>3, <2>7, <2>9 DEF IInv, Accounting
  <2>12. \A c, d \in live' : c # d => Marked(c) \cap Marked(d) = {}
    <3>1. \A c, d \in live : c # d => Marked(c) \cap Marked(d) = {}
      BY DEF IInv, Accounting
    <3>2. \A c \in live : Marked(c) \cap Marked(b) = {}
      BY <2>7, <2>8
    <3> QED
      BY <2>3, <3>1, <3>2
  <2>13. Accounting'
    BY <2>10, <2>11, <2>12 DEF Accounting, Marked
  <2> QED
    BY <2>6, <2>13 DEF IInv
<1> QED
  BY <1>4, <1>5

LEMMA FreeIInv ==
    ASSUME IInv, NEW b \in live, pmm_free(b)
    PROVE  IInv'
<1>1. /\ pmm' = [bitmap       |-> pmm.bitmap \ Marked(b),
                 last_idx     |-> pmm.last_idx,
                 last_idx_bit |-> pmm.last_idx_bit]
      /\ live' = live \ {b} /\ failed' = failed
  BY DEF pmm_free, free_frames, Marked
<1>2. TypeOK'
  BY <1>1 DEF IInv, TypeOK
<1>3. pmm'.bitmap = Base \cup (UNION {Marked(c) : c \in live'})
  <2>1. pmm.bitmap = Base \cup (UNION {Marked(c) : c \in live})
    BY DEF IInv, Accounting
  <2>2. Marked(b) \cap Base = {} /\ \A c \in live' : Marked(c) \cap Marked(b) = {}
    BY <1>1 DEF IInv, Accounting
  <2>3. (UNION {Marked(c) : c \in live}) = (UNION {Marked(c) : c \in live'}) \cup Marked(b)
    BY <1>1
  <2>4. (UNION {Marked(c) : c \in live'}) \cap Marked(b) = {}
    BY <2>2
  <2> QED
    BY <1>1, <2>1, <2>2, <2>3, <2>4
<1>4. Accounting'
  BY <1>1, <1>3 DEF IInv, Accounting, Marked
<1> QED
  BY <1>2, <1>4 DEF IInv

LEMMA NextIInv == IInv /\ [Next]_vars => IInv'
<1> SUFFICES ASSUME IInv, [Next]_vars PROVE IInv'
  OBVIOUS
<1>1. CASE \E count \in Counts : pmm_alloc(count)
  BY <1>1, AllocIInv
<1>2. CASE \E b \in live : pmm_free(b)
  BY <1>2, FreeIInv
<1>3. CASE UNCHANGED vars
  BY <1>3 DEF IInv, TypeOK, Accounting, vars, Marked
<1> QED
  BY <1>1, <1>2, <1>3 DEF Next

\* The inductive invariant holds in every reachable state.
THEOREM Invariance == Spec => []IInv
BY InitIInv, NextIInv, PTL DEF Spec

\* No sequence of calls makes a bit of the bitmap be set outside the array, nor
\* the scan start outside it, for any block size and any bitmap size.
THEOREM TypeCorrect == Spec => []TypeOK
<1>1. IInv => TypeOK
  BY DEF IInv
<1> QED
  BY <1>1, Invariance, PTL

\* Frames are neither leaked nor freed under another block, for every count.
THEOREM AccountingHolds == Spec => []Accounting
<1>1. IInv => Accounting
  BY DEF IInv
<1> QED
  BY <1>1, Invariance, PTL
-----------------------------------------------------------------------------
(***************************************************************************)
(* Callers that ask for counts whose footprint is exact own their frames.  *)
(***************************************************************************)
ExactCounts == \A count \in Counts : ExactCount(count)

\* Under exact counts what a block marks is what its holder believes it owns.
LEMMA MarkedExact ==
    ASSUME ExactCounts, NEW b \in Block
    PROVE  Marked(b) = FrameRange(b.addr, b.count)
<1>1. b.addr \in Frames /\ b.count \in Counts
  BY DEF Block
<1>2. b.addr \in Nat
  BY <1>1 DEF Frames
<1>3. b.count \in Nat /\ ExactCount(b.count)
  BY <1>1, CountsAssumption DEF ExactCounts
<1> QED
  BY <1>2, <1>3, FootprintExact DEF Marked

\* For exact counts no two holders share a frame and no holder owns a frame
\* init_pmm reserved.
THEOREM NoSharing ==
    ASSUME ExactCounts
    PROVE  Spec => []NoSharedFrames
<1>1. IInv => NoSharedFrames
  <2> SUFFICES ASSUME IInv PROVE NoSharedFrames
    OBVIOUS
  <2>1. \A b \in live : Marked(b) = FrameRange(b.addr, b.count)
    BY MarkedExact DEF IInv, TypeOK
  <2> QED
    BY <2>1 DEF IInv, Accounting, NoSharedFrames
<1> QED
  BY <1>1, Invariance, PTL

(***************************************************************************)
(* The retry from block 0 covers the whole bitmap: the failed first pass   *)
(* has put last_idx_bit back to the first frame of a block.                *)
(***************************************************************************)
LEMMA FailureIsComplete ==
    ASSUME NEW p \in PmmType, NEW count \in Nat \ {0}, 0 \in p.bitmap,
           pmm_alloc_unmapped(p, bitmap_size, count).addr = 0
    PROVE  FreeRuns(p.bitmap, bitmap_size, 0, count) = {}
<1> DEFINE once  == pmm_alloc_unmapped_(p, bitmap_size, count)
           again == [bitmap       |-> once.pmm.bitmap,
                     last_idx     |-> 0,
                     last_idx_bit |-> once.pmm.last_idx_bit]
           twice == pmm_alloc_unmapped_(again, bitmap_size, count)
<1>1. AllocOutcome(bitmap_size, p, count, once)
  BY OnePass, SizeAssumption DEF PmmType
<1>2. once.addr = 0 /\ twice.addr = 0
  BY <1>1 DEF pmm_alloc_unmapped
<1>3. once.pmm.bitmap = p.bitmap
  BY FramesOfBitmap, <1>1, <1>2 DEF AllocOutcome, PmmType
<1>4. ASSUME NEW q \in PmmType, 0 \in q.bitmap,
             pmm_alloc_unmapped_(q, bitmap_size, count).addr = 0
      PROVE  /\ FreeRuns(q.bitmap, bitmap_size, ScanFrom(q.last_idx, q.last_idx_bit), count) = {}
             /\ pmm_alloc_unmapped_(q, bitmap_size, count).pmm.last_idx_bit
                  = BITMAP_BLOCK_SIZE - 1
  <2> DEFINE runs == FreeRuns(q.bitmap, bitmap_size,
                              ScanFrom(q.last_idx, q.last_idx_bit), count)
  <2>1. CASE runs = {}
    <3>1. pmm_alloc_unmapped_(q, bitmap_size, count).pmm.last_idx_bit
             = IF q.last_idx < bitmap_size THEN BITMAP_BLOCK_SIZE - 1 ELSE q.last_idx_bit
      BY <2>1 DEF pmm_alloc_unmapped_
    <3>2. q.last_idx < bitmap_size
      BY FramesOfBitmap, SizeAssumption DEF PmmType, PmmOver
    <3> QED
      BY <3>1, <3>2, <2>1
  <2>2. CASE runs # {}
    <3>1. pmm_alloc_unmapped_(q, bitmap_size, count).addr = LeastOf(runs)
      BY <2>2 DEF pmm_alloc_unmapped_
    <3>2. ScanFrom(q.last_idx, q.last_idx_bit) \in Nat
      BY ScanFromNat, SizeAssumption DEF PmmType
    <3>3. bitmap_size * BITMAP_BLOCK_SIZE \in Nat
      BY BlockAssumption, SizeAssumption, Z3
    <3>4. runs \subseteq Nat
      BY <3>2, <3>3 DEF FreeRuns
    <3>5. 0 \in runs
      <4>1. LeastOf(runs) \in runs
        BY <3>4, <2>2, LeastOfIsLeast
      <4> QED
        BY <4>1, <3>1, <1>4
    <3>6. FrameRange(0, count) \cap q.bitmap = {}
      BY <3>5 DEF FreeRuns
    <3> QED
      BY <3>6, <1>4 DEF FrameRange
  <2> QED
    BY <2>1, <2>2
<1>5. once.pmm.last_idx_bit = BITMAP_BLOCK_SIZE - 1
  BY <1>2, <1>4
<1>6. again \in PmmType
  BY FramesOfBitmap, <1>1, SizeAssumption DEF AllocOutcome, PmmType, PmmOver
<1>7. /\ again.bitmap = p.bitmap
      /\ again.last_idx = 0
      /\ again.last_idx_bit = BITMAP_BLOCK_SIZE - 1
  BY <1>3, <1>5
<1> HIDE DEF again, once
<1>8. FreeRuns(p.bitmap, bitmap_size, ScanFrom(0, BITMAP_BLOCK_SIZE - 1), count) = {}
  BY <1>2, <1>4, <1>6, <1>7
<1>9. ScanFrom(0, BITMAP_BLOCK_SIZE - 1) = 0
  BY BlockAssumption DEF ScanFrom
<1> QED
  BY <1>8, <1>9

\* An allocation that succeeds adds a block to the ones held.
LEMMA SuccessAddsBlock ==
    ASSUME IInv, NEW count \in Counts,
           pmm_alloc_unmapped(pmm, bitmap_size, count).addr # 0
    PROVE  [addr |-> pmm_alloc_unmapped(pmm, bitmap_size, count).addr,
            count |-> count] \notin live
<1> DEFINE r == pmm_alloc_unmapped(pmm, bitmap_size, count)
           b == [addr |-> r.addr, count |-> count]
<1>1. AllocOutcome(bitmap_size, pmm, count, r)
  BY AllocOutcomes
<1>2. b.addr = r.addr /\ b.count = count /\ count \in Nat
  BY CountsAssumption
<1> HIDE DEF r, b
<1>3. /\ r.addr \in Nat /\ count # 0
      /\ FrameRange(r.addr, count) \cap pmm.bitmap = {}
  BY FramesOfBitmap, <1>1 DEF AllocOutcome, r, PmmType
<1>4. r.addr \in Marked(b)
  BY <1>2, <1>3, FootprintHasStart DEF Marked
<1>5. r.addr \notin pmm.bitmap
  BY <1>2, <1>3 DEF FrameRange
<1>6. \A c \in live : Marked(c) \subseteq pmm.bitmap
  BY DEF IInv, Accounting
<1>7. b \notin live
  BY <1>4, <1>5, <1>6
<1> QED
  BY <1>7 DEF b, r

\* An allocation answers 0x0 only if no run of count free frames exists.
THEOREM Completeness == Spec => FailsOnlyWhenFull
<1>1. ASSUME IInv, NEW count \in Counts \ {0}, pmm_alloc(count), live' = live
      PROVE  FreeRuns(pmm.bitmap, bitmap_size, 0, count) = {}
  <2> DEFINE r == pmm_alloc_unmapped(pmm, bitmap_size, count)
  <2>1. r.addr = 0
    BY <1>1, SuccessAddsBlock DEF pmm_alloc
  <2>2. pmm \in PmmType /\ count \in Nat \ {0} /\ 0 \in pmm.bitmap
    BY FramesOfBitmap, <1>1, BaseAssumption, CountsAssumption DEF IInv, TypeOK, Accounting, PmmType, PmmOver
  <2> QED
    BY <2>1, <2>2, FailureIsComplete
<1>2. IInv => [\A count \in Counts \ {0} :
                 pmm_alloc(count) /\ live' = live
                 => FreeRuns(pmm.bitmap, bitmap_size, 0, count) = {}]_vars
  BY <1>1
<1> QED
  BY <1>2, Invariance, PTL DEF FailsOnlyWhenFull

(***************************************************************************)
(* Refinement: for exact counts the allocator is the abstract one.         *)
(***************************************************************************)
THEOREM Refinement ==
    ASSUME ExactCounts
    PROVE  Spec => ImplementsFrameAllocator
<1>1. Init => FA!Init
  BY DEF Init, FA!Init
<1>2. ASSUME IInv, NEW count \in Counts, pmm_alloc(count)
      PROVE  [FA!Next]_live
  <2> DEFINE r == pmm_alloc_unmapped(pmm, bitmap_size, count)
             b == [addr |-> r.addr, count |-> count]
  <2>1. AllocOutcome(bitmap_size, pmm, count, r)
    BY <1>2, AllocOutcomes
  <2>2. live' = IF r.addr # 0 THEN live \cup {b} ELSE live
    BY <1>2 DEF pmm_alloc
  <2> HIDE DEF r
  <2>3. CASE r.addr = 0
    BY <2>2, <2>3
  <2>4. CASE r.addr # 0
    <3>1. /\ r.addr \in Nat /\ count # 0 /\ count \in Nat
          /\ FrameRange(r.addr, count) \subseteq Frames \ pmm.bitmap
      BY FramesOfBitmap, <2>1, <2>4, CountsAssumption DEF AllocOutcome, PmmType
    <3>2. b.addr = r.addr /\ b.count = count
      OBVIOUS
    <3>3. r.addr \in Frames
      BY <3>1 DEF FrameRange
    <3>4. b \in FA!Block
      BY <3>3 DEF FA!Block
    <3> HIDE DEF b
    <3>5. FA!FramesOf(b) = FrameRange(r.addr, count)
      BY <3>2 DEF FA!FramesOf, FrameRange
    <3>6. FA!FramesOf(b) # {}
      BY <3>1, <3>5 DEF FrameRange
    <3>7. Base \subseteq pmm.bitmap /\ \A c \in live : Marked(c) \subseteq pmm.bitmap
      BY <1>2 DEF IInv, Accounting
    <3>8. \A c \in live : FA!FramesOf(c) = Marked(c)
      BY <1>2, MarkedExact DEF IInv, TypeOK, FA!FramesOf, FrameRange
    <3>9. FA!FramesOf(b) \subseteq Frames \ Base
      BY <3>1, <3>5, <3>7
    <3>10. \A c \in live : FA!FramesOf(c) \cap FA!FramesOf(b) = {}
      BY <3>1, <3>5, <3>7, <3>8
    <3>11. FA!Alloc(b)
      BY <2>2, <2>4, <3>6, <3>9, <3>10 DEF FA!Alloc
    <3> QED
      BY <3>4, <3>11 DEF FA!Next
  <2> QED
    BY <2>3, <2>4
<1>3. ASSUME IInv, NEW b \in live, pmm_free(b)
      PROVE  [FA!Next]_live
  <2>1. b \in FA!Block
    BY <1>3 DEF IInv, TypeOK, Block, FA!Block
  <2>2. FA!Free(b)
    BY <1>3 DEF pmm_free, FA!Free
  <2> QED
    BY <2>1, <2>2 DEF FA!Next
<1>4. IInv /\ [Next]_vars => [FA!Next]_live
  BY <1>2, <1>3 DEF Next, vars
<1> QED
  BY <1>1, <1>4, Invariance, PTL DEF Spec, ImplementsFrameAllocator, FA!Spec
=============================================================================
