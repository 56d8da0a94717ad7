------------------------- MODULE FrameBitmapProofs -------------------------
(***************************************************************************)
(* Facts about the arithmetic of the frame bitmap for every block size and *)
(* every number of blocks, for the proofs about init_pmm and about the     *)
(* allocator that it leaves.                                               *)
(***************************************************************************)
EXTENDS FrameBitmap, TLAPS, WellFoundedInduction

\* Euclidean division by the block size: a frame is a block and an offset.
LEMMA DivMod ==
    ASSUME NEW n \in Nat
    PROVE  /\ n \div BITMAP_BLOCK_SIZE \in Nat
           /\ n % BITMAP_BLOCK_SIZE \in 0 .. (BITMAP_BLOCK_SIZE - 1)
           /\ n = (n \div BITMAP_BLOCK_SIZE) * BITMAP_BLOCK_SIZE + (n % BITMAP_BLOCK_SIZE)
BY BlockAssumption, Z3

\* Products with the block size keep the order of the factors.
LEMMA MulMono ==
    ASSUME NEW a \in Int, NEW b \in Int, a <= b
    PROVE  /\ a * BITMAP_BLOCK_SIZE \in Int
           /\ b * BITMAP_BLOCK_SIZE \in Int
           /\ a * BITMAP_BLOCK_SIZE <= b * BITMAP_BLOCK_SIZE
BY BlockAssumption, Z3

-----------------------------------------------------------------------------
(***************************************************************************)
(* The footprint of reserve_frames and free_frames.                        *)
(***************************************************************************)

\* Neither function ever touches a frame outside the block it was given.
LEMMA FootprintInRange ==
    ASSUME NEW start \in Nat, NEW pages \in Nat
    PROVE  Footprint(start, pages) \subseteq FrameRange(start, pages)
<1> DEFINE k      == BITMAP_BLOCK_SIZE
           blocks == pages \div k
           rest   == pages % k
           offset == start % k
           sb     == start \div k
           S      == sb * k
           B      == blocks * k
           P      == (sb + 1) * k
           Q      == (sb + blocks) * k
<1>1. k \in Nat /\ k >= 1
  BY BlockAssumption
<1>2. /\ blocks \in Nat /\ rest \in 0 .. (k-1) /\ pages = B + rest
      /\ sb \in Nat /\ offset \in 0 .. (k-1) /\ start = S + offset
  BY DivMod
<1>3. S \in Int /\ B \in Int /\ S >= 0 /\ B >= 0
  BY <1>1, <1>2, MulMono, Z3
<1>4. P = S + k /\ Q = S + B
  BY <1>1, <1>2, Z3
<1>5. blocks # 0 => B >= k
  BY <1>1, <1>2, Z3
<1>6. blocks > 1 => B >= 2 * k
  BY <1>1, <1>2, Z3
<1> HIDE DEF k, blocks, rest, offset, sb, S, B, P, Q
<1>7. Footprint(start, pages) =
        (IF blocks # 0
         THEN start .. (P - 1) \cup P .. (Q - 1)
              \cup (IF blocks > 1 THEN FrameRange(Q, offset) ELSE {})
         ELSE {})
        \cup FrameRange(Q + offset, rest)
  BY Zenon DEF Footprint, k, blocks, rest, offset, sb, P, Q
<1>8. SUFFICES ASSUME NEW f \in Footprint(start, pages)
               PROVE  f \in start .. (start + pages - 1)
  BY DEF FrameRange
<1>9. CASE f \in FrameRange(Q + offset, rest)
  BY <1>9, <1>1, <1>2, <1>3, <1>4 DEF FrameRange
<1>10. CASE blocks # 0 /\ f \in start .. (P - 1)
  BY <1>10, <1>1, <1>2, <1>3, <1>4, <1>5
<1>11. CASE blocks # 0 /\ f \in P .. (Q - 1)
  BY <1>11, <1>1, <1>2, <1>3, <1>4, <1>5
<1>12. CASE blocks > 1 /\ f \in FrameRange(Q, offset)
  BY <1>12, <1>1, <1>2, <1>3, <1>4, <1>6 DEF FrameRange
<1> QED
  BY <1>7, <1>8, <1>9, <1>10, <1>11, <1>12

(***************************************************************************)
(* The bytes that are read and written for frames below n end before byte  *)
(* n/BITMAP_BLOCK_SIZE, or with it, or, when n has a rest, one behind it.  *)
(***************************************************************************)
LEMMA AccessedBelow ==
    ASSUME NEW s \in Nat, NEW p \in Nat, NEW n \in Nat, s + p <= n, NEW b \in Accessed(s, p)
    PROVE  /\ b \in Nat
           /\ b <= n \div BITMAP_BLOCK_SIZE
              \/ (b = n \div BITMAP_BLOCK_SIZE + 1 /\ n % BITMAP_BLOCK_SIZE # 0)
<1> DEFINE B == BITMAP_BLOCK_SIZE
           f == s \div B
           k == p \div B
           q == n \div B
           o == s % B
           r == p % B
           m == n % B
<1>1. B \in Nat \ {0}
  BY BlockAssumption
<1>2. /\ f \in Nat /\ o \in 0 .. (B - 1) /\ s = f * B + o
      /\ k \in Nat /\ r \in 0 .. (B - 1) /\ p = k * B + r
      /\ q \in Nat /\ m \in 0 .. (B - 1) /\ n = q * B + m
  BY DivMod
<1>3. \/ b \in f .. ((f + k) - 1) \/ b = f + k
      \/ b = f + k + 1 /\ r # 0
  <2>1. b \in (f .. ((f + k) - 1)) \cup (IF k > 1 THEN {f + k} ELSE {})
               \cup (IF r # 0 THEN {f + k, f + k + 1} ELSE {})
    BY Zenon DEF Accessed
  <2> HIDE DEF f, k, r
  <2> QED BY <2>1
<1> HIDE DEF f, k, q, o, r, m, B
<1>4. /\ (f + k) * B = f * B + k * B /\ (q + 1) * B = q * B + B
      /\ f * B \in Int /\ k * B \in Int /\ q * B \in Int
      /\ f + k >= q + 1 => (f + k) * B >= (q + 1) * B
      /\ f + k >= q => (f + k) * B >= q * B
  BY <1>1, <1>2, Z3
<1>5. f + k <= q /\ (r # 0 /\ m = 0 => f + k < q)
  BY <1>1, <1>2, <1>4
<1>6. b \in Nat /\ (b <= q \/ (b = q + 1 /\ m # 0))
  BY <1>2, <1>3, <1>5
<1> QED BY <1>6 DEF q, m, B


\* The first frame of a block is always marked.
LEMMA FootprintHasStart ==
    ASSUME NEW start \in Nat, NEW pages \in Nat, pages # 0
    PROVE  start \in Footprint(start, pages)
<1> DEFINE k      == BITMAP_BLOCK_SIZE
           blocks == pages \div k
           rest   == pages % k
           offset == start % k
           sb     == start \div k
<1>1. k \in Nat /\ k >= 1
  BY BlockAssumption
<1>2. /\ blocks \in Nat /\ rest \in 0 .. (k-1) /\ pages = blocks * k + rest
      /\ sb \in Nat /\ offset \in 0 .. (k-1) /\ start = sb * k + offset
  BY DivMod
<1>3. CASE blocks # 0
  <2>1. (sb + 1) * k = sb * k + k /\ sb * k \in Int
    BY <1>1, <1>2, Z3
  <2>2. start \in start .. ((sb + 1) * k - 1)
    BY <1>1, <1>2, <2>1
  <2> QED
    BY <1>3, <2>2 DEF Footprint
<1>4. CASE blocks = 0
  <2>1. rest = pages /\ (sb + blocks) * k + offset = start
    BY <1>1, <1>2, <1>4
  <2>2. start \in FrameRange(start, rest)
    BY <2>1 DEF FrameRange
  <2> QED
    BY <1>4, <2>1, <2>2 DEF Footprint
<1> QED
  BY <1>3, <1>4

(***************************************************************************)
(* For fewer frames than a block has, and for at least two blocks of them, *)
(* the footprint is the whole block handed out.  (For the counts between,  *)
(* it misses the last offset frames: end_block is marked only if           *)
(* blocks > 1.)                                                            *)
(***************************************************************************)
ExactCount(pages) == pages < BITMAP_BLOCK_SIZE \/ pages >= 2 * BITMAP_BLOCK_SIZE

LEMMA FootprintExact ==
    ASSUME NEW start \in Nat, NEW pages \in Nat, ExactCount(pages)
    PROVE  Footprint(start, pages) = FrameRange(start, pages)
<1> DEFINE k      == BITMAP_BLOCK_SIZE
           blocks == pages \div k
           rest   == pages % k
           offset == start % k
           sb     == start \div k
           S      == sb * k
           B      == blocks * k
           P      == (sb + 1) * k
           Q      == (sb + blocks) * k
<1>1. k \in Nat /\ k >= 1
  BY BlockAssumption
<1>2. /\ blocks \in Nat /\ rest \in 0 .. (k-1) /\ pages = B + rest
      /\ sb \in Nat /\ offset \in 0 .. (k-1) /\ start = S + offset
  BY DivMod
<1>3. S \in Int /\ B \in Int /\ S >= 0 /\ B >= 0
  BY <1>1, <1>2, MulMono, Z3
<1>4. P = S + k /\ Q = S + B
  BY <1>1, <1>2, Z3
<1>5. pages < k => B = 0 /\ blocks = 0
  BY <1>1, <1>2, Z3
<1>6. pages >= 2 * k => blocks > 1 /\ blocks # 0
  BY <1>1, <1>2, Z3
<1> HIDE DEF k, blocks, rest, offset, sb, S, B, P, Q
<1>7. Footprint(start, pages) =
        (IF blocks # 0
         THEN start .. (P - 1) \cup P .. (Q - 1)
              \cup (IF blocks > 1 THEN FrameRange(Q, offset) ELSE {})
         ELSE {})
        \cup FrameRange(Q + offset, rest)
  BY Zenon DEF Footprint, k, blocks, rest, offset, sb, P, Q
<1>8. CASE pages < k
  <2>1. Q + offset = start /\ rest = pages /\ blocks = 0
    BY <1>8, <1>1, <1>2, <1>3, <1>4, <1>5
  <2> QED
    BY <2>1, <1>7
<1>9. CASE pages >= 2 * k
  <2>1. SUFFICES ASSUME NEW f \in FrameRange(start, pages)
                 PROVE  f \in Footprint(start, pages)
    BY FootprintInRange
  <2>2. f \in Int /\ start <= f /\ f <= start + pages - 1
    BY <1>2, <1>3 DEF FrameRange
  <2>3. \/ f \in start .. (P - 1)
        \/ f \in P .. (Q - 1)
        \/ f \in FrameRange(Q, offset)
        \/ f \in FrameRange(Q + offset, rest)
    BY <2>2, <1>1, <1>2, <1>3, <1>4 DEF FrameRange
  <2> QED
    BY <2>3, <1>6, <1>7, <1>9
<1> QED
  BY <1>8, <1>9 DEF ExactCount, k
-----------------------------------------------------------------------------
(***************************************************************************)
(* The scan.                                                               *)
(***************************************************************************)

\* A non-empty set of frames has a least element.
LEMMA LeastOfIsLeast ==
    ASSUME NEW S \in SUBSET Nat, S # {}
    PROVE  LeastOf(S) \in S /\ \A t \in S : LeastOf(S) <= t
<1>1. PICK m \in S : \A t \in S : ~ (<<t, m>> \in OpToRel(<, Nat))
  BY WFMin, NatLessThanWellFounded
<1>2. ASSUME NEW t \in S PROVE m <= t
  <2>1. t \in Nat /\ m \in Nat
    OBVIOUS
  <2>2. t < m => <<t, m>> \in OpToRel(<, Nat)
    BY <2>1 DEF OpToRel
  <2>3. ~ (t < m)
    BY <1>1, <2>2, Zenon
  <2> QED
    BY <2>1, <2>3
<1> QED
  BY <1>2 DEF LeastOf

\* The frames of a bitmap of n blocks, and the allocator's variables over it.
BitmapFrames(n) == 0 .. (n * BITMAP_BLOCK_SIZE - 1)
PmmOver(n) == [bitmap       : SUBSET BitmapFrames(n),
               last_idx     : 0 .. (n - 1),
               last_idx_bit : 0 .. (BITMAP_BLOCK_SIZE - 1)]

\* The block and the bit of a frame of the bitmap are indices of the bitmap.
LEMMA HintOfFrame ==
    ASSUME NEW n \in Nat \ {0}, NEW f \in BitmapFrames(n)
    PROVE  /\ BlockOf(f) \in 0 .. (n - 1)
           /\ BitOf(f) \in 0 .. (BITMAP_BLOCK_SIZE - 1)
<1> DEFINE k == BITMAP_BLOCK_SIZE
           q == f \div k
           r == f % k
<1>1. k \in Nat /\ k >= 1 /\ n \in Nat
  BY BlockAssumption
<1>2. n * k \in Nat
  BY <1>1, Z3
<1>3. f \in Nat /\ f < n * k
  BY <1>2 DEF BitmapFrames
<1>4. q \in Nat /\ r \in 0 .. (k - 1) /\ f = q * k + r
  BY <1>3, DivMod
<1>5. q * k < n * k
  BY <1>1, <1>2, <1>3, <1>4, Z3
<1>6. q < n
  BY <1>1, <1>4, <1>5, Z3
<1> QED
  BY <1>1, <1>4, <1>6 DEF BlockOf, BitOf

\* A scan starts at a frame number.
LEMMA ScanFromNat ==
    ASSUME NEW n \in Nat \ {0}, NEW p \in PmmOver(n)
    PROVE  ScanFrom(p.last_idx, p.last_idx_bit) \in Nat
<1>1. p.last_idx \in Nat /\ p.last_idx_bit \in 0 .. (BITMAP_BLOCK_SIZE - 1)
  BY DEF PmmOver
<1>2. p.last_idx * BITMAP_BLOCK_SIZE \in Nat
  BY <1>1, BlockAssumption, Z3
<1> QED
  BY <1>1, <1>2, BlockAssumption DEF ScanFrom

(***************************************************************************)
(* What one pass, and the two together, may do when frame 0 is reserved:   *)
(* answer 0 and leave the bitmap alone, or answer the first of count       *)
(* frames of the bitmap that were free and mark their footprint.           *)
(***************************************************************************)
AllocOutcome(n, p, count, r) ==
    /\ r.pmm \in PmmOver(n)
    /\ \/ r.addr = 0 /\ r.pmm.bitmap = p.bitmap
       \/ /\ r.addr \in Nat \ {0}
          /\ count # 0
          /\ FrameRange(r.addr, count) \subseteq BitmapFrames(n) \ p.bitmap
          /\ r.pmm.bitmap = p.bitmap \cup Footprint(r.addr, count)

LEMMA OnePass ==
    ASSUME NEW n \in Nat \ {0}, NEW p \in PmmOver(n), NEW count \in Nat, 0 \in p.bitmap
    PROVE  AllocOutcome(n, p, count, pmm_alloc_unmapped_(p, n, count))
<1> DEFINE from == ScanFrom(p.last_idx, p.last_idx_bit)
           runs == FreeRuns(p.bitmap, n, from, count)
           addr == LeastOf(runs)
           last == addr + count - 1
           r    == pmm_alloc_unmapped_(p, n, count)
<1>1. from \in Nat
  BY ScanFromNat
<1>2. BITMAP_BLOCK_SIZE \in Nat /\ BITMAP_BLOCK_SIZE >= 1 /\ n \in Nat
  BY BlockAssumption
<1>3. n * BITMAP_BLOCK_SIZE \in Nat
  BY <1>2, Z3
<1> HIDE DEF from
<1>4. CASE count = 0
  BY <1>4 DEF AllocOutcome, pmm_alloc_unmapped_
<1>5. CASE count # 0 /\ runs = {}
  <2>1. r = [addr |-> 0,
             pmm  |-> [bitmap       |-> p.bitmap,
                       last_idx     |-> p.last_idx,
                       last_idx_bit |-> IF p.last_idx < n
                                        THEN BITMAP_BLOCK_SIZE - 1
                                        ELSE p.last_idx_bit]]
    BY <1>5 DEF pmm_alloc_unmapped_, from
  <2>2. r.pmm \in PmmOver(n)
    BY <2>1, <1>2 DEF PmmOver
  <2> QED
    BY <2>1, <2>2 DEF AllocOutcome
<1>6. CASE count # 0 /\ runs # {}
  <2>1. runs \subseteq Nat
    BY <1>1, <1>3 DEF FreeRuns
  <2>2. addr \in runs
    BY <2>1, <1>6, LeastOfIsLeast
  <2> HIDE DEF addr
  <2>3. /\ addr \in Nat /\ addr + count <= n * BITMAP_BLOCK_SIZE
        /\ FrameRange(addr, count) \cap p.bitmap = {}
    BY <2>1, <2>2, <1>1, <1>3 DEF FreeRuns
  <2>4. r = [addr |-> addr,
             pmm  |-> [bitmap       |-> p.bitmap \cup Footprint(addr, count),
                       last_idx     |-> BlockOf(last),
                       last_idx_bit |-> BitOf(last)]]
    BY <1>6 DEF pmm_alloc_unmapped_, from, reserve_frames, addr
  <2> HIDE DEF r, runs
  <2>5. FrameRange(addr, count) \subseteq BitmapFrames(n) \ p.bitmap
    BY <2>3, <1>3 DEF FrameRange, BitmapFrames
  <2>6. addr # 0
    BY <2>3, <1>6 DEF FrameRange
  <2>7. last \in BitmapFrames(n)
    BY <2>3, <1>3, <1>6 DEF BitmapFrames
  <2>8. Footprint(addr, count) \subseteq BitmapFrames(n)
    BY <2>3, <2>5, FootprintInRange
  <2>9. p.bitmap \subseteq BitmapFrames(n)
    BY DEF PmmOver
  <2>10. r.pmm \in PmmOver(n)
    BY <2>4, <2>7, <2>8, <2>9, HintOfFrame DEF PmmOver
  <2>11. AllocOutcome(n, p, count, r)
    BY <2>3, <2>4, <2>5, <2>6, <2>10, <1>6 DEF AllocOutcome
  <2> QED
    BY <2>11 DEF r
<1> QED
  BY <1>4, <1>5, <1>6

LEMMA TwoPasses ==
    ASSUME NEW n \in Nat \ {0}, NEW p \in PmmOver(n), NEW count \in Nat, 0 \in p.bitmap
    PROVE  AllocOutcome(n, p, count, pmm_alloc_unmapped(p, n, count))
<1> DEFINE once  == pmm_alloc_unmapped_(p, n, count)
           again == [bitmap       |-> once.pmm.bitmap,
                     last_idx     |-> 0,
                     last_idx_bit |-> once.pmm.last_idx_bit]
<1>1. AllocOutcome(n, p, count, once)
  BY OnePass
<1> HIDE DEF once
<1>2. CASE once.addr # 0
  BY <1>1, <1>2 DEF pmm_alloc_unmapped, once
<1>3. CASE once.addr = 0
  <2>1. once.pmm.bitmap = p.bitmap /\ again \in PmmOver(n)
    BY <1>1, <1>3 DEF AllocOutcome, PmmOver
  <2>2. again.bitmap = p.bitmap
    BY <2>1
  <2> HIDE DEF again
  <2>3. AllocOutcome(n, again, count, pmm_alloc_unmapped_(again, n, count))
    BY <2>1, <2>2, OnePass
  <2>4. AllocOutcome(n, p, count, pmm_alloc_unmapped_(again, n, count))
    BY <2>2, <2>3 DEF AllocOutcome
  <2> QED
    BY <2>4, <1>3 DEF pmm_alloc_unmapped, again, once
<1> QED
  BY <1>2, <1>3

\* A scan starts inside the bitmap.
LEMMA ScanFromInside ==
    ASSUME NEW n \in Nat \ {0}, NEW li \in 0 .. (n - 1), NEW bit \in 0 .. (BITMAP_BLOCK_SIZE - 1)
    PROVE  ScanFrom(li, bit) \in BitmapFrames(n)
<1> DEFINE k == BITMAP_BLOCK_SIZE
           a == li * k
           b == (n - 1) * k
<1>1. k \in Nat /\ k >= 1
  BY BlockAssumption
<1>2. a \in Int /\ b \in Int /\ a <= b
  BY MulMono
<1>3. a >= 0 /\ n * k = b + k
  BY <1>1, Z3
<1> DEFINE c == n * k
<1> HIDE DEF c
<1> HIDE DEF a, b
<1>4. ScanFrom(li, bit) = a + (k - 1 - bit)
  BY DEF ScanFrom, a
<1>5. a + (k - 1 - bit) \in 0 .. (b + k - 1)
  BY <1>1, <1>2, <1>3
<1>6. BitmapFrames(n) = 0 .. (c - 1) /\ c = b + k
  BY <1>3, Zenon DEF BitmapFrames, c
<1> QED BY <1>1, <1>2, <1>4, <1>5, <1>6

\* A single frame, and frames from the first one on, are marked exactly.
LEMMA FootprintOfOne ==
    ASSUME NEW f \in Nat
    PROVE  Footprint(f, 1) = {f}
BY FootprintInRange, FootprintHasStart DEF FrameRange

LEMMA FootprintFromZero ==
    ASSUME NEW pages \in Nat
    PROVE  0 .. (pages - 1) \subseteq Footprint(0, pages)
<1> DEFINE k      == BITMAP_BLOCK_SIZE
           blocks == pages \div k
           rest   == pages % k
           Q      == (0 + blocks) * k
<1>1. k \in Nat /\ k >= 1 /\ 0 \div k = 0 /\ 0 % k = 0 /\ (0 + 1) * k = k
  BY BlockAssumption, Z3
<1>2. blocks \in Nat /\ rest \in 0 .. (k - 1) /\ pages = Q + rest /\ Q \in Nat
  BY DivMod, <1>1, Z3
<1>3. blocks = 0 => Q = 0
  BY <1>1, Z3
<1>4. Footprint(0, pages) =
        (IF blocks # 0
         THEN 0 .. (k - 1) \cup k .. (Q - 1)
              \cup (IF blocks > 1 THEN FrameRange(Q, 0) ELSE {})
         ELSE {})
        \cup FrameRange(Q + 0, rest)
  BY <1>1 DEF Footprint
<1> HIDE DEF k, blocks, rest, Q
<1>5. ASSUME NEW f \in 0 .. (pages - 1) PROVE f \in Footprint(0, pages)
  <2>1. f \in 0 .. (k - 1) \/ f \in k .. (Q - 1) \/ f \in FrameRange(Q + 0, rest)
    BY <1>1, <1>2 DEF FrameRange
  <2>2. blocks = 0 => f \in FrameRange(Q + 0, rest)
    BY <1>2, <1>3 DEF FrameRange
  <2> QED BY <1>4, <2>1, <2>2
<1> QED BY <1>5
=============================================================================
