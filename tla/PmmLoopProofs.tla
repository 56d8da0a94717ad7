--------------------------- MODULE PmmLoopProofs ---------------------------
(***************************************************************************)
(* Proofs about the allocator at the level of bytes, masks and loops, for  *)
(* every block size, bitmap size, set of reserved frames and set of        *)
(* counts: the loops of phys.c implement the calls of Pmm.                 *)
(***************************************************************************)
EXTENDS PmmLoop, FrameBitmapProofs

-----------------------------------------------------------------------------
(***************************************************************************)
(* Blocks and bits of a byte against frame numbers.                        *)
(***************************************************************************)

\* Frames are ordered as their blocks are, and then as their offsets are.
LEMMA BlockOrder ==
    ASSUME NEW b \in Int, NEW c \in Int
    PROVE  LET k == BITMAP_BLOCK_SIZE
           IN  /\ b * k \in Int /\ c * k \in Int
               /\ b < c => b * k + k <= c * k
               /\ b + 1 < c => b * k + k + k <= c * k
<1> DEFINE k == BITMAP_BLOCK_SIZE
<1>1. k \in Nat /\ k >= 1
  BY BlockAssumption
<1>2. b * k \in Int /\ c * k \in Int
  BY <1>1, Z3
<1>3. ASSUME b < c PROVE b * k + k <= c * k
  <2>1. (b + 1) * k <= c * k
    BY <1>3, MulMono
  <2>2. (b + 1) * k = b * k + k
    BY <1>1, Z3
  <2> QED BY <2>1, <2>2
<1>4. ASSUME b + 1 < c PROVE b * k + k + k <= c * k
  <2>1. (b + 2) * k <= c * k
    BY <1>4, MulMono
  <2>2. (b + 2) * k = b * k + k + k
    BY <1>1, Z3
  <2> QED BY <2>1, <2>2
<1> QED BY <1>2, <1>3, <1>4

\* A frame given by its block and its bit has that block and that bit.
LEMMA FrameAt ==
    ASSUME NEW b \in Nat, NEW n \in Ones
    PROVE  /\ ScanFrom(b, n) \in Nat
           /\ BlockOf(ScanFrom(b, n)) = b
           /\ BitOf(ScanFrom(b, n)) = n
<1> DEFINE k == BITMAP_BLOCK_SIZE
           f == ScanFrom(b, n)
           q == f \div k
           r == f % k
           B == b * k
           Q == q * k
<1>1. k \in Nat /\ k >= 1 /\ n \in 0 .. (k - 1)
  BY BlockAssumption DEF Ones
<1>2. f = B + (k - 1 - n)
  BY DEF ScanFrom
<1>3. B \in Nat
  BY <1>1, Z3
<1>4. f \in Nat
  BY <1>1, <1>2, <1>3
<1>5. q \in Nat /\ r \in 0 .. (k - 1) /\ f = Q + r
  BY <1>4, DivMod
<1>6. Q \in Int /\ (b < q => B + k <= Q) /\ (q < b => Q + k <= B)
  BY <1>5, BlockOrder
<1>7. BlockOf(f) = q /\ BitOf(f) = k - 1 - r
  BY DEF BlockOf, BitOf
<1> HIDE DEF k, f, q, r, B, Q
<1>8. b = q
  BY <1>1, <1>2, <1>3, <1>5, <1>6
<1>9. B = Q
  BY <1>8 DEF B, Q
<1>10. r = k - 1 - n
  BY <1>1, <1>2, <1>3, <1>5, <1>9
<1>11. BitOf(f) = n
  BY <1>1, <1>7, <1>10
<1> QED BY <1>4, <1>7, <1>8, <1>11 DEF f

\* A frame is the one at its block and its bit.
LEMMA FrameIsAt ==
    ASSUME NEW f \in Nat
    PROVE  /\ BlockOf(f) \in Nat /\ BitOf(f) \in Ones
           /\ ScanFrom(BlockOf(f), BitOf(f)) = f
<1> DEFINE k == BITMAP_BLOCK_SIZE
           q == f \div k
           r == f % k
           Q == q * k
<1>1. k \in Nat /\ k >= 1
  BY BlockAssumption
<1>2. q \in Nat /\ r \in 0 .. (k - 1) /\ f = Q + r
  BY DivMod
<1>3. Q \in Int
  BY <1>1, <1>2, Z3
<1>4. BlockOf(f) = q /\ BitOf(f) = k - 1 - r /\ Ones = 0 .. (k - 1)
  BY DEF BlockOf, BitOf, Ones
<1>5. ScanFrom(q, k - 1 - r) = Q + (k - 1 - (k - 1 - r))
  BY DEF ScanFrom
<1> HIDE DEF k, q, r, Q
<1> QED BY <1>1, <1>2, <1>3, <1>4, <1>5

(***************************************************************************)
(* The masks: the five shifted bytes that reserve_frames ors into the      *)
(* bitmap hold the bits of exactly the frames of the footprint.            *)
(***************************************************************************)
LEMMA Shifts ==
    ASSUME NEW n \in Ones, NEW s \in Ones, NEW r \in Ones
    PROVE  LET k    == BITMAP_BLOCK_SIZE
               bits == Shl(Shr(Ones, k - r), k - r)
           IN  /\ n \in Shr(Ones, s) <=> n + s <= k - 1
               /\ n \in Shl(Ones, k - s) <=> n >= k - s
               /\ n \in Shr(bits, s) <=> n + s \in (k - r) .. (k - 1)
               /\ n \in Shl(bits, k - s) <=> n - (k - s) >= k - r
<1> DEFINE k    == BITMAP_BLOCK_SIZE
           bits == Shl(Shr(Ones, k - r), k - r)
<1>1. k \in Nat /\ k >= 1 /\ Ones = 0 .. (k - 1)
  BY BlockAssumption DEF Ones
<1>2. bits = {m \in Ones : m >= k - r}
  BY <1>1 DEF Shl, Shr
<1> HIDE DEF bits
<1>3. n \in Shr(Ones, s) <=> n + s <= k - 1
  BY <1>1 DEF Shr
<1>4. n \in Shl(Ones, k - s) <=> n >= k - s
  BY <1>1 DEF Shl
<1>5. n \in Shr(bits, s) <=> n + s \in (k - r) .. (k - 1)
  BY <1>1, <1>2 DEF Shr
<1>6. n \in Shl(bits, k - s) <=> n - (k - s) >= k - r
  BY <1>1, <1>2 DEF Shl
<1> QED BY <1>3, <1>4, <1>5, <1>6 DEF bits

LEMMA MaskIsFootprint ==
    ASSUME NEW start \in Nat, NEW pages \in Nat, NEW b \in Nat, NEW n \in Ones
    PROVE  n \in Mask(b, start, pages) <=> ScanFrom(b, n) \in Footprint(start, pages)
<1> DEFINE k      == BITMAP_BLOCK_SIZE
           blocks == pages \div k
           rest   == pages % k
           offset == start % k
           sb     == start \div k
           eb     == sb + blocks
           bits   == Shl(Shr(Ones, k - rest), k - rest)
           f      == ScanFrom(b, n)
           S      == sb * k
           T      == (sb + 1) * k
           E      == eb * k
           B      == b * k
           m      == k - 1 - n
<1>1. k \in Nat /\ k >= 1 /\ n \in 0 .. (k - 1) /\ Ones = 0 .. (k - 1)
  BY BlockAssumption DEF Ones
<1>2. /\ blocks \in Nat /\ rest \in 0 .. (k - 1)
      /\ sb \in Nat /\ offset \in 0 .. (k - 1) /\ start = S + offset
  BY DivMod
<1>3. /\ S \in Int /\ T \in Int /\ E \in Int /\ B \in Int /\ T = S + k
  BY <1>1, <1>2, Z3
<1>4. /\ b < sb => B + k <= S
      /\ sb < b => S + k <= B
      /\ b = sb => B = S
  BY <1>2, BlockOrder
<1>5. /\ b < sb + 1 => B + k <= T
      /\ sb + 1 < b => T + k <= B
      /\ b = sb + 1 => B = T
  BY <1>2, BlockOrder
<1>6. /\ b < eb => B + k <= E
      /\ eb < b => E + k <= B
      /\ eb + 1 < b => E + k + k <= B
      /\ b = eb => B = E
      /\ b = eb + 1 => B = E + k
  <2>1. eb \in Int
    BY <1>2
  <2>2. (eb + 1) * k = E + k
    BY <1>1, <2>1, Z3
  <2> QED BY <2>1, <2>2, BlockOrder
<1>7. f = B + m /\ m \in 0 .. (k - 1)
  BY <1>1 DEF ScanFrom
<1>8. /\ n \in Shr(Ones, offset) <=> m >= offset
      /\ n \in Shl(Ones, k - offset) <=> m < offset
      /\ n \in Shr(bits, offset) <=> m \in offset .. (offset + rest - 1)
      /\ n \in Shl(bits, k - offset) <=> m + k < offset + rest
  <2>1. offset \in Ones /\ rest \in Ones
    BY <1>1, <1>2
  <2>2. /\ n \in Shr(Ones, offset) <=> n + offset <= k - 1
        /\ n \in Shl(Ones, k - offset) <=> n >= k - offset
        /\ n \in Shr(bits, offset) <=> n + offset \in (k - rest) .. (k - 1)
        /\ n \in Shl(bits, k - offset) <=> n - (k - offset) >= k - rest
    BY <2>1, Shifts
  <2> HIDE DEF k, rest, offset, bits
  <2> QED BY <1>1, <1>2, <2>2
<1>9. n \in Mask(b, start, pages) <=>
        \/ blocks # 0 /\ b = sb /\ n \in Shr(Ones, offset)
        \/ blocks # 0 /\ b \in (sb + 1) .. (eb - 1)
        \/ blocks > 1 /\ b = eb /\ n \in Shl(Ones, k - offset)
        \/ rest # 0 /\ b = eb /\ n \in Shr(bits, offset)
        \/ rest # 0 /\ b = eb + 1 /\ n \in Shl(bits, k - offset)
  BY DEF Mask
<1>10. f \in Footprint(start, pages) <=>
        \/ blocks # 0 /\ f \in start .. (T - 1)
        \/ blocks # 0 /\ f \in T .. (E - 1)
        \/ blocks > 1 /\ f \in E .. (E + offset - 1)
        \/ f \in (E + offset) .. (E + offset + rest - 1)
  BY DEF Footprint, FrameRange
<1> HIDE DEF k, blocks, rest, offset, sb, eb, bits, f, S, T, E, B, m
<1>11. b = sb /\ m >= offset <=> f \in start .. (T - 1)
  BY <1>1, <1>2, <1>3, <1>4, <1>7
<1>12. b \in (sb + 1) .. (eb - 1) <=> f \in T .. (E - 1)
  <2>1. eb \in Int
    BY <1>2 DEF eb
  <2> QED BY <1>1, <1>2, <1>3, <1>5, <1>6, <1>7, <2>1
<1>13. b = eb /\ m < offset <=> f \in E .. (E + offset - 1)
  <2>1. eb \in Int
    BY <1>2 DEF eb
  <2> QED BY <1>1, <1>2, <1>3, <1>6, <1>7, <2>1
<1>14. (\/ rest # 0 /\ b = eb /\ m \in offset .. (offset + rest - 1)
        \/ rest # 0 /\ b = eb + 1 /\ m + k < offset + rest)
       <=> f \in (E + offset) .. (E + offset + rest - 1)
  <2>1. eb \in Int
    BY <1>2 DEF eb
  <2> QED BY <1>1, <1>2, <1>3, <1>6, <1>7, <2>1
<1> QED BY <1>8, <1>9, <1>10, <1>11, <1>12, <1>13, <1>14 DEF f

\* The blocks of the frames of the bitmap are the bytes of the bitmap.
LEMMA FramesAndBytes ==
    /\ bitmap_size * BITMAP_BLOCK_SIZE \in Nat
    /\ Frames \subseteq Nat
    /\ \A f \in Frames : BlockOf(f) \in Blocks /\ BitOf(f) \in Ones
    /\ \A b \in Blocks, n \in Ones : ScanFrom(b, n) \in Frames
<1>1. bitmap_size \in Nat \ {0} /\ bitmap_size * BITMAP_BLOCK_SIZE \in Nat
  BY SizeAssumption, BlockAssumption, Z3
<1>2. Frames = BitmapFrames(bitmap_size) /\ Blocks = 0 .. (bitmap_size - 1)
      /\ Ones = 0 .. (BITMAP_BLOCK_SIZE - 1)
  BY DEF Frames, BitmapFrames, Blocks, Ones
<1>3. Frames \subseteq Nat
  BY <1>1 DEF Frames
<1>4. ASSUME NEW f \in Frames PROVE BlockOf(f) \in Blocks /\ BitOf(f) \in Ones
  BY <1>1, <1>2, HintOfFrame
<1>5. ASSUME NEW b \in Blocks, NEW n \in Ones PROVE ScanFrom(b, n) \in Frames
  BY <1>1, <1>2, ScanFromInside
<1> QED BY <1>1, <1>3, <1>4, <1>5

\* The bits that are set in a bitmap of bytes; BitsSet is this of the bitmap.
BitsOf(bytes) == {f \in Frames : BitOf(f) \in bytes[BlockOf(f)]}

LEMMA BitsSetIs == BitsSet = BitsOf(bitmap) /\ BitsSet' = BitsOf(bitmap')
BY DEF BitsSet, BitsOf

\* A bit of a byte is the bit of its frame.
LEMMA BitOfByte ==
    ASSUME NEW bytes, NEW b \in Blocks, NEW n \in Ones
    PROVE  n \in bytes[b] <=> ScanFrom(b, n) \in BitsOf(bytes)
<1>1. b \in Nat
  BY SizeAssumption DEF Blocks
<1>2. ScanFrom(b, n) \in Frames
  BY FramesAndBytes
<1> QED BY <1>1, <1>2, FrameAt DEF BitsOf

\* What reserve_frames and free_frames do to the bytes is what they do to the set.
LEMMA BytesAndFrames ==
    ASSUME NEW bytes \in [Blocks -> SUBSET Ones], NEW start \in Nat, NEW pages \in Nat
    PROVE  LET reserved == [b \in Blocks |-> bytes[b] \cup Mask(b, start, pages)]
               freed    == [b \in Blocks |-> bytes[b] \ Mask(b, start, pages)]
           IN  /\ reserved \in [Blocks -> SUBSET Ones] /\ freed \in [Blocks -> SUBSET Ones]
               /\ BitsOf(reserved) = BitsOf(bytes) \cup (Footprint(start, pages) \cap Frames)
               /\ BitsOf(freed) = BitsOf(bytes) \ Footprint(start, pages)
<1> DEFINE reserved == [b \in Blocks |-> bytes[b] \cup Mask(b, start, pages)]
           freed    == [b \in Blocks |-> bytes[b] \ Mask(b, start, pages)]
<1>1. ASSUME NEW b PROVE Mask(b, start, pages) \subseteq Ones
  BY DEF Mask, Shl, Shr
<1>2. reserved \in [Blocks -> SUBSET Ones] /\ freed \in [Blocks -> SUBSET Ones]
  BY <1>1
<1>3. ASSUME NEW f \in Frames
      PROVE  /\ BlockOf(f) \in Blocks
             /\ BitOf(f) \in Mask(BlockOf(f), start, pages) <=> f \in Footprint(start, pages)
  <2>1. f \in Nat /\ BlockOf(f) \in Blocks
    BY FramesAndBytes
  <2>2. BlockOf(f) \in Nat /\ BitOf(f) \in Ones /\ ScanFrom(BlockOf(f), BitOf(f)) = f
    BY <2>1, FrameIsAt
  <2> QED BY <2>1, <2>2, MaskIsFootprint
<1>4. BitsOf(reserved) = BitsOf(bytes) \cup (Footprint(start, pages) \cap Frames)
  BY <1>3 DEF BitsOf
<1>5. BitsOf(freed) = BitsOf(bytes) \ Footprint(start, pages)
  BY <1>3 DEF BitsOf
<1> QED BY <1>2, <1>4, <1>5

-----------------------------------------------------------------------------
(***************************************************************************)
(* The scan.  At the frame pos, begun at from: the last run frames are     *)
(* free, and no run of c frames begins before them.                        *)
(***************************************************************************)
Searched(bits, from, pos, run, c) ==
    /\ from + run <= pos
    /\ FrameRange(pos - run, run) \cap bits = {}
    /\ \A s \in from .. (pos - run - 1) : FrameRange(s, c) \cap bits # {}

Searching(bits, from, pos, run, c) ==
    /\ from \in Nat /\ pos \in Nat /\ c \in Nat \ {0} /\ run \in 0 .. (c - 1)
    /\ Searched(bits, from, pos, run, c)

\* A call begins having searched nothing.
LEMMA SearchBegins ==
    ASSUME NEW bits, NEW from \in Nat, NEW c \in Nat \ {0}
    PROVE  Searching(bits, from, from, 0, c)
BY DEF Searching, Searched, FrameRange

\* A free frame makes the run longer.
LEMMA SearchFree ==
    ASSUME NEW bits, NEW from, NEW pos, NEW run, NEW c, Searching(bits, from, pos, run, c),
           pos \notin bits, run + 1 < c
    PROVE  Searching(bits, from, pos + 1, run + 1, c)
<1>1. /\ from \in Nat /\ pos \in Nat /\ c \in Nat /\ run \in Nat /\ from + run <= pos
  BY DEF Searching, Searched
<1>2. FrameRange(pos + 1 - (run + 1), run + 1) = FrameRange(pos - run, run) \cup {pos}
  BY <1>1 DEF FrameRange
<1>3. pos + 1 - (run + 1) - 1 = pos - run - 1
  BY <1>1
<1> QED BY <1>1, <1>2, <1>3 DEF Searching, Searched

\* Frames in use, one or the rest of a full block, end every run that reaches them.
LEMMA SearchUsed ==
    ASSUME NEW bits, NEW from, NEW pos, NEW run, NEW c, Searching(bits, from, pos, run, c),
           NEW next \in Nat, pos < next, pos .. (next - 1) \subseteq bits
    PROVE  Searching(bits, from, next, 0, c)
<1>1. /\ from \in Nat /\ pos \in Nat /\ c \in Nat \ {0} /\ run \in 0 .. (c - 1) /\ from + run <= pos
      /\ \A s \in from .. (pos - run - 1) : FrameRange(s, c) \cap bits # {}
  BY DEF Searching, Searched
<1>2. ASSUME NEW s \in from .. (next - 0 - 1) PROVE FrameRange(s, c) \cap bits # {}
  <2>1. CASE s < pos - run
    BY <1>1, <1>2, <2>1
  <2>2. CASE s >= pos - run /\ s <= pos
    <3>1. pos \in FrameRange(s, c)
      BY <1>1, <1>2, <2>2 DEF FrameRange
    <3>2. pos \in bits
      BY <1>1
    <3> QED BY <3>1, <3>2
  <2>3. CASE s > pos
    <3>1. s \in FrameRange(s, c) /\ s \in bits
      BY <1>1, <1>2, <2>3 DEF FrameRange
    <3> QED BY <3>1
  <2> QED BY <1>1, <1>2, <2>1, <2>2, <2>3
<1>3. FrameRange(next - 0, 0) = {}
  BY DEF FrameRange
<1> QED BY <1>1, <1>2, <1>3 DEF Searching, Searched

\* Where the run is long enough, it is the first of its length from the hint on.
LEMMA SearchFinds ==
    ASSUME NEW n \in Nat \ {0}, NEW bits, NEW from, NEW pos, NEW run, NEW c,
           Searching(bits, from, pos, run, c),
           pos \notin bits, run + 1 >= c, pos \in BitmapFrames(n)
    PROVE  /\ run + 1 = c
           /\ FrameRange(pos - run, c) \cap bits = {}
           /\ FreeRuns(bits, n, from, c) # {}
           /\ LeastOf(FreeRuns(bits, n, from, c)) = pos - run
<1> DEFINE N    == n * BITMAP_BLOCK_SIZE
           runs == FreeRuns(bits, n, from, c)
<1>1. N \in Nat
  BY BlockAssumption, Z3
<1>2. /\ from \in Nat /\ pos \in Nat /\ c \in Nat /\ run \in Nat /\ from + run <= pos /\ run + 1 = c
      /\ FrameRange(pos - run, run) \cap bits = {}
      /\ \A s \in from .. (pos - run - 1) : FrameRange(s, c) \cap bits # {}
  BY DEF Searching, Searched
<1>3. pos < N
  BY <1>1 DEF BitmapFrames
<1>4. runs = {s \in from .. (N - c) : FrameRange(s, c) \cap bits = {}}
  BY DEF FreeRuns
<1> HIDE DEF N, runs
<1>5. FrameRange(pos - run, c) = FrameRange(pos - run, run) \cup {pos}
  BY <1>2 DEF FrameRange
<1>6. FrameRange(pos - run, c) \cap bits = {}
  BY <1>2, <1>5
<1>7. pos - run \in runs
  BY <1>1, <1>2, <1>3, <1>4, <1>6
<1>8. \A t \in runs : t \in Nat /\ pos - run <= t
  <2> SUFFICES ASSUME NEW t \in runs PROVE t \in Nat /\ pos - run <= t
    OBVIOUS
  <2>1. t \in Nat /\ from <= t /\ FrameRange(t, c) \cap bits = {}
    BY <1>1, <1>2, <1>4
  <2>2. ~ (t \in from .. (pos - run - 1))
    BY <1>2, <2>1
  <2> QED BY <1>2, <2>1, <2>2
<1>9. LeastOf(runs) \in runs /\ \A t \in runs : LeastOf(runs) <= t
  BY <1>7, <1>8, LeastOfIsLeast
<1>10. LeastOf(runs) <= pos - run /\ pos - run <= LeastOf(runs) /\ LeastOf(runs) \in Nat
  BY <1>7, <1>8, <1>9
<1>11. LeastOf(runs) = pos - run
  BY <1>2, <1>10
<1> QED BY <1>2, <1>6, <1>7, <1>11 DEF runs

\* A pass that comes to the end of the bitmap has missed nothing.
LEMMA SearchEnds ==
    ASSUME NEW n \in Nat \ {0}, NEW bits, NEW from, NEW run, NEW c,
           Searching(bits, from, n * BITMAP_BLOCK_SIZE, run, c)
    PROVE  FreeRuns(bits, n, from, c) = {}
<1> DEFINE N == n * BITMAP_BLOCK_SIZE
<1>1. N \in Nat
  BY BlockAssumption, Z3
<1> HIDE DEF N
<1>2. /\ from \in Nat /\ c \in Nat /\ run \in 0 .. (c - 1)
      /\ \A s \in from .. (N - run - 1) : FrameRange(s, c) \cap bits # {}
  BY DEF Searching, Searched, N
<1>3. \A s \in from .. (N - c) : s \in from .. (N - run - 1)
  BY <1>1, <1>2
<1> QED BY <1>2, <1>3 DEF FreeRuns, N

(***************************************************************************)
(* What the set level answers, from what the scan has found.               *)
(***************************************************************************)
PmmWith(bits, li, lb) == [bitmap |-> bits, last_idx |-> li, last_idx_bit |-> lb]

LEMMA PassFails ==
    ASSUME NEW bits, NEW n \in Nat \ {0}, NEW li \in 0 .. (n - 1), NEW lb, NEW c \in Nat \ {0},
           FreeRuns(bits, n, ScanFrom(li, lb), c) = {}
    PROVE  pmm_alloc_unmapped_(PmmWith(bits, li, lb), n, c)
             = [addr |-> 0, pmm |-> PmmWith(bits, li, BITMAP_BLOCK_SIZE - 1)]
<1>1. li < n
  OBVIOUS
<1>2. PmmWith(bits, li, lb).bitmap = bits /\ PmmWith(bits, li, lb).last_idx = li
      /\ PmmWith(bits, li, lb).last_idx_bit = lb
  BY DEF PmmWith
<1> QED BY <1>1, <1>2 DEF pmm_alloc_unmapped_, PmmWith

PassFound(bits, a, c) ==
    [addr |-> a, pmm |-> PmmWith(bits \cup Footprint(a, c), BlockOf(a + c - 1), BitOf(a + c - 1))]

LEMMA PassFinds ==
    ASSUME NEW bits, NEW n, NEW li, NEW lb, NEW c \in Nat \ {0},
           FreeRuns(bits, n, ScanFrom(li, lb), c) # {}
    PROVE  pmm_alloc_unmapped_(PmmWith(bits, li, lb), n, c)
             = PassFound(bits, LeastOf(FreeRuns(bits, n, ScanFrom(li, lb), c)), c)
<1>1. PmmWith(bits, li, lb).bitmap = bits /\ PmmWith(bits, li, lb).last_idx = li
      /\ PmmWith(bits, li, lb).last_idx_bit = lb
  BY DEF PmmWith
<1> QED BY <1>1 DEF pmm_alloc_unmapped_, PmmWith, reserve_frames, PassFound

-----------------------------------------------------------------------------
(***************************************************************************)
(* The inductive invariant.  Pos is the frame the scan stands at; before a *)
(* block is entered it is the one at last_idx_bit, which is the first of   *)
(* every block but the one where the pass began.                           *)
(***************************************************************************)
Pos   == IF pc = "bit" THEN ScanFrom(i, j) ELSE ScanFrom(i, last_idx_bit)
From  == IF retried THEN 0 ELSE ScanFrom(hint[1], hint[2])

\* The bytes are bytes, frame 0 is never free, and no caller holds it.
BytesInv ==
    /\ bitmap \in [Blocks -> SUBSET Ones]
    /\ 0 \in BitsSet
    /\ live \subseteq [addr : Nat \ {0}, count : Counts]
    /\ last_idx \in Blocks /\ last_idx_bit \in Ones

\* The call in progress: what it was asked, and that a second pass means that the
\* first found nothing and left the hint at the start of the bitmap.
CallInv ==
    /\ pc \in {"idle", "block", "bit"}
    /\ pc # "idle" =>
         /\ hint \in Blocks \X Ones
         /\ count \in Counts \ {0}
         /\ retried \in BOOLEAN
         /\ ~retried => last_idx = hint[1]
         /\ retried => /\ last_idx = 0 /\ last_idx_bit = BITMAP_BLOCK_SIZE - 1
                       /\ FreeRuns(BitsSet, bitmap_size, ScanFrom(hint[1], hint[2]), count) = {}

\* Where the loops stand, and what they have searched.
LoopInv ==
    /\ pc = "block" => /\ i \in 0 .. bitmap_size
                       /\ i = last_idx \/ last_idx_bit = BITMAP_BLOCK_SIZE - 1
    /\ pc = "bit" => i \in Blocks /\ j \in -1 .. (BITMAP_BLOCK_SIZE - 1)
    /\ pc # "idle" => Searching(BitsSet, From, Pos, continues_frames, count)

ScanInv == BytesInv /\ CallInv /\ LoopInv

-----------------------------------------------------------------------------
\* One bit down is one frame up, and below bit 0 comes the next block.
LEMMA NextFrame ==
    ASSUME NEW b \in Nat
    PROVE  /\ \A n \in Ones : /\ ScanFrom(b, n) \in Nat
                              /\ ScanFrom(b, n - 1) = ScanFrom(b, n) + 1
           /\ ScanFrom(b, BITMAP_BLOCK_SIZE - 1) = b * BITMAP_BLOCK_SIZE
           /\ ScanFrom(b, -1) = ScanFrom(b + 1, BITMAP_BLOCK_SIZE - 1)
           /\ ScanFrom(b + 1, BITMAP_BLOCK_SIZE - 1) \in Nat
<1> DEFINE k == BITMAP_BLOCK_SIZE
           B == b * k
           C == (b + 1) * k
<1>1. k \in Nat /\ k >= 1 /\ Ones = 0 .. (k - 1) /\ B \in Nat /\ C = B + k
  BY BlockAssumption, Z3 DEF Ones
<1>2. \A n : ScanFrom(b, n) = B + (k - 1 - n) /\ ScanFrom(b + 1, n) = C + (k - 1 - n)
  BY DEF ScanFrom
<1>3. B + (k - 1 - (k - 1)) = B
  BY <1>1
<1> HIDE DEF k, B, C
<1>4. \A n \in Ones : ScanFrom(b, n) \in Nat /\ ScanFrom(b, n - 1) = ScanFrom(b, n) + 1
  BY <1>1, <1>2
<1>5. ScanFrom(b, -1) = ScanFrom(b + 1, k - 1) /\ ScanFrom(b + 1, k - 1) \in Nat
  BY <1>1, <1>2
<1>6. ScanFrom(b, k - 1) = B
  BY <1>2, <1>3
<1> QED BY <1>4, <1>5, <1>6 DEF k, B

\* In a byte of ones every frame from any of its bits on is in use.
LEMMA FullBlockUsed ==
    ASSUME NEW bytes, NEW b \in Blocks, NEW n \in Ones, bytes[b] = Ones
    PROVE  LET next == ScanFrom(b + 1, BITMAP_BLOCK_SIZE - 1)
           IN  /\ ScanFrom(b, n) < next
               /\ ScanFrom(b, n) .. (next - 1) \subseteq BitsOf(bytes)
<1> DEFINE k == BITMAP_BLOCK_SIZE
           B == b * k
           next == ScanFrom(b + 1, k - 1)
<1>1. k \in Nat /\ k >= 1 /\ Ones = 0 .. (k - 1) /\ b \in Nat /\ B \in Nat
  BY BlockAssumption, SizeAssumption, Z3 DEF Ones, Blocks
<1>2. \A m : ScanFrom(b, m) = B + (k - 1 - m)
  BY DEF ScanFrom
<1>3. next = ScanFrom(b, -1)
  BY <1>1, NextFrame
<1> HIDE DEF k, B, next
<1>4. next = B + k /\ ScanFrom(b, n) = B + (k - 1 - n)
  BY <1>1, <1>2, <1>3
<1>5. ASSUME NEW f \in ScanFrom(b, n) .. (next - 1) PROVE f \in BitsOf(bytes)
  <2> DEFINE m == B + k - 1 - f
  <2>1. f \in Int /\ f >= B + (k - 1 - n) /\ f <= B + k - 1
    BY <1>1, <1>4
  <2>2. m \in Ones /\ f = B + (k - 1 - m)
    BY <1>1, <2>1
  <2>3. f = ScanFrom(b, m)
    BY <1>2, <2>2
  <2>4. m \in bytes[b]
    BY <2>2
  <2> QED BY <2>2, <2>3, <2>4, BitOfByte
<1>6. ScanFrom(b, n) < next
  BY <1>1, <1>4
<1> QED BY <1>5, <1>6 DEF next, k

\* The instance of Pmm computes with the same operators.
LEMMA SameFootprint ==
    ASSUME NEW a, NEW c
    PROVE  P!Footprint(a, c) = Footprint(a, c)
BY DEF P!Footprint, Footprint, P!FrameRange, FrameRange

LEMMA SamePass ==
    ASSUME NEW p, NEW n, NEW c
    PROVE  P!pmm_alloc_unmapped_(p, n, c) = pmm_alloc_unmapped_(p, n, c)
<1>1. \A x, y : P!FrameRange(x, y) = FrameRange(x, y)
  BY DEF P!FrameRange, FrameRange
<1>2. \A x, y : P!ScanFrom(x, y) = ScanFrom(x, y)
  BY DEF P!ScanFrom, ScanFrom
<1>3. \A B, m, x, y : P!FreeRuns(B, m, x, y) = FreeRuns(B, m, x, y)
  BY <1>1 DEF P!FreeRuns, FreeRuns
<1>4. \A S : P!LeastOf(S) = LeastOf(S)
  BY DEF P!LeastOf, LeastOf
<1>5. \A B, x, y : P!reserve_frames(B, x, y) = reserve_frames(B, x, y)
  BY SameFootprint DEF P!reserve_frames, reserve_frames
<1>6. \A f : P!BlockOf(f) = BlockOf(f) /\ P!BitOf(f) = BitOf(f)
  BY DEF P!BlockOf, BlockOf, P!BitOf, BitOf
<1> QED BY <1>2, <1>3, <1>4, <1>5, <1>6 DEF P!pmm_alloc_unmapped_, pmm_alloc_unmapped_

LEMMA SameAlloc ==
    ASSUME NEW p, NEW n, NEW c
    PROVE  P!pmm_alloc_unmapped(p, n, c) = pmm_alloc_unmapped(p, n, c)
BY SamePass DEF P!pmm_alloc_unmapped, pmm_alloc_unmapped

-----------------------------------------------------------------------------
(***************************************************************************)
(* What the call answers at the set level, when the loops return.          *)
(***************************************************************************)

\* The retry starts at frame 0, since the first pass reset last_idx_bit.
LEMMA RetryFromZero ==
    ASSUME NEW bits, NEW n \in Nat \ {0}, NEW li \in 0 .. (n - 1), NEW lb, NEW c \in Nat \ {0},
           FreeRuns(bits, n, ScanFrom(li, lb), c) = {}
    PROVE  pmm_alloc_unmapped(PmmWith(bits, li, lb), n, c)
             = pmm_alloc_unmapped_(PmmWith(bits, 0, BITMAP_BLOCK_SIZE - 1), n, c)
<1> DEFINE once == pmm_alloc_unmapped_(PmmWith(bits, li, lb), n, c)
<1>1. once = [addr |-> 0, pmm |-> PmmWith(bits, li, BITMAP_BLOCK_SIZE - 1)]
  BY PassFails
<1> HIDE DEF once
<1>2. /\ once.addr = 0 /\ once.pmm.bitmap = bits
      /\ once.pmm.last_idx_bit = BITMAP_BLOCK_SIZE - 1
  BY <1>1 DEF PmmWith
<1>3. [bitmap |-> once.pmm.bitmap, last_idx |-> 0, last_idx_bit |-> once.pmm.last_idx_bit]
        = PmmWith(bits, 0, BITMAP_BLOCK_SIZE - 1)
  BY <1>2 DEF PmmWith
<1> QED BY <1>2, <1>3 DEF pmm_alloc_unmapped, once

\* The scan, in its first or second pass, at a free frame that completes the run.
Finding(n, bits, li, lb, second, pos, run, c) ==
    /\ n \in Nat \ {0} /\ 0 \in bits /\ li \in 0 .. (n - 1) /\ lb \in Ones /\ second \in BOOLEAN
    /\ second => FreeRuns(bits, n, ScanFrom(li, lb), c) = {}
    /\ Searching(bits, IF second THEN 0 ELSE ScanFrom(li, lb), pos, run, c)
    /\ pos \notin bits /\ run + 1 >= c /\ pos \in BitmapFrames(n)

\* What the call then answers: the frames are free, and reserved.
Finds(n, bits, li, lb, pos, run, c) ==
    /\ run + 1 = c /\ pos - run \in Nat \ {0}
    /\ FrameRange(pos - run, c) \subseteq BitmapFrames(n) \ bits
    /\ pmm_alloc_unmapped(PmmWith(bits, li, lb), n, c)
         = [addr |-> pos - run,
            pmm  |-> PmmWith(bits \cup Footprint(pos - run, c), BlockOf(pos), BitOf(pos))]

LEMMA CallFinds ==
    ASSUME NEW n, NEW bits, NEW li, NEW lb, NEW second, NEW pos, NEW run, NEW c,
           Finding(n, bits, li, lb, second, pos, run, c)
    PROVE  Finds(n, bits, li, lb, pos, run, c)
<1> DEFINE from == IF second THEN 0 ELSE ScanFrom(li, lb)
           N    == n * BITMAP_BLOCK_SIZE
<1> USE DEF Finding
<1>1. /\ run + 1 = c
      /\ FrameRange(pos - run, c) \cap bits = {}
      /\ FreeRuns(bits, n, from, c) # {}
      /\ LeastOf(FreeRuns(bits, n, from, c)) = pos - run
  BY SearchFinds
<1>2. /\ from \in Nat /\ pos \in Nat /\ c \in Nat \ {0} /\ run \in Nat /\ from + run <= pos
  BY DEF Searching, Searched
<1>3. N \in Nat /\ pos < N
  BY BlockAssumption, Z3 DEF BitmapFrames
<1> HIDE DEF N
<1>4. FrameRange(pos - run, c) \subseteq BitmapFrames(n)
  <2>1. BitmapFrames(n) = 0 .. (N - 1)
    BY DEF BitmapFrames, N
  <2> QED BY <1>1, <1>2, <1>3, <2>1 DEF FrameRange
<1>5. pos - run \in Nat \ {0}
  <2>1. pos - run \in FrameRange(pos - run, c) /\ pos - run \in Nat
    BY <1>2 DEF FrameRange
  <2> QED BY <1>1, <2>1
<1> DEFINE a     == pos - run
           found == [addr |-> a, pmm |-> PmmWith(bits \cup Footprint(a, c), BlockOf(pos), BitOf(pos))]
<1>6. a \in Nat /\ a + c - 1 = pos /\ a # 0
  BY <1>1, <1>2, <1>5
<1>7. FreeRuns(bits, n, from, c) # {} /\ LeastOf(FreeRuns(bits, n, from, c)) = a
  BY <1>1
<1>8. c \in Nat \ {0}
  BY <1>2
<1>9. pmm_alloc_unmapped(PmmWith(bits, li, lb), n, c) = found
  <2> HIDE DEF a
  <2>1. CASE second
    <3>1. ScanFrom(0, BITMAP_BLOCK_SIZE - 1) = 0
      BY BlockAssumption DEF ScanFrom
    <3>2. from = ScanFrom(0, BITMAP_BLOCK_SIZE - 1)
      BY <2>1, <3>1
    <3> HIDE DEF from
    <3>3. /\ FreeRuns(bits, n, ScanFrom(0, BITMAP_BLOCK_SIZE - 1), c) # {}
          /\ LeastOf(FreeRuns(bits, n, ScanFrom(0, BITMAP_BLOCK_SIZE - 1), c)) = a
      BY <1>7, <3>2, Zenon
    <3>4. pmm_alloc_unmapped_(PmmWith(bits, 0, BITMAP_BLOCK_SIZE - 1), n, c) = PassFound(bits, a, c)
      BY <1>8, <3>3, PassFinds
    <3>5. pmm_alloc_unmapped(PmmWith(bits, li, lb), n, c)
             = pmm_alloc_unmapped_(PmmWith(bits, 0, BITMAP_BLOCK_SIZE - 1), n, c)
      BY <2>1, <1>8, RetryFromZero, Zenon
    <3> QED BY <3>4, <3>5, <1>6 DEF PassFound
  <2>2. CASE ~second
    <3>1. /\ FreeRuns(bits, n, ScanFrom(li, lb), c) # {}
          /\ LeastOf(FreeRuns(bits, n, ScanFrom(li, lb), c)) = a
      BY <1>7, <2>2
    <3>2. pmm_alloc_unmapped_(PmmWith(bits, li, lb), n, c) = PassFound(bits, a, c)
      BY <1>8, <3>1, PassFinds
    <3>3. pmm_alloc_unmapped_(PmmWith(bits, li, lb), n, c).addr # 0
      BY <1>6, <3>2 DEF PassFound
    <3> QED BY <1>6, <3>2, <3>3 DEF pmm_alloc_unmapped, PassFound
  <2> QED BY <2>1, <2>2
<1> QED BY <1>1, <1>4, <1>5, <1>9 DEF Finds

LEMMA CallFails ==
    ASSUME NEW n \in Nat \ {0}, NEW bits, NEW li \in 0 .. (n - 1), NEW lb, NEW run, NEW c,
           FreeRuns(bits, n, ScanFrom(li, lb), c) = {},
           Searching(bits, 0, n * BITMAP_BLOCK_SIZE, run, c)
    PROVE  pmm_alloc_unmapped(PmmWith(bits, li, lb), n, c)
             = [addr |-> 0, pmm |-> PmmWith(bits, 0, BITMAP_BLOCK_SIZE - 1)]
<1>1. FreeRuns(bits, n, 0, c) = {} /\ c \in Nat \ {0}
  BY SearchEnds DEF Searching
<1>2. ScanFrom(0, BITMAP_BLOCK_SIZE - 1) = 0
  BY BlockAssumption DEF ScanFrom
<1>3. 0 \in 0 .. (n - 1)
  OBVIOUS
<1> QED BY <1>1, <1>2, <1>3, PassFails, RetryFromZero

LEMMA CallForNothing ==
    ASSUME NEW n, NEW bits, NEW li, NEW lb
    PROVE  pmm_alloc_unmapped(PmmWith(bits, li, lb), n, 0)
             = [addr |-> 0, pmm |-> PmmWith(bits, 0, lb)]
BY DEF pmm_alloc_unmapped, pmm_alloc_unmapped_, PmmWith

-----------------------------------------------------------------------------
(***************************************************************************)
(* The steps.  Each keeps the invariant, and is a call of Pmm or changes   *)
(* nothing that Pmm sees.                                                  *)
(***************************************************************************)
Seen == PmmWith(BitsSet, IF pc = "idle" THEN last_idx ELSE hint[1],
                         IF pc = "idle" THEN last_idx_bit ELSE hint[2])

LEMMA SeenUnchanged == UNCHANGED <<Seen, live, failed>> => UNCHANGED P!vars
BY DEF P!vars, Seen, PmmWith

LEMMA SeenToFail ==
    ASSUME NEW c \in Counts, NEW r, r = pmm_alloc_unmapped(Seen, bitmap_size, c),
           Seen' = r.pmm, r.addr = 0, live' = live, failed' = {c}
    PROVE  P!Next
<1>1. P!pmm_alloc(c)
  BY SameAlloc DEF P!pmm_alloc, Seen, PmmWith
<1> QED BY <1>1 DEF P!Next

LEMMA SeenToSucceed ==
    ASSUME NEW c \in Counts, NEW r, r = pmm_alloc_unmapped(Seen, bitmap_size, c),
           Seen' = r.pmm, r.addr # 0, failed' = {},
           live' = live \cup {[addr |-> r.addr, count |-> c]}
    PROVE  P!Next
<1>1. P!pmm_alloc(c)
  BY SameAlloc DEF P!pmm_alloc, Seen, PmmWith
<1> QED BY <1>1 DEF P!Next

LEMMA SeenToFree ==
    ASSUME NEW b \in live, failed' = failed, live' = live \ {b},
           Seen' = PmmWith(BitsSet \ Footprint(b.addr, b.count),
                           Seen.last_idx, Seen.last_idx_bit)
    PROVE  P!Next
<1>1. P!pmm_free(b)
  BY SameFootprint DEF P!pmm_free, P!free_frames, Seen, PmmWith
<1> QED BY <1>1 DEF P!Next

\* The sizes, and that the first bit of block 0 exists.
LEMMA Sizes ==
    /\ BITMAP_BLOCK_SIZE \in Nat /\ BITMAP_BLOCK_SIZE >= 1
    /\ bitmap_size \in Nat /\ bitmap_size >= 1
    /\ Ones = 0 .. (BITMAP_BLOCK_SIZE - 1) /\ BITMAP_BLOCK_SIZE - 1 \in Ones
    /\ Blocks = 0 .. (bitmap_size - 1) /\ 0 \in Blocks /\ Blocks \subseteq Nat
BY BlockAssumption, SizeAssumption DEF Ones, Blocks

\* A step inside a call that writes no byte is not seen by Pmm.
LEMMA InsideCall ==
    ASSUME pc # "idle", pc' # "idle", UNCHANGED <<bitmap, hint, live, failed>>
    PROVE  BitsSet' = BitsSet /\ UNCHANGED P!vars
<1>1. BitsSet' = BitsSet
  BY BitsSetIs
<1>2. Seen' = Seen
  BY <1>1 DEF Seen
<1> QED BY <1>1, <1>2, SeenUnchanged

LEMMA InitScan == Init => ScanInv /\ P!Init
<1> SUFFICES ASSUME Init PROVE ScanInv /\ P!Init
  OBVIOUS
<1>1. bitmap = [b \in Blocks |-> ByteOf(Base, b)]
  BY DEF Init
<1>2. BitsSet = Base
  <2>1. ASSUME NEW f \in Frames PROVE f \in BitsSet <=> f \in Base
    <3>1. /\ BlockOf(f) \in Blocks /\ BitOf(f) \in Ones
          /\ ScanFrom(BlockOf(f), BitOf(f)) = f
      BY FramesAndBytes, FrameIsAt
    <3> QED BY <1>1, <3>1 DEF BitsSet, ByteOf
  <2>2. Base \subseteq Frames
    BY BaseAssumption DEF Frames
  <2> QED BY <2>1, <2>2 DEF BitsSet
<1>3. BytesInv
  <2>1. bitmap \in [Blocks -> SUBSET Ones]
    BY <1>1 DEF ByteOf
  <2>2. 0 \in BitsSet
    BY <1>2, BaseAssumption
  <2> QED BY <2>1, <2>2 DEF BytesInv, Init, Ones
<1>4. CallInv /\ LoopInv
  BY DEF Init, CallInv, LoopInv
<1>5. ScanFrom(last_idx, last_idx_bit) \in Base
  <2>1. last_idx \in Blocks /\ last_idx_bit \in Ones /\ last_idx_bit \in bitmap[last_idx]
    BY DEF Init, Ones
  <2> QED BY <2>1, <1>2, BitOfByte, BitsSetIs
<1>6. P!Init
  <2>1. P!ScanFrom(last_idx, last_idx_bit) \in Base
    BY <1>5 DEF P!ScanFrom, ScanFrom
  <2>2. pc = "idle" /\ last_idx \in 0 .. (bitmap_size - 1)
        /\ last_idx_bit \in 0 .. (BITMAP_BLOCK_SIZE - 1) /\ live = {} /\ failed = {}
    BY DEF Init, Blocks
  <2> QED BY <1>2, <2>1, <2>2 DEF P!Init
<1> QED BY <1>3, <1>4, <1>6 DEF ScanInv

LEMMA AllocNothingStep ==
    ASSUME ScanInv, AllocNothing
    PROVE  ScanInv' /\ [P!Next]_(P!vars)
<1>1. /\ pc = "idle" /\ 0 \in Counts /\ last_idx' = 0 /\ failed' = {0}
      /\ UNCHANGED <<bitmap, last_idx_bit, live, pc>>
  BY DEF AllocNothing, scan
<1>2. BitsSet' = BitsSet
  BY <1>1, BitsSetIs
<1>3. BytesInv'
  BY <1>1, <1>2, Sizes DEF ScanInv, BytesInv
<1>4. CallInv' /\ LoopInv'
  BY <1>1 DEF CallInv, LoopInv
<1>5. P!Next
  <2> DEFINE r == pmm_alloc_unmapped(Seen, bitmap_size, 0)
  <2>1. Seen = PmmWith(BitsSet, last_idx, last_idx_bit)
        /\ Seen' = PmmWith(BitsSet, 0, last_idx_bit)
    BY <1>1, <1>2 DEF Seen
  <2>2. r = [addr |-> 0, pmm |-> PmmWith(BitsSet, 0, last_idx_bit)]
    BY <2>1, CallForNothing
  <2>3. Seen' = r.pmm /\ r.addr = 0
    BY <2>1, <2>2
  <2> QED BY <1>1, <2>3, SeenToFail
<1> QED BY <1>3, <1>4, <1>5 DEF ScanInv

LEMMA CallStep ==
    ASSUME ScanInv, NEW c \in Counts, Call(c)
    PROVE  ScanInv' /\ [P!Next]_(P!vars)
<1>1. /\ pc = "idle" /\ c # 0 /\ pc' = "block" /\ i' = last_idx /\ continues_frames' = 0
      /\ count' = c /\ retried' = FALSE /\ hint' = <<last_idx, last_idx_bit>>
      /\ UNCHANGED <<bitmap, last_idx, last_idx_bit, live, failed>>
  BY DEF Call
<1>2. BitsSet' = BitsSet
  BY <1>1, BitsSetIs
<1>3. BytesInv'
  BY <1>1, <1>2 DEF ScanInv, BytesInv
<1>4. last_idx \in Blocks /\ last_idx_bit \in Ones
  BY DEF ScanInv, BytesInv
<1>5. CallInv'
  BY <1>1, <1>2, <1>4 DEF CallInv
<1>6. LoopInv'
  <2> DEFINE from == ScanFrom(last_idx, last_idx_bit)
  <2>1. From' = from /\ Pos' = from
    BY <1>1 DEF From, Pos
  <2>2. from \in Nat
    BY <1>4, Sizes, FrameAt
  <2>3. c \in Nat \ {0}
    BY <1>1, CountsAssumption
  <2> HIDE DEF from
  <2>4. Searching(BitsSet, from, from, 0, c)
    BY <2>2, <2>3, SearchBegins
  <2>5. Searching(BitsSet', From', Pos', continues_frames', count')
    BY <1>1, <1>2, <2>1, <2>4
  <2>6. i' \in 0 .. bitmap_size
    BY <1>1, <1>4, Sizes
  <2> QED BY <1>1, <2>5, <2>6 DEF LoopInv
<1>7. UNCHANGED P!vars
  <2>1. Seen' = Seen
    BY <1>1, <1>2 DEF Seen
  <2> QED BY <1>1, <2>1, SeenUnchanged
<1> QED BY <1>3, <1>5, <1>6, <1>7 DEF ScanInv

LEMMA FullBlockStep ==
    ASSUME ScanInv, FullBlock
    PROVE  ScanInv' /\ [P!Next]_(P!vars)
<1>1. /\ pc = "block" /\ i < bitmap_size /\ bitmap[i] = Ones /\ continues_frames' = 0
      /\ last_idx_bit' = BITMAP_BLOCK_SIZE - 1 /\ i' = i + 1
      /\ UNCHANGED <<bitmap, last_idx, pc, j, count, retried, hint, live, failed>>
  BY DEF FullBlock
<1>2. BitsSet' = BitsSet /\ UNCHANGED P!vars
  BY <1>1, InsideCall
<1>3. BytesInv'
  BY <1>1, <1>2, Sizes DEF ScanInv, BytesInv
<1>4. CallInv'
  BY <1>1, <1>2 DEF ScanInv, CallInv
<1>5. i \in Blocks /\ last_idx_bit \in Ones
  BY <1>1, Sizes DEF ScanInv, LoopInv, BytesInv
<1>6. LoopInv'
  <2> DEFINE pos  == ScanFrom(i, last_idx_bit)
             next == ScanFrom(i + 1, BITMAP_BLOCK_SIZE - 1)
  <2>1. Pos = pos /\ Pos' = next /\ From' = From
    BY <1>1 DEF Pos, From
  <2>2. pos < next /\ pos .. (next - 1) \subseteq BitsSet
    BY <1>1, <1>5, FullBlockUsed, BitsSetIs
  <2>3. next \in Nat
    BY <1>5, Sizes, NextFrame
  <2>4. Searching(BitsSet, From, pos, continues_frames, count)
    BY <1>1, <2>1 DEF ScanInv, LoopInv
  <2> HIDE DEF pos, next
  <2>5. Searching(BitsSet, From, next, 0, count)
    BY <2>2, <2>3, <2>4, SearchUsed
  <2>6. Searching(BitsSet', From', Pos', continues_frames', count')
    BY <1>1, <1>2, <2>1, <2>5
  <2>7. i' \in 0 .. bitmap_size
    BY <1>1, <1>5, Sizes
  <2> QED BY <1>1, <2>6, <2>7 DEF LoopInv
<1> QED BY <1>2, <1>3, <1>4, <1>6 DEF ScanInv

LEMMA EnterBlockStep ==
    ASSUME ScanInv, EnterBlock
    PROVE  ScanInv' /\ [P!Next]_(P!vars)
<1>1. /\ pc = "block" /\ i < bitmap_size /\ pc' = "bit" /\ j' = last_idx_bit
      /\ UNCHANGED <<bitmap, last_idx, last_idx_bit, i, continues_frames, count, retried, hint,
                     live, failed>>
  BY DEF EnterBlock
<1>2. BitsSet' = BitsSet /\ UNCHANGED P!vars
  BY <1>1, InsideCall
<1>3. BytesInv' /\ CallInv'
  BY <1>1, <1>2 DEF ScanInv, BytesInv, CallInv
<1>4. i \in Blocks /\ last_idx_bit \in Ones
  BY <1>1, Sizes DEF ScanInv, LoopInv, BytesInv
<1>5. LoopInv'
  <2>1. Pos' = Pos /\ From' = From
    BY <1>1 DEF Pos, From
  <2>2. Searching(BitsSet', From', Pos', continues_frames', count')
    BY <1>1, <1>2, <2>1 DEF ScanInv, LoopInv
  <2>3. i' \in Blocks /\ j' \in -1 .. (BITMAP_BLOCK_SIZE - 1)
    BY <1>1, <1>4, Sizes
  <2> QED BY <1>1, <2>2, <2>3 DEF LoopInv
<1> QED BY <1>2, <1>3, <1>5 DEF ScanInv

\* The bit that is looked at is the bit of the frame at which the scan stands.
LEMMA BitAtPos ==
    ASSUME ScanInv, pc = "bit", j >= 0
    PROVE  /\ i \in Blocks /\ i \in Nat /\ j \in Ones
           /\ Pos = ScanFrom(i, j) /\ Pos \in Frames /\ Pos \in Nat
           /\ j \in bitmap[i] <=> Pos \in BitsSet
           /\ ScanFrom(i, j - 1) = Pos + 1
<1>1. i \in Blocks /\ i \in Nat /\ j \in Ones
  BY Sizes DEF ScanInv, LoopInv
<1>2. Pos = ScanFrom(i, j)
  BY DEF Pos
<1>3. ScanFrom(i, j) \in Frames /\ ScanFrom(i, j) \in Nat
  BY <1>1, FramesAndBytes
<1>4. j \in bitmap[i] <=> ScanFrom(i, j) \in BitsSet
  BY <1>1, BitOfByte, BitsSetIs
<1>5. ScanFrom(i, j - 1) = ScanFrom(i, j) + 1
  BY <1>1, NextFrame
<1> QED BY <1>1, <1>2, <1>3, <1>4, <1>5

LEMMA FreeBitStep ==
    ASSUME ScanInv, FreeBit
    PROVE  ScanInv' /\ [P!Next]_(P!vars)
<1>1. /\ pc = "bit" /\ j >= 0 /\ j \notin bitmap[i] /\ continues_frames + 1 < count
      /\ continues_frames' = continues_frames + 1 /\ j' = j - 1
      /\ UNCHANGED <<bitmap, last_idx, last_idx_bit, pc, i, count, retried, hint, live, failed>>
  BY DEF FreeBit
<1>2. BitsSet' = BitsSet /\ UNCHANGED P!vars
  BY <1>1, InsideCall
<1>3. BytesInv' /\ CallInv'
  BY <1>1, <1>2 DEF ScanInv, BytesInv, CallInv
<1>4. /\ i \in Blocks /\ j \in Ones /\ Pos \notin BitsSet /\ ScanFrom(i, j - 1) = Pos + 1
  BY <1>1, BitAtPos
<1>5. LoopInv'
  <2>1. Pos' = Pos + 1 /\ From' = From
    BY <1>1, <1>4 DEF Pos, From
  <2>2. Searching(BitsSet, From, Pos, continues_frames, count)
    BY <1>1 DEF ScanInv, LoopInv
  <2>3. Searching(BitsSet, From, Pos + 1, continues_frames + 1, count)
    BY <1>1, <1>4, <2>2, SearchFree
  <2>4. Searching(BitsSet', From', Pos', continues_frames', count')
    BY <1>1, <1>2, <2>1, <2>3
  <2>5. i' \in Blocks /\ j' \in -1 .. (BITMAP_BLOCK_SIZE - 1)
    BY <1>1, <1>4, Sizes
  <2> QED BY <1>1, <2>4, <2>5 DEF LoopInv
<1> QED BY <1>2, <1>3, <1>5 DEF ScanInv

LEMMA UsedBitStep ==
    ASSUME ScanInv, UsedBit
    PROVE  ScanInv' /\ [P!Next]_(P!vars)
<1>1. /\ pc = "bit" /\ j >= 0 /\ j \in bitmap[i] /\ continues_frames' = 0 /\ j' = j - 1
      /\ UNCHANGED <<bitmap, last_idx, last_idx_bit, pc, i, count, retried, hint, live, failed>>
  BY DEF UsedBit
<1>2. BitsSet' = BitsSet /\ UNCHANGED P!vars
  BY <1>1, InsideCall
<1>3. BytesInv' /\ CallInv'
  BY <1>1, <1>2 DEF ScanInv, BytesInv, CallInv
<1>4. /\ i \in Blocks /\ j \in Ones /\ Pos \in BitsSet /\ Pos \in Nat
      /\ ScanFrom(i, j - 1) = Pos + 1
  BY <1>1, BitAtPos
<1>5. LoopInv'
  <2>1. Pos' = Pos + 1 /\ From' = From
    BY <1>1, <1>4 DEF Pos, From
  <2>2. Searching(BitsSet, From, Pos, continues_frames, count)
    BY <1>1 DEF ScanInv, LoopInv
  <2> DEFINE next == Pos + 1
  <2>3. next \in Nat /\ Pos < next /\ Pos .. (next - 1) \subseteq BitsSet
    BY <1>4
  <2> HIDE DEF next
  <2>4. Searching(BitsSet, From, next, 0, count)
    BY <2>2, <2>3, SearchUsed
  <2>5. Searching(BitsSet', From', Pos', continues_frames', count')
    BY <1>1, <1>2, <2>1, <2>4 DEF next
  <2>6. i' \in Blocks /\ j' \in -1 .. (BITMAP_BLOCK_SIZE - 1)
    BY <1>1, <1>4, Sizes
  <2> QED BY <1>1, <2>5, <2>6 DEF LoopInv
<1> QED BY <1>2, <1>3, <1>5 DEF ScanInv

LEMMA LeaveBlockStep ==
    ASSUME ScanInv, LeaveBlock
    PROVE  ScanInv' /\ [P!Next]_(P!vars)
<1>1. /\ pc = "bit" /\ j < 0 /\ pc' = "block" /\ i' = i + 1
      /\ last_idx_bit' = BITMAP_BLOCK_SIZE - 1
      /\ UNCHANGED <<bitmap, last_idx, continues_frames, count, retried, hint, live, failed>>
  BY DEF LeaveBlock
<1>2. BitsSet' = BitsSet /\ UNCHANGED P!vars
  BY <1>1, InsideCall
<1>3. BytesInv'
  BY <1>1, <1>2, Sizes DEF ScanInv, BytesInv
<1>4. CallInv'
  BY <1>1, <1>2 DEF ScanInv, CallInv
<1>5. i \in Blocks /\ i \in Nat /\ j = -1
  BY <1>1, Sizes DEF ScanInv, LoopInv
<1>6. LoopInv'
  <2>1. Pos' = ScanFrom(i + 1, BITMAP_BLOCK_SIZE - 1) /\ Pos = ScanFrom(i, -1) /\ From' = From
    BY <1>1, <1>5 DEF Pos, From
  <2>2. Pos' = Pos
    BY <2>1, <1>5, NextFrame
  <2>3. Searching(BitsSet', From', Pos', continues_frames', count')
    BY <1>1, <1>2, <2>1, <2>2 DEF ScanInv, LoopInv
  <2>4. i' \in 0 .. bitmap_size
    BY <1>1, <1>5, Sizes
  <2> QED BY <1>1, <2>3, <2>4 DEF LoopInv
<1> QED BY <1>2, <1>3, <1>4, <1>6 DEF ScanInv

\* At the end of a pass the scan stands at the end of the bitmap.
LEMMA PosAtEnd ==
    ASSUME ScanInv, pc = "block", i >= bitmap_size
    PROVE  /\ last_idx_bit = BITMAP_BLOCK_SIZE - 1
           /\ Pos = bitmap_size * BITMAP_BLOCK_SIZE
<1>1. i = bitmap_size /\ i # last_idx
  BY Sizes DEF ScanInv, LoopInv, BytesInv
<1>2. last_idx_bit = BITMAP_BLOCK_SIZE - 1
  BY <1>1 DEF ScanInv, LoopInv
<1>3. Pos = ScanFrom(bitmap_size, BITMAP_BLOCK_SIZE - 1)
  BY <1>1, <1>2 DEF Pos
<1> QED BY <1>2, <1>3, Sizes, NextFrame

LEMMA RetryStep ==
    ASSUME ScanInv, Retry
    PROVE  ScanInv' /\ [P!Next]_(P!vars)
<1>1. /\ pc = "block" /\ i >= bitmap_size /\ ~retried
      /\ retried' = TRUE /\ last_idx' = 0 /\ i' = 0 /\ continues_frames' = 0
      /\ UNCHANGED <<bitmap, last_idx_bit, pc, j, count, hint, live, failed>>
  BY DEF Retry
<1>2. BitsSet' = BitsSet /\ UNCHANGED P!vars
  BY <1>1, InsideCall
<1>3. BytesInv'
  BY <1>1, <1>2, Sizes DEF ScanInv, BytesInv
<1>4. last_idx_bit = BITMAP_BLOCK_SIZE - 1 /\ Pos = bitmap_size * BITMAP_BLOCK_SIZE
  BY <1>1, PosAtEnd
<1>5. FreeRuns(BitsSet, bitmap_size, ScanFrom(hint[1], hint[2]), count) = {}
  <2>1. Searching(BitsSet, From, Pos, continues_frames, count)
    BY <1>1 DEF ScanInv, LoopInv
  <2>2. From = ScanFrom(hint[1], hint[2])
    BY <1>1 DEF From
  <2>3. Searching(BitsSet, From, bitmap_size * BITMAP_BLOCK_SIZE, continues_frames, count)
    BY <2>1, <1>4
  <2>4. FreeRuns(BitsSet, bitmap_size, From, count) = {}
    BY <2>3, SizeAssumption, SearchEnds
  <2> QED BY <2>2, <2>4
<1>6. CallInv'
  BY <1>1, <1>2, <1>4, <1>5 DEF ScanInv, CallInv
<1>7. LoopInv'
  <2>1. Pos' = ScanFrom(0, BITMAP_BLOCK_SIZE - 1) /\ From' = 0
    BY <1>1, <1>4 DEF Pos, From
  <2>2. Pos' = 0
    BY <2>1, Sizes DEF ScanFrom
  <2>3. count \in Nat \ {0}
    BY <1>1, CountsAssumption DEF ScanInv, CallInv
  <2>4. Searching(BitsSet, 0, 0, 0, count)
    BY <2>3, SearchBegins
  <2>5. Searching(BitsSet', From', Pos', continues_frames', count')
    BY <1>1, <1>2, <2>1, <2>2, <2>4
  <2> QED BY <1>1, <2>5, Sizes DEF LoopInv
<1> QED BY <1>2, <1>3, <1>6, <1>7 DEF ScanInv

LEMMA FoundStep ==
    ASSUME ScanInv, Found
    PROVE  ScanInv' /\ [P!Next]_(P!vars)
<1> DEFINE addr == Pos - continues_frames
<1>1. /\ pc = "bit" /\ j >= 0 /\ j \notin bitmap[i] /\ continues_frames + 1 >= count
      /\ failed' = {} /\ last_idx' = i /\ last_idx_bit' = j /\ pc' = "idle"
  BY DEF Found, AtRest
<1>2. /\ i \in Blocks /\ i \in Nat /\ j \in Ones /\ Pos = ScanFrom(i, j)
      /\ Pos \in Frames /\ Pos \in Nat /\ Pos \notin BitsSet
  BY <1>1, BitAtPos
<1>3. /\ hint \in Blocks \X Ones /\ count \in Counts \ {0} /\ retried \in BOOLEAN
      /\ retried => FreeRuns(BitsSet, bitmap_size, ScanFrom(hint[1], hint[2]), count) = {}
  BY <1>1 DEF ScanInv, CallInv
<1>4. Searching(BitsSet, From, Pos, continues_frames, count) /\ 0 \in BitsSet
  BY <1>1 DEF ScanInv, LoopInv, BytesInv
<1>5. continues_frames \in Nat /\ count \in Nat
  BY <1>4 DEF Searching
<1> DEFINE bits == BitsSet
           li   == hint[1]
           lb   == hint[2]
           pos  == Pos
<1>6. /\ li \in 0 .. (bitmap_size - 1) /\ lb \in Ones /\ pos \in BitmapFrames(bitmap_size)
      /\ From = IF retried THEN 0 ELSE ScanFrom(li, lb)
  BY <1>2, <1>3 DEF Blocks, From, Frames, BitmapFrames
<1>7. /\ continues_frames + 1 = count /\ addr \in Nat \ {0}
      /\ FrameRange(addr, count) \subseteq Frames \ bits
      /\ pmm_alloc_unmapped(PmmWith(bits, li, lb), bitmap_size, count)
           = [addr |-> addr,
              pmm  |-> PmmWith(bits \cup Footprint(addr, count), BlockOf(pos), BitOf(pos))]
  <2>1. Frames = BitmapFrames(bitmap_size)
    BY DEF Frames, BitmapFrames
  <2> HIDE DEF bits, li, lb, pos
  <2>2. /\ Searching(bits, IF retried THEN 0 ELSE ScanFrom(li, lb), pos, continues_frames, count)
        /\ 0 \in bits /\ pos \notin bits
    BY <1>2, <1>4, <1>6 DEF bits, pos
  <2>3. retried => FreeRuns(bits, bitmap_size, ScanFrom(li, lb), count) = {}
    BY <1>3 DEF bits, li, lb
  <2>4. /\ continues_frames + 1 = count /\ pos - continues_frames \in Nat \ {0}
        /\ FrameRange(pos - continues_frames, count) \subseteq BitmapFrames(bitmap_size) \ bits
        /\ pmm_alloc_unmapped(PmmWith(bits, li, lb), bitmap_size, count)
             = [addr |-> pos - continues_frames,
                pmm  |-> PmmWith(bits \cup Footprint(pos - continues_frames, count),
                                 BlockOf(pos), BitOf(pos))]
    <3>1. Finding(bitmap_size, bits, li, lb, retried, pos, continues_frames, count)
      BY <1>1, <1>3, <1>6, <2>2, <2>3, SizeAssumption DEF Finding
    <3>2. Finds(bitmap_size, bits, li, lb, pos, continues_frames, count)
      BY <3>1, CallFinds
    <3> QED BY <3>2 DEF Finds
  <2> QED BY <2>1, <2>4 DEF pos
<1>8. /\ bitmap' = reserve_bytes(addr, count)
      /\ live' = live \cup {[addr |-> addr, count |-> count]}
  <2>1. i * BITMAP_BLOCK_SIZE \in Int
    BY <1>2, Sizes, Z3
  <2>2. Pos = i * BITMAP_BLOCK_SIZE + (BITMAP_BLOCK_SIZE - 1 - j)
    BY <1>2 DEF ScanFrom
  <2>3. i * BITMAP_BLOCK_SIZE + (BITMAP_BLOCK_SIZE - j) - (continues_frames + 1) = addr
    <3> DEFINE B == i * BITMAP_BLOCK_SIZE
    <3> HIDE DEF B
    <3>1. j \in Int /\ B \in Int
      BY <1>2, <2>1, Sizes DEF B
    <3>2. Pos = B + (BITMAP_BLOCK_SIZE - 1 - j)
      BY <2>2 DEF B
    <3>3. B + (BITMAP_BLOCK_SIZE - j) - (continues_frames + 1) = addr
      BY <1>5, <3>1, <3>2, Sizes
    <3> QED BY <3>3 DEF B
  <2> QED BY <1>7, <2>3 DEF Found
<1> HIDE DEF addr
<1>9. Footprint(addr, count) \subseteq Frames
  BY <1>5, <1>7, FootprintInRange
<1>10. bitmap' \in [Blocks -> SUBSET Ones] /\ BitsSet' = BitsSet \cup Footprint(addr, count)
  <2>1. bitmap \in [Blocks -> SUBSET Ones] /\ addr \in Nat
    BY <1>7 DEF ScanInv, BytesInv
  <2>2. bitmap' = [b \in Blocks |-> bitmap[b] \cup Mask(b, addr, count)]
    BY <1>8 DEF reserve_bytes
  <2>3. /\ bitmap' \in [Blocks -> SUBSET Ones]
        /\ BitsOf(bitmap') = BitsOf(bitmap) \cup (Footprint(addr, count) \cap Frames)
    BY <1>5, <2>1, <2>2, BytesAndFrames
  <2> QED BY <1>9, <2>3, BitsSetIs
<1>11. ScanInv'
  <2>1. BytesInv'
    BY <1>1, <1>2, <1>3, <1>4, <1>7, <1>8, <1>10 DEF ScanInv, BytesInv
  <2> QED BY <1>1, <2>1 DEF ScanInv, CallInv, LoopInv
<1>12. P!Next
  <2> DEFINE r == pmm_alloc_unmapped(Seen, bitmap_size, count)
  <2>1. Seen = PmmWith(bits, li, lb)
    BY <1>1 DEF Seen
  <2>2. Seen' = PmmWith(bits \cup Footprint(addr, count), i, j)
    BY <1>1, <1>10 DEF Seen
  <2>3. BlockOf(pos) = i /\ BitOf(pos) = j
    BY <1>2, FrameAt
  <2>4. r.addr = addr /\ Seen' = r.pmm
    BY <1>7, <2>1, <2>2, <2>3
  <2>5. r.addr # 0 /\ count \in Counts
    BY <1>3, <1>7, <2>4
  <2>6. live' = live \cup {[addr |-> r.addr, count |-> count]}
    BY <1>8, <2>4
  <2> HIDE DEF r
  <2>7. r = pmm_alloc_unmapped(Seen, bitmap_size, count)
    BY DEF r
  <2> QED BY <1>1, <2>4, <2>5, <2>6, <2>7, SeenToSucceed
<1> QED BY <1>11, <1>12

LEMMA GiveUpStep ==
    ASSUME ScanInv, GiveUp
    PROVE  ScanInv' /\ [P!Next]_(P!vars)
<1>1. /\ pc = "block" /\ i >= bitmap_size /\ retried /\ failed' = {count} /\ pc' = "idle"
      /\ UNCHANGED <<bitmap, last_idx, last_idx_bit, live>>
  BY DEF GiveUp, AtRest
<1>2. BitsSet' = BitsSet
  BY <1>1, BitsSetIs
<1>3. ScanInv'
  BY <1>1, <1>2 DEF ScanInv, BytesInv, CallInv, LoopInv
<1>4. /\ hint \in Blocks \X Ones /\ count \in Counts \ {0} /\ last_idx = 0
      /\ last_idx_bit = BITMAP_BLOCK_SIZE - 1
      /\ FreeRuns(BitsSet, bitmap_size, ScanFrom(hint[1], hint[2]), count) = {}
  BY <1>1 DEF ScanInv, CallInv
<1>5. Searching(BitsSet, 0, bitmap_size * BITMAP_BLOCK_SIZE, continues_frames, count)
  BY <1>1, PosAtEnd DEF ScanInv, LoopInv, From
<1>6. P!Next
  <2> DEFINE r == pmm_alloc_unmapped(Seen, bitmap_size, count)
  <2>1. Seen = PmmWith(BitsSet, hint[1], hint[2])
    BY <1>1 DEF Seen
  <2>2. Seen' = PmmWith(BitsSet, 0, BITMAP_BLOCK_SIZE - 1)
    BY <1>1, <1>2, <1>4 DEF Seen
  <2>3. hint[1] \in 0 .. (bitmap_size - 1)
    BY <1>4 DEF Blocks
  <2>4. r = [addr |-> 0, pmm |-> PmmWith(BitsSet, 0, BITMAP_BLOCK_SIZE - 1)]
    <3> DEFINE li == hint[1]
               lb == hint[2]
    <3>1. li \in 0 .. (bitmap_size - 1) /\ bitmap_size \in Nat \ {0}
      BY <2>3, SizeAssumption
    <3>2. FreeRuns(BitsSet, bitmap_size, ScanFrom(li, lb), count) = {}
      BY <1>4
    <3> HIDE DEF li, lb
    <3>3. pmm_alloc_unmapped(PmmWith(BitsSet, li, lb), bitmap_size, count)
            = [addr |-> 0, pmm |-> PmmWith(BitsSet, 0, BITMAP_BLOCK_SIZE - 1)]
      BY <1>5, <3>1, <3>2, CallFails
    <3> QED BY <2>1, <3>3 DEF li, lb
  <2>5. r.addr = 0 /\ Seen' = r.pmm
    BY <2>2, <2>4
  <2> HIDE DEF r
  <2>6. r = pmm_alloc_unmapped(Seen, bitmap_size, count)
    BY DEF r
  <2> QED BY <1>1, <1>4, <2>5, <2>6, SeenToFail
<1> QED BY <1>3, <1>6

LEMMA FreeStep ==
    ASSUME ScanInv, NEW b \in live, pmm_free(b)
    PROVE  ScanInv' /\ [P!Next]_(P!vars)
<1>1. /\ pc = "idle" /\ bitmap' = free_bytes(b.addr, b.count) /\ live' = live \ {b}
      /\ UNCHANGED <<last_idx, last_idx_bit, failed, pc>>
  BY DEF pmm_free, scan
<1>2. b.addr \in Nat \ {0} /\ b.count \in Nat
  BY CountsAssumption DEF ScanInv, BytesInv
<1>3. bitmap' \in [Blocks -> SUBSET Ones] /\ BitsSet' = BitsSet \ Footprint(b.addr, b.count)
  <2>1. bitmap \in [Blocks -> SUBSET Ones] /\ b.addr \in Nat
    BY <1>2 DEF ScanInv, BytesInv
  <2>2. bitmap' = [c \in Blocks |-> bitmap[c] \ Mask(c, b.addr, b.count)]
    BY <1>1 DEF free_bytes
  <2> QED BY <1>2, <2>1, <2>2, BytesAndFrames, BitsSetIs
<1>4. 0 \notin Footprint(b.addr, b.count)
  BY <1>2, FootprintInRange DEF FrameRange
<1>5. ScanInv'
  <2>1. BytesInv'
    BY <1>1, <1>3, <1>4 DEF ScanInv, BytesInv
  <2> QED BY <1>1, <2>1 DEF ScanInv, CallInv, LoopInv
<1>6. P!Next
  <2>1. Seen' = PmmWith(BitsSet \ Footprint(b.addr, b.count), Seen.last_idx, Seen.last_idx_bit)
    BY <1>1, <1>3 DEF Seen, PmmWith
  <2> QED BY <1>1, <2>1, SeenToFree
<1> QED BY <1>5, <1>6

LEMMA NextScan == ScanInv /\ [Next]_vars => ScanInv' /\ [P!Next]_(P!vars)
<1> SUFFICES ASSUME ScanInv, [Next]_vars PROVE ScanInv' /\ [P!Next]_(P!vars)
  OBVIOUS
<1>1. CASE AllocNothing
  BY <1>1, AllocNothingStep
<1>2. CASE \E c \in Counts : Call(c)
  BY <1>2, CallStep
<1>3. CASE FullBlock
  BY <1>3, FullBlockStep
<1>4. CASE EnterBlock
  BY <1>4, EnterBlockStep
<1>5. CASE Found
  BY <1>5, FoundStep
<1>6. CASE FreeBit
  BY <1>6, FreeBitStep
<1>7. CASE UsedBit
  BY <1>7, UsedBitStep
<1>8. CASE LeaveBlock
  BY <1>8, LeaveBlockStep
<1>9. CASE Retry
  BY <1>9, RetryStep
<1>10. CASE GiveUp
  BY <1>10, GiveUpStep
<1>11. CASE \E b \in live : pmm_free(b)
  BY <1>11, FreeStep
<1>12. CASE UNCHANGED vars
  <2>1. UNCHANGED <<bitmap, last_idx, last_idx_bit, live, failed, pc, i, j, continues_frames,
                    count, retried, hint>>
    BY <1>12 DEF vars, scan
  <2>2. BitsSet' = BitsSet
    BY <2>1, BitsSetIs
  <2>3. From' = From /\ Pos' = Pos /\ Seen' = Seen
    BY <2>1, <2>2 DEF From, Pos, Seen
  <2>4. ScanInv'
    BY <2>1, <2>2, <2>3 DEF ScanInv, BytesInv, CallInv, LoopInv
  <2> QED BY <2>1, <2>3, <2>4, SeenUnchanged
<1> QED
  BY <1>1, <1>2, <1>3, <1>4, <1>5, <1>6, <1>7, <1>8, <1>9, <1>10, <1>11, <1>12 DEF Next

LEMMA ScanHolds == Spec => []ScanInv
<1>1. Init => ScanInv
  BY InitScan
<1>2. ScanInv /\ [Next]_vars => ScanInv'
  BY NextScan
<1> QED BY <1>1, <1>2, PTL DEF Spec

(***************************************************************************)
(* The loops, shifts and masks of phys.c do what Pmm says in one step, for *)
(* every block size, bitmap size and count: all that PmmProofs shows of    *)
(* the set level holds of the bytes.                                       *)
(***************************************************************************)
THEOREM LoopsImplementPmm == Spec => ImplementsPmm
<1>1. Init => P!Init
  BY InitScan
<1>2. ScanInv /\ [Next]_vars => [P!Next]_(P!vars)
  BY NextScan
<1> QED BY <1>1, <1>2, ScanHolds, PTL DEF Spec, ImplementsPmm, P!Spec

\* No pass reads a byte behind the bitmap or a bit that a byte has not.
THEOREM ScanStaysInBounds == Spec => []ScanInBounds
<1>1. ScanInv => ScanInBounds
  BY Sizes DEF ScanInv, BytesInv, LoopInv, ScanInBounds
<1> QED BY <1>1, ScanHolds, PTL

-----------------------------------------------------------------------------
(***************************************************************************)
(* What PmmProofs proves of every Pmm holds of the one that the bytes      *)
(* implement.  PP is the same instance as P, with the theorems.            *)
(***************************************************************************)
PP == INSTANCE PmmProofs
        WITH pmm <- [bitmap       |-> BitsSet,
                     last_idx     |-> IF pc = "idle" THEN last_idx ELSE hint[1],
                     last_idx_bit |-> IF pc = "idle" THEN last_idx_bit ELSE hint[2]]

LEMMA SameOperators ==
    /\ \A a, c : P!FrameRange(a, c) = PP!FrameRange(a, c)
    /\ \A a, c : P!Footprint(a, c) = PP!Footprint(a, c)
    /\ \A p, n, c : P!pmm_alloc_unmapped(p, n, c) = PP!pmm_alloc_unmapped(p, n, c)
    /\ \A B, n, x, c : P!FreeRuns(B, n, x, c) = PP!FreeRuns(B, n, x, c)
    /\ P!Frames = PP!Frames
<1>1. \A a, c : P!FrameRange(a, c) = PP!FrameRange(a, c)
  BY DEF P!FrameRange, PP!FrameRange
<1>2. \A a, c : P!Footprint(a, c) = PP!Footprint(a, c)
  BY <1>1 DEF P!Footprint, PP!Footprint
<1>3. \A x, y : P!ScanFrom(x, y) = PP!ScanFrom(x, y)
  BY DEF P!ScanFrom, PP!ScanFrom
<1>4. \A B, m, x, y : P!FreeRuns(B, m, x, y) = PP!FreeRuns(B, m, x, y)
  BY <1>1 DEF P!FreeRuns, PP!FreeRuns
<1>5. \A S : P!LeastOf(S) = PP!LeastOf(S)
  BY DEF P!LeastOf, PP!LeastOf
<1>6. \A B, x, y : P!reserve_frames(B, x, y) = PP!reserve_frames(B, x, y)
  BY <1>2 DEF P!reserve_frames, PP!reserve_frames
<1>7. \A f : P!BlockOf(f) = PP!BlockOf(f) /\ P!BitOf(f) = PP!BitOf(f)
  BY DEF P!BlockOf, PP!BlockOf, P!BitOf, PP!BitOf
<1>8. \A p, n, c : P!pmm_alloc_unmapped_(p, n, c) = PP!pmm_alloc_unmapped_(p, n, c)
  BY <1>3, <1>4, <1>5, <1>6, <1>7 DEF P!pmm_alloc_unmapped_, PP!pmm_alloc_unmapped_
<1>9. \A p, n, c : P!pmm_alloc_unmapped(p, n, c) = PP!pmm_alloc_unmapped(p, n, c)
  BY <1>8 DEF P!pmm_alloc_unmapped, PP!pmm_alloc_unmapped
<1> QED BY <1>1, <1>2, <1>4, <1>9 DEF P!Frames, PP!Frames

LEMMA SameNext == P!vars = PP!vars /\ (P!Next <=> PP!Next)
<1>1. \A c : P!pmm_alloc(c) <=> PP!pmm_alloc(c)
  BY SameOperators DEF P!pmm_alloc, PP!pmm_alloc
<1>2. \A b : P!pmm_free(b) <=> PP!pmm_free(b)
  BY SameOperators DEF P!pmm_free, PP!pmm_free, P!free_frames, PP!free_frames
<1> QED BY <1>1, <1>2 DEF P!Next, PP!Next, P!vars, PP!vars

LEMMA SameSpec == P!Spec => PP!Spec
<1>1. P!Init => PP!Init
  BY DEF P!Init, PP!Init, P!ScanFrom, PP!ScanFrom
<1>2. [P!Next]_(P!vars) => [PP!Next]_(PP!vars)
  BY SameNext DEF P!vars, PP!vars
<1> QED BY <1>1, <1>2, PTL DEF P!Spec, PP!Spec

LEMMA PmmAssumptions == Base \subseteq PP!Frames /\ 0 \in Base
BY BaseAssumption DEF PP!Frames

\* Whatever the order of calls, a bit of a byte is set exactly if init_pmm reserved its
\* frame or one block that is held marked it, at every step of every loop.
THEOREM BytesAreAccounted == Spec => []AccountingOfBytes
<1>1. PP!Spec => []PP!Accounting
  BY PP!AccountingHolds, PmmAssumptions, BlockAssumption, SizeAssumption, CountsAssumption, PTL
<1>2. PP!Accounting => AccountingOfBytes
  <2>1. \A b : P!Marked(b) = PP!Marked(b)
    BY SameOperators DEF P!Marked, PP!Marked
  <2> QED BY <2>1 DEF PP!Accounting, P!Accounting, AccountingOfBytes
<1> QED BY <1>1, <1>2, LoopsImplementPmm, SameSpec, PTL DEF ImplementsPmm

\* If every count is below one block or at least two, the blocks that the masks and
\* loops hand out never share a frame.
THEOREM BytesAreNotShared ==
    ASSUME \A c \in Counts : ExactCount(c)
    PROVE  Spec => []P!NoSharedFrames
<1>1. PP!ExactCounts
  BY DEF PP!ExactCounts, PP!ExactCount, ExactCount
<1>2. PP!Spec => []PP!NoSharedFrames
  BY <1>1, PP!NoSharing, PmmAssumptions, BlockAssumption, SizeAssumption, CountsAssumption, PTL
<1>3. PP!NoSharedFrames => P!NoSharedFrames
  BY SameOperators DEF PP!NoSharedFrames, P!NoSharedFrames
<1> QED BY <1>2, <1>3, LoopsImplementPmm, SameSpec, PTL DEF ImplementsPmm

\* The loops answer 0x0 to a request only if no run of that many bits is clear anywhere
\* in the bitmap, wherever the hint stood when the call began.
THEOREM LoopsMissNothing ==
    Spec => [][GiveUp => FreeRuns(BitsSet, bitmap_size, 0, count) = {}]_vars
<1>1. ASSUME ScanInv, GiveUp PROVE FreeRuns(BitsSet, bitmap_size, 0, count) = {}
  <2>1. pc = "block" /\ i >= bitmap_size /\ retried
    BY <1>1 DEF GiveUp
  <2>2. Searching(BitsSet, 0, bitmap_size * BITMAP_BLOCK_SIZE, continues_frames, count)
    BY <1>1, <2>1, PosAtEnd DEF ScanInv, LoopInv, From
  <2> QED BY <2>2, SizeAssumption, SearchEnds
<1>2. ScanInv => [GiveUp => FreeRuns(BitsSet, bitmap_size, 0, count) = {}]_vars
  BY <1>1
<1> QED BY <1>2, ScanHolds, PTL
=============================================================================
