------------------------------ MODULE PmmLoop ------------------------------
(***************************************************************************)
(* The frame allocator as memory/phys.c writes it: a bitmap of bytes, the  *)
(* masks of reserve_frames and free_frames computed with shifts, and the   *)
(* scan of pmm_alloc_unmapped_ block by block and bit by bit.  Shown to    *)
(* implement Pmm, in which an allocation is one step on a set of frames.   *)
(*                                                                         *)
(* A byte is the set of the numbers of its bits that are 1, so | is union, *)
(* & ~ is difference, and a shift moves the numbers and drops those that   *)
(* leave the byte.                                                         *)
(***************************************************************************)
EXTENDS FrameBitmap, FiniteSets

CONSTANTS bitmap_size, Base, Counts      \* as in Pmm

ASSUME SizeAssumption == bitmap_size \in Nat \ {0}
ASSUME CountsAssumption == Counts \subseteq Nat
ASSUME BaseAssumption == Base \subseteq 0 .. (bitmap_size * BITMAP_BLOCK_SIZE - 1) /\ 0 \in Base

VARIABLES bitmap,            \* bitmap[0..bitmap_size-1], bytes
          last_idx, last_idx_bit,
          pc,                \* "idle", "block", "bit": where the scan stands
          i, j, continues_frames, count,
          retried,           \* pmm_alloc_unmapped is in its second pass
          hint,              \* history: the hint when the call began
          live, failed       \* history: as in Pmm

scan == <<pc, i, j, continues_frames, count, retried, hint>>
vars == <<bitmap, last_idx, last_idx_bit, live, failed, scan>>

Blocks == 0 .. (bitmap_size - 1)
Ones   == 0 .. (BITMAP_BLOCK_SIZE - 1)                  \* 0xff

Shr(byte, n) == {k \in Ones : k + n \in byte}
Shl(byte, n) == {k \in Ones : k - n \in byte}           \* truncated to a byte

\* Mutant of Mask: the bits of rest that leave their block are shifted the wrong way.
MaskWrongSpill(b, start, pages) ==
    LET offset    == start % BITMAP_BLOCK_SIZE
        end_block == (start \div BITMAP_BLOCK_SIZE) + (pages \div BITMAP_BLOCK_SIZE)
        rest      == pages % BITMAP_BLOCK_SIZE
        bits      == Shl(Shr(Ones, BITMAP_BLOCK_SIZE - rest), BITMAP_BLOCK_SIZE - rest)
    IN  IF rest = 0 THEN {}
        ELSE IF b = end_block THEN Shr(bits, offset)
        ELSE IF b = end_block + 1 THEN Shl(bits, offset) ELSE {}

(***************************************************************************)
(* The mask reserve_frames ors into bitmap[b] and free_frames clears.      *)
(***************************************************************************)
Mask(b, start, pages) ==
    LET blocks      == pages \div BITMAP_BLOCK_SIZE
        start_block == start \div BITMAP_BLOCK_SIZE
        offset      == start % BITMAP_BLOCK_SIZE
        end_block   == start_block + blocks
        rest        == pages % BITMAP_BLOCK_SIZE
        bits        == Shl(Shr(Ones, BITMAP_BLOCK_SIZE - rest), BITMAP_BLOCK_SIZE - rest)
        when(cond, mask) == IF cond THEN mask ELSE {}
    IN  when(blocks # 0 /\ b = start_block, Shr(Ones, offset))
        \cup when(blocks # 0 /\ b \in (start_block + 1) .. (end_block - 1), Ones)
        \cup when(blocks > 1 /\ b = end_block, Shl(Ones, BITMAP_BLOCK_SIZE - offset))
        \cup when(rest # 0 /\ b = end_block, Shr(bits, offset))
        \cup when(rest # 0 /\ b = end_block + 1, Shl(bits, BITMAP_BLOCK_SIZE - offset))

\* The byte behind the bitmap that an area up to its last frame reaches is read and
\* written with mask 0: it keeps its value, and lies on a page that map_bitmap maps.
reserve_bytes(start, pages) == [b \in Blocks |-> bitmap[b] \cup Mask(b, start, pages)]

free_bytes(start, pages) == [b \in Blocks |-> bitmap[b] \ Mask(b, start, pages)]

\* The byte of block b when exactly the frames of S are reserved.
ByteOf(S, b) == {n \in Ones : ScanFrom(b, n) \in S}

AtRest(idx, bit) ==
    /\ last_idx' = idx /\ last_idx_bit' = bit
    /\ pc' = "idle" /\ i' = 0 /\ j' = 0 /\ continues_frames' = 0
    /\ count' = 0 /\ retried' = FALSE /\ hint' = <<>>

Init ==
    /\ bitmap = [b \in Blocks |-> ByteOf(Base, b)]
    /\ last_idx \in Blocks
    /\ last_idx_bit \in 0 .. (BITMAP_BLOCK_SIZE - 1)
    /\ last_idx_bit \in bitmap[last_idx]
    /\ pc = "idle" /\ i = 0 /\ j = 0 /\ continues_frames = 0
    /\ count = 0 /\ retried = FALSE /\ hint = <<>>
    /\ live = {} /\ failed = {}

(***************************************************************************)
(* pmm_alloc_unmapped.                                                     *)
(***************************************************************************)

\* Both passes return at once for count = 0; last_idx = 0 is what remains.
AllocNothing ==
    /\ pc = "idle" /\ 0 \in Counts
    /\ last_idx' = 0
    /\ failed' = {0}
    /\ UNCHANGED <<bitmap, last_idx_bit, live, scan>>

Call(c) ==
    /\ pc = "idle" /\ c # 0
    /\ pc' = "block" /\ i' = last_idx /\ continues_frames' = 0
    /\ count' = c /\ retried' = FALSE /\ hint' = <<last_idx, last_idx_bit>>
    /\ UNCHANGED <<bitmap, last_idx, last_idx_bit, j, live, failed>>

\* for (i = last_idx; i < bitmap_size; i++): a full block ends the run ...
FullBlock ==
    /\ pc = "block" /\ i < bitmap_size /\ bitmap[i] = Ones
    /\ continues_frames' = 0
    /\ last_idx_bit' = BITMAP_BLOCK_SIZE - 1
    /\ i' = i + 1
    /\ UNCHANGED <<bitmap, last_idx, pc, j, count, retried, hint, live, failed>>

\* ... and any other is searched from last_idx_bit down.
EnterBlock ==
    /\ pc = "block" /\ i < bitmap_size /\ bitmap[i] # Ones
    /\ pc' = "bit" /\ j' = last_idx_bit
    /\ UNCHANGED <<bitmap, last_idx, last_idx_bit, i, continues_frames, count, retried, hint,
                   live, failed>>

\* Mutant of Found: the hint is the bit after the last frame handed out.
FoundNextBit ==
    /\ pc = "bit" /\ j >= 0 /\ j \notin bitmap[i] /\ continues_frames + 1 >= count
    /\ LET addr == i * BITMAP_BLOCK_SIZE + (BITMAP_BLOCK_SIZE - j) - (continues_frames + 1)
       IN  /\ bitmap' = reserve_bytes(addr, continues_frames + 1)
           /\ live' = live \cup {[addr |-> addr, count |-> count]}
    /\ failed' = {}
    /\ AtRest(i, j - 1)

\* The first bit at which the run is long enough: reserve it and return.
Found ==
    /\ pc = "bit" /\ j >= 0 /\ j \notin bitmap[i] /\ continues_frames + 1 >= count
    /\ LET addr == i * BITMAP_BLOCK_SIZE + (BITMAP_BLOCK_SIZE - j) - (continues_frames + 1)
       IN  /\ bitmap' = reserve_bytes(addr, continues_frames + 1)
           /\ live' = live \cup {[addr |-> addr, count |-> count]}
    /\ failed' = {}
    /\ AtRest(i, j)

FreeBit ==
    /\ pc = "bit" /\ j >= 0 /\ j \notin bitmap[i] /\ continues_frames + 1 < count
    /\ continues_frames' = continues_frames + 1
    /\ j' = j - 1
    /\ UNCHANGED <<bitmap, last_idx, last_idx_bit, pc, i, count, retried, hint, live, failed>>

UsedBit ==
    /\ pc = "bit" /\ j >= 0 /\ j \in bitmap[i]
    /\ continues_frames' = 0
    /\ j' = j - 1
    /\ UNCHANGED <<bitmap, last_idx, last_idx_bit, pc, i, count, retried, hint, live, failed>>

\* Mutant of LeaveBlock: the next block is searched from the same bit.
LeaveBlockKeepBit ==
    /\ pc = "bit" /\ j < 0
    /\ pc' = "block" /\ i' = i + 1 /\ j' = 0
    /\ UNCHANGED <<bitmap, last_idx, last_idx_bit, continues_frames, count, retried, hint,
                   live, failed>>

LeaveBlock ==
    /\ pc = "bit" /\ j < 0
    /\ pc' = "block" /\ i' = i + 1 /\ j' = 0
    /\ last_idx_bit' = BITMAP_BLOCK_SIZE - 1
    /\ UNCHANGED <<bitmap, last_idx, continues_frames, count, retried, hint, live, failed>>

\* Mutant of Retry: nothing remembers that this is the second pass.
RetryForever ==
    /\ pc = "block" /\ i >= bitmap_size /\ ~retried
    /\ last_idx' = 0 /\ i' = 0 /\ continues_frames' = 0
    /\ UNCHANGED <<bitmap, last_idx_bit, pc, j, count, retried, hint, live, failed>>

\* The first pass returned 0x0: retry once, from block 0.
Retry ==
    /\ pc = "block" /\ i >= bitmap_size /\ ~retried
    /\ retried' = TRUE /\ last_idx' = 0
    /\ i' = 0 /\ continues_frames' = 0
    /\ UNCHANGED <<bitmap, last_idx_bit, pc, j, count, hint, live, failed>>

GiveUp ==
    /\ pc = "block" /\ i >= bitmap_size /\ retried
    /\ failed' = {count}
    /\ AtRest(last_idx, last_idx_bit)
    /\ UNCHANGED <<bitmap, live>>

pmm_free(b) ==
    /\ pc = "idle"
    /\ bitmap' = free_bytes(b.addr, b.count)
    /\ live' = live \ {b}
    /\ UNCHANGED <<last_idx, last_idx_bit, failed, scan>>

Next == \/ AllocNothing
        \/ \E c \in Counts : Call(c)
        \/ FullBlock \/ EnterBlock \/ Found \/ FreeBit \/ UsedBit \/ LeaveBlock
        \/ Retry \/ GiveUp
        \/ \E b \in live : pmm_free(b)

\* A call runs to its end: nothing but the processor drives it.
Spec == Init /\ [][Next]_vars
             /\ WF_vars(FullBlock \/ EnterBlock \/ Found \/ FreeBit \/ UsedBit
                        \/ LeaveBlock \/ Retry \/ GiveUp)
-----------------------------------------------------------------------------
(***************************************************************************)
(* Refinement: the frames whose bit is set are Pmm's bitmap, and until a   *)
(* call returns Pmm sees the hint with which it began.  This is what makes *)
(* the set operators of FrameBitmap a model of the loops and masks of      *)
(* phys.c, for the counts with a partial footprint too.                    *)
(***************************************************************************)
Frames == 0 .. (bitmap_size * BITMAP_BLOCK_SIZE - 1)

BitsSet == {f \in Frames : BitOf(f) \in bitmap[BlockOf(f)]}

P == INSTANCE Pmm
       WITH pmm <- [bitmap       |-> BitsSet,
                    last_idx     |-> IF pc = "idle" THEN last_idx ELSE hint[1],
                    last_idx_bit |-> IF pc = "idle" THEN last_idx_bit ELSE hint[2]]

ImplementsPmm == P!Spec

\* Frame accounting (Pmm) on the bytes, for every count and at every step.
AccountingOfBytes == P!Accounting

\* The scan reads only bytes of the bitmap and bits of a byte.
ScanInBounds ==
    /\ pc = "block" => i \in 0 .. bitmap_size
    /\ pc = "bit" => i \in Blocks /\ j \in -1 .. (BITMAP_BLOCK_SIZE - 1)
    /\ last_idx \in Blocks /\ last_idx_bit \in 0 .. (BITMAP_BLOCK_SIZE - 1)

\* Every call returns: the one retry cannot become a loop.
CallsReturn == pc # "idle" ~> pc = "idle"
=============================================================================
