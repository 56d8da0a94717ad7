---------------------------- MODULE FrameBitmap ----------------------------
(***************************************************************************)
(* The arithmetic of the frame bitmap of memory/phys.c.                    *)
(*                                                                         *)
(* A frame is its number (address / FRAME_SIZE) and a bitmap is the set of *)
(* frames whose bit is 1.  Bit j of bitmap[i] stands for the frame         *)
(* i*BITMAP_BLOCK_SIZE + (BITMAP_BLOCK_SIZE-1-j): the most significant bit *)
(* is the lowest frame.  PmmLoop works on the bytes themselves and is      *)
(* shown to implement the operators below.                                 *)
(***************************************************************************)
EXTENDS Integers

CONSTANT BITMAP_BLOCK_SIZE

ASSUME BlockAssumption == BITMAP_BLOCK_SIZE \in Nat \ {0}

\* The frames of "count continues frames" at addr, what a caller believes it owns.
FrameRange(addr, count) == addr .. (addr + count - 1)

\* Mutant of Footprint: what spills over into the next block is forgotten.
FootprintNoSpill(start, pages) ==
    {f \in FrameRange(start, pages) : f \div BITMAP_BLOCK_SIZE
        <= (start \div BITMAP_BLOCK_SIZE) + (pages \div BITMAP_BLOCK_SIZE)}

(***************************************************************************)
(* The bits reserve_frames sets and free_frames clears for a start frame   *)
(* and a number of pages; the two functions compute the same masks.        *)
(***************************************************************************)
Footprint(start, pages) ==
    LET blocks      == pages \div BITMAP_BLOCK_SIZE
        rest        == pages % BITMAP_BLOCK_SIZE
        offset      == start % BITMAP_BLOCK_SIZE
        start_block == start \div BITMAP_BLOCK_SIZE
        end_block   == start_block + blocks
        first(b)    == b * BITMAP_BLOCK_SIZE
    IN  (IF blocks # 0
         THEN start .. (first(start_block + 1) - 1)
              \cup first(start_block + 1) .. (first(end_block) - 1)
              \cup (IF blocks > 1 THEN FrameRange(first(end_block), offset) ELSE {})
         ELSE {})
        \cup FrameRange(first(end_block) + offset, rest)

\* The bytes of the bitmap that either of them reads and writes back for this: one
\* more than it has bits in, where the mask of that byte is 0.
Accessed(start, pages) ==
    LET blocks      == pages \div BITMAP_BLOCK_SIZE
        start_block == start \div BITMAP_BLOCK_SIZE
        end_block   == start_block + blocks
    IN  start_block .. (end_block - 1)
        \cup (IF blocks > 1 THEN {end_block} ELSE {})
        \cup (IF pages % BITMAP_BLOCK_SIZE # 0 THEN {end_block, end_block + 1} ELSE {})

reserve_frames(bitmap, start, pages) == bitmap \cup Footprint(start, pages)

\* Mutants of free_frames: the offset in the first block ignored; one page too many.
free_framesNoOffset(bitmap, start, pages) ==
    bitmap \ Footprint(start - (start % BITMAP_BLOCK_SIZE), pages)
free_framesOneMore(bitmap, start, pages) == bitmap \ Footprint(start, pages + 1)

free_frames(bitmap, start, pages) == bitmap \ Footprint(start, pages)

pmm_is_free(bitmap, frame) == frame \notin bitmap

\* The frame at which a scan begins, and the block and the bit of a frame.
ScanFrom(last_idx, last_idx_bit) ==
    last_idx * BITMAP_BLOCK_SIZE + (BITMAP_BLOCK_SIZE - 1 - last_idx_bit)
BlockOf(frame) == frame \div BITMAP_BLOCK_SIZE
BitOf(frame)   == BITMAP_BLOCK_SIZE - 1 - (frame % BITMAP_BLOCK_SIZE)

\* Mutant of FreeRuns: the scan runs over the end of the bitmap.
FreeRunsPastEnd(bitmap, size, from, count) ==
    {s \in from .. (size * BITMAP_BLOCK_SIZE - count + 1) :
        FrameRange(s, count) \cap bitmap = {}}

\* The start of every run of count free frames at or after from, among size blocks.
FreeRuns(bitmap, size, from, count) ==
    {s \in from .. (size * BITMAP_BLOCK_SIZE - count) :
        FrameRange(s, count) \cap bitmap = {}}

LeastOf(S) == CHOOSE s \in S : \A t \in S : s <= t

(***************************************************************************)
(* The allocator's static variables are one record                         *)
(* [bitmap, last_idx, last_idx_bit]; an allocation returns the address (a  *)
(* frame number, 0 for the null pointer) and the new record.               *)
(*                                                                         *)
(* One pass: first fit from the hint.  On success the hint is the last     *)
(* frame handed out; a pass that scanned to the end leaves last_idx alone  *)
(* and resets last_idx_bit.                                                *)
(***************************************************************************)
pmm_alloc_unmapped_(pmm, size, count) ==
    LET runs == FreeRuns(pmm.bitmap, size, ScanFrom(pmm.last_idx, pmm.last_idx_bit), count)
        addr == LeastOf(runs)
        last == addr + count - 1
    IN  IF count = 0
        THEN [addr |-> 0, pmm |-> pmm]
        ELSE IF runs = {}
        THEN [addr |-> 0,
              pmm  |-> [bitmap       |-> pmm.bitmap,
                        last_idx     |-> pmm.last_idx,
                        last_idx_bit |-> IF pmm.last_idx < size
                                         THEN BITMAP_BLOCK_SIZE - 1
                                         ELSE pmm.last_idx_bit]]
        ELSE [addr |-> addr,
              pmm  |-> [bitmap       |-> reserve_frames(pmm.bitmap, addr, count),
                        last_idx     |-> BlockOf(last),
                        last_idx_bit |-> BitOf(last)]]

\* Mutant of pmm_alloc_unmapped: the retry starts at the hint again.
pmm_alloc_unmappedSameHint(pmm, size, count) ==
    LET once == pmm_alloc_unmapped_(pmm, size, count)
    IN  IF once.addr = 0 THEN pmm_alloc_unmapped_(once.pmm, size, count) ELSE once

\* The null address means failure: one retry from block 0.
pmm_alloc_unmapped(pmm, size, count) ==
    LET once == pmm_alloc_unmapped_(pmm, size, count)
    IN  IF once.addr = 0
        THEN pmm_alloc_unmapped_([bitmap       |-> once.pmm.bitmap,
                                  last_idx     |-> 0,
                                  last_idx_bit |-> once.pmm.last_idx_bit], size, count)
        ELSE once
=============================================================================
