-------------------------------- MODULE Pmm --------------------------------
(***************************************************************************)
(* The physical frame allocator of memory/phys.c after init_pmm, with the  *)
(* callers that use it.  One action is one call: the kernel runs these     *)
(* functions on one processor and no interrupt handler calls them.         *)
(*                                                                         *)
(* The mapping half of pmm_alloc, pmm_alloc_custom and pmm_free (the loops *)
(* over map_frame and unmap_page) belongs to Paging; here they are the     *)
(* calls of pmm_alloc_unmapped and free_frames they contain.               *)
(***************************************************************************)
EXTENDS FrameBitmap, FiniteSets

CONSTANTS bitmap_size,  \* blocks of the bitmap
          Base,         \* the frames init_pmm leaves reserved
          Counts        \* the numbers of frames callers ask for

ASSUME SizeAssumption == bitmap_size \in Nat \ {0}
ASSUME CountsAssumption == Counts \subseteq Nat

Frames == 0 .. (bitmap_size * BITMAP_BLOCK_SIZE - 1)

\* Frame 0 is part of the boot section that init_pmm reserves (phys.c:210).
ASSUME BaseAssumption == Base \subseteq Frames /\ 0 \in Base

VARIABLES pmm,     \* the static variables bitmap, last_idx, last_idx_bit
          live,    \* history: the blocks callers hold
          failed   \* history: the count of the last request, if it got 0x0

vars == <<pmm, live, failed>>

Block == [addr : Frames, count : Counts]

\* The hint was moved only by the page tables that map_bitmap allocated from
\* the temporary bitmap, whose frames all lie in the boot section.
Init ==
    /\ pmm \in [bitmap       : {Base},
                last_idx     : 0 .. (bitmap_size - 1),
                last_idx_bit : 0 .. (BITMAP_BLOCK_SIZE - 1)]
    /\ ScanFrom(pmm.last_idx, pmm.last_idx_bit) \in Base
    /\ live = {}
    /\ failed = {}

pmm_alloc(count) ==
    LET r == pmm_alloc_unmapped(pmm, bitmap_size, count)
    IN  /\ pmm' = r.pmm
        /\ live' = IF r.addr # 0 THEN live \cup {[addr |-> r.addr, count |-> count]} ELSE live
        /\ failed' = IF r.addr # 0 THEN {} ELSE {count}

\* A caller gives back a block it was handed: to_phys of an identity mapped page.
pmm_free(b) ==
    /\ pmm' = [bitmap       |-> free_frames(pmm.bitmap, b.addr, b.count),
               last_idx     |-> pmm.last_idx,
               last_idx_bit |-> pmm.last_idx_bit]
    /\ live' = live \ {b}
    /\ failed' = failed

\* ahci_read, ahci_write and identify_device give back what pmm_alloc returned
\* without looking at it; 0x0 was mapped to itself, so free_frames starts at 0.
FreeFailed(count) ==
    /\ pmm' = [bitmap       |-> free_frames(pmm.bitmap, 0, count),
               last_idx     |-> pmm.last_idx,
               last_idx_bit |-> pmm.last_idx_bit]
    /\ failed' = failed \ {count}
    /\ live' = live

\* The allocator with callers that give back only what they were handed.
Next == \/ \E count \in Counts : pmm_alloc(count)
        \/ \E b \in live : pmm_free(b)

\* The allocator with the callers the kernel has.
NextUnchecked == Next \/ \E count \in failed : FreeFailed(count)

Spec == Init /\ [][Next]_vars
SpecUnchecked == Init /\ [][NextUnchecked]_vars
-----------------------------------------------------------------------------
(***************************************************************************)
(* reserve_frames never sets a bit outside bitmap[0..bitmap_size-1], the   *)
(* scan starts inside it, and only frames of the bitmap are handed out.    *)
(* (Bytes that are read and written back with mask 0 are Boot's subject.)  *)
(***************************************************************************)
TypeOK ==
    /\ pmm \in [bitmap       : SUBSET Frames,
                last_idx     : 0 .. (bitmap_size - 1),
                last_idx_bit : 0 .. (BITMAP_BLOCK_SIZE - 1)]
    /\ live \subseteq Block
    /\ failed \subseteq Counts

(***************************************************************************)
(* Accounting: whatever the order of allocations and frees, a bit is 1     *)
(* exactly if init_pmm reserved the frame or one block that is still held  *)
(* marked it, and no two blocks marked the same frame.  So free_frames     *)
(* clears precisely what reserve_frames set: no frame leaks and none is    *)
(* freed under another block.  This holds for every count, including the   *)
(* counts whose footprint is smaller than the block.                       *)
(***************************************************************************)
Marked(b) == Footprint(b.addr, b.count)

Accounting ==
    /\ pmm.bitmap = Base \cup UNION {Marked(b) : b \in live}
    /\ \A b \in live : Marked(b) \cap Base = {}
    /\ \A b, c \in live : b # c => Marked(b) \cap Marked(c) = {}

(***************************************************************************)
(* The blocks callers hold never share a frame with each other nor with    *)
(* what init_pmm reserved: "return addr to count continues frames and      *)
(* reserves them in bitmap" (phys.c:222).                                  *)
(***************************************************************************)
NoSharedFrames ==
    /\ \A b \in live : FrameRange(b.addr, b.count) \cap Base = {}
    /\ \A b, c \in live :
          b # c => FrameRange(b.addr, b.count) \cap FrameRange(c.addr, c.count) = {}

(***************************************************************************)
(* pmm_alloc_unmapped answers 0x0 only if no run of count free frames      *)
(* exists anywhere: the scan from the hint and the one retry from block 0  *)
(* together miss nothing, wherever the hint stands.                        *)
(***************************************************************************)
FailsOnlyWhenFull ==
    [][\A count \in Counts \ {0} :
          pmm_alloc(count) /\ live' = live
          => FreeRuns(pmm.bitmap, bitmap_size, 0, count) = {}]_vars

(***************************************************************************)
(* The allocator implements its abstract specification, with the blocks    *)
(* the callers hold as the blocks handed out.                              *)
(***************************************************************************)
FA == INSTANCE FrameAllocator
        WITH Reserved <- Base, Requests <- Counts, blocks <- live

ImplementsFrameAllocator == FA!Spec

(***************************************************************************)
(* The boot section stays reserved: "reserve first 8MiB for bootloader and *)
(* tmp frames" (phys.c:7).                                                 *)
(***************************************************************************)
BootSectionReserved == Base \subseteq pmm.bitmap
=============================================================================
