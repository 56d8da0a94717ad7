--------------------------- MODULE FrameAllocator ---------------------------
(***************************************************************************)
(* What an allocator of runs of frames promises, in the words of           *)
(* memory/phys.c: "return addr to count continues frames and reserves      *)
(* them".  A block is handed out only if none of its frames is part of     *)
(* another block or reserved for good; giving it back makes it free again. *)
(* Which free run is chosen, and when a request fails, is left open.       *)
(***************************************************************************)
EXTENDS Integers

CONSTANTS Frames,    \* the frames the allocator manages
          Reserved,  \* the frames it may never hand out
          Requests   \* the numbers of frames callers ask for

VARIABLE blocks      \* the blocks handed out and not yet given back

Block == [addr : Frames, count : Requests]
FramesOf(b) == b.addr .. (b.addr + b.count - 1)

Init == blocks = {}

Alloc(b) ==
    /\ FramesOf(b) # {}
    /\ FramesOf(b) \subseteq Frames \ Reserved
    /\ \A other \in blocks : FramesOf(other) \cap FramesOf(b) = {}
    /\ blocks' = blocks \cup {b}

Free(b) ==
    /\ b \in blocks
    /\ blocks' = blocks \ {b}

Next == \E b \in Block : Alloc(b) \/ Free(b)

Spec == Init /\ [][Next]_blocks
=============================================================================
