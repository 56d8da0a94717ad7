------------------------------- MODULE MCPmm -------------------------------
(* The frame allocator on bitmaps of a few small blocks. *)
EXTENDS Pmm

\* The boot section, and a frame reserved in the middle (kernel or framebuffer).
MCBase == {0, 1, 3, 4}
=============================================================================
