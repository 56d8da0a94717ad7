----------------------------- MODULE MCPmmLoop -----------------------------
(* The byte level allocator on three blocks of three frames. *)
EXTENDS PmmLoop

MCBase == {0, 1}
=============================================================================
