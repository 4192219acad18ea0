---------------------------- MODULE MCEmergeQueue ----------------------------
(* Small instances of EmergeQueue for TLC. *)
EXTENDS EmergeQueue

CONSTANTS b1, b2

Blocks == {b1, b2}
NoBlocks == {}
Second == {b2}

\* Both blocks belong to one chunk.
MCChunkOf(b) == 1
MCAreaOf(a) == <<b1, b2>>

=============================================================================
