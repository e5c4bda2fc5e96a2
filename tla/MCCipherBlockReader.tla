------------------------- MODULE MCCipherBlockReader -------------------------
(* How callers use the reader: through slices shorter than a block, as the *)
(* decoders do byte by byte, or with slices of a block and more, as a      *)
(* caller of a stored file may.  RAR 5 headers are read both ways, which   *)
(* is right while blocks arrive whole (Aligned in EncryptionProofs).       *)
EXTENDS CipherBlockReader

SmallReads == [reads |-> {1, 2, 3}, writes |-> {-1, 1, 3, 6}, bytes |-> TRUE]
LargeReads == [reads |-> {4, 5, 8, 14}, writes |-> {}, bytes |-> FALSE]
MCCallers == {SmallReads, LargeReads}
=============================================================================
