-------------------------- MODULE MCBlockStreaming --------------------------
(***************************************************************************)
(* Instances of BlockStreaming for TLC: blocks of two pieces, two of them  *)
(* filled at a time in the two slots of the ring.  Pieces 4 to 7 fill it,  *)
(* pieces 8 and 9 evict the first two blocks, and piece 10 finishes the    *)
(* block that 8 began.                                                     *)
(***************************************************************************)
EXTENDS BlockStreaming, TLC

(* What clients ask for, from the block that is finished to the one that   *)
(* has not begun.                                                          *)
Complete == {"complete"}

Anything == {"complete", "open", "ahead"}

Symmetry == Permutations(Conns)
=============================================================================
