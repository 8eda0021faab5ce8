---------------------------- MODULE MCBlockRing ----------------------------
(***************************************************************************)
(* Instances of BlockRing for TLC.  The ring has its real size; MaxSpan is *)
(* long enough for every slot to be evicted at least once (12 blocks of 4  *)
(* pieces are 48 indices, so a span of 104 fills the ring twice).          *)
(***************************************************************************)
EXTENDS BlockRing

(* Every position in a group of four blocks the getter may join at, and    *)
(* indices from the very beginning, where 0 also means unset.              *)
JoinStarts == {0, 1, 3, 12} \union (16 .. 31) \union {48}

(* A hole of one piece, and one of almost the whole ring. *)
SomeSkips == {1, 46}

(* A key frame at every piece and at every third. *)
ShortAndLongGops == {1, 3}

(* Blocks of the past, the present and the future of the bounded window. *)
Requests == {0, 8, 29}
=============================================================================
