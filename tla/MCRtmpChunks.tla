---------------------------- MODULE MCRtmpChunks ----------------------------
(***************************************************************************)
(* Instances of RtmpChunks for TLC.                                        *)
(***************************************************************************)
EXTENDS RtmpChunks

(* The last channel of the two-byte form and the first of the three-byte   *)
(* form of the basic header.                                               *)
SomeChannels == {319, 320}

(* Times that differ by less than Ext and, around Wrap, by more. *)
SomeStamps == {1, 6}

(* An empty body, and one of two or three chunks. *)
SomeSizes == {0, 3}

SomeTypes == {8, 9}

OtherChunkSizes == {1}
=============================================================================
