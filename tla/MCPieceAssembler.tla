-------------------------- MODULE MCPieceAssembler --------------------------
(* Instance for TLC. *)
EXTENDS PieceAssembler
=============================================================================
