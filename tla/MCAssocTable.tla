--------------------------- MODULE MCAssocTable ---------------------------
(***************************************************************************)
(* Instances of AssocTable for TLC: as many items as it takes to outgrow a *)
(* table of one bucket (the second item) and then one of two (the fourth). *)
(* Keys are numbers, so that hash functions can be named.                  *)
(***************************************************************************)
EXTENDS AssocTable, TLC

CONSTANTS i1, i2, i3, i4

FourItems == {i1, i2, i3, i4}
FourKeys == 1 .. 4

(* All in bucket 0 of two and split by the next bit; spread evenly; mostly *)
(* in the bucket that an expansion does not move.                          *)
SomeHashes == {<<0, 0, 2, 1>>, <<0, 2, 1, 3>>, <<1, 1, 3, 0>>}

Symmetry == Permutations(FourItems)
=============================================================================
