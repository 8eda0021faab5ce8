------------------------- MODULE MCStreamLifecycle -------------------------
(***************************************************************************)
(* Instances of StreamLifecycle for TLC: two cells, two streams, two       *)
(* connections and as many getter threads as cells, the least in which a   *)
(* cell is reused for another stream while the main thread is halfway      *)
(* through a request and a getter halfway through its list.                *)
(***************************************************************************)
EXTENDS StreamLifecycle, TLC

CONSTANTS i1, i2, k1, k2, c1, c2, t1, t2

TwoItems == {i1, i2}
TwoKeys == {k1, k2}
TwoConns == {c1, c2}
TwoThreads == {t1, t2}
OneKey == {k1}
OneConn == {c1}

AllKinds == {"tn", "metaid", "block"}
TnOnly == {"tn"}

(* The cells are told apart by nothing but their names; so are the rest.   *)
Symmetry == Permutations(TwoItems) \union Permutations(TwoKeys)
              \union Permutations(TwoConns) \union Permutations(TwoThreads)
=============================================================================
