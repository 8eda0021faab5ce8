---------------------------- MODULE LeastElement ----------------------------
(***************************************************************************)
(* A set of natural numbers that is not empty has a least element: what    *)
(* stands in for induction in the proofs.  To show P(n) for all n, take    *)
(* the least element of {n \in Nat : ~P(n)}, and refute it.  And a bounded *)
(* set has a maximum, on which the folds of the community modules recurse. *)
(***************************************************************************)
EXTENDS Integers, FiniteSetsExt, TLAPS, WellFoundedInduction

(* A set of naturals that is not empty has a least element. *)
LEMMA LeastOf ==
  ASSUME NEW S \in SUBSET Nat, S # {}
  PROVE  \E n \in S : \A m \in S : n <= m
<1> DEFINE R == OpToRel(<, Nat)
<1>1. IsWellFoundedOn(R, Nat)
  BY NatLessThanWellFounded
<1>2. \A x, y \in Nat : y < x => <<y, x>> \in R
  BY DEF OpToRel
<1> HIDE DEF R
<1>3. PICK x \in S : \A y \in S : ~(<<y, x>> \in R)
  BY <1>1, WFMin
<1>4. \A y \in S : ~(y < x)
  BY <1>2, <1>3
<1>5. \A y \in S : x <= y
  BY <1>4
<1> QED BY <1>5

(* The greatest element of a set of numbers up to k. *)
LEMMA MaxOf ==
  ASSUME NEW k \in Nat, NEW S \in SUBSET (1 .. k), S # {}
  PROVE  Max(S) \in S /\ \A x \in S : x <= Max(S)
<1> DEFINE D == {k - x : x \in S}
<1>1. D \in SUBSET Nat /\ D # {}
  <2>1. \A x \in S : k - x \in Nat
    OBVIOUS
  <2> QED BY <2>1
<1>2. PICK d \in D : \A e \in D : d <= e
  BY <1>1, LeastOf
<1>3. PICK m \in S : d = k - m
  BY <1>2
<1>4. \A x \in S : m >= x
  <2> TAKE x \in S
  <2>1. d <= k - x
    BY <1>2
  <2> QED BY <1>3, <2>1
<1>5. Max(S) \in S /\ \A x \in S : Max(S) >= x
  BY <1>4, Zenon DEF Max
<1> QED BY <1>5

-----------------------------------------------------------------------------
(* The chain of C links from h on, along the pointers nx that end in z, as *)
(* the recursive functions of the modules define it.                       *)
IsChainFrom(f, h, nx, z, C) ==
  f = [n \in 0 .. C |-> IF n = 0 THEN h ELSE IF f[n - 1] = z THEN z ELSE nx[f[n - 1]]]

(* There is one: the equation does define a function. *)
LEMMA ChainFromExists ==
  ASSUME NEW S, NEW z, NEW nx \in [S -> S \union {z}], z \notin S,
         NEW h \in S \union {z}, NEW C \in Nat
  PROVE  \E f \in [0 .. C -> S \union {z}] : IsChainFrom(f, h, nx, z, C)
<1> DEFINE Missing == {n \in Nat : ~ \E f \in [0 .. n -> S \union {z}] : IsChainFrom(f, h, nx, z, n)}
<1> SUFFICES ASSUME Missing # {} PROVE FALSE
  OBVIOUS
<1>1. PICK n \in Missing : \A m \in Missing : n <= m
  BY LeastOf
<1>2. n # 0
  <2>1. PICK f : f = [i \in 0 .. 0 |-> h]
    OBVIOUS
  <2>2. f \in [0 .. 0 -> S \union {z}] /\ IsChainFrom(f, h, nx, z, 0)
    BY <2>1 DEF IsChainFrom
  <2> QED BY <2>2
<1>3. n - 1 \in Nat /\ n - 1 \notin Missing
  BY <1>1, <1>2
<1>4. PICK f \in [0 .. n - 1 -> S \union {z}] : IsChainFrom(f, h, nx, z, n - 1)
  BY <1>3
<1>5. f = [i \in 0 .. n - 1 |-> IF i = 0 THEN h ELSE IF f[i - 1] = z THEN z ELSE nx[f[i - 1]]]
  BY <1>4, Zenon DEF IsChainFrom
<1>6. PICK v : v = IF f[n - 1] = z THEN z ELSE nx[f[n - 1]]
  OBVIOUS
<1>7. v \in S \union {z}
  <2>1. f[n - 1] \in S \union {z}
    BY <1>3, <1>4
  <2> QED BY <1>6, <2>1
<1>8. PICK g : g = [i \in 0 .. n |-> IF i = n THEN v ELSE f[i]]
  OBVIOUS
<1>9. g \in [0 .. n -> S \union {z}]
  BY <1>3, <1>4, <1>7, <1>8
<1>10. ASSUME NEW m \in 0 .. n
       PROVE  g[m] = IF m = 0 THEN h ELSE IF g[m - 1] = z THEN z ELSE nx[g[m - 1]]
  <2>1. CASE m = 0
    BY <1>2, <1>3, <1>5, <1>8, <2>1
  <2>2. CASE m # 0
    <3>1. m - 1 \in 0 .. n - 1 /\ m - 1 # n /\ m - 1 \in 0 .. n
      BY <1>3, <2>2
    <3>2. g[m - 1] = f[m - 1] /\ g[m] = IF m = n THEN v ELSE f[m]
      BY <1>8, <3>1
    <3>3. CASE m = n
      BY <1>6, <2>2, <3>2, <3>3
    <3>4. CASE m # n
      <4>1. m \in 0 .. n - 1
        BY <1>3, <3>4
      <4>2. f[m] = IF f[m - 1] = z THEN z ELSE nx[f[m - 1]]
        BY <1>5, <2>2, <4>1
      <4> QED BY <2>2, <3>2, <3>4, <4>2
    <3> QED BY <3>3, <3>4
  <2> QED BY <2>1, <2>2
<1>11. IsChainFrom(g, h, nx, z, n)
  <2>1. DOMAIN g = 0 .. n
    BY <1>8
  <2> QED BY <1>8, <1>10, <2>1 DEF IsChainFrom
<1> QED BY <1>9, <1>11

(* A sequence of values each made from the one before and its place.       *)
IsRecursion(f, a, st, k) ==
  f = [n \in 0 .. k |-> IF n = 0 THEN a ELSE st[<<n, f[n - 1]>>]]

(* There is one, whatever makes a value from the one before. *)
LEMMA RecursionExists ==
  ASSUME NEW S, NEW a \in S, NEW k \in Nat, NEW st \in [(1 .. k) \X S -> S]
  PROVE  \E f \in [0 .. k -> S] : IsRecursion(f, a, st, k)
<1> DEFINE Has(m) == \E f \in [0 .. m -> S] : IsRecursion(f, a, st, m)
           Missing == {m \in Nat : m <= k /\ ~Has(m)}
<1> SUFFICES ASSUME Missing # {} PROVE FALSE
  OBVIOUS
<1>1. PICK n \in Missing : \A m \in Missing : n <= m
  BY LeastOf
<1>2. n # 0
  <2>1. PICK f : f = [i \in 0 .. 0 |-> a]
    OBVIOUS
  <2>2. f \in [0 .. 0 -> S] /\ IsRecursion(f, a, st, 0)
    BY <2>1 DEF IsRecursion
  <2> QED BY <2>2
<1>3. n - 1 \in Nat /\ n - 1 <= k /\ n \in 1 .. k /\ ~(n <= n - 1)
  BY <1>2
<1>4. PICK f \in [0 .. n - 1 -> S] : IsRecursion(f, a, st, n - 1)
  BY <1>1, <1>3
<1>5. f = [i \in 0 .. n - 1 |-> IF i = 0 THEN a ELSE st[<<i, f[i - 1]>>]]
  BY <1>4, Zenon DEF IsRecursion
<1>6. PICK v \in S : v = st[<<n, f[n - 1]>>]
  <2>1. f[n - 1] \in S
    BY <1>3, <1>4
  <2> QED BY <1>3, <2>1
<1>7. PICK g : g = [i \in 0 .. n |-> IF i = n THEN v ELSE f[i]]
  OBVIOUS
<1>8. g \in [0 .. n -> S]
  BY <1>3, <1>4, <1>7
<1>9. ASSUME NEW m \in 0 .. n
      PROVE  g[m] = IF m = 0 THEN a ELSE st[<<m, g[m - 1]>>]
  <2>1. CASE m = 0
    BY <1>2, <1>3, <1>5, <1>7, <2>1
  <2>2. CASE m # 0
    <3>1. m - 1 \in 0 .. n - 1 /\ m - 1 # n /\ m - 1 \in 0 .. n
      BY <1>3, <2>2
    <3>2. g[m - 1] = f[m - 1] /\ g[m] = IF m = n THEN v ELSE f[m]
      BY <1>7, <3>1
    <3>3. CASE m = n
      BY <1>6, <2>2, <3>2, <3>3
    <3>4. CASE m # n
      <4>1. m \in 0 .. n - 1
        BY <1>3, <3>4
      <4> QED BY <1>5, <2>2, <3>2, <3>4, <4>1
    <3> QED BY <3>3, <3>4
  <2> QED BY <2>1, <2>2
<1>10. IsRecursion(g, a, st, n)
  <2>1. DOMAIN g = 0 .. n
    BY <1>7
  <2> QED BY <1>7, <1>9, <2>1 DEF IsRecursion
<1> QED BY <1>8, <1>10

=============================================================================
