------------------------ MODULE BlockStreamingProofs ------------------------
(***************************************************************************)
(* Proofs about the streaming of blocks, for every instance: any number of *)
(* connections that ask for anything, any failing writes.  The invariant,  *)
(* WaitInv, says who is on which list and what each thread may hold.       *)
(***************************************************************************)
EXTENDS BlockStreaming, LeastElement, FiniteSetTheorems

-----------------------------------------------------------------------------
(* Chains of pieces, for any next pointers. *)

IsLink(link, nx, p) ==
  link = [n \in 0 .. 2 * Group |->
            IF n = 0 THEN IF p = NULL THEN <<>> ELSE <<p>>
            ELSE IF link[n - 1] # <<>> /\ nx[Last(link[n - 1])] # NULL
                 THEN Append(link[n - 1], nx[Last(link[n - 1])])
                 ELSE link[n - 1]]

Links(nx, p) == CHOOSE link : IsLink(link, nx, p)

NextType(nx) == nx \in [Pieces -> Pieces \union {NULL}]

(* NULL is no piece, and the numbers of an instance are numbers. *)
LEMMA Constants ==
  /\ Group \in Nat /\ Group > 0 /\ 2 * Group \in Nat
  /\ Slots \in Nat /\ Slots > 0 /\ Slots % Group = 0
  /\ NumPieces \in Nat
  /\ NULL \notin Pieces /\ NULL \notin Conns
  BY StreamingAssumption DEF Pieces

(* The last element of a sequence that has one. *)
LEMMA LastIn ==
  ASSUME NEW S, NEW s \in Seq(S), s # <<>>
  PROVE  /\ Len(s) \in Nat /\ Len(s) >= 1 /\ Last(s) = s[Len(s)] /\ Last(s) \in S
         /\ \A i \in 1 .. Len(s) : s[i] \in S
<1>1. Len(s) \in Nat /\ Len(s) # 0
  OBVIOUS
<1>2. Len(s) \in 1 .. Len(s)
  BY <1>1
<1> QED BY <1>1, <1>2 DEF Last

(* The walk along the pointers is defined, and meets pieces only. *)
LEMMA LinksTyped ==
  ASSUME NEW nx, NextType(nx), NEW p \in Pieces \union {NULL}
  PROVE  /\ Links(nx, p) \in [0 .. 2 * Group -> Seq(Pieces)]
         /\ IsLink(Links(nx, p), nx, p)
<1> DEFINE a == IF p = NULL THEN <<>> ELSE <<p>>
           S == Seq(Pieces)
           step1(l) == IF l # <<>> /\ nx[Last(l)] # NULL THEN Append(l, nx[Last(l)]) ELSE l
<1>1. PICK st : st = [x \in (1 .. 2 * Group) \X S |-> step1(x[2])]
  OBVIOUS
<1>2. \A l \in S : step1(l) \in S
  <2> TAKE l \in S
  <2>1. CASE l # <<>> /\ nx[Last(l)] # NULL
    <3>1. Last(l) \in Pieces
      BY <2>1, LastIn
    <3>2. nx[Last(l)] \in Pieces
      BY <2>1, <3>1 DEF NextType
    <3> QED BY <2>1, <3>2
  <2>2. CASE ~(l # <<>> /\ nx[Last(l)] # NULL)
    BY <2>2
  <2> QED BY <2>1, <2>2
<1>3. a \in S
  <2>1. CASE p = NULL
    BY <2>1
  <2>2. CASE p # NULL
    <3>1. p \in Pieces
      BY <2>2
    <3> QED BY <2>2, <3>1
  <2> QED BY <2>1, <2>2
<1>4. st \in [(1 .. 2 * Group) \X S -> S]
  <2> HIDE DEF S, step1
  <2>1. \A x \in (1 .. 2 * Group) \X S : x[2] \in S
    OBVIOUS
  <2> QED BY <1>1, <1>2, <2>1
<1> HIDE DEF S
<1>5. PICK f \in [0 .. 2 * Group -> S] : IsRecursion(f, a, st, 2 * Group)
  <2> HIDE DEF a, step1
  <2> QED BY <1>3, <1>4, RecursionExists, Constants
<1>6. f = [n \in 0 .. 2 * Group |-> IF n = 0 THEN a ELSE st[<<n, f[n - 1]>>]]
  BY <1>5, Zenon DEF IsRecursion
<1>7. \A n \in 0 .. 2 * Group : n # 0 => st[<<n, f[n - 1]>>] = step1(f[n - 1])
  <2> TAKE n \in 0 .. 2 * Group
  <2> SUFFICES ASSUME n # 0 PROVE st[<<n, f[n - 1]>>] = step1(f[n - 1])
    OBVIOUS
  <2>1. n \in 1 .. 2 * Group /\ n - 1 \in 0 .. 2 * Group
    BY Constants
  <2>2. f[n - 1] \in S
    BY <1>5, <2>1
  <2>3. <<n, f[n - 1]>> \in (1 .. 2 * Group) \X S
    BY <2>1, <2>2
  <2> HIDE DEF step1
  <2> QED BY <1>1, <2>3
<1>8. f = [n \in 0 .. 2 * Group |-> IF n = 0 THEN a ELSE step1(f[n - 1])]
  <2> HIDE DEF a, step1
  <2> QED BY <1>6, <1>7
<1>9. IsLink(f, nx, p)
  BY <1>8, Zenon DEF IsLink
<1>10. IsLink(Links(nx, p), nx, p)
  BY <1>9, Zenon DEF Links
<1>11. PICK g : g = Links(nx, p)
  OBVIOUS
<1>12. g = [n \in 0 .. 2 * Group |-> IF n = 0 THEN a ELSE step1(g[n - 1])]
  BY <1>10, <1>11, Zenon DEF IsLink
<1>13. \A n \in 0 .. 2 * Group : g[n] \in S
  <2> DEFINE Bad == {n \in Nat : n <= 2 * Group /\ g[n] \notin S}
  <2> SUFFICES ASSUME Bad # {} PROVE FALSE
    BY Constants
  <2>1. PICK n \in Bad : \A m \in Bad : n <= m
    BY LeastOf
  <2>2. n # 0
    <3>1. 0 \in 0 .. 2 * Group
      BY Constants
    <3> HIDE DEF a, step1
    <3> QED BY <1>3, <1>12, <2>1, <3>1
  <2>3. n \in 0 .. 2 * Group /\ n - 1 \in Nat /\ n - 1 <= 2 * Group /\ ~(n <= n - 1)
    BY <2>2, Constants
  <2>4. g[n - 1] \in S
    BY <2>1, <2>3
  <2>5. g[n] = step1(g[n - 1])
    <3> HIDE DEF a, step1
    <3> QED BY <1>12, <2>2, <2>3
  <2>6. g[n] \in S
    <3> HIDE DEF step1
    <3> QED BY <1>2, <2>4, <2>5
  <2> QED BY <2>6
<1>14. g \in [0 .. 2 * Group -> S]
  <2> HIDE DEF a, step1
  <2> QED BY <1>12, <1>13
<1> QED BY <1>10, <1>11, <1>14 DEF S

(* The chain along given pointers. *)
ChainOf(nx, p) == Links(nx, p)[2 * Group]

(* Chain is the walk along the pointers of the state, now and next. *)
LEMMA ChainIsOf ==
  ASSUME NEW p
  PROVE  Chain(p) = ChainOf(next, p) /\ Chain(p)' = ChainOf(next', p)
<1>1. Chain(p) = ChainOf(next, p)
  BY Zenon DEF Chain, ChainOf, Links, IsLink
<1>2. Chain(p)' = ChainOf(next', p)
  BY Zenon DEF Chain, ChainOf, Links, IsLink
<1> QED BY <1>1, <1>2

(* A chain is a sequence of pieces; from nowhere it is empty. *)
LEMMA ChainTyped ==
  ASSUME NEW nx, NextType(nx), NEW p \in Pieces \union {NULL}
  PROVE  ChainOf(nx, p) \in Seq(Pieces) /\ (p = NULL => ChainOf(nx, p) = <<>>)
<1>1. ChainOf(nx, p) \in Seq(Pieces)
  BY LinksTyped, Constants DEF ChainOf
<1>2. ASSUME p = NULL PROVE ChainOf(nx, p) = <<>>
  <2>1. PICK g : g = Links(nx, p)
    OBVIOUS
  <2>2. g = [n \in 0 .. 2 * Group |->
            IF n = 0 THEN IF p = NULL THEN <<>> ELSE <<p>>
            ELSE IF g[n - 1] # <<>> /\ nx[Last(g[n - 1])] # NULL
                 THEN Append(g[n - 1], nx[Last(g[n - 1])])
                 ELSE g[n - 1]]
    <3>1. IsLink(g, nx, p)
      BY <2>1, LinksTyped
    <3> QED BY <3>1, Zenon DEF IsLink
  <2> DEFINE Bad == {n \in Nat : n <= 2 * Group /\ g[n] # <<>>}
  <2>3. SUFFICES ASSUME Bad # {} PROVE FALSE
    BY <2>1, Constants DEF ChainOf
  <2>4. PICK n \in Bad : \A m \in Bad : n <= m
    BY <2>3, LeastOf
  <2>5. n # 0
    <3>1. 0 \in 0 .. 2 * Group
      BY Constants
    <3> QED BY <1>2, <2>2, <2>4, <3>1
  <2>6. n \in 0 .. 2 * Group /\ n - 1 \in Nat /\ n - 1 <= 2 * Group /\ ~(n <= n - 1)
    BY <2>4, <2>5, Constants
  <2>7. g[n - 1] = <<>>
    BY <2>4, <2>6
  <2>8. g[n] = g[n - 1]
    BY <2>2, <2>5, <2>6, <2>7
  <2> QED BY <2>4, <2>7, <2>8
<1> QED BY <1>1, <1>2

(* The pieces l are linked up, from h to the end. *)
IsPath(l, h, nx) ==
  /\ l \in Seq(Pieces) /\ l # <<>> /\ Len(l) <= Group
  /\ l[1] = h
  /\ \A i \in 1 .. Len(l) - 1 : nx[l[i]] = l[i + 1]
  /\ nx[l[Len(l)]] = NULL

(* What is linked up is the chain. *)
LEMMA PathIsChain ==
  ASSUME NEW nx, NextType(nx), NEW l, NEW h, IsPath(l, h, nx)
  PROVE  h \in Pieces /\ ChainOf(nx, h) = l
<1>1. /\ l \in Seq(Pieces) /\ Len(l) \in Nat /\ Len(l) >= 1 /\ Len(l) <= Group
      /\ \A i \in 1 .. Len(l) : l[i] \in Pieces
  BY LastIn DEF IsPath
<1>2. h \in Pieces /\ h # NULL
  <2>1. 1 \in 1 .. Len(l)
    BY <1>1
  <2> QED BY <1>1, <2>1, Constants DEF IsPath
<1>3. PICK g : g = Links(nx, h)
  OBVIOUS
<1>4. g = [n \in 0 .. 2 * Group |->
            IF n = 0 THEN IF h = NULL THEN <<>> ELSE <<h>>
            ELSE IF g[n - 1] # <<>> /\ nx[Last(g[n - 1])] # NULL
                 THEN Append(g[n - 1], nx[Last(g[n - 1])])
                 ELSE g[n - 1]]
  <2>1. IsLink(g, nx, h)
    BY <1>2, <1>3, LinksTyped
  <2> QED BY <2>1, Zenon DEF IsLink
<1> DEFINE Upto(n) == IF n + 1 <= Len(l) THEN n + 1 ELSE Len(l)
           Bad == {n \in Nat : n <= 2 * Group /\ g[n] # SubSeq(l, 1, Upto(n))}
<1>5. ASSUME Bad # {} PROVE FALSE
  <2>1. PICK n \in Bad : \A m \in Bad : n <= m
    BY <1>5, LeastOf
  <2>2. n # 0
    <3>1. 0 \in 0 .. 2 * Group
      BY Constants
    <3>2. g[0] = <<h>>
      BY <1>2, <1>4, <3>1
    <3>3. SubSeq(l, 1, Upto(0)) = <<h>>
      <4>1. Upto(0) = 1 /\ l[1] = h /\ 1 \in 1 .. Len(l)
        BY <1>1 DEF IsPath
      <4>2. SubSeq(l, 1, 1) = <<l[1]>>
        <5>1. PICK a : a = SubSeq(l, 1, 1)
          OBVIOUS
        <5>2. PICK b : b = <<l[1]>>
          OBVIOUS
        <5>3. a \in Seq(Pieces) /\ Len(a) = 1 /\ a[1] = l[1]
          BY <1>1, <4>1, <5>1
        <5>4. b \in Seq(Pieces) /\ Len(b) = 1 /\ b[1] = l[1]
          BY <1>1, <4>1, <5>2
        <5>5. a = b
          BY <5>3, <5>4
        <5> QED BY <5>1, <5>2, <5>5
      <4> HIDE DEF Upto
      <4> QED BY <4>1, <4>2
    <3> QED BY <2>1, <3>2, <3>3
  <2>3. n \in 0 .. 2 * Group /\ n - 1 \in Nat /\ n - 1 <= 2 * Group /\ ~(n <= n - 1)
    BY <2>1, <2>2, Constants
  <2>4. PICK m : m = Upto(n - 1)
    OBVIOUS
  <2>5. g[n - 1] = SubSeq(l, 1, m)
    BY <2>1, <2>3, <2>4
  <2>6. m \in 1 .. Len(l) /\ m = IF n <= Len(l) THEN n ELSE Len(l)
    BY <1>1, <2>2, <2>3, <2>4
  <2>7. PICK q : q = g[n - 1]
    OBVIOUS
  <2>8. q \in Seq(Pieces) /\ Len(q) = m /\ q # <<>> /\ Last(q) = l[m]
        /\ \A i \in 1 .. m : q[i] = l[i]
    <3>1. q = SubSeq(l, 1, m)
      BY <2>5, <2>7
    <3>2. q \in Seq(Pieces) /\ Len(q) = m /\ \A i \in 1 .. m : q[i] = l[i]
      BY <1>1, <2>6, <3>1
    <3>3. q # <<>>
      BY <2>6, <3>2
    <3> QED BY <2>6, <3>2, <3>3, LastIn
  <2>9. g[n] = IF nx[l[m]] # NULL THEN Append(q, nx[l[m]]) ELSE q
    <3>1. g[n] = IF g[n - 1] # <<>> /\ nx[Last(g[n - 1])] # NULL
                 THEN Append(g[n - 1], nx[Last(g[n - 1])])
                 ELSE g[n - 1]
      BY <1>4, <2>2, <2>3
    <3>2. g[n] = IF q # <<>> /\ nx[Last(q)] # NULL THEN Append(q, nx[Last(q)]) ELSE q
      BY <2>7, <3>1, Zenon
    <3>3. q # <<>> /\ Last(q) = l[m]
      BY <2>8
    <3> QED BY <3>2, <3>3, Zenon
  <2>10. CASE n + 1 <= Len(l)
    <3>1. m = n /\ m \in 1 .. Len(l) - 1 /\ Upto(n) = n + 1 /\ n + 1 \in 1 .. Len(l)
      BY <1>1, <2>3, <2>6, <2>10
    <3>2. nx[l[m]] = l[n + 1] /\ l[n + 1] \in Pieces
      BY <1>1, <3>1 DEF IsPath
    <3>3. g[n] = Append(q, l[n + 1])
      BY <2>9, <3>2, Constants
    <3>4. Append(q, l[n + 1]) = SubSeq(l, 1, n + 1)
      <4>1. PICK a : a = Append(q, l[n + 1])
        OBVIOUS
      <4>2. PICK b : b = SubSeq(l, 1, n + 1)
        OBVIOUS
      <4>3. a \in Seq(Pieces) /\ Len(a) = n + 1 /\ a[n + 1] = l[n + 1]
            /\ \A i \in 1 .. n : a[i] = l[i]
        BY <2>3, <2>8, <3>1, <3>2, <4>1
      <4>4. b \in Seq(Pieces) /\ Len(b) = n + 1 /\ \A i \in 1 .. n + 1 : b[i] = l[i]
        BY <1>1, <2>3, <3>1, <4>2
      <4>5. \A i \in 1 .. n + 1 : a[i] = b[i]
        BY <2>3, <4>3, <4>4
      <4>6. a = b
        BY <4>3, <4>4, <4>5
      <4> QED BY <4>1, <4>2, <4>6
    <3> QED BY <2>1, <3>1, <3>3, <3>4
  <2>11. CASE ~(n + 1 <= Len(l))
    <3>1. m = Len(l) /\ Upto(n) = Len(l)
      BY <1>1, <2>3, <2>6, <2>11
    <3>2. g[n] = q
      BY <2>9, <3>1 DEF IsPath
    <3> QED BY <2>1, <2>5, <2>7, <3>1, <3>2
  <2> QED BY <2>10, <2>11
<1>6. g[2 * Group] = SubSeq(l, 1, Upto(2 * Group))
  BY <1>5, Constants
<1>7. Upto(2 * Group) = Len(l)
  BY <1>1, Constants
<1>8. SubSeq(l, 1, Len(l)) = l
  BY <1>1
<1>9. g[2 * Group] = l
  <2> HIDE DEF Upto
  <2> QED BY <1>6, <1>7, <1>8
<1> QED BY <1>2, <1>3, <1>9 DEF ChainOf

(* The pool after a chain is freed on top of it. *)
LEMMA FreedOnTop ==
  ASSUME NEW l \in Seq(Pieces), NEW q \in Seq(Pieces)
  PROVE  /\ Reverse(l) \o q \in Seq(Pieces)
         /\ ToSet(Reverse(l) \o q) = ToSet(l) \union ToSet(q)
         /\ IsInjective(l) /\ IsInjective(q) /\ ToSet(l) \intersect ToSet(q) = {}
              => IsInjective(Reverse(l) \o q)
<1>1. PICK r : r = Reverse(l)
  OBVIOUS
<1>2. r \in Seq(Pieces) /\ Len(r) = Len(l) /\ \A i \in 1 .. Len(l) : r[i] = l[Len(l) - i + 1]
  BY <1>1 DEF Reverse
<1>3. PICK s : s = r \o q
  OBVIOUS
<1>4. PICK m : m = Len(l)
  OBVIOUS
<1>5. PICK k : k = Len(q)
  OBVIOUS
<1>6. m \in Nat /\ k \in Nat
  BY <1>4, <1>5
<1>7. /\ s \in Seq(Pieces) /\ Len(s) = m + k
      /\ \A i \in 1 .. m : s[i] = l[m - i + 1]
      /\ \A i \in 1 .. k : s[m + i] = q[i]
  <2>0. r \in Seq(Pieces) /\ Len(r) = m
    BY <1>2, <1>4
  <2>1. s \in Seq(Pieces) /\ Len(s) = m + k
    BY <2>0, <1>3, <1>5
  <2>2. ASSUME NEW i \in 1 .. m PROVE s[i] = l[m - i + 1]
    <3>1. s[i] = r[i]
      BY <1>2, <1>3, <1>4
    <3> QED BY <1>2, <1>4, <3>1
  <2>3. ASSUME NEW i \in 1 .. k PROVE s[m + i] = q[i]
    <3>1. m + i \in Len(r) + 1 .. Len(r) + Len(q) /\ m + i - Len(r) = i
      BY <1>2, <1>4, <1>5, <1>6
    <3>2. s[m + i] = q[m + i - Len(r)]
      BY <2>0, <1>3, <3>1
    <3> QED BY <3>1, <3>2
  <2> QED BY <2>1, <2>2, <2>3
<1>8. DOMAIN s = 1 .. m + k /\ DOMAIN l = 1 .. m /\ DOMAIN q = 1 .. k
  BY <1>4, <1>5, <1>7
<1>9. \A i \in 1 .. m + k : \/ i \in 1 .. m /\ m - i + 1 \in 1 .. m
                            \/ i - m \in 1 .. k /\ ~(i \in 1 .. m) /\ m + (i - m) = i
  BY <1>6
<1>10. \A i \in 1 .. m + k : \/ i \in 1 .. m /\ m - i + 1 \in 1 .. m /\ s[i] = l[m - i + 1]
                             \/ i - m \in 1 .. k /\ ~(i \in 1 .. m) /\ s[i] = q[i - m]
  <2> TAKE i \in 1 .. m + k
  <2>1. CASE i \in 1 .. m /\ m - i + 1 \in 1 .. m
    BY <1>7, <2>1
  <2>2. CASE i - m \in 1 .. k /\ ~(i \in 1 .. m) /\ m + (i - m) = i
    <3>1. s[m + (i - m)] = q[i - m]
      BY <1>7, <2>2
    <3> QED BY <2>2, <3>1
  <2> QED BY <1>9, <2>1, <2>2
<1>11. ToSet(s) = ToSet(l) \union ToSet(q)
  <2>1. \A x \in ToSet(s) : x \in ToSet(l) \union ToSet(q)
    BY <1>8, <1>10 DEF ToSet
  <2>2. \A x \in ToSet(l) : x \in ToSet(s)
    <3> TAKE x \in ToSet(l)
    <3>1. PICK i \in 1 .. m : x = l[i]
      BY <1>8 DEF ToSet
    <3>2. m - i + 1 \in 1 .. m /\ m - (m - i + 1) + 1 = i /\ m - i + 1 \in 1 .. m + k
      BY <1>6
    <3>3. s[m - i + 1] = l[i]
      BY <1>7, <3>2
    <3> QED BY <1>8, <3>1, <3>2, <3>3 DEF ToSet
  <2>3. \A x \in ToSet(q) : x \in ToSet(s)
    <3> TAKE x \in ToSet(q)
    <3>1. PICK i \in 1 .. k : x = q[i]
      BY <1>8 DEF ToSet
    <3>2. m + i \in 1 .. m + k
      BY <1>6
    <3> QED BY <1>7, <1>8, <3>1, <3>2 DEF ToSet
  <2> QED BY <2>1, <2>2, <2>3
<1>12. ASSUME IsInjective(l), IsInjective(q), ToSet(l) \intersect ToSet(q) = {}
       PROVE  IsInjective(s)
  <2>1. \A i, j \in 1 .. m : l[i] = l[j] => i = j
    BY <1>8, <1>12 DEF IsInjective
  <2>2. \A i, j \in 1 .. k : q[i] = q[j] => i = j
    BY <1>8, <1>12 DEF IsInjective
  <2>3. \A i \in 1 .. m, j \in 1 .. k : l[i] # q[j]
    BY <1>8, <1>12 DEF ToSet
  <2>4. ASSUME NEW i \in 1 .. m + k, NEW j \in 1 .. m + k, s[i] = s[j] PROVE i = j
    <3>1. CASE i \in 1 .. m /\ m - i + 1 \in 1 .. m /\ s[i] = l[m - i + 1]
      <4>1. CASE j \in 1 .. m /\ m - j + 1 \in 1 .. m /\ s[j] = l[m - j + 1]
        <5>1. m - i + 1 = m - j + 1
          BY <2>1, <2>4, <3>1, <4>1
        <5> QED BY <1>6, <3>1, <4>1, <5>1
      <4>2. CASE j - m \in 1 .. k /\ ~(j \in 1 .. m) /\ s[j] = q[j - m]
        BY <2>3, <2>4, <3>1, <4>2
      <4> QED BY <1>10, <4>1, <4>2
    <3>2. CASE i - m \in 1 .. k /\ ~(i \in 1 .. m) /\ s[i] = q[i - m]
      <4>1. CASE j \in 1 .. m /\ m - j + 1 \in 1 .. m /\ s[j] = l[m - j + 1]
        BY <2>3, <2>4, <3>2, <4>1
      <4>2. CASE j - m \in 1 .. k /\ ~(j \in 1 .. m) /\ s[j] = q[j - m]
        <5>1. i - m = j - m
          BY <2>2, <2>4, <3>2, <4>2
        <5> QED BY <1>6, <3>2, <4>2, <5>1
      <4> QED BY <1>10, <4>1, <4>2
    <3> QED BY <1>10, <3>1, <3>2
  <2> QED BY <1>8, <2>4 DEF IsInjective
<1>13. s = Reverse(l) \o q
  BY <1>1, <1>3
<1> QED BY <1>7, <1>11, <1>12, <1>13

-----------------------------------------------------------------------------
(* The wait lists. *)
(* The requests for a block, as they are moved from the list of the item.  *)
IsMoved(f, rq, w, b, list) ==
  f = [n \in 0 .. Len(w) |->
         IF n = 0 THEN list
         ELSE IF rq[w[n]].id = b THEN <<w[n]>> \o f[n - 1]
         ELSE f[n - 1]]

(* The walk that moves them is defined, and makes lists of connections.    *)
LEMMA MovedTyped ==
  ASSUME NEW w \in Seq(Conns), NEW rq, NEW b, NEW list \in Seq(Conns)
  PROVE  \E f \in [0 .. Len(w) -> Seq(Conns)] :
           /\ IsMoved(f, rq, w, b, list)
           /\ f = CHOOSE g : IsMoved(g, rq, w, b, list)
<1> DEFINE S == Seq(Conns)
           k == Len(w)
           next1(n, l) == IF rq[w[n]].id = b THEN <<w[n]>> \o l ELSE l
<1>1. k \in Nat /\ \A n \in 1 .. k : w[n] \in Conns
  OBVIOUS
<1>2. \A n \in 1 .. k, l \in S : next1(n, l) \in S
  BY <1>1
<1>3. list \in S
  OBVIOUS
<1> HIDE DEF S, k
<1>4. PICK st : st = [x \in (1 .. k) \X S |-> next1(x[1], x[2])]
  OBVIOUS
<1>5. st \in [(1 .. k) \X S -> S]
  <2> HIDE DEF next1
  <2>1. \A x \in (1 .. k) \X S : x[1] \in 1 .. k /\ x[2] \in S
    OBVIOUS
  <2> QED BY <1>2, <1>4, <2>1
<1>6. PICK f \in [0 .. k -> S] : IsRecursion(f, list, st, k)
  BY <1>1, <1>3, <1>5, RecursionExists
<1>7. f = [n \in 0 .. k |-> IF n = 0 THEN list ELSE st[<<n, f[n - 1]>>]]
  BY <1>6, Zenon DEF IsRecursion
<1>8. ASSUME NEW n \in 0 .. k, n # 0 PROVE st[<<n, f[n - 1]>>] = next1(n, f[n - 1])
  <2>1. n \in 1 .. k /\ n - 1 \in 0 .. k
    BY <1>1, <1>8
  <2>2. f[n - 1] \in S
    BY <1>6, <2>1
  <2> HIDE DEF next1
  <2> QED BY <1>4, <2>1, <2>2
<1>9. f = [n \in 0 .. k |-> IF n = 0 THEN list ELSE next1(n, f[n - 1])]
  <2> HIDE DEF next1
  <2> QED BY <1>7, <1>8
<1>10. IsMoved(f, rq, w, b, list)
  BY <1>9, Zenon DEF IsMoved, k
<1>11. PICK g : g = CHOOSE h : IsMoved(h, rq, w, b, list)
  OBVIOUS
<1>12. IsMoved(g, rq, w, b, list)
  BY <1>10, <1>11, Zenon
<1>13. g = [n \in 0 .. k |-> IF n = 0 THEN list ELSE next1(n, g[n - 1])]
  BY <1>12, Zenon DEF IsMoved, k
<1>14. \A n \in 0 .. k : g[n] \in S
  <2> HIDE DEF next1
  <2> DEFINE Bad == {n \in Nat : n <= k /\ g[n] \notin S}
  <2> SUFFICES ASSUME Bad # {} PROVE FALSE
    BY <1>1
  <2>1. PICK n \in Bad : \A m \in Bad : n <= m
    BY LeastOf
  <2>2. n # 0
    <3>1. 0 \in 0 .. k
      BY <1>1
    <3> QED BY <1>3, <1>13, <2>1, <3>1
  <2>3. n \in 1 .. k /\ n \in 0 .. k /\ n - 1 \in Nat /\ n - 1 <= k /\ ~(n <= n - 1)
    BY <1>1, <2>1, <2>2
  <2>4. g[n - 1] \in S
    BY <2>1, <2>3
  <2>5. g[n] = next1(n, g[n - 1])
    BY <1>13, <2>2, <2>3
  <2> QED BY <1>2, <2>1, <2>3, <2>4, <2>5
<1>15. g \in [0 .. k -> S]
  <2> HIDE DEF next1
  <2> QED BY <1>13, <1>14
<1> QED BY <1>11, <1>12, <1>15 DEF S, k


(* The requests that stay on the list of the item.                         *)
IsKept(f, rq, w, b) ==
  f = [n \in 0 .. Len(w) |->
         IF n = 0 THEN <<>>
         ELSE IF rq[w[n]].id = b THEN f[n - 1]
         ELSE Append(f[n - 1], w[n])]

(* The walk that keeps them is defined, and makes lists of connections.    *)
LEMMA KeptTyped ==
  ASSUME NEW w \in Seq(Conns), NEW rq, NEW b
  PROVE  \E f \in [0 .. Len(w) -> Seq(Conns)] :
           /\ IsKept(f, rq, w, b)
           /\ f = CHOOSE g : IsKept(g, rq, w, b)
<1> DEFINE S == Seq(Conns)
           k == Len(w)
           next1(n, l) == IF rq[w[n]].id = b THEN l ELSE Append(l, w[n])
<1>1. k \in Nat /\ \A n \in 1 .. k : w[n] \in Conns
  OBVIOUS
<1>2. \A n \in 1 .. k, l \in S : next1(n, l) \in S
  BY <1>1
<1>3. <<>> \in S
  OBVIOUS
<1> HIDE DEF S, k
<1>4. PICK st : st = [x \in (1 .. k) \X S |-> next1(x[1], x[2])]
  OBVIOUS
<1>5. st \in [(1 .. k) \X S -> S]
  <2> HIDE DEF next1
  <2>1. \A x \in (1 .. k) \X S : x[1] \in 1 .. k /\ x[2] \in S
    OBVIOUS
  <2> QED BY <1>2, <1>4, <2>1
<1>6. PICK f \in [0 .. k -> S] : IsRecursion(f, <<>>, st, k)
  BY <1>1, <1>3, <1>5, RecursionExists
<1>7. f = [n \in 0 .. k |-> IF n = 0 THEN <<>> ELSE st[<<n, f[n - 1]>>]]
  BY <1>6, Zenon DEF IsRecursion
<1>8. ASSUME NEW n \in 0 .. k, n # 0 PROVE st[<<n, f[n - 1]>>] = next1(n, f[n - 1])
  <2>1. n \in 1 .. k /\ n - 1 \in 0 .. k
    BY <1>1, <1>8
  <2>2. f[n - 1] \in S
    BY <1>6, <2>1
  <2> HIDE DEF next1
  <2> QED BY <1>4, <2>1, <2>2
<1>9. f = [n \in 0 .. k |-> IF n = 0 THEN <<>> ELSE next1(n, f[n - 1])]
  <2> HIDE DEF next1
  <2> QED BY <1>7, <1>8
<1>10. IsKept(f, rq, w, b)
  BY <1>9, Zenon DEF IsKept, k
<1>11. PICK g : g = CHOOSE h : IsKept(h, rq, w, b)
  OBVIOUS
<1>12. IsKept(g, rq, w, b)
  BY <1>10, <1>11, Zenon
<1>13. g = [n \in 0 .. k |-> IF n = 0 THEN <<>> ELSE next1(n, g[n - 1])]
  BY <1>12, Zenon DEF IsKept, k
<1>14. \A n \in 0 .. k : g[n] \in S
  <2> HIDE DEF next1
  <2> DEFINE Bad == {n \in Nat : n <= k /\ g[n] \notin S}
  <2> SUFFICES ASSUME Bad # {} PROVE FALSE
    BY <1>1
  <2>1. PICK n \in Bad : \A m \in Bad : n <= m
    BY LeastOf
  <2>2. n # 0
    <3>1. 0 \in 0 .. k
      BY <1>1
    <3> QED BY <1>3, <1>13, <2>1, <3>1
  <2>3. n \in 1 .. k /\ n \in 0 .. k /\ n - 1 \in Nat /\ n - 1 <= k /\ ~(n <= n - 1)
    BY <1>1, <2>1, <2>2
  <2>4. g[n - 1] \in S
    BY <2>1, <2>3
  <2>5. g[n] = next1(n, g[n - 1])
    BY <1>13, <2>2, <2>3
  <2> QED BY <1>2, <2>1, <2>3, <2>4, <2>5
<1>15. g \in [0 .. k -> S]
  <2> HIDE DEF next1
  <2> QED BY <1>13, <1>14
<1> QED BY <1>11, <1>12, <1>15 DEF S, k


(* The two lists that a new block makes are lists of connections, and of   *)
(* nobody if nobody waits.                                                 *)
LEMMA DueTyped ==
  ASSUME wait_list \in Seq(Conns), NEW b, NEW list \in Seq(Conns)
  PROVE  /\ Due(b, list) \in Seq(Conns) /\ StillAhead(b) \in Seq(Conns)
         /\ wait_list = <<>> => Due(b, list) = list /\ StillAhead(b) = <<>>
<1>1. PICK f \in [0 .. Len(wait_list) -> Seq(Conns)] :
        /\ IsMoved(f, request, wait_list, b, list)
        /\ f = CHOOSE g : IsMoved(g, request, wait_list, b, list)
  BY MovedTyped
<1>2. PICK h \in [0 .. Len(wait_list) -> Seq(Conns)] :
        /\ IsKept(h, request, wait_list, b)
        /\ h = CHOOSE g : IsKept(g, request, wait_list, b)
  BY KeptTyped
<1>3. Due(b, list) = (CHOOSE g : IsMoved(g, request, wait_list, b, list))[Len(wait_list)]
  BY Zenon DEF Due, IsMoved
<1>4. StillAhead(b) = (CHOOSE g : IsKept(g, request, wait_list, b))[Len(wait_list)]
  BY Zenon DEF StillAhead, IsKept
<1>5. Due(b, list) = f[Len(wait_list)] /\ StillAhead(b) = h[Len(wait_list)]
  BY <1>1, <1>2, <1>3, <1>4, Zenon
<1>6. Len(wait_list) \in 0 .. Len(wait_list)
  OBVIOUS
<1>7. ASSUME wait_list = <<>> PROVE f[0] = list /\ h[0] = <<>> /\ Len(wait_list) = 0
  <2>1. Len(wait_list) = 0 /\ 0 \in 0 .. Len(wait_list)
    BY <1>7
  <2>2. f[0] = list
    BY <1>1, <2>1 DEF IsMoved
  <2>3. h[0] = <<>>
    BY <1>2, <2>1 DEF IsKept
  <2> QED BY <2>1, <2>2, <2>3
<1> QED BY <1>1, <1>2, <1>5, <1>6, <1>7

(* Behind one of its members is a part of a list. *)
LEMMA AfterIs ==
  ASSUME NEW l \in Seq(Conns), NEW c
  PROVE  \E m : m \in 0 .. Len(l) /\ After(l, c) = SubSeq(l, m + 1, Len(l))
<1> DEFINE I == {i \in 1 .. Len(l) : l[i] = c}
<1>1. SelectInSeq(l, LAMBDA x : x = c) = IF I # {} THEN Min(I) ELSE 0
  BY Zenon DEF SelectInSeq
<1>2. PICK m : m = SelectInSeq(l, LAMBDA x : x = c)
  OBVIOUS
<1>3. m \in 0 .. Len(l)
  <2>1. CASE I # {}
    <3>1. I \in SUBSET Nat
      OBVIOUS
    <3>2. PICK i \in I : \A j \in I : i <= j
      BY <2>1, <3>1, LeastOf
    <3>3. Min(I) \in I
      BY <3>2, Zenon DEF Min
    <3> HIDE DEF I
    <3>4. m \in I
      BY <1>1, <1>2, <2>1, <3>3
    <3> QED BY <3>4 DEF I
  <2>2. CASE I = {}
    <3> HIDE DEF I
    <3>1. m = 0
      BY <1>1, <1>2, <2>2
    <3> QED BY <3>1
  <2> QED BY <2>1, <2>2
<1>4. After(l, c) = SubSeq(l, m + 1, Len(l))
  BY <1>2, Zenon DEF After
<1> QED BY <1>3, <1>4

(* What is left of a list behind one of its members is a list.             *)
LEMMA AfterTyped ==
  ASSUME NEW l \in Seq(Conns), NEW c
  PROVE  After(l, c) \in Seq(Conns)
<1>1. PICK m : m \in 0 .. Len(l) /\ After(l, c) = SubSeq(l, m + 1, Len(l))
  BY AfterIs
<1>2. SubSeq(l, m + 1, Len(l)) \in Seq(Conns)
  BY <1>1
<1> QED BY <1>1, <1>2

-----------------------------------------------------------------------------
(* The numbers of pieces: a group of Group blocks is filled row by row,    *)
(* and a piece has a group, a place in its block, and a block in its group.*)

Places == 0 .. Slots - 1

(* Every piece of the source has a block, a place in it, and a slot. *)
LEMMA Numbers ==
  ASSUME NEW n \in Nat
  PROVE  BlockOf(n) \in Nat /\ SlotOf(BlockOf(n)) \in Places /\ Position(n) \in Nat
<1>1. Group * Group \in Nat /\ Group * Group > 0
  BY Constants
<1>2. n % Group \in Nat /\ n \div (Group * Group) \in Nat
  BY <1>1, Constants
<1>3. n % (Group * Group) \in Nat
  BY <1>1
<1>4. Position(n) \in Nat
  BY <1>3, Constants DEF Position
<1>5. BlockOf(n) \in Nat
  BY <1>2, Constants DEF BlockOf
<1>6. SlotOf(BlockOf(n)) \in Places
  BY <1>5, Constants DEF SlotOf, Places
<1> QED BY <1>4, <1>5, <1>6

(* The slot of a number. *)
LEMMA SlotIsPlace ==
  ASSUME NEW b \in Nat
  PROVE  SlotOf(b) \in Places
  BY Constants DEF SlotOf, Places

(* Requests are for blocks of the source. *)
LEMMA RequestableTyped ==
  ASSUME NEW b \in Requestable
  PROVE  b \in Nat
<1>1. PICK n \in Group * Group .. MaxIndex : b = BlockOf(n)
  BY DEF Requestable
<1>2. Group * Group \in Nat /\ MaxIndex \in Nat
  BY Constants, StreamingAssumption
<1>3. n \in Nat
  BY <1>2
<1> QED BY <1>1, <1>3, Numbers

GroupOf(n) == n \div (Group * Group)
Column(n) == n % Group

(* Products of naturals. *)
LEMMA Products ==
  ASSUME NEW a \in Nat, NEW b \in Nat
  PROVE  a * b \in Nat /\ (a > 0 => a * b >= b) /\ (a > 0 /\ b > 0 => a * b > 0)
  OBVIOUS

(* A quotient and a remainder that fit are the ones. *)
LEMMA Divided ==
  ASSUME NEW d \in Nat, d > 0, NEW q \in Nat, NEW r \in 0 .. d - 1, NEW n \in Nat, n = q * d + r
  PROVE  n \div d = q /\ n % d = r
<1>1. PICK x : x = n \div d
  OBVIOUS
<1>2. PICK y : y = n % d
  OBVIOUS
<1>3. x \in Nat /\ y \in 0 .. d - 1 /\ n = x * d + y
  BY <1>1, <1>2
<1>4. x = q
  <2>1. CASE x > q
    <3>1. PICK k \in Nat : x = q + k /\ k >= 1
      <4>1. x - q \in Nat /\ x = q + (x - q) /\ x - q >= 1
        BY <1>3, <2>1
      <4> QED BY <4>1
    <3>2. x * d = q * d + k * d
      BY <1>3, <3>1
    <3>3. k * d >= d /\ k * d \in Nat
      BY <3>1, Products
    <3>4. PICK u \in Nat, v \in Nat, w \in Nat : u = q * d /\ v = k * d /\ w = x * d
      BY <1>3, <3>1, Products
    <3> QED BY <1>3, <3>2, <3>3, <3>4
  <2>2. CASE q > x
    <3>1. PICK k \in Nat : q = x + k /\ k >= 1
      <4>1. q - x \in Nat /\ q = x + (q - x) /\ q - x >= 1
        BY <1>3, <2>2
      <4> QED BY <4>1
    <3>2. q * d = x * d + k * d
      BY <1>3, <3>1
    <3>3. k * d >= d /\ k * d \in Nat
      BY <3>1, Products
    <3>4. PICK u \in Nat, v \in Nat, w \in Nat : u = q * d /\ v = k * d /\ w = x * d
      BY <1>3, <3>1, Products
    <3> QED BY <1>3, <3>2, <3>3, <3>4
  <2> QED BY <1>3, <2>1, <2>2
<1>5. y = r
  <2>1. PICK u \in Nat : u = q * d
    BY Products
  <2> QED BY <1>3, <1>4, <2>1
<1> QED BY <1>1, <1>2, <1>4, <1>5

(* A piece from its coordinates. *)
LEMMA FromCoordinates ==
  ASSUME NEW g \in Nat, NEW i \in 0 .. Group - 1, NEW j \in 0 .. Group - 1, NEW n \in Nat,
         n = g * (Group * Group) + (i * Group + j)
  PROVE  /\ GroupOf(n) = g /\ Position(n) = i /\ Column(n) = j
         /\ BlockOf(n) = g * Group + j
<1>1. PICK d \in Nat : d = Group /\ d > 0
  BY Constants
<1>2. PICK e \in Nat : e = d * d /\ e > 0
  BY <1>1, Products
<1>3. i \in Nat /\ j \in Nat /\ i <= d - 1 /\ j <= d - 1
  BY <1>1
<1>4. i * d + j \in 0 .. e - 1
  <2>1. PICK k \in Nat : i + k = d - 1
    <3>1. d - 1 - i \in Nat /\ i + (d - 1 - i) = d - 1
      BY <1>1, <1>3
    <3> QED BY <3>1
  <2>2. (i + k + 1) * d = i * d + k * d + d
    BY <1>1, <1>3, <2>1
  <2>3. i + k + 1 = d
    BY <1>1, <1>3, <2>1
  <2>4. e = i * d + k * d + d
    BY <1>2, <2>2, <2>3
  <2>5. i * d \in Nat /\ k * d \in Nat
    BY <1>1, <1>3, <2>1, Products
  <2> QED BY <1>1, <1>3, <2>4, <2>5
<1>5. n \div e = g /\ n % e = i * d + j
  BY <1>1, <1>2, <1>4, Divided
<1>6. (i * d + j) \div d = i
  BY <1>1, <1>3, <1>4, Divided
<1>7. n % d = j
  <2>1. PICK q \in Nat : q = g * d + i
    BY <1>1, <1>3, Products
  <2>2. q * d = g * (d * d) + i * d
    BY <1>1, <1>3, <2>1
  <2>3. n = q * d + j
    BY <1>1, <2>2
  <2> QED BY <1>1, <2>3, Divided
<1> QED BY <1>1, <1>2, <1>5, <1>6, <1>7 DEF GroupOf, Position, Column, BlockOf

(* The coordinates of a piece. *)
LEMMA Coordinates ==
  ASSUME NEW n \in Nat
  PROVE  /\ GroupOf(n) \in Nat /\ Position(n) \in 0 .. Group - 1 /\ Column(n) \in 0 .. Group - 1
         /\ n = GroupOf(n) * (Group * Group) + (Position(n) * Group + Column(n))
         /\ BlockOf(n) = GroupOf(n) * Group + Column(n)
<1>1. PICK d \in Nat : d = Group /\ d > 0
  BY Constants
<1>2. PICK e \in Nat : e = d * d /\ e > 0
  BY <1>1, Products
<1>3. PICK g \in Nat : g = n \div e
  BY <1>2
<1>4. PICK r \in 0 .. e - 1 : r = n % e /\ n = g * e + r
  BY <1>2, <1>3
<1>5. PICK i \in Nat : i = r \div d
  BY <1>1, <1>4
<1>6. PICK j \in 0 .. d - 1 : j = r % d /\ r = i * d + j
  <2>1. r \in Nat
    BY <1>2, <1>4
  <2>2. r % d \in 0 .. d - 1 /\ r = (r \div d) * d + (r % d)
    BY <1>1, <2>1
  <2> QED BY <1>5, <2>2
<1>7. i <= d - 1
  <2>1. SUFFICES ASSUME i >= d PROVE FALSE
    BY <1>1, <1>5
  <2>2. PICK k \in Nat : i = d + k
    <3>1. i - d \in Nat /\ i = d + (i - d)
      BY <1>1, <1>5, <2>1
    <3> QED BY <3>1
  <2>3. i * d = d * d + k * d
    BY <1>1, <2>2
  <2>4. k * d \in Nat
    BY <1>1, Products
  <2> QED BY <1>2, <1>4, <1>6, <2>3, <2>4
<1>8. i \in 0 .. d - 1
  BY <1>1, <1>5, <1>7
<1>9. n = g * (Group * Group) + (i * Group + j)
  BY <1>1, <1>2, <1>4, <1>6
<1>10. GroupOf(n) = g /\ Position(n) = i /\ Column(n) = j /\ BlockOf(n) = g * Group + j
  <2>1. i \in 0 .. Group - 1 /\ j \in 0 .. Group - 1
    BY <1>1, <1>6, <1>8
  <2> QED BY <1>9, <2>1, FromCoordinates
<1> QED BY <1>1, <1>6, <1>8, <1>9, <1>10

(* The piece after a piece: the next block of the group, or the next place *)
(* in its first block, or the first block of the next group.               *)
LEMMA Successor ==
  ASSUME NEW n \in Nat
  PROVE  \/ /\ Column(n) < Group - 1
            /\ GroupOf(n + 1) = GroupOf(n) /\ Position(n + 1) = Position(n)
            /\ Column(n + 1) = Column(n) + 1
         \/ /\ Column(n) = Group - 1 /\ Position(n) < Group - 1
            /\ GroupOf(n + 1) = GroupOf(n) /\ Position(n + 1) = Position(n) + 1
            /\ Column(n + 1) = 0
         \/ /\ Column(n) = Group - 1 /\ Position(n) = Group - 1
            /\ GroupOf(n + 1) = GroupOf(n) + 1 /\ Position(n + 1) = 0
            /\ Column(n + 1) = 0
<1>1. PICK d \in Nat : d = Group /\ d > 0
  BY Constants
<1>2. PICK g \in Nat : g = GroupOf(n)
  BY Coordinates
<1>3. PICK i \in 0 .. d - 1 : i = Position(n)
  BY <1>1, Coordinates
<1>4. PICK j \in 0 .. d - 1 : j = Column(n)
  BY <1>1, Coordinates
<1>5. n = g * (d * d) + (i * d + j)
  BY <1>1, <1>2, <1>3, <1>4, Coordinates
<1>6. PICK m \in Nat : m = n + 1
  OBVIOUS
<1>7. CASE j < d - 1
  <2>1. j + 1 \in 0 .. d - 1
    BY <1>7
  <2>2. m = g * (Group * Group) + (i * Group + (j + 1))
    <3>1. PICK x : x = g * (d * d)
      OBVIOUS
    <3>2. PICK y : y = i * d
      OBVIOUS
    <3>3. x \in Nat /\ y \in Nat
      BY <1>1, <3>1, <3>2, Products
    <3> QED BY <1>1, <1>5, <1>6, <3>1, <3>2, <3>3
  <2>3. GroupOf(m) = g /\ Position(m) = i /\ Column(m) = j + 1
    <3>1. i \in 0 .. Group - 1 /\ j + 1 \in 0 .. Group - 1
      BY <1>1, <2>1
    <3> QED BY <2>2, <3>1, FromCoordinates
  <2> QED BY <1>1, <1>2, <1>3, <1>4, <1>6, <1>7, <2>3
<1>8. CASE j = d - 1 /\ i < d - 1
  <2>1. i + 1 \in 0 .. d - 1 /\ 0 \in 0 .. d - 1
    BY <1>8
  <2>2. (i + 1) * d = i * d + d
    BY <1>1
  <2>3. m = g * (Group * Group) + ((i + 1) * Group + 0)
    <3>1. PICK x : x = g * (d * d)
      OBVIOUS
    <3>2. PICK y : y = i * d
      OBVIOUS
    <3>3. x \in Nat /\ y \in Nat
      BY <1>1, <3>1, <3>2, Products
    <3>4. m = x + (y + d)
      BY <1>1, <1>5, <1>6, <1>8, <3>1, <3>2, <3>3
    <3> QED BY <1>1, <2>2, <3>1, <3>2, <3>3, <3>4
  <2>4. GroupOf(m) = g /\ Position(m) = i + 1 /\ Column(m) = 0
    <3>1. i + 1 \in 0 .. Group - 1 /\ 0 \in 0 .. Group - 1
      BY <1>1, <2>1
    <3> QED BY <2>3, <3>1, FromCoordinates
  <2> QED BY <1>1, <1>2, <1>3, <1>4, <1>6, <1>8, <2>4
<1>9. CASE j = d - 1 /\ i = d - 1
  <2>1. 0 \in 0 .. d - 1 /\ g + 1 \in Nat
    BY <1>1
  <2>2. (g + 1) * (d * d) = g * (d * d) + d * d
    BY <1>1
  <2>3. i * d = d * d - d
    BY <1>1, <1>9
  <2>4. m = (g + 1) * (Group * Group) + (0 * Group + 0)
    <3>1. PICK x : x = g * (d * d)
      OBVIOUS
    <3>2. PICK y : y = d * d
      OBVIOUS
    <3>3. x \in Nat /\ y \in Nat
      BY <1>1, <3>1, <3>2, Products
    <3>4. m = x + y
      BY <1>1, <1>5, <1>6, <1>9, <2>3, <3>1, <3>2, <3>3
    <3>5. 0 * Group + 0 = 0
      BY <1>1
    <3> QED BY <1>1, <2>2, <3>1, <3>2, <3>3, <3>4, <3>5
  <2>5. GroupOf(m) = g + 1 /\ Position(m) = 0 /\ Column(m) = 0
    <3>1. PICK k \in Nat, z \in 0 .. Group - 1 : k = g + 1 /\ z = 0
      BY <1>1, <2>1
    <3>2. m = k * (Group * Group) + (z * Group + z)
      BY <2>4, <3>1
    <3>3. GroupOf(m) = k /\ Position(m) = z /\ Column(m) = z
      BY <3>2, FromCoordinates
    <3> QED BY <3>1, <3>3
  <2> QED BY <1>1, <1>2, <1>3, <1>4, <1>6, <1>9, <2>5
<1> QED BY <1>1, <1>7, <1>8, <1>9

(* How many pieces of block b the source has sent before piece n. *)
Filled(b, n) ==
  IF b \div Group < GroupOf(n) THEN Group
  ELSE IF b \div Group = GroupOf(n) THEN Position(n) + (IF b % Group < Column(n) THEN 1 ELSE 0)
  ELSE 0

(* The block of a piece has its group and its column. *)
LEMMA BlockCoordinates ==
  ASSUME NEW n \in Nat
  PROVE  /\ BlockOf(n) \in Nat
         /\ BlockOf(n) \div Group = GroupOf(n) /\ BlockOf(n) % Group = Column(n)
<1>1. PICK b \in Nat : b = BlockOf(n)
  BY Numbers
<1>2. /\ GroupOf(n) \in Nat /\ Column(n) \in 0 .. Group - 1
      /\ b = GroupOf(n) * Group + Column(n)
  BY <1>1, Coordinates
<1>3. b \div Group = GroupOf(n) /\ b % Group = Column(n)
  <2>1. PICK q \in Nat : q = GroupOf(n)
    BY <1>2
  <2>2. PICK r \in 0 .. Group - 1 : r = Column(n)
    BY <1>2
  <2>3. b = q * Group + r /\ Group \in Nat /\ Group > 0
    BY <1>2, <2>1, <2>2, Constants
  <2> QED BY <2>1, <2>2, <2>3, Divided
<1> QED BY <1>1, <1>3

(* A block is its group and its column. *)
LEMMA BlockIs ==
  ASSUME NEW b \in Nat
  PROVE  /\ b \div Group \in Nat /\ b % Group \in 0 .. Group - 1
         /\ b = (b \div Group) * Group + (b % Group)
<1>1. PICK d \in Nat : d = Group /\ d > 0
  BY Constants
<1>2. b \div d \in Nat /\ b % d \in 0 .. d - 1 /\ b = (b \div d) * d + (b % d)
  BY <1>1
<1> QED BY <1>1, <1>2

(* A block has at most Group pieces. *)
LEMMA FilledBounds ==
  ASSUME NEW b \in Nat, NEW n \in Nat
  PROVE  Filled(b, n) \in 0 .. Group
<1>1. Position(n) \in 0 .. Group - 1 /\ Group \in Nat /\ Group > 0
  BY Coordinates, Constants
<1> QED BY <1>1 DEF Filled

(* A piece adds itself to its block, and nothing to the others. *)
LEMMA FilledStep ==
  ASSUME NEW n \in Nat
  PROVE  /\ Filled(BlockOf(n), n) = Position(n) /\ Position(n) < Group
         /\ Filled(BlockOf(n), n + 1) = Position(n) + 1
         /\ \A b \in Nat : b # BlockOf(n) => Filled(b, n + 1) = Filled(b, n)
<1>1. PICK d \in Nat : d = Group /\ d > 0
  BY Constants
<1>2. PICK g \in Nat : g = GroupOf(n)
  BY Coordinates
<1>3. PICK i \in 0 .. d - 1 : i = Position(n)
  BY <1>1, Coordinates
<1>4. PICK j \in 0 .. d - 1 : j = Column(n)
  BY <1>1, Coordinates
<1>5. PICK x : x = BlockOf(n) \div Group
  OBVIOUS
<1>6. PICK y : y = BlockOf(n) % Group
  OBVIOUS
<1>7. x = g /\ y = j
  BY <1>2, <1>4, <1>5, <1>6, BlockCoordinates
<1>8. Filled(BlockOf(n), n) = Position(n) /\ Position(n) < Group
  <2>1. Filled(BlockOf(n), n) =
          IF x < g THEN d ELSE IF x = g THEN i + (IF y < j THEN 1 ELSE 0) ELSE 0
    BY <1>1, <1>2, <1>3, <1>4, <1>5, <1>6, Zenon DEF Filled
  <2> QED BY <1>1, <1>2, <1>3, <1>4, <1>7, <2>1
<1>9. PICK gg \in Nat, ii \in 0 .. d - 1, jj \in 0 .. d - 1 :
        gg = GroupOf(n + 1) /\ ii = Position(n + 1) /\ jj = Column(n + 1)
  <2>1. n + 1 \in Nat
    OBVIOUS
  <2>2. GroupOf(n + 1) \in Nat /\ Position(n + 1) \in 0 .. d - 1 /\ Column(n + 1) \in 0 .. d - 1
    BY <1>1, <2>1, Coordinates
  <2> QED BY <2>2
<1>10. \/ j < d - 1 /\ gg = g /\ ii = i /\ jj = j + 1
       \/ j = d - 1 /\ i < d - 1 /\ gg = g /\ ii = i + 1 /\ jj = 0
       \/ j = d - 1 /\ i = d - 1 /\ gg = g + 1 /\ ii = 0 /\ jj = 0
  BY <1>1, <1>2, <1>3, <1>4, <1>9, Successor
<1>11. Filled(BlockOf(n), n + 1) = Position(n) + 1
  <2>1. Filled(BlockOf(n), n + 1) =
          IF x < gg THEN d ELSE IF x = gg THEN ii + (IF y < jj THEN 1 ELSE 0) ELSE 0
    BY <1>1, <1>9, <1>5, <1>6, Zenon DEF Filled
  <2> QED BY <1>1, <1>3, <1>7, <1>10, <2>1
<1>12. ASSUME NEW b \in Nat, b # BlockOf(n) PROVE Filled(b, n + 1) = Filled(b, n)
  <2>1. PICK u \in Nat : u = b \div Group
    BY BlockIs
  <2>2. PICK v \in 0 .. d - 1 : v = b % Group
    BY <1>1, BlockIs
  <2>3. b = u * d + v /\ BlockOf(n) = g * d + j
    BY <1>1, <1>2, <1>4, <2>1, <2>2, BlockIs, Coordinates
  <2>4. u = g => v # j
    BY <1>12, <2>3
  <2>5. Filled(b, n) = IF u < g THEN d ELSE IF u = g THEN i + (IF v < j THEN 1 ELSE 0) ELSE 0
    BY <1>1, <1>2, <1>3, <1>4, <2>1, <2>2, Zenon DEF Filled
  <2>6. Filled(b, n + 1) =
          IF u < gg THEN d ELSE IF u = gg THEN ii + (IF v < jj THEN 1 ELSE 0) ELSE 0
    BY <1>1, <1>9, <2>1, <2>2, Zenon DEF Filled
  <2> QED BY <1>1, <1>10, <2>4, <2>5, <2>6
<1> QED BY <1>8, <1>11, <1>12

(* The blocks of one group have slots of their own. *)
LEMMA SlotsDiffer ==
  ASSUME NEW a \in Nat, NEW b \in Nat, a \div Group = b \div Group, SlotOf(a) = SlotOf(b)
  PROVE  a = b
<1>1. PICK d \in Nat : d = Group /\ d > 0
  BY Constants
<1>2. PICK S \in Nat : S = Slots /\ S > 0 /\ S % d = 0
  BY <1>1, Constants
<1>3. S >= d
  <2>1. S = (S \div d) * d + (S % d) /\ S \div d \in Nat
    BY <1>1, <1>2
  <2>2. S \div d # 0
    <3>1. SUFFICES ASSUME S \div d = 0 PROVE FALSE
      OBVIOUS
    <3>2. 0 * d = 0
      BY <1>1
    <3> QED BY <1>2, <2>1, <3>1, <3>2
  <2>3. PICK k \in Nat : k = S \div d /\ k > 0
    BY <2>1, <2>2
  <2>4. S = k * d
    BY <1>1, <1>2, <2>1, <2>3
  <2> QED BY <1>1, <2>3, <2>4, Products
<1>4. PICK r : r = a % S
  OBVIOUS
<1>5. r = b % S /\ r \in Nat
  BY <1>2, <1>4 DEF SlotOf
<1>6. PICK x \in Nat, y \in Nat : a = x * S + r /\ b = y * S + r
  <2>1. a = (a \div S) * S + (a % S) /\ a \div S \in Nat
    BY <1>2
  <2>2. b = (b \div S) * S + (b % S) /\ b \div S \in Nat
    BY <1>2
  <2> QED BY <1>4, <1>5, <2>1, <2>2
<1>7. PICK q \in Nat : q = a \div Group
  BY BlockIs
<1>8. PICK v \in 0 .. d - 1, w \in 0 .. d - 1 : a = q * d + v /\ b = q * d + w
  <2>1. a % Group \in 0 .. d - 1 /\ a = q * d + (a % Group)
    BY <1>1, <1>7, BlockIs
  <2>2. b % Group \in 0 .. d - 1 /\ b = q * d + (b % Group)
    BY <1>1, <1>7, BlockIs
  <2> QED BY <2>1, <2>2
<1>9. a - b < d /\ b - a < d
  <2>1. PICK z \in Nat : z = q * d
    BY <1>1, Products
  <2> QED BY <1>1, <1>8, <2>1
<1>10. x = y
  <2>1. ASSUME NEW i \in Nat, NEW j \in Nat, i < j, NEW u \in Nat, NEW t \in Nat,
               u = i * S + r, t = j * S + r
        PROVE  t - u >= S
    <3>1. PICK k \in Nat : j = i + k /\ k > 0
      <4>1. j - i \in Nat /\ j = i + (j - i) /\ j - i > 0
        BY <2>1
      <4> QED BY <4>1
    <3>2. j * S = i * S + k * S
      BY <1>2, <3>1
    <3>3. k * S >= S
      BY <1>2, <3>1, Products
    <3>4. PICK m \in Nat, n \in Nat : m = i * S /\ n = k * S
      BY <1>2, <3>1, Products
    <3> QED BY <1>5, <2>1, <3>2, <3>3, <3>4
  <2>2. CASE x < y
    <3>1. b - a >= S
      BY <1>6, <2>1, <2>2
    <3> QED BY <1>1, <1>2, <1>3, <1>9, <3>1
  <2>3. CASE y < x
    <3>1. a - b >= S
      BY <1>6, <2>1, <2>3
    <3> QED BY <1>1, <1>2, <1>3, <1>9, <3>1
  <2> QED BY <2>2, <2>3
<1> QED BY <1>6, <1>10

(* The other blocks of the group that are filled after a piece were so     *)
(* before it.                                                              *)
LEMMA GroupNext ==
  ASSUME NEW n \in Nat, NEW a \in Nat, a # BlockOf(n), a \div Group = GroupOf(n + 1),
         Filled(a, n + 1) > 0
  PROVE  a \div Group = GroupOf(n) /\ Filled(a, n) > 0
<1>1. Filled(a, n) > 0
  BY FilledStep
<1>2. CASE GroupOf(n + 1) = GroupOf(n)
  BY <1>1, <1>2
<1>3. CASE Position(n + 1) = 0 /\ Column(n + 1) = 0
  <2>1. a % Group \in 0 .. Group - 1
    BY BlockIs
  <2>2. PICK v : v = a % Group
    OBVIOUS
  <2>3. ~(v < 0)
    BY <2>1, <2>2, Constants
  <2>4. GroupOf(n + 1) \in Nat
    <3>1. n + 1 \in Nat
      OBVIOUS
    <3> QED BY <3>1, Coordinates
  <2>5. Filled(a, n + 1) = 0
    <3>1. Filled(a, n + 1) = Position(n + 1) + (IF v < Column(n + 1) THEN 1 ELSE 0)
      BY <2>2, <2>4 DEF Filled
    <3> QED BY <1>3, <2>3, <3>1
  <2> QED BY <2>5
<1> QED BY <1>2, <1>3, Successor

(* Putting one in front of a list, or at its end, puts it on the list. *)
LEMMA OneMore ==
  ASSUME NEW l \in Seq(Conns), NEW c \in Conns
  PROVE  /\ ToSet(<<c>> \o l) = {c} \union ToSet(l)
         /\ ToSet(Append(l, c)) = {c} \union ToSet(l)
<1>1. PICK k \in Nat : k = Len(l)
  OBVIOUS
<1>2. ToSet(l) = {l[i] : i \in 1 .. k}
  BY <1>1 DEF ToSet
<1>3. PICK f : f = <<c>> \o l
  OBVIOUS
<1>4. /\ f \in Seq(Conns) /\ Len(f) = k + 1 /\ f[1] = c
      /\ \A i \in 1 .. k : f[i + 1] = l[i]
  BY <1>1, <1>3
<1>5. ToSet(f) = {f[i] : i \in 1 .. k + 1}
  <2>1. DOMAIN f = 1 .. k + 1
    BY <1>4
  <2> QED BY <2>1 DEF ToSet
<1>6. ToSet(f) = {c} \union ToSet(l)
  <2>1. ASSUME NEW x \in ToSet(f) PROVE x = c \/ x \in ToSet(l)
    <3>1. PICK i \in 1 .. k + 1 : x = f[i]
      BY <1>5, <2>1
    <3>2. CASE i = 1
      BY <1>4, <3>1, <3>2
    <3>3. CASE i # 1
      <4>1. i - 1 \in 1 .. k /\ (i - 1) + 1 = i
        BY <3>1, <3>3
      <4>2. x = l[i - 1]
        BY <1>4, <3>1, <4>1
      <4> QED BY <1>2, <4>1, <4>2
    <3> QED BY <3>2, <3>3
  <2>2. c \in ToSet(f)
    <3>1. 1 \in 1 .. k + 1
      OBVIOUS
    <3> QED BY <1>4, <1>5, <3>1
  <2>3. ASSUME NEW x \in ToSet(l) PROVE x \in ToSet(f)
    <3>1. PICK i \in 1 .. k : x = l[i]
      BY <1>2, <2>3
    <3>2. i + 1 \in 1 .. k + 1 /\ f[i + 1] = x
      BY <1>4, <3>1
    <3> QED BY <1>5, <3>2
  <2> QED BY <2>1, <2>2, <2>3
<1>7. PICK g : g = Append(l, c)
  OBVIOUS
<1>8. /\ g \in Seq(Conns) /\ Len(g) = k + 1 /\ g[k + 1] = c
      /\ \A i \in 1 .. k : g[i] = l[i]
  BY <1>1, <1>7
<1>9. ToSet(g) = {g[i] : i \in 1 .. k + 1}
  <2>1. DOMAIN g = 1 .. k + 1
    BY <1>8
  <2> QED BY <2>1 DEF ToSet
<1>10. ToSet(g) = {c} \union ToSet(l)
  <2>1. ASSUME NEW x \in ToSet(g) PROVE x = c \/ x \in ToSet(l)
    <3>1. PICK i \in 1 .. k + 1 : x = g[i]
      BY <1>9, <2>1
    <3>2. CASE i = k + 1
      BY <1>8, <3>1, <3>2
    <3>3. CASE i # k + 1
      <4>1. i \in 1 .. k
        BY <3>1, <3>3
      <4> QED BY <1>2, <1>8, <3>1, <4>1
    <3> QED BY <3>2, <3>3
  <2>2. c \in ToSet(g)
    <3>1. k + 1 \in 1 .. k + 1
      OBVIOUS
    <3> QED BY <1>8, <1>9, <3>1
  <2>3. ASSUME NEW x \in ToSet(l) PROVE x \in ToSet(g)
    <3>1. PICK i \in 1 .. k : x = l[i]
      BY <1>2, <2>3
    <3>2. i \in 1 .. k + 1 /\ g[i] = x
      BY <1>8, <3>1
    <3> QED BY <1>9, <3>2
  <2> QED BY <2>1, <2>2, <2>3
<1> QED BY <1>3, <1>6, <1>7, <1>10

(* Who is behind another on a list is on the list. *)
LEMMA PartOfList ==
  ASSUME NEW l \in Seq(Conns)
  PROVE  /\ l # <<>> => l[1] \in ToSet(l) /\ ToSet(Tail(l)) \subseteq ToSet(l)
         /\ \A c : ToSet(After(l, c)) \subseteq ToSet(l)
<1>1. PICK k \in Nat : k = Len(l)
  OBVIOUS
<1>2. ToSet(l) = {l[i] : i \in 1 .. k}
  BY <1>1 DEF ToSet
<1>3. ASSUME l # <<>> PROVE l[1] \in ToSet(l) /\ ToSet(Tail(l)) \subseteq ToSet(l)
  <2>1. k >= 1 /\ 1 \in 1 .. k
    BY <1>1, <1>3
  <2>2. PICK t : t = Tail(l)
    OBVIOUS
  <2>3. t \in Seq(Conns) /\ Len(t) = k - 1 /\ \A i \in 1 .. k - 1 : t[i] = l[i + 1]
    BY <1>1, <1>3, <2>1, <2>2
  <2>4. ToSet(t) = {t[i] : i \in 1 .. k - 1}
    <3>1. DOMAIN t = 1 .. k - 1
      BY <2>3
    <3> QED BY <3>1 DEF ToSet
  <2>5. ASSUME NEW x \in ToSet(t) PROVE x \in ToSet(l)
    <3>1. PICK i \in 1 .. k - 1 : x = t[i]
      BY <2>4, <2>5
    <3>2. i + 1 \in 1 .. k /\ x = l[i + 1]
      BY <2>3, <3>1
    <3> QED BY <1>2, <3>2
  <2> QED BY <1>2, <2>1, <2>2, <2>5
<1>4. ASSUME NEW c PROVE ToSet(After(l, c)) \subseteq ToSet(l)
  <2>1. PICK m : m \in 0 .. k /\ After(l, c) = SubSeq(l, m + 1, k)
    BY <1>1, AfterIs
  <2>2. PICK t : t = SubSeq(l, m + 1, k)
    OBVIOUS
  <2>3. t \in Seq(Conns) /\ Len(t) = k - m /\ \A i \in 1 .. k - m : t[i] = l[m + i]
    BY <1>1, <2>1, <2>2
  <2>4. ToSet(t) = {t[i] : i \in 1 .. k - m}
    BY <2>1, <2>3 DEF ToSet
  <2>5. ASSUME NEW x \in ToSet(t) PROVE x \in ToSet(l)
    <3>1. PICK i \in 1 .. k - m : x = t[i]
      BY <2>4, <2>5
    <3>2. m + i \in 1 .. k /\ x = l[m + i]
      BY <2>1, <2>3, <3>1
    <3> QED BY <1>2, <3>2
  <2> QED BY <2>1, <2>2, <2>5
<1> QED BY <1>3, <1>4

(* The requests that are for block b, among the first n of list w. *)
Asking(rq, w, b, n) == {c \in {w[i] : i \in 1 .. n} : rq[c].id = b}
Others(rq, w, b, n) == {c \in {w[i] : i \in 1 .. n} : rq[c].id # b}

(* The first n of a list and those after one more. *)
LEMMA OneLonger ==
  ASSUME NEW w \in Seq(Conns), NEW rq, NEW b, NEW n \in 1 .. Len(w)
  PROVE  /\ w[n] \in Conns
         /\ rq[w[n]].id = b => /\ Asking(rq, w, b, n) = Asking(rq, w, b, n - 1) \union {w[n]}
                               /\ Others(rq, w, b, n) = Others(rq, w, b, n - 1)
         /\ rq[w[n]].id # b => /\ Asking(rq, w, b, n) = Asking(rq, w, b, n - 1)
                               /\ Others(rq, w, b, n) = Others(rq, w, b, n - 1) \union {w[n]}
<1>1. {w[i] : i \in 1 .. n} = {w[i] : i \in 1 .. n - 1} \union {w[n]}
  <2>1. \A i \in 1 .. n : i = n \/ i \in 1 .. n - 1
    OBVIOUS
  <2>2. n \in 1 .. n /\ \A i \in 1 .. n - 1 : i \in 1 .. n
    OBVIOUS
  <2> QED BY <2>1, <2>2
<1>2. w[n] \in Conns
  OBVIOUS
<1>3. PICK s : s = {w[i] : i \in 1 .. n - 1}
  OBVIOUS
<1>4. Asking(rq, w, b, n) = {c \in s \union {w[n]} : rq[c].id = b} /\ Asking(rq, w, b, n - 1) = {c \in s : rq[c].id = b}
  BY <1>1, <1>3 DEF Asking
<1>5. Others(rq, w, b, n) = {c \in s \union {w[n]} : rq[c].id # b} /\ Others(rq, w, b, n - 1) = {c \in s : rq[c].id # b}
  BY <1>1, <1>3 DEF Others
<1> QED BY <1>2, <1>4, <1>5

(* The list of the getter has those that wait for the block, and those     *)
(* that were on it; the others stay on the list of the item.               *)
LEMMA DueIs ==
  ASSUME wait_list \in Seq(Conns), NEW b, NEW list \in Seq(Conns)
  PROVE  /\ ToSet(Due(b, list)) = ToSet(list) \union {c \in ToSet(wait_list) : request[c].id = b}
         /\ ToSet(StillAhead(b)) = {c \in ToSet(wait_list) : request[c].id # b}
<1>1. PICK f \in [0 .. Len(wait_list) -> Seq(Conns)] :
        /\ IsMoved(f, request, wait_list, b, list)
        /\ f = CHOOSE g : IsMoved(g, request, wait_list, b, list)
  BY MovedTyped
<1>2. PICK h \in [0 .. Len(wait_list) -> Seq(Conns)] :
        /\ IsKept(h, request, wait_list, b)
        /\ h = CHOOSE g : IsKept(g, request, wait_list, b)
  BY KeptTyped
<1>3. Due(b, list) = (CHOOSE g : IsMoved(g, request, wait_list, b, list))[Len(wait_list)]
  BY Zenon DEF Due, IsMoved
<1>4. StillAhead(b) = (CHOOSE g : IsKept(g, request, wait_list, b))[Len(wait_list)]
  BY Zenon DEF StillAhead, IsKept
<1>5. Due(b, list) = f[Len(wait_list)] /\ StillAhead(b) = h[Len(wait_list)]
  BY <1>1, <1>2, <1>3, <1>4, Zenon
<1>6. PICK w, rq : w = wait_list /\ rq = request
  OBVIOUS
<1>7. PICK k \in Nat : k = Len(w)
  BY <1>6
<1>8. /\ f \in [0 .. k -> Seq(Conns)] /\ h \in [0 .. k -> Seq(Conns)]
      /\ f[0] = list /\ h[0] = <<>>
  <2>1. 0 \in 0 .. Len(w)
    BY <1>7
  <2>2. f[0] = list
    BY <1>1, <1>6, <2>1 DEF IsMoved
  <2>3. h[0] = <<>>
    BY <1>2, <1>6, <2>1 DEF IsKept
  <2> QED BY <1>1, <1>2, <1>6, <1>7, <2>2, <2>3
<1>9. ASSUME NEW n \in 1 .. k
      PROVE  /\ f[n] = IF rq[w[n]].id = b THEN <<w[n]>> \o f[n - 1] ELSE f[n - 1]
             /\ h[n] = IF rq[w[n]].id = b THEN h[n - 1] ELSE Append(h[n - 1], w[n])
  <2>1. n \in 0 .. Len(w) /\ n # 0
    BY <1>7
  <2>2. IsMoved(f, rq, w, b, list) /\ IsKept(h, rq, w, b)
    BY <1>1, <1>2, <1>6
  <2>3. f[n] = IF rq[w[n]].id = b THEN <<w[n]>> \o f[n - 1] ELSE f[n - 1]
    BY <2>1, <2>2, Zenon DEF IsMoved
  <2>4. h[n] = IF rq[w[n]].id = b THEN h[n - 1] ELSE Append(h[n - 1], w[n])
    BY <2>1, <2>2, Zenon DEF IsKept
  <2> QED BY <2>3, <2>4
<1> DEFINE Good(n) == /\ ToSet(f[n]) = ToSet(list) \union Asking(rq, w, b, n)
                      /\ ToSet(h[n]) = Others(rq, w, b, n)
<1>10. Good(0)
  <2>1. Asking(rq, w, b, 0) = {} /\ Others(rq, w, b, 0) = {}
    BY DEF Asking, Others
  <2>2. ToSet(h[0]) = {}
    BY <1>8 DEF ToSet
  <2> QED BY <1>8, <2>1, <2>2
<1>11. ASSUME NEW n \in 1 .. k, Good(n - 1) PROVE Good(n)
  <2>1. n - 1 \in 0 .. k /\ n \in 1 .. Len(w) /\ w \in Seq(Conns)
    BY <1>6, <1>7
  <2>2. PICK l \in Seq(Conns), m \in Seq(Conns), c \in Conns :
          l = f[n - 1] /\ m = h[n - 1] /\ c = w[n]
    BY <1>8, <2>1, OneLonger
  <2>3. /\ ToSet(<<c>> \o l) = {c} \union ToSet(l)
        /\ ToSet(Append(m, c)) = {c} \union ToSet(m)
    BY OneMore
  <2>4. PICK a : a = Asking(rq, w, b, n - 1)
    OBVIOUS
  <2>5. PICK o : o = Others(rq, w, b, n - 1)
    OBVIOUS
  <2>6. ToSet(l) = ToSet(list) \union a /\ ToSet(m) = o
    BY <1>11, <2>2, <2>4, <2>5
  <2>7. CASE rq[c].id = b
    <3>1. Asking(rq, w, b, n) = a \union {c} /\ Others(rq, w, b, n) = o
      BY <2>1, <2>2, <2>4, <2>5, <2>7, OneLonger
    <3>2. f[n] = <<c>> \o l /\ h[n] = m
      BY <1>9, <2>2, <2>7
    <3> QED BY <2>3, <2>6, <3>1, <3>2
  <2>8. CASE rq[c].id # b
    <3>1. Asking(rq, w, b, n) = a /\ Others(rq, w, b, n) = o \union {c}
      BY <2>1, <2>2, <2>4, <2>5, <2>8, OneLonger
    <3>2. f[n] = l /\ h[n] = Append(m, c)
      BY <1>9, <2>2, <2>8
    <3> QED BY <2>3, <2>6, <3>1, <3>2
  <2> QED BY <2>7, <2>8
<1> HIDE DEF Good
<1>12. Good(k)
  <2> DEFINE Bad == {n \in Nat : n <= k /\ ~Good(n)}
  <2> SUFFICES ASSUME ~Good(k) PROVE FALSE
    OBVIOUS
  <2>0. Bad # {}
    <3>1. k \in Bad
      BY <1>7
    <3> QED BY <3>1
  <2>1. PICK n \in Bad : \A m \in Bad : n <= m
    BY <2>0, LeastOf
  <2>2. n # 0
    BY <1>10, <2>1
  <2>3. n \in 1 .. k /\ n - 1 \in Nat /\ n - 1 <= k /\ ~(n <= n - 1)
    BY <1>7, <2>1, <2>2
  <2>4. Good(n - 1)
    BY <2>1, <2>3
  <2> QED BY <1>11, <2>1, <2>3, <2>4
<1>13. {w[i] : i \in 1 .. k} = ToSet(w)
  BY <1>6, <1>7 DEF ToSet
<1> QED BY <1>5, <1>6, <1>7, <1>12, <1>13 DEF Good, Asking, Others

(* What there is of a block does not get less. *)
LEMMA FilledGrows ==
  ASSUME NEW b \in Nat, NEW n \in Nat
  PROVE  Filled(b, n) \in Nat /\ Filled(b, n + 1) \in Nat /\ Filled(b, n) <= Filled(b, n + 1)
<1>1. Filled(b, n) \in Nat
  BY FilledBounds, Constants
<1>2. Filled(b, n + 1) \in Nat
  <2>1. n + 1 \in Nat
    OBVIOUS
  <2> QED BY <2>1, FilledBounds, Constants
<1>3. CASE b = BlockOf(n)
  <2>1. Filled(b, n) = Position(n) /\ Filled(b, n + 1) = Position(n) + 1
    BY <1>3, FilledStep
  <2> QED BY <1>1, <1>2, <2>1, Coordinates
<1>4. CASE b # BlockOf(n)
  <2>1. Filled(b, n + 1) = Filled(b, n)
    BY <1>4, FilledStep
  <2> QED BY <1>1, <1>2, <2>1
<1> QED BY <1>1, <1>2, <1>3, <1>4

(* Of the block of a piece that was sent there is something. *)
LEMMA SentIsThere ==
  ASSUME NEW m \in Nat, NEW n \in Nat, m < n
  PROVE  Filled(BlockOf(m), n) > 0
<1>1. PICK b \in Nat : b = BlockOf(m)
  BY Numbers
<1>2. Filled(b, m + 1) = Position(m) + 1 /\ Position(m) \in Nat
  BY <1>1, FilledStep, Numbers
<1> DEFINE Bad == {k \in Nat : k > m /\ ~(Filled(b, k) > 0)}
<1>3. SUFFICES ASSUME Bad # {} PROVE FALSE
  <2>1. n \notin Bad
    BY <1>3
  <2> QED BY <1>1, <2>1
<1>4. PICK k \in Bad : \A j \in Bad : k <= j
  BY <1>3, LeastOf
<1>5. k # m + 1
  BY <1>2, <1>4
<1>6. PICK j \in Nat : k = j + 1 /\ j > m /\ ~(k <= j)
  <2>1. k - 1 \in Nat /\ k = (k - 1) + 1 /\ k - 1 > m /\ ~(k <= k - 1)
    BY <1>4, <1>5
  <2> QED BY <2>1
<1>7. Filled(b, j) > 0
  BY <1>4, <1>6
<1>8. Filled(b, j) \in Nat /\ Filled(b, j + 1) \in Nat /\ Filled(b, j) <= Filled(b, j + 1)
  BY <1>1, FilledGrows
<1> QED BY <1>4, <1>6, <1>7, <1>8

(* The blocks start after those of the first group. *)
LEMMA BlockIsLater ==
  ASSUME NEW n \in Nat, n >= Group * Group
  PROVE  BlockOf(n) \in Nat /\ BlockOf(n) > 0
<1>1. PICK d \in Nat : d = Group /\ d > 0
  BY Constants
<1>2. PICK g \in Nat : g = GroupOf(n)
  BY Coordinates
<1>3. PICK i \in 0 .. d - 1 : i = Position(n)
  BY <1>1, Coordinates
<1>4. PICK j \in 0 .. d - 1 : j = Column(n)
  BY <1>1, Coordinates
<1>5. n = g * (d * d) + (i * d + j) /\ BlockOf(n) = g * d + j
  BY <1>1, <1>2, <1>3, <1>4, Coordinates
<1>6. g > 0
  <2>1. SUFFICES ASSUME g = 0 PROVE FALSE
    BY <1>2
  <2>2. n = i * d + j
    BY <1>1, <1>5, <2>1
  <2>3. PICK k \in Nat : i + k + 1 = d
    <3>1. d - 1 - i \in Nat /\ i + (d - 1 - i) + 1 = d
      BY <1>1, <1>3
    <3> QED BY <3>1
  <2>4. d * d = i * d + k * d + d
    <3>1. (i + k + 1) * d = i * d + k * d + d
      BY <1>1, <1>3, <2>3
    <3> QED BY <2>3, <3>1
  <2>5. PICK u \in Nat, v \in Nat, e \in Nat : u = i * d /\ v = k * d /\ e = d * d
    BY <1>1, <1>3, <2>3, Products
  <2>6. n < e
    BY <1>1, <1>4, <2>2, <2>4, <2>5
  <2> QED BY <1>1, <2>5, <2>6
<1>7. g * d > 0 /\ g * d \in Nat
  BY <1>1, <1>6, Products
<1> QED BY <1>4, <1>5, <1>7

(* A block above that of the last piece is of the group being filled or    *)
(* later.                                                                  *)
LEMMA AboveIsNotBefore ==
  ASSUME NEW n \in Nat, NEW b \in Nat, b > BlockOf(n)
  PROVE  ~(b \div Group < GroupOf(n + 1))
<1>1. PICK d \in Nat : d = Group /\ d > 0
  BY Constants
<1>2. PICK g \in Nat : g = GroupOf(n)
  BY Coordinates
<1>3. PICK j \in 0 .. d - 1 : j = Column(n)
  BY <1>1, Coordinates
<1>4. BlockOf(n) = g * d + j
  BY <1>1, <1>2, <1>3, Coordinates
<1>5. PICK u \in Nat : u = b \div Group
  BY BlockIs
<1>6. PICK v \in 0 .. d - 1 : v = b % Group
  BY <1>1, BlockIs
<1>7. b = u * d + v
  BY <1>1, <1>5, <1>6, BlockIs
<1>8. SUFFICES ASSUME u < GroupOf(n + 1) PROVE FALSE
  BY <1>5
<1>9. \/ GroupOf(n + 1) = g
      \/ GroupOf(n + 1) = g + 1 /\ j = d - 1
  BY <1>1, <1>2, <1>3, Successor
<1>10. u <= g /\ (u = g => j = d - 1)
  BY <1>8, <1>9
<1>11. PICK k \in Nat : g = u + k
  <2>1. g - u \in Nat /\ g = u + (g - u)
    BY <1>10
  <2> QED BY <2>1
<1>12. g * d = u * d + k * d /\ (k > 0 => k * d >= d) /\ k * d \in Nat /\ u * d \in Nat
  <2>1. (u + k) * d = u * d + k * d
    BY <1>1
  <2>2. k * d \in Nat /\ u * d \in Nat /\ (k > 0 => k * d >= d)
    BY <1>1, Products
  <2> QED BY <1>11, <2>1, <2>2
<1>13. PICK x \in Nat, y \in Nat : x = u * d /\ y = k * d
  BY <1>12
<1>14. BlockOf(n) = x + y + j /\ b = x + v /\ (k > 0 => y >= d)
  BY <1>4, <1>7, <1>12, <1>13
<1>15. CASE k = 0
  <2>1. j = d - 1
    BY <1>10, <1>11, <1>15
  <2> QED BY <1>14, <2>1
<1>16. CASE k > 0
  BY <1>14, <1>16
<1> QED BY <1>15, <1>16
-----------------------------------------------------------------------------
(* Who is on which list, and what the threads may hold.                    *)

BlockType ==
  [id : Nat, head : Pieces \union {NULL}, tail : Pieces \union {NULL}, wait_list : Seq(Conns)]
RequestType == [id : Nat \union {NULL}, slot : Places \union {NULL}]
ValType == [p : Pieces \union {NULL}, n : Int]

PoolTyped ==
  /\ pool \in Seq(Pieces)
  /\ holds \in [Pieces -> Nat \union {NULL}]
  /\ NextType(next)
  /\ ref \in [Pieces -> Int]
  /\ piece \in Pieces \union {NULL} /\ bp \in Pieces \union {NULL}
  /\ index \in Nat /\ index >= 1

ListsTyped ==
  /\ block \in [Places -> BlockType]
  /\ wait_list \in Seq(Conns)
  /\ walk \in Seq(Conns)

ConnsTyped ==
  /\ conn \in [Conns -> {"idle", "ahead", "serving", "parked", "woken", "closed"}]
  /\ pending \in [Conns -> {"none", "header", "piece"}]
  /\ request \in [Conns -> RequestType]
  /\ at \in [Conns -> Pieces \union {NULL}]
  /\ piece_head \in [Conns -> Pieces \union {NULL}]
  /\ got \in [Conns -> Nat]
  /\ overtaken \subseteq Conns

(* The stages of on_write_piece. *)
Working == {"write", "park", "ref", "test", "free", "follow"}

HandsTyped ==
  /\ hand \in [Threads -> Conns \union {NULL}]
  /\ step \in [Threads -> Working \union {"count", "header", "headref", "headtest", "next", "return"}]
  /\ val \in [Threads -> ValType]

Typed == PoolTyped /\ ListsTyped /\ ConnsTyped /\ HandsTyped

(* A thread in on_write_piece has a connection that is being served, and   *)
(* that the other one is not in on_write_piece with; before, it has a      *)
(* piece to give back.                                                     *)
ThreadSound(t) ==
  IF hand[t] = NULL THEN step[t] = "return" \/ (t = "getter" /\ step[t] = "next")
  ELSE /\ \/ step[t] \in Working
          \/ t = "main" /\ step[t] \in {"count", "header", "headref", "headtest"}
       /\ step[t] \in Working \union {"count"} =>
            conn[hand[t]] = "serving" /\ (t = "main" => hand["getter"] # hand["main"])
       /\ step[t] \in {"headref", "headtest"} => at[hand[t]] # NULL
       /\ step[t] \in {"count", "ref", "headref"} => val[t].p # NULL
       /\ step[t] = "park" => got[hand[t]] > 0

(* A connection that is served has a piece, and who parks has been sent    *)
(* something.                                                              *)
ConnSound(c) ==
  /\ conn[c] \in {"serving", "parked"} =>
       at[c] # NULL /\ piece_head[c] # NULL /\ request[c].slot \in Places
  /\ conn[c] = "ahead" => at[c] = NULL /\ got[c] = 0
  /\ conn[c] = "parked" => got[c] > 0

(* The getter serves the first of its list, with the last piece in the     *)
(* ring.                                                                   *)
WalkSound ==
  /\ hand["getter"] # NULL \/ step["getter"] = "next" => walk # <<>>
  /\ hand["getter"] # NULL => hand["getter"] = walk[1]
  /\ step["getter"] = "next" => conn[walk[1]] # "woken"
  /\ walk # <<>> => block[SlotOf(BlockOf(index - 1))].head # NULL

Waiting(s) == ToSet(block[s].wait_list)

(* Who is parked is on the list of its slot and on no other, who waits for *)
(* a block is on the list of the item, and who is woken is on the getter's *)
(* unless that has missed it.                                              *)
Listed ==
  /\ \A s \in Places : \A c \in Waiting(s) : conn[c] = "parked" /\ request[c].slot = s
  /\ \A c \in Conns : conn[c] = "parked" => /\ request[c].slot \in Places
                                            /\ c \in Waiting(request[c].slot)
  /\ \A c \in Conns : c \in ToSet(wait_list) <=> conn[c] = "ahead"
  /\ \A c \in Conns : conn[c] = "woken" => c \in forgotten \/ c \in ToSet(walk)

(* A request on the item's list is for a block that nothing is there of;   *)
(* one that the getter has taken from there is for the block that it has   *)
(* just opened.                                                            *)
Coming ==
  /\ \A c \in ToSet(wait_list) : request[c].id \in Nat /\ Filled(request[c].id, index) = 0
  /\ \A c \in ToSet(walk) : conn[c] = "woken" /\ got[c] = 0 =>
       request[c].id = BlockOf(index - 1) /\ Position(index - 1) = 0

(* The blocks that are being filled are in their slots. *)
GroupHeld ==
  \A b \in Nat : b \div Group = GroupOf(index) /\ Filled(b, index) > 0 =>
    block[SlotOf(b)].id = b /\ block[SlotOf(b)].head # NULL

(* And a slot has a block that has been begun.                             *)
Opened ==
  /\ GroupHeld
  /\ \A s \in Places :
       /\ block[s].head = NULL <=> block[s].tail = NULL
       /\ IF block[s].head = NULL THEN block[s].id = 0
          ELSE Filled(block[s].id, index) > 0 /\ SlotOf(block[s].id) = s
  /\ index >= Group * Group

WaitInv ==
  /\ Typed
  /\ ThreadSound("main") /\ ThreadSound("getter")
  /\ \A c \in Conns : ConnSound(c)
  /\ WalkSound /\ Listed /\ Coming /\ Opened

(* Who is on a list is a connection. *)
LEMMA WaitersAreConns ==
  ASSUME Typed
  PROVE  /\ \A s \in Places : Waiting(s) \subseteq Conns
         /\ ToSet(wait_list) \subseteq Conns /\ ToSet(walk) \subseteq Conns
<1>1. \A l \in Seq(Conns) : ToSet(l) \subseteq Conns
  BY DEF ToSet
<1>2. wait_list \in Seq(Conns) /\ walk \in Seq(Conns)
  BY DEF Typed, ListsTyped
<1>3. ASSUME NEW s \in Places PROVE Waiting(s) \subseteq Conns
  <2>1. block[s] \in BlockType
    BY DEF Typed, ListsTyped
  <2>2. block[s].wait_list \in Seq(Conns)
    BY <2>1 DEF BlockType
  <2> QED BY <1>1, <2>2 DEF Waiting
<1> QED BY <1>1, <1>2, <1>3

(* Who is listed stays listed where the lists stay. *)
LEMMA ListedKept ==
  ASSUME Typed, Listed, UNCHANGED <<block, wait_list>>,
         \A d \in Conns : conn[d] \in {"parked", "ahead"} \/ conn'[d] \in {"parked", "ahead"} =>
           conn'[d] = conn[d] /\ request'[d] = request[d],
         \A d \in Conns : conn'[d] = "woken" =>
           conn[d] = "woken" /\ (d \in forgotten \/ d \in ToSet(walk) => d \in forgotten' \/ d \in ToSet(walk'))
  PROVE  Listed'
<1>1. \A s : ToSet(block'[s].wait_list) = Waiting(s)
  BY DEF Waiting
<1>2. ASSUME NEW s \in Places, NEW c \in ToSet(block'[s].wait_list)
      PROVE  conn'[c] = "parked" /\ request'[c].slot = s
  <2>1. c \in Waiting(s)
    BY <1>1, <1>2
  <2>2. conn[c] = "parked" /\ request[c].slot = s
    BY <2>1 DEF Listed
  <2>3. c \in Conns
    BY <2>1, WaitersAreConns
  <2> QED BY <2>2, <2>3
<1>3. ASSUME NEW c \in Conns, conn'[c] = "parked"
      PROVE  request'[c].slot \in Places /\ c \in ToSet(block'[request'[c].slot].wait_list)
  <2>1. conn[c] = "parked" /\ request'[c] = request[c]
    BY <1>3
  <2>2. request[c].slot \in Places /\ c \in Waiting(request[c].slot)
    BY <2>1 DEF Listed
  <2> QED BY <1>1, <2>1, <2>2
<1>4. ASSUME NEW c \in Conns PROVE c \in ToSet(wait_list') <=> conn'[c] = "ahead"
  BY DEF Listed
<1>5. ASSUME NEW c \in Conns, conn'[c] = "woken" PROVE c \in forgotten' \/ c \in ToSet(walk')
  BY <1>5 DEF Listed
<1> QED BY <1>2, <1>3, <1>4, <1>5 DEF Listed, Waiting

(* So do requests for what is to come. *)
LEMMA ComingKept ==
  ASSUME Coming, UNCHANGED <<wait_list, index>>,
         \A d \in ToSet(wait_list) : request'[d] = request[d],
         \A d \in ToSet(walk') : conn'[d] = "woken" =>
           d \in ToSet(walk) /\ conn[d] = "woken" /\ got'[d] = got[d] /\ request'[d] = request[d]
  PROVE  Coming'
<1>1. ASSUME NEW d \in ToSet(wait_list')
      PROVE  request'[d].id \in Nat /\ Filled(request'[d].id, index') = 0
  <2>1. d \in ToSet(wait_list) /\ request'[d] = request[d] /\ index' = index
    BY <1>1
  <2>2. request[d].id \in Nat /\ Filled(request[d].id, index) = 0
    BY <2>1 DEF Coming
  <2> QED BY <2>1, <2>2
<1>2. ASSUME NEW d \in ToSet(walk'), conn'[d] = "woken", got'[d] = 0
      PROVE  request'[d].id = BlockOf(index' - 1) /\ Position(index' - 1) = 0
  <2>1. /\ d \in ToSet(walk) /\ conn[d] = "woken" /\ got[d] = 0
        /\ request'[d] = request[d] /\ index' = index
    BY <1>2
  <2>2. request[d].id = BlockOf(index - 1) /\ Position(index - 1) = 0
    BY <2>1 DEF Coming
  <2> QED BY <2>1, <2>2
<1> QED BY <1>1, <1>2 DEF Coming, Filled, BlockOf, Position, GroupOf, Column

(* And the slots have the blocks they had. *)
LEMMA SlotsKept ==
  ASSUME Opened, index' = index,
         \A s \in Places : /\ block'[s].id = block[s].id /\ block'[s].head = block[s].head
                           /\ block'[s].tail = block[s].tail
  PROVE  Opened'
<1>1. ASSUME NEW b \in Nat, b \div Group = GroupOf(index'), Filled(b, index') > 0
      PROVE  block'[SlotOf(b)].id = b /\ block'[SlotOf(b)].head # NULL
  <2>1. SlotOf(b) \in Places
    BY SlotIsPlace
  <2>2. block[SlotOf(b)].id = b /\ block[SlotOf(b)].head # NULL
    BY <1>1 DEF Opened, GroupHeld
  <2> QED BY <2>1, <2>2
<1>2. ASSUME NEW s \in Places
      PROVE  /\ block'[s].head = NULL <=> block'[s].tail = NULL
             /\ IF block'[s].head = NULL THEN block'[s].id = 0
                ELSE Filled(block'[s].id, index') > 0 /\ SlotOf(block'[s].id) = s
  <2>1. /\ block[s].head = NULL <=> block[s].tail = NULL
        /\ IF block[s].head = NULL THEN block[s].id = 0
           ELSE Filled(block[s].id, index) > 0 /\ SlotOf(block[s].id) = s
    BY DEF Opened
  <2> QED BY <2>1
<1>3. index' >= Group * Group
  BY DEF Opened
<1> QED BY <1>1, <1>2, <1>3 DEF Opened, GroupHeld, Filled, GroupOf, Position, Column, SlotOf

(* A thread does something with connection c, which is on no list of the   *)
(* slots or of the item before or after, or stays where it is.             *)
Acts(t, c) ==
  /\ UNCHANGED <<block, wait_list, walk, index, forgotten>>
  /\ \A d \in Conns : d # c =>
       /\ conn'[d] = conn[d] /\ at'[d] = at[d] /\ piece_head'[d] = piece_head[d]
       /\ request'[d] = request[d] /\ got'[d] = got[d]
  /\ \/ conn'[c] = conn[c] /\ request'[c] = request[c] /\ (conn[c] = "woken" => got'[c] = got[c])
     \/ conn[c] \notin {"parked", "ahead"} /\ conn'[c] \notin {"parked", "ahead", "woken"}
  /\ ThreadSound("main")' /\ ThreadSound("getter")' /\ ConnSound(c)'
  /\ hand'["getter"] # NULL \/ step'["getter"] = "next" => walk # <<>>
  /\ hand'["getter"] # NULL => hand'["getter"] = walk[1]
  /\ step'["getter"] = "next" => conn'[walk[1]] # "woken"

(* The invariant is kept. *)
LEMMA ActsKeep ==
  ASSUME WaitInv, Typed', NEW t, NEW c \in Conns, Acts(t, c)
  PROVE  WaitInv'
<1>1. Typed /\ Listed /\ Coming /\ Opened /\ WalkSound /\ \A d \in Conns : ConnSound(d)
  BY DEF WaitInv
<1>2. \A d \in Conns : ConnSound(d)'
  BY <1>1 DEF Acts, ConnSound
<1>3. WalkSound'
  BY <1>1 DEF Acts, WalkSound, SlotOf, BlockOf
<1>4. Listed'
  <2>1. \A d \in Conns : conn[d] \in {"parked", "ahead"} \/ conn'[d] \in {"parked", "ahead"} =>
          conn'[d] = conn[d] /\ request'[d] = request[d]
    BY DEF Acts
  <2>2. \A d \in Conns : conn'[d] = "woken" =>
           conn[d] = "woken" /\ (d \in forgotten \/ d \in ToSet(walk) => d \in forgotten' \/ d \in ToSet(walk'))
    BY DEF Acts
  <2> QED BY <1>1, <2>1, <2>2, ListedKept DEF Acts
<1>5. Coming'
  <2>1. ToSet(wait_list) \subseteq Conns /\ ToSet(walk) \subseteq Conns
    BY <1>1, WaitersAreConns
  <2>2. \A d \in ToSet(wait_list) : request'[d] = request[d]
    BY <1>1, <2>1 DEF Acts, Listed
  <2>3. \A d \in ToSet(walk') : conn'[d] = "woken" =>
          d \in ToSet(walk) /\ conn[d] = "woken" /\ got'[d] = got[d] /\ request'[d] = request[d]
    BY <2>1 DEF Acts
  <2> QED BY <1>1, <2>2, <2>3, ComingKept DEF Acts
<1>6. Opened'
  BY <1>1, SlotsKept DEF Acts
<1> QED BY <1>2, <1>3, <1>4, <1>5, <1>6 DEF WaitInv, Acts

(* A step of the getter alone, on the pool. *)
LEMMA PoolOnly ==
  ASSUME WaitInv, Typed',
         UNCHANGED <<block, wait_list, walk, index, forgotten, conn, at, piece_head, request, got, hand, step, val>>
  PROVE  WaitInv'
<1>1. Typed /\ Listed /\ Coming /\ Opened /\ WalkSound /\ \A d \in Conns : ConnSound(d)
  BY DEF WaitInv
<1>2. ThreadSound("main")' /\ ThreadSound("getter")'
  BY DEF WaitInv, ThreadSound
<1>3. \A d \in Conns : ConnSound(d)'
  BY <1>1 DEF ConnSound
<1>4. WalkSound'
  BY <1>1 DEF WalkSound, SlotOf, BlockOf
<1>5. Listed'
  BY <1>1, ListedKept
<1>6. Coming'
  BY <1>1, ComingKept
<1>7. Opened'
  BY <1>1, SlotsKept
<1> QED BY <1>2, <1>3, <1>4, <1>5, <1>6, <1>7 DEF WaitInv

(* What a thread has at hand.                                              *)
LEMMA AtHand ==
  ASSUME WaitInv, NEW t \in Threads, hand[t] # NULL
  PROVE  /\ hand[t] \in Conns
         /\ step[t] \in Working \union {"count"} =>
              /\ conn[hand[t]] = "serving"
              /\ at[hand[t]] \in Pieces /\ piece_head[hand[t]] \in Pieces
              /\ request[hand[t]].slot \in Places
              /\ t = "main" => hand["getter"] # hand["main"]
              /\ ref[piece_head[hand[t]]] \in Int
         /\ step[t] \in {"headref", "headtest"} => at[hand[t]] \in Pieces
         /\ step[t] \in {"count", "ref", "headref"} => val[t].p \in Pieces
         /\ val[t].n \in Int
<1>1. hand[t] \in Conns /\ val[t] \in ValType
  BY DEF WaitInv, Typed, HandsTyped
<1>2. ThreadSound(t) /\ ConnSound(hand[t])
  BY <1>1 DEF WaitInv, Threads
<1>3. /\ at[hand[t]] \in Pieces \union {NULL} /\ piece_head[hand[t]] \in Pieces \union {NULL}
      /\ request[hand[t]] \in RequestType /\ ref \in [Pieces -> Int]
  BY <1>1 DEF WaitInv, Typed, ConnsTyped, PoolTyped
<1> QED BY <1>1, <1>2, <1>3 DEF ThreadSound, ConnSound, ValType, RequestType

(* Counts that are loaded.                                                 *)
LEMMA ValTyped ==
  /\ [p |-> NULL, n |-> 0] \in ValType
  /\ \A v \in ValType : [v EXCEPT !.n = 0] \in ValType
  BY DEF ValType

(* The pool with one more piece.                                           *)
LEMMA FreedOne ==
  ASSUME NEW p \in Pieces, NEW q \in Seq(Pieces)
  PROVE  Cons(p, q) \in Seq(Pieces)
  BY DEF Cons

(* A piece has been sent, and the next one is there.                       *)
LEMMA PieceSentKeeps ==
  ASSUME WaitInv, NEW t \in Threads, PieceSent(t)
  PROVE  WaitInv'
<1>1. PICK c : c = hand[t]
  OBVIOUS
<1>2. /\ c # NULL /\ c = hand[t] /\ step[t] = "write" /\ next[at[c]] # NULL
      /\ at' = [at EXCEPT ![c] = next[at[c]]] /\ got' = [got EXCEPT ![c] = @ + 1]
      /\ UNCHANGED <<pool, holds, next, ref, block, wait_list, index, piece, bp, walk, forgotten, overtaken, conn, pending, request, piece_head, hand, step, val>>
  BY <1>1 DEF PieceSent, Returns, Ended, Closes, MayAsk, Held, OtherHas, Waits, Taken, NoVal, Threads, poolVars, getterVars, connVars, threadVars, histories
<1>3. Typed /\ ThreadSound("main") /\ ThreadSound("getter") /\ WalkSound /\ ConnSound(c)
  <2>1. c \in Conns
    BY <1>1, <1>2, AtHand DEF Threads
  <2> QED BY <2>1 DEF WaitInv
<1>4. c \in Conns /\ conn[c] = "serving" /\ at[c] \in Pieces /\ piece_head[c] \in Pieces
  BY <1>1, <1>2, <1>3, AtHand, Constants DEF Threads, Working, ThreadSound
<1>5. Typed'
  <2>1. PoolTyped'
    BY <1>2, <1>3, <1>4, Constants DEF Typed, PoolTyped, NextType
  <2>2. ListsTyped'
    BY <1>2, <1>3 DEF Typed, ListsTyped
  <2>3. ConnsTyped'
    BY <1>2, <1>3, <1>4, Constants DEF Typed, ConnsTyped, RequestType, PoolTyped, NextType
  <2>4. HandsTyped'
    BY <1>2, <1>3, <1>4, Constants, ValTyped DEF Typed, HandsTyped, Threads, Working
  <2> QED BY <2>1, <2>2, <2>3, <2>4 DEF Typed
<1>6. ThreadSound("main")' /\ ThreadSound("getter")'
  BY <1>2, <1>3, <1>4, Constants DEF ThreadSound, Working, Threads, Typed, HandsTyped, ConnsTyped, ValType
<1>7. ConnSound(c)'
  BY <1>2, <1>3, <1>4, Constants DEF ConnSound, Typed, ConnsTyped
<1>8. Acts(t, c)
  BY <1>2, <1>3, <1>4, <1>6, <1>7, Constants DEF Acts, WalkSound, ThreadSound, Working, Threads, Typed, HandsTyped, ConnsTyped
<1> QED BY <1>4, <1>5, <1>8, ActsKeep

(* A reader has seen that there is no more.                                *)
LEMMA CaughtUpKeeps ==
  ASSUME WaitInv, NEW t \in Threads, CaughtUp(t)
  PROVE  WaitInv'
<1>1. PICK c : c = hand[t]
  OBVIOUS
<1>2. /\ c # NULL /\ c = hand[t] /\ step[t] = "write"
      /\ got' = [got EXCEPT ![c] = @ + 1] /\ step' = [step EXCEPT ![t] = "park"]
      /\ UNCHANGED <<pool, holds, next, ref, block, wait_list, index, piece, bp, walk, forgotten, overtaken, conn, pending, request, at, piece_head, hand, val>>
  BY <1>1 DEF CaughtUp, Returns, Ended, Closes, MayAsk, Held, OtherHas, Waits, Taken, NoVal, Threads, poolVars, getterVars, connVars, threadVars, histories
<1>3. Typed /\ ThreadSound("main") /\ ThreadSound("getter") /\ WalkSound /\ ConnSound(c)
  <2>1. c \in Conns
    BY <1>1, <1>2, AtHand DEF Threads
  <2> QED BY <2>1 DEF WaitInv
<1>4. c \in Conns /\ conn[c] = "serving" /\ at[c] \in Pieces /\ piece_head[c] \in Pieces
  BY <1>1, <1>2, <1>3, AtHand, Constants DEF Threads, Working, ThreadSound
<1>5. Typed'
  <2>1. PoolTyped'
    BY <1>2, <1>3, <1>4, Constants DEF Typed, PoolTyped, NextType
  <2>2. ListsTyped'
    BY <1>2, <1>3 DEF Typed, ListsTyped
  <2>3. ConnsTyped'
    BY <1>2, <1>3, <1>4, Constants DEF Typed, ConnsTyped, RequestType, PoolTyped, NextType
  <2>4. HandsTyped'
    BY <1>2, <1>3, <1>4, Constants, ValTyped DEF Typed, HandsTyped, Threads, Working
  <2> QED BY <2>1, <2>2, <2>3, <2>4 DEF Typed
<1>6. ThreadSound("main")' /\ ThreadSound("getter")'
  BY <1>2, <1>3, <1>4, Constants DEF ThreadSound, Working, Threads, Typed, HandsTyped, ConnsTyped, ValType
<1>7. ConnSound(c)'
  BY <1>2, <1>3, <1>4, Constants DEF ConnSound, Typed, ConnsTyped
<1>8. Acts(t, c)
  BY <1>2, <1>3, <1>4, <1>6, <1>7, Constants DEF Acts, WalkSound, ThreadSound, Working, Threads, Typed, HandsTyped, ConnsTyped
<1> QED BY <1>4, <1>5, <1>8, ActsKeep

(* A reader has all of its block.                                          *)
LEMMA TailSentKeeps ==
  ASSUME WaitInv, NEW t \in Threads, TailSent(t)
  PROVE  WaitInv'
<1>1. PICK c : c = hand[t]
  OBVIOUS
<1>2. /\ c # NULL /\ c = hand[t] /\ step[t] = "write"
      /\ got' = [got EXCEPT ![c] = @ + 1] /\ step' = [step EXCEPT ![t] = "ref"]
      /\ val' = [val EXCEPT ![t] = [p |-> piece_head[c], n |-> ref[piece_head[c]]]]
      /\ UNCHANGED <<pool, holds, next, ref, block, wait_list, index, piece, bp, walk, forgotten, overtaken, conn, pending, request, at, piece_head, hand>>
  BY <1>1 DEF TailSent, Returns, Ended, Closes, MayAsk, Held, OtherHas, Waits, Taken, NoVal, Threads, poolVars, getterVars, connVars, threadVars, histories
<1>3. Typed /\ ThreadSound("main") /\ ThreadSound("getter") /\ WalkSound /\ ConnSound(c)
  <2>1. c \in Conns
    BY <1>1, <1>2, AtHand DEF Threads
  <2> QED BY <2>1 DEF WaitInv
<1>4. c \in Conns /\ conn[c] = "serving" /\ at[c] \in Pieces /\ piece_head[c] \in Pieces /\ ref[piece_head[c]] \in Int
  BY <1>1, <1>2, <1>3, AtHand, Constants DEF Threads, Working, ThreadSound
<1>5. Typed'
  <2>1. PoolTyped'
    BY <1>2, <1>3, <1>4, Constants DEF Typed, PoolTyped, NextType
  <2>2. ListsTyped'
    BY <1>2, <1>3 DEF Typed, ListsTyped
  <2>3. ConnsTyped'
    BY <1>2, <1>3, <1>4, Constants DEF Typed, ConnsTyped, RequestType, PoolTyped, NextType
  <2>4. HandsTyped'
    BY <1>2, <1>3, <1>4, Constants DEF Typed, HandsTyped, Threads, Working, ValType, PoolTyped, ConnsTyped
  <2> QED BY <2>1, <2>2, <2>3, <2>4 DEF Typed
<1>6. ThreadSound("main")' /\ ThreadSound("getter")'
  BY <1>2, <1>3, <1>4, Constants DEF ThreadSound, Working, Threads, Typed, HandsTyped, ConnsTyped, ValType
<1>7. ConnSound(c)'
  BY <1>2, <1>3, <1>4, Constants DEF ConnSound, Typed, ConnsTyped
<1>8. Acts(t, c)
  BY <1>2, <1>3, <1>4, <1>6, <1>7, Constants DEF Acts, WalkSound, ThreadSound, Working, Threads, Typed, HandsTyped, ConnsTyped
<1> QED BY <1>4, <1>5, <1>8, ActsKeep

(* A socket takes no more.                                                 *)
LEMMA WouldBlockKeeps ==
  ASSUME WaitInv, NEW t \in Threads, WouldBlock(t)
  PROVE  WaitInv'
<1>1. PICK c : c = hand[t]
  OBVIOUS
<1>2. /\ c # NULL /\ c = hand[t] /\ step[t] \in {"header", "write"}
      /\ pending' = [pending EXCEPT ![c] = IF step[t] = "header" THEN "header" ELSE "piece"]
      /\ hand' = [hand EXCEPT ![t] = NULL] /\ step' = [step EXCEPT ![t] = IF t = "getter" THEN "next" ELSE "return"]
      /\ UNCHANGED <<pool, holds, next, ref, block, wait_list, index, piece, bp, walk, forgotten, overtaken, conn, request, at, piece_head, got, val>>
  BY <1>1 DEF WouldBlock, Returns, Ended, Closes, MayAsk, Held, OtherHas, Waits, Taken, NoVal, Threads, poolVars, getterVars, connVars, threadVars, histories
<1>3. Typed /\ ThreadSound("main") /\ ThreadSound("getter") /\ WalkSound /\ ConnSound(c)
  <2>1. c \in Conns
    BY <1>1, <1>2, AtHand DEF Threads
  <2> QED BY <2>1 DEF WaitInv
<1>4. c \in Conns /\ (t = "getter" => conn[c] = "serving")
  BY <1>1, <1>2, <1>3, AtHand, Constants DEF Threads, Working, ThreadSound
<1>5. Typed'
  <2>1. PoolTyped'
    BY <1>2, <1>3, <1>4, Constants DEF Typed, PoolTyped, NextType
  <2>2. ListsTyped'
    BY <1>2, <1>3 DEF Typed, ListsTyped
  <2>3. ConnsTyped'
    BY <1>2, <1>3, <1>4, Constants DEF Typed, ConnsTyped, RequestType, PoolTyped, NextType
  <2>4. HandsTyped'
    BY <1>2, <1>3, <1>4, Constants, ValTyped DEF Typed, HandsTyped, Threads, Working
  <2> QED BY <2>1, <2>2, <2>3, <2>4 DEF Typed
<1>6. ThreadSound("main")' /\ ThreadSound("getter")'
  BY <1>2, <1>3, <1>4, Constants DEF ThreadSound, Working, Threads, Typed, HandsTyped, ConnsTyped, ValType
<1>7. ConnSound(c)'
  BY <1>2, <1>3, <1>4, Constants DEF ConnSound, Typed, ConnsTyped
<1>8. Acts(t, c)
  BY <1>2, <1>3, <1>4, <1>6, <1>7, Constants DEF Acts, WalkSound, ThreadSound, Working, Threads, Typed, HandsTyped, ConnsTyped
<1> QED BY <1>4, <1>5, <1>8, ActsKeep

(* A connection is closed in the middle of a reply.                        *)
LEMMA PieceFailsKeeps ==
  ASSUME WaitInv, NEW t \in Threads, PieceFails(t)
  PROVE  WaitInv'
<1>1. PICK c : c = hand[t]
  OBVIOUS
<1>2. /\ c # NULL /\ c = hand[t] /\ step[t] = "write"
      /\ \A u \in Threads \ {t} : hand[u] # c
      /\ conn' = [conn EXCEPT ![c] = "closed"] /\ pending' = [pending EXCEPT ![c] = "none"]
      /\ hand' = [hand EXCEPT ![t] = NULL] /\ step' = [step EXCEPT ![t] = IF t = "getter" THEN "next" ELSE "return"]
      /\ UNCHANGED <<pool, holds, next, ref, block, wait_list, index, piece, bp, walk, forgotten, overtaken, request, at, piece_head, got, val>>
  BY <1>1 DEF PieceFails, Returns, Ended, Closes, MayAsk, Held, OtherHas, Waits, Taken, NoVal, Threads, poolVars, getterVars, connVars, threadVars, histories
<1>3. Typed /\ ThreadSound("main") /\ ThreadSound("getter") /\ WalkSound /\ ConnSound(c)
  <2>1. c \in Conns
    BY <1>1, <1>2, AtHand DEF Threads
  <2> QED BY <2>1 DEF WaitInv
<1>4. c \in Conns /\ conn[c] = "serving" /\ at[c] \in Pieces /\ piece_head[c] \in Pieces
  BY <1>1, <1>2, <1>3, AtHand, Constants DEF Threads, Working, ThreadSound
<1>5. Typed'
  <2>1. PoolTyped'
    BY <1>2, <1>3, <1>4, Constants DEF Typed, PoolTyped, NextType
  <2>2. ListsTyped'
    BY <1>2, <1>3 DEF Typed, ListsTyped
  <2>3. ConnsTyped'
    BY <1>2, <1>3, <1>4, Constants DEF Typed, ConnsTyped, RequestType, PoolTyped, NextType
  <2>4. HandsTyped'
    BY <1>2, <1>3, <1>4, Constants, ValTyped DEF Typed, HandsTyped, Threads, Working
  <2> QED BY <2>1, <2>2, <2>3, <2>4 DEF Typed
<1>6. ThreadSound("main")' /\ ThreadSound("getter")'
  BY <1>2, <1>3, <1>4, Constants DEF ThreadSound, Working, Threads, Typed, HandsTyped, ConnsTyped, ValType
<1>7. ConnSound(c)'
  BY <1>2, <1>3, <1>4, Constants DEF ConnSound, Typed, ConnsTyped
<1>8. Acts(t, c)
  BY <1>2, <1>3, <1>4, <1>6, <1>7, Constants DEF Acts, WalkSound, ThreadSound, Working, Threads, Typed, HandsTyped, ConnsTyped
<1> QED BY <1>4, <1>5, <1>8, ActsKeep

(* A reference is given back.                                              *)
LEMMA GivenBackKeeps ==
  ASSUME WaitInv, NEW t \in Threads, GivenBack(t)
  PROVE  WaitInv'
<1>1. PICK c : c = hand[t]
  OBVIOUS
<1>2. /\ c # NULL /\ c = hand[t] /\ step[t] \in {"ref", "headref"}
      /\ ref' = [ref EXCEPT ![val[t].p] = val[t].n - 1]
      /\ step' = [step EXCEPT ![t] = IF step[t] = "ref" THEN "test" ELSE "headtest"]
      /\ val' = [val EXCEPT ![t].n = 0]
      /\ UNCHANGED <<pool, holds, next, block, wait_list, index, piece, bp, walk, forgotten, overtaken, conn, pending, request, at, piece_head, got, hand>>
  BY <1>1 DEF GivenBack, Returns, Ended, Closes, MayAsk, Held, OtherHas, Waits, Taken, NoVal, Threads, poolVars, getterVars, connVars, threadVars, histories
<1>3. Typed /\ ThreadSound("main") /\ ThreadSound("getter") /\ WalkSound /\ ConnSound(c)
  <2>1. c \in Conns
    BY <1>1, <1>2, AtHand DEF Threads
  <2> QED BY <2>1 DEF WaitInv
<1>4. /\ c \in Conns /\ val[t].p \in Pieces /\ val[t].n - 1 \in Int /\ val[t] \in ValType
      /\ step[t] = "ref" => conn[c] = "serving" /\ at[c] \in Pieces /\ piece_head[c] \in Pieces
      /\ step[t] = "headref" => t = "main" /\ at[c] \in Pieces
  BY <1>1, <1>2, <1>3, AtHand, Constants DEF Threads, Working, ThreadSound, Typed, HandsTyped
<1>5. Typed'
  <2>1. PoolTyped'
    BY <1>2, <1>3, <1>4, Constants DEF Typed, PoolTyped, NextType
  <2>2. ListsTyped'
    BY <1>2, <1>3 DEF Typed, ListsTyped
  <2>3. ConnsTyped'
    BY <1>2, <1>3, <1>4, Constants DEF Typed, ConnsTyped, RequestType, PoolTyped, NextType
  <2>4. HandsTyped'
    BY <1>2, <1>3, <1>4, Constants, ValTyped DEF Typed, HandsTyped, Threads, Working
  <2> QED BY <2>1, <2>2, <2>3, <2>4 DEF Typed
<1>6. ThreadSound("main")' /\ ThreadSound("getter")'
  BY <1>2, <1>3, <1>4, Constants DEF ThreadSound, Working, Threads, Typed, HandsTyped, ConnsTyped, ValType
<1>7. ConnSound(c)'
  BY <1>2, <1>3, <1>4, Constants DEF ConnSound, Typed, ConnsTyped
<1>8. Acts(t, c)
  BY <1>2, <1>3, <1>4, <1>6, <1>7, Constants DEF Acts, WalkSound, ThreadSound, Working, Threads, Typed, HandsTyped, ConnsTyped
<1> QED BY <1>4, <1>5, <1>8, ActsKeep

(* A reply ends; somebody else reads the chain.                            *)
LEMMA NotLastKeeps ==
  ASSUME WaitInv, NEW t \in Threads, NotLast(t)
  PROVE  WaitInv'
<1>1. PICK c : c = hand[t]
  OBVIOUS
<1>2. /\ c # NULL /\ c = hand[t] /\ step[t] = "test"
      /\ conn' = [conn EXCEPT ![c] = "idle"] /\ pending' = [pending EXCEPT ![c] = "none"]
      /\ hand' = [hand EXCEPT ![t] = NULL] /\ step' = [step EXCEPT ![t] = IF t = "getter" THEN "next" ELSE "return"]
      /\ val' = [val EXCEPT ![t] = [p |-> NULL, n |-> 0]]
      /\ UNCHANGED <<pool, holds, next, ref, block, wait_list, index, piece, bp, walk, forgotten, overtaken, request, at, piece_head, got>>
  BY <1>1 DEF NotLast, Returns, Ended, Closes, MayAsk, Held, OtherHas, Waits, Taken, NoVal, Threads, poolVars, getterVars, connVars, threadVars, histories
<1>3. Typed /\ ThreadSound("main") /\ ThreadSound("getter") /\ WalkSound /\ ConnSound(c)
  <2>1. c \in Conns
    BY <1>1, <1>2, AtHand DEF Threads
  <2> QED BY <2>1 DEF WaitInv
<1>4. c \in Conns /\ conn[c] = "serving" /\ at[c] \in Pieces /\ piece_head[c] \in Pieces
  BY <1>1, <1>2, <1>3, AtHand, Constants DEF Threads, Working, ThreadSound
<1>5. Typed'
  <2>1. PoolTyped'
    BY <1>2, <1>3, <1>4, Constants DEF Typed, PoolTyped, NextType
  <2>2. ListsTyped'
    BY <1>2, <1>3 DEF Typed, ListsTyped
  <2>3. ConnsTyped'
    BY <1>2, <1>3, <1>4, Constants DEF Typed, ConnsTyped, RequestType, PoolTyped, NextType
  <2>4. HandsTyped'
    BY <1>2, <1>3, <1>4, Constants, ValTyped DEF Typed, HandsTyped, Threads, Working
  <2> QED BY <2>1, <2>2, <2>3, <2>4 DEF Typed
<1>6. ThreadSound("main")' /\ ThreadSound("getter")'
  BY <1>2, <1>3, <1>4, Constants DEF ThreadSound, Working, Threads, Typed, HandsTyped, ConnsTyped, ValType
<1>7. ConnSound(c)'
  BY <1>2, <1>3, <1>4, Constants DEF ConnSound, Typed, ConnsTyped
<1>8. Acts(t, c)
  BY <1>2, <1>3, <1>4, <1>6, <1>7, Constants DEF Acts, WalkSound, ThreadSound, Working, Threads, Typed, HandsTyped, ConnsTyped
<1> QED BY <1>4, <1>5, <1>8, ActsKeep

(* Nobody else does.                                                       *)
LEMMA LastReaderKeeps ==
  ASSUME WaitInv, NEW t \in Threads, LastReader(t)
  PROVE  WaitInv'
<1>1. PICK c : c = hand[t]
  OBVIOUS
<1>2. /\ c # NULL /\ c = hand[t] /\ step[t] = "test" /\ step' = [step EXCEPT ![t] = "free"]
      /\ val' = [val EXCEPT ![t] = [p |-> NULL, n |-> 0]]
      /\ UNCHANGED <<pool, holds, next, ref, block, wait_list, index, piece, bp, walk, forgotten, overtaken, conn, pending, request, at, piece_head, got, hand>>
  BY <1>1 DEF LastReader, Returns, Ended, Closes, MayAsk, Held, OtherHas, Waits, Taken, NoVal, Threads, poolVars, getterVars, connVars, threadVars, histories
<1>3. Typed /\ ThreadSound("main") /\ ThreadSound("getter") /\ WalkSound /\ ConnSound(c)
  <2>1. c \in Conns
    BY <1>1, <1>2, AtHand DEF Threads
  <2> QED BY <2>1 DEF WaitInv
<1>4. c \in Conns /\ conn[c] = "serving" /\ at[c] \in Pieces /\ piece_head[c] \in Pieces
  BY <1>1, <1>2, <1>3, AtHand, Constants DEF Threads, Working, ThreadSound
<1>5. Typed'
  <2>1. PoolTyped'
    BY <1>2, <1>3, <1>4, Constants DEF Typed, PoolTyped, NextType
  <2>2. ListsTyped'
    BY <1>2, <1>3 DEF Typed, ListsTyped
  <2>3. ConnsTyped'
    BY <1>2, <1>3, <1>4, Constants DEF Typed, ConnsTyped, RequestType, PoolTyped, NextType
  <2>4. HandsTyped'
    BY <1>2, <1>3, <1>4, Constants, ValTyped DEF Typed, HandsTyped, Threads, Working
  <2> QED BY <2>1, <2>2, <2>3, <2>4 DEF Typed
<1>6. ThreadSound("main")' /\ ThreadSound("getter")'
  BY <1>2, <1>3, <1>4, Constants DEF ThreadSound, Working, Threads, Typed, HandsTyped, ConnsTyped, ValType
<1>7. ConnSound(c)'
  BY <1>2, <1>3, <1>4, Constants DEF ConnSound, Typed, ConnsTyped
<1>8. Acts(t, c)
  BY <1>2, <1>3, <1>4, <1>6, <1>7, Constants DEF Acts, WalkSound, ThreadSound, Working, Threads, Typed, HandsTyped, ConnsTyped
<1> QED BY <1>4, <1>5, <1>8, ActsKeep

(* A piece is freed.                                                       *)
LEMMA FreeHeadKeeps ==
  ASSUME WaitInv, NEW t \in Threads, FreeHead(t)
  PROVE  WaitInv'
<1>1. PICK c : c = hand[t]
  OBVIOUS
<1>2. /\ c # NULL /\ c = hand[t] /\ step[t] = "free" /\ step' = [step EXCEPT ![t] = "follow"]
      /\ pool' = Cons(piece_head[c], pool)
      /\ UNCHANGED <<holds, next, ref, block, wait_list, index, piece, bp, walk, forgotten, overtaken, conn, pending, request, at, piece_head, got, hand, val>>
  BY <1>1 DEF FreeHead, Returns, Ended, Closes, MayAsk, Held, OtherHas, Waits, Taken, NoVal, Threads, poolVars, getterVars, connVars, threadVars, histories
<1>3. Typed /\ ThreadSound("main") /\ ThreadSound("getter") /\ WalkSound /\ ConnSound(c)
  <2>1. c \in Conns
    BY <1>1, <1>2, AtHand DEF Threads
  <2> QED BY <2>1 DEF WaitInv
<1>4. c \in Conns /\ conn[c] = "serving" /\ at[c] \in Pieces /\ piece_head[c] \in Pieces
  BY <1>1, <1>2, <1>3, AtHand, Constants DEF Threads, Working, ThreadSound
<1>5. Typed'
  <2>1. PoolTyped'
    BY <1>2, <1>3, <1>4, Constants, FreedOne DEF Typed, PoolTyped, NextType
  <2>2. ListsTyped'
    BY <1>2, <1>3 DEF Typed, ListsTyped
  <2>3. ConnsTyped'
    BY <1>2, <1>3, <1>4, Constants DEF Typed, ConnsTyped, RequestType, PoolTyped, NextType
  <2>4. HandsTyped'
    BY <1>2, <1>3, <1>4, Constants, ValTyped DEF Typed, HandsTyped, Threads, Working
  <2> QED BY <2>1, <2>2, <2>3, <2>4 DEF Typed
<1>6. ThreadSound("main")' /\ ThreadSound("getter")'
  BY <1>2, <1>3, <1>4, Constants DEF ThreadSound, Working, Threads, Typed, HandsTyped, ConnsTyped, ValType
<1>7. ConnSound(c)'
  BY <1>2, <1>3, <1>4, Constants DEF ConnSound, Typed, ConnsTyped
<1>8. Acts(t, c)
  BY <1>2, <1>3, <1>4, <1>6, <1>7, Constants DEF Acts, WalkSound, ThreadSound, Working, Threads, Typed, HandsTyped, ConnsTyped
<1> QED BY <1>4, <1>5, <1>8, ActsKeep

(* The piece behind it is next, if there is one.                           *)
LEMMA FollowFreedKeeps ==
  ASSUME WaitInv, NEW t \in Threads, FollowFreed(t)
  PROVE  WaitInv'
<1>1. PICK c : c = hand[t]
  OBVIOUS
<1>2. /\ c # NULL /\ c = hand[t] /\ step[t] = "follow" /\ piece_head' = [piece_head EXCEPT ![c] = next[piece_head[c]]]
      /\ IF next[piece_head[c]] = NULL
         THEN /\ conn' = [conn EXCEPT ![c] = "idle"] /\ pending' = [pending EXCEPT ![c] = "none"]
              /\ hand' = [hand EXCEPT ![t] = NULL] /\ step' = [step EXCEPT ![t] = IF t = "getter" THEN "next" ELSE "return"]
         ELSE step' = [step EXCEPT ![t] = "free"] /\ UNCHANGED <<conn, pending, hand>>
      /\ UNCHANGED <<pool, holds, next, ref, block, wait_list, index, piece, bp, walk, forgotten, overtaken, request, at, got, val>>
  BY <1>1 DEF FollowFreed, Returns, Ended, Closes, MayAsk, Held, OtherHas, Waits, Taken, NoVal, Threads, poolVars, getterVars, connVars, threadVars, histories
<1>3. Typed /\ ThreadSound("main") /\ ThreadSound("getter") /\ WalkSound /\ ConnSound(c)
  <2>1. c \in Conns
    BY <1>1, <1>2, AtHand DEF Threads
  <2> QED BY <2>1 DEF WaitInv
<1>4. c \in Conns /\ conn[c] = "serving" /\ at[c] \in Pieces /\ piece_head[c] \in Pieces
  BY <1>1, <1>2, <1>3, AtHand, Constants DEF Threads, Working, ThreadSound
<1>5. Typed'
  <2>1. PoolTyped'
    BY <1>2, <1>3, <1>4, Constants DEF Typed, PoolTyped, NextType
  <2>2. ListsTyped'
    BY <1>2, <1>3 DEF Typed, ListsTyped
  <2>3. ConnsTyped'
    BY <1>2, <1>3, <1>4, Constants DEF Typed, ConnsTyped, RequestType, PoolTyped, NextType
  <2>4. HandsTyped'
    BY <1>2, <1>3, <1>4, Constants, ValTyped DEF Typed, HandsTyped, Threads, Working
  <2> QED BY <2>1, <2>2, <2>3, <2>4 DEF Typed
<1>6. ThreadSound("main")' /\ ThreadSound("getter")'
  BY <1>2, <1>3, <1>4, Constants DEF ThreadSound, Working, Threads, Typed, HandsTyped, ConnsTyped, ValType
<1>7. ConnSound(c)'
  BY <1>2, <1>3, <1>4, Constants DEF ConnSound, Typed, ConnsTyped
<1>8. Acts(t, c)
  <2>1. \A d \in Conns : d # c =>
          /\ conn'[d] = conn[d] /\ at'[d] = at[d] /\ piece_head'[d] = piece_head[d]
          /\ request'[d] = request[d] /\ got'[d] = got[d]
    BY <1>2, <1>3, <1>4 DEF Typed, ConnsTyped
  <2>2. UNCHANGED <<block, wait_list, walk, index, forgotten, request, got>> /\ conn'[c] \in {"idle", "serving"}
    BY <1>2, <1>3, <1>4 DEF Typed, ConnsTyped
  <2>3. \A u \in Threads : hand'[u] # NULL => hand'[u] = hand[u]
    BY <1>2, <1>3, <1>4, Constants DEF Typed, HandsTyped, Threads
  <2>4. hand["getter"] # NULL => walk # <<>> /\ hand["getter"] = walk[1]
    BY <1>3 DEF WalkSound
  <2>5. walk # <<>> => walk[1] \in Conns
    BY <1>3 DEF Typed, ListsTyped
  <2>6. step'["getter"] = "next" => step["getter"] = "next" \/ (t = "getter" /\ conn'[c] = "idle")
    BY <1>2, <1>3, <1>4 DEF Typed, HandsTyped, ConnsTyped, Threads
  <2>7. step'["getter"] = "next" => walk # <<>> /\ conn'[walk[1]] # "woken"
    BY <1>2, <1>3, <2>1, <2>2, <2>4, <2>5, <2>6 DEF WalkSound
  <2> QED BY <1>2, <1>4, <1>6, <1>7, <2>1, <2>2, <2>3, <2>4, <2>7 DEF Acts, Threads
<1> QED BY <1>4, <1>5, <1>8, ActsKeep

(* A reference is taken.                                                   *)
LEMMA CountedKeeps ==
  ASSUME WaitInv, Counted
  PROVE  WaitInv'
<1>1. PICK c : c = hand["main"]
  OBVIOUS
<1>2. /\ c # NULL /\ c = hand["main"] /\ step["main"] = "count" /\ step' = [step EXCEPT !["main"] = "header"]
      /\ ref' = [ref EXCEPT ![val["main"].p] = val["main"].n + 1]
      /\ val' = [val EXCEPT !["main"] = [p |-> NULL, n |-> 0]]
      /\ UNCHANGED <<pool, holds, next, block, wait_list, index, piece, bp, walk, forgotten, overtaken, conn, pending, request, at, piece_head, got, hand>>
  BY <1>1 DEF Counted, Returns, Ended, Closes, MayAsk, Held, OtherHas, Waits, Taken, NoVal, Threads, poolVars, getterVars, connVars, threadVars, histories
<1>3. Typed /\ ThreadSound("main") /\ ThreadSound("getter") /\ WalkSound /\ ConnSound(c)
  <2>1. c \in Conns
    BY <1>1, <1>2, AtHand DEF Threads
  <2> QED BY <2>1 DEF WaitInv
<1>4. c \in Conns /\ conn[c] = "serving" /\ at[c] \in Pieces /\ piece_head[c] \in Pieces /\ val["main"].p \in Pieces /\ val["main"].n + 1 \in Int
  BY <1>1, <1>2, <1>3, AtHand, Constants DEF Threads, Working, ThreadSound
<1>5. Typed'
  <2>1. PoolTyped'
    BY <1>2, <1>3, <1>4, Constants DEF Typed, PoolTyped, NextType
  <2>2. ListsTyped'
    BY <1>2, <1>3 DEF Typed, ListsTyped
  <2>3. ConnsTyped'
    BY <1>2, <1>3, <1>4, Constants DEF Typed, ConnsTyped, RequestType, PoolTyped, NextType
  <2>4. HandsTyped'
    BY <1>2, <1>3, <1>4, Constants, ValTyped DEF Typed, HandsTyped, Threads, Working
  <2> QED BY <2>1, <2>2, <2>3, <2>4 DEF Typed
<1>6. ThreadSound("main")' /\ ThreadSound("getter")'
  BY <1>2, <1>3, <1>4, Constants DEF ThreadSound, Working, Threads, Typed, HandsTyped, ConnsTyped, ValType
<1>7. ConnSound(c)'
  BY <1>2, <1>3, <1>4, Constants DEF ConnSound, Typed, ConnsTyped
<1>8. Acts("main", c)
  BY <1>2, <1>3, <1>4, <1>6, <1>7, Constants DEF Acts, WalkSound, ThreadSound, Working, Threads, Typed, HandsTyped, ConnsTyped
<1> QED BY <1>4, <1>5, <1>8, ActsKeep

(* A socket is writable.                                                   *)
LEMMA WritableKeeps ==
  ASSUME WaitInv, NEW c \in Conns, Writable(c)
  PROVE  WaitInv'
<1>1. c \in Conns
  OBVIOUS
<1>2. /\ hand["main"] = NULL /\ hand' = [hand EXCEPT !["main"] = c]
      /\ pending[c] # "header" => hand["getter"] # c /\ conn[c] = "serving"
      /\ pending' = [pending EXCEPT ![c] = "none"]
      /\ step' = [step EXCEPT !["main"] = IF pending[c] = "header" THEN "header" ELSE "write"]
      /\ UNCHANGED <<pool, holds, next, ref, block, wait_list, index, piece, bp, walk, forgotten, overtaken, conn, request, at, piece_head, got, val>>
  BY <1>1 DEF Writable, Returns, Ended, Closes, MayAsk, Held, OtherHas, Waits, Taken, NoVal, Threads, poolVars, getterVars, connVars, threadVars, histories
<1>3. Typed /\ ThreadSound("main") /\ ThreadSound("getter") /\ WalkSound /\ ConnSound(c)
  <2>1. c \in Conns
    BY <1>1, <1>2, AtHand DEF Threads
  <2> QED BY <2>1 DEF WaitInv
<1>4. c \in Conns
  BY <1>1, <1>2, <1>3, AtHand, Constants DEF Threads, Working, ThreadSound
<1>5. Typed'
  <2>1. PoolTyped'
    BY <1>2, <1>3, <1>4, Constants DEF Typed, PoolTyped, NextType
  <2>2. ListsTyped'
    BY <1>2, <1>3 DEF Typed, ListsTyped
  <2>3. ConnsTyped'
    BY <1>2, <1>3, <1>4, Constants DEF Typed, ConnsTyped, RequestType, PoolTyped, NextType
  <2>4. HandsTyped'
    BY <1>2, <1>3, <1>4, Constants, ValTyped DEF Typed, HandsTyped, Threads, Working
  <2> QED BY <2>1, <2>2, <2>3, <2>4 DEF Typed
<1>6. ThreadSound("main")' /\ ThreadSound("getter")'
  BY <1>2, <1>3, <1>4, Constants DEF ThreadSound, Working, Threads, Typed, HandsTyped, ConnsTyped, ValType
<1>7. ConnSound(c)'
  BY <1>2, <1>3, <1>4, Constants DEF ConnSound, Typed, ConnsTyped
<1>8. Acts("main", c)
  BY <1>2, <1>3, <1>4, <1>6, <1>7, Constants DEF Acts, WalkSound, ThreadSound, Working, Threads, Typed, HandsTyped, ConnsTyped
<1> QED BY <1>4, <1>5, <1>8, ActsKeep

(* A header is out.                                                        *)
LEMMA HeaderSentKeeps ==
  ASSUME WaitInv, NEW c \in Conns, HeaderSent(c)
  PROVE  WaitInv'
<1>1. c \in Conns
  OBVIOUS
<1>2. /\ hand["main"] = c /\ step["main"] = "header"
      /\ at[c] # NULL => hand["getter"] # c /\ conn[c] = "serving"
      /\ IF at[c] = NULL THEN hand' = [hand EXCEPT !["main"] = NULL] /\ step' = [step EXCEPT !["main"] = "return"]
         ELSE step' = [step EXCEPT !["main"] = "write"] /\ UNCHANGED hand
      /\ UNCHANGED <<pool, holds, next, ref, block, wait_list, index, piece, bp, walk, forgotten, overtaken, conn, pending, request, at, piece_head, got, val>>
  BY <1>1 DEF HeaderSent, Returns, Ended, Closes, MayAsk, Held, OtherHas, Waits, Taken, NoVal, Threads, poolVars, getterVars, connVars, threadVars, histories
<1>3. Typed /\ ThreadSound("main") /\ ThreadSound("getter") /\ WalkSound /\ ConnSound(c)
  <2>1. c \in Conns
    BY <1>1, <1>2, AtHand DEF Threads
  <2> QED BY <2>1 DEF WaitInv
<1>4. c \in Conns
  BY <1>1, <1>2, <1>3, AtHand, Constants DEF Threads, Working, ThreadSound
<1>5. Typed'
  <2>1. PoolTyped'
    BY <1>2, <1>3, <1>4, Constants DEF Typed, PoolTyped, NextType
  <2>2. ListsTyped'
    BY <1>2, <1>3 DEF Typed, ListsTyped
  <2>3. ConnsTyped'
    BY <1>2, <1>3, <1>4, Constants DEF Typed, ConnsTyped, RequestType, PoolTyped, NextType
  <2>4. HandsTyped'
    BY <1>2, <1>3, <1>4, Constants, ValTyped DEF Typed, HandsTyped, Threads, Working
  <2> QED BY <2>1, <2>2, <2>3, <2>4 DEF Typed
<1>6. ThreadSound("main")' /\ ThreadSound("getter")'
  BY <1>2, <1>3, <1>4, Constants DEF ThreadSound, Working, Threads, Typed, HandsTyped, ConnsTyped, ValType
<1>7. ConnSound(c)'
  BY <1>2, <1>3, <1>4, Constants DEF ConnSound, Typed, ConnsTyped
<1>8. Acts("main", c)
  BY <1>2, <1>3, <1>4, <1>6, <1>7, Constants DEF Acts, WalkSound, ThreadSound, Working, Threads, Typed, HandsTyped, ConnsTyped
<1> QED BY <1>4, <1>5, <1>8, ActsKeep

(* A header cannot be written.                                             *)
LEMMA HeaderFailsKeeps ==
  ASSUME WaitInv, NEW c \in Conns, HeaderFails(c)
  PROVE  WaitInv'
<1>1. c \in Conns
  OBVIOUS
<1>2. /\ hand["main"] = c /\ step["main"] = "header" /\ at[c] # NULL
      /\ step' = [step EXCEPT !["main"] = "headref"]
      /\ val' = [val EXCEPT !["main"] = [p |-> at[c], n |-> ref[at[c]]]]
      /\ UNCHANGED <<pool, holds, next, ref, block, wait_list, index, piece, bp, walk, forgotten, overtaken, conn, pending, request, at, piece_head, got, hand>>
  BY <1>1 DEF HeaderFails, Returns, Ended, Closes, MayAsk, Held, OtherHas, Waits, Taken, NoVal, Threads, poolVars, getterVars, connVars, threadVars, histories
<1>3. Typed /\ ThreadSound("main") /\ ThreadSound("getter") /\ WalkSound /\ ConnSound(c)
  <2>1. c \in Conns
    BY <1>1, <1>2, AtHand DEF Threads
  <2> QED BY <2>1 DEF WaitInv
<1>4. c \in Conns /\ at[c] \in Pieces /\ ref[at[c]] \in Int
  BY <1>1, <1>2, <1>3, AtHand, Constants DEF Threads, Working, Typed, ConnsTyped, PoolTyped
<1>5. Typed'
  <2>1. PoolTyped'
    BY <1>2, <1>3, <1>4, Constants DEF Typed, PoolTyped, NextType
  <2>2. ListsTyped'
    BY <1>2, <1>3 DEF Typed, ListsTyped
  <2>3. ConnsTyped'
    BY <1>2, <1>3, <1>4, Constants DEF Typed, ConnsTyped, RequestType, PoolTyped, NextType
  <2>4. HandsTyped'
    BY <1>2, <1>3, <1>4, Constants DEF Typed, HandsTyped, Threads, Working, ValType, PoolTyped, ConnsTyped
  <2> QED BY <2>1, <2>2, <2>3, <2>4 DEF Typed
<1>6. ThreadSound("main")' /\ ThreadSound("getter")'
  BY <1>2, <1>3, <1>4, Constants DEF ThreadSound, Working, Threads, Typed, HandsTyped, ConnsTyped, ValType
<1>7. ConnSound(c)'
  BY <1>2, <1>3, <1>4, Constants DEF ConnSound, Typed, ConnsTyped
<1>8. Acts("main", c)
  BY <1>2, <1>3, <1>4, <1>6, <1>7, Constants DEF Acts, WalkSound, ThreadSound, Working, Threads, Typed, HandsTyped, ConnsTyped
<1> QED BY <1>4, <1>5, <1>8, ActsKeep

(* And its connection is closed.                                           *)
LEMMA HeaderDroppedKeeps ==
  ASSUME WaitInv, HeaderDropped
  PROVE  WaitInv'
<1>1. PICK c : c = hand["main"]
  OBVIOUS
<1>2. /\ c # NULL /\ c = hand["main"] /\ step["main"] = "headtest"
      /\ hand["getter"] # c /\ conn[c] \notin {"parked", "woken"}
      /\ pool' = Cons(at[c], pool) \/ UNCHANGED pool
      /\ conn' = [conn EXCEPT ![c] = "closed"] /\ pending' = [pending EXCEPT ![c] = "none"]
      /\ hand' = [hand EXCEPT !["main"] = NULL] /\ step' = [step EXCEPT !["main"] = "return"]
      /\ val' = [val EXCEPT !["main"] = [p |-> NULL, n |-> 0]]
      /\ UNCHANGED <<holds, next, ref, block, wait_list, index, piece, bp, walk, forgotten, overtaken, request, at, piece_head, got>>
  BY <1>1 DEF HeaderDropped, Returns, Ended, Closes, MayAsk, Held, OtherHas, Waits, Taken, NoVal, Threads, poolVars, getterVars, connVars, threadVars, histories
<1>3. Typed /\ ThreadSound("main") /\ ThreadSound("getter") /\ WalkSound /\ ConnSound(c)
  <2>1. c \in Conns
    BY <1>1, <1>2, AtHand DEF Threads
  <2> QED BY <2>1 DEF WaitInv
<1>4. c \in Conns /\ at[c] \in Pieces /\ conn[c] # "ahead"
  BY <1>1, <1>2, <1>3, AtHand, Constants DEF Threads, Working, ConnSound, WaitInv
<1>5. Typed'
  <2>1. PoolTyped'
    BY <1>2, <1>3, <1>4, Constants, FreedOne DEF Typed, PoolTyped, NextType
  <2>2. ListsTyped'
    BY <1>2, <1>3 DEF Typed, ListsTyped
  <2>3. ConnsTyped'
    BY <1>2, <1>3, <1>4, Constants DEF Typed, ConnsTyped, RequestType, PoolTyped, NextType
  <2>4. HandsTyped'
    BY <1>2, <1>3, <1>4, Constants, ValTyped DEF Typed, HandsTyped, Threads, Working
  <2> QED BY <2>1, <2>2, <2>3, <2>4 DEF Typed
<1>6. ThreadSound("main")' /\ ThreadSound("getter")'
  BY <1>2, <1>3, <1>4, Constants DEF ThreadSound, Working, Threads, Typed, HandsTyped, ConnsTyped, ValType
<1>7. ConnSound(c)'
  BY <1>2, <1>3, <1>4, Constants DEF ConnSound, Typed, ConnsTyped
<1>8. Acts("main", c)
  BY <1>2, <1>3, <1>4, <1>6, <1>7, Constants DEF Acts, WalkSound, ThreadSound, Working, Threads, Typed, HandsTyped, ConnsTyped
<1> QED BY <1>4, <1>5, <1>8, ActsKeep

(* A block is found for a request.                                         *)
LEMMA RequestHeldKeeps ==
  ASSUME WaitInv, NEW c \in Conns, NEW b \in Requestable, RequestHeld(c, b)
  PROVE  WaitInv'
<1>1. c \in Conns
  OBVIOUS
<1>2. /\ hand["main"] = NULL /\ conn[c] = "idle"
      /\ block[SlotOf(b)].head # NULL
      /\ conn' = [conn EXCEPT ![c] = "serving"]
      /\ at' = [at EXCEPT ![c] = block[SlotOf(b)].head]
      /\ piece_head' = [piece_head EXCEPT ![c] = block[SlotOf(b)].head]
      /\ request' = [request EXCEPT ![c] = [id |-> b, slot |-> SlotOf(b)]]
      /\ got' = [got EXCEPT ![c] = 0]
      /\ hand' = [hand EXCEPT !["main"] = c] /\ step' = [step EXCEPT !["main"] = "count"]
      /\ val' = [val EXCEPT !["main"] = [p |-> block[SlotOf(b)].head, n |-> ref[block[SlotOf(b)].head]]]
      /\ overtaken' = overtaken \ {c}
      /\ UNCHANGED <<pool, holds, next, ref, block, wait_list, index, piece, bp, walk, forgotten, pending>>
  BY <1>1 DEF RequestHeld, Returns, Ended, Closes, MayAsk, Held, OtherHas, Waits, Taken, NoVal, Threads, poolVars, getterVars, connVars, threadVars, histories
<1>3. Typed /\ ThreadSound("main") /\ ThreadSound("getter") /\ WalkSound /\ ConnSound(c)
  <2>1. c \in Conns
    BY <1>1, <1>2, AtHand DEF Threads
  <2> QED BY <2>1 DEF WaitInv
<1>4. /\ b \in Nat /\ SlotOf(b) \in Places /\ block[SlotOf(b)].head \in Pieces
      /\ ref[block[SlotOf(b)].head] \in Int /\ hand["getter"] # c
  BY <1>1, <1>2, <1>3, AtHand, Constants, RequestableTyped, SlotIsPlace DEF Threads, Working, Typed, ListsTyped, BlockType, PoolTyped, ThreadSound
<1>5. Typed'
  <2>1. PoolTyped'
    BY <1>2, <1>3, <1>4, Constants DEF Typed, PoolTyped, NextType
  <2>2. ListsTyped'
    BY <1>2, <1>3 DEF Typed, ListsTyped
  <2>3. ConnsTyped'
    BY <1>2, <1>3, <1>4, Constants DEF Typed, ConnsTyped, RequestType, PoolTyped, NextType
  <2>4. HandsTyped'
    BY <1>2, <1>3, <1>4, Constants DEF Typed, HandsTyped, Threads, Working, ValType, PoolTyped, ConnsTyped
  <2> QED BY <2>1, <2>2, <2>3, <2>4 DEF Typed
<1>6. ThreadSound("main")' /\ ThreadSound("getter")'
  BY <1>2, <1>3, <1>4, Constants DEF ThreadSound, Working, Threads, Typed, HandsTyped, ConnsTyped, ValType
<1>7. ConnSound(c)'
  BY <1>2, <1>3, <1>4, Constants DEF ConnSound, Typed, ConnsTyped, RequestType
<1>8. Acts("main", c)
  BY <1>2, <1>3, <1>4, <1>6, <1>7, Constants DEF Acts, WalkSound, ThreadSound, Working, Threads, Typed, HandsTyped, ConnsTyped
<1> QED BY <1>4, <1>5, <1>8, ActsKeep
(* The getter takes a piece.                                               *)
LEMMA TakesTyped ==
  ASSUME PoolTyped, pool # <<>>, Takes(Head(pool))
  PROVE  /\ Head(pool) \in Pieces
         /\ pool' \in Seq(Pieces)
         /\ NextType(next') /\ ref' \in [Pieces -> Int]
<1>1. Head(pool) \in Pieces /\ Tail(pool) \in Seq(Pieces)
  BY DEF PoolTyped
<1>2. /\ pool' = Tail(pool) /\ next' = [next EXCEPT ![Head(pool)] = NULL]
      /\ ref' = [ref EXCEPT ![Head(pool)] = 0]
  BY DEF Takes
<1> QED BY <1>1, <1>2 DEF PoolTyped, NextType

LEMMA MallocKeeps ==
  ASSUME WaitInv, MallocPiece \/ MallocNext
  PROVE  WaitInv'
<1>1. /\ UNCHANGED <<holds, block, wait_list, walk, index, overtaken, forgotten, conn, pending, at,
                     piece_head, request, got, hand, step, val>>
      /\ pool # <<>> /\ Takes(Head(pool))
      /\ \/ piece' = Head(pool) /\ bp' = bp
         \/ bp' = Head(pool) /\ piece' = piece
  BY DEF MallocPiece, MallocNext, connVars, threadVars
<1>2. Typed
  BY DEF WaitInv
<1>3. PoolTyped'
  <2>1. /\ Head(pool) \in Pieces /\ pool' \in Seq(Pieces)
        /\ NextType(next') /\ ref' \in [Pieces -> Int]
    BY <1>1, <1>2, TakesTyped DEF Typed
  <2> QED BY <1>1, <1>2, <2>1 DEF Typed, PoolTyped, NextType
<1>4. ListsTyped' /\ ConnsTyped' /\ HandsTyped'
  BY <1>1, <1>2 DEF Typed, ListsTyped, ConnsTyped, HandsTyped
<1> QED BY <1>1, <1>3, <1>4, PoolOnly DEF Typed

(* A step that touches nothing of this.                                    *)
LEMMA StillKeeps ==
  ASSUME WaitInv, UNCHANGED codeVars \/ \E why : Ends(why)
  PROVE  WaitInv'
<1>1. UNCHANGED <<pool, holds, next, ref, piece, bp, block, wait_list, walk, index, overtaken,
                  forgotten, conn, pending, at, piece_head, request, got, hand, step, val>>
  BY DEF Ends, codeVars, poolVars, getterVars, connVars, threadVars, histories
<1>2. Typed
  BY DEF WaitInv
<1>3. Typed'
  BY <1>1, <1>2 DEF Typed, PoolTyped, NextType, ListsTyped, ConnsTyped, HandsTyped
<1> QED BY <1>1, <1>3, PoolOnly

(* The getter has its list after a piece of data, and that is in its slot. *)
LEMMA LastPublished ==
  ASSUME WaitInv, walk # <<>>
  PROVE  LET s == SlotOf(BlockOf(index - 1)) IN
         /\ index - 1 \in Nat /\ s \in Places
         /\ block[s].head \in Pieces /\ block[s].tail \in Pieces
<1>1. index \in Nat /\ index - 1 \in Nat /\ block \in [Places -> BlockType]
  BY DEF WaitInv, Typed, PoolTyped, ListsTyped
<1>2. PICK s : s = SlotOf(BlockOf(index - 1))
  OBVIOUS
<1>3. s \in Places
  BY <1>1, <1>2, Numbers
<1>4. block[s].head # NULL
  BY <1>2 DEF WaitInv, WalkSound
<1>5. block[s].tail # NULL
  BY <1>3, <1>4 DEF WaitInv, Opened
<1>6. block[s].head \in Pieces /\ block[s].tail \in Pieces
  BY <1>1, <1>3, <1>4, <1>5 DEF BlockType
<1> QED BY <1>1, <1>2, <1>3, <1>6

(* The getter turns to a reader.                                           *)
LEMMA WakeKeeps ==
  ASSUME WaitInv, Wake
  PROVE  WaitInv'
<1>1. PICK c : c = walk[1]
  OBVIOUS
<1>2. PICK s : s = SlotOf(BlockOf(index - 1))
  OBVIOUS
<1>3. /\ walk # <<>> /\ step["getter"] = "return" /\ conn[c] = "woken"
      /\ conn' = [conn EXCEPT ![c] = "serving"]
      /\ at' = [at EXCEPT ![c] = block[s].tail]
      /\ piece_head' = [piece_head EXCEPT ![c] = block[s].head]
      /\ request' = [request EXCEPT ![c].slot = s]
      /\ hand' = [hand EXCEPT !["getter"] = c]
      /\ step' = [step EXCEPT !["getter"] = "write"]
      /\ UNCHANGED <<pool, holds, next, ref, block, wait_list, index, piece, bp, walk, forgotten,
                     overtaken, pending, got, val>>
  BY <1>1, <1>2 DEF Wake, poolVars, getterVars, histories
<1>4. Typed /\ ThreadSound("main") /\ ThreadSound("getter") /\ WalkSound
  BY DEF WaitInv
<1>5. c \in Conns /\ block[s].head \in Pieces /\ block[s].tail \in Pieces /\ s \in Places
  BY <1>1, <1>2, <1>3, <1>4, LastPublished DEF Typed, ListsTyped
<1>6. Typed'
  <2>1. PoolTyped' /\ ListsTyped'
    BY <1>3, <1>4 DEF Typed, PoolTyped, NextType, ListsTyped
  <2>2. ConnsTyped'
    BY <1>3, <1>4, <1>5 DEF Typed, ConnsTyped, RequestType
  <2>3. HandsTyped'
    BY <1>3, <1>4, <1>5, Constants DEF Typed, HandsTyped, Threads, Working
  <2> QED BY <2>1, <2>2, <2>3 DEF Typed
<1>7. hand["main"] = c => step["main"] \in {"header", "headref", "headtest"}
  BY <1>3, <1>4, <1>5, Constants DEF ThreadSound, Working
<1>8. ThreadSound("main")' /\ ThreadSound("getter")'
  BY <1>3, <1>4, <1>5, <1>7, Constants DEF ThreadSound, Working, Threads, Typed, HandsTyped, ConnsTyped
<1>9. ConnSound(c)'
  BY <1>3, <1>4, <1>5, Constants DEF ConnSound, Typed, ConnsTyped, RequestType
<1>10. Acts("getter", c)
  BY <1>1, <1>3, <1>4, <1>5, <1>8, <1>9, Constants DEF Acts, Threads, Typed, HandsTyped, ConnsTyped
<1> QED BY <1>5, <1>6, <1>10, ActsKeep

(* The getter goes on to whom it finds behind the connection it has        *)
(* served; whom it does not find any more is forgotten.                    *)
LEMMA NextWaiterKeeps ==
  ASSUME WaitInv, NextWaiter
  PROVE  WaitInv'
<1>1. PICK c : c = walk[1]
  OBVIOUS
<1>2. /\ walk # <<>> /\ step["getter"] = "next"
      /\ walk' \in Behind(c)
      /\ forgotten' = IF conn[c] \in {"parked", "ahead", "closed"}
                      THEN forgotten \union (ToSet(Tail(walk)) \ ToSet(walk')) ELSE forgotten
      /\ step' = [step EXCEPT !["getter"] = "return"]
      /\ UNCHANGED <<pool, holds, next, ref, block, wait_list, index, piece, bp, overtaken, conn,
                     pending, at, piece_head, request, got, hand, val>>
  BY <1>1 DEF NextWaiter, poolVars, connVars
<1>3. /\ Typed /\ ThreadSound("main") /\ ThreadSound("getter") /\ WalkSound /\ Listed /\ Coming /\ Opened
      /\ \A d \in Conns : ConnSound(d)
  BY DEF WaitInv
<1>4. c \in Conns /\ walk \in Seq(Conns) /\ Tail(walk) \in Seq(Conns) /\ conn[c] # "woken"
  BY <1>1, <1>2, <1>3 DEF Typed, ListsTyped, WalkSound
<1>5. ASSUME conn[c] = "parked"
      PROVE  /\ walk' \in Seq(Conns)
             /\ \A d \in ToSet(walk') : conn[d] = "parked"
  <2>1. PICK s : s = request[c].slot
    OBVIOUS
  <2>2. s \in Places /\ walk' = After(block[s].wait_list, c)
    BY <1>2, <1>3, <1>4, <1>5, <2>1 DEF Behind, Listed
  <2>3. block[s].wait_list \in Seq(Conns)
    BY <1>3, <2>2 DEF Typed, ListsTyped, BlockType
  <2>4. ToSet(walk') \subseteq Waiting(s)
    BY <2>2, <2>3, PartOfList DEF Waiting
  <2> QED BY <1>3, <2>2, <2>3, <2>4, AfterTyped DEF Listed
<1>6. ASSUME conn[c] = "ahead"
      PROVE  /\ walk' \in Seq(Conns)
             /\ \A d \in ToSet(walk') : conn[d] = "ahead"
  <2>1. walk' = After(wait_list, c) /\ wait_list \in Seq(Conns)
    BY <1>2, <1>3, <1>6 DEF Behind, Typed, ListsTyped
  <2>2. ToSet(walk') \subseteq ToSet(wait_list) /\ ToSet(wait_list) \subseteq Conns
    BY <1>3, <2>1, PartOfList, WaitersAreConns
  <2> QED BY <1>3, <2>1, <2>2, AfterTyped DEF Listed
<1>7. ASSUME conn[c] \notin {"parked", "ahead"}
      PROVE  walk' = Tail(walk) \/ (conn[c] = "closed" /\ walk' = <<>>)
  BY <1>2, <1>7 DEF Behind
<1>8. walk' \in Seq(Conns)
  <2>1. <<>> \in Seq(Conns)
    OBVIOUS
  <2> QED BY <1>4, <1>5, <1>6, <1>7, <2>1
<1>9. ASSUME NEW d \in ToSet(walk'), conn[d] = "woken"
      PROVE  d \in ToSet(walk)
  <2>1. conn[c] \notin {"parked", "ahead"}
    BY <1>5, <1>6, <1>9
  <2>2. CASE walk' = Tail(walk)
    BY <1>2, <1>4, <1>9, <2>2, PartOfList
  <2>3. CASE walk' = <<>>
    BY <1>9, <2>3 DEF ToSet
  <2> QED BY <1>7, <2>1, <2>2, <2>3
<1>10. ASSUME NEW d \in Conns, conn[d] = "woken", d \in forgotten \/ d \in ToSet(walk)
       PROVE  d \in forgotten' \/ d \in ToSet(walk')
  <2>1. d # c
    BY <1>4, <1>10
  <2>2. ASSUME d \in ToSet(walk) PROVE d \in ToSet(Tail(walk))
    <3>1. PICK i \in 1 .. Len(walk) : d = walk[i]
      BY <2>2 DEF ToSet
    <3>2. i # 1 /\ Len(walk) \in Nat
      BY <1>1, <1>4, <2>1, <3>1
    <3>3. PICK w \in Seq(Conns) : w = Tail(walk)
      BY <1>4
    <3>4. i - 1 \in 1 .. Len(w) /\ w[i - 1] = d
      BY <1>2, <1>4, <3>1, <3>2, <3>3
    <3>5. d \in ToSet(w)
      BY <3>4 DEF ToSet
    <3> QED BY <3>3, <3>5
  <2>3. CASE d \in forgotten
    BY <1>2, <2>3
  <2>4. CASE d \in ToSet(walk)
    <3>1. CASE conn[c] \in {"parked", "ahead", "closed"}
      BY <1>2, <2>2, <2>4, <3>1
    <3>2. CASE conn[c] \notin {"parked", "ahead", "closed"}
      BY <1>7, <2>2, <2>4, <3>2
    <3> QED BY <3>1, <3>2
  <2> QED BY <1>10, <2>3, <2>4
<1>11. Typed'
  <2>1. PoolTyped' /\ ConnsTyped' /\ ListsTyped'
    BY <1>2, <1>3, <1>8 DEF Typed, PoolTyped, NextType, ConnsTyped, ListsTyped
  <2>2. HandsTyped'
    BY <1>2, <1>3 DEF Typed, HandsTyped, Threads
  <2> QED BY <2>1, <2>2 DEF Typed
<1>12. hand["getter"] = NULL
  BY <1>2, <1>3 DEF ThreadSound, Working
<1>13. ThreadSound("main")' /\ ThreadSound("getter")'
  BY <1>2, <1>3, <1>12 DEF ThreadSound, Typed, HandsTyped, Threads
<1>14. \A d \in Conns : ConnSound(d)'
  BY <1>2, <1>3 DEF ConnSound
<1>15. WalkSound'
  <2>1. step'["getter"] = "return" /\ hand'["getter"] = NULL
    BY <1>2, <1>3, <1>12 DEF Typed, HandsTyped, Threads
  <2>2. block[SlotOf(BlockOf(index - 1))].head # NULL
    BY <1>2, <1>3 DEF WalkSound
  <2> QED BY <1>2, <2>1, <2>2 DEF WalkSound, SlotOf, BlockOf
<1>16. Listed'
  BY <1>2, <1>3, <1>10, ListedKept
<1>17. Coming'
  BY <1>2, <1>3, <1>9, ComingKept
<1>18. Opened'
  BY <1>2, <1>3, SlotsKept
<1> QED BY <1>11, <1>13, <1>14, <1>15, <1>16, <1>17, <1>18 DEF WaitInv

(* A reader parks.                                                         *)
LEMMA ParkKeeps ==
  ASSUME WaitInv, NEW t \in Threads, Park(t)
  PROVE  WaitInv'
<1>1. PICK c : c = hand[t]
  OBVIOUS
<1>2. PICK s : s = request[c].slot
  OBVIOUS
<1>3. /\ c # NULL /\ step[t] = "park"
      /\ block' = [block EXCEPT ![s].wait_list = Cons(c, @)]
      /\ conn' = [conn EXCEPT ![c] = "parked"]
      /\ overtaken' \subseteq overtaken \union {c}
      /\ hand' = [hand EXCEPT ![t] = NULL]
      /\ step' = [step EXCEPT ![t] = IF t = "getter" THEN "next" ELSE "return"]
      /\ UNCHANGED <<pool, holds, next, ref, wait_list, index, piece, bp, walk, forgotten, pending,
                     request, at, piece_head, got, val>>
  BY <1>1, <1>2 DEF Park, Returns, poolVars, getterVars
<1>4. /\ Typed /\ ThreadSound("main") /\ ThreadSound("getter") /\ WalkSound /\ Listed /\ Coming /\ Opened
      /\ \A d \in Conns : ConnSound(d)
  BY DEF WaitInv
<1>5. /\ c \in Conns /\ conn[c] = "serving" /\ s \in Places /\ at[c] # NULL /\ piece_head[c] # NULL
      /\ got[c] > 0 /\ \A u \in Threads : u # t /\ hand[u] = c => step[u] \notin Working \union {"count"}
  <2>1. /\ c \in Conns /\ conn[c] = "serving" /\ s \in Places /\ at[c] # NULL /\ piece_head[c] # NULL
    BY <1>1, <1>2, <1>3, AtHand, Constants DEF Working
  <2>2. ThreadSound(t)
    BY <1>4 DEF Threads
  <2>3. got[c] > 0
    BY <1>1, <1>3, <2>2 DEF ThreadSound
  <2> QED BY <1>1, <1>3, <1>4, <2>1, <2>3 DEF ThreadSound, Threads, Working
<1>6. block \in [Places -> BlockType] /\ block[s].wait_list \in Seq(Conns)
  BY <1>4, <1>5 DEF Typed, ListsTyped, BlockType
<1>7. conn'[c] = "parked" /\ \A d \in Conns : d # c => conn'[d] = conn[d]
  BY <1>3, <1>4, <1>5 DEF Typed, ConnsTyped
<1>8. PICK l : l = Cons(c, block[s].wait_list)
  OBVIOUS
<1>9. ToSet(l) = {c} \union Waiting(s) /\ l \in Seq(Conns)
  BY <1>5, <1>6, <1>8, OneMore DEF Cons, Waiting
<1>10. /\ block'[s].wait_list = l /\ block'[s].id = block[s].id
       /\ \A r \in Places : /\ block'[r].id = block[r].id /\ block'[r].head = block[r].head
                            /\ block'[r].tail = block[r].tail
       /\ \A r \in Places : r # s => block'[r] = block[r]
       /\ block' \in [Places -> BlockType]
  <2>1. block' = [block EXCEPT ![s].wait_list = l]
    BY <1>3, <1>8
  <2> QED BY <1>5, <1>6, <1>9, <2>1 DEF BlockType
<1>11. Listed'
  <2>1. ASSUME NEW r \in Places, NEW d \in ToSet(block'[r].wait_list)
        PROVE  conn'[d] = "parked" /\ request'[d].slot = r
    <3>1. CASE r = s /\ d = c
      BY <1>2, <1>3, <1>7, <3>1
    <3>2. CASE d # c
      <4>1. d \in Waiting(r)
        BY <1>9, <1>10, <2>1, <3>2 DEF Waiting
      <4>2. conn[d] = "parked" /\ request[d].slot = r /\ d \in Conns
        BY <1>4, <4>1, WaitersAreConns DEF Listed
      <4> QED BY <1>3, <1>7, <3>2, <4>2
    <3>3. CASE r # s /\ d = c
      <4>1. d \in Waiting(r)
        BY <1>10, <2>1, <3>3 DEF Waiting
      <4> QED BY <1>4, <1>5, <3>3, <4>1 DEF Listed
    <3> QED BY <3>1, <3>2, <3>3
  <2>2. ASSUME NEW d \in Conns, conn'[d] = "parked"
        PROVE  request'[d].slot \in Places /\ d \in ToSet(block'[request'[d].slot].wait_list)
    <3>1. CASE d = c
      BY <1>2, <1>3, <1>5, <1>9, <1>10, <3>1
    <3>2. CASE d # c
      <4>1. PICK r : r = request[d].slot
        OBVIOUS
      <4>2. r \in Places /\ d \in Waiting(r)
        BY <1>4, <1>7, <2>2, <3>2, <4>1 DEF Listed
      <4>3. d \in ToSet(block'[r].wait_list)
        <5>1. CASE r = s
          BY <1>9, <1>10, <4>2, <5>1
        <5>2. CASE r # s
          BY <1>10, <4>2, <5>2 DEF Waiting
        <5> QED BY <5>1, <5>2
      <4> QED BY <1>3, <4>1, <4>2, <4>3
    <3> QED BY <3>1, <3>2
  <2>3. ASSUME NEW d \in Conns PROVE d \in ToSet(wait_list') <=> conn'[d] = "ahead"
    BY <1>3, <1>4, <1>5, <1>7 DEF Listed
  <2>4. ASSUME NEW d \in Conns, conn'[d] = "woken" PROVE d \in forgotten' \/ d \in ToSet(walk')
    BY <1>3, <1>4, <1>7, <2>4 DEF Listed
  <2> QED BY <2>1, <2>2, <2>3, <2>4 DEF Listed, Waiting
<1>12. Typed'
  <2>1. PoolTyped' /\ ListsTyped'
    BY <1>3, <1>4, <1>10 DEF Typed, PoolTyped, NextType, ListsTyped
  <2>2. ConnsTyped' /\ HandsTyped'
    BY <1>3, <1>4, <1>5 DEF Typed, ConnsTyped, HandsTyped, Threads
  <2> QED BY <2>1, <2>2 DEF Typed
<1>13. ThreadSound("main")' /\ ThreadSound("getter")'
  <2>1. /\ hand'[t] = NULL /\ step'[t] = IF t = "getter" THEN "next" ELSE "return"
        /\ \A u \in Threads : u # t => hand'[u] = hand[u] /\ step'[u] = step[u]
    BY <1>3, <1>4 DEF Typed, HandsTyped
  <2>2. \A u \in Threads : hand[u] # NULL => hand[u] \in Conns
    BY <1>4 DEF Typed, HandsTyped
  <2>3. ASSUME NEW u \in Threads PROVE ThreadSound(u)'
    <3>1. CASE u = t
      BY <2>1, <3>1 DEF ThreadSound, Threads
    <3>2. CASE u # t
      <4>1. ThreadSound(u)
        BY <1>4 DEF Threads
      <4>2. hand[u] # NULL /\ step[u] \in Working \union {"count"} => hand[u] # c
        BY <1>5, <3>2
      <4>3. t = "main" \/ t = "getter"
        BY DEF Threads
      <4>4. u = "main" => hand'["getter"] = NULL
        BY <2>1, <3>2, <4>3
      <4> QED BY <1>3, <1>7, <2>1, <2>2, <3>2, <4>1, <4>2, <4>4 DEF ThreadSound
    <3> QED BY <3>1, <3>2
  <2> QED BY <2>3 DEF Threads
<1>14. \A d \in Conns : ConnSound(d)'
  BY <1>2, <1>3, <1>4, <1>5, <1>7 DEF ConnSound
<1>15. WalkSound'
  <2>1. /\ hand'["getter"] # NULL \/ step'["getter"] = "next" => walk # <<>>
        /\ hand'["getter"] # NULL => hand'["getter"] = walk[1]
        /\ step'["getter"] = "next" => conn'[walk[1]] # "woken"
    <3>1. CASE t = "getter"
      BY <1>1, <1>3, <1>4, <1>5, <1>7, <3>1, Constants DEF WalkSound, Typed, HandsTyped, Threads
    <3>2. CASE t = "main"
      <4>1. hand'["getter"] = hand["getter"] /\ step'["getter"] = step["getter"]
        BY <1>3, <1>4, <3>2 DEF Typed, HandsTyped, Threads
      <4>2. walk # <<>> => walk[1] \in Conns
        BY <1>4 DEF Typed, ListsTyped
      <4> QED BY <1>4, <1>7, <4>1, <4>2 DEF WalkSound
    <3> QED BY <3>1, <3>2 DEF Threads
  <2>2. walk # <<>> => block'[SlotOf(BlockOf(index - 1))].head # NULL
    <3>1. walk # <<>> => SlotOf(BlockOf(index - 1)) \in Places
      BY LastPublished
    <3> QED BY <1>4, <1>10, <3>1 DEF WalkSound
  <2> QED BY <1>3, <2>1, <2>2 DEF WalkSound, SlotOf, BlockOf
<1>16. Coming'
  <2>1. ASSUME NEW d \in ToSet(walk'), conn'[d] = "woken"
        PROVE  d \in ToSet(walk) /\ conn[d] = "woken" /\ got'[d] = got[d] /\ request'[d] = request[d]
    <3>1. d \in ToSet(walk) /\ d \in Conns /\ d # c
      BY <1>3, <1>4, <1>7, <2>1, WaitersAreConns
    <3> QED BY <1>3, <1>7, <2>1, <3>1
  <2>2. \A d \in ToSet(wait_list) : request'[d] = request[d]
    BY <1>3
  <2> QED BY <1>3, <1>4, <2>1, <2>2, ComingKept
<1>17. Opened'
  BY <1>3, <1>4, <1>10, SlotsKept
<1> QED BY <1>11, <1>12, <1>13, <1>14, <1>15, <1>16, <1>17 DEF WaitInv

(* A request for a block that is not there is for one still to come.       *)
LEMMA AheadIsEmpty ==
  ASSUME WaitInv, NEW b \in Requestable, ~Held(b)
  PROVE  b \in Nat /\ Filled(b, index) = 0
<1>1. Opened /\ index \in Nat /\ index >= 1
  BY DEF WaitInv, Typed, PoolTyped
<1>2. b \in Nat
  BY RequestableTyped
<1>3. b > BlockOf(index - 1)
  BY DEF Requestable
<1>4. PICK n \in Nat : n = index - 1 /\ n + 1 = index
  <2>1. (index - 1) + 1 = index /\ index - 1 \in Nat
    BY <1>1
  <2> QED BY <2>1
<1>5. ~(b \div Group < GroupOf(index))
  BY <1>2, <1>3, <1>4, AboveIsNotBefore
<1>6. ~(b \div Group = GroupOf(index) /\ Filled(b, index) > 0)
  BY <1>1, <1>2 DEF Opened, GroupHeld, Held
<1>7. Filled(b, index) \in Nat
  BY <1>2, <1>4, FilledGrows
<1>8. CASE b \div Group = GroupOf(index)
  <2>1. PICK f : f = Filled(b, index)
    OBVIOUS
  <2>2. f \in Nat /\ ~(f > 0)
    BY <1>6, <1>7, <1>8, <2>1
  <2> QED BY <1>2, <2>1, <2>2
<1>9. CASE b \div Group # GroupOf(index)
  <2>1. Filled(b, index) = 0
    BY <1>5, <1>9, Zenon DEF Filled
  <2> QED BY <1>2, <2>1
<1> QED BY <1>8, <1>9

(* It waits on the list of the item.                                       *)
LEMMA RequestAheadKeeps ==
  ASSUME WaitInv, NEW c \in Conns, NEW b \in Requestable, RequestAhead(c, b)
  PROVE  WaitInv'
<1>1. /\ hand["main"] = NULL /\ conn[c] = "idle" /\ ~Held(b)
      /\ wait_list' = Cons(c, wait_list)
      /\ conn' = [conn EXCEPT ![c] = "ahead"]
      /\ at' = [at EXCEPT ![c] = NULL]
      /\ request' = [request EXCEPT ![c].id = b]
      /\ got' = [got EXCEPT ![c] = 0]
      /\ hand' = [hand EXCEPT !["main"] = c]
      /\ step' = [step EXCEPT !["main"] = "header"]
      /\ overtaken' = overtaken \ {c}
      /\ UNCHANGED <<pool, holds, next, ref, block, index, piece, bp, walk, forgotten, pending,
                     piece_head, val>>
  BY DEF RequestAhead, MayAsk, poolVars, getterVars
<1>2. /\ Typed /\ ThreadSound("main") /\ ThreadSound("getter") /\ WalkSound /\ Listed /\ Coming /\ Opened
      /\ \A d \in Conns : ConnSound(d)
  BY DEF WaitInv
<1>3. b \in Nat /\ Filled(b, index) = 0
  BY <1>1, AheadIsEmpty
<1>4. wait_list \in Seq(Conns) /\ walk \in Seq(Conns)
  BY <1>2 DEF Typed, ListsTyped
<1>5. ToSet(wait_list') = {c} \union ToSet(wait_list) /\ wait_list' \in Seq(Conns)
  BY <1>1, <1>4, OneMore DEF Cons
<1>6. /\ conn'[c] = "ahead" /\ at'[c] = NULL /\ request'[c].id = b /\ got'[c] = 0
      /\ \A d \in Conns : d # c =>
           /\ conn'[d] = conn[d] /\ request'[d] = request[d] /\ got'[d] = got[d] /\ at'[d] = at[d]
  BY <1>1, <1>2 DEF Typed, ConnsTyped, RequestType
<1>7. /\ hand'["main"] = c /\ step'["main"] = "header"
      /\ hand'["getter"] = hand["getter"] /\ step'["getter"] = step["getter"]
  BY <1>1, <1>2 DEF Typed, HandsTyped, Threads
<1>8. Typed'
  <2>1. PoolTyped' /\ ListsTyped'
    BY <1>1, <1>2, <1>5 DEF Typed, PoolTyped, NextType, ListsTyped
  <2>2. ConnsTyped'
    BY <1>1, <1>2, <1>3 DEF Typed, ConnsTyped, RequestType
  <2>3. HandsTyped'
    BY <1>1, <1>2 DEF Typed, HandsTyped, Threads
  <2> QED BY <2>1, <2>2, <2>3 DEF Typed
<1>9. Listed'
  <2>1. ASSUME NEW s \in Places, NEW d \in ToSet(block'[s].wait_list)
        PROVE  conn'[d] = "parked" /\ request'[d].slot = s
    <3>1. d \in Waiting(s)
      BY <1>1, <2>1 DEF Waiting
    <3>2. conn[d] = "parked" /\ request[d].slot = s /\ d \in Conns
      BY <1>2, <3>1, WaitersAreConns DEF Listed
    <3> QED BY <1>1, <1>6, <3>2
  <2>2. ASSUME NEW d \in Conns, conn'[d] = "parked"
        PROVE  request'[d].slot \in Places /\ d \in ToSet(block'[request'[d].slot].wait_list)
    <3>1. d # c /\ conn[d] = "parked" /\ request'[d] = request[d]
      BY <1>6, <2>2
    <3> QED BY <1>1, <1>2, <3>1 DEF Listed, Waiting
  <2>3. ASSUME NEW d \in Conns PROVE d \in ToSet(wait_list') <=> conn'[d] = "ahead"
    BY <1>2, <1>5, <1>6 DEF Listed
  <2>4. ASSUME NEW d \in Conns, conn'[d] = "woken" PROVE d \in forgotten' \/ d \in ToSet(walk')
    BY <1>1, <1>2, <1>6, <2>4 DEF Listed
  <2> QED BY <2>1, <2>2, <2>3, <2>4 DEF Listed, Waiting
<1>10. ThreadSound("main")' /\ ThreadSound("getter")'
  <2>1. ThreadSound("main")'
    BY <1>6, <1>7, Constants DEF ThreadSound, Working
  <2>2. hand["getter"] # NULL => hand["getter"] \in Conns /\ conn[hand["getter"]] = "serving"
    BY <1>2 DEF ThreadSound, Working, Typed, HandsTyped, Threads
  <2>3. hand["getter"] # NULL => hand["getter"] # c
    BY <1>1, <2>2
  <2>4. ThreadSound("getter")'
    BY <1>1, <1>2, <1>6, <1>7, <2>2, <2>3 DEF ThreadSound, Working
  <2> QED BY <2>1, <2>4
<1>11. \A d \in Conns : ConnSound(d)'
  BY <1>1, <1>2, <1>6 DEF ConnSound, Typed, ConnsTyped
<1>12. WalkSound'
  <2>1. walk # <<>> => walk[1] \in Conns
    BY <1>4
  <2>2. step["getter"] = "next" => conn'[walk[1]] # "woken"
    BY <1>2, <1>6, <2>1 DEF WalkSound
  <2> QED BY <1>1, <1>2, <1>7, <2>2 DEF WalkSound, SlotOf, BlockOf
<1>13. Coming'
  <2>1. ASSUME NEW d \in ToSet(wait_list')
        PROVE  request'[d].id \in Nat /\ Filled(request'[d].id, index') = 0
    <3>1. CASE d = c
      BY <1>1, <1>3, <1>6, <3>1
    <3>2. CASE d # c
      <4>1. d \in ToSet(wait_list) /\ d \in Conns
        BY <1>2, <1>5, <2>1, <3>2, WaitersAreConns
      <4>2. request'[d] = request[d] /\ request[d].id \in Nat /\ Filled(request[d].id, index) = 0
        BY <1>2, <1>6, <3>2, <4>1 DEF Coming
      <4> QED BY <1>1, <4>2
    <3> QED BY <3>1, <3>2
  <2>2. ASSUME NEW d \in ToSet(walk'), conn'[d] = "woken", got'[d] = 0
        PROVE  request'[d].id = BlockOf(index' - 1) /\ Position(index' - 1) = 0
    <3>1. d \in ToSet(walk) /\ d \in Conns /\ d # c
      BY <1>1, <1>2, <1>6, <2>2, WaitersAreConns
    <3>2. conn[d] = "woken" /\ got[d] = 0 /\ request'[d] = request[d]
      BY <1>6, <2>2, <3>1
    <3>3. request[d].id = BlockOf(index - 1) /\ Position(index - 1) = 0
      BY <1>2, <3>1, <3>2 DEF Coming
    <3> QED BY <1>1, <3>2, <3>3
  <2> QED BY <2>1, <2>2 DEF Coming, Filled, BlockOf, Position, GroupOf, Column
<1>14. Opened'
  BY <1>1, <1>2, SlotsKept
<1> QED BY <1>8, <1>9, <1>10, <1>11, <1>12, <1>13, <1>14 DEF WaitInv

(* The chain that is freed, and the pool after it.                         *)
LEMMA FreeTyped ==
  ASSUME PoolTyped, NEW p \in Pieces \union {NULL}
  PROVE  Chain(p) \in Seq(Pieces) /\ FreeChain(p) \in Seq(Pieces)
<1>1. Chain(p) \in Seq(Pieces)
  BY ChainIsOf, ChainTyped DEF PoolTyped
<1> QED BY <1>1, FreedOnTop DEF FreeChain, PoolTyped

(* Publishing either appends to a chain or opens a block.                  *)
LEMMA PublishCases ==
  ASSUME Typed, Publish
  PROVE  \E b \in Nat, s \in Places :
           /\ b = BlockOf(index) /\ s = SlotOf(b) /\ s \notin stale
           /\ block[s] \in BlockType
           /\ \/ block[s].id = b /\ AppendToBlock(s)
              \/ block[s].id # b /\ OpenBlock(s, b)
<1>1. PICK b : b = BlockOf(index)
  OBVIOUS
<1>2. PICK s : s = SlotOf(b)
  OBVIOUS
<1>3. b \in Nat /\ s \in Places
  BY <1>1, <1>2, Numbers DEF Typed, PoolTyped
<1>4. block[s] \in BlockType
  BY <1>3 DEF Typed, ListsTyped
<1>5. s \notin stale /\ IF block[s].id = b THEN AppendToBlock(s) ELSE OpenBlock(s, b)
  BY <1>1, <1>2, Zenon DEF Publish
<1> QED BY <1>1, <1>2, <1>3, <1>4, <1>5

(* What publishing does not depend on the slot for.                        *)
LEMMA PublishFacts ==
  ASSUME Publish
  PROVE  /\ piece # NULL /\ walk = <<>> /\ ~Locked
         /\ holds' = [holds EXCEPT ![piece] = index]
         /\ index' = index + 1 /\ piece' = bp /\ bp' = NULL
         /\ conn' = [c \in Conns |-> IF c \in ToSet(walk') THEN "woken" ELSE conn[c]]
         /\ UNCHANGED <<ref, pending, request, at, piece_head, hand, step, val, got, overtaken,
                        forgotten, leaked, reused, stale, status>>
  BY DEF Publish, threadVars

(* The waiters of a published piece become the getter's; those whose       *)
(* request is for another block still wait for it.                         *)
Hands(b, s) ==
  /\ \A d \in Conns : d \in ToSet(walk') <=>
       \/ d \in Waiting(s)
       \/ block[s].id # b /\ d \in ToSet(wait_list) /\ request[d].id = b
  /\ \A d \in Conns : d \in ToSet(wait_list') <=>
       d \in ToSet(wait_list) /\ (block[s].id = b \/ request[d].id # b)
  /\ \A d \in Conns : conn'[d] = IF d \in ToSet(walk') THEN "woken" ELSE conn[d]
  /\ ToSet(block'[s].wait_list) = {}
  /\ \A r \in Places : r # s => block'[r] = block[r]
  /\ block'[s].id = b /\ block'[s].tail = piece
  /\ block'[s].head = IF block[s].id = b THEN block[s].head ELSE piece
  /\ piece \in Pieces
  /\ block' \in [Places -> BlockType]
  /\ walk' \in Seq(Conns) /\ wait_list' \in Seq(Conns)
  /\ pool' \in Seq(Pieces) /\ NextType(next')

(* That is what publishing does to the lists.                              *)
LEMMA PublishHands ==
  ASSUME Typed, Publish
  PROVE  \E b \in Nat, s \in Places :
           b = BlockOf(index) /\ s = SlotOf(b) /\ s \notin stale /\ Hands(b, s)
<1>1. PICK b \in Nat, s \in Places :
        /\ b = BlockOf(index) /\ s = SlotOf(b) /\ s \notin stale
        /\ block[s] \in BlockType
        /\ \/ block[s].id = b /\ AppendToBlock(s)
           \/ block[s].id # b /\ OpenBlock(s, b)
  BY PublishCases
<1>2. /\ block \in [Places -> BlockType] /\ wait_list \in Seq(Conns)
      /\ block[s].wait_list \in Seq(Conns) /\ block[s].head \in Pieces \union {NULL}
      /\ PoolTyped /\ pool \in Seq(Pieces) /\ NextType(next)
  BY <1>1 DEF Typed, ListsTyped, BlockType, PoolTyped
<1>3. piece \in Pieces
  BY <1>2, PublishFacts DEF PoolTyped
<1>4. \A d \in Conns : conn'[d] = IF d \in ToSet(walk') THEN "woken" ELSE conn[d]
  <2>1. conn' = [c \in Conns |-> IF c \in ToSet(walk') THEN "woken" ELSE conn[c]]
    BY PublishFacts
  <2> QED BY <2>1
<1>5. PICK none : none = <<>>
  OBVIOUS
<1>6. ToSet(none) = {} /\ none \in Seq(Conns)
  BY <1>5 DEF ToSet
<1>7. CASE block[s].id = b /\ AppendToBlock(s)
  <2>1. block' = [block EXCEPT ![s].tail = piece, ![s].wait_list = none]
    BY <1>5, <1>7 DEF AppendToBlock
  <2>2. /\ block'[s].wait_list = none /\ block'[s].id = block[s].id
        /\ block'[s].head = block[s].head /\ block'[s].tail = piece
        /\ \A r \in Places : r # s => block'[r] = block[r]
    BY <1>1, <1>2, <2>1 DEF BlockType
  <2>3. block' \in [Places -> BlockType]
    BY <1>1, <1>2, <1>3, <1>6, <2>1 DEF BlockType
  <2>4. walk' = block[s].wait_list /\ wait_list' = wait_list
    BY <1>7 DEF AppendToBlock
  <2>5. pool' \in Seq(Pieces) /\ NextType(next')
    BY <1>2, <1>3, <1>7 DEF AppendToBlock, NextType
  <2>6. Hands(b, s)
    BY <1>2, <1>3, <1>4, <1>6, <1>7, <2>2, <2>3, <2>4, <2>5 DEF Hands, Waiting
  <2> QED BY <1>1, <2>6
<1>8. CASE block[s].id # b /\ OpenBlock(s, b)
  <2>1. PICK l : l = block[s].wait_list
    OBVIOUS
  <2>2. block' = [block EXCEPT ![s] = [id |-> b, head |-> piece, tail |-> piece, wait_list |-> none]]
    BY <1>5, <1>8 DEF OpenBlock
  <2>3. /\ block'[s].wait_list = none /\ block'[s].id = b /\ block'[s].head = piece
        /\ block'[s].tail = piece
        /\ \A r \in Places : r # s => block'[r] = block[r]
    BY <1>1, <1>2, <2>2
  <2>4. block' \in [Places -> BlockType]
    BY <1>1, <1>2, <1>3, <1>6, <2>2 DEF BlockType
  <2>5. walk' = Due(b, l) /\ wait_list' = StillAhead(b)
    BY <1>8, <2>1 DEF OpenBlock
  <2>6. /\ ToSet(walk') = ToSet(l) \union {c \in ToSet(wait_list) : request[c].id = b}
        /\ ToSet(wait_list') = {c \in ToSet(wait_list) : request[c].id # b}
    BY <1>2, <2>1, <2>5, DueIs
  <2>7. walk' \in Seq(Conns) /\ wait_list' \in Seq(Conns)
    BY <1>2, <2>1, <2>5, DueTyped
  <2>8. \A d \in Conns : d \in ToSet(walk') <=>
          d \in Waiting(s) \/ (d \in ToSet(wait_list) /\ request[d].id = b)
    BY <2>1, <2>6 DEF Waiting
  <2>9. \A d \in Conns : d \in ToSet(wait_list') <=> d \in ToSet(wait_list) /\ request[d].id # b
    BY <2>6
  <2>10. pool' \in Seq(Pieces) /\ NextType(next')
    <3>1. FreeChain(block[s].head) \in Seq(Pieces)
      BY <1>2, FreeTyped
    <3>2. pool' = FreeChain(block[s].head) \/ pool' = pool
      BY <1>8 DEF OpenBlock
    <3>3. next' = next
      BY <1>8 DEF OpenBlock
    <3> QED BY <1>2, <3>1, <3>2, <3>3 DEF NextType
  <2>11. Hands(b, s)
    BY <1>3, <1>4, <1>6, <1>8, <2>3, <2>4, <2>7, <2>8, <2>9, <2>10 DEF Hands
  <2> QED BY <1>1, <2>11
<1> QED BY <1>1, <1>7, <1>8

(* What there is of the block of the piece, before it and with it.         *)
LEMMA PublishFilled ==
  ASSUME WaitInv, NEW b \in Nat, NEW s \in Places, b = BlockOf(index), s = SlotOf(b), block[s].id = b
  PROVE  block[s].head # NULL /\ Filled(b, index) > 0
<1>1. Opened /\ index \in Nat
  BY DEF WaitInv, Typed, PoolTyped
<1>2. b > 0
  BY <1>1, BlockIsLater DEF Opened
<1> QED BY <1>1, <1>2 DEF Opened

(* A piece is published.                                                   *)
LEMMA PublishKeeps ==
  ASSUME WaitInv, Publish
  PROVE  WaitInv'
<1>1. /\ Typed /\ ThreadSound("main") /\ ThreadSound("getter") /\ WalkSound /\ Listed /\ Coming /\ Opened
      /\ \A d \in Conns : ConnSound(d)
  BY DEF WaitInv
<1>2. PICK b \in Nat, s \in Places : b = BlockOf(index) /\ s = SlotOf(b) /\ Hands(b, s)
  BY <1>1, PublishHands
<1>3. /\ piece # NULL /\ walk = <<>>
      /\ holds' = [holds EXCEPT ![piece] = index]
      /\ index' = index + 1 /\ piece' = bp /\ bp' = NULL
      /\ conn' = [c \in Conns |-> IF c \in ToSet(walk') THEN "woken" ELSE conn[c]]
      /\ UNCHANGED <<ref, pending, request, at, piece_head, hand, step, val, got, overtaken, forgotten>>
  BY PublishFacts
<1>4. index \in Nat /\ index' - 1 = index
  BY <1>1, <1>3 DEF Typed, PoolTyped
<1>5. Typed'
  <2>1. holds' \in [Pieces -> Nat \union {NULL}]
    BY <1>1, <1>2, <1>3 DEF Hands, Typed, PoolTyped
  <2>2. PoolTyped'
    BY <1>1, <1>2, <1>3, <1>4, <2>1 DEF Hands, Typed, PoolTyped
  <2>3. ListsTyped'
    BY <1>2 DEF Hands, ListsTyped
  <2>4. ConnsTyped' /\ HandsTyped'
    BY <1>1, <1>3 DEF Typed, ConnsTyped, HandsTyped
  <2> QED BY <2>2, <2>3, <2>4 DEF Typed
<1>6. ToSet(walk') \subseteq Conns /\ ToSet(wait_list') \subseteq Conns
  <2>1. walk' \in Seq(Conns) /\ wait_list' \in Seq(Conns)
    BY <1>2 DEF Hands
  <2> QED BY <2>1 DEF ToSet
<1>7. ASSUME NEW d \in Conns, conn'[d] # "woken" PROVE conn'[d] = conn[d] /\ d \notin ToSet(walk')
  BY <1>2, <1>7 DEF Hands
<1>8. ASSUME NEW d \in Conns, d \in ToSet(walk')
      PROVE  \/ conn[d] = "parked" /\ d \in Waiting(s)
             \/ conn[d] = "ahead" /\ d \in ToSet(wait_list) /\ request[d].id = b
  BY <1>1, <1>2, <1>8 DEF Hands, Listed
<1>9. Listed'
  <2>1. ASSUME NEW r \in Places, NEW d \in ToSet(block'[r].wait_list)
        PROVE  conn'[d] = "parked" /\ request'[d].slot = r
    <3>1. r # s /\ block'[r] = block[r]
      BY <1>2, <2>1 DEF Hands
    <3>2. d \in Waiting(r)
      BY <2>1, <3>1 DEF Waiting
    <3>3. conn[d] = "parked" /\ request[d].slot = r /\ d \in Conns
      BY <1>1, <3>2, WaitersAreConns DEF Listed
    <3>4. d \notin ToSet(walk')
      <4>1. SUFFICES ASSUME d \in ToSet(walk') PROVE FALSE
        OBVIOUS
      <4>2. d \in Waiting(s)
        BY <1>8, <3>3, <4>1
      <4> QED BY <1>1, <3>1, <3>3, <4>2 DEF Listed
    <3> QED BY <1>2, <1>3, <3>3, <3>4 DEF Hands
  <2>2. ASSUME NEW d \in Conns, conn'[d] = "parked"
        PROVE  request'[d].slot \in Places /\ d \in ToSet(block'[request'[d].slot].wait_list)
    <3>1. conn[d] = "parked" /\ d \notin ToSet(walk')
      BY <1>7, <2>2
    <3>2. PICK r : r = request[d].slot
      OBVIOUS
    <3>3. r \in Places /\ d \in Waiting(r)
      BY <1>1, <3>1, <3>2 DEF Listed
    <3>4. r # s
      BY <1>2, <3>1, <3>3 DEF Hands
    <3>5. block'[r] = block[r]
      BY <1>2, <3>3, <3>4 DEF Hands
    <3> QED BY <1>3, <3>2, <3>3, <3>5 DEF Waiting
  <2>3. ASSUME NEW d \in Conns PROVE d \in ToSet(wait_list') <=> conn'[d] = "ahead"
    <3>1. d \in ToSet(wait_list) <=> conn[d] = "ahead"
      BY <1>1 DEF Listed
    <3>2. ASSUME d \in ToSet(wait_list') PROVE conn'[d] = "ahead"
      <4>1. conn[d] = "ahead" /\ (block[s].id = b \/ request[d].id # b)
        BY <1>2, <3>1, <3>2 DEF Hands
      <4>2. d \notin Waiting(s)
        BY <1>1, <4>1 DEF Listed
      <4> QED BY <1>2, <4>1, <4>2 DEF Hands
    <3>3. ASSUME conn'[d] = "ahead" PROVE d \in ToSet(wait_list')
      <4>1. conn[d] = "ahead" /\ d \notin ToSet(walk')
        BY <1>7, <3>3
      <4> QED BY <1>2, <3>1, <4>1 DEF Hands
    <3> QED BY <3>2, <3>3
  <2>4. ASSUME NEW d \in Conns, conn'[d] = "woken" PROVE d \in forgotten' \/ d \in ToSet(walk')
    <3>1. CASE d \in ToSet(walk')
      BY <3>1
    <3>2. CASE d \notin ToSet(walk')
      <4>1. conn[d] = "woken"
        BY <1>2, <2>4, <3>2 DEF Hands
      <4>2. ToSet(walk) = {}
        BY <1>3 DEF ToSet
      <4> QED BY <1>1, <1>3, <4>1, <4>2 DEF Listed
    <3> QED BY <3>1, <3>2
  <2> QED BY <2>1, <2>2, <2>3, <2>4 DEF Listed, Waiting
<1>10. \A d \in Conns : conn[d] = "serving" => conn'[d] = "serving"
  <2> SUFFICES ASSUME NEW d \in Conns, conn[d] = "serving" PROVE conn'[d] = "serving"
    OBVIOUS
  <2>1. d \notin ToSet(walk')
    BY <1>8
  <2> QED BY <1>2, <2>1 DEF Hands
<1>11. ThreadSound("main")' /\ ThreadSound("getter")'
  <2>1. \A t \in Threads : hand[t] = NULL \/ hand[t] \in Conns
    BY <1>1 DEF Typed, HandsTyped
  <2> QED BY <1>1, <1>3, <1>10, <2>1 DEF ThreadSound, Threads
<1>12. \A d \in Conns : ConnSound(d)'
  BY <1>1, <1>3, <1>7 DEF ConnSound
<1>13. block'[s].id = b /\ block'[s].head # NULL /\ block'[s].tail # NULL
  <2>1. CASE block[s].id = b
    BY <1>2, <1>3, <2>1, PublishFilled DEF Hands
  <2>2. CASE block[s].id # b
    BY <1>2, <1>3, <2>2 DEF Hands
  <2> QED BY <2>1, <2>2
<1>14. WalkSound'
  <2>1. hand["getter"] = NULL /\ step["getter"] # "next"
    BY <1>1, <1>3 DEF WalkSound
  <2>2. block'[SlotOf(BlockOf(index))].head # NULL
    BY <1>2, <1>13
  <2> QED BY <1>3, <1>4, <2>1, <2>2 DEF WalkSound, SlotOf, BlockOf
<1>15. Coming'
  <2>1. ASSUME NEW d \in ToSet(wait_list')
        PROVE  request'[d].id \in Nat /\ Filled(request'[d].id, index') = 0
    <3>1. PICK i : i = request[d].id
      OBVIOUS
    <3>2. d \in Conns /\ d \in ToSet(wait_list) /\ (block[s].id = b \/ i # b)
      BY <1>2, <1>6, <2>1, <3>1 DEF Hands
    <3>3. i \in Nat /\ Filled(i, index) = 0
      BY <1>1, <3>1, <3>2 DEF Coming
    <3>4. i # b
      <4>1. CASE block[s].id = b
        <5>1. Filled(b, index) > 0
          BY <1>2, <4>1, PublishFilled
        <5> QED BY <3>3, <5>1
      <4> QED BY <3>2, <4>1
    <3>5. Filled(i, index + 1) = Filled(i, index)
      BY <1>2, <1>4, <3>3, <3>4, FilledStep
    <3> QED BY <1>3, <3>1, <3>3, <3>5
  <2>2. ASSUME NEW d \in ToSet(walk'), conn'[d] = "woken", got'[d] = 0
        PROVE  request'[d].id = BlockOf(index' - 1) /\ Position(index' - 1) = 0
    <3>1. d \in Conns /\ got[d] = 0
      BY <1>3, <1>6, <2>2
    <3>2. conn[d] # "parked"
      BY <1>1, <3>1 DEF ConnSound
    <3>3. d \in ToSet(wait_list) /\ request[d].id = b
      BY <1>8, <2>2, <3>1, <3>2
    <3>4. Filled(b, index) = 0
      BY <1>1, <3>3 DEF Coming
    <3>5. Filled(b, index) = Position(index)
      BY <1>2, <1>4, FilledStep
    <3> QED BY <1>2, <1>3, <1>4, <3>3, <3>4, <3>5
  <2> QED BY <2>1, <2>2 DEF Coming, Filled, BlockOf, Position, GroupOf, Column
<1>16. Opened'
  <2>1. ASSUME NEW a \in Nat, a \div Group = GroupOf(index'), Filled(a, index') > 0
        PROVE  block'[SlotOf(a)].id = a /\ block'[SlotOf(a)].head # NULL
    <3>1. CASE a = b
      BY <1>2, <1>13, <3>1
    <3>2. CASE a # b
      <4>1. a \div Group = GroupOf(index + 1) /\ Filled(a, index + 1) > 0
        BY <1>3, <2>1
      <4>2. a \div Group = GroupOf(index) /\ Filled(a, index) > 0
        BY <1>2, <1>4, <3>2, <4>1, GroupNext
      <4>3. block[SlotOf(a)].id = a /\ block[SlotOf(a)].head # NULL /\ SlotOf(a) \in Places
        BY <1>1, <4>2, SlotIsPlace DEF Opened, GroupHeld
      <4>4. b \div Group = GroupOf(index)
        BY <1>2, <1>4, BlockCoordinates
      <4>5. SlotOf(a) # s
        BY <1>2, <3>2, <4>2, <4>4, SlotsDiffer
      <4> QED BY <1>2, <4>3, <4>5 DEF Hands
    <3> QED BY <3>1, <3>2
  <2>2. ASSUME NEW r \in Places
        PROVE  /\ block'[r].head = NULL <=> block'[r].tail = NULL
               /\ IF block'[r].head = NULL THEN block'[r].id = 0
                  ELSE Filled(block'[r].id, index') > 0 /\ SlotOf(block'[r].id) = r
    <3>1. CASE r = s
      <4>1. Filled(b, index + 1) = Position(index) + 1 /\ Position(index) \in Nat
        BY <1>2, <1>4, FilledStep, Numbers
      <4>2. Filled(b, index + 1) > 0
        BY <4>1
      <4> QED BY <1>2, <1>3, <1>13, <3>1, <4>2
    <3>2. CASE r # s
      <4>1. block'[r] = block[r]
        BY <1>2, <3>2 DEF Hands
      <4>2. /\ block[r].head = NULL <=> block[r].tail = NULL
            /\ IF block[r].head = NULL THEN block[r].id = 0
               ELSE Filled(block[r].id, index) > 0 /\ SlotOf(block[r].id) = r
        BY <1>1 DEF Opened
      <4>3. PICK i \in Nat : i = block[r].id
        BY <1>1 DEF Typed, ListsTyped, BlockType
      <4>4. Filled(i, index) \in Nat /\ Filled(i, index + 1) \in Nat /\ Filled(i, index) <= Filled(i, index + 1)
        BY <1>4, FilledGrows
      <4>5. Filled(i, index) > 0 => Filled(i, index + 1) > 0
        BY <4>4
      <4> QED BY <1>3, <4>1, <4>2, <4>3, <4>5
    <3> QED BY <3>1, <3>2
  <2>3. index' >= Group * Group
    <3>1. PICK e \in Nat : e = Group * Group
      BY Constants
    <3> QED BY <1>1, <1>3, <1>4, <3>1 DEF Opened
  <2> QED BY <2>1, <2>2, <2>3 DEF Opened, GroupHeld, Filled, GroupOf, Position, Column, SlotOf
<1> QED BY <1>5, <1>9, <1>11, <1>12, <1>14, <1>15, <1>16 DEF WaitInv

(* The first state.                                                        *)
LEMMA InitWait == Init => WaitInv
<1> SUFFICES ASSUME Init PROVE WaitInv
  OBVIOUS
<1>1. Typed
  <2>1. pool \in Seq(Pieces)
    BY Constants DEF Init, Pieces
  <2>2. Group * Group \in Nat /\ Group * Group >= 1
    BY Constants
  <2>3. PoolTyped
    BY <2>1, <2>2 DEF Init, PoolTyped, NextType
  <2>4. ListsTyped
    BY DEF Init, ListsTyped, BlockType, Places
  <2>5. ConnsTyped
    BY DEF Init, ConnsTyped, RequestType
  <2>6. HandsTyped
    <3>1. NoVal \in ValType
      BY DEF NoVal, ValType
    <3> QED BY <3>1 DEF Init, HandsTyped
  <2> QED BY <2>3, <2>4, <2>5, <2>6 DEF Typed
<1>2. /\ \A s \in Places : block[s] = [id |-> 0, head |-> NULL, tail |-> NULL, wait_list |-> <<>>]
      /\ wait_list = <<>> /\ walk = <<>> /\ index = Group * Group
      /\ \A c \in Conns : conn[c] = "idle"
      /\ \A t \in Threads : hand[t] = NULL /\ step[t] = "return"
  BY DEF Init, Places
<1>3. ToSet(wait_list) = {} /\ ToSet(walk) = {} /\ \A s \in Places : Waiting(s) = {}
  BY <1>2 DEF ToSet, Waiting
<1>4. Listed
  BY <1>2, <1>3 DEF Listed
<1>5. /\ ThreadSound("main") /\ ThreadSound("getter") /\ WalkSound
      /\ \A c \in Conns : ConnSound(c)
  BY <1>2 DEF ThreadSound, WalkSound, ConnSound, Threads
<1>6. Coming
  BY <1>3 DEF Coming
<1>7. Opened
  <2>1. index = 1 * (Group * Group) + (0 * Group + 0) /\ index \in Nat /\ 0 \in 0 .. Group - 1
    <3>1. Group * Group \in Nat /\ 0 * Group = 0
      BY Constants
    <3>2. 1 * (Group * Group) = Group * Group
      BY <3>1
    <3> QED BY <1>2, <3>1, <3>2, Constants
  <2>2. PICK i \in 0 .. Group - 1 : i = 0
    BY <2>1
  <2>3. Position(index) = 0 /\ Column(index) = 0
    <3>1. index = 1 * (Group * Group) + (i * Group + i)
      BY <2>1, <2>2
    <3> QED BY <2>1, <2>2, <3>1, FromCoordinates
  <2>4. ASSUME NEW b \in Nat, b \div Group = GroupOf(index), Filled(b, index) > 0 PROVE FALSE
    <3>1. b % Group \in 0 .. Group - 1
      BY BlockIs
    <3>2. PICK v : v = b % Group
      OBVIOUS
    <3>3. GroupOf(index) \in Nat
      BY <2>1, Coordinates
    <3>4. ~(v < 0)
      BY <3>1, <3>2, Constants
    <3>5. Filled(b, index) = Position(index) + (IF v < Column(index) THEN 1 ELSE 0)
      BY <2>4, <3>2, <3>3 DEF Filled
    <3> QED BY <2>3, <2>4, <3>4, <3>5
  <2>5. \A s \in Places : block[s].head = NULL /\ block[s].tail = NULL /\ block[s].id = 0
    BY <1>2
  <2>6. index >= Group * Group
    BY <1>2, <2>1
  <2> QED BY <2>4, <2>5, <2>6 DEF Opened, GroupHeld
<1> QED BY <1>1, <1>4, <1>5, <1>6, <1>7 DEF WaitInv

(* Every step keeps the invariant of the wait lists.                       *)
LEMMA WaitStep == WaitInv /\ [Next]_vars => WaitInv'
<1> SUFFICES ASSUME WaitInv, [Next]_vars PROVE WaitInv'
  OBVIOUS
<1>1. CASE UNCHANGED vars
  BY <1>1, StillKeeps DEF vars
<1>2. ASSUME NEW why, Ends(why) PROVE WaitInv'
  BY <1>2, StillKeeps
<1>3. CASE Getter
  <2>1. CASE PublishStale \/ WakeAstray
    BY <1>2, <2>1 DEF PublishStale, WakeAstray
  <2> QED BY <1>3, <2>1, MallocKeeps, PublishKeeps, WakeKeeps, NextWaiterKeeps DEF Getter
<1>4. ASSUME NEW c \in Conns, Client(c) PROVE WaitInv'
  <2>1. ASSUME NEW b \in Requestable, RequestHeld(c, b) \/ RequestAhead(c, b) PROVE WaitInv'
    BY <2>1, RequestHeldKeeps, RequestAheadKeeps
  <2>2. ASSUME NEW b \in Requestable, RequestStale(c, b) PROVE WaitInv'
    BY <1>2, <2>2 DEF RequestStale
  <2>3. CASE EventCrosses(c) \/ HeaderCrosses(c) \/ HeaderFailsNoPiece(c)
    BY <1>2, <2>3 DEF EventCrosses, HeaderCrosses, HeaderFailsNoPiece
  <2> QED BY <1>4, <2>1, <2>2, <2>3, WritableKeeps, HeaderSentKeeps, HeaderFailsKeeps DEF Client
<1>5. CASE Main
  <2>1. CASE HeaderDropsAgain
    BY <1>2, <2>1 DEF HeaderDropsAgain
  <2> QED BY <1>5, <2>1, CountedKeeps, HeaderDroppedKeeps DEF Main
<1>6. ASSUME NEW t \in Threads, Serve(t) PROVE WaitInv'
  <2>1. CASE FreeAgain(t) \/ FollowAway(t) \/ PieceFailsInUse(t)
    BY <1>2, <2>1 DEF FreeAgain, FollowAway, PieceFailsInUse
  <2> QED BY <1>6, <2>1, PieceSentKeeps, TailSentKeeps, GivenBackKeeps, NotLastKeeps, LastReaderKeeps,
          FreeHeadKeeps, FollowFreedKeeps, CaughtUpKeeps, ParkKeeps, WouldBlockKeeps,
          PieceFailsKeeps DEF Serve, Progress
<1> QED BY <1>1, <1>3, <1>4, <1>5, <1>6 DEF Next

(* Every variable keeps its type: the pool and the chains hold pieces, the *)
(* wait lists connections, whoever is sent to has a piece, whatever        *)
(* clients ask for and however the threads interleave (rtoh.c:576-674,     *)
(* thread.c:434-551).                                                      *)
THEOREM TypeCorrect == Spec => []TypeOK
<1>1. WaitInv => TypeOK
  <2> SUFFICES ASSUME WaitInv PROVE TypeOK
    OBVIOUS
  <2>1. Typed
    BY DEF WaitInv
  <2>2. \A s \in DOMAIN block : /\ block[s].id \in Nat
                                /\ {block[s].head, block[s].tail} \subseteq Pieces \union {NULL}
                                /\ block[s].wait_list \in Seq(Conns)
    <3> TAKE s \in DOMAIN block
    <3>1. block[s] \in BlockType
      BY <2>1 DEF Typed, ListsTyped
    <3> QED BY <3>1 DEF BlockType
  <2>3. step \in [Threads -> {"count", "header", "headref", "headtest", "write", "park", "ref", "test",
                              "free", "follow", "next", "return"}]
    BY <2>1 DEF Typed, HandsTyped, Working
  <2> QED BY <2>1, <2>2, <2>3 DEF Typed, TypeOK, PoolTyped, ListsTyped, ConnsTyped, HandsTyped, NextType, ValType
<1> QED BY <1>1, InitWait, WaitStep, PTL DEF Spec

(* Who waits is on one list, once.                                         *)
LEMMA OneList ==
  ASSUME WaitInv, NEW c \in Conns \ forgotten, conn[c] \in {"parked", "ahead", "woken"}
  PROVE  Cardinality({s \in DOMAIN block : c \in ToSet(block[s].wait_list)})
         + (IF c \in ToSet(wait_list) THEN 1 ELSE 0)
         + (IF conn[c] = "woken" /\ c \in ToSet(walk) THEN 1 ELSE 0) = 1
<1>1. Listed /\ DOMAIN block = Places
  BY DEF WaitInv, Typed, ListsTyped
<1>2. PICK S : S = {s \in DOMAIN block : c \in ToSet(block[s].wait_list)}
  OBVIOUS
<1>3. S = {s \in Places : c \in Waiting(s)}
  BY <1>1, <1>2 DEF Waiting
<1>4. CASE conn[c] = "parked"
  <2>1. c \notin ToSet(wait_list)
    BY <1>1, <1>4 DEF Listed
  <2>2. PICK r : r = request[c].slot
    OBVIOUS
  <2>3. r \in S
    BY <1>1, <1>3, <1>4, <2>2 DEF Listed
  <2>4. \A s \in S : s = r
    BY <1>1, <1>3, <2>2 DEF Listed
  <2>5. S = {r}
    BY <2>3, <2>4
  <2>6. Cardinality(S) = 1
    BY <2>5, FS_Singleton
  <2> QED BY <1>2, <1>4, <2>1, <2>6
<1>5. ASSUME conn[c] # "parked" PROVE Cardinality(S) = 0
  <2>1. S = {}
    BY <1>1, <1>3, <1>5 DEF Listed
  <2> QED BY <2>1, FS_EmptySet
<1>6. CASE conn[c] = "ahead"
  <2>1. c \in ToSet(wait_list)
    BY <1>1, <1>6 DEF Listed
  <2>2. Cardinality(S) = 0
    BY <1>5, <1>6
  <2> QED BY <1>2, <1>6, <2>1, <2>2
<1>7. CASE conn[c] = "woken"
  <2>1. c \notin ToSet(wait_list)
    BY <1>1, <1>7 DEF Listed
  <2>2. c \in ToSet(walk)
    BY <1>1, <1>7 DEF Listed
  <2>3. Cardinality(S) = 0
    BY <1>5, <1>7
  <2> QED BY <1>2, <1>7, <2>1, <2>2, <2>3
<1> QED BY <1>4, <1>6, <1>7

(* Every waiting connection but those that the walk has missed is on one   *)
(* list, once: of the item, of its slot, or the one that the getter walks. *)
(* Whom the list of the item holds waits for a block of which there is     *)
(* nothing, and is taken off it with the first piece of that block: for    *)
(* any clients, asking for anything, and any interleaving of the threads   *)
(* (rtoh.c:398-405, 622-628, thread.c:487-497, 529-551).                   *)
THEOREM WaitListsSoundCorrect == Spec => []WaitListsSound
<1>1. WaitInv => WaitListsSound
  <2> SUFFICES ASSUME WaitInv PROVE WaitListsSound
    OBVIOUS
  <2>1. WaitingIsListed
    BY OneList DEF WaitingIsListed
  <2>2. ASSUME NEW c \in ToSet(wait_list), NEW n \in Group * Group .. index - 1
        PROVE  BlockOf(n) # request[c].id
    <3>1. index \in Nat /\ Group * Group \in Nat
      BY Constants DEF WaitInv, Typed, PoolTyped
    <3>2. n \in Nat /\ n < index
      BY <3>1
    <3>3. Filled(BlockOf(n), index) > 0
      BY <3>1, <3>2, SentIsThere
    <3>4. Filled(request[c].id, index) = 0
      BY DEF WaitInv, Coming
    <3> QED BY <3>3, <3>4
  <2>3. \A c \in ToSet(walk) : conn[c] = "woken" /\ got[c] = 0 =>
          request[c].id = BlockOf(index - 1) /\ Position(index - 1) = 0
    BY DEF WaitInv, Coming
  <2>4. AheadIsFuture
    BY <2>2, <2>3 DEF AheadIsFuture
  <2> QED BY <2>1, <2>4 DEF WaitListsSound
<1> QED BY <1>1, InitWait, WaitStep, PTL DEF Spec

=============================================================================
