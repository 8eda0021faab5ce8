-------------------------- MODULE AssocTableProofs --------------------------
(***************************************************************************)
(* Theorems about AssocTable: the type invariant, the soundness of count   *)
(* and chains in the middle of an expansion, and that the table, whichever *)
(* of its two arrays an item is in, is the dictionary of AssocDict.        *)
(*                                                                         *)
(* A chain is followed by Nth, a recursive function; what the steps of the *)
(* table do is said of the links themselves (Forest), and ChainIs goes     *)
(* from one to the other.  Moving a bucket is inserting its items into the *)
(* new table one by one, so that one lemma about insertion serves both.    *)
(***************************************************************************)
EXTENDS AssocTable, LeastElement, FiniteSetTheorems, TLAPS

(* An item's list is in a bucket: B are the buckets, hd their first items, *)
(* L the items that are in lists, nx their successors, home the bucket of  *)
(* each; rk falls along a list, so that it ends.                           *)
ForestType(B, hd, L, nx, home, N, rk) ==
  /\ hd \in [B -> Items \union {NULL}] /\ L \in SUBSET Items
  /\ nx \in [Items -> Items \union {NULL}] /\ home \in [L -> B]
  /\ N \in Nat /\ rk \in [Items -> 0 .. N]

HeadsAreHome(B, hd, L, home) == \A b \in B : hd[b] # NULL => hd[b] \in L /\ home[hd[b]] = b

NextsAreHome(L, nx, home, rk) ==
  \A i \in L : nx[i] # NULL => /\ nx[i] \in L /\ home[nx[i]] = home[i]
                               /\ rk[nx[i]] < rk[i]

AllReached(hd, L, nx, home) == \A i \in L : hd[home[i]] = i \/ \E p \in L : nx[p] = i

ReachedOnce(B, hd, L, nx) ==
  /\ \A p, q \in L : nx[p] = nx[q] /\ nx[p] # NULL => p = q
  /\ \A p \in L, b \in B : nx[p] # NULL => nx[p] # hd[b]

Forest(B, hd, L, nx, home, N, rk) ==
  /\ ForestType(B, hd, L, nx, home, N, rk)
  /\ HeadsAreHome(B, hd, L, home) /\ NextsAreHome(L, nx, home, rk)
  /\ AllReached(hd, L, nx, home) /\ ReachedOnce(B, hd, L, nx)

(* The buckets of both tables, and which of them a hash value belongs to. *)
NewBuckets == {"new"} \X (0 .. hashsize(hashpower) - 1)
OldBuckets == IF expanding THEN {"old"} \X (0 .. hashsize(hashpower - 1) - 1) ELSE {}
Buckets == NewBuckets \union OldBuckets

Bucket(hv) == IF InOldTable(hv) THEN <<"old", Masked(hv, hashpower - 1)>>
                                ELSE <<"new", Masked(hv, hashpower)>>

HeadOf == [b \in Buckets |-> IF b[1] = "old" THEN old_hashtable[b[2]]
                                             ELSE primary_hashtable[b[2]]]

HomeOf(L) == [i \in L |-> Bucket(hash[key[i]])]

(* Keys tell the items of L apart. *)
Keyed(L) == /\ \A i \in L : key[i] \in Keys
            /\ \A i, j \in L : key[i] = key[j] => i = j

(* An expansion that is on has moved its first bucket, and has others. *)
ExpansionStays == expanding => expand_bucket = 1 /\ hashsize(hashpower - 1) > 1

(* The items of L are those in the lists of the table. *)
TableHas(L) == \E N \in Nat : \E rk \in [Items -> 0 .. N] :
                  Forest(Buckets, HeadOf, L, h_next, HomeOf(L), N, rk)

TableInv ==
  /\ TypeOK /\ ExpansionStays
  /\ \E L \in SUBSET Items :
       /\ hash_items = Cardinality(L) /\ Keyed(L)
       /\ TableHas(L)

-----------------------------------------------------------------------------
(* Lists in buckets. *)

(* An item that is in no list is put in front of a bucket. *)
LEMMA InsertInForest ==
  ASSUME NEW B, NEW hd, NEW L, NEW nx, NEW home, NEW N, NEW rk, NULL \notin Items,
         Forest(B, hd, L, nx, home, N, rk),
         NEW it \in Items, it \notin L, NEW b \in B
  PROVE  Forest(B, [hd EXCEPT ![b] = it], L \union {it}, [nx EXCEPT ![it] = hd[b]],
                [i \in L \union {it} |-> IF i = it THEN b ELSE home[i]],
                N + 1, [rk EXCEPT ![it] = N + 1])
<1> DEFINE hd2 == [hd EXCEPT ![b] = it]
           L2 == L \union {it}
           nx2 == [nx EXCEPT ![it] = hd[b]]
           home2 == [i \in L2 |-> IF i = it THEN b ELSE home[i]]
           rk2 == [rk EXCEPT ![it] = N + 1]
<1>0. ForestType(B, hd, L, nx, home, N, rk)
  BY DEF Forest
<1>1. /\ hd2 \in [B -> Items \union {NULL}]
      /\ hd2[b] = it /\ \A c \in B : c # b => hd2[c] = hd[c]
  BY <1>0 DEF ForestType
<1>2. /\ nx2 \in [Items -> Items \union {NULL}]
      /\ nx2[it] = hd[b] /\ \A i \in Items : i # it => nx2[i] = nx[i]
  BY <1>0 DEF ForestType
<1>3. /\ home2 \in [L2 -> B] /\ L2 \in SUBSET Items
      /\ home2[it] = b /\ \A i \in L : home2[i] = home[i] /\ i # it /\ i \in L2 /\ i \in Items
  BY <1>0 DEF ForestType
<1>4. /\ N + 1 \in Nat /\ rk2 \in [Items -> 0 .. N + 1]
      /\ rk2[it] = N + 1 /\ \A i \in Items : i # it => rk2[i] = rk[i]
      /\ \A i \in Items : rk[i] < N + 1 /\ rk[i] \in Nat
  <2>1. N \in Nat /\ rk \in [Items -> 0 .. N]
    BY <1>0 DEF ForestType
  <2> QED BY <2>1
<1>5. ForestType(B, hd2, L2, nx2, home2, N + 1, rk2)
  BY <1>1, <1>2, <1>3, <1>4 DEF ForestType
<1>6. \A i \in L2 : i = it \/ i \in L
  OBVIOUS
<1> HIDE DEF hd2, L2, nx2, home2, rk2
<1>7. HeadsAreHome(B, hd2, L2, home2)
  <2> SUFFICES ASSUME NEW c \in B, hd2[c] # NULL PROVE hd2[c] \in L2 /\ home2[hd2[c]] = c
    BY DEF HeadsAreHome
  <2>1. CASE c = b
    <3>1. it \in L2
      BY DEF L2
    <3> QED BY <2>1, <3>1, <1>1, <1>3
  <2>2. CASE c # b
    <3>1. hd[c] \in L /\ home[hd[c]] = c /\ hd2[c] = hd[c]
      BY <2>2, <1>1 DEF Forest, HeadsAreHome
    <3> QED BY <3>1, <1>3
  <2> QED BY <2>1, <2>2
<1>8. NextsAreHome(L2, nx2, home2, rk2)
  <2> SUFFICES ASSUME NEW i \in L2, nx2[i] # NULL
               PROVE  nx2[i] \in L2 /\ home2[nx2[i]] = home2[i] /\ rk2[nx2[i]] < rk2[i]
    BY DEF NextsAreHome
  <2>1. CASE i = it
    <3>1. hd[b] \in L /\ home[hd[b]] = b
      BY <2>1, <1>2 DEF Forest, HeadsAreHome
    <3> QED BY <2>1, <3>1, <1>2, <1>3, <1>4
  <2>2. CASE i \in L
    <3>1. nx[i] \in L /\ home[nx[i]] = home[i] /\ rk[nx[i]] < rk[i]
      BY <2>2, <1>2, <1>3 DEF Forest, NextsAreHome
    <3>2. rk2[nx[i]] = rk[nx[i]] /\ rk2[i] = rk[i] /\ nx2[i] = nx[i]
      BY <2>2, <3>1, <1>2, <1>3, <1>4
    <3> QED BY <2>2, <3>1, <3>2, <1>3
  <2> QED BY <2>1, <2>2, <1>6
<1>9. AllReached(hd2, L2, nx2, home2)
  <2> SUFFICES ASSUME NEW i \in L2 PROVE hd2[home2[i]] = i \/ \E p \in L2 : nx2[p] = i
    BY DEF AllReached
  <2>1. CASE i = it
    BY <2>1, <1>1, <1>3
  <2>2. CASE i \in L /\ hd[home[i]] = i
    <3>1. home[i] \in B
      BY <2>2, <1>0 DEF ForestType
    <3>2. CASE home[i] = b
      <4>1. nx2[it] = i /\ it \in L2
        BY <2>2, <3>2, <1>2 DEF L2
      <4> QED BY <4>1
    <3>3. CASE home[i] # b
      BY <2>2, <3>1, <3>3, <1>1, <1>3
    <3> QED BY <3>2, <3>3
  <2>3. CASE i \in L /\ hd[home[i]] # i
    <3>1. PICK p \in L : nx[p] = i
      BY <2>3 DEF Forest, AllReached
    <3> QED BY <3>1, <1>2, <1>3
  <2> QED BY <2>1, <2>2, <2>3, <1>6
<1>10. ReachedOnce(B, hd2, L2, nx2)
  <2>1. \A p \in L : nx2[p] = nx[p] /\ (nx[p] # NULL => nx[p] # it /\ \A c \in B : nx[p] # hd[c])
    BY <1>2, <1>3 DEF Forest, NextsAreHome, ReachedOnce
  <2>2. \A p, q \in L2 : nx2[p] = nx2[q] /\ nx2[p] # NULL => p = q
    BY <2>1, <1>2, <1>6 DEF Forest, ReachedOnce
  <2>3. \A p \in L2, c \in B : nx2[p] # NULL => nx2[p] # hd2[c]
    <3> SUFFICES ASSUME NEW p \in L2, NEW c \in B, nx2[p] # NULL, nx2[p] = hd2[c] PROVE FALSE
      OBVIOUS
    <3>1. CASE p = it
      <4>1. hd[b] \in L /\ home[hd[b]] = b
        BY <3>1, <1>2 DEF Forest, HeadsAreHome
      <4>2. hd2[c] # it
        BY <3>1, <4>1, <1>2, <1>3
      <4>3. hd[c] = hd[b] /\ c # b
        BY <3>1, <4>2, <1>1, <1>2
      <4>4. home[hd[c]] = c
        BY <4>1, <4>3, <1>2, <3>1 DEF Forest, HeadsAreHome
      <4> QED BY <4>1, <4>3, <4>4
    <3>2. CASE p \in L
      BY <3>2, <2>1, <1>1
    <3> QED BY <3>1, <3>2, <1>6
  <2> QED BY <2>2, <2>3 DEF ReachedOnce
<1>11. Forest(B, hd2, L2, nx2, home2, N + 1, rk2)
  BY <1>5, <1>7, <1>8, <1>9, <1>10 DEF Forest
<1> QED BY <1>11 DEF hd2, L2, nx2, home2, rk2

Inserted(B, hd, L, nx, home, N, rk, it, b) ==
  Forest(B, [hd EXCEPT ![b] = it], L \union {it}, [nx EXCEPT ![it] = hd[b]],
         [i \in L \union {it} |-> IF i = it THEN b ELSE home[i]],
         N + 1, [rk EXCEPT ![it] = N + 1])

(* The same, with the result under a name. *)
LEMMA InsertedInForest ==
  ASSUME NEW B, NEW hd, NEW L, NEW nx, NEW home, NEW N, NEW rk, NULL \notin Items,
         Forest(B, hd, L, nx, home, N, rk),
         NEW it \in Items, it \notin L, NEW b \in B
  PROVE  Inserted(B, hd, L, nx, home, N, rk, it, b)
BY InsertInForest DEF Inserted

(* The first item of a bucket is taken out. *)
LEMMA DeleteHead ==
  ASSUME NEW B, NEW hd, NEW L, NEW nx, NEW home, NEW N, NEW rk, NULL \notin Items,
         Forest(B, hd, L, nx, home, N, rk),
         NEW b \in B, NEW it \in Items, hd[b] = it
  PROVE  Forest(B, [hd EXCEPT ![b] = nx[it]], L \ {it}, [nx EXCEPT ![it] = NULL],
                [i \in L \ {it} |-> home[i]], N, rk)
<1> DEFINE hd2 == [hd EXCEPT ![b] = nx[it]]
           L2 == L \ {it}
           nx2 == [nx EXCEPT ![it] = NULL]
           home2 == [i \in L2 |-> home[i]]
<1>0. ForestType(B, hd, L, nx, home, N, rk)
  BY DEF Forest
<1>1. /\ hd2 \in [B -> Items \union {NULL}]
      /\ hd2[b] = nx[it] /\ \A c \in B : c # b => hd2[c] = hd[c]
  BY <1>0 DEF ForestType
<1>2. /\ nx2 \in [Items -> Items \union {NULL}]
      /\ nx2[it] = NULL /\ \A i \in Items : i # it => nx2[i] = nx[i]
  BY <1>0 DEF ForestType
<1>3. /\ home2 \in [L2 -> B] /\ L2 \in SUBSET Items
      /\ \A i \in L2 : home2[i] = home[i] /\ i # it /\ i \in L /\ i \in Items
      /\ \A i \in L : i # it => i \in L2
  BY <1>0 DEF ForestType
<1>4. ForestType(B, hd2, L2, nx2, home2, N, rk)
  BY <1>0, <1>1, <1>2, <1>3 DEF ForestType
<1>5. it \in L /\ home[it] = b
  BY DEF Forest, HeadsAreHome
<1>6. nx[it] # NULL => nx[it] \in L /\ home[nx[it]] = b /\ nx[it] # it
  <2>1. rk[it] \in Int
    BY <1>0 DEF ForestType
  <2>2. ~(rk[it] < rk[it])
    BY <2>1
  <2> QED BY <1>5, <2>2 DEF Forest, NextsAreHome
<1>7. \A p \in L : nx[p] # it
  BY DEF Forest, ReachedOnce
<1> HIDE DEF hd2, L2, nx2, home2
<1>8. HeadsAreHome(B, hd2, L2, home2)
  <2> SUFFICES ASSUME NEW c \in B, hd2[c] # NULL PROVE hd2[c] \in L2 /\ home2[hd2[c]] = c
    BY DEF HeadsAreHome
  <2>1. CASE c = b
    BY <2>1, <1>1, <1>3, <1>6
  <2>2. CASE c # b
    <3>1. hd[c] \in L /\ home[hd[c]] = c /\ hd2[c] = hd[c]
      BY <2>2, <1>1 DEF Forest, HeadsAreHome
    <3>2. hd[c] # it
      BY <3>1, <2>2, <1>5
    <3> QED BY <3>1, <3>2, <1>3
  <2> QED BY <2>1, <2>2
<1>9. NextsAreHome(L2, nx2, home2, rk)
  <2> SUFFICES ASSUME NEW i \in L2, nx2[i] # NULL
               PROVE  nx2[i] \in L2 /\ home2[nx2[i]] = home2[i] /\ rk[nx2[i]] < rk[i]
    BY DEF NextsAreHome
  <2>1. nx[i] \in L /\ home[nx[i]] = home[i] /\ rk[nx[i]] < rk[i] /\ nx2[i] = nx[i]
    BY <1>2, <1>3 DEF Forest, NextsAreHome
  <2>2. nx[i] # it
    BY <1>3, <1>7
  <2> QED BY <2>1, <2>2, <1>3
<1>10. AllReached(hd2, L2, nx2, home2)
  <2> SUFFICES ASSUME NEW i \in L2 PROVE hd2[home2[i]] = i \/ \E p \in L2 : nx2[p] = i
    BY DEF AllReached
  <2>1. CASE hd[home[i]] = i
    <3>1. home[i] \in B
      BY <1>0, <1>3 DEF ForestType
    <3>2. home[i] # b
      BY <2>1, <1>3
    <3> QED BY <2>1, <3>1, <3>2, <1>1, <1>3
  <2>2. CASE \E p \in L : nx[p] = i
    <3>1. PICK p \in L : nx[p] = i
      BY <2>2
    <3>2. CASE p = it
      <4>1. i # NULL
        BY <1>3
      <4>2. nx[it] = i /\ home[i] = b
        BY <3>1, <3>2, <4>1, <1>6
      <4> QED BY <4>2, <1>1, <1>3
    <3>3. CASE p # it
      <4>1. p \in L2 /\ nx2[p] = i
        BY <3>1, <3>3, <1>2, <1>3
      <4> QED BY <4>1
    <3> QED BY <3>2, <3>3
  <2> QED BY <2>1, <2>2, <1>3 DEF Forest, AllReached
<1>11. ReachedOnce(B, hd2, L2, nx2)
  <2>1. \A p \in L2 : nx2[p] = nx[p] /\ p \in L
    BY <1>2, <1>3
  <2>2. \A p, q \in L2 : nx2[p] = nx2[q] /\ nx2[p] # NULL => p = q
    BY <2>1 DEF Forest, ReachedOnce
  <2>3. \A p \in L2, c \in B : nx2[p] # NULL => nx2[p] # hd2[c]
    <3> SUFFICES ASSUME NEW p \in L2, NEW c \in B, nx2[p] # NULL, nx2[p] = hd2[c] PROVE FALSE
      OBVIOUS
    <3>1. CASE c = b
      <4>1. nx[p] = nx[it]
        BY <3>1, <2>1, <1>1
      <4>2. p = it
        BY <4>1, <2>1, <1>5 DEF Forest, ReachedOnce
      <4> QED BY <4>2, <1>3
    <3>2. CASE c # b
      BY <3>2, <2>1, <1>1 DEF Forest, ReachedOnce
    <3> QED BY <3>1, <3>2
  <2> QED BY <2>2, <2>3 DEF ReachedOnce
<1>12. Forest(B, hd2, L2, nx2, home2, N, rk)
  BY <1>4, <1>8, <1>9, <1>10, <1>11 DEF Forest
<1> QED BY <1>12 DEF hd2, L2, nx2, home2

(* An item further on in a list is taken out: its predecessor skips it. *)
LEMMA DeleteInner ==
  ASSUME NEW B, NEW hd, NEW L, NEW nx, NEW home, NEW N, NEW rk, NULL \notin Items,
         Forest(B, hd, L, nx, home, N, rk),
         NEW it \in Items, NEW p \in L, nx[p] = it
  PROVE  Forest(B, hd, L \ {it}, [nx EXCEPT ![p] = nx[it], ![it] = NULL],
                [i \in L \ {it} |-> home[i]], N, rk)
<1> DEFINE L2 == L \ {it}
           nx2 == [nx EXCEPT ![p] = nx[it], ![it] = NULL]
           home2 == [i \in L2 |-> home[i]]
<1>0. ForestType(B, hd, L, nx, home, N, rk)
  BY DEF Forest
<1>1. it \in L /\ home[it] = home[p] /\ rk[it] < rk[p] /\ p # it
  <2>1. it \in L /\ home[it] = home[p] /\ rk[it] < rk[p]
    BY DEF Forest, NextsAreHome
  <2>2. rk[it] \in Int
    BY <1>0 DEF ForestType
  <2> QED BY <2>1, <2>2
<1>2. /\ nx2 \in [Items -> Items \union {NULL}]
      /\ nx2[it] = NULL /\ nx2[p] = nx[it]
      /\ \A i \in Items : i # it /\ i # p => nx2[i] = nx[i]
  BY <1>0, <1>1 DEF ForestType
<1>3. /\ home2 \in [L2 -> B] /\ L2 \in SUBSET Items
      /\ \A i \in L2 : home2[i] = home[i] /\ i # it /\ i \in L /\ i \in Items
      /\ \A i \in L : i # it => i \in L2
      /\ p \in L2
  BY <1>0, <1>1 DEF ForestType
<1>4. ForestType(B, hd, L2, nx2, home2, N, rk)
  BY <1>0, <1>2, <1>3 DEF ForestType
<1>5. \A q \in L : nx[q] = it => q = p
  BY DEF Forest, ReachedOnce
<1>6. \A c \in B : hd[c] # it
  BY DEF Forest, ReachedOnce
<1>7. nx[it] # NULL => /\ nx[it] \in L /\ home[nx[it]] = home[p] /\ nx[it] # it
                       /\ rk[nx[it]] < rk[p]
  <2>1. rk \in [Items -> 0 .. N] /\ p \in Items /\ N \in Nat /\ L \in SUBSET Items
    BY <1>0 DEF ForestType
  <2>2. rk[it] \in Int /\ rk[p] \in Int
    BY <2>1
  <2>3. nx[it] # NULL => nx[it] \in L /\ home[nx[it]] = home[p] /\ rk[nx[it]] < rk[it]
    BY <1>1 DEF Forest, NextsAreHome
  <2>4. nx[it] # NULL => rk[nx[it]] \in Int
    BY <2>1, <2>3
  <2> QED BY <1>1, <2>2, <2>3, <2>4
<1> HIDE DEF L2, nx2, home2
<1>8. HeadsAreHome(B, hd, L2, home2)
  BY <1>3, <1>6 DEF Forest, HeadsAreHome
<1>9. NextsAreHome(L2, nx2, home2, rk)
  <2> SUFFICES ASSUME NEW i \in L2, nx2[i] # NULL
               PROVE  nx2[i] \in L2 /\ home2[nx2[i]] = home2[i] /\ rk[nx2[i]] < rk[i]
    BY DEF NextsAreHome
  <2>1. CASE i = p
    BY <2>1, <1>2, <1>3, <1>7
  <2>2. CASE i # p
    <3>1. nx[i] \in L /\ home[nx[i]] = home[i] /\ rk[nx[i]] < rk[i] /\ nx2[i] = nx[i]
      BY <2>2, <1>2, <1>3 DEF Forest, NextsAreHome
    <3>2. nx[i] # it
      BY <2>2, <1>3, <1>5
    <3> QED BY <3>1, <3>2, <1>3
  <2> QED BY <2>1, <2>2
<1>10. AllReached(hd, L2, nx2, home2)
  <2> SUFFICES ASSUME NEW i \in L2 PROVE hd[home2[i]] = i \/ \E q \in L2 : nx2[q] = i
    BY DEF AllReached
  <2>1. CASE hd[home[i]] = i
    BY <2>1, <1>3
  <2>2. CASE \E q \in L : nx[q] = i
    <3>1. PICK q \in L : nx[q] = i
      BY <2>2
    <3>2. CASE q = it
      <4>1. nx2[p] = i /\ p \in L2
        BY <3>1, <3>2, <1>2, <1>3
      <4> QED BY <4>1
    <3>3. CASE q # it
      <4>1. q # p
        BY <3>1, <1>3
      <4>2. q \in L2 /\ nx2[q] = i
        BY <3>1, <3>3, <4>1, <1>2, <1>3
      <4> QED BY <4>2
    <3> QED BY <3>2, <3>3
  <2> QED BY <2>1, <2>2, <1>3 DEF Forest, AllReached
<1>11. ReachedOnce(B, hd, L2, nx2)
  <2>1. \A q \in L2 : /\ q \in L /\ q # it
                      /\ nx2[q] = IF q = p THEN nx[it] ELSE nx[q]
    BY <1>2, <1>3
  <2>2. \A q, s \in L2 : nx2[q] = nx2[s] /\ nx2[q] # NULL => q = s
    BY <2>1, <1>1 DEF Forest, ReachedOnce
  <2>3. \A q \in L2, c \in B : nx2[q] # NULL => nx2[q] # hd[c]
    BY <2>1, <1>1 DEF Forest, ReachedOnce
  <2> QED BY <2>2, <2>3 DEF ReachedOnce
<1>12. Forest(B, hd, L2, nx2, home2, N, rk)
  BY <1>4, <1>8, <1>9, <1>10, <1>11 DEF Forest
<1> QED BY <1>12 DEF L2, nx2, home2

-----------------------------------------------------------------------------
(* Following a chain. *)

(* f is the chain from h on: an item, its successor, ..., then NULL. *)
Follows(f, nx, C, h) ==
  /\ f \in [0 .. C -> Items \union {NULL}]
  /\ f[0] = h
  /\ \A n \in 1 .. C : f[n] = IF f[n - 1] = NULL THEN NULL ELSE nx[f[n - 1]]

(* There is such a chain, of any length. *)
LEMMA FollowsExists ==
  ASSUME NULL \notin Items,
         NEW nx \in [Items -> Items \union {NULL}], NEW h \in Items \union {NULL}, NEW C \in Nat
  PROVE  \E f : Follows(f, nx, C, h)
<1> DEFINE Missing == {n \in Nat : ~ \E f : Follows(f, nx, n, h)}
<1> SUFFICES ASSUME Missing # {} PROVE FALSE
  OBVIOUS
<1>1. PICK n \in Missing : \A m \in Missing : n <= m
  BY LeastOf
<1>2. n # 0
  <2>1. Follows([i \in 0 .. 0 |-> h], nx, 0, h)
    BY DEF Follows
  <2> QED BY <2>1
<1>3. n - 1 \in Nat /\ n - 1 \notin Missing
  BY <1>1, <1>2
<1>4. PICK f : Follows(f, nx, n - 1, h)
  BY <1>3
<1> DEFINE v == IF f[n - 1] = NULL THEN NULL ELSE nx[f[n - 1]]
           g == [i \in 0 .. n |-> IF i = n THEN v ELSE f[i]]
<1>5. v \in Items \union {NULL}
  <2>1. f[n - 1] \in Items \union {NULL}
    BY <1>3, <1>4 DEF Follows
  <2> QED BY <2>1
<1>6. g \in [0 .. n -> Items \union {NULL}] /\ g[0] = h
  <2> HIDE DEF v
  <2> QED BY <1>2, <1>3, <1>4, <1>5 DEF Follows
<1>7. ASSUME NEW m \in 1 .. n
      PROVE  g[m] = IF g[m - 1] = NULL THEN NULL ELSE nx[g[m - 1]]
  <2>1. m - 1 \in 0 .. n - 1 /\ m - 1 # n /\ m - 1 \in 0 .. n /\ m \in 0 .. n
    BY <1>3
  <2>2. g[m - 1] = f[m - 1] /\ g[m] = IF m = n THEN v ELSE f[m]
    BY <2>1
  <2>3. CASE m = n
    BY <2>2, <2>3
  <2>4. CASE m # n
    BY <2>2, <2>4, <1>3, <1>4 DEF Follows
  <2> QED BY <2>3, <2>4
<1>8. Follows(g, nx, n, h)
  BY <1>6, <1>7 DEF Follows
<1> QED BY <1>8

(* Nth is it. *)
LEMMA NthFollows ==
  ASSUME AssocAssumption, h_next \in [Items -> Items \union {NULL}],
         NEW h \in Items \union {NULL}
  PROVE  Follows(Nth(h), h_next, Cardinality(Items), h)
<1> DEFINE C == Cardinality(Items)
           IsChain(f) == f = [n \in 0 .. C |->
                                IF n = 0 THEN h
                                ELSE LET prev == f[n - 1]
                                     IN  IF prev = NULL THEN NULL ELSE h_next[prev]]
<1>1. C \in Nat
  BY FS_CardinalityType DEF AssocAssumption
<1>2. PICK f : Follows(f, h_next, C, h)
  BY <1>1, FollowsExists DEF AssocAssumption
<1>3. IsChain(f)
  BY <1>1, <1>2 DEF Follows
<1>4. IsChain(Nth(h))
  <2>1. Nth(h) = CHOOSE g : IsChain(g)
    BY DEF Nth
  <2> HIDE DEF IsChain
  <2> QED BY <1>3, <2>1
<1> DEFINE g == Nth(h)
<1> HIDE DEF g
<1>5. g = [n \in 0 .. C |->
             IF n = 0 THEN h ELSE IF g[n - 1] = NULL THEN NULL ELSE h_next[g[n - 1]]]
  BY <1>4 DEF g
<1>6. DOMAIN g = 0 .. C /\ g[0] = h
  BY <1>1, <1>5
<1>7. \A n \in 1 .. C : g[n] = IF g[n - 1] = NULL THEN NULL ELSE h_next[g[n - 1]]
  BY <1>1, <1>5
<1>8. \A n \in 0 .. C : g[n] = f[n]
  <2> DEFINE Differ == {n \in 0 .. C : g[n] # f[n]}
  <2> SUFFICES ASSUME Differ # {} PROVE FALSE
    OBVIOUS
  <2>0. Differ \in SUBSET Nat
    BY <1>1
  <2>1. PICK n \in Differ : \A m \in Differ : n <= m
    <3> HIDE DEF Differ
    <3> QED BY <2>0, LeastOf
  <2>2. n # 0
    BY <1>2, <1>6 DEF Follows
  <2>3. n \in 1 .. C /\ n - 1 \in 0 .. C /\ n - 1 \notin Differ
    BY <1>1, <2>1, <2>2
  <2>4. g[n - 1] = f[n - 1]
    BY <2>3
  <2>5. g[n] = f[n]
    BY <1>2, <1>7, <2>3, <2>4 DEF Follows
  <2> QED BY <2>5
<1>9. g \in [0 .. C -> Items \union {NULL}]
  BY <1>2, <1>5, <1>6, <1>8 DEF Follows
<1> QED BY <1>6, <1>7, <1>9 DEF Follows, g

(* The chain of a bucket has each of its items once, and is over before it *)
(* is as long as there are items.                                          *)
LEMMA ChainIs ==
  ASSUME NEW B, NEW hd, NEW L, NEW nx, NEW home, NEW N, NEW rk, AssocAssumption,
         Forest(B, hd, L, nx, home, N, rk),
         NEW b \in B, NEW f, Follows(f, nx, Cardinality(Items), hd[b])
  PROVE  /\ Cardinality(Items) \in Nat
         /\ {f[n] : n \in DOMAIN f} \ {NULL} = {i \in L : home[i] = b}
         /\ f[Cardinality(Items)] = NULL
         /\ \A m, n \in DOMAIN f : f[n] # NULL /\ m <= n => f[m] # NULL
         /\ \A m, n \in DOMAIN f : f[m] = f[n] /\ f[n] # NULL => m = n
<1> DEFINE C == Cardinality(Items)
<1>0. C \in Nat /\ IsFiniteSet(Items) /\ NULL \notin Items
  BY FS_CardinalityType DEF AssocAssumption
<1> HIDE DEF C
<1>1. /\ DOMAIN f = 0 .. C /\ f[0] = hd[b]
      /\ \A n \in 0 .. C : f[n] \in Items \union {NULL}
      /\ \A n \in 1 .. C : f[n] = IF f[n - 1] = NULL THEN NULL ELSE nx[f[n - 1]]
  BY DEF Follows, C
<1>2. /\ hd \in [B -> Items \union {NULL}] /\ L \in SUBSET Items
      /\ home \in [L -> B] /\ N \in Nat /\ \A i \in Items : rk[i] \in 0 .. N
  BY DEF Forest, ForestType
<1>3. \A n \in 0 .. C : f[n] # NULL => f[n] \in L /\ home[f[n]] = b
  <2> DEFINE Bad == {n \in 0 .. C : f[n] # NULL /\ ~(f[n] \in L /\ home[f[n]] = b)}
  <2> SUFFICES ASSUME Bad # {} PROVE FALSE
    OBVIOUS
  <2>1. Bad \in SUBSET Nat
    BY <1>0
  <2>2. PICK n \in Bad : \A m \in Bad : n <= m
    <3> HIDE DEF Bad
    <3> QED BY <2>1, LeastOf
  <2>3. n # 0
    BY <1>1, <2>2 DEF Forest, HeadsAreHome
  <2>4. n \in 1 .. C /\ n - 1 \in 0 .. C /\ n - 1 \notin Bad
    BY <1>0, <2>2, <2>3
  <2>5. f[n - 1] # NULL /\ f[n] = nx[f[n - 1]] /\ f[n] # NULL
    BY <1>1, <2>2, <2>4
  <2>6. f[n - 1] \in L /\ home[f[n - 1]] = b
    BY <2>4, <2>5
  <2> QED BY <2>2, <2>5, <2>6 DEF Forest, NextsAreHome
<1>4. \A n \in 1 .. C : f[n] # NULL => f[n - 1] # NULL /\ rk[f[n]] < rk[f[n - 1]]
  <2> SUFFICES ASSUME NEW n \in 1 .. C, f[n] # NULL
               PROVE  f[n - 1] # NULL /\ rk[f[n]] < rk[f[n - 1]]
    OBVIOUS
  <2>1. n - 1 \in 0 .. C
    BY <1>0
  <2>2. f[n - 1] # NULL /\ f[n] = nx[f[n - 1]]
    BY <1>1
  <2>3. f[n - 1] \in L
    BY <1>3, <2>1, <2>2
  <2> QED BY <2>2, <2>3 DEF Forest, NextsAreHome
<1>5. \A n \in 0 .. C : f[n] # NULL => \A m \in 0 .. n : f[m] # NULL /\ (m < n => rk[f[n]] < rk[f[m]])
  <2> DEFINE Bad == {n \in 0 .. C : f[n] # NULL
                       /\ ~ \A m \in 0 .. n : f[m] # NULL /\ (m < n => rk[f[n]] < rk[f[m]])}
  <2> SUFFICES ASSUME Bad # {} PROVE FALSE
    OBVIOUS
  <2>1. Bad \in SUBSET Nat
    BY <1>0
  <2>2. PICK n \in Bad : \A m \in Bad : n <= m
    <3> HIDE DEF Bad
    <3> QED BY <2>1, LeastOf
  <2>3. PICK m \in 0 .. n : ~(f[m] # NULL /\ (m < n => rk[f[n]] < rk[f[m]]))
    BY <2>2
  <2>4. n \in 0 .. C /\ f[n] # NULL
    BY <2>2
  <2>5. m < n
    BY <2>3, <2>4
  <2>6. n \in 1 .. C /\ n - 1 \in 0 .. C /\ n - 1 \notin Bad /\ m \in 0 .. n - 1
    BY <1>0, <2>2, <2>4, <2>5
  <2>7. f[n - 1] # NULL /\ rk[f[n]] < rk[f[n - 1]]
    BY <1>4, <2>4, <2>6
  <2>8. f[m] # NULL /\ (m < n - 1 => rk[f[n - 1]] < rk[f[m]])
    BY <2>6, <2>7
  <2>9. m \in 0 .. C
    BY <1>0, <2>4, <2>6
  <2>10. f[n] \in Items /\ f[n - 1] \in Items /\ f[m] \in Items
    BY <1>1, <2>4, <2>6, <2>7, <2>8, <2>9
  <2>11. rk[f[n]] \in Int /\ rk[f[n - 1]] \in Int /\ rk[f[m]] \in Int
    BY <1>2, <2>10
  <2>12. m = n - 1 \/ m < n - 1
    BY <2>6
  <2> QED BY <2>3, <2>7, <2>8, <2>11, <2>12
<1>6. \A m, n \in 0 .. C : f[m] = f[n] /\ f[n] # NULL => m = n
  <2> SUFFICES ASSUME NEW m \in 0 .. C, NEW n \in 0 .. C, f[m] = f[n], f[n] # NULL, m < n
               PROVE  FALSE
    BY <1>0
  <2>1. rk[f[n]] < rk[f[m]]
    BY <1>5
  <2>2. rk[f[n]] \in Int
    BY <1>1, <1>2
  <2> QED BY <2>1, <2>2
<1>7. f[C] = NULL
  <2> SUFFICES ASSUME f[C] # NULL PROVE FALSE
    OBVIOUS
  <2>1. C \in 0 .. C
    BY <1>0
  <2>2. \A n \in 0 .. C : f[n] \in Items
    BY <1>1, <1>5, <2>1
  <2>3. f \in [0 .. C -> Items]
    <3>1. f = [n \in 0 .. C |-> f[n]]
      BY DEF Follows, C
    <3> QED BY <2>2, <3>1
  <2>4. f \in Injection(0 .. C, Items)
    BY <1>6, <2>2, <2>3 DEF Injection, IsInjective
  <2>5. Cardinality(0 .. C) <= C
    BY <1>0, <2>4, FS_Injection DEF C
  <2>6. Cardinality(0 .. C) = C + 1
    BY <1>0, FS_Interval
  <2> QED BY <1>0, <2>5, <2>6
<1>8. \A i \in L : home[i] = b => \E n \in 0 .. C : f[n] = i
  <2> DEFINE Bad == {i \in L : home[i] = b /\ ~ \E n \in 0 .. C : f[n] = i}
             Ranks == {N - rk[i] : i \in Bad}
  <2> SUFFICES ASSUME Bad # {} PROVE FALSE
    OBVIOUS
  <2>1. Ranks \in SUBSET Nat /\ Ranks # {}
    <3>1. \A i \in L : N - rk[i] \in Nat
      BY <1>2
    <3> QED BY <3>1
  <2>2. PICK d \in Ranks : \A e \in Ranks : d <= e
    <3> HIDE DEF Ranks
    <3> QED BY <2>1, LeastOf
  <2>3. PICK i \in Bad : d = N - rk[i]
    BY <2>2
  <2>4. \A j \in Bad : rk[j] <= rk[i]
    <3> TAKE j \in Bad
    <3>1. N - rk[i] <= N - rk[j]
      BY <2>2, <2>3
    <3>2. rk[i] \in Int /\ rk[j] \in Int
      BY <1>2
    <3> QED BY <1>2, <3>1, <3>2
  <2>5. hd[b] # i
    BY <1>0, <1>1
  <2>6. PICK p \in L : nx[p] = i
    BY <2>5 DEF Forest, AllReached
  <2>7. home[p] = b /\ rk[i] < rk[p]
    BY <1>0, <1>2, <2>6 DEF Forest, NextsAreHome
  <2>8. p \notin Bad
    <3>1. rk[i] \in Int /\ rk[p] \in Int
      BY <1>2
    <3> QED BY <2>4, <2>7, <3>1
  <2>9. PICK m \in 0 .. C : f[m] = p
    BY <2>7, <2>8
  <2>10. m # C /\ p # NULL
    BY <1>0, <1>2, <1>7, <2>9
  <2>11. m + 1 \in 1 .. C /\ m + 1 \in 0 .. C /\ (m + 1) - 1 = m
    BY <1>0, <2>10
  <2>12. f[m + 1] = i
    BY <1>1, <2>6, <2>9, <2>10, <2>11
  <2> QED BY <2>11, <2>12
<1>9. {f[n] : n \in DOMAIN f} \ {NULL} = {i \in L : home[i] = b}
  <2>1. \A i \in L : i # NULL
    BY <1>0, <1>2
  <2> QED BY <1>1, <1>3, <1>8, <2>1
<1>10. \A m, n \in DOMAIN f : f[n] # NULL /\ m <= n => f[m] # NULL
  <2> SUFFICES ASSUME NEW m \in 0 .. C, NEW n \in 0 .. C, f[n] # NULL, m <= n PROVE f[m] # NULL
    BY <1>1
  <2>1. m \in 0 .. n
    OBVIOUS
  <2> QED BY <1>5, <2>1
<1> QED BY <1>0, <1>1, <1>6, <1>7, <1>9, <1>10 DEF C

-----------------------------------------------------------------------------
(* The buckets of the table. *)

(* A table has a bucket, and a masked hash value is one of them. *)
LEMMA HashsizePositive ==
  ASSUME NEW n \in Nat
  PROVE  hashsize(n) \in Nat \ {0} /\ \A hv \in Nat : Masked(hv, n) \in 0 .. hashsize(n) - 1
<1>1. IsFiniteSet(1 .. n) /\ Cardinality(1 .. n) = n
  BY FS_Interval
<1>2. IsFiniteSet(SUBSET (1 .. n)) /\ Cardinality(SUBSET (1 .. n)) = 2 ^ n
  BY <1>1, FS_SUBSET
<1>3. SUBSET (1 .. n) # {}
  OBVIOUS
<1>4. Cardinality(SUBSET (1 .. n)) \in Nat /\ Cardinality(SUBSET (1 .. n)) # 0
  BY <1>2, <1>3, FS_CardinalityType, FS_EmptySet
<1>5. hashsize(n) \in Nat \ {0}
  BY <1>2, <1>4 DEF hashsize
<1>6. \A hv \in Nat : Masked(hv, n) \in 0 .. hashsize(n) - 1
  BY <1>5 DEF Masked
<1> QED BY <1>5, <1>6

(* A hash value is a number. *)
LEMMA HashIsNat ==
  ASSUME AssocAssumption, TypeOK, NEW k \in Keys
  PROVE  hash[k] \in Nat
<1>1. hashsize(HashBits) \in Nat
  BY HashsizePositive DEF AssocAssumption
<1>2. hash \in [Keys -> 0 .. hashsize(HashBits) - 1]
  BY DEF AssocAssumption, TypeOK, hashsize
<1> QED BY <1>1, <1>2

(* Where a key is looked for is a bucket, in the old table or the new. *)
LEMMA BucketIn ==
  ASSUME AssocAssumption, TypeOK, NEW k \in Keys
  PROVE  /\ Bucket(hash[k]) \in Buckets
         /\ BucketHead(hash[k]) = HeadOf[Bucket(hash[k])]
<1>1. hash[k] \in Nat
  BY HashIsNat
<1>2. CASE InOldTable(hash[k])
  <2>1. expanding /\ hashpower - 1 \in Nat
    BY <1>2 DEF InOldTable, TypeOK
  <2>2. Bucket(hash[k]) \in OldBuckets
    BY <1>1, <1>2, <2>1, HashsizePositive DEF Bucket, OldBuckets
  <2>3. Bucket(hash[k])[1] = "old" /\ Bucket(hash[k])[2] = Masked(hash[k], hashpower - 1)
    BY <1>2 DEF Bucket
  <2> QED BY <1>2, <2>2, <2>3 DEF Buckets, BucketHead, HeadOf
<1>3. CASE ~InOldTable(hash[k])
  <2>1. Bucket(hash[k]) \in NewBuckets
    BY <1>1, <1>3, HashsizePositive DEF Bucket, NewBuckets, TypeOK
  <2>2. Bucket(hash[k])[1] = "new" /\ Bucket(hash[k])[2] = Masked(hash[k], hashpower)
    BY <1>3 DEF Bucket
  <2> QED BY <1>3, <2>1, <2>2 DEF Buckets, BucketHead, HeadOf
<1> QED BY <1>2, <1>3

(* The chain of a bucket, as the table's own operators give it. *)
LEMMA NthIs ==
  ASSUME AssocAssumption, TypeOK, NEW L \in SUBSET Items, TableHas(L), NEW b \in Buckets
  PROVE  /\ Cardinality(Items) \in Nat
         /\ DOMAIN Nth(HeadOf[b]) = 0 .. Cardinality(Items)
         /\ Follows(Nth(HeadOf[b]), h_next, Cardinality(Items), HeadOf[b])
         /\ {Nth(HeadOf[b])[n] : n \in 0 .. Cardinality(Items)} \ {NULL}
              = {i \in L : HomeOf(L)[i] = b}
         /\ Nth(HeadOf[b])[Cardinality(Items)] = NULL
         /\ \A m, n \in 0 .. Cardinality(Items) :
              /\ Nth(HeadOf[b])[n] # NULL /\ m <= n => Nth(HeadOf[b])[m] # NULL
              /\ Nth(HeadOf[b])[m] = Nth(HeadOf[b])[n] /\ Nth(HeadOf[b])[n] # NULL => m = n
<1>1. PICK N, rk : N \in Nat /\ Forest(Buckets, HeadOf, L, h_next, HomeOf(L), N, rk)
  BY DEF TableHas
<1>2. HeadOf[b] \in Items \union {NULL}
  BY <1>1 DEF Forest, ForestType
<1>3. Follows(Nth(HeadOf[b]), h_next, Cardinality(Items), HeadOf[b])
  BY <1>2, NthFollows DEF TypeOK
<1>4. PICK f : f = Nth(HeadOf[b])
  OBVIOUS
<1>5. Follows(f, h_next, Cardinality(Items), HeadOf[b])
  BY <1>3, <1>4
<1>6. /\ Cardinality(Items) \in Nat
      /\ {f[n] : n \in DOMAIN f} \ {NULL} = {i \in L : HomeOf(L)[i] = b}
      /\ f[Cardinality(Items)] = NULL
      /\ \A m, n \in DOMAIN f : f[n] # NULL /\ m <= n => f[m] # NULL
      /\ \A m, n \in DOMAIN f : f[m] = f[n] /\ f[n] # NULL => m = n
  BY <1>1, <1>5, ChainIs
<1>7. DOMAIN f = 0 .. Cardinality(Items)
  BY <1>5 DEF Follows
<1> QED BY <1>4, <1>5, <1>6, <1>7

(* A look-up finds the item with the key, if there is one. *)
LEMMA FindIs ==
  ASSUME AssocAssumption, TypeOK, NEW L \in SUBSET Items, TableHas(L), NEW k \in Keys
  PROVE  \/ Find(k) = NULL /\ \A i \in L : key[i] # k
         \/ Find(k) \in L /\ key[Find(k)] = k
<1> DEFINE b == Bucket(hash[k])
           f == Nth(HeadOf[b])
           C == Cardinality(Items)
           hits == {n \in DOMAIN f : f[n] # NULL /\ key[f[n]] = k}
<1>1. b \in Buckets /\ BucketHead(hash[k]) = HeadOf[b]
  BY BucketIn
<1>2. /\ C \in Nat /\ DOMAIN f = 0 .. C
      /\ {f[n] : n \in DOMAIN f} \ {NULL} = {i \in L : HomeOf(L)[i] = b}
  <2> HIDE DEF b
  <2> QED BY <1>1, NthIs
<1>3. Find(k) = IF hits = {} THEN NULL ELSE f[CHOOSE n \in hits : \A m \in hits : n <= m]
  BY <1>1 DEF Find
<1>4. \A i \in L : HomeOf(L)[i] = Bucket(hash[key[i]])
  BY DEF HomeOf
<1> HIDE DEF b, f, C
<1>5. CASE hits = {}
  <2>1. ASSUME NEW i \in L, key[i] = k PROVE FALSE
    <3>1. HomeOf(L)[i] = b
      BY <1>4, <2>1 DEF b
    <3>2. PICK n \in DOMAIN f : f[n] = i /\ f[n] # NULL
      BY <1>2, <3>1
    <3> QED BY <1>5, <2>1, <3>2
  <2> QED BY <1>3, <1>5, <2>1
<1>6. CASE hits # {}
  <2>1. hits \in SUBSET Nat
    BY <1>2
  <2>2. \E n \in hits : \A m \in hits : n <= m
    <3> HIDE DEF hits
    <3> QED BY <1>6, <2>1, LeastOf
  <2> DEFINE n == CHOOSE n \in hits : \A m \in hits : n <= m
  <2>3. n \in hits
    <3> HIDE DEF hits
    <3> QED BY <2>2
  <2>4. Find(k) = f[n]
    BY <1>3, <1>6
  <2> HIDE DEF n
  <2>5. f[n] # NULL /\ key[f[n]] = k /\ n \in DOMAIN f
    BY <2>3
  <2>6. f[n] \in L
    BY <1>2, <2>5
  <2> QED BY <2>4, <2>5, <2>6
<1> QED BY <1>5, <1>6

(* The buckets are the places of the two tables, under their names. *)
LEMMA BucketsAre ==
  ASSUME TypeOK
  PROVE  /\ DOMAIN primary_hashtable = 0 .. hashsize(hashpower) - 1
         /\ \A b \in DOMAIN primary_hashtable :
              <<"new", b>> \in Buckets /\ HeadOf[<<"new", b>>] = primary_hashtable[b]
         /\ expanding =>
              /\ DOMAIN old_hashtable = 0 .. hashsize(hashpower - 1) - 1
              /\ \A b \in DOMAIN old_hashtable :
                   <<"old", b>> \in Buckets /\ HeadOf[<<"old", b>>] = old_hashtable[b]
         /\ \A c \in Buckets : \/ \E b \in DOMAIN primary_hashtable : c = <<"new", b>>
                               \/ expanding /\ \E b \in DOMAIN old_hashtable : c = <<"old", b>>
<1>1. DOMAIN primary_hashtable = 0 .. hashsize(hashpower) - 1
  BY DEF TypeOK
<1>2. expanding => DOMAIN old_hashtable = 0 .. hashsize(hashpower - 1) - 1
  BY DEF TypeOK
<1>3. \A b \in DOMAIN primary_hashtable : <<"new", b>> \in Buckets
  BY <1>1 DEF Buckets, NewBuckets
<1>4. expanding => \A b \in DOMAIN old_hashtable : <<"old", b>> \in Buckets
  BY <1>2 DEF Buckets, OldBuckets
<1>5. \A b : <<"new", b>> \in Buckets => HeadOf[<<"new", b>>] = primary_hashtable[b]
  BY DEF HeadOf
<1>6. \A b : <<"old", b>> \in Buckets => HeadOf[<<"old", b>>] = old_hashtable[b]
  BY DEF HeadOf
<1>7. ASSUME NEW c \in Buckets
      PROVE  \/ \E b \in DOMAIN primary_hashtable : c = <<"new", b>>
             \/ expanding /\ \E b \in DOMAIN old_hashtable : c = <<"old", b>>
  <2>1. CASE c \in NewBuckets
    BY <1>1, <2>1 DEF NewBuckets
  <2>2. CASE c \in OldBuckets
    <3>1. expanding
      BY <2>2, Zenon DEF OldBuckets
    <3>2. OldBuckets = {"old"} \X DOMAIN old_hashtable
      BY <1>2, <3>1, Zenon DEF OldBuckets
    <3> QED BY <2>2, <3>1, <3>2
  <2> QED BY <2>1, <2>2 DEF Buckets
<1> QED BY <1>1, <1>2, <1>3, <1>4, <1>5, <1>6, <1>7

(* The items that can be reached from either table are those of L. *)
LEMMA LinkedIs ==
  ASSUME AssocAssumption, TypeOK, NEW L \in SUBSET Items, TableHas(L)
  PROVE  /\ \A c \in Buckets : Chain(HeadOf[c]) = {i \in L : HomeOf(L)[i] = c}
         /\ Linked = L
<1>1. ASSUME NEW c \in Buckets
      PROVE  Chain(HeadOf[c]) = {i \in L : HomeOf(L)[i] = c}
  BY NthIs DEF Chain
<1>2. \A i \in L : HomeOf(L)[i] \in Buckets
  BY DEF TableHas, Forest, ForestType
<1>3. Linked = UNION {Chain(HeadOf[c]) : c \in Buckets}
  <2>1. ASSUME NEW x
        PROVE  x \in Linked <=> \E c \in Buckets : x \in Chain(HeadOf[c])
    <3>1. x \in Linked <=> \/ \E b \in DOMAIN primary_hashtable : x \in Chain(primary_hashtable[b])
                           \/ expanding /\ \E b \in DOMAIN old_hashtable : x \in Chain(old_hashtable[b])
      <4> DEFINE new == {Chain(primary_hashtable[b]) : b \in DOMAIN primary_hashtable}
                 old == {Chain(old_hashtable[b]) : b \in DOMAIN old_hashtable}
      <4>1. Linked = (UNION new) \union IF expanding THEN UNION old ELSE {}
        BY DEF Linked
      <4>2. x \in UNION new <=> \E b \in DOMAIN primary_hashtable : x \in Chain(primary_hashtable[b])
        OBVIOUS
      <4>3. x \in UNION old <=> \E b \in DOMAIN old_hashtable : x \in Chain(old_hashtable[b])
        OBVIOUS
      <4> HIDE DEF new, old
      <4>4. x \in Linked <=> x \in UNION new \/ (expanding /\ x \in UNION old)
        BY <4>1, Zenon
      <4> QED BY <4>2, <4>3, <4>4
    <3>2. (\E c \in Buckets : x \in Chain(HeadOf[c])) =>
            \/ \E b \in DOMAIN primary_hashtable : x \in Chain(primary_hashtable[b])
            \/ expanding /\ \E b \in DOMAIN old_hashtable : x \in Chain(old_hashtable[b])
      <4> SUFFICES ASSUME NEW c \in Buckets, x \in Chain(HeadOf[c])
                   PROVE \/ \E b \in DOMAIN primary_hashtable : x \in Chain(primary_hashtable[b])
                         \/ expanding /\ \E b \in DOMAIN old_hashtable : x \in Chain(old_hashtable[b])
        OBVIOUS
      <4>1. CASE \E b \in DOMAIN primary_hashtable : c = <<"new", b>>
        BY <4>1, BucketsAre
      <4>2. CASE expanding /\ \E b \in DOMAIN old_hashtable : c = <<"old", b>>
        BY <4>2, BucketsAre
      <4> QED BY <4>1, <4>2, BucketsAre
    <3>3. (\E b \in DOMAIN primary_hashtable : x \in Chain(primary_hashtable[b]))
            => \E c \in Buckets : x \in Chain(HeadOf[c])
      BY BucketsAre
    <3>4. (expanding /\ \E b \in DOMAIN old_hashtable : x \in Chain(old_hashtable[b]))
            => \E c \in Buckets : x \in Chain(HeadOf[c])
      BY BucketsAre
    <3> QED BY <3>1, <3>2, <3>3, <3>4
  <2> QED BY <2>1
<1>4. Linked = L
  <2>1. \A x : x \in Linked <=> \E c \in Buckets : x \in {i \in L : HomeOf(L)[i] = c}
    BY <1>1, <1>3
  <2>2. \A x : x \in Linked <=> x \in L
    BY <1>2, <2>1
  <2> QED BY <2>2
<1> QED BY <1>1, <1>4

(* An empty table. *)
LEMMA InitTable ==
  ASSUME AssocAssumption, Init
  PROVE  TableInv
<1>1. TypeOK /\ ExpansionStays
  BY HashsizePositive DEF Init, AssocAssumption, TypeOK, ExpansionStays, EmptyTable
<1>2. \A c \in Buckets : HeadOf[c] = NULL
  BY <1>1, BucketsAre DEF Init, EmptyTable
<1>3. HeadOf \in [Buckets -> Items \union {NULL}]
  <2>1. HeadOf = [c \in Buckets |-> HeadOf[c]]
    BY DEF HeadOf
  <2> QED BY <1>2, <2>1
<1>4. PICK rk : rk = [i \in Items |-> 0]
  OBVIOUS
<1>5. Forest(Buckets, HeadOf, {}, h_next, HomeOf({}), 0, rk)
  <2>1. HomeOf({}) \in [{} -> Buckets]
    BY DEF HomeOf
  <2>2. h_next \in [Items -> Items \union {NULL}]
    BY <1>1 DEF TypeOK
  <2>3. ForestType(Buckets, HeadOf, {}, h_next, HomeOf({}), 0, rk)
    BY <1>3, <1>4, <2>1, <2>2 DEF ForestType
  <2> QED BY <1>2, <2>3 DEF Forest, HeadsAreHome, NextsAreHome, AllReached, ReachedOnce
<1>6. Keyed({}) /\ Cardinality({}) = 0 /\ hash_items = 0
  BY FS_EmptySet DEF Keyed, Init
<1>7. rk \in [Items -> 0 .. 0] /\ 0 \in Nat
  BY <1>4
<1> QED BY <1>1, <1>5, <1>6, <1>7 DEF TableInv, TableHas

(* Setting the head of a key's bucket. *)
LEMMA SetHeadEffect ==
  ASSUME AssocAssumption, TypeOK, NEW k \in Keys, NEW x \in Items \union {NULL},
         SetBucketHead(hash[k], x),
         UNCHANGED <<hash, hashpower, expanding, expand_bucket>>
  PROVE  /\ Buckets' = Buckets
         /\ HeadOf' = [HeadOf EXCEPT ![Bucket(hash[k])] = x]
         /\ \A hv : Bucket(hv)' = Bucket(hv)
         /\ primary_hashtable' \in [0 .. hashsize(hashpower) - 1 -> Items \union {NULL}]
         /\ expanding => old_hashtable' \in
                           [0 .. hashsize(hashpower - 1) - 1 -> Items \union {NULL}]
<1> DEFINE b == Bucket(hash[k])
<1>1. Buckets' = Buckets
  BY DEF Buckets, NewBuckets, OldBuckets
<1>2. \A hv : Bucket(hv)' = Bucket(hv)
  BY DEF Bucket, InOldTable
<1>3. b \in Buckets
  BY BucketIn
<1>4. /\ primary_hashtable' \in [0 .. hashsize(hashpower) - 1 -> Items \union {NULL}]
      /\ expanding => old_hashtable' \in
                        [0 .. hashsize(hashpower - 1) - 1 -> Items \union {NULL}]
  BY DEF SetBucketHead, TypeOK
<1>5. \A c \in Buckets : HeadOf'[c] = IF c[1] = "old" THEN old_hashtable'[c[2]]
                                                      ELSE primary_hashtable'[c[2]]
  BY <1>1 DEF HeadOf
<1>6. \A c \in Buckets : HeadOf[c] = IF c[1] = "old" THEN old_hashtable[c[2]]
                                                     ELSE primary_hashtable[c[2]]
  BY DEF HeadOf
<1>7. ASSUME NEW c \in Buckets PROVE HeadOf'[c] = IF c = b THEN x ELSE HeadOf[c]
  <2>1. CASE InOldTable(hash[k])
    <3>1. b = <<"old", Masked(hash[k], hashpower - 1)>> /\ expanding
      BY <2>1 DEF Bucket, InOldTable
    <3>2. /\ old_hashtable' = [old_hashtable EXCEPT ![Masked(hash[k], hashpower - 1)] = x]
          /\ primary_hashtable' = primary_hashtable
      BY <2>1 DEF SetBucketHead
    <3>3. CASE \E m \in DOMAIN old_hashtable : c = <<"old", m>>
      <4>1. PICK m \in DOMAIN old_hashtable : c = <<"old", m>>
        BY <3>3
      <4>2. c = b <=> m = Masked(hash[k], hashpower - 1)
        BY <3>1, <4>1
      <4>3. HeadOf'[c] = old_hashtable'[m] /\ HeadOf[c] = old_hashtable[m]
        BY <1>5, <1>6, <4>1
      <4> QED BY <3>2, <4>1, <4>2, <4>3
    <3>4. CASE \E m \in DOMAIN primary_hashtable : c = <<"new", m>>
      <4>1. PICK m \in DOMAIN primary_hashtable : c = <<"new", m>>
        BY <3>4
      <4>2. c # b
        BY <3>1, <4>1
      <4>3. HeadOf'[c] = primary_hashtable'[m] /\ HeadOf[c] = primary_hashtable[m]
        BY <1>5, <1>6, <4>1
      <4> QED BY <3>2, <4>2, <4>3
    <3> QED BY <3>3, <3>4, BucketsAre
  <2>2. CASE ~InOldTable(hash[k])
    <3>1. b = <<"new", Masked(hash[k], hashpower)>>
      BY <2>2 DEF Bucket
    <3>2. /\ primary_hashtable' = [primary_hashtable EXCEPT ![Masked(hash[k], hashpower)] = x]
          /\ old_hashtable' = old_hashtable
      BY <2>2 DEF SetBucketHead
    <3>3. CASE \E m \in DOMAIN primary_hashtable : c = <<"new", m>>
      <4>1. PICK m \in DOMAIN primary_hashtable : c = <<"new", m>>
        BY <3>3
      <4>2. c = b <=> m = Masked(hash[k], hashpower)
        BY <3>1, <4>1
      <4>3. HeadOf'[c] = primary_hashtable'[m] /\ HeadOf[c] = primary_hashtable[m]
        BY <1>5, <1>6, <4>1
      <4> QED BY <3>2, <4>1, <4>2, <4>3
    <3>4. CASE \E m \in DOMAIN old_hashtable : c = <<"old", m>>
      <4>1. PICK m \in DOMAIN old_hashtable : c = <<"old", m>>
        BY <3>4
      <4>2. c # b
        BY <3>1, <4>1
      <4>3. HeadOf'[c] = old_hashtable'[m] /\ HeadOf[c] = old_hashtable[m]
        BY <1>5, <1>6, <4>1
      <4> QED BY <3>2, <4>2, <4>3
    <3> QED BY <3>3, <3>4, BucketsAre
  <2> QED BY <2>1, <2>2
<1>8. HeadOf' = [HeadOf EXCEPT ![b] = x]
  <2>1. DOMAIN HeadOf = Buckets /\ HeadOf' = [c \in Buckets |-> HeadOf'[c]]
    BY <1>1 DEF HeadOf
  <2> QED BY <1>3, <1>7, <2>1
<1> QED BY <1>1, <1>2, <1>4, <1>8

-----------------------------------------------------------------------------
(* The steps. *)

(* A step that leaves the tables' sizes alone keeps every bucket. *)
LEMMA HomesNext ==
  ASSUME UNCHANGED <<hash, hashpower, expanding, expand_bucket>>, NEW M
  PROVE  HomeOf(M)' = [i \in M |-> Bucket(hash[key'[i]])]
BY DEF HomeOf, Bucket, InOldTable

(* That a forest of the next state is one, without its name. *)
LEMMA TableHasNext ==
  ASSUME NEW M, NEW N \in Nat, NEW rk,
         Forest(Buckets', HeadOf', M, h_next', HomeOf(M)', N, rk)
  PROVE  TableHas(M)'
<1>1. rk \in [Items -> 0 .. N]
  BY DEF Forest, ForestType
<1> QED BY <1>1 DEF TableHas, Forest, ForestType, HeadsAreHome, NextsAreHome, AllReached, ReachedOnce

(* What is known before an insertion. *)
LEMMA BeforeInsert ==
  ASSUME AssocAssumption, TableInv, NEW it \in Items, NEW k \in Keys, Insert(it, k)
  PROVE  /\ key' = [key EXCEPT ![it] = k] /\ key'[it] = k /\ \A i \in Items : i # it => key'[i] = key[i]
         /\ key' \in [Items -> Keys \union {NULL}]
         /\ \E L \in SUBSET Items :
              /\ it \notin L /\ Keyed(L) /\ TableHas(L)
              /\ Keyed(L \union {it})'
              /\ hash_items = Cardinality(L) /\ hash_items' = Cardinality(L \union {it})
<1>1. PICK L \in SUBSET Items : hash_items = Cardinality(L) /\ Keyed(L) /\ TableHas(L)
  BY DEF TableInv
<1>2. TypeOK
  BY DEF TableInv
<1>3. it \notin L
  BY <1>1, <1>2, LinkedIs DEF Insert
<1>4. \A i \in L : key[i] # k
  <2>1. NULL \notin L
    BY DEF AssocAssumption
  <2> QED BY <1>1, <1>2, <2>1, FindIs DEF Insert
<1>5. /\ key' = [key EXCEPT ![it] = k] /\ key'[it] = k
      /\ \A i \in Items : i # it => key'[i] = key[i]
      /\ key' \in [Items -> Keys \union {NULL}]
  BY <1>2 DEF Insert, TypeOK
<1>6. Keyed(L \union {it})'
  <2>1. \A i \in L : key'[i] = key[i]
    BY <1>3, <1>5
  <2> QED BY <1>1, <1>4, <1>5, <2>1 DEF Keyed
<1>7. hash_items' = Cardinality(L \union {it})
  <2>1. IsFiniteSet(L)
    BY FS_Subset DEF AssocAssumption
  <2>2. Cardinality(L \union {it}) = Cardinality(L) + 1
    BY <1>3, <2>1, FS_AddElement
  <2> QED BY <1>1, <2>2 DEF Insert
<1> QED BY <1>1, <1>3, <1>5, <1>6, <1>7

(* An insertion into a table that does not expand. *)
LEMMA InsertOnlyStep ==
  ASSUME AssocAssumption, TableInv, NEW it \in Items, NEW k \in Keys,
         Insert(it, k), InsertOnly(it, k)
  PROVE  TableInv' /\ \E L \in SUBSET Items :
                        TableHas(L) /\ Keyed(L) /\ it \notin L
                        /\ TableHas(L \union {it})' /\ Keyed(L \union {it})'
<1> DEFINE b == Bucket(hash[k])
<1>1. PICK L \in SUBSET Items : /\ it \notin L /\ Keyed(L) /\ TableHas(L) /\ Keyed(L \union {it})'
                                /\ hash_items = Cardinality(L) /\ hash_items' = Cardinality(L \union {it})
  BY BeforeInsert
<1>2. /\ TypeOK /\ ExpansionStays /\ NULL \notin Items
      /\ UNCHANGED <<hash, hashpower, expanding, expand_bucket, failed>>
      /\ SetBucketHead(hash[k], it)
      /\ key'[it] = k /\ \A i \in Items : i # it => key'[i] = key[i]
      /\ key' \in [Items -> Keys \union {NULL}]
  BY BeforeInsert DEF TableInv, AssocAssumption, Insert, InsertOnly
<1>3. /\ b \in Buckets /\ BucketHead(hash[k]) = HeadOf[b]
  BY <1>2, BucketIn
<1>4. /\ Buckets' = Buckets /\ HeadOf' = [HeadOf EXCEPT ![b] = it]
      /\ primary_hashtable' \in [0 .. hashsize(hashpower) - 1 -> Items \union {NULL}]
      /\ expanding => old_hashtable' \in
                        [0 .. hashsize(hashpower - 1) - 1 -> Items \union {NULL}]
  BY <1>2, SetHeadEffect
<1>5. h_next' = [h_next EXCEPT ![it] = HeadOf[b]]
  BY <1>3 DEF InsertOnly
<1>6. HomeOf(L \union {it})' = [i \in L \union {it} |-> IF i = it THEN b ELSE HomeOf(L)[i]]
  <2>1. HomeOf(L \union {it})' = [i \in L \union {it} |-> Bucket(hash[key'[i]])]
    BY <1>2, HomesNext
  <2>2. \A i \in L : HomeOf(L)[i] = Bucket(hash[key[i]]) /\ i # it /\ key'[i] = key[i]
    BY <1>1, <1>2 DEF HomeOf
  <2> QED BY <1>2, <2>1, <2>2
<1>7. PICK N, rk : N \in Nat /\ Forest(Buckets, HeadOf, L, h_next, HomeOf(L), N, rk)
  BY <1>1 DEF TableHas
<1>8. PICK rk2 : rk2 = [rk EXCEPT ![it] = N + 1]
  OBVIOUS
<1>9. Forest(Buckets', HeadOf', L \union {it}, h_next', HomeOf(L \union {it})', N + 1, rk2)
  <2>1. Forest(Buckets, [HeadOf EXCEPT ![b] = it], L \union {it}, [h_next EXCEPT ![it] = HeadOf[b]],
               [i \in L \union {it} |-> IF i = it THEN b ELSE HomeOf(L)[i]],
               N + 1, [rk EXCEPT ![it] = N + 1])
    <3>1. PICK c \in Buckets : c = b
      BY <1>3
    <3>2. NULL \notin Items /\ it \notin L
      BY <1>1, <1>2
    <3>3. Inserted(Buckets, HeadOf, L, h_next, HomeOf(L), N, rk, it, c)
      BY <1>7, <3>2, InsertedInForest
    <3> QED BY <3>1, <3>3, Zenon DEF Inserted
  <2> HIDE DEF b
  <2> QED BY <2>1, <1>4, <1>5, <1>6, <1>8, Zenon
<1>10. TableHas(L \union {it})'
  <2>1. N + 1 \in Nat
    BY <1>7
  <2> QED BY <1>9, <2>1, TableHasNext
<1>11. TypeOK'
  <2>1. h_next' \in [Items -> Items \union {NULL}]
    <3>1. HeadOf[b] \in Items \union {NULL}
      BY <1>3, <1>7 DEF Forest, ForestType
    <3> QED BY <1>2, <1>5, <3>1 DEF TypeOK
  <2>2. hash_items' \in Nat
    BY <1>2 DEF Insert, TypeOK
  <2> QED BY <1>2, <1>4, <2>1, <2>2 DEF TypeOK
<1>12. ExpansionStays'
  BY <1>2 DEF ExpansionStays
<1>13. L \union {it} \in SUBSET Items
  OBVIOUS
<1> QED BY <1>1, <1>10, <1>11, <1>12, <1>13 DEF TableInv

(* What is known before a deletion. *)
LEMMA BeforeDelete ==
  ASSUME AssocAssumption, TableInv, NEW k \in Keys, Delete(k)
  PROVE  \E L \in SUBSET Items : \E it \in L :
           /\ it = Find(k) /\ key[it] = k /\ Keyed(L) /\ TableHas(L)
           /\ Keyed(L \ {it})'
           /\ hash_items = Cardinality(L) /\ hash_items' = Cardinality(L \ {it})
<1>1. PICK L \in SUBSET Items : hash_items = Cardinality(L) /\ Keyed(L) /\ TableHas(L)
  BY DEF TableInv
<1>2. TypeOK
  BY DEF TableInv
<1>3. PICK it : it = Find(k)
  OBVIOUS
<1>4. it \in L /\ key[it] = k
  BY <1>1, <1>2, <1>3, FindIs DEF Delete
<1>5. Keyed(L \ {it})'
  BY <1>1 DEF Keyed, Delete
<1>6. hash_items' = Cardinality(L \ {it})
  <2>1. IsFiniteSet(L)
    BY FS_Subset DEF AssocAssumption
  <2>2. Cardinality(L \ {it}) = Cardinality(L) - 1
    BY <1>4, <2>1, FS_RemoveElement
  <2> QED BY <1>1, <2>2 DEF Delete
<1> QED BY <1>1, <1>3, <1>4, <1>5, <1>6

(* A deletion, of the first item of a bucket or of one further on. *)
LEMMA DeleteStep ==
  ASSUME AssocAssumption, TableInv, NEW k \in Keys, Delete(k)
  PROVE  TableInv' /\ \E L \in SUBSET Items : \E it \in L :
                        /\ it = Find(k) /\ key[it] = k /\ Keyed(L) /\ TableHas(L)
                        /\ TableHas(L \ {it})' /\ Keyed(L \ {it})'
<1> DEFINE b == Bucket(hash[k])
<1>0. PICK L \in SUBSET Items : \E it \in L :
        /\ it = Find(k) /\ key[it] = k /\ Keyed(L) /\ TableHas(L)
        /\ Keyed(L \ {it})'
        /\ hash_items = Cardinality(L) /\ hash_items' = Cardinality(L \ {it})
  BY BeforeDelete
<1>1. PICK it \in L :
        /\ it = Find(k) /\ key[it] = k /\ Keyed(L) /\ TableHas(L)
        /\ Keyed(L \ {it})'
        /\ hash_items = Cardinality(L) /\ hash_items' = Cardinality(L \ {it})
  BY <1>0
<1>2. /\ TypeOK /\ ExpansionStays /\ NULL \notin Items
      /\ UNCHANGED <<hash, key, hashpower, expanding, expand_bucket, failed>>
  BY DEF TableInv, AssocAssumption, Delete
<1>3. /\ b \in Buckets /\ BucketHead(hash[k]) = HeadOf[b]
  BY <1>2, BucketIn
<1>4. HomeOf(L)[it] = b
  BY <1>1 DEF HomeOf
<1>5. PICK N, rk : N \in Nat /\ Forest(Buckets, HeadOf, L, h_next, HomeOf(L), N, rk)
  BY <1>1 DEF TableHas
<1>6. h_next \in [Items -> Items \union {NULL}]
  BY <1>2 DEF TypeOK
<1>7. HomeOf(L \ {it})' = [i \in L \ {it} |-> HomeOf(L)[i]]
  <2>1. HomeOf(L \ {it})' = [i \in L \ {it} |-> Bucket(hash[key'[i]])]
    BY <1>2, HomesNext
  <2>2. \A i \in L : HomeOf(L)[i] = Bucket(hash[key[i]])
    BY DEF HomeOf
  <2> QED BY <1>2, <2>1, <2>2
<1>8. Chain(BucketHead(hash[k])) = {i \in L : HomeOf(L)[i] = b}
  <2> HIDE DEF b
  <2> QED BY <1>1, <1>2, <1>3, LinkedIs
<1>9. {p \in Chain(BucketHead(hash[k])) : h_next[p] = it} = {p \in L : h_next[p] = it}
  <2>1. ASSUME NEW p \in L, h_next[p] = it PROVE HomeOf(L)[p] = b
    BY <1>1, <1>2, <1>4, <1>5, <2>1 DEF Forest, NextsAreHome
  <2> HIDE DEF b
  <2> QED BY <1>8, <2>1
<1> DEFINE pred == {p \in L : h_next[p] = it}
<1>10. IF pred = {}
       THEN /\ SetBucketHead(hash[k], h_next[it])
            /\ h_next' = [h_next EXCEPT ![it] = NULL]
       ELSE /\ \E p \in pred : h_next' = [h_next EXCEPT ![p] = h_next[it], ![it] = NULL]
            /\ UNCHANGED <<primary_hashtable, old_hashtable>>
  BY <1>1, <1>9 DEF Delete
<1> HIDE DEF pred, b
<1>11. TableHas(L \ {it})' /\ TypeOK'
  <2>1. CASE pred = {}
    <3>1. SetBucketHead(hash[k], h_next[it]) /\ h_next' = [h_next EXCEPT ![it] = NULL]
      BY <1>10, <2>1
    <3>2. HeadOf[b] = it
      <4>1. HeadOf[HomeOf(L)[it]] = it
        BY <1>5, <2>1 DEF Forest, AllReached, pred
      <4> QED BY <1>4, <4>1
    <3>3. PICK x \in Items \union {NULL} : x = h_next[it]
      BY <1>6
    <3>4. /\ Buckets' = Buckets /\ HeadOf' = [HeadOf EXCEPT ![b] = x]
          /\ primary_hashtable' \in [0 .. hashsize(hashpower) - 1 -> Items \union {NULL}]
          /\ expanding => old_hashtable' \in
                            [0 .. hashsize(hashpower - 1) - 1 -> Items \union {NULL}]
      BY <1>2, <3>1, <3>3, SetHeadEffect DEF b
    <3>5. Forest(Buckets, [HeadOf EXCEPT ![b] = h_next[it]], L \ {it}, [h_next EXCEPT ![it] = NULL],
                 [i \in L \ {it} |-> HomeOf(L)[i]], N, rk)
      <4>1. Forest(Buckets, HeadOf, L, h_next, HomeOf(L), N, rk) /\ NULL \notin Items
        BY <1>2, <1>5
      <4> QED BY SMTT(40), <1>3, <3>2, <4>1, DeleteHead
    <3>6. Forest(Buckets', HeadOf', L \ {it}, h_next', HomeOf(L \ {it})', N, rk)
      BY <1>7, <3>1, <3>3, <3>4, <3>5, Zenon
    <3>7. TypeOK'
      <4>1. hash_items' \in Nat /\ h_next' \in [Items -> Items \union {NULL}]
        <5>1. IsFiniteSet(L \ {it})
          BY FS_Subset DEF AssocAssumption
        <5> QED BY <1>1, <1>6, <3>1, <5>1, FS_CardinalityType
      <4> QED BY <1>2, <3>4, <4>1 DEF TypeOK
    <3> QED BY <1>5, <3>6, <3>7, TableHasNext
  <2>2. CASE pred # {}
    <3>1. PICK p \in L : /\ h_next[p] = it
                         /\ h_next' = [h_next EXCEPT ![p] = h_next[it], ![it] = NULL]
                         /\ UNCHANGED <<primary_hashtable, old_hashtable>>
      BY <1>10, <2>2 DEF pred
    <3>2. Buckets' = Buckets /\ HeadOf' = HeadOf
      BY <1>2, <3>1 DEF Buckets, NewBuckets, OldBuckets, HeadOf
    <3>3. Forest(Buckets, HeadOf, L \ {it}, [h_next EXCEPT ![p] = h_next[it], ![it] = NULL],
                 [i \in L \ {it} |-> HomeOf(L)[i]], N, rk)
      <4>1. it \in Items /\ NULL \notin Items /\ h_next[p] = it
        BY <1>2, <3>1
      <4> QED BY <4>1, <1>5, DeleteInner
    <3>4. Forest(Buckets', HeadOf', L \ {it}, h_next', HomeOf(L \ {it})', N, rk)
      BY <1>7, <3>1, <3>2, <3>3, Zenon
    <3>5. TypeOK'
      <4>1. hash_items' \in Nat
        <5>1. IsFiniteSet(L \ {it})
          BY FS_Subset DEF AssocAssumption
        <5> QED BY <1>1, <5>1, FS_CardinalityType
      <4>2. h_next' \in [Items -> Items \union {NULL}]
        BY <1>6, <3>1
      <4> QED BY <1>2, <3>1, <4>1, <4>2 DEF TypeOK
    <3> QED BY <1>5, <3>4, <3>5, TableHasNext
  <2> QED BY <2>1, <2>2
<1>12. ExpansionStays'
  BY <1>2 DEF ExpansionStays
<1>13. L \ {it} \in SUBSET Items
  OBVIOUS
<1> QED BY <1>1, <1>11, <1>12, <1>13 DEF TableInv

-----------------------------------------------------------------------------
(* Moving a bucket. *)

(* Some of the lists, whole, under other names for their buckets. *)
LEMMA PartOfForest ==
  ASSUME NEW B, NEW hd, NEW L, NEW nx, NEW home, NEW N, NEW rk, NULL \notin Items,
         Forest(B, hd, L, nx, home, N, rk),
         NEW B2, NEW M \in SUBSET L, NEW home2 \in [M -> B2],
         NEW hd2 \in [B2 -> Items \union {NULL}],
         \A i \in M : \A j \in L : home[i] = home[j] => j \in M /\ home2[i] = home2[j],
         \A c \in B2 : hd2[c] # NULL => /\ hd2[c] \in M /\ home2[hd2[c]] = c
                                        /\ \E b \in B : hd[b] = hd2[c],
         \A i \in M : hd[home[i]] = i => hd2[home2[i]] = i
  PROVE  Forest(B2, hd2, M, nx, home2, N, rk)
<1>1. ForestType(B2, hd2, M, nx, home2, N, rk)
  BY DEF Forest, ForestType
<1>2. HeadsAreHome(B2, hd2, M, home2)
  BY DEF HeadsAreHome
<1>3. NextsAreHome(M, nx, home2, rk)
  <2> SUFFICES ASSUME NEW i \in M, nx[i] # NULL
               PROVE  nx[i] \in M /\ home2[nx[i]] = home2[i] /\ rk[nx[i]] < rk[i]
    BY DEF NextsAreHome
  <2>1. nx[i] \in L /\ home[nx[i]] = home[i] /\ rk[nx[i]] < rk[i]
    BY DEF Forest, NextsAreHome
  <2> QED BY <2>1
<1>4. AllReached(hd2, M, nx, home2)
  <2> SUFFICES ASSUME NEW i \in M PROVE hd2[home2[i]] = i \/ \E p \in M : nx[p] = i
    BY DEF AllReached
  <2>1. CASE hd[home[i]] = i
    BY <2>1
  <2>2. CASE \E p \in L : nx[p] = i
    <3>1. PICK p \in L : nx[p] = i
      BY <2>2
    <3>2. i # NULL
      BY DEF Forest, ForestType
    <3>3. home[i] = home[p]
      BY <3>1, <3>2 DEF Forest, NextsAreHome
    <3> QED BY <3>1, <3>3
  <2> QED BY <2>1, <2>2 DEF Forest, AllReached
<1>5. ReachedOnce(B2, hd2, M, nx)
  <2>1. \A p, q \in M : nx[p] = nx[q] /\ nx[p] # NULL => p = q
    BY DEF Forest, ReachedOnce
  <2>2. ASSUME NEW p \in M, NEW c \in B2, nx[p] # NULL, nx[p] = hd2[c] PROVE FALSE
    BY <2>2 DEF Forest, ReachedOnce
  <2> QED BY <2>1, <2>2 DEF ReachedOnce
<1> QED BY <1>1, <1>2, <1>3, <1>4, <1>5 DEF Forest

(* The items of nth are pushed, from the front, on the buckets tgt. *)
Push(s, it, tgt) == IF it = NULL THEN s
                    ELSE [heads |-> [s.heads EXCEPT ![tgt[it]] = it],
                          links |-> [s.links EXCEPT ![it] = s.heads[tgt[it]]]]

Pushes(s, nth, C, tgt, heads, links) ==
  /\ s = [n \in 0 .. C |-> s[n]]
  /\ s[0] = [heads |-> heads, links |-> links]
  /\ \A n \in 1 .. C : s[n] = Push(s[n - 1], nth[n - 1], tgt)

(* There is such a sequence of states, of any length. *)
LEMMA PushesExist ==
  ASSUME NEW nth, NEW C \in Nat, NEW tgt, NEW heads, NEW links
  PROVE  \E s : Pushes(s, nth, C, tgt, heads, links)
<1> DEFINE Missing == {n \in Nat : ~ \E s : Pushes(s, nth, n, tgt, heads, links)}
<1> SUFFICES ASSUME Missing # {} PROVE FALSE
  OBVIOUS
<1>1. PICK n \in Missing : \A m \in Missing : n <= m
  BY LeastOf
<1>2. n # 0
  <2>1. Pushes([i \in 0 .. 0 |-> [heads |-> heads, links |-> links]], nth, 0, tgt, heads, links)
    BY DEF Pushes
  <2> QED BY <2>1
<1>3. n - 1 \in Nat /\ n - 1 \notin Missing
  BY <1>1, <1>2
<1>4. PICK s : Pushes(s, nth, n - 1, tgt, heads, links)
  BY <1>3
<1>5. PICK last : last = Push(s[n - 1], nth[n - 1], tgt)
  OBVIOUS
<1> DEFINE g == [i \in 0 .. n |-> IF i = n THEN last ELSE s[i]]
<1>6. g = [i \in 0 .. n |-> g[i]] /\ g[0] = [heads |-> heads, links |-> links]
  BY <1>2, <1>3, <1>4 DEF Pushes
<1>7. ASSUME NEW m \in 1 .. n PROVE g[m] = Push(g[m - 1], nth[m - 1], tgt)
  <2>1. m - 1 \in 0 .. n - 1 /\ m - 1 # n /\ m - 1 \in 0 .. n /\ m \in 0 .. n
    BY <1>3
  <2>2. g[m - 1] = s[m - 1] /\ g[m] = IF m = n THEN last ELSE s[m]
    BY <2>1
  <2>3. CASE m = n
    BY <2>2, <2>3, <1>5
  <2>4. CASE m # n
    <3>1. m \in 1 .. n - 1
      BY <2>4, <1>3
    <3> QED BY <2>2, <2>4, <3>1, <1>4 DEF Pushes
  <2> QED BY <2>3, <2>4
<1>8. Pushes(g, nth, n, tgt, heads, links)
  <2> HIDE DEF g
  <2> QED BY <1>6, <1>7 DEF Pushes
<1> QED BY <1>8

(* do_assoc_move_next_bucket does that (assoc.c:441-462). *)
LEMMA MovedPushes ==
  ASSUME AssocAssumption, NEW nth \in [0 .. Cardinality(Items) -> Items \union {NULL}],
         NEW power, NEW links, NEW keys
  PROVE  LET tgt == [i \in Items |-> Masked(hash[keys[i]], power)]
         IN  \E s : /\ Pushes(s, nth, Cardinality(Items), tgt, EmptyTable(power), links)
                    /\ Moved(nth, power, links, keys) = s[Cardinality(Items)]
<1> DEFINE C == Cardinality(Items)
           tgt == [i \in Items |-> Masked(hash[keys[i]], power)]
           empty == EmptyTable(power)
           IsStep(f) == f = [n \in 0 .. C |->
                               IF n = 0 THEN [heads |-> EmptyTable(power), links |-> links]
                               ELSE LET it == nth[n - 1]
                                        b  == Masked(hash[keys[it]], power)
                                        s  == f[n - 1]
                                    IN  IF it = NULL THEN s
                                        ELSE [heads |-> [s.heads EXCEPT ![b] = it],
                                              links |-> [s.links EXCEPT ![it] = s.heads[b]]]]
<1>1. C \in Nat
  BY FS_CardinalityType DEF AssocAssumption
<1>2. Moved(nth, power, links, keys) = (CHOOSE f : IsStep(f))[C]
  BY DEF Moved
<1>3. PICK s : Pushes(s, nth, C, tgt, empty, links)
  <2> HIDE DEF tgt, empty, C
  <2> QED BY <1>1, PushesExist
<1>4. ASSUME NEW f, f = [n \in 0 .. C |-> f[n]]
      PROVE  IsStep(f) <=> Pushes(f, nth, C, tgt, empty, links)
  <2>1. ASSUME NEW n \in 1 .. C
        PROVE  Push(f[n - 1], nth[n - 1], tgt) =
                 LET it == nth[n - 1]
                     b  == Masked(hash[keys[it]], power)
                     t  == f[n - 1]
                 IN  IF it = NULL THEN t
                     ELSE [heads |-> [t.heads EXCEPT ![b] = it],
                           links |-> [t.links EXCEPT ![it] = t.heads[b]]]
    <3>1. n - 1 \in 0 .. C
      BY <1>1
    <3>2. nth[n - 1] # NULL => tgt[nth[n - 1]] = Masked(hash[keys[nth[n - 1]]], power)
      BY <3>1
    <3> HIDE DEF tgt
    <3> QED BY <3>2 DEF Push
  <2>2. IsStep(f) <=> \A n \in 0 .. C : f[n] =
                        IF n = 0 THEN [heads |-> EmptyTable(power), links |-> links]
                        ELSE LET it == nth[n - 1]
                                 b  == Masked(hash[keys[it]], power)
                                 t  == f[n - 1]
                             IN  IF it = NULL THEN t
                                 ELSE [heads |-> [t.heads EXCEPT ![b] = it],
                                       links |-> [t.links EXCEPT ![it] = t.heads[b]]]
    BY <1>4
  <2> HIDE DEF IsStep, tgt, C
  <2>3. IsStep(f) <=> \A n \in 0 .. C : f[n] =
                        IF n = 0 THEN [heads |-> EmptyTable(power), links |-> links]
                        ELSE Push(f[n - 1], nth[n - 1], tgt)
    <3>1. \A n \in 0 .. C : n = 0 \/ n \in 1 .. C
      BY <1>1
    <3> QED BY <2>1, <2>2, <3>1
  <2>4. \A n \in 0 .. C : n = 0 \/ (n \in 1 .. C /\ n # 0)
    BY <1>1
  <2>5. 0 \in 0 .. C /\ \A n \in 1 .. C : n \in 0 .. C /\ n # 0
    BY <1>1
  <2> QED BY <1>4, <2>3, <2>4, <2>5 DEF Pushes, empty
<1>5. \E f : IsStep(f)
  <2>1. s = [n \in 0 .. C |-> s[n]]
    BY <1>3 DEF Pushes
  <2> HIDE DEF IsStep, tgt, C, empty
  <2> QED BY <1>3, <1>4, <2>1
<1>6. PICK f : f = CHOOSE g : IsStep(g)
  OBVIOUS
<1>7. IsStep(f)
  <2> HIDE DEF IsStep
  <2> QED BY <1>5, <1>6
<1>8. f = [n \in 0 .. C |-> f[n]]
  BY <1>7
<1>9. Pushes(f, nth, C, tgt, empty, links) /\ Moved(nth, power, links, keys) = f[C]
  <2> HIDE DEF IsStep, tgt, C, empty
  <2> QED BY <1>2, <1>4, <1>6, <1>7, <1>8
<1> QED BY <1>9

(* Pushing the items of a chain that are in no list leaves all of them in  *)
(* the lists of their new buckets.  The buckets are those of two tables;   *)
(* the old one stays as it is.                                             *)
HeadsWith(B, old, new) == [c \in B |-> IF c[1] = "old" THEN old[c[2]] ELSE new[c[2]]]

Pushed(R, nth, n) == R \union ({nth[j] : j \in 0 .. n - 1} \ {NULL})

PushedTo(t, In, B, old, size, home) ==
  /\ t.heads \in [0 .. size - 1 -> Items \union {NULL}]
  /\ \E N \in Nat : \E rk \in [Items -> 0 .. N] :
       Forest(B, HeadsWith(B, old, t.heads), In, t.links, [i \in In |-> home[i]], N, rk)

PushStart(C, s, nth, tgt, heads, links, B, old, size, M, R, home, N, rk) ==
  /\ C \in Nat /\ size \in Nat /\ M \in SUBSET Items /\ R \in SUBSET M /\ home \in [M -> B]
  /\ Pushes(s, nth, C, tgt, heads, links)
  /\ heads \in [0 .. size - 1 -> Items \union {NULL}]
  /\ \A c \in B : c[1] = "old" \/ \E m \in 0 .. size - 1 : c = <<"new", m>>
  /\ N \in Nat /\ Forest(B, HeadsWith(B, old, heads), R, links, [i \in R |-> home[i]], N, rk)
  /\ nth \in [0 .. C -> (M \ R) \union {NULL}]
  /\ \A m, n \in 0 .. C : nth[m] = nth[n] /\ nth[n] # NULL => m = n
  /\ \A i \in M \ R : tgt[i] \in 0 .. size - 1 /\ home[i] = <<"new", tgt[i]>>

(* After n pushes the items pushed are in the lists, with the rest. *)
LEMMA PushForest ==
  ASSUME NULL \notin Items, NEW C, NEW s, NEW nth, NEW tgt, NEW heads, NEW links,
         NEW B, NEW old, NEW size, NEW M, NEW R, NEW home, NEW N, NEW rk,
         PushStart(C, s, nth, tgt, heads, links, B, old, size, M, R, home, N, rk),
         NEW n \in 0 .. C
  PROVE  PushedTo(s[n], Pushed(R, nth, n), B, old, size, home)
<1> DEFINE In(m) == Pushed(R, nth, m)
           Good(m) == PushedTo(s[m], In(m), B, old, size, home)
           Bad == {m \in 0 .. C : ~Good(m)}
<1> SUFFICES ASSUME Bad # {} PROVE FALSE
  OBVIOUS
<1> HIDE DEF Good, In
<1>0. /\ C \in Nat /\ size \in Nat /\ M \in SUBSET Items /\ R \in SUBSET M /\ home \in [M -> B]
      /\ nth \in [0 .. C -> (M \ R) \union {NULL}]
  BY DEF PushStart
<1>1. PICK m \in Bad : \A j \in Bad : m <= j
  <2>1. Bad \in SUBSET Nat
    BY <1>0
  <2> HIDE DEF Bad
  <2> QED BY <2>1, LeastOf
<1>2. ASSUME m = 0 PROVE FALSE
  <2>1. {nth[j] : j \in 0 .. 0 - 1} = {}
    OBVIOUS
  <2>2. In(0) = R
    BY <2>1 DEF In, Pushed
  <2>3. s[0].heads = heads /\ s[0].links = links
    BY DEF Pushes, PushStart
  <2>4. /\ rk \in [Items -> 0 .. N] /\ N \in Nat
        /\ heads \in [0 .. size - 1 -> Items \union {NULL}]
        /\ Forest(B, HeadsWith(B, old, heads), R, links, [i \in R |-> home[i]], N, rk)
    BY DEF Forest, ForestType, PushStart
  <2>5. Good(0)
    BY <2>2, <2>3, <2>4 DEF Good, PushedTo
  <2> QED BY <1>1, <1>2, <2>5
<1>3. m \in 1 .. C /\ m - 1 \in 0 .. C /\ m - 1 \notin Bad
  BY <1>0, <1>1, <1>2
<1>4. Good(m - 1)
  BY <1>3
<1>5. s[m] = Push(s[m - 1], nth[m - 1], tgt)
  BY <1>3 DEF Pushes, PushStart
<1>6. \A j \in 0 .. m - 1 : j \in 0 .. (m - 1) - 1 \/ j = m - 1
  BY <1>3
<1>7. \A j \in 0 .. (m - 1) - 1 : j \in 0 .. m - 1 /\ j # m - 1 /\ j \in 0 .. C
  BY <1>0, <1>3
<1>8. In(m) = In(m - 1) \union ({nth[m - 1]} \ {NULL})
  <2>1. {nth[j] : j \in 0 .. m - 1} = {nth[j] : j \in 0 .. (m - 1) - 1} \union {nth[m - 1]}
    <3>1. m - 1 \in 0 .. m - 1
      BY <1>3
    <3> QED BY <1>6, <1>7, <3>1
  <2> QED BY <2>1 DEF In, Pushed
<1>9. In(m - 1) \in SUBSET M
  <2>1. \A j \in 0 .. (m - 1) - 1 : nth[j] \in M \union {NULL}
    BY <1>0, <1>7
  <2> QED BY <1>0, <2>1 DEF In, Pushed
<1>10. PICK K \in SUBSET M : K = In(m - 1)
  BY <1>9
<1>11. s[m - 1].heads \in [0 .. size - 1 -> Items \union {NULL}]
  BY <1>4 DEF Good, PushedTo
<1>12. PICK N2, rk2 : /\ N2 \in Nat /\ rk2 \in [Items -> 0 .. N2]
         /\ Forest(B, HeadsWith(B, old, s[m - 1].heads), K, s[m - 1].links,
                   [i \in K |-> home[i]], N2, rk2)
  BY <1>4, <1>10 DEF Good, PushedTo
<1>13. CASE nth[m - 1] = NULL
  <2>1. s[m] = s[m - 1]
    BY <1>5, <1>13 DEF Push
  <2>2. In(m) = K
    BY <1>8, <1>10, <1>13
  <2>3. Good(m)
    BY <1>11, <1>12, <2>1, <2>2 DEF Good, PushedTo
  <2> QED BY <1>1, <2>3
<1>14. CASE nth[m - 1] # NULL
  <2>1. PICK it : it = nth[m - 1]
    OBVIOUS
  <2>2. it \in M \ R /\ it \in Items /\ it # NULL
    BY <1>0, <1>3, <1>14, <2>1
  <2>3. it \notin K
    <3>1. \A j \in 0 .. (m - 1) - 1 : nth[j] # it
      BY <1>3, <1>7, <1>14, <2>1 DEF PushStart
    <3> QED BY <1>10, <2>2, <3>1 DEF In, Pushed
  <2>4. tgt[it] \in 0 .. size - 1 /\ home[it] = <<"new", tgt[it]>> /\ home[it] \in B
    BY <1>0, <2>2 DEF PushStart
  <2>4a. PICK b \in B : b = home[it] /\ b = <<"new", tgt[it]>>
    BY <2>4
  <2>5. PICK hs : hs = s[m - 1].heads
    OBVIOUS
  <2>6. PICK ls : ls = s[m - 1].links
    OBVIOUS
  <2>7. /\ s[m].heads = [hs EXCEPT ![tgt[it]] = it]
        /\ s[m].links = [ls EXCEPT ![it] = hs[tgt[it]]]
    BY <1>5, <1>14, <2>1, <2>5, <2>6 DEF Push
  <2>8. HeadsWith(B, old, hs)[b] = hs[tgt[it]]
    BY <2>4a DEF HeadsWith
  <2>9. HeadsWith(B, old, s[m].heads) = [HeadsWith(B, old, hs) EXCEPT ![b] = it]
    <3>1. ASSUME NEW c \in B
          PROVE  HeadsWith(B, old, s[m].heads)[c] = IF c = b THEN it ELSE HeadsWith(B, old, hs)[c]
      <4>1. CASE c[1] = "old"
        <5>1. c # b
          BY <2>4a, <4>1
        <5> QED BY <4>1, <5>1 DEF HeadsWith
      <4>2. CASE c[1] # "old"
        <5>1. PICK j \in 0 .. size - 1 : c = <<"new", j>>
          BY <4>2 DEF PushStart
        <5>2. c = b <=> j = tgt[it]
          BY <2>4a, <5>1
        <5>3. HeadsWith(B, old, s[m].heads)[c] = s[m].heads[j] /\ HeadsWith(B, old, hs)[c] = hs[j]
          BY <5>1 DEF HeadsWith
        <5>4. s[m].heads[j] = IF j = tgt[it] THEN it ELSE hs[j]
          BY <1>11, <2>5, <2>7, <5>1
        <5> QED BY <5>2, <5>3, <5>4
      <4> QED BY <4>1, <4>2
    <3>2. /\ HeadsWith(B, old, s[m].heads) = [c \in B |-> HeadsWith(B, old, s[m].heads)[c]]
          /\ HeadsWith(B, old, hs) = [c \in B |-> HeadsWith(B, old, hs)[c]]
      BY DEF HeadsWith
    <3> QED BY <3>1, <3>2
  <2>10. PICK hd : hd = HeadsWith(B, old, hs)
    OBVIOUS
  <2>11. Forest(B, [hd EXCEPT ![b] = it], K \union {it}, [ls EXCEPT ![it] = hd[b]],
                [i \in K \union {it} |-> IF i = it THEN b ELSE [j \in K |-> home[j]][i]],
                N2 + 1, [rk2 EXCEPT ![it] = N2 + 1])
    <3>1. PICK hm : hm = [j \in K |-> home[j]]
      OBVIOUS
    <3>2. Forest(B, hd, K, ls, hm, N2, rk2)
      BY <1>12, <2>5, <2>6, <2>10, <3>1
    <3>3. Forest(B, [hd EXCEPT ![b] = it], K \union {it}, [ls EXCEPT ![it] = hd[b]],
                 [i \in K \union {it} |-> IF i = it THEN b ELSE hm[i]],
                 N2 + 1, [rk2 EXCEPT ![it] = N2 + 1])
      BY <2>2, <2>3, <3>2, InsertInForest
    <3> QED BY <3>1, <3>3, Zenon
  <2>12. [i \in K \union {it} |-> IF i = it THEN b ELSE [j \in K |-> home[j]][i]]
           = [i \in K \union {it} |-> home[i]]
    BY <2>3, <2>4a
  <2>13. In(m) = K \union {it}
    BY <1>8, <1>10, <2>1, <2>2
  <2>14. PICK rk3 : rk3 = [rk2 EXCEPT ![it] = N2 + 1]
    OBVIOUS
  <2>15. Forest(B, HeadsWith(B, old, s[m].heads), In(m), s[m].links, [i \in In(m) |-> home[i]],
                N2 + 1, rk3)
    BY <2>7, <2>8, <2>9, <2>10, <2>11, <2>12, <2>13, <2>14, Zenon
  <2>16. rk3 \in [Items -> 0 .. N2 + 1] /\ N2 + 1 \in Nat
    BY <2>15 DEF Forest, ForestType
  <2>17. s[m].heads \in [0 .. size - 1 -> Items \union {NULL}]
    BY <1>11, <2>2, <2>4, <2>5, <2>7
  <2>18. Good(m)
    BY <2>15, <2>16, <2>17 DEF Good, PushedTo
  <2> QED BY <1>1, <2>18
<1> QED BY <1>13, <1>14

(* The first bucket of a table is pushed on the buckets of one of another  *)
(* size, in which nothing is yet; the others stay in the old table.        *)
MoveStart(size, size2, table, B, hd, M, low, high, homes, links, N, rk,
          seq, tgt, empty, s, B2, old, home2) ==
  /\ size \in Nat \ {0} /\ size2 \in Nat \ {0} /\ M \in SUBSET Items
  /\ table \in [0 .. size - 1 -> Items \union {NULL}]
  /\ low \in [M -> 0 .. size - 1] /\ high \in [M -> 0 .. size2 - 1]
  /\ B = {"new"} \X (0 .. size - 1) /\ hd = [b \in B |-> table[b[2]]]
  /\ homes = [i \in M |-> <<"new", low[i]>>] /\ Forest(B, hd, M, links, homes, N, rk)
  /\ Follows(seq, links, Cardinality(Items), table[0])
  /\ \A i \in M : tgt[i] = high[i]
  /\ empty = [b \in 0 .. size2 - 1 |-> NULL]
  /\ Pushes(s, seq, Cardinality(Items), tgt, empty, links)
  /\ B2 = ({"new"} \X (0 .. size2 - 1))
             \union (IF 1 # size THEN {"old"} \X (0 .. size - 1) ELSE {})
  /\ old = [table EXCEPT ![0] = NULL]
  /\ home2 = [i \in M |-> IF low[i] = 0 THEN <<"new", high[i]>> ELSE <<"old", low[i]>>]

(* The first bucket's items are all in the new table then. *)
LEMMA MoveFirst ==
  ASSUME AssocAssumption,
         NEW size, NEW size2, NEW table, NEW B, NEW hd, NEW M, NEW low, NEW high, NEW homes,
         NEW links, NEW N, NEW rk, NEW seq, NEW tgt, NEW empty, NEW s, NEW B2, NEW old,
         NEW home2,
         MoveStart(size, size2, table, B, hd, M, low, high, homes, links, N, rk,
                   seq, tgt, empty, s, B2, old, home2)
  PROVE  PushedTo(s[Cardinality(Items)], M, B2, old, size2, home2)
<1> DEFINE C == Cardinality(Items)
<1>1. C \in Nat /\ NULL \notin Items
  BY FS_CardinalityType DEF AssocAssumption
<1> HIDE DEF C
<1>2. /\ 0 \in 0 .. size - 1 /\ size \in Nat /\ size2 \in Nat
      /\ \A m \in 0 .. size - 1 : <<"new", m>> \in B /\ hd[<<"new", m>>] = table[m]
      /\ Forest(B, hd, M, links, homes, N, rk)
      /\ \A i \in M : low[i] \in 0 .. size - 1 /\ homes[i] = <<"new", low[i]>>
  BY DEF MoveStart
<1>3. PICK R \in SUBSET M : R = {i \in M : low[i] # 0}
  OBVIOUS
<1>4. /\ \A i \in M : i \in R <=> low[i] # 0
      /\ \A i \in R : home2[i] = <<"old", low[i]>>
      /\ \A i \in M \ R : tgt[i] \in 0 .. size2 - 1 /\ home2[i] = <<"new", tgt[i]>>
      /\ \A i \in R : \A j \in M : homes[i] = homes[j] => j \in R /\ home2[i] = home2[j]
  <2>1. \A i \in M : i \in R <=> low[i] # 0
    BY <1>3
  <2>2. \A i \in M : home2[i] = IF low[i] = 0 THEN <<"new", high[i]>> ELSE <<"old", low[i]>>
    BY DEF MoveStart
  <2>3. \A i \in M : tgt[i] = high[i] /\ high[i] \in 0 .. size2 - 1
    BY DEF MoveStart
  <2>4. \A i \in R : home2[i] = <<"old", low[i]>>
    BY <2>1, <2>2
  <2>5. \A i \in M \ R : tgt[i] \in 0 .. size2 - 1 /\ home2[i] = <<"new", tgt[i]>>
    BY <2>1, <2>2, <2>3
  <2>6. \A i \in M : \A j \in M : homes[i] = homes[j] => low[i] = low[j]
    BY <1>2
  <2>7. \A i \in R : \A j \in M : homes[i] = homes[j] => j \in R /\ home2[i] = home2[j]
    BY <2>1, <2>4, <2>6
  <2> QED BY <2>1, <2>4, <2>5, <2>7
<1>5. /\ \A m \in 0 .. size2 - 1 : <<"new", m>> \in B2
      /\ \A m \in 0 .. size - 1 : m # 0 => <<"old", m>> \in B2
      /\ \A c \in B2 : \/ c[1] = "old" /\ \E m \in 0 .. size - 1 : c = <<"old", m>>
                       \/ c[1] = "new" /\ \E m \in 0 .. size2 - 1 : c = <<"new", m>>
  <2>0. B2 = ({"new"} \X (0 .. size2 - 1))
               \union (IF 1 # size THEN {"old"} \X (0 .. size - 1) ELSE {})
    BY DEF MoveStart
  <2>1. \A m \in 0 .. size2 - 1 : <<"new", m>> \in B2
    BY <2>0
  <2>2. \A m \in 0 .. size - 1 : m # 0 => <<"old", m>> \in B2
    <3>1. \A m \in 0 .. size - 1 : m # 0 => 1 # size
      BY <1>2
    <3> QED BY <2>0, <3>1
  <2>3. \A c \in B2 : c \in {"new"} \X (0 .. size2 - 1) \/ c \in {"old"} \X (0 .. size - 1)
    BY <2>0
  <2> QED BY <2>1, <2>2, <2>3
<1>6. home2 \in [M -> B2]
  <2>1. home2 = [i \in M |-> home2[i]]
    BY DEF MoveStart
  <2>2. ASSUME NEW i \in M PROVE home2[i] \in B2
    <3>1. CASE i \in R
      <4>1. low[i] \in 0 .. size - 1 /\ low[i] # 0 /\ home2[i] = <<"old", low[i]>>
        BY <1>2, <1>4, <3>1
      <4> QED BY <1>5, <4>1
    <3>2. CASE i \notin R
      BY <1>4, <1>5, <3>2
    <3> QED BY <3>1, <3>2
  <2> QED BY <2>1, <2>2
<1>7. /\ \A m \in 0 .. size - 1 : old[m] = IF m = 0 THEN NULL ELSE table[m]
      /\ \A m \in 0 .. size - 1 : table[m] \in Items \union {NULL}
      /\ \A m \in 0 .. size2 - 1 : empty[m] = NULL
  BY DEF MoveStart
<1>8. PICK hd2 : hd2 = HeadsWith(B2, old, empty)
  OBVIOUS
<1>9. \A c \in B2 : hd2[c] = IF c[1] = "old" THEN old[c[2]] ELSE NULL
  <2>1. ASSUME NEW c \in B2 PROVE hd2[c] = IF c[1] = "old" THEN old[c[2]] ELSE NULL
    <3>1. hd2[c] = IF c[1] = "old" THEN old[c[2]] ELSE empty[c[2]]
      BY <1>8 DEF HeadsWith
    <3>2. c[1] = "old" \/ empty[c[2]] = NULL
      BY <1>5, <1>7
    <3> QED BY <3>1, <3>2
  <2> QED BY <2>1
<1>10. hd2 \in [B2 -> Items \union {NULL}]
  <2>1. ASSUME NEW c \in B2 PROVE hd2[c] \in Items \union {NULL}
    <3>1. CASE c[1] = "old"
      <4>1. PICK m \in 0 .. size - 1 : c = <<"old", m>>
        BY <1>5, <3>1
      <4> QED BY <1>7, <1>9, <4>1
    <3>2. CASE c[1] # "old"
      BY <1>9, <3>2
    <3> QED BY <3>1, <3>2
  <2>2. hd2 = [c \in B2 |-> hd2[c]]
    BY <1>8 DEF HeadsWith
  <2> QED BY <2>1, <2>2
(* The rest of the table, under its old name. *)
<1>11. ASSUME NEW c \in B2, hd2[c] # NULL
       PROVE  hd2[c] \in R /\ home2[hd2[c]] = c /\ \E b \in B : hd[b] = hd2[c]
  <2>1. PICK m \in 0 .. size - 1 : c = <<"old", m>> /\ c[1] = "old"
    BY <1>5, <1>9, <1>11
  <2>2. hd2[c] = table[m] /\ m # 0
    BY <1>7, <1>9, <1>11, <2>1
  <2>3. <<"new", m>> \in B /\ hd[<<"new", m>>] = hd2[c]
    BY <1>2, <2>2
  <2>4. PICK i : i = hd2[c] /\ i # NULL
    BY <1>11
  <2>5. i \in M /\ homes[i] = <<"new", m>>
    BY <1>2, <2>3, <2>4 DEF Forest, HeadsAreHome
  <2>6. low[i] = m /\ i \in R
    BY <1>2, <1>4, <2>2, <2>5
  <2> QED BY <1>4, <2>1, <2>3, <2>4, <2>6
<1>12. ASSUME NEW i \in R, hd[homes[i]] = i PROVE hd2[home2[i]] = i
  <2>1. i \in M /\ low[i] \in 0 .. size - 1 /\ low[i] # 0 /\ home2[i] = <<"old", low[i]>>
    BY <1>2, <1>4
  <2>2. table[low[i]] = i
    BY <1>2, <1>12, <2>1
  <2>3. old[low[i]] = i /\ home2[i] \in B2
    BY <1>5, <1>7, <2>1, <2>2
  <2> QED BY <1>9, <2>1, <2>3
<1>13. PICK hm : hm = [i \in R |-> home2[i]]
  OBVIOUS
<1>14. Forest(B2, hd2, R, links, hm, N, rk)
  <2>1. \A i \in R : hm[i] = home2[i]
    BY <1>13
  <2>2. hm \in [R -> B2]
    BY <1>6, <1>13
  <2>3. \A i \in R : \A j \in M : homes[i] = homes[j] => j \in R /\ hm[i] = hm[j]
    BY <1>4, <2>1
  <2>4. \A c \in B2 : hd2[c] # NULL => hd2[c] \in R /\ hm[hd2[c]] = c /\ \E b \in B : hd[b] = hd2[c]
    BY <1>11, <2>1
  <2>5. \A i \in R : hd[homes[i]] = i => hd2[hm[i]] = i
    BY <1>12, <2>1
  <2>6. Forest(B, hd, M, links, homes, N, rk) /\ NULL \notin Items /\ R \in SUBSET M
    BY <1>1, <1>2
  <2> QED BY <1>10, <2>2, <2>3, <2>4, <2>5, <2>6, PartOfForest
(* The chain of the first bucket. *)
<1>15. /\ {seq[n] : n \in 0 .. C} \ {NULL} = M \ R
       /\ seq[C] = NULL
       /\ \A m, n \in 0 .. C : seq[m] = seq[n] /\ seq[n] # NULL => m = n
  <2>1. PICK b \in B : b = <<"new", 0>> /\ hd[b] = table[0]
    BY <1>2
  <2>2. Follows(seq, links, Cardinality(Items), hd[b])
    BY <2>1 DEF MoveStart
  <2>3. /\ {seq[n] : n \in DOMAIN seq} \ {NULL} = {i \in M : homes[i] = b}
        /\ seq[Cardinality(Items)] = NULL
        /\ \A m, n \in DOMAIN seq : seq[m] = seq[n] /\ seq[n] # NULL => m = n
    BY <1>2, <2>2, ChainIs
  <2>4. DOMAIN seq = 0 .. C
    BY <2>2 DEF Follows, C
  <2>5. {i \in M : homes[i] = b} = M \ R
    BY <1>2, <1>4, <2>1
  <2> QED BY <2>3, <2>4, <2>5 DEF C
<1>16. PushStart(C, s, seq, tgt, empty, links, B2, old, size2, M, R, home2, N, rk)
  <2>1. /\ empty \in [0 .. size2 - 1 -> Items \union {NULL}] /\ M \in SUBSET Items
        /\ Pushes(s, seq, C, tgt, empty, links)
    BY DEF MoveStart, C
  <2>2. N \in Nat
    BY <1>2 DEF Forest, ForestType
  <2>3. seq \in [0 .. C -> (M \ R) \union {NULL}]
    <3>1. \A n \in 0 .. C : seq[n] \in (M \ R) \union {NULL}
      BY <1>15
    <3>2. seq = [n \in 0 .. C |-> seq[n]]
      BY DEF MoveStart, Follows, C
    <3> QED BY <3>1, <3>2
  <2>4. \A c \in B2 : c[1] = "old" \/ \E m \in 0 .. size2 - 1 : c = <<"new", m>>
    BY <1>5
  <2>5. Forest(B2, HeadsWith(B2, old, empty), R, links, [i \in R |-> home2[i]], N, rk)
    BY <1>8, <1>13, <1>14, Zenon
  <2>6. R \in SUBSET M /\ \A i \in M \ R : tgt[i] \in 0 .. size2 - 1 /\ home2[i] = <<"new", tgt[i]>>
    BY <1>4
  <2>7. \A m, n \in 0 .. C : seq[m] = seq[n] /\ seq[n] # NULL => m = n
    BY <1>15
  <2> QED BY <1>1, <1>2, <1>6, <2>1, <2>2, <2>3, <2>4, <2>5, <2>6, <2>7, Zenon DEF PushStart
<1>17. PushedTo(s[C], Pushed(R, seq, C), B2, old, size2, home2)
  <2>1. C \in 0 .. C
    BY <1>1
  <2>2. NULL \notin Items
    BY <1>1
  <2> QED BY <1>16, <2>1, <2>2, PushForest
<1>18. Pushed(R, seq, C) = M
  <2>1. {seq[n] : n \in 0 .. C} \ {NULL} = {seq[m] : m \in 0 .. C - 1} \ {NULL}
    <3>1. \A n \in 0 .. C : n \in 0 .. C - 1 \/ n = C
      BY <1>1
    <3>2. \A n \in 0 .. C - 1 : n \in 0 .. C
      BY <1>1
    <3> QED BY <1>15, <3>1, <3>2
  <2> QED BY <1>15, <2>1 DEF Pushed
<1> QED BY <1>17, <1>18 DEF C

(* The insertion that starts an expansion: the item goes in front of its   *)
(* bucket, and the first bucket is moved.                                  *)
LEMMA InsertAndExpandStep ==
  ASSUME AssocAssumption, TableInv, NEW it \in Items, NEW k \in Keys,
         Insert(it, k), InsertAndExpand(it, k)
  PROVE  TableInv' /\ \E L \in SUBSET Items :
                        TableHas(L) /\ Keyed(L) /\ it \notin L
                        /\ TableHas(L \union {it})' /\ Keyed(L \union {it})'
<1>1. PICK L \in SUBSET Items : /\ it \notin L /\ Keyed(L) /\ TableHas(L) /\ Keyed(L \union {it})'
                                /\ hash_items = Cardinality(L) /\ hash_items' = Cardinality(L \union {it})
  BY BeforeInsert
<1>2. /\ TypeOK /\ NULL \notin Items /\ ~expanding
      /\ UNCHANGED <<hash, failed>>
      /\ key' = [key EXCEPT ![it] = k] /\ key' \in [Items -> Keys \union {NULL}]
      /\ key'[it] = k /\ \A i \in Items : i # it => key'[i] = key[i]
  BY BeforeInsert DEF TableInv, AssocAssumption, Insert, InsertAndExpand
<1> DEFINE C == Cardinality(Items)
           m0 == Masked(hash[k], hashpower)
           b0 == <<"new", m0>>
           M == L \union {it}
           Low(i) == Masked(hash[key'[i]], hashpower)
           High(i) == Masked(hash[key'[i]], hashpower + 1)
           size == hashsize(hashpower)
           size2 == hashsize(hashpower + 1)
<1>3. C \in Nat /\ IsFiniteSet(Items)
  BY FS_CardinalityType DEF AssocAssumption
<1>4. /\ hashpower \in Nat /\ size \in Nat \ {0} /\ size2 \in Nat \ {0}
      /\ \A hv \in Nat : Masked(hv, hashpower) \in 0 .. size - 1
      /\ \A hv \in Nat : Masked(hv, hashpower + 1) \in 0 .. size2 - 1
  <2>1. hashpower \in Nat /\ hashpower + 1 \in Nat
    BY <1>2 DEF TypeOK
  <2> QED BY <2>1, HashsizePositive
<1>5. \A i \in M : hash[key'[i]] \in Nat /\ key'[i] \in Keys
  <2>1. \A i \in M : key'[i] \in Keys
    BY <1>1 DEF Keyed
  <2> QED BY <1>2, <2>1, HashIsNat
<1>6. \A i \in M : Low(i) \in 0 .. size - 1 /\ High(i) \in 0 .. size2 - 1
  BY <1>4, <1>5
<1>7. Low(it) = m0 /\ it \in M /\ M \in SUBSET Items
  BY <1>2
(* The table with the item in it, before the expansion. *)
<1>8. Buckets = NewBuckets /\ BucketHead(hash[k]) = primary_hashtable[m0] /\ Bucket(hash[k]) = b0
  BY <1>2, Zenon DEF Buckets, OldBuckets, BucketHead, InOldTable, Bucket
<1>9. b0 \in Buckets /\ HeadOf[b0] = primary_hashtable[m0]
  BY <1>2, <1>8, BucketIn
<1> DEFINE links == [h_next EXCEPT ![it] = primary_hashtable[m0]]
           table == [primary_hashtable EXCEPT ![m0] = it]
           heads == [HeadOf EXCEPT ![b0] = it]
           homes == [i \in M |-> <<"new", Low(i)>>]
<1>10. PICK N, rk : N \in Nat /\ Forest(Buckets, heads, M, links, homes, N, rk)
  <2>1. PICK N, rk : N \in Nat /\ Forest(Buckets, HeadOf, L, h_next, HomeOf(L), N, rk)
    BY <1>1 DEF TableHas
  <2>2. PICK c \in Buckets : c = b0
    BY <1>9
  <2>3. Forest(Buckets, [HeadOf EXCEPT ![c] = it], M, [h_next EXCEPT ![it] = HeadOf[c]],
               [i \in M |-> IF i = it THEN c ELSE HomeOf(L)[i]], N + 1, [rk EXCEPT ![it] = N + 1])
    <3>1. it \notin L /\ NULL \notin Items
      BY <1>1, <1>2
    <3>2. PICK B, hd, nx, hm : B = Buckets /\ hd = HeadOf /\ nx = h_next /\ hm = HomeOf(L)
      OBVIOUS
    <3>3. Forest(B, hd, L, nx, hm, N, rk) /\ c \in B
      BY <2>1, <3>2, Zenon
    <3> HIDE DEF links, table, heads, homes, C, M, size, size2
    <3>4. Inserted(B, hd, L, nx, hm, N, rk, it, c)
      BY <3>1, <3>3, InsertedInForest
    <3> QED BY <3>2, <3>4, Zenon DEF M, Inserted
  <2>4. \A i \in L : HomeOf(L)[i] = <<"new", Low(i)>> /\ i # it
    <3>1. \A hv : Bucket(hv) = <<"new", Masked(hv, hashpower)>>
      BY <1>2, Zenon DEF Bucket, InOldTable
    <3>2. \A i \in L : key'[i] = key[i] /\ i # it
      BY <1>1, <1>2
    <3> QED BY <3>1, <3>2 DEF HomeOf
  <2>5. homes = [i \in M |-> IF i = it THEN c ELSE HomeOf(L)[i]]
    BY <1>7, <2>2, <2>4
  <2>6. PICK r2 : r2 = [rk EXCEPT ![it] = N + 1]
    OBVIOUS
  <2>7. PICK n2 \in Nat : n2 = N + 1
    BY <2>1
  <2>8. heads = [HeadOf EXCEPT ![c] = it] /\ links = [h_next EXCEPT ![it] = HeadOf[c]]
    BY <1>9, <2>2
  <2> HIDE DEF heads, links, homes, M
  <2>9. Forest(Buckets, heads, M, links, homes, n2, r2)
    BY <2>3, <2>5, <2>6, <2>7, <2>8, Zenon
  <2> QED BY <2>9
(* The chain that is moved. *)
<1>11. /\ primary_hashtable \in [0 .. size - 1 -> Items \union {NULL}]
       /\ table \in [0 .. size - 1 -> Items \union {NULL}]
       /\ h_next \in [Items -> Items \union {NULL}]
       /\ links \in [Items -> Items \union {NULL}]
       /\ \A i \in Items : i # it => links[i] = h_next[i]
       /\ links[it] = primary_hashtable[m0] /\ m0 \in 0 .. size - 1
  <2>1. m0 \in 0 .. size - 1
    BY <1>6, <1>7
  <2>2. primary_hashtable \in [0 .. size - 1 -> Items \union {NULL}] /\ h_next \in [Items -> Items \union {NULL}]
    BY <1>2 DEF TypeOK
  <2>3. primary_hashtable[m0] \in Items \union {NULL}
    BY <2>1, <2>2
  <2> QED BY <2>1, <2>2, <2>3
<1>12. 0 \in 0 .. size - 1 /\ <<"new", 0>> \in Buckets /\ HeadOf[<<"new", 0>>] = primary_hashtable[0]
  <2>1. 0 \in 0 .. size - 1
    BY <1>4
  <2> QED BY <1>2, <1>11, <2>1, BucketsAre
<1>13. heads[<<"new", 0>>] = table[0]
  BY <1>11, <1>12 DEF HeadOf
<1> DEFINE nth == [n \in 0 .. C |->
                     IF table[0] = it
                     THEN IF n = 0 THEN it ELSE Nth(links[it])[n - 1]
                     ELSE Nth(table[0])[n]]
<1>14. PICK seq : seq = nth
  OBVIOUS
<1>15. Follows(seq, links, C, table[0])
  <2>1. /\ DOMAIN Nth(primary_hashtable[0]) = 0 .. C
        /\ Follows(Nth(primary_hashtable[0]), h_next, C, primary_hashtable[0])
        /\ {Nth(primary_hashtable[0])[n] : n \in 0 .. C} \ {NULL} = {i \in L : HomeOf(L)[i] = <<"new", 0>>}
    <3>1. PICK c \in Buckets : c = <<"new", 0>>
      BY <1>12
    <3>2. /\ DOMAIN Nth(HeadOf[c]) = 0 .. C
          /\ Follows(Nth(HeadOf[c]), h_next, C, HeadOf[c])
          /\ {Nth(HeadOf[c])[n] : n \in 0 .. C} \ {NULL} = {i \in L : HomeOf(L)[i] = c}
      BY <1>1, <1>2, NthIs
    <3>3. PICK h : h = HeadOf[c] /\ h = primary_hashtable[0]
      BY <1>12, <3>1
    <3>4. DOMAIN Nth(h) = 0 .. C /\ Follows(Nth(h), h_next, C, h)
      BY <3>2, <3>3
    <3>5. {Nth(h)[n] : n \in 0 .. C} \ {NULL} = {i \in L : HomeOf(L)[i] = c}
      BY <3>2, <3>3
    <3> HIDE DEF C
    <3> QED BY <3>1, <3>3, <3>4, <3>5
  <2>2. PICK f : f = Nth(primary_hashtable[0])
    OBVIOUS
  <2>3. /\ f \in [0 .. C -> Items \union {NULL}] /\ f[0] = primary_hashtable[0]
        /\ \A n \in 1 .. C : f[n] = IF f[n - 1] = NULL THEN NULL ELSE h_next[f[n - 1]]
    BY <2>1, <2>2 DEF Follows
  <2>4. \A n \in 0 .. C : f[n] # NULL => f[n] \in L
    <3>1. {f[n] : n \in 0 .. C} \ {NULL} = {i \in L : HomeOf(L)[i] = <<"new", 0>>}
      BY <2>1, <2>2
    <3> QED BY <3>1
  <2>5. \A n \in 0 .. C : f[n] # it
    BY <1>1, <1>2, <2>4
  <2>6. \A n \in 1 .. C : f[n] = IF f[n - 1] = NULL THEN NULL ELSE links[f[n - 1]]
    <3> TAKE n \in 1 .. C
    <3>1. n - 1 \in 0 .. C
      BY <1>3
    <3>2. f[n - 1] # NULL => f[n - 1] \in Items /\ f[n - 1] # it
      BY <2>3, <2>5, <3>1
    <3> HIDE DEF links
    <3> QED BY <1>11, <2>3, <3>1, <3>2
  <2>7. CASE table[0] = it
    <3>1. m0 = 0
      <4>1. primary_hashtable[0] # it
        <5>1. 0 \in 0 .. C
          BY <1>3
        <5> QED BY <2>3, <2>5, <5>1
      <4> QED BY <1>11, <1>12, <2>7, <4>1
    <3>2. links[it] = primary_hashtable[0]
      BY <1>11, <3>1
    <3>3. seq = [n \in 0 .. C |-> IF n = 0 THEN it ELSE f[n - 1]]
      <4>1. Nth(links[it]) = f
        BY <2>2, <3>2
      <4> HIDE DEF links, table
      <4> QED BY <1>14, <2>7, <4>1
    <3> HIDE DEF links, table, nth, C
    <3>4. seq \in [0 .. C -> Items \union {NULL}]
      <4>1. \A n \in 0 .. C : n = 0 \/ n - 1 \in 0 .. C
        BY <1>3
      <4>2. \A n \in 0 .. C : (IF n = 0 THEN it ELSE f[n - 1]) \in Items \union {NULL}
        BY <2>3, <4>1
      <4> QED BY <3>3, <4>2
    <3>5. ASSUME NEW n \in 1 .. C
          PROVE  seq[n] = IF seq[n - 1] = NULL THEN NULL ELSE links[seq[n - 1]]
      <4>1. n \in 0 .. C /\ n # 0 /\ n - 1 \in 0 .. C
        BY <1>3
      <4>2. seq[n] = f[n - 1] /\ seq[n - 1] = IF n - 1 = 0 THEN it ELSE f[(n - 1) - 1]
        BY <3>3, <4>1
      <4>3. CASE n = 1
        <5>1. seq[n - 1] = it /\ seq[n] = f[0]
          BY <4>2, <4>3
        <5> QED BY <1>2, <2>3, <3>2, <5>1
      <4>4. CASE n # 1
        <5>1. n - 1 \in 1 .. C /\ n - 1 # 0
          BY <4>4, <1>3
        <5>2. seq[n - 1] = f[(n - 1) - 1]
          BY <4>2, <5>1
        <5>3. f[n - 1] = IF f[(n - 1) - 1] = NULL THEN NULL ELSE links[f[(n - 1) - 1]]
          BY <2>6, <5>1
        <5> QED BY <4>2, <5>2, <5>3
      <4> QED BY <4>3, <4>4
    <3>6. seq[0] = it
      BY <1>3, <3>3
    <3> QED BY <2>7, <3>4, <3>5, <3>6 DEF Follows
  <2>8. CASE table[0] # it
    <3>1. table[0] = primary_hashtable[0]
      BY <1>11, <1>12, <2>8
    <3>2. seq = [n \in 0 .. C |-> f[n]]
      <4> HIDE DEF links, table
      <4> QED BY <1>14, <2>2, <2>8, <3>1
    <3>3. seq = f
      BY <2>3, <3>2
    <3> HIDE DEF links, table, nth, C
    <3> QED BY <2>3, <2>6, <3>1, <3>3 DEF Follows
  <2> QED BY <2>7, <2>8
(* The two tables afterwards. *)
<1> DEFINE tgt == [i \in Items |-> Masked(hash[key'[i]], hashpower + 1)]
           empty == EmptyTable(hashpower + 1)
<1>16. PICK s : /\ Pushes(s, seq, C, tgt, empty, links)
                /\ primary_hashtable' = s[C].heads /\ h_next' = s[C].links
  <2>1. PICK p, ls, ks : p = hashpower + 1 /\ ls = links /\ ks = key'
    OBVIOUS
  <2>2. seq \in [0 .. Cardinality(Items) -> Items \union {NULL}]
    <3> HIDE DEF links, table
    <3> QED BY <1>15 DEF Follows
  <2>3. \E s : /\ Pushes(s, seq, Cardinality(Items),
                        [i \in Items |-> Masked(hash[ks[i]], p)], EmptyTable(p), ls)
               /\ Moved(seq, p, ls, ks) = s[Cardinality(Items)]
    BY <2>2, MovedPushes
  <2>4. PICK s : /\ Pushes(s, seq, C, [i \in Items |-> Masked(hash[ks[i]], p)], EmptyTable(p), ls)
                 /\ Moved(seq, p, ls, ks) = s[C]
    BY <2>3
  <2>5. /\ primary_hashtable' = Moved(nth, hashpower + 1, links, [key EXCEPT ![it] = k]).heads
        /\ h_next' = Moved(nth, hashpower + 1, links, [key EXCEPT ![it] = k]).links
    BY <1>8 DEF InsertAndExpand
  <2>6. primary_hashtable' = Moved(seq, p, ls, ks).heads /\ h_next' = Moved(seq, p, ls, ks).links
    <3> HIDE DEF nth, links
    <3> QED BY <1>2, <1>14, <2>1, <2>5
  <2> HIDE DEF C, links, table
  <2> QED BY <2>1, <2>4, <2>6
<1>17. /\ old_hashtable' = [table EXCEPT ![0] = NULL] /\ hashpower' = hashpower + 1
       /\ expand_bucket' = 1 /\ expanding' = (1 # size)
  BY DEF InsertAndExpand
<1>18. hashpower' - 1 = hashpower /\ hashpower' \in Nat
  BY <1>4, <1>17
<1> DEFINE home2 == [i \in M |-> IF Low(i) = 0 THEN <<"new", High(i)>> ELSE <<"old", Low(i)>>]
           old == [table EXCEPT ![0] = NULL]
<1>19. HomeOf(M)' = home2
  <2>1. HomeOf(M)' = [i \in M |-> Bucket(hash[key[i]])']
    BY DEF HomeOf
  <2>2. ASSUME NEW i \in M
        PROVE  Bucket(hash[key[i]])' = IF Low(i) = 0 THEN <<"new", High(i)>> ELSE <<"old", Low(i)>>
    <3>1. PICK low \in 0 .. size - 1 : low = Low(i)
      BY <1>6
    <3>2. PICK high : high = High(i)
      OBVIOUS
    <3>3. Bucket(hash[key[i]])' = IF (1 # size) /\ low >= 1 THEN <<"old", low>> ELSE <<"new", high>>
      <4>1. Bucket(hash[key[i]])' = IF expanding' /\ Masked(hash'[key'[i]], hashpower' - 1) >= expand_bucket'
                                   THEN <<"old", Masked(hash'[key'[i]], hashpower' - 1)>>
                                   ELSE <<"new", Masked(hash'[key'[i]], hashpower')>>
        BY DEF Bucket, InOldTable, Masked, hashsize
      <4>2. hash' = hash
        BY <1>2
      <4> QED BY <1>17, <1>18, <3>1, <3>2, <4>1, <4>2
    <3>4. size \in Nat
      BY <1>4
    <3> HIDE DEF size
    <3>5. (1 # size /\ low >= 1) <=> low # 0
      BY <3>1, <3>4
    <3> HIDE DEF Low, High
    <3> QED BY <3>1, <3>2, <3>3, <3>5
  <2> HIDE DEF Low, High
  <2> QED BY <2>1, <2>2
<1>20. PICK B2 : /\ B2 = Buckets'
                 /\ B2 = ({"new"} \X (0 .. size2 - 1))
                            \union (IF 1 # size THEN {"old"} \X (0 .. size - 1) ELSE {})
  BY <1>17, <1>18 DEF Buckets, NewBuckets, OldBuckets, hashsize
<1>21. HeadOf' = HeadsWith(B2, old, s[C].heads)
  <2>1. HeadOf' = [b \in B2 |-> IF b[1] = "old" THEN old_hashtable'[b[2]]
                                              ELSE primary_hashtable'[b[2]]]
    BY <1>20 DEF HeadOf
  <2> HIDE DEF old
  <2>2. old_hashtable' = old
    BY <1>17 DEF old
  <2> QED BY <1>16, <2>1, <2>2 DEF HeadsWith
<1>22. PushedTo(s[C], M, B2, old, size2, home2)
  <2>1. PICK low \in [M -> 0 .. size - 1] : low = [i \in M |-> Low(i)]
    BY <1>6
  <2>2. PICK high \in [M -> 0 .. size2 - 1] : high = [i \in M |-> High(i)]
    BY <1>6
  <2>3. PICK B : B = Buckets /\ B = {"new"} \X (0 .. size - 1)
    BY <1>8 DEF NewBuckets
  <2>4. heads = [b \in B |-> table[b[2]]]
    <3>1. \A b \in B : b = b0 <=> b[2] = m0
      BY <2>3
    <3>2. \A b \in B : b[1] # "old" /\ b[2] \in 0 .. size - 1
      BY <2>3
    <3>3. HeadOf = [b \in B |-> primary_hashtable[b[2]]]
      BY <2>3, <3>2 DEF HeadOf
    <3> HIDE DEF b0, size
    <3>4. \A b \in B : heads[b] = table[b[2]]
      BY <1>11, <3>1, <3>2, <3>3
    <3>5. heads = [b \in B |-> heads[b]]
      BY <3>3
    <3> HIDE DEF heads, table
    <3> QED BY <3>4, <3>5
  <2>5. homes = [i \in M |-> <<"new", low[i]>>]
    <3> HIDE DEF Low
    <3> QED BY <2>1
  <2>6. home2 = [i \in M |-> IF low[i] = 0 THEN <<"new", high[i]>> ELSE <<"old", low[i]>>]
    <3> HIDE DEF Low, High
    <3> QED BY <2>1, <2>2
  <2>7. \A i \in M : tgt[i] = high[i]
    BY <1>7, <2>2
  <2>8. empty = [b \in 0 .. size2 - 1 |-> NULL]
    BY DEF EmptyTable
  <2>9. MoveStart(size, size2, table, B, heads, M, low, high, homes, links, N, rk,
                  seq, tgt, empty, s, B2, old, home2)
    <3>1. Forest(B, heads, M, links, homes, N, rk)
      BY <1>10, <2>3
    <3>2. Pushes(s, seq, Cardinality(Items), tgt, empty, links) /\ Follows(seq, links, Cardinality(Items), table[0])
      BY <1>15, <1>16
    <3>3. old = [table EXCEPT ![0] = NULL]
      OBVIOUS
    <3>4. M \in SUBSET Items
      BY <1>7
    <3> HIDE DEF table, heads, M, homes, links, tgt, empty, old, home2, size, size2
    <3> QED BY <1>4, <1>11, <1>20, <2>1, <2>2, <2>3, <2>4, <2>5, <2>6, <2>7, <2>8,
               <3>1, <3>2, <3>3, <3>4 DEF MoveStart
  <2> HIDE DEF table, heads, M, homes, links, tgt, empty, old, home2, size, size2
  <2>10. PushedTo(s[Cardinality(Items)], M, B2, old, size2, home2)
    BY <2>9, MoveFirst
  <2> QED BY <2>10
<1>23. TableHas(M)'
  <2>1. PICK N2 \in Nat : \E rk2 \in [Items -> 0 .. N2] :
          Forest(B2, HeadsWith(B2, old, s[C].heads), M, s[C].links, [i \in M |-> home2[i]], N2, rk2)
    <3> HIDE DEF M, old, home2, size2
    <3> QED BY <1>22 DEF PushedTo
  <2>2. PICK rk2 :
          Forest(B2, HeadsWith(B2, old, s[C].heads), M, s[C].links, [i \in M |-> home2[i]], N2, rk2)
    BY <2>1
  <2>3. [i \in M |-> home2[i]] = home2
    <3> HIDE DEF Low, High
    <3> QED OBVIOUS
  <2> HIDE DEF M, old, home2, size2
  <2>4. Forest(Buckets', HeadOf', M, h_next', HomeOf(M)', N2, rk2)
    BY <1>16, <1>19, <1>20, <1>21, <2>2, <2>3, Zenon
  <2> QED BY <2>4, TableHasNext
<1>24. TypeOK'
  <2>1. primary_hashtable' \in [0 .. size2 - 1 -> Items \union {NULL}]
    <3> HIDE DEF M, old, home2, size2
    <3> QED BY <1>16, <1>22 DEF PushedTo
  <2>2. h_next' \in [Items -> Items \union {NULL}]
    <3> HIDE DEF M, old, home2, size2
    <3> QED BY <1>16, <1>22 DEF PushedTo, Forest, ForestType
  <2>3. hash_items' \in Nat
    <3>1. hash_items \in Nat
      BY <1>2 DEF TypeOK
    <3> QED BY <3>1 DEF Insert
  <2>4. old_hashtable' \in [0 .. size - 1 -> Items \union {NULL}]
    <3> HIDE DEF table, size
    <3> QED BY <1>11, <1>17
  <2>5. expanding' \in BOOLEAN /\ hashpower' > 0 /\ expand_bucket' \in Nat
    BY <1>4, <1>17
  <2>6. 0 .. hashsize(hashpower') - 1 = 0 .. size2 - 1 /\ 0 .. hashsize(hashpower' - 1) - 1 = 0 .. size - 1
    BY <1>17, <1>18
  <2>7. hash' \in HashFunctions /\ failed' \in BOOLEAN
    BY <1>2 DEF TypeOK
  <2> HIDE DEF size, size2
  <2> QED BY <1>2, <1>18, <2>1, <2>2, <2>3, <2>4, <2>5, <2>6, <2>7 DEF TypeOK, hashsize
<1>25. ExpansionStays'
  <2>1. expanding' => 1 # size
    BY <1>17
  <2> QED BY <1>4, <1>17, <1>18, <2>1 DEF ExpansionStays, hashsize
<1> HIDE DEF C, size, size2, links, table, heads, homes, nth, tgt, empty, home2, old
<1> QED BY <1>1, <1>7, <1>23, <1>24, <1>25 DEF TableInv

-----------------------------------------------------------------------------
(* The theorems. *)

(* Every step of the table keeps the inductive invariant. *)
LEMMA TableStep ==
  ASSUME AssocAssumption, TableInv, [Next]_vars
  PROVE  TableInv'
<1>1. ASSUME NEW it \in Items, NEW k \in Keys, Insert(it, k) PROVE TableInv'
  <2>1. CASE InsertOnly(it, k)
    BY <1>1, <2>1, InsertOnlyStep
  <2>2. CASE InsertAndExpand(it, k)
    BY <1>1, <2>2, InsertAndExpandStep
  <2> QED BY <1>1, <2>1, <2>2 DEF Insert
<1>2. ASSUME NEW k \in Keys, Delete(k) PROVE TableInv'
  BY <1>2, DeleteStep
<1>3. ASSUME UNCHANGED <<tableVars, hash, key>>, failed' \in BOOLEAN PROVE TableInv'
  <2>1. UNCHANGED <<primary_hashtable, old_hashtable, hashpower, expanding, expand_bucket,
                    hash_items, h_next, hash, key>>
    BY <1>3 DEF tableVars
  <2>2. TypeOK' /\ ExpansionStays'
    BY <1>3, <2>1 DEF TableInv, TypeOK, ExpansionStays
  <2>3. PICK L \in SUBSET Items : hash_items = Cardinality(L) /\ Keyed(L) /\ TableHas(L)
    BY DEF TableInv
  <2>4. PICK N, rk : N \in Nat /\ Forest(Buckets, HeadOf, L, h_next, HomeOf(L), N, rk)
    BY <2>3 DEF TableHas
  <2>5. Buckets' = Buckets /\ HeadOf' = HeadOf /\ HomeOf(L)' = HomeOf(L) /\ h_next' = h_next
    BY <2>1 DEF Buckets, NewBuckets, OldBuckets, HeadOf, HomeOf, Bucket, InOldTable
  <2>6. Forest(Buckets', HeadOf', L, h_next', HomeOf(L)', N, rk)
    BY <2>4, <2>5, Zenon
  <2>7. TableHas(L)'
    BY <2>4, <2>6, TableHasNext
  <2>8. Keyed(L)' /\ hash_items' = Cardinality(L)
    BY <2>1, <2>3 DEF Keyed
  <2> QED BY <2>2, <2>7, <2>8 DEF TableInv
<1>4. ASSUME NEW k \in Keys, InsertAsserts(k) \/ DeleteAsserts(k) PROVE TableInv'
  BY <1>3, <1>4 DEF InsertAsserts, DeleteAsserts
<1>5. CASE UNCHANGED vars
  <2>1. failed' \in BOOLEAN
    BY <1>5 DEF TableInv, TypeOK, vars
  <2> QED BY <1>3, <1>5, <2>1 DEF vars
<1> QED BY <1>1, <1>2, <1>4, <1>5 DEF Next

(* The items counted are those in the lists of the two tables, always.    *)
THEOREM TableInvariant == Spec => []TableInv
<1>1. Init => TableInv
  BY AssocAssumption, InitTable
<1>2. TableInv /\ [Next]_vars => TableInv'
  BY AssocAssumption, TableStep
<1> QED BY <1>1, <1>2, PTL DEF Spec

(* The two tables always have the sizes hashpower says, the old one half   *)
(* that of the new (assoc.c:424-439): no index into either is out of range. *)
THEOREM TypeCorrect == Spec => []TypeOK
<1>1. TableInv => TypeOK
  BY DEF TableInv
<1> QED BY <1>1, TableInvariant, PTL

(* In any number of items and buckets, with the expansion on or off,       *)
(* hash_items is the number of items that can be reached, expand_bucket is *)
(* a bucket of the old table, and no two chains meet (assoc.c:354-364).    *)
THEOREM TableSoundCorrect == Spec => []TableSound
<1>1. ASSUME TableInv PROVE TableSound
  <2>1. PICK L \in SUBSET Items : hash_items = Cardinality(L) /\ Keyed(L) /\ TableHas(L)
    BY <1>1 DEF TableInv
  <2>2. TypeOK /\ ExpansionStays /\ AssocAssumption
    BY <1>1, AssocAssumption DEF TableInv
  <2>3. /\ \A c \in Buckets : Chain(HeadOf[c]) = {i \in L : HomeOf(L)[i] = c}
        /\ Linked = L
    BY <2>1, <2>2, LinkedIs
  <2>4. HashItemsCounts
    BY <2>1, <2>3 DEF HashItemsCounts
  <2>5. ExpandBucketInRange
    <3>1. ASSUME expanding PROVE expand_bucket \in 0 .. hashsize(hashpower - 1) - 1
      <4>1. hashpower - 1 \in Nat
        BY <2>2, <3>1 DEF TypeOK
      <4>2. hashsize(hashpower - 1) \in Nat
        BY <4>1, HashsizePositive
      <4> QED BY <2>2, <3>1, <4>2 DEF ExpansionStays
    <3> QED BY <3>1 DEF ExpandBucketInRange
  <2>6. ChainsDisjoint
    <3> DEFINE heads == {<<"new", b>> : b \in DOMAIN primary_hashtable}
                          \union (IF expanding THEN {<<"old", b>> : b \in DOMAIN old_hashtable}
                                               ELSE {})
               chain(h) == Chain(IF h[1] = "new" THEN primary_hashtable[h[2]]
                                                 ELSE old_hashtable[h[2]])
    <3>1. ASSUME NEW g \in heads
          PROVE  g \in Buckets /\ chain(g) = {i \in L : HomeOf(L)[i] = g}
      <4>1. CASE g \in {<<"new", b>> : b \in DOMAIN primary_hashtable}
        <5>1. PICK b \in DOMAIN primary_hashtable : g = <<"new", b>>
          BY <4>1
        <5>2. g \in Buckets /\ HeadOf[g] = primary_hashtable[b]
          BY <2>2, <5>1, BucketsAre
        <5>3. chain(g) = Chain(HeadOf[g])
          BY <5>1, <5>2
        <5> QED BY <2>3, <5>2, <5>3
      <4>2. CASE expanding /\ g \in {<<"old", b>> : b \in DOMAIN old_hashtable}
        <5>1. PICK b \in DOMAIN old_hashtable : g = <<"old", b>>
          BY <4>2
        <5>2. g \in Buckets /\ HeadOf[g] = old_hashtable[b]
          BY <2>2, <4>2, <5>1, BucketsAre
        <5>3. chain(g) = Chain(HeadOf[g])
          BY <5>1, <5>2
        <5> QED BY <2>3, <5>2, <5>3
      <4> QED BY <4>1, <4>2
    <3>2. \A g, h \in heads : g # h => chain(g) \intersect chain(h) = {}
      <4> HIDE DEF heads, chain
      <4> QED BY <3>1
    <3> QED BY <3>2 DEF ChainsDisjoint
  <2> QED BY <2>4, <2>5, <2>6 DEF TableSound
<1> QED BY <1>1, TableInvariant, PTL

(* What a look-up finds when the items of L are in the table. *)
FindsAll(L) ==
  \A k \in Keys : /\ \A i \in L : key[i] = k => Find(k) = i
                  /\ (\A i \in L : key[i] # k) => Find(k) = NULL
                  /\ Find(k) \in L \union {NULL}

(* A look-up finds the one item with its key. *)
LEMMA FindsAllNow ==
  ASSUME NEW L \in SUBSET Items
  PROVE  TypeOK /\ TableHas(L) /\ Keyed(L) => FindsAll(L)
<1> SUFFICES ASSUME TypeOK, TableHas(L), Keyed(L), NEW k \in Keys
             PROVE  /\ \A i \in L : key[i] = k => Find(k) = i
                    /\ (\A i \in L : key[i] # k) => Find(k) = NULL
                    /\ Find(k) \in L \union {NULL}
  BY DEF FindsAll
<1>1. \/ Find(k) = NULL /\ \A i \in L : key[i] # k
      \/ Find(k) \in L /\ key[Find(k)] = k
  BY AssocAssumption, FindIs
<1> QED BY <1>1 DEF Keyed

(* ... and so it does after a step. *)
LEMMA FindsAllNext ==
  ASSUME NEW L \in SUBSET Items
  PROVE  TypeOK' /\ TableHas(L)' /\ Keyed(L)' => FindsAll(L)'
<1>1. TypeOK /\ TableHas(L) /\ Keyed(L) => FindsAll(L)
  BY FindsAllNow
<1> QED BY <1>1, PTL

(* The table refines the dictionary: whatever the keys, the items, the     *)
(* hash function and the progress of the expansion, a look-up finds what   *)
(* was inserted under the key and not deleted since (assoc.c:376-508).     *)
THEOREM RefinesDictCorrect == Spec => RefinesDict
<1> DEFINE dict == [k \in Keys |-> Find(k)]
<1>1. Init => D!Init
  <2> SUFFICES ASSUME Init PROVE D!Init
    OBVIOUS
  <2>1. TableInv
    BY AssocAssumption, InitTable
  <2>2. PICK L \in SUBSET Items : hash_items = Cardinality(L) /\ Keyed(L) /\ TableHas(L)
    BY <2>1 DEF TableInv
  <2>3. L = {}
    <3>1. IsFiniteSet(L) /\ Cardinality(L) = 0
      BY <2>2, AssocAssumption, FS_Subset DEF AssocAssumption, Init
    <3> QED BY <3>1, FS_EmptySet
  <2>4. \A k \in Keys : Find(k) = NULL
    BY <2>1, <2>2, <2>3, FindsAllNow DEF FindsAll, TableInv
  <2> QED BY <2>4 DEF D!Init, Init
<1>2. ASSUME TableInv, [Next]_vars PROVE [D!Next]_<<dict, failed>>
  <2>1. TableInv'
    BY <1>2, AssocAssumption, TableStep
  <2>2. TypeOK /\ TypeOK' /\ NULL \notin Items
    BY <1>2, <2>1, AssocAssumption DEF TableInv, AssocAssumption
  <2>3. ASSUME NEW it \in Items, NEW k \in Keys, Insert(it, k) PROVE D!Insert(k, it)
    <3>1. PICK L \in SUBSET Items : /\ TableHas(L) /\ Keyed(L) /\ it \notin L
                                    /\ TableHas(L \union {it})' /\ Keyed(L \union {it})'
      BY <1>2, <2>3, AssocAssumption, InsertOnlyStep, InsertAndExpandStep DEF Insert
    <3>2. FindsAll(L)
      BY <2>2, <3>1, FindsAllNow
    <3>3. FindsAll(L \union {it})'
      <4>1. L \union {it} \in SUBSET Items
        OBVIOUS
      <4> QED BY <2>2, <3>1, <4>1, FindsAllNext
    <3>4. key'[it] = k /\ \A i \in L : key'[i] = key[i]
      <4>1. key' = [key EXCEPT ![it] = k] /\ key \in [Items -> Keys \union {NULL}]
        BY <2>2, <2>3 DEF Insert, TypeOK
      <4> QED BY <3>1, <4>1
    <3>5. \A j \in Keys : Find(j)' = IF j = k THEN it ELSE Find(j)
      <4> TAKE j \in Keys
      <4>1. CASE j = k
        BY <3>3, <3>4, <4>1 DEF FindsAll
      <4>2. CASE j # k /\ \E i \in L : key[i] = j
        BY <3>2, <3>3, <3>4, <4>2 DEF FindsAll
      <4>3. CASE j # k /\ \A i \in L : key[i] # j
        BY <3>2, <3>3, <3>4, <4>3 DEF FindsAll
      <4> QED BY <4>1, <4>2, <4>3
    <3>6. \A j \in Keys : Find(j) # it
      BY <2>2, <3>1, <3>2 DEF FindsAll
    <3>7. Find(k) = NULL /\ ~failed /\ failed' = failed
      BY <2>3 DEF Insert
    <3>8. dict' = [dict EXCEPT ![k] = it]
      BY <3>5
    <3> QED BY <3>6, <3>7, <3>8 DEF D!Insert
  <2>4. ASSUME NEW k \in Keys, Delete(k) PROVE D!Delete(k)
    <3>1. PICK L \in SUBSET Items : \E it \in L :
            /\ it = Find(k) /\ key[it] = k /\ Keyed(L) /\ TableHas(L)
            /\ TableHas(L \ {it})' /\ Keyed(L \ {it})'
      BY <1>2, <2>4, AssocAssumption, DeleteStep
    <3>2. PICK it \in L : /\ it = Find(k) /\ key[it] = k /\ Keyed(L) /\ TableHas(L)
                          /\ TableHas(L \ {it})' /\ Keyed(L \ {it})'
      BY <3>1
    <3>3. FindsAll(L)
      BY <2>2, <3>2, FindsAllNow
    <3>4. FindsAll(L \ {it})'
      <4>1. L \ {it} \in SUBSET Items
        OBVIOUS
      <4> QED BY <2>2, <3>2, <4>1, FindsAllNext
    <3>5. key' = key
      BY <2>4 DEF Delete
    <3>6. \A j \in Keys : Find(j)' = IF j = k THEN NULL ELSE Find(j)
      <4> TAKE j \in Keys
      <4>1. CASE j = k
        <5>1. \A i \in L \ {it} : key[i] # k
          BY <3>2 DEF Keyed
        <5> QED BY <3>4, <3>5, <4>1, <5>1 DEF FindsAll
      <4>2. CASE j # k /\ \E i \in L : key[i] = j
        <5>1. PICK i \in L : key[i] = j
          BY <4>2
        <5>2. i \in L \ {it}
          BY <3>2, <4>2, <5>1
        <5> QED BY <3>3, <3>4, <3>5, <4>2, <5>1, <5>2 DEF FindsAll
      <4>3. CASE j # k /\ \A i \in L : key[i] # j
        BY <3>3, <3>4, <3>5, <4>3 DEF FindsAll
      <4> QED BY <4>1, <4>2, <4>3
    <3>7. Find(k) # NULL /\ ~failed /\ failed' = failed
      BY <2>4 DEF Delete
    <3>8. dict' = [dict EXCEPT ![k] = NULL]
      BY <3>6
    <3> QED BY <3>7, <3>8 DEF D!Delete
  <2>5. ASSUME UNCHANGED <<tableVars, hash, key>> PROVE dict' = dict
    <3>1. UNCHANGED <<primary_hashtable, old_hashtable, hashpower, expanding, expand_bucket,
                      h_next, hash, key>>
      BY <2>5 DEF tableVars
    <3>2. \A k \in Keys : Find(k)' = Find(k)
      BY <3>1 DEF Find, Nth, BucketHead, InOldTable
    <3> QED BY <3>2
  <2>6. ASSUME NEW k \in Keys, InsertAsserts(k) \/ DeleteAsserts(k) PROVE D!Misuse(k)
    BY <2>5, <2>6 DEF InsertAsserts, DeleteAsserts, D!Misuse
  <2>7. CASE UNCHANGED vars
    BY <2>5, <2>7 DEF vars
  <2> HIDE DEF dict
  <2> QED BY <1>2, <2>3, <2>4, <2>6, <2>7 DEF Next, D!Next
<1>3. TableInv /\ [Next]_vars => [D!Next]_<<dict, failed>>
  BY <1>2
<1> QED BY <1>1, <1>3, TableInvariant, PTL DEF Spec, RefinesDict, D!Spec

=============================================================================
