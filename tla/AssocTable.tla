---------------------------- MODULE AssocTable ----------------------------
(***************************************************************************)
(* The hash table of assoc.c: buckets of items chained by h_next, and a    *)
(* table twice the size that buckets are moved to once the load passes 1.5 *)
(* items a bucket.  Each operation runs under hash_lock                    *)
(* (assoc.c:509-540), so that one action is one call.                      *)
(*                                                                         *)
(* do_assoc_move_next_bucket has one caller, assoc_expand: an expansion    *)
(* moves one bucket and stays where it is, with the two tables in use side *)
(* by side from then on.  With the real hashpower of 16 and 1024 items it  *)
(* does not start at all; hashpower is a parameter here, so that it does.  *)
(***************************************************************************)
EXTENDS Integers, FiniteSets

CONSTANTS
  Keys, Items, NULL,
  InitPower,      \* initial hashpower (16 in the code)
  HashBits,       \* bound: width of a hash value (32 in the code)
  HashFunctions   \* the hash functions considered

ASSUME AssocAssumption ==
  /\ IsFiniteSet(Items)
  /\ NULL \notin Items \union Keys
  /\ InitPower \in Nat
  /\ HashBits \in Nat /\ InitPower < HashBits
  /\ HashFunctions \subseteq [Keys -> 0 .. (2 ^ HashBits) - 1]

VARIABLES
  hash,               \* the hash function (external: Bob Jenkins' lookup3)
  primary_hashtable,  \* bucket -> its first item, or NULL
  old_hashtable,      \* the table before the expansion
  hashpower, expanding, expand_bucket, hash_items,
  h_next,             \* it->h_next
  key,                \* it->key
  failed              \* an assertion has ended the process

tableVars == <<primary_hashtable, old_hashtable, hashpower, expanding,
               expand_bucket, hash_items, h_next>>
vars == <<tableVars, hash, key, failed>>

hashsize(n) == 2 ^ n

(* hv & hashmask(n). *)
Masked(hv, n) == hv % hashsize(n)

EmptyTable(n) == [b \in 0 .. hashsize(n) - 1 |-> NULL]

Init ==
  /\ hash \in HashFunctions
  /\ primary_hashtable = EmptyTable(InitPower)
  /\ old_hashtable = EmptyTable(InitPower)
  /\ hashpower = InitPower
  /\ expanding = FALSE
  /\ expand_bucket = 0
  /\ hash_items = 0
  /\ h_next = [it \in Items |-> NULL]
  /\ key = [it \in Items |-> NULL]
  /\ failed = FALSE

-----------------------------------------------------------------------------
(* Fault: the bucket the expansion has got to is taken to be moved. *)
FaultInOldTableOffByOne(hv) == expanding /\ Masked(hv, hashpower - 1) > expand_bucket

(* A key that has not been moved yet is looked for in the old table        *)
(* (assoc.c:381-387, 410-416, 472-480).                                    *)
InOldTable(hv) == expanding /\ Masked(hv, hashpower - 1) >= expand_bucket

BucketHead(hv) ==
  IF InOldTable(hv) THEN old_hashtable[Masked(hv, hashpower - 1)]
                    ELSE primary_hashtable[Masked(hv, hashpower)]

(* The n-th item of the chain that starts at it, n from 0; NULL after the  *)
(* last.  No chain is longer than there are items.                         *)
Nth(it) ==
  LET nth[n \in 0 .. Cardinality(Items)] ==
        IF n = 0 THEN it
        ELSE LET prev == nth[n - 1] IN IF prev = NULL THEN NULL ELSE h_next[prev]
  IN  nth

Chain(it) == LET nth == Nth(it) IN {nth[n] : n \in DOMAIN nth} \ {NULL}

(* assoc_find: the first item of the bucket with the key (assoc.c:376-400). *)
Find(k) ==
  LET nth  == Nth(BucketHead(hash[k]))
      hits == {n \in DOMAIN nth : nth[n] # NULL /\ key[nth[n]] = k}
  IN  IF hits = {} THEN NULL
      ELSE nth[CHOOSE n \in hits : \A m \in hits : n <= m]

(* The bucket's head is set to it (old or primary table as InOldTable says). *)
SetBucketHead(hv, it) ==
  IF InOldTable(hv)
  THEN /\ old_hashtable' = [old_hashtable EXCEPT ![Masked(hv, hashpower - 1)] = it]
       /\ UNCHANGED primary_hashtable
  ELSE /\ primary_hashtable' = [primary_hashtable EXCEPT ![Masked(hv, hashpower)] = it]
       /\ UNCHANGED old_hashtable

-----------------------------------------------------------------------------
(* Fault: the new table has the size of the old one. *)
FaultMovedSameSize(nth, power, links, keys) ==
  [heads |-> EmptyTable(power - 1), links |-> links]

(* Fault: the items keep their old successors. *)
FaultMovedKeepsLinks(nth, power, links, keys) ==
  [heads |-> [b \in 0 .. hashsize(power) - 1 |->
                LET here == {n \in DOMAIN nth : nth[n] # NULL
                               /\ Masked(hash[keys[nth[n]]], power) = b}
                IN  IF here = {} THEN NULL
                    ELSE nth[CHOOSE n \in here : \A m \in here : n <= m]],
   links |-> links]

(* do_assoc_move_next_bucket for bucket 0 of table old, the first after    *)
(* expanding: its chain is taken from the front and each item pushed on    *)
(* its new bucket (assoc.c:441-462).  nth is the chain, heads and links    *)
(* become the new table and the h_next pointers.                           *)
Moved(nth, power, links, keys) ==
  LET step[n \in 0 .. Cardinality(Items)] ==
        IF n = 0 THEN [heads |-> EmptyTable(power), links |-> links]
        ELSE LET it == nth[n - 1]
                 b  == Masked(hash[keys[it]], power)
                 s  == step[n - 1]
             IN  IF it = NULL THEN s
                 ELSE [heads |-> [s.heads EXCEPT ![b] = it],
                       links |-> [s.links EXCEPT ![it] = s.heads[b]]]
  IN  step[Cardinality(Items)]

(* The item is put in front of its bucket; the table is not full enough to *)
(* expand, or is expanding already, or calloc fails (assoc.c:464-488).     *)
InsertOnly(it, k) ==
  /\ h_next' = [h_next EXCEPT ![it] = BucketHead(hash[k])]
  /\ SetBucketHead(hash[k], it)
  /\ UNCHANGED <<hashpower, expanding, expand_bucket>>

(* ... or the insert is followed by assoc_expand, which moves one bucket   *)
(* and is over at once if the old table had no other.                      *)
InsertAndExpand(it, k) ==
  LET hv      == hash[k]
      links   == [h_next EXCEPT ![it] = BucketHead(hv)]
      table   == [primary_hashtable EXCEPT ![Masked(hv, hashpower)] = it]
      nth     == [n \in 0 .. Cardinality(Items) |->
                    IF table[0] = it
                    THEN IF n = 0 THEN it ELSE Nth(links[it])[n - 1]
                    ELSE Nth(table[0])[n]]
      moved   == Moved(nth, hashpower + 1, links, [key EXCEPT ![it] = k])
  IN  /\ ~expanding
      /\ hash_items + 1 > (hashsize(hashpower) * 3) \div 2
      /\ primary_hashtable' = moved.heads
      /\ h_next' = moved.links
      /\ old_hashtable' = [table EXCEPT ![0] = NULL]
      /\ hashpower' = hashpower + 1
      /\ expand_bucket' = 1
      /\ expanding' = (1 # hashsize(hashpower))

(* The items in some chain of either table. *)
Linked ==
  (UNION {Chain(primary_hashtable[b]) : b \in DOMAIN primary_hashtable})
    \union IF expanding THEN UNION {Chain(old_hashtable[b]) : b \in DOMAIN old_hashtable}
           ELSE {}

(* mt_assoc_insert of a cell that is in no chain: cells come from the      *)
(* pool, and their key is set before they are inserted.                    *)
Insert(it, k) ==
  /\ ~failed
  /\ it \notin Linked
  /\ key' = [key EXCEPT ![it] = k]
  /\ Find(k) = NULL
  /\ hash_items' = hash_items + 1
  /\ InsertOnly(it, k) \/ InsertAndExpand(it, k)
  /\ UNCHANGED <<hash, failed>>

(* mt_assoc_delete: the pointer that leads to the item, the bucket's or    *)
(* its predecessor's, is made to skip it (assoc.c:405-422, 490-502).       *)
Delete(k) ==
  LET it   == Find(k)
      pred == {p \in Chain(BucketHead(hash[k])) : h_next[p] = it}
  IN  /\ ~failed
      /\ it # NULL
      /\ hash_items' = hash_items - 1
      /\ IF pred = {}
         THEN /\ SetBucketHead(hash[k], h_next[it])
              /\ h_next' = [h_next EXCEPT ![it] = NULL]
         ELSE /\ \E p \in pred : h_next' = [h_next EXCEPT ![p] = h_next[it], ![it] = NULL]
              /\ UNCHANGED <<primary_hashtable, old_hashtable>>
      /\ UNCHANGED <<hashpower, expanding, expand_bucket, hash, key, failed>>

(* The key must be new to insert, and there to delete (assoc.c:469, 506). *)
InsertAsserts(k) ==
  /\ ~failed
  /\ Find(k) # NULL
  /\ failed' = TRUE
  /\ UNCHANGED <<tableVars, hash, key>>

DeleteAsserts(k) ==
  /\ ~failed
  /\ Find(k) = NULL
  /\ failed' = TRUE
  /\ UNCHANGED <<tableVars, hash, key>>

Next ==
  \/ \E it \in Items, k \in Keys : Insert(it, k)
  \/ \E k \in Keys : Delete(k)
  \/ \E k \in Keys : InsertAsserts(k) \/ DeleteAsserts(k)

Spec == Init /\ [][Next]_vars

-----------------------------------------------------------------------------
(* Properties. *)

(* Type invariant: the tables have the sizes hashpower says. *)
TypeOK ==
  /\ hash \in HashFunctions
  /\ hashpower \in Nat
  /\ primary_hashtable \in [0 .. hashsize(hashpower) - 1 -> Items \union {NULL}]
  /\ expanding \in BOOLEAN
  /\ expanding => hashpower > 0 /\ old_hashtable \in
                     [0 .. hashsize(hashpower - 1) - 1 -> Items \union {NULL}]
  /\ expand_bucket \in Nat
  /\ hash_items \in Nat
  /\ h_next \in [Items -> Items \union {NULL}]
  /\ key \in [Items -> Keys \union {NULL}]
  /\ failed \in BOOLEAN

(* "Number of items in the hash table." (assoc.c:356), whichever table.    *)
HashItemsCounts ==
  hash_items = Cardinality(Linked)

(* "Ranges from 0 .. hashsize(hashpower - 1) - 1" (assoc.c:363-364) while  *)
(* the expansion is on.                                                    *)
ExpandBucketInRange ==
  expanding => expand_bucket \in 0 .. hashsize(hashpower - 1) - 1

(* An item is in one chain of one table only, so that deleting it once is  *)
(* enough and no chain runs into another.                                  *)
ChainsDisjoint ==
  LET heads == {<<"new", b>> : b \in DOMAIN primary_hashtable}
                 \union (IF expanding THEN {<<"old", b>> : b \in DOMAIN old_hashtable}
                                      ELSE {})
      chain(h) == Chain(IF h[1] = "new" THEN primary_hashtable[h[2]]
                                        ELSE old_hashtable[h[2]])
  IN  \A g, h \in heads : g # h => chain(g) \intersect chain(h) = {}

(* Count, bucket index and chains are right in the middle of an expansion. *)
TableSound == HashItemsCounts /\ ExpandBucketInRange /\ ChainsDisjoint

D == INSTANCE AssocDict WITH dict <- [k \in Keys |-> Find(k)]

(* The table is a dictionary: every call does to the whole of the look-up  *)
(* function what the call's contract says, through insertions, deletions   *)
(* from the middle of a chain, and an expansion that never finishes.       *)
RefinesDict == D!Spec

=============================================================================
