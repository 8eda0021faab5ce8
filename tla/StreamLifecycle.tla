-------------------------- MODULE StreamLifecycle --------------------------
(***************************************************************************)
(* How streams come and go: the item pool (thread.c:91-152), the registry  *)
(* of streams by key (assoc.c:509-540 over the hash table), the creation   *)
(* of an item and its getter thread by the request that misses             *)
(* (rtoh.c:556-572), the hand-over of parked metainfo requests to the      *)
(* getter (rtoh.c:297-372, thread.c:534-544), and the teardown of an item  *)
(* by its getter (thread.c:153-193).                                       *)
(*                                                                         *)
(* The main thread runs the event loop and is the only one to create       *)
(* items; each item has one getter thread.  One action is one critical     *)
(* section or the code between two of them.  The pool and the lists of     *)
(* parked connections are the program's own linked lists: a head and a     *)
(* next pointer per cell.  The registry is its promise, a set of items     *)
(* found by key (module AssocTable has the buckets); an assertion that     *)
(* fails in it ends the process.                                           *)
(*                                                                         *)
(* A getter that publishes pieces is seen only through what the metainfo   *)
(* answer needs of it, and the serving of blocks is a state a connection   *)
(* enters and leaves (modules BlockRing and BlockStreaming).               *)
(***************************************************************************)
EXTENDS Integers, FiniteSets

CONSTANTS
  Items,          \* the cells of the item pool (settings.maxgetters of them)
  Keys,           \* stream ids
  Conns,          \* connections
  Threads,        \* getter threads that can exist at a time
  NULL,
  Kinds,          \* request kinds clients use: subset of {"tn", "metaid", "block"}
  StreamsEnd,     \* do streams fail to connect, break or end?
  MaxShortReads   \* bound: reads shorter than a tag header (thread.c:267)

ASSUME LifecycleAssumption ==
  /\ IsFiniteSet(Items) /\ IsFiniteSet(Conns)
  /\ NULL \notin Items \union Conns \union Threads \union Keys
  /\ Kinds \subseteq {"tn", "metaid", "block"}
  /\ StreamsEnd \in BOOLEAN
  /\ MaxShortReads \in Nat

VARIABLES
  item_head,      \* the pool: its first cell ...
  mm_next,        \* ... and the next pointer of every cell
  curr_items,     \* stats.curr_items
  key,            \* it->key
  level,          \* what the stream has: 0, 1 codec headers, 2 and a key frame
  meta_wait_list, \* it->meta_wait_list, a connection or NULL
  registered,     \* the items in the hash table
  next,           \* conn->next
  conn,           \* what a connection is doing
  request,        \* its last request: [kind, key]
  main_pc,        \* where the main thread is: "loop", "malloc", "init", ...
  main_conn,      \* ... serving which connection
  main_item,      \* ... with which item
  getter,         \* where each getter thread is: "idle", "connect", "run", ...
  item,           \* ... its item
  cur,            \* ... its meta_conn_head
  again,          \* ... does it destroy its item once more?
  short_reads,    \* number of short reads so far
  status          \* "up", or why nothing more is said

poolVars == <<item_head, mm_next, curr_items>>
itemVars == <<key, level, meta_wait_list>>
connVars == <<next, conn, request>>
mainVars == <<main_pc, main_conn, main_item>>
getterVars == <<getter, item, cur, again>>
vars == <<poolVars, itemVars, registered, connVars, mainVars, getterVars,
          short_reads, status>>

Match(k) == {it \in registered : key[it] = k}

-----------------------------------------------------------------------------
(* item_mm_init links all cells; every connection has just been accepted.  *)
Init ==
  /\ \E order \in [1 .. Cardinality(Items) -> Items] :
       /\ \A i, j \in DOMAIN order : order[i] = order[j] => i = j
       /\ \A it \in Items : \E i \in DOMAIN order : order[i] = it
       /\ item_head = IF Items = {} THEN NULL ELSE order[1]
       /\ mm_next = [it \in Items |->
            LET i == CHOOSE i \in DOMAIN order : order[i] = it
            IN  IF i + 1 \in DOMAIN order THEN order[i + 1] ELSE NULL]
  /\ curr_items = 0
  /\ key = [it \in Items |-> NULL]
  /\ level = [it \in Items |-> 0]
  /\ meta_wait_list = [it \in Items |-> NULL]
  /\ registered = {}
  /\ next = [c \in Conns |-> NULL]
  /\ conn = [c \in Conns |-> "reading"]
  /\ request = [c \in Conns |-> [kind |-> "none", key |-> NULL]]
  /\ main_pc = "loop" /\ main_conn = NULL /\ main_item = NULL
  /\ getter = [t \in Threads |-> "idle"]
  /\ item = [t \in Threads |-> NULL]
  /\ cur = [t \in Threads |-> NULL]
  /\ again = [t \in Threads |-> FALSE]
  /\ short_reads = 0
  /\ status = "up"

-----------------------------------------------------------------------------
(* The pool, under item_mm_lock. *)

(* Fault: the cell is not unlinked. *)
FaultPoolPeeks(it) ==
  /\ item_head = it
  /\ curr_items' = curr_items + 1
  /\ UNCHANGED <<item_head, mm_next>>

(* malloc_item, when the pool is not empty. *)
PoolTakes(it) ==
  /\ item_head = it
  /\ item_head' = mm_next[it]
  /\ mm_next' = [mm_next EXCEPT ![it] = NULL]
  /\ curr_items' = curr_items + 1

(* free_item. *)
PoolGets(it) ==
  /\ mm_next' = [mm_next EXCEPT ![it] = item_head]
  /\ item_head' = it
  /\ curr_items' = curr_items - 1

-----------------------------------------------------------------------------
(* Connections. *)

(* A complete answer leaves the connection reading again, a failed write   *)
(* closes it (on_write; rtoh.c:765-768).                                   *)
Answered(c) ==
  \E after \in {"reading", "closed"} : conn' = [conn EXCEPT ![c] = after]

(* on_accept reuses a closed connection's cell (rtoh.c:886-921, init_conn). *)
Accept(c) ==
  /\ conn[c] = "closed"
  /\ conn' = [conn EXCEPT ![c] = "reading"]
  /\ next' = [next EXCEPT ![c] = NULL]
  /\ UNCHANGED <<poolVars, itemVars, registered, request, mainVars, getterVars,
                 short_reads, status>>

(* Block streaming ends, well or not. *)
StreamingEnds(c) ==
  /\ conn[c] = "streaming"
  /\ Answered(c)
  /\ UNCHANGED <<poolVars, itemVars, registered, next, request, mainVars, getterVars,
                 short_reads, status>>

-----------------------------------------------------------------------------
(* The main thread. *)

(* It goes on to another section with a connection and an item. *)
MainGoes(pc, c, it) == main_pc' = pc /\ main_conn' = c /\ main_item' = it

MainReturns == MainGoes("loop", NULL, NULL)

(* A getter thread goes on to another section, with all its variables or   *)
(* with the ones it has.                                                   *)
GetterGoes(t, pc, it, c, a) ==
  /\ getter' = [getter EXCEPT ![t] = pc]
  /\ item' = [item EXCEPT ![t] = it]
  /\ cur' = [cur EXCEPT ![t] = c]
  /\ again' = [again EXCEPT ![t] = a]

GetterMoves(t, pc) == getter' = [getter EXCEPT ![t] = pc] /\ UNCHANGED <<item, cur, again>>

(* Fault: a miss is taken for granted, with no look at the table. *)
FaultFindNothing(c, kind, k) ==
  /\ main_pc = "loop"
  /\ conn[c] = "reading"
  /\ kind = "tn"
  /\ request' = [request EXCEPT ![c] = [kind |-> kind, key |-> k]]
  /\ conn' = [conn EXCEPT ![c] = "handled"]
  /\ MainGoes("malloc", c, NULL)
  /\ UNCHANGED <<poolVars, itemVars, registered, next, getterVars, short_reads, status>>

(* on_read has a whole request and generate_response looks the stream up:  *)
(* found, missing but worth a getter, or 404 (rtoh.c:557-559, 571).        *)
FindItem(c, kind, k) ==
  /\ main_pc = "loop"
  /\ conn[c] = "reading"
  /\ request' = [request EXCEPT ![c] = [kind |-> kind, key |-> k]]
  /\ \/ \E it \in Match(k) :
          /\ conn' = [conn EXCEPT ![c] = "handled"]
          /\ MainGoes("generate", c, it)
     \/ /\ Match(k) = {} /\ kind = "tn"
        /\ conn' = [conn EXCEPT ![c] = "handled"]
        /\ MainGoes("malloc", c, NULL)
     \/ /\ Match(k) = {} /\ kind # "tn"
        /\ Answered(c)
        /\ UNCHANGED mainVars
  /\ UNCHANGED <<poolVars, itemVars, registered, next, getterVars, short_reads, status>>

(* Fault: the pool is taken to hold a cell. *)
FaultMallocUnchecked ==
  /\ main_pc = "malloc"
  /\ MainGoes("init", main_conn, item_head)
  /\ item_head' = IF item_head = NULL THEN NULL ELSE mm_next[item_head]
  /\ curr_items' = curr_items + 1
  /\ UNCHANGED <<mm_next, itemVars, registered, connVars, getterVars, short_reads, status>>

(* malloc_item; an empty pool is a 500 (rtoh.c:560-562). *)
MallocItem ==
  /\ main_pc = "malloc"
  /\ \/ \E it \in Items :
          /\ PoolTakes(it)
          /\ MainGoes("init", main_conn, it)
          /\ UNCHANGED conn
     \/ /\ item_head = NULL
        /\ MainReturns
        /\ Answered(main_conn)
        /\ UNCHANGED poolVars
  /\ UNCHANGED <<itemVars, registered, next, request, getterVars, short_reads, status>>

(* init_item: clear the cell, copy the key and start the getter            *)
(* (rtoh.c:230-242); the mutex it then initialises is left out.            *)
InitItem ==
  LET it == main_item
  IN  /\ main_pc = "init"
      /\ key' = [key EXCEPT ![it] = request[main_conn].key]
      /\ level' = [level EXCEPT ![it] = 0]
      /\ meta_wait_list' = [meta_wait_list EXCEPT ![it] = NULL]
      /\ \E t \in Threads :
           /\ getter[t] = "idle"
           /\ GetterGoes(t, "connect", it, NULL, FALSE)
      /\ MainGoes("insert", main_conn, main_item)
      /\ UNCHANGED <<poolVars, registered, connVars, short_reads, status>>

(* pthread_create fails: free_item and a 500 (rtoh.c:563-566). *)
InitItemFails ==
  LET it == main_item
  IN  /\ main_pc = "init"
      /\ key' = [key EXCEPT ![it] = request[main_conn].key]
      /\ level' = [level EXCEPT ![it] = 0]
      /\ meta_wait_list' = [meta_wait_list EXCEPT ![it] = NULL]
      /\ PoolGets(it)
      /\ Answered(main_conn)
      /\ MainReturns
      /\ UNCHANGED <<registered, next, request, getterVars, short_reads, status>>

(* mt_assoc_insert asserts that the key is new (assoc.c:469). *)
InsertItem ==
  /\ main_pc = "insert"
  /\ IF Match(key[main_item]) # {}
     THEN /\ status' = "insert_assert"
          /\ UNCHANGED <<registered, mainVars>>
     ELSE /\ registered' = registered \union {main_item}
          /\ MainGoes("generate", main_conn, main_item)
          /\ UNCHANGED status
  /\ UNCHANGED <<poolVars, itemVars, connVars, getterVars, short_reads>>

(* do_generate_response under it->lock (rtoh.c:297-408): a metainfo request *)
(* is answered or parked, a block request starts to be served or is told   *)
(* 404, and a metaid request falls through both branches.                  *)
GenerateResponse ==
  LET it   == main_item
      c    == main_conn
      kind == request[c].kind
  IN  /\ main_pc = "generate"
      /\ MainReturns
      /\ \/ /\ kind = "tn" /\ level[it] > 0
            /\ Answered(c)
            /\ UNCHANGED <<next, meta_wait_list>>
         \/ /\ kind = "tn" /\ level[it] = 0
            /\ conn' = [conn EXCEPT ![c] = "parked"]
            /\ next' = [next EXCEPT ![c] = meta_wait_list[it]]
            /\ meta_wait_list' = [meta_wait_list EXCEPT ![it] = c]
         \/ /\ kind = "block"
            /\ Answered(c) \/ conn' = [conn EXCEPT ![c] = "streaming"]
            /\ UNCHANGED <<next, meta_wait_list>>
         \/ /\ kind = "metaid"
            /\ conn' = [conn EXCEPT ![c] = "mute"]
            /\ UNCHANGED <<next, meta_wait_list>>
      /\ UNCHANGED <<poolVars, key, level, registered, request, getterVars,
                     short_reads, status>>

-----------------------------------------------------------------------------
(* The getter threads. *)


(* RTMP_Connect and RTMP_ConnectStream succeed (thread.c:210-219). *)
Connected(t) ==
  /\ getter[t] = "connect"
  /\ GetterMoves(t, "run")
  /\ UNCHANGED <<poolVars, itemVars, registered, connVars, mainVars, short_reads, status>>

(* They fail, or the stream ends or is malformed: every path to            *)
(* destroy_item followed by a return.                                      *)
StreamEnds(t) ==
  /\ StreamsEnd
  /\ getter[t] = "connect" \/ getter[t] = "run"
  /\ GetterMoves(t, "drain")
  /\ UNCHANGED <<poolVars, itemVars, registered, connVars, mainVars, short_reads, status>>

(* A short read: destroy_item without a return; the parse loop then runs   *)
(* off the data and destroys the item again (thread.c:267-287).            *)
ShortRead(t) ==
  /\ StreamsEnd
  /\ getter[t] = "run"
  /\ short_reads < MaxShortReads
  /\ short_reads' = short_reads + 1
  /\ GetterGoes(t, "drain", item[t], cur[t], TRUE)
  /\ UNCHANGED <<poolVars, itemVars, registered, connVars, mainVars, status>>

(* Fault: the getter takes the list and leaves it on the item. *)
FaultPublishKeepsList(t) ==
  LET it == item[t]
  IN  /\ getter[t] = "run"
      /\ \E l \in 0 .. 2 :
           /\ level[it] > 0 => l > 0
           /\ level' = [level EXCEPT ![it] = l]
           /\ IF l = 2 /\ meta_wait_list[it] # NULL
              THEN GetterGoes(t, "answer", it, meta_wait_list[it], again[t])
              ELSE UNCHANGED getterVars
      /\ UNCHANGED <<poolVars, key, meta_wait_list, registered, connVars, mainVars,
                     short_reads, status>>

(* A piece is published under it->lock.  Codec headers once there stay; a  *)
(* key frame can leave the window.  With both, the getter takes the parked *)
(* requests (thread.c:420-433, 534-540).                                   *)
Publish(t) ==
  LET it == item[t]
  IN  /\ getter[t] = "run"
      /\ \E l \in 0 .. 2 :
           /\ level[it] > 0 => l > 0
           /\ level' = [level EXCEPT ![it] = l]
           /\ IF l = 2 /\ meta_wait_list[it] # NULL
              THEN /\ GetterGoes(t, "answer", it, meta_wait_list[it], again[t])
                   /\ meta_wait_list' = [meta_wait_list EXCEPT ![it] = NULL]
              ELSE UNCHANGED <<getterVars, meta_wait_list>>
      /\ UNCHANGED <<poolVars, key, registered, connVars, mainVars, short_reads, status>>

(* do_generate_response for the connection at hand (thread.c:542).  One    *)
(* that is no longer parked is somebody else's by now: nothing more is     *)
(* said of such a behaviour.                                               *)
AnswerParked(t) ==
  LET c == cur[t]
  IN  /\ getter[t] = "answer"
      /\ c # NULL
      /\ IF conn[c] = "parked" /\ request[c].key = key[item[t]]
         THEN /\ Answered(c)
              /\ GetterMoves(t, "advance")
              /\ UNCHANGED status
         ELSE /\ status' = "misdelivered"
              /\ UNCHANGED <<conn, getterVars>>
      /\ UNCHANGED <<poolVars, itemVars, registered, next, request, mainVars, short_reads>>

(* meta_conn_head = meta_conn_head->next, with no lock (thread.c:543). *)
AdvanceParked(t) ==
  /\ getter[t] = "advance"
  /\ GetterGoes(t, "answer", item[t], next[cur[t]], again[t])
  /\ UNCHANGED <<poolVars, itemVars, registered, connVars, mainVars, short_reads, status>>

AllAnswered(t) ==
  /\ getter[t] = "answer"
  /\ cur[t] = NULL
  /\ GetterMoves(t, "run")
  /\ UNCHANGED <<poolVars, itemVars, registered, connVars, mainVars, short_reads, status>>

(* The connections of a list: n links from connection c. *)
ListFrom(c) ==
  LET nth[n \in 0 .. Cardinality(Conns)] ==
        IF n = 0 THEN c
        ELSE IF nth[n - 1] = NULL THEN NULL ELSE next[nth[n - 1]]
  IN  {nth[n] : n \in DOMAIN nth} \ {NULL}

(* Fault: the loop over the list does not move on. *)
FaultDrainForever(t) ==
  LET it == item[t]
  IN  /\ getter[t] = "drain"
      /\ IF meta_wait_list[it] # NULL
         THEN /\ conn' = [conn EXCEPT ![meta_wait_list[it]] = "closed"]
              /\ UNCHANGED getterVars
         ELSE /\ GetterMoves(t, "delete")
              /\ UNCHANGED conn
      /\ UNCHANGED <<poolVars, itemVars, registered, next, request, mainVars,
                     short_reads, status>>

(* destroy_item, first part: everybody parked is hung up on                *)
(* (thread.c:161-190).                                                     *)
DrainItem(t) ==
  LET it == item[t]
  IN  /\ getter[t] = "drain"
      /\ conn' = [c \in Conns |->
                    IF c \in ListFrom(meta_wait_list[it]) THEN "closed" ELSE conn[c]]
      /\ meta_wait_list' = [meta_wait_list EXCEPT ![it] = NULL]
      /\ GetterMoves(t, "delete")
      /\ UNCHANGED <<poolVars, key, level, registered, next, request, mainVars,
                     short_reads, status>>

(* Fault: the head of the bucket is taken out without comparing keys. *)
FaultDeleteAny(t) ==
  /\ getter[t] = "delete"
  /\ \E it \in registered : registered' = registered \ {it}
  /\ GetterMoves(t, "free")
  /\ UNCHANGED <<poolVars, itemVars, connVars, mainVars, short_reads, status>>

(* mt_assoc_delete(it->key): an assertion if the key is not there          *)
(* (thread.c:191, assoc.c:490-507).                                        *)
DeleteItem(t) ==
  /\ getter[t] = "delete"
  /\ IF Match(key[item[t]]) = {}
     THEN /\ status' = "delete_assert"
          /\ UNCHANGED <<registered, getterVars>>
     ELSE /\ \E it \in Match(key[item[t]]) : registered' = registered \ {it}
          /\ GetterMoves(t, "free")
          /\ UNCHANGED status
  /\ UNCHANGED <<poolVars, itemVars, connVars, mainVars, short_reads>>

(* free_item; after a short read once more from the start. *)
FreeItem(t) ==
  /\ getter[t] = "free"
  /\ PoolGets(item[t])
  /\ IF again[t] THEN GetterGoes(t, "drain", item[t], NULL, FALSE)
                 ELSE GetterGoes(t, "idle", NULL, NULL, FALSE)
  /\ UNCHANGED <<itemVars, registered, connVars, mainVars, short_reads, status>>

-----------------------------------------------------------------------------
MainStep == MallocItem \/ InitItem \/ InitItemFails \/ InsertItem \/ GenerateResponse

MainThread ==
  \/ \E c \in Conns, kind \in Kinds, k \in Keys : FindItem(c, kind, k)
  \/ MainStep

Upstream(t) == Connected(t) \/ StreamEnds(t) \/ ShortRead(t) \/ Publish(t)

HandOver(t) == AnswerParked(t) \/ AdvanceParked(t) \/ AllAnswered(t)

Teardown(t) == DrainItem(t) \/ DeleteItem(t) \/ FreeItem(t)

GetterStep(t) == Upstream(t) \/ HandOver(t) \/ Teardown(t)

ClientStep(c) == Accept(c) \/ StreamingEnds(c)

Next ==
  /\ status = "up"
  /\ \/ MainThread
     \/ \E t \in Threads : GetterStep(t)
     \/ \E c \in Conns : ClientStep(c)

(* Threads that can run do run; an upstream that is connected either gets  *)
(* its stream going to a key frame or ends.                                *)
GoesLive(t) == Publish(t) /\ level'[item[t]] = 2

Fairness ==
  /\ WF_vars(status = "up" /\ MainStep)
  /\ \A t \in Threads :
       /\ WF_vars(status = "up" /\ (Connected(t) \/ StreamEnds(t)))
       /\ WF_vars(status = "up" /\ (GoesLive(t) \/ StreamEnds(t)))
       /\ WF_vars(status = "up" /\ (HandOver(t) \/ Teardown(t)))

Spec == Init /\ [][Next]_vars

FairSpec == Spec /\ Fairness


-----------------------------------------------------------------------------
(* Properties. *)

MainPcs == {"loop", "malloc", "init", "insert", "generate"}

GetterPcs == {"idle", "connect", "run", "answer", "advance", "drain", "delete", "free"}

(* Type invariant.  The main thread has a connection when it is not        *)
(* waiting for events, and an item from malloc_item on; a getter has an    *)
(* item as long as it lives.                                               *)
TypeOK ==
  /\ item_head \in Items \union {NULL}
  /\ mm_next \in [Items -> Items \union {NULL}]
  /\ curr_items \in Int
  /\ key \in [Items -> Keys \union {NULL}]
  /\ level \in [Items -> 0 .. 2]
  /\ meta_wait_list \in [Items -> Conns \union {NULL}]
  /\ registered \subseteq Items
  /\ next \in [Conns -> Conns \union {NULL}]
  /\ conn \in [Conns -> {"reading", "handled", "parked", "streaming", "mute", "closed"}]
  /\ request \in [Conns -> [kind : Kinds \union {"none"}, key : Keys \union {NULL}]]
  /\ main_pc \in MainPcs
  /\ main_conn \in Conns \union {NULL} /\ (main_conn = NULL <=> main_pc = "loop")
  /\ main_item \in Items \union {NULL} /\ (main_item = NULL <=> main_pc \in {"loop", "malloc"})
  /\ getter \in [Threads -> GetterPcs]
  /\ item \in [Threads -> Items \union {NULL}]
  /\ \A t \in Threads : item[t] = NULL <=> getter[t] = "idle"
  /\ cur \in [Threads -> Conns \union {NULL}]
  /\ \A t \in Threads : getter[t] = "advance" => cur[t] # NULL
  /\ again \in [Threads -> BOOLEAN]
  /\ short_reads \in Nat
  /\ status \in {"up", "insert_assert", "delete_assert", "misdelivered"}

Live(t) == getter[t] # "idle"

(* Between the start of the getter and mt_assoc_delete. *)
Serving(t) == getter[t] \in GetterPcs \ {"idle", "free"}

InUse == {it \in Items : \/ main_pc = "init" /\ main_item = it
                         \/ \E t \in Threads : Live(t) /\ item[t] = it}

(* cell[1] .. cell[n] are the cells of the pool in list order. *)
PoolListIs(n, cell) ==
  /\ \A i, j \in 1 .. n : cell[i] = cell[j] => i = j
  /\ item_head = IF n = 0 THEN NULL ELSE cell[1]
  /\ \A i \in 1 .. n : mm_next[cell[i]] = IF i = n THEN NULL ELSE cell[i + 1]

(* The pool's list ends, and holds each cell that is not in use exactly    *)
(* once: no cell is lost, handed out twice or freed under its getter.      *)
PoolHoldsTheRest ==
  \E n \in 0 .. Cardinality(Items) :
    \E cell \in [1 .. n -> Items] :
      PoolListIs(n, cell) /\ {cell[i] : i \in 1 .. n} = Items \ InUse

(* A cell in use belongs to one getter, or to the main thread about to     *)
(* start one.                                                              *)
OneOwner ==
  /\ \A t, u \in Threads :
       Live(t) /\ Live(u) /\ item[t] = item[u] => t = u
  /\ main_pc = "init" =>
       \A t \in Threads : Live(t) => item[t] # main_item

(* stats.curr_items counts the cells that are out (thread.c:130-132, 146-148). *)
CurrItemsCounts == curr_items = Cardinality(InUse)

(* The pool and its counter are as if every cell were either in it or      *)
(* somebody's, whatever fails between malloc_item and the getter's start.  *)
PoolSound == PoolHoldsTheRest /\ OneOwner /\ CurrItemsCounts

(* A stream that can be found is being fetched: a registered item's getter *)
(* is running and has not yet deregistered it.                             *)
RegisteredHasGetter ==
  \A it \in registered : \E t \in Threads : Serving(t) /\ item[t] = it

(* No stream is fetched twice at a time: the main thread looks up, creates *)
(* and inserts in separate critical sections, getters come and go between. *)
OneGetterPerKey ==
  \A t, u \in Threads :
    Serving(t) /\ Serving(u) /\ key[item[t]] = key[item[u]] => t = u

(* "shouldn't have duplicately named things defined" (assoc.c:469): what   *)
(* the main thread inserts is still new when it gets to it.                *)
InsertKeyIsNew == status # "insert_assert"

(* The registry says which streams are being fetched, once each.           *)
RegistrySound == RegisteredHasGetter /\ OneGetterPerKey /\ InsertKeyIsNew

(* Everyone on an item's list is parked for the item's stream, and on no   *)
(* other list, although the same next pointer serves all lists.            *)
WaitListsSound ==
  /\ \A it \in Items : \A c \in ListFrom(meta_wait_list[it]) :
       conn[c] = "parked" /\ request[c].key = key[it]
  /\ \A it1, it2 \in Items :
       it1 # it2 => ListFrom(meta_wait_list[it1]) \intersect
                      ListFrom(meta_wait_list[it2]) = {}

(* mt_assoc_delete takes out the caller's own item and no other.           *)
OnlyOwnGetterDeletes ==
  [][\A it \in registered \ registered' :
       \E t \in Threads : getter[t] = "delete" /\ item[t] = it]_vars

(* A stream that ends leaves the registry and gives its cell back: the     *)
(* getter gets through destroy_item.                                       *)
EndedStreamIsReclaimed ==
  \A t \in Threads : getter[t] = "drain" ~> (getter[t] = "idle" \/ status # "up")

(* "we never actually get here.  the callers don't delete things they      *)
(* can't find" (assoc.c:504-506).                                          *)
DeleteFindsItsItem == status # "delete_assert"

(* "Response will be generated in rtmp_getter" (rtoh.c:366): a parked      *)
(* request is answered, or its connection closed.                          *)
ParkedGetsResponse ==
  \A c \in Conns : conn[c] = "parked" ~> (conn[c] # "parked" \/ status # "up")

(* "http://ip/mediainfo/streamid/metaId" is one of the requests            *)
(* generate_response lists as served (rtoh.c:416-420).                     *)
MetaIdIsServed == \A c \in Conns : conn[c] # "mute"

=============================================================================
