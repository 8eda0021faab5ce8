----------------------- MODULE StreamLifecycleProofs -----------------------
(***************************************************************************)
(* Proofs about StreamLifecycle for every pool size, set of streams,       *)
(* connections and threads.                                                *)
(***************************************************************************)
EXTENDS StreamLifecycle, LeastElement, FiniteSetTheorems, TLAPS

-----------------------------------------------------------------------------
(* Type correctness. *)

(* The pool is linked and every connection is reading at the start, so     *)
(* every variable starts in its type.                                      *)
LEMMA InitTypeOK == Init => TypeOK
<1> SUFFICES ASSUME Init PROVE TypeOK
  OBVIOUS
<1> PICK order \in [1 .. Cardinality(Items) -> Items] :
       /\ \A i, j \in DOMAIN order : order[i] = order[j] => i = j
       /\ \A it \in Items : \E i \in DOMAIN order : order[i] = it
       /\ item_head = IF Items = {} THEN NULL ELSE order[1]
       /\ mm_next = [it \in Items |->
            LET i == CHOOSE i \in DOMAIN order : order[i] = it
            IN  IF i + 1 \in DOMAIN order THEN order[i + 1] ELSE NULL]
  BY DEF Init
<1>1. Cardinality(Items) \in Nat
  BY LifecycleAssumption, FS_CardinalityType
<1>2. item_head \in Items \union {NULL}
  <2>1. CASE Items = {}
    BY <2>1
  <2>2. CASE Items # {}
    <3>1. PICK it \in Items, i \in DOMAIN order : order[i] = it
      BY <2>2
    <3>2. 1 \in 1 .. Cardinality(Items)
      BY <3>1, <1>1
    <3> QED BY <3>2, <2>2
  <2> QED BY <2>1, <2>2
<1>3. mm_next \in [Items -> Items \union {NULL}]
  OBVIOUS
<1>4. QED
  BY <1>2, <1>3 DEF Init, TypeOK, MainPcs, GetterPcs

(* Every step of a thread or client keeps every variable in its type.      *)
LEMMA StepTypeOK == TypeOK /\ [Next]_vars => TypeOK'
<1> SUFFICES ASSUME TypeOK, [Next]_vars PROVE TypeOK'
  OBVIOUS
<1> USE DEF TypeOK, poolVars, itemVars, connVars, mainVars, getterVars, MainGoes, MainReturns,
            GetterGoes, GetterMoves, Answered, MainPcs, GetterPcs
<1> USE LifecycleAssumption
<1>1. ASSUME NEW c \in Conns, NEW kind \in Kinds, NEW k \in Keys, FindItem(c, kind, k)
      PROVE  TypeOK'
  <2>1. request' \in [Conns -> [kind : Kinds \union {"none"}, key : Keys \union {NULL}]]
    BY <1>1 DEF FindItem
  <2>2. conn' \in [Conns -> {"reading", "handled", "parked", "streaming", "mute", "closed"}]
    BY <1>1 DEF FindItem
  <2>3. \/ \E it \in Match(k) : MainGoes("generate", c, it)
        \/ MainGoes("malloc", c, NULL)
        \/ UNCHANGED mainVars
    BY <1>1 DEF FindItem
  <2>4. /\ main_pc' \in MainPcs
        /\ main_conn' \in Conns \union {NULL} /\ (main_conn' = NULL <=> main_pc' = "loop")
        /\ main_item' \in Items \union {NULL}
        /\ main_item' = NULL <=> main_pc' \in {"loop", "malloc"}
    BY <1>1, <2>3 DEF Match
  <2> QED BY <1>1, <2>1, <2>2, <2>4 DEF FindItem
<1>2. CASE MallocItem
  <2>1. CASE \E it \in Items : PoolTakes(it) /\ MainGoes("init", main_conn, it) /\ UNCHANGED conn
    <3> PICK it \in Items : PoolTakes(it) /\ MainGoes("init", main_conn, it) /\ UNCHANGED conn
      BY <2>1
    <3>1. item_head' \in Items \union {NULL} /\ mm_next' \in [Items -> Items \union {NULL}]
          /\ curr_items' \in Int
      BY DEF PoolTakes
    <3> QED BY <1>2, <3>1 DEF MallocItem
  <2>2. CASE item_head = NULL /\ MainReturns /\ Answered(main_conn) /\ UNCHANGED poolVars
    BY <1>2, <2>2 DEF MallocItem
  <2> QED BY <1>2, <2>1, <2>2 DEF MallocItem
<1>3. CASE InitItem
  <2>1. main_item \in Items /\ main_conn \in Conns
    BY <1>3 DEF InitItem
  <2>2. key' \in [Items -> Keys \union {NULL}] /\ level' \in [Items -> 0 .. 2]
        /\ meta_wait_list' \in [Items -> Conns \union {NULL}]
    BY <1>3, <2>1 DEF InitItem
  <2>3. PICK t \in Threads : getter[t] = "idle" /\ GetterGoes(t, "connect", main_item, NULL, FALSE)
    BY <1>3 DEF InitItem
  <2>4. /\ getter' \in [Threads -> GetterPcs]
        /\ item' \in [Threads -> Items \union {NULL}]
        /\ \A u \in Threads : item'[u] = NULL <=> getter'[u] = "idle"
    BY <2>1, <2>3
  <2>5. /\ cur' \in [Threads -> Conns \union {NULL}]
        /\ \A u \in Threads : getter'[u] = "advance" => cur'[u] # NULL
        /\ again' \in [Threads -> BOOLEAN]
    BY <2>1, <2>3
  <2> QED BY <1>3, <2>1, <2>2, <2>4, <2>5 DEF InitItem
<1>4. CASE InitItemFails
  BY <1>4 DEF InitItemFails, PoolGets
<1>5. CASE InsertItem
  BY <1>5 DEF InsertItem
<1>6. CASE GenerateResponse
  <2>1. main_item \in Items /\ main_conn \in Conns
    BY <1>6 DEF GenerateResponse
  <2>2. conn' \in [Conns -> {"reading", "handled", "parked", "streaming", "mute", "closed"}]
    BY <1>6, <2>1 DEF GenerateResponse
  <2>3. next' \in [Conns -> Conns \union {NULL}]
        /\ meta_wait_list' \in [Items -> Conns \union {NULL}]
    BY <1>6, <2>1 DEF GenerateResponse
  <2> QED BY <1>6, <2>2, <2>3 DEF GenerateResponse
<1>7. ASSUME NEW t \in Threads, GetterStep(t)
      PROVE  TypeOK'
  <2>1. CASE Connected(t) BY <2>1 DEF Connected
  <2>2. CASE StreamEnds(t) BY <2>2 DEF StreamEnds
  <2>3. CASE ShortRead(t)
    <3>1. /\ getter' \in [Threads -> GetterPcs]
          /\ item' \in [Threads -> Items \union {NULL}]
          /\ \A u \in Threads : item'[u] = NULL <=> getter'[u] = "idle"
      BY <2>3 DEF ShortRead
    <3>2. /\ cur' \in [Threads -> Conns \union {NULL}]
          /\ \A u \in Threads : getter'[u] = "advance" => cur'[u] # NULL
          /\ again' \in [Threads -> BOOLEAN]
      BY <2>3 DEF ShortRead
    <3> QED BY <2>3, <3>1, <3>2 DEF ShortRead
  <2>4. CASE Publish(t)
    <3>1. item[t] \in Items
      BY <2>4 DEF Publish
    <3>2. level' \in [Items -> 0 .. 2] /\ meta_wait_list' \in [Items -> Conns \union {NULL}]
      BY <2>4, <3>1 DEF Publish
    <3>3. GetterGoes(t, "answer", item[t], meta_wait_list[item[t]], again[t]) \/ UNCHANGED getterVars
      BY <2>4 DEF Publish
    <3>4. /\ getter' \in [Threads -> GetterPcs]
          /\ item' \in [Threads -> Items \union {NULL}]
          /\ \A u \in Threads : item'[u] = NULL <=> getter'[u] = "idle"
      BY <2>4, <3>1, <3>3 DEF Publish
    <3>5. /\ cur' \in [Threads -> Conns \union {NULL}]
          /\ \A u \in Threads : getter'[u] = "advance" => cur'[u] # NULL
          /\ again' \in [Threads -> BOOLEAN]
      <4>1. CASE GetterGoes(t, "answer", item[t], meta_wait_list[item[t]], again[t])
        <5>1. cur' \in [Threads -> Conns \union {NULL}]
          BY <3>1, <4>1
        <5>2. \A u \in Threads : getter'[u] = "advance" => cur'[u] # NULL
          BY <4>1
        <5>3. again' \in [Threads -> BOOLEAN]
          BY <4>1
        <5> QED BY <5>1, <5>2, <5>3
      <4>2. CASE UNCHANGED getterVars
        BY <4>2
      <4> QED BY <3>3, <4>1, <4>2
    <3> QED BY <2>4, <3>2, <3>4, <3>5 DEF Publish
  <2>5. CASE AnswerParked(t)
    <3>1. cur[t] \in Conns /\ item[t] \in Items
      BY <2>5 DEF AnswerParked
    <3>2. conn' \in [Conns -> {"reading", "handled", "parked", "streaming", "mute", "closed"}]
      BY <2>5, <3>1 DEF AnswerParked
    <3>3. (GetterMoves(t, "advance") /\ UNCHANGED status)
          \/ (UNCHANGED getterVars /\ status' = "misdelivered")
      BY <2>5 DEF AnswerParked
    <3>4. /\ getter' \in [Threads -> GetterPcs]
          /\ item' \in [Threads -> Items \union {NULL}]
          /\ \A u \in Threads : item'[u] = NULL <=> getter'[u] = "idle"
      BY <3>1, <3>3
    <3>5. /\ cur' \in [Threads -> Conns \union {NULL}]
          /\ \A u \in Threads : getter'[u] = "advance" => cur'[u] # NULL
          /\ again' \in [Threads -> BOOLEAN]
      BY <3>1, <3>3
    <3> QED BY <2>5, <3>2, <3>3, <3>4, <3>5 DEF AnswerParked
  <2>6. CASE AdvanceParked(t)
    <3>1. next[cur[t]] \in Conns \union {NULL} /\ item[t] \in Items
      BY <2>6 DEF AdvanceParked
    <3>2. /\ getter' \in [Threads -> GetterPcs]
          /\ item' \in [Threads -> Items \union {NULL}]
          /\ \A u \in Threads : item'[u] = NULL <=> getter'[u] = "idle"
      BY <2>6, <3>1 DEF AdvanceParked
    <3>3. /\ cur' \in [Threads -> Conns \union {NULL}]
          /\ \A u \in Threads : getter'[u] = "advance" => cur'[u] # NULL
          /\ again' \in [Threads -> BOOLEAN]
      BY <2>6, <3>1 DEF AdvanceParked
    <3> QED BY <2>6, <3>2, <3>3 DEF AdvanceParked
  <2>7. CASE AllAnswered(t) BY <2>7 DEF AllAnswered
  <2>8. CASE DrainItem(t) BY <2>8 DEF DrainItem
  <2>9. CASE DeleteItem(t) BY <2>9 DEF DeleteItem
  <2>10. CASE FreeItem(t)
    <3>1. item[t] \in Items
      BY <2>10 DEF FreeItem
    <3>2. GetterGoes(t, "drain", item[t], NULL, FALSE) \/ GetterGoes(t, "idle", NULL, NULL, FALSE)
      BY <2>10 DEF FreeItem
    <3>3. /\ getter' \in [Threads -> GetterPcs]
          /\ item' \in [Threads -> Items \union {NULL}]
          /\ \A u \in Threads : item'[u] = NULL <=> getter'[u] = "idle"
      <4>1. CASE GetterGoes(t, "drain", item[t], NULL, FALSE)
        BY <3>1, <4>1
      <4>2. CASE GetterGoes(t, "idle", NULL, NULL, FALSE)
        BY <4>2
      <4> QED BY <3>2, <4>1, <4>2
    <3>4. /\ cur' \in [Threads -> Conns \union {NULL}]
          /\ \A u \in Threads : getter'[u] = "advance" => cur'[u] # NULL
          /\ again' \in [Threads -> BOOLEAN]
      <4>1. \E x \in {"drain", "idle"}, i \in {item[t], NULL} : GetterGoes(t, x, i, NULL, FALSE)
        BY <3>2
      <4>2. cur' \in [Threads -> Conns \union {NULL}]
        BY <4>1
      <4>3. \A u \in Threads : getter'[u] = "advance" => cur'[u] # NULL
        BY <4>1
      <4>4. again' \in [Threads -> BOOLEAN]
        BY <4>1
      <4> QED BY <4>2, <4>3, <4>4
    <3>5. item_head' \in Items \union {NULL} /\ mm_next' \in [Items -> Items \union {NULL}]
          /\ curr_items' \in Int
      BY <2>10, <3>1 DEF FreeItem, PoolGets
    <3> QED BY <2>10, <3>3, <3>4, <3>5 DEF FreeItem
  <2> QED
    BY <1>7, <2>1, <2>2, <2>3, <2>4, <2>5, <2>6, <2>7, <2>8, <2>9, <2>10
    DEF GetterStep, Upstream, HandOver, Teardown
<1>8. ASSUME NEW c \in Conns, ClientStep(c)
      PROVE  TypeOK'
  BY <1>8 DEF ClientStep, Accept, StreamingEnds
<1>9. CASE UNCHANGED vars
  BY <1>9 DEF vars
<1> QED
  BY <1>1, <1>2, <1>3, <1>4, <1>5, <1>6, <1>7, <1>8, <1>9
  DEF Next, MainThread, MainStep

(* Every variable of the stream life cycle keeps its type.                 *)
THEOREM TypeCorrect == Spec => []TypeOK
<1>1. Init => TypeOK BY InitTypeOK
<1>2. TypeOK /\ [Next]_vars => TypeOK' BY StepTypeOK
<1> QED BY <1>1, <1>2, PTL DEF Spec

-----------------------------------------------------------------------------
(* Ownership.  Everything below is about streams whose reads are never     *)
(* short: a getter then destroys its item once.                            *)

(* A getter destroys its item once, not twice.                             *)
OnceOnly == \A t \in Threads : again[t] = FALSE

FreeCells == Items \ InUse

(* The pool's list is exactly as long as there are cells to hold, and      *)
(* holds just these: PoolHoldsTheRest with the length named.               *)
PoolIsFreeCells ==
  \E cell \in [1 .. Cardinality(FreeCells) -> Items] :
    /\ PoolListIs(Cardinality(FreeCells), cell)
    /\ {cell[i] : i \in 1 .. Cardinality(FreeCells)} = FreeCells

OwnerInv == TypeOK /\ OnceOnly /\ OneOwner /\ PoolIsFreeCells

(* Whatever a getter does short of giving its item back leaves the pool,   *)
(* the main thread and every getter's item alone.                          *)
LEMMA GetterKeepsItem ==
  ASSUME TypeOK, MaxShortReads = 0, NEW t \in Threads, GetterStep(t), ~ FreeItem(t)
  PROVE  /\ UNCHANGED <<poolVars, mainVars, key, request, item, again>>
         /\ \A u \in Threads \ {t} : getter'[u] = getter[u]
         /\ Serving(t) /\ getter'[t] \in GetterPcs \ {"idle"}
         /\ \/ UNCHANGED registered /\ Serving(t)'
            \/ /\ getter[t] = "delete" /\ getter'[t] = "free"
               /\ \E it \in Match(key[item[t]]) : registered' = registered \ {it}
<1> USE DEF TypeOK, poolVars, itemVars, connVars, mainVars, getterVars,
            GetterGoes, GetterMoves, GetterPcs, Serving
<1>1. CASE Connected(t) BY <1>1 DEF Connected
<1>2. CASE StreamEnds(t) BY <1>2 DEF StreamEnds
<1>3. CASE ShortRead(t) BY <1>3 DEF ShortRead
<1>4. CASE Publish(t) BY <1>4 DEF Publish
<1>5. CASE AnswerParked(t) BY <1>5 DEF AnswerParked
<1>6. CASE AdvanceParked(t) BY <1>6 DEF AdvanceParked
<1>7. CASE AllAnswered(t) BY <1>7 DEF AllAnswered
<1>8. CASE DrainItem(t) BY <1>8 DEF DrainItem
<1>9. CASE DeleteItem(t) BY <1>9 DEF DeleteItem
<1> QED
  BY <1>1, <1>2, <1>3, <1>4, <1>5, <1>6, <1>7, <1>8, <1>9
  DEF GetterStep, Upstream, HandOver, Teardown

(* What a getter that gives its item back does.                            *)
LEMMA FreeItemEffect ==
  ASSUME TypeOK, OnceOnly, NEW t \in Threads, FreeItem(t)
  PROVE  /\ UNCHANGED <<mainVars, key, request, registered>>
         /\ getter[t] = "free" /\ item[t] \in Items /\ PoolGets(item[t])
         /\ getter'[t] = "idle" /\ item'[t] = NULL /\ again'[t] = FALSE
         /\ \A u \in Threads \ {t} :
              getter'[u] = getter[u] /\ item'[u] = item[u] /\ again'[u] = again[u]
  BY DEF TypeOK, OnceOnly, FreeItem, GetterGoes, itemVars, connVars, mainVars

(* Two threads never own one cell: malloc_item hands out a cell of the     *)
(* pool, which nobody has, and a getter keeps its cell to the end.         *)
LEMMA OneOwnerStep ==
  ASSUME OwnerInv, MaxShortReads = 0, [Next]_vars
  PROVE  OnceOnly' /\ OneOwner'
<1> USE DEF OwnerInv, TypeOK, OnceOnly, OneOwner, Live, poolVars, itemVars, connVars,
            mainVars, getterVars, MainGoes, MainReturns, GetterGoes
<1> USE LifecycleAssumption
<1>1. ASSUME NEW c \in Conns, NEW kind \in Kinds, NEW k \in Keys, FindItem(c, kind, k)
      PROVE  OnceOnly' /\ OneOwner'
  BY <1>1 DEF FindItem
<1>2. CASE MallocItem
  <2>1. CASE item_head = NULL /\ MainReturns
    BY <1>2, <2>1 DEF MallocItem
  <2>2. ASSUME NEW it \in Items, PoolTakes(it), MainGoes("init", main_conn, it)
        PROVE  OnceOnly' /\ OneOwner'
    <3>1. it \in FreeCells
      <4>1. PICK cell \in [1 .. Cardinality(FreeCells) -> Items] :
              /\ PoolListIs(Cardinality(FreeCells), cell)
              /\ {cell[i] : i \in 1 .. Cardinality(FreeCells)} = FreeCells
        BY DEF PoolIsFreeCells
      <4>2. Cardinality(FreeCells) \in Nat
        BY FS_Subset, FS_CardinalityType DEF FreeCells
      <4>3. item_head = it /\ it # NULL
        BY <2>2 DEF PoolTakes
      <4>4. Cardinality(FreeCells) # 0 /\ it = cell[1]
        BY <4>1, <4>3 DEF PoolListIs
      <4>5. 1 \in 1 .. Cardinality(FreeCells)
        BY <4>2, <4>4
      <4> QED BY <4>1, <4>4, <4>5
    <3>2. \A t \in Threads : Live(t) => item[t] # it
      BY <3>1 DEF FreeCells, InUse
    <3> QED BY <1>2, <2>2, <3>2 DEF MallocItem
  <2> QED BY <1>2, <2>1, <2>2 DEF MallocItem
<1>3. CASE InitItem
  <2>1. PICK t \in Threads : getter[t] = "idle" /\ GetterGoes(t, "connect", main_item, NULL, FALSE)
    BY <1>3 DEF InitItem
  <2>2. \A u \in Threads : Live(u) => item[u] # main_item
    BY <1>3 DEF InitItem
  <2>3. \A u \in Threads \ {t} : getter'[u] = getter[u] /\ item'[u] = item[u] /\ again'[u] = again[u]
    BY <2>1
  <2>4. getter'[t] = "connect" /\ item'[t] = main_item /\ again'[t] = FALSE
    BY <2>1
  <2>5. main_pc' = "insert"
    BY <1>3 DEF InitItem
  <2>6. \A u \in Threads : again'[u] = FALSE
    BY <2>3, <2>4
  <2>7. ASSUME NEW u \in Threads, NEW v \in Threads, getter'[u] # "idle", getter'[v] # "idle",
               item'[u] = item'[v]
        PROVE  u = v
    <3>1. CASE u # t /\ v # t
      BY <2>3, <2>7, <3>1
    <3>2. CASE u = t \/ v = t
      BY <2>2, <2>3, <2>4, <2>7, <3>2
    <3> QED BY <3>1, <3>2
  <2> QED BY <2>5, <2>6, <2>7
<1>4. CASE InitItemFails
  BY <1>4 DEF InitItemFails
<1>5. CASE InsertItem
  BY <1>5 DEF InsertItem
<1>6. CASE GenerateResponse
  BY <1>6 DEF GenerateResponse
<1>7. ASSUME NEW t \in Threads, GetterStep(t)
      PROVE  OnceOnly' /\ OneOwner'
  <2>1. CASE FreeItem(t)
    <3>1. UNCHANGED mainVars /\ getter'[t] = "idle" /\ again'[t] = FALSE
      BY <2>1, FreeItemEffect
    <3>2. \A u \in Threads \ {t} :
            getter'[u] = getter[u] /\ item'[u] = item[u] /\ again'[u] = again[u]
      BY <2>1, FreeItemEffect
    <3>3. \A u \in Threads : again'[u] = FALSE
      BY <3>1, <3>2
    <3>4. \A u, v \in Threads : getter'[u] # "idle" /\ getter'[v] # "idle" /\ item'[u] = item'[v]
            => u = v
      BY <3>1, <3>2
    <3>5. main_pc' = "init" => \A u \in Threads : getter'[u] # "idle" => item'[u] # main_item'
      BY <3>1, <3>2
    <3> QED BY <3>3, <3>4, <3>5
  <2>2. CASE ~ FreeItem(t)
    BY <1>7, <2>2, GetterKeepsItem DEF Serving, GetterPcs
  <2> QED BY <2>1, <2>2
<1>8. ASSUME NEW c \in Conns, ClientStep(c)
      PROVE  OnceOnly' /\ OneOwner'
  BY <1>8 DEF ClientStep, Accept, StreamingEnds
<1>9. CASE UNCHANGED vars
  BY <1>9 DEF vars
<1> QED
  BY <1>1, <1>2, <1>3, <1>4, <1>5, <1>6, <1>7, <1>8, <1>9
  DEF Next, MainThread, MainStep

(* The only ways the pool changes: malloc_item takes a cell that was free, *)
(* free_item gives back a cell that was in use.                            *)
LEMMA PoolChanges ==
  ASSUME OwnerInv, MaxShortReads = 0, [Next]_vars
  PROVE  \/ UNCHANGED poolVars /\ InUse' = InUse
         \/ \E it \in FreeCells : PoolTakes(it) /\ InUse' = InUse \union {it}
         \/ \E it \in InUse : PoolGets(it) /\ InUse' = InUse \ {it}
<1> USE DEF OwnerInv, TypeOK, OnceOnly, OneOwner, Live, InUse, poolVars, itemVars, connVars,
            mainVars, getterVars, MainGoes, MainReturns, GetterGoes
<1> USE LifecycleAssumption
<1> DEFINE Kept == UNCHANGED poolVars /\ InUse' = InUse
           Taken == \E it \in FreeCells : PoolTakes(it) /\ InUse' = InUse \union {it}
           Given == \E it \in InUse : PoolGets(it) /\ InUse' = InUse \ {it}
<1>1. ASSUME NEW c \in Conns, NEW kind \in Kinds, NEW k \in Keys, FindItem(c, kind, k)
      PROVE  Kept
  BY <1>1 DEF FindItem
<1>2. CASE MallocItem
  <2>1. CASE item_head = NULL /\ MainReturns /\ UNCHANGED poolVars
    BY <1>2, <2>1 DEF MallocItem
  <2>2. ASSUME NEW it \in Items, PoolTakes(it), MainGoes("init", main_conn, it)
        PROVE  Taken
    <3>1. OneOwner' /\ UNCHANGED <<getter, item>>
      BY <1>2, OneOwnerStep DEF MallocItem
    <3>2. InUse' = InUse \union {it}
      BY <1>2, <2>2, <3>1 DEF MallocItem
    <3>3. it \in FreeCells
      BY <1>2, <2>2, <3>1 DEF MallocItem, FreeCells
    <3> QED BY <2>2, <3>2, <3>3
  <2> QED BY <1>2, <2>1, <2>2 DEF MallocItem
<1>3. CASE InitItem
  <2>1. PICK t \in Threads : getter[t] = "idle" /\ GetterGoes(t, "connect", main_item, NULL, FALSE)
    BY <1>3 DEF InitItem
  <2>2. \A u \in Threads \ {t} : getter'[u] = getter[u] /\ item'[u] = item[u]
    BY <2>1
  <2>3. getter'[t] = "connect" /\ item'[t] = main_item
    BY <2>1
  <2>4. InUse' = InUse
    BY <1>3, <2>1, <2>2, <2>3 DEF InitItem
  <2> QED BY <1>3, <2>4 DEF InitItem
<1>4. CASE InitItemFails
  <2>1. main_item \in InUse /\ main_item \in Items
    BY <1>4 DEF InitItemFails
  <2>2. InUse' = InUse \ {main_item}
    BY <1>4 DEF InitItemFails
  <2> QED BY <1>4, <2>1, <2>2 DEF InitItemFails
<1>5. CASE InsertItem
  BY <1>5 DEF InsertItem
<1>6. CASE GenerateResponse
  BY <1>6 DEF GenerateResponse
<1>7. ASSUME NEW t \in Threads, GetterStep(t)
      PROVE  Kept \/ Given
  <2>1. CASE FreeItem(t)
    <3>1. item[t] \in InUse /\ PoolGets(item[t]) /\ getter[t] = "free"
      BY <2>1, FreeItemEffect
    <3>2. UNCHANGED mainVars /\ getter'[t] = "idle"
          /\ \A u \in Threads \ {t} : getter'[u] = getter[u] /\ item'[u] = item[u]
      BY <2>1, FreeItemEffect
    <3>3. \A u \in Threads \ {t} : getter[u] # "idle" => item[u] # item[t]
      BY <3>1
    <3>4. main_pc = "init" => main_item # item[t]
      BY <3>1
    <3>5. InUse' = InUse \ {item[t]}
      BY <3>1, <3>2, <3>3, <3>4
    <3> QED BY <3>1, <3>5
  <2>2. CASE ~ FreeItem(t)
    <3>1. UNCHANGED <<poolVars, mainVars, item>> /\ \A u \in Threads : Live(u)' = Live(u)
      BY <1>7, <2>2, GetterKeepsItem DEF Serving, GetterPcs
    <3> QED BY <3>1
  <2> QED BY <2>1, <2>2
<1>8. ASSUME NEW c \in Conns, ClientStep(c)
      PROVE  Kept
  BY <1>8 DEF ClientStep, Accept, StreamingEnds
<1>9. CASE UNCHANGED vars
  BY <1>9 DEF vars
<1> QED
  BY <1>1, <1>2, <1>3, <1>4, <1>5, <1>6, <1>7, <1>8, <1>9
  DEF Next, MainThread, MainStep

(* The list follows the set: taking the first cell and putting one in      *)
(* front keep the list without repetitions, and ending.                    *)
LEMMA PoolStep ==
  ASSUME OwnerInv, MaxShortReads = 0, [Next]_vars
  PROVE  PoolIsFreeCells'
<1>0. IsFiniteSet(FreeCells) /\ Cardinality(FreeCells) \in Nat /\ FreeCells \subseteq Items
  BY LifecycleAssumption, FS_Subset, FS_CardinalityType DEF FreeCells
<1>1. PICK n \in Nat : n = Cardinality(FreeCells)
  BY <1>0
<1>2. PICK cell \in [1 .. n -> Items] :
        PoolListIs(n, cell) /\ {cell[i] : i \in 1 .. n} = FreeCells
  BY <1>1 DEF OwnerInv, PoolIsFreeCells
<1>3. NULL \notin Items /\ mm_next \in [Items -> Items \union {NULL}]
  BY LifecycleAssumption DEF OwnerInv, TypeOK
<1>4. CASE UNCHANGED poolVars /\ InUse' = InUse
  <2>1. FreeCells' = FreeCells
    BY <1>4 DEF FreeCells
  <2>2. PoolListIs(n, cell)'
    BY <1>2, <1>4 DEF PoolListIs, poolVars
  <2> QED BY <1>1, <1>2, <2>1, <2>2 DEF PoolIsFreeCells
<1>5. ASSUME NEW it \in FreeCells, PoolTakes(it), InUse' = InUse \union {it}
      PROVE  PoolIsFreeCells'
  <2>1. FreeCells' = FreeCells \ {it} /\ Cardinality(FreeCells') = n - 1
    <3>1. FreeCells' = FreeCells \ {it}
      BY <1>5 DEF FreeCells
    <3>2. Cardinality(FreeCells \ {it}) = n - 1
      BY <1>0, <1>1, <1>5, FS_RemoveElement
    <3> QED BY <3>1, <3>2
  <2>2. n # 0 /\ it = cell[1]
    BY <1>1, <1>2, <1>3, <1>5 DEF PoolListIs, PoolTakes
  <2> DEFINE rest == [i \in 1 .. n - 1 |-> cell[i + 1]]
  <2>3. rest \in [1 .. n - 1 -> Items]
    BY <1>1, <1>2
  <2>4. \A i \in 1 .. n - 1 : i + 1 \in 1 .. n /\ rest[i] = cell[i + 1]
    BY <1>1
  <2>5. \A i, j \in 1 .. n - 1 : rest[i] = rest[j] => i = j
    BY <1>1, <1>2, <2>4 DEF PoolListIs
  <2>6. item_head' = IF n - 1 = 0 THEN NULL ELSE rest[1]
    BY <1>1, <1>2, <1>5, <2>2 DEF PoolListIs, PoolTakes
  <2>7. \A i \in 1 .. n - 1 : mm_next'[rest[i]] = IF i = n - 1 THEN NULL ELSE rest[i + 1]
    <3> TAKE i \in 1 .. n - 1
    <3>1. rest[i] # it /\ rest[i] \in Items
      BY <1>1, <1>2, <2>2, <2>3, <2>4 DEF PoolListIs
    <3>2. mm_next'[rest[i]] = mm_next[cell[i + 1]]
      BY <1>3, <1>5, <2>4, <3>1 DEF PoolTakes
    <3>3. mm_next[cell[i + 1]] = IF i + 1 = n THEN NULL ELSE cell[i + 1 + 1]
      BY <1>1, <1>2, <2>4 DEF PoolListIs
    <3> QED BY <1>1, <3>2, <3>3
  <2>8. {rest[i] : i \in 1 .. n - 1} = FreeCells \ {it}
    <3>1. ASSUME NEW i \in 1 .. n - 1 PROVE rest[i] \in FreeCells \ {it}
      BY <1>1, <1>2, <2>2, <2>4 DEF PoolListIs
    <3>2. ASSUME NEW f \in FreeCells \ {it} PROVE \E i \in 1 .. n - 1 : rest[i] = f
      <4>1. PICK j \in 1 .. n : cell[j] = f
        BY <1>2
      <4>2. j - 1 \in 1 .. n - 1 /\ rest[j - 1] = f
        BY <1>1, <2>2, <4>1
      <4> QED BY <4>2
    <3> QED BY <3>1, <3>2
  <2>9. PoolListIs(n - 1, rest)'
    BY <2>5, <2>6, <2>7 DEF PoolListIs
  <2> QED BY <2>1, <2>3, <2>8, <2>9 DEF PoolIsFreeCells
<1>6. ASSUME NEW it \in InUse, PoolGets(it), InUse' = InUse \ {it}
      PROVE  PoolIsFreeCells'
  <2>1. it \in Items /\ it \notin FreeCells
    BY <1>6 DEF InUse, FreeCells
  <2>2. FreeCells' = FreeCells \union {it} /\ Cardinality(FreeCells') = n + 1
    <3>1. FreeCells' = FreeCells \union {it}
      BY <1>6, <2>1 DEF FreeCells
    <3>2. Cardinality(FreeCells \union {it}) = n + 1
      BY <1>0, <1>1, <2>1, FS_AddElement
    <3> QED BY <3>1, <3>2
  <2> DEFINE more == [i \in 1 .. n + 1 |-> IF i = 1 THEN it ELSE cell[i - 1]]
  <2>3. more \in [1 .. n + 1 -> Items]
    BY <1>1, <1>2, <2>1
  <2>4. more[1] = it /\ \A i \in 1 .. n + 1 : i # 1 => i - 1 \in 1 .. n /\ more[i] = cell[i - 1]
    BY <1>1
  <2>5. \A i \in 1 .. n : cell[i] # it /\ cell[i] \in Items
    BY <1>2, <2>1
  <2>6. \A i, j \in 1 .. n + 1 : more[i] = more[j] => i = j
    <3> TAKE i, j \in 1 .. n + 1
    <3>1. CASE i = 1 \/ j = 1
      BY <2>4, <2>5, <3>1
    <3>2. CASE i # 1 /\ j # 1
      <4>1. \A a, b \in 1 .. n : cell[a] = cell[b] => a = b
        BY <1>2 DEF PoolListIs
      <4>2. more[i] = more[j] => i - 1 = j - 1
        BY <2>4, <3>2, <4>1
      <4> QED BY <4>2, <1>1
    <3> QED BY <3>1, <3>2
  <2>7. item_head' = IF n + 1 = 0 THEN NULL ELSE more[1]
    BY <1>1, <1>6, <2>4 DEF PoolGets
  <2>8. \A i \in 1 .. n + 1 : mm_next'[more[i]] = IF i = n + 1 THEN NULL ELSE more[i + 1]
    <3> TAKE i \in 1 .. n + 1
    <3>1. CASE i = 1
      <4>1. mm_next'[it] = item_head
        BY <1>3, <1>6, <2>1 DEF PoolGets
      <4>2. item_head = IF n = 0 THEN NULL ELSE cell[1]
        BY <1>2 DEF PoolListIs
      <4>3. n # 0 => more[2] = cell[1]
        BY <1>1
      <4> QED BY <1>1, <2>4, <3>1, <4>1, <4>2, <4>3
    <3>2. CASE i # 1
      <4>1. i - 1 \in 1 .. n /\ more[i] = cell[i - 1]
        BY <2>4, <3>2
      <4>2. mm_next'[more[i]] = mm_next[cell[i - 1]]
        BY <1>3, <1>6, <2>5, <4>1 DEF PoolGets
      <4>3. mm_next[cell[i - 1]] = IF i - 1 = n THEN NULL ELSE cell[i - 1 + 1]
        BY <1>2, <4>1 DEF PoolListIs
      <4>4. i # n + 1 => more[i + 1] = cell[i]
        BY <1>1, <2>4, <3>2
      <4>5. i - 1 = n <=> i = n + 1
        BY <1>1
      <4>6. i - 1 + 1 = i
        BY <1>1
      <4> QED BY <4>2, <4>3, <4>4, <4>5, <4>6
    <3> QED BY <3>1, <3>2
  <2>9. {more[i] : i \in 1 .. n + 1} = FreeCells \union {it}
    <3>1. ASSUME NEW i \in 1 .. n + 1 PROVE more[i] \in FreeCells \union {it}
      BY <1>2, <2>4
    <3>2. ASSUME NEW f \in FreeCells \union {it} PROVE \E i \in 1 .. n + 1 : more[i] = f
      <4>1. CASE f = it
        BY <1>1, <2>4, <4>1
      <4>2. CASE f # it
        <5>1. PICK j \in 1 .. n : cell[j] = f
          BY <1>2, <4>2
        <5>2. j + 1 \in 1 .. n + 1 /\ more[j + 1] = f
          BY <1>1, <5>1
        <5> QED BY <5>2
      <4> QED BY <4>1, <4>2
    <3> QED BY <3>1, <3>2
  <2>10. PoolListIs(n + 1, more)'
    BY <2>6, <2>7, <2>8 DEF PoolListIs
  <2> QED BY <2>2, <2>3, <2>9, <2>10 DEF PoolIsFreeCells
<1> QED
  BY <1>4, <1>5, <1>6, PoolChanges

(* item_mm_init links every cell into the pool and nobody owns one.        *)
LEMMA InitOwner == Init => OwnerInv
<1> SUFFICES ASSUME Init PROVE OwnerInv
  OBVIOUS
<1>1. TypeOK
  BY InitTypeOK
<1>2. OnceOnly /\ OneOwner /\ InUse = {} /\ FreeCells = Items
  BY DEF Init, OnceOnly, OneOwner, InUse, FreeCells, Live
<1>3. PICK n \in Nat : n = Cardinality(Items)
  BY LifecycleAssumption, FS_CardinalityType
<1>4. PICK order \in [1 .. n -> Items] :
        /\ \A i, j \in DOMAIN order : order[i] = order[j] => i = j
        /\ \A it \in Items : \E i \in DOMAIN order : order[i] = it
        /\ item_head = IF Items = {} THEN NULL ELSE order[1]
        /\ mm_next = [it \in Items |->
             LET i == CHOOSE i \in DOMAIN order : order[i] = it
             IN  IF i + 1 \in DOMAIN order THEN order[i + 1] ELSE NULL]
  BY <1>3 DEF Init
<1>5. n = 0 <=> Items = {}
  BY <1>3, LifecycleAssumption, FS_EmptySet
<1>6. \A i \in 1 .. n : mm_next[order[i]] = IF i = n THEN NULL ELSE order[i + 1]
  <2> TAKE i \in 1 .. n
  <2>1. (CHOOSE j \in DOMAIN order : order[j] = order[i]) = i
    BY <1>4
  <2>2. mm_next[order[i]] = IF i + 1 \in DOMAIN order THEN order[i + 1] ELSE NULL
    BY <1>4, <2>1
  <2> QED BY <1>3, <1>4, <2>2
<1>7. PoolListIs(n, order)
  BY <1>4, <1>5, <1>6 DEF PoolListIs
<1>8. {order[i] : i \in 1 .. n} = Items
  BY <1>4
<1> QED
  BY <1>1, <1>2, <1>3, <1>7, <1>8 DEF OwnerInv, PoolIsFreeCells

(* The parts of the invariant together are kept by every step. *)
LEMMA OwnerStep == MaxShortReads = 0 /\ OwnerInv /\ [Next]_vars => OwnerInv'
  BY StepTypeOK, OneOwnerStep, PoolStep DEF OwnerInv

(* With no short read the pool, the main thread and the getters never      *)
(* disagree about who has a cell.                                          *)
THEOREM OwnerCorrect == MaxShortReads = 0 => (Spec => []OwnerInv)
<1> SUFFICES ASSUME MaxShortReads = 0 PROVE Spec => []OwnerInv
  OBVIOUS
<1>1. Init => OwnerInv BY InitOwner
<1>2. OwnerInv /\ [Next]_vars => OwnerInv' BY OwnerStep
<1> QED BY <1>1, <1>2, PTL DEF Spec

(* A cell has one owner: the getter that serves it, or the main thread     *)
(* about to start one (rtoh.c:560-566, thread.c:116-152).                  *)
THEOREM OneOwnerCorrect == MaxShortReads = 0 => (Spec => []OneOwner)
<1>1. OwnerInv => OneOwner BY DEF OwnerInv
<1> QED BY <1>1, OwnerCorrect, PTL

(* The list of the pool holds each cell that is not in use exactly once.   *)
THEOREM PoolCorrect == MaxShortReads = 0 => (Spec => []PoolHoldsTheRest)
<1>1. OwnerInv => PoolHoldsTheRest
  <2> SUFFICES ASSUME OwnerInv PROVE PoolHoldsTheRest
    OBVIOUS
  <2>1. Cardinality(Items \ InUse) \in 0 .. Cardinality(Items)
    BY LifecycleAssumption, FS_Subset, FS_CardinalityType
  <2> QED BY <2>1 DEF OwnerInv, PoolIsFreeCells, PoolHoldsTheRest, FreeCells
<1> QED BY <1>1, OwnerCorrect, PTL

(* stats.curr_items counts the cells that are out, whatever fails on the   *)
(* way (thread.c:130-132, 146-148).                                        *)
THEOREM CurrItemsCorrect == MaxShortReads = 0 => (Spec => []CurrItemsCounts)
<1> SUFFICES ASSUME MaxShortReads = 0 PROVE Spec => []CurrItemsCounts
  OBVIOUS
<1>1. Init => CurrItemsCounts
  <2> SUFFICES ASSUME Init PROVE CurrItemsCounts
    OBVIOUS
  <2>1. InUse = {} /\ curr_items = 0
    BY DEF Init, InUse, Live
  <2> QED BY <2>1, FS_EmptySet DEF CurrItemsCounts
<1>2. OwnerInv /\ CurrItemsCounts /\ [Next]_vars => CurrItemsCounts'
  <2> SUFFICES ASSUME OwnerInv, CurrItemsCounts, [Next]_vars PROVE CurrItemsCounts'
    OBVIOUS
  <2>1. IsFiniteSet(InUse) /\ Cardinality(InUse) \in Nat
    <3>1. InUse \in SUBSET Items
      BY DEF InUse
    <3> QED BY <3>1, LifecycleAssumption, FS_Subset, FS_CardinalityType
  <2>2. CASE UNCHANGED poolVars /\ InUse' = InUse
    BY <2>2 DEF CurrItemsCounts, poolVars
  <2>3. ASSUME NEW it \in FreeCells, PoolTakes(it), InUse' = InUse \union {it}
        PROVE  CurrItemsCounts'
    <3>1. Cardinality(InUse \union {it}) = Cardinality(InUse) + 1
      BY <2>1, <2>3, FS_AddElement DEF FreeCells
    <3> QED BY <2>1, <2>3, <3>1 DEF CurrItemsCounts, PoolTakes
  <2>4. ASSUME NEW it \in InUse, PoolGets(it), InUse' = InUse \ {it}
        PROVE  CurrItemsCounts'
    <3>1. Cardinality(InUse \ {it}) = Cardinality(InUse) - 1
      BY <2>1, <2>4, FS_RemoveElement
    <3> QED BY <2>1, <2>4, <3>1 DEF CurrItemsCounts, PoolGets
  <2> QED BY <2>2, <2>3, <2>4, PoolChanges
<1> QED BY <1>1, <1>2, OwnerCorrect, PTL DEF Spec

-----------------------------------------------------------------------------
(* The registry. *)

(* While the main thread creates an item nobody else brings its stream in: *)
(* the miss it saw stays a miss.                                           *)
MissStaysMiss ==
  main_pc \in {"malloc", "init", "insert"} => Match(request[main_conn].key) = {}

(* What it is about to insert has a getter, and is not registered yet.     *)
InsertIsServed ==
  main_pc = "insert" =>
    /\ key[main_item] = request[main_conn].key
    /\ main_item \notin registered
    /\ \E t \in Threads : Serving(t) /\ item[t] = main_item

(* A getter that has not deregistered its item serves one that is in the   *)
(* registry or about to be.                                                *)
ServedIsRegistered ==
  \A t \in Threads : Serving(t) =>
    item[t] \in registered \/ (main_pc = "insert" /\ main_item = item[t])

RegisteredKeysDiffer ==
  \A it1, it2 \in registered : key[it1] = key[it2] => it1 = it2

RegistryInv ==
  /\ OwnerInv
  /\ RegisteredHasGetter
  /\ MissStaysMiss
  /\ InsertIsServed
  /\ ServedIsRegistered
  /\ RegisteredKeysDiffer
  /\ InsertKeyIsNew

(* A getter that deregisters finds its own item under its key, or nothing. *)
LEMMA DeletesOwn ==
  ASSUME RegistryInv, NEW t \in Threads, Serving(t), NEW it \in Match(key[item[t]])
  PROVE  it = item[t]
<1>1. CASE item[t] \in registered
  BY <1>1 DEF RegistryInv, RegisteredKeysDiffer, Match
<1>2. CASE main_pc = "insert" /\ main_item = item[t]
  BY <1>2 DEF RegistryInv, MissStaysMiss, InsertIsServed
<1> QED
  BY <1>1, <1>2 DEF RegistryInv, ServedIsRegistered

(* A step of a getter keeps the registry and the getters in agreement.     *)
LEMMA GetterKeepsRegistry ==
  ASSUME RegistryInv, MaxShortReads = 0, NEW t \in Threads, GetterStep(t),
         UNCHANGED status \/ status' # "insert_assert"
  PROVE  /\ RegisteredHasGetter' /\ MissStaysMiss' /\ InsertIsServed'
         /\ ServedIsRegistered' /\ RegisteredKeysDiffer' /\ InsertKeyIsNew'
<1>0. InsertKeyIsNew'
  BY DEF RegistryInv, InsertKeyIsNew
<1>1. CASE FreeItem(t)
  <2>1. /\ UNCHANGED <<mainVars, key, request, registered>>
        /\ getter[t] = "free" /\ getter'[t] = "idle"
        /\ \A u \in Threads \ {t} : getter'[u] = getter[u] /\ item'[u] = item[u]
    BY <1>1, FreeItemEffect DEF RegistryInv, OwnerInv
  <2>2. ~ Serving(t) /\ ~ Serving(t)'
    BY <2>1 DEF Serving
  <2>3. \A u \in Threads : (Serving(u)' <=> Serving(u)) /\ (Serving(u) => item'[u] = item[u])
    BY <2>1, <2>2 DEF Serving
  <2> QED
    BY <1>0, <2>1, <2>3
    DEF RegistryInv, RegisteredHasGetter, MissStaysMiss, InsertIsServed,
        ServedIsRegistered, RegisteredKeysDiffer, Match, mainVars
<1>2. CASE ~ FreeItem(t)
  <2>1. /\ UNCHANGED <<mainVars, key, request, item>>
        /\ \A u \in Threads \ {t} : getter'[u] = getter[u]
        /\ Serving(t)
        /\ \/ UNCHANGED registered /\ Serving(t)'
           \/ /\ getter[t] = "delete" /\ getter'[t] = "free"
              /\ \E it \in Match(key[item[t]]) : registered' = registered \ {it}
    BY <1>2, GetterKeepsItem DEF RegistryInv, OwnerInv
  <2>2. CASE UNCHANGED registered /\ Serving(t)'
    <3>1. \A u \in Threads : Serving(u)' <=> Serving(u)
      BY <2>1, <2>2 DEF Serving
    <3> QED
      BY <1>0, <2>1, <2>2, <3>1
      DEF RegistryInv, RegisteredHasGetter, MissStaysMiss, InsertIsServed,
          ServedIsRegistered, RegisteredKeysDiffer, Match, mainVars
  <2>3. CASE /\ getter[t] = "delete" /\ getter'[t] = "free"
             /\ \E it \in Match(key[item[t]]) : registered' = registered \ {it}
    <3>1. registered' = registered \ {item[t]} /\ item[t] \in registered
      BY <2>1, <2>3, DeletesOwn DEF Match
    <3>2. ~ Serving(t)' /\ \A u \in Threads \ {t} : Serving(u)' <=> Serving(u)
      BY <2>1, <2>3 DEF Serving
    <3>3. \A u \in Threads \ {t} : Serving(u) => item[u] # item[t]
      BY <2>1 DEF RegistryInv, OwnerInv, OneOwner, Serving, Live
    <3>4. RegisteredHasGetter'
      BY <2>1, <3>1, <3>2 DEF RegistryInv, RegisteredHasGetter
    <3>5. MissStaysMiss' /\ RegisteredKeysDiffer'
      BY <2>1, <3>1 DEF RegistryInv, MissStaysMiss, RegisteredKeysDiffer, Match, mainVars
    <3>6. InsertIsServed'
      BY <2>1, <3>1, <3>2 DEF RegistryInv, InsertIsServed, mainVars
    <3>7. ServedIsRegistered'
      BY <2>1, <3>1, <3>2, <3>3 DEF RegistryInv, ServedIsRegistered, mainVars
    <3> QED BY <1>0, <3>4, <3>5, <3>6, <3>7
  <2> QED BY <2>1, <2>2, <2>3
<1> QED BY <1>1, <1>2

(* A step of the main thread does too: the key it inserts is new.          *)
LEMMA MainKeepsRegistry ==
  ASSUME RegistryInv, MainThread
  PROVE  /\ RegisteredHasGetter' /\ MissStaysMiss' /\ InsertIsServed'
         /\ ServedIsRegistered' /\ RegisteredKeysDiffer' /\ InsertKeyIsNew'
<1> USE DEF RegistryInv, OwnerInv, poolVars, itemVars, connVars, mainVars, getterVars,
            MainGoes, MainReturns
<1> DEFINE Kept == /\ RegisteredHasGetter' /\ MissStaysMiss' /\ InsertIsServed'
                   /\ ServedIsRegistered' /\ RegisteredKeysDiffer' /\ InsertKeyIsNew'
<1>1. ASSUME NEW c \in Conns, NEW kind \in Kinds, NEW k \in Keys, FindItem(c, kind, k)
      PROVE  Kept
  <2>1. main_pc = "loop" /\ main_pc' # "insert"
        /\ UNCHANGED <<registered, key, getter, item, status>>
    BY <1>1 DEF FindItem
  <2>2. main_pc' \in {"malloc", "init", "insert"} => Match(request'[main_conn'].key) = {}
    <3>1. main_pc' \in {"malloc", "init", "insert"} => main_conn' = c /\ Match(k) = {}
      BY <1>1 DEF FindItem
    <3>2. request'[c].key = k
      BY <1>1 DEF FindItem, TypeOK
    <3> QED BY <3>1, <3>2
  <2> QED
    BY <2>1, <2>2
    DEF RegisteredHasGetter, MissStaysMiss, InsertIsServed, ServedIsRegistered,
        RegisteredKeysDiffer, InsertKeyIsNew, Match, Serving
<1>2. CASE MallocItem
  <2>1. main_pc = "malloc" /\ main_pc' \in {"init", "loop"}
        /\ (main_pc' = "init" => main_conn' = main_conn)
        /\ UNCHANGED <<registered, key, request, getter, item, status>>
    BY <1>2 DEF MallocItem
  <2> QED
    BY <2>1
    DEF RegisteredHasGetter, MissStaysMiss, InsertIsServed, ServedIsRegistered,
        RegisteredKeysDiffer, InsertKeyIsNew, Match, Serving
<1>3. ASSUME InitItem \/ InitItemFails
      PROVE  /\ main_item \in Items /\ main_item \notin registered
             /\ \A it \in registered : key'[it] = key[it]
             /\ key'[main_item] = request[main_conn].key
             /\ UNCHANGED <<registered, request, status>>
             /\ \A k : Match(k)' = Match(k)
  <2>1. main_pc = "init" /\ main_item \in Items
    BY <1>3 DEF InitItem, InitItemFails, TypeOK, MainPcs
  <2>2. main_item \notin registered
    BY <2>1 DEF OneOwner, RegisteredHasGetter, Serving, Live
  <2>3. /\ key' = [key EXCEPT ![main_item] = request[main_conn].key]
        /\ UNCHANGED <<registered, request, status>>
    BY <1>3 DEF InitItem, InitItemFails
  <2>4. /\ \A it \in registered : key'[it] = key[it]
        /\ key'[main_item] = request[main_conn].key
    BY <2>1, <2>2, <2>3 DEF TypeOK
  <2> QED BY <2>1, <2>2, <2>3, <2>4 DEF Match
<1>4. CASE InitItem
  <2>1. PICK t \in Threads : getter[t] = "idle" /\ GetterGoes(t, "connect", main_item, NULL, FALSE)
    BY <1>4 DEF InitItem
  <2>2. /\ getter'[t] = "connect" /\ item'[t] = main_item
        /\ \A u \in Threads \ {t} : getter'[u] = getter[u] /\ item'[u] = item[u]
    BY <2>1 DEF GetterGoes, TypeOK
  <2>3. Serving(t)' /\ ~ Serving(t) /\ \A u \in Threads \ {t} : Serving(u)' <=> Serving(u)
    BY <2>1, <2>2 DEF Serving, GetterPcs
  <2>4. main_pc = "init" /\ main_pc' = "insert" /\ main_conn' = main_conn /\ main_item' = main_item
    BY <1>4 DEF InitItem
  <2>5. RegisteredHasGetter'
    BY <1>3, <1>4, <2>2, <2>3 DEF RegisteredHasGetter
  <2>6. MissStaysMiss' /\ InsertIsServed'
    BY <1>3, <1>4, <2>2, <2>3, <2>4 DEF MissStaysMiss, InsertIsServed
  <2>7. ServedIsRegistered'
    BY <1>3, <1>4, <2>2, <2>3, <2>4 DEF ServedIsRegistered
  <2>8. RegisteredKeysDiffer' /\ InsertKeyIsNew'
    BY <1>3, <1>4 DEF RegisteredKeysDiffer, InsertKeyIsNew
  <2> QED BY <2>5, <2>6, <2>7, <2>8
<1>5. CASE InitItemFails
  <2>1. main_pc' = "loop" /\ main_pc = "init" /\ UNCHANGED <<getter, item>>
    BY <1>5 DEF InitItemFails
  <2> QED
    BY <1>3, <1>5, <2>1
    DEF RegisteredHasGetter, MissStaysMiss, InsertIsServed, ServedIsRegistered,
        RegisteredKeysDiffer, InsertKeyIsNew, Serving
<1>6. CASE InsertItem
  <2>1. main_pc = "insert" /\ UNCHANGED <<key, request, getter, item>>
    BY <1>6 DEF InsertItem
  <2>2. Match(key[main_item]) = {}
    BY <2>1 DEF MissStaysMiss, InsertIsServed
  <2>3. /\ registered' = registered \union {main_item} /\ UNCHANGED status
        /\ main_pc' = "generate"
    BY <1>6, <2>2 DEF InsertItem
  <2>4. main_item \in Items
    BY <2>1 DEF TypeOK, MainPcs
  <2>5. \A u \in Threads : Serving(u)' <=> Serving(u)
    BY <2>1 DEF Serving
  <2>6. RegisteredHasGetter'
    BY <2>1, <2>3, <2>5 DEF RegisteredHasGetter, InsertIsServed
  <2>7. MissStaysMiss' /\ InsertIsServed' /\ InsertKeyIsNew'
    BY <2>3 DEF MissStaysMiss, InsertIsServed, InsertKeyIsNew
  <2>8. ServedIsRegistered'
    BY <2>1, <2>3, <2>5 DEF ServedIsRegistered
  <2>9. RegisteredKeysDiffer'
    BY <2>1, <2>2, <2>3 DEF RegisteredKeysDiffer, Match
  <2> QED BY <2>6, <2>7, <2>8, <2>9
<1>7. CASE GenerateResponse
  <2>1. main_pc = "generate" /\ main_pc' = "loop"
        /\ UNCHANGED <<registered, key, request, getter, item, status>>
    BY <1>7 DEF GenerateResponse
  <2> QED
    BY <2>1
    DEF RegisteredHasGetter, MissStaysMiss, InsertIsServed, ServedIsRegistered,
        RegisteredKeysDiffer, InsertKeyIsNew, Match, Serving
<1> HIDE DEF RegistryInv, OwnerInv
<1>8. CASE MainStep
  BY <1>2, <1>4, <1>5, <1>6, <1>7, <1>8 DEF MainStep
<1> QED
  BY <1>1, <1>8 DEF MainThread

(* Nothing is registered at the start. *)
LEMMA InitRegistry == Init => RegistryInv
<1> SUFFICES ASSUME Init PROVE RegistryInv
  OBVIOUS
<1>1. registered = {} /\ main_pc = "loop" /\ status = "up"
      /\ \A t \in Threads : getter[t] = "idle"
  BY DEF Init
<1> QED
  BY <1>1, InitOwner
  DEF RegistryInv, RegisteredHasGetter, MissStaysMiss, InsertIsServed,
      ServedIsRegistered, RegisteredKeysDiffer, InsertKeyIsNew, Serving

(* Every step of every thread keeps the registry and the getters in        *)
(* agreement.                                                              *)
LEMMA RegistryStep == MaxShortReads = 0 /\ RegistryInv /\ [Next]_vars => RegistryInv'
<1> SUFFICES ASSUME MaxShortReads = 0, RegistryInv, [Next]_vars PROVE RegistryInv'
  OBVIOUS
<1>1. OwnerInv'
  BY OwnerStep DEF RegistryInv
<1>2. CASE MainThread
  BY <1>1, <1>2, MainKeepsRegistry DEF RegistryInv
<1>3. ASSUME NEW t \in Threads, GetterStep(t)
      PROVE  RegistryInv'
  <2>1. UNCHANGED status \/ status' # "insert_assert"
    BY <1>3 DEF GetterStep, Upstream, HandOver, Teardown, Connected, StreamEnds, ShortRead,
                Publish, AnswerParked, AdvanceParked, AllAnswered, DrainItem, DeleteItem, FreeItem
  <2> QED BY <1>1, <1>3, <2>1, GetterKeepsRegistry DEF RegistryInv
<1>4. CASE UNCHANGED vars \/ \E c \in Conns : ClientStep(c)
  <2>1. UNCHANGED <<registered, key, request, mainVars, getterVars, status>>
    BY <1>4 DEF vars, ClientStep, Accept, StreamingEnds, itemVars, connVars
  <2> QED
    BY <1>1, <2>1
    DEF RegistryInv, RegisteredHasGetter, MissStaysMiss, InsertIsServed, ServedIsRegistered,
        RegisteredKeysDiffer, InsertKeyIsNew, Match, Serving, mainVars, getterVars
<1> QED BY <1>2, <1>3, <1>4 DEF Next

(* With no short read the registry and the running getters agree.          *)
THEOREM RegistryCorrect == MaxShortReads = 0 => (Spec => []RegistryInv)
<1> SUFFICES ASSUME MaxShortReads = 0 PROVE Spec => []RegistryInv
  OBVIOUS
<1>1. Init => RegistryInv BY InitRegistry
<1>2. RegistryInv /\ [Next]_vars => RegistryInv' BY RegistryStep
<1> QED BY <1>1, <1>2, PTL DEF Spec

(* A stream that can be found is being fetched (assoc.c:509-540,           *)
(* thread.c:191-193).                                                      *)
THEOREM RegisteredHasGetterCorrect ==
  MaxShortReads = 0 => (Spec => []RegisteredHasGetter)
<1>1. RegistryInv => RegisteredHasGetter BY DEF RegistryInv
<1> QED BY <1>1, RegistryCorrect, PTL

(* Two getters that serve a key have one item, and so are one.             *)
LEMMA OneGetter == RegistryInv => OneGetterPerKey
<1> SUFFICES ASSUME RegistryInv, NEW t \in Threads, NEW u \in Threads,
                    Serving(t), Serving(u), key[item[t]] = key[item[u]]
             PROVE  t = u
  BY DEF OneGetterPerKey
<1>1. item[t] = item[u]
  BY DEF RegistryInv, ServedIsRegistered, RegisteredKeysDiffer, MissStaysMiss,
         InsertIsServed, Match
<1> QED BY <1>1 DEF RegistryInv, OwnerInv, OneOwner, Serving, Live

(* No stream is fetched by two getters at a time, although looking it up,  *)
(* starting the getter and inserting are three critical sections           *)
(* (rtoh.c:556-569).                                                       *)
THEOREM OneGetterPerKeyCorrect == MaxShortReads = 0 => (Spec => []OneGetterPerKey)
BY OneGetter, RegistryCorrect, PTL

(* The assertion of assoc_insert, "shouldn't have duplicately named things *)
(* defined", never fails (assoc.c:469).                                    *)
THEOREM InsertKeyIsNewCorrect == MaxShortReads = 0 => (Spec => []InsertKeyIsNew)
<1>1. RegistryInv => InsertKeyIsNew BY DEF RegistryInv
<1> QED BY <1>1, RegistryCorrect, PTL

(* mt_assoc_delete takes out the item of the getter that calls it and no   *)
(* other, although it is given a key (thread.c:191, assoc.c:490-507).      *)
THEOREM OnlyOwnGetterDeletesCorrect == MaxShortReads = 0 => (Spec => OnlyOwnGetterDeletes)
<1> SUFFICES ASSUME MaxShortReads = 0 PROVE Spec => OnlyOwnGetterDeletes
  OBVIOUS
<1> DEFINE Deletes ==
      \A it \in registered \ registered' :
        \E t \in Threads : getter[t] = "delete" /\ item[t] = it
<1>1. RegistryInv /\ [Next]_vars => [Deletes]_vars
  <2> SUFFICES ASSUME RegistryInv, Next PROVE Deletes
    OBVIOUS
  <2>1. CASE MainThread
    <3>1. registered \subseteq registered'
      BY <2>1 DEF MainThread, MainStep, FindItem, MallocItem, InitItem, InitItemFails,
                  InsertItem, GenerateResponse
    <3> QED BY <3>1
  <2>2. ASSUME NEW t \in Threads, GetterStep(t)
        PROVE  Deletes
    <3>1. CASE FreeItem(t)
      BY <3>1, FreeItemEffect DEF RegistryInv, OwnerInv
    <3>2. CASE ~ FreeItem(t)
      <4>1. /\ Serving(t)
            /\ \/ UNCHANGED registered
               \/ /\ getter[t] = "delete"
                  /\ \E it \in Match(key[item[t]]) : registered' = registered \ {it}
        BY <2>2, <3>2, GetterKeepsItem DEF RegistryInv, OwnerInv
      <4> QED BY <4>1, DeletesOwn
    <3> QED BY <3>1, <3>2
  <2>3. CASE \E c \in Conns : ClientStep(c)
    BY <2>3 DEF ClientStep, Accept, StreamingEnds
  <2> QED BY <2>1, <2>2, <2>3 DEF Next
<1> QED BY <1>1, RegistryCorrect, PTL DEF Spec, OnlyOwnGetterDeletes

(* The pool, its owners and its counter agree (thread.c:116-152).          *)
THEOREM PoolSoundCorrect == MaxShortReads = 0 => (Spec => []PoolSound)
<1> SUFFICES ASSUME MaxShortReads = 0 PROVE Spec => []PoolSound
  OBVIOUS
<1>1. PoolHoldsTheRest /\ OneOwner /\ CurrItemsCounts => PoolSound
  BY DEF PoolSound
<1> QED BY <1>1, PoolCorrect, OneOwnerCorrect, CurrItemsCorrect, PTL

(* The registry lists streams that are being fetched, once each            *)
(* (rtoh.c:556-569, thread.c:191).                                         *)
THEOREM RegistrySoundCorrect == MaxShortReads = 0 => (Spec => []RegistrySound)
<1> SUFFICES ASSUME MaxShortReads = 0 PROVE Spec => []RegistrySound
  OBVIOUS
<1>1. RegisteredHasGetter /\ OneGetterPerKey /\ InsertKeyIsNew => RegistrySound
  BY DEF RegistrySound
<1> QED
  BY <1>1, RegisteredHasGetterCorrect, OneGetterPerKeyCorrect, InsertKeyIsNewCorrect, PTL

-----------------------------------------------------------------------------
(* The parked requests.  Every connection has one next pointer, and the    *)
(* lists of all items go through it; a getter follows it with no lock      *)
(* after it has answered a request (thread.c:543).                         *)

Parked(c) == conn[c] = "parked"

(* c is parked for stream k. *)
Wants(c, k) == Parked(c) /\ request[c].key = k

(* on says which item's list a connection is on, if any.  A head has       *)
(* nobody before it; a parked connection is parked for its list's stream,  *)
(* so is the one behind it, on the same list; no two are before one.       *)
HeadsSound(on) ==
  \A it \in Items : meta_wait_list[it] # NULL =>
    /\ on[meta_wait_list[it]] = it
    /\ \A d \in Conns : Parked(d) => next[d] # meta_wait_list[it]

ListedSound(on) == \A c \in Conns : on[c] # NULL => Wants(c, key[on[c]])

LinksSound(on) ==
  \A c \in Conns : Parked(c) /\ next[c] # NULL =>
    Wants(next[c], request[c].key) /\ on[next[c]] = on[c]

OneBefore ==
  \A c, d \in Conns : Parked(c) /\ Parked(d) /\ next[c] = next[d] /\ next[c] # NULL => c = d

ListsSound(on) == HeadsSound(on) /\ ListedSound(on) /\ LinksSound(on) /\ OneBefore

(* c is on no list, and behind nobody. *)
Away(c, on) == on[c] = NULL /\ \A d \in Conns : Parked(d) => next[d] # c

(* What a getter has taken is its own: the next connection it will answer, *)
(* if it is one that waits for its stream, is on no list any more.         *)
HandsOut(t, on) ==
  /\ getter[t] \in {"answer", "advance"} => level[item[t]] > 0
  /\ getter[t] = "answer" /\ cur[t] # NULL /\ Wants(cur[t], key[item[t]]) => Away(cur[t], on)
  /\ getter[t] = "advance" /\ next[cur[t]] # NULL /\ Wants(next[cur[t]], key[item[t]])
       => Away(next[cur[t]], on)

WaitOn(on) == ListsSound(on) /\ \A t \in Threads : HandsOut(t, on)

(* The main thread answers a connection it has taken off the event loop,   *)
(* for the stream it asked for; if a getter serves that stream, it is this *)
(* item's.                                                                 *)
MainSound ==
  /\ main_pc # "loop" => conn[main_conn] = "handled"
  /\ main_pc = "generate" =>
       /\ request[main_conn].key = key[main_item]
       /\ \A t \in Threads : Serving(t) /\ key[item[t]] = key[main_item] => item[t] = main_item

OnAList == [Conns -> Items \union {NULL}]

WaitInv == RegistryInv /\ MainSound /\ \E on \in OnAList : WaitOn(on)

(* nth numbers the connections from c on. *)
Numbers(nth, c) ==
  /\ nth \in [0 .. Cardinality(Conns) -> Conns \union {NULL}]
  /\ nth[0] = c
  /\ \A n \in 1 .. Cardinality(Conns) :
       nth[n] = IF nth[n - 1] = NULL THEN NULL ELSE next[nth[n - 1]]
  /\ ListFrom(c) = {nth[n] : n \in 0 .. Cardinality(Conns)} \ {NULL}

(* ListFrom does number them. *)
LEMMA ListFromNumbers ==
  ASSUME TypeOK, NEW c \in Conns \union {NULL}
  PROVE  \E nth : Numbers(nth, c)
<1> DEFINE C == Cardinality(Conns)
           IsNth(g) == g = [n \in 0 .. C |-> IF n = 0 THEN c
                                             ELSE IF g[n - 1] = NULL THEN NULL ELSE next[g[n - 1]]]
           nth == CHOOSE g : IsNth(g)
<1>1. C \in Nat
  BY LifecycleAssumption, FS_CardinalityType
<1>2. next \in [Conns -> Conns \union {NULL}] /\ NULL \notin Conns
  BY LifecycleAssumption DEF TypeOK
<1>3. ListFrom(c) = {nth[n] : n \in DOMAIN nth} \ {NULL}
  BY DEF ListFrom
<1>4. PICK f \in [0 .. C -> Conns \union {NULL}] : IsChainFrom(f, c, next, NULL, C)
  BY <1>1, <1>2, ChainFromExists
<1>5. IsNth(nth)
  <2>1. IsNth(f)
    BY <1>4, Zenon DEF IsChainFrom
  <2> HIDE DEF IsNth
  <2> QED BY <2>1, Zenon
<1>6. nth = [n \in 0 .. C |-> IF n = 0 THEN c
                              ELSE IF nth[n - 1] = NULL THEN NULL ELSE next[nth[n - 1]]]
  <2>1. \A g : IsNth(g) => g = [n \in 0 .. C |-> IF n = 0 THEN c
                                     ELSE IF g[n - 1] = NULL THEN NULL ELSE next[g[n - 1]]]
    BY Zenon
  <2> HIDE DEF IsNth, nth
  <2> QED BY <1>5, <2>1, Zenon
<1> HIDE DEF nth, C
<1>7. /\ DOMAIN nth = 0 .. C
      /\ nth[0] = c
      /\ \A n \in 1 .. C : nth[n] = IF nth[n - 1] = NULL THEN NULL ELSE next[nth[n - 1]]
  <2>1. DOMAIN nth = 0 .. C
    BY <1>6, Zenon
  <2>2. \A n \in 0 .. C : nth[n] = IF n = 0 THEN c
                                   ELSE IF nth[n - 1] = NULL THEN NULL ELSE next[nth[n - 1]]
    BY <1>6, Zenon
  <2>3. 0 \in 0 .. C /\ \A n \in 1 .. C : n \in 0 .. C /\ n # 0
    BY <1>1
  <2> QED BY <2>1, <2>2, <2>3, Zenon
<1>8. \A n \in 0 .. C : nth[n] \in Conns \union {NULL}
  <2> DEFINE Odd == {n \in 0 .. C : nth[n] \notin Conns \union {NULL}}
  <2> SUFFICES ASSUME Odd # {} PROVE FALSE
    OBVIOUS
  <2>1. Odd \in SUBSET Nat
    BY <1>1
  <2>2. PICK n \in Odd : \A m \in Odd : n <= m
    BY <2>1, LeastOf
  <2>3. n # 0
    BY <1>7, <2>2
  <2>4. n \in 1 .. C /\ n - 1 \in 0 .. C /\ n - 1 \notin Odd
    BY <1>1, <2>2, <2>3
  <2> QED BY <1>2, <1>7, <2>2, <2>4
<1>9. nth = [n \in 0 .. C |-> nth[n]]
  BY <1>6, <1>7, Zenon
<1>10. nth \in [0 .. C -> Conns \union {NULL}]
  BY <1>8, <1>9, Zenon
<1>11. ListFrom(c) = {nth[n] : n \in 0 .. C} \ {NULL}
  BY <1>3, <1>7
<1>12. Numbers(nth, c)
  BY <1>7, <1>10, <1>11, Zenon DEF Numbers, C
<1> QED BY <1>12

(* It starts with c, and goes along next. *)
LEMMA ListFromIs ==
  ASSUME TypeOK, NEW c \in Conns \union {NULL}
  PROVE  /\ ListFrom(c) \subseteq Conns
         /\ c # NULL => c \in ListFrom(c)
         /\ \A d \in ListFrom(c) : d = c \/ \E e \in ListFrom(c) : next[e] = d
<1>1. PICK C : C = Cardinality(Conns)
  OBVIOUS
<1>2. C \in Nat
  BY <1>1, LifecycleAssumption, FS_CardinalityType
<1>0. PICK nth : Numbers(nth, c)
  BY ListFromNumbers
<1>3. /\ nth \in [0 .. C -> Conns \union {NULL}]
      /\ nth[0] = c
      /\ \A n \in 1 .. C : nth[n] = IF nth[n - 1] = NULL THEN NULL ELSE next[nth[n - 1]]
      /\ ListFrom(c) = {nth[n] : n \in 0 .. C} \ {NULL}
  BY <1>0, <1>1 DEF Numbers
<1>4. ListFrom(c) \subseteq Conns /\ (c # NULL => c \in ListFrom(c))
  BY <1>2, <1>3
<1>5. ASSUME NEW d \in ListFrom(c)
      PROVE  d = c \/ \E e \in ListFrom(c) : next[e] = d
  <2>1. PICK n \in 0 .. C : d = nth[n] /\ d # NULL
    BY <1>3, <1>5
  <2>2. CASE n # 0
    <3>1. n \in 1 .. C /\ n - 1 \in 0 .. C
      BY <1>2, <2>2
    <3>2. nth[n - 1] # NULL /\ next[nth[n - 1]] = d
      BY <1>3, <2>1, <3>1
    <3>3. nth[n - 1] \in ListFrom(c)
      BY <1>3, <3>1, <3>2
    <3> QED BY <3>2, <3>3
  <2> QED BY <1>3, <2>1, <2>2
<1> QED BY <1>4, <1>5

(* It stays in a set that next does not leave. *)
LEMMA ListFromWithin ==
  ASSUME TypeOK, NEW c \in Conns \union {NULL}, NEW S \in SUBSET Conns, c \in S \union {NULL},
         \A d \in S : next[d] \in S \union {NULL}
  PROVE  ListFrom(c) \subseteq S
<1>1. PICK C : C = Cardinality(Conns)
  OBVIOUS
<1>2. C \in Nat
  BY <1>1, LifecycleAssumption, FS_CardinalityType
<1>0. PICK nth : Numbers(nth, c)
  BY ListFromNumbers
<1>3. /\ nth \in [0 .. C -> Conns \union {NULL}]
      /\ nth[0] = c
      /\ \A n \in 1 .. C : nth[n] = IF nth[n - 1] = NULL THEN NULL ELSE next[nth[n - 1]]
      /\ ListFrom(c) = {nth[n] : n \in 0 .. C} \ {NULL}
  BY <1>0, <1>1 DEF Numbers
<1>4. \A n \in 0 .. C : nth[n] \in S \union {NULL}
  <2> DEFINE Odd == {n \in 0 .. C : nth[n] \notin S \union {NULL}}
  <2> SUFFICES ASSUME Odd # {} PROVE FALSE
    OBVIOUS
  <2>1. Odd \in SUBSET Nat
    BY <1>2
  <2>2. PICK n \in Odd : \A m \in Odd : n <= m
    BY <2>1, LeastOf
  <2>3. n # 0
    BY <1>3, <2>2
  <2>4. n \in 1 .. C /\ n - 1 \in 0 .. C /\ n - 1 \notin Odd
    BY <1>2, <2>2, <2>3
  <2>5. nth[n - 1] \in S \union {NULL}
    BY <2>4
  <2> QED BY <1>3, <2>2, <2>4, <2>5
<1> QED BY <1>3, <1>4

(* Everyone on an item's list is there.                                    *)
LEMMA OnListed ==
  ASSUME TypeOK, NEW on \in OnAList, ListsSound(on), NEW it \in Items
  PROVE  \A c \in ListFrom(meta_wait_list[it]) : on[c] = it
<1>1. PICK S : S = {c \in Conns : on[c] = it}
  OBVIOUS
<1>2. meta_wait_list[it] \in Conns \union {NULL} /\ it # NULL
  BY LifecycleAssumption DEF TypeOK
<1>3. meta_wait_list[it] \in S \union {NULL}
  BY <1>1, <1>2 DEF ListsSound, HeadsSound
<1>4. \A d \in S : next[d] \in S \union {NULL}
  <2> TAKE d \in S
  <2>1. d \in Conns /\ on[d] = it /\ next[d] \in Conns \union {NULL}
    BY <1>1 DEF TypeOK
  <2>2. Parked(d)
    BY <1>2, <2>1 DEF ListsSound, ListedSound, Wants
  <2>3. next[d] # NULL => on[next[d]] = it
    BY <2>1, <2>2 DEF ListsSound, LinksSound
  <2> QED BY <1>1, <2>1, <2>3
<1>5. ListFrom(meta_wait_list[it]) \subseteq S
  BY <1>1, <1>2, <1>3, <1>4, ListFromWithin
<1> QED BY <1>1, <1>5

(* Those parked stay parked, and nobody else is. *)
ConnsKept ==
  \A c \in Conns :
    /\ conn'[c] = "parked" <=> conn[c] = "parked"
    /\ conn[c] = "parked" => next'[c] = next[c] /\ request'[c] = request[c]
    /\ next'[c] \in {next[c], NULL}

(* The lists of the items its are taken off. *)
Off(on, its) == [c \in Conns |-> IF on[c] \in its THEN NULL ELSE on[c]]

(* When lists are taken off, and nothing else happens to who is parked,    *)
(* the others are as they were.                                            *)
LEMMA ListsKept ==
  ASSUME TypeOK, TypeOK', NEW on \in OnAList, ListsSound(on), NEW its \in SUBSET Items, ConnsKept,
         \A it \in Items : meta_wait_list'[it] = IF it \in its THEN NULL ELSE meta_wait_list[it],
         \A it \in Items \ its : key'[it] = key[it]
  PROVE  Off(on, its) \in OnAList /\ ListsSound(Off(on, its))'
<1>1. PICK off : off = Off(on, its)
  OBVIOUS
<1>2. /\ off \in OnAList
      /\ \A c \in Conns : off[c] = IF on[c] \in its THEN NULL ELSE on[c]
  BY <1>1 DEF Off, OnAList
<1>3. /\ NULL \notin Items /\ NULL \notin Conns
      /\ \A c \in Conns : on[c] \in Items \union {NULL} /\ next[c] \in Conns \union {NULL}
      /\ \A it \in Items : meta_wait_list[it] \in Conns \union {NULL}
  BY LifecycleAssumption DEF TypeOK, OnAList
<1>4. HeadsSound(off)'
  BY <1>2, <1>3 DEF ListsSound, HeadsSound, Parked, ConnsKept
<1>5. ListedSound(off)'
  BY <1>2, <1>3 DEF ListsSound, ListedSound, Wants, Parked, ConnsKept
<1>6. LinksSound(off)'
  BY <1>2, <1>3 DEF ListsSound, LinksSound, Wants, Parked, ConnsKept
<1>7. OneBefore'
  BY <1>3 DEF ListsSound, OneBefore, Parked, ConnsKept
<1> QED BY <1>1, <1>2, <1>4, <1>5, <1>6, <1>7 DEF ListsSound

(* Nothing happens to what the getter hands out. *)
HandKept(t) ==
  getter'[t] \in {"answer", "advance"} =>
    /\ getter'[t] = getter[t] /\ cur'[t] = cur[t] /\ item'[t] = item[t]
    /\ key'[item[t]] = key[item[t]]
    /\ level[item[t]] > 0 => level'[item[t]] > 0

(* What it hands out stays its own then, whatever lists are taken off. *)
LEMMA HandsKept ==
  ASSUME TypeOK, TypeOK', NEW on \in OnAList, NEW its \in SUBSET Items, ConnsKept,
         NEW t \in Threads, HandsOut(t, on), HandKept(t)
  PROVE  HandsOut(t, Off(on, its))'
<1>1. PICK off : off = Off(on, its)
  OBVIOUS
<1>2. \A c \in Conns : on[c] = NULL => off[c] = NULL
  BY <1>1 DEF Off, OnAList
<1>3. ASSUME NEW c \in Conns, Away(c, on)
      PROVE  Away(c, off)'
  BY <1>2, <1>3 DEF Away, Parked, ConnsKept
<1>4. /\ NULL \notin Conns /\ cur[t] \in Conns \union {NULL}
      /\ \A c \in Conns : next[c] \in Conns \union {NULL}
      /\ getter[t] = "advance" => cur[t] # NULL
  BY LifecycleAssumption DEF TypeOK
<1>5. CASE getter'[t] \notin {"answer", "advance"}
  BY <1>5 DEF HandsOut
<1>6. CASE getter'[t] = "answer"
  <2>1. /\ getter[t] = "answer" /\ cur'[t] = cur[t] /\ item'[t] = item[t]
        /\ key'[item[t]] = key[item[t]] /\ (level[item[t]] > 0 => level'[item[t]] > 0)
    BY <1>6 DEF HandKept
  <2>2. level'[item'[t]] > 0
    BY <2>1 DEF HandsOut
  <2>3. ASSUME cur[t] # NULL, Wants(cur[t], key[item[t]])'
        PROVE  Away(cur[t], off)'
    <3>1. cur[t] \in Conns
      BY <1>4, <2>3
    <3>2. Wants(cur[t], key[item[t]])
      BY <2>1, <2>3, <3>1 DEF Wants, Parked, ConnsKept
    <3>3. PICK c \in Conns : c = cur[t]
      BY <3>1
    <3>4. Away(c, on)
      BY <2>1, <2>3, <3>2, <3>3 DEF HandsOut
    <3>5. Away(c, off)'
      BY <1>3, <3>4
    <3> QED BY <2>1, <3>3, <3>5 DEF Away
  <2> QED BY <1>1, <1>6, <2>1, <2>2, <2>3 DEF HandsOut
<1>7. CASE getter'[t] = "advance"
  <2>1. /\ getter[t] = "advance" /\ cur'[t] = cur[t] /\ item'[t] = item[t]
        /\ key'[item[t]] = key[item[t]] /\ (level[item[t]] > 0 => level'[item[t]] > 0)
    BY <1>7 DEF HandKept
  <2>2. level'[item'[t]] > 0
    BY <2>1 DEF HandsOut
  <2>3. PICK c : c = cur[t]
    OBVIOUS
  <2>4. c \in Conns /\ next'[c] \in {next[c], NULL}
    BY <1>4, <2>1, <2>3 DEF ConnsKept
  <2>5. PICK e : e = next[c]
    OBVIOUS
  <2>6. ASSUME next'[c] # NULL, Wants(next[c], key[item[t]])'
        PROVE  Away(next[c], off)'
    <3>1. next'[c] = e /\ e \in Conns
      BY <1>4, <2>4, <2>5, <2>6
    <3>2. Wants(e, key[item[t]])
      BY <2>1, <2>6, <3>1 DEF Wants, Parked, ConnsKept
    <3>3. Away(e, on)
      BY <2>1, <2>3, <2>4, <2>5, <2>6, <3>1, <3>2 DEF HandsOut
    <3>4. Away(e, off)'
      BY <1>3, <3>1, <3>3
    <3> QED BY <3>1, <3>4 DEF Away
  <2> QED BY <1>1, <1>7, <2>1, <2>2, <2>3, <2>6 DEF HandsOut
<1> QED BY <1>5, <1>6, <1>7

(* Taking lists off keeps them all sound. *)
LEMMA Quiet ==
  ASSUME TypeOK, TypeOK', NEW on \in OnAList, WaitOn(on), NEW its \in SUBSET Items, ConnsKept,
         \A it \in Items : meta_wait_list'[it] = IF it \in its THEN NULL ELSE meta_wait_list[it],
         \A it \in Items \ its : key'[it] = key[it],
         \A t \in Threads : HandKept(t)
  PROVE  \E off \in OnAList : WaitOn(off)'
<1>1. PICK off : off = Off(on, its)
  OBVIOUS
<1>2. off \in OnAList /\ ListsSound(off)'
  BY <1>1, ListsKept DEF WaitOn
<1>3. \A t \in Threads : HandsOut(t, off)'
  <2> TAKE t \in Threads
  <2>1. HandsOut(t, on) /\ HandKept(t)
    BY DEF WaitOn
  <2> QED BY <1>1, <2>1, HandsKept
<1>4. WaitOn(off)'
  BY <1>2, <1>3 DEF WaitOn
<1> QED BY <1>2, <1>4

(* So does doing nothing. *)
LEMMA NoList ==
  ASSUME TypeOK, TypeOK', NEW on \in OnAList, WaitOn(on), ConnsKept,
         meta_wait_list' = meta_wait_list, key' = key, \A t \in Threads : HandKept(t)
  PROVE  \E off \in OnAList : WaitOn(off)'
<1>1. PICK none \in SUBSET Items : none = {}
  OBVIOUS
<1>2. /\ \A it \in Items : meta_wait_list'[it] = IF it \in none THEN NULL ELSE meta_wait_list[it]
      /\ \A it \in Items \ none : key'[it] = key[it]
  BY <1>1
<1> QED BY <1>2, Quiet

(* A request is parked: its connection is put before the list of the item  *)
(* (rtoh.c:365-368).                                                       *)
LEMMA ParkKeepsLists ==
  ASSUME RegistryInv, TypeOK', MainSound, NEW on \in OnAList, WaitOn(on),
         main_pc = "generate", level[main_item] = 0,
         conn' = [conn EXCEPT ![main_conn] = "parked"],
         next' = [next EXCEPT ![main_conn] = meta_wait_list[main_item]],
         meta_wait_list' = [meta_wait_list EXCEPT ![main_item] = main_conn],
         UNCHANGED <<key, level, request, getterVars>>
  PROVE  \E on2 \in OnAList : WaitOn(on2)'
<1>1. TypeOK
  BY DEF RegistryInv, OwnerInv
<1>2. PICK c : c = main_conn
  OBVIOUS
<1>3. PICK it : it = main_item
  OBVIOUS
<1>4. PICK h : h = meta_wait_list[it]
  OBVIOUS
<1>5. /\ c \in Conns /\ it \in Items /\ h \in Conns \union {NULL}
      /\ NULL \notin Conns /\ NULL \notin Items
  BY <1>1, <1>2, <1>3, <1>4, LifecycleAssumption DEF TypeOK
<1>6. /\ conn[c] = "handled" /\ request[c].key = key[it]
      /\ \A t \in Threads : Serving(t) /\ key[item[t]] = key[it] => item[t] = it
  BY <1>2, <1>3 DEF MainSound
<1>7. /\ conn'[c] = "parked" /\ next'[c] = h
      /\ \A d \in Conns : d # c => conn'[d] = conn[d] /\ next'[d] = next[d]
      /\ meta_wait_list'[it] = c
      /\ \A i \in Items : i # it => meta_wait_list'[i] = meta_wait_list[i]
  BY <1>1, <1>2, <1>3, <1>4, <1>5 DEF TypeOK
<1>8. PICK on2 : on2 = [on EXCEPT ![c] = it]
  OBVIOUS
<1>9. /\ on2 \in OnAList /\ on2[c] = it
      /\ \A d \in Conns : d # c => on2[d] = on[d]
  BY <1>5, <1>8 DEF OnAList
<1>10. /\ HeadsSound(on) /\ ListedSound(on) /\ LinksSound(on) /\ OneBefore
       /\ \A t \in Threads : HandsOut(t, on)
  BY DEF WaitOn, ListsSound
<1>11. on[c] = NULL
  BY <1>5, <1>6, <1>10 DEF ListedSound, Wants, Parked
<1>12. h # NULL => on[h] = it /\ Wants(h, key[it]) /\ h # c /\ \A d \in Conns : Parked(d) => next[d] # h
  BY <1>4, <1>5, <1>10, <1>11 DEF HeadsSound, ListedSound
<1>13. \A d \in Conns : Parked(d) => next[d] # c
  BY <1>5, <1>6, <1>10 DEF LinksSound, Wants, Parked
<1>14. HeadsSound(on2)'
  <2> SUFFICES ASSUME NEW i \in Items, meta_wait_list'[i] # NULL
               PROVE  /\ on2[meta_wait_list'[i]] = i
                      /\ \A d \in Conns : conn'[d] = "parked" => next'[d] # meta_wait_list'[i]
    BY DEF HeadsSound, Parked
  <2>1. CASE i = it
    BY <1>5, <1>7, <1>9, <1>12, <1>13, <2>1 DEF Parked
  <2>2. CASE i # it
    <3>1. PICK g : g = meta_wait_list[i]
      OBVIOUS
    <3>2. g \in Conns /\ on[g] = i /\ \A d \in Conns : Parked(d) => next[d] # g
      BY <1>1, <1>7, <1>10, <2>2, <3>1 DEF HeadsSound, TypeOK
    <3>3. g # c /\ g # h
      BY <1>5, <1>11, <1>12, <2>2, <3>2
    <3> QED BY <1>7, <1>9, <2>2, <3>1, <3>2, <3>3 DEF Parked
  <2> QED BY <2>1, <2>2
<1>15. ListedSound(on2)'
  BY <1>5, <1>6, <1>7, <1>9, <1>10 DEF ListedSound, Wants, Parked
<1>16. LinksSound(on2)'
  <2> SUFFICES ASSUME NEW d \in Conns, conn'[d] = "parked", next'[d] # NULL
               PROVE  /\ conn'[next'[d]] = "parked" /\ request[next'[d]].key = request[d].key
                      /\ on2[next'[d]] = on2[d]
    BY DEF LinksSound, Wants, Parked
  <2>1. CASE d = c
    BY <1>5, <1>6, <1>7, <1>9, <1>12, <2>1 DEF Wants, Parked
  <2>2. CASE d # c
    <3>1. Parked(d) /\ next'[d] = next[d] /\ next[d] # c /\ next[d] \in Conns
      BY <1>1, <1>7, <1>13, <2>2 DEF Parked, TypeOK
    <3>2. Wants(next[d], request[d].key) /\ on[next[d]] = on[d]
      BY <1>10, <3>1 DEF LinksSound
    <3> QED BY <1>7, <1>9, <2>2, <3>1, <3>2 DEF Wants, Parked
  <2> QED BY <2>1, <2>2
<1>17. OneBefore'
  BY <1>7, <1>10, <1>12 DEF OneBefore, Parked
<1>18. ASSUME NEW t \in Threads
       PROVE  HandsOut(t, on2)'
  <2>1. /\ getter' = getter /\ cur' = cur /\ item' = item /\ key' = key /\ level' = level
        /\ request' = request
    BY DEF getterVars
  <2>2. HandsOut(t, on)
    BY <1>10
  <2>3. CASE getter[t] \notin {"answer", "advance"}
    BY <2>1, <2>3 DEF HandsOut
  <2>4. CASE getter[t] \in {"answer", "advance"}
    <3>1. level[item[t]] > 0 /\ Serving(t)
      BY <2>2, <2>4 DEF HandsOut, Serving, GetterPcs
    <3>2. key[item[t]] # key[it]
      BY <1>3, <1>6, <3>1
    <3>3. ~Wants(c, key[item[t]])' /\ (h # NULL => ~Wants(h, key[item[t]])')
      BY <1>6, <1>12, <2>1, <3>2 DEF Wants
    <3>4. ASSUME NEW d \in Conns, Wants(d, key[item[t]])'
          PROVE  d # c /\ d # h /\ Wants(d, key[item[t]])
      <4>1. d # c /\ d # h
        BY <1>5, <3>3, <3>4
      <4> QED BY <1>7, <2>1, <3>4, <4>1 DEF Wants, Parked
    <3>5. ASSUME NEW d \in Conns, d # c, d # h, Away(d, on)
          PROVE  Away(d, on2)'
      BY <1>7, <1>9, <3>5 DEF Away, Parked
    <3>6. cur[t] \in Conns \union {NULL} /\ (getter[t] = "advance" => cur[t] \in Conns)
      BY <1>1 DEF TypeOK
    <3>7. CASE getter[t] = "answer"
      <4>1. PICK d : d = cur[t]
        OBVIOUS
      <4>2. ASSUME d # NULL, Wants(d, key[item[t]])'
            PROVE  Away(d, on2)'
        <5>1. d \in Conns /\ Wants(d, key[item[t]]) /\ d # c /\ d # h
          BY <3>4, <3>6, <4>1, <4>2
        <5>2. Away(d, on)
          BY <2>2, <3>7, <4>1, <4>2, <5>1 DEF HandsOut
        <5> QED BY <3>5, <5>1, <5>2
      <4> QED BY <2>1, <3>1, <3>7, <4>1, <4>2 DEF HandsOut
    <3>8. CASE getter[t] = "advance"
      <4>1. PICK x : x = cur[t]
        OBVIOUS
      <4>2. PICK d : d = next'[x]
        OBVIOUS
      <4>3. ASSUME d # NULL, Wants(d, key[item[t]])'
            PROVE  Away(d, on2)'
        <5>1. x \in Conns /\ d \in Conns
          BY <1>5, <1>7, <1>1, <3>6, <3>8, <4>1, <4>2, <4>3 DEF TypeOK
        <5>2. Wants(d, key[item[t]]) /\ d # c /\ d # h
          BY <3>4, <4>3, <5>1
        <5>3. next[x] = d
          BY <1>7, <4>2, <5>1, <5>2
        <5>4. Away(d, on)
          BY <2>2, <3>8, <4>1, <4>3, <5>2, <5>3 DEF HandsOut
        <5> QED BY <3>5, <5>1, <5>2, <5>4
      <4> QED BY <2>1, <3>1, <3>8, <4>1, <4>2, <4>3 DEF HandsOut
    <3> QED BY <2>4, <3>7, <3>8
  <2> QED BY <2>3, <2>4
<1> QED BY <1>9, <1>14, <1>15, <1>16, <1>17, <1>18 DEF WaitOn, ListsSound

(* A parked request is answered: its connection leaves, and the one behind *)
(* it is nobody else's (thread.c:541-542).                                 *)
LEMMA AnswerKeepsLists ==
  ASSUME TypeOK, TypeOK', NEW on \in OnAList, WaitOn(on), NEW t \in Threads, AnswerParked(t)
  PROVE  WaitOn(on)'
<1>1. PICK c : c = cur[t]
  OBVIOUS
<1>2. PICK it : it = item[t]
  OBVIOUS
<1>3. /\ getter[t] = "answer" /\ c # NULL /\ c \in Conns /\ it \in Items
      /\ NULL \notin Conns
      /\ meta_wait_list' = meta_wait_list /\ key' = key /\ level' = level /\ next' = next
      /\ request' = request
  BY <1>1, <1>2, LifecycleAssumption DEF AnswerParked, TypeOK, itemVars
<1>4. CASE ~(conn[c] = "parked" /\ request[c].key = key[it])
  <2>1. conn' = conn /\ getter' = getter /\ cur' = cur /\ item' = item
    BY <1>1, <1>2, <1>4 DEF AnswerParked, getterVars
  <2> QED
    BY <1>3, <2>1
    DEF WaitOn, ListsSound, HeadsSound, ListedSound, LinksSound, OneBefore, HandsOut, Away, Wants, Parked
<1>5. CASE conn[c] = "parked" /\ request[c].key = key[it]
  <2>1. /\ Answered(c) /\ GetterMoves(t, "advance")
    BY <1>1, <1>2, <1>5 DEF AnswerParked
  <2>2. /\ conn'[c] # "parked" /\ \A d \in Conns : d # c => conn'[d] = conn[d]
        /\ getter'[t] = "advance" /\ \A u \in Threads : u # t => getter'[u] = getter[u]
        /\ item' = item /\ cur' = cur
    BY <1>3, <2>1 DEF Answered, GetterMoves, TypeOK
  <2>3. /\ HeadsSound(on) /\ ListedSound(on) /\ LinksSound(on) /\ OneBefore
        /\ \A u \in Threads : HandsOut(u, on)
    BY DEF WaitOn, ListsSound
  <2>4. on[c] = NULL /\ \A d \in Conns : Parked(d) => next[d] # c
    BY <1>1, <1>2, <1>3, <1>5, <2>3 DEF HandsOut, Wants, Parked, Away
  <2>5. \A d \in Conns : Parked(d)' <=> d # c /\ Parked(d)
    BY <2>2 DEF Parked
  <2>6. HeadsSound(on)'
    BY <1>3, <2>3, <2>5 DEF HeadsSound
  <2>7. ListedSound(on)'
    BY <1>3, <2>3, <2>4, <2>5 DEF ListedSound, Wants
  <2>8. LinksSound(on)'
    <3> SUFFICES ASSUME NEW d \in Conns, Parked(d)', next[d] # NULL
                 PROVE  /\ Parked(next[d])' /\ request[next[d]].key = request[d].key
                        /\ on[next[d]] = on[d]
      BY <1>3 DEF LinksSound, Wants
    <3>1. Parked(d) /\ next[d] # c /\ next[d] \in Conns
      BY <2>4, <2>5 DEF TypeOK
    <3> QED BY <1>3, <2>3, <2>5, <3>1 DEF LinksSound, Wants
  <2>9. OneBefore'
    BY <1>3, <2>3, <2>5 DEF OneBefore
  <2>10. ASSUME NEW d \in Conns, Away(d, on)
         PROVE  Away(d, on)'
    BY <1>3, <2>5, <2>10 DEF Away
  <2>11. ASSUME NEW u \in Threads
         PROVE  HandsOut(u, on)'
    <3>1. HandsOut(u, on)
      BY <2>3
    <3>2. /\ cur[u] \in Conns \union {NULL} /\ (getter[u] = "advance" => cur[u] \in Conns)
          /\ \A d \in Conns : next[d] \in Conns \union {NULL}
      BY DEF TypeOK
    <3>3. CASE u = t
      <4>1. PICK e : e = next[c]
        OBVIOUS
      <4>2. ASSUME e # NULL, Wants(e, key[it])'
            PROVE  Away(e, on)'
        <5>1. e \in Conns
          BY <1>3, <3>2, <4>1, <4>2
        <5>2. on[e] = NULL
          BY <1>3, <1>5, <2>3, <2>4, <4>1, <4>2 DEF LinksSound, Parked
        <5>3. ASSUME NEW d \in Conns, Parked(d)'
              PROVE  next[d] # e
          <6>1. d # c /\ Parked(d)
            BY <2>5, <5>3
          <6> QED BY <1>3, <1>5, <2>3, <4>1, <4>2, <6>1 DEF OneBefore, Parked
        <5> QED BY <1>3, <5>2, <5>3 DEF Away
      <4>3. level'[item'[u]] > 0
        BY <1>3, <2>2, <3>1, <3>3 DEF HandsOut
      <4> QED BY <1>1, <1>2, <1>3, <2>2, <3>3, <4>1, <4>2, <4>3 DEF HandsOut
    <3>4. CASE u # t
      <4>1. getter'[u] = getter[u] /\ cur'[u] = cur[u] /\ item'[u] = item[u]
        BY <2>2, <3>4
      <4>2. \A d \in Conns : Wants(d, key[item[u]])' => Wants(d, key[item[u]])
        BY <1>3, <2>2, <2>5 DEF Wants
      <4>3. PICK x : x = cur[u]
        OBVIOUS
      <4>4. CASE getter[u] = "answer"
        <5>1. x # NULL /\ Wants(x, key[item[u]])' => Away(x, on)'
          BY <2>10, <3>1, <3>2, <4>2, <4>3, <4>4 DEF HandsOut
        <5> QED BY <1>3, <3>1, <4>1, <4>3, <4>4, <5>1 DEF HandsOut
      <4>5. CASE getter[u] = "advance"
        <5>1. PICK e : e = next[x]
          OBVIOUS
        <5>2. e # NULL /\ Wants(e, key[item[u]])' => Away(e, on)'
          BY <2>10, <3>1, <3>2, <4>2, <4>3, <4>5, <5>1 DEF HandsOut
        <5> QED BY <1>3, <3>1, <4>1, <4>3, <4>5, <5>1, <5>2 DEF HandsOut
      <4>6. CASE getter[u] \notin {"answer", "advance"}
        BY <4>1, <4>6 DEF HandsOut
      <4> QED BY <4>4, <4>5, <4>6
    <3> QED BY <3>3, <3>4
  <2> QED BY <2>6, <2>7, <2>8, <2>9, <2>11 DEF WaitOn, ListsSound
<1> QED BY <1>4, <1>5

(* The getter goes on to the next pointer (thread.c:543). *)
LEMMA AdvanceKeepsLists ==
  ASSUME TypeOK, NEW on \in OnAList, WaitOn(on), NEW t \in Threads, AdvanceParked(t)
  PROVE  WaitOn(on)'
<1>1. /\ getter[t] = "advance" /\ getter'[t] = "answer" /\ cur'[t] = next[cur[t]]
      /\ \A u \in Threads : u # t => getter'[u] = getter[u] /\ cur'[u] = cur[u]
      /\ \A u \in Threads : item'[u] = item[u]
      /\ meta_wait_list' = meta_wait_list /\ key' = key /\ level' = level /\ next' = next
      /\ request' = request /\ conn' = conn
  BY DEF AdvanceParked, GetterGoes, TypeOK, itemVars, connVars
<1>2. ListsSound(on)'
  BY <1>1
  DEF WaitOn, ListsSound, HeadsSound, ListedSound, LinksSound, OneBefore, Wants, Parked
<1>3. ASSUME NEW u \in Threads
      PROVE  HandsOut(u, on)'
  <2>1. HandsOut(u, on)
    BY DEF WaitOn
  <2>2. \A d \in Conns : (Away(d, on) => Away(d, on)')
    BY <1>1 DEF Away, Parked
  <2>3. CASE u = t
    BY <1>1, <2>1, <2>3 DEF HandsOut, Wants, Parked, Away
  <2>4. CASE u # t
    BY <1>1, <2>1, <2>4 DEF HandsOut, Wants, Parked, Away
  <2> QED BY <2>3, <2>4
<1> QED BY <1>2, <1>3 DEF WaitOn

(* destroy_item hangs up on everyone on the list of its item, and on       *)
(* nobody else (thread.c:161-190).                                         *)
LEMMA DrainKeepsLists ==
  ASSUME TypeOK, TypeOK', NEW on \in OnAList, WaitOn(on), NEW t \in Threads, DrainItem(t)
  PROVE  /\ \E on2 \in OnAList : WaitOn(on2)'
         /\ \A c \in Conns : conn'[c] = conn[c] \/ conn[c] = "parked"
<1>1. PICK it : it = item[t]
  OBVIOUS
<1>2. PICK h : h = meta_wait_list[it]
  OBVIOUS
<1>3. PICK L : L = ListFrom(h)
  OBVIOUS
<1>4. /\ getter[t] = "drain" /\ getter'[t] = "delete"
      /\ \A u \in Threads : u # t => getter'[u] = getter[u]
      /\ item' = item /\ cur' = cur /\ key' = key /\ level' = level /\ next' = next
      /\ request' = request
      /\ \A c \in Conns : conn'[c] = IF c \in L THEN "closed" ELSE conn[c]
      /\ \A i \in Items : meta_wait_list'[i] = IF i = it THEN NULL ELSE meta_wait_list[i]
  BY <1>1, <1>2, <1>3 DEF DrainItem, GetterMoves, TypeOK
<1>5. /\ it \in Items /\ h \in Conns \union {NULL} /\ NULL \notin Items /\ NULL \notin Conns
      /\ \A c \in Conns : next[c] \in Conns \union {NULL}
      /\ \A i \in Items : meta_wait_list[i] \in Conns \union {NULL}
  BY <1>1, <1>2, <1>4, LifecycleAssumption DEF TypeOK
<1>6. /\ HeadsSound(on) /\ ListedSound(on) /\ LinksSound(on) /\ OneBefore
      /\ \A u \in Threads : HandsOut(u, on)
  BY DEF WaitOn, ListsSound
<1>7. /\ L \subseteq Conns
      /\ \A d \in L : d = h \/ \E e \in L : next[e] = d
  BY <1>3, <1>5, ListFromIs
<1>8. \A c \in L : on[c] = it
  <2>1. ListsSound(on)
    BY DEF WaitOn
  <2> QED BY <1>2, <1>3, <1>5, <2>1, OnListed
<1>9. \A c \in Conns : Parked(c)' <=> Parked(c) /\ c \notin L
  BY <1>4 DEF Parked
<1>10. PICK on2 : on2 = [c \in Conns |-> IF on[c] = it THEN NULL ELSE on[c]]
  OBVIOUS
<1>11. on2 \in OnAList /\ \A c \in Conns : on2[c] = IF on[c] = it THEN NULL ELSE on[c]
  BY <1>10 DEF OnAList
<1>12. HeadsSound(on2)'
  BY <1>4, <1>5, <1>6, <1>9, <1>11 DEF HeadsSound
<1>13. ListedSound(on2)'
  BY <1>4, <1>6, <1>8, <1>9, <1>11 DEF ListedSound, Wants
<1>14. LinksSound(on2)'
  <2> SUFFICES ASSUME NEW d \in Conns, Parked(d)', next[d] # NULL
               PROVE  /\ Parked(next[d])' /\ request[next[d]].key = request[d].key
                      /\ on2[next[d]] = on2[d]
    BY <1>4 DEF LinksSound, Wants
  <2>1. PICK e : e = next[d]
    OBVIOUS
  <2>2. Parked(d) /\ d \notin L /\ e \in Conns
    BY <1>5, <1>9, <2>1
  <2>3. Parked(e) /\ request[e].key = request[d].key /\ on[e] = on[d]
    BY <1>6, <2>1, <2>2 DEF LinksSound, Wants
  <2>4. e \notin L
    <3> SUFFICES ASSUME e \in L PROVE FALSE
      OBVIOUS
    <3>1. CASE e = h
      BY <1>2, <1>5, <1>6, <2>1, <2>2, <3>1 DEF HeadsSound
    <3>2. ASSUME NEW x \in L, next[x] = e
          PROVE  FALSE
      <4>1. x \in Conns /\ Parked(x)
        BY <1>5, <1>6, <1>7, <1>8 DEF ListedSound, Wants
      <4> QED BY <1>6, <2>1, <2>2, <3>2, <4>1 DEF OneBefore
    <3> QED BY <1>7, <3>1, <3>2
  <2>5. Parked(e)'
    BY <1>9, <2>2, <2>3, <2>4
  <2>6. on2[e] = on2[d]
    BY <1>11, <2>2, <2>3
  <2> QED BY <1>4, <2>1, <2>3, <2>5, <2>6 DEF Parked
<1>15. OneBefore'
  BY <1>4, <1>6, <1>9 DEF OneBefore
<1>16. ASSUME NEW d \in Conns, Away(d, on)
       PROVE  Away(d, on2)'
  BY <1>4, <1>9, <1>11, <1>16 DEF Away
<1>17. ASSUME NEW u \in Threads
       PROVE  HandsOut(u, on2)'
  <2>1. HandsOut(u, on)
    BY <1>6
  <2>2. CASE u = t
    BY <1>4, <2>2 DEF HandsOut
  <2>3. CASE u # t
    <3>1. \A d \in Conns : Wants(d, key[item[u]])' => Wants(d, key[item[u]])
      BY <1>4, <1>9 DEF Wants
    <3>2. cur[u] \in Conns \union {NULL} /\ (getter[u] = "advance" => cur[u] \in Conns)
      BY DEF TypeOK
    <3>3. PICK x : x = cur[u]
      OBVIOUS
    <3>4. CASE getter[u] = "answer"
      <4>1. x # NULL /\ Wants(x, key[item[u]])' => Away(x, on2)'
        BY <1>16, <2>1, <3>1, <3>2, <3>3, <3>4 DEF HandsOut
      <4> QED BY <1>4, <2>1, <2>3, <3>3, <3>4, <4>1 DEF HandsOut
    <3>5. CASE getter[u] = "advance"
      <4>1. PICK e : e = next[x]
        OBVIOUS
      <4>2. e # NULL /\ Wants(e, key[item[u]])' => Away(e, on2)'
        BY <1>5, <1>16, <2>1, <3>1, <3>2, <3>3, <3>5, <4>1 DEF HandsOut
      <4> QED BY <1>4, <2>1, <2>3, <3>3, <3>5, <4>1, <4>2 DEF HandsOut
    <3>6. CASE getter[u] \notin {"answer", "advance"}
      BY <1>4, <2>3, <3>6 DEF HandsOut
    <3> QED BY <3>4, <3>5, <3>6
  <2> QED BY <2>2, <2>3
<1>18. \A c \in Conns : conn'[c] = conn[c] \/ conn[c] = "parked"
  BY <1>4, <1>5, <1>6, <1>8 DEF ListedSound, Wants, Parked
<1> QED BY <1>11, <1>12, <1>13, <1>14, <1>15, <1>17, <1>18 DEF WaitOn, ListsSound

(* The getter takes the list of its item: nobody is on it any more         *)
(* (thread.c:534-540).                                                     *)
LEMMA PublishKeepsLists ==
  ASSUME TypeOK, TypeOK', NEW on \in OnAList, WaitOn(on), NEW t \in Threads, Publish(t)
  PROVE  \E on2 \in OnAList : WaitOn(on2)'
<1>1. PICK it : it = item[t]
  OBVIOUS
<1>2. PICK h : h = meta_wait_list[it]
  OBVIOUS
<1>3. PICK l \in 0 .. 2 :
        /\ level[it] > 0 => l > 0
        /\ level' = [level EXCEPT ![it] = l]
        /\ IF l = 2 /\ h # NULL
           THEN /\ GetterGoes(t, "answer", it, h, again[t])
                /\ meta_wait_list' = [meta_wait_list EXCEPT ![it] = NULL]
           ELSE UNCHANGED <<getterVars, meta_wait_list>>
  BY <1>1, <1>2 DEF Publish
<1>4. /\ getter[t] = "run" /\ key' = key /\ next' = next /\ request' = request /\ conn' = conn
  BY DEF Publish, connVars
<1>5. /\ it \in Items /\ h \in Conns \union {NULL} /\ NULL \notin Conns /\ NULL \notin Items
      /\ level'[it] = l /\ \A i \in Items : i # it => level'[i] = level[i]
      /\ \A u \in Threads : item[u] \in Items \union {NULL}
      /\ \A u \in Threads : getter[u] \in {"answer", "advance"} => item[u] \in Items
  BY <1>1, <1>2, <1>3, <1>4, LifecycleAssumption DEF TypeOK
<1>6. ConnsKept
  BY <1>4 DEF ConnsKept
<1>7. CASE l = 2 /\ h # NULL
  <2>1. /\ getter'[t] = "answer" /\ item'[t] = it /\ cur'[t] = h
        /\ \A u \in Threads : u # t => getter'[u] = getter[u] /\ item'[u] = item[u] /\ cur'[u] = cur[u]
        /\ \A i \in Items : meta_wait_list'[i] = IF i \in {it} THEN NULL ELSE meta_wait_list[i]
    BY <1>3, <1>5, <1>7 DEF GetterGoes, TypeOK
  <2>2. PICK off : off = Off(on, {it})
    OBVIOUS
  <2>3. off \in OnAList /\ ListsSound(off)'
    BY <1>4, <1>5, <1>6, <2>1, <2>2, ListsKept DEF WaitOn
  <2>4. ASSUME NEW u \in Threads
        PROVE  HandsOut(u, off)'
    <3>1. CASE u = t
      <4>1. Away(h, off)'
        <5>1. on[h] = it /\ \A d \in Conns : Parked(d) => next[d] # h
          BY <1>2, <1>5, <1>7 DEF WaitOn, ListsSound, HeadsSound
        <5>2. off[h] = NULL
          BY <1>5, <1>7, <2>2, <5>1 DEF Off
        <5> QED BY <1>4, <5>1, <5>2 DEF Away, Parked
      <4> QED BY <1>5, <1>7, <2>1, <3>1, <4>1 DEF HandsOut, Away
    <3>2. CASE u # t
      <4>1. HandKept(u)
        BY <1>3, <1>4, <1>5, <2>1, <3>2 DEF HandKept
      <4>2. HandsOut(u, on)
        BY DEF WaitOn
      <4> QED BY <1>5, <1>6, <2>2, <4>1, <4>2, HandsKept
    <3> QED BY <3>1, <3>2
  <2> QED BY <2>3, <2>4 DEF WaitOn
<1>8. CASE ~(l = 2 /\ h # NULL)
  <2>1. getter' = getter /\ item' = item /\ cur' = cur /\ meta_wait_list' = meta_wait_list
    BY <1>3, <1>8 DEF getterVars
  <2>2. \A u \in Threads : HandKept(u)
    BY <1>3, <1>4, <1>5, <2>1 DEF HandKept
  <2> QED BY <1>4, <1>6, <2>1, <2>2, NoList
<1> QED BY <1>7, <1>8

(* The cell of a new item is cleared: whoever was still on its list is on  *)
(* none (rtoh.c:230-236).                                                  *)
LEMMA ClearKeepsLists ==
  ASSUME RegistryInv, TypeOK', MainSound, NEW on \in OnAList, WaitOn(on),
         InitItem \/ InitItemFails
  PROVE  \E on2 \in OnAList : WaitOn(on2)'
<1>1. TypeOK /\ OneOwner
  BY DEF RegistryInv, OwnerInv
<1>2. PICK it : it = main_item
  OBVIOUS
<1>3. /\ main_pc = "init" /\ next' = next /\ request' = request
      /\ key' = [key EXCEPT ![it] = request[main_conn].key]
      /\ level' = [level EXCEPT ![it] = 0]
      /\ meta_wait_list' = [meta_wait_list EXCEPT ![it] = NULL]
  BY <1>2 DEF InitItem, InitItemFails, connVars
<1>4. it \in Items /\ NULL \notin Items /\ main_conn \in Conns
  BY <1>1, <1>2, <1>3, LifecycleAssumption DEF TypeOK
<1>5. ConnsKept
  <2>1. \/ conn' = conn
        \/ \E after \in {"reading", "closed"} : conn' = [conn EXCEPT ![main_conn] = after]
    BY DEF InitItem, InitItemFails, connVars, Answered
  <2>2. conn[main_conn] = "handled"
    BY <1>3 DEF MainSound
  <2>3. \A c \in Conns : conn'[c] = "parked" <=> conn[c] = "parked"
    BY <1>1, <1>4, <2>1, <2>2 DEF TypeOK
  <2> QED BY <1>3, <2>3 DEF ConnsKept
<1>6. \A i \in Items : i # it => key'[i] = key[i] /\ level'[i] = level[i]
  BY <1>1, <1>3 DEF TypeOK
<1>7. ASSUME NEW t \in Threads
      PROVE  HandKept(t)
  <2>1. /\ getter'[t] \in {"answer", "advance"} => getter'[t] = getter[t]
        /\ getter'[t] \in {"answer", "advance"} => cur'[t] = cur[t] /\ item'[t] = item[t]
    <3>1. CASE InitItemFails
      BY <3>1 DEF InitItemFails, getterVars
    <3>2. CASE InitItem
      <4>1. PICK u \in Threads : GetterGoes(u, "connect", it, NULL, FALSE)
        BY <1>2, <3>2 DEF InitItem
      <4>2. CASE u = t
        BY <1>1, <4>1, <4>2 DEF GetterGoes, TypeOK
      <4>3. CASE u # t
        BY <1>1, <4>1, <4>3 DEF GetterGoes, TypeOK
      <4> QED BY <4>2, <4>3
    <3> QED BY <3>1, <3>2
  <2>2. ASSUME getter[t] \in {"answer", "advance"}
        PROVE  item[t] \in Items /\ item[t] # it
    <3>1. Live(t)
      BY <2>2 DEF Live
    <3>2. item[t] # it
      BY <1>1, <1>2, <1>3, <3>1 DEF OneOwner
    <3> QED BY <1>1, <2>2, <3>2 DEF TypeOK
  <2> QED BY <1>6, <2>1, <2>2 DEF HandKept
<1>8. PICK its \in SUBSET Items : its = {it}
  BY <1>4
<1>9. /\ \A i \in Items : meta_wait_list'[i] = IF i \in its THEN NULL ELSE meta_wait_list[i]
      /\ \A i \in Items \ its : key'[i] = key[i]
  BY <1>1, <1>3, <1>6, <1>8 DEF TypeOK
<1> QED BY <1>1, <1>5, <1>7, <1>9, Quiet

(* The main thread keeps the lists. *)
LEMMA MainKeepsLists ==
  ASSUME RegistryInv, TypeOK', MainSound, NEW on \in OnAList, WaitOn(on), MainThread
  PROVE  \E on2 \in OnAList : WaitOn(on2)'
<1>1. TypeOK
  BY DEF RegistryInv, OwnerInv
<1>2. CASE InitItem \/ InitItemFails
  BY <1>2, ClearKeepsLists
<1>3. CASE InsertItem
  <2>1. UNCHANGED <<itemVars, connVars, getterVars>>
    BY <1>3 DEF InsertItem
  <2>2. ConnsKept /\ (\A t \in Threads : HandKept(t)) /\ meta_wait_list' = meta_wait_list /\ key' = key
    BY <2>1 DEF ConnsKept, HandKept, itemVars, connVars, getterVars
  <2> QED BY <1>1, <2>2, NoList
<1>4. CASE MallocItem
  <2>1. /\ UNCHANGED <<itemVars, next, request, getterVars>>
        /\ \/ conn' = conn
           \/ \E after \in {"reading", "closed"} : conn' = [conn EXCEPT ![main_conn] = after]
        /\ main_pc = "malloc"
    BY <1>4 DEF MallocItem, Answered
  <2>2. conn[main_conn] = "handled" /\ main_conn \in Conns
    BY <1>1, <2>1 DEF MainSound, TypeOK
  <2>3. \A c \in Conns : conn'[c] = "parked" <=> conn[c] = "parked"
    BY <1>1, <2>1, <2>2 DEF TypeOK
  <2>4. ConnsKept /\ (\A t \in Threads : HandKept(t)) /\ meta_wait_list' = meta_wait_list /\ key' = key
    BY <2>1, <2>3 DEF ConnsKept, HandKept, itemVars, getterVars
  <2> QED BY <1>1, <2>4, NoList
<1>5. ASSUME NEW c \in Conns, NEW kind \in Kinds, NEW k \in Keys, FindItem(c, kind, k)
      PROVE  \E on2 \in OnAList : WaitOn(on2)'
  <2>1. /\ UNCHANGED <<itemVars, next, getterVars>> /\ conn[c] = "reading"
        /\ \E after \in {"handled", "reading", "closed"} : conn' = [conn EXCEPT ![c] = after]
        /\ request' = [request EXCEPT ![c] = [kind |-> kind, key |-> k]]
    BY <1>5 DEF FindItem, Answered
  <2>2. \A d \in Conns : conn'[d] = "parked" <=> conn[d] = "parked"
    BY <1>1, <2>1 DEF TypeOK
  <2>3. \A d \in Conns : conn[d] = "parked" => request'[d] = request[d]
    BY <1>1, <2>1 DEF TypeOK
  <2>4. ConnsKept /\ (\A t \in Threads : HandKept(t)) /\ meta_wait_list' = meta_wait_list /\ key' = key
    BY <2>1, <2>2, <2>3 DEF ConnsKept, HandKept, itemVars, getterVars
  <2> QED BY <1>1, <2>4, NoList
<1>6. CASE GenerateResponse
  <2>1. /\ main_pc = "generate" /\ UNCHANGED <<key, level, request, getterVars>>
        /\ \/ /\ level[main_item] = 0
              /\ conn' = [conn EXCEPT ![main_conn] = "parked"]
              /\ next' = [next EXCEPT ![main_conn] = meta_wait_list[main_item]]
              /\ meta_wait_list' = [meta_wait_list EXCEPT ![main_item] = main_conn]
           \/ /\ UNCHANGED <<next, meta_wait_list>>
              /\ \E after \in {"reading", "closed", "streaming", "mute"} :
                   conn' = [conn EXCEPT ![main_conn] = after]
    BY <1>6 DEF GenerateResponse, Answered
  <2>2. CASE /\ level[main_item] = 0
             /\ conn' = [conn EXCEPT ![main_conn] = "parked"]
             /\ next' = [next EXCEPT ![main_conn] = meta_wait_list[main_item]]
             /\ meta_wait_list' = [meta_wait_list EXCEPT ![main_item] = main_conn]
    BY <2>1, <2>2, ParkKeepsLists
  <2>3. CASE /\ UNCHANGED <<next, meta_wait_list>>
             /\ \E after \in {"reading", "closed", "streaming", "mute"} :
                  conn' = [conn EXCEPT ![main_conn] = after]
    <3>1. conn[main_conn] = "handled" /\ main_conn \in Conns
      BY <1>1, <2>1 DEF MainSound, TypeOK
    <3>2. \A c \in Conns : conn'[c] = "parked" <=> conn[c] = "parked"
      BY <1>1, <2>3, <3>1 DEF TypeOK
    <3>3. ConnsKept /\ (\A t \in Threads : HandKept(t)) /\ meta_wait_list' = meta_wait_list /\ key' = key
      BY <2>1, <2>3, <3>2 DEF ConnsKept, HandKept, getterVars
    <3> QED BY <1>1, <3>3, NoList
  <2> QED BY <2>1, <2>2, <2>3
<1> QED BY <1>2, <1>3, <1>4, <1>5, <1>6 DEF MainThread, MainStep

(* So does a getter, and it leaves alone whoever the main thread handles.  *)
LEMMA GetterKeepsLists ==
  ASSUME RegistryInv, MaxShortReads = 0, TypeOK', NEW on \in OnAList, WaitOn(on),
         NEW t \in Threads, GetterStep(t)
  PROVE  /\ \E on2 \in OnAList : WaitOn(on2)'
         /\ \A c \in Conns : conn[c] = "handled" => conn'[c] = "handled"
<1>1. TypeOK
  BY DEF RegistryInv, OwnerInv
<1>2. CASE DrainItem(t)
  BY <1>1, <1>2, DrainKeepsLists
<1>3. CASE AnswerParked(t)
  <2>1. WaitOn(on)'
    BY <1>1, <1>3, AnswerKeepsLists
  <2>2. \A c \in Conns : conn[c] = "handled" => conn'[c] = "handled"
    BY <1>1, <1>3 DEF AnswerParked, Answered, TypeOK
  <2> QED BY <2>1, <2>2
<1>4. CASE AdvanceParked(t)
  <2>1. WaitOn(on)'
    BY <1>1, <1>4, AdvanceKeepsLists
  <2>2. conn' = conn
    BY <1>4 DEF AdvanceParked, connVars
  <2> QED BY <2>1, <2>2
<1>5. CASE Publish(t)
  <2>1. conn' = conn
    BY <1>5 DEF Publish, connVars
  <2> QED BY <1>1, <1>5, <2>1, PublishKeepsLists
<1>6. CASE Connected(t) \/ StreamEnds(t) \/ AllAnswered(t) \/ DeleteItem(t) \/ FreeItem(t)
  <2>1. /\ UNCHANGED <<itemVars, connVars>>
        /\ getter'[t] \notin {"answer", "advance"}
        /\ \A u \in Threads : u # t =>
             getter'[u] = getter[u] /\ cur'[u] = cur[u] /\ item'[u] = item[u]
    BY <1>1, <1>6 DEF Connected, StreamEnds, AllAnswered, DeleteItem, FreeItem, GetterMoves,
                      GetterGoes, TypeOK, getterVars
  <2>2. ConnsKept /\ (\A u \in Threads : HandKept(u)) /\ meta_wait_list' = meta_wait_list /\ key' = key
    BY <2>1 DEF ConnsKept, HandKept, itemVars, connVars
  <2>3. conn' = conn
    BY <2>1 DEF connVars
  <2> QED BY <1>1, <2>2, <2>3, NoList
<1>7. ~ShortRead(t)
  <2>1. short_reads \in Nat
    BY <1>1 DEF TypeOK
  <2>2. ShortRead(t) => short_reads < MaxShortReads
    BY Zenon DEF ShortRead
  <2>3. ~(short_reads < MaxShortReads)
    BY <2>1
  <2> QED BY <2>2, <2>3, Zenon
<1> QED BY <1>2, <1>3, <1>4, <1>5, <1>6, <1>7 DEF GetterStep, Upstream, HandOver, Teardown

(* The main thread keeps to the connection and the item it is at. *)
LEMMA MainStaysSound ==
  ASSUME RegistryInv, TypeOK', MainSound, MainThread
  PROVE  MainSound'
<1>1. TypeOK
  BY DEF RegistryInv, OwnerInv
<1>2. ASSUME NEW c \in Conns, NEW kind \in Kinds, NEW k \in Keys, FindItem(c, kind, k)
      PROVE  MainSound'
  <2>1. /\ main_pc = "loop" /\ UNCHANGED <<itemVars, getterVars>>
        /\ request'[c].key = k
    BY <1>1, <1>2 DEF FindItem, TypeOK
  <2>2. CASE UNCHANGED mainVars
    BY <2>1, <2>2 DEF MainSound, mainVars
  <2>3. CASE conn'[c] = "handled" /\ MainGoes("malloc", c, NULL)
    BY <2>3 DEF MainSound, MainGoes
  <2>4. ASSUME NEW it \in Match(k), conn'[c] = "handled", MainGoes("generate", c, it)
        PROVE  MainSound'
    <3>1. /\ main_pc' = "generate" /\ main_conn' = c /\ main_item' = it
          /\ key' = key /\ getter' = getter /\ item' = item
      BY <2>1, <2>4 DEF MainGoes, itemVars, getterVars
    <3>2. it \in registered /\ key[it] = k
      BY DEF Match
    <3>3. PICK u \in Threads : Serving(u) /\ item[u] = it
      BY <3>2 DEF RegistryInv, RegisteredHasGetter
    <3>4. \A t \in Threads : Serving(t) /\ key[item[t]] = k => item[t] = it
      BY <3>2, <3>3, OneGetter DEF OneGetterPerKey
    <3> QED BY <2>1, <2>4, <3>1, <3>2, <3>4 DEF MainSound, Serving
  <2>5. \/ \E it \in Match(k) : conn' = [conn EXCEPT ![c] = "handled"] /\ MainGoes("generate", c, it)
        \/ conn' = [conn EXCEPT ![c] = "handled"] /\ MainGoes("malloc", c, NULL)
        \/ UNCHANGED mainVars
    BY <1>2 DEF FindItem
  <2>6. conn' = [conn EXCEPT ![c] = "handled"] => conn'[c] = "handled"
    BY <1>1 DEF TypeOK
  <2> QED BY <2>2, <2>3, <2>4, <2>5, <2>6
<1>3. CASE MallocItem
  <2>1. CASE \E it \in Items : MainGoes("init", main_conn, it) /\ UNCHANGED conn
    BY <1>3, <2>1 DEF MallocItem, MainSound, MainGoes
  <2>2. CASE MainReturns
    BY <2>2 DEF MainReturns, MainGoes, MainSound
  <2> QED BY <1>3, <2>1, <2>2 DEF MallocItem
<1>4. CASE InitItem
  BY <1>4 DEF InitItem, MainSound, MainGoes, connVars
<1>5. CASE InitItemFails \/ GenerateResponse
  <2>1. main_pc' = "loop"
    BY <1>5 DEF InitItemFails, GenerateResponse, MainReturns, MainGoes
  <2> QED BY <2>1 DEF MainSound
<1>6. CASE InsertItem
  <2>1. /\ main_pc = "insert" /\ UNCHANGED <<itemVars, connVars, getterVars>>
        /\ main_conn' = main_conn /\ main_item' = main_item
        /\ main_pc' \in {"insert", "generate"}
    BY <1>6 DEF InsertItem, MainGoes, mainVars
  <2>2. conn[main_conn] = "handled"
    BY <2>1 DEF MainSound
  <2>3. /\ key[main_item] = request[main_conn].key
        /\ \E u \in Threads : Serving(u) /\ item[u] = main_item
    BY <2>1 DEF RegistryInv, InsertIsServed
  <2>4. \A t \in Threads : Serving(t) /\ key[item[t]] = key[main_item] => item[t] = main_item
    BY <2>3, OneGetter DEF OneGetterPerKey
  <2> QED BY <2>1, <2>2, <2>3, <2>4 DEF MainSound, Serving, itemVars, connVars, getterVars
<1> QED BY <1>2, <1>3, <1>4, <1>5, <1>6 DEF MainThread, MainStep

(* What a getter does is nothing to it. *)
LEMMA GetterLeavesMain ==
  ASSUME RegistryInv, MaxShortReads = 0, MainSound, NEW t \in Threads, GetterStep(t),
         \A c \in Conns : conn[c] = "handled" => conn'[c] = "handled"
  PROVE  MainSound'
<1>1. TypeOK /\ OnceOnly
  BY DEF RegistryInv, OwnerInv
<1>2. /\ UNCHANGED <<mainVars, key, request>>
      /\ \A u \in Threads : Serving(u)' => Serving(u) /\ item'[u] = item[u]
  <2>1. CASE FreeItem(t)
    BY <1>1, <2>1, FreeItemEffect DEF Serving
  <2>2. CASE ~FreeItem(t)
    BY <1>1, <2>2, GetterKeepsItem DEF Serving
  <2> QED BY <2>1, <2>2
<1>3. main_pc # "loop" => main_conn \in Conns
  BY <1>1 DEF TypeOK
<1> QED BY <1>2, <1>3 DEF MainSound, mainVars

(* All is reading at the start. *)
LEMMA InitWait == Init => WaitInv
<1> SUFFICES ASSUME Init
             PROVE  WaitInv
  OBVIOUS
<1>1. RegistryInv
  BY InitRegistry
<1>2. MainSound
  BY DEF Init, MainSound
<1>3. PICK on : on = [c \in Conns |-> NULL]
  OBVIOUS
<1>4. on \in OnAList
  BY <1>3 DEF OnAList
<1>5. WaitOn(on)
  BY <1>3 DEF Init, WaitOn, ListsSound, HeadsSound, ListedSound, LinksSound, OneBefore, HandsOut,
              Wants, Parked
<1> QED BY <1>1, <1>2, <1>4, <1>5 DEF WaitInv

(* Every step keeps the lists apart. *)
LEMMA WaitStep == MaxShortReads = 0 /\ WaitInv /\ [Next]_vars => WaitInv'
<1> SUFFICES ASSUME MaxShortReads = 0, WaitInv, [Next]_vars
             PROVE  WaitInv'
  OBVIOUS
<1>1. RegistryInv /\ MainSound
  BY DEF WaitInv
<1>2. PICK on \in OnAList : WaitOn(on)
  BY DEF WaitInv
<1>3. RegistryInv' /\ TypeOK /\ TypeOK'
  <2>1. RegistryInv'
    BY <1>1, RegistryStep
  <2> QED BY <1>1, <2>1 DEF RegistryInv, OwnerInv
<1>4. MainSound' /\ \E on2 \in OnAList : WaitOn(on2)'
  <2>1. CASE MainThread
    BY <1>1, <1>2, <1>3, <2>1, MainKeepsLists, MainStaysSound
  <2>2. ASSUME NEW t \in Threads, GetterStep(t)
        PROVE  MainSound' /\ \E on2 \in OnAList : WaitOn(on2)'
    BY <1>1, <1>2, <1>3, <2>2, GetterKeepsLists, GetterLeavesMain
  <2>3. CASE UNCHANGED vars \/ \E c \in Conns : ClientStep(c)
    <3>1. /\ UNCHANGED <<itemVars, mainVars, getterVars, request>>
          /\ \A c \in Conns : /\ conn'[c] = "parked" <=> conn[c] = "parked"
                              /\ conn[c] = "parked" => next'[c] = next[c]
                              /\ next'[c] \in {next[c], NULL}
                              /\ conn[c] = "handled" => conn'[c] = "handled"
      BY <1>3, <2>3 DEF vars, connVars, ClientStep, Accept, StreamingEnds, Answered, TypeOK
    <3>2. MainSound'
      BY <1>1, <1>3, <3>1 DEF MainSound, mainVars, itemVars, getterVars, Serving, TypeOK
    <3>3. ConnsKept /\ (\A t \in Threads : HandKept(t)) /\ meta_wait_list' = meta_wait_list /\ key' = key
      BY <3>1 DEF ConnsKept, HandKept, itemVars, getterVars
    <3> QED BY <1>2, <1>3, <3>2, <3>3, NoList
  <2> QED BY <2>1, <2>2, <2>3 DEF Next
<1> QED BY <1>3, <1>4 DEF WaitInv

(* No step of any thread puts a connection on two lists or leaves one on a *)
(* list it does not wait on, although a getter follows a next pointer      *)
(* after it has answered the connection (rtoh.c:365-368, thread.c:534-544).*)
THEOREM WaitListsSoundCorrect == MaxShortReads = 0 => (Spec => []WaitListsSound)
<1> SUFFICES ASSUME MaxShortReads = 0 PROVE Spec => []WaitListsSound
  OBVIOUS
<1>1. Init => WaitInv BY InitWait
<1>2. WaitInv /\ [Next]_vars => WaitInv' BY WaitStep
<1>3. WaitInv => WaitListsSound
  <2> SUFFICES ASSUME WaitInv
               PROVE  WaitListsSound
    OBVIOUS
  <2>1. PICK on \in OnAList : ListsSound(on)
    BY DEF WaitInv, WaitOn
  <2>2. TypeOK
    BY DEF WaitInv, RegistryInv, OwnerInv
  <2>3. \A it \in Items : \A c \in ListFrom(meta_wait_list[it]) : on[c] = it /\ c \in Conns
    <3> TAKE it \in Items
    <3>1. meta_wait_list[it] \in Conns \union {NULL}
      BY <2>2 DEF TypeOK
    <3> QED BY <2>1, <2>2, <3>1, OnListed, ListFromIs
  <2>4. \A it \in Items : \A c \in ListFrom(meta_wait_list[it]) :
          conn[c] = "parked" /\ request[c].key = key[it]
    BY <2>1, <2>3, LifecycleAssumption DEF ListsSound, ListedSound, Wants, Parked
  <2>5. \A it1, it2 \in Items :
          it1 # it2 => ListFrom(meta_wait_list[it1]) \intersect ListFrom(meta_wait_list[it2]) = {}
    BY <2>3
  <2> QED BY <2>4, <2>5 DEF WaitListsSound
<1> QED BY <1>1, <1>2, <1>3, PTL DEF Spec

=============================================================================
