--------------------------- MODULE BlockStreaming ---------------------------
(***************************************************************************)
(* How a block is sent while it is still being filled: the header and then *)
(* the pieces of the chain (rtoh.c:576-674), readers that have caught up   *)
(* and wait on the block's list (rtoh.c:622-628), the getter that appends  *)
(* a piece and wakes them (thread.c:434-552), the reference count on the   *)
(* head of a chain and the pool that freed pieces go back to               *)
(* (thread.c:27-90).                                                       *)
(*                                                                         *)
(* Two threads run on_write_piece: the main thread for a connection whose  *)
(* socket is writable, the getter for those it wakes.  Only the appending, *)
(* the look-up and the parking are under it->lock; a reader that has had   *)
(* all of its block gives its reference back, tests it and frees the chain *)
(* without, each of which is a step of its own here.  A piece is a cell of *)
(* the pool; a freed cell keeps its contents until it is handed out again, *)
(* as in the code.                                                         *)
(*                                                                         *)
(* The bounds and the refusal of blocks outside them are in BlockRing;     *)
(* here Group plays the 4 of the code and Slots the 12.  Where the code    *)
(* has corrupted what it works on, status says how, and nothing more is    *)
(* said of the behaviour:                                                  *)
(*   "stale"        a slot is used whose pieces have been freed            *)
(*   "double_free"  a piece is freed that is free, or being filled         *)
(*   "dangling"     a freed piece has been handed out again before its     *)
(*                  next is read, and that leads elsewhere                 *)
(*   "null_piece"   a piece is needed of a request that has none           *)
(*   "astray"       the getter's walk meets a connection it has not taken  *)
(*   "crossed"      one connection is driven by both threads, or put on a  *)
(*                  list while it is on one                                *)
(*   "destroyed"    a connection is closed that the other thread works on, *)
(*                  or that is on a list                                   *)
(***************************************************************************)
EXTENDS Integers, SequencesExt, FiniteSets

CONSTANTS
  Conns,        \* connections
  NULL,
  Group,        \* blocks filled at a time, and pieces of a block (the 4 of thread.c:436)
  Slots,        \* BLOCK_LIST_MAX
  NumPieces,    \* cells of the piece pool
  MaxIndex,     \* bound: the source stops after this piece
  Asks,         \* what clients ask for: subset of {"complete", "open", "ahead"}
  WriteErrors   \* can a write to a client fail?

ASSUME StreamingAssumption ==
  /\ IsFiniteSet(Conns)
  /\ Group \in Nat \ {0}
  /\ Slots \in Nat \ {0} /\ Slots % Group = 0
  /\ NumPieces \in Nat /\ MaxIndex \in Nat
  /\ Asks \subseteq {"complete", "open", "ahead"}
  /\ WriteErrors \in BOOLEAN
  /\ NULL \notin Conns \union (0 .. NumPieces)

Pieces == 1 .. NumPieces
Threads == {"main", "getter"}

BlockOf(n) == (n % Group) + (n \div (Group * Group)) * Group
SlotOf(b) == b % Slots
Position(n) == (n % (Group * Group)) \div Group
(* Fault: the end of a block is seen one piece early. *)
FaultTailOneEarly(n) == Position(n) >= Group - 2

IsTail(n) == Position(n) = Group - 1

VARIABLES
  pool,         \* the free pieces, in the order of the list piece_head
  holds,        \* index of the source's piece a cell holds, or NULL
  next,         \* piece->next
  ref,          \* piece->ref
  block,        \* the slots: [id, head, tail, wait_list]
  wait_list,    \* it->wait_list
  index,        \* index of the piece the source sends next
  piece,        \* the getter's piece in assembly
  bp,           \* the piece after it, if it has taken that already
  walk,         \* the getter's local wait_list, from the connection at hand
  conn,         \* where a connection is: "idle", "serving", on a list, ...
  pending,      \* the write event it has: "none", "header" or "piece"
  request,      \* the block it asked for, and its slot
  at,           \* conn->piece
  piece_head,   \* conn->piece_head
  hand,         \* the connection each thread is serving ...
  step,         \* ... and what it is about to do
  val,          \* the piece whose count a thread has loaded, to store the changed one, and it
  got,          \* history: pieces of the block sent to the client
  overtaken,    \* history: readers that parked beside a piece already appended, till
                \* their next request
  forgotten,    \* history: waiters the getter's walk has missed
  leaked,       \* history: pieces a reader was about to free and could not find any more
  reused,       \* history: threads whose freed piece was handed out before they read its next
  raced,        \* history: have two threads let go of one chain at the same time?
  stale,        \* history: slots whose chain was freed under the ring
  lost,         \* history: readers whose chain was freed under them
  status        \* "up", or why nothing more is said

poolVars == <<pool, holds, next, ref>>
getterVars == <<index, piece, bp, walk>>
threadVars == <<hand, step, val>>
connVars == <<conn, pending, request, at, piece_head>>
histories == <<overtaken, forgotten, leaked, reused, raced, stale>>
codeVars == <<poolVars, block, wait_list, getterVars, connVars, threadVars, got, histories, status>>
vars == <<codeVars, lost>>

(* No count is loaded. *)
NoVal == [p |-> NULL, n |-> 0]

Init ==
  /\ pool = [i \in 1 .. NumPieces |-> i]
  /\ holds = [p \in Pieces |-> NULL]
  /\ next = [p \in Pieces |-> NULL]
  /\ ref = [p \in Pieces |-> 0]
  /\ block = [s \in 0 .. Slots - 1 |->
                [id |-> 0, head |-> NULL, tail |-> NULL, wait_list |-> <<>>]]
  /\ wait_list = <<>>
  /\ index = Group * Group      \* the stream is joined where a group starts
  /\ piece = NULL /\ bp = NULL
  /\ walk = <<>>
  /\ conn = [c \in Conns |-> "idle"]
  /\ pending = [c \in Conns |-> "none"]
  /\ request = [c \in Conns |-> [id |-> NULL, slot |-> NULL]]
  /\ at = [c \in Conns |-> NULL]
  /\ piece_head = [c \in Conns |-> NULL]
  /\ hand = [t \in Threads |-> NULL]
  /\ step = [t \in Threads |-> "return"]
  /\ val = [t \in Threads |-> NoVal]
  /\ got = [c \in Conns |-> 0]
  /\ overtaken = {} /\ forgotten = {} /\ leaked = {} /\ reused = {} /\ raced = FALSE
  /\ stale = {}
  /\ lost = {}
  /\ status = "up"

Ends(why) ==
  /\ status' = why
  /\ UNCHANGED <<poolVars, block, wait_list, getterVars, connVars, threadVars, got, histories>>

(* The main thread is in the critical section of a request, or of a header *)
(* that has failed.                                                        *)
Locked == hand["main"] # NULL /\ step["main"] \in {"count", "headref", "headtest"}

-----------------------------------------------------------------------------
(* Chains and the pool. *)

(* The pieces from p on, in order, as far as next leads; a block has Group *)
(* of them, and a reader overtaken by another block's pieces no more than  *)
(* that again.                                                             *)
Chain(p) ==
  LET Extend(l) == IF l # <<>> /\ next[Last(l)] # NULL THEN Append(l, next[Last(l)]) ELSE l
      link[n \in 0 .. 2 * Group] ==
        IF n = 0 THEN IF p = NULL THEN <<>> ELSE <<p>>
        ELSE LET l == link[n - 1] IN Extend(l)
  IN  link[2 * Group]

(* The pool after the chain is freed piece by piece, the last one on top. *)
FreeChain(p) == Reverse(Chain(p)) \o pool

(* The slots whose chain has a piece among those. *)
SlotsOf(pieces) ==
  {s \in DOMAIN block : pieces \intersect ToSet(Chain(block[s].head)) # {}}

-----------------------------------------------------------------------------
(* The getter. *)

(* A cell is taken from the pool and its fields are set (thread.c:231-250, *)
(* 337-353).  If a thread has just freed it and not yet read its next, the *)
(* pieces behind it are not found any more.  At the end of the pool the    *)
(* code allocates more of it; NumPieces bounds that.                       *)
Takes(p) ==
  LET behind == {t \in Threads : hand[t] # NULL /\ step[t] = "follow" /\ piece_head[hand[t]] = p}
  IN  /\ pool' = Tail(pool)
      /\ next' = [next EXCEPT ![p] = NULL]
      /\ ref' = [ref EXCEPT ![p] = 0]
      /\ reused' = reused \union behind
      /\ leaked' = IF behind = {} \/ next[p] = NULL THEN leaked
                   ELSE leaked \union ToSet(Chain(next[p]))

(* Fault: the end of the list is not noticed. *)
FaultMallocPastEnd ==
  /\ piece = NULL /\ walk = <<>> /\ index <= MaxIndex
  /\ piece' = IF pool = <<>> THEN 0 ELSE Head(pool)
  /\ pool' = IF pool = <<>> THEN <<>> ELSE Tail(pool)
  /\ UNCHANGED <<holds, next, ref, block, wait_list, index, bp, walk, connVars, threadVars, got,
                 histories, status>>

(* The getter starts a piece, unless it has one from the time before. *)
MallocPiece ==
  /\ piece = NULL /\ walk = <<>>
  /\ pool # <<>> /\ index <= MaxIndex
  /\ piece' = Head(pool)
  /\ Takes(Head(pool))
  /\ UNCHANGED <<holds, block, wait_list, index, bp, walk, connVars, threadVars, got, overtaken,
                 forgotten, raced, stale, status>>

(* More has come than its piece takes: the next one gets the rest          *)
(* (thread.c:335-353).                                                     *)
MallocNext ==
  /\ piece # NULL /\ bp = NULL /\ walk = <<>>
  /\ pool # <<>> /\ index < MaxIndex
  /\ bp' = Head(pool)
  /\ Takes(Head(pool))
  /\ UNCHANGED <<holds, block, wait_list, index, piece, walk, connVars, threadVars, got, overtaken,
                 forgotten, raced, stale, status>>

(* Fault: the waiters are left on the block. *)
FaultAppendNoWake(s) ==
  /\ next' = [next EXCEPT ![block[s].tail] = piece]
  /\ block' = [block EXCEPT ![s].tail = piece]
  /\ walk' = <<>>
  /\ UNCHANGED <<pool, wait_list, raced>>

(* The piece goes to the end of the block's chain (thread.c:499-506); its  *)
(* waiters become the getter's (thread.c:529-533).                         *)
AppendToBlock(s) ==
  /\ next' = [next EXCEPT ![block[s].tail] = piece]
  /\ block' = [block EXCEPT ![s].tail = piece, ![s].wait_list = <<>>]
  /\ walk' = block[s].wait_list
  /\ UNCHANGED <<pool, wait_list, raced>>

(* The walk over the item's list: requests for block b leave it, each in   *)
(* front of those before it, and the others stay (thread.c:487-497).       *)
Due(b, list) ==
  LET moved[n \in 0 .. Len(wait_list)] ==
        IF n = 0 THEN list
        ELSE IF request[wait_list[n]].id = b THEN <<wait_list[n]>> \o moved[n - 1]
        ELSE moved[n - 1]
  IN  moved[Len(wait_list)]

StillAhead(b) ==
  LET kept[n \in 0 .. Len(wait_list)] ==
        IF n = 0 THEN <<>>
        ELSE IF request[wait_list[n]].id = b THEN kept[n - 1]
        ELSE Append(kept[n - 1], wait_list[n])
  IN  kept[Len(wait_list)]

(* Fault: the chain is freed whoever still reads it. *)
FaultOpenFrees(s, b) ==
  /\ pool' = FreeChain(block[s].head)
  /\ block' = [block EXCEPT ![s] =
                 [id |-> b, head |-> piece, tail |-> piece, wait_list |-> <<>>]]
  /\ wait_list' = StillAhead(b)
  /\ walk' = Due(b, block[s].wait_list)
  /\ UNCHANGED <<next, raced>>

(* A thread has given its reference to a chain back and frees it, if it    *)
(* was the last; it has not begun to.                                      *)
LetsGo(t, h) == hand[t] # NULL /\ step[t] \in {"test", "free"} /\ piece_head[hand[t]] = h

(* The piece starts a block and evicts the one in the slot, whose pieces   *)
(* are freed if nobody references its head, whoever is about to free them. *)
(* Requests parked for the new block are put in front of the slot's        *)
(* waiters, one by one, and all of them become the getter's                *)
(* (thread.c:449-498, 529-533).                                            *)
OpenBlock(s, b) ==
  LET h     == block[s].head
      frees == h # NULL /\ ref[h] = 0
  IN  /\ pool' = IF frees THEN FreeChain(h) ELSE pool
      /\ raced' = (raced \/ (frees /\ \E t \in Threads : LetsGo(t, h)))
      /\ block' = [block EXCEPT ![s] =
                     [id |-> b, head |-> piece, tail |-> piece, wait_list |-> <<>>]]
      /\ wait_list' = StillAhead(b)
      /\ walk' = Due(b, block[s].wait_list)
      /\ UNCHANGED next

(* A data piece is complete and is published under it->lock. *)
Publish ==
  LET b == BlockOf(index)
      s == SlotOf(b)
  IN  /\ piece # NULL /\ walk = <<>> /\ ~Locked
      /\ s \notin stale
      /\ IF block[s].id = b THEN AppendToBlock(s) ELSE OpenBlock(s, b)
      /\ holds' = [holds EXCEPT ![piece] = index]
      /\ index' = index + 1
      /\ piece' = bp /\ bp' = NULL
      /\ conn' = [c \in Conns |-> IF c \in ToSet(walk') THEN "woken" ELSE conn[c]]
      /\ UNCHANGED <<ref, pending, request, at, piece_head, threadVars, got, overtaken, forgotten,
                     leaked, reused, stale, status>>

(* It looks into a slot whose pieces have been freed. *)
PublishStale ==
  /\ piece # NULL /\ walk = <<>> /\ ~Locked
  /\ SlotOf(BlockOf(index)) \in stale
  /\ Ends("stale")

(* The getter turns to the next connection and runs on_write_piece on it   *)
(* with the piece just published (thread.c:545-550).  It does not look     *)
(* whether the connection's header is out.                                 *)
Wake ==
  LET c == walk[1]
      s == SlotOf(BlockOf(index - 1))
  IN  /\ walk # <<>> /\ step["getter"] = "return"
      /\ conn[c] = "woken"
      /\ conn' = [conn EXCEPT ![c] = "serving"]
      /\ at' = [at EXCEPT ![c] = block[s].tail]
      /\ piece_head' = [piece_head EXCEPT ![c] = block[s].head]
      /\ request' = [request EXCEPT ![c].slot = s]
      /\ hand' = [hand EXCEPT !["getter"] = c]
      /\ step' = [step EXCEPT !["getter"] = "write"]
      /\ UNCHANGED <<poolVars, block, wait_list, getterVars, pending, val, got, histories, status>>

(* It meets a connection that is on another list, or closed. *)
WakeAstray ==
  /\ walk # <<>> /\ step["getter"] = "return"
  /\ conn[walk[1]] # "woken"
  /\ Ends("astray")

(* What conn->next of the connection just served leads to.  If it has been *)
(* parked since, by the getter or by the main thread for its next request, *)
(* it is on another list, and those are the connections behind it there;   *)
(* if it was closed, its next is cleared when a new client gets the struct *)
(* (rtoh.c:878).                                                           *)
After(l, c) == SubSeq(l, SelectInSeq(l, LAMBDA x : x = c) + 1, Len(l))

Behind(c) ==
  CASE conn[c] = "parked" -> {After(block[request[c].slot].wait_list, c)}
    [] conn[c] = "ahead"  -> {After(wait_list, c)}
    [] conn[c] = "closed" -> {Tail(walk), <<>>}
    [] OTHER              -> {Tail(walk)}

(* Fault: every second connection is served. *)
FaultNextWaiter ==
  /\ walk # <<>> /\ step["getter"] = "next"
  /\ \E rest \in Behind(walk[1]) :
       /\ walk' = IF rest = <<>> THEN <<>> ELSE Tail(rest)
       /\ forgotten' = IF conn[walk[1]] \in {"parked", "ahead", "closed"}
                       THEN forgotten \union (ToSet(Tail(walk)) \ ToSet(rest)) ELSE forgotten
  /\ step' = [step EXCEPT !["getter"] = "return"]
  /\ UNCHANGED <<poolVars, block, wait_list, index, piece, bp, connVars, hand, val, got, overtaken,
                 leaked, reused, raced, stale, status>>

(* wait_list = wait_list->next, with no lock, some time after              *)
(* on_write_piece has returned (thread.c:551).                             *)
NextWaiter ==
  /\ walk # <<>> /\ step["getter"] = "next"
  /\ walk' \in Behind(walk[1])
  /\ forgotten' = IF conn[walk[1]] \in {"parked", "ahead", "closed"}
                  THEN forgotten \union (ToSet(Tail(walk)) \ ToSet(walk')) ELSE forgotten
  /\ step' = [step EXCEPT !["getter"] = "return"]
  /\ UNCHANGED <<poolVars, block, wait_list, index, piece, bp, connVars, hand, val, got, overtaken,
                 leaked, reused, raced, stale, status>>

-----------------------------------------------------------------------------
(* Requests: the main thread. *)

(* A thread is done with its connection; the getter goes on to the next. *)
Returns(t) ==
  /\ hand' = [hand EXCEPT ![t] = NULL]
  /\ step' = [step EXCEPT ![t] = IF t = "getter" THEN "next" ELSE "return"]

Held(b) == block[SlotOf(b)].id = b /\ block[SlotOf(b)].head # NULL

Asked(b) ==
  IF ~Held(b) THEN "ahead"
  ELSE IF IsTail(holds[block[SlotOf(b)].tail]) THEN "complete" ELSE "open"

Requestable == {b \in {BlockOf(n) : n \in Group * Group .. MaxIndex} :
                  /\ Held(b) \/ b > BlockOf(index - 1)
                  /\ Asked(b) \in Asks}

(* Fault: the reader does not count. *)
FaultCounted ==
  LET c == hand["main"]
  IN  /\ c # NULL /\ step["main"] = "count"
      /\ step' = [step EXCEPT !["main"] = "header"]
      /\ val' = [val EXCEPT !["main"] = NoVal]
      /\ UNCHANGED <<poolVars, block, wait_list, getterVars, connVars, hand, got, histories, status>>

(* A connection that is free for its next request, and no event of the     *)
(* last one left.                                                          *)
MayAsk(c) == hand["main"] = NULL /\ conn[c] = "idle" /\ pending[c] = "none"

(* do_generate_response finds the block and takes a reference on its head  *)
(* (rtoh.c:379-396): the count is loaded ...                               *)
RequestHeld(c, b) ==
  LET s == SlotOf(b)
      h == block[s].head
  IN  /\ MayAsk(c) /\ Held(b) /\ s \notin stale
      /\ conn' = [conn EXCEPT ![c] = "serving"]
      /\ at' = [at EXCEPT ![c] = h]
      /\ piece_head' = [piece_head EXCEPT ![c] = h]
      /\ request' = [request EXCEPT ![c] = [id |-> b, slot |-> s]]
      /\ got' = [got EXCEPT ![c] = 0]
      /\ hand' = [hand EXCEPT !["main"] = c]
      /\ step' = [step EXCEPT !["main"] = "count"]
      /\ val' = [val EXCEPT !["main"] = [p |-> h, n |-> ref[h]]]
      /\ overtaken' = overtaken \ {c}
      /\ UNCHANGED <<poolVars, block, wait_list, getterVars, pending, forgotten, leaked, reused,
                     raced, stale, status>>

(* ... and stored, still under the lock, which the getter does not take    *)
(* when it gives a reference back.                                         *)
Counted ==
  LET c == hand["main"]
  IN  /\ c # NULL /\ step["main"] = "count"
      /\ ref' = [ref EXCEPT ![val["main"].p] = val["main"].n + 1]
      /\ step' = [step EXCEPT !["main"] = "header"]
      /\ val' = [val EXCEPT !["main"] = NoVal]
      /\ UNCHANGED <<pool, holds, next, block, wait_list, getterVars, connVars, hand, got, histories,
                     status>>

RequestStale(c, b) ==
  /\ MayAsk(c) /\ Held(b)
  /\ SlotOf(b) \in stale
  /\ Ends("stale")

(* It does not: the request waits on the item's list, and then its header  *)
(* is written (rtoh.c:398-405).                                            *)
RequestAhead(c, b) ==
  /\ MayAsk(c) /\ ~Held(b)
  /\ wait_list' = Cons(c, wait_list)
  /\ conn' = [conn EXCEPT ![c] = "ahead"]
  /\ at' = [at EXCEPT ![c] = NULL]
  /\ request' = [request EXCEPT ![c].id = b]
  /\ got' = [got EXCEPT ![c] = 0]
  /\ hand' = [hand EXCEPT !["main"] = c]
  /\ step' = [step EXCEPT !["main"] = "header"]
  /\ overtaken' = overtaken \ {c}
  /\ UNCHANGED <<poolVars, block, getterVars, pending, piece_head, val, forgotten, leaked, reused,
                 raced, stale, status>>

(* on_write_piece may not be entered for c: the getter is in it, or has    *)
(* put the connection on a list, or ended its reply, since the main thread *)
(* began with the header or got the event.                                 *)
Taken(c) == hand["getter"] = c \/ conn[c] # "serving"

(* The event loop finds the socket of a connection writable. *)
Writable(c) ==
  /\ hand["main"] = NULL
  /\ pending[c] = "header" \/ (pending[c] = "piece" /\ ~Taken(c))
  /\ pending' = [pending EXCEPT ![c] = "none"]
  /\ hand' = [hand EXCEPT !["main"] = c]
  /\ step' = [step EXCEPT !["main"] = IF pending[c] = "header" THEN "header" ELSE "write"]
  /\ UNCHANGED <<poolVars, block, wait_list, getterVars, conn, request, at, piece_head, val, got,
                 histories, status>>

(* An event of a connection that the getter has taken, or that has been    *)
(* left behind by the last reply.                                          *)
EventCrosses(c) ==
  /\ hand["main"] = NULL
  /\ \/ pending[c] = "piece" /\ Taken(c)
     \/ pending[c] # "none" /\ conn[c] = "idle"
  /\ Ends("crossed")

-----------------------------------------------------------------------------
(* on_write_header and on_write_piece. *)

(* All of the header is out: on with the pieces if there are any by then   *)
(* (rtoh.c:663-666).                                                       *)
HeaderSent(c) ==
  /\ hand["main"] = c /\ step["main"] = "header"
  /\ at[c] # NULL => ~Taken(c)
  /\ IF at[c] = NULL THEN Returns("main")
     ELSE step' = [step EXCEPT !["main"] = "write"] /\ UNCHANGED hand
  /\ UNCHANGED <<poolVars, block, wait_list, getterVars, connVars, val, got, histories, status>>

HeaderCrosses(c) ==
  /\ hand["main"] = c /\ step["main"] = "header"
  /\ at[c] # NULL /\ Taken(c)
  /\ Ends("crossed")

(* The socket takes no more: wait for it (rtoh.c:629-633, 667-671).  The   *)
(* event may be there for the header already; it is for the piece now, and *)
(* the rest of the header is never sent.                                   *)
WouldBlock(t) ==
  LET c == hand[t]
  IN  /\ c # NULL /\ step[t] \in {"header", "write"}
      /\ pending' = [pending EXCEPT ![c] = IF step[t] = "header" THEN "header" ELSE "piece"]
      /\ Returns(t)
      /\ UNCHANGED <<poolVars, block, wait_list, getterVars, conn, request, at, piece_head, val, got,
                     histories, status>>

(* destroy_conn: the socket is closed and its events are deleted. *)
Closes(c) == /\ conn' = [conn EXCEPT ![c] = "closed"]
             /\ pending' = [pending EXCEPT ![c] = "none"]

OtherHas(t, c) == \E u \in Threads \ {t} : hand[u] = c

(* It is on a list of its slot, or on the getter's. *)
Waits(c) == conn[c] \in {"parked", "woken"}

(* Writing the header fails: the reference goes back ...                   *)
HeaderFails(c) ==
  /\ WriteErrors
  /\ hand["main"] = c /\ step["main"] = "header" /\ at[c] # NULL
  /\ step' = [step EXCEPT !["main"] = "headref"]
  /\ val' = [val EXCEPT !["main"] = [p |-> at[c], n |-> ref[at[c]]]]
  /\ UNCHANGED <<poolVars, block, wait_list, getterVars, connVars, hand, got, histories, status>>

(* ... the piece with it if it was the last one, and the connection is     *)
(* closed (rtoh.c:649-657).                                                *)
HeaderDropped ==
  LET c == hand["main"]
      p == at[c]
  IN  /\ c # NULL /\ step["main"] = "headtest"
      /\ ref[p] = 0 => p \notin ToSet(pool) \union {piece, bp}
      /\ p = val["main"].p /\ ~OtherHas("main", c) /\ ~Waits(c)
      /\ IF ref[p] = 0 THEN /\ pool' = Cons(p, pool)
                            /\ stale' = stale \union SlotsOf({p})
                            /\ raced' = (raced \/ LetsGo("getter", p))
                       ELSE UNCHANGED <<pool, stale, raced>>
      /\ Closes(c)
      /\ Returns("main")
      /\ val' = [val EXCEPT !["main"] = NoVal]
      /\ UNCHANGED <<holds, next, ref, block, wait_list, getterVars, request, at, piece_head, got, overtaken, forgotten, leaked, reused, status>>

HeaderDropsAgain ==
  LET c == hand["main"]
  IN  /\ c # NULL /\ step["main"] = "headtest"
      /\ \/ /\ ref[at[c]] = 0 /\ at[c] \in ToSet(pool) \union {piece, bp}
            /\ Ends("double_free")
         \/ /\ at[c] # val["main"].p \/ OtherHas("main", c) \/ Waits(c)
            /\ Ends("destroyed")

(* A request for a block to come has no piece to give back.                *)
HeaderFailsNoPiece(c) ==
  /\ WriteErrors
  /\ hand["main"] = c /\ step["main"] = "header" /\ at[c] = NULL
  /\ Ends("null_piece")

(* Writing a piece fails: the connection is closed and the reference kept  *)
(* (rtoh.c:588-597).                                                       *)
PieceFails(t) ==
  LET c == hand[t]
  IN  /\ WriteErrors
      /\ c # NULL /\ step[t] = "write" /\ ~OtherHas(t, c)
      /\ Closes(c)
      /\ Returns(t)
      /\ UNCHANGED <<poolVars, block, wait_list, getterVars, request, at, piece_head, val, got,
                     histories, status>>

PieceFailsInUse(t) ==
  LET c == hand[t]
  IN  /\ WriteErrors
      /\ c # NULL /\ step[t] = "write" /\ OtherHas(t, c)
      /\ Ends("destroyed")

(* A piece is out and has a successor (rtoh.c:603-608). *)
PieceSent(t) ==
  LET c == hand[t]
      p == at[c]
  IN  /\ c # NULL /\ step[t] = "write" /\ next[p] # NULL
      /\ at' = [at EXCEPT ![c] = next[p]]
      /\ got' = [got EXCEPT ![c] = @ + 1]
      /\ UNCHANGED <<poolVars, block, wait_list, getterVars, conn, pending, request, piece_head,
                     threadVars, histories, status>>

(* Fault: nothing is done at the end of a block, as if more were to come. *)
FaultTailStays(t) ==
  LET c == hand[t]
  IN  /\ c # NULL /\ step[t] = "write" /\ next[at[c]] = NULL /\ IsTail(holds[at[c]])
      /\ Returns(t)
      /\ UNCHANGED <<poolVars, block, wait_list, getterVars, connVars, val, got, histories, status>>

(* The block's last piece is out, and the reference goes back, with no     *)
(* lock (rtoh.c:609-610): it is loaded ...                                 *)
TailSent(t) ==
  LET c == hand[t]
  IN  /\ c # NULL /\ step[t] = "write" /\ next[at[c]] = NULL /\ IsTail(holds[at[c]])
      /\ got' = [got EXCEPT ![c] = @ + 1]
      /\ step' = [step EXCEPT ![t] = "ref"]
      /\ val' = [val EXCEPT ![t] = [p |-> piece_head[c], n |-> ref[piece_head[c]]]]
      /\ UNCHANGED <<poolVars, block, wait_list, getterVars, connVars, hand, histories, status>>

(* ... and stored. *)
GivenBack(t) ==
  /\ hand[t] # NULL /\ step[t] \in {"ref", "headref"}
  /\ ref' = [ref EXCEPT ![val[t].p] = val[t].n - 1]
  /\ step' = [step EXCEPT ![t] = IF step[t] = "ref" THEN "test" ELSE "headtest"]
  /\ val' = [val EXCEPT ![t].n = 0]
  /\ UNCHANGED <<pool, holds, next, block, wait_list, getterVars, connVars, hand, got, histories,
                 status>>

(* The reply is over, and the connection back with the event loop; if an   *)
(* event was left for its header, that is for on_read now                  *)
(* (rtoh.c:617-620).                                                       *)
Ended(t, c) == /\ conn' = [conn EXCEPT ![c] = "idle"]
               /\ pending' = [pending EXCEPT ![c] = "none"]
               /\ Returns(t)

(* The count is looked at: somebody else reads the chain ...               *)
NotLast(t) ==
  LET c == hand[t]
  IN  /\ c # NULL /\ step[t] = "test" /\ ref[piece_head[c]] # 0
      /\ Ended(t, c)
      /\ val' = [val EXCEPT ![t] = NoVal]
      /\ UNCHANGED <<poolVars, block, wait_list, getterVars, request, at, piece_head, got, histories,
                     status>>

(* ... or it was the last reference, and the chain is freed, whether or    *)
(* not the ring still has it (rtoh.c:611-616).                             *)
LastReader(t) ==
  LET c == hand[t]
  IN  /\ c # NULL /\ step[t] = "test" /\ ref[piece_head[c]] = 0
      /\ step' = [step EXCEPT ![t] = "free"]
      /\ val' = [val EXCEPT ![t] = NoVal]
      /\ raced' = (raced \/ \E u \in Threads \ {t} :
                      /\ hand[u] # NULL /\ step[u] \in {"test", "free", "follow", "headtest"}
                      /\ request[hand[u]].id = request[c].id)
      /\ UNCHANGED <<poolVars, block, wait_list, getterVars, connVars, hand, got, overtaken, forgotten,
                     leaked, reused, stale, status>>

(* A piece is freed ... *)
FreeHead(t) ==
  LET c == hand[t]
      p == piece_head[c]
  IN  /\ c # NULL /\ step[t] = "free"
      /\ p \notin ToSet(pool) \union {piece, bp}
      /\ pool' = Cons(p, pool)
      /\ stale' = stale \union SlotsOf({p})
      /\ step' = [step EXCEPT ![t] = "follow"]
      /\ UNCHANGED <<holds, next, ref, block, wait_list, getterVars, connVars, hand, val, got,
                     overtaken, forgotten, leaked, reused, raced, status>>

(* ... that is free, or that the getter is filling ... *)
FreeAgain(t) ==
  LET c == hand[t]
  IN  /\ c # NULL /\ step[t] = "free"
      /\ piece_head[c] \in ToSet(pool) \union {piece, bp}
      /\ Ends("double_free")

(* ... and then its next is read, to go on with that (rtoh.c:613-614).     *)
FollowFreed(t) ==
  LET c == hand[t]
      n == next[piece_head[c]]
  IN  /\ c # NULL /\ step[t] = "follow"
      /\ t \in reused => n = NULL
      /\ piece_head' = [piece_head EXCEPT ![c] = n]
      /\ IF n = NULL THEN Ended(t, c)
         ELSE /\ step' = [step EXCEPT ![t] = "free"]
              /\ UNCHANGED <<conn, pending, hand>>
      /\ reused' = reused \ {t}
      /\ UNCHANGED <<poolVars, block, wait_list, getterVars, request, at, val, got, overtaken,
                     forgotten, leaked, raced, stale, status>>

(* It has been handed out since, and has another next by now. *)
FollowAway(t) ==
  /\ hand[t] # NULL /\ step[t] = "follow" /\ t \in reused
  /\ next[piece_head[hand[t]]] # NULL
  /\ Ends("dangling")

(* The reader has caught up: it has seen next empty ... *)
CaughtUp(t) ==
  LET c == hand[t]
  IN  /\ c # NULL /\ step[t] = "write" /\ next[at[c]] = NULL /\ ~IsTail(holds[at[c]])
      /\ got' = [got EXCEPT ![c] = @ + 1]
      /\ step' = [step EXCEPT ![t] = "park"]
      /\ UNCHANGED <<poolVars, block, wait_list, getterVars, connVars, hand, val, histories, status>>

(* ... and, under the lock, parks on the list of its slot (rtoh.c:622-628).*)
Park(t) ==
  LET c == hand[t]
      s == request[c].slot
  IN  /\ c # NULL /\ step[t] = "park" /\ (t = "getter" => ~Locked)
      /\ block' = [block EXCEPT ![s].wait_list = Cons(c, @)]
      /\ conn' = [conn EXCEPT ![c] = "parked"]
      /\ overtaken' = IF block[s].tail = at[c] THEN overtaken ELSE overtaken \union {c}
      /\ Returns(t)
      /\ UNCHANGED <<poolVars, wait_list, getterVars, pending, request, at, piece_head, val, got,
                     forgotten, leaked, reused, raced, stale, status>>

-----------------------------------------------------------------------------
Getter ==
  \/ MallocPiece \/ MallocNext
  \/ Publish \/ PublishStale
  \/ Wake \/ WakeAstray \/ NextWaiter

Client(c) ==
  \/ \E b \in Requestable : RequestHeld(c, b) \/ RequestStale(c, b) \/ RequestAhead(c, b)
  \/ Writable(c) \/ EventCrosses(c)
  \/ HeaderSent(c) \/ HeaderCrosses(c)
  \/ HeaderFails(c) \/ HeaderFailsNoPiece(c)

Main == Counted \/ HeaderDropped \/ HeaderDropsAgain

Progress(t) ==
  \/ PieceSent(t)
  \/ TailSent(t) \/ GivenBack(t) \/ NotLast(t) \/ LastReader(t)
  \/ FreeHead(t) \/ FreeAgain(t) \/ FollowFreed(t) \/ FollowAway(t)
  \/ CaughtUp(t) \/ Park(t)

Serve(t) == Progress(t) \/ WouldBlock(t) \/ PieceFails(t) \/ PieceFailsInUse(t)

(* A thread has given back the reference of its connection to a chain. *)
Leaving(c) == \E t \in Threads : hand[t] = c /\ step[t] \in {"test", "free", "follow", "headtest"}

(* Connections that hold a place in a chain. *)
Answering == {c \in Conns : conn[c] \in {"serving", "parked", "woken"} /\ at[c] # NULL}
InChain == {c \in Answering : ~Leaving(c)}

(* A reader is lost when a piece of its chain is given to the pool, or is  *)
(* there when it comes to the chain, and stays so until it has been sent   *)
(* to an end.                                                              *)
Loses ==
  lost' = {c \in Answering' :
             \/ c \in lost
             \/ /\ ~Leaving(c)'
                /\ Len(pool') > Len(pool) \/ c \notin Answering \/ piece_head[c]' # piece_head[c]
                /\ ToSet(Chain(piece_head[c])') \intersect ToSet(pool') # {}}

Next ==
  /\ status = "up"
  /\ Getter \/ (\E c \in Conns : Client(c)) \/ Main \/ (\E t \in Threads : Serve(t))
  /\ Loses

(* Threads run, a socket is writable again and again (no client stops      *)
(* reading for ever), and the event loop comes to each in its turn.        *)
Advance(t, c) ==
  /\ status = "up" /\ hand[t] = c
  /\ Progress(t) \/ (t = "main" /\ (Main \/ HeaderSent(c)))

Fairness ==
  \A c \in Conns :
    /\ SF_codeVars(status = "up" /\ Writable(c))
    /\ \A t \in Threads : SF_codeVars(Advance(t, c))

Spec == Init /\ [][Next]_vars

FairSpec == Spec /\ Fairness

-----------------------------------------------------------------------------
(* Properties. *)

Up == status = "up"

(* The connections whose current piece has been sent already. *)
HasSent(c) ==
  \/ conn[c] \in {"parked", "woken"}
  \/ \E t \in Threads : hand[t] = c /\ step[t] \in {"park", "ref"}

(* Type invariant of the pool, the slots and the connections. *)
TypeOK ==
  /\ pool \in Seq(Pieces)
  /\ holds \in [Pieces -> Nat \union {NULL}] /\ next \in [Pieces -> Pieces \union {NULL}]
  /\ ref \in [Pieces -> Int]
  /\ \A s \in DOMAIN block : /\ block[s].id \in Nat
                              /\ {block[s].head, block[s].tail} \subseteq Pieces \union {NULL}
                              /\ block[s].wait_list \in Seq(Conns)
  /\ wait_list \in Seq(Conns) /\ walk \in Seq(Conns)
  /\ {piece, bp} \subseteq Pieces \union {NULL} /\ index \in Nat
  /\ conn \in [Conns -> {"idle", "ahead", "serving", "parked", "woken", "closed"}]
  /\ pending \in [Conns -> {"none", "header", "piece"}]
  /\ at \in [Conns -> Pieces \union {NULL}] /\ piece_head \in [Conns -> Pieces \union {NULL}]
  /\ hand \in [Threads -> Conns \union {NULL}]
  /\ step \in [Threads -> {"count", "header", "headref", "headtest", "write", "park", "ref", "test",
                           "free", "follow", "next", "return"}]
  /\ val \in [Threads -> [p : Pieces \union {NULL}, n : Int]]
  /\ got \in [Conns -> Nat] /\ overtaken \subseteq Conns

(* What a reader is about to be sent, or has just been sent, is the next   *)
(* piece of the block it asked for, and is not in the pool.                *)
AtNextPiece(c) ==
  /\ at[c] \notin ToSet(pool)
  /\ BlockOf(holds[at[c]]) = request[c].id
  /\ Position(holds[at[c]]) = got[c] - (IF HasSent(c) THEN 1 ELSE 0)

(* A reader that counts among the references of its chain is at its next   *)
(* piece: no eviction, no other reader's end and no reuse of a cell comes  *)
(* between two pieces of a reply (thread.c:474-482, rtoh.c:603-621).  The  *)
(* exception is a reader that was overtaken while it parked.               *)
SentInOrder ==
  Up => \A c \in InChain \ overtaken : ref[piece_head[c]] > 0 => AtNextPiece(c)

(* The reply ends, and the connection is free for the next request, with   *)
(* all the pieces of the block sent (rtoh.c:609-621).                      *)
ReplyIsWhole ==
  [][\A c \in Conns \ (overtaken \union lost) :
       conn[c] = "serving" /\ conn'[c] = "idle" => got'[c] = Group]_vars

NoneClosed == \A c \in Conns : conn[c] # "closed"

(* The pieces of chains that readers hold on to although the ring has      *)
(* moved on, and of one that is being freed, as far as it has not been.    *)
RingHeads == {block[s].head : s \in DOMAIN block \ stale}

Detached ==
  {c \in InChain : piece_head[c] \notin RingHeads}
  \union {hand[t] : t \in {t \in Threads : /\ hand[t] # NULL
                                         /\ step[t] \in {"test", "free", "headtest"}
                                         /\ piece_head[hand[t]] \notin RingHeads}}

DetachedPieces ==
  UNION {ToSet(Chain(piece_head[c])) : c \in Detached}
  \union UNION {ToSet(Chain(next[piece_head[hand[t]]])) :
                 t \in {t \in Threads \ reused : hand[t] # NULL /\ step[t] = "follow"}}

(* As long as no write fails, no piece is lost and none is given back      *)
(* twice: each is in the pool, with the getter, in the ring, or in the     *)
(* chain of a block that has been evicted under its readers.  But when the *)
(* getter takes a piece a reader has just freed, the reader does not find  *)
(* the pieces behind it any more.                                          *)
EachPieceOwned ==
  Up /\ NoneClosed /\ ~raced => \A p \in Pieces :
          Cardinality({i \in DOMAIN pool : pool[i] = p})
          + Cardinality({i \in {1, 2} : p = <<piece, bp>>[i]})
          + Cardinality({s \in DOMAIN block \ stale : p \in ToSet(Chain(block[s].head))})
          + (IF p \in DetachedPieces THEN 1 ELSE 0) = (IF p \in leaked THEN 0 ELSE 1)

(* No piece is in the pool twice, even when writes fail (rtoh.c:588-597,   *)
(* 649-657), and none of those the getter fills is in it.                  *)
NoDoubleFree ==
  Up => IsInjective(pool) /\ {piece, bp} \intersect ToSet(pool) = {}

(* A piece is freed twice only when the getter evicts a block that its     *)
(* last reader has just given back: both see the count at 0, the one under *)
(* the lock, the other without it (thread.c:469-475, rtoh.c:610-616).      *)
FreedTwiceInRace == status = "double_free" => raced

(* "This conn will go die, so -- the ref" (rtoh.c:650): a chain of the ring *)
(* is referenced exactly as often as it is read.  It is as long as no      *)
(* write fails; on_write_piece keeps the reference of a connection it      *)
(* closes (rtoh.c:588-597).                                                *)
Counts(c) == ~\E t \in Threads : hand[t] = c /\ step[t] = "count"

RefCountsReaders ==
  Up /\ NoneClosed /\ ~raced => \A h \in RingHeads \ {NULL} :
          ref[h] = Cardinality({c \in InChain : piece_head[c] = h /\ Counts(c)})

(* Pool, ring, readers and reference counts agree on every piece.          *)
PiecesSound == EachPieceOwned /\ NoDoubleFree /\ FreedTwiceInRace /\ RefCountsReaders

(* A reader on its slot's list is to be woken by a piece of its own block: *)
(* the slot still holds that block, and its chain ends with the piece the  *)
(* reader has sent, which is not the block's last.  The exceptions are a   *)
(* reader that was overtaken while it parked, one whose chain was freed    *)
(* under it, and those of a chain freed under the ring.                    *)
ParkedWillBeWoken ==
  Up => \A s \in DOMAIN block \ stale :
        \A c \in ToSet(block[s].wait_list) \ (overtaken \union lost) :
          /\ block[s].id = request[c].id
          /\ block[s].tail = at[c]
          /\ ~IsTail(holds[at[c]])

(* And whatever clients ask for, so is every reader whose chain has not    *)
(* been freed under it.                                                    *)
InOrderUnlessLost ==
  Up => \A c \in InChain \ (overtaken \union lost) : AtNextPiece(c)

(* A reader is sent its block in order to the end, and waits for no more   *)
(* than the next piece of it (rtoh.c:603-628, thread.c:474-506).           *)
ReadersSound == InOrderUnlessLost /\ ParkedWillBeWoken

(* A waiting connection is on the list of the item, of its slot, or on the *)
(* one the getter is walking, and on one only (rtoh.c:398-402, 622-628;    *)
(* thread.c:487-497, 529-533).  The exceptions are those the walk has      *)
(* missed because the connection before them was put on another list, or   *)
(* its struct given to a new client, before its next was read              *)
(* (thread.c:550-551).                                                     *)
WaitingIsListed ==
  Up => \A c \in Conns \ forgotten :
          conn[c] \in {"parked", "ahead", "woken"} =>
            Cardinality({s \in DOMAIN block : c \in ToSet(block[s].wait_list)})
            + (IF c \in ToSet(wait_list) THEN 1 ELSE 0)
            + (IF conn[c] = "woken" /\ c \in ToSet(walk) THEN 1 ELSE 0) = 1

(* A request on the item's list is for a block still to come, of which no  *)
(* piece was there yet, and it is served from the block's first piece on   *)
(* (thread.c:487-497).                                                     *)
AheadIsFuture ==
  Up => /\ \A c \in ToSet(wait_list), n \in Group * Group .. index - 1 : BlockOf(n) # request[c].id
        /\ \A c \in ToSet(walk) : conn[c] = "woken" /\ got[c] = 0 =>
              /\ request[c].id = BlockOf(index - 1)
              /\ Position(index - 1) = 0

(* The three kinds of wait lists hold whom they should, and nobody twice.  *)
WaitListsSound == WaitingIsListed /\ AheadIsFuture

(* A reply that has begun ends, or waits for the source: a client that     *)
(* keeps reading is not left in the middle of a finished block.            *)
ReplyEnds ==
  \A c \in Conns : (conn[c] = "serving") ~> (conn[c] # "serving" \/ ~Up)

=============================================================================
