--------------------------- MODULE HttpConnProofs ---------------------------
(***************************************************************************)
(* A connection of the HTTP server is owned once and waits for one thing,  *)
(* whatever clients send, however many there are, and however many structs *)
(* are allocated at a time; unless one of the few things has happened that *)
(* late and crossed name.                                                  *)
(*                                                                         *)
(* ConnSound is about one struct: what it may wait for when it is open,    *)
(* and that it waits for nothing when it is not.  PoolSound relates the    *)
(* structs to the pool.  Every handler ends in one of three ways: the      *)
(* connection is kept (Kept), freed (Freed), or freed twice (FreedTwo).    *)
(* Nothing here depends on what the parser makes of the bytes.             *)
(***************************************************************************)
EXTENDS HttpConn, FiniteSetTheorems, SequenceTheorems, TLAPS

(* The fields of a conn struct. *)
Fields == {"open", "inbox", "read", "parser", "url", "cut", "out", "readEv", "writeEv", "item",
           "route", "last", "late", "crossed"}

Items == {NULL, "tn", "ready", "parked", "woken", "sending", "both"}

Callbacks == {NULL, "on_write", "on_write_header", "on_read"}

Typed(k) == /\ k = [f \in Fields |-> k[f]]
            /\ k.open \in BOOLEAN /\ k.readEv \in BOOLEAN
            /\ k.late \in BOOLEAN /\ k.crossed \in BOOLEAN
            /\ k.item \in Items /\ k.out \in 0 .. 2 /\ k.writeEv \in Callbacks

(* One of the things has happened after which two may hold a struct. *)
Loose(k) == k.late \/ k.crossed

(* Until then it waits to read, to write, or for its item, and for no two  *)
(* of them but the header and the item of a request for a block (h: its    *)
(* header is being written).                                               *)
Tidy(k, h) ==
  /\ k.writeEv # "on_read" /\ k.item # "both"
  /\ k.readEv => k.writeEv = NULL /\ ~h /\ k.item = NULL
  /\ k.writeEv = "on_write" => ~h /\ k.item = NULL
  /\ k.writeEv = "on_write_header" => ~h
  /\ h \/ k.writeEv = "on_write_header" => k.item \in {"ready", "parked", "woken"}

(* Something looks at it again without its write event, or it is the       *)
(* connection of a forgotten request.                                      *)
Waits(k, h) == k.readEv \/ h \/ k.item \notin {NULL, "ready"} \/ k.route = "metaid"

(* A closed connection has no events, and an item or a header under way    *)
(* only if they were left behind.  An open one waits for something.  A     *)
(* write event left for on_read is not what it waits for.                  *)
ConnSound(k, h) ==
  /\ Typed(k)
  /\ ~k.open => /\ ~k.readEv /\ k.writeEv = NULL
                /\ k.item # NULL \/ h => Loose(k)
  /\ k.open => Waits(k, h) \/ k.writeEv \in {"on_write", "on_write_header"}
  /\ k.open /\ ~Loose(k) => Tidy(k, h)

(* The structs the pool has ever held are free or in use, the others have  *)
(* never been used; only the first entry of the pool can be there twice,   *)
(* and that has been freed twice for a reason.                             *)
PoolSound ==
  /\ allocated \in 1 .. Cardinality(Conns)
  /\ pool \in Seq(1 .. allocated)
  /\ \A c \in 1 .. allocated : conn[c].open <=> c \notin ToSet(pool)
  /\ \A c \in Conns : c > allocated => ~conn[c].open /\ conn[c].item = NULL /\ header # c
  /\ \A i, j \in DOMAIN pool :
       i # j /\ pool[i] = pool[j] =>
         /\ i = 1 \/ j = 1
         /\ conn[pool[1]].route = "tn" \/ Loose(conn[pool[1]])

HttpInv == /\ conn = [c \in Conns |-> conn[c]]
           /\ \A c \in Conns : ConnSound(conn[c], header = c)
           /\ PoolSound

-----------------------------------------------------------------------------
(* What a handler comes to. *)

(* The header of no other connection starts or ends. *)
Elsewhere(c) == \A d \in Conns : d # c => (header' = d <=> header = d)

(* Something had the struct. *)
Used(c) == conn[c].open \/ conn[c].item # NULL \/ header = c

(* The connection goes on as k. *)
Kept(c, k) == /\ Used(c) /\ (k.open <=> conn[c].open) /\ ConnSound(k, header' = c) /\ Become(c, k)

(* It is destroyed; if it was not open, something had been left behind.    *)
Freed(c, k) == /\ Typed(k) /\ Used(c)
               /\ conn[c].open \/ Loose(k)
               /\ ConnSound(Gone(k), header' = c) /\ Destroy(c, k)

(* It is destroyed twice, for the answer to a tn request fails twice. *)
FreedTwo(c, k) == /\ Typed(k)
                  /\ conn[c].open /\ k.route = "tn" /\ ConnSound(Gone(k), header' = c)
                  /\ conn' = [conn EXCEPT ![c] = Gone(k)]
                  /\ pool' = <<c, c>> \o pool
                  /\ UNCHANGED allocated

Moved(c) == \E k : Kept(c, k) \/ Freed(c, k) \/ FreedTwo(c, k)

(* NULL is none of the strings. *)
LEMMA NullIsNone ==
  /\ "tn" # NULL /\ "ready" # NULL /\ "parked" # NULL
  /\ "woken" # NULL /\ "sending" # NULL /\ "both" # NULL
  /\ "on_write" # NULL /\ "on_write_header" # NULL /\ "on_read" # NULL
BY HttpConnAssumption

(* What Gone does to the fields. *)
LEMMA GoneFields ==
  ASSUME NEW k, k = [f \in Fields |-> k[f]], NEW t, t = Gone(k)
  PROVE  /\ t = [f \in Fields |-> t[f]]
         /\ t.open = FALSE /\ t.readEv = FALSE /\ t.writeEv = NULL
         /\ t.late = k.late /\ t.crossed = k.crossed
         /\ t.item = k.item /\ t.out = k.out /\ t.route = k.route
<1>1. t = [k EXCEPT !.open = FALSE, !.readEv = FALSE, !.writeEv = NULL, !.inbox = <<>>]
  BY DEF Gone
<1>2. t = [f \in Fields |-> t[f]]
  BY <1>1, ZenonT(60)
<1>0. k = [f \in Fields |-> k[f]]
  OBVIOUS
<1>3. /\ t.open = FALSE /\ t.readEv = FALSE /\ t.writeEv = NULL
  BY <1>1, <1>0, ZenonT(60) DEF Fields
<1>4. /\ t.late = k.late /\ t.item = k.item /\ t.out = k.out /\ t.route = k.route
  BY <1>1, <1>0, ZenonT(60) DEF Fields
<1>5. t.crossed = k.crossed
  BY <1>1, <1>0, ZenonT(60) DEF Fields
<1> QED BY <1>2, <1>3, <1>4, <1>5

(* A struct that is gone is sound, if nothing was left behind. *)
LEMMA GoneSound ==
  ASSUME NEW k, Typed(k), NEW h, k.item # NULL \/ h => Loose(k)
  PROVE  ConnSound(Gone(k), h)
<1>1. PICK t : t = Gone(k)
  OBVIOUS
<1>2. /\ t = [f \in Fields |-> t[f]]
      /\ t.open = FALSE /\ t.readEv = FALSE /\ t.writeEv = NULL
      /\ t.late = k.late /\ t.crossed = k.crossed /\ t.item = k.item /\ t.out = k.out
  <2>1. k = [f \in Fields |-> k[f]]
    BY Zenon DEF Typed
  <2> QED BY <1>1, <2>1, GoneFields, ZenonT(60)
<1>3. /\ k.late \in BOOLEAN /\ k.crossed \in BOOLEAN /\ k.item \in Items /\ k.out \in 0 .. 2
  BY Zenon DEF Typed
<1>4. Typed(t)
  <2>1. t.open \in BOOLEAN /\ t.readEv \in BOOLEAN /\ t.writeEv \in Callbacks
    BY <1>2 DEF Callbacks
  <2> QED BY <1>2, <1>3, <2>1, Zenon DEF Typed
<1>5. t.item # NULL \/ h => Loose(t)
  BY <1>2, Zenon DEF Loose
<1>6. ConnSound(t, h)
  BY <1>2, <1>4, <1>5, Zenon DEF ConnSound
<1> QED BY <1>1, <1>6

-----------------------------------------------------------------------------
(* Writing. *)

(* A struct an answer is about to be written for: unless something was     *)
(* left behind, nothing holds it.                                          *)
Unheld(k, h) == /\ Typed(k) /\ k.open
                /\ ~Loose(k) => ~k.readEv /\ k.writeEv = NULL /\ k.item = NULL /\ ~h

(* What on_write does to the fields. *)
WritesOn(k, t) ==
  /\ t = [f \in Fields |-> t[f]]
  /\ t.open = k.open /\ t.item = k.item /\ t.late = k.late /\ t.crossed = k.crossed
  /\ t.route = k.route /\ t.out \in 0 .. k.out
  /\ \/ t.out = 0 /\ t.readEv = TRUE /\ t.writeEv = k.writeEv
     \/ t.out > 0 /\ t.readEv = k.readEv /\ t.writeEv = "on_write"

(* It does. *)
LEMMA WroteFields ==
  ASSUME NEW k, Typed(k), NEW n \in 0 .. k.out, NEW t, t = Wrote(k, n, "on_write")
  PROVE  WritesOn(k, t)
<1>1. k = [f \in Fields |-> k[f]] /\ k.out \in 0 .. 2
  BY Zenon DEF Typed
<1>2. CASE n = k.out
  <2>1. t = [k EXCEPT !.out = 0, !.readEv = TRUE]
    BY <1>2, Zenon DEF Wrote
  <2>2. t = [f \in Fields |-> t[f]]
    BY <1>1, <2>1, ZenonT(60)
  <2>3. t.out = 0 /\ t.readEv = TRUE
    BY <1>1, <2>1, ZenonT(60) DEF Fields
  <2>4. /\ t.writeEv = k.writeEv /\ t.open = k.open /\ t.item = k.item /\ t.late = k.late
        /\ t.route = k.route /\ t.crossed = k.crossed
    BY <1>1, <2>1, ZenonT(60) DEF Fields
  <2>5. t.out \in 0 .. k.out
    BY <1>1, <2>3
  <2> QED BY <2>2, <2>3, <2>4, <2>5 DEF WritesOn
<1>3. CASE n # k.out
  <2>1. PICK m : m = k.out - n
    OBVIOUS
  <2>2. m > 0 /\ m \in 0 .. k.out
    BY <1>1, <1>3, <2>1
  <2>3. t = [k EXCEPT !.out = m, !.writeEv = "on_write"]
    BY <1>3, <2>1, Zenon DEF Wrote
  <2>4. t = [f \in Fields |-> t[f]]
    BY <1>1, <2>3, ZenonT(60)
  <2>5. t.out = m /\ t.writeEv = "on_write"
    BY <1>1, <2>3, ZenonT(60) DEF Fields
  <2>6. /\ t.readEv = k.readEv /\ t.open = k.open /\ t.item = k.item /\ t.late = k.late
        /\ t.route = k.route /\ t.crossed = k.crossed
    BY <1>1, <2>3, ZenonT(60) DEF Fields
  <2> QED BY <2>2, <2>4, <2>5, <2>6 DEF WritesOn
<1> QED BY <1>2, <1>3

(* What on_write leaves waits to write the rest, or to read. *)
LEMMA WroteSound ==
  ASSUME NEW k, NEW h, Unheld(k, h), NEW n \in 0 .. k.out, NEW t, t = Wrote(k, n, "on_write")
  PROVE  /\ ConnSound(t, h) /\ t.open
         /\ t.late = k.late /\ t.crossed = k.crossed /\ t.route = k.route /\ t.item = k.item
<1>1. /\ Typed(k) /\ k.open
      /\ ~Loose(k) => ~k.readEv /\ k.writeEv = NULL /\ k.item = NULL /\ ~h
  BY Zenon DEF Unheld
<1>2. /\ t = [f \in Fields |-> t[f]]
      /\ t.open = k.open /\ t.item = k.item /\ t.late = k.late /\ t.crossed = k.crossed
      /\ t.route = k.route /\ t.out \in 0 .. k.out
      /\ \/ t.out = 0 /\ t.readEv = TRUE /\ t.writeEv = k.writeEv
         \/ t.out > 0 /\ t.readEv = k.readEv /\ t.writeEv = "on_write"
  <2>1. WritesOn(k, t)
    BY <1>1, WroteFields, Zenon
  <2> QED BY <2>1, Zenon DEF WritesOn
<1>3. /\ k.readEv \in BOOLEAN /\ k.late \in BOOLEAN /\ k.crossed \in BOOLEAN
      /\ k.item \in Items /\ k.out \in 0 .. 2 /\ k.writeEv \in Callbacks /\ k.open \in BOOLEAN
  BY <1>1, Zenon DEF Typed
<1>4. Typed(t)
  <2>1. t.out \in 0 .. 2
    BY <1>2, <1>3
  <2>2. t.readEv \in BOOLEAN
    BY <1>2, <1>3
  <2>3. t.writeEv \in Callbacks
    BY <1>2, <1>3 DEF Callbacks
  <2> QED BY <1>2, <1>3, <2>1, <2>2, <2>3, Zenon DEF Typed
<1>5. t.open /\ (Waits(t, h) \/ t.writeEv \in {"on_write", "on_write_header"})
  BY <1>1, <1>2 DEF Waits
<1>6. ~Loose(t) => Tidy(t, h)
  BY <1>1, <1>2, NullIsNone DEF Tidy, Loose
<1> QED BY <1>2, <1>4, <1>5, <1>6, Zenon DEF ConnSound

(* on_write keeps the connection, or destroys it. *)
LEMMA OnWriteMoves ==
  ASSUME NEW c \in Conns, conn[c].open, NEW k, Unheld(k, header' = c), OnWrite(c, k)
  PROVE  Moved(c)
<1>0. PICK h : h = (header' = c)
  OBVIOUS
<1>a. Unheld(k, h) /\ Used(c)
  BY <1>0, Zenon DEF Used
<1>1. CASE \E n \in 0 .. k.out : Become(c, Wrote(k, n, "on_write"))
  <2>1. PICK n \in 0 .. k.out : Become(c, Wrote(k, n, "on_write"))
    BY <1>1
  <2>2. PICK t : t = Wrote(k, n, "on_write")
    OBVIOUS
  <2>3. ConnSound(t, h) /\ t.open
    BY <1>a, <2>2, WroteSound, Zenon
  <2>5. Kept(c, t)
    BY <1>0, <1>a, <2>1, <2>2, <2>3, Zenon DEF Kept
  <2> QED BY <2>5 DEF Moved
<1>2. CASE Destroy(c, k)
  <2>1. k.item # NULL \/ h => Loose(k)
    BY <1>a, Zenon DEF Unheld
  <2>2. ConnSound(Gone(k), h)
    BY <1>a, <2>1, GoneSound DEF Unheld
  <2>3. Freed(c, k)
    BY <1>0, <1>a, <1>2, <2>2, Zenon DEF Freed, Unheld
  <2> QED BY <2>3 DEF Moved
<1> QED BY <1>1, <1>2, Zenon DEF OnWrite

(* Some fields are set; the rest are as they were.  (One fact for each way *)
(* the handlers do it.)                                                    *)
Sets(k, t, out, readEv, writeEv, item, crossed) ==
  /\ t = [f \in Fields |-> t[f]]
  /\ t.open = k.open /\ t.late = k.late /\ t.route = k.route
  /\ t.out = out /\ t.readEv = readEv /\ t.writeEv = writeEv /\ t.item = item
  /\ t.crossed = crossed

LEMMA SetsFields ==
  ASSUME NEW k, k = [f \in Fields |-> k[f]],
         NEW out, NEW readEv, NEW writeEv, NEW item, NEW crossed, NEW t,
         t = [k EXCEPT !.out = out, !.readEv = readEv, !.writeEv = writeEv,
                       !.item = item, !.crossed = crossed]
  PROVE  Sets(k, t, out, readEv, writeEv, item, crossed)
<1>1. t = [f \in Fields |-> t[f]]
  BY ZenonT(60)
<1>2. t.open = k.open /\ t.late = k.late /\ t.route = k.route
  BY ZenonT(60) DEF Fields
<1>3. t.out = out /\ t.readEv = readEv
  BY ZenonT(60) DEF Fields
<1>4. t.writeEv = writeEv /\ t.item = item
  BY ZenonT(60) DEF Fields
<1>5. t.crossed = crossed
  BY ZenonT(60) DEF Fields
<1> QED BY <1>1, <1>2, <1>3, <1>4, <1>5 DEF Sets

(* What is set keeps the types. *)
LEMMA SetsTyped ==
  ASSUME NEW k, Typed(k), NEW out \in 0 .. 2, NEW readEv \in BOOLEAN, NEW writeEv \in Callbacks,
         NEW item \in Items, NEW crossed \in BOOLEAN, NEW t,
         Sets(k, t, out, readEv, writeEv, item, crossed)
  PROVE  Typed(t)
<1>1. k.open \in BOOLEAN /\ k.late \in BOOLEAN
  BY Zenon DEF Typed
<1> QED BY <1>1, Zenon DEF Sets, Typed

(* on_write_header leaves the connection to the item, waits to write the   *)
(* rest, or destroys it; or the program ends there.                        *)
LEMMA OnWriteHeaderMoves ==
  ASSUME NEW c \in Conns, conn = [d \in Conns |-> conn[d]], ConnSound(conn[c], header = c),
         OnWriteHeader(c)
  PROVE  Moved(c) /\ Elsewhere(c)
<1>1. PICK k : k = conn[c]
  OBVIOUS
<1>2. /\ header = c /\ header' = NULL /\ header' # c
  BY HttpConnAssumption, Zenon DEF OnWriteHeader
<1>3. /\ Typed(k)
      /\ ~k.open => /\ ~k.readEv /\ k.writeEv = NULL /\ Loose(k)
      /\ k.open /\ ~Loose(k) => /\ k.writeEv = NULL /\ ~k.readEv
                                /\ k.item \in {"ready", "parked", "woken"}
  <2>1. ConnSound(k, TRUE)
    BY <1>1, <1>2
  <2>2. /\ Typed(k)
        /\ ~k.open => /\ ~k.readEv /\ k.writeEv = NULL /\ Loose(k)
        /\ k.open /\ ~Loose(k) => Tidy(k, TRUE)
    BY <2>1, Zenon DEF ConnSound
  <2>3. k.writeEv \in Callbacks
    BY <2>2, Zenon DEF Typed
  <2>4. Tidy(k, TRUE) => k.writeEv = NULL /\ ~k.readEv /\ k.item \in {"ready", "parked", "woken"}
    BY <2>3 DEF Tidy, Callbacks
  <2> QED BY <2>2, <2>4
<1>4. /\ k = [f \in Fields |-> k[f]]
      /\ k.open \in BOOLEAN /\ k.readEv \in BOOLEAN /\ k.late \in BOOLEAN /\ k.crossed \in BOOLEAN
      /\ k.item \in Items /\ k.out \in 0 .. 2 /\ k.writeEv \in Callbacks
  BY <1>3, Zenon DEF Typed
<1>5. Elsewhere(c) /\ Used(c)
  <2>1. \A d \in Conns : d # c => header # d /\ header' # d
    BY <1>2, HttpConnAssumption
  <2> QED BY <1>2, <2>1, Zenon DEF Elsewhere, Used
<1>6. ASSUME NEW t, ConnSound(t, FALSE), t.open <=> k.open, Become(c, t)
      PROVE  Moved(c)
  <2>1. (header' = c) = FALSE
    BY <1>2
  <2>2. ConnSound(t, header' = c)
    BY <1>6, <2>1, Zenon
  <2> QED BY <1>1, <1>5, <1>6, <2>2, Zenon DEF Kept, Moved
<1>7. ASSUME k.open, NEW n \in 0 .. k.out, Become(c, WroteHeader(k, n))
      PROVE  Moved(c)
  <2>1. PICK t : t = WroteHeader(k, n)
    OBVIOUS
  <2>2. CASE n = k.out
    <3>1. PICK b : b = (k.crossed \/ Served(k))
      OBVIOUS
    <3>2. PICK i : i = Sends(k.item)
      OBVIOUS
    <3>3. b \in BOOLEAN /\ i \in Items /\ i \notin {NULL, "ready"}
      <4>1. i \in {"sending", "parked", "woken", "both"}
        BY <3>2 DEF Sends
      <4>2. b \in BOOLEAN
        BY <3>1
      <4> QED BY <4>1, <4>2, NullIsNone DEF Items
    <3>4. t = [k EXCEPT !.out = 0, !.item = i, !.crossed = b]
      BY <2>1, <2>2, <3>1, <3>2, Zenon DEF WroteHeader
    <3>5. t = [k EXCEPT !.out = 0, !.readEv = k.readEv, !.writeEv = k.writeEv,
                        !.item = i, !.crossed = b]
      BY <1>4, <3>4, ZenonT(60) DEF Fields
    <3>6. Sets(k, t, 0, k.readEv, k.writeEv, i, b)
      BY <1>4, <3>5, SetsFields, Zenon
    <3>7. Typed(t)
      <4>1. 0 \in 0 .. 2
        OBVIOUS
      <4> QED BY <1>3, <1>4, <3>3, <3>6, <4>1, SetsTyped
    <3>8. /\ t.open = k.open /\ t.late = k.late /\ t.readEv = k.readEv
          /\ t.writeEv = k.writeEv /\ t.item = i /\ t.crossed = b
      BY <3>6, Zenon DEF Sets
    <3>9. Waits(t, FALSE)
      BY <3>3, <3>8, Zenon DEF Waits
    <3>10. ~Loose(t) => Tidy(t, FALSE)
      <4>1. ~Loose(t) => ~Loose(k) /\ k.item \in {"ready", "parked"}
        BY <1>3, <1>7, <3>1, <3>8 DEF Loose, Served
      <4>2. k.item \in {"ready", "parked"} => i # "both"
        BY <3>2 DEF Sends
      <4> QED BY <1>3, <1>7, <3>8, <4>1, <4>2, NullIsNone DEF Tidy
    <3>11. ConnSound(t, FALSE)
      BY <1>7, <3>7, <3>8, <3>9, <3>10, Zenon DEF ConnSound
    <3> QED BY <1>6, <1>7, <2>1, <3>8, <3>11, Zenon
  <2>3. CASE n # k.out
    <3>1. PICK m : m = k.out - n
      OBVIOUS
    <3>2. m \in 0 .. 2
      BY <1>4, <3>1
    <3>3. t = [k EXCEPT !.out = m, !.writeEv = "on_write_header"]
      BY <2>1, <2>3, <3>1, Zenon DEF WroteHeader
    <3>4. t = [k EXCEPT !.out = m, !.readEv = k.readEv, !.writeEv = "on_write_header",
                        !.item = k.item, !.crossed = k.crossed]
      BY <1>4, <3>3, ZenonT(60) DEF Fields
    <3>5. Sets(k, t, m, k.readEv, "on_write_header", k.item, k.crossed)
      BY <1>4, <3>4, SetsFields, Zenon
    <3>6. Typed(t)
      <4>1. "on_write_header" \in Callbacks
        BY DEF Callbacks
      <4> QED BY <1>3, <1>4, <3>2, <3>5, <4>1, SetsTyped
    <3>7. /\ t.open = k.open /\ t.late = k.late /\ t.readEv = k.readEv
          /\ t.writeEv = "on_write_header" /\ t.item = k.item /\ t.crossed = k.crossed
      BY <3>5, Zenon DEF Sets
    <3>8. ~Loose(t) => Tidy(t, FALSE)
      BY <1>3, <1>7, <3>7, NullIsNone DEF Tidy, Loose
    <3>9. ConnSound(t, FALSE)
      <4>1. t.writeEv \in {"on_write", "on_write_header"}
        BY <3>7
      <4> QED BY <1>7, <3>6, <3>7, <3>8, <4>1, Zenon DEF ConnSound
    <3> QED BY <1>6, <1>7, <2>1, <3>7, <3>9, Zenon
  <2> QED BY <2>2, <2>3
<1>8. CASE k.item = "parked" /\ UNCHANGED <<conn, pool, allocated>>
  <2>1. ConnSound(k, FALSE)
    <3>1. k.open => Waits(k, FALSE)
      BY <1>8, NullIsNone DEF Waits
    <3>2. k.open /\ ~Loose(k) => Tidy(k, FALSE)
      BY <1>3, NullIsNone DEF Tidy
    <3> QED BY <1>3, <3>1, <3>2, Zenon DEF ConnSound
  <2>2. Become(c, k)
    <3>1. [conn EXCEPT ![c] = conn[c]] = conn
      OBVIOUS
    <3> QED BY <1>1, <1>8, <3>1, Zenon DEF Become
  <2> QED BY <1>5, <1>6, <2>1, <2>2
<1>9. CASE /\ k.item # "parked"
           /\ Destroy(c, [k EXCEPT !.item = IF @ = "ready" THEN NULL ELSE @,
                                   !.crossed = @ \/ Served(k)])
  <2>1. PICK i : i = IF k.item = "ready" THEN NULL ELSE k.item
    OBVIOUS
  <2>2. PICK b : b = (k.crossed \/ Served(k))
    OBVIOUS
  <2>3. PICK t : t = [k EXCEPT !.item = i, !.crossed = b]
    OBVIOUS
  <2>4. Destroy(c, t)
    BY <1>9, <2>1, <2>2, <2>3, Zenon
  <2>5. t = [k EXCEPT !.out = k.out, !.readEv = k.readEv, !.writeEv = k.writeEv,
                      !.item = i, !.crossed = b]
    BY <1>4, <2>3, ZenonT(60) DEF Fields
  <2>6. Sets(k, t, k.out, k.readEv, k.writeEv, i, b)
    BY <1>4, <2>5, SetsFields, Zenon
  <2>7. i \in Items /\ b \in BOOLEAN
    <3>1. i \in Items
      BY <1>4, <2>1 DEF Items
    <3>2. b \in BOOLEAN
      BY <2>2
    <3> QED BY <3>1, <3>2
  <2>8. Typed(t)
    BY <1>3, <1>4, <2>6, <2>7, SetsTyped
  <2>9. t.item = i /\ t.crossed = b /\ t.late = k.late
    BY <2>6, Zenon DEF Sets
  <2>10. t.item # NULL => Loose(t)
    BY <1>9, <2>1, <2>2, <2>9 DEF Served, Loose
  <2>11. ~k.open => Loose(t)
    BY <1>3, <2>2, <2>9 DEF Loose
  <2>12. ConnSound(Gone(t), header' = c)
    BY <1>2, <2>8, <2>10, GoneSound
  <2> QED BY <1>1, <1>5, <2>4, <2>8, <2>11, <2>12, Zenon DEF Freed, Moved
<1>10. \/ k.open /\ \E n \in 0 .. k.out : Become(c, WroteHeader(k, n))
       \/ k.item = "parked" /\ UNCHANGED <<conn, pool, allocated>>
       \/ /\ k.item # "parked"
          /\ Destroy(c, [k EXCEPT !.item = IF @ = "ready" THEN NULL ELSE @,
                                  !.crossed = @ \/ Served(k)])
  BY <1>1 DEF OnWriteHeader, HeaderFails
<1> QED BY <1>5, <1>7, <1>8, <1>9, <1>10

(* The answer to a tn request keeps the connection, destroys it, or        *)
(* destroys it twice.                                                      *)
LEMMA AnswerTwiceMoves ==
  ASSUME NEW c \in Conns, conn[c].open, header' # c, NEW k, Unheld(k, FALSE), k.route = "tn",
         AnswerTwice(c, k)
  PROVE  Moved(c)
<1>1. /\ Typed(k) /\ k.open
      /\ ~Loose(k) => ~k.readEv /\ k.writeEv = NULL /\ k.item = NULL
  BY Zenon DEF Unheld
<1>2. ConnSound(Gone(k), FALSE) /\ Used(c) /\ (header' = c) = FALSE
  <2>1. k.item # NULL => Loose(k)
    BY <1>1, Zenon
  <2>2. ConnSound(Gone(k), FALSE)
    BY <1>1, <2>1, GoneSound
  <2> QED BY <2>2, Zenon DEF Used
<1>3. CASE /\ conn' = [conn EXCEPT ![c] = Gone(k)]
           /\ pool' = <<c, c>> \o pool
           /\ UNCHANGED allocated
  BY <1>2, <1>3, <1>1, Zenon DEF FreedTwo, Moved
<1>4. ASSUME NEW n \in 0 .. k.out, NEW t, t = Wrote(k, n, "on_write"),
             \/ \E m \in 0 .. t.out :
                  LET twice == Wrote(t, m, "on_write")
                  IN  Become(c, [twice EXCEPT !.late = @ \/ (twice.out = 0 /\ twice.writeEv # NULL)])
             \/ t.out > 0 /\ Destroy(c, t)
      PROVE  Moved(c)
  <2>1. ConnSound(t, FALSE) /\ t.open /\ t.late = k.late /\ t.crossed = k.crossed /\ t.item = k.item
    BY <1>4, WroteSound, Zenon
  <2>2. Typed(t)
    BY <2>1, Zenon DEF ConnSound
  <2>3. CASE Destroy(c, t)
    <3>1. t.item # NULL => Loose(t)
      BY <1>1, <2>1, Zenon DEF Loose
    <3>2. ConnSound(Gone(t), FALSE)
      BY <2>2, <3>1, GoneSound
    <3> QED BY <1>2, <2>3, <3>2, <2>2, Zenon DEF Freed, Moved
  <2>4. ASSUME NEW m \in 0 .. t.out, NEW u, u = Wrote(t, m, "on_write"), NEW v,
               v = [u EXCEPT !.late = u.late \/ (u.out = 0 /\ u.writeEv # NULL)], Become(c, v)
        PROVE  Moved(c)
    <3>1. WritesOn(k, t)
      BY <1>1, <1>4, WroteFields, Zenon
    <3>2. WritesOn(t, u)
      BY <2>2, <2>4, WroteFields, Zenon
    <3>3. PICK b : b = (u.late \/ (u.out = 0 /\ u.writeEv # NULL))
      OBVIOUS
    <3>4. v = [u EXCEPT !.late = b]
      BY <2>4, <3>3, Zenon
    <3>5. u = [f \in Fields |-> u[f]]
      BY <3>2, Zenon DEF WritesOn
    <3>6. v = [f \in Fields |-> v[f]] /\ v.late = b
      BY <3>4, <3>5, ZenonT(60) DEF Fields
    <3>7. /\ v.open = u.open /\ v.readEv = u.readEv /\ v.writeEv = u.writeEv
          /\ v.item = u.item /\ v.out = u.out /\ v.crossed = u.crossed
      BY <3>4, <3>5, ZenonT(60) DEF Fields
    <3>8. /\ k.readEv \in BOOLEAN /\ k.late \in BOOLEAN /\ k.crossed \in BOOLEAN
          /\ k.open \in BOOLEAN /\ k.item \in Items /\ k.out \in 0 .. 2 /\ k.writeEv \in Callbacks
      BY <1>1, Zenon DEF Typed
    <3>9. /\ u.open = k.open /\ u.item = k.item /\ u.late = k.late /\ u.crossed = k.crossed
          /\ u.out \in 0 .. 2
      BY <3>1, <3>2, <3>8 DEF WritesOn
    <3>10. \/ u.out = 0 /\ u.readEv = TRUE /\ u.writeEv = k.writeEv
           \/ u.out = 0 /\ u.readEv = TRUE /\ u.writeEv = "on_write"
           \/ u.out > 0 /\ u.readEv = k.readEv /\ u.writeEv = "on_write"
      BY <3>1, <3>2, <3>8 DEF WritesOn
    <3>11. u.readEv \in BOOLEAN /\ u.writeEv \in Callbacks
      BY <3>8, <3>10 DEF Callbacks
    <3>12. b \in BOOLEAN
      BY <3>3, <3>8, <3>9
    <3>13. v.late \in BOOLEAN /\ v.open \in BOOLEAN
      BY <3>6, <3>7, <3>8, <3>9, <3>12
    <3>14. Typed(v)
      BY <3>6, <3>7, <3>8, <3>9, <3>11, <3>13, Zenon DEF Typed
    <3>15. v.open /\ (Waits(v, FALSE) \/ v.writeEv \in {"on_write", "on_write_header"})
      BY <1>1, <3>7, <3>9, <3>10 DEF Waits
    <3>16. ~Loose(v) => Tidy(v, FALSE)
      <4>1. ASSUME ~Loose(v)
            PROVE  ~Loose(k) /\ ~(u.out = 0 /\ u.writeEv # NULL)
        BY <3>3, <3>6, <3>7, <3>9, <4>1, Zenon DEF Loose
      <4> QED BY <1>1, <3>7, <3>9, <3>10, <4>1, NullIsNone DEF Tidy
    <3>17. ConnSound(v, FALSE)
      BY <3>14, <3>15, <3>16, Zenon DEF ConnSound
    <3> QED BY <1>2, <2>4, <3>15, <3>17, Zenon DEF Kept, Moved
  <2> QED BY <1>4, <2>3, <2>4, Zenon
<1> QED BY <1>3, <1>4, Zenon DEF AnswerTwice

-----------------------------------------------------------------------------
(* Answering and reading. *)

Routes == {"notfound", "invalid", "tn", "blockid", "metaid"}

(* generate_response finds one of five kinds of request in any URL. *)
LEMMA RouteIsOne ==
  ASSUME NEW b, NEW url
  PROVE  Route(b, url) \in Routes
BY DEF Route, Routes

(* Changing out alone leaves the rest. *)
LEMMA OutFields ==
  ASSUME NEW k, NEW h, Unheld(k, h), NEW n \in 0 .. 2, NEW t, t = [k EXCEPT !.out = n]
  PROVE  Unheld(t, h) /\ t.route = k.route
<1>1. /\ Typed(k) /\ k.open
      /\ ~Loose(k) => ~k.readEv /\ k.writeEv = NULL /\ k.item = NULL /\ ~h
  BY Zenon DEF Unheld
<1>2. /\ k = [f \in Fields |-> k[f]] /\ k.readEv \in BOOLEAN /\ k.crossed \in BOOLEAN
      /\ k.item \in Items /\ k.writeEv \in Callbacks
  BY <1>1, Zenon DEF Typed
<1>3. t = [k EXCEPT !.out = n, !.readEv = k.readEv, !.writeEv = k.writeEv,
                    !.item = k.item, !.crossed = k.crossed]
  BY <1>2, ZenonT(60) DEF Fields
<1>4. Sets(k, t, n, k.readEv, k.writeEv, k.item, k.crossed)
  BY <1>2, <1>3, SetsFields, Zenon
<1>5. Typed(t)
  BY <1>1, <1>2, <1>4, SetsTyped
<1>6. /\ t.open = k.open /\ t.late = k.late /\ t.route = k.route /\ t.readEv = k.readEv
      /\ t.writeEv = k.writeEv /\ t.item = k.item /\ t.crossed = k.crossed
  BY <1>4, Zenon DEF Sets
<1>7. Loose(t) <=> Loose(k)
  BY <1>6, Zenon DEF Loose
<1> QED BY <1>1, <1>5, <1>6, <1>7, Zenon DEF Unheld

(* An item takes the connection, and its header is to be written (h) or    *)
(* there is none (~h).                                                     *)
LEMMA HeldSound ==
  ASSUME NEW k, Unheld(k, FALSE), ~k.readEv, NEW item \in {"tn", "ready", "parked"},
         NEW h, h <=> item # "tn", NEW n \in 0 .. 2, NEW t, t = [k EXCEPT !.out = n, !.item = item]
  PROVE  ConnSound(t, h) /\ t.open
<1>1. /\ Typed(k) /\ k.open
      /\ ~Loose(k) => ~k.readEv /\ k.writeEv = NULL /\ k.item = NULL
  BY Zenon DEF Unheld
<1>2. /\ k = [f \in Fields |-> k[f]] /\ k.readEv \in BOOLEAN /\ k.crossed \in BOOLEAN
      /\ k.item \in Items /\ k.writeEv \in Callbacks
  BY <1>1, Zenon DEF Typed
<1>3. t = [k EXCEPT !.out = n, !.readEv = k.readEv, !.writeEv = k.writeEv,
                    !.item = item, !.crossed = k.crossed]
  BY <1>2, ZenonT(60) DEF Fields
<1>4. Sets(k, t, n, k.readEv, k.writeEv, item, k.crossed)
  BY <1>2, <1>3, SetsFields, Zenon
<1>5. Typed(t)
  <2>1. item \in Items
    BY DEF Items
  <2> QED BY <1>1, <1>2, <1>4, <2>1, SetsTyped
<1>6. /\ t.open = k.open /\ t.late = k.late /\ t.route = k.route /\ t.readEv = k.readEv
      /\ t.writeEv = k.writeEv /\ t.item = item /\ t.crossed = k.crossed
  BY <1>4, Zenon DEF Sets
<1>7. Waits(t, h)
  BY <1>6, NullIsNone DEF Waits
<1>8. ~Loose(t) => Tidy(t, h)
  BY <1>1, <1>6, NullIsNone DEF Tidy, Loose
<1> QED BY <1>1, <1>5, <1>6, <1>7, <1>8, Zenon DEF ConnSound

(* generate_response, and what on_read does with its answer. *)
LEMMA GenerateResponseMoves ==
  ASSUME NEW c \in Conns, conn[c].open, header = NULL, NEW k, Unheld(k, FALSE), ~k.readEv,
         k.route \in Routes, GenerateResponse(c, k)
  PROVE  Moved(c) /\ Elsewhere(c)
<1>0. Used(c) /\ NULL # c /\ \A d \in Conns : d # NULL
  BY HttpConnAssumption, Zenon DEF Used
<1>1. PICK error : error = [k EXCEPT !.out = 1]
  OBVIOUS
<1>2. PICK answer : answer = [k EXCEPT !.out = 2]
  OBVIOUS
<1>3. PICK held : held = [k EXCEPT !.item = "tn"]
  OBVIOUS
<1>4. Unheld(error, FALSE)
  <2>1. 1 \in 0 .. 2
    OBVIOUS
  <2> QED BY <1>1, <2>1, OutFields, Zenon
<1>5. Unheld(answer, FALSE) /\ answer.route = k.route
  <2>1. 2 \in 0 .. 2
    OBVIOUS
  <2> QED BY <1>2, <2>1, OutFields, Zenon
<1>6. ASSUME UNCHANGED header
      PROVE  Elsewhere(c) /\ header' # c /\ (header' = c) = FALSE
  BY <1>0, <1>6 DEF Elsewhere
<1>7. CASE UNCHANGED header /\ OnWrite(c, error)
  <2>1. Unheld(error, header' = c)
    BY <1>4, <1>6, <1>7, Zenon
  <2> QED BY <1>6, <1>7, <2>1, OnWriteMoves
<1>8. CASE UNCHANGED header /\ k.route = "tn" /\ AnswerTwice(c, answer)
  BY <1>5, <1>6, <1>8, AnswerTwiceMoves
<1>9. CASE UNCHANGED header /\ k.route = "tn" /\ Become(c, held)
  <2>1. ConnSound(held, FALSE) /\ held.open
    <3>1. Typed(k)
      BY Zenon DEF Unheld
    <3>2. k = [f \in Fields |-> k[f]] /\ k.out \in 0 .. 2
      BY <3>1, Zenon DEF Typed
    <3>3. held = [k EXCEPT !.out = k.out, !.item = "tn"]
      BY <1>3, <3>2, ZenonT(60) DEF Fields
    <3> QED BY <3>2, <3>3, HeldSound
  <2>2. ConnSound(held, header' = c)
    BY <1>6, <1>9, <2>1, Zenon
  <2>3. Kept(c, held)
    BY <1>0, <1>9, <2>1, <2>2, Zenon DEF Kept
  <2> QED BY <1>6, <1>9, <2>3, Zenon DEF Moved
<1>10. ASSUME NEW item \in {"ready", "parked"},
              Become(c, [k EXCEPT !.out = 1, !.item = item]), header' = c
       PROVE  Moved(c) /\ Elsewhere(c)
  <2>1. PICK t : t = [k EXCEPT !.out = 1, !.item = item]
    OBVIOUS
  <2>2. ConnSound(t, TRUE) /\ t.open
    <3>1. 1 \in 0 .. 2
      OBVIOUS
    <3>2. item \in {"tn", "ready", "parked"} /\ item # "tn"
      BY <1>10
    <3> QED BY <2>1, <3>1, <3>2, HeldSound
  <2>3. (header' = c) = TRUE
    BY <1>10
  <2>4. ConnSound(t, header' = c)
    BY <2>2, <2>3, Zenon
  <2>5. Kept(c, t)
    BY <1>0, <1>10, <2>1, <2>2, <2>4, Zenon DEF Kept
  <2>6. Elsewhere(c)
    BY <1>0, <1>10, Zenon DEF Elsewhere
  <2> QED BY <2>5, <2>6, Zenon DEF Moved
<1>11. CASE UNCHANGED header /\ k.route = "metaid" /\ Become(c, k)
  <2>1. /\ Typed(k) /\ k.open
        /\ ~Loose(k) => ~k.readEv /\ k.writeEv = NULL /\ k.item = NULL
    BY Zenon DEF Unheld
  <2>2. ~Loose(k) => Tidy(k, FALSE)
    BY <2>1, NullIsNone DEF Tidy
  <2>3. ConnSound(k, FALSE)
    BY <1>11, <2>1, <2>2, Zenon DEF ConnSound, Waits
  <2>4. ConnSound(k, header' = c)
    BY <1>6, <1>11, <2>3, Zenon
  <2>5. Kept(c, k)
    BY <1>0, <1>11, <2>1, <2>4, Zenon DEF Kept
  <2> QED BY <1>6, <1>11, <2>5, Zenon DEF Moved
<1>12. \/ UNCHANGED header /\ OnWrite(c, error)
       \/ UNCHANGED header /\ k.route = "tn" /\ AnswerTwice(c, answer)
       \/ UNCHANGED header /\ k.route = "tn" /\ Become(c, held)
       \/ \E item \in {"ready", "parked"} :
            Become(c, [k EXCEPT !.out = 1, !.item = item]) /\ header' = c
       \/ UNCHANGED header /\ k.route = "metaid" /\ Become(c, k)
  BY <1>1, <1>2, <1>3 DEF GenerateResponse, Routes, Aside
<1> QED BY <1>7, <1>8, <1>9, <1>10, <1>11, <1>12

(* A struct on_read is called for: unless something was left behind, only  *)
(* its read event holds it.                                                *)
Reading(k) == /\ Typed(k) /\ k.open /\ Waits(k, FALSE)
              /\ ~Loose(k) => k.writeEv = NULL /\ k.item = NULL

(* It is sound, and so it is when it is gone. *)
LEMMA ReadingSound ==
  ASSUME NEW k, Reading(k)
  PROVE  ConnSound(k, FALSE) /\ ConnSound(Gone(k), FALSE)
<1>1. /\ Typed(k) /\ k.open /\ Waits(k, FALSE)
      /\ ~Loose(k) => k.writeEv = NULL /\ k.item = NULL
  BY Zenon DEF Reading
<1>2. ~Loose(k) => Tidy(k, FALSE)
  BY <1>1, NullIsNone DEF Tidy
<1>3. ConnSound(k, FALSE)
  BY <1>1, <1>2, Zenon DEF ConnSound
<1>4. k.item # NULL => Loose(k)
  BY <1>1, Zenon
<1>5. ConnSound(Gone(k), FALSE)
  BY <1>1, <1>4, GoneSound
<1> QED BY <1>3, <1>5

(* The fields ConnSound speaks of are the same. *)
Alike(k, t) == /\ t = [f \in Fields |-> t[f]]
               /\ t.open = k.open /\ t.readEv = k.readEv /\ t.writeEv = k.writeEv
               /\ t.item = k.item /\ t.out = k.out /\ t.late = k.late /\ t.route = k.route
               /\ t.crossed = k.crossed

(* on_read goes on reading, closes the connection, or answers. *)
LEMMA OnReadMoves ==
  ASSUME NEW c \in Conns, conn[c].open, header = NULL, NEW k, Reading(k), NEW n, OnRead(c, k, n)
  PROVE  Moved(c) /\ Elsewhere(c)
<1>2. PICK buf : buf = k.read \o SubSeq(k.inbox, 1, n)
  OBVIOUS
<1>3. PICK parsed : parsed = Execute(k.parser, SubSeq(buf, Offset(k) + 1, Len(buf)))
  OBVIOUS
<1>4. PICK url : url = UrlAfter(k, Offset(k), parsed.calls)
  OBVIOUS
<1>5. PICK inbox : inbox = SubSeq(k.inbox, n + 1, Len(k.inbox))
  OBVIOUS
<1>6. PICK cut : cut = (k.cut \/ InsideUrl(buf))
  OBVIOUS
<1>7. PICK got : got = [k EXCEPT !.read = buf, !.inbox = inbox, !.parser = parsed.p,
                                 !.url = url, !.cut = cut]
  OBVIOUS
<1>8. PICK route : route = Route(buf, url)
  OBVIOUS
<1>9. PICK last : last = [buf |-> buf, url |-> url, cut |-> got.cut]
  OBVIOUS
<1>10. PICK asked : asked = [got EXCEPT !.read = <<>>, !.parser = Fresh, !.readEv = FALSE,
                                        !.cut = FALSE, !.route = route, !.last = last]
  OBVIOUS
<1>11. /\ Typed(k) /\ k.open /\ Waits(k, FALSE)
       /\ ~Loose(k) => k.writeEv = NULL /\ k.item = NULL
  BY Zenon DEF Reading
<1>12. /\ k = [f \in Fields |-> k[f]]
       /\ k.open \in BOOLEAN /\ k.readEv \in BOOLEAN /\ k.late \in BOOLEAN /\ k.crossed \in BOOLEAN
       /\ k.item \in Items /\ k.out \in 0 .. 2 /\ k.writeEv \in Callbacks
  BY <1>11, Zenon DEF Typed
<1>13. Alike(k, got)
  <2>1. got = [f \in Fields |-> got[f]]
    BY <1>7, <1>12, ZenonT(60)
  <2>2. got.open = k.open /\ got.readEv = k.readEv /\ got.writeEv = k.writeEv
    BY <1>7, <1>12, ZenonT(60) DEF Fields
  <2>3. got.item = k.item /\ got.out = k.out /\ got.late = k.late /\ got.route = k.route
    BY <1>7, <1>12, ZenonT(60) DEF Fields
  <2>4. got.crossed = k.crossed
    BY <1>7, <1>12, ZenonT(60) DEF Fields
  <2> QED BY <2>1, <2>2, <2>3, <2>4, Zenon DEF Alike
<1>14. Reading(got) /\ got.open
  <2>1. Typed(got)
    BY <1>12, <1>13, Zenon DEF Typed, Alike
  <2>2. Waits(got, FALSE) /\ (Loose(got) <=> Loose(k))
    BY <1>11, <1>13, Zenon DEF Waits, Loose, Alike
  <2> QED BY <1>11, <1>13, <2>1, <2>2, Zenon DEF Reading, Alike
<1>15. ConnSound(got, FALSE) /\ ConnSound(Gone(got), FALSE) /\ Typed(got) /\ Used(c)
  BY <1>14, ReadingSound, Zenon DEF Reading, Used
<1>16. ASSUME UNCHANGED header
       PROVE  Elsewhere(c) /\ (header' = c) = FALSE
  <2>1. \A d \in Conns : d # NULL
    BY HttpConnAssumption
  <2> QED BY <1>16, <2>1 DEF Elsewhere
<1>17. CASE UNCHANGED header /\ Destroy(c, got)
  <2>1. ConnSound(Gone(got), header' = c)
    BY <1>15, <1>16, <1>17, Zenon
  <2> QED BY <1>15, <1>16, <1>17, <2>1, Zenon DEF Freed, Moved
<1>18. CASE UNCHANGED header /\ Become(c, got)
  <2>1. ConnSound(got, header' = c)
    BY <1>15, <1>16, <1>18, Zenon
  <2> QED BY <1>14, <1>15, <1>16, <1>18, <2>1, Zenon DEF Kept, Moved
<1>19. CASE GenerateResponse(c, asked)
  <2>1. got = [f \in Fields |-> got[f]]
    BY <1>13, Zenon DEF Alike
  <2>2. asked = [f \in Fields |-> asked[f]]
    BY <1>10, <2>1, ZenonT(60)
  <2>3. asked.open = got.open /\ asked.readEv = FALSE /\ asked.writeEv = got.writeEv
    BY <1>10, <2>1, ZenonT(60) DEF Fields
  <2>4. asked.item = got.item /\ asked.out = got.out /\ asked.late = got.late
    BY <1>10, <2>1, ZenonT(60) DEF Fields
  <2>5. asked.route = route /\ asked.crossed = got.crossed
    BY <1>10, <2>1, ZenonT(60) DEF Fields
  <2>6. route \in Routes
    BY <1>8, RouteIsOne
  <2>7. /\ asked.open = k.open /\ asked.writeEv = k.writeEv /\ asked.item = k.item
        /\ asked.out = k.out /\ asked.late = k.late /\ asked.crossed = k.crossed
    BY <1>13, <2>3, <2>4, <2>5, Zenon DEF Alike
  <2>8. Typed(asked)
    <3>1. asked.readEv \in BOOLEAN
      BY <2>3
    <3> QED BY <1>12, <2>2, <2>7, <3>1, Zenon DEF Typed
  <2>9. Unheld(asked, FALSE)
    <3>1. Loose(asked) <=> Loose(k)
      BY <2>7, Zenon DEF Loose
    <3> QED BY <1>11, <2>3, <2>7, <2>8, <3>1, Zenon DEF Unheld
  <2> QED BY <1>19, <2>3, <2>5, <2>6, <2>9, GenerateResponseMoves
<1>20. \/ UNCHANGED header /\ Destroy(c, got)
       \/ UNCHANGED header /\ Become(c, got)
       \/ GenerateResponse(c, asked)
  BY <1>2, <1>3, <1>4, <1>5, <1>6, <1>7, <1>8, <1>9, <1>10, ZenonT(60) DEF OnRead, Aside
<1> QED BY <1>17, <1>18, <1>19, <1>20

(* on_read finds that the client has closed. *)
LEMMA ReadFails ==
  ASSUME NEW c \in Conns, conn[c].open, header = NULL, UNCHANGED header, NEW k, Reading(k),
         Destroy(c, k)
  PROVE  Moved(c) /\ Elsewhere(c)
<1>1. Elsewhere(c) /\ (header' = c) = FALSE
  <2>1. \A d \in Conns : d # NULL
    BY HttpConnAssumption
  <2> QED BY <2>1 DEF Elsewhere
<1>2. ConnSound(Gone(k), FALSE) /\ Typed(k) /\ Used(c)
  BY ReadingSound, Zenon DEF Reading, Used
<1>3. ConnSound(Gone(k), header' = c)
  BY <1>1, <1>2, Zenon
<1> QED BY <1>1, <1>2, <1>3, Zenon DEF Freed, Moved

(* No header is being written. *)
LEMMA NoHeader ==
  ASSUME NEW c \in Conns, header = NULL, ConnSound(conn[c], header = c)
  PROVE  ConnSound(conn[c], FALSE)
<1>1. (header = c) = FALSE
  BY HttpConnAssumption
<1> QED BY <1>1, Zenon

(* A connection that has something to read. *)
LEMMA ReadableMoves ==
  ASSUME NEW c \in Conns, header = NULL, ConnSound(conn[c], header = c), Readable(c)
  PROVE  Moved(c) /\ Elsewhere(c)
<1>1. PICK k : k = conn[c]
  OBVIOUS
<1>2. ConnSound(k, FALSE) /\ k.readEv
  BY <1>1, NoHeader, Zenon DEF Readable
<1>3. Typed(k) /\ k.open /\ (~Loose(k) => Tidy(k, FALSE))
  BY <1>2, Zenon DEF ConnSound
<1>4. Reading(k)
  BY <1>2, <1>3, Zenon DEF Reading, Waits, Tidy
<1>5. (\E n : OnRead(c, k, n)) \/ (UNCHANGED header /\ Destroy(c, k))
  BY <1>1, Zenon DEF Readable, Aside
<1> QED BY <1>1, <1>3, <1>4, <1>5, OnReadMoves, ReadFails

(* A connection that can be written to again. *)
LEMMA WritableMoves ==
  ASSUME NEW c \in Conns, header = NULL, ConnSound(conn[c], header = c), Writable(c)
  PROVE  Moved(c) /\ Elsewhere(c)
<1>0. PICK k : k = conn[c]
  OBVIOUS
<1>1. PICK t : t = [k EXCEPT !.writeEv = NULL]
  OBVIOUS
<1>2. ConnSound(k, FALSE) /\ k.writeEv # NULL
  BY <1>0, NoHeader, Zenon DEF Writable
<1>3. /\ Typed(k) /\ k.open /\ (~Loose(k) => Tidy(k, FALSE))
      /\ Waits(k, FALSE) \/ k.writeEv \in {"on_write", "on_write_header"}
  BY <1>2, Zenon DEF ConnSound
<1>4. /\ k = [f \in Fields |-> k[f]] /\ k.readEv \in BOOLEAN /\ k.crossed \in BOOLEAN
      /\ k.item \in Items /\ k.out \in 0 .. 2 /\ k.writeEv \in Callbacks
  BY <1>3, Zenon DEF Typed
<1>5. t = [k EXCEPT !.out = k.out, !.readEv = k.readEv, !.writeEv = NULL,
                    !.item = k.item, !.crossed = k.crossed]
  BY <1>1, <1>4, ZenonT(60) DEF Fields
<1>6. Sets(k, t, k.out, k.readEv, NULL, k.item, k.crossed)
  BY <1>4, <1>5, SetsFields, Zenon
<1>7. Typed(t)
  <2>1. NULL \in Callbacks
    BY DEF Callbacks
  <2> QED BY <1>3, <1>4, <1>6, <2>1, SetsTyped
<1>8. /\ t.open = k.open /\ t.late = k.late /\ t.route = k.route /\ t.readEv = k.readEv
      /\ t.writeEv = NULL /\ t.item = k.item /\ t.crossed = k.crossed
  BY <1>6, Zenon DEF Sets
<1>9. (Loose(t) <=> Loose(k)) /\ (Waits(t, FALSE) <=> Waits(k, FALSE)) /\ Used(c)
  BY <1>0, <1>3, <1>8, Zenon DEF Loose, Waits, Used
<1>10. NULL # c /\ \A d \in Conns : d # NULL
  BY HttpConnAssumption
<1>11. CASE k.writeEv = "on_write" /\ UNCHANGED header /\ OnWrite(c, t)
  <2>1. (header' = c) = FALSE /\ Elsewhere(c)
    BY <1>10, <1>11 DEF Elsewhere
  <2>2. Unheld(t, FALSE)
    BY <1>3, <1>7, <1>8, <1>9, <1>11, NullIsNone DEF Unheld, Tidy
  <2>3. Unheld(t, header' = c)
    BY <2>1, <2>2, Zenon
  <2> QED BY <1>0, <1>3, <1>11, <2>1, <2>3, OnWriteMoves
<1>12. CASE k.writeEv = "on_write_header" /\ Become(c, t) /\ header' = c
  <2>1. ~Loose(t) => Tidy(t, TRUE)
    BY <1>3, <1>8, <1>9, <1>12, NullIsNone DEF Tidy
  <2>2. ConnSound(t, TRUE)
    BY <1>3, <1>7, <1>8, <2>1, Zenon DEF ConnSound, Waits
  <2>3. (header' = c) = TRUE
    BY <1>12
  <2>4. ConnSound(t, header' = c)
    BY <2>2, <2>3, Zenon
  <2>5. Elsewhere(c)
    BY <1>10, <1>12, Zenon DEF Elsewhere
  <2>6. Kept(c, t)
    BY <1>0, <1>8, <1>9, <1>12, <2>4, Zenon DEF Kept
  <2> QED BY <2>5, <2>6, Zenon DEF Moved
<1>13. CASE /\ k.writeEv = "on_read"
            /\ (\E n : OnRead(c, t, n)) \/ (UNCHANGED header /\ Destroy(c, t))
  <2>1. Reading(t)
    <3>1. k.writeEv \notin {"on_write", "on_write_header"}
      BY <1>13
    <3>2. Loose(k)
      BY <1>3, <1>13 DEF Tidy
    <3> QED BY <1>3, <1>7, <1>8, <1>9, <3>1, <3>2, Zenon DEF Reading
  <2> QED BY <1>0, <1>3, <1>13, <2>1, OnReadMoves, ReadFails
<1>14. \/ k.writeEv = "on_write" /\ UNCHANGED header /\ OnWrite(c, t)
       \/ k.writeEv = "on_write_header" /\ Become(c, t) /\ header' = c
       \/ /\ k.writeEv = "on_read"
          /\ (\E n : OnRead(c, t, n)) \/ (UNCHANGED header /\ Destroy(c, t))
  BY <1>0, <1>1, <1>2, <1>4 DEF Writable, Aside, Callbacks
<1> QED BY <1>11, <1>12, <1>13, <1>14

(* The getter leaves the main thread's header alone. *)
LEMMA HeaderStays ==
  ASSUME NEW c \in Conns, UNCHANGED header
  PROVE  Elsewhere(c) /\ (header' = c) = (header = c)
BY DEF Elsewhere

(* A parked connection is served. *)
LEMMA ItemServesMoves ==
  ASSUME NEW c \in Conns, ConnSound(conn[c], header = c), ItemServes(c), UNCHANGED header
  PROVE  Moved(c) /\ Elsewhere(c)
<1>0. PICK k : k = conn[c]
  OBVIOUS
<1>1. PICK t : t = [k EXCEPT !.item = "woken"]
  OBVIOUS
<1>2. PICK h : h = (header = c)
  OBVIOUS
<1>3. k.item = "parked" /\ Become(c, t) /\ ConnSound(k, h)
  BY <1>0, <1>1, <1>2, Zenon DEF ItemServes
<1>4. /\ Typed(k)
      /\ ~k.open => ~k.readEv /\ k.writeEv = NULL /\ Loose(k)
      /\ k.open /\ ~Loose(k) => Tidy(k, h)
  BY <1>3, NullIsNone, Zenon DEF ConnSound
<1>5. /\ k = [f \in Fields |-> k[f]] /\ k.readEv \in BOOLEAN /\ k.crossed \in BOOLEAN
      /\ k.out \in 0 .. 2 /\ k.writeEv \in Callbacks
  BY <1>4, Zenon DEF Typed
<1>6. t = [k EXCEPT !.out = k.out, !.readEv = k.readEv, !.writeEv = k.writeEv,
                    !.item = "woken", !.crossed = k.crossed]
  BY <1>1, <1>5, ZenonT(60) DEF Fields
<1>7. Sets(k, t, k.out, k.readEv, k.writeEv, "woken", k.crossed)
  BY <1>5, <1>6, SetsFields, Zenon
<1>8. Typed(t)
  <2>1. "woken" \in Items
    BY DEF Items
  <2> QED BY <1>4, <1>5, <1>7, <2>1, SetsTyped
<1>9. /\ t.open = k.open /\ t.late = k.late /\ t.readEv = k.readEv
      /\ t.writeEv = k.writeEv /\ t.item = "woken" /\ t.crossed = k.crossed
  BY <1>7, Zenon DEF Sets
<1>10. Waits(t, h) /\ (Loose(t) <=> Loose(k))
  BY <1>9, NullIsNone DEF Waits, Loose
<1>11. t.open /\ ~Loose(t) => Tidy(t, h)
  BY <1>3, <1>4, <1>9, <1>10, NullIsNone DEF Tidy
<1>12. ConnSound(t, h)
  BY <1>4, <1>8, <1>9, <1>10, <1>11, Zenon DEF ConnSound
<1>13. ConnSound(t, header' = c) /\ Elsewhere(c)
  BY <1>2, <1>12, HeaderStays, Zenon
<1>14. Used(c)
  BY <1>0, <1>3, NullIsNone, Zenon DEF Used
<1> QED BY <1>0, <1>3, <1>9, <1>13, <1>14, Zenon DEF Kept, Moved

(* A piece takes over the header's event. *)
LEMMA ItemBlocksMoves ==
  ASSUME NEW c \in Conns, ConnSound(conn[c], header = c), ItemBlocks(c), UNCHANGED header
  PROVE  Moved(c) /\ Elsewhere(c)
<1>0. PICK k : k = conn[c]
  OBVIOUS
<1>1. PICK t : t = [k EXCEPT !.writeEv = NULL, !.crossed = TRUE]
  OBVIOUS
<1>2. PICK h : h = (header = c)
  OBVIOUS
<1>3. k.item = "woken" /\ k.writeEv # NULL /\ Become(c, t) /\ ConnSound(k, h)
  BY <1>0, <1>1, <1>2, NullIsNone, Zenon DEF ItemBlocks
<1>4. Typed(k) /\ k.open
  BY <1>3, Zenon DEF ConnSound
<1>5. /\ k = [f \in Fields |-> k[f]] /\ k.readEv \in BOOLEAN
      /\ k.item \in Items /\ k.out \in 0 .. 2
  BY <1>4, Zenon DEF Typed
<1>6. t = [k EXCEPT !.out = k.out, !.readEv = k.readEv, !.writeEv = NULL,
                    !.item = k.item, !.crossed = TRUE]
  BY <1>1, <1>5, ZenonT(60) DEF Fields
<1>7. Sets(k, t, k.out, k.readEv, NULL, k.item, TRUE)
  BY <1>5, <1>6, SetsFields, Zenon
<1>8. Typed(t)
  <2>1. NULL \in Callbacks /\ TRUE \in BOOLEAN
    BY DEF Callbacks
  <2> QED BY <1>4, <1>5, <1>7, <2>1, SetsTyped
<1>9. t.open = k.open /\ t.item = k.item /\ t.crossed = TRUE
  BY <1>7, Zenon DEF Sets
<1>10. Waits(t, h) /\ Loose(t)
  BY <1>3, <1>9, NullIsNone DEF Waits, Loose
<1>11. ConnSound(t, h)
  BY <1>4, <1>8, <1>9, <1>10, Zenon DEF ConnSound
<1>12. ConnSound(t, header' = c) /\ Elsewhere(c)
  BY <1>2, <1>11, HeaderStays, Zenon
<1>13. Used(c)
  BY <1>0, <1>4, Zenon DEF Used
<1> QED BY <1>0, <1>3, <1>9, <1>12, <1>13, Zenon DEF Kept, Moved

(* A connection its item is done with. *)
LEMMA ItemLetsGoMoves ==
  ASSUME NEW c \in Conns, ConnSound(conn[c], header = c), ItemLetsGo(c), UNCHANGED header
  PROVE  Moved(c) /\ Elsewhere(c)
<1>0. PICK k : k = conn[c]
  OBVIOUS
<1>1. PICK h : h = (header = c)
  OBVIOUS
<1>2. PICK i : i = IF k.item = "both" THEN "woken" ELSE NULL
  OBVIOUS
<1>3. PICK b : b = (k.crossed \/ (k.item # "tn" /\ (h \/ k.writeEv = "on_write_header")))
  OBVIOUS
<1>4. PICK t : t = [k EXCEPT !.item = i, !.crossed = b]
  OBVIOUS
<1>5. PICK w : w = IF t.writeEv = NULL THEN NULL ELSE "on_read"
  OBVIOUS
<1>6. /\ k.item \in {"tn", "sending", "woken", "both"}
      /\ \/ ~t.open /\ Destroy(c, t)
         \/ t.open /\ k.item = "tn" /\ OnWrite(c, [t EXCEPT !.out = 2])
         \/ t.open /\ k.item # "tn" /\ Become(c, [t EXCEPT !.readEv = TRUE, !.writeEv = w])
         \/ t.open /\ k.item # "tn" /\ Destroy(c, t)
  <2>1. PICK read : read = [t EXCEPT !.readEv = TRUE, !.writeEv = w]
    OBVIOUS
  <2>2. read = [t EXCEPT !.readEv = TRUE, !.writeEv = IF @ = NULL THEN NULL ELSE "on_read"]
    BY <1>5, <2>1, Zenon
  <2>3. t = [k EXCEPT !.item = IF @ = "both" THEN "woken" ELSE NULL,
                      !.crossed = @ \/ (k.item # "tn" /\ Unsent(c))]
    BY <1>0, <1>1, <1>2, <1>3, <1>4, Zenon DEF Unsent
  <2> QED BY <1>0, <2>1, <2>2, <2>3, Zenon DEF ItemLetsGo
<1>7. ConnSound(k, h) /\ Used(c) /\ k.item # NULL
  BY <1>0, <1>1, <1>6, NullIsNone DEF Used
<1>8. /\ Typed(k)
      /\ ~k.open => ~k.readEv /\ k.writeEv = NULL /\ Loose(k)
      /\ k.open /\ ~Loose(k) => Tidy(k, h)
  BY <1>7, Zenon DEF ConnSound
<1>9. /\ k = [f \in Fields |-> k[f]] /\ k.open \in BOOLEAN /\ k.readEv \in BOOLEAN
      /\ k.late \in BOOLEAN /\ k.crossed \in BOOLEAN
      /\ k.item \in Items /\ k.out \in 0 .. 2 /\ k.writeEv \in Callbacks
  BY <1>8, Zenon DEF Typed
<1>10. i \in Items /\ b \in BOOLEAN /\ w \in Callbacks
  <2>1. i \in Items
    BY <1>2 DEF Items
  <2>2. b \in BOOLEAN
    BY <1>3
  <2>3. w \in Callbacks
    BY <1>5 DEF Callbacks
  <2> QED BY <2>1, <2>2, <2>3
<1>11. t = [k EXCEPT !.out = k.out, !.readEv = k.readEv, !.writeEv = k.writeEv,
                     !.item = i, !.crossed = b]
  BY <1>4, <1>9, ZenonT(60) DEF Fields
<1>12. Sets(k, t, k.out, k.readEv, k.writeEv, i, b)
  BY <1>9, <1>11, SetsFields, Zenon
<1>13. Typed(t)
  BY <1>8, <1>9, <1>10, <1>12, SetsTyped
<1>14. /\ t = [f \in Fields |-> t[f]]
       /\ t.open = k.open /\ t.late = k.late /\ t.route = k.route /\ t.out = k.out
       /\ t.readEv = k.readEv /\ t.writeEv = k.writeEv /\ t.item = i /\ t.crossed = b
  BY <1>12, Zenon DEF Sets
<1>15. k.open /\ ~Loose(t) =>
         ~Loose(k) /\ ~k.readEv /\ k.writeEv = NULL /\ ~h /\ i = NULL
  <2>1. SUFFICES ASSUME k.open, ~Loose(t)
                 PROVE  ~Loose(k) /\ ~k.readEv /\ k.writeEv = NULL /\ ~h /\ i = NULL
    OBVIOUS
  <2>2. ~Loose(k) /\ ~(k.item # "tn" /\ (h \/ k.writeEv = "on_write_header"))
    BY <1>3, <1>14, <2>1 DEF Loose
  <2>3. Tidy(k, h)
    BY <1>8, <2>1, <2>2
  <2>4. ~h /\ k.writeEv # "on_write_header"
    BY <2>2, <2>3 DEF Tidy
  <2>5. ~k.readEv /\ k.writeEv = NULL
    BY <1>7, <1>9, <2>3, <2>4 DEF Tidy, Callbacks
  <2>6. i = NULL
    BY <1>2, <2>3 DEF Tidy
  <2> QED BY <2>2, <2>4, <2>5, <2>6
<1>16. ~k.open => Loose(t)
  BY <1>3, <1>8, <1>14 DEF Loose
<1>17. t.item # NULL \/ h => Loose(t)
  BY <1>14, <1>15, <1>16
<1>18. ConnSound(Gone(t), header' = c) /\ Elsewhere(c)
  <2>1. ConnSound(Gone(t), h)
    BY <1>13, <1>17, GoneSound
  <2> QED BY <1>1, <2>1, HeaderStays, Zenon
<1>19. CASE Destroy(c, t)
  <2>1. Freed(c, t)
    BY <1>0, <1>7, <1>13, <1>16, <1>18, <1>19, Zenon DEF Freed
  <2> QED BY <1>18, <2>1, Zenon DEF Moved
<1>20. CASE t.open /\ OnWrite(c, [t EXCEPT !.out = 2])
  <2>1. Unheld(t, h)
    BY <1>13, <1>14, <1>15, <1>20, Zenon DEF Unheld
  <2>2. PICK u : u = [t EXCEPT !.out = 2]
    OBVIOUS
  <2>3. Unheld(u, h)
    <3>1. 2 \in 0 .. 2
      OBVIOUS
    <3> QED BY <2>1, <2>2, <3>1, OutFields, Zenon
  <2>4. Unheld(u, header' = c)
    BY <1>1, <2>3, HeaderStays, Zenon
  <2> QED BY <1>0, <1>14, <1>18, <1>20, <2>2, <2>4, OnWriteMoves
<1>21. CASE t.open /\ Become(c, [t EXCEPT !.readEv = TRUE, !.writeEv = w])
  <2>1. PICK u : u = [t EXCEPT !.readEv = TRUE, !.writeEv = w]
    OBVIOUS
  <2>2. u = [t EXCEPT !.out = t.out, !.readEv = TRUE, !.writeEv = w,
                      !.item = t.item, !.crossed = t.crossed]
    BY <1>14, <2>1, ZenonT(60) DEF Fields
  <2>3. Sets(t, u, t.out, TRUE, w, t.item, t.crossed)
    BY <1>14, <2>2, SetsFields, Zenon
  <2>4. Typed(u)
    <3>1. TRUE \in BOOLEAN /\ t.out \in 0 .. 2 /\ t.item \in Items /\ t.crossed \in BOOLEAN
      BY <1>9, <1>10, <1>14
    <3> QED BY <1>10, <1>13, <2>3, <3>1, SetsTyped
  <2>5. /\ u.open = t.open /\ u.late = t.late /\ u.readEv = TRUE
        /\ u.writeEv = w /\ u.item = t.item /\ u.crossed = t.crossed
    BY <2>3, Zenon DEF Sets
  <2>6. Waits(u, h) /\ (Loose(u) <=> Loose(t))
    BY <2>5, Zenon DEF Waits, Loose
  <2>7. ~Loose(u) => Tidy(u, h)
    BY <1>5, <1>14, <1>15, <1>21, <2>5, <2>6, NullIsNone DEF Tidy
  <2>8. ConnSound(u, h)
    BY <1>21, <2>4, <2>5, <2>6, <2>7, Zenon DEF ConnSound
  <2>9. ConnSound(u, header' = c)
    BY <1>1, <2>8, HeaderStays, Zenon
  <2>10. Kept(c, u)
    BY <1>0, <1>7, <1>14, <1>21, <2>1, <2>5, <2>9, Zenon DEF Kept
  <2> QED BY <1>18, <2>10, Zenon DEF Moved
<1> QED BY <1>6, <1>19, <1>20, <1>21, Zenon

-----------------------------------------------------------------------------
(* The pool. *)

(* t is q with c put before it. *)
Puts(c, q, t, a) ==
  /\ t \in Seq(1 .. a) /\ Len(q) \in Nat
  /\ DOMAIN t = 1 .. Len(q) + 1 /\ DOMAIN q = 1 .. Len(q)
  /\ t[1] = c /\ \A i \in 1 .. Len(q) : t[i + 1] = q[i]
  /\ \A d : d \in ToSet(t) <=> d = c \/ d \in ToSet(q)

(* Putting a struct before the pool. *)
LEMMA PutBefore ==
  ASSUME NEW a \in Nat, NEW q \in Seq(1 .. a), NEW c \in 1 .. a
  PROVE  Puts(c, q, <<c>> \o q, a)
<1>0. PICK t : t = <<c>> \o q
  OBVIOUS
<1>1. /\ t \in Seq(1 .. a) /\ Len(q) \in Nat
      /\ DOMAIN t = 1 .. Len(q) + 1 /\ DOMAIN q = 1 .. Len(q)
      /\ t[1] = c /\ \A i \in 1 .. Len(q) : t[i + 1] = q[i]
  BY <1>0
<1>2. ASSUME NEW d
      PROVE  d \in ToSet(t) <=> d = c \/ d \in ToSet(q)
  <2>1. ASSUME d \in ToSet(t)
        PROVE  d = c \/ d \in ToSet(q)
    <3>1. PICK i \in DOMAIN t : t[i] = d
      BY <2>1, Zenon DEF ToSet
    <3>2. CASE i = 1
      BY <1>1, <3>1, <3>2
    <3>3. CASE i # 1
      <4>1. PICK j : j = i - 1
        OBVIOUS
      <4>2. j \in 1 .. Len(q) /\ i = j + 1
        BY <1>1, <3>1, <3>3, <4>1
      <4>3. q[j] = d /\ j \in DOMAIN q
        BY <1>1, <3>1, <4>2
      <4> QED BY <4>3, Zenon DEF ToSet
    <3> QED BY <3>2, <3>3
  <2>2. c \in ToSet(t)
    <3>1. 1 \in DOMAIN t
      BY <1>1
    <3> QED BY <1>1, <3>1, Zenon DEF ToSet
  <2>3. ASSUME d \in ToSet(q)
        PROVE  d \in ToSet(t)
    <3>1. PICK j \in DOMAIN q : q[j] = d
      BY <2>3, Zenon DEF ToSet
    <3>2. j + 1 \in DOMAIN t /\ t[j + 1] = d
      BY <1>1, <3>1
    <3> QED BY <3>2, Zenon DEF ToSet
  <2> QED BY <2>1, <2>2, <2>3
<1> QED BY <1>0, <1>1, <1>2, Zenon DEF Puts

(* The structs but one are as they were. *)
Replaced(c, k) == /\ conn' = [d \in Conns |-> conn'[d]]
                  /\ conn'[c] = k /\ \A d \in Conns : d # c => conn'[d] = conn[d]

(* Writing one struct. *)
LEMMA Replaces ==
  ASSUME HttpInv, NEW c \in Conns, NEW k, conn' = [conn EXCEPT ![c] = k]
  PROVE  Replaced(c, k)
<1>1. conn = [d \in Conns |-> conn[d]]
  BY Zenon DEF HttpInv
<1>2. conn' = [d \in Conns |-> conn'[d]]
  BY <1>1, ZenonT(60)
<1>3. conn'[c] = k /\ \A d \in Conns : d # c => conn'[d] = conn[d]
  BY <1>1, ZenonT(60)
<1> QED BY <1>2, <1>3 DEF Replaced

(* The structs are sound if the one that was written is. *)
LEMMA StructsSound ==
  ASSUME HttpInv, NEW c \in Conns, NEW k, Replaced(c, k), ConnSound(k, header' = c),
         Elsewhere(c), PoolSound'
  PROVE  HttpInv'
<1>1. conn' = [d \in Conns |-> conn'[d]]
  BY Zenon DEF Replaced
<1>2. \A d \in Conns : ConnSound(conn'[d], header' = d)
  <2> TAKE d \in Conns
  <2>1. CASE d = c
    BY <2>1, Zenon DEF Replaced
  <2>2. CASE d # c
    <3>1. conn'[d] = conn[d]
      BY <2>2, Zenon DEF Replaced
    <3>2. ConnSound(conn[d], header = d)
      BY Zenon DEF HttpInv
    <3>3. (header' = d) = (header = d)
      BY <2>2 DEF Elsewhere
    <3> QED BY <3>1, <3>2, <3>3, Zenon
  <2> QED BY <2>1, <2>2
<1> QED BY <1>1, <1>2, Zenon DEF HttpInv

(* What PoolSound says, with the names of the structs as numbers. *)
LEMMA PoolFacts ==
  ASSUME HttpInv, ~FreedTwice
  PROVE  /\ allocated \in Nat /\ pool \in Seq(1 .. allocated)
         /\ \A c \in Conns : c \in 1 .. allocated \/ (~conn[c].open /\ conn[c].item = NULL /\ header # c)
         /\ \A c \in 1 .. allocated : c \in Conns
         /\ \A i, j \in DOMAIN pool : pool[i] = pool[j] => i = j
         /\ \A c \in 1 .. allocated : conn[c].open <=> c \notin ToSet(pool)
<1>1. /\ allocated \in 1 .. Cardinality(Conns) /\ pool \in Seq(1 .. allocated)
      /\ \A c \in 1 .. allocated : conn[c].open <=> c \notin ToSet(pool)
      /\ \A c \in Conns : c > allocated => ~conn[c].open /\ conn[c].item = NULL /\ header # c
  BY Zenon DEF HttpInv, PoolSound
<1>2. PICK n : n = Cardinality(Conns)
  OBVIOUS
<1>3. n \in Nat /\ Conns = 1 .. n
  BY <1>2, HttpConnAssumption
<1>4. allocated \in Nat /\ allocated <= n
  BY <1>1, <1>2, <1>3
<1>5. \A c \in Conns : c \in 1 .. allocated \/ c > allocated
  BY <1>3, <1>4
<1>6. \A c \in 1 .. allocated : c \in Conns
  BY <1>3, <1>4
<1>7. \A i, j \in DOMAIN pool : pool[i] = pool[j] => i = j
  BY Zenon DEF FreedTwice
<1> QED BY <1>1, <1>4, <1>5, <1>6, <1>7, Zenon

(* A connection that is kept. *)
LEMMA KeptInv ==
  ASSUME HttpInv, ~FreedTwice, NEW c \in Conns, Elsewhere(c), NEW k, Kept(c, k)
  PROVE  HttpInv'
<1>1. /\ Used(c) /\ (k.open <=> conn[c].open) /\ ConnSound(k, header' = c)
      /\ conn' = [conn EXCEPT ![c] = k] /\ pool' = pool /\ allocated' = allocated
  BY Zenon DEF Kept, Become
<1>2. Replaced(c, k)
  BY <1>1, Replaces
<1>3. conn'[c] = k /\ \A d \in Conns : d # c => conn'[d] = conn[d]
  BY <1>2, Zenon DEF Replaced
<1>4. /\ allocated \in 1 .. Cardinality(Conns) /\ pool \in Seq(1 .. allocated)
      /\ \A d \in 1 .. allocated : conn[d].open <=> d \notin ToSet(pool)
      /\ \A d \in Conns : d > allocated => ~conn[d].open /\ conn[d].item = NULL /\ header # d
  BY Zenon DEF HttpInv, PoolSound
<1>5. /\ \A d \in 1 .. allocated : d \in Conns
      /\ \A i, j \in DOMAIN pool : pool[i] = pool[j] => i = j
  BY PoolFacts, Zenon
<1>6. \A d \in 1 .. allocated : conn'[d].open <=> d \notin ToSet(pool)
  <2> TAKE d \in 1 .. allocated
  <2>1. CASE d = c
    BY <1>1, <1>3, <1>4, <2>1, Zenon
  <2>2. CASE d # c
    BY <1>3, <1>4, <1>5, <2>2, Zenon
  <2> QED BY <2>1, <2>2
<1>7. \A d \in Conns : d > allocated => ~conn'[d].open /\ conn'[d].item = NULL /\ header' # d
  <2> TAKE d \in Conns
  <2> HAVE d > allocated
  <2>1. ~conn[d].open /\ conn[d].item = NULL /\ header # d
    BY <1>4
  <2>2. d # c
    BY <1>1, <2>1, Zenon DEF Used
  <2> QED BY <1>3, <2>1, <2>2, Zenon DEF Elsewhere
<1>8. PoolSound'
  BY <1>1, <1>4, <1>5, <1>6, <1>7, Zenon DEF PoolSound
<1> QED BY <1>1, <1>2, <1>8, StructsSound

(* What is gone is closed, and as late as before, asked for the same. *)
LEMMA GoneClosed ==
  ASSUME NEW k, k = [f \in Fields |-> k[f]], NEW t, t = Gone(k)
  PROVE  t.open = FALSE /\ t.route = k.route /\ (Loose(t) <=> Loose(k))
BY GoneFields, ZenonT(60) DEF Loose

(* Behind the first place, every place is one more than another. *)
LEMMA PlaceBefore ==
  ASSUME NEW n \in Nat, NEW i \in 1 .. n + 1, i # 1
  PROVE  \E a \in 1 .. n : i = a + 1
<1>1. i - 1 \in 1 .. n /\ i = (i - 1) + 1
  OBVIOUS
<1> QED BY <1>1

(* A connection that is destroyed. *)
LEMMA FreedInv ==
  ASSUME HttpInv, ~FreedTwice, NEW c \in Conns, Elsewhere(c), NEW k, Freed(c, k)
  PROVE  HttpInv'
<1>1. /\ Typed(k) /\ Used(c)
      /\ conn[c].open \/ Loose(k)
      /\ ConnSound(Gone(k), header' = c)
      /\ conn' = [conn EXCEPT ![c] = Gone(k)] /\ pool' = <<c>> \o pool
      /\ allocated' = allocated
  BY Zenon DEF Freed, Destroy
<1>2. PICK t : t = Gone(k)
  OBVIOUS
<1>3. PICK q : q = <<c>> \o pool
  OBVIOUS
<1>4. Replaced(c, t)
  BY <1>1, <1>2, Replaces
<1>5. conn'[c] = t /\ \A d \in Conns : d # c => conn'[d] = conn[d]
  BY <1>4, Zenon DEF Replaced
<1>6. /\ allocated \in Nat /\ pool \in Seq(1 .. allocated)
      /\ \A d \in Conns : d \in 1 .. allocated \/ (~conn[d].open /\ conn[d].item = NULL /\ header # d)
      /\ \A d \in 1 .. allocated : d \in Conns
      /\ \A i, j \in DOMAIN pool : pool[i] = pool[j] => i = j
      /\ \A d \in 1 .. allocated : conn[d].open <=> d \notin ToSet(pool)
  BY PoolFacts, Zenon
<1>7. /\ allocated \in 1 .. Cardinality(Conns)
      /\ \A d \in Conns : d > allocated => ~conn[d].open /\ conn[d].item = NULL /\ header # d
  BY Zenon DEF HttpInv, PoolSound
<1>8. c \in 1 .. allocated
  BY <1>1, <1>6, Zenon DEF Used
<1>9. /\ q \in Seq(1 .. allocated) /\ Len(pool) \in Nat
      /\ DOMAIN q = 1 .. Len(pool) + 1 /\ DOMAIN pool = 1 .. Len(pool)
      /\ q[1] = c /\ \A i \in 1 .. Len(pool) : q[i + 1] = pool[i]
      /\ \A d : d \in ToSet(q) <=> d = c \/ d \in ToSet(pool)
  <2>1. Puts(c, pool, q, allocated)
    BY <1>3, <1>6, <1>8, PutBefore
  <2> QED BY <2>1, Zenon DEF Puts
<1>10. ~t.open /\ ConnSound(t, header' = c) /\ (Loose(t) <=> Loose(k))
  <2>1. k = [f \in Fields |-> k[f]]
    BY <1>1, Zenon DEF Typed
  <2>2. t.open = FALSE /\ (Loose(t) <=> Loose(k))
    BY <1>2, <2>1, GoneClosed
  <2> QED BY <1>1, <1>2, <2>2
<1>11. \A d \in 1 .. allocated : conn'[d].open <=> d \notin ToSet(q)
  <2> TAKE d \in 1 .. allocated
  <2>1. CASE d = c
    BY <1>5, <1>9, <1>10, <2>1, Zenon
  <2>2. CASE d # c
    BY <1>5, <1>6, <1>9, <2>2, Zenon
  <2> QED BY <2>1, <2>2
<1>12. \A d \in Conns : d > allocated => ~conn'[d].open /\ conn'[d].item = NULL /\ header' # d
  <2> TAKE d \in Conns
  <2> HAVE d > allocated
  <2>1. d # c
    BY <1>6, <1>8
  <2> QED BY <1>5, <1>7, <2>1, Zenon DEF Elsewhere
<1>13. ASSUME NEW i \in DOMAIN q, NEW j \in DOMAIN q, i # j, q[i] = q[j]
       PROVE  /\ i = 1 \/ j = 1
              /\ conn'[q[1]].route = "tn" \/ Loose(conn'[q[1]])
  <2>1. i = 1 \/ j = 1
    <3>1. CASE i # 1 /\ j # 1
      <4>1. PICK a \in 1 .. Len(pool) : i = a + 1
        BY <1>9, <1>13, <3>1, PlaceBefore
      <4>2. PICK b \in 1 .. Len(pool) : j = b + 1
        BY <1>9, <1>13, <3>1, PlaceBefore
      <4>3. /\ a \in 1 .. Len(pool) /\ i = a + 1
            /\ b \in 1 .. Len(pool) /\ j = b + 1
        BY <4>1, <4>2
      <4>4. pool[a] = pool[b]
        BY <1>9, <1>13, <4>3
      <4>5. a = b
        BY <1>6, <1>9, <4>3, <4>4
      <4> QED BY <1>13, <4>3, <4>5
    <3> QED BY <3>1
  <2>2. PICK m \in DOMAIN q : m # 1 /\ q[m] = c
    BY <1>9, <1>13, <2>1
  <2>3. PICK a : a = m - 1
    OBVIOUS
  <2>4. a \in 1 .. Len(pool) /\ m = a + 1
    BY <1>9, <2>2, <2>3
  <2>5. pool[a] = c /\ a \in DOMAIN pool
    BY <1>9, <2>2, <2>4
  <2>6. c \in ToSet(pool)
    BY <2>5, Zenon DEF ToSet
  <2>7. Loose(k)
    BY <1>1, <1>6, <1>8, <2>6, Zenon
  <2>8. Loose(t)
    BY <1>10, <2>7
  <2> QED BY <1>5, <1>9, <2>1, <2>8
<1>14. PoolSound'
  <2>1. pool' = q /\ allocated' = allocated
    BY <1>1, <1>3
  <2> QED BY <1>7, <1>9, <1>11, <1>12, <1>13, <2>1, ZenonT(60) DEF PoolSound
<1> QED BY <1>4, <1>10, <1>14, StructsSound

(* A connection that is destroyed twice. *)
LEMMA FreedTwoInv ==
  ASSUME HttpInv, ~FreedTwice, NEW c \in Conns, Elsewhere(c), NEW k, FreedTwo(c, k)
  PROVE  HttpInv'
<1>1. /\ Typed(k) /\ conn[c].open /\ k.route = "tn" /\ ConnSound(Gone(k), header' = c)
      /\ conn' = [conn EXCEPT ![c] = Gone(k)] /\ pool' = <<c, c>> \o pool
      /\ allocated' = allocated
  BY Zenon DEF FreedTwo
<1>2. PICK t : t = Gone(k)
  OBVIOUS
<1>3. PICK p : p = <<c>> \o pool
  OBVIOUS
<1>4. PICK q : q = <<c>> \o p
  OBVIOUS
<1>5. Replaced(c, t)
  BY <1>1, <1>2, Replaces
<1>6. conn'[c] = t /\ \A d \in Conns : d # c => conn'[d] = conn[d]
  BY <1>5, Zenon DEF Replaced
<1>7. /\ allocated \in Nat /\ pool \in Seq(1 .. allocated)
      /\ \A d \in Conns : d \in 1 .. allocated \/ (~conn[d].open /\ conn[d].item = NULL /\ header # d)
      /\ \A d \in 1 .. allocated : d \in Conns
      /\ \A i, j \in DOMAIN pool : pool[i] = pool[j] => i = j
      /\ \A d \in 1 .. allocated : conn[d].open <=> d \notin ToSet(pool)
  BY PoolFacts, Zenon
<1>8. /\ allocated \in 1 .. Cardinality(Conns)
      /\ \A d \in Conns : d > allocated => ~conn[d].open /\ conn[d].item = NULL /\ header # d
  BY Zenon DEF HttpInv, PoolSound
<1>9. c \in 1 .. allocated /\ c \notin ToSet(pool)
  BY <1>1, <1>7, Zenon
<1>10. /\ p \in Seq(1 .. allocated) /\ Len(pool) \in Nat
       /\ DOMAIN p = 1 .. Len(pool) + 1 /\ DOMAIN pool = 1 .. Len(pool)
       /\ p[1] = c /\ \A i \in 1 .. Len(pool) : p[i + 1] = pool[i]
       /\ \A d : d \in ToSet(p) <=> d = c \/ d \in ToSet(pool)
  <2>1. Puts(c, pool, p, allocated)
    BY <1>3, <1>7, <1>9, PutBefore
  <2> QED BY <2>1, Zenon DEF Puts
<1>11. /\ q \in Seq(1 .. allocated) /\ Len(p) \in Nat
       /\ DOMAIN q = 1 .. Len(p) + 1 /\ DOMAIN p = 1 .. Len(p)
       /\ q[1] = c /\ \A i \in 1 .. Len(p) : q[i + 1] = p[i]
       /\ \A d : d \in ToSet(q) <=> d = c \/ d \in ToSet(p)
  <2>1. Puts(c, p, q, allocated)
    BY <1>4, <1>7, <1>9, <1>10, PutBefore
  <2> QED BY <2>1, Zenon DEF Puts
<1>12. Len(p) = Len(pool) + 1
  BY <1>10, <1>11
<1>13. pool' = q
  <2>1. <<c, c>> \o pool = <<c>> \o (<<c>> \o pool)
    BY <1>7, <1>9
  <2> QED BY <1>1, <1>3, <1>4, <2>1
<1>14. ConnSound(t, header' = c) /\ ~t.open /\ t.route = "tn"
  <2>1. k = [f \in Fields |-> k[f]]
    BY <1>1, Zenon DEF Typed
  <2>2. t.open = FALSE /\ t.route = k.route
    BY <1>2, <2>1, GoneClosed
  <2> QED BY <1>1, <1>2, <2>2
<1>15. \A d \in 1 .. allocated : conn'[d].open <=> d \notin ToSet(q)
  <2> TAKE d \in 1 .. allocated
  <2>1. CASE d = c
    BY <1>6, <1>11, <1>14, <2>1, Zenon
  <2>2. CASE d # c
    BY <1>6, <1>7, <1>10, <1>11, <2>2, Zenon
  <2> QED BY <2>1, <2>2
<1>16. \A d \in Conns : d > allocated => ~conn'[d].open /\ conn'[d].item = NULL /\ header' # d
  <2> TAKE d \in Conns
  <2> HAVE d > allocated
  <2>1. d # c
    BY <1>7, <1>9
  <2> QED BY <1>6, <1>8, <2>1, Zenon DEF Elsewhere
<1>17. ASSUME NEW i \in DOMAIN q, NEW j \in DOMAIN q, i # j, q[i] = q[j]
       PROVE  i = 1 \/ j = 1
  <2>1. CASE i # 1 /\ j # 1
    <3>1. PICK a \in 1 .. Len(p) : i = a + 1
      BY <1>11, <1>17, <2>1, PlaceBefore
    <3>2. PICK b \in 1 .. Len(p) : j = b + 1
      BY <1>11, <1>17, <2>1, PlaceBefore
    <3>3. /\ a \in 1 .. Len(pool) + 1 /\ i = a + 1
          /\ b \in 1 .. Len(pool) + 1 /\ j = b + 1
      BY <1>12, <3>1, <3>2
    <3>4. p[a] = p[b] /\ a # b
      BY <1>11, <1>12, <1>17, <3>3
    <3>5. ASSUME NEW m \in 1 .. Len(pool), pool[m] = c
          PROVE  FALSE
      BY <1>9, <1>10, <3>5, Zenon DEF ToSet
    <3>6. a # 1
      <4>1. CASE a = 1
        <5>1. PICK m : m = b - 1
          OBVIOUS
        <5>2. m \in 1 .. Len(pool) /\ b = m + 1
          BY <1>10, <3>3, <3>4, <4>1, <5>1
        <5>3. pool[m] = c
          BY <1>10, <3>4, <4>1, <5>2
        <5> QED BY <3>5, <5>2, <5>3
      <4> QED BY <4>1
    <3>7. b # 1
      <4>1. CASE b = 1
        <5>1. PICK m : m = a - 1
          OBVIOUS
        <5>2. m \in 1 .. Len(pool) /\ a = m + 1
          BY <1>10, <3>3, <3>4, <4>1, <5>1
        <5>3. pool[m] = c
          BY <1>10, <3>4, <4>1, <5>2
        <5> QED BY <3>5, <5>2, <5>3
      <4> QED BY <4>1
    <3>8. PICK m \in 1 .. Len(pool) : a = m + 1
      BY <1>10, <3>3, <3>6, PlaceBefore
    <3>9. PICK n \in 1 .. Len(pool) : b = n + 1
      BY <1>10, <3>3, <3>7, PlaceBefore
    <3>10. /\ m \in 1 .. Len(pool) /\ a = m + 1
           /\ n \in 1 .. Len(pool) /\ b = n + 1
      BY <3>8, <3>9
    <3>11. pool[m] = pool[n]
      BY <1>10, <3>4, <3>10
    <3>12. m = n
      BY <1>7, <1>10, <3>10, <3>11
    <3> QED BY <3>4, <3>10, <3>12
  <2> QED BY <2>1
<1>18. conn'[q[1]].route = "tn"
  BY <1>6, <1>11, <1>14
<1>19. PoolSound'
  <2>1. \A i, j \in DOMAIN q : i # j /\ q[i] = q[j] => i = 1 \/ j = 1
    BY <1>17
  <2>2. pool' = q /\ allocated' = allocated
    BY <1>1, <1>13
  <2> QED BY <1>8, <1>11, <1>15, <1>16, <1>18, <2>1, <2>2, ZenonT(60) DEF PoolSound
<1> QED BY <1>5, <1>14, <1>19, StructsSound

(* What InitConn makes is sound. *)
LEMMA InitConnSound ==
  ASSUME NEW k, NEW g, ConnSound(k, g), NEW script, NEW t, t = InitConn(k, script)
  PROVE  ConnSound(t, FALSE) /\ t.open
<1>1. PICK z : z = Closed
  OBVIOUS
<1>2. z = [f \in Fields |-> z[f]] /\ z.out = 0 /\ z.writeEv = NULL /\ z.crossed = FALSE
  BY <1>1, ZenonT(60) DEF Closed, Fields
<1>3. PICK late : late = (k.item # NULL)
  OBVIOUS
<1>4. PICK h : h = k.item
  OBVIOUS
<1>5. t = [z EXCEPT !.open = TRUE, !.inbox = script, !.readEv = TRUE, !.item = h, !.late = late]
  BY <1>1, <1>3, <1>4, Zenon DEF InitConn
<1>6. t = [f \in Fields |-> t[f]]
  BY <1>2, <1>5, ZenonT(60)
<1>7. t.open = TRUE /\ t.readEv = TRUE /\ t.item = h
  BY <1>2, <1>5, ZenonT(60) DEF Fields
<1>8. t.late = late /\ t.out = z.out /\ t.writeEv = z.writeEv /\ t.crossed = z.crossed
  BY <1>2, <1>5, ZenonT(60) DEF Fields
<1>9. late \in BOOLEAN /\ h \in Items
  <2>1. h \in Items
    BY <1>4, Zenon DEF ConnSound, Typed
  <2> QED BY <1>3, <2>1
<1>10. t.out = 0 /\ t.writeEv = NULL /\ t.crossed = FALSE
  BY <1>2, <1>8
<1>11. /\ t.out \in 0 .. 2 /\ t.writeEv \in Callbacks /\ t.crossed \in BOOLEAN
       /\ t.open \in BOOLEAN /\ t.readEv \in BOOLEAN
  <2>1. t.out \in 0 .. 2
    BY <1>10
  <2>2. t.writeEv \in Callbacks /\ t.crossed \in BOOLEAN
    BY <1>10 DEF Callbacks
  <2>3. t.open \in BOOLEAN
    BY <1>7
  <2>4. t.readEv \in BOOLEAN
    BY <1>7
  <2> QED BY <2>1, <2>2, <2>3, <2>4
<1>12. t.late \in BOOLEAN /\ t.item \in Items
  BY <1>7, <1>8, <1>9
<1>13. Typed(t)
  BY <1>6, <1>11, <1>12, Zenon DEF Typed
<1>14. ~Loose(t) => t.item = NULL
  BY <1>3, <1>4, <1>7, <1>8 DEF Loose
<1>15. ~Loose(t) => Tidy(t, FALSE)
  BY <1>10, <1>14, NullIsNone DEF Tidy
<1>16. Waits(t, FALSE) /\ t.open
  BY <1>7 DEF Waits
<1>17. ConnSound(t, FALSE)
  BY <1>13, <1>15, <1>16, Zenon DEF ConnSound
<1> QED BY <1>16, <1>17

(* What the structs are when a have been allocated and those of free are   *)
(* free.                                                                   *)
FreeOf(a, free) ==
  /\ a \in 1 .. Cardinality(Conns) /\ free \in Seq(1 .. a) /\ free # <<>>
  /\ \A i, j \in DOMAIN free : free[i] = free[j] => i = j
  /\ \A c \in 1 .. a : conn[c].open <=> c \notin ToSet(free)
  /\ \A c \in Conns : c > a => ~conn[c].open /\ conn[c].item = NULL /\ header # c

(* malloc_conn finds one in the pool (rtoh.c:821-822). *)
LEMMA FreeInPool ==
  ASSUME HttpInv, ~FreedTwice, pool # <<>>
  PROVE  FreeOf(allocated, pool)
<1>1. /\ allocated \in 1 .. Cardinality(Conns) /\ pool \in Seq(1 .. allocated)
      /\ \A c \in 1 .. allocated : conn[c].open <=> c \notin ToSet(pool)
      /\ \A c \in Conns : c > allocated => ~conn[c].open /\ conn[c].item = NULL /\ header # c
  BY Zenon DEF HttpInv, PoolSound
<1>2. \A i, j \in DOMAIN pool : pool[i] = pool[j] => i = j
  BY PoolFacts, Zenon
<1> QED BY <1>1, <1>2, Zenon DEF FreeOf

(* Or it allocates another batch of them, and puts each before the list    *)
(* (rtoh.c:805-819).                                                       *)
LEMMA BatchFacts ==
  ASSUME NEW a \in Nat, NEW free, free = [i \in 1 .. Batch |-> a + Batch - i + 1]
  PROVE  /\ Batch \in Nat /\ Batch > 0
         /\ free \in Seq(1 .. a + Batch) /\ Len(free) = Batch /\ DOMAIN free = 1 .. Batch
         /\ \A i \in 1 .. Batch : free[i] = a + Batch - i + 1
         /\ \A c \in 1 .. a + Batch : c \in ToSet(free) <=> c > a
<1>0. PICK n : n = Cardinality(Conns)
  OBVIOUS
<1>1. Batch \in Nat /\ Batch > 0
  <2>1. n \in Nat /\ Batch \in 1 .. n
    BY <1>0, HttpConnAssumption
  <2> QED BY <2>1
<1>2. /\ DOMAIN free = 1 .. Batch
      /\ \A i \in 1 .. Batch : free[i] = a + Batch - i + 1
  OBVIOUS
<1>3. free \in [1 .. Batch -> 1 .. a + Batch]
  <2>1. \A i \in 1 .. Batch : a + Batch - i + 1 \in 1 .. a + Batch
    BY <1>1
  <2> QED BY <2>1
<1>4. free \in Seq(1 .. a + Batch) /\ Len(free) = Batch
  BY <1>1, <1>2, <1>3
<1>5. ASSUME NEW c \in 1 .. a + Batch
      PROVE  c \in ToSet(free) <=> c > a
  <2>1. ASSUME c \in ToSet(free)
        PROVE  c > a
    <3>1. PICK i \in DOMAIN free : free[i] = c
      BY <2>1, Zenon DEF ToSet
    <3> QED BY <1>1, <1>2, <3>1
  <2>2. ASSUME c > a
        PROVE  c \in ToSet(free)
    <3>1. PICK i : i = a + Batch - c + 1
      OBVIOUS
    <3>2. i \in 1 .. Batch /\ a + Batch - i + 1 = c
      BY <1>1, <2>2, <3>1
    <3>3. i \in DOMAIN free /\ free[i] = c
      BY <1>2, <3>2
    <3> QED BY <3>3, Zenon DEF ToSet
  <2> QED BY <2>1, <2>2
<1> QED BY <1>1, <1>2, <1>4, <1>5

(* None of them has been used. *)
LEMMA FreeInBatch ==
  ASSUME HttpInv, ~FreedTwice, pool = <<>>, allocated + Batch <= Cardinality(Conns),
         NEW free, free = [i \in 1 .. Batch |-> allocated + Batch - i + 1]
  PROVE  FreeOf(allocated + Batch, free)
<1>0. PICK n : n = Cardinality(Conns)
  OBVIOUS
<1>1. n \in Nat /\ Conns = 1 .. n
  BY <1>0, HttpConnAssumption
<1>2. /\ allocated \in Nat
      /\ \A c \in Conns : c \in 1 .. allocated \/ (~conn[c].open /\ conn[c].item = NULL /\ header # c)
      /\ \A c \in 1 .. allocated : conn[c].open <=> c \notin ToSet(pool)
  BY PoolFacts, Zenon
<1>3. /\ Batch \in Nat /\ Batch > 0
      /\ free \in Seq(1 .. allocated + Batch) /\ Len(free) = Batch /\ DOMAIN free = 1 .. Batch
      /\ \A i \in 1 .. Batch : free[i] = allocated + Batch - i + 1
      /\ \A c \in 1 .. allocated + Batch : c \in ToSet(free) <=> c > allocated
  BY <1>2, BatchFacts
<1>4. allocated + Batch \in 1 .. n
  BY <1>0, <1>1, <1>2, <1>3
<1>5. \A i, j \in DOMAIN free : free[i] = free[j] => i = j
  BY <1>2, <1>3
<1>6. free # <<>>
  BY <1>3
<1>7. ASSUME NEW c \in 1 .. allocated
      PROVE  conn[c].open
  <2>1. c \notin ToSet(pool)
    <3>1. DOMAIN pool = {}
      OBVIOUS
    <3> QED BY <3>1, Zenon DEF ToSet
  <2> QED BY <1>2, <2>1
<1>8. \A c \in Conns : c > allocated => ~conn[c].open /\ conn[c].item = NULL /\ header # c
  <2> TAKE c \in Conns
  <2> HAVE c > allocated
  <2>1. c \notin 1 .. allocated
    BY <1>1, <1>2
  <2> QED BY <1>2, <2>1
<1>9. \A c \in 1 .. allocated + Batch : conn[c].open <=> c \notin ToSet(free)
  <2> TAKE c \in 1 .. allocated + Batch
  <2>1. c \in Conns
    BY <1>1, <1>4
  <2>2. CASE c > allocated
    BY <1>3, <1>8, <2>1, <2>2
  <2>3. CASE ~(c > allocated)
    <3>1. c \in 1 .. allocated
      BY <1>2, <1>3, <2>3
    <3> QED BY <1>3, <1>7, <2>3, <3>1
  <2> QED BY <2>2, <2>3
<1>10. \A c \in Conns : c > allocated + Batch => ~conn[c].open /\ conn[c].item = NULL /\ header # c
  <2> TAKE c \in Conns
  <2> HAVE c > allocated + Batch
  <2>1. c > allocated
    BY <1>1, <1>2, <1>3
  <2> QED BY <1>8, <2>1
<1>11. allocated + Batch \in 1 .. Cardinality(Conns)
  BY <1>0, <1>4
<1> QED BY <1>3, <1>5, <1>6, <1>9, <1>10, <1>11, Zenon DEF FreeOf

(* The first of them is taken, and init_conn called for it.                *)
LEMMA TakenInv ==
  ASSUME HttpInv, header = NULL, UNCHANGED header, NEW a, NEW free, FreeOf(a, free), NEW script,
         conn' = [conn EXCEPT ![Head(free)] = InitConn(conn[Head(free)], script)],
         pool' = Tail(free), allocated' = a
  PROVE  HttpInv'
<1>1. /\ a \in 1 .. Cardinality(Conns) /\ free \in Seq(1 .. a) /\ free # <<>>
      /\ \A i, j \in DOMAIN free : free[i] = free[j] => i = j
      /\ \A d \in 1 .. a : conn[d].open <=> d \notin ToSet(free)
      /\ \A d \in Conns : d > a => ~conn[d].open /\ conn[d].item = NULL /\ header # d
  BY Zenon DEF FreeOf
<1>2. PICK n : n = Cardinality(Conns)
  OBVIOUS
<1>3. n \in Nat /\ Conns = 1 .. n /\ a \in 1 .. n
  BY <1>1, <1>2, HttpConnAssumption
<1>4. PICK c : c = Head(free)
  OBVIOUS
<1>5. PICK q : q = Tail(free)
  OBVIOUS
<1>6. /\ q \in Seq(1 .. a) /\ Len(q) \in Nat
      /\ DOMAIN free = 1 .. Len(q) + 1 /\ DOMAIN q = 1 .. Len(q)
      /\ free[1] = c /\ \A i \in 1 .. Len(q) : q[i] = free[i + 1]
  BY <1>1, <1>4, <1>5
<1>7. c \in 1 .. a /\ c \in Conns
  BY <1>1, <1>3, <1>6
<1>8. PICK t : t = InitConn(conn[c], script)
  OBVIOUS
<1>9. ConnSound(t, header' = c) /\ t.open /\ Elsewhere(c)
  <2>1. ConnSound(conn[c], header = c)
    BY <1>7, Zenon DEF HttpInv
  <2>2. ConnSound(t, FALSE) /\ t.open
    BY <1>8, <2>1, InitConnSound
  <2>3. (header' = c) = FALSE /\ Elsewhere(c)
    BY <1>7, HttpConnAssumption DEF Elsewhere
  <2> QED BY <2>2, <2>3, Zenon
<1>10. conn' = [conn EXCEPT ![c] = t]
  BY <1>4, <1>8
<1>11. Replaced(c, t)
  BY <1>7, <1>10, Replaces
<1>12. conn'[c] = t /\ \A d \in Conns : d # c => conn'[d] = conn[d]
  BY <1>11, Zenon DEF Replaced
<1>13. \A d : d \in ToSet(q) <=> d \in ToSet(free) /\ d # c
  <2> TAKE d
  <2>1. ASSUME d \in ToSet(q)
        PROVE  d \in ToSet(free) /\ d # c
    <3>1. PICK i \in DOMAIN q : q[i] = d
      BY <2>1, Zenon DEF ToSet
    <3>2. i + 1 \in DOMAIN free /\ free[i + 1] = d /\ i + 1 # 1 /\ 1 \in DOMAIN free
      BY <1>6, <3>1
    <3>3. d # c
      BY <1>1, <1>6, <3>2
    <3> QED BY <3>2, <3>3, Zenon DEF ToSet
  <2>2. ASSUME d \in ToSet(free), d # c
        PROVE  d \in ToSet(q)
    <3>1. PICK j \in DOMAIN free : free[j] = d
      BY <2>2, Zenon DEF ToSet
    <3>2. PICK i : i = j - 1
      OBVIOUS
    <3>3. i \in 1 .. Len(q) /\ j = i + 1
      BY <1>6, <2>2, <3>1, <3>2
    <3>4. i \in DOMAIN q /\ q[i] = d
      BY <1>6, <3>1, <3>3
    <3> QED BY <3>4, Zenon DEF ToSet
  <2> QED BY <2>1, <2>2
<1>14. \A d \in 1 .. a : conn'[d].open <=> d \notin ToSet(q)
  <2> TAKE d \in 1 .. a
  <2>1. d \in Conns
    BY <1>3
  <2>2. CASE d = c
    BY <1>9, <1>12, <1>13, <2>2, Zenon
  <2>3. CASE d # c
    BY <1>1, <1>12, <1>13, <2>1, <2>3, Zenon
  <2> QED BY <2>2, <2>3
<1>15. \A d \in Conns : d > a => ~conn'[d].open /\ conn'[d].item = NULL /\ header' # d
  <2> TAKE d \in Conns
  <2> HAVE d > a
  <2>1. d # c
    BY <1>3, <1>7
  <2> QED BY <1>1, <1>12, <2>1, Zenon
<1>16. ASSUME NEW i \in DOMAIN q, NEW j \in DOMAIN q, i # j, q[i] = q[j]
       PROVE  FALSE
  <2>1. /\ i + 1 \in DOMAIN free /\ j + 1 \in DOMAIN free /\ i + 1 # j + 1
        /\ free[i + 1] = free[j + 1]
    BY <1>6, <1>16
  <2> QED BY <1>1, <2>1
<1>17. PoolSound'
  <2>1. pool' = q /\ allocated' = a
    BY <1>5
  <2> QED BY <1>1, <1>6, <1>14, <1>15, <1>16, <2>1, ZenonT(60) DEF PoolSound
<1> QED BY <1>7, <1>9, <1>11, <1>17, StructsSound

(* A client is accepted (rtoh.c:886).                                     *)
LEMMA OnAcceptInv ==
  ASSUME HttpInv, ~FreedTwice, header = NULL, UNCHANGED header, OnAccept
  PROVE  HttpInv'
<1>1. CASE pool # <<>>
  <2>1. PICK script \in Scripts[Head(pool)] :
          conn' = [conn EXCEPT ![Head(pool)] = InitConn(conn[Head(pool)], script)]
    BY <1>1, Zenon DEF OnAccept
  <2>2. pool' = Tail(pool) /\ allocated' = allocated
    BY <1>1, Zenon DEF OnAccept
  <2>3. FreeOf(allocated, pool)
    BY <1>1, FreeInPool
  <2> QED BY <2>1, <2>2, <2>3, TakenInv
<1>2. CASE pool = <<>>
  <2>1. PICK free : free = [i \in 1 .. Batch |-> allocated + Batch - i + 1]
    OBVIOUS
  <2>2. allocated + Batch <= Cardinality(Conns)
    BY <1>2, Zenon DEF OnAccept
  <2>3. PICK script \in Scripts[Head(free)] :
          conn' = [conn EXCEPT ![Head(free)] = InitConn(conn[Head(free)], script)]
    BY <1>2, <2>1, Zenon DEF OnAccept
  <2>4. pool' = Tail(free) /\ allocated' = allocated + Batch
    BY <1>2, <2>1, Zenon DEF OnAccept
  <2>5. FreeOf(allocated + Batch, free)
    BY <1>2, <2>1, <2>2, FreeInBatch
  <2> QED BY <2>3, <2>4, <2>5, TakenInv
<1> QED BY <1>1, <1>2

-----------------------------------------------------------------------------
(* The invariant. *)

(* A struct that has never been used is sound. *)
LEMMA ClosedSound ==
  ASSUME NEW k, k = Closed
  PROVE  ConnSound(k, FALSE) /\ ~k.open /\ k.item = NULL
<1>1. k = [f \in Fields |-> k[f]]
  BY ZenonT(60) DEF Closed, Fields
<1>2. k.open = FALSE /\ k.readEv = FALSE /\ k.late = FALSE
  BY ZenonT(60) DEF Closed
<1>3. k.item = NULL /\ k.writeEv = NULL /\ k.out = 0
  BY ZenonT(60) DEF Closed
<1>4. k.crossed = FALSE
  BY ZenonT(60) DEF Closed
<1>5. k.item \in Items /\ k.writeEv \in Callbacks
  BY <1>3 DEF Items, Callbacks
<1>6. k.out \in 0 .. 2
  BY <1>3
<1>7. Typed(k)
  <2>1. k.open \in BOOLEAN /\ k.readEv \in BOOLEAN /\ k.late \in BOOLEAN /\ k.crossed \in BOOLEAN
    BY <1>2, <1>4
  <2> QED BY <1>1, <1>5, <1>6, <2>1, Zenon DEF Typed
<1> QED BY <1>2, <1>3, <1>7, Zenon DEF ConnSound

(* It holds when conn_mm_init has allocated the first batch                *)
(* (rtoh.c:776-797).                                                       *)
LEMMA InitInv == Init => HttpInv
<1> SUFFICES ASSUME Init
             PROVE  HttpInv
  OBVIOUS
<1>1. /\ conn = [c \in Conns |-> Closed]
      /\ pool = [i \in 1 .. Batch |-> Batch - i + 1]
      /\ allocated = Batch /\ header = NULL
  BY Zenon DEF Init
<1>0. PICK n : n = Cardinality(Conns)
  OBVIOUS
<1>2. n \in Nat /\ Conns = 1 .. n /\ Batch \in 1 .. n
  BY <1>0, HttpConnAssumption
<1>3. PICK z : z = Closed
  OBVIOUS
<1>4. ConnSound(z, FALSE) /\ ~z.open /\ z.item = NULL
  BY <1>3, ClosedSound
<1>5. \A c \in Conns : conn[c] = z
  BY <1>1, <1>3
<1>6. conn = [c \in Conns |-> conn[c]]
  BY <1>1, <1>3, Zenon
<1>7. \A c \in Conns : /\ ConnSound(conn[c], header = c) /\ ~conn[c].open
                       /\ conn[c].item = NULL /\ header # c
  <2> TAKE c \in Conns
  <2>1. conn[c] = z
    BY <1>5
  <2>2. (header = c) = FALSE
    BY <1>1, HttpConnAssumption
  <2> QED BY <1>4, <2>1, <2>2, Zenon
<1>8. pool = [i \in 1 .. Batch |-> 0 + Batch - i + 1]
  <2>1. \A i \in 1 .. Batch : Batch - i + 1 = 0 + Batch - i + 1
    BY <1>2
  <2> QED BY <1>1, <2>1
<1>9. /\ pool \in Seq(1 .. 0 + Batch) /\ DOMAIN pool = 1 .. Batch
      /\ \A i \in 1 .. Batch : pool[i] = 0 + Batch - i + 1
      /\ \A c \in 1 .. 0 + Batch : c \in ToSet(pool) <=> c > 0
  BY <1>8, BatchFacts
<1>10. pool \in Seq(1 .. allocated)
  <2>1. 0 + Batch = allocated
    BY <1>1, <1>2
  <2> QED BY <1>9, <2>1
<1>11. ASSUME NEW c \in 1 .. allocated
       PROVE  conn[c].open <=> c \notin ToSet(pool)
  <2>1. c \in Conns /\ c \in 1 .. 0 + Batch /\ c > 0
    BY <1>1, <1>2
  <2> QED BY <1>7, <1>9, <2>1
<1>12. \A i, j \in DOMAIN pool : i # j => pool[i] # pool[j]
  BY <1>2, <1>9
<1>13. allocated \in 1 .. Cardinality(Conns)
  BY <1>0, <1>1, <1>2
<1>14. PoolSound
  BY <1>7, <1>10, <1>11, <1>12, <1>13, Zenon DEF PoolSound
<1> QED BY <1>6, <1>7, <1>14, Zenon DEF HttpInv

(* Every handler keeps it. *)
LEMMA NextInv == HttpInv /\ [Next]_vars => HttpInv'
<1> SUFFICES ASSUME HttpInv, [Next]_vars
             PROVE  HttpInv'
  OBVIOUS
<1>1. CASE UNCHANGED vars
  <2>1. conn' = conn /\ pool' = pool /\ allocated' = allocated /\ header' = header
    BY <1>1, Zenon DEF vars
  <2> QED BY <2>1, Zenon DEF HttpInv, PoolSound
<1>2. CASE Next
  <2>1. ~FreedTwice
    BY <1>2, Zenon DEF Next
  <2>2. CASE header = NULL /\ OnAccept /\ UNCHANGED header
    BY <2>1, <2>2, OnAcceptInv
  <2>3. ASSUME NEW c \in Conns,
               \/ header = NULL /\ (Readable(c) \/ Writable(c))
               \/ OnWriteHeader(c)
               \/ (ItemServes(c) \/ ItemBlocks(c) \/ ItemLetsGo(c)) /\ UNCHANGED header
        PROVE  HttpInv'
    <3>1. ConnSound(conn[c], header = c) /\ conn = [d \in Conns |-> conn[d]]
      BY Zenon DEF HttpInv
    <3>2. Moved(c) /\ Elsewhere(c)
      <4>1. CASE header = NULL /\ (Readable(c) \/ Writable(c))
        BY <3>1, <4>1, ReadableMoves, WritableMoves
      <4>2. CASE OnWriteHeader(c)
        BY <3>1, <4>2, OnWriteHeaderMoves
      <4>3. CASE (ItemServes(c) \/ ItemBlocks(c) \/ ItemLetsGo(c)) /\ UNCHANGED header
        BY <3>1, <4>3, ItemServesMoves, ItemBlocksMoves, ItemLetsGoMoves
      <4> QED BY <2>3, <4>1, <4>2, <4>3
    <3>3. PICK k : Kept(c, k) \/ Freed(c, k) \/ FreedTwo(c, k)
      BY <3>2, Zenon DEF Moved
    <3> QED BY <2>1, <3>2, <3>3, KeptInv, FreedInv, FreedTwoInv
  <2> QED BY <1>2, <2>2, <2>3, Zenon DEF Next
<1> QED BY <1>1, <1>2

(* Every struct is sound, and the pool, for any number of clients and      *)
(* whatever they send.                                                     *)
THEOREM HttpInvariant == Spec => []HttpInv
BY InitInv, NextInv, PTL DEF Spec

-----------------------------------------------------------------------------
(* What follows from it. *)

(* Two entries of the pool that are the same struct are not joined by a    *)
(* third.                                                                  *)
LEMMA NeverThrice ==
  ASSUME HttpInv, NEW i \in DOMAIN pool, NEW j \in DOMAIN pool, NEW l \in DOMAIN pool,
         pool[i] = pool[j], pool[j] = pool[l]
  PROVE  Cardinality({i, j, l}) < 3
<1>1. \A a, b \in DOMAIN pool : a # b /\ pool[a] = pool[b] => a = 1 \/ b = 1
  BY Zenon DEF HttpInv, PoolSound
<1>2. i = j \/ j = l \/ i = l
  BY <1>1
<1>3. \E a, b : {i, j, l} = {a, b}
  BY <1>2
<1>4. PICK a, b : {i, j, l} = {a, b}
  BY <1>3
<1>5. Cardinality({a, b}) \in Nat /\ Cardinality({a, b}) <= 2
  <2>1. IsFiniteSet({b}) /\ Cardinality({b}) = 1
    BY FS_Singleton
  <2>2. IsFiniteSet({b} \union {a}) /\ Cardinality({b} \union {a}) \in {1, 2}
    BY <2>1, FS_AddElement
  <2>3. {b} \union {a} = {a, b}
    OBVIOUS
  <2> QED BY <2>2, <2>3
<1> QED BY <1>4, <1>5

(* A struct is free, once, or in use, unless the answer to a tn request    *)
(* has failed twice (rtoh.c:363, 767), or something named by late or       *)
(* crossed has happened: for any number of structs.                        *)
THEOREM ConnsHeldOnceCorrect == Spec => []ConnsHeldOnce
<1>1. HttpInv => ConnsHeldOnce
  <2> SUFFICES ASSUME HttpInv
               PROVE  ConnsHeldOnce
    OBVIOUS
  <2>1. /\ pool \in Seq(1 .. allocated)
        /\ \A c \in 1 .. allocated : conn[c].open <=> c \notin ToSet(pool)
        /\ \A i, j \in DOMAIN pool :
             i # j /\ pool[i] = pool[j] => conn[pool[1]].route = "tn" \/ Loose(conn[pool[1]])
    BY Zenon DEF HttpInv, PoolSound
  <2>2. ASSUME FreedTwice
        PROVE  \/ conn[Head(pool)].route = "tn" \/ conn[Head(pool)].late
               \/ conn[Head(pool)].crossed
    <3>1. PICK i, j \in DOMAIN pool : i # j /\ pool[i] = pool[j]
      BY <2>2, Zenon DEF FreedTwice
    <3>2. conn[pool[1]].route = "tn" \/ Loose(conn[pool[1]])
      BY <2>1, <3>1, Zenon
    <3>3. Head(pool) = pool[1]
      BY <2>1, <3>1
    <3> QED BY <3>2, <3>3, Zenon DEF Loose
  <2>3. \A i, j, l \in DOMAIN pool :
          pool[i] = pool[j] /\ pool[j] = pool[l] => Cardinality({i, j, l}) < 3
    BY NeverThrice
  <2> QED BY <2>1, <2>2, <2>3, Zenon DEF ConnsHeldOnce
<1> QED BY <1>1, HttpInvariant, PTL

(* What an open connection waits for (h: its header is being written). *)
Holders(k, h) == {x \in {"read", "write", "item"} :
                    \/ x = "read" /\ k.readEv
                    \/ x = "write" /\ (k.writeEv # NULL \/ h)
                    \/ x = "item" /\ k.item \notin {NULL, "ready"}}

(* Two holders that are not loose are the header and the item. *)
LEMMA TwoHolders ==
  ASSUME NEW k, NEW h, k.writeEv \in Callbacks, Tidy(k, h), NEW hs, hs = Holders(k, h),
         Cardinality(hs) > 1
  PROVE  /\ hs = {"write", "item"} /\ k.item \in {"parked", "woken"}
         /\ h \/ k.writeEv = "on_write_header"
<1>1. /\ "read" \in hs <=> k.readEv
      /\ "write" \in hs <=> k.writeEv # NULL \/ h
      /\ "item" \in hs <=> k.item \notin {NULL, "ready"}
      /\ hs \subseteq {"read", "write", "item"}
  BY DEF Holders
<1>2. ~(\A x, y \in hs : x = y)
  <2>1. ASSUME \A x, y \in hs : x = y
        PROVE  FALSE
    <3>1. CASE hs = {}
      <4>1. Cardinality(hs) = 0
        BY <3>1, FS_EmptySet
      <4> QED BY <4>1
    <3>2. CASE hs # {}
      <4>1. PICK x \in hs : TRUE
        BY <3>2
      <4>2. hs = {x}
        BY <2>1, <4>1
      <4>3. Cardinality(hs) = 1
        BY <4>2, FS_Singleton
      <4> QED BY <4>3
    <3> QED BY <3>1, <3>2
  <2> QED BY <2>1
<1>3. PICK x, y \in hs : x # y
  BY <1>2
<1>4. "read" \notin hs
  <2>1. ASSUME "read" \in hs
        PROVE  FALSE
    <3>1. "write" \notin hs /\ "item" \notin hs
      BY <1>1, <2>1 DEF Tidy
    <3> QED BY <1>1, <1>3, <3>1
  <2> QED BY <2>1
<1>5. hs = {"write", "item"}
  BY <1>1, <1>3, <1>4
<1>6. h \/ k.writeEv = "on_write_header"
  BY <1>1, <1>5 DEF Tidy, Callbacks
<1> QED BY <1>1, <1>5, <1>6 DEF Tidy

(* What HeldByOne says of one connection. *)
OneHolder(k, h, hs) ==
  /\ k.open /\ hs = {} => k.route = "metaid"
  /\ k.open /\ Cardinality(hs) > 1 =>
       \/ k.late \/ k.crossed
       \/ hs = {"write", "item"} /\ k.item \in {"parked", "woken"}
          /\ (h \/ k.writeEv = "on_write_header")
  /\ k.item # NULL /\ ~k.open => k.late \/ k.crossed

(* An open connection waits for exactly one thing, but for the forgotten   *)
(* request for a metaid (rtoh.c:407), a parked request whose header is not *)
(* out (rtoh.c:398-405), and what late and crossed name.                   *)
THEOREM HeldByOneCorrect == Spec => []HeldByOne
<1>1. HttpInv => HeldByOne
  <2> SUFFICES ASSUME HttpInv, NEW c \in Conns
               PROVE  OneHolder(conn[c], header = c, Holders(conn[c], header = c))
    BY Zenon DEF HeldByOne, OneHolder, Holders, Unsent
  <2> DEFINE k == conn[c]
             h == header = c
             hs == Holders(k, h)
  <2> HIDE DEF k, h, hs
  <2> SUFFICES OneHolder(k, h, hs)
    BY DEF k, h, hs
  <2>1. ConnSound(k, h)
    BY Zenon DEF HttpInv, k, h
  <2>2. /\ ~k.open => (k.item # NULL => Loose(k))
        /\ k.open => Waits(k, h) \/ k.writeEv \in {"on_write", "on_write_header"}
        /\ k.open /\ ~Loose(k) => Tidy(k, h)
        /\ k.writeEv \in Callbacks
    BY <2>1, Zenon DEF ConnSound, Typed
  <2>3. ASSUME k.open, hs = {}
        PROVE  k.route = "metaid"
    <3>1. ~k.readEv /\ k.writeEv = NULL /\ ~h /\ k.item \in {NULL, "ready"}
      BY <2>3 DEF Holders, hs
    <3> QED BY <2>2, <2>3, <3>1, NullIsNone DEF Waits
  <2>4. k.open /\ Cardinality(hs) > 1 /\ ~Loose(k) =>
          /\ hs = {"write", "item"} /\ k.item \in {"parked", "woken"}
          /\ h \/ k.writeEv = "on_write_header"
    BY <2>2, TwoHolders DEF hs
  <2> QED BY <2>2, <2>3, <2>4, Zenon DEF Loose, OneHolder
<1> QED BY <1>1, HttpInvariant, PTL

=============================================================================
