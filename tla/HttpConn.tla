------------------------------ MODULE HttpConn ------------------------------
(***************************************************************************)
(* The connections of the HTTP server (rtoh.c): accept, read and parse a   *)
(* request, find out what it asks for, answer it, and read the next.       *)
(*                                                                         *)
(* All of it runs in the thread of main_base, but for the answers that an  *)
(* item gives later; what an item does with a connection it holds is in    *)
(* BlockStreaming, and here it either answers, goes back to reading, or    *)
(* closes.  A request for a block is given to its item before its header   *)
(* is written, so the item may serve it while the header is being written  *)
(* or waits to be.  A client sends the bytes of a script; they arrive in   *)
(* pieces of any size.  libevent is taken to be one whose event_add may be *)
(* repeated and whose event_set replaces the callback of a pending event.  *)
(***************************************************************************)
EXTENDS HttpParser, FiniteSets

CONSTANTS
  Conns,       \* the conn structs there can be
  Batch,       \* settings.maxconns: how many are allocated at a time
  Scripts,     \* what the client of each may send
  BufLen       \* read_buf_len

ASSUME HttpConnAssumption ==
  /\ Cardinality(Conns) \in Nat /\ Conns = 1 .. Cardinality(Conns)
  /\ Batch \in 1 .. Cardinality(Conns)
  /\ NULL \notin Conns
  /\ NULL \notin {"tn", "ready", "parked", "woken", "sending", "both"}
  /\ NULL \notin {"on_write", "on_write_header", "on_read"}

VARIABLES
  conn,        \* the conn structs, with the socket of each
  pool,        \* conn_head: the list of the free ones
  allocated,   \* stats.total_conns
  header,      \* the connection whose header the main thread is writing
  crashed      \* NULL was dereferenced

vars == <<conn, pool, allocated, header, crashed>>

(* init_conn, for a client that will send script.  item says what the      *)
(* struct's item has it for: a mediainfo request (tn), or a block, of      *)
(* which it was given the first piece (ready) and sends what follows the   *)
(* header (sending), or for which it was parked (parked), then served by   *)
(* the getter (woken), and by the main thread too (both).  last, cut, late *)
(* and crossed are not in the code: what the last request was answered     *)
(* from, whether a read ended inside its URL, whether an event was ever    *)
(* left behind, or the struct taken while an item still held it, and       *)
(* whether it was served before its header was out.                        *)
Closed == [open |-> FALSE, inbox |-> <<>>, read |-> <<>>, parser |-> Fresh, url |-> NULL,
           cut |-> FALSE, out |-> 0, readEv |-> FALSE, writeEv |-> NULL, item |-> NULL,
           route |-> NULL, last |-> NULL, late |-> FALSE, crossed |-> FALSE]

InitConn(k, script) == [Closed EXCEPT !.open = TRUE, !.inbox = script, !.readEv = TRUE,
                                      !.item = k.item, !.late = k.item # NULL]

Init == /\ conn = [c \in Conns |-> Closed]
        /\ pool = [i \in 1 .. Batch |-> Batch - i + 1]
        /\ allocated = Batch
        /\ header = NULL /\ crashed = FALSE

-----------------------------------------------------------------------------
(* malloc_conn takes the first free struct, after another batch has been   *)
(* put before it when there is none; free_conn puts one back.              *)

(* Fault: the struct that is taken stays in the list. *)
FaultOnAccept ==
  /\ pool # <<>>
  /\ \E script \in Scripts[Head(pool)] :
       conn' = [conn EXCEPT ![Head(pool)] = InitConn(conn[Head(pool)], script)]
  /\ UNCHANGED <<pool, allocated>>

OnAccept ==
    LET more == pool = <<>>
        free == IF more THEN [i \in 1 .. Batch |-> allocated + Batch - i + 1] ELSE pool
    IN  /\ more => allocated + Batch <= Cardinality(Conns)
        /\ \E script \in Scripts[Head(free)] :
             conn' = [conn EXCEPT ![Head(free)] = InitConn(conn[Head(free)], script)]
        /\ pool' = Tail(free)
        /\ allocated' = IF more THEN allocated + Batch ELSE allocated

(* destroy_conn: the struct keeps all but its events. *)
Gone(k) == [k EXCEPT !.open = FALSE, !.readEv = FALSE, !.writeEv = NULL, !.inbox = <<>>]

Destroy(c, k) == /\ conn' = [conn EXCEPT ![c] = Gone(k)]
                 /\ pool' = <<c>> \o pool
                 /\ UNCHANGED allocated

Become(c, k) == conn' = [conn EXCEPT ![c] = k] /\ UNCHANGED <<pool, allocated>>

-----------------------------------------------------------------------------
(* Writing.  The writes of a callback send n of the bytes and then would   *)
(* block, or fail.                                                         *)

(* Fault: the rest is not waited for. *)
FaultWrote(k, n, callback) ==
  IF n = k.out THEN [k EXCEPT !.out = 0, !.readEv = TRUE] ELSE [k EXCEPT !.out = @ - n]

(* on_write, when no write failed. *)
Wrote(k, n, callback) ==
  IF n = k.out THEN [k EXCEPT !.out = 0, !.readEv = TRUE]
               ELSE [k EXCEPT !.out = @ - n, !.writeEv = callback]

(* on_write_header: after the header come the pieces, unless the request   *)
(* is parked.  It may have been served by then, and even to the end: the   *)
(* pieces are sent again.                                                  *)
Served(k) == k.item \notin {"ready", "parked"}

Sends(item) == CASE item = "ready"  -> "sending"
                 [] item = "parked" -> "parked"
                 [] item = NULL     -> "woken"
                 [] OTHER           -> "both"

WroteHeader(k, n) ==
  IF n = k.out THEN [k EXCEPT !.out = 0, !.item = Sends(@), !.crossed = @ \/ Served(k)]
               ELSE [k EXCEPT !.out = @ - n, !.writeEv = "on_write_header"]

(* When the header cannot be written, conn->piece is dereferenced, which a *)
(* parked request does not have (rtoh.c:652).                              *)
HeaderFails(c, k) ==
  IF k.item = "parked"
  THEN crashed' = TRUE /\ UNCHANGED <<conn, pool, allocated>>
  ELSE /\ Destroy(c, [k EXCEPT !.item = IF @ = "ready" THEN NULL ELSE @, !.crossed = @ \/ Served(k)])
       /\ UNCHANGED crashed

OnWrite(c, k) == \/ \E n \in 0 .. k.out : Become(c, Wrote(k, n, "on_write"))
                 \/ k.out > 0 /\ Destroy(c, k)

OnWriteHeader(c) ==
  /\ header = c
  /\ LET k == conn[c]
     IN  \/ /\ k.open
            /\ \E n \in 0 .. k.out : Become(c, WroteHeader(k, n))
            /\ UNCHANGED crashed
         \/ k.out > 0 /\ HeaderFails(c, k)
  /\ header' = NULL

(* The answer to a mediainfo request for which the data are there: on_write *)
(* is called by do_generate_response, and by on_read again.                 *)
AnswerTwice(c, k) ==
  \/ \E n \in 0 .. k.out :
       LET once == Wrote(k, n, "on_write")
       IN  \/ \E m \in 0 .. once.out :
                LET twice == Wrote(once, m, "on_write")
                IN  Become(c, [twice EXCEPT !.late = @ \/ (twice.out = 0 /\ twice.writeEv # NULL)])
           \/ once.out > 0 /\ Destroy(c, once)
  \/ /\ k.out > 0                  \* the socket is closed, so both fail
     /\ conn' = [conn EXCEPT ![c] = Gone(k)]
     /\ pool' = <<c, c>> \o pool
     /\ UNCHANGED allocated

-----------------------------------------------------------------------------
(* What a request asks for.  The URL is a string in the read buffer: it    *)
(* ends where generate_response writes NUL, or, for a pointer that has     *)
(* been moved past that, at the end of the buffer.                         *)

(* strchr: the place of ch in the string at position at, or NULL. *)
Strchr(b, at, ch) ==
  LET hits == {i \in at .. Len(b) : b[i] = ch /\ \A j \in at .. i : b[j] # "NUL"}
  IN  IF hits = {} THEN NULL ELSE Min(hits)

At(b, i) == IF i \in DOMAIN b THEN b[i] ELSE "NUL"

(* The parameters from at on are all among known, which says which of them *)
(* must be there.  The loop stops at the end of the string or at the last  *)
(* &.                                                                      *)
Parameters(b, at, known) ==
  LET ends   == {i \in at .. Len(b) : b[i] = "NUL"}
      end    == IF ends = {} THEN Len(b) + 1 ELSE Min(ends)
      starts == {i \in at .. end - 1 : i = at \/ b[i - 1] = "&"}
  IN  [valid |-> \A i \in starts : b[i] \in known, names |-> {b[i] : i \in starts}]

(* mediainfo/streamid/metaid?..., mediainfo/tn?streamid=..., and           *)
(* datainfo/streamid/blockid?...                                           *)
Route(b, url) ==
  LET s     == IF url.from + url.len \in DOMAIN b THEN [b EXCEPT ![url.from + url.len] = "NUL"] ELSE b
      kind  == At(s, url.from + 1)
      at    == url.from + 3
      slash == Strchr(s, at, "/")
      id    == Strchr(s, slash + 1, "?")       \* the end of metaid or blockid
      tn    == Strchr(s, at, "?")
      tnPar == Parameters(s, tn + 1, {"streamid=", "rutpver="})
  IN  CASE kind \notin {"mediainfo", "datainfo"} -> "notfound"
        [] kind \in {"mediainfo", "datainfo"} /\ slash # NULL ->
             IF id = NULL \/ ~Parameters(s, id + 1, {"rutpver="}).valid THEN "invalid"
             ELSE IF kind = "mediainfo" THEN "metaid" ELSE "blockid"
        [] kind = "mediainfo" /\ slash = NULL ->
             IF tn # NULL /\ tnPar.valid /\ "streamid=" \in tnPar.names THEN "tn" ELSE "invalid"
        [] OTHER -> "invalid"

(* generate_response and what on_read does with its answer.  The stream is *)
(* there or not, and has its data or not: a request for a tn makes the     *)
(* stream, one for a metaid is given no answer and is kept nowhere.  Once  *)
(* the item has a request for a block, its lock is released, and then the  *)
(* header is written.                                                      *)
Aside(answer) == answer /\ UNCHANGED header

GenerateResponse(c, k) ==
  LET error  == [k EXCEPT !.out = 1]
      answer == [k EXCEPT !.out = 2]
      held   == [k EXCEPT !.item = "tn"]
  IN  CASE k.route \in {"notfound", "invalid"} -> Aside(OnWrite(c, error))
        [] k.route = "blockid" -> \/ Aside(OnWrite(c, error))
                                  \/ \E item \in {"ready", "parked"} :
                                        /\ Become(c, [k EXCEPT !.out = 1, !.item = item])
                                        /\ header' = c
        [] k.route = "tn"      -> Aside(OnWrite(c, error) \/ AnswerTwice(c, answer) \/ Become(c, held))
        [] k.route = "metaid"  -> Aside(OnWrite(c, error) \/ Become(c, k))

-----------------------------------------------------------------------------
(* Reading. *)

(* on_url keeps what it was given last, as a place in the read buffer. *)
UrlAfter(k, offset, calls) ==
  LET urls == SelectSeq(calls, LAMBDA x : x.cb = "url")
  IN  IF urls = <<>> THEN k.url ELSE [from |-> offset + Last(urls).from, len |-> Last(urls).len]

(* The URL of the first request in b, and where that request ends, by      *)
(* looking for them.                                                       *)
FirstUrl(b) ==
  LET space == Min({i \in DOMAIN b : b[i] = "SP"})
      after == {i \in space + 1 .. Len(b) : b[i] \in {"SP", "CR", "LF"}}
  IN  [from |-> space + 1, len |-> (IF after = {} THEN Len(b) + 1 ELSE Min(after)) - space - 1]

HeaderEnds(b) == {i \in DOMAIN b : i > 3 /\ SubSeq(b, i - 3, i) = <<"CR", "LF", "CR", "LF">>}

InsideUrl(b) == /\ \E i \in DOMAIN b : b[i] = "SP"
                /\ LET u == FirstUrl(b) IN Len(b) >= u.from /\ Len(b) < u.from + u.len

(* Fault: the whole buffer is parsed again. *)
FaultOffset(k) == 0

(* What has been parsed already is known by the parser's own count. *)
Offset(k) == k.parser.nread

(* on_read, when n bytes have come: what is new is parsed; after an error, *)
(* or when the buffer is full of an unfinished request, the connection is  *)
(* closed, and a finished request is answered.                             *)
OnRead(c, k, n) ==
  LET buf    == k.read \o SubSeq(k.inbox, 1, n)
      parsed == Execute(k.parser, SubSeq(buf, Offset(k) + 1, Len(buf)))
      url    == UrlAfter(k, Offset(k), parsed.calls)
      got    == [k EXCEPT !.read = buf, !.inbox = SubSeq(@, n + 1, Len(@)),
                          !.parser = parsed.p, !.url = url, !.cut = @ \/ InsideUrl(buf)]
      asked  == [got EXCEPT !.read = <<>>, !.parser = Fresh, !.readEv = FALSE, !.cut = FALSE,
                            !.route = Route(buf, url),
                            !.last = [buf |-> buf, url |-> url, cut |-> got.cut]]
      finished == \E i \in DOMAIN parsed.calls : parsed.calls[i].cb = "complete"
  IN  CASE parsed.p.errno # "OK" -> Aside(Destroy(c, got))
        [] parsed.p.errno = "OK" /\ ~finished ->
             Aside(IF Len(buf) = BufLen THEN Destroy(c, got) ELSE Become(c, got))
        [] OTHER -> GenerateResponse(c, asked)

(* What comes is read, or the client has closed, or reading fails. *)
Readable(c) ==
  /\ conn[c].readEv
  /\ \/ \E n \in 1 .. Min({Len(conn[c].inbox), BufLen - Len(conn[c].read)}) : OnRead(c, conn[c], n)
     \/ Aside(Destroy(c, conn[c]))

(* A write event that is left with on_read for its callback may find       *)
(* nothing to read.                                                        *)
Writable(c) ==
  /\ conn[c].writeEv # NULL
  /\ LET k == [conn[c] EXCEPT !.writeEv = NULL]
     IN  CASE conn[c].writeEv = "on_write"        -> Aside(OnWrite(c, k))
           [] conn[c].writeEv = "on_write_header" -> Become(c, k) /\ header' = c
           [] conn[c].writeEv = "on_read" ->
                \/ \E n \in 0 .. Min({Len(k.inbox), BufLen - Len(k.read)}) : OnRead(c, k, n)
                \/ Aside(Destroy(c, k))

-----------------------------------------------------------------------------
(* The getter. *)

(* The item serves a request that was parked: it has a piece from here on. *)
ItemServes(c) == /\ conn[c].item = "parked"
                 /\ Become(c, [conn[c] EXCEPT !.item = "woken"])

(* Its header may be under way. *)
Unsent(c) == header = c \/ conn[c].writeEv = "on_write_header"

(* A piece of it would block, and event_set takes the write event over: if *)
(* it was there for the header, the rest of that is never sent.            *)
ItemBlocks(c) == /\ conn[c].item = "woken" /\ conn[c].writeEv = "on_write_header"
                 /\ Become(c, [conn[c] EXCEPT !.writeEv = NULL, !.crossed = TRUE])

(* The item that holds a connection answers a mediainfo request, or sends  *)
(* a block's last byte and leaves on_read with both events, or fails to,   *)
(* as it does when the socket is closed.                                   *)
ItemLetsGo(c) ==
  /\ conn[c].item \in {"tn", "sending", "woken", "both"}
  /\ LET k    == [conn[c] EXCEPT !.item = IF @ = "both" THEN "woken" ELSE NULL,
                                 !.crossed = @ \/ (conn[c].item # "tn" /\ Unsent(c))]
         read == [k EXCEPT !.readEv = TRUE, !.writeEv = IF @ = NULL THEN NULL ELSE "on_read"]
     IN  \/ ~k.open /\ Destroy(c, k)
         \/ k.open /\ conn[c].item = "tn" /\ OnWrite(c, [k EXCEPT !.out = 2])
         \/ k.open /\ conn[c].item # "tn" /\ (Become(c, read) \/ Destroy(c, k))

(* A struct that is in the pool twice: what follows is not defined. *)
FreedTwice == \E i, j \in DOMAIN pool : i # j /\ pool[i] = pool[j]

Next ==
  /\ ~FreedTwice /\ ~crashed
  /\ \/ header = NULL /\ OnAccept /\ UNCHANGED <<header, crashed>>
     \/ \E c \in Conns : header = NULL /\ (Readable(c) \/ Writable(c)) /\ UNCHANGED crashed
     \/ \E c \in Conns : OnWriteHeader(c)
     \/ \E c \in Conns : /\ ItemServes(c) \/ ItemBlocks(c) \/ ItemLetsGo(c)
                         /\ UNCHANGED <<header, crashed>>

Spec == Init /\ [][Next]_vars

-----------------------------------------------------------------------------
(* Properties. *)

(* Type invariant; the length a request may give stays within its type. *)
TypeOK ==
  /\ allocated \in 1 .. Cardinality(Conns)
  /\ pool \in Seq(1 .. allocated)
  /\ header \in Conns \union {NULL} /\ crashed \in BOOLEAN
  /\ \A c \in Conns :
       LET k == conn[c]
       IN  /\ {k.open, k.readEv, k.cut, k.late, k.crossed} \subseteq BOOLEAN
           /\ k.item \in {NULL, "tn", "ready", "parked", "woken", "sending", "both"}
           /\ k.out \in 0 .. 2
           /\ k.writeEv \in {NULL, "on_write", "on_write_header", "on_read"}
           /\ k.parser.state \in HeaderStates \union BodyStates
           /\ k.parser.flags \subseteq Flags
           /\ k.parser.length \in 0 .. ULLONG_MAX
           /\ Len(k.read) <= BufLen

(* However the bytes of a request are cut into reads, the parser is as if  *)
(* they had come in one, as long as the request is in its header: on_read  *)
(* starts where the parser's count says (rtoh.c:743).  After the header    *)
(* the count says something else, and bytes are parsed again; but it never *)
(* is more than there is.                                                  *)
CutsDoNotMatter ==
  \A c \in Conns :
    LET k     == conn[c]
        whole == Execute(Fresh, k.read).p
    IN  /\ k.open => k.parser.nread <= Len(k.read)
        /\ k.open /\ k.read # <<>> /\ HeaderEnds(k.read) = {} => k.parser = whole

(* When a request ends with its header, and its last read there, it is     *)
(* answered for the URL it names if and only if no read ended inside the   *)
(* URL: if one did, only what came last is taken for the URL, for          *)
(* url_length is never added to (http_callback.c:30-36).                   *)
UrlIsWhole ==
  \A c \in Conns :
    LET l == conn[c].last
    IN  l # NULL /\ HeaderEnds(l.buf) = {Len(l.buf)} => (l.url = FirstUrl(l.buf) <=> ~l.cut)

(* The bytes a client sends become the request the server answers. *)
RequestsRead == CutsDoNotMatter /\ UrlIsWhole

(* A struct is free, once, or in use; but when the answer to a mediainfo   *)
(* request cannot be written, its connection is destroyed twice            *)
(* (rtoh.c:363, 767), and so may be one that is served while its header is *)
(* being written, by the getter and by the main thread (rtoh.c:596, 655).  *)
ConnsHeldOnce ==
  /\ \A c \in 1 .. allocated : conn[c].open <=> c \notin ToSet(pool)
  /\ FreedTwice => LET k == conn[Head(pool)]
                   IN  k.route = "tn" \/ k.late \/ k.crossed
  /\ \A i, j, l \in DOMAIN pool : pool[i] = pool[j] /\ pool[j] = pool[l] => Cardinality({i, j, l}) < 3

(* An open connection waits for exactly one thing: more to read, a write   *)
(* that would block or is under way, or its item.  But a request that was  *)
(* parked is held by its item and by its header until that is out, and one *)
(* that was served before may be held by both threads afterwards.  A       *)
(* request for a metaid is forgotten: nobody will ever look at its         *)
(* connection again.  The second on_write of a mediainfo answer can leave  *)
(* the first one's event behind.                                           *)
HeldByOne ==
  \A c \in Conns :
    LET k       == conn[c]
        holders == {h \in {"read", "write", "item"} :
                      \/ h = "read" /\ k.readEv
                      \/ h = "write" /\ (k.writeEv # NULL \/ header = c)
                      \/ h = "item" /\ k.item \notin {NULL, "ready"}}
    IN  /\ k.open /\ holders = {} => k.route = "metaid"
        /\ k.open /\ Cardinality(holders) > 1 =>
             \/ k.late \/ k.crossed
             \/ holders = {"write", "item"} /\ k.item \in {"parked", "woken"} /\ Unsent(c)
        /\ k.item # NULL /\ ~k.open => k.late \/ k.crossed

=============================================================================
