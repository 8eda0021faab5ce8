---------------------------- MODULE RtmpSession ----------------------------
(***************************************************************************)
(* The RTMP client of a getter (librtmp/rtmp.c): RTMP_Connect, the loop of *)
(* RTMP_ConnectStream, and RTMP_Read with what it reads.  The RTMP struct  *)
(* is the record r; a handler that makes several calls in a row is the     *)
(* composition of their operators, each of which takes the struct and      *)
(* gives it back, because a write that fails closes the connection in the  *)
(* middle of the handler and the handler goes on.                          *)
(*                                                                         *)
(* The server is not trusted: it may send any message at any time, answer  *)
(* a request twice, or answer one that was never made.  The connection     *)
(* takes r.left more writes and then breaks; a read can time out, find the *)
(* connection closed, or fail.                                             *)
(*                                                                         *)
(* Bytes handed to the caller are counted, not stored.  The stream that    *)
(* RTMP_Read has put together (file header, then one tag per packet) is    *)
(* an interval of bytes, and a piece of it is known by where it starts,    *)
(* relative to the first byte the caller has not been given yet: a copy to *)
(* the caller must start at 0.                                             *)
(*                                                                         *)
(* Not here: RTMPT (Link.protocol with HTTP), publishing (WRITE), resuming *)
(* a download (RTMP_READ_RESUME), which no caller of this program sets.    *)
(***************************************************************************)
EXTENDS Integers, Sequences, FiniteSets, FiniteSetsExt, SequencesExt

CONSTANTS
  OptionSets,     \* what Link.lFlags and the tokens of the URL may ask for
  Breaks,         \* after how many writes the connection breaks, or Never
  Methods,        \* what the server may invoke
  Codes,          \* the codes of an onStatus
  Controls,       \* the user control events it may send
  Media,          \* the media packets it may send
  ReadSizes,      \* the sizes RTMP_Read is called with, 0 when the buffer is full
  HeaderBuf,      \* HEADERBUF
  Window,         \* m_nClientBW / 10, in messages
  MaxMessages,    \* bound: messages of the server
  Never, NULL

ASSUME SessionAssumption ==
  /\ \A m \in Media :
       /\ m.type \in {"audio", "video", "piece", "info", "flv"}
       /\ m.size \in Nat /\ m.stamp \in Nat /\ m.lacks \in {0, 4}
       /\ m.tracks = NULL => m.type = "info"
       /\ m.tracks # NULL => m.tracks \subseteq {1, 4}
       \* An FLV packet has the timestamp that is read from it (rtmp.c:4866).
       /\ m.type = "flv" => m.size > 0
  /\ HeaderBuf \in Nat /\ HeaderBuf > 13 /\ Window \in Nat
  /\ ReadSizes \subseteq Nat
  /\ Breaks \subseteq Nat \union {Never} /\ Never \notin Nat
  /\ NULL \notin [from : Int, len : Int]
  /\ NULL \notin [phase : {"packet"}, size : Int, total : Int]
  /\ NULL \notin [phase : {"header"}, size : Int, total : Int, room : Int]

VARIABLES
  options,     \* the options of this connection
  r,           \* the RTMP struct
  pc,          \* where the getter is: connect, stream, read, done
  call,        \* the call of RTMP_Read in progress
  gaveUp,      \* history: the getter ended with nothing wrong with the connection
  messages     \* bound: how many messages the server has sent

vars == <<options, r, pc, call, gaveUp, messages>>

EOF == -1            \* RTMP_READ_EOF
COMPLETE == -3       \* RTMP_READ_COMPLETE

Option(o) == o \in options

-----------------------------------------------------------------------------
(* Sending and closing. *)

(* Fault: what a call was made with is found again. *)
FaultErase(s, i) == s

(* AV_erase: entry i of the calls goes, the others move up. *)
Erase(s, i) == [s EXCEPT !.calls = RemoveAt(@, i)]

(* What CloseInternal does to the struct, the farewell aside; wire keeps   *)
(* what the server was sent, closes counts calls of closesocket.           *)
Dropped(s) ==
  [s EXCEPT !.closes = IF s.sock THEN @ + 1 ELSE @,
            !.sock = FALSE, !.streamId = -1, !.bwCheck = 0, !.unreported = 0,
            !.buf = IF s.header THEN NULL ELSE @,
            !.header = FALSE, !.dataType = {}, !.status = 0,
            !.calls = <<>>, !.numInvokes = 0, !.playing = FALSE]

(* RTMP_SendPacket and WriteN: a write on a broken connection closes it.   *)
(* (CloseInternal's own farewell then fails too, and closes it within the  *)
(* call; what is left to do comes to the same, rtmp.c:1536-1546.)          *)
CanWrite(s) == s.sock /\ s.left # 0

Written(s) == IF s.left = Never THEN s ELSE [s EXCEPT !.left = @ - 1]

SendPacket(s) == IF CanWrite(s) THEN Written(s) ELSE Dropped(s)

(* An INVOKE packet: what it names is kept until a result arrives, if the  *)
(* caller says so (rtmp.c:4093-4107).                                      *)
SendInvoke(s, name, num, queue) ==
  IF ~CanWrite(s) THEN Dropped(s)
  ELSE [Written(s) EXCEPT !.wire = Append(@, name),
                          !.calls = IF queue THEN Append(@, [name |-> name, num |-> num]) ELSE @]

(* ++r->m_numInvokes comes first. *)
Invoke(s, name, queue) ==
  LET n == s.numInvokes + 1
  IN  SendInvoke([s EXCEPT !.numInvokes = n], name, n, queue)

SendConnectPacket(s) == Invoke(s, "connect", TRUE)
SendCreateStream(s) == Invoke(s, "createStream", TRUE)
SendFCSubscribe(s) == Invoke(s, "FCSubscribe", TRUE)
SendUsherToken(s) == Invoke(s, "UsherToken", FALSE)
SendDeleteStream(s) == Invoke(s, "deleteStream", FALSE)
SendPause(s, doPause) == Invoke(s, IF doPause THEN "pause" ELSE "unpause", TRUE)
SendPlay(s) == Invoke(s, "play", TRUE)
SendCheckBW(s) == Invoke(s, "_checkbw", FALSE)

(* The number of a playlist is always 0. *)
SendPlaylist(s) == SendInvoke(s, "set_playlist", 0, TRUE)

(* These carry the number of the server's own call, or none.  They are not *)
(* kept on the wire: no property tells them apart.                         *)
SendPong(s) == SendPacket(s)
SendSecureTokenResponse(s) == SendPacket(s)
SendCheckBWResult(s) == SendPacket([s EXCEPT !.bwCheck = 1])
SendServerBW(s) == SendPacket(s)
SendCtrl(s) == SendPacket(s)

SendBytesReceived(s) == SendPacket([s EXCEPT !.unreported = 0])

(* Fault: the stream is still set when the farewell is sent, and is        *)
(* deleted once more on the way out.                                       *)
FaultClose(s) ==
  IF s.sock /\ s.streamId > 0 THEN Dropped(SendDeleteStream(SendDeleteStream(s)))
                              ELSE Dropped(s)

(* RTMP_Close: the server is told that the stream is deleted, if the       *)
(* connection still takes it.                                              *)
Close(s) ==
  IF s.sock /\ s.streamId > 0 THEN Dropped(SendDeleteStream([s EXCEPT !.streamId = 0]))
                              ELSE Dropped(s)

-----------------------------------------------------------------------------
(* Handling a message: RTMP_ClientPacket and HandleInvoke.  Each handler   *)
(* gives back [s, media]: the struct and bHasMediaPacket.                  *)

Handled(s) == [s |-> s, media |-> 0]

CallsNamed(s, name) == {i \in DOMAIN s.calls : s.calls[i].name = name}

EraseNamed(s, name) ==
  IF CallsNamed(s, name) = {} THEN s ELSE Erase(s, Min(CallsNamed(s, name)))

(* connect was answered. *)
OnConnected(s) ==
  LET token    == IF Option("token") THEN SendSecureTokenResponse(s) ELSE s
      created  == SendCreateStream(SendCtrl(SendServerBW(token)))
      usher    == IF Option("usher") THEN SendUsherToken(created) ELSE created
  IN  IF Option("subscribe") \/ Option("live") THEN SendFCSubscribe(usher) ELSE usher

(* createStream was answered. *)
OnCreated(s, sid) ==
  LET named    == [s EXCEPT !.streamId = sid]
      playlist == IF Option("playlist") THEN SendPlaylist(named) ELSE named
  IN  SendCtrl(SendPlay(playlist))

(* A _result for call number txn. *)
OnResult(s, txn, sid) ==
  LET hits == {i \in DOMAIN s.calls : s.calls[i].num = txn}
      i    == Min(hits)
      name == s.calls[i].name
      s1   == Erase(s, i)
  IN  IF hits = {} THEN s
      ELSE CASE name = "connect"      -> OnConnected(s1)
             [] name = "createStream" -> OnCreated(s1, sid)
             [] name = "play"         -> [s1 EXCEPT !.playing = TRUE]
             [] OTHER                 -> s1

Unpause(s) == [SendPause(s, FALSE) EXCEPT !.pausing = 3]

OnPauseNotify(s) == IF s.pausing \in {1, 2} THEN Unpause(s) ELSE s

OnStatus(s, code) ==
  CASE code = "failed" -> Handled(Close([s EXCEPT !.streamId = -1]))
    [] code = "start"  -> Handled(EraseNamed([s EXCEPT !.playing = TRUE], "play"))
    [] code = "stop"   -> [s |-> Close(s), media |-> 2]
    [] code = "pause"  -> Handled(OnPauseNotify(s))
    [] OTHER           -> Handled(s)

(* _onbwdone looks for a _checkbw that SendCheckBW never queues. *)
HandleInvoke(s, m) ==
  CASE m.method = "_result"         -> Handled(OnResult(s, m.txn, m.sid))
    [] m.method = "onBWDone"        -> Handled(IF s.bwCheck = 0 THEN SendCheckBW(s) ELSE s)
    [] m.method = "onFCUnsubscribe" -> [s |-> Close(s), media |-> 2]
    [] m.method = "ping"            -> Handled(SendPong(s))
    [] m.method = "_onbwcheck"      -> Handled(SendCheckBWResult(s))
    [] m.method = "_onbwdone"       -> Handled(EraseNamed(s, "_checkbw"))
    [] m.method = "close"           -> Handled(Close(s))
    [] m.method = "onStatus"        -> OnStatus(s, m.code)
    [] m.method = "playlist_ready"  -> Handled(EraseNamed(s, "set_playlist"))
    [] OTHER                        -> Handled(s)     \* _error and the rest

(* Fault: the end is noted whether or not a pause was asked for. *)
FaultStreamEOF(s) == [s EXCEPT !.pausing = 2]

(* The server has come to the end of what it sends while paused. *)
StreamEOF(s) == IF s.pausing = 1 THEN [s EXCEPT !.pausing = 2] ELSE s

(* User control: the stream's end, a ping, an empty buffer, a request for  *)
(* SWF verification.                                                       *)
HandleCtrl(s, event) ==
  CASE event = "eof"  -> StreamEOF(s)
    [] event = "ping" -> SendCtrl(s)
    [] event = "empty" /\ Option("bufx") ->
         IF s.pausing = 0 THEN [SendPause(s, TRUE) EXCEPT !.pausing = 1]
         ELSE IF s.pausing = 2 THEN Unpause(s) ELSE s
    [] event = "swf" /\ Option("swf") -> SendCtrl(s)
    [] OTHER -> s

(* onMetaData names the tracks; another notify message is not media. *)
HandleMetadata(s, m) == [s EXCEPT !.dataType = @ \union m.tracks]

(* The rest of the types change nothing, or, for the chunk size and the    *)
(* bandwidths, nothing that is kept here.                                  *)
ClientPacket(s, m) ==
  LET stamped == IF s.pausing = 0 THEN [s EXCEPT !.mediaStamp = m.stamp] ELSE s
  IN  CASE m.type = "invoke"  -> HandleInvoke(s, m)
        [] m.type = "control" -> Handled(HandleCtrl(s, m.event))
        [] m.type \in {"audio", "video", "piece", "flv"} -> [s |-> stamped, media |-> 1]
        [] m.type = "info" /\ m.tracks # NULL -> [s |-> HandleMetadata(s, m), media |-> 1]
        [] OTHER              -> Handled(s)

(* One turn of RTMP_GetNextMediaPacket's loop: after an unpause, packets   *)
(* that are not newer than the last one before the pause are skipped.      *)
NextMedia(s, m) ==
  LET h    == ClientPacket(s, m)
      skip == h.media # 0 /\ h.s.pausing = 3 /\ m.stamp <= h.s.mediaStamp
      res  == IF h.media # 0 /\ h.s.pausing = 3 /\ ~skip THEN [h.s EXCEPT !.pausing = 0] ELSE h.s
  IN  IF h.media = 0 \/ skip THEN [s |-> res, media |-> 0]
      ELSE [s |-> [res EXCEPT !.playing = TRUE], media |-> h.media]

(* ReadN: every so often the bytes read are reported, before they are      *)
(* looked at; if that fails the read fails.                                *)
Counted(s) ==
  LET s1 == [s EXCEPT !.unreported = @ + 1, !.timedout = FALSE]
  IN  IF s1.unreported > Window THEN SendBytesReceived(s1) ELSE s1

(* Fault: the socket of a peer that has gone is left open. *)
FaultReadFails(s, why) == [s EXCEPT !.timedout = (why = "timeout")]

(* A read that gives nothing: the peer has closed, or nothing came in time. *)
ReadFails(s, why) ==
  IF why = "timeout" THEN [s EXCEPT !.timedout = TRUE] ELSE Close([s EXCEPT !.timedout = FALSE])

-----------------------------------------------------------------------------
(* Read_1_Packet and RTMP_Read. *)

Tracks(type) == CASE type = "audio" -> {4} [] type = "video" -> {1} [] OTHER -> {}

TooSmall(m) == \/ m.type = "video" /\ m.size <= 5
               \/ m.type = "audio" /\ m.size <= 1

(* The bytes a packet makes: a tag header and a tag size around its body;  *)
(* an FLV packet brings its own, or all but the last tag size.             *)
TagSize(m) == CASE m.type = "flv" -> m.size + m.lacks
                [] OTHER          -> 11 + m.size + 4

(* The bytes it is checked to fit in, which the 4 to spare are for. *)
Room(m) == (IF m.type = "flv" THEN m.size ELSE TagSize(m)) + 4

(* What Read_1_Packet does to the struct with a packet that is not too     *)
(* small, and with one that is.                                            *)
Seen(s, m) == [s EXCEPT !.dataType = @ \union Tracks(m.type)]

Read(s, m) == [Seen(s, m) EXCEPT !.timestamp = m.stamp,
                                 !.dataType = @ \union (IF m.type = "flv" THEN m.tracks ELSE {})]

(* n bytes from byte at on are given to the caller of RTMP_Read. *)
Give(s, at, n) ==
  [s EXCEPT !.gap = @ \/ (n > 0 /\ at # 0),
            !.made = @ - n,
            !.given = @ + n,
            !.buf = IF @ = NULL THEN NULL ELSE [from |-> @.from - n, len |-> @.len]]

(* Fault: the caller stops at an error only. *)
FaultReturn(s, total) ==
  /\ r' = [s EXCEPT !.gap = @ \/ s.given # total, !.given = 0]
  /\ call' = NULL
  /\ pc' = IF total < 0 THEN "done" ELSE pc

(* RTMP_Read returns total to its caller; given is what it has copied. *)
Return(s, total) ==
  /\ r' = [s EXCEPT !.gap = @ \/ s.given # total, !.given = 0]
  /\ call' = NULL
  /\ pc' = IF total <= 0 THEN "done" ELSE pc

(* RTMP_Read cannot go on.  (The status after which it gives -1 is never   *)
(* set: a packet whose sizes are wrong is given as it is, rtmp.c:4951.)    *)
ReturnStatus(s) == Return(s, 0)

(* Fault: the place in what was kept back is not moved on. *)
FaultDrain(s, size) ==
  LET n    == Min({s.buf.len, size})
      s1   == Give(s, s.buf.from, n)
  IN  [s1 EXCEPT !.buf = IF @.len = n THEN NULL ELSE [@ EXCEPT !.len = @ - n]]

(* What was kept back is used up first. *)
Drain(s, size) ==
  LET n    == Min({s.buf.len, size})
      s1   == Give(s, s.buf.from, n)
  IN  [s1 EXCEPT !.buf = IF @.len = n THEN NULL ELSE [from |-> @.from + n, len |-> @.len - n]]

(* Fault: a packet is read even when there is no room left. *)
FaultReadOn(s, size) ==
  LET drained == IF s.buf = NULL THEN s ELSE Drain(s, size)
      total   == IF s.buf = NULL THEN 0 ELSE Min({s.buf.len, size})
  IN  /\ r' = drained
      /\ call' = [phase |-> "packet", size |-> size - total, total |-> total]
      /\ pc' = pc

(* The rest of RTMP_Read once the header is there: what was kept back, and *)
(* a packet if there is room for more.                                     *)
ReadOn(s, size) ==
  LET drained == IF s.buf = NULL THEN s ELSE Drain(s, size)
      total   == IF s.buf = NULL THEN 0 ELSE Min({s.buf.len, size})
  IN  IF total < size
      THEN /\ r' = drained
           /\ call' = [phase |-> "packet", size |-> size - total, total |-> total]
           /\ pc' = pc
      ELSE Return(drained, total)

(* The loop over the packets that go with the file header is over: the     *)
(* header is known now, and all of it is kept back (rtmp.c:5030-5037).     *)
HeaderDone(s) == ReadOn([s EXCEPT !.header = TRUE, !.buf = [from |-> 0, len |-> s.made]], call.size)

(* Read_1_Packet gave a packet to the loop over the file header.  It goes  *)
(* on until something has a timestamp, both tracks have been seen, or the  *)
(* buffer is full, in which case it is made larger and the loop ends.      *)
HeaderPacket(s, m) ==
  LET s1 == [Read(s, m) EXCEPT !.made = @ + TagSize(m)]
  IN  IF Room(m) > call.room \/ s1.dataType = {1, 4} \/ s1.timestamp # 0
      THEN HeaderDone(s1)
      ELSE /\ r' = s1
           /\ call' = [call EXCEPT !.room = @ - TagSize(m)]
           /\ pc' = pc

(* Read_1_Packet gave a packet to the caller's buffer; what does not fit   *)
(* is kept back.  (A packet that fits without the 4 bytes to spare goes    *)
(* through the slop buffer and leaves it empty.)                           *)
BodyPacket(s, m) ==
  LET ret    == TagSize(m)
      copied == Min({ret, call.size})
      s1     == Give([Read(s, m) EXCEPT !.made = @ + ret], s.made, copied)
      start  == s.made - copied     \* of the packet, seen from the first byte not given
      kept   == IF Room(m) > call.size
                THEN [s1 EXCEPT !.buf = [from |-> start + copied, len |-> ret - copied]] ELSE s1
      total  == call.total + ret
  IN  Return(kept, IF call.size - ret < 0 THEN total + (call.size - ret) ELSE total)

(* A packet that is too small is ignored, but its track has been seen. *)
Ignored(s) == IF call.phase = "header" /\ s.dataType = {1, 4} THEN HeaderDone(s)
              ELSE r' = s /\ UNCHANGED <<call, pc>>

(* Read_1_Packet has nothing to give: RTMP_Read notes why.  The bytes of a *)
(* header that is not complete are thrown away.                            *)
NoPacket(s, why) ==
  IF call.phase = "header"
  THEN ReturnStatus([s EXCEPT !.buf = NULL, !.made = 0, !.status = why])
  ELSE Return([s EXCEPT !.status = why], call.total)

(* A message handled in RTMP_Read. *)
ReadMessage(s, m) ==
  LET h == NextMedia(s, m)
  IN  CASE h.media = 2 -> NoPacket(h.s, COMPLETE)
        [] h.media = 1 /\ ~TooSmall(m) ->
             IF call.phase = "header" THEN HeaderPacket(h.s, m) ELSE BodyPacket(h.s, m)
        [] h.media = 1 /\ TooSmall(m) -> Ignored(Seen(h.s, m))
        [] OTHER -> r' = h.s /\ UNCHANGED <<call, pc>>

-----------------------------------------------------------------------------
(* The getter. *)

(* RTMP_Init: the struct is zero, which names stream 0. *)
Init ==
  /\ options \in OptionSets
  /\ r = [sock |-> FALSE, left |-> 0, streamId |-> 0, playing |-> FALSE, pausing |-> 0,
          calls |-> <<>>, numInvokes |-> 0, bwCheck |-> 0, timedout |-> FALSE,
          mediaStamp |-> 0, unreported |-> 0, header |-> FALSE, dataType |-> {},
          status |-> 0, timestamp |-> 0, buf |-> NULL, wire |-> <<>>, closes |-> 0,
          made |-> 0, given |-> 0, gap |-> FALSE]
  /\ pc = "connect" /\ call = NULL /\ gaveUp = FALSE /\ messages = 0

(* HandShake's verdict on a server: one that signs its answer must do it   *)
(* with a digest at one of two places and a signature that is genuine, one *)
(* that does not is taken at its word (handshake.h:837-1065).              *)
HandShake(server) == server.signed => server.digest \in {0, 1} /\ server.genuine

Servers == [signed : BOOLEAN, digest : {0, 1, NULL}, genuine : BOOLEAN]

(* RTMP_Connect: no socket, no connection, a handshake that fails or times *)
(* out, and the connect packet.                                            *)
Connect ==
  /\ pc = "connect"
  /\ \/ r' = r /\ pc' = "done"
     \/ r' = Close([r EXCEPT !.sock = TRUE]) /\ pc' = "done"
     \/ \E n \in Breaks, server \in Servers :
          LET up == [r EXCEPT !.sock = TRUE, !.left = n, !.pausing = 0]
              s  == IF HandShake(server) THEN SendConnectPacket(up) ELSE Close(up)
          IN  /\ r' = s
              /\ pc' = IF s.sock THEN "stream" ELSE "done"
  /\ UNCHANGED <<options, call, gaveUp, messages>>

(* The loop of RTMP_ConnectStream: media that come before the stream plays *)
(* are ignored.                                                            *)
StreamMessage(s, m) ==
  LET s1 == IF m.type \in {"audio", "video", "piece", "info"} THEN s ELSE ClientPacket(s, m).s
  IN  /\ r' = s1
      /\ pc' = CASE s1.playing  -> "read"
                 [] s1.sock     -> "stream"
                 [] OTHER       -> "done"
      /\ UNCHANGED call

(* The server's messages.  A result names one of the numbers in use, 0 or  *)
(* a number too large.                                                     *)
Stamps == {0} \union {m.stamp : m \in Media}

Inbound ==
  [type : {"invoke"}, method : Methods \ {"_result", "onStatus"}, stamp : Stamps]
    \union [type : {"invoke"}, method : {"_result"} \intersect Methods,
            txn : 0 .. r.numInvokes + 1, sid : {0, 1}]
    \union [type : {"invoke"}, method : {"onStatus"}, code : Codes, stamp : Stamps]
    \union [type : {"control"}, event : Controls]
    \union Media

Listening == r.sock /\ (pc = "stream" \/ (pc = "read" /\ call # NULL))

Receive ==
  /\ Listening /\ messages < MaxMessages
  /\ messages' = messages + 1
  /\ UNCHANGED <<options, gaveUp>>
  /\ LET s == Counted(r)
     IN  \E m \in Inbound :
           \/ ~s.sock /\ pc = "stream" /\ r' = s /\ pc' = "done" /\ UNCHANGED call
           \/ ~s.sock /\ pc = "read" /\ NoPacket(s, EOF)
           \/ s.sock /\ pc = "stream" /\ StreamMessage(s, m)
           \/ s.sock /\ pc = "read" /\ ReadMessage(s, m)

(* RTMP_ReadPacket fails, in either loop. *)
ReceiveFails ==
  /\ Listening
  /\ \E why \in {"timeout", "closed"} :
       LET s == ReadFails(r, why)
       IN  IF pc = "stream" THEN r' = s /\ pc' = "done" /\ UNCHANGED call
                            ELSE NoPacket(s, EOF)
  /\ UNCHANGED <<options, gaveUp, messages>>

(* RTMP_IsConnected fails in RTMP_GetNextMediaPacket. *)
Disconnected ==
  /\ ~r.sock /\ pc = "read" /\ call # NULL
  /\ NoPacket(r, EOF)
  /\ UNCHANGED <<options, gaveUp, messages>>

(* RTMP_Read is called for what there is room for (thread.c:249).  Reads   *)
(* fill the buffer; of a full one it is asked for 0 bytes, and gives 0.    *)
CallRead(size) ==
  /\ pc = "read" /\ call = NULL
  /\ size = 0 => r.header \/ r.status # 0
  /\ gaveUp' = (size = 0 /\ r.status = 0)
  /\ IF r.status # 0 THEN ReturnStatus(r)
     ELSE IF ~r.header
     THEN LET s == [r EXCEPT !.made = 13]
          IN  IF r.timestamp = 0
              THEN /\ r' = s
                   /\ call' = [phase |-> "header", size |-> size, total |-> 0,
                               room |-> HeaderBuf - 13]
                   /\ pc' = pc
              ELSE ReadOn([s EXCEPT !.header = TRUE, !.buf = [from |-> 0, len |-> 13]], size)
     ELSE ReadOn(r, size)
  /\ UNCHANGED <<options, messages>>

(* Or the getter ends without another call: malloc_piece fails, a tag is   *)
(* cut, or a piece tag has an offset ahead of it (thread.c:229, 283, 328,  *)
(* 338; PieceAssembler says when).                                         *)
GiveUp ==
  /\ pc = "read" /\ call = NULL
  /\ pc' = "done" /\ gaveUp' = TRUE
  /\ UNCHANGED <<options, r, call, messages>>

Next ==
  \/ Connect \/ Receive \/ ReceiveFails \/ Disconnected
  \/ \E size \in ReadSizes : CallRead(size)
  \/ GiveUp

(* The getter's thread runs. *)
Fairness == /\ WF_vars(Disconnected)
            /\ WF_vars(\E size \in ReadSizes : CallRead(size))

Spec == Init /\ [][Next]_vars /\ Fairness

-----------------------------------------------------------------------------
(* Properties. *)

Commands == {"connect", "createStream", "FCSubscribe", "UsherToken", "deleteStream", "pause",
             "unpause", "play", "_checkbw", "set_playlist"}

(* Type invariant. *)
TypeOK ==
  /\ options \in OptionSets /\ gaveUp \in BOOLEAN
  /\ pc \in {"connect", "stream", "read", "done"}
  /\ r.streamId \in {-1, 0, 1} /\ r.pausing \in 0 .. 3 /\ r.status \in -3 .. 0
  /\ r.calls \in Seq([name : Commands, num : Nat]) /\ r.wire \in Seq(Commands)
  /\ {r.numInvokes, r.unreported, r.timestamp, r.mediaStamp} \subseteq Nat
  /\ r.dataType \subseteq {1, 4} /\ r.closes \in Nat
  /\ r.buf # NULL => r.buf.from \in Nat /\ r.buf.len \in Nat
  /\ call # NULL => /\ pc = "read"
                    /\ call.phase \in {"header", "packet"}
                    /\ call.size > 0

Times(name) == Cardinality({i \in DOMAIN r.wire : r.wire[i] = name})

(* An answer is acted on once, and by the call it answers: a server that   *)
(* repeats or invents results cannot make the client create or play a      *)
(* stream twice, nor play one before it is created (rtmp.c:2942-2958), and *)
(* calls waiting for a result are told apart by their numbers.             *)
EachAnswerOnce ==
  /\ Times("connect") <= 1 /\ Times("createStream") <= Times("connect")
  /\ Times("play") <= Times("createStream")
  /\ \A i, j \in DOMAIN r.calls : r.calls[i].num = r.calls[j].num => i = j
  /\ \A i \in DOMAIN r.calls : r.calls[i].name \in ToSet(r.wire)

(* A stream is deleted once and last: nothing follows deleteStream, and    *)
(* the socket is closed once, although closing writes, a failed write      *)
(* closes, and handlers go on after either (rtmp.c:4128-4152, 1544).       *)
FarewellIsLast ==
  /\ Times("deleteStream") <= 1
  /\ \A i \in DOMAIN r.wire : r.wire[i] = "deleteStream" => i = Len(r.wire)
  /\ Times("deleteStream") = 1 => ~r.sock
  /\ r.closes <= 1

(* The last the server has been asked for, of the two, is a pause. *)
AskedToPause(s) ==
  \E i \in DOMAIN s.wire : /\ s.wire[i] = "pause"
                           /\ \A j \in DOMAIN s.wire : s.wire[j] = "unpause" => j < i

(* The client and the server agree on whether the stream is paused, by the *)
(* last such request: no pause is left behind (rtmp.c:3174-3181,           *)
(* 3390-3395, 3449-3465).                                                  *)
PauseIsKnown ==
  r.sock => (r.pausing \in {1, 2} <=> AskedToPause(r))

(* The bytes RTMP_Read gives are the stream without gap or overlap, and as *)
(* many as it says, whatever the sizes asked for: file header, packets of  *)
(* any size, the slop buffer, and what is kept for the next call.          *)
ReadIsWhole ==
  /\ ~r.gap
  /\ call = NULL /\ r.header => r.made = (IF r.buf = NULL THEN 0 ELSE r.buf.len)
  /\ r.buf # NULL /\ r.header => r.buf.from = 0

(* The getter never calls RTMP_Close.  When the connection ends it, the    *)
(* socket has been closed all the same, but after a timeout (rtmp.c:1423,  *)
(* 1456).  A getter that ends for a reason of its own, a full buffer among *)
(* them, leaves the socket open with nobody to close it (thread.c:210-219, *)
(* 229, 249, 283-286, 328-331, 338, 561-566).                              *)
LossClosesSocket == pc = "done" /\ r.sock => r.timedout \/ gaveUp

(* A connection that is lost ends the getter. *)
LossEndsGetter == (r.closes > 0) ~> (pc = "done")

=============================================================================
