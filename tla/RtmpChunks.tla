----------------------------- MODULE RtmpChunks -----------------------------
(***************************************************************************)
(* The chunk layer of librtmp: RTMP_SendPacket cuts a message into chunks  *)
(* and shortens its header by what the channel's last message had          *)
(* (rtmp.c:3908-4110); RTMP_ReadPacket puts chunks together again, chunk   *)
(* by chunk and channel by channel (rtmp.c:3555-3747).                     *)
(*                                                                         *)
(* The chunks come from the library itself, one message after the other,   *)
(* or from a peer that interleaves the messages of several channels; which *)
(* of the two is chosen for a behaviour (writer).  The connection may be   *)
(* lost anywhere and set up again.                                         *)
(*                                                                         *)
(* The body of message id is the bytes <<id, 1>>, <<id, 2>>, ... .  Sizes  *)
(* are small and DefaultChunk stands for the 128 of the code, Ext for      *)
(* 0xffffff and Wrap for 2^32.  The bytes of a chunk stay together in one  *)
(* record of the wire; a reader that expects other bytes than the chunk    *)
(* has is out of step with its peer for good, and the model stops there.   *)
(***************************************************************************)
EXTENDS Integers, SequencesExt

CONSTANTS
  Channels,      \* chunk stream ids in use
  Stamps,        \* timestamps of messages
  Sizes,         \* body sizes
  Types,         \* message types other than the chunk size message
  ChunkSizes,    \* chunk sizes the peer may change to
  DefaultChunk,  \* RTMP_DEFAULT_CHUNKSIZE
  Ext,           \* the timestamp field that announces an extended timestamp
  Wrap,          \* timestamps are modulo this
  MaxMessages,   \* bound: messages of a behaviour
  MaxWire,       \* bound: the writer waits while that many chunks are unread
  MaxLosses,     \* bound: lost connections of a behaviour
  NULL

(* The last channel of the three-byte form. *)
LastChannel == 65599

(* A message on its way, and an RTMPPacket that is read. *)
Messages == [id : Nat, channel : Channels, type : Types \union {NULL}, sid : Nat \union {NULL},
             size : Nat, stamp : 0 .. Wrap - 1, field : 0 .. Ext, drift : BOOLEAN]

Packets == [stamp : 0 .. Wrap - 1, size : Nat, type : Types \union {NULL},
            sid : Nat \union {NULL}, read : Nat, body : Seq(Nat \X Nat), abs : BOOLEAN]

ASSUME ChunksAssumption ==
  /\ Channels \subseteq 2 .. LastChannel
  /\ Wrap \in Nat /\ Ext \in 1 .. Wrap - 1 /\ Stamps \subseteq 0 .. Wrap - 1
  /\ Sizes \subseteq Nat
  /\ DefaultChunk \in Nat \ {0} /\ ChunkSizes \subseteq Nat \ {0}
  /\ MaxMessages \in Nat /\ MaxWire \in Nat /\ MaxLosses \in Nat
  /\ NULL \notin Nat \union Messages \union Packets
  /\ NULL \notin [message : Messages, ext : Nat \union {NULL}, rest : Seq(Nat \X Nat)]

VARIABLES
  writer,        \* who sends: "library" or "peer"
  sentCount,     \* messages sent so far, the id of the next one
  losses,
  prevOut,       \* m_vecChannelsOut: the last message sent on a channel
  unfinished,    \* peer: the messages it is in the middle of
  outChunk,      \* the writer's chunk size
  wire,          \* chunks on their way
  inChunk,       \* m_inChunkSize
  vecIn,         \* m_vecChannelsIn: what the reader keeps of a channel
  channelTs,     \* m_channelTimestamp
  packet,        \* the RTMPPacket the caller reads into again and again
  due,           \* history: messages sent and not yet delivered, by channel
  last,          \* history: the last delivery, as read and as sent
  risk,          \* history: an extended timestamp the reader will look for in vain
  staleChunk,    \* history: the chunk size is that of an earlier connection
  status         \* "up" or "misread"

writerVars == <<writer, sentCount, prevOut, unfinished, outChunk, risk>>
readerVars == <<inChunk, vecIn, channelTs, packet>>
vars == <<writerVars, losses, wire, readerVars, due, last, staleChunk, status>>

LARGE == 0
MEDIUM == 1
SMALL == 2
MINIMUM == 3

-----------------------------------------------------------------------------
(* The basic header: a channel in one, two or three bytes. *)

(* Fault: the two-byte form is used one channel too far. *)
FaultEncodeChannel(ch) ==
  IF ch > 320 THEN <<1, (ch - 64) % 256, (ch - 64) \div 256>>
  ELSE IF ch > 63 THEN <<0, (ch - 64) % 256>>
  ELSE <<ch>>

EncodeChannel(ch) ==
  IF ch > 319 THEN <<1, (ch - 64) % 256, (ch - 64) \div 256>>
  ELSE IF ch > 63 THEN <<0, (ch - 64) % 256>>
  ELSE <<ch>>

DecodeChannel(basic) ==
  CASE basic[1] = 0 -> basic[2] + 64
    [] basic[1] = 1 -> basic[3] * 256 + basic[2] + 64
    [] OTHER        -> basic[1]

-----------------------------------------------------------------------------
(* Writing. *)

Body(id, size) == [i \in 1 .. size |-> <<id, i>>]

(* The n-th piece of a body when chunks have the given size. *)
Piece(body, n, size) == SubSeq(body, n * size + 1, Min({(n + 1) * size, Len(body)}))

(* The shortest header for m after prev (rtmp.c:3930-3943). *)
Compress(prev, m, form) ==
  LET small   == IF prev.size = m.size /\ prev.type = m.type /\ form = MEDIUM
                 THEN SMALL ELSE form
      minimum == IF prev.stamp = m.stamp /\ small = SMALL THEN MINIMUM ELSE small
  IN  IF form = LARGE THEN form ELSE minimum

(* The chunk a message starts with, form being its header type. *)
FirstChunk(m, form, delta, body) ==
  [form  |-> form,
   basic |-> EncodeChannel(m.channel),
   stamp |-> IF form <= SMALL THEN Min({delta, Ext}) ELSE NULL,
   size  |-> IF form <= MEDIUM THEN m.size ELSE NULL,
   type  |-> IF form <= MEDIUM THEN m.type ELSE NULL,
   sid   |-> IF form = LARGE THEN m.sid ELSE NULL,
   ext   |-> IF form <= SMALL /\ delta >= Ext THEN delta ELSE NULL,
   body  |-> body]

NextChunk(m, ext, body) ==
  [form |-> MINIMUM, basic |-> EncodeChannel(m.channel), stamp |-> NULL, size |-> NULL,
   type |-> NULL, sid |-> NULL, ext |-> ext, body |-> body]

(* Number of chunks of a message; an empty body is one all the same. *)
ChunkCount(size, chunk) == IF size = 0 THEN 1 ELSE (size + chunk - 1) \div chunk

(* What the writer keeps of a message; field is the timestamp field that   *)
(* went out last on its channel, drift says that the library left out a    *)
(* delta of zero where the reader takes the last delta again.              *)
Sent(m, form, field) ==
  LET prev == prevOut[m.channel]
      keeps == form = MINIMUM /\ prev # NULL
  IN  [m EXCEPT !.field = IF keeps THEN prev.field ELSE field,
                !.drift = form # LARGE /\ prev # NULL
                            /\ (prev.drift \/ (writer = "library" /\ keeps /\ prev.field # 0))]

Message(ch, type, sid, size, stamp) ==
  [id |-> sentCount, channel |-> ch, type |-> type, sid |-> sid, size |-> size,
   stamp |-> stamp, field |-> 0, drift |-> FALSE]

(* The message stream id goes out with a LARGE header only. *)
SidAfter(prev, form) == IF form = LARGE THEN 1 ELSE IF prev = NULL THEN NULL ELSE prev.sid

MayWrite == status = "up" /\ Len(wire) < MaxWire

(* RTMP_SendPacket: all chunks of a message, in a row; form is the header  *)
(* type the caller asks for, LARGE or MEDIUM in the whole of the library.  *)
SendPacket(ch, type, size, stamp, form) ==
  LET prev  == prevOut[ch]
      m     == Message(ch, type, SidAfter(prev, form), size, stamp)
      used  == IF prev = NULL THEN form ELSE Compress(prev, m, form)
      delta == (stamp - (IF prev = NULL \/ form = LARGE THEN 0 ELSE prev.stamp)) % Wrap
      body  == Body(m.id, size)
      sent  == Sent(m, used, Min({delta, Ext}))
      count == ChunkCount(size, outChunk)
  IN  /\ writer = "library" /\ MayWrite /\ sentCount < MaxMessages
      /\ wire' = wire \o <<FirstChunk(m, used, delta, Piece(body, 0, outChunk))>>
                      \o [n \in 1 .. count - 1 |-> NextChunk(m, NULL, Piece(body, n, outChunk))]
      /\ prevOut' = [prevOut EXCEPT ![ch] = sent]
      /\ due' = [due EXCEPT ![ch] = Append(@, sent)]
      /\ risk' = (risk \/ (sent.field = Ext /\ (count > 1 \/ used = MINIMUM)))
      /\ sentCount' = sentCount + 1
      /\ UNCHANGED <<writer, unfinished, outChunk, losses, readerVars, last, staleChunk, status>>

(* A peer starts a message on a channel that has none under way, with any  *)
(* header that says what it means: after a header of form MINIMUM the last *)
(* timestamp field of the channel is the delta again, and an extended      *)
(* timestamp comes with every chunk.                                       *)
PeerStarts(ch, type, size, stamp, form) ==
  LET prev  == prevOut[ch]
      m     == Message(ch, type, SidAfter(prev, form), size, stamp)
      delta == (stamp - (IF form = LARGE THEN 0 ELSE prev.stamp)) % Wrap
      body  == Body(m.id, size)
      first == FirstChunk(m, form, delta, Piece(body, 0, outChunk))
      sent  == Sent(m, form, Min({delta, Ext}))
  IN  /\ writer = "peer" /\ MayWrite /\ sentCount < MaxMessages
      /\ unfinished[ch] = NULL
      /\ form # LARGE => prev # NULL
      /\ form >= SMALL => prev.size = size /\ prev.type = type
      /\ form = MINIMUM => delta < Ext /\ prev.field = delta
      /\ wire' = Append(wire, first)
      /\ unfinished' = [unfinished EXCEPT
           ![ch] = IF ChunkCount(size, outChunk) = 1 THEN NULL
                   ELSE [message |-> m, ext |-> first.ext, rest |-> SubSeq(body, outChunk + 1, size)]]
      /\ prevOut' = [prevOut EXCEPT ![ch] = sent]
      /\ due' = [due EXCEPT ![ch] = Append(@, sent)]
      /\ sentCount' = sentCount + 1
      /\ UNCHANGED <<writer, outChunk, risk, losses, readerVars, last, staleChunk, status>>

PeerGoesOn(ch) ==
  LET u == unfinished[ch]
  IN  /\ MayWrite /\ u # NULL
      /\ wire' = Append(wire, NextChunk(u.message, u.ext, Piece(u.rest, 0, outChunk)))
      /\ unfinished' = [unfinished EXCEPT
           ![ch] = IF Len(u.rest) <= outChunk THEN NULL
                   ELSE [u EXCEPT !.rest = SubSeq(@, outChunk + 1, Len(@))]]
      /\ UNCHANGED <<writer, sentCount, prevOut, outChunk, risk, losses, readerVars, due, last,
                     staleChunk, status>>

(* The chunk size message, between messages; the size follows it at once.  *)
PeerChangesChunkSize(n) ==
  /\ writer = "peer" /\ MayWrite /\ outChunk # n
  /\ \A ch \in Channels : unfinished[ch] = NULL
  /\ wire' = Append(wire, [chunkSize |-> n])
  /\ outChunk' = n
  /\ UNCHANGED <<writer, sentCount, prevOut, unfinished, risk, losses, readerVars, due, last,
                 staleChunk, status>>

-----------------------------------------------------------------------------
(* Reading: RTMP_ReadPacket. *)

(* What is known of a message before the header is looked at: nothing new  *)
(* for a LARGE one, and otherwise the last values of the channel.  On a    *)
(* channel without any the caller's packet is left as it was.              *)
Known(c, stored) ==
  IF c.form = LARGE THEN [packet EXCEPT !.abs = TRUE]
  ELSE IF stored # NULL THEN stored
  ELSE packet

(* The packet with the fields the header has (rtmp.c:3634-3655). *)
WithHeader(c, p) ==
  [p EXCEPT !.stamp = IF c.form <= SMALL THEN c.stamp ELSE @,
            !.size  = IF c.form <= MEDIUM THEN c.size ELSE @,
            !.type  = IF c.form <= MEDIUM THEN c.type ELSE @,
            !.read  = IF c.form <= MEDIUM THEN 0 ELSE @,
            !.body  = IF c.form <= MEDIUM THEN <<>> ELSE @,
            !.sid   = IF c.form = LARGE THEN c.sid ELSE @]

(* The chunk has the bytes the reader asks for. *)
InStep(c, p) ==
  /\ (p.stamp = Ext) <=> (c.ext # NULL)
  /\ Len(c.body) = Min({inChunk, p.size - p.read})

(* The packet after the body of the chunk, and its timestamp. *)
WithBody(c, p) ==
  [p EXCEPT !.stamp = IF @ = Ext THEN c.ext ELSE @,
            !.read = @ + Len(c.body),
            !.body = @ \o c.body]

Ready(p) == p.read = p.size

(* Fault: what is kept of a finished message is still taken for absolute. *)
FaultKept(p, extended) ==
  [p EXCEPT !.stamp = IF extended THEN Ext ELSE @,
            !.read = IF Ready(p) THEN 0 ELSE @,
            !.body = IF Ready(p) THEN <<>> ELSE @]

(* What is kept for the channel's next chunk (rtmp.c:3718-3741). *)
Kept(p, extended) ==
  [p EXCEPT !.stamp = IF extended THEN Ext ELSE @,
            !.read = IF Ready(p) THEN 0 ELSE @,
            !.body = IF Ready(p) THEN <<>> ELSE @,
            !.abs = IF Ready(p) THEN FALSE ELSE @]

(* Fault: the sum is kept in a wider type. *)
FaultAbsoluteWide(p, ch) == IF p.abs THEN p.stamp ELSE p.stamp + channelTs[ch]

Absolute(p, ch) == IF p.abs THEN p.stamp ELSE (p.stamp + channelTs[ch]) % Wrap

(* Fault: one place is kept for all channels. *)
FaultVecInWith(ch, p) == [c \in Channels |-> p]

VecInWith(ch, p) == [vecIn EXCEPT ![ch] = p]

(* One call of RTMP_ReadPacket; a complete message goes to the caller,     *)
(* which frees its body and calls again.                                   *)
ReadPacket ==
  LET c  == Head(wire)
      ch == DecodeChannel(c.basic)
      p  == WithHeader(c, Known(c, vecIn[ch]))
      q  == WithBody(c, p)
      at == Absolute(q, ch)
  IN  /\ status = "up" /\ wire # <<>> /\ "basic" \in DOMAIN c
      /\ ch \in Channels /\ InStep(c, p)
      /\ wire' = Tail(wire)
      /\ vecIn' = VecInWith(ch, Kept(q, p.stamp = Ext))
      /\ IF Ready(q)
         THEN /\ channelTs' = [channelTs EXCEPT ![ch] = at]
              /\ last' = [read |-> [q EXCEPT !.stamp = at], sent |-> Head(due[ch])]
              /\ due' = [due EXCEPT ![ch] = Tail(@)]
              /\ packet' = [q EXCEPT !.stamp = at, !.body = <<>>]
         ELSE packet' = [q EXCEPT !.body = <<>>] /\ UNCHANGED <<channelTs, last, due>>
      /\ UNCHANGED <<writerVars, losses, inChunk, staleChunk, status>>

(* It asks for a timestamp or a length the chunk does not have. *)
Misread ==
  LET c  == Head(wire)
      ch == DecodeChannel(c.basic)
  IN  /\ status = "up" /\ wire # <<>> /\ "basic" \in DOMAIN c
      /\ ~(ch \in Channels /\ InStep(c, WithHeader(c, Known(c, vecIn[ch]))))
      /\ status' = "misread"
      /\ UNCHANGED <<writerVars, losses, wire, readerVars, due, last, staleChunk>>

(* HandleChangeChunkSize, called with the message as soon as it is read. *)
HandleChangeChunkSize ==
  /\ status = "up" /\ wire # <<>> /\ "chunkSize" \in DOMAIN Head(wire)
  /\ inChunk' = Head(wire).chunkSize
  /\ wire' = Tail(wire)
  /\ UNCHANGED <<writerVars, losses, vecIn, channelTs, packet, due, last, staleChunk, status>>

-----------------------------------------------------------------------------
(* A read or a write fails: RTMP_Close gives up what it knows of the       *)
(* channels, but not the chunk size; the caller connects again with a      *)
(* packet of its own (rtmp.c:4128-4185).                                   *)
Fresh == [stamp |-> 0, size |-> 0, type |-> NULL, sid |-> NULL, read |-> 0, body |-> <<>>,
          abs |-> FALSE]

Close ==
  /\ vecIn' = [ch \in Channels |-> NULL]
  /\ channelTs' = [ch \in Channels |-> 0]

Lost ==
  /\ status = "up" /\ losses < MaxLosses
  /\ losses' = losses + 1
  /\ Close
  /\ packet' = Fresh
  /\ prevOut' = [ch \in Channels |-> NULL]
  /\ unfinished' = [ch \in Channels |-> NULL]
  /\ outChunk' = DefaultChunk
  /\ wire' = <<>>
  /\ due' = [ch \in Channels |-> <<>>]
  /\ staleChunk' = (inChunk # DefaultChunk)
  /\ risk' = FALSE
  /\ UNCHANGED <<writer, sentCount, inChunk, last, status>>

Init ==
  /\ writer \in {"library", "peer"}
  /\ sentCount = 0 /\ losses = 0
  /\ prevOut = [ch \in Channels |-> NULL]
  /\ unfinished = [ch \in Channels |-> NULL]
  /\ outChunk = DefaultChunk
  /\ wire = <<>>
  /\ inChunk = DefaultChunk
  /\ vecIn = [ch \in Channels |-> NULL]
  /\ channelTs = [ch \in Channels |-> 0]
  /\ packet = Fresh
  /\ due = [ch \in Channels |-> <<>>]
  /\ last = NULL
  /\ risk = FALSE /\ staleChunk = FALSE
  /\ status = "up"

Next ==
  \/ \E ch \in Channels, type \in Types, size \in Sizes, stamp \in Stamps :
       \/ \E form \in {LARGE, MEDIUM} : SendPacket(ch, type, size, stamp, form)
       \/ \E form \in LARGE .. MINIMUM : PeerStarts(ch, type, size, stamp, form)
  \/ \E ch \in Channels : PeerGoesOn(ch)
  \/ \E n \in ChunkSizes : PeerChangesChunkSize(n)
  \/ ReadPacket \/ Misread \/ HandleChangeChunkSize
  \/ Lost

Spec == Init /\ [][Next]_vars

-----------------------------------------------------------------------------
(* Properties. *)

(* Type invariant of both ends. *)
TypeOK ==
  /\ prevOut \in [Channels -> Messages \union {NULL}]
  /\ vecIn \in [Channels -> Packets \union {NULL}]
  /\ packet \in Packets
  /\ channelTs \in [Channels -> 0 .. Wrap - 1]
  /\ {inChunk, outChunk} \subseteq Nat \ {0}
  /\ \A ch \in Channels : \A i \in DOMAIN due[ch] : due[ch][i] \in Messages

(* A message is put together from its own bytes, all of them and in order, *)
(* whatever other channels send in between and wherever it was cut, and it *)
(* is the oldest one of its channel (rtmp.c:3680-3741).                    *)
BodiesKept ==
  last # NULL => last.read.body = Body(last.sent.id, last.sent.size)

(* Type and stream id survive the headers that leave them out              *)
(* (rtmp.c:3930-3941, 3618-3632).                                          *)
HeadersKept ==
  last # NULL => /\ last.read.type = last.sent.type
                 /\ last.sent.sid # NULL => last.read.sid = last.sent.sid

(* So does the timestamp, absolute, relative or extended.  The exception   *)
(* is of the library's own making: it leaves the timestamp out when it is  *)
(* that of the last message (rtmp.c:3938-3940), where its reader adds the  *)
(* last difference once more (rtmp.c:3732-3733).                           *)
TimestampsKept ==
  last # NULL /\ ~last.sent.drift => last.read.stamp = last.sent.stamp

(* What the reader returns is what was sent, and was sent on that channel. *)
PacketsKept == BodiesKept /\ HeadersKept /\ TimestampsKept

(* Reader and writer stay in step.  Two things in the code can part them:  *)
(* RTMP_SendPacket does not repeat an extended timestamp, which            *)
(* RTMP_ReadPacket looks for in every chunk, and RTMP_Close keeps the      *)
(* chunk size for a connection that starts with the default one.           *)
StaysInStep == status = "misread" => risk \/ staleChunk

(* Nothing of a channel is left over once its messages are all delivered:  *)
(* the next message starts with an empty body and no part of it is missing.*)
NothingLeftOver ==
  status = "up" =>
    \A ch \in Channels : due[ch] = <<>> /\ vecIn[ch] # NULL =>
      /\ vecIn[ch].read = 0
      /\ vecIn[ch].body = <<>>
      /\ ~vecIn[ch].abs

=============================================================================
