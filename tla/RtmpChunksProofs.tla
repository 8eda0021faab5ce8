-------------------------- MODULE RtmpChunksProofs --------------------------
(***************************************************************************)
(* What the reader of the chunk layer returns is what was sent, for every  *)
(* set of channels, every chunk size, bodies of any length, any number of  *)
(* chunks on their way and of lost connections.                            *)
(*                                                                         *)
(* The wire is an account that can be settled: reading it chunk by chunk   *)
(* takes the reader through states (Run) to one that agrees with the       *)
(* writer (Agree), or to a chunk it misreads (Stuck).  A writer's step is  *)
(* then a matter of the last of these states only, as if the chunk were    *)
(* read at once, and a reader's step of the first only.                    *)
(***************************************************************************)
EXTENDS RtmpChunks, LeastElement, FiniteSetTheorems, SequenceTheorems

-----------------------------------------------------------------------------
(* The reader, as a value. *)

States == [inChunk : Nat \ {0}, vecIn : [Channels -> Packets \union {NULL}],
           channelTs : [Channels -> 0 .. Wrap - 1], packet : Packets,
           due : [Channels -> Seq(Messages)]]

Reader == [inChunk |-> inChunk, vecIn |-> vecIn, channelTs |-> channelTs, packet |-> packet,
           due |-> due]

(* The packet p is message m. *)
Same(p, m) == /\ p.body = Body(m.id, m.size)
              /\ p.type = m.type /\ (m.sid # NULL => p.sid = m.sid)
              /\ ~m.drift => p.stamp = m.stamp

(* The reader s, at the first chunk c, takes it for one of p. *)
HeaderIn(s, c, ch) ==
  WithHeader(c, IF c.form = LARGE THEN [s.packet EXCEPT !.abs = TRUE]
                ELSE IF s.vecIn[ch] # NULL THEN s.vecIn[ch] ELSE s.packet)

FitsIn(s, c, p) == /\ (p.stamp = Ext) <=> (c.ext # NULL)
                   /\ Len(c.body) = Min({s.inChunk, p.size - p.read})

AbsoluteIn(s, p, ch) == IF p.abs THEN p.stamp ELSE (p.stamp + s.channelTs[ch]) % Wrap

(* Having read the body of c into q, s becomes t. *)
Takes(s, ch, p, q, t) ==
  /\ s.due[ch] # <<>>
  /\ t.inChunk = s.inChunk
  /\ t.vecIn = [s.vecIn EXCEPT ![ch] = Kept(q, p.stamp = Ext)]
  /\ Ready(q) =>
       LET r == [q EXCEPT !.stamp = AbsoluteIn(s, q, ch)]
       IN  /\ t.channelTs = [s.channelTs EXCEPT ![ch] = r.stamp]
           /\ t.due = [s.due EXCEPT ![ch] = Tail(@)]
           /\ t.packet = [r EXCEPT !.body = <<>>]
           /\ Same(r, Head(s.due[ch]))
  /\ ~Ready(q) => /\ t.packet = [q EXCEPT !.body = <<>>]
                  /\ t.channelTs = s.channelTs /\ t.due = s.due

IsSize(c) == "chunkSize" \in DOMAIN c /\ "basic" \notin DOMAIN c
IsChunk(c) == "basic" \in DOMAIN c /\ "chunkSize" \notin DOMAIN c

(* s reads c and becomes t. *)
ReadsChunk(s, c, t) ==
  LET ch == DecodeChannel(c.basic)
      p == HeaderIn(s, c, ch)
  IN  /\ IsChunk(c) /\ ch \in Channels /\ FitsIn(s, c, p)
      /\ Takes(s, ch, p, WithBody(c, p), t)

ReadsSize(s, c, t) == IsSize(c) /\ t = [s EXCEPT !.inChunk = c.chunkSize]

Step(s, c, t) == ReadsChunk(s, c, t) \/ ReadsSize(s, c, t)

(* s misreads c. *)
Stuck(s, c) == /\ IsChunk(c)
               /\ LET ch == DecodeChannel(c.basic)
                  IN  ~(ch \in Channels /\ FitsIn(s, c, HeaderIn(s, c, ch)))

-----------------------------------------------------------------------------
(* When reader and writer agree on a channel. *)

(* What the reader keeps is of message m, k bytes of which it has. *)
Has(v, m, k) == /\ v \in Packets /\ v.stamp = m.field /\ v.size = m.size /\ v.type = m.type
                /\ m.sid # NULL => v.sid = m.sid
                /\ v.read = k /\ v.body = Body(m.id, k)

(* The reader is in the middle of m, which has extended timestamp ext. *)
Half(s, ch, m, ext, k) ==
  LET v == s.vecIn[ch]
      stamp == IF m.field = Ext THEN ext ELSE m.field
  IN  /\ k \in 0 .. m.size - 1 /\ Has(v, m, k)
      /\ (m.field = Ext) <=> (ext # NULL)
      /\ ext # NULL => ext \in 0 .. Wrap - 1
      /\ ~m.drift => m.stamp = IF v.abs THEN stamp ELSE (stamp + s.channelTs[ch]) % Wrap
      /\ s.due[ch] = <<m>>

(* The last message the reader has had of the channel is m. *)
Done(s, ch, m) ==
  /\ Has(s.vecIn[ch], m, 0) /\ ~s.vecIn[ch].abs
  /\ ~m.drift => s.channelTs[ch] = m.stamp
  /\ s.due[ch] = <<>>

(* It has had none. *)
None(s, ch) == s.vecIn[ch] = NULL /\ s.channelTs[ch] = 0 /\ s.due[ch] = <<>>

(* What is still to be sent of a message is what the reader has not. *)
Rest(s, u, m, ch) ==
  /\ u.message.channel = ch
  /\ s.inChunk = outChunk
  /\ \E k \in 0 .. m.size - 1 : /\ Half(s, ch, m, u.ext, k)
                                /\ u.rest = SubSeq(Body(m.id, m.size), k + 1, m.size)

AgreeOn(s, ch) ==
  LET m == prevOut[ch]
      u == unfinished[ch]
  IN  CASE m = NULL -> u = NULL /\ None(s, ch)
        [] m # NULL /\ u = NULL -> Done(s, ch, m)
        [] m # NULL /\ u # NULL -> Rest(s, u, m, ch)

Agree(s) == /\ ~staleChunk => s.inChunk = outChunk
            /\ \A ch \in Channels : AgreeOn(s, ch)

(* Reading the wire takes the reader through the states run: to its end,   *)
(* or to a chunk it is stuck at.                                           *)
Leads(run, from, w) ==
  /\ run \in Seq(States) /\ Len(run) \in 1 .. Len(w) + 1
  /\ run[1] = from
  /\ \A i \in 1 .. Len(run) - 1 : Step(run[i], w[i], run[i + 1])

Settled(run, w) ==
  \/ Len(run) = Len(w) + 1 /\ Agree(run[Len(run)])
  \/ Len(run) <= Len(w) /\ (risk \/ staleChunk) /\ Stuck(run[Len(run)], w[Len(run)])

OutMessages == [message : Messages, ext : Nat \union {NULL}, rest : Seq(Nat \X Nat)]

WriterTyped ==
  /\ sentCount \in Nat /\ outChunk \in Nat \ {0}
  /\ prevOut \in [Channels -> Messages \union {NULL}]
  /\ unfinished \in [Channels -> OutMessages \union {NULL}]
  /\ {risk, staleChunk} \subseteq BOOLEAN
  /\ writer = "library" => \A ch \in Channels : unfinished[ch] = NULL
  /\ \E S : wire \in Seq(S)

(* While something is due on a channel, or nothing has begun. *)
Clean(s) == \A ch \in Channels : s.due[ch] = <<>> /\ s.vecIn[ch] # NULL =>
              s.vecIn[ch].read = 0 /\ s.vecIn[ch].body = <<>> /\ ~s.vecIn[ch].abs

ChunksInv ==
  /\ WriterTyped /\ Reader \in States /\ Clean(Reader)
  /\ last # NULL => Same(last.read, last.sent)
  /\ status = "misread" => risk \/ staleChunk
  /\ status = "up" => \E run : Leads(run, Reader, wire) /\ Settled(run, wire)
-----------------------------------------------------------------------------
(* Bytes. *)

(* NULL is no number and no record, and the numbers are numbers.           *)
LEMMA Constants ==
  /\ Channels \subseteq 2 .. LastChannel
  /\ Wrap \in Nat /\ Ext \in 1 .. Wrap - 1 /\ Stamps \subseteq 0 .. Wrap - 1
  /\ Sizes \subseteq Nat
  /\ DefaultChunk \in Nat \ {0} /\ ChunkSizes \subseteq Nat \ {0}
  /\ NULL \notin Nat /\ NULL \notin Messages /\ NULL \notin Packets /\ NULL \notin OutMessages
<1>1. NULL \notin Nat \union Messages \union Packets
  BY ChunksAssumption, Zenon
<1>2. NULL \notin OutMessages
  BY ChunksAssumption, Zenon DEF OutMessages
<1> QED BY <1>1, <1>2, ChunksAssumption

(* Channels are numbers up to the last one. *)
LEMMA ChannelsBounded == LastChannel \in Nat
  BY DEF LastChannel

(* A channel number survives the one, two or three bytes of its header.    *)
LEMMA DecodesWhatWasEncoded ==
  ASSUME NEW ch \in 2 .. LastChannel
  PROVE  DecodeChannel(EncodeChannel(ch)) = ch
<1>0. ch \in Nat /\ ch >= 2
  BY ChannelsBounded
<1>1. PICK b : b = EncodeChannel(ch)
  OBVIOUS
<1>2. CASE ch > 319
  <2>1. PICK l, h : l = (ch - 64) % 256 /\ h = (ch - 64) \div 256
    OBVIOUS
  <2>2. b = <<1, l, h>>
    BY <1>1, <1>2, <2>1 DEF EncodeChannel
  <2>3. b[1] = 1 /\ b[2] = l /\ b[3] = h
    BY <2>2
  <2>4. h * 256 + l + 64 = ch
    BY <1>0, <1>2, <2>1
  <2>5. DecodeChannel(b) = b[3] * 256 + b[2] + 64
    <3>1. b[1] # 0
      BY <2>3
    <3> QED BY <2>3, <3>1, Zenon DEF DecodeChannel
  <2> QED BY <1>1, <2>3, <2>4, <2>5
<1>3. CASE ch > 63 /\ ~(ch > 319)
  <2>1. PICK l : l = (ch - 64) % 256
    OBVIOUS
  <2>2. b = <<0, l>>
    BY <1>1, <1>3, <2>1 DEF EncodeChannel
  <2>3. b[1] = 0 /\ b[2] = l
    BY <2>2
  <2>4. l + 64 = ch
    BY <1>0, <1>3, <2>1
  <2>5. DecodeChannel(b) = b[2] + 64
    <3>1. b[1] # 1
      BY <2>3
    <3> QED BY <2>3, <3>1, Zenon DEF DecodeChannel
  <2> QED BY <1>1, <2>3, <2>4, <2>5
<1>4. CASE ~(ch > 63)
  <2>1. b = <<ch>>
    BY <1>1, <1>4 DEF EncodeChannel
  <2>2. b[1] = ch /\ b[1] # 0 /\ b[1] # 1
    BY <1>0, <2>1
  <2>3. DecodeChannel(b) = b[1]
    BY <2>2, Zenon DEF DecodeChannel
  <2> QED BY <1>1, <2>2, <2>3
<1> QED BY <1>2, <1>3, <1>4

(* The lesser of two numbers. *)
LEMMA MinOf ==
  ASSUME NEW a \in Int, NEW b \in Int
  PROVE  Min({a, b}) = IF a <= b THEN a ELSE b
<1>1. PICK x \in {a, b} : x = IF a <= b THEN a ELSE b
  OBVIOUS
<1>2. x \in {a, b} /\ \A y \in {a, b} : x <= y
  BY <1>1
<1>3. ASSUME NEW z \in {a, b}, \A y \in {a, b} : z <= y
      PROVE  z = x
  BY <1>2, <1>3
<1>4. Min({a, b}) = x
  BY <1>2, <1>3 DEF Min
<1> QED BY <1>1, <1>4

(* A body has its size, and a part of it is a sequence of bytes.           *)
LEMMA BodyFacts ==
  ASSUME NEW id \in Nat, NEW n \in Nat
  PROVE  /\ Body(id, n) \in Seq(Nat \X Nat) /\ Len(Body(id, n)) = n
         /\ \A i \in 1 .. n : Body(id, n)[i] = <<id, i>>
  BY DEF Body

(* A part of a sequence, and one sequence behind another.                  *)
LEMMA Parts ==
  ASSUME NEW S, NEW b \in Seq(S), NEW k \in Nat, NEW l \in Nat, k + l <= Len(b)
  PROVE  /\ SubSeq(b, k + 1, k + l) \in Seq(S)
         /\ Len(SubSeq(b, k + 1, k + l)) = l
         /\ \A i \in 1 .. l : SubSeq(b, k + 1, k + l)[i] = b[k + i]
<1>1. \A i \in k + 1 .. k + l : b[i] \in S
  OBVIOUS
<1> QED BY <1>1

(* x is the part of b, a sequence over S, of length l from k on.           *)
IsPart(x, S, b, k, l) ==
  x \in Seq(S) /\ Len(x) = l /\ \A i \in 1 .. l : x[i] = b[k + i]

(* The same of a sequence that is known to be such a part.                 *)
LEMMA PartIs ==
  ASSUME NEW S, NEW b \in Seq(S), NEW k \in Nat, NEW l \in Nat, k + l <= Len(b),
         NEW x, x = SubSeq(b, k + 1, k + l)
  PROVE  IsPart(x, S, b, k, l)
<1>1. /\ SubSeq(b, k + 1, k + l) \in Seq(S)
      /\ Len(SubSeq(b, k + 1, k + l)) = l
      /\ \A i \in 1 .. l : SubSeq(b, k + 1, k + l)[i] = b[k + i]
  BY Parts
<1> QED BY <1>1, Zenon DEF IsPart

(* Two sequences in a row have the elements of both, in their order.       *)
LEMMA Behind ==
  ASSUME NEW S, NEW x \in Seq(S), NEW y \in Seq(S)
  PROVE  /\ x \o y \in Seq(S) /\ Len(x \o y) = Len(x) + Len(y)
         /\ \A i \in 1 .. Len(x) : (x \o y)[i] = x[i]
         /\ \A i \in 1 .. Len(y) : (x \o y)[Len(x) + i] = y[i]
  OBVIOUS

(* The bytes of a body after the first k, up to t. *)
Part(id, n, k, t) == SubSeq(Body(id, n), k + 1, t)

Adds(k, l, t) == t = k + l
Joins(x, y, z) == z = x \o y

(* What comes next is put behind what is there. *)
LEMMA BodyGrows ==
  ASSUME NEW id \in Nat, NEW n \in Nat, NEW k \in Nat, NEW l \in Nat, NEW t \in Nat,
         Adds(k, l, t), t <= n
  PROVE  /\ Joins(Body(id, k), Part(id, n, k, t), Body(id, t))
         /\ Len(Part(id, n, k, t)) = l
<1>0. PICK S : S = Nat \X Nat /\ t = k + l
  BY DEF Adds
<1>1. PICK b, y, w : b = Body(id, n) /\ y = Body(id, k) /\ w = Body(id, t)
  OBVIOUS
<1>2. b \in Seq(S) /\ Len(b) = n /\ \A i \in 1 .. n : b[i] = <<id, i>>
  BY <1>0, <1>1, BodyFacts, Zenon
<1>3. y \in Seq(S) /\ Len(y) = k /\ \A i \in 1 .. k : y[i] = <<id, i>>
  BY <1>0, <1>1, BodyFacts, Zenon
<1>4. w \in Seq(S) /\ Len(w) = k + l /\ \A i \in 1 .. k + l : w[i] = <<id, i>>
  BY <1>0, <1>1, BodyFacts, Zenon
<1>5. PICK x : x = SubSeq(b, k + 1, k + l)
  OBVIOUS
<1>6. x \in Seq(S) /\ Len(x) = l /\ \A i \in 1 .. l : x[i] = b[k + i]
  <2>1. k + l <= Len(b)
    BY <1>0, <1>2
  <2> QED BY <1>2, <1>5, <2>1, Parts
<1>7. PICK z : z = y \o x
  OBVIOUS
<1>8. /\ z \in Seq(S) /\ Len(z) = k + l
      /\ \A i \in 1 .. k : z[i] = y[i]
      /\ \A i \in 1 .. l : z[k + i] = x[i]
  <2>1. /\ y \o x \in Seq(S) /\ Len(y \o x) = Len(y) + Len(x)
        /\ \A i \in 1 .. Len(y) : (y \o x)[i] = y[i]
        /\ \A i \in 1 .. Len(x) : (y \o x)[Len(y) + i] = x[i]
    <3>1. y \in Seq(S) /\ x \in Seq(S)
      BY <1>3, <1>6, Zenon
    <3> QED BY <3>1, Behind
  <2> QED BY <1>3, <1>6, <1>7, <2>1, Zenon
<1>9. \A i \in 1 .. k + l : z[i] = w[i]
  <2> TAKE i \in 1 .. k + l
  <2>1. CASE i <= k
    <3>1. i \in 1 .. k
      BY <2>1
    <3>2. z[i] = <<id, i>> /\ w[i] = <<id, i>>
      BY <1>3, <1>4, <1>8, <3>1, Zenon
    <3> QED BY <3>2
  <2>2. CASE i > k
    <3>1. PICK j \in 1 .. l : i = k + j
      <4>1. i - k \in 1 .. l /\ i = k + (i - k)
        BY <2>2
      <4> QED BY <4>1
    <3>2. k + j \in 1 .. n
      BY <1>0, <3>1
    <3>3. z[i] = x[j] /\ x[j] = b[k + j] /\ b[k + j] = <<id, k + j>>
      BY <1>2, <1>6, <1>8, <3>1, <3>2, Zenon
    <3>4. w[i] = <<id, i>>
      BY <1>4, Zenon
    <3> QED BY <3>1, <3>3, <3>4, Zenon
  <2> QED BY <2>1, <2>2
<1>10. z = w
  BY <1>4, <1>8, <1>9, SeqEqual
<1>11. Part(id, n, k, t) = x
  BY <1>0, <1>1, <1>5, Zenon DEF Part
<1> QED BY <1>1, <1>6, <1>7, <1>10, <1>11, Zenon DEF Joins

-----------------------------------------------------------------------------
(* Packets. *)

Pkt(st, si, ty, sd, rd, bo, ab) ==
  [stamp |-> st, size |-> si, type |-> ty, sid |-> sd, read |-> rd, body |-> bo, abs |-> ab]

IsPkt(q, st, si, ty, sd, rd, bo, ab) == q = Pkt(st, si, ty, sd, rd, bo, ab)

(* The timestamp field, or the extended timestamp it announces. *)
Said(field, ext) == IF field = Ext THEN ext ELSE field

(* The field that is kept when there was an extended timestamp. *)
Again(e, st) == IF e THEN Ext ELSE st

(* What is kept of a finished message. *)
Emptied(rd, bo, ab) == rd = 0 /\ bo = <<>> /\ ab = FALSE

(* A body of rd bytes, with those of the chunk. *)
Grows(c, rd, bo, r, b) == r = rd + Len(c.body) /\ b = bo \o c.body

(* A packet is made of its fields. *)
LEMMA PacketIs ==
  ASSUME NEW p \in Packets
  PROVE  p = Pkt(p.stamp, p.size, p.type, p.sid, p.read, p.body, p.abs)
  BY DEF Packets, Pkt

(* The fields with the header c. *)
HeaderFields(c, st, si, ty, sd, rd, bo, v1, v2, v3, v4, v5, v6) ==
  /\ v1 = IF c.form <= SMALL THEN c.stamp ELSE st
  /\ v2 = IF c.form <= MEDIUM THEN c.size ELSE si
  /\ v3 = IF c.form <= MEDIUM THEN c.type ELSE ty
  /\ v4 = IF c.form = LARGE THEN c.sid ELSE sd
  /\ v5 = IF c.form <= MEDIUM THEN 0 ELSE rd
  /\ v6 = IF c.form <= MEDIUM THEN <<>> ELSE bo

(* The header replaces the fields it has. *)
LEMMA HeaderIs ==
  ASSUME NEW st, NEW si, NEW ty, NEW sd, NEW rd, NEW bo, NEW ab, NEW c,
         NEW p, IsPkt(p, st, si, ty, sd, rd, bo, ab),
         NEW v1, NEW v2, NEW v3, NEW v6, NEW v4, NEW v5,
         HeaderFields(c, st, si, ty, sd, rd, bo, v1, v2, v3, v6, v4, v5)
  PROVE  IsPkt(WithHeader(c, p), v1, v2, v3, v6, v4, v5, ab)
<1>1. p = Pkt(st, si, ty, sd, rd, bo, ab)
  BY DEF IsPkt
<1>2. /\ v1 = IF c.form <= SMALL THEN c.stamp ELSE st
      /\ v2 = IF c.form <= MEDIUM THEN c.size ELSE si
      /\ v3 = IF c.form <= MEDIUM THEN c.type ELSE ty
      /\ v4 = IF c.form <= MEDIUM THEN 0 ELSE rd
      /\ v5 = IF c.form <= MEDIUM THEN <<>> ELSE bo
      /\ v6 = IF c.form = LARGE THEN c.sid ELSE sd
  BY Zenon DEF HeaderFields
<1>3. p.stamp = st /\ p.size = si /\ p.type = ty /\ p.sid = sd /\ p.read = rd /\ p.body = bo /\ p.abs = ab
  BY <1>1 DEF Pkt
<1>4. WithHeader(c, p) = [p EXCEPT !.stamp = v1, !.size = v2, !.type = v3, !.read = v4, !.body = v5, !.sid = v6]
  BY <1>2, <1>3, Zenon DEF WithHeader
<1>5. [p EXCEPT !.stamp = v1] = Pkt(v1, si, ty, sd, rd, bo, ab)
  BY <1>1 DEF Pkt
<1>6. [Pkt(v1, si, ty, sd, rd, bo, ab) EXCEPT !.size = v2] = Pkt(v1, v2, ty, sd, rd, bo, ab)
  BY DEF Pkt
<1>7. [Pkt(v1, v2, ty, sd, rd, bo, ab) EXCEPT !.type = v3] = Pkt(v1, v2, v3, sd, rd, bo, ab)
  BY DEF Pkt
<1>8. [Pkt(v1, v2, v3, sd, rd, bo, ab) EXCEPT !.read = v4] = Pkt(v1, v2, v3, sd, v4, bo, ab)
  BY DEF Pkt
<1>9. [Pkt(v1, v2, v3, sd, v4, bo, ab) EXCEPT !.body = v5] = Pkt(v1, v2, v3, sd, v4, v5, ab)
  BY DEF Pkt
<1>10. [Pkt(v1, v2, v3, sd, v4, v5, ab) EXCEPT !.sid = v6] = Pkt(v1, v2, v3, v6, v4, v5, ab)
  BY DEF Pkt
<1>11. [p EXCEPT !.stamp = v1, !.size = v2, !.type = v3] = Pkt(v1, v2, v3, sd, rd, bo, ab)
  BY <1>5, <1>6, <1>7, Zenon
<1>12. [p EXCEPT !.stamp = v1, !.size = v2, !.type = v3, !.read = v4, !.body = v5, !.sid = v6] = Pkt(v1, v2, v3, v6, v4, v5, ab)
  BY <1>11, <1>8, <1>9, <1>10, Zenon
<1> QED BY <1>4, <1>12, Zenon DEF IsPkt

(* The body of the chunk comes behind what is there. *)
LEMMA BodyIs ==
  ASSUME NEW st, NEW si, NEW ty, NEW sd, NEW rd, NEW bo, NEW ab, NEW c,
         NEW p, IsPkt(p, st, si, ty, sd, rd, bo, ab), NEW r, NEW b, Grows(c, rd, bo, r, b)
  PROVE  IsPkt(WithBody(c, p), Said(st, c.ext), si, ty, sd, r, b, ab)
<1>1. p = Pkt(st, si, ty, sd, rd, bo, ab)
  BY DEF IsPkt
<1>2. PICK v1, v2, v3 : 
        /\ v1 = IF st = Ext THEN c.ext ELSE st
        /\ v2 = rd + Len(c.body)
        /\ v3 = bo \o c.body
  OBVIOUS
<1>3. p.stamp = st /\ p.size = si /\ p.type = ty /\ p.sid = sd /\ p.read = rd /\ p.body = bo /\ p.abs = ab
  BY <1>1 DEF Pkt
<1>4. WithBody(c, p) = [p EXCEPT !.stamp = v1, !.read = v2, !.body = v3]
  BY <1>2, <1>3, Zenon DEF WithBody
<1>5. [p EXCEPT !.stamp = v1] = Pkt(v1, si, ty, sd, rd, bo, ab)
  BY <1>1 DEF Pkt
<1>6. [Pkt(v1, si, ty, sd, rd, bo, ab) EXCEPT !.read = v2] = Pkt(v1, si, ty, sd, v2, bo, ab)
  BY DEF Pkt
<1>7. [Pkt(v1, si, ty, sd, v2, bo, ab) EXCEPT !.body = v3] = Pkt(v1, si, ty, sd, v2, v3, ab)
  BY DEF Pkt
<1>8. [p EXCEPT !.stamp = v1, !.read = v2, !.body = v3] = Pkt(v1, si, ty, sd, v2, v3, ab)
  BY <1>5, <1>6, <1>7, Zenon
<1>9. v1 = Said(st, c.ext) /\ v2 = r /\ v3 = b
  BY <1>2, Zenon DEF Said, Grows
<1> QED BY <1>4, <1>8, <1>9, Zenon DEF IsPkt

(* What is kept of a packet. *)
LEMMA KeptIs ==
  ASSUME NEW st, NEW si, NEW ty, NEW sd, NEW rd, NEW bo, NEW ab, NEW e \in BOOLEAN,
         NEW f, f = Again(e, st), NEW q, IsPkt(q, st, si, ty, sd, rd, bo, ab),
         NEW k, k = Kept(q, e), NEW z, NEW b, NEW no, Emptied(z, b, no)
  PROVE  /\ rd = si => IsPkt(k, f, si, ty, sd, z, b, no)
         /\ rd # si => IsPkt(k, f, si, ty, sd, rd, bo, ab)
<1>1. PICK p : p = Pkt(st, si, ty, sd, rd, bo, ab)
  OBVIOUS
<1>2. PICK v2, v3, v4 : 
        /\ v2 = IF rd = si THEN 0 ELSE rd
        /\ v3 = IF rd = si THEN <<>> ELSE bo
        /\ v4 = IF rd = si THEN FALSE ELSE ab
  OBVIOUS
<1>3. p.stamp = st /\ p.size = si /\ p.type = ty /\ p.sid = sd /\ p.read = rd /\ p.body = bo /\ p.abs = ab
  BY <1>1 DEF Pkt
<1>4. Kept(p, e) = [p EXCEPT !.stamp = f, !.read = v2, !.body = v3, !.abs = v4]
  BY <1>2, <1>3, Zenon DEF Kept, Ready, Again
<1>5. [p EXCEPT !.stamp = f] = Pkt(f, si, ty, sd, rd, bo, ab)
  BY <1>1 DEF Pkt
<1>6. [Pkt(f, si, ty, sd, rd, bo, ab) EXCEPT !.read = v2] = Pkt(f, si, ty, sd, v2, bo, ab)
  BY DEF Pkt
<1>7. [Pkt(f, si, ty, sd, v2, bo, ab) EXCEPT !.body = v3] = Pkt(f, si, ty, sd, v2, v3, ab)
  BY DEF Pkt
<1>8. [Pkt(f, si, ty, sd, v2, v3, ab) EXCEPT !.abs = v4] = Pkt(f, si, ty, sd, v2, v3, v4)
  BY DEF Pkt
<1>9. [p EXCEPT !.stamp = f, !.read = v2, !.body = v3] = Pkt(f, si, ty, sd, v2, v3, ab)
  BY <1>5, <1>6, <1>7, Zenon
<1>10. [p EXCEPT !.stamp = f, !.read = v2, !.body = v3, !.abs = v4] = Pkt(f, si, ty, sd, v2, v3, v4)
  BY <1>9, <1>8, Zenon
<1> QED BY <1>1, <1>2, <1>4, <1>10, Zenon DEF Emptied, IsPkt

(* The caller gets it with its timestamp, and takes the body away. *)
LEMMA GivenIs ==
  ASSUME NEW st, NEW si, NEW ty, NEW sd, NEW rd, NEW bo, NEW ab, NEW v, NEW q,
         IsPkt(q, st, si, ty, sd, rd, bo, ab), NEW e, NEW z, NEW no, Emptied(z, e, no)
  PROVE  /\ IsPkt([q EXCEPT !.stamp = v], v, si, ty, sd, rd, bo, ab)
         /\ IsPkt([q EXCEPT !.body = <<>>], st, si, ty, sd, rd, e, ab)
         /\ IsPkt([q EXCEPT !.stamp = v, !.body = <<>>], v, si, ty, sd, rd, e, ab)
<1>1. q = Pkt(st, si, ty, sd, rd, bo, ab) /\ e = <<>>
  BY DEF Emptied, IsPkt
<1>2. [q EXCEPT !.stamp = v] = Pkt(v, si, ty, sd, rd, bo, ab)
  BY <1>1 DEF Pkt
<1>3. [q EXCEPT !.body = <<>>] = Pkt(st, si, ty, sd, rd, e, ab)
  BY <1>1 DEF Pkt
<1>4. [q EXCEPT !.stamp = v, !.body = <<>>] = Pkt(v, si, ty, sd, rd, e, ab)
  <2>1. [Pkt(v, si, ty, sd, rd, bo, ab) EXCEPT !.body = <<>>] = Pkt(v, si, ty, sd, rd, e, ab)
    BY <1>1 DEF Pkt
  <2> QED BY <1>2, <2>1, Zenon
<1> QED BY <1>2, <1>3, <1>4, Zenon DEF IsPkt

-----------------------------------------------------------------------------
(* Reading a chunk of a message. *)

(* The timestamp that m's chunks say is that of m, for a reader that takes *)
(* it as an absolute one or as a difference from base.                     *)
Stamped(m, ext, abs, base) ==
  /\ (m.field = Ext) <=> (ext # NULL)
  /\ ext # NULL => ext \in 0 .. Wrap - 1
  /\ ~m.drift => m.stamp = IF abs THEN Said(m.field, ext) ELSE (Said(m.field, ext) + base) % Wrap

(* k bytes of m have been read. *)
Reached(s, ch, m, ext, k) == IF k = m.size THEN Done(s, ch, m) ELSE Half(s, ch, m, ext, k)

(* Nothing has changed on other channels than ch. *)
Elsewhere(s, t, ch) ==
  /\ t.inChunk = s.inChunk
  /\ \A d \in Channels \ {ch} : /\ t.vecIn[d] = s.vecIn[d]
                                /\ t.channelTs[d] = s.channelTs[d]
                                /\ t.due[d] = s.due[d]

(* The chunk has the bytes of m after the first k, up to t. *)
NextBytes(c, m, k, t) == c.body = Part(m.id, m.size, k, t)

(* The chunk's bytes come behind the first k of m. *)
LEMMA NextBytesGrow ==
  ASSUME NEW m \in Messages, NEW c, NEW k \in Nat, NEW l \in Nat, NEW t \in Nat,
         Adds(k, l, t), t <= m.size,
         NextBytes(c, m, k, t)
  PROVE  /\ Len(c.body) = l /\ Joins(Body(m.id, k), c.body, Body(m.id, t))
         /\ Body(m.id, t) \in Seq(Nat \X Nat)
<1>1. PICK id \in Nat, n \in Nat : id = m.id /\ n = m.size
  BY DEF Messages
<1>2. t <= n
  BY <1>1
<1>3. c.body = Part(id, n, k, t)
  BY <1>1, Zenon DEF NextBytes
<1>4. Joins(Body(id, k), Part(id, n, k, t), Body(id, t)) /\ Len(Part(id, n, k, t)) = l
  BY <1>2, BodyGrows
<1>5. Body(id, t) \in Seq(Nat \X Nat)
  BY <1>1, BodyFacts, Zenon
<1> QED BY <1>1, <1>3, <1>4, <1>5, Zenon

(* A packet that has k bytes of m has t of them after the chunk. *)
LEMMA BodyIsRead ==
  ASSUME NEW m \in Messages, NEW c, NEW k \in Nat, NEW l \in Nat, NEW t \in Nat,
         Adds(k, l, t), t <= m.size,
         NEW p, Has(p, m, k), NEW base, Stamped(m, c.ext, p.abs, base), NextBytes(c, m, k, t)
  PROVE  /\ IsPkt(WithBody(c, p), Said(m.field, c.ext), m.size, m.type, p.sid, t,
                  Body(m.id, t), p.abs)
         /\ WithBody(c, p) \in Packets
         /\ Said(m.field, c.ext) \in 0 .. Wrap - 1
<1>1. /\ Len(c.body) = l /\ Joins(Body(m.id, k), c.body, Body(m.id, t))
      /\ Body(m.id, t) \in Seq(Nat \X Nat)
  BY NextBytesGrow
<1>2. m.size \in Nat /\ m.field \in 0 .. Ext /\ m.type \in Types \union {NULL}
  BY DEF Messages
<1>3. PICK v : v = Said(m.field, c.ext)
  OBVIOUS
<1>4. v \in 0 .. Wrap - 1
  BY <1>2, <1>3, Constants DEF Said, Stamped
<1>5. p = Pkt(m.field, m.size, m.type, p.sid, k, Body(m.id, k), p.abs)
  BY PacketIs, Zenon DEF Has
<1>8. k + l = t
  BY DEF Adds
<1>6. WithBody(c, p) = Pkt(v, m.size, m.type, p.sid, t, Body(m.id, t), p.abs)
  <2>1. Adds(k, Len(c.body), t)
    BY <1>1, <1>8, Zenon DEF Adds
  <2>2. PICK f, n, ty, sd, b, d, ab : /\ f = m.field /\ n = m.size /\ ty = m.type /\ sd = p.sid
                                      /\ b = Body(m.id, k) /\ d = Body(m.id, t) /\ ab = p.abs
    OBVIOUS
  <2>3. Grows(c, k, b, t, d)
    BY <1>1, <2>1, <2>2, Zenon DEF Joins, Adds, Grows
  <2>4. WithBody(c, Pkt(f, n, ty, sd, k, b, ab)) = Pkt(Said(f, c.ext), n, ty, sd, t, d, ab)
    <3>1. PICK w : w = Pkt(f, n, ty, sd, k, b, ab)
      OBVIOUS
    <3>2. IsPkt(w, f, n, ty, sd, k, b, ab)
      BY <3>1, Zenon DEF IsPkt
    <3>3. IsPkt(WithBody(c, w), Said(f, c.ext), n, ty, sd, t, d, ab)
      BY <2>3, <3>2, BodyIs, Zenon
    <3> QED BY <3>1, <3>3, Zenon DEF IsPkt
  <2> QED BY <1>3, <1>5, <2>2, <2>4, Zenon
<1>7. p.sid \in Nat \union {NULL} /\ p.abs \in BOOLEAN
  BY DEF Has, Packets
<1>9. PICK sd, ab, r, b, ty, n : /\ sd = p.sid /\ ab = p.abs /\ r = t
                                 /\ b = Body(m.id, t) /\ ty = m.type /\ n = m.size
  OBVIOUS
<1>10. Pkt(v, n, ty, sd, r, b, ab) \in Packets
  <2>1. PICK B : B = Seq(Nat \X Nat)
    OBVIOUS
  <2>2. b \in B
    BY <1>1, <1>9, <2>1, Zenon
  <2>3. Pkt(v, n, ty, sd, r, b, ab)
          \in [stamp : 0 .. Wrap - 1, size : Nat, type : Types \union {NULL},
              sid : Nat \union {NULL}, read : Nat, body : B, abs : BOOLEAN]
    BY <1>2, <1>4, <1>7, <1>9, <2>2 DEF Pkt
  <2> QED BY <2>1, <2>3, Zenon DEF Packets
<1> QED BY <1>3, <1>4, <1>6, <1>9, <1>10, Zenon DEF IsPkt

(* What is kept of m, and given of it. *)
LEMMA PacketTyped ==
  ASSUME NEW m \in Messages, NEW f \in 0 .. Wrap - 1, NEW sd \in Nat \union {NULL},
         NEW rd \in Nat, NEW b \in Seq(Nat \X Nat), NEW ab \in BOOLEAN
  PROVE  Pkt(f, m.size, m.type, sd, rd, b, ab) \in Packets
<1>1. PICK n \in Nat, ty \in Types \union {NULL} : n = m.size /\ ty = m.type
  BY DEF Messages
<1>2. PICK B : B = Seq(Nat \X Nat)
  OBVIOUS
<1>3. b \in B
  BY <1>2, Zenon
<1>4. Pkt(f, n, ty, sd, rd, b, ab)
        \in [stamp : 0 .. Wrap - 1, size : Nat, type : Types \union {NULL},
            sid : Nat \union {NULL}, read : Nat, body : B, abs : BOOLEAN]
  BY <1>3 DEF Pkt
<1> QED BY <1>1, <1>2, <1>4, Zenon DEF Packets

(* A state is made of its parts. *)
State(i, v, ts, p, d) ==
  [inChunk |-> i, vecIn |-> v, channelTs |-> ts, packet |-> p, due |-> d]

IsState(s, i, v, ts, p, d) == s = State(i, v, ts, p, d)

(* The parts of a state have their types.                                  *)
LEMMA StateTyped ==
  ASSUME NEW s \in States
  PROVE  /\ s = State(s.inChunk, s.vecIn, s.channelTs, s.packet, s.due)
         /\ s.inChunk \in Nat \ {0} /\ s.vecIn \in [Channels -> Packets \union {NULL}]
         /\ s.channelTs \in [Channels -> 0 .. Wrap - 1] /\ s.packet \in Packets
         /\ s.due \in [Channels -> Seq(Messages)]
  BY DEF States, State

(* Parts of those types make a state.                                      *)
LEMMA StateMade ==
  ASSUME NEW i \in Nat \ {0}, NEW v \in [Channels -> Packets \union {NULL}],
         NEW ts \in [Channels -> 0 .. Wrap - 1], NEW p \in Packets,
         NEW d \in [Channels -> Seq(Messages)], NEW s, IsState(s, i, v, ts, p, d)
  PROVE  s \in States
  BY DEF States, State, IsState

(* The next bytes of a message are read: the chunk fits, and the reader    *)
(* is further on, or at its end.                                           *)
LEMMA ReadStep ==
  ASSUME NEW s \in States, NEW ch \in Channels, NEW m \in Messages, NEW c,
         NEW k \in Nat, NEW l \in Nat, NEW t \in Nat, Adds(k, l, t), t <= m.size,
         NEW p, p = HeaderIn(s, c, ch), Has(p, m, k),
         Stamped(m, c.ext, p.abs, s.channelTs[ch]),
         NextBytes(c, m, k, t), s.due[ch] = <<m>>,
         IsChunk(c), DecodeChannel(c.basic) = ch, l = Min({s.inChunk, m.size - k})
  PROVE  \E u \in States : Step(s, c, u) /\ Elsewhere(s, u, ch) /\ Reached(u, ch, m, c.ext, t)
<1>1. PICK q, f, n, ty, sd, v, b, ab :
        /\ q = WithBody(c, p) /\ f = m.field /\ n = m.size /\ ty = m.type /\ sd = p.sid
        /\ v = Said(m.field, c.ext) /\ b = Body(m.id, t) /\ ab = p.abs
  OBVIOUS
<1>2. n \in Nat /\ f \in 0 .. Ext /\ ty \in Types \union {NULL} /\ m.stamp \in 0 .. Wrap - 1
  BY <1>1 DEF Messages
<1>3. sd \in Nat \union {NULL} /\ ab \in BOOLEAN /\ p.stamp = f /\ p.size = n /\ p.read = k
  BY <1>1 DEF Has, Packets
<1>4. IsPkt(q, v, n, ty, sd, t, b, ab) /\ q \in Packets /\ v \in 0 .. Wrap - 1
  <2>1. PICK base : base = s.channelTs[ch]
    OBVIOUS
  <2>2. Stamped(m, c.ext, p.abs, base)
    BY <2>1, Zenon
  <2>3. IsPkt(WithBody(c, p), Said(m.field, c.ext), m.size, m.type, p.sid, t, Body(m.id, t), p.abs)
    BY <2>2, BodyIsRead, ZenonT(60)
  <2>4. WithBody(c, p) \in Packets
    BY <2>2, BodyIsRead, ZenonT(60)
  <2>5. Said(m.field, c.ext) \in 0 .. Wrap - 1
    BY <2>2, BodyIsRead, ZenonT(60)
  <2> QED BY <1>1, <2>3, <2>4, <2>5, Zenon
<1>5. Len(c.body) = l /\ b \in Seq(Nat \X Nat)
  BY <1>1, NextBytesGrow, Zenon
<1>6. FitsIn(s, c, p)
  BY <1>1, <1>3, <1>5, Zenon DEF FitsIn, Stamped
<1>7. q.stamp = v /\ q.size = n /\ q.type = ty /\ q.sid = sd /\ q.read = t /\ q.body = b /\ q.abs = ab
  BY <1>4, SMT DEF IsPkt, Pkt
<1>8. PICK e \in BOOLEAN : e = (p.stamp = Ext)
  OBVIOUS
<1>20. PICK kept : kept = Kept(q, e)
  OBVIOUS
<1>19. PICK z, none, no : Emptied(z, none, no)
  BY Zenon DEF Emptied
<1>9. f = Again(e, v)
  BY <1>1, <1>3, <1>8, Zenon DEF Said, Again
<1>10. /\ t = n => IsPkt(kept, f, n, ty, sd, z, none, no)
       /\ t # n => IsPkt(kept, f, n, ty, sd, t, b, ab)
  BY <1>4, <1>20, <1>9, <1>19, KeptIs, Zenon
<1>11. f \in 0 .. Wrap - 1 /\ none \in Seq(Nat \X Nat) /\ z \in Nat /\ no \in BOOLEAN
  <2>1. Ext \in 1 .. Wrap - 1 /\ Wrap \in Nat
    BY Constants, Zenon
  <2>2. f \in 0 .. Wrap - 1
    BY <1>2, <2>1
  <2>3. none \in Seq(Nat \X Nat)
    BY <1>19 DEF Emptied
  <2>4. z \in Nat /\ no \in BOOLEAN
    BY <1>19 DEF Emptied
  <2> QED BY <2>2, <2>3, <2>4
<1>12. kept \in Packets
  <2>1. Pkt(f, n, ty, sd, z, none, no) \in Packets
    BY <1>1, <1>3, <1>11, PacketTyped, Zenon
  <2>2. Pkt(f, n, ty, sd, t, b, ab) \in Packets
    BY <1>1, <1>3, <1>5, <1>11, PacketTyped, Zenon
  <2> QED BY <1>10, <2>1, <2>2, Zenon DEF IsPkt
<1>13. m.sid # NULL => sd = m.sid
  BY <1>1, Zenon DEF Has
<1>14. /\ kept.stamp = f /\ kept.size = n /\ kept.type = ty /\ kept.sid = sd
       /\ t = n => kept.read = z /\ kept.body = none /\ kept.abs = no
       /\ t # n => kept.read = t /\ kept.body = b /\ kept.abs = ab
  <2>1. CASE t = n
    BY <1>10, <2>1, SMT DEF IsPkt, Pkt
  <2>2. CASE t # n
    BY <1>10, <2>2, SMT DEF IsPkt, Pkt
  <2> QED BY <2>1, <2>2
<1>15. PICK w : w = [s.vecIn EXCEPT ![ch] = kept]
  OBVIOUS
<1>16. /\ w \in [Channels -> Packets \union {NULL}] /\ w[ch] = kept
       /\ \A d \in Channels \ {ch} : w[d] = s.vecIn[d]
  BY <1>12, <1>15, StateTyped
<1>17. CASE t = n
  <2>1. PICK at, ts, du, r, g : /\ at = AbsoluteIn(s, q, ch)
                                /\ ts = [s.channelTs EXCEPT ![ch] = at]
                                /\ du = [s.due EXCEPT ![ch] = Tail(@)]
                                /\ r = [q EXCEPT !.stamp = at] /\ g = [r EXCEPT !.body = <<>>]
    OBVIOUS
  <2>2. at \in 0 .. Wrap - 1 /\ (~m.drift => at = m.stamp)
    <3>1. PICK x \in 0 .. Wrap - 1 : x = s.channelTs[ch]
      BY StateTyped
    <3>2. at = IF ab THEN v ELSE (v + x) % Wrap
      BY <1>7, <2>1, <3>1, Zenon DEF AbsoluteIn
    <3>3. ~m.drift => m.stamp = IF ab THEN v ELSE (v + x) % Wrap
      BY <1>1, <3>1, Zenon DEF Stamped
    <3>4. (v + x) % Wrap \in 0 .. Wrap - 1
      BY <1>4, Constants
    <3> QED BY <1>4, <3>2, <3>3, <3>4
  <2>3. /\ ts \in [Channels -> 0 .. Wrap - 1] /\ ts[ch] = at
        /\ \A d \in Channels \ {ch} : ts[d] = s.channelTs[d]
    BY <2>1, <2>2, StateTyped
  <2>4. /\ du \in [Channels -> Seq(Messages)] /\ du[ch] = <<>>
        /\ \A d \in Channels \ {ch} : du[d] = s.due[d]
    <3>1. Tail(<<m>>) = <<>> /\ <<>> \in Seq(Messages)
      OBVIOUS
    <3>2. s.due \in [Channels -> Seq(Messages)]
      BY StateTyped
    <3> QED BY <2>1, <3>1, <3>2
  <2>5. IsPkt(r, at, n, ty, sd, t, b, ab) /\ IsPkt(g, at, n, ty, sd, t, none, ab)
    <3>1. IsPkt(r, at, n, ty, sd, t, b, ab)
      BY <1>4, <1>19, <2>1, GivenIs, Zenon
    <3>2. IsPkt([r EXCEPT !.body = <<>>], at, n, ty, sd, t, none, ab)
      BY <1>19, <3>1, GivenIs, Zenon
    <3> QED BY <2>1, <3>1, <3>2
  <2>6. g \in Packets
    BY <1>1, <1>3, <1>11, <2>2, <2>5, PacketTyped, Zenon DEF IsPkt
  <2>7. r.stamp = at /\ r.type = ty /\ r.sid = sd /\ r.body = b
    BY <2>5, SMT DEF IsPkt, Pkt
  <2>8. Same(r, m)
    BY <1>1, <1>13, <1>17, <2>2, <2>7, Zenon DEF Same
  <2>9. PICK u : IsState(u, s.inChunk, w, ts, g, du)
    BY Zenon DEF IsState
  <2>10. /\ u.inChunk = s.inChunk /\ u.vecIn = w /\ u.channelTs = ts /\ u.packet = g /\ u.due = du
         /\ u \in States
    <3>1. u.inChunk = s.inChunk /\ u.vecIn = w /\ u.channelTs = ts /\ u.packet = g /\ u.due = du
      BY <2>9, SMT DEF IsState, State
    <3>2. s.inChunk \in Nat \ {0}
      BY StateTyped
    <3>3. u \in States
      BY <1>16, <2>3, <2>4, <2>6, <2>9, <3>2, StateMade, Zenon
    <3> QED BY <3>1, <3>3
  <2>11. Head(s.due[ch]) = m /\ s.due[ch] # <<>>
    OBVIOUS
  <2>12. Ready(q)
    BY <1>7, <1>17, Zenon DEF Ready
  <2>13. Takes(s, ch, p, q, u)
    BY <1>8, <1>20, <1>15, <2>1, <2>7, <2>8, <2>10, <2>11, <2>12, Zenon DEF Takes
  <2>14. Step(s, c, u)
    BY <1>1, <1>6, <2>13, Zenon DEF Step, ReadsChunk
  <2>15. Elsewhere(s, u, ch)
    BY <1>16, <2>3, <2>4, <2>10, Zenon DEF Elsewhere
  <2>16. Has(u.vecIn[ch], m, 0)
    <3>1. Body(m.id, 0) = <<>>
      BY DEF Body
    <3> QED BY <1>1, <1>12, <1>13, <1>14, <1>16, <1>17, <1>19, <2>10, <3>1, Zenon DEF Has, Emptied
  <2>17. Done(u, ch, m)
    BY <1>14, <1>16, <1>17, <1>19, <2>2, <2>3, <2>4, <2>10, <2>16, Zenon DEF Done, Emptied
  <2> QED BY <1>1, <1>17, <2>10, <2>14, <2>15, <2>17, Zenon DEF Reached
<1>18. CASE t # n
  <2>1. PICK g : g = [q EXCEPT !.body = <<>>]
    OBVIOUS
  <2>2. IsPkt(g, v, n, ty, sd, t, none, ab)
    BY <1>4, <1>19, <2>1, GivenIs, Zenon
  <2>3. g \in Packets
    BY <1>1, <1>3, <1>4, <1>11, <2>2, PacketTyped, Zenon DEF IsPkt
  <2>4. PICK u : IsState(u, s.inChunk, w, s.channelTs, g, s.due)
    BY Zenon DEF IsState
  <2>5. /\ u.inChunk = s.inChunk /\ u.vecIn = w /\ u.channelTs = s.channelTs /\ u.packet = g
        /\ u.due = s.due /\ u \in States
    <3>1. u.inChunk = s.inChunk /\ u.vecIn = w /\ u.channelTs = s.channelTs /\ u.packet = g /\ u.due = s.due
      BY <2>4, SMT DEF IsState, State
    <3>2. /\ s.inChunk \in Nat \ {0} /\ s.channelTs \in [Channels -> 0 .. Wrap - 1]
          /\ s.due \in [Channels -> Seq(Messages)]
      BY StateTyped
    <3>3. u \in States
      BY <1>16, <2>3, <2>4, <3>2, StateMade, Zenon
    <3> QED BY <3>1, <3>3
  <2>6. ~Ready(q)
    BY <1>7, <1>18, Zenon DEF Ready
  <2>7. s.due[ch] # <<>>
    OBVIOUS
  <2>8. Takes(s, ch, p, q, u)
    BY <1>8, <1>20, <1>15, <2>1, <2>5, <2>6, <2>7, Zenon DEF Takes
  <2>9. Step(s, c, u)
    BY <1>1, <1>6, <2>8, Zenon DEF Step, ReadsChunk
  <2>10. Elsewhere(s, u, ch)
    BY <1>16, <2>5, Zenon DEF Elsewhere
  <2>11. Has(u.vecIn[ch], m, t)
    BY <1>1, <1>12, <1>13, <1>14, <1>16, <1>18, <2>5, Zenon DEF Has
  <2>12. t \in 0 .. m.size - 1
    BY <1>1, <1>2, <1>18
  <2>13. Half(u, ch, m, c.ext, t)
    <3>1. u.vecIn[ch].abs = ab
      BY <1>14, <1>16, <1>18, <2>5, Zenon
    <3>2. s.channelTs[ch] = u.channelTs[ch] /\ u.due[ch] = <<m>>
      BY <2>5, Zenon
    <3> QED BY <1>1, <2>11, <2>12, <3>1, <3>2, Zenon DEF Half, Stamped, Said
  <2> QED BY <1>1, <1>18, <2>5, <2>9, <2>10, <2>13, Zenon DEF Reached
<1> QED BY <1>17, <1>18

-----------------------------------------------------------------------------
(* Runs of the reader. *)

(* m is sent on ch, and is due. *)
Owes(s, ch, m) == [s EXCEPT !.due = [s.due EXCEPT ![ch] = Append(s.due[ch], m)]]

(* Nothing else changes.                                                   *)
LEMMA OwesFields ==
  ASSUME NEW s \in States, NEW ch \in Channels, NEW m \in Messages, NEW t, t = Owes(s, ch, m)
  PROVE  /\ t \in States
         /\ t.inChunk = s.inChunk /\ t.vecIn = s.vecIn /\ t.channelTs = s.channelTs
         /\ t.packet = s.packet /\ t.due = [s.due EXCEPT ![ch] = Append(s.due[ch], m)]
<1>1. PICK d : d = [s.due EXCEPT ![ch] = Append(s.due[ch], m)]
  OBVIOUS
<1>2. d \in [Channels -> Seq(Messages)]
  <2>1. s.due \in [Channels -> Seq(Messages)]
    BY StateTyped
  <2>2. Append(s.due[ch], m) \in Seq(Messages)
    BY <2>1
  <2> QED BY <1>1, <2>1, <2>2
<1>3. t = [s EXCEPT !.due = d]
  BY <1>1, Zenon DEF Owes
<1>4. /\ t.inChunk = s.inChunk /\ t.vecIn = s.vecIn /\ t.channelTs = s.channelTs
      /\ t.packet = s.packet /\ t.due = d
  BY <1>3 DEF States
<1>5. IsState(t, s.inChunk, s.vecIn, s.channelTs, s.packet, d)
  BY <1>3 DEF IsState, State, States
<1>6. /\ s.inChunk \in Nat \ {0} /\ s.vecIn \in [Channels -> Packets \union {NULL}]
      /\ s.channelTs \in [Channels -> 0 .. Wrap - 1] /\ s.packet \in Packets
  BY StateTyped
<1>7. t \in States
  BY <1>2, <1>5, <1>6, StateMade, Zenon
<1> QED BY <1>1, <1>4, <1>7

(* The first of what is due, and the rest. *)
LEMMA AppendFacts ==
  ASSUME NEW S, NEW x \in Seq(S), NEW m \in S
  PROVE  /\ Append(x, m) # <<>> /\ Append(x, m) \in Seq(S)
         /\ x # <<>> => Head(Append(x, m)) = Head(x) /\ Tail(Append(x, m)) = Append(Tail(x), m)
<1>1. Append(x, m) # <<>> /\ Append(x, m) \in Seq(S)
  <2>1. Append(x, m) \in Seq(S) /\ Len(Append(x, m)) = Len(x) + 1 /\ Len(x) \in Nat
    OBVIOUS
  <2>2. Len(Append(x, m)) # 0 /\ Len(<<>>) = 0
    BY <2>1
  <2> QED BY <2>1, <2>2
<1>2. ASSUME x # <<>> PROVE Head(Append(x, m)) = Head(x) /\ Tail(Append(x, m)) = Append(Tail(x), m)
  <2>1. Head(Append(x, m)) = Head(x)
    BY <1>2
  <2>2. PICK y, z : y = Tail(Append(x, m)) /\ z = Append(Tail(x), m)
    OBVIOUS
  <2>3. Len(x) > 0 /\ Tail(x) \in Seq(S) /\ Len(Tail(x)) = Len(x) - 1
    BY <1>2
  <2>4. /\ y \in Seq(S) /\ z \in Seq(S) /\ Len(y) = Len(x) /\ Len(z) = Len(x)
    BY <2>2, <2>3
  <2>5. ASSUME NEW i \in 1 .. Len(x) PROVE y[i] = z[i]
    <3>1. Len(x) \in Nat /\ Len(Append(x, m)) = Len(x) + 1 /\ Append(x, m)[Len(x) + 1] = m
          /\ \A j \in 1 .. Len(x) : Append(x, m)[j] = x[j]
      OBVIOUS
    <3>2. y[i] = Append(x, m)[i + 1]
      BY <1>2, <2>2, <3>1
    <3>3. CASE i = Len(x)
      <4>1. z[i] = m
        BY <2>2, <2>3, <3>3
      <4> QED BY <3>1, <3>2, <3>3, <4>1
    <3>4. CASE i # Len(x)
      <4>0. PICK n \in Nat : n = Len(x) /\ Len(Tail(x)) = n - 1
        BY <2>3, <3>1, Zenon
      <4>1. i \in 1 .. Len(Tail(x)) /\ i + 1 \in 1 .. Len(x)
        <5>1. i \in 1 .. n /\ i # n
          BY <3>4, <4>0, Zenon
        <5>2. i \in 1 .. n - 1 /\ i + 1 \in 1 .. n
          BY <5>1
        <5> QED BY <4>0, <5>2, Zenon
      <4>2. z[i] = Tail(x)[i]
        BY <2>2, <2>3, <4>1
      <4>3. Tail(x)[i] = x[i + 1]
        BY <1>2, <4>1, HeadTailProperties
      <4> QED BY <3>1, <3>2, <4>1, <4>2, <4>3
    <3> QED BY <3>3, <3>4
  <2>6. y = z
    BY <2>4, <2>5, SeqEqual
  <2> QED BY <2>1, <2>2, <2>6
<1> QED BY <1>1, <1>2

(* What a chunk does to the reader does not depend on what is sent later.  *)
LEMMA OwesStep ==
  ASSUME NEW s \in States, NEW u \in States, NEW c, Step(s, c, u), NEW ch \in Channels, NEW m \in Messages
  PROVE  Step(Owes(s, ch, m), c, Owes(u, ch, m))
<1>1. PICK s2, u2 : s2 = Owes(s, ch, m) /\ u2 = Owes(u, ch, m)
  OBVIOUS
<1>2. /\ s2 \in States /\ s2.inChunk = s.inChunk /\ s2.vecIn = s.vecIn /\ s2.channelTs = s.channelTs
      /\ s2.packet = s.packet /\ s2.due = [s.due EXCEPT ![ch] = Append(s.due[ch], m)]
  BY <1>1, OwesFields
<1>3. /\ u2 \in States /\ u2.inChunk = u.inChunk /\ u2.vecIn = u.vecIn /\ u2.channelTs = u.channelTs
      /\ u2.packet = u.packet /\ u2.due = [u.due EXCEPT ![ch] = Append(u.due[ch], m)]
  BY <1>1, OwesFields
<1>4. /\ s.due \in [Channels -> Seq(Messages)] /\ u.due \in [Channels -> Seq(Messages)]
      /\ s2.due \in [Channels -> Seq(Messages)] /\ u2.due \in [Channels -> Seq(Messages)]
  BY <1>2, <1>3, StateTyped
<1>5. CASE ReadsChunk(s, c, u)
  <2>1. PICK d, p, q : d = DecodeChannel(c.basic) /\ p = HeaderIn(s, c, d) /\ q = WithBody(c, p)
    OBVIOUS
  <2>2. IsChunk(c) /\ d \in Channels /\ FitsIn(s, c, p) /\ Takes(s, d, p, q, u)
    BY <1>5, <2>1, Zenon DEF ReadsChunk
  <2>3. HeaderIn(s2, c, d) = p
    BY <1>2, <2>1, Zenon DEF HeaderIn
  <2>4. FitsIn(s2, c, p)
    BY <1>2, <2>2, Zenon DEF FitsIn
  <2>5. s.due[d] # <<>>
    BY <2>2, Zenon DEF Takes
  <2>6. /\ s2.due[d] # <<>> /\ Head(s2.due[d]) = Head(s.due[d])
        /\ u.due = [s.due EXCEPT ![d] = Tail(s.due[d])] =>
             u2.due = [s2.due EXCEPT ![d] = Tail(s2.due[d])]
        /\ u.due = s.due => u2.due = s2.due
    <3>0. /\ Append(s.due[ch], m) # <<>>
          /\ s.due[ch] # <<>> => /\ Head(Append(s.due[ch], m)) = Head(s.due[ch])
                                 /\ Tail(Append(s.due[ch], m)) = Append(Tail(s.due[ch]), m)
      <4>1. s.due[ch] \in Seq(Messages)
        BY <1>4
      <4> QED BY <4>1, AppendFacts
    <3>1. s2.due[d] # <<>> /\ Head(s2.due[d]) = Head(s.due[d])
      BY <1>2, <1>4, <2>2, <2>5, <3>0
    <3>2. ASSUME u.due = [s.due EXCEPT ![d] = Tail(s.due[d])]
          PROVE  u2.due = [s2.due EXCEPT ![d] = Tail(s2.due[d])]
      <4>1. PICK f : f = [s2.due EXCEPT ![d] = Tail(s2.due[d])]
        OBVIOUS
      <4>2. f = [e \in Channels |-> f[e]] /\ u2.due = [e \in Channels |-> u2.due[e]]
        BY <1>4, <4>1
      <4>3. ASSUME NEW e \in Channels PROVE f[e] = u2.due[e]
        <5>1. CASE e # ch
          <6>1. f[e] = IF e = d THEN Tail(s2.due[d]) ELSE s2.due[e]
            BY <1>4, <4>1
          <6>2. s2.due[e] = s.due[e] /\ u2.due[e] = u.due[e]
            BY <1>2, <1>3, <1>4, <5>1
          <6>3. u.due[e] = IF e = d THEN Tail(s.due[d]) ELSE s.due[e]
            BY <1>4, <3>2
          <6>4. e = d => s2.due[d] = s.due[d]
            BY <6>2
          <6> QED BY <6>1, <6>2, <6>3, <6>4, Zenon
        <5>2. CASE e = ch /\ d = ch
          <6>1. f[e] = Tail(Append(s.due[ch], m))
            BY <1>2, <1>4, <4>1, <5>2
          <6>2. u2.due[e] = Append(Tail(s.due[ch]), m)
            BY <1>3, <1>4, <3>2, <5>2
          <6> QED BY <2>5, <3>0, <5>2, <6>1, <6>2
        <5>3. CASE e = ch /\ d # ch
          <6>1. f[e] = s2.due[ch] /\ s2.due[ch] = Append(s.due[ch], m)
            BY <1>2, <1>4, <4>1, <5>3
          <6>2. u.due[ch] = s.due[ch]
            BY <1>4, <3>2, <5>3
          <6>3. u2.due[e] = Append(u.due[ch], m)
            BY <1>3, <1>4, <5>3
          <6> QED BY <6>1, <6>2, <6>3
        <5> QED BY <5>1, <5>2, <5>3
      <4>4. f = u2.due
        BY <4>2, <4>3, Zenon
      <4> QED BY <4>1, <4>4
    <3>3. u.due = s.due => u2.due = s2.due
      BY <1>2, <1>3, Zenon
    <3> QED BY <3>1, <3>2, <3>3
  <2>7. AbsoluteIn(s2, q, d) = AbsoluteIn(s, q, d)
    BY <1>2, Zenon DEF AbsoluteIn
  <2>8. Takes(s2, d, p, q, u2)
    BY <1>2, <1>3, <2>2, <2>6, <2>7, Zenon DEF Takes
  <2> QED BY <1>1, <2>1, <2>2, <2>3, <2>4, <2>8, Zenon DEF Step, ReadsChunk
<1>6. CASE ReadsSize(s, c, u)
  <2>1. IsSize(c) /\ u = [s EXCEPT !.inChunk = c.chunkSize]
    BY <1>6, Zenon DEF ReadsSize
  <2>2. u.due = s.due
    BY <2>1 DEF States
  <2>3. PICK d : d = [s.due EXCEPT ![ch] = Append(s.due[ch], m)]
    OBVIOUS
  <2>4. s2 = [s EXCEPT !.due = d] /\ u2 = [u EXCEPT !.due = d]
    BY <1>1, <2>2, <2>3, Zenon DEF Owes
  <2>5. u2 = [s2 EXCEPT !.inChunk = c.chunkSize]
    BY <2>1, <2>4 DEF States
  <2> QED BY <1>1, <2>1, <2>5, Zenon DEF Step, ReadsSize
<1> QED BY <1>5, <1>6, Zenon DEF Step

(* Nor does it depend on that whether it is stuck. *)
LEMMA OwesStuck ==
  ASSUME NEW s \in States, NEW c, Stuck(s, c), NEW ch \in Channels, NEW m \in Messages
  PROVE  Stuck(Owes(s, ch, m), c)
<1>1. PICK s2, d : s2 = Owes(s, ch, m) /\ d = DecodeChannel(c.basic)
  OBVIOUS
<1>2. /\ s2 \in States /\ s2.inChunk = s.inChunk /\ s2.vecIn = s.vecIn /\ s2.channelTs = s.channelTs
      /\ s2.packet = s.packet /\ s2.due = [s.due EXCEPT ![ch] = Append(s.due[ch], m)]
  BY <1>1, OwesFields
<1>3. HeaderIn(s2, c, d) = HeaderIn(s, c, d)
  BY <1>2, Zenon DEF HeaderIn
<1>4. FitsIn(s2, c, HeaderIn(s, c, d)) <=> FitsIn(s, c, HeaderIn(s, c, d))
  BY <1>2, Zenon DEF FitsIn
<1> QED BY <1>1, <1>3, <1>4, Zenon DEF Stuck

(* What has been sent is a part of what has been sent later. *)
Sooner(w, v) == Len(w) <= Len(v) /\ \A i \in 1 .. Len(w) : v[i] = w[i]

(* A run over the wire is one over a wire that has got longer.             *)
LEMMA LongerWire ==
  ASSUME NEW S, NEW w \in Seq(S), NEW T, NEW v \in Seq(T), Sooner(w, v),
         NEW run, NEW from, Leads(run, from, w)
  PROVE  Leads(run, from, v)
<1>1. /\ run \in Seq(States) /\ Len(run) \in 1 .. Len(w) + 1 /\ run[1] = from
      /\ \A i \in 1 .. Len(run) - 1 : Step(run[i], w[i], run[i + 1])
  BY Zenon DEF Leads
<1>2. Len(w) \in Nat /\ Len(v) \in Nat /\ Len(run) \in Nat /\ Len(w) <= Len(v)
      /\ \A i \in 1 .. Len(w) : v[i] = w[i]
  BY <1>1 DEF Sooner
<1>3. Len(run) \in 1 .. Len(v) + 1
  BY <1>1, <1>2
<1>4. ASSUME NEW i \in 1 .. Len(run) - 1 PROVE Step(run[i], v[i], run[i + 1])
  <2>1. i \in 1 .. Len(w)
    BY <1>1, <1>2
  <2>2. Step(run[i], w[i], run[i + 1])
    BY <1>1, Zenon
  <2> QED BY <1>2, <2>1, <2>2, Zenon
<1> QED BY <1>1, <1>3, <1>4, Zenon DEF Leads

(* A run goes on with the next chunk. *)
LEMMA LongerRun ==
  ASSUME NEW S, NEW w \in Seq(S), NEW run, NEW from, Leads(run, from, w), Len(run) <= Len(w),
         NEW u \in States, Step(run[Len(run)], w[Len(run)], u)
  PROVE  /\ Leads(Append(run, u), from, w)
         /\ Len(Append(run, u)) = Len(run) + 1
         /\ Append(run, u)[Len(run) + 1] = u
<1>1. /\ run \in Seq(States) /\ Len(run) \in 1 .. Len(w) + 1 /\ run[1] = from
      /\ \A i \in 1 .. Len(run) - 1 : Step(run[i], w[i], run[i + 1])
  BY Zenon DEF Leads
<1>2. PICK r : r = Append(run, u)
  OBVIOUS
<1>3. /\ r \in Seq(States) /\ Len(r) = Len(run) + 1 /\ r[Len(run) + 1] = u
      /\ \A i \in 1 .. Len(run) : r[i] = run[i]
  BY <1>1, <1>2
<1>4. Len(r) \in 1 .. Len(w) + 1 /\ r[1] = from
  BY <1>1, <1>3
<1>5. ASSUME NEW i \in 1 .. Len(r) - 1 PROVE Step(r[i], w[i], r[i + 1])
  <2>1. CASE i = Len(run)
    <3>1. r[i] = run[i] /\ r[i + 1] = u
      BY <1>1, <1>3, <2>1
    <3> QED BY <2>1, <3>1, Zenon
  <2>2. CASE i # Len(run)
    <3>1. i \in 1 .. Len(run) - 1 /\ i + 1 \in 1 .. Len(run) /\ i \in 1 .. Len(run)
      BY <1>1, <1>3, <2>2
    <3> QED BY <1>1, <1>3, <3>1, Zenon
  <2> QED BY <2>1, <2>2
<1> QED BY <1>2, <1>3, <1>4, <1>5, Zenon DEF Leads

(* The states of a run when m is due. *)
OwesAll(run, ch, m) == [i \in 1 .. Len(run) |-> Owes(run[i], ch, m)]

(* They are a run.                                                         *)
LEMMA OwesRun ==
  ASSUME NEW run, NEW from, NEW w, Leads(run, from, w), NEW ch \in Channels, NEW m \in Messages
  PROVE  /\ Leads(OwesAll(run, ch, m), Owes(from, ch, m), w)
         /\ Len(OwesAll(run, ch, m)) = Len(run)
         /\ \A i \in 1 .. Len(run) : OwesAll(run, ch, m)[i] = Owes(run[i], ch, m)
<1>1. /\ run \in Seq(States) /\ Len(run) \in 1 .. Len(w) + 1 /\ run[1] = from
      /\ \A i \in 1 .. Len(run) - 1 : Step(run[i], w[i], run[i + 1])
  BY Zenon DEF Leads
<1>2. PICK n \in Nat : n = Len(run)
  BY <1>1
<1>3. \A i \in 1 .. n : run[i] \in States
  BY <1>1, <1>2
<1>4. \A i \in 1 .. n : Owes(run[i], ch, m) \in States
  BY <1>3, OwesFields
<1>5. PICK r : r = OwesAll(run, ch, m)
  OBVIOUS
<1>6. /\ r \in Seq(States) /\ Len(r) = n /\ \A i \in 1 .. n : r[i] = Owes(run[i], ch, m)
  <2>1. r = [i \in 1 .. n |-> Owes(run[i], ch, m)]
    BY <1>2, <1>5, Zenon DEF OwesAll
  <2> QED BY <1>4, <2>1
<1>7. ASSUME NEW i \in 1 .. n - 1 PROVE Step(r[i], w[i], r[i + 1])
  <2>1. i \in 1 .. n /\ i + 1 \in 1 .. n
    OBVIOUS
  <2>2. Step(run[i], w[i], run[i + 1])
    BY <1>1, <1>2, Zenon
  <2>3. r[i] = Owes(run[i], ch, m) /\ r[i + 1] = Owes(run[i + 1], ch, m)
    BY <1>6, <2>1, Zenon
  <2>4. run[i] \in States /\ run[i + 1] \in States
    BY <1>3, <2>1, Zenon
  <2>5. Step(Owes(run[i], ch, m), w[i], Owes(run[i + 1], ch, m))
    BY <2>2, <2>4, OwesStep, Zenon
  <2> QED BY <2>3, <2>5, Zenon
<1>8. 1 \in 1 .. n
  BY <1>1, <1>2
<1>9. r[1] = Owes(from, ch, m)
  BY <1>1, <1>6, <1>8, Zenon
<1>10. Leads(r, Owes(from, ch, m), w)
  BY <1>1, <1>2, <1>6, <1>7, <1>9, Zenon DEF Leads
<1> QED BY <1>2, <1>5, <1>6, <1>10, Zenon

(* When the first chunk has been read, the rest of the run is left.        *)
LEMMA RunGoesOn ==
  ASSUME NEW S, NEW w \in Seq(S), w # <<>>, NEW run, NEW from, Leads(run, from, w), Len(run) # 1
  PROVE  /\ Step(from, Head(w), run[2]) /\ run[2] \in States
         /\ Leads(Tail(run), run[2], Tail(w))
         /\ Len(Tail(run)) = Len(run) - 1 /\ Len(Tail(w)) = Len(w) - 1
         /\ Tail(run)[Len(run) - 1] = run[Len(run)]
         /\ Len(run) <= Len(w) => Tail(w)[Len(run) - 1] = w[Len(run)]
<1>1. /\ run \in Seq(States) /\ Len(run) \in 1 .. Len(w) + 1 /\ run[1] = from
      /\ \A i \in 1 .. Len(run) - 1 : Step(run[i], w[i], run[i + 1])
  BY Zenon DEF Leads
<1>2. Len(run) \in Nat /\ Len(run) >= 2 /\ Len(w) \in Nat /\ Len(w) > 0
  <2>1. Len(run) \in Nat /\ Len(w) \in Nat
    BY <1>1
  <2>2. Len(w) > 0
    BY <2>1, EmptySeq
  <2>3. Len(run) \in 1 .. Len(w) + 1
    BY <1>1, Zenon
  <2>4. PICK k \in Nat : k = Len(run)
    BY <2>1, Zenon
  <2>5. k >= 2
    <3>1. k >= 1
      BY <2>1, <2>3, <2>4
    <3>2. k # 1
      BY <2>4, Zenon
    <3> QED BY <3>1, <3>2
  <2> QED BY <2>1, <2>2, <2>4, <2>5
<1>3. PICK r, v : r = Tail(run) /\ v = Tail(w)
  OBVIOUS
<1>4. /\ r \in Seq(States) /\ Len(r) = Len(run) - 1 /\ v \in Seq(S) /\ Len(v) = Len(w) - 1
      /\ \A i \in 1 .. Len(r) : r[i] = run[i + 1]
      /\ \A i \in 1 .. Len(v) : v[i] = w[i + 1]
  BY <1>1, <1>2, <1>3
<1>5. Step(from, Head(w), run[2]) /\ run[2] \in States
  <2>1. 1 \in 1 .. Len(run) - 1 /\ Head(w) = w[1] /\ 1 + 1 = 2
    BY <1>2
  <2>2. Step(run[1], w[1], run[1 + 1])
    BY <1>1, <2>1, Zenon
  <2> QED BY <1>1, <1>2, <2>1, <2>2
<1>6. Len(r) \in 1 .. Len(v) + 1 /\ r[1] = run[2]
  BY <1>1, <1>2, <1>4
<1>7. ASSUME NEW i \in 1 .. Len(r) - 1 PROVE Step(r[i], v[i], r[i + 1])
  <2>1. PICK j \in 1 .. Len(run) - 1 : j = i + 1
    BY <1>2, <1>4
  <2>2. r[i] = run[j] /\ v[i] = w[j] /\ r[i + 1] = run[j + 1]
    <3>1. i \in 1 .. Len(r) /\ i \in 1 .. Len(v) /\ i + 1 \in 1 .. Len(r)
      BY <1>1, <1>2, <1>4
    <3> QED BY <1>4, <2>1, <3>1
  <2>3. Step(run[j], w[j], run[j + 1])
    BY <1>1, Zenon
  <2> QED BY <2>2, <2>3, Zenon
<1>8. Leads(r, run[2], v)
  BY <1>4, <1>6, <1>7, Zenon DEF Leads
<1>9. r[Len(run) - 1] = run[Len(run)] /\ (Len(run) <= Len(w) => v[Len(run) - 1] = w[Len(run)])
  BY <1>2, <1>4
<1> QED BY <1>3, <1>4, <1>5, <1>8, <1>9

-----------------------------------------------------------------------------
(* The chunks of a message. *)

(* A chunk goes to the channel it is written for. *)
Goes(c, ch) == IsChunk(c) /\ DecodeChannel(c.basic) = ch

(* A first chunk of m with header type form.                               *)
IsFirst(c, m, form, delta) ==
  /\ c.form = form
  /\ form <= SMALL => c.stamp = Min({delta, Ext})
  /\ form <= MEDIUM => c.size = m.size /\ c.type = m.type
  /\ form = LARGE => c.sid = m.sid
  /\ c.ext = IF form <= SMALL /\ delta >= Ext THEN delta ELSE NULL

(* The reader decodes the channel that the writer encoded.                 *)
LEMMA ChannelKept ==
  ASSUME NEW ch \in Channels
  PROVE  DecodeChannel(EncodeChannel(ch)) = ch
<1>1. ch \in 2 .. LastChannel
  BY ChunksAssumption, Zenon
<1> QED BY <1>1, DecodesWhatWasEncoded

(* What FirstChunk and NextChunk make. *)
LEMMA FirstIs ==
  ASSUME NEW m, NEW form, NEW delta, NEW body, NEW ch \in Channels, m.channel = ch,
         NEW c, c = FirstChunk(m, form, delta, body)
  PROVE  /\ IsFirst(c, m, form, delta) /\ Goes(c, ch) /\ c.body = body
<1>1. PICK v1, v2, v3, v4, v5, v6 :
        /\ v1 = EncodeChannel(m.channel)
        /\ v2 = IF form <= SMALL THEN Min({delta, Ext}) ELSE NULL
        /\ v3 = IF form <= MEDIUM THEN m.size ELSE NULL
        /\ v4 = IF form <= MEDIUM THEN m.type ELSE NULL
        /\ v5 = IF form = LARGE THEN m.sid ELSE NULL
        /\ v6 = IF form <= SMALL /\ delta >= Ext THEN delta ELSE NULL
  OBVIOUS
<1>2. c = [form |-> form, basic |-> v1, stamp |-> v2, size |-> v3, type |-> v4, sid |-> v5,
           ext |-> v6, body |-> body]
  BY <1>1, Zenon DEF FirstChunk
<1>3. /\ c.form = form /\ c.basic = v1 /\ c.stamp = v2 /\ c.size = v3 /\ c.type = v4 /\ c.sid = v5
      /\ c.ext = v6 /\ c.body = body
      /\ "basic" \in DOMAIN c /\ "chunkSize" \notin DOMAIN c
  BY <1>2
<1>4. IsFirst(c, m, form, delta)
  BY <1>1, <1>3, Zenon DEF IsFirst
<1>5. Goes(c, ch)
  BY <1>1, <1>3, ChannelKept, Zenon DEF Goes, IsChunk
<1> QED BY <1>3, <1>4, <1>5

(* A later chunk has no header of its own.                                 *)
LEMMA NextIs ==
  ASSUME NEW m, NEW ext, NEW body, NEW ch \in Channels, m.channel = ch,
         NEW c, c = NextChunk(m, ext, body)
  PROVE  /\ c.form = MINIMUM /\ c.ext = ext /\ c.body = body /\ Goes(c, ch)
<1>1. PICK v1 : v1 = EncodeChannel(m.channel)
  OBVIOUS
<1>2. c = [form |-> MINIMUM, basic |-> v1, stamp |-> NULL, size |-> NULL, type |-> NULL, sid |-> NULL,
           ext |-> ext, body |-> body]
  BY <1>1, Zenon DEF NextChunk
<1>3. /\ c.form = MINIMUM /\ c.basic = v1 /\ c.ext = ext /\ c.body = body
      /\ "basic" \in DOMAIN c /\ "chunkSize" \notin DOMAIN c
  BY <1>2
<1>4. Goes(c, ch)
  BY <1>1, <1>3, ChannelKept, Zenon DEF Goes, IsChunk
<1> QED BY <1>3, <1>4

(* The message that came before m on the channel, if there was one, is     *)
(* known to the reader.                                                    *)
Before(s, ch, prev) ==
  /\ prev = NULL => s.vecIn[ch] = NULL /\ s.channelTs[ch] = 0
  /\ prev # NULL => /\ Has(s.vecIn[ch], prev, 0) /\ ~s.vecIn[ch].abs
                    /\ ~prev.drift => s.channelTs[ch] = prev.stamp

(* The header of type form says what m is after prev. *)
Shortens(prev, m, form, delta) ==
  /\ form \in LARGE .. MINIMUM /\ delta \in 0 .. Wrap - 1
  /\ m.field = IF form = MINIMUM THEN prev.field ELSE Min({delta, Ext})
  /\ form = LARGE \/ prev = NULL => delta = m.stamp
  /\ prev = NULL => form <= MEDIUM /\ (form # LARGE => m.sid = NULL)
  /\ prev # NULL /\ form # LARGE =>
       /\ (delta + prev.stamp) % Wrap = m.stamp
       /\ m.sid = prev.sid
       /\ ~m.drift => ~prev.drift
       /\ form >= SMALL => m.size = prev.size /\ m.type = prev.type
       /\ form = MINIMUM /\ ~m.drift => prev.field = delta

(* The field announces the extended timestamp that the chunk has. *)
Announced(m, ext) == (m.field = Ext) <=> (ext # NULL)

(* The packet a header is put on: the caller's, or the channel's.          *)
LEMMA HeaderBase ==
  ASSUME NEW s \in States, NEW ch \in Channels, NEW c,
         NEW prev \in Messages \union {NULL}, Before(s, ch, prev)
  PROVE  \E x \in Packets :
           /\ HeaderIn(s, c, ch) = WithHeader(c, x)
           /\ c.form = LARGE => x.abs = TRUE
           /\ c.form # LARGE /\ prev # NULL => Has(x, prev, 0) /\ ~x.abs
<1>1. s.packet \in Packets /\ s.vecIn[ch] \in Packets \union {NULL}
  BY StateTyped
<1>2. CASE c.form = LARGE
  <2>1. PICK x : x = [s.packet EXCEPT !.abs = TRUE]
    OBVIOUS
  <2>2. x \in Packets /\ x.abs = TRUE
    BY <1>1, <2>1 DEF Packets
  <2>3. HeaderIn(s, c, ch) = WithHeader(c, x)
    BY <1>2, <2>1, Zenon DEF HeaderIn
  <2> QED BY <1>2, <2>2, <2>3, Zenon
<1>3. CASE c.form # LARGE /\ s.vecIn[ch] # NULL
  <2>1. HeaderIn(s, c, ch) = WithHeader(c, s.vecIn[ch])
    BY <1>3, Zenon DEF HeaderIn
  <2>2. prev # NULL => Has(s.vecIn[ch], prev, 0) /\ ~s.vecIn[ch].abs
    BY Zenon DEF Before
  <2> QED BY <1>1, <1>3, <2>1, <2>2, Zenon
<1>4. CASE c.form # LARGE /\ s.vecIn[ch] = NULL
  <2>1. HeaderIn(s, c, ch) = WithHeader(c, s.packet)
    BY <1>4, Zenon DEF HeaderIn
  <2>2. prev = NULL
    <3>1. prev # NULL => s.vecIn[ch] \in Packets
      BY Zenon DEF Before, Has
    <3> QED BY <1>4, <3>1, Constants, Zenon
  <2> QED BY <1>1, <1>4, <2>1, <2>2, Zenon
<1> QED BY <1>2, <1>3, <1>4

(* The reader understands the header as the writer meant it.               *)
LEMMA FirstHeader ==
  ASSUME NEW s \in States, NEW ch \in Channels, NEW m \in Messages,
         NEW prev \in Messages \union {NULL}, Before(s, ch, prev),
         NEW form, NEW delta, Shortens(prev, m, form, delta),
         NEW c, IsFirst(c, m, form, delta), NEW p, p = HeaderIn(s, c, ch)
  PROVE  /\ Has(p, m, 0)
         /\ Announced(m, c.ext) => Stamped(m, c.ext, p.abs, s.channelTs[ch])
         /\ form # MINIMUM => Announced(m, c.ext)
<1>1. PICK x \in Packets :
        /\ p = WithHeader(c, x)
        /\ c.form = LARGE => x.abs = TRUE
        /\ c.form # LARGE /\ prev # NULL => Has(x, prev, 0) /\ ~x.abs
  BY HeaderBase, Zenon
<1>2. /\ c.form = form
      /\ form <= SMALL => c.stamp = Min({delta, Ext})
      /\ form <= MEDIUM => c.size = m.size /\ c.type = m.type
      /\ form = LARGE => c.sid = m.sid
      /\ c.ext = IF form <= SMALL /\ delta >= Ext THEN delta ELSE NULL
  BY Zenon DEF IsFirst
<1>3. PICK st, si, ty, sd, rd, bo, ab :
        /\ st = x.stamp /\ si = x.size /\ ty = x.type /\ sd = x.sid /\ rd = x.read /\ bo = x.body
        /\ ab = x.abs
  OBVIOUS
<1>4. IsPkt(x, st, si, ty, sd, rd, bo, ab)
  BY <1>3, PacketIs, Zenon DEF IsPkt
<1>5. PICK v1, v2, v3, v4, v5, v6 : HeaderFields(c, st, si, ty, sd, rd, bo, v1, v2, v3, v4, v5, v6)
  BY Zenon DEF HeaderFields
<1>6. IsPkt(p, v1, v2, v3, v4, v5, v6, ab)
  BY <1>1, <1>4, <1>5, HeaderIs, Zenon
<1>7. /\ p.stamp = v1 /\ p.size = v2 /\ p.type = v3 /\ p.sid = v4 /\ p.read = v5 /\ p.body = v6
      /\ p.abs = ab
  BY <1>6, SMT DEF IsPkt, Pkt
<1>8. /\ v1 = IF form <= SMALL THEN c.stamp ELSE st
      /\ v2 = IF form <= MEDIUM THEN c.size ELSE si
      /\ v3 = IF form <= MEDIUM THEN c.type ELSE ty
      /\ v4 = IF form = LARGE THEN c.sid ELSE sd
      /\ v5 = IF form <= MEDIUM THEN 0 ELSE rd
      /\ v6 = IF form <= MEDIUM THEN <<>> ELSE bo
  BY <1>2, <1>5, Zenon DEF HeaderFields
<1>9. /\ form \in LARGE .. MINIMUM /\ delta \in 0 .. Wrap - 1
      /\ m.field = IF form = MINIMUM THEN prev.field ELSE Min({delta, Ext})
      /\ form = LARGE \/ prev = NULL => delta = m.stamp
      /\ prev = NULL => form <= MEDIUM /\ (form # LARGE => m.sid = NULL)
      /\ prev # NULL /\ form # LARGE =>
           /\ (delta + prev.stamp) % Wrap = m.stamp
           /\ m.sid = prev.sid
           /\ ~m.drift => ~prev.drift
           /\ form >= SMALL => m.size = prev.size /\ m.type = prev.type
           /\ form = MINIMUM /\ ~m.drift => prev.field = delta
  BY Zenon DEF Shortens
<1>10. form \in 0 .. 3 /\ LARGE = 0 /\ MEDIUM = 1 /\ SMALL = 2 /\ MINIMUM = 3
  BY <1>9 DEF LARGE, MEDIUM, SMALL, MINIMUM
<1>11. /\ prev # NULL /\ form # LARGE =>
            /\ st = prev.field /\ si = prev.size /\ ty = prev.type /\ (prev.sid # NULL => sd = prev.sid)
            /\ rd = 0 /\ bo = Body(prev.id, 0) /\ ab = FALSE
  <2>1. x.abs \in BOOLEAN
    BY DEF Packets
  <2> QED BY <1>1, <1>2, <1>3, <2>1, Zenon DEF Has
<1>12. \A id : Body(id, 0) = <<>>
  BY DEF Body
<1>13. /\ Wrap \in Nat /\ Ext \in 1 .. Wrap - 1 /\ NULL \notin Nat
  BY Constants
<1>14. Min({delta, Ext}) = IF delta <= Ext THEN delta ELSE Ext
  <2>1. delta \in Int /\ Ext \in Int
    BY <1>9, <1>13
  <2> QED BY <2>1, MinOf
<1>15. m.stamp \in 0 .. Wrap - 1 /\ m.size \in Nat /\ m.type \in Types \union {NULL}
       /\ m.sid \in Nat \union {NULL} /\ m.field \in 0 .. Ext
  BY DEF Messages
<1>16. /\ v1 = m.field /\ v2 = m.size /\ v3 = m.type /\ (m.sid # NULL => v4 = m.sid)
       /\ v5 = 0 /\ v6 = <<>>
  <2>1. CASE form = 3
    BY <1>8, <1>9, <1>10, <1>11, <1>12, <2>1
  <2>2. CASE form = 2
    BY <1>2, <1>8, <1>9, <1>10, <1>11, <1>12, <2>2
  <2>3. CASE form = 1
    BY <1>2, <1>8, <1>9, <1>10, <1>11, <2>3
  <2>4. CASE form = 0
    BY <1>2, <1>8, <1>9, <1>10, <2>4
  <2> QED BY <1>10, <2>1, <2>2, <2>3, <2>4
<1>17. p \in Packets
  <2>1. x.sid \in Nat \union {NULL} /\ x.abs \in BOOLEAN
    BY DEF Packets
  <2>2. v4 \in Nat \union {NULL} /\ ab \in BOOLEAN
    <3>1. form = LARGE => v4 = m.sid
      BY <1>2, <1>8, Zenon
    <3>2. form # LARGE => v4 = x.sid
      BY <1>3, <1>8, Zenon
    <3> QED BY <1>3, <1>15, <2>1, <3>1, <3>2
  <2>3. v1 \in 0 .. Wrap - 1
    BY <1>13, <1>15, <1>16
  <2>4. v5 \in Nat /\ v6 \in Seq(Nat \X Nat)
    BY <1>16
  <2>5. Pkt(v1, m.size, m.type, v4, v5, v6, ab) \in Packets
    BY <2>2, <2>3, <2>4, PacketTyped, Zenon
  <2> QED BY <1>6, <1>16, <2>5, Zenon DEF IsPkt
<1>18. Has(p, m, 0)
  BY <1>7, <1>12, <1>16, <1>17, Zenon DEF Has
<1>19. form # MINIMUM => Announced(m, c.ext)
  <2> SUFFICES ASSUME form # MINIMUM PROVE Announced(m, c.ext)
    OBVIOUS
  <2>1. c.ext = IF delta >= Ext THEN delta ELSE NULL
    BY <1>2, <1>10
  <2>2. m.field = IF delta <= Ext THEN delta ELSE Ext
    BY <1>9, <1>14
  <2>3. (m.field = Ext) <=> delta >= Ext
    BY <1>9, <1>13, <2>2
  <2>4. delta # NULL
    BY <1>9, <1>13
  <2> QED BY <2>1, <2>3, <2>4, Zenon DEF Announced
<1>20. ASSUME Announced(m, c.ext) PROVE Stamped(m, c.ext, p.abs, s.channelTs[ch])
  <2>1. c.ext # NULL => c.ext \in 0 .. Wrap - 1
    BY <1>2, <1>9
  <2>2. PICK at \in 0 .. Wrap - 1 : at = s.channelTs[ch]
    BY StateTyped
  <2>3. ASSUME ~m.drift
        PROVE  m.stamp = IF ab THEN Said(m.field, c.ext) ELSE (Said(m.field, c.ext) + at) % Wrap
    <3>1. Said(m.field, c.ext) = delta
      <4>1. CASE form = MINIMUM
        <5>1. c.ext = NULL
          BY <1>2, <1>10, <4>1
        <5>2. m.field # Ext
          BY <1>20, <5>1, Zenon DEF Announced
        <5>3. prev # NULL
          BY <1>9, <1>10, <4>1
        <5>4. m.field = delta
          BY <1>9, <1>10, <2>3, <4>1, <5>3
        <5> QED BY <5>2, <5>4, Zenon DEF Said
      <4>2. CASE form # MINIMUM
        <5>1. c.ext = IF delta >= Ext THEN delta ELSE NULL
          BY <1>2, <1>10, <4>2
        <5>2. m.field = IF delta <= Ext THEN delta ELSE Ext
          BY <1>9, <1>14, <4>2
        <5> QED BY <1>9, <1>13, <5>1, <5>2 DEF Said
      <4> QED BY <4>1, <4>2
    <3>2. CASE form = LARGE
      <4>1. ab = TRUE /\ delta = m.stamp
        BY <1>1, <1>2, <1>3, <1>9, <3>2, Zenon
      <4> QED BY <3>1, <4>1
    <3>3. CASE form # LARGE /\ prev = NULL
      <4>1. at = 0 /\ delta = m.stamp
        BY <1>9, <2>2, <3>3, Zenon DEF Before
      <4>2. (delta + at) % Wrap = delta
        BY <1>9, <1>13, <4>1
      <4> QED BY <3>1, <4>1, <4>2
    <3>4. CASE form # LARGE /\ prev # NULL
      <4>1. ab = FALSE /\ ~prev.drift
        BY <1>9, <1>11, <2>3, <3>4
      <4>2. at = prev.stamp
        BY <2>2, <3>4, <4>1, Zenon DEF Before
      <4>3. (delta + prev.stamp) % Wrap = m.stamp
        BY <1>9, <3>4, Zenon
      <4> QED BY <3>1, <4>1, <4>2, <4>3
    <3> QED BY <3>2, <3>3, <3>4
  <2> QED BY <1>7, <1>20, <2>1, <2>2, <2>3, Zenon DEF Stamped, Announced
<1> QED BY <1>18, <1>19, <1>20

(* A first chunk is read, or the reader is stuck: without the extended     *)
(* timestamp it asks for, or with another chunk size.                      *)
LEMMA FirstRead ==
  ASSUME NEW s \in States, NEW ch \in Channels, NEW m \in Messages,
         NEW prev \in Messages \union {NULL}, Before(s, ch, prev), s.due[ch] = <<m>>,
         NEW form, NEW delta, Shortens(prev, m, form, delta),
         NEW c, IsFirst(c, m, form, delta), Goes(c, ch),
         NEW l \in Nat, l <= m.size, NextBytes(c, m, 0, l)
  PROVE  \/ /\ l = Min({s.inChunk, m.size})
            /\ \E u \in States : Step(s, c, u) /\ Elsewhere(s, u, ch) /\ Reached(u, ch, m, c.ext, l)
         \/ Stuck(s, c) /\ (~Announced(m, c.ext) \/ l # Min({s.inChunk, m.size}))
<1>1. PICK p, k : p = HeaderIn(s, c, ch) /\ k = 0
  OBVIOUS
<1>2. /\ Has(p, m, k)
      /\ Announced(m, c.ext) => Stamped(m, c.ext, p.abs, s.channelTs[ch])
  BY <1>1, FirstHeader, Zenon
<1>3. IsChunk(c) /\ DecodeChannel(c.basic) = ch
  BY Zenon DEF Goes
<1>4. Adds(k, l, l) /\ k \in Nat /\ m.size \in Nat /\ m.size - k = m.size
  BY <1>1 DEF Adds, Messages
<1>5. NextBytes(c, m, k, l)
  BY <1>1, Zenon
<1>6. CASE Announced(m, c.ext) /\ l = Min({s.inChunk, m.size})
  <2>1. l = Min({s.inChunk, m.size - k})
    BY <1>4, <1>6, Zenon
  <2>2. \E u \in States : Step(s, c, u) /\ Elsewhere(s, u, ch) /\ Reached(u, ch, m, c.ext, l)
    BY <1>1, <1>2, <1>3, <1>4, <1>5, <1>6, <2>1, ReadStep
  <2> QED BY <1>6, <2>2
<1>7. CASE ~(Announced(m, c.ext) /\ l = Min({s.inChunk, m.size}))
  <2>1. p.stamp = m.field /\ p.size = m.size /\ p.read = 0
    BY <1>1, <1>2, Zenon DEF Has
  <2>2. Len(c.body) = l
    BY <1>4, <1>5, NextBytesGrow
  <2>3. p.size - p.read = m.size
    BY <1>4, <2>1
  <2>4. ~FitsIn(s, c, p)
    BY <1>7, <2>1, <2>2, <2>3, Zenon DEF FitsIn, Announced
  <2>5. Stuck(s, c)
    BY <1>1, <1>3, <2>4, Zenon DEF Stuck
  <2> QED BY <1>7, <2>5
<1> QED BY <1>6, <1>7

(* A header of type MINIMUM changes nothing.                               *)
LEMMA NextHeader ==
  ASSUME NEW s \in States, NEW ch \in Channels, s.vecIn[ch] \in Packets, NEW c, c.form = MINIMUM
  PROVE  HeaderIn(s, c, ch) = s.vecIn[ch]
<1>1. PICK x \in Packets : x = s.vecIn[ch]
  OBVIOUS
<1>2. PICK st, si, ty, sd, rd, bo, ab :
        /\ st = x.stamp /\ si = x.size /\ ty = x.type /\ sd = x.sid /\ rd = x.read /\ bo = x.body
        /\ ab = x.abs
  OBVIOUS
<1>3. IsPkt(x, st, si, ty, sd, rd, bo, ab)
  BY <1>2, PacketIs, Zenon DEF IsPkt
<1>4. ~(c.form <= SMALL) /\ ~(c.form <= MEDIUM) /\ c.form # LARGE
  BY DEF LARGE, MEDIUM, SMALL, MINIMUM
<1>5. HeaderFields(c, st, si, ty, sd, rd, bo, st, si, ty, sd, rd, bo)
  BY <1>4, Zenon DEF HeaderFields
<1>6. IsPkt(WithHeader(c, x), st, si, ty, sd, rd, bo, ab)
  BY <1>3, <1>5, HeaderIs, Zenon
<1>7. HeaderIn(s, c, ch) = WithHeader(c, x)
  BY <1>1, <1>4, Constants, Zenon DEF HeaderIn
<1> QED BY <1>1, <1>3, <1>6, <1>7, Zenon DEF IsPkt

(* The next chunk of a message is read. *)
LEMMA NextRead ==
  ASSUME NEW s \in States, NEW ch \in Channels, NEW m \in Messages, NEW ext, NEW k \in Nat,
         Half(s, ch, m, ext, k), NEW c, c.form = MINIMUM, c.ext = ext, Goes(c, ch),
         NEW l \in Nat, NEW t \in Nat, Adds(k, l, t), t <= m.size, NextBytes(c, m, k, t),
         l = Min({s.inChunk, m.size - k})
  PROVE  \E u \in States : Step(s, c, u) /\ Elsewhere(s, u, ch) /\ Reached(u, ch, m, ext, t)
<1>1. PICK p : p = s.vecIn[ch]
  OBVIOUS
<1>2. /\ Has(p, m, k) /\ s.due[ch] = <<m>>
      /\ Stamped(m, c.ext, p.abs, s.channelTs[ch])
  BY <1>1, Zenon DEF Half, Stamped, Said
<1>3. p = HeaderIn(s, c, ch)
  <2>1. s.vecIn[ch] \in Packets
    BY <1>1, <1>2, Zenon DEF Has
  <2> QED BY <1>1, <2>1, NextHeader
<1>4. IsChunk(c) /\ DecodeChannel(c.basic) = ch
  BY Zenon DEF Goes
<1>5. \E u \in States : Step(s, c, u) /\ Elsewhere(s, u, ch) /\ Reached(u, ch, m, c.ext, t)
  BY <1>2, <1>3, <1>4, ReadStep
<1> QED BY <1>5

(* A next chunk without the extended timestamp is not. *)
LEMMA NextStuck ==
  ASSUME NEW s \in States, NEW ch \in Channels, NEW m \in Messages, NEW ext, NEW k \in Nat,
         Half(s, ch, m, ext, k), NEW c, c.form = MINIMUM, c.ext = NULL, ext # NULL, Goes(c, ch)
  PROVE  Stuck(s, c)
<1>1. PICK p : p = s.vecIn[ch]
  OBVIOUS
<1>2. Has(p, m, k) /\ m.field = Ext
  BY <1>1, Zenon DEF Half
<1>3. p \in Packets /\ p.stamp = Ext
  BY <1>2, Zenon DEF Has
<1>4. p = HeaderIn(s, c, ch)
  BY <1>1, <1>3, NextHeader
<1>5. ~FitsIn(s, c, p)
  BY <1>3, Zenon DEF FitsIn
<1> QED BY <1>4, <1>5, Zenon DEF Stuck, Goes

-----------------------------------------------------------------------------
(* How many chunks a message has. *)

(* A message is finished with the first chunk, or the chunk is full.       *)
LEMMA FirstOfBody ==
  ASSUME NEW id \in Nat, NEW n \in Nat, NEW out \in Nat \ {0}, NEW l, l = Min({out, n})
  PROVE  /\ l \in Nat /\ l <= n /\ l <= out
         /\ Piece(Body(id, n), 0, out) = Part(id, n, 0, l)
         /\ (ChunkCount(n, out) = 1) <=> (n <= out)
         /\ n <= out => l = n
         /\ ~(n <= out) => l = out
         /\ ChunkCount(n, out) \in Nat \ {0}
<1>1. l = IF out <= n THEN out ELSE n
  BY MinOf
<1>2. Len(Body(id, n)) = n
  BY BodyFacts
<1>3. (0 + 1) * out = out /\ 0 * out = 0
  OBVIOUS
<1>4. Piece(Body(id, n), 0, out) = Part(id, n, 0, l)
  BY <1>2, <1>3, Zenon DEF Piece, Part
<1>5. n # 0 => (n + out - 1) \div out \in Nat \ {0} /\ (((n + out - 1) \div out = 1) <=> (n <= out))
  <2> SUFFICES ASSUME n # 0
               PROVE  (n + out - 1) \div out \in Nat \ {0} /\ (((n + out - 1) \div out = 1) <=> (n <= out))
    OBVIOUS
  <2>1. PICK a \in Nat : a = n + out - 1
    OBVIOUS
  <2>2. PICK q, r : q = a \div out /\ r = a % out
    OBVIOUS
  <2>3. q \in Int /\ r \in 0 .. out - 1 /\ a = out * q + r
    BY <2>2
  <2>4. a >= out
    BY <2>1
  <2>5. q >= 1
    <3>1. q <= 0 => out * q <= 0
      BY <2>3
    <3> QED BY <2>3, <2>4, <3>1
  <2>6. q = 1 => n <= out
    BY <2>1, <2>3
  <2>7. n <= out => q = 1
    <3>1. q >= 2 => out * q >= out * 2
      BY <2>3
    <3> QED BY <2>1, <2>3, <2>5, <3>1
  <2> QED BY <2>1, <2>2, <2>3, <2>5, <2>6, <2>7
<1>6. ChunkCount(n, out) = IF n = 0 THEN 1 ELSE (n + out - 1) \div out
  BY DEF ChunkCount
<1> QED BY <1>1, <1>4, <1>5, <1>6

(* The bytes up to the end of the i-th chunk. *)
UpTo(i, out, n) == Min({(i + 1) * out, n})

(* Piece j of a body is what comes after the first k bytes, up to t.       *)
IsPiece(id, n, out, j, k, t) == Piece(Body(id, n), j, out) = Part(id, n, k, t)

(* It has l bytes, and ends the body when it is the last one.              *)
NextPart(id, n, out, i, j, k, l, t) ==
  /\ j = i + 1 /\ k \in Nat /\ t \in Nat /\ k < n /\ t <= n
  /\ Adds(k, l, t) /\ l \in Nat
  /\ IsPiece(id, n, out, j, k, t)
  /\ j = ChunkCount(n, out) - 1 => t = n

(* The chunk after that has the next bytes, and the last chunk ends the    *)
(* message.                                                                *)
LEMMA NextOfBody ==
  ASSUME NEW id \in Nat, NEW n \in Nat, NEW out \in Nat \ {0}, NEW i \in Nat, NEW j, j = i + 1,
         j < ChunkCount(n, out), NEW k, k = UpTo(i, out, n), NEW t, t = UpTo(j, out, n),
         NEW l, l = Min({out, n - k})
  PROVE  NextPart(id, n, out, i, j, k, l, t)
<1>0. PICK a \in Nat : a = n + out - 1
  OBVIOUS
<1>1. PICK q, r : a = n + out - 1 /\ q = a \div out /\ r = a % out
  BY <1>0
<1>2. q \in Int /\ r \in 0 .. out - 1 /\ a = out * q + r
  BY <1>1
<1>3. n # 0 /\ ChunkCount(n, out) = q
  BY <1>1 DEF ChunkCount
<1>4. i + 1 < q
  BY <1>3
<1>5. PICK b, d : b = (i + 1) * out /\ d = (i + 1 + 1) * out
  OBVIOUS
<1>6. b \in Nat /\ d = b + out /\ b >= out
  BY <1>5
<1>7. b < n
  <2>1. (i + 1) * out <= (q - 1) * out
    BY <1>2, <1>4
  <2>2. (q - 1) * out = a - r - out
    BY <1>2
  <2> QED BY <1>1, <1>2, <1>5, <2>1, <2>2
<1>8. i + 1 = q - 1 => d >= n
  <2>1. i + 1 = q - 1 => d = q * out
    BY <1>2, <1>5
  <2>2. q * out = a - r
    BY <1>2
  <2> QED BY <1>1, <1>2, <1>6, <2>1, <2>2
<1>9. k = b
  <2>1. Min({b, n}) = b
    BY <1>6, <1>7, MinOf
  <2> QED BY <1>5, <2>1, Zenon DEF UpTo
<1>10. t = IF d <= n THEN d ELSE n
  <2>1. Min({d, n}) = IF d <= n THEN d ELSE n
    BY <1>6, MinOf
  <2> QED BY <1>5, <2>1, Zenon DEF UpTo
<1>11. Min({out, n - k}) = IF out <= n - k THEN out ELSE n - k
  BY <1>6, <1>9, MinOf
<1>12. IsPiece(id, n, out, j, k, t)
  <2>1. Len(Body(id, n)) = n
    BY BodyFacts
  <2>2. Min({(i + 1 + 1) * out, n}) = t
    BY Zenon DEF UpTo
  <2>3. Piece(Body(id, n), i + 1, out) = Part(id, n, k, t)
    BY <1>5, <1>9, <2>1, <2>2, Zenon DEF Piece, Part
  <2> QED BY <2>3, Zenon DEF IsPiece
<1>13. Adds(k, l, t)
  BY <1>6, <1>7, <1>9, <1>10, <1>11 DEF Adds
<1> QED BY <1>3, <1>6, <1>7, <1>8, <1>9, <1>10, <1>11, <1>12, <1>13 DEF NextPart

-----------------------------------------------------------------------------
(* The reader's steps. *)

(* The reader is stuck at the end of a run. *)
Stops(run, w) == Len(run) <= Len(w) /\ Stuck(run[Len(run)], w[Len(run)])

(* Agreement is about the writer's state only. *)
LEMMA AgreeKept ==
  ASSUME NEW s, Agree(s), UNCHANGED <<outChunk, prevOut, unfinished, staleChunk>>
  PROVE  Agree(s)'
<1>1. ASSUME NEW ch \in Channels PROVE AgreeOn(s, ch)'
  <2>1. AgreeOn(s, ch)
    BY Zenon DEF Agree
  <2>2. PICK m, u : m = prevOut[ch] /\ u = unfinished[ch]
    OBVIOUS
  <2>3. m = prevOut'[ch] /\ u = unfinished'[ch]
    BY <2>2, Zenon
  <2> QED BY <2>1 DEF AgreeOn, Rest
<1>2. (~staleChunk => s.inChunk = outChunk)'
  BY DEF Agree
<1> QED BY <1>1, <1>2, Zenon DEF Agree

(* A step of the reader takes it to the second state of the run.           *)
LEMMA FirstOfRun ==
  ASSUME ChunksInv, status = "up", wire # <<>>, UNCHANGED writerVars, UNCHANGED staleChunk,
         wire' = Tail(wire), status' = "up",
         ~Stuck(Reader, Head(wire)),
         \A t \in States : Step(Reader, Head(wire), t) => Reader' = t
  PROVE  /\ Reader' \in States /\ Step(Reader, Head(wire), Reader')
         /\ \E run : Leads(run, Reader', wire') /\ Settled(run, wire)'
         /\ \E S : wire' \in Seq(S)
<1>1. PICK run : Leads(run, Reader, wire) /\ Settled(run, wire)
  BY Zenon DEF ChunksInv
<1>2. PICK S : wire \in Seq(S)
  BY Zenon DEF ChunksInv, WriterTyped
<1>3. run \in Seq(States) /\ Len(run) \in 1 .. Len(wire) + 1 /\ run[1] = Reader
  BY <1>1, Zenon DEF Leads
<1>4. Len(wire) \in Nat /\ Len(wire) > 0 /\ Head(wire) = wire[1] /\ Tail(wire) \in Seq(S)
  BY <1>2, EmptySeq, HeadTailProperties
<1>5. Len(run) # 1
  <2> SUFFICES ASSUME Len(run) = 1 PROVE FALSE
    OBVIOUS
  <2>1. Len(run) # Len(wire) + 1
    BY <1>4
  <2>2. Stuck(run[Len(run)], wire[Len(run)])
    BY <1>1, <2>1, Zenon DEF Settled
  <2> QED BY <1>3, <1>4, <2>2, Zenon
<1>6. /\ Step(Reader, Head(wire), run[2]) /\ run[2] \in States
      /\ Leads(Tail(run), run[2], Tail(wire))
      /\ Len(Tail(run)) = Len(run) - 1 /\ Len(Tail(wire)) = Len(wire) - 1
      /\ Tail(run)[Len(run) - 1] = run[Len(run)]
      /\ Len(run) <= Len(wire) => Tail(wire)[Len(run) - 1] = wire[Len(run)]
  BY <1>1, <1>2, <1>5, RunGoesOn
<1>7. Reader' = run[2]
  BY <1>6
<1>8. PICK r, v : r = Tail(run) /\ v = Tail(wire)
  OBVIOUS
<1>9. Leads(r, Reader', v) /\ v = wire'
  BY <1>6, <1>7, <1>8, Zenon
<1>10. Len(run) \in Nat
  BY <1>3
<1>11. CASE Len(run) = Len(wire) + 1 /\ Agree(run[Len(run)])
  <2>1. Len(r) = Len(v) + 1
    BY <1>4, <1>6, <1>8, <1>10, <1>11
  <2>2. r[Len(r)] = run[Len(run)]
    BY <1>6, <1>8, Zenon
  <2>3. Agree(r[Len(r)])'
    <3>1. PICK s : s = run[Len(run)] /\ s = r[Len(r)]
      BY <2>2
    <3>2. Agree(s)'
      BY <1>11, <3>1, AgreeKept DEF writerVars
    <3> QED BY <3>1, <3>2, Zenon
  <2>4. Settled(r, wire)'
    BY <1>9, <2>1, <2>3, Zenon DEF Settled
  <2> QED BY <1>4, <1>6, <1>7, <1>9, <2>4, Zenon
<1>12. CASE Len(run) <= Len(wire) /\ (risk \/ staleChunk) /\ Stuck(run[Len(run)], wire[Len(run)])
  <2>1. Len(r) <= Len(v)
    BY <1>4, <1>6, <1>8, <1>10, <1>12
  <2>2. r[Len(r)] = run[Len(run)] /\ v[Len(r)] = wire[Len(run)]
    BY <1>6, <1>8, <1>12, Zenon
  <2>3. Stuck(r[Len(r)], v[Len(r)])
    BY <1>12, <2>2, Zenon
  <2>4. risk' \/ staleChunk'
    BY <1>12 DEF writerVars
  <2>5. Settled(r, wire)'
    BY <1>9, <2>1, <2>3, <2>4, Zenon DEF Settled
  <2> QED BY <1>4, <1>6, <1>7, <1>9, <2>5, Zenon
<1> QED BY <1>1, <1>11, <1>12, Zenon DEF Settled

(* Whatever the chunk, a packet is made of it.                             *)
LEMMA BodyShape ==
  ASSUME NEW s \in States, NEW ch \in Channels, NEW c
  PROVE  \E st, si, ty, sd, rd, bo, ab :
           IsPkt(WithBody(c, HeaderIn(s, c, ch)), st, si, ty, sd, rd, bo, ab)
<1>1. PICK x \in Packets : HeaderIn(s, c, ch) = WithHeader(c, x)
  <2>1. s.packet \in Packets /\ s.vecIn[ch] \in Packets \union {NULL}
    BY StateTyped
  <2>2. [s.packet EXCEPT !.abs = TRUE] \in Packets
    BY <2>1 DEF Packets
  <2> QED BY <2>1, <2>2, Zenon DEF HeaderIn
<1>2. PICK st, si, ty, sd, rd, bo, ab :
        /\ st = x.stamp /\ si = x.size /\ ty = x.type /\ sd = x.sid /\ rd = x.read /\ bo = x.body
        /\ ab = x.abs
  OBVIOUS
<1>3. IsPkt(x, st, si, ty, sd, rd, bo, ab)
  BY <1>2, PacketIs, Zenon DEF IsPkt
<1>4. PICK v1, v2, v3, v4, v5, v6 : HeaderFields(c, st, si, ty, sd, rd, bo, v1, v2, v3, v4, v5, v6)
  BY Zenon DEF HeaderFields
<1>5. IsPkt(WithHeader(c, x), v1, v2, v3, v4, v5, v6, ab)
  BY <1>3, <1>4, HeaderIs, Zenon
<1>6. PICK r, b : Grows(c, v5, v6, r, b)
  BY Zenon DEF Grows
<1>7. IsPkt(WithBody(c, WithHeader(c, x)), Said(v1, c.ext), v2, v3, v4, r, b, ab)
  BY <1>5, <1>6, BodyIs, Zenon
<1> QED BY <1>1, <1>7, Zenon

(* Nothing of a message is left over when it has been read. *)
LEMMA CleanKept ==
  ASSUME NEW s \in States, NEW t \in States, NEW c, Step(s, c, t), Clean(s)
  PROVE  Clean(t)
<1>1. CASE ReadsChunk(s, c, t)
  <2>1. PICK d, p, q : d = DecodeChannel(c.basic) /\ p = HeaderIn(s, c, d) /\ q = WithBody(c, p)
    OBVIOUS
  <2>2. d \in Channels /\ Takes(s, d, p, q, t)
    BY <1>1, <2>1, Zenon DEF ReadsChunk
  <2>3. PICK e \in BOOLEAN : e = (p.stamp = Ext)
    OBVIOUS
  <2>4. PICK k : k = Kept(q, e)
    OBVIOUS
  <2>5. /\ s.due[d] # <<>> /\ t.vecIn = [s.vecIn EXCEPT ![d] = k]
        /\ Ready(q) => t.due = [s.due EXCEPT ![d] = Tail(s.due[d])]
        /\ ~Ready(q) => t.due = s.due
    BY <2>2, <2>3, <2>4, Zenon DEF Takes
  <2>6. PICK st, si, ty, sd, rd, bo, ab : IsPkt(q, st, si, ty, sd, rd, bo, ab)
    BY <2>1, <2>2, BodyShape, Zenon
  <2>7. PICK z, none, no : Emptied(z, none, no)
    BY Zenon DEF Emptied
  <2>8. Ready(q) => IsPkt(k, Again(e, st), si, ty, sd, z, none, no)
    <3>1. q.read = rd /\ q.size = si
      BY <2>6, SMT DEF IsPkt, Pkt
    <3> QED BY <2>4, <2>6, <2>7, <3>1, KeptIs, Zenon DEF Ready
  <2>9. Ready(q) => k.read = 0 /\ k.body = <<>> /\ ~k.abs
    <3> SUFFICES ASSUME Ready(q) PROVE k.read = 0 /\ k.body = <<>> /\ ~k.abs
      OBVIOUS
    <3>1. k.read = z /\ k.body = none /\ k.abs = no
      BY <2>8, SMT DEF IsPkt, Pkt
    <3> QED BY <2>7, <3>1 DEF Emptied
  <2>10. s.vecIn \in [Channels -> Packets \union {NULL}] /\ s.due \in [Channels -> Seq(Messages)]
    BY StateTyped
  <2>11. ASSUME NEW ch \in Channels, t.due[ch] = <<>>, t.vecIn[ch] # NULL
         PROVE  t.vecIn[ch].read = 0 /\ t.vecIn[ch].body = <<>> /\ ~t.vecIn[ch].abs
    <3>1. CASE ch = d
      <4>1. t.vecIn[ch] = k
        BY <2>5, <2>10, <3>1
      <4>2. Ready(q)
        BY <2>5, <2>11, <3>1, Zenon
      <4> QED BY <2>9, <4>1, <4>2, Zenon
    <3>2. CASE ch # d
      <4>1. t.vecIn[ch] = s.vecIn[ch] /\ t.due[ch] = s.due[ch]
        BY <2>5, <2>10, <3>2
      <4> QED BY <2>11, <4>1, Zenon DEF Clean
    <3> QED BY <3>1, <3>2
  <2> QED BY <2>11, Zenon DEF Clean
<1>2. CASE ReadsSize(s, c, t)
  <2>1. t = [s EXCEPT !.inChunk = c.chunkSize]
    BY <1>2, Zenon DEF ReadsSize
  <2>2. t.vecIn = s.vecIn /\ t.due = s.due
    BY <2>1 DEF States
  <2> QED BY <2>2, Zenon DEF Clean
<1> QED BY <1>1, <1>2, Zenon DEF Step

(* The fields of the reader, now and then.                                 *)
LEMMA ReaderFields ==
  /\ Reader.inChunk = inChunk /\ Reader.vecIn = vecIn /\ Reader.channelTs = channelTs
  /\ Reader.packet = packet /\ Reader.due = due
  /\ Reader = State(inChunk, vecIn, channelTs, packet, due)
  BY DEF Reader, State

(* RTMP_ReadPacket does with a chunk what a run says.                      *)
LEMMA ReadPacketInv ==
  ASSUME ChunksInv, ReadPacket
  PROVE  ChunksInv'
<1>1. PICK c, ch, p, q, at :
        /\ c = Head(wire) /\ ch = DecodeChannel(c.basic) /\ p = WithHeader(c, Known(c, vecIn[ch]))
        /\ q = WithBody(c, p) /\ at = Absolute(q, ch)
  OBVIOUS
<1>2. /\ status = "up" /\ wire # <<>> /\ "basic" \in DOMAIN c
      /\ ch \in Channels /\ InStep(c, p)
      /\ wire' = Tail(wire)
      /\ vecIn' = [vecIn EXCEPT ![ch] = Kept(q, p.stamp = Ext)]
      /\ Ready(q) => /\ channelTs' = [channelTs EXCEPT ![ch] = at]
                     /\ last' = [read |-> [q EXCEPT !.stamp = at], sent |-> Head(due[ch])]
                     /\ due' = [due EXCEPT ![ch] = Tail(@)]
                     /\ packet' = [q EXCEPT !.stamp = at, !.body = <<>>]
      /\ ~Ready(q) => packet' = [q EXCEPT !.body = <<>>] /\ UNCHANGED <<channelTs, last, due>>
      /\ UNCHANGED <<writerVars, losses, inChunk, staleChunk, status>>
  BY <1>1, Zenon DEF ReadPacket, VecInWith
<1>3. PICK s : s = Reader
  OBVIOUS
<1>4. /\ s.inChunk = inChunk /\ s.vecIn = vecIn /\ s.channelTs = channelTs
      /\ s.packet = packet /\ s.due = due /\ s \in States
  BY <1>3, ReaderFields, Zenon DEF ChunksInv
<1>5. HeaderIn(s, c, ch) = p /\ AbsoluteIn(s, q, ch) = at
  BY <1>1, <1>4, Zenon DEF HeaderIn, Known, AbsoluteIn, Absolute
<1>6. FitsIn(s, c, p)
  BY <1>2, <1>4, Zenon DEF InStep, FitsIn
<1>7. ~Stuck(s, c)
  BY <1>1, <1>2, <1>5, <1>6, Zenon DEF Stuck
<1>8. ASSUME NEW t \in States, Step(s, c, t)
      PROVE  /\ Reader' = t
             /\ Ready(q) => Same([q EXCEPT !.stamp = at], Head(due[ch]))
  <2>1. ReadsChunk(s, c, t)
    BY <1>2, <1>8, Zenon DEF Step, ReadsSize, IsSize
  <2>2. Takes(s, ch, p, q, t)
    BY <1>1, <1>5, <2>1, Zenon DEF ReadsChunk
  <2>3. t.inChunk = s.inChunk /\ t.vecIn = [s.vecIn EXCEPT ![ch] = Kept(q, p.stamp = Ext)]
    BY <2>2, Zenon DEF Takes
  <2>4. t = State(t.inChunk, t.vecIn, t.channelTs, t.packet, t.due)
    BY <1>8, StateTyped, Zenon
  <2>5. t.inChunk = inChunk' /\ t.vecIn = vecIn'
    BY <1>2, <1>4, <2>3, Zenon
  <2>6. Reader' = State(inChunk', vecIn', channelTs', packet', due')
    BY DEF Reader, State
  <2>7. CASE Ready(q)
    <3>1. PICK r : r = [q EXCEPT !.stamp = at]
      OBVIOUS
    <3>2. /\ t.channelTs = [s.channelTs EXCEPT ![ch] = r.stamp]
          /\ t.due = [s.due EXCEPT ![ch] = Tail(s.due[ch])]
          /\ t.packet = [r EXCEPT !.body = <<>>]
          /\ Same(r, Head(s.due[ch]))
      BY <1>5, <2>2, <2>7, <3>1, Zenon DEF Takes
    <3>3. PICK st, si, ty, sd, rd, bo, ab : IsPkt(q, st, si, ty, sd, rd, bo, ab)
      BY <1>1, <1>2, <1>4, <1>5, BodyShape, Zenon
    <3>4. PICK z, none, no : Emptied(z, none, no)
      BY Zenon DEF Emptied
    <3>5. IsPkt(r, at, si, ty, sd, rd, bo, ab)
      BY <3>1, <3>3, <3>4, GivenIs, Zenon
    <3>6. IsPkt([r EXCEPT !.body = <<>>], at, si, ty, sd, rd, none, ab)
      BY <3>4, <3>5, GivenIs, Zenon
    <3>7. IsPkt([q EXCEPT !.stamp = at, !.body = <<>>], at, si, ty, sd, rd, none, ab)
      BY <3>3, <3>4, GivenIs, Zenon
    <3>8. t.packet = packet'
      BY <1>2, <2>7, <3>2, <3>6, <3>7, Zenon DEF IsPkt
    <3>9. r.stamp = at
      BY <3>5, SMT DEF IsPkt, Pkt
    <3>10. t.channelTs = channelTs' /\ t.due = due'
      BY <1>2, <1>4, <2>7, <3>2, <3>9, Zenon
    <3> QED BY <1>4, <2>4, <2>5, <2>6, <3>1, <3>2, <3>8, <3>10, Zenon
  <2>8. CASE ~Ready(q)
    <3>1. t.packet = [q EXCEPT !.body = <<>>] /\ t.channelTs = s.channelTs /\ t.due = s.due
      BY <2>2, <2>8, Zenon DEF Takes
    <3>2. t.packet = packet' /\ t.channelTs = channelTs' /\ t.due = due'
      BY <1>2, <1>4, <2>8, <3>1, Zenon
    <3> QED BY <2>4, <2>5, <2>6, <2>8, <3>2, Zenon
  <2> QED BY <2>7, <2>8
<1>9. /\ Reader' \in States /\ Step(s, c, Reader')
      /\ \E run : Leads(run, Reader', wire') /\ Settled(run, wire)'
      /\ \E S : wire' \in Seq(S)
  <2>1. UNCHANGED writerVars /\ UNCHANGED staleChunk /\ status' = "up"
    BY <1>2, Zenon
  <2>2. \A t \in States : Step(Reader, Head(wire), t) => Reader' = t
    BY <1>1, <1>3, <1>8, Zenon
  <2>3. ~Stuck(Reader, Head(wire))
    BY <1>1, <1>3, <1>7, Zenon
  <2> QED BY <1>1, <1>2, <1>3, <2>1, <2>2, <2>3, FirstOfRun
<1>10. Clean(Reader)'
  <2>1. PICK t \in States : t = Reader'
    BY <1>9
  <2>2. Clean(t)
    <3>1. Clean(s)
      BY <1>3, Zenon DEF ChunksInv
    <3> QED BY <1>4, <1>9, <2>1, <3>1, CleanKept, Zenon
  <2> QED BY <2>1, <2>2, Zenon DEF Clean
<1>11. WriterTyped'
  BY <1>2, <1>9 DEF ChunksInv, WriterTyped, writerVars
<1>12. (last # NULL => Same(last.read, last.sent))'
  <2>1. CASE Ready(q)
    <3>1. Same([q EXCEPT !.stamp = at], Head(due[ch]))
      BY <1>8, <1>9, <2>1, Zenon
    <3>2. last' = [read |-> [q EXCEPT !.stamp = at], sent |-> Head(due[ch])]
      BY <1>2, <2>1, Zenon
    <3>3. last'.read = [q EXCEPT !.stamp = at] /\ last'.sent = Head(due[ch])
      BY <3>2
    <3> QED BY <3>1, <3>3, Zenon
  <2>2. CASE ~Ready(q)
    BY <1>2, <2>2 DEF ChunksInv
  <2> QED BY <2>1, <2>2
<1>13. (status = "misread" => risk \/ staleChunk)'
  BY <1>2
<1> QED BY <1>9, <1>10, <1>11, <1>12, <1>13, Zenon DEF ChunksInv

(* It is out of step only for one of the two reasons.                      *)
LEMMA MisreadInv ==
  ASSUME ChunksInv, Misread
  PROVE  ChunksInv'
<1>1. PICK c, ch : c = Head(wire) /\ ch = DecodeChannel(c.basic)
  OBVIOUS
<1>2. /\ status = "up" /\ wire # <<>> /\ "basic" \in DOMAIN c
      /\ ~(ch \in Channels /\ InStep(c, WithHeader(c, Known(c, vecIn[ch]))))
      /\ status' = "misread"
      /\ UNCHANGED <<writerVars, losses, wire, readerVars, due, last, staleChunk>>
  BY <1>1, Zenon DEF Misread
<1>3. PICK s : s = Reader
  OBVIOUS
<1>4. /\ s.inChunk = inChunk /\ s.vecIn = vecIn /\ s.channelTs = channelTs
      /\ s.packet = packet /\ s.due = due /\ s \in States
  BY <1>3, ReaderFields, Zenon DEF ChunksInv
<1>5. HeaderIn(s, c, ch) = WithHeader(c, Known(c, vecIn[ch]))
  BY <1>1, <1>4, Zenon DEF HeaderIn, Known
<1>6. ~(ch \in Channels /\ FitsIn(s, c, HeaderIn(s, c, ch)))
  BY <1>2, <1>4, <1>5, Zenon DEF InStep, FitsIn
<1>7. PICK run : Leads(run, s, wire) /\ Settled(run, wire)
  BY <1>2, <1>3, Zenon DEF ChunksInv
<1>8. PICK S : wire \in Seq(S)
  BY Zenon DEF ChunksInv, WriterTyped
<1>9. Len(run) = 1
  <2> SUFFICES ASSUME Len(run) # 1 PROVE FALSE
    OBVIOUS
  <2>1. Step(s, c, run[2])
    BY <1>1, <1>2, <1>7, <1>8, RunGoesOn
  <2>2. ~ReadsChunk(s, c, run[2])
    BY <1>1, <1>6, Zenon DEF ReadsChunk
  <2>3. ~ReadsSize(s, c, run[2])
    BY <1>2, Zenon DEF ReadsSize, IsSize
  <2> QED BY <2>1, <2>2, <2>3, Zenon DEF Step
<1>10. Len(run) # Len(wire) + 1
  <2>1. Len(wire) \in Nat /\ Len(wire) > 0
    BY <1>2, <1>8, EmptySeq
  <2> QED BY <1>9, <2>1
<1>11. risk \/ staleChunk
  BY <1>7, <1>10, Zenon DEF Settled
<1>12. Reader' = Reader
  BY <1>2 DEF Reader, readerVars
<1>13. WriterTyped'
  BY <1>2 DEF ChunksInv, WriterTyped, writerVars
<1>14. Reader' \in States /\ Clean(Reader)'
  BY <1>12, Zenon DEF ChunksInv, Clean
<1>15. (last # NULL => Same(last.read, last.sent))'
  BY <1>2 DEF ChunksInv
<1>16. (status = "misread" => risk \/ staleChunk)'
  BY <1>2, <1>11 DEF writerVars
<1>17. status' # "up"
  BY <1>2
<1> QED BY <1>13, <1>14, <1>15, <1>16, <1>17, Zenon DEF ChunksInv

(* A chunk size message is read.                                           *)
LEMMA HandleChangeChunkSizeInv ==
  ASSUME ChunksInv, HandleChangeChunkSize
  PROVE  ChunksInv'
<1>1. PICK c : c = Head(wire)
  OBVIOUS
<1>2. /\ status = "up" /\ wire # <<>> /\ "chunkSize" \in DOMAIN c
      /\ inChunk' = c.chunkSize
      /\ wire' = Tail(wire)
      /\ UNCHANGED <<writerVars, losses, vecIn, channelTs, packet, due, last, staleChunk, status>>
  BY <1>1, Zenon DEF HandleChangeChunkSize
<1>3. Reader \in States
  BY Zenon DEF ChunksInv
<1>4. ~Stuck(Reader, c)
  BY <1>2, Zenon DEF Stuck, IsChunk
<1>5. ASSUME NEW t \in States, Step(Reader, c, t)
      PROVE  Reader' = t
  <2>1. t = [Reader EXCEPT !.inChunk = c.chunkSize]
    BY <1>2, <1>5, Zenon DEF Step, ReadsSize, ReadsChunk, IsChunk
  <2>2. t = State(c.chunkSize, vecIn, channelTs, packet, due)
    BY <2>1 DEF Reader, State
  <2>3. Reader' = State(inChunk', vecIn', channelTs', packet', due')
    BY DEF Reader, State
  <2> QED BY <1>2, <2>2, <2>3, Zenon
<1>6. /\ Reader' \in States /\ Step(Reader, c, Reader')
      /\ \E run : Leads(run, Reader', wire') /\ Settled(run, wire)'
      /\ \E S : wire' \in Seq(S)
  <2>1. UNCHANGED writerVars /\ UNCHANGED staleChunk /\ status' = "up"
    BY <1>2, Zenon
  <2> QED BY <1>1, <1>2, <1>4, <1>5, <2>1, FirstOfRun
<1>7. Clean(Reader)'
  <2>1. PICK t \in States : t = Reader'
    BY <1>6
  <2>2. Clean(t)
    BY <1>3, <1>6, <2>1, CleanKept, Zenon DEF ChunksInv
  <2> QED BY <2>1, <2>2, Zenon DEF Clean
<1>8. WriterTyped'
  BY <1>2, <1>6 DEF ChunksInv, WriterTyped, writerVars
<1>9. (last # NULL => Same(last.read, last.sent))'
  BY <1>2 DEF ChunksInv
<1>10. (status = "misread" => risk \/ staleChunk)'
  BY <1>2
<1> QED BY <1>6, <1>7, <1>8, <1>9, <1>10, Zenon DEF ChunksInv

-----------------------------------------------------------------------------
(* A new connection. *)

(* The state of a new reader is one, is clean, and knows of no message.    *)
LEMMA NewState ==
  ASSUME NEW i \in Nat \ {0}, NEW v, v = [ch \in Channels |-> NULL],
         NEW ts, ts = [ch \in Channels |-> 0], NEW d, d = [ch \in Channels |-> <<>>],
         NEW s, IsState(s, i, v, ts, Fresh, d)
  PROVE  /\ s \in States /\ Clean(s) /\ s.inChunk = i
         /\ \A ch \in Channels : None(s, ch)
<1>1. Fresh \in Packets
  <2>1. 0 \in 0 .. Wrap - 1
    BY Constants
  <2>2. <<>> \in Seq(Nat \X Nat)
    OBVIOUS
  <2> QED BY <2>1, <2>2 DEF Fresh, Packets
<1>2. /\ v \in [Channels -> Packets \union {NULL}]
      /\ ts \in [Channels -> 0 .. Wrap - 1] /\ d \in [Channels -> Seq(Messages)]
  <2>1. 0 \in 0 .. Wrap - 1
    BY Constants
  <2>2. <<>> \in Seq(Messages)
    OBVIOUS
  <2> QED BY <2>1, <2>2
<1>3. s \in States
  BY <1>1, <1>2, StateMade, Zenon
<1>4. s.inChunk = i /\ s.vecIn = v /\ s.channelTs = ts /\ s.due = d
  BY SMT DEF IsState, State
<1>5. \A ch \in Channels : None(s, ch)
  BY <1>4 DEF None
<1>6. Clean(s)
  BY <1>5, Zenon DEF Clean, None
<1> QED BY <1>3, <1>4, <1>5, <1>6

(* A run over nothing. *)
LEMMA NewRun ==
  ASSUME NEW s \in States, NEW w, w = <<>>, NEW run, run = <<s>>
  PROVE  Leads(run, s, w) /\ Len(run) = Len(w) + 1 /\ run[Len(run)] = s
<1>1. run \in Seq(States) /\ Len(run) = 1 /\ run[1] = s /\ Len(w) = 0
  OBVIOUS
<1>2. \A i \in 1 .. Len(run) - 1 : FALSE
  BY <1>1
<1>3. Len(run) \in 1 .. Len(w) + 1
  BY <1>1
<1>4. Leads(run, s, w)
  BY <1>1, <1>2, <1>3, Zenon DEF Leads
<1> QED BY <1>1, <1>4

(* The first connection. *)
LEMMA InitInv == Init => ChunksInv
<1> SUFFICES ASSUME Init PROVE ChunksInv
  OBVIOUS
<1> USE DEF Init
<1>1. DefaultChunk \in Nat \ {0} /\ NULL \notin Nat
  BY Constants
<1>2. PICK s, run : s = Reader /\ run = <<s>>
  OBVIOUS
<1>3. IsState(s, inChunk, vecIn, channelTs, Fresh, due)
  BY <1>2, ReaderFields, Zenon DEF IsState
<1>4. s \in States /\ Clean(s) /\ s.inChunk = inChunk /\ \A ch \in Channels : None(s, ch)
  BY <1>1, <1>3, NewState
<1>5. Leads(run, s, wire) /\ Len(run) = Len(wire) + 1 /\ run[Len(run)] = s
  BY <1>2, <1>4, NewRun
<1>6. \A ch \in Channels : AgreeOn(s, ch)
  BY <1>4 DEF AgreeOn
<1>7. Agree(s)
  BY <1>4, <1>6 DEF Agree
<1>8. Settled(run, wire)
  BY <1>5, <1>7, Zenon DEF Settled
<1>9. WriterTyped
  <2>1. \E S : wire \in Seq(S)
    <3>1. wire \in Seq({})
      BY EmptySeq
    <3> QED BY <3>1
  <2> QED BY <1>1, <2>1 DEF WriterTyped
<1>10. last = NULL /\ status # "misread"
  OBVIOUS
<1> QED BY <1>2, <1>4, <1>5, <1>8, <1>9, <1>10, Zenon DEF ChunksInv

(* The next one, which may start with another chunk size at one end.       *)
LEMMA LostInv ==
  ASSUME ChunksInv, Lost
  PROVE  ChunksInv'
<1>1. /\ vecIn' = [ch \in Channels |-> NULL] /\ channelTs' = [ch \in Channels |-> 0]
      /\ packet' = Fresh
      /\ prevOut' = [ch \in Channels |-> NULL] /\ unfinished' = [ch \in Channels |-> NULL]
      /\ outChunk' = DefaultChunk /\ wire' = <<>> /\ due' = [ch \in Channels |-> <<>>]
      /\ staleChunk' = (inChunk # DefaultChunk) /\ risk' = FALSE
      /\ UNCHANGED <<writer, sentCount, inChunk, last, status>> /\ status = "up"
  BY DEF Lost, Close
<1>2. inChunk \in Nat \ {0}
  <2>1. Reader \in States /\ Reader.inChunk = inChunk
    BY ReaderFields, Zenon DEF ChunksInv
  <2> QED BY <2>1, StateTyped
<1>3. PICK s, run : s = Reader' /\ run = <<s>>
  OBVIOUS
<1>4. IsState(s, inChunk, vecIn', channelTs', Fresh, due')
  BY <1>1, <1>3 DEF IsState, State, Reader
<1>5. s \in States /\ Clean(s) /\ s.inChunk = inChunk /\ \A ch \in Channels : None(s, ch)
  BY <1>1, <1>2, <1>4, NewState
<1>6. Leads(run, s, wire') /\ Len(run) = Len(wire') + 1 /\ run[Len(run)] = s
  BY <1>1, <1>3, <1>5, NewRun
<1>7. \A ch \in Channels : AgreeOn(s, ch)'
  BY <1>1, <1>5 DEF AgreeOn
<1>8. Agree(s)'
  BY <1>1, <1>5, <1>7 DEF Agree
<1>9. Settled(run, wire)'
  BY <1>6, <1>8, Zenon DEF Settled
<1>10. WriterTyped'
  <2>1. (\E S : wire \in Seq(S))'
    <3>1. wire' \in Seq({})
      BY <1>1, EmptySeq
    <3> QED BY <3>1
  <2>2. sentCount \in Nat /\ DefaultChunk \in Nat \ {0}
    BY Constants DEF ChunksInv, WriterTyped
  <2> QED BY <1>1, <2>1, <2>2 DEF WriterTyped
<1>11. (last # NULL => Same(last.read, last.sent))'
  BY <1>1 DEF ChunksInv
<1>12. (status = "misread" => risk \/ staleChunk)'
  BY <1>1
<1>13. (Reader \in States /\ Clean(Reader))'
  BY <1>3, <1>5, Zenon DEF Clean
<1> QED BY <1>3, <1>6, <1>9, <1>10, <1>11, <1>12, <1>13, Zenon DEF ChunksInv

-----------------------------------------------------------------------------
(* The writer's messages. *)

(* A message with another field and drift.                                 *)
MessageWith(m, f, d) == [m EXCEPT !.field = f, !.drift = d]

(* All its other fields are what they were.                                *)
LEMMA MessageWithIs ==
  ASSUME NEW i, NEW ch, NEW type, NEW sid, NEW size, NEW stamp, NEW f0, NEW d0, NEW f, NEW d,
         NEW m, m = [id |-> i, channel |-> ch, type |-> type, sid |-> sid, size |-> size,
                     stamp |-> stamp, field |-> f0, drift |-> d0]
  PROVE  MessageWith(m, f, d) =
           [id |-> i, channel |-> ch, type |-> type, sid |-> sid, size |-> size,
            stamp |-> stamp, field |-> f, drift |-> d]
<1>1. PICK x : x = [m EXCEPT !.field = f]
  OBVIOUS
<1>2. x = [id |-> i, channel |-> ch, type |-> type, sid |-> sid, size |-> size,
           stamp |-> stamp, field |-> f, drift |-> d0]
  BY <1>1
<1>3. [x EXCEPT !.drift = d] = [id |-> i, channel |-> ch, type |-> type, sid |-> sid, size |-> size,
                                stamp |-> stamp, field |-> f, drift |-> d]
  BY <1>2
<1> QED BY <1>1, <1>3, Zenon DEF MessageWith

(* What is kept of a message that has been sent, field by field.           *)
LEMMA SentIs ==
  ASSUME WriterTyped, NEW ch \in Channels, NEW type \in Types, NEW size \in Sizes,
         NEW stamp \in Stamps, NEW sid \in Nat \union {NULL}, NEW form,
         NEW field \in 0 .. Ext, NEW prev, prev = prevOut[ch],
         NEW m, m = Message(ch, type, sid, size, stamp), NEW sent, sent = Sent(m, form, field)
  PROVE  /\ m \in Messages /\ sent \in Messages
         /\ m.id = sentCount /\ m.channel = ch /\ m.type = type /\ m.sid = sid
         /\ m.size = size /\ m.stamp = stamp
         /\ sent.id = sentCount /\ sent.channel = ch /\ sent.type = type /\ sent.sid = sid
         /\ sent.size = size /\ sent.stamp = stamp
         /\ sent.field = IF form = MINIMUM /\ prev # NULL THEN prev.field ELSE field
         /\ sent.drift <=> /\ form # LARGE /\ prev # NULL
                           /\ prev.drift \/ (writer = "library" /\ form = MINIMUM /\ prev.field # 0)
<1>1. /\ m = [id |-> sentCount, channel |-> ch, type |-> type, sid |-> sid, size |-> size,
              stamp |-> stamp, field |-> 0, drift |-> FALSE]
  BY Zenon DEF Message
<1>2. PICK f : f = IF form = MINIMUM /\ prev # NULL THEN prev.field ELSE field
  OBVIOUS
<1>3. PICK d \in BOOLEAN :
        d <=> /\ form # LARGE /\ prev # NULL
              /\ prev.drift \/ (writer = "library" /\ form = MINIMUM /\ prev.field # 0)
  OBVIOUS
<1>4. m.channel = ch
  BY <1>1
<1>5. Sent(m, form, field) = [m EXCEPT !.field = f, !.drift = d]
  <2>1. prevOut[m.channel] = prev
    BY <1>4, Zenon
  <2>2. (form # LARGE /\ prev # NULL
           /\ (prev.drift \/ (writer = "library" /\ (form = MINIMUM /\ prev # NULL) /\ prev.field # 0)))
        \in BOOLEAN
    OBVIOUS
  <2>3. (form # LARGE /\ prev # NULL
           /\ (prev.drift \/ (writer = "library" /\ (form = MINIMUM /\ prev # NULL) /\ prev.field # 0)))
        = d
    BY <1>3, <2>2
  <2> QED BY <1>2, <2>1, <2>3, Zenon DEF Sent
<1>6. sent = [id |-> sentCount, channel |-> ch, type |-> type, sid |-> sid, size |-> size,
              stamp |-> stamp, field |-> f, drift |-> d]
  <2>1. Sent(m, form, field) = MessageWith(m, f, d)
    BY <1>5, Zenon DEF MessageWith
  <2> QED BY <1>1, <2>1, MessageWithIs
<1>7. f \in 0 .. Ext
  <2>1. prev \in Messages \union {NULL}
    BY DEF WriterTyped
  <2>2. prev # NULL => prev.field \in 0 .. Ext
    BY <2>1 DEF Messages
  <2> QED BY <1>2, <2>2, Zenon
<1>8. sentCount \in Nat /\ stamp \in 0 .. Wrap - 1 /\ size \in Nat /\ 0 \in 0 .. Ext
  BY Constants DEF WriterTyped
<1>9. m \in Messages
  BY <1>1, <1>8 DEF Messages
<1>10. sent \in Messages
  BY <1>6, <1>7, <1>8 DEF Messages
<1>11. /\ sent.id = sentCount /\ sent.channel = ch /\ sent.type = type /\ sent.sid = sid
       /\ sent.size = size /\ sent.stamp = stamp /\ sent.field = f /\ sent.drift = d
  BY <1>6
<1>12. /\ m.id = sentCount /\ m.channel = ch /\ m.type = type /\ m.sid = sid
       /\ m.size = size /\ m.stamp = stamp
  BY <1>1
<1> QED BY <1>2, <1>3, <1>9, <1>10, <1>11, <1>12, Zenon

(* The difference that is sent leads back to the timestamp.                *)
LEMMA Difference ==
  ASSUME NEW a \in 0 .. Wrap - 1, NEW b \in 0 .. Wrap - 1, NEW d, d = (a - b) % Wrap
  PROVE  /\ d \in 0 .. Wrap - 1 /\ (d + b) % Wrap = a
         /\ b = 0 => d = a
         /\ a = b => d = 0
<1>1. Wrap \in Nat /\ Wrap > 0
  BY Constants
<1>2. d = IF a - b < 0 THEN a - b + Wrap ELSE a - b
  BY <1>1
<1>3. d \in 0 .. Wrap - 1
  BY <1>1, <1>2
<1>4. CASE a - b < 0
  <2>1. d + b = a + Wrap
    BY <1>1, <1>2, <1>4
  <2>2. (a + Wrap) % Wrap = a
    BY <1>1
  <2> QED BY <1>1, <1>2, <1>3, <1>4, <2>1, <2>2
<1>5. CASE ~(a - b < 0)
  <2>1. d + b = a
    BY <1>1, <1>2, <1>5
  <2>2. a % Wrap = a
    BY <1>1
  <2> QED BY <1>1, <1>2, <1>3, <1>5, <2>1, <2>2
<1> QED BY <1>4, <1>5

(* The field that goes out is a field.                                     *)
LEMMA FieldTyped ==
  ASSUME NEW d \in 0 .. Wrap - 1
  PROVE  Min({d, Ext}) \in 0 .. Ext
<1>1. Ext \in Nat /\ Wrap \in Nat
  BY Constants
<1>2. Min({d, Ext}) = IF d <= Ext THEN d ELSE Ext
  BY <1>1, MinOf
<1> QED BY <1>1, <1>2

(* The message stream id after the message.                                *)
LEMMA SidIs ==
  ASSUME NEW prev \in Messages \union {NULL}, NEW form, NEW sid, sid = SidAfter(prev, form)
  PROVE  /\ sid \in Nat \union {NULL}
         /\ form # LARGE => sid = IF prev = NULL THEN NULL ELSE prev.sid
  BY DEF SidAfter, Messages

(* What the timestamp is a difference from.                                *)
From(prev, form) == IF prev = NULL \/ form = LARGE THEN 0 ELSE prev.stamp

(* A header of type form says what m is after prev when it leaves out no   *)
(* more than what m has in common with it.                                 *)
LEMMA ShortensWhen ==
  ASSUME NEW prev \in Messages \union {NULL}, NEW m \in Messages, NEW form \in LARGE .. MINIMUM,
         NEW base, base = From(prev, form), NEW delta, delta = (m.stamp - base) % Wrap,
         m.sid = SidAfter(prev, form),
         m.field = IF form = MINIMUM /\ prev # NULL THEN prev.field ELSE Min({delta, Ext}),
         prev = NULL => form <= MEDIUM,
         prev # NULL /\ form >= SMALL => m.size = prev.size /\ m.type = prev.type,
         prev # NULL /\ form # LARGE /\ ~m.drift => ~prev.drift,
         prev # NULL /\ form = MINIMUM /\ ~m.drift => prev.field = delta
  PROVE  Shortens(prev, m, form, delta) /\ delta \in 0 .. Wrap - 1
<1>1. prev # NULL => prev \in Messages
  OBVIOUS
<1>2. m.stamp \in 0 .. Wrap - 1 /\ (prev # NULL => prev.stamp \in 0 .. Wrap - 1)
  BY <1>1 DEF Messages
<1>3. base \in 0 .. Wrap - 1
  <2>1. 0 \in 0 .. Wrap - 1
    BY Constants
  <2> QED BY <1>2, <2>1, Zenon DEF From
<1>4. PICK a : a = m.stamp
  OBVIOUS
<1>5. /\ delta \in 0 .. Wrap - 1 /\ (delta + base) % Wrap = a
      /\ base = 0 => delta = a
  <2>1. a \in 0 .. Wrap - 1 /\ delta = (a - base) % Wrap
    BY <1>2, <1>4, Zenon
  <2> QED BY <1>3, <2>1, Difference
<1>6. form = LARGE \/ prev = NULL => delta = m.stamp
  BY <1>4, <1>5, Zenon DEF From
<1>7. prev = NULL => form # MINIMUM
  BY DEF MEDIUM, MINIMUM
<1>8. m.field = IF form = MINIMUM THEN prev.field ELSE Min({delta, Ext})
  BY <1>7, Zenon
<1>9. form # LARGE => m.sid = IF prev = NULL THEN NULL ELSE prev.sid
  BY Zenon DEF SidAfter
<1>10. prev # NULL /\ form # LARGE => (delta + prev.stamp) % Wrap = m.stamp
  <2>1. prev # NULL /\ form # LARGE => base = prev.stamp
    BY Zenon DEF From
  <2> QED BY <1>4, <1>5, <2>1, Zenon
<1> QED BY <1>5, <1>6, <1>8, <1>9, <1>10, Zenon DEF Shortens

(* The library leaves out what m has in common with prev.                  *)
LEMMA CompressIs ==
  ASSUME NEW prev, NEW m, NEW form \in {LARGE, MEDIUM}, NEW used, used = Compress(prev, m, form)
  PROVE  /\ used \in LARGE .. MINIMUM /\ (used = LARGE <=> form = LARGE)
         /\ used >= SMALL => m.size = prev.size /\ m.type = prev.type
         /\ used = MINIMUM => m.stamp = prev.stamp
<1> USE DEF LARGE, MEDIUM, SMALL, MINIMUM
<1>1. PICK small : small = IF prev.size = m.size /\ prev.type = m.type /\ form = MEDIUM
                           THEN SMALL ELSE form
  OBVIOUS
<1>2. PICK min : min = IF prev.stamp = m.stamp /\ small = SMALL THEN MINIMUM ELSE small
  OBVIOUS
<1>3. used = IF form = LARGE THEN form ELSE min
  BY <1>1, <1>2, Zenon DEF Compress
<1>4. small = SMALL => m.size = prev.size /\ m.type = prev.type
  BY <1>1
<1>5. min = MINIMUM => m.stamp = prev.stamp /\ small = SMALL
  BY <1>1, <1>2
<1>6. form = MEDIUM => small \in {SMALL, MEDIUM} /\ min \in {SMALL, MEDIUM, MINIMUM} /\ (min = SMALL => small = SMALL)
  BY <1>1, <1>2
<1> QED BY <1>3, <1>4, <1>5, <1>6

(* What a header can leave out of them is the same.                        *)
Alike(x, m) == x.size = m.size /\ x.type = m.type /\ x.stamp = m.stamp

(* What the library sends says what it means.                              *)
LEMMA LibraryShortens ==
  ASSUME NEW prev \in Messages \union {NULL}, NEW m \in Messages, NEW form \in {LARGE, MEDIUM},
         NEW x, Alike(x, m),
         NEW used, used = IF prev = NULL THEN form ELSE Compress(prev, x, form),
         NEW delta, delta = (m.stamp - (IF prev = NULL \/ form = LARGE THEN 0 ELSE prev.stamp)) % Wrap,
         m.sid = SidAfter(prev, form),
         m.field = IF used = MINIMUM /\ prev # NULL THEN prev.field ELSE Min({delta, Ext}),
         m.drift <=> used # LARGE /\ prev # NULL /\ (prev.drift \/ (used = MINIMUM /\ prev.field # 0))
  PROVE  Shortens(prev, m, used, delta)
<1>1. /\ used \in LARGE .. MINIMUM /\ (used = LARGE <=> form = LARGE)
      /\ prev # NULL /\ used >= SMALL => m.size = prev.size /\ m.type = prev.type
      /\ prev # NULL /\ used = MINIMUM => m.stamp = prev.stamp
      /\ prev = NULL => used <= MEDIUM
  <2>1. CASE prev = NULL
    BY <2>1 DEF LARGE, MEDIUM, MINIMUM
  <2>2. CASE prev # NULL
    <3>1. used = Compress(prev, x, form)
      BY <2>2, Zenon
    <3>2. /\ used \in LARGE .. MINIMUM /\ (used = LARGE <=> form = LARGE)
          /\ used >= SMALL => x.size = prev.size /\ x.type = prev.type
          /\ used = MINIMUM => x.stamp = prev.stamp
      BY <3>1, CompressIs
    <3> QED BY <2>2, <3>2, Zenon DEF Alike
  <2> QED BY <2>1, <2>2
<1>2. PICK base : base = From(prev, used)
  OBVIOUS
<1>3. delta = (m.stamp - base) % Wrap
  BY <1>1, <1>2, Zenon DEF From
<1>4. m.sid = SidAfter(prev, used)
  BY <1>1, Zenon DEF SidAfter
<1>5. prev # NULL /\ used = MINIMUM /\ ~m.drift => prev.field = delta
  <2> SUFFICES ASSUME prev # NULL, used = MINIMUM, ~m.drift PROVE prev.field = delta
    OBVIOUS
  <2>1. used # LARGE
    BY DEF LARGE, MINIMUM
  <2>2. prev.field = 0
    BY <2>1, Zenon
  <2>3. PICK a : a = m.stamp
    OBVIOUS
  <2>4. a = base
    BY <1>1, <1>2, <2>1, <2>3, Zenon DEF From
  <2>5. a \in 0 .. Wrap - 1
    BY <2>3 DEF Messages
  <2>6. delta = 0
    <3>1. delta = (a - a) % Wrap
      BY <1>3, <2>3, <2>4, Zenon
    <3> QED BY <2>5, <3>1, Difference
  <2> QED BY <2>2, <2>6
<1> QED BY <1>1, <1>2, <1>3, <1>4, <1>5, ShortensWhen

(* And so does a peer.                                                     *)
LEMMA PeerShortens ==
  ASSUME NEW prev \in Messages \union {NULL}, NEW m \in Messages, NEW form \in LARGE .. MINIMUM,
         NEW delta, delta = (m.stamp - (IF form = LARGE THEN 0 ELSE prev.stamp)) % Wrap,
         m.sid = SidAfter(prev, form),
         m.field = IF form = MINIMUM /\ prev # NULL THEN prev.field ELSE Min({delta, Ext}),
         m.drift <=> form # LARGE /\ prev # NULL /\ prev.drift,
         form # LARGE => prev # NULL,
         form >= SMALL => prev.size = m.size /\ prev.type = m.type,
         form = MINIMUM => delta < Ext /\ prev.field = delta
  PROVE  /\ Shortens(prev, m, form, delta)
         /\ form = MINIMUM => m.field # Ext
<1>1. PICK base : base = From(prev, form)
  OBVIOUS
<1>2. delta = (m.stamp - base) % Wrap
  BY <1>1, Zenon DEF From
<1>3. prev = NULL => form <= MEDIUM
  BY DEF LARGE, MEDIUM
<1>4. Shortens(prev, m, form, delta) /\ delta \in 0 .. Wrap - 1
  BY <1>1, <1>2, <1>3, ShortensWhen
<1>5. form = MINIMUM => m.field # Ext
  <2> SUFFICES ASSUME form = MINIMUM PROVE m.field # Ext
    OBVIOUS
  <2>1. prev # NULL
    BY DEF LARGE, MINIMUM
  <2>2. m.field = delta /\ delta < Ext
    BY <2>1, Zenon
  <2>3. Ext \in Nat /\ delta \in Nat
    BY <1>4, Constants
  <2> QED BY <2>2, <2>3
<1> QED BY <1>4, <1>5

-----------------------------------------------------------------------------
(* The writer's steps. *)

(* On a channel other than ch nothing has happened. *)
LEMMA AgreeOnKept ==
  ASSUME NEW s, NEW t, NEW d \in Channels, AgreeOn(s, d), t.inChunk = s.inChunk,
         t.vecIn[d] = s.vecIn[d], t.channelTs[d] = s.channelTs[d], t.due[d] = s.due[d]
  PROVE  AgreeOn(t, d)
<1>1. None(s, d) => None(t, d)
  BY Zenon DEF None
<1>2. \A m : Done(s, d, m) => Done(t, d, m)
  BY Zenon DEF Done
<1>3. \A m, ext, k : Half(s, d, m, ext, k) => Half(t, d, m, ext, k)
  BY Zenon DEF Half
<1>4. \A u, m : Rest(s, u, m, d) => Rest(t, u, m, d)
  BY <1>3, Zenon DEF Rest
<1> QED BY <1>1, <1>2, <1>4 DEF AgreeOn

(* Reader and writer agree on all other channels than ch. *)
AgreeBut(s, ch) == /\ ~staleChunk => s.inChunk = outChunk
                   /\ \A d \in Channels \ {ch} : AgreeOn(s, d)

(* They do when a message on ch is due. *)
LEMMA AgreeButOwes ==
  ASSUME NEW s \in States, Agree(s), NEW ch \in Channels, NEW m \in Messages
  PROVE  AgreeBut(Owes(s, ch, m), ch)
<1>1. PICK t : t = Owes(s, ch, m)
  OBVIOUS
<1>2. /\ t.inChunk = s.inChunk /\ t.vecIn = s.vecIn /\ t.channelTs = s.channelTs
      /\ t.due = [s.due EXCEPT ![ch] = Append(s.due[ch], m)]
  BY <1>1, OwesFields
<1>3. s.due \in [Channels -> Seq(Messages)]
  BY StateTyped
<1>4. ASSUME NEW d \in Channels \ {ch} PROVE AgreeOn(t, d)
  <2>1. t.due[d] = s.due[d]
    BY <1>2, <1>3
  <2>2. AgreeOn(s, d)
    BY Zenon DEF Agree
  <2> QED BY <1>2, <2>1, <2>2, AgreeOnKept
<1>5. ~staleChunk => t.inChunk = outChunk
  BY <1>2, Zenon DEF Agree
<1> QED BY <1>1, <1>4, <1>5, Zenon DEF AgreeBut

(* They still do when a chunk of ch has been read. *)
LEMMA AgreeButStep ==
  ASSUME NEW s, NEW ch, AgreeBut(s, ch), NEW t, Elsewhere(s, t, ch)
  PROVE  AgreeBut(t, ch)
<1>1. ASSUME NEW d \in Channels \ {ch} PROVE AgreeOn(t, d)
  <2>1. AgreeOn(s, d)
    BY Zenon DEF AgreeBut
  <2>2. /\ t.inChunk = s.inChunk /\ t.vecIn[d] = s.vecIn[d]
        /\ t.channelTs[d] = s.channelTs[d] /\ t.due[d] = s.due[d]
    BY Zenon DEF Elsewhere
  <2> QED BY <2>1, <2>2, AgreeOnKept
<1>2. ~staleChunk => t.inChunk = outChunk
  BY Zenon DEF AgreeBut, Elsewhere
<1> QED BY <1>1, <1>2, Zenon DEF AgreeBut

(* And they agree on all channels when they agree on ch as well. *)
LEMMA AgreeAfter ==
  ASSUME NEW s, NEW ch \in Channels, AgreeBut(s, ch), UNCHANGED <<outChunk, staleChunk>>,
         \A d \in Channels \ {ch} : prevOut'[d] = prevOut[d] /\ unfinished'[d] = unfinished[d],
         AgreeOn(s, ch)'
  PROVE  Agree(s)'
<1>1. ASSUME NEW d \in Channels \ {ch} PROVE AgreeOn(s, d)'
  <2>1. AgreeOn(s, d)
    BY Zenon DEF AgreeBut
  <2>2. prevOut'[d] = prevOut[d] /\ unfinished'[d] = unfinished[d] /\ outChunk' = outChunk
    OBVIOUS
  <2> QED BY <2>1, <2>2 DEF AgreeOn, Rest
<1>2. (~staleChunk => s.inChunk = outChunk)'
  BY DEF AgreeBut
<1> QED BY <1>1, <1>2, Zenon DEF Agree

(* Before a message, the channel's last one is known to a reader that      *)
(* agrees.                                                                 *)
LEMMA BeforeMessage ==
  ASSUME NEW s \in States, NEW ch \in Channels, AgreeOn(s, ch), unfinished[ch] = NULL,
         NEW m \in Messages
  PROVE  Before(Owes(s, ch, m), ch, prevOut[ch]) /\ Owes(s, ch, m).due[ch] = <<m>>
<1>1. PICK t : t = Owes(s, ch, m)
  OBVIOUS
<1>2. /\ t.inChunk = s.inChunk /\ t.vecIn = s.vecIn /\ t.channelTs = s.channelTs
      /\ t.due = [s.due EXCEPT ![ch] = Append(s.due[ch], m)]
  BY <1>1, OwesFields
<1>3. s.due \in [Channels -> Seq(Messages)]
  BY StateTyped
<1>4. prevOut[ch] = NULL => None(s, ch)
  BY DEF AgreeOn
<1>5. prevOut[ch] # NULL => Done(s, ch, prevOut[ch])
  BY DEF AgreeOn
<1>6. Before(t, ch, prevOut[ch])
  BY <1>2, <1>4, <1>5, Zenon DEF Before, None, Done
<1>7. s.due[ch] = <<>>
  BY <1>4, <1>5, Zenon DEF None, Done
<1>8. t.due[ch] = <<m>>
  BY <1>2, <1>3, <1>7
<1> QED BY <1>1, <1>6, <1>8

(* The end of a run, when it has read the wire as it was and one chunk     *)
(* more.                                                                   *)
ReadOne(run, ch, m, ext, l) ==
  /\ Len(run) = Len(wire) + 2
  /\ Reached(run[Len(run)], ch, m, ext, l) /\ AgreeBut(run[Len(run)], ch)
  /\ l = Min({run[Len(run)].inChunk, m.size})

(* What comes of a first chunk: it is read, or the reader is stuck for one *)
(* of the two reasons.                                                     *)
Outcome(ch, m, form, ext, l, v) ==
  \E run : /\ Leads(run, Owes(Reader, ch, m), v)
           /\ \/ (risk \/ staleChunk) /\ Stops(run, v)
              \/ form = MINIMUM /\ m.field = Ext /\ Stops(run, v)
              \/ ReadOne(run, ch, m, ext, l)

(* The first chunk c of a message m goes out, perhaps with others after    *)
(* it, and nothing else of its channel is under way.                       *)
LEMMA FirstGoes ==
  ASSUME ChunksInv, status = "up", NEW ch \in Channels, unfinished[ch] = NULL,
         NEW m \in Messages, NEW form, NEW delta, Shortens(prevOut[ch], m, form, delta),
         NEW c, IsFirst(c, m, form, delta), Goes(c, ch),
         NEW l \in Nat, l <= m.size, l = Min({outChunk, m.size}), NextBytes(c, m, 0, l),
         NEW T, NEW v \in Seq(T), Sooner(wire, v), Len(wire) < Len(v), v[Len(wire) + 1] = c
  PROVE  Outcome(ch, m, form, c.ext, l, v)
<1> SUFFICES \E run : /\ Leads(run, Owes(Reader, ch, m), v)
                      /\ \/ (risk \/ staleChunk) /\ Stops(run, v)
                         \/ form = MINIMUM /\ m.field = Ext /\ Stops(run, v)
                         \/ ReadOne(run, ch, m, c.ext, l)
  BY Zenon DEF Outcome
<1>1. PICK run : Leads(run, Reader, wire) /\ Settled(run, wire)
  BY Zenon DEF ChunksInv
<1>2. PICK S : wire \in Seq(S)
  BY Zenon DEF ChunksInv, WriterTyped
<1>3. run \in Seq(States) /\ Len(run) \in 1 .. Len(wire) + 1
  BY <1>1, Zenon DEF Leads
<1>4. Len(wire) \in Nat /\ Len(v) \in Nat
  BY <1>2
<1>5. PICK r : r = OwesAll(run, ch, m)
  OBVIOUS
<1>6. /\ Leads(r, Owes(Reader, ch, m), wire) /\ Len(r) = Len(run)
      /\ \A i \in 1 .. Len(run) : r[i] = Owes(run[i], ch, m)
  BY <1>1, <1>5, OwesRun
<1>7. PICK n, s : n = Len(run) /\ s = run[n]
  OBVIOUS
<1>8. n \in 1 .. Len(wire) + 1 /\ s \in States /\ r[n] = Owes(s, ch, m) /\ Len(r) = n
  <2>1. n \in 1 .. Len(run)
    BY <1>3, <1>4, <1>7
  <2> QED BY <1>3, <1>6, <1>7, <2>1
<1>9. Leads(r, Owes(Reader, ch, m), v)
  BY <1>2, <1>6, LongerWire
<1>10. CASE n <= Len(wire) /\ (risk \/ staleChunk) /\ Stuck(s, wire[n])
  <2>1. Stuck(Owes(s, ch, m), wire[n])
    BY <1>8, <1>10, OwesStuck
  <2>2. v[n] = wire[n]
    BY <1>4, <1>8, <1>10 DEF Sooner
  <2>3. n <= Len(v)
    BY <1>4, <1>8, <1>10
  <2>4. Stops(r, v)
    BY <1>8, <2>1, <2>2, <2>3, Zenon DEF Stops
  <2> QED BY <1>9, <1>10, <2>4, Zenon
<1>11. CASE n = Len(wire) + 1 /\ Agree(s)
  <2>1. PICK o, prev : o = Owes(s, ch, m) /\ prev = prevOut[ch]
    OBVIOUS
  <2>2. prev \in Messages \union {NULL}
    BY <2>1 DEF ChunksInv, WriterTyped
  <2>3. AgreeOn(s, ch)
    BY <1>11, Zenon DEF Agree
  <2>4. o \in States /\ o.inChunk = s.inChunk
    <3>1. PICK t : t = Owes(s, ch, m)
      OBVIOUS
    <3>2. /\ t \in States /\ t.inChunk = s.inChunk /\ t.vecIn = s.vecIn /\ t.channelTs = s.channelTs
          /\ t.packet = s.packet /\ t.due = [s.due EXCEPT ![ch] = Append(s.due[ch], m)]
      BY <1>8, <3>1, OwesFields
    <3> QED BY <2>1, <3>1, <3>2, Zenon
  <2>5. Before(o, ch, prev) /\ o.due[ch] = <<m>>
    BY <1>8, <2>1, <2>3, BeforeMessage, Zenon
  <2>6. AgreeBut(o, ch)
    BY <1>8, <1>11, <2>1, AgreeButOwes, Zenon
  <2>7. Shortens(prev, m, form, delta)
    BY <2>1, Zenon
  <2>8. \/ /\ l = Min({o.inChunk, m.size})
           /\ \E u \in States : Step(o, c, u) /\ Elsewhere(o, u, ch) /\ Reached(u, ch, m, c.ext, l)
        \/ Stuck(o, c) /\ (~Announced(m, c.ext) \/ l # Min({o.inChunk, m.size}))
    BY <2>2, <2>4, <2>5, <2>7, FirstRead, Zenon
  <2>9. r[Len(r)] = o /\ v[Len(r)] = c /\ Len(r) <= Len(v)
    BY <1>4, <1>8, <1>11, <2>1
  <2>10. CASE l = Min({o.inChunk, m.size})
    <3>1. CASE \E u \in States : Step(o, c, u) /\ Elsewhere(o, u, ch) /\ Reached(u, ch, m, c.ext, l)
      <4>1. PICK u \in States : Step(o, c, u) /\ Elsewhere(o, u, ch) /\ Reached(u, ch, m, c.ext, l)
        BY <3>1
      <4>2. PICK x : x = Append(r, u)
        OBVIOUS
      <4>3. Leads(x, Owes(Reader, ch, m), v) /\ Len(x) = Len(r) + 1 /\ x[Len(r) + 1] = u
        <5>1. Step(r[Len(r)], v[Len(r)], u)
          BY <2>9, <4>1, Zenon
        <5> QED BY <1>9, <2>9, <4>2, <5>1, LongerRun
      <4>4. x[Len(x)] = u /\ Len(x) = Len(wire) + 2
        BY <1>4, <1>8, <1>11, <4>3
      <4>5. AgreeBut(u, ch)
        BY <2>6, <4>1, AgreeButStep, Zenon
      <4>6. u.inChunk = o.inChunk
        BY <4>1, Zenon DEF Elsewhere
      <4>7. ReadOne(x, ch, m, c.ext, l)
        BY <2>10, <4>1, <4>4, <4>5, <4>6, Zenon DEF ReadOne
      <4> QED BY <4>3, <4>7, Zenon
    <3>2. CASE Stuck(o, c) /\ ~Announced(m, c.ext)
      <4>1. Stops(r, v)
        BY <2>9, <3>2, Zenon DEF Stops
      <4>2. form = MINIMUM
        <5>1. PICK p : p = HeaderIn(o, c, ch)
          OBVIOUS
        <5>2. form # MINIMUM => Announced(m, c.ext)
          BY <2>2, <2>4, <2>5, <2>7, <5>1, FirstHeader
        <5> QED BY <3>2, <5>2, Zenon
      <4>3. c.ext = NULL
        <5>1. ~(form <= SMALL)
          BY <4>2 DEF MINIMUM, SMALL
        <5> QED BY <5>1, Zenon DEF IsFirst
      <4>4. m.field = Ext
        BY <3>2, <4>3, Zenon DEF Announced
      <4> QED BY <1>9, <4>1, <4>2, <4>4, Zenon
    <3> QED BY <2>8, <2>10, <3>1, <3>2, Zenon
  <2>11. CASE l # Min({o.inChunk, m.size})
    <3>1. Stuck(o, c)
      BY <2>8, <2>11, Zenon
    <3>2. Stops(r, v)
      BY <2>9, <3>1, Zenon DEF Stops
    <3>3. staleChunk
      BY <1>11, <2>4, <2>11, Zenon DEF Agree
    <3> QED BY <1>9, <3>2, <3>3, Zenon
  <2> QED BY <2>10, <2>11
<1> QED BY <1>1, <1>7, <1>10, <1>11, Zenon DEF Settled

(* One chunk more on the wire. *)
LEMMA WireAppend ==
  ASSUME NEW S, NEW w \in Seq(S), NEW c, NEW v, v = Append(w, c)
  PROVE  /\ v \in Seq(S \union {c}) /\ Sooner(w, v) /\ Len(v) = Len(w) + 1 /\ v[Len(w) + 1] = c
         /\ Len(w) \in Nat
<1>1. v \in Seq(S \union {c})
  <2>1. w \in Seq(S \union {c}) /\ c \in S \union {c}
    BY SeqMonotonic
  <2> QED BY <2>1
<1>2. Len(v) = Len(w) + 1 /\ v[Len(w) + 1] = c /\ Len(w) \in Nat
  OBVIOUS
<1>3. \A i \in 1 .. Len(w) : v[i] = w[i]
  OBVIOUS
<1> QED BY <1>1, <1>2, <1>3 DEF Sooner

(* A message that is due does not change what has been read.               *)
LEMMA ReaderOwes ==
  ASSUME ChunksInv, NEW ch \in Channels, NEW m \in Messages, UNCHANGED readerVars,
         due' = [due EXCEPT ![ch] = Append(@, m)]
  PROVE  /\ Reader' = Owes(Reader, ch, m)
         /\ (Reader \in States /\ Clean(Reader))'
<1>1. PICK s, t : s = Reader /\ t = Reader'
  OBVIOUS
<1>2. /\ s.inChunk = inChunk /\ s.vecIn = vecIn /\ s.channelTs = channelTs
      /\ s.packet = packet /\ s.due = due /\ s \in States
      /\ s = State(inChunk, vecIn, channelTs, packet, due)
  BY <1>1, ReaderFields, Zenon DEF ChunksInv
<1>3. t = State(inChunk, vecIn, channelTs, packet, [due EXCEPT ![ch] = Append(due[ch], m)])
  BY <1>1 DEF Reader, State, readerVars
<1>4. PICK d : d = [due EXCEPT ![ch] = Append(due[ch], m)]
  OBVIOUS
<1>5. [s EXCEPT !.due = d] = State(inChunk, vecIn, channelTs, packet, d)
  BY <1>2 DEF State
<1>6. t = Owes(s, ch, m)
  BY <1>2, <1>3, <1>4, <1>5, Zenon DEF Owes
<1>7. /\ t \in States /\ t.inChunk = s.inChunk /\ t.vecIn = s.vecIn /\ t.channelTs = s.channelTs
      /\ t.packet = s.packet /\ t.due = [s.due EXCEPT ![ch] = Append(s.due[ch], m)]
  <2>1. s \in States
    BY <1>2
  <2> QED BY <1>6, <2>1, OwesFields
<1>8. s.due \in [Channels -> Seq(Messages)]
  BY <1>2, StateTyped
<1>9. t.due[ch] # <<>>
  <2>1. s.due[ch] \in Seq(Messages)
    BY <1>8
  <2>2. Append(s.due[ch], m) # <<>>
    BY <2>1, AppendFacts
  <2> QED BY <1>7, <1>8, <2>2
<1>10. ASSUME NEW e \in Channels, e # ch PROVE t.due[e] = s.due[e]
  BY <1>7, <1>8, <1>10
<1>11. Clean(s)
  BY <1>1, Zenon DEF ChunksInv
<1>12. Clean(t)
  BY <1>7, <1>9, <1>10, <1>11, Zenon DEF Clean
<1> QED BY <1>1, <1>6, <1>7, <1>12, Zenon DEF Clean

(* The peer announces another chunk size when no message is under way.     *)
LEMMA PeerChangesChunkSizeInv ==
  ASSUME ChunksInv, NEW n \in ChunkSizes, PeerChangesChunkSize(n)
  PROVE  ChunksInv'
<1>1. PICK c : c = [chunkSize |-> n]
  OBVIOUS
<1>2. /\ status = "up" /\ \A ch \in Channels : unfinished[ch] = NULL
      /\ wire' = Append(wire, c) /\ outChunk' = n
      /\ UNCHANGED <<writer, sentCount, prevOut, unfinished, risk, losses, readerVars, due, last,
                     staleChunk, status>>
  BY <1>1, Zenon DEF PeerChangesChunkSize, MayWrite
<1>3. n \in Nat \ {0}
  BY Constants
<1>4. IsSize(c) /\ c.chunkSize = n
  BY <1>1 DEF IsSize
<1>5. PICK S : wire \in Seq(S)
  BY Zenon DEF ChunksInv, WriterTyped
<1>6. PICK v : v = Append(wire, c)
  OBVIOUS
<1>7. /\ v \in Seq(S \union {c}) /\ Sooner(wire, v) /\ Len(v) = Len(wire) + 1
      /\ v[Len(wire) + 1] = c /\ Len(wire) \in Nat
  BY <1>5, <1>6, WireAppend
<1>8. Reader' = Reader
  BY <1>2 DEF Reader, readerVars
<1>9. PICK run : Leads(run, Reader, wire) /\ Settled(run, wire)
  BY <1>2, Zenon DEF ChunksInv
<1>10. Leads(run, Reader, v)
  BY <1>5, <1>7, <1>9, LongerWire
<1>11. run \in Seq(States) /\ Len(run) \in 1 .. Len(wire) + 1
  BY <1>9, Zenon DEF Leads
<1>12. \E r : Leads(r, Reader, v) /\ (Settled(r, wire))'
  <2>1. CASE Len(run) <= Len(wire) /\ (risk \/ staleChunk) /\ Stuck(run[Len(run)], wire[Len(run)])
    <3>1. v[Len(run)] = wire[Len(run)] /\ Len(run) <= Len(v)
      BY <1>7, <1>11, <2>1 DEF Sooner
    <3>2. Stuck(run[Len(run)], v[Len(run)]) /\ (risk' \/ staleChunk') /\ v = wire'
      BY <1>2, <1>6, <2>1, <3>1
    <3>3. Settled(run, wire)'
      BY <3>1, <3>2, Zenon DEF Settled
    <3> QED BY <1>10, <3>3, Zenon
  <2>2. CASE Len(run) = Len(wire) + 1 /\ Agree(run[Len(run)])
    <3>1. PICK s, t : s = run[Len(run)] /\ t = [s EXCEPT !.inChunk = n]
      OBVIOUS
    <3>2. s \in States
      BY <1>11, <2>2, <3>1
    <3>3. /\ s = State(s.inChunk, s.vecIn, s.channelTs, s.packet, s.due)
          /\ s.vecIn \in [Channels -> Packets \union {NULL}]
          /\ s.channelTs \in [Channels -> 0 .. Wrap - 1] /\ s.packet \in Packets
          /\ s.due \in [Channels -> Seq(Messages)]
      BY <3>2, StateTyped
    <3>4. t = State(n, s.vecIn, s.channelTs, s.packet, s.due)
      BY <3>1, <3>3 DEF State
    <3>5. t \in States
      BY <1>3, <3>3, <3>4, StateMade, Zenon DEF IsState
    <3>6. t.inChunk = n /\ t.vecIn = s.vecIn /\ t.channelTs = s.channelTs /\ t.due = s.due
      BY <3>4 DEF State
    <3>7. ASSUME NEW ch \in Channels PROVE AgreeOn(t, ch)'
      <4>1. AgreeOn(s, ch)
        BY <2>2, <3>1, Zenon DEF Agree
      <4>2. unfinished[ch] = NULL /\ unfinished'[ch] = NULL /\ prevOut'[ch] = prevOut[ch]
        BY <1>2, Zenon
      <4>3. prevOut[ch] = NULL => None(t, ch)
        BY <3>6, <4>1 DEF AgreeOn, None
      <4>4. prevOut[ch] # NULL => Done(t, ch, prevOut[ch])
        BY <3>6, <4>1, <4>2 DEF AgreeOn, Done
      <4> QED BY <4>2, <4>3, <4>4 DEF AgreeOn
    <3>8. Agree(t)'
      BY <1>2, <3>6, <3>7 DEF Agree
    <3>9. Step(s, c, t)
      BY <1>4, <3>1, Zenon DEF Step, ReadsSize
    <3>10. PICK r : r = Append(run, t)
      OBVIOUS
    <3>11. Leads(r, Reader, v) /\ Len(r) = Len(run) + 1 /\ r[Len(run) + 1] = t
      <4>1. Step(run[Len(run)], v[Len(run)], t) /\ Len(run) <= Len(v)
        BY <1>7, <2>2, <3>1, <3>9
      <4> QED BY <1>7, <1>10, <3>5, <3>10, <4>1, LongerRun
    <3>12. Len(r) = Len(v) + 1 /\ r[Len(r)] = t
      BY <1>7, <2>2, <3>11
    <3>13. Settled(r, wire)'
      BY <1>2, <1>6, <3>8, <3>12, Zenon DEF Settled
    <3> QED BY <3>11, <3>13, Zenon
  <2> QED BY <1>9, <2>1, <2>2, Zenon DEF Settled
<1>13. (\E S1 : wire \in Seq(S1))'
  BY <1>2, <1>6, <1>7
<1>14. WriterTyped'
  BY <1>2, <1>3, <1>13 DEF ChunksInv, WriterTyped
<1>15. (Reader \in States /\ Clean(Reader))'
  BY <1>8, Zenon DEF ChunksInv, Clean
<1>16. (last # NULL => Same(last.read, last.sent))' /\ (status = "misread" => risk \/ staleChunk)'
  BY <1>2 DEF ChunksInv
<1>17. (\E r : Leads(r, Reader, wire) /\ Settled(r, wire))'
  BY <1>2, <1>6, <1>8, <1>12, Zenon
<1> QED BY <1>14, <1>15, <1>16, <1>17, Zenon DEF ChunksInv

(* The chunk c is the first one of m, with l bytes.                        *)
Begins(c, m, ch, form, delta, out, l) ==
  /\ IsFirst(c, m, form, delta) /\ Goes(c, ch)
  /\ l \in Nat /\ l <= m.size /\ l <= out /\ NextBytes(c, m, 0, l)
  /\ (ChunkCount(m.size, out) = 1) <=> (m.size <= out)
  /\ m.size <= out => l = m.size
  /\ ~(m.size <= out) => l = out
  /\ ChunkCount(m.size, out) \in Nat \ {0}

(* The first chunk of a message has its first bytes.                       *)
LEMMA FirstBytes ==
  ASSUME NEW x, NEW m \in Messages, x.id = m.id, x.channel = m.channel, x.type = m.type,
         x.sid = m.sid, x.size = m.size, NEW ch \in Channels, m.channel = ch,
         NEW form, NEW delta, NEW out \in Nat \ {0}, NEW piece,
         piece = Piece(Body(m.id, m.size), 0, out), NEW c, c = FirstChunk(x, form, delta, piece),
         NEW l, l = Min({out, m.size})
  PROVE  Begins(c, m, ch, form, delta, out, l)
<1>1. IsFirst(c, x, form, delta) /\ Goes(c, ch) /\ c.body = piece
  BY FirstIs
<1>2. IsFirst(c, m, form, delta)
  BY <1>1, Zenon DEF IsFirst
<1>3. PICK id, n : id = m.id /\ n = m.size
  OBVIOUS
<1>4. id \in Nat /\ n \in Nat
  BY <1>3 DEF Messages
<1>5. /\ l \in Nat /\ l <= n /\ l <= out
      /\ Piece(Body(id, n), 0, out) = Part(id, n, 0, l)
      /\ (ChunkCount(n, out) = 1) <=> (n <= out)
      /\ n <= out => l = n
      /\ ~(n <= out) => l = out
      /\ ChunkCount(n, out) \in Nat \ {0}
  BY <1>3, <1>4, FirstOfBody
<1>6. NextBytes(c, m, 0, l)
  BY <1>1, <1>3, <1>5, Zenon DEF NextBytes
<1> QED BY <1>1, <1>2, <1>3, <1>5, <1>6, Zenon DEF Begins

(* What the peer has still to send of a message is typed.                  *)
LEMMA OutTyped ==
  ASSUME NEW m \in Messages, NEW ext \in Nat \union {NULL}, NEW rest \in Seq(Nat \X Nat), NEW u,
         u = [message |-> m, ext |-> ext, rest |-> rest]
  PROVE  u \in OutMessages /\ u # NULL /\ u.message = m /\ u.ext = ext /\ u.rest = rest
<1>1. u \in OutMessages
  BY DEF OutMessages
<1> QED BY <1>1, Constants

(* The peer starts a message.                                              *)
LEMMA PeerStartsInv ==
  ASSUME ChunksInv, NEW ch \in Channels, NEW type \in Types, NEW size \in Sizes,
         NEW stamp \in Stamps, NEW form \in LARGE .. MINIMUM,
         PeerStarts(ch, type, size, stamp, form)
  PROVE  ChunksInv'
<1>1. PICK prev, sid, delta : /\ prev = prevOut[ch] /\ sid = SidAfter(prev, form)
                              /\ delta = (stamp - (IF form = LARGE THEN 0 ELSE prev.stamp)) % Wrap
  OBVIOUS
<1>2. PICK m, field : m = Message(ch, type, sid, size, stamp) /\ field = Min({delta, Ext})
  OBVIOUS
<1>3. PICK piece, c, sent : /\ piece = Piece(Body(m.id, size), 0, outChunk)
                            /\ c = FirstChunk(m, form, delta, piece)
                            /\ sent = Sent(m, form, field)
  OBVIOUS
<1>4. PICK rest, u : /\ rest = SubSeq(Body(m.id, size), outChunk + 1, size)
                     /\ u = [message |-> m, ext |-> c.ext, rest |-> rest]
  OBVIOUS
<1>5. PICK out : out = IF ChunkCount(size, outChunk) = 1 THEN NULL ELSE u
  OBVIOUS
<1>6. /\ writer = "peer" /\ status = "up" /\ unfinished[ch] = NULL
      /\ form # LARGE => prev # NULL
      /\ form >= SMALL => prev.size = size /\ prev.type = type
      /\ form = MINIMUM => delta < Ext /\ prev.field = delta
      /\ wire' = Append(wire, c)
      /\ unfinished' = [unfinished EXCEPT ![ch] = out]
      /\ prevOut' = [prevOut EXCEPT ![ch] = sent]
      /\ due' = [due EXCEPT ![ch] = Append(@, sent)]
      /\ sentCount' = sentCount + 1
      /\ UNCHANGED <<writer, outChunk, risk, losses, readerVars, last, staleChunk, status>>
  BY <1>1, <1>2, <1>3, <1>4, <1>5, Zenon DEF PeerStarts, MayWrite
<1>7. WriterTyped
  BY Zenon DEF ChunksInv
<1>8. prev \in Messages \union {NULL} /\ outChunk \in Nat \ {0}
  BY <1>1, <1>7 DEF WriterTyped
<1>9. sid \in Nat \union {NULL}
  BY <1>1, <1>8, SidIs
<1>10. delta \in 0 .. Wrap - 1
  <2>1. PICK base : base = IF form = LARGE THEN 0 ELSE prev.stamp
    OBVIOUS
  <2>2. base \in 0 .. Wrap - 1
    <3>1. 0 \in 0 .. Wrap - 1
      BY Constants
    <3>2. form # LARGE => prev.stamp \in 0 .. Wrap - 1
      BY <1>6, <1>8 DEF Messages
    <3> QED BY <2>1, <3>1, <3>2, Zenon
  <2>3. stamp \in 0 .. Wrap - 1
    BY Constants
  <2>4. delta = (stamp - base) % Wrap
    BY <1>1, <2>1, Zenon
  <2> QED BY <2>2, <2>3, <2>4, Difference
<1>11. field \in 0 .. Ext
  BY <1>2, <1>10, FieldTyped
<1>12. /\ m \in Messages /\ sent \in Messages
       /\ m.id = sentCount /\ m.channel = ch /\ m.type = type /\ m.sid = sid
       /\ m.size = size /\ m.stamp = stamp
       /\ sent.id = sentCount /\ sent.channel = ch /\ sent.type = type /\ sent.sid = sid
       /\ sent.size = size /\ sent.stamp = stamp
       /\ sent.field = IF form = MINIMUM /\ prev # NULL THEN prev.field ELSE field
       /\ sent.drift <=> /\ form # LARGE /\ prev # NULL
                         /\ prev.drift \/ (writer = "library" /\ form = MINIMUM /\ prev.field # 0)
  BY <1>1, <1>2, <1>3, <1>7, <1>9, <1>11, SentIs
<1>13. /\ Shortens(prev, sent, form, delta)
       /\ form = MINIMUM => sent.field # Ext
  <2>1. sent.drift <=> form # LARGE /\ prev # NULL /\ prev.drift
    BY <1>6, <1>12
  <2>2. delta = (sent.stamp - (IF form = LARGE THEN 0 ELSE prev.stamp)) % Wrap
    BY <1>1, <1>12, Zenon
  <2>3. sent.sid = SidAfter(prev, form)
    BY <1>1, <1>12, Zenon
  <2>4. sent.field = IF form = MINIMUM /\ prev # NULL THEN prev.field ELSE Min({delta, Ext})
    BY <1>2, <1>12, Zenon
  <2>5. form >= SMALL => prev.size = sent.size /\ prev.type = sent.type
    BY <1>6, <1>12, Zenon
  <2> QED BY <1>6, <1>8, <1>12, <2>1, <2>2, <2>3, <2>4, <2>5, PeerShortens
<1>14. PICK l : l = Min({outChunk, sent.size})
  OBVIOUS
<1>15. /\ IsFirst(c, sent, form, delta) /\ Goes(c, ch)
       /\ l \in Nat /\ l <= sent.size /\ l <= outChunk /\ NextBytes(c, sent, 0, l)
       /\ (ChunkCount(sent.size, outChunk) = 1) <=> (sent.size <= outChunk)
       /\ sent.size <= outChunk => l = sent.size
       /\ ~(sent.size <= outChunk) => l = outChunk
  <2>1. piece = Piece(Body(sent.id, sent.size), 0, outChunk)
    BY <1>3, <1>12, Zenon
  <2>2. Begins(c, sent, ch, form, delta, outChunk, l)
    BY <1>3, <1>8, <1>12, <1>14, <2>1, FirstBytes
  <2> QED BY <2>2, Zenon DEF Begins
<1>16. PICK S : wire \in Seq(S)
  BY <1>7, Zenon DEF WriterTyped
<1>17. PICK v : v = Append(wire, c)
  OBVIOUS
<1>18. /\ v \in Seq(S \union {c}) /\ Sooner(wire, v) /\ Len(v) = Len(wire) + 1
       /\ v[Len(wire) + 1] = c /\ Len(wire) \in Nat
  BY <1>16, <1>17, WireAppend
<1>19. Len(wire) < Len(v)
  BY <1>18
<1>20. Shortens(prevOut[ch], sent, form, delta)
  BY <1>1, <1>13, Zenon
<1>21. PICK run : /\ Leads(run, Owes(Reader, ch, sent), v)
                  /\ \/ (risk \/ staleChunk) /\ Stops(run, v)
                     \/ form = MINIMUM /\ sent.field = Ext /\ Stops(run, v)
                     \/ ReadOne(run, ch, sent, c.ext, l)
  <2>1. Outcome(ch, sent, form, c.ext, l, v)
    BY <1>6, <1>12, <1>14, <1>15, <1>18, <1>19, <1>20, FirstGoes
  <2> QED BY <2>1, Zenon DEF Outcome
<1>22. Reader' = Owes(Reader, ch, sent) /\ (Reader \in States /\ Clean(Reader))'
  BY <1>6, <1>12, ReaderOwes
<1>23. sent \in Messages /\ sent # NULL /\ sent.size \in Nat /\ sent.id \in Nat
  BY <1>12, Constants DEF Messages
<1>24. c.ext \in Nat \union {NULL}
  BY <1>10, <1>15 DEF IsFirst
<1>25. sent.size > outChunk => rest \in Seq(Nat \X Nat)
  <2> SUFFICES ASSUME sent.size > outChunk PROVE rest \in Seq(Nat \X Nat)
    OBVIOUS
  <2>1. PICK id, n, k : id = sent.id /\ n = sent.size /\ k = sent.size - outChunk
    OBVIOUS
  <2>2. id \in Nat /\ n \in Nat /\ k \in Nat /\ outChunk \in Nat /\ outChunk + k = n
    BY <1>8, <1>23, <2>1
  <2>3. Body(id, n) \in Seq(Nat \X Nat) /\ Len(Body(id, n)) = n
    BY <2>2, BodyFacts
  <2>4. SubSeq(Body(id, n), outChunk + 1, outChunk + k) \in Seq(Nat \X Nat)
    BY <2>2, <2>3, Parts
  <2>5. rest = SubSeq(Body(id, n), outChunk + 1, n)
    BY <1>4, <1>12, <2>1, Zenon
  <2> QED BY <2>2, <2>4, <2>5, Zenon
<1>26. sent.size > outChunk =>
         u \in OutMessages /\ u # NULL /\ u.message = m /\ u.ext = c.ext /\ u.rest = rest
  <2> SUFFICES ASSUME sent.size > outChunk
               PROVE  u \in OutMessages /\ u # NULL /\ u.message = m /\ u.ext = c.ext /\ u.rest = rest
    OBVIOUS
  <2>1. PICK e : e = c.ext
    OBVIOUS
  <2>2. e \in Nat \union {NULL} /\ rest \in Seq(Nat \X Nat) /\ m \in Messages
    BY <1>12, <1>24, <1>25, <2>1
  <2>3. u = [message |-> m, ext |-> e, rest |-> rest]
    BY <1>4, <2>1, Zenon
  <2> QED BY <2>1, <2>2, <2>3, OutTyped
<1>27. /\ sent.size <= outChunk => out = NULL
       /\ ~(sent.size <= outChunk) => out = u
  BY <1>5, <1>12, <1>15, Zenon
<1>28. unfinished \in [Channels -> OutMessages \union {NULL}] /\ prevOut \in [Channels -> Messages \union {NULL}]
  BY <1>7, Zenon DEF WriterTyped
<1>29. /\ prevOut'[ch] = sent /\ unfinished'[ch] = out
       /\ \A d \in Channels \ {ch} : prevOut'[d] = prevOut[d] /\ unfinished'[d] = unfinished[d]
  BY <1>6, <1>28
<1>30. out \in OutMessages \union {NULL}
  <2>1. sent.size > outChunk <=> ~(sent.size <= outChunk)
    BY <1>8, <1>23
  <2> QED BY <1>26, <1>27, <2>1, Zenon
<1>31. WriterTyped'
  <2>1. (\E S1 : wire \in Seq(S1))'
    BY <1>6, <1>17, <1>18
  <2>2. unfinished' \in [Channels -> OutMessages \union {NULL}]
    BY <1>6, <1>28, <1>30
  <2>3. prevOut' \in [Channels -> Messages \union {NULL}]
    BY <1>6, <1>12, <1>28
  <2>4. sentCount' \in Nat /\ outChunk' \in Nat \ {0} /\ {risk', staleChunk'} \subseteq BOOLEAN
    BY <1>6, <1>7 DEF WriterTyped
  <2>5. writer' # "library"
    BY <1>6
  <2> QED BY <2>1, <2>2, <2>3, <2>4, <2>5, Zenon DEF WriterTyped
<1>32. Settled(run, wire)'
  <2>1. v = wire' /\ risk' = risk /\ staleChunk' = staleChunk
    BY <1>6, <1>17
  <2>2. CASE (risk \/ staleChunk) /\ Stops(run, v)
    <3>1. (risk' \/ staleChunk') /\ Len(run) <= Len(v) /\ Stuck(run[Len(run)], v[Len(run)])
      BY <2>1, <2>2, Zenon DEF Stops
    <3> QED BY <2>1, <3>1, Zenon DEF Settled
  <2>3. ~(form = MINIMUM /\ sent.field = Ext)
    BY <1>13, Zenon
  <2>4. CASE ReadOne(run, ch, sent, c.ext, l)
    <3>1. PICK t : t = run[Len(run)]
      OBVIOUS
    <3>2. /\ Len(run) = Len(wire) + 2 /\ Reached(t, ch, sent, c.ext, l) /\ AgreeBut(t, ch)
          /\ l = Min({t.inChunk, sent.size})
      BY <2>4, <3>1, Zenon DEF ReadOne
    <3>3. Len(run) = Len(v) + 1
      BY <1>18, <3>2
    <3>4. AgreeOn(t, ch)'
      <4>1. CASE sent.size <= outChunk
        <5>1. Done(t, ch, sent)
          BY <1>15, <3>2, <4>1, Zenon DEF Reached
        <5>2. unfinished'[ch] = NULL
          BY <1>27, <1>29, <4>1, Zenon
        <5> QED BY <1>23, <1>29, <5>1, <5>2 DEF AgreeOn
      <4>2. CASE ~(sent.size <= outChunk)
        <5>1. l = outChunk
          BY <1>15, <4>2, Zenon
        <5>2. sent.size > outChunk /\ l # sent.size
          BY <1>8, <1>23, <4>2, <5>1
        <5>3. Half(t, ch, sent, c.ext, l)
          BY <3>2, <5>2, Zenon DEF Reached
        <5>4. t.inChunk = outChunk
          <6>1. run \in Seq(States) /\ Len(run) \in 1 .. Len(v) + 1
            BY <1>21, Zenon DEF Leads
          <6>2. t \in States
            BY <1>18, <3>1, <6>1
          <6>3. t.inChunk \in Nat
            BY <6>2, StateTyped
          <6>4. Min({t.inChunk, sent.size}) = IF t.inChunk <= sent.size THEN t.inChunk ELSE sent.size
            BY <1>23, <6>3, MinOf
          <6> QED BY <3>2, <5>1, <5>2, <6>4, Zenon
        <5>5. u.message.channel = ch /\ u.ext = c.ext /\ u.rest = rest /\ u # NULL
          BY <1>12, <1>26, <5>2, Zenon
        <5>6. rest = SubSeq(Body(sent.id, sent.size), l + 1, sent.size)
          BY <1>4, <1>12, <5>1, Zenon
        <5>7. l \in 0 .. sent.size - 1
          BY <1>15, <1>23, <5>2
        <5>8. outChunk' = outChunk /\ unfinished'[ch] = u
          BY <1>6, <1>27, <1>29, <4>2
        <5>9. Rest(t, u, sent, ch)'
          BY <5>3, <5>4, <5>5, <5>6, <5>7, <5>8, Zenon DEF Rest
        <5> QED BY <1>23, <1>29, <5>5, <5>8, <5>9 DEF AgreeOn
      <4> QED BY <4>1, <4>2
    <3>5. Agree(t)'
      BY <1>6, <1>29, <3>2, <3>4, AgreeAfter
    <3> QED BY <2>1, <3>1, <3>3, <3>5, Zenon DEF Settled
  <2> QED BY <1>21, <2>2, <2>3, <2>4, Zenon
<1>33. (\E r : Leads(r, Reader, wire) /\ Settled(r, wire))'
  BY <1>6, <1>17, <1>21, <1>22, <1>32
<1>34. (last # NULL => Same(last.read, last.sent))' /\ (status = "misread" => risk \/ staleChunk)'
  BY <1>6 DEF ChunksInv
<1> QED BY <1>22, <1>31, <1>33, <1>34, Zenon DEF ChunksInv

(* A rest of n - k bytes, of which l are the next to be sent.              *)
Parted(rest, id, n, k, l, t) ==
  /\ Len(rest) = n - k
  /\ SubSeq(rest, 1, l) = Part(id, n, k, t)
  /\ SubSeq(rest, l + 1, Len(rest)) = SubSeq(Body(id, n), t + 1, n)

(* What is left of a body, its next piece and what is left after that.     *)
LEMMA RestOfBody ==
  ASSUME NEW id \in Nat, NEW n \in Nat, NEW k \in 0 .. n, NEW rest,
         rest = SubSeq(Body(id, n), k + 1, n), NEW l \in Nat, NEW t \in Nat, Adds(k, l, t), t <= n
  PROVE  Parted(rest, id, n, k, l, t)
<1>0. PICK S : S = Nat \X Nat
  OBVIOUS
<1>1. PICK b : b = Body(id, n)
  OBVIOUS
<1>2. b \in Seq(S) /\ Len(b) = n
  BY <1>0, <1>1, BodyFacts, Zenon
<1>3. t = k + l
  BY DEF Adds
<1>4. PICK r : r = n - k
  OBVIOUS
<1>5. r \in Nat /\ k + r = n /\ l <= r
  BY <1>3, <1>4
<1>6. rest \in Seq(S) /\ Len(rest) = r /\ \A i \in 1 .. r : rest[i] = b[k + i]
  <2>1. rest = SubSeq(b, k + 1, k + r)
    BY <1>1, <1>5, Zenon
  <2>2. k + r <= Len(b) /\ k \in Nat /\ r \in Nat /\ b \in Seq(S)
    BY <1>2, <1>5
  <2>3. IsPart(rest, S, b, k, r)
    BY <2>1, <2>2, PartIs
  <2> QED BY <2>3, Zenon DEF IsPart
<1>7. PICK x, y : x = SubSeq(rest, 1, l) /\ y = SubSeq(b, k + 1, k + l)
  OBVIOUS
<1>8. x \in Seq(S) /\ Len(x) = l /\ \A i \in 1 .. l : x[i] = rest[i]
  <2>1. PICK z : z = 0
    OBVIOUS
  <2>2. z \in Nat /\ z + 1 = 1 /\ z + l = l /\ z + l <= Len(rest)
    BY <1>5, <1>6, <2>1
  <2>3. x = SubSeq(rest, z + 1, z + l)
    BY <1>7, <2>2, Zenon
  <2>4. x \in Seq(S) /\ Len(x) = l /\ \A i \in 1 .. l : x[i] = rest[z + i]
    <3>1. rest \in Seq(S)
      BY <1>6, Zenon
    <3>2. IsPart(x, S, rest, z, l)
      BY <2>2, <2>3, <3>1, PartIs
    <3> QED BY <3>2, Zenon DEF IsPart
  <2>5. \A i \in 1 .. l : z + i = i
    BY <2>1
  <2> QED BY <2>4, <2>5, Zenon
<1>9. y \in Seq(S) /\ Len(y) = l /\ \A i \in 1 .. l : y[i] = b[k + i]
  <2>1. k + l <= Len(b) /\ k \in Nat
    BY <1>2, <1>3
  <2>2. y = SubSeq(b, k + 1, k + l) /\ b \in Seq(S)
    BY <1>2, <1>7, Zenon
  <2>3. IsPart(y, S, b, k, l)
    BY <2>1, <2>2, PartIs
  <2> QED BY <2>3, Zenon DEF IsPart
<1>10. x = y
  <2>1. \A i \in 1 .. l : x[i] = y[i]
    <3> TAKE i \in 1 .. l
    <3>1. i \in 1 .. r
      BY <1>5
    <3>2. x[i] = rest[i] /\ rest[i] = b[k + i] /\ y[i] = b[k + i]
      BY <1>6, <1>8, <1>9, <3>1, Zenon
    <3> QED BY <3>2, Zenon
  <2> QED BY <1>8, <1>9, <2>1, SeqEqual
<1>11. PICK o, v, w : o = r - l /\ v = SubSeq(rest, l + 1, r) /\ w = SubSeq(b, t + 1, n)
  OBVIOUS
<1>12. o \in Nat /\ l + o = r /\ t + o = n
  BY <1>3, <1>5, <1>11
<1>13. v \in Seq(S) /\ Len(v) = o /\ \A i \in 1 .. o : v[i] = rest[l + i]
  <2>1. v = SubSeq(rest, l + 1, l + o)
    BY <1>11, <1>12, Zenon
  <2>2. l + o <= Len(rest) /\ rest \in Seq(S) /\ o \in Nat
    BY <1>6, <1>12
  <2>3. IsPart(v, S, rest, l, o)
    BY <2>1, <2>2, PartIs
  <2> QED BY <2>3, Zenon DEF IsPart
<1>14. w \in Seq(S) /\ Len(w) = o /\ \A i \in 1 .. o : w[i] = b[t + i]
  <2>1. w = SubSeq(b, t + 1, t + o)
    BY <1>11, <1>12, Zenon
  <2>2. t + o <= Len(b) /\ b \in Seq(S) /\ o \in Nat
    BY <1>2, <1>12
  <2>3. IsPart(w, S, b, t, o)
    BY <2>1, <2>2, PartIs
  <2> QED BY <2>3, Zenon DEF IsPart
<1>15. v = w
  <2>1. \A i \in 1 .. o : v[i] = w[i]
    <3> TAKE i \in 1 .. o
    <3>1. l + i \in 1 .. r /\ k + (l + i) = t + i
      BY <1>3, <1>12
    <3>2. rest[l + i] = b[k + (l + i)]
      BY <1>6, <3>1
    <3> QED BY <1>13, <1>14, <3>1, <3>2
  <2> QED BY <1>13, <1>14, <2>1, SeqEqual
<1>16. Part(id, n, k, t) = y
  BY <1>1, <1>3, <1>7, Zenon DEF Part
<1> QED BY <1>0, <1>1, <1>4, <1>6, <1>7, <1>10, <1>11, <1>13, <1>15, <1>16, Zenon DEF Parted

(* The peer goes on with a message.                                        *)
LEMMA PeerGoesOnInv ==
  ASSUME ChunksInv, NEW ch \in Channels, PeerGoesOn(ch)
  PROVE  ChunksInv'
<1>1. PICK u, m : u = unfinished[ch] /\ m = prevOut[ch]
  OBVIOUS
<1>2. PICK piece, c : piece = Piece(u.rest, 0, outChunk) /\ c = NextChunk(u.message, u.ext, piece)
  OBVIOUS
<1>3. PICK less, out : /\ less = [u EXCEPT !.rest = SubSeq(@, outChunk + 1, Len(@))]
                       /\ out = IF Len(u.rest) <= outChunk THEN NULL ELSE less
  OBVIOUS
<1>4. /\ status = "up" /\ u # NULL
      /\ wire' = Append(wire, c)
      /\ unfinished' = [unfinished EXCEPT ![ch] = out]
      /\ UNCHANGED <<writer, sentCount, prevOut, outChunk, risk, losses, readerVars, due, last,
                     staleChunk, status>>
  BY <1>1, <1>2, <1>3, Zenon DEF PeerGoesOn, MayWrite
<1>5. WriterTyped
  BY Zenon DEF ChunksInv
<1>6. /\ unfinished \in [Channels -> OutMessages \union {NULL}] /\ outChunk \in Nat \ {0}
      /\ prevOut \in [Channels -> Messages \union {NULL}]
  BY <1>5, Zenon DEF WriterTyped
<1>7. u \in OutMessages /\ m \in Messages \union {NULL}
  BY <1>1, <1>4, <1>6
<1>8. /\ u = [message |-> u.message, ext |-> u.ext, rest |-> u.rest]
      /\ u.message \in Messages /\ u.ext \in Nat \union {NULL} /\ u.rest \in Seq(Nat \X Nat)
  BY <1>7 DEF OutMessages
<1>9. less = [message |-> u.message, ext |-> u.ext,
              rest |-> SubSeq(u.rest, outChunk + 1, Len(u.rest))]
  BY <1>3, <1>8
<1>10. /\ unfinished'[ch] = out
       /\ \A d \in Channels \ {ch} : prevOut'[d] = prevOut[d] /\ unfinished'[d] = unfinished[d]
  BY <1>4, <1>6
<1>11. writer # "library"
  BY <1>1, <1>4, <1>5 DEF WriterTyped
<1>12. PICK S : wire \in Seq(S)
  BY <1>5, Zenon DEF WriterTyped
<1>13. PICK v : v = Append(wire, c)
  OBVIOUS
<1>14. /\ v \in Seq(S \union {c}) /\ Sooner(wire, v) /\ Len(v) = Len(wire) + 1
       /\ v[Len(wire) + 1] = c /\ Len(wire) \in Nat
  BY <1>12, <1>13, WireAppend
<1>15. PICK run : Leads(run, Reader, wire) /\ Settled(run, wire)
  BY <1>4, Zenon DEF ChunksInv
<1>16. Leads(run, Reader, v)
  BY <1>12, <1>14, <1>15, LongerWire
<1>17. run \in Seq(States) /\ Len(run) \in 1 .. Len(wire) + 1
  BY <1>15, Zenon DEF Leads
<1>18. Reader' = Reader
  BY <1>4 DEF Reader, readerVars
<1>19. less \in OutMessages
  <2>1. SubSeq(u.rest, outChunk + 1, Len(u.rest)) \in Seq(Nat \X Nat)
    BY <1>6, <1>8, SubSeqProperties
  <2> QED BY <1>8, <1>9, <2>1 DEF OutMessages
<1>20. out \in OutMessages \union {NULL}
  BY <1>3, <1>19, Zenon
<1>21. v = wire' /\ risk' = risk /\ staleChunk' = staleChunk /\ outChunk' = outChunk
  BY <1>4, <1>13
<1>22. \E r : Leads(r, Reader, v) /\ Settled(r, wire)'
  <2>1. CASE Len(run) <= Len(wire) /\ (risk \/ staleChunk) /\ Stuck(run[Len(run)], wire[Len(run)])
    <3>1. v[Len(run)] = wire[Len(run)] /\ Len(run) <= Len(v)
      BY <1>14, <1>17, <2>1 DEF Sooner
    <3>2. Stuck(run[Len(run)], v[Len(run)]) /\ (risk' \/ staleChunk')
      BY <1>21, <2>1, <3>1, Zenon
    <3>3. Settled(run, wire)'
      BY <1>21, <3>1, <3>2, Zenon DEF Settled
    <3> QED BY <1>16, <3>3, Zenon
  <2>2. CASE Len(run) = Len(wire) + 1 /\ Agree(run[Len(run)])
    <3>1. PICK s : s = run[Len(run)]
      OBVIOUS
    <3>2. s \in States
      BY <1>14, <1>17, <2>2, <3>1
    <3>3. m # NULL /\ Rest(s, u, m, ch)
      <4>1. AgreeOn(s, ch)
        BY <2>2, <3>1, Zenon DEF Agree
      <4>2. m # NULL
        BY <1>1, <1>4, <4>1 DEF AgreeOn
      <4> QED BY <1>1, <1>4, <4>1, <4>2 DEF AgreeOn
    <3>4. m \in Messages /\ m.size \in Nat /\ m.id \in Nat
      BY <1>7, <3>3 DEF Messages
    <3>5. PICK k \in 0 .. m.size - 1 : /\ Half(s, ch, m, u.ext, k)
                                       /\ u.rest = SubSeq(Body(m.id, m.size), k + 1, m.size)
      BY <3>3, Zenon DEF Rest
    <3>6. u.message.channel = ch /\ s.inChunk = outChunk
      BY <3>3, Zenon DEF Rest
    <3>7. PICK l, t, left : l = Min({outChunk, m.size - k}) /\ t = k + l /\ left = m.size - k
      OBVIOUS
    <3>8. l = IF outChunk <= left THEN outChunk ELSE left
      BY <1>6, <3>4, <3>7, MinOf
    <3>9. /\ k \in Nat /\ k \in 0 .. m.size /\ l \in Nat /\ t \in Nat /\ t <= m.size /\ Adds(k, l, t)
          /\ left <= outChunk => t = m.size
          /\ ~(left <= outChunk) => l = outChunk /\ t \in 0 .. m.size - 1 /\ t # m.size
      <4>1. left \in Nat /\ left = m.size - k /\ outChunk \in Nat /\ outChunk > 0
        BY <1>6, <3>4, <3>7
      <4>2. l \in Nat /\ l <= left /\ (left <= outChunk => l = left) /\ (~(left <= outChunk) => l = outChunk /\ l < left)
        BY <3>8, <4>1
      <4> QED BY <3>4, <3>7, <4>1, <4>2 DEF Adds
    <3>10. /\ Len(u.rest) = left
           /\ SubSeq(u.rest, 1, l) = Part(m.id, m.size, k, t)
           /\ SubSeq(u.rest, l + 1, Len(u.rest)) = SubSeq(Body(m.id, m.size), t + 1, m.size)
      <4>1. PICK id, n, rest : id = m.id /\ n = m.size /\ rest = u.rest
        OBVIOUS
      <4>2. /\ Len(rest) = n - k
            /\ SubSeq(rest, 1, l) = Part(id, n, k, t)
            /\ SubSeq(rest, l + 1, Len(rest)) = SubSeq(Body(id, n), t + 1, n)
        <5>1. id \in Nat /\ n \in Nat /\ k \in 0 .. n /\ t <= n
          BY <3>4, <3>9, <4>1
        <5>2. rest = SubSeq(Body(id, n), k + 1, n)
          BY <3>5, <4>1, Zenon
        <5>3. l \in Nat /\ t \in Nat /\ Adds(k, l, t)
          BY <3>9
        <5>4. Parted(rest, id, n, k, l, t)
          BY <5>1, <5>2, <5>3, RestOfBody
        <5> QED BY <5>4, Zenon DEF Parted
      <4> QED BY <3>7, <4>1, <4>2, Zenon
    <3>11. piece = SubSeq(u.rest, 1, l)
      <4>1. (0 + 1) * outChunk = outChunk /\ 0 * outChunk + 1 = 1
        BY <1>6
      <4> QED BY <1>2, <3>7, <3>10, <4>1, Zenon DEF Piece
    <3>12. c.form = MINIMUM /\ c.ext = u.ext /\ c.body = piece /\ Goes(c, ch)
      BY <1>2, <3>6, NextIs
    <3>13. NextBytes(c, m, k, t)
      BY <3>10, <3>11, <3>12, Zenon DEF NextBytes
    <3>14. PICK x \in States : Step(s, c, x) /\ Elsewhere(s, x, ch) /\ Reached(x, ch, m, u.ext, t)
      <4>1. PICK e : e = u.ext
        OBVIOUS
      <4>2. l = Min({s.inChunk, m.size - k}) /\ Half(s, ch, m, e, k) /\ c.ext = e
        BY <3>5, <3>6, <3>7, <3>12, <4>1, Zenon
      <4> QED BY <3>2, <3>4, <3>9, <3>12, <3>13, <4>1, <4>2, NextRead
    <3>15. PICK r : r = Append(run, x)
      OBVIOUS
    <3>16. Leads(r, Reader, v) /\ Len(r) = Len(run) + 1 /\ r[Len(run) + 1] = x
      <4>1. Step(run[Len(run)], v[Len(run)], x) /\ Len(run) <= Len(v)
        BY <1>14, <2>2, <3>1, <3>14
      <4> QED BY <1>14, <1>16, <3>15, <4>1, LongerRun
    <3>17. Len(r) = Len(v) + 1 /\ r[Len(r)] = x
      BY <1>14, <2>2, <3>16
    <3>18. AgreeBut(x, ch)
      <4>1. AgreeBut(s, ch)
        BY <2>2, <3>1, Zenon DEF Agree, AgreeBut
      <4> QED BY <3>14, <4>1, AgreeButStep, Zenon
    <3>19. AgreeOn(x, ch)'
      <4>1. CASE left <= outChunk
        <5>1. Done(x, ch, m)
          BY <3>9, <3>14, <4>1, Zenon DEF Reached
        <5>2. unfinished'[ch] = NULL /\ prevOut'[ch] = m
          BY <1>1, <1>3, <1>4, <1>10, <3>10, <4>1
        <5> QED BY <3>3, <5>1, <5>2 DEF AgreeOn
      <4>2. CASE ~(left <= outChunk)
        <5>1. Half(x, ch, m, u.ext, t)
          BY <3>9, <3>14, <4>2, Zenon DEF Reached
        <5>2. unfinished'[ch] = less /\ prevOut'[ch] = m
          BY <1>1, <1>3, <1>4, <1>10, <3>10, <4>2
        <5>3. /\ less.message = u.message /\ less.ext = u.ext
              /\ less.rest = SubSeq(Body(m.id, m.size), t + 1, m.size)
          BY <1>9, <3>9, <3>10, <4>2
        <5>4. x.inChunk = outChunk'
          BY <1>21, <3>6, <3>14, Zenon DEF Elsewhere
        <5>5. Rest(x, less, m, ch)'
          BY <3>6, <3>9, <4>2, <5>1, <5>3, <5>4, Zenon DEF Rest
        <5>6. less # NULL
          BY <1>19, Constants
        <5> QED BY <3>3, <5>2, <5>5, <5>6 DEF AgreeOn
      <4> QED BY <4>1, <4>2
    <3>20. Agree(x)'
      BY <1>4, <1>10, <3>18, <3>19, AgreeAfter
    <3>21. Settled(r, wire)'
      BY <1>21, <3>17, <3>20, Zenon DEF Settled
    <3> QED BY <3>16, <3>21, Zenon
  <2> QED BY <1>15, <2>1, <2>2, Zenon DEF Settled
<1>23. WriterTyped'
  <2>1. (\E S1 : wire \in Seq(S1))'
    BY <1>14, <1>21
  <2>2. unfinished' \in [Channels -> OutMessages \union {NULL}]
    BY <1>4, <1>6, <1>20
  <2> QED BY <1>4, <1>5, <1>11, <2>1, <2>2 DEF WriterTyped
<1>24. (Reader \in States /\ Clean(Reader))'
  BY <1>18, Zenon DEF ChunksInv, Clean
<1>25. (last # NULL => Same(last.read, last.sent))' /\ (status = "misread" => risk \/ staleChunk)'
  BY <1>4 DEF ChunksInv
<1>26. (\E r : Leads(r, Reader, wire) /\ Settled(r, wire))'
  BY <1>18, <1>21, <1>22, Zenon
<1> QED BY <1>23, <1>24, <1>25, <1>26, Zenon DEF ChunksInv

(* The wire w with a first chunk c and the next ones f. *)
GotLonger(w, c, f, v) ==
  /\ (\E U : v \in Seq(U)) /\ Sooner(w, v) /\ Len(w) \in Nat /\ Len(f) \in Nat
  /\ Len(v) = Len(w) + 1 + Len(f) /\ v[Len(w) + 1] = c
  /\ \A n \in 1 .. Len(f) : v[Len(w) + 1 + n] = f[n]

(* The chunks of a message go out together. *)
LEMMA WireGrows ==
  ASSUME NEW S, NEW w \in Seq(S), NEW c, NEW T, NEW f \in Seq(T), NEW v, v = w \o <<c>> \o f
  PROVE  GotLonger(w, c, f, v)
<1>1. PICK U, x, y : U = S \union {c} \union T /\ x = <<c>> /\ y = w \o <<c>>
  OBVIOUS
<1>2. w \in Seq(U) /\ f \in Seq(U)
  <2>1. S \subseteq U /\ T \subseteq U
    BY <1>1
  <2> QED BY <2>1, SeqMonotonic
<1>3. x \in Seq(U) /\ Len(x) = 1 /\ x[1] = c
  <2>1. c \in U
    BY <1>1
  <2> QED BY <1>1, <2>1
<1>4. /\ y \in Seq(U) /\ Len(y) = Len(w) + 1 /\ Len(w) \in Nat /\ y[Len(w) + 1] = c
      /\ \A i \in 1 .. Len(w) : y[i] = w[i]
  <2>1. y = Append(w, c)
    BY <1>1, <1>2, AppendIsConcat
  <2>2. c \in U
    BY <1>1
  <2> QED BY <1>2, <2>1, <2>2
<1>5. /\ v \in Seq(U) /\ Len(v) = Len(y) + Len(f)
      /\ \A i \in 1 .. Len(y) : v[i] = y[i]
      /\ \A i \in 1 .. Len(f) : v[Len(y) + i] = f[i]
  <2>1. v = y \o f
    BY <1>1, Zenon
  <2>2. /\ y \o f \in Seq(U) /\ Len(y \o f) = Len(y) + Len(f)
        /\ \A i \in 1 .. Len(y) : (y \o f)[i] = y[i]
        /\ \A i \in 1 .. Len(f) : (y \o f)[Len(y) + i] = f[i]
    <3>1. y \in Seq(U) /\ f \in Seq(U)
      BY <1>2, <1>4
    <3> QED BY <3>1, Behind
  <2> QED BY <2>1, <2>2, Zenon
<1>6. Len(f) \in Nat
  OBVIOUS
<1>7. \A i \in 1 .. Len(w) : v[i] = w[i]
  BY <1>4, <1>5
<1>8. v[Len(w) + 1] = c
  BY <1>4, <1>5
<1>9. \A n \in 1 .. Len(f) : v[Len(w) + 1 + n] = f[n]
  BY <1>4, <1>5
<1>10. Len(v) = Len(w) + 1 + Len(f)
  BY <1>4, <1>5
<1>11. Sooner(w, v)
  <2>1. Len(w) <= Len(v)
    BY <1>4, <1>6, <1>10
  <2> QED BY <1>7, <2>1 DEF Sooner
<1> QED BY <1>4, <1>5, <1>6, <1>8, <1>9, <1>10, <1>11, Zenon DEF GotLonger

(* The chunk v has after n others of m. *)
IsNext(c, ch, m, n) == /\ c.form = MINIMUM /\ c.ext = NULL /\ Goes(c, ch)
                       /\ c.body = Piece(Body(m.id, m.size), n, outChunk)

(* Reading goes on up to the end of chunk n of m. *)
GoneOn(ch, m, v, n) ==
  \E run : /\ Leads(run, Owes(Reader, ch, m), v) /\ Len(run) = Len(wire) + 2 + n
           /\ run[Len(run)].inChunk = outChunk /\ AgreeBut(run[Len(run)], ch)
           /\ Reached(run[Len(run)], ch, m, NULL, UpTo(n, outChunk, m.size))

(* One chunk further. *)
LEMMA GoesOnOnce ==
  ASSUME Len(wire) \in Nat, outChunk \in Nat \ {0}, NEW T, NEW v \in Seq(T),
         NEW ch \in Channels, NEW m \in Messages, NEW n \in Nat,
         n + 1 < ChunkCount(m.size, outChunk), Len(v) = Len(wire) + ChunkCount(m.size, outChunk),
         IsNext(v[Len(wire) + 2 + n], ch, m, n + 1), GoneOn(ch, m, v, n)
  PROVE  GoneOn(ch, m, v, n + 1)
<1>1. PICK run : /\ Leads(run, Owes(Reader, ch, m), v) /\ Len(run) = Len(wire) + 2 + n
                 /\ run[Len(run)].inChunk = outChunk /\ AgreeBut(run[Len(run)], ch)
                 /\ Reached(run[Len(run)], ch, m, NULL, UpTo(n, outChunk, m.size))
  BY Zenon DEF GoneOn
<1>2. PICK s, c : s = run[Len(run)] /\ c = v[Len(wire) + 2 + n]
  OBVIOUS
<1>3. PICK id, size, k, t : /\ id = m.id /\ size = m.size /\ k = UpTo(n, outChunk, size)
                            /\ t = UpTo(n + 1, outChunk, size)
  OBVIOUS
<1>4. id \in Nat /\ size \in Nat
  BY <1>3 DEF Messages
<1>5. PICK l : l = Min({outChunk, size - k})
  OBVIOUS
<1>6. /\ k \in Nat /\ t \in Nat /\ k < size /\ t <= size
      /\ Adds(k, l, t) /\ l \in Nat
      /\ Piece(Body(id, size), n + 1, outChunk) = Part(id, size, k, t)
  <2>0. PICK j : j = n + 1
    OBVIOUS
  <2>1. j < ChunkCount(size, outChunk)
    BY <1>3, <2>0, Zenon
  <2>2. t = UpTo(j, outChunk, size)
    BY <1>3, <2>0, Zenon
  <2>3. PICK o : o = outChunk
    OBVIOUS
  <2>4. o \in Nat \ {0} /\ j < ChunkCount(size, o)
    BY <2>1, <2>3
  <2>5. k = UpTo(n, o, size) /\ t = UpTo(j, o, size) /\ l = Min({o, size - k})
    BY <1>3, <1>5, <2>2, <2>3, Zenon
  <2>6. NextPart(id, size, o, n, j, k, l, t)
    BY <1>4, <2>0, <2>4, <2>5, NextOfBody
  <2> QED BY <2>0, <2>3, <2>6, Zenon DEF NextPart, IsPiece
<1>7. k # size
  BY <1>4, <1>6
<1>8. Half(s, ch, m, NULL, k)
  BY <1>1, <1>2, <1>3, <1>7, Zenon DEF Reached
<1>9. c.form = MINIMUM /\ c.ext = NULL /\ Goes(c, ch) /\ NextBytes(c, m, k, t)
  BY <1>2, <1>3, <1>6, Zenon DEF IsNext, NextBytes
<1>10. Len(run) <= Len(v)
  <2>1. PICK count : count = ChunkCount(size, outChunk)
    OBVIOUS
  <2>2. PICK first : first = Min({outChunk, size})
    OBVIOUS
  <2>3. count \in Nat
    BY <1>4, <2>1, <2>2, FirstOfBody
  <2>4. n + 1 < count /\ Len(v) = Len(wire) + count
    BY <1>3, <2>1, Zenon
  <2> QED BY <1>1, <2>3, <2>4
<1>11. s \in States
  <2>1. run \in Seq(States) /\ Len(run) \in 1 .. Len(v) + 1
    BY <1>1, Zenon DEF Leads
  <2> QED BY <1>2, <2>1
<1>12. l = Min({s.inChunk, m.size - k})
  BY <1>1, <1>2, <1>3, <1>5, Zenon
<1>13. PICK x \in States : Step(s, c, x) /\ Elsewhere(s, x, ch) /\ Reached(x, ch, m, NULL, t)
  <2>1. PICK e : e = NULL
    OBVIOUS
  <2>2. c.ext = e /\ Half(s, ch, m, e, k) /\ t <= m.size
    BY <1>3, <1>6, <1>8, <1>9, <2>1, Zenon
  <2> QED BY <1>6, <1>9, <1>11, <1>12, <2>1, <2>2, NextRead
<1>14. PICK r : r = Append(run, x)
  OBVIOUS
<1>15. Leads(r, Owes(Reader, ch, m), v) /\ Len(r) = Len(run) + 1 /\ r[Len(run) + 1] = x
  <2>1. Step(run[Len(run)], v[Len(run)], x)
    BY <1>1, <1>2, <1>13, Zenon
  <2> QED BY <1>1, <1>10, <1>13, <1>14, <2>1, LongerRun
<1>16. r[Len(r)] = x /\ Len(r) = Len(wire) + 2 + (n + 1)
  BY <1>1, <1>15
<1>17. AgreeBut(x, ch)
  BY <1>1, <1>2, <1>13, AgreeButStep, Zenon
<1>18. x.inChunk = outChunk
  BY <1>1, <1>2, <1>13, Zenon DEF Elsewhere
<1>19. Reached(x, ch, m, NULL, UpTo(n + 1, outChunk, m.size))
  BY <1>3, <1>13, Zenon
<1> QED BY <1>15, <1>16, <1>17, <1>18, <1>19, Zenon DEF GoneOn

(* As far as the end of the message. *)
LEMMA GoesOnAll ==
  ASSUME Len(wire) \in Nat, outChunk \in Nat \ {0}, NEW T, NEW v \in Seq(T),
         NEW ch \in Channels, NEW m \in Messages,
         NEW count \in Nat \ {0}, count = ChunkCount(m.size, outChunk), Len(v) = Len(wire) + count,
         \A n \in 1 .. count - 1 : IsNext(v[Len(wire) + 1 + n], ch, m, n),
         GoneOn(ch, m, v, 0)
  PROVE  GoneOn(ch, m, v, count - 1)
<1> DEFINE Bad == {n \in Nat : n < count /\ ~GoneOn(ch, m, v, n)}
<1>1. Bad = {}
  <2> SUFFICES ASSUME Bad # {} PROVE FALSE
    OBVIOUS
  <2>1. Bad \in SUBSET Nat
    OBVIOUS
  <2>2. PICK n \in Bad : \A x \in Bad : n <= x
    BY <2>1, LeastOf
  <2>3. n \in Nat /\ n < count /\ ~GoneOn(ch, m, v, n)
    BY <2>2
  <2>4. n # 0
    BY <2>3, Zenon
  <2>5. PICK k : k = n - 1
    OBVIOUS
  <2>6. k \in Nat /\ k + 1 = n /\ k < count /\ k < n /\ n \in 1 .. count - 1
    BY <2>3, <2>4, <2>5
  <2>7. GoneOn(ch, m, v, k)
    <3>1. k \notin Bad
      BY <2>2, <2>3, <2>6
    <3> QED BY <2>6, <3>1, Zenon
  <2>8. IsNext(v[Len(wire) + 2 + k], ch, m, k + 1)
    <3>1. IsNext(v[Len(wire) + 1 + n], ch, m, n)
      BY <2>6, Zenon
    <3>2. Len(wire) + 1 + n = Len(wire) + 2 + k
      <4>1. PICK w \in Nat : w = Len(wire)
        OBVIOUS
      <4>2. w + 1 + n = w + 2 + k
        BY <2>3, <2>6
      <4> QED BY <4>1, <4>2, Zenon
    <3> QED BY <2>6, <3>1, <3>2, Zenon
  <2>9. k + 1 < ChunkCount(m.size, outChunk) /\ Len(v) = Len(wire) + ChunkCount(m.size, outChunk)
    BY <2>3, <2>6, Zenon
  <2>10. GoneOn(ch, m, v, k + 1)
    BY <2>6, <2>7, <2>8, <2>9, GoesOnOnce, Zenon
  <2> QED BY <2>3, <2>6, <2>10, Zenon
<1>2. count - 1 \in Nat /\ count - 1 < count
  OBVIOUS
<1>3. count - 1 \notin Bad
  BY <1>1, Zenon
<1> QED BY <1>2, <1>3, Zenon

(* The library sends a message, all of its chunks.                         *)
LEMMA SendPacketInv ==
  ASSUME ChunksInv, NEW ch \in Channels, NEW type \in Types, NEW size \in Sizes,
         NEW stamp \in Stamps, NEW form \in {LARGE, MEDIUM},
         SendPacket(ch, type, size, stamp, form)
  PROVE  ChunksInv'
<1>1. PICK prev, sid, delta :
        /\ prev = prevOut[ch] /\ sid = SidAfter(prev, form)
        /\ delta = (stamp - (IF prev = NULL \/ form = LARGE THEN 0 ELSE prev.stamp)) % Wrap
  OBVIOUS
<1>2. PICK m, field : m = Message(ch, type, sid, size, stamp) /\ field = Min({delta, Ext})
  OBVIOUS
<1>3. PICK used, count : /\ used = IF prev = NULL THEN form ELSE Compress(prev, m, form)
                         /\ count = ChunkCount(size, outChunk)
  OBVIOUS
<1>4. PICK piece, c, sent : /\ piece = Piece(Body(m.id, size), 0, outChunk)
                            /\ c = FirstChunk(m, used, delta, piece)
                            /\ sent = Sent(m, used, field)
  OBVIOUS
<1>5. PICK more : more = [n \in 1 .. count - 1 |->
                            NextChunk(m, NULL, Piece(Body(m.id, size), n, outChunk))]
  OBVIOUS
<1>6. /\ writer = "library" /\ status = "up"
      /\ wire' = wire \o <<c>> \o more
      /\ prevOut' = [prevOut EXCEPT ![ch] = sent]
      /\ due' = [due EXCEPT ![ch] = Append(@, sent)]
      /\ risk' = (risk \/ (sent.field = Ext /\ (count > 1 \/ used = MINIMUM)))
      /\ sentCount' = sentCount + 1
      /\ UNCHANGED <<writer, unfinished, outChunk, losses, readerVars, last, staleChunk, status>>
  BY <1>1, <1>2, <1>3, <1>4, <1>5, Zenon DEF SendPacket, MayWrite
<1>7. WriterTyped
  BY Zenon DEF ChunksInv
<1>8. prev \in Messages \union {NULL} /\ outChunk \in Nat \ {0} /\ unfinished[ch] = NULL
  BY <1>1, <1>6, <1>7 DEF WriterTyped
<1>9. sid \in Nat \union {NULL}
  BY <1>1, <1>8, SidIs
<1>10. delta \in 0 .. Wrap - 1
  <2>1. PICK base : base = IF prev = NULL \/ form = LARGE THEN 0 ELSE prev.stamp
    OBVIOUS
  <2>2. base \in 0 .. Wrap - 1
    <3>1. 0 \in 0 .. Wrap - 1
      BY Constants
    <3>2. prev # NULL => prev.stamp \in 0 .. Wrap - 1
      BY <1>8 DEF Messages
    <3> QED BY <2>1, <3>1, <3>2, Zenon
  <2>3. stamp \in 0 .. Wrap - 1
    BY Constants
  <2>4. delta = (stamp - base) % Wrap
    BY <1>1, <2>1, Zenon
  <2> QED BY <2>2, <2>3, <2>4, Difference
<1>11. field \in 0 .. Ext
  BY <1>2, <1>10, FieldTyped
<1>12. /\ m \in Messages /\ sent \in Messages
       /\ m.id = sentCount /\ m.channel = ch /\ m.type = type /\ m.sid = sid
       /\ m.size = size /\ m.stamp = stamp
       /\ sent.id = sentCount /\ sent.channel = ch /\ sent.type = type /\ sent.sid = sid
       /\ sent.size = size /\ sent.stamp = stamp
       /\ sent.field = IF used = MINIMUM /\ prev # NULL THEN prev.field ELSE field
       /\ sent.drift <=> /\ used # LARGE /\ prev # NULL
                         /\ prev.drift \/ (writer = "library" /\ used = MINIMUM /\ prev.field # 0)
  BY <1>1, <1>2, <1>4, <1>7, <1>9, <1>11, SentIs
<1>13. Shortens(prev, sent, used, delta)
  <2>1. sent.drift <=> used # LARGE /\ prev # NULL /\ (prev.drift \/ (used = MINIMUM /\ prev.field # 0))
    BY <1>6, <1>12
  <2>2. delta = (sent.stamp - (IF prev = NULL \/ form = LARGE THEN 0 ELSE prev.stamp)) % Wrap
    BY <1>1, <1>12, Zenon
  <2>3. sent.sid = SidAfter(prev, form)
    BY <1>1, <1>12, Zenon
  <2>4. sent.field = IF used = MINIMUM /\ prev # NULL THEN prev.field ELSE Min({delta, Ext})
    BY <1>2, <1>12, Zenon
  <2>5. Alike(m, sent)
    BY <1>12, Zenon DEF Alike
  <2> QED BY <1>3, <1>8, <1>12, <2>1, <2>2, <2>3, <2>4, <2>5, LibraryShortens
<1>14. PICK l : l = Min({outChunk, sent.size})
  OBVIOUS
<1>15. /\ IsFirst(c, sent, used, delta) /\ Goes(c, ch)
       /\ l \in Nat /\ l <= sent.size /\ l <= outChunk /\ NextBytes(c, sent, 0, l)
       /\ (ChunkCount(sent.size, outChunk) = 1) <=> (sent.size <= outChunk)
       /\ sent.size <= outChunk => l = sent.size
       /\ ~(sent.size <= outChunk) => l = outChunk
       /\ ChunkCount(sent.size, outChunk) \in Nat \ {0}
  <2>1. piece = Piece(Body(sent.id, sent.size), 0, outChunk)
    BY <1>4, <1>12, Zenon
  <2>2. Begins(c, sent, ch, used, delta, outChunk, l)
    BY <1>4, <1>8, <1>12, <1>14, <2>1, FirstBytes
  <2> QED BY <2>2, Zenon DEF Begins
<1>16. count = ChunkCount(sent.size, outChunk) /\ count \in Nat \ {0}
  BY <1>3, <1>12, <1>15
<1>17. PICK S : wire \in Seq(S)
  BY <1>7, Zenon DEF WriterTyped
<1>18. PICK T : more \in Seq(T) /\ Len(more) = count - 1
  <2>1. PICK T : T = {more[n] : n \in 1 .. count - 1}
    OBVIOUS
  <2>2. more \in [1 .. count - 1 -> T]
    BY <1>5, <2>1
  <2>3. count - 1 \in Nat
    BY <1>16
  <2>4. PICK k, f : k = count - 1 /\ f = more
    OBVIOUS
  <2>5. f \in [1 .. k -> T] /\ k \in Nat
    BY <2>2, <2>3, <2>4
  <2>6. f \in Seq(T) /\ Len(f) = k
    BY <2>5
  <2> QED BY <2>4, <2>6
<1>19. PICK v : v = wire \o <<c>> \o more
  OBVIOUS
<1>20. /\ (\E U : v \in Seq(U)) /\ Sooner(wire, v) /\ Len(wire) \in Nat /\ Len(more) \in Nat
       /\ Len(v) = Len(wire) + 1 + Len(more) /\ v[Len(wire) + 1] = c
       /\ \A n \in 1 .. Len(more) : v[Len(wire) + 1 + n] = more[n]
  <2>1. GotLonger(wire, c, more, v)
    BY <1>17, <1>18, <1>19, WireGrows
  <2> QED BY <2>1, Zenon DEF GotLonger
<1>21. Len(v) = Len(wire) + count /\ Len(wire) < Len(v)
  BY <1>16, <1>18, <1>20
<1>22. Shortens(prevOut[ch], sent, used, delta)
  BY <1>1, <1>13, Zenon
<1>23. PICK U : v \in Seq(U)
  BY <1>20
<1>24. PICK run : /\ Leads(run, Owes(Reader, ch, sent), v)
                  /\ \/ (risk \/ staleChunk) /\ Stops(run, v)
                     \/ used = MINIMUM /\ sent.field = Ext /\ Stops(run, v)
                     \/ ReadOne(run, ch, sent, c.ext, l)
  <2>1. Outcome(ch, sent, used, c.ext, l, v)
    BY <1>6, <1>8, <1>12, <1>14, <1>15, <1>20, <1>21, <1>22, <1>23, FirstGoes
  <2> QED BY <2>1, Zenon DEF Outcome
<1>25. Reader' = Owes(Reader, ch, sent) /\ (Reader \in States /\ Clean(Reader))'
  BY <1>6, <1>12, ReaderOwes
<1>26. sent \in Messages /\ sent # NULL /\ sent.size \in Nat /\ sent.id \in Nat
  BY <1>12, Constants DEF Messages
<1>27. /\ prevOut \in [Channels -> Messages \union {NULL}]
       /\ unfinished \in [Channels -> OutMessages \union {NULL}]
  BY <1>7, Zenon DEF WriterTyped
<1>28. /\ prevOut'[ch] = sent /\ unfinished'[ch] = NULL
       /\ \A d \in Channels \ {ch} : prevOut'[d] = prevOut[d] /\ unfinished'[d] = unfinished[d]
  BY <1>6, <1>8, <1>27
<1>29. v = wire' /\ staleChunk' = staleChunk /\ outChunk' = outChunk /\ (risk => risk')
  BY <1>6, <1>19
<1>30. WriterTyped'
  <2>1. (\E S1 : wire \in Seq(S1))'
    BY <1>20, <1>29
  <2>2. prevOut' \in [Channels -> Messages \union {NULL}]
    BY <1>6, <1>12, <1>27
  <2>3. sentCount' \in Nat /\ outChunk' \in Nat \ {0}
    BY <1>6, <1>7 DEF WriterTyped
  <2>4. risk' \in BOOLEAN /\ staleChunk' \in BOOLEAN
    BY <1>6, <1>7 DEF WriterTyped
  <2>5. unfinished' \in [Channels -> OutMessages \union {NULL}]
    BY <1>6, <1>27
  <2>6. \A d \in Channels : unfinished'[d] = NULL
    BY <1>6, <1>7 DEF WriterTyped
  <2> QED BY <2>1, <2>2, <2>3, <2>4, <2>5, <2>6 DEF WriterTyped
(* A reader that stops has a reason to. *)
<1>31. ASSUME NEW r, Stops(r, v), risk' \/ staleChunk'
       PROVE  Settled(r, wire)'
  BY <1>29, <1>31, Zenon DEF Settled, Stops
(* One that has the whole message agrees with the writer. *)
<1>32. ASSUME NEW r, Len(r) = Len(v) + 1, AgreeBut(r[Len(r)], ch), Done(r[Len(r)], ch, sent)
       PROVE  Settled(r, wire)'
  <2>1. PICK t : t = r[Len(r)]
    OBVIOUS
  <2>2. AgreeOn(t, ch)'
    BY <1>26, <1>28, <1>32, <2>1 DEF AgreeOn
  <2>3. AgreeBut(t, ch)
    BY <1>32, <2>1, Zenon
  <2>4. UNCHANGED <<outChunk, staleChunk>>
    BY <1>29
  <2>5. Agree(t)'
    BY <1>28, <2>2, <2>3, <2>4, AgreeAfter
  <2> QED BY <1>29, <1>32, <2>1, <2>5, Zenon DEF Settled
<1>33. \E r : Leads(r, Owes(Reader, ch, sent), v) /\ Settled(r, wire)'
  <2>1. CASE (risk \/ staleChunk) /\ Stops(run, v)
    BY <1>24, <1>29, <1>31, <2>1, Zenon
  <2>2. CASE used = MINIMUM /\ sent.field = Ext /\ Stops(run, v)
    BY <1>6, <1>24, <1>31, <2>2, Zenon
  <2>3. CASE ReadOne(run, ch, sent, c.ext, l)
    <3>1. PICK t : t = run[Len(run)]
      OBVIOUS
    <3>2. /\ Len(run) = Len(wire) + 2 /\ Reached(t, ch, sent, c.ext, l) /\ AgreeBut(t, ch)
          /\ l = Min({t.inChunk, sent.size})
      BY <2>3, <3>1, Zenon DEF ReadOne
    <3>3. CASE sent.size <= outChunk
      <4>1. count = 1 /\ l = sent.size
        BY <1>15, <1>16, <3>3, Zenon
      <4>2. Done(t, ch, sent)
        BY <3>2, <4>1, Zenon DEF Reached
      <4>3. Len(run) = Len(v) + 1
        BY <1>20, <1>21, <3>2, <4>1
      <4> QED BY <1>24, <1>32, <3>1, <3>2, <4>2, <4>3, Zenon
    <3>4. CASE ~(sent.size <= outChunk)
      <4>1. l = outChunk /\ count # 1
        BY <1>15, <1>16, <3>4, Zenon
      <4>2. l # sent.size /\ count > 1 /\ outChunk <= sent.size
        BY <1>8, <1>16, <1>26, <3>4, <4>1
      <4>3. Half(t, ch, sent, c.ext, l)
        BY <3>2, <4>2, Zenon DEF Reached
      <4>4. t \in States
        <5>1. run \in Seq(States) /\ Len(run) \in 1 .. Len(v) + 1
          BY <1>24, Zenon DEF Leads
        <5> QED BY <1>20, <3>1, <5>1
      <4>5. t.inChunk = outChunk
        <5>1. t.inChunk \in Nat
          BY <4>4, StateTyped
        <5>2. Min({t.inChunk, sent.size}) = IF t.inChunk <= sent.size THEN t.inChunk ELSE sent.size
          BY <1>26, <5>1, MinOf
        <5> QED BY <3>2, <4>1, <4>2, <5>2, Zenon
      <4>6. ASSUME NEW n \in 1 .. count - 1
            PROVE  IsNext(v[Len(wire) + 1 + n], ch, sent, n)
        <5>1. PICK x, y : x = v[Len(wire) + 1 + n] /\ y = Piece(Body(m.id, size), n, outChunk)
          OBVIOUS
        <5>2. x = more[n]
          BY <1>18, <1>20, <5>1
        <5>3. x = NextChunk(m, NULL, y)
          BY <1>5, <5>1, <5>2
        <5>4. x.form = MINIMUM /\ x.ext = NULL /\ x.body = y /\ Goes(x, ch)
          BY <1>12, <5>3, NextIs
        <5>5. y = Piece(Body(sent.id, sent.size), n, outChunk)
          BY <1>12, <5>1, Zenon
        <5> QED BY <5>1, <5>4, <5>5, Zenon DEF IsNext
      <4>7. CASE sent.field = Ext
        <5>1. c.ext # NULL
          BY <4>3, <4>7, Zenon DEF Half
        <5>2. PICK x : x = v[Len(wire) + 2]
          OBVIOUS
        <5>3. IsNext(x, ch, sent, 1)
          <6>1. 1 \in 1 .. count - 1
            BY <1>16, <4>2
          <6>2. Len(wire) + 1 + 1 = Len(wire) + 2
            BY <1>20
          <6> QED BY <4>6, <5>2, <6>1, <6>2, Zenon
        <5>4. Stuck(t, x)
          <6>1. PICK e : e = c.ext
            OBVIOUS
          <6>2. Half(t, ch, sent, e, l) /\ e # NULL
            BY <4>3, <5>1, <6>1, Zenon
          <6>3. x.form = MINIMUM /\ x.ext = NULL /\ Goes(x, ch)
            BY <5>3, Zenon DEF IsNext
          <6> QED BY <1>15, <1>26, <4>4, <6>2, <6>3, NextStuck
        <5>5. Len(run) <= Len(v)
          BY <1>16, <1>20, <1>21, <3>2, <4>2
        <5>6. Stops(run, v)
          BY <3>1, <3>2, <5>2, <5>4, <5>5, Zenon DEF Stops
        <5> QED BY <1>6, <1>24, <1>31, <4>2, <4>7, <5>6, Zenon
      <4>8. CASE sent.field # Ext
        <5>1. c.ext = NULL
          BY <4>3, <4>8, Zenon DEF Half
        <5>2. l = UpTo(0, outChunk, sent.size)
          <6>1. (0 + 1) * outChunk = outChunk
            BY <1>8
          <6> QED BY <1>14, <6>1, Zenon DEF UpTo
        <5>3. GoneOn(ch, sent, v, 0)
          <6>1. Len(run) = Len(wire) + 2 + 0
            BY <1>20, <3>2
          <6>2. Reached(t, ch, sent, NULL, UpTo(0, outChunk, sent.size))
            BY <3>2, <5>1, <5>2, Zenon
          <6> QED BY <1>24, <3>1, <3>2, <4>5, <6>1, <6>2, Zenon DEF GoneOn
        <5>4. GoneOn(ch, sent, v, count - 1)
          BY <1>8, <1>16, <1>20, <1>21, <1>26, <1>23, <4>6, <5>3, GoesOnAll
        <5>5. PICK r : /\ Leads(r, Owes(Reader, ch, sent), v) /\ Len(r) = Len(wire) + 2 + (count - 1)
                       /\ AgreeBut(r[Len(r)], ch)
                       /\ Reached(r[Len(r)], ch, sent, NULL, UpTo(count - 1, outChunk, sent.size))
          BY <5>4, Zenon DEF GoneOn
        <5>6. UpTo(count - 1, outChunk, sent.size) = sent.size
          <6>1. PICK id, n, i, j, o : /\ id = sent.id /\ n = sent.size /\ i = count - 2 /\ j = count - 1
                                      /\ o = outChunk
            OBVIOUS
          <6>2. id \in Nat /\ n \in Nat /\ i \in Nat /\ j = i + 1 /\ o \in Nat \ {0}
            BY <1>8, <1>16, <1>26, <4>2, <6>1
          <6>3. ChunkCount(n, o) = count
            BY <1>16, <6>1, Zenon
          <6>4. j < ChunkCount(n, o) /\ j = ChunkCount(n, o) - 1
            BY <1>16, <6>1, <6>3
          <6>5. PICK k, e : k = UpTo(i, o, n) /\ e = UpTo(j, o, n)
            OBVIOUS
          <6>6. PICK q : q = Min({o, n - k})
            OBVIOUS
          <6>7. NextPart(id, n, o, i, j, k, q, e)
            BY <6>2, <6>4, <6>5, <6>6, NextOfBody
          <6> QED BY <6>1, <6>4, <6>5, <6>7, Zenon DEF NextPart
        <5>7. Done(r[Len(r)], ch, sent)
          BY <5>5, <5>6, Zenon DEF Reached
        <5>8. Len(r) = Len(v) + 1
          <6>1. Len(r) = Len(wire) + 2 + (count - 1)
            BY <5>5, Zenon
          <6>2. count \in Nat /\ Len(wire) \in Nat /\ Len(v) = Len(wire) + count
            BY <1>16, <1>20, <1>21, Zenon
          <6> QED BY <6>1, <6>2
        <5> QED BY <1>32, <5>5, <5>7, <5>8, Zenon
      <4> QED BY <4>7, <4>8
    <3> QED BY <3>3, <3>4
  <2> QED BY <1>24, <2>1, <2>2, <2>3, Zenon
<1>34. (\E r : Leads(r, Reader, wire) /\ Settled(r, wire))'
  BY <1>25, <1>29, <1>33, Zenon
<1>35. (last # NULL => Same(last.read, last.sent))' /\ (status = "misread" => risk \/ staleChunk)'
  BY <1>6 DEF ChunksInv
<1> QED BY <1>25, <1>30, <1>34, <1>35, Zenon DEF ChunksInv

-----------------------------------------------------------------------------
(* The theorems. *)

(* Every step keeps the invariant.                                         *)
LEMMA NextInv ==
  ASSUME ChunksInv, [Next]_vars
  PROVE  ChunksInv'
<1>1. CASE UNCHANGED vars
  <2>1. /\ UNCHANGED writerVars /\ UNCHANGED readerVars
        /\ UNCHANGED <<losses, wire, due, last, staleChunk, status>>
    BY <1>1, Zenon DEF vars
  <2>2. Reader' = Reader
    BY <2>1 DEF Reader, readerVars
  <2>3. WriterTyped'
    BY <2>1 DEF ChunksInv, WriterTyped, writerVars
  <2>4. (Reader \in States /\ Clean(Reader))'
    BY <2>2, Zenon DEF ChunksInv, Clean
  <2>5. (last # NULL => Same(last.read, last.sent))' /\ (status = "misread" => risk \/ staleChunk)'
    BY <2>1 DEF ChunksInv, writerVars
  <2>6. (status = "up" => \E run : Leads(run, Reader, wire) /\ Settled(run, wire))'
    <3> SUFFICES ASSUME status' = "up"
                 PROVE  \E run : Leads(run, Reader', wire') /\ Settled(run, wire)'
      OBVIOUS
    <3>1. PICK run : Leads(run, Reader, wire) /\ Settled(run, wire)
      BY <2>1, Zenon DEF ChunksInv
    <3>2. /\ wire' = wire /\ risk' = risk /\ staleChunk' = staleChunk
          /\ UNCHANGED <<outChunk, prevOut, unfinished, staleChunk>>
      BY <2>1 DEF writerVars
    <3>3. PICK s : s = run[Len(run)]
      OBVIOUS
    <3>4. Agree(s) => Agree(s)'
      BY <3>2, AgreeKept
    <3>5. Settled(run, wire)'
      <4>1. CASE Len(run) = Len(wire) + 1 /\ Agree(s)
        BY <3>2, <3>3, <3>4, <4>1, Zenon DEF Settled
      <4>2. CASE Len(run) <= Len(wire) /\ (risk \/ staleChunk) /\ Stuck(s, wire[Len(run)])
        <5>1. risk' \/ staleChunk'
          BY <3>2, <4>2
        <5>2. Len(run) <= Len(wire') /\ Stuck(run[Len(run)], wire'[Len(run)])
          BY <3>2, <3>3, <4>2, Zenon
        <5> QED BY <5>1, <5>2, Zenon DEF Settled
      <4> QED BY <3>1, <3>3, <4>1, <4>2, Zenon DEF Settled
    <3> QED BY <2>2, <3>1, <3>2, <3>5, Zenon
  <2> QED BY <2>3, <2>4, <2>5, <2>6, Zenon DEF ChunksInv
<1>2. CASE Next
  <2>1. ASSUME NEW ch \in Channels, NEW type \in Types, NEW size \in Sizes, NEW stamp \in Stamps,
               NEW form \in {LARGE, MEDIUM}, SendPacket(ch, type, size, stamp, form)
        PROVE  ChunksInv'
    BY <2>1, SendPacketInv
  <2>2. ASSUME NEW ch \in Channels, NEW type \in Types, NEW size \in Sizes, NEW stamp \in Stamps,
               NEW form \in LARGE .. MINIMUM, PeerStarts(ch, type, size, stamp, form)
        PROVE  ChunksInv'
    BY <2>2, PeerStartsInv
  <2>3. ASSUME NEW ch \in Channels, PeerGoesOn(ch) PROVE ChunksInv'
    BY <2>3, PeerGoesOnInv
  <2>4. ASSUME NEW n \in ChunkSizes, PeerChangesChunkSize(n) PROVE ChunksInv'
    BY <2>4, PeerChangesChunkSizeInv
  <2>5. ReadPacket => ChunksInv'
    BY ReadPacketInv
  <2>6. Misread => ChunksInv'
    BY MisreadInv
  <2>7. HandleChangeChunkSize => ChunksInv'
    BY HandleChangeChunkSizeInv
  <2>8. Lost => ChunksInv'
    BY LostInv
  <2> QED BY <1>2, <2>1, <2>2, <2>3, <2>4, <2>5, <2>6, <2>7, <2>8, Zenon DEF Next
<1> QED BY <1>1, <1>2

(* Reading what is on the wire always leads the reader to where the writer *)
(* is, unless it misreads a chunk for one of the two known reasons: the    *)
(* chunk layer of RTMP_SendPacket and RTMP_ReadPacket (rtmp.c:3555-4110).  *)
THEOREM ChunksInvariant == Spec => []ChunksInv
<1>1. Init => ChunksInv
  BY InitInv
<1>2. ChunksInv /\ [Next]_vars => ChunksInv'
  BY NextInv
<1> QED BY <1>1, <1>2, PTL DEF Spec

(* Both ends keep what the code keeps, of the types it has.                *)
THEOREM TypeCorrect == Spec => []TypeOK
<1>1. ChunksInv => TypeOK
  <2> SUFFICES ASSUME ChunksInv PROVE TypeOK
    OBVIOUS
  <2>1. PICK s : s = Reader
    OBVIOUS
  <2>2. /\ s.inChunk = inChunk /\ s.vecIn = vecIn /\ s.channelTs = channelTs
        /\ s.packet = packet /\ s.due = due /\ s \in States
    BY <2>1, ReaderFields, Zenon DEF ChunksInv
  <2>3. /\ s.inChunk \in Nat \ {0} /\ s.vecIn \in [Channels -> Packets \union {NULL}]
        /\ s.channelTs \in [Channels -> 0 .. Wrap - 1] /\ s.packet \in Packets
        /\ s.due \in [Channels -> Seq(Messages)]
    BY <2>2, StateTyped
  <2>4. \A ch \in Channels : \A i \in DOMAIN due[ch] : due[ch][i] \in Messages
    BY <2>2, <2>3
  <2>5. prevOut \in [Channels -> Messages \union {NULL}] /\ outChunk \in Nat \ {0}
    BY Zenon DEF ChunksInv, WriterTyped
  <2> QED BY <2>2, <2>3, <2>4, <2>5 DEF TypeOK
<1> QED BY <1>1, ChunksInvariant, PTL

(* What RTMP_ReadPacket returns is what was sent: the bytes of the body,   *)
(* all and in order, the type, the stream id and the timestamp, whatever   *)
(* headers left out and other channels sent in between.                    *)
THEOREM PacketsAreKept == Spec => []PacketsKept
<1>1. ChunksInv => PacketsKept
  BY Zenon DEF ChunksInv, PacketsKept, BodiesKept, HeadersKept, TimestampsKept, Same
<1> QED BY <1>1, ChunksInvariant, PTL

(* RTMP_ReadPacket gets out of step with its peer for no other reason than *)
(* an extended timestamp that RTMP_SendPacket did not repeat, or a chunk   *)
(* size that RTMP_Close kept.                                              *)
THEOREM ReaderStaysInStep == Spec => []StaysInStep
<1>1. ChunksInv => StaysInStep
  BY Zenon DEF ChunksInv, StaysInStep
<1> QED BY <1>1, ChunksInvariant, PTL

(* When all messages of a channel are delivered, m_vecChannelsIn has no    *)
(* part of one, and its timestamp is not taken for an absolute one.        *)
THEOREM NothingIsLeftOver == Spec => []NothingLeftOver
<1>1. ChunksInv => NothingLeftOver
  <2> SUFFICES ASSUME ChunksInv PROVE NothingLeftOver
    OBVIOUS
  <2>1. PICK s : s = Reader
    OBVIOUS
  <2>2. s.vecIn = vecIn /\ s.due = due /\ Clean(s)
    BY <2>1, ReaderFields, Zenon DEF ChunksInv
  <2> QED BY <2>2, Zenon DEF Clean, NothingLeftOver
<1> QED BY <1>1, ChunksInvariant, PTL

=============================================================================
