------------------------- MODULE RtmpSessionProofs -------------------------
(***************************************************************************)
(* The safety properties of RtmpSession hold for every server, every       *)
(* option set and every size the caller reads with.                        *)
(*                                                                         *)
(* The invariant has two parts.  Good is about what was sent and what      *)
(* waits for an answer; every operator that takes the struct and gives it  *)
(* back keeps it, whether its writes succeed or close the connection, and  *)
(* these lemmas are put together the way the handlers put the operators    *)
(* together.  Reads is about the bytes of RTMP_Read: the handlers leave    *)
(* them alone or drop them all with the connection (Serves).               *)
(***************************************************************************)
EXTENDS RtmpSession, LeastElement, FiniteSetTheorems, SequenceTheorems, TLAPS

(* The fields of the RTMP struct. *)
Fields == {"sock", "left", "streamId", "playing", "pausing", "calls", "numInvokes", "bwCheck",
           "timedout", "mediaStamp", "unreported", "header", "dataType", "status",
           "timestamp", "buf", "wire", "closes", "made", "given", "gap"}

(* Typed says what the fields hold, and that there is nothing kept back    *)
(* for the next call while the file header is not there.                   *)
Typed(s) ==
  /\ s = [f \in Fields |-> s[f]]
  /\ s.sock \in BOOLEAN /\ s.header \in BOOLEAN /\ s.timedout \in BOOLEAN /\ s.gap \in BOOLEAN
  /\ s.left \in Nat \union {Never}
  /\ s.streamId \in {-1, 0, 1} /\ s.pausing \in 0 .. 3 /\ s.status \in -3 .. 0
  /\ s.calls \in Seq([name : Commands, num : Nat]) /\ s.wire \in Seq(Commands)
  /\ s.numInvokes \in Nat /\ s.unreported \in Nat
  /\ s.timestamp \in Nat /\ s.mediaStamp \in Nat
  /\ s.dataType \subseteq {1, 4}
  /\ s.made \in Int /\ s.given \in Int
  /\ s.buf # NULL => s.header /\ s.buf \in [from : Nat, len : Nat]

Sent(s, w) == \E i \in DOMAIN s.wire : s.wire[i] = w

SentOnce(s, w) == \A i, j \in DOMAIN s.wire : s.wire[i] = w /\ s.wire[j] = w => i = j

Waits(s, w) == \E i \in DOMAIN s.calls : s.calls[i].name = w

(* The farewell is the last thing sent, and no connection that is up has   *)
(* seen it.                                                                *)
FarewellEnds(s) == \A i \in DOMAIN s.wire : s.wire[i] = "deleteStream" => i = Len(s.wire)

ClosedOnce(s) == s.closes \in 0 .. 1 /\ (s.sock => s.closes = 0)

Unparted(s) == s.sock => ~Sent(s, "deleteStream")

PauseKnown(s) == s.sock => (s.pausing \in {1, 2} <=> AskedToPause(s))

(* The requests whose answers lead to others go out once, in order. *)
Chained == {"connect", "createStream", "set_playlist", "play"}

InOrder(s) ==
  /\ \A w \in Chained : SentOnce(s, w)
  /\ Sent(s, "createStream") => Sent(s, "connect")
  /\ Sent(s, "play") => Sent(s, "createStream")
  /\ Sent(s, "set_playlist") => Sent(s, "createStream")

(* What waits for an answer has been sent, once, under a number of its     *)
(* own; what its answer leads to has not.                                  *)
CallsTold(s) ==
  /\ ~s.sock => s.calls = <<>>
  /\ \A i, j \in DOMAIN s.calls :
       /\ s.calls[i].num = s.calls[j].num => i = j
       /\ s.calls[i].name = s.calls[j].name /\ s.calls[i].name \in Chained => i = j
  /\ \A i \in DOMAIN s.calls :
       /\ s.calls[i].num <= s.numInvokes
       /\ s.calls[i].num = 0 <=> s.calls[i].name = "set_playlist"
       /\ Sent(s, s.calls[i].name)
  /\ Waits(s, "connect") => ~Sent(s, "createStream")
  /\ Waits(s, "createStream") => ~Sent(s, "play") /\ ~Sent(s, "set_playlist")

Good(s) == /\ Typed(s) /\ FarewellEnds(s) /\ ClosedOnce(s) /\ Unparted(s) /\ PauseKnown(s)
           /\ InOrder(s) /\ CallsTold(s)

(* What RTMP_Read has made and given, in a call (c) and between calls. *)
BetweenCalls(s) ==
  /\ s.given = 0
  /\ s.header => IF s.buf = NULL THEN s.made = 0 ELSE s.buf.from = 0 /\ s.buf.len = s.made

InHeader(s, c) == ~s.header /\ s.given = 0 /\ c.total = 0 /\ s.made \in Nat

InPacket(s, c) == /\ s.given = c.total /\ s.buf = NULL
                  /\ s.sock => s.header
                  /\ s.header => s.made = 0

IsCall(c) == \/ c \in [phase : {"packet"}, size : Nat \ {0}, total : Nat]
             \/ c \in [phase : {"header"}, size : Nat \ {0}, total : Nat, room : Int]

(* A status is set when a call ends for good. *)
Reads(s, c) ==
  /\ s.gap = FALSE
  /\ c = NULL => BetweenCalls(s)
  /\ c # NULL => /\ IsCall(c) /\ s.status = 0
                 /\ IF c.phase = "header" THEN InHeader(s, c) ELSE InPacket(s, c)
  /\ s.status # 0 => ~s.sock \/ s.timedout

SessionInv ==
  /\ Good(r) /\ Reads(r, call)
  /\ options \in OptionSets /\ pc \in {"connect", "stream", "read", "done"}
  /\ call # NULL => pc = "read"
  /\ pc = "connect" => /\ ~r.sock /\ r.wire = <<>> /\ r.closes = 0 /\ r.calls = <<>>
                       /\ r.pausing = 0
  /\ pc \in {"connect", "stream"} => ~r.header /\ r.status = 0
  /\ gaveUp \in BOOLEAN
  /\ pc = "done" /\ r.sock => r.timedout \/ gaveUp

-----------------------------------------------------------------------------
(* What an operator may do to the struct. *)

(* The bytes of RTMP_Read are left alone, or dropped with the connection. *)
Serves(s, t) ==
  /\ t.made = s.made /\ t.given = s.given /\ t.gap = s.gap
  /\ t.timestamp = s.timestamp /\ t.timedout = s.timedout
  /\ \/ t.sock = s.sock /\ t.header = s.header /\ t.buf = s.buf /\ t.status = s.status
     \/ ~t.sock /\ ~t.header /\ t.buf = NULL /\ t.status = 0

(* Nothing but name is sent or waits for an answer that did not before. *)
Said(s, t, name) ==
  \A w \in Commands : /\ Sent(t, w) => Sent(s, w) \/ w = name
                      /\ Sent(s, w) => Sent(t, w)
                      /\ Waits(t, w) => Waits(s, w) \/ w = name

(* An operator that keeps Good, serves and says at most name. *)
Keeps(s, t, name) == Good(t) /\ Serves(s, t) /\ Said(s, t, name)

(* Two steps in a row serve. *)
LEMMA ServesOn ==
  ASSUME NEW s, NEW t, NEW u, Serves(s, t), Serves(t, u)
  PROVE  Serves(s, u)
BY DEF Serves

(* A step that says nothing, then one that says name. *)
LEMMA KeepsOn ==
  ASSUME NEW s, NEW t, NEW u, NEW name, Keeps(s, t, "none"), Keeps(t, u, name)
  PROVE  Keeps(s, u, name)
<1>1. Serves(s, u)
  BY ServesOn DEF Keeps
<1>2. "none" \notin Commands
  BY DEF Commands
<1> QED BY <1>1, <1>2, Zenon DEF Keeps, Said

(* Fields the invariant does not relate to others may change. *)
LEMMA Touched ==
  ASSUME NEW s, NEW t, Good(s), Typed(t), t.sock = s.sock, t.wire = s.wire,
         t.closes = s.closes, t.calls = s.calls, t.numInvokes >= s.numInvokes,
         t.sock => (t.pausing \in {1, 2} <=> s.pausing \in {1, 2})
  PROVE  Good(t) /\ Said(s, t, "none")
<1>1. FarewellEnds(t) /\ ClosedOnce(t) /\ Unparted(t) /\ InOrder(t)
  BY DEF Good, FarewellEnds, ClosedOnce, Unparted, InOrder, Sent, SentOnce
<1>2. PauseKnown(t)
  BY DEF Good, PauseKnown, AskedToPause
<1>3. CallsTold(t)
  <2>1. \A i \in DOMAIN s.calls : s.calls[i].num \in Nat
    <3>1. s.calls \in Seq([name : Commands, num : Nat])
      BY DEF Good, Typed
    <3>2. \A i \in DOMAIN s.calls : s.calls[i] \in [name : Commands, num : Nat]
      BY <3>1, ElementOfSeq, LenProperties
    <3> QED BY <3>2
  <2>2. s.numInvokes \in Nat /\ t.numInvokes \in Nat
    BY DEF Good, Typed
  <2>3. \A i \in DOMAIN t.calls : t.calls[i].num <= t.numInvokes
    BY <2>1, <2>2 DEF Good, CallsTold
  <2>4. CallsTold(s)
    BY DEF Good
  <2>5. \A w : Sent(t, w) <=> Sent(s, w)
    BY DEF Sent
  <2>6. \A w : Waits(t, w) <=> Waits(s, w)
    BY DEF Waits
  <2> QED BY <2>3, <2>4, <2>5, <2>6, ZenonT(60) DEF CallsTold
<1>4. Said(s, t, "none")
  BY DEF Said, Sent, Waits
<1> QED BY <1>1, <1>2, <1>3, <1>4 DEF Good

(* What Dropped does to the fields. *)
LEMMA DroppedFields ==
  ASSUME NEW s, Typed(s), NEW t, t = Dropped(s)
  PROVE  /\ t.closes = (IF s.sock THEN s.closes + 1 ELSE s.closes)
         /\ t.sock = FALSE /\ t.calls = <<>> /\ t.buf = NULL /\ t.header = FALSE
         /\ t.status = 0 /\ t.numInvokes = 0 /\ t.wire = s.wire /\ t.dataType = {}
         /\ t.streamId = -1 /\ t.unreported = 0
         /\ t.left = s.left /\ t.pausing = s.pausing /\ t.timedout = s.timedout
         /\ t.mediaStamp = s.mediaStamp /\ t.timestamp = s.timestamp /\ t.made = s.made
         /\ t.given = s.given /\ t.gap = s.gap
         /\ t = [f \in Fields |-> t[f]]
<1>1. s = [f \in Fields |-> s[f]] /\ (s.buf # NULL => s.header) /\ s.header \in BOOLEAN
  BY DEF Typed
<1>2. PICK c : c = IF s.sock THEN s.closes + 1 ELSE s.closes
  OBVIOUS
<1>3. PICK b : b = IF s.header THEN NULL ELSE s.buf
  OBVIOUS
<1>4. b = NULL
  BY <1>1, <1>3
<1>5. t = [s EXCEPT !.closes = c, !.sock = FALSE, !.streamId = -1, !.bwCheck = 0,
                    !.unreported = 0, !.buf = b, !.header = FALSE, !.dataType = {},
                    !.status = 0, !.calls = <<>>, !.numInvokes = 0, !.playing = FALSE]
  BY <1>2, <1>3, ZenonT(60) DEF Dropped
<1>6. s = [f \in Fields |-> s[f]]
  BY <1>1
<1>7. t = [f \in Fields |-> t[f]]
  BY <1>5, <1>6, ZenonT(60)
<1>8. /\ t.closes = c /\ t.buf = b
      /\ t.sock = FALSE /\ t.calls = <<>> /\ t.header = FALSE
      /\ t.status = 0 /\ t.numInvokes = 0 /\ t.dataType = {}
      /\ t.streamId = -1 /\ t.unreported = 0
  BY <1>5, <1>6, SMTT(60) DEF Fields
<1>9. /\ t.wire = s.wire /\ t.left = s.left /\ t.pausing = s.pausing
      /\ t.timedout = s.timedout /\ t.mediaStamp = s.mediaStamp
      /\ t.timestamp = s.timestamp /\ t.made = s.made /\ t.given = s.given /\ t.gap = s.gap
  BY <1>5, <1>6, SMTT(60) DEF Fields
<1> QED BY <1>2, <1>4, <1>7, <1>8, <1>9

(* Dropping the connection needs little, and makes everything good. *)
LEMMA DroppedKeeps ==
  ASSUME NEW s, Typed(s), FarewellEnds(s), ClosedOnce(s), InOrder(s)
  PROVE  Keeps(s, Dropped(s), "none") /\ ~Dropped(s).sock /\ Dropped(s).wire = s.wire
<1>1. PICK t : t = Dropped(s)
  OBVIOUS
<1>2. Typed(t)
  <2>1. /\ t.sock = FALSE /\ t.calls = <<>> /\ t.buf = NULL /\ t.header = FALSE
        /\ t.status = 0 /\ t.numInvokes = 0 /\ t.wire = s.wire /\ t.dataType = {}
        /\ t.streamId = -1 /\ t.unreported = 0
        /\ t.left = s.left /\ t.pausing = s.pausing /\ t.timedout = s.timedout
        /\ t.mediaStamp = s.mediaStamp /\ t.timestamp = s.timestamp /\ t.made = s.made
        /\ t.given = s.given /\ t.gap = s.gap
        /\ t = [f \in Fields |-> t[f]]
    BY <1>1, DroppedFields, ZenonT(60)
  <2>2. t.sock \in BOOLEAN /\ t.header \in BOOLEAN
    BY <2>1
  <2>3. t.streamId \in {-1, 0, 1} /\ t.status \in -3 .. 0
    BY <2>1
  <2>4. t.numInvokes \in Nat /\ t.unreported \in Nat /\ t.dataType \subseteq {1, 4}
    BY <2>1
  <2>5. t.calls \in Seq([name : Commands, num : Nat])
    BY <2>1
  <2>6. t.buf # NULL => t.header /\ t.buf \in [from : Nat, len : Nat]
    BY <2>1
  <2>7. /\ t.timedout \in BOOLEAN /\ t.gap \in BOOLEAN /\ t.left \in Nat \union {Never}
        /\ t.pausing \in 0 .. 3 /\ t.wire \in Seq(Commands) /\ t.timestamp \in Nat
        /\ t.mediaStamp \in Nat /\ t.made \in Int /\ t.given \in Int
    BY <2>1, Zenon DEF Typed
  <2> QED BY <2>1, <2>2, <2>3, <2>4, <2>5, <2>6, <2>7, Zenon DEF Typed
<1>3. t.wire = s.wire /\ ~t.sock /\ t.calls = <<>>
  BY <1>1, DroppedFields
<1>4. FarewellEnds(t) /\ Unparted(t) /\ InOrder(t) /\ PauseKnown(t)
  BY <1>3 DEF FarewellEnds, Unparted, InOrder, PauseKnown, Sent, SentOnce
<1>5. ClosedOnce(t)
  <2>1. t.closes = (IF s.sock THEN s.closes + 1 ELSE s.closes)
    BY <1>1, DroppedFields
  <2> QED BY <2>1, <1>3 DEF ClosedOnce, Typed
<1>6. CallsTold(t) /\ Said(s, t, "none")
  BY <1>3 DEF CallsTold, Said, Sent, Waits
<1>7. Serves(s, t)
  BY <1>1, DroppedFields DEF Serves
<1> QED BY <1>1, <1>2, <1>3, <1>4, <1>5, <1>6, <1>7, Zenon DEF Keeps, Good

-----------------------------------------------------------------------------
(* Sending. *)

(* A write takes one from what the connection will take, and no more. *)
LEMMA WrittenFields ==
  ASSUME NEW s, Typed(s), CanWrite(s), NEW t, t = Written(s)
  PROVE  /\ t.left \in Nat \union {Never}
         /\ t.sock = s.sock /\ t.streamId = s.streamId /\ t.playing = s.playing
         /\ t.pausing = s.pausing /\ t.calls = s.calls /\ t.numInvokes = s.numInvokes
         /\ t.bwCheck = s.bwCheck /\ t.timedout = s.timedout
         /\ t.mediaStamp = s.mediaStamp /\ t.unreported = s.unreported
         /\ t.header = s.header /\ t.dataType = s.dataType /\ t.status = s.status
         /\ t.timestamp = s.timestamp /\ t.buf = s.buf /\ t.wire = s.wire
         /\ t.closes = s.closes /\ t.made = s.made /\ t.given = s.given /\ t.gap = s.gap
         /\ t = [f \in Fields |-> t[f]]
<1>1. s = [f \in Fields |-> s[f]]
  BY Zenon DEF Typed
<1>2. s.left \in Nat \union {Never} /\ s.left # 0
  BY Zenon DEF Typed, CanWrite
<1>3. CASE s.left = Never
  <2>1. t = s
    BY <1>3, Zenon DEF Written
  <2> QED BY <2>1, <1>1, <1>2, Zenon
<1>4. CASE s.left # Never
  <2>1. t = [s EXCEPT !.left = @ - 1]
    BY <1>4 DEF Written
  <2>2. s.left - 1 \in Nat
    BY <1>2, <1>4
  <2> QED BY <2>1, <2>2, <1>1 DEF Fields
<1> QED BY <1>3, <1>4

(* A write leaves the struct its types. *)
LEMMA WrittenTyped ==
  ASSUME NEW s, Typed(s), CanWrite(s)
  PROVE  Typed(Written(s))
<1>1. PICK t : t = Written(s)
  OBVIOUS
<1>2. /\ t.left \in Nat \union {Never}
      /\ t.sock = s.sock /\ t.streamId = s.streamId /\ t.playing = s.playing
      /\ t.pausing = s.pausing /\ t.calls = s.calls /\ t.numInvokes = s.numInvokes
      /\ t.bwCheck = s.bwCheck /\ t.timedout = s.timedout
      /\ t.mediaStamp = s.mediaStamp /\ t.unreported = s.unreported
      /\ t.header = s.header /\ t.dataType = s.dataType /\ t.status = s.status
      /\ t.timestamp = s.timestamp /\ t.buf = s.buf /\ t.wire = s.wire
      /\ t.made = s.made /\ t.given = s.given /\ t.gap = s.gap
      /\ t = [f \in Fields |-> t[f]]
  BY <1>1, WrittenFields
<1>3. Typed(t)
  BY <1>2, Zenon DEF Typed
<1> QED BY <1>1, <1>3

(* A packet that is not a request keeps Good. *)
LEMMA SendPacketKeeps ==
  ASSUME NEW s, Good(s)
  PROVE  Keeps(s, SendPacket(s), "none")
<1>1. Typed(s) /\ FarewellEnds(s) /\ ClosedOnce(s) /\ InOrder(s)
  BY DEF Good
<1>2. CASE ~CanWrite(s)
  BY <1>1, <1>2, DroppedKeeps, Zenon DEF SendPacket
<1>3. CASE CanWrite(s)
  <2>1. PICK t : t = Written(s)
    OBVIOUS
  <2>2. Typed(t)
    BY <2>1, <1>1, <1>3, WrittenTyped
  <2>3. /\ t.sock = s.sock /\ t.pausing = s.pausing /\ t.calls = s.calls
        /\ t.numInvokes = s.numInvokes /\ t.timedout = s.timedout
        /\ t.header = s.header /\ t.status = s.status
        /\ t.timestamp = s.timestamp /\ t.buf = s.buf /\ t.wire = s.wire
        /\ t.closes = s.closes /\ t.made = s.made /\ t.given = s.given /\ t.gap = s.gap
    BY <2>1, <1>1, <1>3, WrittenFields
  <2>4. t.numInvokes >= s.numInvokes
    <3>1. s.numInvokes \in Nat
      BY <1>1, Zenon DEF Typed
    <3> QED BY <3>1, <2>3
  <2>5. Good(t) /\ Said(s, t, "none")
    BY <2>2, <2>3, <2>4, Touched
  <2>6. Serves(s, t)
    BY <2>3, Zenon DEF Serves
  <2> QED BY <1>3, <2>1, <2>5, <2>6, Zenon DEF Keeps, SendPacket
<1> QED BY <1>2, <1>3

(* What is needed of a request before it is sent, if it is one of a chain. *)
Ready(s, name) ==
  /\ name \in Chained => ~Sent(s, name)
  /\ name = "createStream" => Sent(s, "connect") /\ ~Waits(s, "connect")
  /\ name = "play" => Sent(s, "createStream") /\ ~Waits(s, "createStream")
  /\ name = "set_playlist" => Sent(s, "createStream") /\ ~Waits(s, "createStream")

(* Appended to what was sent, a request is the last of it. *)
LEMMA SentMore ==
  ASSUME NEW s, NEW t, NEW name \in Commands, s.wire \in Seq(Commands),
         t.wire = Append(s.wire, name)
  PROVE  /\ t.wire \in Seq(Commands) /\ Len(t.wire) = Len(s.wire) + 1
         /\ DOMAIN t.wire = 1 .. Len(s.wire) + 1 /\ DOMAIN s.wire = 1 .. Len(s.wire)
         /\ Len(s.wire) \in Nat
         /\ \A i \in DOMAIN s.wire : t.wire[i] = s.wire[i]
         /\ t.wire[Len(s.wire) + 1] = name
         /\ \A w : Sent(t, w) <=> Sent(s, w) \/ w = name
<1>1. /\ t.wire \in Seq(Commands) /\ Len(t.wire) = Len(s.wire) + 1
      /\ DOMAIN t.wire = 1 .. Len(s.wire) + 1 /\ DOMAIN s.wire = 1 .. Len(s.wire)
      /\ Len(s.wire) \in Nat
      /\ \A i \in DOMAIN s.wire : t.wire[i] = s.wire[i]
      /\ t.wire[Len(s.wire) + 1] = name
  OBVIOUS
<1>2. \A w : Sent(t, w) <=> Sent(s, w) \/ w = name
  BY <1>1 DEF Sent
<1> QED BY <1>1, <1>2

(* A call in the queue behind the others. *)
LEMMA WaitsMore ==
  ASSUME NEW s, NEW t, NEW name \in Commands, NEW num \in Nat,
         s.calls \in Seq([name : Commands, num : Nat]),
         t.calls = Append(s.calls, [name |-> name, num |-> num])
  PROVE  /\ t.calls \in Seq([name : Commands, num : Nat])
         /\ DOMAIN t.calls = 1 .. Len(s.calls) + 1 /\ DOMAIN s.calls = 1 .. Len(s.calls)
         /\ Len(s.calls) \in Nat
         /\ \A i \in DOMAIN s.calls : t.calls[i] = s.calls[i]
         /\ t.calls[Len(s.calls) + 1].name = name
         /\ t.calls[Len(s.calls) + 1].num = num
         /\ \A w : Waits(t, w) <=> Waits(s, w) \/ w = name
<1>1. /\ t.calls \in Seq([name : Commands, num : Nat])
      /\ DOMAIN t.calls = 1 .. Len(s.calls) + 1 /\ DOMAIN s.calls = 1 .. Len(s.calls)
      /\ Len(s.calls) \in Nat
      /\ \A i \in DOMAIN s.calls : t.calls[i] = s.calls[i]
      /\ t.calls[Len(s.calls) + 1] = [name |-> name, num |-> num]
  OBVIOUS
<1>2. \A w : Waits(t, w) <=> Waits(s, w) \/ w = name
  BY <1>1, SMTT(60) DEF Waits
<1> QED BY <1>1, <1>2

(* A number no call has. *)
Fresh(s, num) == \A i \in DOMAIN s.calls : s.calls[i].num # num

(* What a request leaves behind when it was written. *)
Requested(s, t, name, num, queue) ==
  /\ t.sock = s.sock /\ t.closes = s.closes /\ t.numInvokes = s.numInvokes
  /\ t.wire = Append(s.wire, name)
  /\ t.calls = IF queue THEN Append(s.calls, [name |-> name, num |-> num]) ELSE s.calls

(* A request is said once, and in order. *)
LEMMA RequestedInOrder ==
  ASSUME NEW s, NEW t, NEW name \in Commands \ {"deleteStream"}, NEW num, NEW queue,
         s.wire \in Seq(Commands), Unparted(s), s.sock, InOrder(s), Ready(s, name),
         Requested(s, t, name, num, queue)
  PROVE  FarewellEnds(t) /\ Unparted(t) /\ InOrder(t)
<1>1. name \in Commands /\ t.wire = Append(s.wire, name) /\ t.sock = s.sock
  BY DEF Requested
<1>2. /\ Len(t.wire) = Len(s.wire) + 1
      /\ DOMAIN t.wire = 1 .. Len(s.wire) + 1 /\ DOMAIN s.wire = 1 .. Len(s.wire)
      /\ Len(s.wire) \in Nat
      /\ \A i \in DOMAIN s.wire : t.wire[i] = s.wire[i]
      /\ t.wire[Len(s.wire) + 1] = name
      /\ \A w : Sent(t, w) <=> Sent(s, w) \/ w = name
  BY <1>1, SentMore
<1>3. ~Sent(t, "deleteStream")
  BY <1>2, Zenon DEF Unparted
<1>4. FarewellEnds(t) /\ Unparted(t)
  BY <1>3 DEF FarewellEnds, Unparted, Sent
<1>5. \A w \in Chained : SentOnce(t, w)
  <2> TAKE w \in Chained
  <2>1. SentOnce(s, w)
    BY Zenon DEF InOrder
  <2>2. w = name => ~Sent(s, w)
    BY Zenon DEF Ready
  <2> QED BY <1>2, <2>1, <2>2, SMTT(60) DEF SentOnce, Sent
<1>6. /\ Sent(t, "createStream") => Sent(t, "connect")
      /\ Sent(t, "play") => Sent(t, "createStream")
      /\ Sent(t, "set_playlist") => Sent(t, "createStream")
  <2>1. /\ Sent(s, "createStream") => Sent(s, "connect")
        /\ Sent(s, "play") => Sent(s, "createStream")
        /\ Sent(s, "set_playlist") => Sent(s, "createStream")
    BY Zenon DEF InOrder
  <2>2. /\ name = "createStream" => Sent(s, "connect")
        /\ name = "play" => Sent(s, "createStream")
        /\ name = "set_playlist" => Sent(s, "createStream")
    BY Zenon DEF Ready
  <2> QED BY <1>2, <2>1, <2>2, Zenon
<1> QED BY <1>4, <1>5, <1>6, Zenon DEF InOrder

(* The calls of CallsTold, by themselves. *)
CallsApart(s) ==
  \A i, j \in DOMAIN s.calls :
    /\ s.calls[i].num = s.calls[j].num => i = j
    /\ s.calls[i].name = s.calls[j].name /\ s.calls[i].name \in Chained => i = j

CallTold(s, i) ==
  /\ s.calls[i].num <= s.numInvokes
  /\ s.calls[i].num = 0 <=> s.calls[i].name = "set_playlist"
  /\ Sent(s, s.calls[i].name)

(* CallsTold, entry by entry. *)
LEMMA CallsToldParts ==
  ASSUME NEW s
  PROVE  CallsTold(s) <=>
           /\ ~s.sock => s.calls = <<>>
           /\ CallsApart(s) /\ \A i \in DOMAIN s.calls : CallTold(s, i)
           /\ Waits(s, "connect") => ~Sent(s, "createStream")
           /\ Waits(s, "createStream") => ~Sent(s, "play") /\ ~Sent(s, "set_playlist")
BY Zenon DEF CallsTold, CallsApart, CallTold

(* What waits was sent. *)
LEMMA WaitsSent ==
  ASSUME NEW s, NEW w, CallsTold(s), Waits(s, w)
  PROVE  Sent(s, w)
BY Zenon DEF CallsTold, Waits

(* What waits after a request. *)
LEMMA RequestedTold ==
  ASSUME NEW s, NEW t, NEW name \in Commands, NEW num \in Nat, NEW queue \in BOOLEAN,
         s.wire \in Seq(Commands), s.calls \in Seq([name : Commands, num : Nat]), s.sock,
         InOrder(s), CallsTold(s), Ready(s, name), Fresh(s, num), num <= s.numInvokes,
         num = 0 <=> name = "set_playlist", ~queue => name \notin Chained,
         Requested(s, t, name, num, queue)
  PROVE  CallsTold(t) /\ Said(s, t, name)
<1>1. t.wire = Append(s.wire, name) /\ t.sock = s.sock /\ t.numInvokes = s.numInvokes
  BY Zenon DEF Requested
<1>2. \A w : Sent(t, w) <=> Sent(s, w) \/ w = name
  BY <1>1, SentMore
<1>3. /\ CallsApart(s) /\ \A i \in DOMAIN s.calls : CallTold(s, i)
      /\ Waits(s, "connect") => ~Sent(s, "createStream")
      /\ Waits(s, "createStream") => ~Sent(s, "play") /\ ~Sent(s, "set_playlist")
  BY CallsToldParts, Zenon
<1>4. \A w : Waits(t, w) => Waits(s, w) \/ (w = name /\ queue)
  <2>1. CASE queue
    <3>1. t.calls = Append(s.calls, [name |-> name, num |-> num])
      BY <2>1 DEF Requested
    <3> QED BY <3>1, <2>1, WaitsMore
  <2>2. CASE ~queue
    BY <2>2 DEF Requested, Waits
  <2> QED BY <2>1, <2>2
<1>5. Said(s, t, name)
  BY <1>2, <1>4, Zenon DEF Said
<1>6. \A i \in DOMAIN s.calls : /\ s.calls[i].num # num
                                /\ s.calls[i].name = name => name \notin Chained
  <2>1. \A i \in DOMAIN s.calls : Sent(s, s.calls[i].name)
    BY <1>3, Zenon DEF CallTold
  <2> QED BY <2>1, Zenon DEF Fresh, Ready
<1>7. CallsApart(t) /\ \A i \in DOMAIN t.calls : CallTold(t, i)
  <2>1. CASE queue
    <3>1. t.calls = Append(s.calls, [name |-> name, num |-> num])
      BY <2>1 DEF Requested
    <3>2. /\ DOMAIN t.calls = 1 .. Len(s.calls) + 1 /\ DOMAIN s.calls = 1 .. Len(s.calls)
          /\ Len(s.calls) \in Nat
          /\ \A i \in DOMAIN s.calls : t.calls[i] = s.calls[i]
          /\ t.calls[Len(s.calls) + 1].name = name
          /\ t.calls[Len(s.calls) + 1].num = num
      BY <3>1, WaitsMore
    <3>3. \A i \in DOMAIN t.calls : i \in DOMAIN s.calls \/ i = Len(s.calls) + 1
      BY <3>2
    <3>4. \A i \in DOMAIN t.calls : CallTold(t, i)
      <4> TAKE i \in DOMAIN t.calls
      <4>1. CASE i \in DOMAIN s.calls
        BY <4>1, <3>2, <1>1, <1>2, <1>3, Zenon DEF CallTold
      <4>2. CASE i = Len(s.calls) + 1
        BY <4>2, <3>2, <1>1, <1>2, Zenon DEF CallTold
      <4> QED BY <3>3, <4>1, <4>2
    <3>5. CallsApart(t)
      <4> SUFFICES ASSUME NEW i \in DOMAIN t.calls, NEW j \in DOMAIN t.calls
                   PROVE  /\ t.calls[i].num = t.calls[j].num => i = j
                          /\ t.calls[i].name = t.calls[j].name /\ t.calls[i].name \in Chained
                               => i = j
        BY DEF CallsApart
      <4>1. CASE i \in DOMAIN s.calls /\ j \in DOMAIN s.calls
        <5>1. t.calls[i] = s.calls[i] /\ t.calls[j] = s.calls[j]
          BY <4>1, <3>2
        <5>2. /\ s.calls[i].num = s.calls[j].num => i = j
              /\ s.calls[i].name = s.calls[j].name /\ s.calls[i].name \in Chained => i = j
          BY <4>1, <1>3 DEF CallsApart
        <5> QED BY <5>1, <5>2
      <4>2. CASE i \in DOMAIN s.calls /\ j = Len(s.calls) + 1
        <5>1. t.calls[i] = s.calls[i] /\ t.calls[j].name = name /\ t.calls[j].num = num
          BY <4>2, <3>2
        <5>2. /\ s.calls[i].num # num
              /\ s.calls[i].name = name => name \notin Chained
          BY <4>2, <1>6, Zenon
        <5> QED BY <5>1, <5>2
      <4>3. CASE i = Len(s.calls) + 1 /\ j \in DOMAIN s.calls
        <5>1. t.calls[j] = s.calls[j] /\ t.calls[i].name = name /\ t.calls[i].num = num
          BY <4>3, <3>2
        <5>2. /\ s.calls[j].num # num
              /\ s.calls[j].name = name => name \notin Chained
          BY <4>3, <1>6, Zenon
        <5> QED BY <5>1, <5>2
      <4>4. CASE i = Len(s.calls) + 1 /\ j = Len(s.calls) + 1
        BY <4>4
      <4> QED BY <3>3, <4>1, <4>2, <4>3, <4>4
    <3> QED BY <3>4, <3>5
  <2>2. CASE ~queue
    <3>1. t.calls = s.calls
      BY <2>2 DEF Requested
    <3>2. CallsApart(t)
      BY <3>1, <1>3 DEF CallsApart
    <3>3. \A i \in DOMAIN t.calls : CallTold(t, i)
      BY <3>1, <1>1, <1>2, <1>3 DEF CallTold
    <3> QED BY <3>2, <3>3
  <2> QED BY <2>1, <2>2
<1>8. Waits(t, "connect") => ~Sent(t, "createStream")
  <2>1. name = "connect" => ~Sent(s, "createStream")
    BY Zenon DEF Ready, InOrder, Chained
  <2>2. name = "createStream" => ~Waits(s, "connect")
    BY Zenon DEF Ready
  <2> QED BY <2>1, <2>2, <1>2, <1>3, <1>4
<1>9. Waits(t, "createStream") => ~Sent(t, "play") /\ ~Sent(t, "set_playlist")
  <2>1. name = "createStream" => ~Sent(s, "play") /\ ~Sent(s, "set_playlist")
    BY Zenon DEF Ready, InOrder, Chained
  <2>2. name = "play" \/ name = "set_playlist" => ~Waits(s, "createStream")
    BY Zenon DEF Ready
  <2> QED BY <2>1, <2>2, <1>2, <1>3, <1>4
<1> QED BY <1>1, <1>5, <1>7, <1>8, <1>9, CallsToldParts, Zenon

(* The fields of a request that was written. *)
LEMMA RequestFields ==
  ASSUME NEW s, Typed(s), CanWrite(s), NEW name \in Commands, NEW num \in Nat,
         NEW queue \in BOOLEAN, NEW t, t = SendInvoke(s, name, num, queue)
  PROVE  /\ Requested(s, t, name, num, queue) /\ Typed(t)
         /\ t.pausing = s.pausing /\ t.sock = s.sock /\ Serves(s, t)
<1>1. PICK u : u = Written(s)
  OBVIOUS
<1>2. /\ u.left \in Nat \union {Never}
      /\ u.sock = s.sock /\ u.streamId = s.streamId /\ u.playing = s.playing
      /\ u.pausing = s.pausing /\ u.calls = s.calls /\ u.numInvokes = s.numInvokes
      /\ u.bwCheck = s.bwCheck /\ u.timedout = s.timedout
      /\ u.mediaStamp = s.mediaStamp /\ u.unreported = s.unreported
      /\ u.header = s.header /\ u.dataType = s.dataType /\ u.status = s.status
      /\ u.timestamp = s.timestamp /\ u.buf = s.buf /\ u.wire = s.wire
      /\ u.closes = s.closes /\ u.made = s.made /\ u.given = s.given /\ u.gap = s.gap
      /\ u = [f \in Fields |-> u[f]]
  BY <1>1, WrittenFields
<1>3. Typed(u)
  BY <1>1, WrittenTyped
<1>4. PICK c : c = IF queue THEN Append(u.calls, [name |-> name, num |-> num]) ELSE u.calls
  OBVIOUS
<1>5. PICK w : w = Append(u.wire, name)
  OBVIOUS
<1>6. t = [u EXCEPT !.wire = w, !.calls = c]
  BY <1>1, <1>4, <1>5, Zenon DEF SendInvoke
<1>7. /\ t.wire = w /\ t.calls = c /\ t.left = u.left
      /\ t.sock = u.sock /\ t.streamId = u.streamId
      /\ t.pausing = u.pausing /\ t.numInvokes = u.numInvokes
      /\ t.timedout = u.timedout
      /\ t.mediaStamp = u.mediaStamp /\ t.unreported = u.unreported
      /\ t.header = u.header /\ t.dataType = u.dataType /\ t.status = u.status
      /\ t.timestamp = u.timestamp /\ t.buf = u.buf
      /\ t.closes = u.closes /\ t.made = u.made /\ t.given = u.given /\ t.gap = u.gap
      /\ t = [f \in Fields |-> t[f]]
  <2>1. u = [f \in Fields |-> u[f]]
    BY <1>2
  <2> QED BY <1>6, <2>1 DEF Fields
<1>8. w \in Seq(Commands) /\ c \in Seq([name : Commands, num : Nat])
  <2>1. u.wire \in Seq(Commands) /\ u.calls \in Seq([name : Commands, num : Nat])
    BY <1>3, Zenon DEF Typed
  <2>2. w \in Seq(Commands)
    BY <1>5, <2>1
  <2>3. CASE queue
    <3>1. c = Append(u.calls, [name |-> name, num |-> num])
      BY <2>3, <1>4
    <3>2. [name |-> name, num |-> num] \in [name : Commands, num : Nat]
      OBVIOUS
    <3> QED BY <3>1, <3>2, <2>1, <2>2
  <2>4. CASE ~queue
    BY <2>4, <1>4, <2>1, <2>2
  <2> QED BY <2>3, <2>4
<1>9. Typed(t)
  BY <1>3, <1>7, <1>8, Zenon DEF Typed
<1>10. Requested(s, t, name, num, queue)
  <2>1. t.calls = IF queue THEN Append(s.calls, [name |-> name, num |-> num]) ELSE s.calls
    BY <1>2, <1>4, <1>7, Zenon
  <2> QED BY <2>1, <1>2, <1>5, <1>7, Zenon DEF Requested
<1>11. Serves(s, t)
  BY <1>2, <1>7, Zenon DEF Serves
<1> QED BY <1>2, <1>7, <1>9, <1>10, <1>11

(* What the client asked for last is not changed by another request. *)
LEMMA SameAsk ==
  ASSUME NEW s, NEW t, NEW name \in Commands \ {"pause", "unpause"}, s.wire \in Seq(Commands),
         t.wire = Append(s.wire, name)
  PROVE  AskedToPause(t) <=> AskedToPause(s)
<1>1. name \in Commands /\ name # "pause" /\ name # "unpause"
  OBVIOUS
<1>2. /\ DOMAIN t.wire = 1 .. Len(s.wire) + 1 /\ DOMAIN s.wire = 1 .. Len(s.wire)
      /\ Len(s.wire) \in Nat
      /\ \A i \in DOMAIN s.wire : t.wire[i] = s.wire[i]
      /\ t.wire[Len(s.wire) + 1] = name
  BY <1>1, SentMore
<1>3. \A i \in DOMAIN t.wire :
        (t.wire[i] = "pause" \/ t.wire[i] = "unpause") => i \in DOMAIN s.wire
  BY <1>1, <1>2
<1>4. DOMAIN s.wire \subseteq DOMAIN t.wire
  BY <1>2
<1>5. ASSUME AskedToPause(t) PROVE AskedToPause(s)
  <2>1. PICK i \in DOMAIN t.wire : /\ t.wire[i] = "pause"
                                   /\ \A j \in DOMAIN t.wire : t.wire[j] = "unpause" => j < i
    BY <1>5, Zenon DEF AskedToPause
  <2>2. i \in DOMAIN s.wire /\ s.wire[i] = "pause"
    BY <2>1, <1>2, <1>3
  <2>3. \A j \in DOMAIN s.wire : s.wire[j] = "unpause" => j < i
    BY <2>1, <1>2, <1>4
  <2> QED BY <2>2, <2>3, Zenon DEF AskedToPause
<1>6. ASSUME AskedToPause(s) PROVE AskedToPause(t)
  <2>1. PICK i \in DOMAIN s.wire : /\ s.wire[i] = "pause"
                                   /\ \A j \in DOMAIN s.wire : s.wire[j] = "unpause" => j < i
    BY <1>6, Zenon DEF AskedToPause
  <2>2. i \in DOMAIN t.wire /\ t.wire[i] = "pause"
    BY <2>1, <1>2, <1>4
  <2>3. \A j \in DOMAIN t.wire : t.wire[j] = "unpause" => j < i
    BY <2>1, <1>2, <1>3
  <2> QED BY <2>2, <2>3, Zenon DEF AskedToPause
<1> QED BY <1>5, <1>6

(* A pause is asked for, an unpause takes it back. *)
LEMMA AskPause ==
  ASSUME NEW s, NEW t, s.wire \in Seq(Commands), t.wire = Append(s.wire, "pause")
  PROVE  AskedToPause(t)
<1>1. "pause" \in Commands
  BY DEF Commands
<1>2. /\ DOMAIN t.wire = 1 .. Len(s.wire) + 1 /\ Len(s.wire) \in Nat
      /\ t.wire[Len(s.wire) + 1] = "pause"
  BY <1>1, SentMore
<1>3. \A j \in DOMAIN t.wire : t.wire[j] = "unpause" => j < Len(s.wire) + 1
  BY <1>2
<1>4. Len(s.wire) + 1 \in DOMAIN t.wire
  BY <1>2
<1> QED BY <1>2, <1>3, <1>4, Zenon DEF AskedToPause

(* An unpause sent last is what the server was asked for. *)
LEMMA AskUnpause ==
  ASSUME NEW s, NEW t, s.wire \in Seq(Commands), t.wire = Append(s.wire, "unpause")
  PROVE  ~AskedToPause(t)
<1>1. "unpause" \in Commands
  BY DEF Commands
<1>2. /\ DOMAIN t.wire = 1 .. Len(s.wire) + 1 /\ Len(s.wire) \in Nat
      /\ t.wire[Len(s.wire) + 1] = "unpause"
  BY <1>1, SentMore
<1>3. Len(s.wire) + 1 \in DOMAIN t.wire
  BY <1>2
<1> QED BY <1>2, <1>3 DEF AskedToPause

(* A request that is ready keeps Good. *)
LEMMA SendInvokeKeeps ==
  ASSUME NEW s, Good(s), NEW name \in Commands \ {"deleteStream", "pause", "unpause"},
         NEW num \in Nat, NEW queue \in BOOLEAN, s.sock => Ready(s, name), Fresh(s, num),
         num <= s.numInvokes, num = 0 <=> name = "set_playlist", ~queue => name \notin Chained
  PROVE  Keeps(s, SendInvoke(s, name, num, queue), name)
<1>1. /\ Typed(s) /\ FarewellEnds(s) /\ ClosedOnce(s) /\ InOrder(s) /\ Unparted(s)
      /\ PauseKnown(s) /\ CallsTold(s)
  BY DEF Good
<1>2. CASE ~CanWrite(s)
  <2>1. Keeps(s, Dropped(s), "none")
    BY <1>1, DroppedKeeps
  <2>2. "none" \notin Commands
    BY DEF Commands
  <2>3. Keeps(s, Dropped(s), name)
    BY <2>1, <2>2, Zenon DEF Keeps, Said
  <2> QED BY <1>2, <2>3, Zenon DEF SendInvoke
<1>3. CASE CanWrite(s)
  <2>1. PICK t : t = SendInvoke(s, name, num, queue)
    OBVIOUS
  <2>2. name \in Commands
    OBVIOUS
  <2>3. /\ Requested(s, t, name, num, queue) /\ Typed(t)
        /\ t.pausing = s.pausing /\ t.sock = s.sock /\ Serves(s, t)
    BY <2>1, <2>2, <1>1, <1>3, RequestFields
  <2>4. s.sock /\ s.wire \in Seq(Commands) /\ s.calls \in Seq([name : Commands, num : Nat])
    BY <1>1, <1>3, Zenon DEF CanWrite, Typed
  <2>5. Ready(s, name)
    BY <2>4
  <2>6. FarewellEnds(t) /\ Unparted(t) /\ InOrder(t)
    BY <1>1, <2>3, <2>4, <2>5, RequestedInOrder
  <2>7. CallsTold(t) /\ Said(s, t, name)
    BY <1>1, <2>2, <2>3, <2>4, <2>5, RequestedTold
  <2>8. PauseKnown(t)
    <3>1. t.wire = Append(s.wire, name)
      BY <2>3, Zenon DEF Requested
    <3>2. AskedToPause(t) <=> AskedToPause(s)
      BY <3>1, <2>4, SameAsk
    <3> QED BY <3>2, <1>1, <2>3, Zenon DEF PauseKnown
  <2>9. ClosedOnce(t)
    BY <1>1, <2>3 DEF ClosedOnce, Requested
  <2> QED BY <2>1, <2>3, <2>6, <2>7, <2>8, <2>9, Zenon DEF Keeps, Good
<1> QED BY <1>2, <1>3

-----------------------------------------------------------------------------
(* Assignments to fields by themselves. *)

(* The fields that other operators look at are the same. *)
Alike(s, t) ==
  /\ t = [f \in Fields |-> t[f]]
  /\ t.sock = s.sock /\ t.left = s.left /\ t.calls = s.calls /\ t.wire = s.wire
  /\ t.numInvokes = s.numInvokes /\ t.closes = s.closes
  /\ t.header = s.header /\ t.status = s.status /\ t.timestamp = s.timestamp
  /\ t.buf = s.buf /\ t.made = s.made /\ t.given = s.given /\ t.gap = s.gap

SoftTyped(t) ==
  /\ t.streamId \in {-1, 0, 1} /\ t.pausing \in 0 .. 3 /\ t.timedout \in BOOLEAN
  /\ t.unreported \in Nat /\ t.mediaStamp \in Nat /\ t.dataType \subseteq {1, 4}

(* A change of soft fields alone keeps Good and says nothing. *)
LEMMA AlikeKeeps ==
  ASSUME NEW s, NEW t, Good(s), Alike(s, t), SoftTyped(t),
         t.sock => (t.pausing \in {1, 2} <=> s.pausing \in {1, 2})
  PROVE  Good(t) /\ Said(s, t, "none") /\ (t.timedout = s.timedout => Serves(s, t))
<1>1. Typed(s)
  BY DEF Good
<1>2. Typed(t)
  BY <1>1, Zenon DEF Typed, Alike, SoftTyped
<1>3. /\ t.sock = s.sock /\ t.wire = s.wire /\ t.closes = s.closes /\ t.calls = s.calls
      /\ t.numInvokes = s.numInvokes
  BY Zenon DEF Alike
<1>4. t.numInvokes >= s.numInvokes
  <2>1. s.numInvokes \in Nat
    BY <1>1, Zenon DEF Typed
  <2> QED BY <2>1, <1>3
<1>5. Good(t) /\ Said(s, t, "none")
  BY <1>2, <1>3, <1>4, Touched
<1>6. t.timedout = s.timedout => Serves(s, t)
  BY Zenon DEF Alike, Serves
<1> QED BY <1>5, <1>6

(* The stream number may be set. *)
LEMMA StreamIdKeeps ==
  ASSUME NEW s, Good(s), NEW sid \in {-1, 0, 1}
  PROVE  /\ Keeps(s, [s EXCEPT !.streamId = sid], "none")
         /\ [s EXCEPT !.streamId = sid].sock = s.sock
<1>1. PICK t : t = [s EXCEPT !.streamId = sid]
  OBVIOUS
<1>2. s = [f \in Fields |-> s[f]] /\ SoftTyped(s)
  BY Zenon DEF Good, Typed, SoftTyped
<1>3. /\ Alike(s, t) /\ t.pausing = s.pausing /\ t.timedout = s.timedout
      /\ t.unreported = s.unreported /\ t.mediaStamp = s.mediaStamp
      /\ t.dataType = s.dataType /\ t.streamId = sid
  BY <1>1, <1>2 DEF Fields, Alike
<1>4. SoftTyped(t)
  BY <1>2, <1>3, Zenon DEF SoftTyped
<1>5. t.sock = s.sock
  BY <1>3, Zenon DEF Alike
<1> QED BY <1>1, <1>3, <1>4, <1>5, AlikeKeeps, Zenon DEF Keeps

(* The playing flag may be set. *)
LEMMA PlayingKeeps ==
  ASSUME NEW s, Good(s)
  PROVE  /\ Keeps(s, [s EXCEPT !.playing = TRUE], "none")
         /\ [s EXCEPT !.playing = TRUE].sock = s.sock
<1>1. PICK t : t = [s EXCEPT !.playing = TRUE]
  OBVIOUS
<1>2. s = [f \in Fields |-> s[f]] /\ SoftTyped(s)
  BY Zenon DEF Good, Typed, SoftTyped
<1>3. /\ Alike(s, t) /\ t.pausing = s.pausing /\ t.timedout = s.timedout
      /\ t.unreported = s.unreported /\ t.mediaStamp = s.mediaStamp
      /\ t.dataType = s.dataType /\ t.streamId = s.streamId
  BY <1>1, <1>2 DEF Fields, Alike
<1>4. SoftTyped(t)
  BY <1>2, <1>3, Zenon DEF SoftTyped
<1>5. t.sock = s.sock
  BY <1>3, Zenon DEF Alike
<1> QED BY <1>1, <1>3, <1>4, <1>5, AlikeKeeps, Zenon DEF Keeps

(* The bandwidth counter may change. *)
LEMMA BwCheckKeeps ==
  ASSUME NEW s, Good(s)
  PROVE  Keeps(s, [s EXCEPT !.bwCheck = 1], "none")
<1>1. PICK t : t = [s EXCEPT !.bwCheck = 1]
  OBVIOUS
<1>2. s = [f \in Fields |-> s[f]] /\ SoftTyped(s)
  BY Zenon DEF Good, Typed, SoftTyped
<1>3. /\ Alike(s, t) /\ t.pausing = s.pausing /\ t.timedout = s.timedout
      /\ t.unreported = s.unreported /\ t.mediaStamp = s.mediaStamp
      /\ t.dataType = s.dataType /\ t.streamId = s.streamId
  BY <1>1, <1>2 DEF Fields, Alike
<1>4. SoftTyped(t)
  BY <1>2, <1>3, Zenon DEF SoftTyped
<1> QED BY <1>1, <1>3, <1>4, AlikeKeeps, Zenon DEF Keeps

(* The bytes since the last report may be forgotten. *)
LEMMA UnreportedKeeps ==
  ASSUME NEW s, Good(s)
  PROVE  Keeps(s, [s EXCEPT !.unreported = 0], "none")
<1>1. PICK t : t = [s EXCEPT !.unreported = 0]
  OBVIOUS
<1>2. s = [f \in Fields |-> s[f]] /\ SoftTyped(s)
  BY Zenon DEF Good, Typed, SoftTyped
<1>3. /\ Alike(s, t) /\ t.pausing = s.pausing /\ t.timedout = s.timedout
      /\ t.unreported = 0 /\ t.mediaStamp = s.mediaStamp
      /\ t.dataType = s.dataType /\ t.streamId = s.streamId
  BY <1>1, <1>2 DEF Fields, Alike
<1>4. t.unreported \in Nat
  BY <1>3
<1>5. SoftTyped(t)
  BY <1>2, <1>3, <1>4, Zenon DEF SoftTyped
<1> QED BY <1>1, <1>3, <1>5, AlikeKeeps, Zenon DEF Keeps

(* The newest media time stamp may be noted. *)
LEMMA MediaStampKeeps ==
  ASSUME NEW s, Good(s), NEW n \in Nat
  PROVE  /\ Keeps(s, [s EXCEPT !.mediaStamp = n], "none")
         /\ [s EXCEPT !.mediaStamp = n].sock = s.sock
<1>1. PICK t : t = [s EXCEPT !.mediaStamp = n]
  OBVIOUS
<1>2. s = [f \in Fields |-> s[f]] /\ SoftTyped(s)
  BY Zenon DEF Good, Typed, SoftTyped
<1>3. /\ Alike(s, t) /\ t.pausing = s.pausing /\ t.timedout = s.timedout
      /\ t.unreported = s.unreported /\ t.mediaStamp = n
      /\ t.dataType = s.dataType /\ t.streamId = s.streamId
  BY <1>1, <1>2 DEF Fields, Alike
<1>4. SoftTyped(t)
  BY <1>2, <1>3, Zenon DEF SoftTyped
<1>5. t.sock = s.sock
  BY <1>3, Zenon DEF Alike
<1> QED BY <1>1, <1>3, <1>4, <1>5, AlikeKeeps, Zenon DEF Keeps

(* The track flags may change. *)
LEMMA DataTypeKeeps ==
  ASSUME NEW s, Good(s), NEW T, T \subseteq {1, 4}
  PROVE  /\ Keeps(s, [s EXCEPT !.dataType = @ \union T], "none")
         /\ [s EXCEPT !.dataType = @ \union T].sock = s.sock
<1>1. PICK t : t = [s EXCEPT !.dataType = @ \union T]
  OBVIOUS
<1>2. s = [f \in Fields |-> s[f]] /\ SoftTyped(s)
  BY Zenon DEF Good, Typed, SoftTyped
<1>3. /\ Alike(s, t) /\ t.pausing = s.pausing /\ t.timedout = s.timedout
      /\ t.unreported = s.unreported /\ t.mediaStamp = s.mediaStamp
      /\ t.dataType = s.dataType \union T /\ t.streamId = s.streamId
  BY <1>1, <1>2 DEF Fields, Alike
<1>4. t.dataType \subseteq {1, 4}
  <2>1. s.dataType \subseteq {1, 4}
    BY <1>2, Zenon DEF SoftTyped
  <2> QED BY <2>1, <1>3, Zenon
<1>5. SoftTyped(t)
  BY <1>2, <1>3, <1>4, Zenon DEF SoftTyped
<1>6. t.sock = s.sock
  BY <1>3, Zenon DEF Alike
<1> QED BY <1>1, <1>3, <1>5, <1>6, AlikeKeeps, Zenon DEF Keeps

(* The pause flag may move between the values that mean the same. *)
LEMMA PausingKeeps ==
  ASSUME NEW s, Good(s), NEW p \in 0 .. 3,
         s.sock => (p \in {1, 2} <=> s.pausing \in {1, 2})
  PROVE  /\ Keeps(s, [s EXCEPT !.pausing = p], "none")
         /\ [s EXCEPT !.pausing = p].sock = s.sock
<1>1. PICK t : t = [s EXCEPT !.pausing = p]
  OBVIOUS
<1>2. s = [f \in Fields |-> s[f]] /\ SoftTyped(s)
  BY Zenon DEF Good, Typed, SoftTyped
<1>3. /\ Alike(s, t) /\ t.pausing = p /\ t.timedout = s.timedout
      /\ t.unreported = s.unreported /\ t.mediaStamp = s.mediaStamp
      /\ t.dataType = s.dataType /\ t.streamId = s.streamId
  BY <1>1, <1>2 DEF Fields, Alike
<1>4. SoftTyped(t)
  BY <1>2, <1>3, Zenon DEF SoftTyped
<1>5. t.sock = s.sock
  BY <1>3, Zenon DEF Alike
<1> QED BY <1>1, <1>3, <1>4, <1>5, AlikeKeeps, Zenon DEF Keeps

-----------------------------------------------------------------------------
(* Requests. *)

(* The next number is no call's: numbers in use are not above the counter. *)
LEMMA Numbered ==
  ASSUME NEW s, Good(s), NEW n, n = s.numInvokes + 1, NEW u, u = [s EXCEPT !.numInvokes = n]
  PROVE  /\ n \in Nat /\ n # 0 /\ Keeps(s, u, "none") /\ Fresh(u, n) /\ u.numInvokes = n
         /\ u.wire = s.wire /\ u.calls = s.calls /\ u.sock = s.sock /\ u.pausing = s.pausing
         /\ u.closes = s.closes
<1>1. Typed(s) /\ CallsTold(s)
  BY DEF Good
<1>2. s.numInvokes \in Nat /\ s = [f \in Fields |-> s[f]]
  BY <1>1, Zenon DEF Typed
<1>3. n \in Nat /\ n # 0 /\ n >= s.numInvokes /\ n > s.numInvokes
  BY <1>2
<1>4. /\ u = [f \in Fields |-> u[f]] /\ u.numInvokes = n
      /\ u.sock = s.sock /\ u.left = s.left /\ u.calls = s.calls /\ u.wire = s.wire
      /\ u.closes = s.closes
      /\ u.header = s.header /\ u.status = s.status /\ u.timestamp = s.timestamp
      /\ u.buf = s.buf /\ u.made = s.made /\ u.given = s.given /\ u.gap = s.gap
      /\ u.pausing = s.pausing /\ u.timedout = s.timedout
      /\ u.unreported = s.unreported /\ u.mediaStamp = s.mediaStamp
      /\ u.dataType = s.dataType /\ u.streamId = s.streamId
  BY <1>2 DEF Fields
<1>5. Typed(u)
  BY <1>1, <1>3, <1>4, Zenon DEF Typed
<1>6. Good(u) /\ Said(s, u, "none")
  BY <1>3, <1>4, <1>5, Touched
<1>7. Serves(s, u)
  BY <1>4, Zenon DEF Serves
<1>8. Fresh(u, n)
  <2>1. \A i \in DOMAIN s.calls : s.calls[i] \in [name : Commands, num : Nat]
    <3>1. s.calls \in Seq([name : Commands, num : Nat])
      BY <1>1, Zenon DEF Typed
    <3> QED BY <3>1, ElementOfSeq, LenProperties
  <2>2. \A i \in DOMAIN s.calls : s.calls[i].num \in Nat
    BY <2>1
  <2>3. \A i \in DOMAIN s.calls : s.calls[i].num <= s.numInvokes
    BY <1>1, Zenon DEF CallsTold
  <2>4. \A i \in DOMAIN s.calls : s.calls[i].num # n
    BY <2>2, <2>3, <1>2, <1>3
  <2> QED BY <2>4, <1>4, Zenon DEF Fresh
<1> QED BY <1>3, <1>4, <1>6, <1>7, <1>8, Zenon DEF Keeps

(* A request with the next number keeps what holds, if it is ready. *)
LEMMA InvokeKeeps ==
  ASSUME NEW s, Good(s), NEW queue \in BOOLEAN,
         NEW name \in Commands \ {"deleteStream", "pause", "unpause", "set_playlist"},
         s.sock => Ready(s, name), ~queue => name \notin Chained
  PROVE  Keeps(s, Invoke(s, name, queue), name)
<1>1. PICK n : n = s.numInvokes + 1
  OBVIOUS
<1>2. PICK u : u = [s EXCEPT !.numInvokes = n]
  OBVIOUS
<1>3. /\ n \in Nat /\ n # 0 /\ Keeps(s, u, "none") /\ Fresh(u, n) /\ u.numInvokes = n
      /\ u.wire = s.wire /\ u.calls = s.calls /\ u.sock = s.sock
  BY <1>1, <1>2, Numbered
<1>4. name \in Commands \ {"deleteStream", "pause", "unpause"} /\ name # "set_playlist"
  OBVIOUS
<1>5. u.sock => Ready(u, name)
  BY <1>3, Zenon DEF Ready, Sent, Waits
<1>6. Good(u) /\ n <= u.numInvokes
  BY <1>3 DEF Keeps
<1>7. Keeps(u, SendInvoke(u, name, n, queue), name)
  BY <1>3, <1>4, <1>5, <1>6, SendInvokeKeeps
<1>8. Invoke(s, name, queue) = SendInvoke(u, name, n, queue)
  BY <1>1, <1>2, Zenon DEF Invoke
<1> QED BY <1>3, <1>7, <1>8, KeepsOn, Zenon

(* connect is sent to a connection that has not seen it. *)
LEMMA SendConnectPacketKeeps ==
  ASSUME NEW s, Good(s), s.sock => ~Sent(s, "connect")
  PROVE  Keeps(s, SendConnectPacket(s), "connect")
<1>1. "connect" \in Commands \ {"deleteStream", "pause", "unpause", "set_playlist"}
  BY DEF Commands
<1>2. s.sock => Ready(s, "connect")
  BY DEF Ready
<1> QED BY <1>1, <1>2, InvokeKeeps DEF SendConnectPacket

(* createStream follows an answered connect. *)
LEMMA SendCreateStreamKeeps ==
  ASSUME NEW s, Good(s),
         s.sock => Sent(s, "connect") /\ ~Waits(s, "connect") /\ ~Sent(s, "createStream")
  PROVE  Keeps(s, SendCreateStream(s), "createStream")
<1>1. "createStream" \in Commands \ {"deleteStream", "pause", "unpause", "set_playlist"}
  BY DEF Commands
<1>2. s.sock => Ready(s, "createStream")
  BY DEF Ready
<1> QED BY <1>1, <1>2, InvokeKeeps DEF SendCreateStream

(* play follows an answered createStream. *)
LEMMA SendPlayKeeps ==
  ASSUME NEW s, Good(s),
         s.sock => Sent(s, "createStream") /\ ~Waits(s, "createStream") /\ ~Sent(s, "play")
  PROVE  Keeps(s, SendPlay(s), "play")
<1>1. "play" \in Commands \ {"deleteStream", "pause", "unpause", "set_playlist"}
  BY DEF Commands
<1>2. s.sock => Ready(s, "play")
  BY DEF Ready
<1> QED BY <1>1, <1>2, InvokeKeeps DEF SendPlay

(* A request outside the chain may be sent at any time. *)
LEMMA FreeInvokeKeeps ==
  ASSUME NEW s, Good(s), NEW queue \in BOOLEAN,
         NEW name \in {"FCSubscribe", "UsherToken", "_checkbw"}
  PROVE  Keeps(s, Invoke(s, name, queue), name)
<1>1. name \in Commands \ {"deleteStream", "pause", "unpause", "set_playlist"}
  BY DEF Commands
<1>2. Ready(s, name) /\ name \notin Chained
  BY DEF Ready, Chained
<1> QED BY <1>1, <1>2, InvokeKeeps

(* set_playlist goes ahead of play, and waits under number 0. *)
LEMMA SendPlaylistKeeps ==
  ASSUME NEW s, Good(s),
         s.sock => /\ Sent(s, "createStream") /\ ~Waits(s, "createStream")
                   /\ ~Sent(s, "set_playlist")
  PROVE  Keeps(s, SendPlaylist(s), "set_playlist")
<1>1. "set_playlist" \in Commands \ {"deleteStream", "pause", "unpause"}
  BY DEF Commands
<1>2. s.sock => Ready(s, "set_playlist")
  BY DEF Ready
<1>3. CallsTold(s) /\ Typed(s)
  BY DEF Good
<1>4. Fresh(s, 0)
  <2>1. CASE ~s.sock
    <3>1. s.calls = <<>>
      BY <2>1, <1>3 DEF CallsTold
    <3> QED BY <3>1 DEF Fresh
  <2>2. CASE s.sock
    <3>1. ~Waits(s, "set_playlist")
      BY <2>2, <1>3, WaitsSent
    <3>2. \A i \in DOMAIN s.calls : s.calls[i].num = 0 => s.calls[i].name = "set_playlist"
      BY <1>3, Zenon DEF CallsTold
    <3> QED BY <3>1, <3>2, Zenon DEF Fresh, Waits
  <2> QED BY <2>1, <2>2
<1>5. 0 <= s.numInvokes
  <2>1. s.numInvokes \in Nat
    BY <1>3, Zenon DEF Typed
  <2> QED BY <2>1
<1> QED BY <1>1, <1>2, <1>4, <1>5, SendInvokeKeeps DEF SendPlaylist

(* A step that says name, then one that says nothing. *)
LEMMA KeepsThen ==
  ASSUME NEW s, NEW t, NEW u, NEW name, Keeps(s, t, name), Keeps(t, u, "none")
  PROVE  Keeps(s, u, name)
<1>1. Serves(s, u)
  BY ServesOn DEF Keeps
<1>2. "none" \notin Commands
  BY DEF Commands
<1> QED BY <1>1, <1>2, Zenon DEF Keeps, Said

(* A pause, or its end, is asked for and noted in one go. *)
LEMMA PauseKeeps ==
  ASSUME NEW s, Good(s), NEW name \in {"pause", "unpause"}, NEW p \in {1, 3},
         p = 1 <=> name = "pause"
  PROVE  Keeps(s, [Invoke(s, name, TRUE) EXCEPT !.pausing = p], name)
<1>1. PICK n : n = s.numInvokes + 1
  OBVIOUS
<1>2. PICK u : u = [s EXCEPT !.numInvokes = n]
  OBVIOUS
<1>3. /\ n \in Nat /\ n # 0 /\ Keeps(s, u, "none") /\ Fresh(u, n) /\ u.numInvokes = n
  BY <1>1, <1>2, Numbered
<1>4. PICK v : v = SendInvoke(u, name, n, TRUE)
  OBVIOUS
<1>5. PICK t : t = [v EXCEPT !.pausing = p]
  OBVIOUS
<1>6. t = [Invoke(s, name, TRUE) EXCEPT !.pausing = p]
  BY <1>1, <1>2, <1>4, <1>5, Zenon DEF Invoke
<1>7. /\ Typed(u) /\ FarewellEnds(u) /\ ClosedOnce(u) /\ InOrder(u) /\ Unparted(u)
      /\ PauseKnown(u) /\ CallsTold(u)
  BY <1>3 DEF Keeps, Good
<1>8. name \in Commands \ {"deleteStream"} /\ name \in Commands /\ name # "set_playlist"
  BY DEF Commands
<1>9. p \in 0 .. 3
  OBVIOUS
<1>10. CASE ~CanWrite(u)
  <2>1. v = Dropped(u)
    BY <1>10, <1>4, Zenon DEF SendInvoke
  <2>2. Keeps(u, v, "none") /\ ~v.sock
    BY <2>1, <1>7, DroppedKeeps
  <2>3. Keeps(v, t, "none")
    BY <2>2, <1>5, <1>9, PausingKeeps DEF Keeps
  <2>4. Keeps(s, t, "none")
    BY <2>2, <2>3, <1>3, KeepsOn
  <2>5. "none" \notin Commands
    BY DEF Commands
  <2>6. Keeps(s, t, name)
    BY <2>4, <2>5, Zenon DEF Keeps, Said
  <2> QED BY <2>6, <1>6
<1>11. CASE CanWrite(u)
  <2>1. /\ Requested(u, v, name, n, TRUE) /\ Typed(v)
        /\ v.pausing = u.pausing /\ v.sock = u.sock /\ Serves(u, v)
    <3>1. PICK q \in BOOLEAN : q = TRUE
      OBVIOUS
    <3>2. v = SendInvoke(u, name, n, q)
      BY <1>4, <3>1
    <3>3. /\ Requested(u, v, name, n, q) /\ Typed(v)
          /\ v.pausing = u.pausing /\ v.sock = u.sock /\ Serves(u, v)
      BY <1>3, <1>7, <1>8, <1>11, <3>2, RequestFields
    <3> QED BY <3>1, <3>3
  <2>2. u.sock /\ u.wire \in Seq(Commands) /\ u.calls \in Seq([name : Commands, num : Nat])
    BY <1>7, <1>11, Zenon DEF CanWrite, Typed
  <2>3. Ready(u, name)
    BY DEF Ready, Chained
  <2>4. FarewellEnds(v) /\ Unparted(v) /\ InOrder(v)
    BY <1>7, <1>8, <2>1, <2>2, <2>3, RequestedInOrder
  <2>5. n <= u.numInvokes
    BY <1>3
  <2>6. CallsTold(v) /\ Said(u, v, name)
    BY <1>3, <1>7, <1>8, <2>1, <2>2, <2>3, <2>5, RequestedTold
  <2>7. v.wire = Append(u.wire, name) /\ v.closes = u.closes
    BY <2>1, Zenon DEF Requested
  <2>8. /\ Alike(v, t) /\ t.pausing = p /\ t.timedout = v.timedout
        /\ t.unreported = v.unreported /\ t.mediaStamp = v.mediaStamp
        /\ t.dataType = v.dataType /\ t.streamId = v.streamId
    <3>1. v = [f \in Fields |-> v[f]]
      BY <2>1, Zenon DEF Typed
    <3> QED BY <3>1, <1>5 DEF Fields, Alike
  <2>9. Typed(t)
    BY <2>1, <2>8, <1>9, Zenon DEF Typed, Alike
  <2>10. /\ t.sock = v.sock /\ t.wire = v.wire /\ t.calls = v.calls
         /\ t.numInvokes = v.numInvokes /\ t.closes = v.closes
    BY <2>8, Zenon DEF Alike
  <2>11. PauseKnown(t)
    <3>1. t.wire = Append(u.wire, name)
      BY <2>7, <2>10
    <3>2. CASE name = "pause"
      <4>1. AskedToPause(t)
        BY <3>1, <3>2, <2>2, AskPause
      <4> QED BY <4>1, <3>2, <2>8 DEF PauseKnown
    <3>3. CASE name = "unpause"
      <4>1. ~AskedToPause(t)
        BY <3>1, <3>3, <2>2, AskUnpause
      <4>2. p = 3
        BY <3>3
      <4>3. t.pausing \notin {1, 2}
        BY <4>2, <2>8
      <4> QED BY <4>1, <4>3, Zenon DEF PauseKnown
    <3> QED BY <3>2, <3>3
  <2>12. FarewellEnds(t) /\ Unparted(t) /\ InOrder(t) /\ CallsTold(t)
    BY <2>4, <2>6, <2>10 DEF FarewellEnds, Unparted, InOrder, CallsTold, Sent, SentOnce, Waits
  <2>13. ClosedOnce(t)
    BY <1>7, <2>1, <2>7, <2>10 DEF ClosedOnce
  <2>14. Said(u, t, name)
    BY <2>6, <2>10 DEF Said, Sent, Waits
  <2>15. Serves(u, t)
    <3>1. Serves(v, t)
      BY <2>8, Zenon DEF Serves, Alike
    <3> QED BY <3>1, <2>1, ServesOn
  <2>16. Keeps(u, t, name)
    BY <2>9, <2>11, <2>12, <2>13, <2>14, <2>15, Zenon DEF Keeps, Good
  <2> QED BY <2>16, <1>3, <1>6, KeepsOn
<1> QED BY <1>10, <1>11

-----------------------------------------------------------------------------
(* Closing. *)

(* The farewell needs no more than that the connection has not seen one. *)
LEMMA FarewellKeeps ==
  ASSUME NEW s, Good(s)
  PROVE  /\ Keeps(s, Dropped(SendDeleteStream(s)), "deleteStream")
         /\ ~Dropped(SendDeleteStream(s)).sock
<1>1. PICK n : n = s.numInvokes + 1
  OBVIOUS
<1>2. PICK u : u = [s EXCEPT !.numInvokes = n]
  OBVIOUS
<1>3. n \in Nat /\ Keeps(s, u, "none")
  BY <1>1, <1>2, Numbered
<1>4. PICK v : v = SendInvoke(u, "deleteStream", n, FALSE)
  OBVIOUS
<1>5. SendDeleteStream(s) = v
  BY <1>1, <1>2, <1>4, Zenon DEF SendDeleteStream, Invoke
<1>6. /\ Typed(u) /\ FarewellEnds(u) /\ ClosedOnce(u) /\ InOrder(u) /\ Unparted(u)
  BY <1>3 DEF Keeps, Good
<1>7. CASE ~CanWrite(u)
  <2>1. v = Dropped(u)
    BY <1>7, <1>4, Zenon DEF SendInvoke
  <2>2. Keeps(u, v, "none")
    BY <2>1, <1>6, DroppedKeeps
  <2>3. Typed(v) /\ FarewellEnds(v) /\ ClosedOnce(v) /\ InOrder(v)
    BY <2>2 DEF Keeps, Good
  <2>4. Keeps(v, Dropped(v), "none") /\ ~Dropped(v).sock
    BY <2>3, DroppedKeeps
  <2>5. Keeps(s, Dropped(v), "none")
    BY <1>3, <2>2, <2>4, KeepsOn
  <2>6. "none" \notin Commands
    BY DEF Commands
  <2>7. Keeps(s, Dropped(v), "deleteStream")
    BY <2>5, <2>6, Zenon DEF Keeps, Said
  <2> QED BY <2>4, <2>7, <1>5
<1>8. CASE CanWrite(u)
  <2>1. "deleteStream" \in Commands
    BY DEF Commands
  <2>2. Requested(u, v, "deleteStream", n, FALSE) /\ Typed(v) /\ Serves(u, v)
    BY <1>3, <1>4, <1>6, <1>8, <2>1, RequestFields
  <2>3. u.sock /\ u.wire \in Seq(Commands)
    BY <1>6, <1>8, Zenon DEF CanWrite, Typed
  <2>4. /\ v.wire = Append(u.wire, "deleteStream") /\ v.sock = u.sock /\ v.closes = u.closes
        /\ v.calls = u.calls
    BY <2>2 DEF Requested
  <2>5. /\ Len(v.wire) = Len(u.wire) + 1
        /\ DOMAIN v.wire = 1 .. Len(u.wire) + 1 /\ DOMAIN u.wire = 1 .. Len(u.wire)
        /\ Len(u.wire) \in Nat
        /\ \A i \in DOMAIN u.wire : v.wire[i] = u.wire[i]
        /\ v.wire[Len(u.wire) + 1] = "deleteStream"
        /\ \A w : Sent(v, w) <=> Sent(u, w) \/ w = "deleteStream"
    <3>1. PICK d \in Commands : d = "deleteStream"
      BY <2>1
    <3>2. v.wire = Append(u.wire, d)
      BY <2>4, <3>1
    <3>3. /\ Len(v.wire) = Len(u.wire) + 1
          /\ DOMAIN v.wire = 1 .. Len(u.wire) + 1 /\ DOMAIN u.wire = 1 .. Len(u.wire)
          /\ Len(u.wire) \in Nat
          /\ \A i \in DOMAIN u.wire : v.wire[i] = u.wire[i]
          /\ v.wire[Len(u.wire) + 1] = d
          /\ \A w : Sent(v, w) <=> Sent(u, w) \/ w = d
      BY <3>2, <2>3, SentMore
    <3> QED BY <3>1, <3>3
  <2>6. FarewellEnds(v)
    <3>1. \A i \in DOMAIN u.wire : u.wire[i] # "deleteStream"
      BY <2>3, <1>6 DEF Unparted, Sent
    <3> QED BY <3>1, <2>5 DEF FarewellEnds
  <2>7. InOrder(v)
    <3>1. \A w \in Chained : SentOnce(v, w)
      <4> TAKE w \in Chained
      <4>1. SentOnce(u, w)
        BY <1>6, Zenon DEF InOrder
      <4>2. w # "deleteStream"
        BY DEF Chained
      <4>3. \A i \in DOMAIN v.wire : v.wire[i] = w => i \in DOMAIN u.wire /\ u.wire[i] = w
        BY <4>2, <2>5
      <4> QED BY <4>1, <4>3, Zenon DEF SentOnce
    <3>2. /\ Sent(u, "createStream") => Sent(u, "connect")
          /\ Sent(u, "play") => Sent(u, "createStream")
          /\ Sent(u, "set_playlist") => Sent(u, "createStream")
      BY <1>6, Zenon DEF InOrder
    <3>3. /\ Sent(v, "createStream") => Sent(v, "connect")
          /\ Sent(v, "play") => Sent(v, "createStream")
          /\ Sent(v, "set_playlist") => Sent(v, "createStream")
      BY <3>2, <2>5
    <3> QED BY <3>1, <3>3, Zenon DEF InOrder
  <2>8. ClosedOnce(v)
    BY <1>6, <2>4 DEF ClosedOnce
  <2>9. Keeps(v, Dropped(v), "none") /\ ~Dropped(v).sock
    BY <2>2, <2>6, <2>7, <2>8, DroppedKeeps
  <2>10. Said(u, v, "deleteStream")
    BY <2>4, <2>5 DEF Said, Waits
  <2>11. "none" \notin Commands
    BY DEF Commands
  <2>12. Said(u, Dropped(v), "deleteStream")
    BY <2>9, <2>10, <2>11, Zenon DEF Keeps, Said
  <2>13. Serves(u, Dropped(v))
    BY <2>2, <2>9, ServesOn, Zenon DEF Keeps
  <2>14. Keeps(u, Dropped(v), "deleteStream")
    BY <2>9, <2>12, <2>13, Zenon DEF Keeps
  <2> QED BY <2>9, <2>14, <1>3, <1>5, KeepsOn
<1> QED BY <1>7, <1>8

(* RTMP_Close says farewell at most, and leaves no socket. *)
LEMMA CloseKeeps ==
  ASSUME NEW s, Good(s)
  PROVE  Keeps(s, Close(s), "deleteStream") /\ ~Close(s).sock
<1>1. CASE s.sock /\ s.streamId > 0
  <2>1. PICK t : t = [s EXCEPT !.streamId = 0]
    OBVIOUS
  <2>2. Keeps(s, t, "none")
    <3>1. 0 \in {-1, 0, 1}
      OBVIOUS
    <3> QED BY <3>1, <2>1, StreamIdKeeps
  <2>3. /\ Keeps(t, Dropped(SendDeleteStream(t)), "deleteStream")
        /\ ~Dropped(SendDeleteStream(t)).sock
    BY <2>2, FarewellKeeps DEF Keeps
  <2>4. Close(s) = Dropped(SendDeleteStream(t))
    BY <1>1, <2>1, Zenon DEF Close
  <2> QED BY <2>2, <2>3, <2>4, KeepsOn, Zenon
<1>2. CASE ~(s.sock /\ s.streamId > 0)
  <2>1. Close(s) = Dropped(s)
    BY <1>2, Zenon DEF Close
  <2>2. Keeps(s, Dropped(s), "none") /\ ~Dropped(s).sock
    BY DroppedKeeps DEF Good
  <2>3. "none" \notin Commands
    BY DEF Commands
  <2>4. Keeps(s, Dropped(s), "deleteStream")
    BY <2>2, <2>3, Zenon DEF Keeps, Said
  <2> QED BY <2>1, <2>2, <2>4
<1> QED BY <1>1, <1>2

-----------------------------------------------------------------------------
(* Answers. *)

(* Where entry j of the calls was before entry i went. *)
Before(i, j) == IF j < i THEN j ELSE j + 1

Removed(q, i, t) ==
  /\ \A j \in DOMAIN t : /\ Before(i, j) \in DOMAIN q /\ Before(i, j) # i
                         /\ t[j] = q[Before(i, j)]
  /\ \A j, k \in DOMAIN t : Before(i, j) = Before(i, k) => j = k

(* RemoveAt takes entry i out and moves the later ones up. *)
LEMMA RemovedAt ==
  ASSUME NEW S, NEW q \in Seq(S), NEW i \in 1 .. Len(q)
  PROVE  RemoveAt(q, i) \in Seq(S) /\ Removed(q, i, RemoveAt(q, i))
<1> DEFINE t == RemoveAt(q, i)
<1>1. Len(q) \in Nat /\ DOMAIN q = 1 .. Len(q)
  OBVIOUS
<1>2. PICK a : a = SubSeq(q, 1, i - 1)
  OBVIOUS
<1>3. PICK b : b = SubSeq(q, i + 1, Len(q))
  OBVIOUS
<1>4. a \in Seq(S) /\ Len(a) = i - 1 /\ \A j \in 1 .. i - 1 : a[j] = q[j]
  BY <1>1, <1>2
<1>5. /\ b \in Seq(S) /\ Len(b) = Len(q) - i
      /\ \A j \in 1 .. Len(q) - i : b[j] = q[i + j]
  <2>1. b \in Seq(S) /\ Len(b) = Len(q) - i
    <3>1. i \in Nat /\ i <= Len(q) /\ i + 1 \in 1 .. Len(q) + 1 /\ Len(q) - i \in Nat
      BY <1>1
    <3>2. b \in Seq(S)
      BY <1>1, <1>3, <3>1
    <3>3. Len(b) = IF i + 1 <= Len(q) THEN Len(q) - (i + 1) + 1 ELSE 0
      BY <1>1, <1>3, <3>1
    <3>4. Len(b) = Len(q) - i
      <4>1. CASE i + 1 <= Len(q)
        BY <4>1, <3>1, <3>3, <1>1
      <4>2. CASE ~(i + 1 <= Len(q))
        <5>1. Len(b) = 0
          BY <4>2, <3>3
        <5>2. i = Len(q)
          <6>1. i \in Nat /\ i <= Len(q) /\ Len(q) \in Nat /\ ~(i + 1 <= Len(q))
            BY <4>2, <3>1, <1>1
          <6> QED BY <6>1
        <5> QED BY <5>1, <5>2, <3>1
      <4> QED BY <4>1, <4>2
    <3> QED BY <3>2, <3>4
  <2>2. \A j \in 1 .. Len(q) - i : b[j] = q[i + 1 + j - 1]
    BY <1>1, <1>3
  <2> QED BY <2>1, <2>2, <1>1
<1>6. t = a \o b
  BY <1>2, <1>3 DEF RemoveAt
<1> HIDE DEF t
<1>7. t \in Seq(S) /\ DOMAIN t = 1 .. Len(q) - 1
  <2>1. t \in Seq(S) /\ Len(t) = Len(a) + Len(b)
    <3>1. a \in Seq(S) /\ b \in Seq(S)
      BY <1>4, <1>5
    <3> QED BY <3>1, <1>6
  <2>2. Len(t) = Len(q) - 1
    BY <2>1, <1>1, <1>4, <1>5
  <2>3. DOMAIN t = 1 .. Len(t)
    BY <2>1
  <2> QED BY <2>1, <2>2, <2>3
<1>8. \A j \in 1 .. Len(q) - 1 : t[j] = IF j < i THEN a[j] ELSE b[j - (i - 1)]
  BY <1>1, <1>4, <1>5, <1>6
<1>9. \A j \in 1 .. Len(q) - 1 : t[j] = q[Before(i, j)]
  <2> TAKE j \in 1 .. Len(q) - 1
  <2>1. CASE j < i
    BY <2>1, <1>1, <1>4, <1>8 DEF Before
  <2>2. CASE ~(j < i)
    <3>1. j - (i - 1) \in 1 .. Len(q) - i /\ i + (j - (i - 1)) = j + 1
      BY <2>2, <1>1
    <3>2. t[j] = b[j - (i - 1)]
      BY <2>2, <1>8
    <3>3. b[j - (i - 1)] = q[j + 1]
      BY <3>1, <1>5
    <3> QED BY <2>2, <3>2, <3>3 DEF Before
  <2> QED BY <2>1, <2>2
<1>10. \A j \in 1 .. Len(q) - 1 : Before(i, j) \in 1 .. Len(q) /\ Before(i, j) # i
  BY <1>1 DEF Before
<1>11. \A j, k \in 1 .. Len(q) - 1 : Before(i, j) = Before(i, k) => j = k
  BY <1>1 DEF Before
<1>12. Removed(q, i, t)
  BY <1>1, <1>7, <1>9, <1>10, <1>11, Zenon DEF Removed
<1> QED BY <1>7, <1>12 DEF t

(* What no longer waits is told no worse; a request that waited once does  *)
(* not wait any more.                                                      *)
LEMMA EraseKeeps ==
  ASSUME NEW s, Good(s), NEW i \in DOMAIN s.calls
  PROVE  /\ Keeps(s, Erase(s, i), "none")
         /\ Erase(s, i).sock = s.sock /\ Erase(s, i).wire = s.wire
         /\ s.calls[i].name \in Chained => ~Waits(Erase(s, i), s.calls[i].name)
<1>1. Typed(s) /\ CallsTold(s)
  BY DEF Good
<1>2. s.calls \in Seq([name : Commands, num : Nat]) /\ s = [f \in Fields |-> s[f]]
  BY <1>1, Zenon DEF Typed
<1>3. i \in 1 .. Len(s.calls)
  BY <1>2
<1>4. PICK c : c = RemoveAt(s.calls, i)
  OBVIOUS
<1>5. /\ c \in Seq([name : Commands, num : Nat])
      /\ \A j \in DOMAIN c : /\ Before(i, j) \in DOMAIN s.calls /\ Before(i, j) # i
                             /\ c[j] = s.calls[Before(i, j)]
      /\ \A j, k \in DOMAIN c : Before(i, j) = Before(i, k) => j = k
  <2>1. c \in Seq([name : Commands, num : Nat]) /\ Removed(s.calls, i, c)
    BY <1>2, <1>3, <1>4, RemovedAt
  <2> QED BY <2>1, Zenon DEF Removed
<1>6. PICK t : t = Erase(s, i)
  OBVIOUS
<1>7. t = [s EXCEPT !.calls = c]
  BY <1>4, <1>6, Zenon DEF Erase
<1>8. /\ t = [f \in Fields |-> t[f]] /\ t.calls = c
      /\ t.sock = s.sock /\ t.left = s.left /\ t.wire = s.wire
      /\ t.numInvokes = s.numInvokes /\ t.closes = s.closes
      /\ t.header = s.header /\ t.status = s.status /\ t.timestamp = s.timestamp
      /\ t.buf = s.buf /\ t.made = s.made /\ t.given = s.given /\ t.gap = s.gap
      /\ t.pausing = s.pausing /\ t.timedout = s.timedout
      /\ t.unreported = s.unreported /\ t.mediaStamp = s.mediaStamp
      /\ t.dataType = s.dataType /\ t.streamId = s.streamId
  BY <1>2, <1>7 DEF Fields
<1>9. Typed(t)
  BY <1>1, <1>5, <1>8, Zenon DEF Typed
<1>10. FarewellEnds(t) /\ ClosedOnce(t) /\ Unparted(t) /\ InOrder(t)
  <2>1. FarewellEnds(s) /\ ClosedOnce(s) /\ Unparted(s) /\ InOrder(s)
    BY DEF Good
  <2>2. t.sock = s.sock /\ t.wire = s.wire /\ t.closes = s.closes
    BY <1>8
  <2> QED BY <2>1, <2>2, Zenon DEF FarewellEnds, ClosedOnce, Unparted, InOrder, Sent, SentOnce
<1>11. PauseKnown(t)
  <2>1. PauseKnown(s)
    BY DEF Good
  <2>2. t.sock = s.sock /\ t.wire = s.wire /\ t.pausing = s.pausing
    BY <1>8
  <2> QED BY <2>1, <2>2, Zenon DEF PauseKnown, AskedToPause
<1>12. \A w : Waits(t, w) => Waits(s, w)
  BY <1>5, <1>8, Zenon DEF Waits
<1>13. \A w : Sent(t, w) <=> Sent(s, w)
  BY <1>8, Zenon DEF Sent
<1>14. s.sock
  <2>1. s.calls # <<>>
    BY <1>3, <1>2
  <2> QED BY <2>1, <1>1, Zenon DEF CallsTold
<1>15. CallsApart(s) /\ \A j \in DOMAIN s.calls : CallTold(s, j)
  BY <1>1, CallsToldParts, Zenon
<1>16. CallsApart(t)
  <2> SUFFICES ASSUME NEW j \in DOMAIN t.calls, NEW k \in DOMAIN t.calls
               PROVE  /\ t.calls[j].num = t.calls[k].num => j = k
                      /\ t.calls[j].name = t.calls[k].name /\ t.calls[j].name \in Chained
                           => j = k
    BY DEF CallsApart
  <2>1. PICK m : m = Before(i, j)
    OBVIOUS
  <2>2. PICK n : n = Before(i, k)
    OBVIOUS
  <2>3. /\ m \in DOMAIN s.calls /\ n \in DOMAIN s.calls
        /\ t.calls[j] = s.calls[m] /\ t.calls[k] = s.calls[n]
        /\ m = n => j = k
    BY <2>1, <2>2, <1>5, <1>8, Zenon
  <2>4. /\ s.calls[m].num = s.calls[n].num => m = n
        /\ s.calls[m].name = s.calls[n].name /\ s.calls[m].name \in Chained => m = n
    BY <2>3, <1>15, Zenon DEF CallsApart
  <2> QED BY <2>3, <2>4
<1>17. \A j \in DOMAIN t.calls : CallTold(t, j)
  <2> TAKE j \in DOMAIN t.calls
  <2>1. PICK m \in DOMAIN s.calls : t.calls[j] = s.calls[m]
    BY <1>5, <1>8
  <2>2. CallTold(s, m) /\ t.numInvokes = s.numInvokes
    BY <1>8, <1>15
  <2> QED BY <2>1, <2>2, <1>13, Zenon DEF CallTold
<1>18. CallsTold(t)
  <2>1. /\ Waits(s, "connect") => ~Sent(s, "createStream")
        /\ Waits(s, "createStream") => ~Sent(s, "play") /\ ~Sent(s, "set_playlist")
    BY <1>1, CallsToldParts, Zenon
  <2>2. t.sock
    BY <1>8, <1>14
  <2> QED BY <2>1, <2>2, <1>12, <1>13, <1>16, <1>17, CallsToldParts, Zenon
<1>19. Said(s, t, "none")
  BY <1>12, <1>13, Zenon DEF Said
<1>20. Serves(s, t)
  BY <1>8, Zenon DEF Serves
<1>21. s.calls[i].name \in Chained => ~Waits(t, s.calls[i].name)
  <2> SUFFICES ASSUME s.calls[i].name \in Chained, NEW j \in DOMAIN c,
                      c[j].name = s.calls[i].name
               PROVE  FALSE
    BY <1>8 DEF Waits
  <2>1. PICK m : m = Before(i, j)
    OBVIOUS
  <2>2. m \in DOMAIN s.calls /\ m # i /\ s.calls[m] = c[j]
    BY <2>1, <1>5
  <2>3. s.calls[m].name = s.calls[i].name => m = i
    BY <2>2, <1>15, Zenon DEF CallsApart
  <2> QED BY <2>2, <2>3
<1>22. Keeps(s, t, "none")
  BY <1>9, <1>10, <1>11, <1>18, <1>19, <1>20, Zenon DEF Keeps, Good
<1> QED BY <1>6, <1>8, <1>21, <1>22

(* What a handler does: it keeps Good and serves. *)
Safe(s, t) == Good(t) /\ Serves(s, t)

(* Two safe steps in a row are one. *)
LEMMA SafeOn ==
  ASSUME NEW s, NEW t, NEW u, Safe(s, t), Safe(t, u)
  PROVE  Safe(s, u)
BY ServesOn DEF Safe

(* A step that keeps, whatever it says, is safe. *)
LEMMA KeepsSafe ==
  ASSUME NEW s, NEW t, NEW name, Keeps(s, t, name)
  PROVE  Safe(s, t)
BY DEF Keeps, Safe

(* Doing nothing is safe. *)
LEMMA SafeSame ==
  ASSUME NEW s, Good(s)
  PROVE  Safe(s, s) /\ Keeps(s, s, "none")
BY DEF Safe, Serves, Keeps, Said

(* Minimum of a set of naturals. *)
LEMMA MinIn ==
  ASSUME NEW S \in SUBSET Nat, S # {}
  PROVE  Min(S) \in S
<1>1. \E n \in S : \A m \in S : n <= m
  BY LeastOf
<1> QED BY <1>1, Zenon DEF Min

(* The first of the calls with some feature is one of them. *)
LEMMA FirstCall ==
  ASSUME NEW s, Good(s), NEW S \in SUBSET (DOMAIN s.calls), S # {}
  PROVE  Min(S) \in S
<1>1. s.calls \in Seq([name : Commands, num : Nat])
  BY Zenon DEF Good, Typed
<1>2. DOMAIN s.calls \subseteq Nat
  BY <1>1
<1> QED BY <1>2, MinIn

(* Forgetting the first call of a name keeps what holds. *)
LEMMA EraseNamedKeeps ==
  ASSUME NEW s, Good(s), NEW name
  PROVE  Keeps(s, EraseNamed(s, name), "none")
<1>1. CASE CallsNamed(s, name) = {}
  BY <1>1, SafeSame DEF EraseNamed
<1>2. CASE CallsNamed(s, name) # {}
  <2>1. CallsNamed(s, name) \in SUBSET (DOMAIN s.calls)
    BY DEF CallsNamed
  <2>2. Min(CallsNamed(s, name)) \in DOMAIN s.calls
    BY <1>2, <2>1, FirstCall
  <2> QED BY <1>2, <2>2, EraseKeeps DEF EraseNamed
<1> QED BY <1>1, <1>2

(* connect was answered: nothing of what follows it was asked for yet. *)
LEMMA OnConnectedSafe ==
  ASSUME NEW s, Good(s),
         s.sock => Sent(s, "connect") /\ ~Waits(s, "connect") /\ ~Sent(s, "createStream")
  PROVE  Safe(s, OnConnected(s))
<1>1. PICK a : a = IF Option("token") THEN SendSecureTokenResponse(s) ELSE s
  OBVIOUS
<1>2. Keeps(s, a, "none")
  BY <1>1, SendPacketKeeps, SafeSame DEF SendSecureTokenResponse
<1>3. PICK b : b = SendServerBW(a)
  OBVIOUS
<1>4. Keeps(a, b, "none")
  BY <1>2, <1>3, SendPacketKeeps DEF SendServerBW, Keeps
<1>5. PICK c : c = SendCtrl(b)
  OBVIOUS
<1>6. Keeps(b, c, "none")
  BY <1>4, <1>5, SendPacketKeeps DEF SendCtrl, Keeps
<1>7. Keeps(s, c, "none")
  BY <1>2, <1>4, <1>6, KeepsOn
<1>8. PICK d : d = SendCreateStream(c)
  OBVIOUS
<1>9. Keeps(c, d, "createStream")
  <2>1. c.sock => s.sock
    BY <1>7 DEF Keeps, Serves
  <2>2. "connect" \in Commands /\ "createStream" \in Commands /\ "none" \notin Commands
    BY DEF Commands
  <2>3. c.sock => Sent(c, "connect") /\ ~Waits(c, "connect") /\ ~Sent(c, "createStream")
    BY <1>7, <2>1, <2>2, Zenon DEF Keeps, Said
  <2> QED BY <1>7, <1>8, <2>3, SendCreateStreamKeeps DEF Keeps
<1>10. PICK e : e = IF Option("usher") THEN SendUsherToken(d) ELSE d
  OBVIOUS
<1>11. Safe(d, e)
  <2>1. Good(d)
    BY <1>9 DEF Keeps
  <2>2. Keeps(d, SendUsherToken(d), "UsherToken")
    BY <2>1, FreeInvokeKeeps DEF SendUsherToken
  <2> QED BY <1>10, <2>1, <2>2, SafeSame, KeepsSafe, Zenon
<1>12. PICK f : f = IF Option("subscribe") \/ Option("live") THEN SendFCSubscribe(e) ELSE e
  OBVIOUS
<1>13. Safe(e, f)
  <2>1. Good(e)
    BY <1>11 DEF Safe
  <2>2. Keeps(e, SendFCSubscribe(e), "FCSubscribe")
    BY <2>1, FreeInvokeKeeps DEF SendFCSubscribe
  <2> QED BY <1>12, <2>1, <2>2, SafeSame, KeepsSafe, Zenon
<1>14. OnConnected(s) = f
  BY <1>1, <1>3, <1>5, <1>8, <1>10, <1>12, Zenon DEF OnConnected
<1>15. Safe(s, c) /\ Safe(c, d)
  BY <1>7, <1>9, KeepsSafe
<1> QED BY <1>11, <1>13, <1>14, <1>15, SafeOn

(* createStream was answered. *)
LEMMA OnCreatedSafe ==
  ASSUME NEW s, Good(s), NEW sid \in {0, 1},
         s.sock => /\ Sent(s, "createStream") /\ ~Waits(s, "createStream")
                   /\ ~Sent(s, "play") /\ ~Sent(s, "set_playlist")
  PROVE  Safe(s, OnCreated(s, sid))
<1>1. PICK a : a = [s EXCEPT !.streamId = sid]
  OBVIOUS
<1>2. Keeps(s, a, "none")
  <2>1. sid \in {-1, 0, 1}
    OBVIOUS
  <2> QED BY <1>1, <2>1, StreamIdKeeps
<1>3. /\ "createStream" \in Commands /\ "play" \in Commands /\ "set_playlist" \in Commands
      /\ "none" \notin Commands /\ "play" # "set_playlist" /\ "createStream" # "set_playlist"
  BY DEF Commands
<1>4. a.sock => /\ Sent(a, "createStream") /\ ~Waits(a, "createStream")
                /\ ~Sent(a, "play") /\ ~Sent(a, "set_playlist")
  <2>1. a.sock => s.sock
    BY <1>2 DEF Keeps, Serves
  <2> QED BY <1>2, <1>3, <2>1, Zenon DEF Keeps, Said
<1>5. PICK b : b = IF Option("playlist") THEN SendPlaylist(a) ELSE a
  OBVIOUS
<1>6. /\ Good(b) /\ Serves(a, b)
      /\ b.sock => Sent(b, "createStream") /\ ~Waits(b, "createStream") /\ ~Sent(b, "play")
  <2>1. Good(a)
    BY <1>2 DEF Keeps
  <2>2. CASE Option("playlist")
    <3>1. b = SendPlaylist(a)
      BY <1>5, <2>2
    <3>2. Keeps(a, b, "set_playlist")
      BY <1>4, <2>1, <3>1, SendPlaylistKeeps
    <3>3. b.sock => a.sock
      BY <3>2 DEF Keeps, Serves
    <3> QED BY <1>3, <1>4, <3>2, <3>3, Zenon DEF Keeps, Said
  <2>3. CASE ~Option("playlist")
    <3>1. b = a
      BY <1>5, <2>3
    <3> QED BY <1>4, <2>1, <3>1, SafeSame, Zenon DEF Safe
  <2> QED BY <2>2, <2>3
<1>7. PICK c : c = SendPlay(b)
  OBVIOUS
<1>8. Keeps(b, c, "play")
  BY <1>6, <1>7, SendPlayKeeps
<1>9. PICK d : d = SendCtrl(c)
  OBVIOUS
<1>10. Keeps(c, d, "none")
  BY <1>8, <1>9, SendPacketKeeps DEF SendCtrl, Keeps
<1>11. OnCreated(s, sid) = d
  BY <1>1, <1>5, <1>7, <1>9, Zenon DEF OnCreated
<1>12. Safe(s, a) /\ Safe(a, b) /\ Safe(b, c) /\ Safe(c, d)
  BY <1>2, <1>6, <1>8, <1>10, KeepsSafe, Zenon DEF Safe
<1> QED BY <1>11, <1>12, SafeOn

(* A result is acted on only if a call of that number waits for it.  Then  *)
(* it was sent, what it leads to was not, and it waits no more.            *)
LEMMA OnResultSafe ==
  ASSUME NEW s, Good(s), NEW txn, NEW sid \in {0, 1}
  PROVE  Safe(s, OnResult(s, txn, sid))
<1>1. PICK hits : hits = {i \in DOMAIN s.calls : s.calls[i].num = txn}
  OBVIOUS
<1>2. CASE hits = {}
  <2>1. OnResult(s, txn, sid) = s
    BY <1>1, <1>2, Zenon DEF OnResult
  <2> QED BY <2>1, SafeSame
<1>3. CASE hits # {}
  <2>1. PICK i : i = Min(hits)
    OBVIOUS
  <2>2. i \in DOMAIN s.calls
    <3>1. hits \in SUBSET (DOMAIN s.calls)
      BY <1>1
    <3>2. i \in hits
      BY <3>1, <1>3, <2>1, FirstCall
    <3> QED BY <3>1, <3>2
  <2>3. PICK name : name = s.calls[i].name
    OBVIOUS
  <2>4. PICK t : t = Erase(s, i)
    OBVIOUS
  <2>5. /\ Keeps(s, t, "none") /\ t.wire = s.wire
        /\ name \in Chained => ~Waits(t, name)
    BY <2>2, <2>3, <2>4, EraseKeeps
  <2>6. CallsTold(s)
    BY DEF Good
  <2>7. Waits(s, name)
    BY <2>2, <2>3, Zenon DEF Waits
  <2>8. Sent(t, name)
    <3>1. Sent(s, name)
      BY <2>6, <2>7, WaitsSent
    <3> QED BY <3>1, <2>5, Zenon DEF Sent
  <2>9. OnResult(s, txn, sid) = CASE name = "connect"      -> OnConnected(t)
                                  [] name = "createStream" -> OnCreated(t, sid)
                                  [] name = "play"         -> [t EXCEPT !.playing = TRUE]
                                  [] OTHER                 -> t
    BY <1>1, <1>3, <2>1, <2>3, <2>4, Zenon DEF OnResult
  <2>10. Safe(s, t) /\ Good(t)
    BY <2>5, KeepsSafe DEF Keeps
  <2>11. CASE name = "connect"
    <3>1. ~Waits(t, "connect")
      BY <2>5, <2>11 DEF Chained
    <3>2. ~Sent(s, "createStream")
      BY <2>6, <2>7, <2>11, Zenon DEF CallsTold
    <3>3. ~Sent(t, "createStream")
      BY <3>2, <2>5, Zenon DEF Sent
    <3>4. Safe(t, OnConnected(t))
      BY <2>8, <2>10, <2>11, <3>1, <3>3, OnConnectedSafe
    <3>5. OnResult(s, txn, sid) = OnConnected(t)
      BY <2>9, <2>11
    <3> QED BY <2>10, <3>4, <3>5, SafeOn
  <2>12. CASE name = "createStream"
    <3>1. ~Waits(t, "createStream")
      BY <2>5, <2>12 DEF Chained
    <3>2. ~Sent(s, "play") /\ ~Sent(s, "set_playlist")
      BY <2>6, <2>7, <2>12, Zenon DEF CallsTold
    <3>3. ~Sent(t, "play") /\ ~Sent(t, "set_playlist")
      BY <3>2, <2>5, Zenon DEF Sent
    <3>4. Safe(t, OnCreated(t, sid))
      BY <2>8, <2>10, <2>12, <3>1, <3>3, OnCreatedSafe
    <3>5. OnResult(s, txn, sid) = OnCreated(t, sid)
      BY <2>9, <2>12
    <3> QED BY <2>10, <3>4, <3>5, SafeOn
  <2>13. CASE name = "play"
    <3>1. Safe(t, [t EXCEPT !.playing = TRUE])
      BY <2>10, PlayingKeeps, KeepsSafe
    <3>2. OnResult(s, txn, sid) = [t EXCEPT !.playing = TRUE]
      BY <2>9, <2>13
    <3> QED BY <2>10, <3>1, <3>2, SafeOn
  <2>14. CASE name \notin {"connect", "createStream", "play"}
    <3>1. OnResult(s, txn, sid) = t
      BY <2>9, <2>14
    <3> QED BY <2>10, <3>1
  <2> QED BY <2>11, <2>12, <2>13, <2>14
<1> QED BY <1>2, <1>3

(* Unpausing is safe: the server is asked, and the flag notes it. *)
LEMMA UnpauseSafe ==
  ASSUME NEW s, Good(s)
  PROVE  Safe(s, Unpause(s))
<1>1. Unpause(s) = [Invoke(s, "unpause", TRUE) EXCEPT !.pausing = 3]
  BY DEF Unpause, SendPause
<1>2. Keeps(s, [Invoke(s, "unpause", TRUE) EXCEPT !.pausing = 3], "unpause")
  <2>1. PICK name \in {"pause", "unpause"} : name = "unpause"
    OBVIOUS
  <2>2. PICK p \in {1, 3} : p = 3
    OBVIOUS
  <2>3. p = 1 <=> name = "pause"
    BY <2>1, <2>2
  <2>4. Keeps(s, [Invoke(s, name, TRUE) EXCEPT !.pausing = p], name)
    BY <2>3, PauseKeeps
  <2> QED BY <2>1, <2>2, <2>4, Zenon
<1> QED BY <1>1, <1>2, KeepsSafe

(* What a handler gives back: the struct is safe, and the stream is over   *)
(* (2) only with the connection gone.                                      *)
Handles(s, h) ==
  /\ Safe(s, h.s)
  /\ h.media \in {0, 1, 2}
  /\ h.media = 2 => ~h.s.sock
  /\ h.media = 1 => h.s.sock = s.sock

(* A message that was dealt with. *)
LEMMA HandledHandles ==
  ASSUME NEW s, NEW t, Safe(s, t)
  PROVE  Handles(s, Handled(t))
BY DEF Handles, Handled

(* A message that ends the stream closes the connection. *)
LEMMA ClosesHandles ==
  ASSUME NEW s, Good(s)
  PROVE  Handles(s, [s |-> Close(s), media |-> 2])
BY CloseKeeps, KeepsSafe DEF Handles

(* onStatus, for each code. *)
LEMMA OnStatusHandles ==
  ASSUME NEW s, Good(s), NEW code
  PROVE  Handles(s, OnStatus(s, code))
<1>1. CASE code = "failed"
  <2>1. PICK t : t = [s EXCEPT !.streamId = -1]
    OBVIOUS
  <2>2. -1 \in {-1, 0, 1}
    OBVIOUS
  <2>3. Keeps(s, t, "none")
    BY <2>1, <2>2, StreamIdKeeps
  <2>4. Safe(s, t) /\ Safe(t, Close(t))
    BY <2>3, CloseKeeps, KeepsSafe DEF Keeps
  <2>5. OnStatus(s, code) = Handled(Close(t))
    BY <1>1, <2>1 DEF OnStatus
  <2> QED BY <2>4, <2>5, SafeOn, HandledHandles
<1>2. CASE code = "start"
  <2>1. PICK t : t = [s EXCEPT !.playing = TRUE]
    OBVIOUS
  <2>2. Safe(s, t) /\ Good(t)
    BY <2>1, PlayingKeeps, KeepsSafe DEF Keeps
  <2>3. Safe(t, EraseNamed(t, "play"))
    BY <2>2, EraseNamedKeeps, KeepsSafe
  <2>4. OnStatus(s, code) = Handled(EraseNamed(t, "play"))
    BY <1>2, <2>1 DEF OnStatus
  <2> QED BY <2>2, <2>3, <2>4, SafeOn, HandledHandles
<1>3. CASE code = "stop"
  BY <1>3, ClosesHandles DEF OnStatus
<1>4. CASE code = "pause"
  <2>1. Safe(s, OnPauseNotify(s))
    BY UnpauseSafe, SafeSame DEF OnPauseNotify
  <2> QED BY <1>4, <2>1, HandledHandles DEF OnStatus
<1>5. CASE code \notin {"failed", "start", "stop", "pause"}
  <2>1. OnStatus(s, code) = Handled(s)
    BY <1>5 DEF OnStatus
  <2> QED BY <2>1, SafeSame, HandledHandles
<1> QED BY <1>1, <1>2, <1>3, <1>4, <1>5

(* The answer to a bandwidth check is safe. *)
LEMMA SendCheckBWResultSafe ==
  ASSUME NEW s, Good(s)
  PROVE  Safe(s, SendCheckBWResult(s))
<1>1. PICK t : t = [s EXCEPT !.bwCheck = 1]
  OBVIOUS
<1>2. Safe(s, t) /\ Good(t)
  BY <1>1, BwCheckKeeps, KeepsSafe DEF Keeps
<1>3. Safe(t, SendPacket(t))
  BY <1>2, SendPacketKeeps, KeepsSafe
<1> QED BY <1>1, <1>2, <1>3, SafeOn DEF SendCheckBWResult

(* HandleInvoke, for each method the server may call. *)
LEMMA HandleInvokeHandles ==
  ASSUME NEW s, Good(s), NEW m, m.method = "_result" => m.sid \in {0, 1}
  PROVE  Handles(s, HandleInvoke(s, m))
<1>1. CASE m.method = "_result"
  <2>1. Safe(s, OnResult(s, m.txn, m.sid))
    BY <1>1, OnResultSafe
  <2>2. HandleInvoke(s, m) = Handled(OnResult(s, m.txn, m.sid))
    BY <1>1 DEF HandleInvoke
  <2> QED BY <2>1, <2>2, HandledHandles
<1>2. CASE m.method = "onBWDone"
  <2>1. Keeps(s, SendCheckBW(s), "_checkbw")
    BY FreeInvokeKeeps DEF SendCheckBW
  <2>2. Safe(s, IF s.bwCheck = 0 THEN SendCheckBW(s) ELSE s)
    BY <2>1, KeepsSafe, SafeSame
  <2>3. HandleInvoke(s, m) = Handled(IF s.bwCheck = 0 THEN SendCheckBW(s) ELSE s)
    BY <1>2 DEF HandleInvoke
  <2> QED BY <2>2, <2>3, HandledHandles
<1>3. CASE m.method = "onFCUnsubscribe"
  <2>1. HandleInvoke(s, m) = [s |-> Close(s), media |-> 2]
    BY <1>3 DEF HandleInvoke
  <2> QED BY <2>1, ClosesHandles
<1>4. CASE m.method = "ping"
  <2>1. Safe(s, SendPong(s))
    BY SendPacketKeeps, KeepsSafe DEF SendPong
  <2>2. HandleInvoke(s, m) = Handled(SendPong(s))
    BY <1>4 DEF HandleInvoke
  <2> QED BY <2>1, <2>2, HandledHandles
<1>5. CASE m.method = "_onbwcheck"
  <2>1. HandleInvoke(s, m) = Handled(SendCheckBWResult(s))
    BY <1>5 DEF HandleInvoke
  <2> QED BY <2>1, SendCheckBWResultSafe, HandledHandles
<1>6. CASE m.method = "_onbwdone"
  <2>1. HandleInvoke(s, m) = Handled(EraseNamed(s, "_checkbw"))
    BY <1>6 DEF HandleInvoke
  <2> QED BY <2>1, EraseNamedKeeps, KeepsSafe, HandledHandles
<1>7. CASE m.method = "close"
  <2>1. HandleInvoke(s, m) = Handled(Close(s))
    BY <1>7 DEF HandleInvoke
  <2> QED BY <2>1, CloseKeeps, KeepsSafe, HandledHandles
<1>8. CASE m.method = "onStatus"
  <2>1. HandleInvoke(s, m) = OnStatus(s, m.code)
    BY <1>8 DEF HandleInvoke
  <2> QED BY <2>1, OnStatusHandles
<1>9. CASE m.method = "playlist_ready"
  <2>1. HandleInvoke(s, m) = Handled(EraseNamed(s, "set_playlist"))
    BY <1>9 DEF HandleInvoke
  <2> QED BY <2>1, EraseNamedKeeps, KeepsSafe, HandledHandles
<1>10. CASE m.method \notin {"_result", "onBWDone", "onFCUnsubscribe", "ping", "_onbwcheck",
                             "_onbwdone", "close", "onStatus", "playlist_ready"}
  <2>1. HandleInvoke(s, m) = Handled(s)
    BY <1>10 DEF HandleInvoke
  <2> QED BY <2>1, SafeSame, HandledHandles
<1> QED BY <1>1, <1>2, <1>3, <1>4, <1>5, <1>6, <1>7, <1>8, <1>9, <1>10

(* The pause flag goes from asked for to reached, or an empty buffer asks. *)
LEMMA HandleCtrlSafe ==
  ASSUME NEW s, Good(s), NEW event
  PROVE  Safe(s, HandleCtrl(s, event))
<1>1. Safe(s, StreamEOF(s))
  <2>1. CASE s.pausing = 1
    <3>1. PICK p \in 0 .. 3 : p = 2
      OBVIOUS
    <3>2. p \in {1, 2} <=> s.pausing \in {1, 2}
      BY <2>1, <3>1
    <3>3. Safe(s, [s EXCEPT !.pausing = p])
      BY <3>2, PausingKeeps, KeepsSafe
    <3> QED BY <2>1, <3>1, <3>3 DEF StreamEOF
  <2>2. CASE s.pausing # 1
    BY <2>2, SafeSame DEF StreamEOF
  <2> QED BY <2>1, <2>2
<1>2. Safe(s, SendCtrl(s))
  BY SendPacketKeeps, KeepsSafe DEF SendCtrl
<1>3. Safe(s, [SendPause(s, TRUE) EXCEPT !.pausing = 1])
  <2>1. PICK name \in {"pause", "unpause"} : name = "pause"
    OBVIOUS
  <2>2. PICK p \in {1, 3} : p = 1
    OBVIOUS
  <2>3. p = 1 <=> name = "pause"
    BY <2>1, <2>2
  <2>4. Keeps(s, [Invoke(s, name, TRUE) EXCEPT !.pausing = p], name)
    BY <2>3, PauseKeeps
  <2>5. SendPause(s, TRUE) = Invoke(s, name, TRUE)
    BY <2>1 DEF SendPause
  <2> QED BY <2>2, <2>4, <2>5, KeepsSafe, Zenon
<1>4. PICK e : e = IF s.pausing = 0 THEN [SendPause(s, TRUE) EXCEPT !.pausing = 1]
                   ELSE IF s.pausing = 2 THEN Unpause(s) ELSE s
  OBVIOUS
<1>5. Safe(s, e)
  BY <1>3, <1>4, UnpauseSafe, SafeSame, Zenon
<1>6. HandleCtrl(s, event) = CASE event = "eof"  -> StreamEOF(s)
                               [] event = "ping" -> SendCtrl(s)
                               [] event = "empty" /\ Option("bufx") -> e
                               [] event = "swf" /\ Option("swf") -> SendCtrl(s)
                               [] OTHER -> s
  BY <1>4, Zenon DEF HandleCtrl
<1>7. HandleCtrl(s, event) \in {StreamEOF(s), SendCtrl(s), e, s}
  <2>1. CASE event = "eof"
    BY <1>6, <2>1
  <2>2. CASE event = "ping"
    BY <1>6, <2>2
  <2>3. CASE event = "empty" /\ Option("bufx")
    BY <1>6, <2>3
  <2>4. CASE event = "swf" /\ Option("swf")
    BY <1>6, <2>4
  <2>5. CASE ~(\/ event = "eof" \/ event = "ping" \/ (event = "empty" /\ Option("bufx"))
               \/ (event = "swf" /\ Option("swf")))
    BY <1>6, <2>5
  <2> QED BY <2>1, <2>2, <2>3, <2>4, <2>5
<1> QED BY <1>1, <1>2, <1>5, <1>7, SafeSame

-----------------------------------------------------------------------------
(* A message of the server. *)

IsMessage(m) ==
  \/ m.type = "invoke" /\ (m.method = "_result" => m.sid \in {0, 1})
  \/ m.type = "control"
  \/ m \in Media

(* What the assumption on the constants says of a media packet. *)
LEMMA MediaPacket ==
  ASSUME NEW m \in Media
  PROVE  /\ m.type \in {"audio", "video", "piece", "info", "flv"}
         /\ m.size \in Nat /\ m.stamp \in Nat /\ m.lacks \in {0, 4}
         /\ m.tracks # NULL => m.tracks \subseteq {1, 4}
         /\ m.tracks = NULL => m.type = "info"
         /\ m.type = "flv" => m.size > 0
BY SessionAssumption

(* RTMP_ClientPacket, for each type of message. *)
LEMMA ClientPacketHandles ==
  ASSUME NEW s, Good(s), NEW m, IsMessage(m)
  PROVE  Handles(s, ClientPacket(s, m)) /\ (ClientPacket(s, m).media = 1 => m \in Media)
<1>1. PICK stamped : stamped = IF s.pausing = 0 THEN [s EXCEPT !.mediaStamp = m.stamp] ELSE s
  OBVIOUS
<1>2. ClientPacket(s, m) =
        CASE m.type = "invoke"  -> HandleInvoke(s, m)
          [] m.type = "control" -> Handled(HandleCtrl(s, m.event))
          [] m.type \in {"audio", "video", "piece", "flv"} -> [s |-> stamped, media |-> 1]
          [] m.type = "info" /\ m.tracks # NULL -> [s |-> HandleMetadata(s, m), media |-> 1]
          [] OTHER              -> Handled(s)
  BY <1>1, Zenon DEF ClientPacket
<1>3. CASE m.type = "invoke"
  <2>1. m \notin Media
    BY <1>3, MediaPacket
  <2>2. m.method = "_result" => m.sid \in {0, 1}
    BY <1>3, <2>1 DEF IsMessage
  <2>3. Handles(s, HandleInvoke(s, m))
    BY <2>2, HandleInvokeHandles
  <2>4. ClientPacket(s, m) = HandleInvoke(s, m)
    BY <1>2, <1>3
  <2>5. HandleInvoke(s, m).media # 1
    <3>1. \A t : Handled(t).media = 0 /\ [s |-> t, media |-> 2].media = 2
      BY DEF Handled
    <3>2. \A code : OnStatus(s, code).media # 1
      <4> TAKE code
      <4>1. CASE code = "failed"
        BY <4>1, <3>1 DEF OnStatus
      <4>2. CASE code = "start"
        BY <4>2, <3>1 DEF OnStatus
      <4>3. CASE code = "stop"
        BY <4>3, <3>1 DEF OnStatus
      <4>4. CASE code = "pause"
        BY <4>4, <3>1 DEF OnStatus
      <4>5. CASE code \notin {"failed", "start", "stop", "pause"}
        BY <4>5, <3>1 DEF OnStatus
      <4> QED BY <4>1, <4>2, <4>3, <4>4, <4>5
    <3> QED BY <3>1, <3>2 DEF HandleInvoke
  <2> QED BY <2>3, <2>4, <2>5
<1>4. CASE m.type = "control"
  <2>1. ClientPacket(s, m) = Handled(HandleCtrl(s, m.event))
    BY <1>2, <1>4
  <2>2. Handles(s, Handled(HandleCtrl(s, m.event)))
    BY HandleCtrlSafe, HandledHandles
  <2> QED BY <2>1, <2>2 DEF Handled
<1>5. CASE m.type \in {"audio", "video", "piece", "flv"}
  <2>1. m \in Media
    BY <1>5 DEF IsMessage
  <2>2. m.stamp \in Nat
    BY <2>1, MediaPacket
  <2>3. Safe(s, stamped) /\ stamped.sock = s.sock
    BY <1>1, <2>2, MediaStampKeeps, KeepsSafe, SafeSame
  <2>4. ClientPacket(s, m) = [s |-> stamped, media |-> 1]
    BY <1>2, <1>5
  <2> QED BY <2>1, <2>3, <2>4 DEF Handles
<1>6. CASE m.type = "info" /\ m.tracks # NULL
  <2>1. m \in Media
    BY <1>6 DEF IsMessage
  <2>2. PICK T : T = m.tracks
    OBVIOUS
  <2>3. T \subseteq {1, 4}
    BY <1>6, <2>1, <2>2, MediaPacket
  <2>4. PICK t : t = [s EXCEPT !.dataType = @ \union T]
    OBVIOUS
  <2>5. Safe(s, t) /\ t.sock = s.sock
    BY <2>3, <2>4, DataTypeKeeps, KeepsSafe
  <2>6. HandleMetadata(s, m) = t
    BY <2>2, <2>4 DEF HandleMetadata
  <2>7. ClientPacket(s, m) = [s |-> t, media |-> 1]
    BY <1>2, <1>6, <2>6
  <2> QED BY <2>1, <2>5, <2>7 DEF Handles
<1>7. CASE ~(\/ m.type \in {"invoke", "control", "audio", "video", "piece", "flv"}
             \/ m.type = "info" /\ m.tracks # NULL)
  <2>1. ClientPacket(s, m) = Handled(s)
    BY <1>2, <1>7
  <2>2. Handles(s, Handled(s))
    BY SafeSame, HandledHandles
  <2> QED BY <2>1, <2>2 DEF Handled
<1> QED BY <1>3, <1>4, <1>5, <1>6, <1>7

(* Skipping after an unpause, and its end. *)
LEMMA NextMediaHandles ==
  ASSUME NEW s, Good(s), NEW m, IsMessage(m)
  PROVE  Handles(s, NextMedia(s, m)) /\ (NextMedia(s, m).media = 1 => m \in Media)
<1>1. PICK h : h = ClientPacket(s, m)
  OBVIOUS
<1>2. Handles(s, h) /\ (h.media = 1 => m \in Media)
  BY <1>1, ClientPacketHandles
<1>3. PICK skip \in BOOLEAN :
        skip = (h.media # 0 /\ h.s.pausing = 3 /\ m.stamp <= h.s.mediaStamp)
  OBVIOUS
<1>4. PICK res : res = IF h.media # 0 /\ h.s.pausing = 3 /\ ~skip
                       THEN [h.s EXCEPT !.pausing = 0] ELSE h.s
  OBVIOUS
<1>5. NextMedia(s, m) = IF h.media = 0 \/ skip THEN [s |-> res, media |-> 0]
                        ELSE [s |-> [res EXCEPT !.playing = TRUE], media |-> h.media]
  BY <1>1, <1>3, <1>4, Zenon DEF NextMedia
<1>6. Safe(s, h.s) /\ Good(h.s)
  BY <1>2 DEF Handles, Safe
<1>7. Safe(h.s, res) /\ res.sock = h.s.sock
  <2>1. CASE h.s.pausing = 3
    <3>1. PICK p \in 0 .. 3 : p = 0
      OBVIOUS
    <3>2. p \in {1, 2} <=> h.s.pausing \in {1, 2}
      BY <2>1, <3>1
    <3>3. /\ Safe(h.s, [h.s EXCEPT !.pausing = p])
          /\ [h.s EXCEPT !.pausing = p].sock = h.s.sock
      BY <1>6, <3>2, PausingKeeps, KeepsSafe
    <3> QED BY <1>4, <1>6, <3>1, <3>3, SafeSame, Zenon
  <2>2. CASE h.s.pausing # 3
    BY <2>2, <1>4, <1>6, SafeSame
  <2> QED BY <2>1, <2>2
<1>8. Safe(s, res) /\ Good(res)
  BY <1>6, <1>7, SafeOn DEF Safe
<1>9. CASE h.media = 0 \/ skip
  <2>1. NextMedia(s, m) = [s |-> res, media |-> 0]
    BY <1>5, <1>9
  <2> QED BY <2>1, <1>8 DEF Handles
<1>10. CASE ~(h.media = 0 \/ skip)
  <2>1. PICK t : t = [res EXCEPT !.playing = TRUE]
    OBVIOUS
  <2>2. Safe(res, t) /\ t.sock = res.sock
    BY <2>1, <1>8, PlayingKeeps, KeepsSafe
  <2>3. NextMedia(s, m) = [s |-> t, media |-> h.media]
    BY <1>5, <1>10, <2>1
  <2>4. Safe(s, t)
    BY <1>8, <2>2, SafeOn
  <2> QED BY <2>2, <2>3, <2>4, <1>2, <1>7 DEF Handles
<1> QED BY <1>9, <1>10

-----------------------------------------------------------------------------
(* The bytes of RTMP_Read. *)

(* Serves, the time-out apart. *)
Bytes(s, t) ==
  /\ t.made = s.made /\ t.given = s.given /\ t.gap = s.gap
  /\ \/ t.sock = s.sock /\ t.header = s.header /\ t.buf = s.buf /\ t.status = s.status
     \/ ~t.sock /\ ~t.header /\ t.buf = NULL /\ t.status = 0

(* A handler leaves what is read as it was. *)
LEMMA ReadsServed ==
  ASSUME NEW s, NEW t, NEW c, Bytes(s, t), Reads(s, c), s.status = 0
  PROVE  Reads(t, c) /\ t.status = 0
BY DEF Bytes, Reads, BetweenCalls, InHeader, InPacket

(* What serves leaves the bytes as they are, time-outs included. *)
LEMMA ServesBytes ==
  ASSUME NEW s, NEW t, Serves(s, t)
  PROVE  Bytes(s, t)
BY DEF Serves, Bytes

(* A read is counted, and may find the connection gone. *)
LEMMA CountedBytes ==
  ASSUME NEW s, Good(s)
  PROVE  /\ Good(Counted(s)) /\ Bytes(s, Counted(s))
         /\ Counted(s).sock => s.sock
<1>1. PICK t : t = [s EXCEPT !.unreported = @ + 1, !.timedout = FALSE]
  OBVIOUS
<1>2. s = [f \in Fields |-> s[f]] /\ SoftTyped(s)
  BY Zenon DEF Good, Typed, SoftTyped
<1>3. /\ Alike(s, t) /\ t.pausing = s.pausing /\ t.timedout = FALSE
      /\ t.unreported = s.unreported + 1 /\ t.mediaStamp = s.mediaStamp
      /\ t.dataType = s.dataType /\ t.streamId = s.streamId
  BY <1>1, <1>2 DEF Fields, Alike
<1>4. t.unreported \in Nat /\ t.timedout \in BOOLEAN
  <2>1. s.unreported \in Nat
    BY <1>2, Zenon DEF SoftTyped
  <2>2. t.unreported \in Nat
    BY <2>1, <1>3
  <2>3. t.timedout \in BOOLEAN
    BY <1>3
  <2> QED BY <2>2, <2>3
<1>5. SoftTyped(t)
  BY <1>2, <1>3, <1>4, Zenon DEF SoftTyped
<1>6. Good(t)
  BY <1>3, <1>5, AlikeKeeps
<1>7. Bytes(s, t) /\ t.sock = s.sock
  BY <1>3, Zenon DEF Bytes, Alike
<1>8. Safe(t, SendBytesReceived(t))
  <2>1. PICK u : u = [t EXCEPT !.unreported = 0]
    OBVIOUS
  <2>2. Safe(t, u) /\ Good(u)
    BY <2>1, <1>6, UnreportedKeeps, KeepsSafe DEF Keeps
  <2>3. Safe(u, SendPacket(u))
    BY <2>2, SendPacketKeeps, KeepsSafe
  <2> QED BY <2>1, <2>2, <2>3, SafeOn DEF SendBytesReceived
<1>9. PICK v : v = IF t.unreported > Window THEN SendBytesReceived(t) ELSE t
  OBVIOUS
<1>10. Safe(t, v)
  BY <1>6, <1>8, <1>9, SafeSame, Zenon
<1>11. Counted(s) = v
  BY <1>1, <1>9, Zenon DEF Counted
<1>12. Bytes(s, v) /\ (v.sock => s.sock)
  BY <1>7, <1>10 DEF Bytes, Safe, Serves
<1> QED BY <1>10, <1>11, <1>12 DEF Safe

(* A read that fails leaves no connection, or times out. *)
LEMMA ReadFailsBytes ==
  ASSUME NEW s, Good(s), NEW why
  PROVE  /\ Good(ReadFails(s, why)) /\ Bytes(s, ReadFails(s, why))
         /\ ReadFails(s, why).sock => ReadFails(s, why).timedout
<1>1. \A b \in BOOLEAN : LET t == [s EXCEPT !.timedout = b]
                         IN  Good(t) /\ Bytes(s, t) /\ t.timedout = b
  <2> TAKE b \in BOOLEAN
  <2>1. PICK t : t = [s EXCEPT !.timedout = b]
    OBVIOUS
  <2>2. s = [f \in Fields |-> s[f]] /\ SoftTyped(s)
    BY Zenon DEF Good, Typed, SoftTyped
  <2>3. /\ Alike(s, t) /\ t.pausing = s.pausing /\ t.timedout = b
        /\ t.unreported = s.unreported /\ t.mediaStamp = s.mediaStamp
        /\ t.dataType = s.dataType /\ t.streamId = s.streamId
    BY <2>1, <2>2 DEF Fields, Alike
  <2>4. SoftTyped(t)
    BY <2>2, <2>3, Zenon DEF SoftTyped
  <2>5. Good(t)
    BY <2>3, <2>4, AlikeKeeps
  <2>6. Bytes(s, t)
    BY <2>3, Zenon DEF Bytes, Alike
  <2> QED BY <2>1, <2>3, <2>5, <2>6, Zenon
<1>2. CASE why = "timeout"
  <2>1. PICK t : t = [s EXCEPT !.timedout = TRUE]
    OBVIOUS
  <2>2. Good(t) /\ Bytes(s, t) /\ t.timedout
    BY <1>1, <2>1, Zenon
  <2>3. ReadFails(s, why) = t
    BY <1>2, <2>1 DEF ReadFails
  <2> QED BY <2>2, <2>3
<1>3. CASE why # "timeout"
  <2>1. PICK t : t = [s EXCEPT !.timedout = FALSE]
    OBVIOUS
  <2>2. Good(t) /\ Bytes(s, t)
    BY <1>1, <2>1, Zenon
  <2>3. PICK u : u = Close(t)
    OBVIOUS
  <2>4. Good(u) /\ Serves(t, u) /\ ~u.sock
    BY <2>2, <2>3, CloseKeeps DEF Keeps
  <2>5. Bytes(s, u)
    BY <2>2, <2>4 DEF Bytes, Serves
  <2>6. ReadFails(s, why) = u
    BY <1>3, <2>1, <2>3 DEF ReadFails
  <2> QED BY <2>4, <2>5, <2>6
<1> QED BY <1>2, <1>3

(* The fields that reading does not touch are the same. *)
Beside(s, t) ==
  /\ t = [f \in Fields |-> t[f]]
  /\ t.sock = s.sock /\ t.left = s.left /\ t.calls = s.calls /\ t.wire = s.wire
  /\ t.numInvokes = s.numInvokes /\ t.closes = s.closes /\ t.timedout = s.timedout
  /\ t.streamId = s.streamId /\ t.pausing = s.pausing
  /\ t.mediaStamp = s.mediaStamp /\ t.unreported = s.unreported

BytesTyped(t) ==
  /\ t.header \in BOOLEAN /\ t.gap \in BOOLEAN /\ t.dataType \subseteq {1, 4}
  /\ t.status \in -3 .. 0 /\ t.timestamp \in Nat /\ t.made \in Int /\ t.given \in Int
  /\ t.buf # NULL => t.header /\ t.buf \in [from : Nat, len : Nat]

(* Reading, which moves bytes only, keeps Good. *)
LEMMA BesideGood ==
  ASSUME NEW s, NEW t, Good(s), Beside(s, t), BytesTyped(t)
  PROVE  Good(t)
<1>1. Typed(t)
  BY Zenon DEF Good, Typed, Beside, BytesTyped
<1>2. /\ t.sock = s.sock /\ t.wire = s.wire /\ t.closes = s.closes /\ t.calls = s.calls
      /\ t.numInvokes = s.numInvokes /\ t.pausing = s.pausing
  BY Zenon DEF Beside
<1>3. t.numInvokes >= s.numInvokes
  <2>1. s.numInvokes \in Nat
    BY Zenon DEF Good, Typed
  <2> QED BY <2>1, <1>2
<1> QED BY <1>1, <1>2, <1>3, Touched

(* What Good says of the types. *)
LEMMA GoodTyped ==
  ASSUME NEW s, Good(s)
  PROVE  BytesTyped(s) /\ s = [f \in Fields |-> s[f]] /\ s.sock \in BOOLEAN
BY Zenon DEF Good, Typed, BytesTyped

(* What the step of a call leaves: the rest of the invariant. *)
ReadInv ==
  /\ Good(r) /\ Reads(r, call)
  /\ pc \in {"read", "done"}
  /\ call # NULL => pc = "read"
  /\ pc = "done" /\ r.sock => r.timedout \/ gaveUp

(* Everything kept back is the rest of what was made. *)
Kept(s) == IF s.buf = NULL THEN s.made = 0 ELSE s.buf.from = 0 /\ s.buf.len = s.made

(* When RTMP_Read may return total: that much was given, what is kept back *)
(* is the rest, and 0, which ends the getter, is for an end or for a full  *)
(* buffer.                                                                 *)
CanReturn(s, total) ==
  /\ Good(s) /\ s.gap = FALSE /\ total \in Nat /\ s.given = total
  /\ s.header => Kept(s)
  /\ s.status # 0 => ~s.sock \/ s.timedout
  /\ total = 0 => ~s.sock \/ s.timedout \/ gaveUp'

(* RTMP_Read returns. *)
LEMMA ReturnReads ==
  ASSUME NEW s, NEW total, CanReturn(s, total), Return(s, total), pc = "read"
  PROVE  ReadInv'
<1>1. PICK t : t = [s EXCEPT !.gap = @ \/ s.given # total, !.given = 0]
  OBVIOUS
<1>2. r' = t /\ call' = NULL /\ pc' = IF total <= 0 THEN "done" ELSE pc
  BY <1>1, Zenon DEF Return
<1>3. Good(s) /\ s.given = total /\ s.gap = FALSE /\ total \in Nat
  BY Zenon DEF CanReturn
<1>4. s = [f \in Fields |-> s[f]] /\ BytesTyped(s)
  BY <1>3, GoodTyped
<1>5. /\ Beside(s, t) /\ t.header = s.header /\ t.dataType = s.dataType
      /\ t.status = s.status /\ t.timestamp = s.timestamp /\ t.made = s.made
      /\ t.given = 0 /\ t.buf = s.buf
  BY <1>1, <1>4 DEF Fields, Beside
<1>6. t.gap = FALSE
  <2>1. t.gap = (s.gap \/ s.given # total)
    BY <1>1, <1>4 DEF Fields
  <2> QED BY <2>1, <1>3
<1>7. BytesTyped(t)
  <2>1. t.gap \in BOOLEAN
    BY <1>6
  <2>2. t.given \in Int
    BY <1>5
  <2> QED BY <1>4, <1>5, <2>1, <2>2, Zenon DEF BytesTyped
<1>8. Good(t)
  BY <1>3, <1>5, <1>7, BesideGood
<1>9. t.sock = s.sock /\ t.timedout = s.timedout
  BY <1>5, Zenon DEF Beside
<1>10. Reads(t, NULL)
  <2>1. t.header => Kept(t)
    BY <1>5, Zenon DEF CanReturn, Kept
  <2>2. t.status # 0 => ~t.sock \/ t.timedout
    BY <1>5, <1>9, Zenon DEF CanReturn
  <2> QED BY <1>5, <1>6, <2>1, <2>2, Zenon DEF Reads, BetweenCalls, Kept
<1>11. pc' \in {"read", "done"}
  BY <1>2
<1>12. pc' = "done" /\ t.sock => t.timedout \/ gaveUp'
  <2>1. pc' = "done" => total = 0
    BY <1>2, <1>3
  <2> QED BY <2>1, <1>9, Zenon DEF CanReturn
<1> QED BY <1>2, <1>8, <1>10, <1>11, <1>12, Zenon DEF ReadInv

(* Minimum of two. *)
LEMMA MinOfTwo ==
  ASSUME NEW a \in Nat, NEW b \in Nat
  PROVE  /\ Min({a, b}) \in Nat /\ Min({a, b}) <= a /\ Min({a, b}) <= b
         /\ Min({a, b}) = a \/ Min({a, b}) = b
<1>1. Min({a, b}) \in {a, b} /\ \A x \in {a, b} : Min({a, b}) <= x
  <2>1. \E x \in {a, b} : \A y \in {a, b} : x <= y
    BY a <= b \/ b <= a
  <2> QED BY <2>1, Zenon DEF Min
<1> QED BY <1>1

(* What was kept back is given from its first byte on. *)
Drained(s, t, size, n) ==
  /\ Good(t) /\ Beside(s, t) /\ Kept(t) /\ t.given = n /\ t.gap = FALSE
  /\ t.header = s.header /\ t.status = s.status
  /\ n \in Nat /\ n <= size
  /\ n < size => t.buf = NULL

(* Draining gives the first bytes kept back, as many as fit. *)
LEMMA DrainKeeps ==
  ASSUME NEW s, Good(s), s.buf # NULL, Kept(s), s.given = 0, s.gap = FALSE,
         NEW size \in Nat
  PROVE  Drained(s, Drain(s, size), size, Min({s.buf.len, size}))
<1>0. PICK n : n = Min({s.buf.len, size})
  OBVIOUS
<1>1. s.buf.from = 0 /\ s.buf.len = s.made
  BY Zenon DEF Kept
<1>2. s = [f \in Fields |-> s[f]] /\ BytesTyped(s)
  BY GoodTyped
<1>3. s.header /\ s.buf \in [from : Nat, len : Nat]
  BY <1>2, Zenon DEF BytesTyped
<1>4. PICK l \in Nat : l = s.buf.len
  BY <1>3
<1>5. s.buf = [from |-> 0, len |-> l] /\ s.made = l
  BY <1>1, <1>3, <1>4
<1>6. n \in Nat /\ n <= l /\ n <= size /\ (n = l \/ n = size)
  BY <1>0, <1>4, MinOfTwo
<1>7. PICK u : u = Give(s, s.buf.from, n)
  OBVIOUS
<1>8. PICK k : k = IF s.buf = NULL THEN NULL ELSE [from |-> s.buf.from - n, len |-> s.buf.len]
  OBVIOUS
<1>8a. u = [s EXCEPT !.gap = @ \/ (n > 0 /\ s.buf.from # 0),
                     !.made = @ - n, !.given = @ + n, !.buf = k]
  <2>1. u = [s EXCEPT !.gap = @ \/ (n > 0 /\ s.buf.from # 0),
                      !.made = @ - n, !.given = @ + n,
                      !.buf = IF s.buf = NULL THEN NULL ELSE [from |-> s.buf.from - n, len |-> s.buf.len]]
    BY <1>7 DEF Give
  <2> QED BY <2>1, <1>8
<1>9. /\ Beside(s, u) /\ u.header = s.header /\ u.dataType = s.dataType
      /\ u.status = s.status /\ u.timestamp = s.timestamp
      /\ u.made = s.made - n /\ u.given = s.given + n /\ u.buf = k
  BY <1>2, <1>8a DEF Fields, Beside
<1>10. u.buf = [from |-> 0 - n, len |-> l]
  <2>1. u.buf = [from |-> s.buf.from - n, len |-> s.buf.len]
    BY <1>8, <1>9
  <2> QED BY <2>1, <1>5
<1>11. u.gap = FALSE
  <2>1. u.gap = (s.gap \/ (n > 0 /\ s.buf.from # 0))
    BY <1>2, <1>8a DEF Fields
  <2> QED BY <2>1, <1>1
<1>12. PICK b : b = IF l = n THEN NULL ELSE [from |-> 0, len |-> l - n]
  OBVIOUS
<1>13. PICK t : t = Drain(s, size)
  OBVIOUS
<1>14. t = [u EXCEPT !.buf = b]
  <2>1. t = [u EXCEPT !.buf = IF @.len = n THEN NULL
                              ELSE [from |-> @.from + n, len |-> @.len - n]]
    BY <1>0, <1>7, <1>13, Zenon DEF Drain
  <2>2. u.buf.len = l /\ u.buf.from + n = 0
    BY <1>6, <1>10
  <2>3. b = IF u.buf.len = n THEN NULL ELSE [from |-> u.buf.from + n, len |-> u.buf.len - n]
    BY <2>2, <1>12, Zenon
  <2> QED BY <2>1, <2>3
<1>15. /\ Beside(s, t) /\ t.header = s.header /\ t.dataType = s.dataType
       /\ t.status = s.status /\ t.timestamp = s.timestamp
       /\ t.made = l - n /\ t.given = n /\ t.buf = b /\ t.gap = FALSE
  <2>1. u = [f \in Fields |-> u[f]]
    BY <1>9, Zenon DEF Beside
  <2>2. /\ Beside(u, t) /\ t.header = u.header /\ t.dataType = u.dataType
        /\ t.status = u.status /\ t.timestamp = u.timestamp
        /\ t.made = u.made /\ t.given = u.given /\ t.buf = b /\ t.gap = u.gap
    BY <1>14, <2>1 DEF Fields, Beside
  <2>3. Beside(s, t)
    BY <2>2, <1>9, Zenon DEF Beside
  <2>4. u.made = l - n /\ u.given = n
    <3>1. u.made = s.made - n /\ u.given = s.given + n
      BY <1>9
    <3>2. u.made = l - n
      BY <3>1, <1>5
    <3>3. u.given = n
      BY <3>1, <1>6
    <3> QED BY <3>2, <3>3
  <2> QED BY <2>2, <2>3, <2>4, <1>9, <1>11
<1>16. Kept(t) /\ (n < size => t.buf = NULL)
  <2>1. CASE l = n
    <3>1. t.buf = NULL /\ t.made = 0
      BY <2>1, <1>12, <1>15
    <3> QED BY <3>1 DEF Kept
  <2>2. CASE l # n
    <3>1. t.buf = [from |-> 0, len |-> l - n] /\ t.made = l - n
      BY <2>2, <1>12, <1>15
    <3>2. t.buf # NULL
      <4>1. t.buf \in [from : Int, len : Int]
        BY <3>1, <1>6
      <4> QED BY <4>1, SessionAssumption
    <3>3. ~(n < size)
      BY <2>2, <1>6
    <3> QED BY <3>1, <3>2, <3>3 DEF Kept
  <2> QED BY <2>1, <2>2
<1>17. BytesTyped(t)
  <2>1. t.buf # NULL => t.header /\ t.buf \in [from : Nat, len : Nat]
    <3>1. t.buf # NULL => t.buf = [from |-> 0, len |-> l - n]
      BY <1>12, <1>15
    <3>2. l - n \in Nat
      BY <1>6
    <3> QED BY <3>1, <3>2, <1>3, <1>15
  <2>2. t.made \in Int /\ t.given \in Int
    BY <1>6, <1>15
  <2>3. t.gap \in BOOLEAN
    BY <1>15
  <2> QED BY <2>1, <2>2, <2>3, <1>2, <1>15, Zenon DEF BytesTyped
<1>18. Good(t)
  BY <1>15, <1>17, BesideGood
<1>19. Drained(s, t, size, n)
  BY <1>6, <1>15, <1>16, <1>18, Zenon DEF Drained
<1> QED BY <1>0, <1>13, <1>19

(* Where RTMP_Read goes on to what was kept back and a packet. *)
Ahead(s) == /\ Good(s) /\ s.gap = FALSE /\ s.given = 0 /\ s.status = 0 /\ s.header /\ Kept(s)

(* RTMP_Read goes on. *)
LEMMA ReadOnReads ==
  ASSUME NEW s, Ahead(s), NEW size \in Nat, size = 0 => gaveUp', ReadOn(s, size), pc = "read"
  PROVE  ReadInv'
<1>1. /\ Good(s) /\ s.gap = FALSE /\ s.given = 0 /\ s.status = 0 /\ s.header /\ Kept(s)
  BY Zenon DEF Ahead
<1>2. PICK t : t = IF s.buf = NULL THEN s ELSE Drain(s, size)
  OBVIOUS
<1>3. PICK n : n = IF s.buf = NULL THEN 0 ELSE Min({s.buf.len, size})
  OBVIOUS
<1>4. IF n < size THEN /\ r' = t
                       /\ call' = [phase |-> "packet", size |-> size - n, total |-> n]
                       /\ pc' = pc
                  ELSE Return(t, n)
  BY <1>2, <1>3, Zenon DEF ReadOn
<1>5. /\ Good(t) /\ Kept(t) /\ t.given = n /\ t.gap = FALSE /\ t.header /\ t.status = 0
      /\ n \in Nat /\ n <= size /\ (n < size => t.buf = NULL)
  <2>1. CASE s.buf = NULL
    <3>1. t = s /\ n = 0
      BY <2>1, <1>2, <1>3
    <3>2. n \in Nat /\ n <= size
      BY <3>1
    <3> QED BY <3>1, <3>2, <2>1, <1>1, Zenon
  <2>2. CASE s.buf # NULL
    <3>1. t = Drain(s, size) /\ n = Min({s.buf.len, size})
      BY <2>2, <1>2, <1>3
    <3>2. Drained(s, t, size, n)
      BY <2>2, <3>1, <1>1, DrainKeeps
    <3> QED BY <3>2, <1>1, Zenon DEF Drained
  <2> QED BY <2>1, <2>2
<1>6. CASE n < size
  <2>1. PICK c : c = [phase |-> "packet", size |-> size - n, total |-> n]
    OBVIOUS
  <2>2. r' = t /\ call' = c /\ pc' = pc
    BY <1>4, <1>6, <2>1
  <2>3. c \in [phase : {"packet"}, size : Nat \ {0}, total : Nat] /\ c.phase = "packet" /\ c.total = n
    <3>1. size - n \in Nat \ {0}
      BY <1>5, <1>6
    <3> QED BY <2>1, <3>1, <1>5
  <2>4. c # NULL
    <3>1. c \in [phase : {"packet"}, size : Int, total : Int]
      BY <2>1, <1>5
    <3> QED BY <3>1, SessionAssumption
  <2>5. t.buf = NULL /\ t.made = 0
    BY <1>5, <1>6 DEF Kept
  <2>6. InPacket(t, c)
    BY <1>5, <2>3, <2>5 DEF InPacket
  <2>7. Reads(t, c)
    BY <1>5, <2>3, <2>4, <2>6 DEF Reads, IsCall
  <2> QED BY <1>5, <2>2, <2>4, <2>7 DEF ReadInv
<1>7. CASE ~(n < size)
  <2>1. Return(t, n) /\ (n = 0 => gaveUp')
    BY <1>4, <1>5, <1>7
  <2>2. CanReturn(t, n)
    BY <1>5, <2>1, Zenon DEF CanReturn
  <2> QED BY <2>1, <2>2, ReturnReads
<1> QED BY <1>6, <1>7

(* What holds of the struct in a call of RTMP_Read. *)
LEMMA InCall ==
  ASSUME NEW s, NEW c, Reads(s, c), c # NULL
  PROVE  /\ s.gap = FALSE /\ s.status = 0 /\ IsCall(c)
         /\ c.size \in Nat \ {0} /\ c.total \in Nat
         /\ c.phase \in {"header", "packet"}
         /\ c.phase = "header" => InHeader(s, c)
         /\ c.phase = "packet" => InPacket(s, c)
<1>1. s.gap = FALSE /\ s.status = 0 /\ IsCall(c)
  BY Zenon DEF Reads
<1>2. /\ c.size \in Nat \ {0} /\ c.total \in Nat
      /\ c.phase \in {"header", "packet"}
  BY <1>1 DEF IsCall
<1>3. IF c.phase = "header" THEN InHeader(s, c) ELSE InPacket(s, c)
  BY Zenon DEF Reads
<1> QED BY <1>1, <1>2, <1>3

(* The file header is complete. *)
LEMMA HeaderDoneReads ==
  ASSUME NEW s, Good(s), Reads(s, call), call # NULL, call.phase = "header", HeaderDone(s),
         pc = "read"
  PROVE  ReadInv'
<1>1. /\ s.gap = FALSE /\ s.status = 0 /\ call.size \in Nat \ {0} /\ InHeader(s, call)
  BY InCall
<1>2. s.made \in Nat /\ s.given = 0
  BY <1>1 DEF InHeader
<1>3. PICK t : t = [s EXCEPT !.header = TRUE, !.buf = [from |-> 0, len |-> s.made]]
  OBVIOUS
<1>4. s = [f \in Fields |-> s[f]] /\ BytesTyped(s)
  BY GoodTyped
<1>5. /\ Beside(s, t) /\ t.header /\ t.dataType = s.dataType /\ t.status = s.status
      /\ t.timestamp = s.timestamp /\ t.made = s.made /\ t.given = s.given /\ t.gap = s.gap
      /\ t.buf = [from |-> 0, len |-> s.made] /\ t.header \in BOOLEAN
  BY <1>3, <1>4 DEF Fields, Beside
<1>6. t.buf \in [from : Nat, len : Nat]
  BY <1>2, <1>5
<1>7. BytesTyped(t)
  BY <1>4, <1>5, <1>6, Zenon DEF BytesTyped
<1>8. Good(t)
  BY <1>5, <1>7, BesideGood
<1>9. Kept(t)
  <2>1. t.buf # NULL
    <3>1. t.buf \in [from : Int, len : Int]
      BY <1>2, <1>5
    <3> QED BY <3>1, SessionAssumption
  <2> QED BY <2>1, <1>5 DEF Kept
<1>10. Ahead(t)
  BY <1>1, <1>2, <1>5, <1>8, <1>9, Zenon DEF Ahead
<1>11. ReadOn(t, call.size)
  BY <1>3, Zenon DEF HeaderDone
<1> QED BY <1>1, <1>10, <1>11, ReadOnReads

(* A packet's bytes are some, and fit where they are checked to. *)
LEMMA TagSizes ==
  ASSUME NEW m \in Media
  PROVE  TagSize(m) \in Nat \ {0} /\ Room(m) \in Nat /\ TagSize(m) <= Room(m)
<1>1. /\ m.size \in Nat /\ m.lacks \in {0, 4}
      /\ m.type = "flv" => m.size > 0
  BY MediaPacket
<1>2. CASE m.type = "flv"
  <2>1. TagSize(m) = m.size + m.lacks /\ Room(m) = m.size + 4
    BY <1>2 DEF TagSize, Room
  <2> QED BY <1>1, <1>2, <2>1
<1>3. CASE m.type # "flv"
  <2>1. TagSize(m) = 11 + m.size + 4 /\ Room(m) = 11 + m.size + 4 + 4
    BY <1>3 DEF TagSize, Room
  <2> QED BY <1>1, <2>1
<1> QED BY <1>2, <1>3

(* A packet is seen, and read; neither moves a byte. *)
LEMMA SeenFields ==
  ASSUME NEW s, Good(s), NEW m \in Media
  PROVE  LET t == Seen(s, m)
         IN  /\ Good(t) /\ Beside(s, t) /\ t.header = s.header /\ t.status = s.status
             /\ t.timestamp = s.timestamp /\ t.made = s.made /\ t.given = s.given
             /\ t.gap = s.gap /\ t.buf = s.buf
<1>1. PICK T : T = Tracks(m.type)
  OBVIOUS
<1>2. T \subseteq {1, 4}
  BY <1>1 DEF Tracks
<1>3. PICK t : t = Seen(s, m)
  OBVIOUS
<1>4. t = [s EXCEPT !.dataType = @ \union T]
  BY <1>1, <1>3, Zenon DEF Seen
<1>5. s = [f \in Fields |-> s[f]] /\ BytesTyped(s)
  BY GoodTyped
<1>6. /\ Beside(s, t) /\ t.header = s.header /\ t.dataType = s.dataType \union T
      /\ t.status = s.status
      /\ t.timestamp = s.timestamp /\ t.made = s.made /\ t.given = s.given /\ t.gap = s.gap
      /\ t.buf = s.buf
  BY <1>4, <1>5 DEF Fields, Beside
<1>7. t.dataType \subseteq {1, 4}
  <2>1. s.dataType \subseteq {1, 4}
    BY <1>5, Zenon DEF BytesTyped
  <2> QED BY <2>1, <1>2, <1>6, Zenon
<1>8. BytesTyped(t)
  BY <1>5, <1>6, <1>7, Zenon DEF BytesTyped
<1>9. Good(t)
  BY <1>6, <1>8, BesideGood
<1> QED BY <1>3, <1>6, <1>9, Zenon

(* Reading on with n bytes more. *)
LEMMA ReadFields ==
  ASSUME NEW s, Good(s), NEW m \in Media, NEW n \in Nat
  PROVE  LET t == [Read(s, m) EXCEPT !.made = @ + n]
         IN  /\ Good(t) /\ Beside(s, t) /\ t.header = s.header /\ t.status = s.status
             /\ t.made = s.made + n /\ t.given = s.given
             /\ t.gap = s.gap /\ t.buf = s.buf
<1>1. PICK u : u = Seen(s, m)
  OBVIOUS
<1>2. /\ Good(u) /\ Beside(s, u) /\ u.header = s.header /\ u.status = s.status
      /\ u.timestamp = s.timestamp /\ u.made = s.made /\ u.given = s.given
      /\ u.gap = s.gap /\ u.buf = s.buf
  BY <1>1, SeenFields, Zenon
<1>3. PICK T : T = IF m.type = "flv" THEN m.tracks ELSE {}
  OBVIOUS
<1>4. T \subseteq {1, 4}
  BY <1>3, MediaPacket
<1>5. PICK k : k = m.stamp
  OBVIOUS
<1>6. k \in Nat
  BY <1>5, MediaPacket
<1>7. PICK t : t = [Read(s, m) EXCEPT !.made = @ + n]
  OBVIOUS
<1>8. PICK v : v = Read(s, m)
  OBVIOUS
<1>9. v = [u EXCEPT !.timestamp = k, !.dataType = @ \union T]
  BY <1>1, <1>3, <1>5, <1>8, Zenon DEF Read
<1>10. t = [v EXCEPT !.made = @ + n]
  BY <1>7, <1>8, Zenon
<1>11. u = [f \in Fields |-> u[f]] /\ BytesTyped(u)
  BY <1>2, GoodTyped
<1>12. /\ Beside(u, v) /\ v.header = u.header /\ v.dataType = u.dataType \union T
       /\ v.status = u.status /\ v.timestamp = k /\ v.made = u.made
       /\ v.given = u.given /\ v.gap = u.gap /\ v.buf = u.buf
  BY <1>9, <1>11 DEF Fields, Beside
<1>13. v = [f \in Fields |-> v[f]]
  BY <1>12, Zenon DEF Beside
<1>14. /\ Beside(v, t) /\ t.header = v.header /\ t.dataType = v.dataType
       /\ t.status = v.status /\ t.timestamp = v.timestamp /\ t.made = v.made + n
       /\ t.given = v.given /\ t.gap = v.gap /\ t.buf = v.buf
  BY <1>10, <1>13 DEF Fields, Beside
<1>15. Beside(s, t)
  BY <1>2, <1>12, <1>14, Zenon DEF Beside
<1>16. /\ t.header = s.header /\ t.status = s.status /\ t.made = s.made + n
       /\ t.given = s.given /\ t.gap = s.gap /\ t.buf = s.buf /\ t.timestamp = k
       /\ t.dataType = u.dataType \union T
  BY <1>2, <1>12, <1>14, Zenon
<1>17. t.dataType \subseteq {1, 4}
  <2>1. u.dataType \subseteq {1, 4}
    BY <1>11, Zenon DEF BytesTyped
  <2> QED BY <2>1, <1>4, <1>16, Zenon
<1>18. BytesTyped(t)
  <2>1. BytesTyped(s)
    BY GoodTyped
  <2>2. t.made \in Int
    <3>1. s.made \in Int
      BY <2>1, Zenon DEF BytesTyped
    <3> QED BY <3>1, <1>16
  <2> QED BY <2>1, <2>2, <1>6, <1>16, <1>17, Zenon DEF BytesTyped
<1>19. Good(t)
  BY <1>15, <1>18, BesideGood
<1> QED BY <1>7, <1>15, <1>16, <1>19, Zenon

(* A struct the call in progress goes on with. *)
Goes(s) == /\ Good(s) /\ Reads(s, call) /\ call # NULL /\ pc = "read"

(* A packet is added to the file header, or is what follows it. *)
LEMMA HeaderPacketReads ==
  ASSUME NEW s, Goes(s), call.phase = "header", NEW m \in Media, HeaderPacket(s, m)
  PROVE  ReadInv'
<1>1. /\ Good(s) /\ Reads(s, call) /\ call # NULL /\ pc = "read"
  BY Zenon DEF Goes
<1>2. /\ s.gap = FALSE /\ s.status = 0 /\ IsCall(call) /\ call.size \in Nat \ {0}
      /\ InHeader(s, call)
  BY <1>1, InCall
<1>3. PICK n : n = TagSize(m)
  OBVIOUS
<1>4. n \in Nat \ {0} /\ n \in Nat
  BY <1>3, TagSizes
<1>5. PICK t : t = [Read(s, m) EXCEPT !.made = @ + n]
  OBVIOUS
<1>6. /\ Good(t) /\ Beside(s, t) /\ t.header = s.header /\ t.status = s.status
      /\ t.made = s.made + n /\ t.given = s.given
      /\ t.gap = s.gap /\ t.buf = s.buf
  BY <1>1, <1>4, <1>5, ReadFields, ZenonT(60)
<1>7. ~s.header /\ s.given = 0 /\ call.total = 0 /\ s.made \in Nat
  BY <1>2 DEF InHeader
<1>8. t.made \in Nat
  BY <1>4, <1>6, <1>7
<1>9. CASE Room(m) > call.room \/ t.dataType = {1, 4} \/ t.timestamp # 0
  <2>1. HeaderDone(t)
    BY <1>3, <1>5, <1>9, Zenon DEF HeaderPacket
  <2>2. Reads(t, call)
    <3>1. InHeader(t, call)
      BY <1>6, <1>7, <1>8 DEF InHeader
    <3> QED BY <1>1, <1>2, <1>6, <3>1 DEF Reads
  <2> QED BY <1>1, <1>2, <1>6, <2>1, <2>2, HeaderDoneReads
<1>10. CASE ~(Room(m) > call.room \/ t.dataType = {1, 4} \/ t.timestamp # 0)
  <2>1. PICK c : c = [call EXCEPT !.room = @ - n]
    OBVIOUS
  <2>2. r' = t /\ call' = c /\ pc' = pc
    BY <1>3, <1>5, <1>10, <2>1, Zenon DEF HeaderPacket
  <2>3. call \in [phase : {"header"}, size : Nat \ {0}, total : Nat, room : Int]
    BY <1>2 DEF IsCall
  <2>4. /\ c \in [phase : {"header"}, size : Nat \ {0}, total : Nat, room : Int]
        /\ c.phase = "header" /\ c.total = call.total
    BY <1>4, <2>1, <2>3
  <2>5. c # NULL
    <3>1. c \in [phase : {"header"}, size : Int, total : Int, room : Int]
      BY <2>4
    <3> QED BY <3>1, SessionAssumption
  <2>6. InHeader(t, c)
    BY <1>6, <1>7, <1>8, <2>4 DEF InHeader
  <2>7. IsCall(c)
    BY <2>4 DEF IsCall
  <2>8. Reads(t, c)
    BY <1>2, <1>6, <2>4, <2>5, <2>6, <2>7, Zenon DEF Reads
  <2> QED BY <1>1, <1>6, <2>2, <2>5, <2>8 DEF ReadInv
<1> QED BY <1>9, <1>10

(* A packet goes to the caller as far as there is room, and the rest is    *)
(* kept back.                                                              *)
LEMMA BodyPacketReads ==
  ASSUME NEW s, Goes(s), call.phase = "packet", s.sock, NEW m \in Media, BodyPacket(s, m)
  PROVE  ReadInv'
<1>1. /\ Good(s) /\ Reads(s, call) /\ call # NULL /\ pc = "read"
  BY Zenon DEF Goes
<1>2. /\ s.gap = FALSE /\ s.status = 0 /\ call.size \in Nat \ {0} /\ call.total \in Nat
      /\ InPacket(s, call)
  BY <1>1, InCall
<1>3. s.given = call.total /\ s.buf = NULL /\ s.header /\ s.made = 0
  BY <1>2 DEF InPacket
<1>4. PICK n : n = TagSize(m)
  OBVIOUS
<1>5. n \in Nat /\ n # 0 /\ Room(m) \in Nat /\ n <= Room(m)
  BY <1>4, TagSizes
<1>6. PICK k : k = Min({n, call.size})
  OBVIOUS
<1>7. k \in Nat /\ k <= n /\ k <= call.size /\ (k = n \/ k = call.size) /\ k # 0
  BY <1>2, <1>5, <1>6, MinOfTwo
<1>8. PICK u : u = [Read(s, m) EXCEPT !.made = @ + n]
  OBVIOUS
<1>9. /\ Good(u) /\ Beside(s, u) /\ u.header = s.header /\ u.status = s.status
      /\ u.made = s.made + n /\ u.given = s.given
      /\ u.gap = s.gap /\ u.buf = s.buf
  BY <1>1, <1>5, <1>8, ReadFields, ZenonT(60)
<1>10. PICK v : v = Give(u, s.made, k)
  OBVIOUS
<1>11. u = [f \in Fields |-> u[f]] /\ BytesTyped(u)
  BY <1>9, GoodTyped
<1>12. PICK b : b = IF u.buf = NULL THEN NULL
                    ELSE [from |-> u.buf.from - k, len |-> u.buf.len]
  OBVIOUS
<1>13. v = [u EXCEPT !.gap = @ \/ (k > 0 /\ s.made # 0),
                     !.made = @ - k, !.given = @ + k, !.buf = b]
  <2>1. v = [u EXCEPT !.gap = @ \/ (k > 0 /\ s.made # 0),
                      !.made = @ - k, !.given = @ + k,
                      !.buf = IF u.buf = NULL THEN NULL
                              ELSE [from |-> u.buf.from - k, len |-> u.buf.len]]
    BY <1>10 DEF Give
  <2> QED BY <2>1, <1>12
<1>14. /\ Beside(u, v) /\ v.header = u.header /\ v.dataType = u.dataType
       /\ v.status = u.status /\ v.timestamp = u.timestamp
       /\ v.made = u.made - k /\ v.given = u.given + k /\ v.buf = b
       /\ v = [f \in Fields |-> v[f]]
  BY <1>11, <1>13 DEF Fields, Beside
<1>15. v.gap = FALSE
  <2>1. v.gap = (u.gap \/ (k > 0 /\ s.made # 0))
    BY <1>11, <1>13 DEF Fields
  <2> QED BY <2>1, <1>2, <1>3, <1>9
<1>16. v.buf = NULL
  BY <1>3, <1>9, <1>12, <1>14
<1>17. v.made = n - k /\ v.given = call.total + k
  <2>1. v.made = u.made - k /\ v.given = u.given + k
    BY <1>14
  <2>2. u.made = n /\ u.given = call.total
    BY <1>3, <1>5, <1>9
  <2> QED BY <2>1, <2>2
<1>18. PICK e : e = [from |-> s.made - k + k, len |-> n - k]
  OBVIOUS
<1>19. e = [from |-> 0, len |-> n - k]
  BY <1>3, <1>7, <1>18
<1>20. PICK w : w = IF Room(m) > call.size THEN [v EXCEPT !.buf = e] ELSE v
  OBVIOUS
<1>21. /\ Beside(v, w) /\ w.header = v.header /\ w.dataType = v.dataType
       /\ w.status = v.status /\ w.timestamp = v.timestamp
       /\ w.made = v.made /\ w.given = v.given /\ w.gap = v.gap
       /\ w.buf = IF Room(m) > call.size THEN e ELSE NULL
  <2>1. CASE Room(m) > call.size
    <3>1. w = [v EXCEPT !.buf = e]
      BY <1>20, <2>1
    <3>2. w.buf = e
      BY <1>14, <3>1 DEF Fields
    <3>3. /\ Beside(v, w) /\ w.header = v.header /\ w.dataType = v.dataType
          /\ w.status = v.status /\ w.timestamp = v.timestamp
          /\ w.made = v.made /\ w.given = v.given /\ w.gap = v.gap
      BY <1>14, <3>1 DEF Fields, Beside
    <3> QED BY <2>1, <3>2, <3>3
  <2>2. CASE ~(Room(m) > call.size)
    <3>1. w = v
      BY <1>20, <2>2
    <3>2. Beside(v, v)
      BY <1>14, Zenon DEF Beside
    <3> QED BY <2>2, <3>1, <3>2, <1>16
  <2> QED BY <2>1, <2>2
<1>22. /\ Beside(s, w) /\ w.header /\ w.status = 0 /\ w.gap = FALSE
       /\ w.made = n - k /\ w.given = call.total + k
  <2>1. Beside(s, w)
    BY <1>9, <1>14, <1>21, Zenon DEF Beside
  <2> QED BY <2>1, <1>2, <1>3, <1>9, <1>14, <1>15, <1>17, <1>21, Zenon
<1>23. Kept(w)
  <2>1. CASE Room(m) > call.size
    <3>1. w.buf = [from |-> 0, len |-> n - k]
      BY <2>1, <1>19, <1>21
    <3>2. w.buf # NULL
      <4>1. w.buf \in [from : Int, len : Int]
        BY <3>1, <1>5, <1>7
      <4> QED BY <4>1, SessionAssumption
    <3> QED BY <3>1, <3>2, <1>22 DEF Kept
  <2>2. CASE ~(Room(m) > call.size)
    <3>1. k = n
      BY <2>2, <1>2, <1>5, <1>7
    <3>2. w.buf = NULL /\ w.made = 0
      BY <2>2, <3>1, <1>5, <1>21, <1>22
    <3> QED BY <3>2 DEF Kept
  <2> QED BY <2>1, <2>2
<1>24. BytesTyped(w)
  <2>1. w.buf # NULL => w.header /\ w.buf \in [from : Nat, len : Nat]
    <3>1. w.buf # NULL => w.buf = [from |-> 0, len |-> n - k]
      BY <1>19, <1>21
    <3>2. n - k \in Nat
      BY <1>5, <1>7
    <3> QED BY <3>1, <3>2, <1>22
  <2>2. w.made \in Int /\ w.given \in Int
    BY <1>2, <1>5, <1>7, <1>22
  <2>3. w.gap \in BOOLEAN
    BY <1>22
  <2>4. w.header = u.header /\ w.dataType = u.dataType /\ w.timestamp = u.timestamp
        /\ w.status = u.status
    BY <1>14, <1>21
  <2> QED BY <2>1, <2>2, <2>3, <2>4, <1>11, Zenon DEF BytesTyped
<1>25. Good(w)
  BY <1>1, <1>22, <1>24, BesideGood
<1>26. PICK total : total = IF call.size - n < 0 THEN (call.total + n) + (call.size - n)
                            ELSE call.total + n
  OBVIOUS
<1>27. total = call.total + k /\ total \in Nat /\ total # 0
  BY <1>2, <1>5, <1>7, <1>26
<1>28. Return(w, total)
  BY <1>4, <1>6, <1>8, <1>10, <1>18, <1>20, <1>26, Zenon DEF BodyPacket
<1>29. CanReturn(w, total)
  BY <1>22, <1>23, <1>25, <1>27, Zenon DEF CanReturn
<1> QED BY <1>1, <1>28, <1>29, ReturnReads

(* A message without bytes for the caller leaves the call as it is. *)
LEMMA IgnoredReads ==
  ASSUME NEW s, Goes(s), Ignored(s)
  PROVE  ReadInv'
<1>1. /\ Good(s) /\ Reads(s, call) /\ call # NULL /\ pc = "read"
  BY Zenon DEF Goes
<1>2. CASE call.phase = "header" /\ s.dataType = {1, 4}
  <2>1. HeaderDone(s)
    BY <1>2 DEF Ignored
  <2> QED BY <1>1, <1>2, <2>1, HeaderDoneReads
<1>3. CASE ~(call.phase = "header" /\ s.dataType = {1, 4})
  <2>1. r' = s /\ call' = call /\ pc' = pc
    BY <1>3 DEF Ignored
  <2> QED BY <1>1, <2>1 DEF ReadInv
<1> QED BY <1>2, <1>3

(* There is no packet: the connection is gone, or the read has timed out. *)
LEMMA NoPacketReads ==
  ASSUME NEW s, Goes(s), NEW why \in {EOF, COMPLETE}, NoPacket(s, why), ~s.sock \/ s.timedout
  PROVE  ReadInv'
<1>1. /\ Good(s) /\ Reads(s, call) /\ call # NULL /\ pc = "read"
  BY Zenon DEF Goes
<1>2. /\ s.gap = FALSE /\ call.total \in Nat /\ call.phase \in {"header", "packet"}
      /\ call.phase = "header" => InHeader(s, call)
      /\ call.phase = "packet" => InPacket(s, call)
  BY <1>1, InCall
<1>3. s = [f \in Fields |-> s[f]] /\ BytesTyped(s)
  BY <1>1, GoodTyped
<1>4. why \in -3 .. 0
  BY DEF EOF, COMPLETE
<1>5. CASE call.phase = "header"
  <2>1. PICK t : t = [s EXCEPT !.buf = NULL, !.made = 0, !.status = why]
    OBVIOUS
  <2>2. Return(t, 0)
    BY <1>5, <2>1, Zenon DEF NoPacket, ReturnStatus
  <2>3. /\ Beside(s, t) /\ t.header = s.header /\ t.dataType = s.dataType
        /\ t.status = why /\ t.timestamp = s.timestamp
        /\ t.made = 0 /\ t.given = s.given /\ t.gap = s.gap /\ t.buf = NULL
    BY <1>3, <2>1 DEF Fields, Beside
  <2>4. t.made \in Int /\ (t.buf # NULL => t.header /\ t.buf \in [from : Nat, len : Nat])
    BY <2>3
  <2>5. BytesTyped(t)
    BY <1>3, <1>4, <2>3, <2>4, Zenon DEF BytesTyped
  <2>6. Good(t)
    BY <1>1, <2>3, <2>5, BesideGood
  <2>7. ~t.header /\ t.given = 0
    BY <1>2, <1>5, <2>3 DEF InHeader
  <2>8. ~t.sock \/ t.timedout
    BY <2>3 DEF Beside
  <2>9. 0 \in Nat
    OBVIOUS
  <2>10. CanReturn(t, 0)
    BY <1>2, <2>3, <2>6, <2>7, <2>8, <2>9, Zenon DEF CanReturn
  <2> QED BY <1>1, <2>2, <2>10, ReturnReads
<1>6. CASE call.phase = "packet"
  <2>1. PICK t : t = [s EXCEPT !.status = why]
    OBVIOUS
  <2>2. Return(t, call.total)
    BY <1>6, <2>1 DEF NoPacket
  <2>3. /\ Beside(s, t) /\ t.header = s.header /\ t.dataType = s.dataType
        /\ t.status = why /\ t.timestamp = s.timestamp
        /\ t.made = s.made /\ t.given = s.given /\ t.gap = s.gap /\ t.buf = s.buf
    BY <1>3, <2>1 DEF Fields, Beside
  <2>4. BytesTyped(t)
    BY <1>3, <1>4, <2>3, Zenon DEF BytesTyped
  <2>5. Good(t)
    BY <1>1, <2>3, <2>4, BesideGood
  <2>6. t.given = call.total /\ (t.header => Kept(t))
    BY <1>2, <1>6, <2>3 DEF InPacket, Kept
  <2>7. ~t.sock \/ t.timedout
    BY <2>3 DEF Beside
  <2>8. CanReturn(t, call.total)
    BY <1>2, <2>3, <2>5, <2>6, <2>7, Zenon DEF CanReturn
  <2> QED BY <1>1, <2>2, <2>8, ReturnReads
<1> QED BY <1>2, <1>5, <1>6

(* Handling a message in a call leaves what is read. *)
LEMMA HandlesGoes ==
  ASSUME NEW s, Goes(s), NEW h, Handles(s, h)
  PROVE  Goes(h.s)
<1>1. s.status = 0
  BY InCall DEF Goes
<1>2. Good(h.s) /\ Bytes(s, h.s)
  BY ServesBytes DEF Handles, Safe
<1>3. Reads(h.s, call)
  BY <1>1, <1>2, ReadsServed DEF Goes
<1> QED BY <1>2, <1>3 DEF Goes

(* A message is handled, and its packet read, in a call of RTMP_Read. *)
LEMMA ReadMessageReads ==
  ASSUME NEW s, Goes(s), s.sock, NEW m, IsMessage(m), ReadMessage(s, m)
  PROVE  ReadInv'
<1>1. PICK h : h = NextMedia(s, m)
  OBVIOUS
<1>2. Good(s)
  BY DEF Goes
<1>3. Handles(s, h) /\ (h.media = 1 => m \in Media)
  BY <1>1, <1>2, NextMediaHandles
<1>4. Goes(h.s) /\ Good(h.s)
  BY <1>3, HandlesGoes DEF Goes
<1>5. CASE h.media = 2
  <2>1. NoPacket(h.s, COMPLETE)
    BY <1>1, <1>5 DEF ReadMessage
  <2>2. ~h.s.sock
    BY <1>3, <1>5 DEF Handles
  <2>3. PICK why \in {EOF, COMPLETE} : why = COMPLETE
    OBVIOUS
  <2> QED BY <1>4, <2>1, <2>2, <2>3, NoPacketReads
<1>6. CASE h.media = 1 /\ ~TooSmall(m)
  <2>1. IF call.phase = "header" THEN HeaderPacket(h.s, m) ELSE BodyPacket(h.s, m)
    BY <1>1, <1>6 DEF ReadMessage
  <2>2. m \in Media /\ h.s.sock
    BY <1>3, <1>6 DEF Handles
  <2>3. call.phase \in {"header", "packet"}
    BY <1>4, InCall DEF Goes
  <2>4. CASE call.phase = "header"
    BY <1>4, <2>1, <2>2, <2>4, HeaderPacketReads
  <2>5. CASE call.phase = "packet"
    BY <1>4, <2>1, <2>2, <2>5, BodyPacketReads
  <2> QED BY <2>3, <2>4, <2>5
<1>7. CASE h.media = 1 /\ TooSmall(m)
  <2>1. Ignored(Seen(h.s, m))
    BY <1>1, <1>7 DEF ReadMessage
  <2>2. m \in Media
    BY <1>3, <1>7
  <2>3. PICK t : t = Seen(h.s, m)
    OBVIOUS
  <2>4. /\ Good(t) /\ Beside(h.s, t) /\ t.header = h.s.header /\ t.status = h.s.status
        /\ t.timestamp = h.s.timestamp /\ t.made = h.s.made /\ t.given = h.s.given
        /\ t.gap = h.s.gap /\ t.buf = h.s.buf
    BY <1>4, <2>2, <2>3, SeenFields, Zenon
  <2>5. h.s.status = 0 /\ Bytes(h.s, t)
    BY <1>4, <2>4, InCall DEF Goes, Bytes, Beside
  <2>6. Goes(t)
    BY <1>4, <2>4, <2>5, ReadsServed DEF Goes
  <2> QED BY <2>1, <2>3, <2>6, IgnoredReads
<1>8. CASE h.media \notin {1, 2}
  <2>1. r' = h.s /\ call' = call /\ pc' = pc
    BY <1>1, <1>8 DEF ReadMessage
  <2> QED BY <1>4, <2>1 DEF ReadInv, Goes
<1> QED BY <1>5, <1>6, <1>7, <1>8

-----------------------------------------------------------------------------
(* The invariant. *)

(* What a call of RTMP_Read leaves is the invariant, where a call can be. *)
LEMMA ReadInvSession ==
  ASSUME ReadInv', options' \in OptionSets, gaveUp' \in BOOLEAN
  PROVE  SessionInv'
<1>1. /\ Good(r)' /\ Reads(r, call)' /\ pc' \in {"read", "done"}
      /\ (call # NULL => pc = "read")' /\ (pc = "done" /\ r.sock => r.timedout \/ gaveUp)'
  BY DEF ReadInv
<1> QED BY <1>1 DEF SessionInv

(* The invariant holds of the struct RTMP_Init leaves. *)
LEMMA InitInv == Init => SessionInv
<1> SUFFICES ASSUME Init PROVE SessionInv
  OBVIOUS
<1>1. PICK s : s = [sock |-> FALSE, left |-> 0, streamId |-> 0, playing |-> FALSE,
          pausing |-> 0, calls |-> <<>>, numInvokes |-> 0, bwCheck |-> 0,
          timedout |-> FALSE, mediaStamp |-> 0, unreported |-> 0, header |-> FALSE,
          dataType |-> {}, status |-> 0, timestamp |-> 0, buf |-> NULL, wire |-> <<>>,
          closes |-> 0, made |-> 0, given |-> 0, gap |-> FALSE]
  OBVIOUS
<1>2. r = s /\ options \in OptionSets /\ pc = "connect" /\ call = NULL /\ gaveUp = FALSE
  BY <1>1 DEF Init
<1>3. /\ s = [f \in Fields |-> s[f]]
      /\ s.sock = FALSE /\ s.left = 0 /\ s.streamId = 0 /\ s.pausing = 0
      /\ s.calls = <<>> /\ s.numInvokes = 0 /\ s.timedout = FALSE /\ s.mediaStamp = 0
      /\ s.unreported = 0 /\ s.header = FALSE /\ s.dataType = {} /\ s.status = 0
      /\ s.timestamp = 0 /\ s.buf = NULL /\ s.wire = <<>> /\ s.closes = 0
      /\ s.made = 0 /\ s.given = 0 /\ s.gap = FALSE
  BY <1>1 DEF Fields
<1>4. Typed(s)
  <2>1. s.sock \in BOOLEAN /\ s.header \in BOOLEAN
    BY <1>3
  <2>2. s.timedout \in BOOLEAN /\ s.gap \in BOOLEAN
    BY <1>3
  <2>3. s.left \in Nat \union {Never} /\ s.streamId \in {-1, 0, 1}
    BY <1>3
  <2>4. s.pausing \in 0 .. 3 /\ s.status \in -3 .. 0
    BY <1>3
  <2>5. s.calls \in Seq([name : Commands, num : Nat])
    <3>1. s.calls = <<>>
      BY <1>3
    <3> QED BY <3>1
  <2>8. s.wire \in Seq(Commands)
    <3>1. s.wire = <<>>
      BY <1>3
    <3> QED BY <3>1
  <2>6. s.numInvokes \in Nat /\ s.unreported \in Nat /\ s.timestamp \in Nat
        /\ s.mediaStamp \in Nat
    BY <1>3
  <2>7. s.dataType \subseteq {1, 4}
    BY <1>3
  <2>9. s.made \in Int /\ s.given \in Int
    BY <1>3
  <2> QED BY <1>3, <2>1, <2>2, <2>3, <2>4, <2>5, <2>6, <2>7, <2>8, <2>9, Zenon DEF Typed
<1>5. \A w : ~Sent(s, w) /\ ~Waits(s, w) /\ SentOnce(s, w)
  BY <1>3 DEF Sent, Waits, SentOnce
<1>6. FarewellEnds(s) /\ ClosedOnce(s) /\ Unparted(s) /\ PauseKnown(s) /\ CallsTold(s)
  BY <1>3, <1>5 DEF FarewellEnds, ClosedOnce, Unparted, PauseKnown, CallsTold
<1>7. InOrder(s)
  BY <1>5, Zenon DEF InOrder
<1>8. Good(s)
  BY <1>4, <1>6, <1>7, Zenon DEF Good
<1>9. Reads(s, NULL)
  BY <1>3 DEF Reads, BetweenCalls
<1> QED BY <1>2, <1>3, <1>8, <1>9 DEF SessionInv

(* The connection comes up once, with nothing said. *)
ComesUp(s, t) ==
  /\ Good(t) /\ t.header = s.header /\ t.status = s.status
  /\ t.given = s.given /\ t.gap = s.gap
  /\ ~Sent(t, "connect")

(* The socket is open; nothing was said over it. *)
LEMMA UpGood ==
  ASSUME NEW s, Good(s), s.wire = <<>>, s.closes = 0, s.calls = <<>>, s.pausing = 0,
         NEW n, n \in Nat \union {Never}, NEW t, t = [s EXCEPT !.sock = TRUE, !.left = n]
  PROVE  ComesUp(s, t)
<1>1. s = [f \in Fields |-> s[f]] /\ Typed(s)
  BY Zenon DEF Good, Typed
<1>2. /\ t = [f \in Fields |-> t[f]]
      /\ t.sock = TRUE /\ t.left = n /\ t.calls = s.calls /\ t.wire = s.wire
      /\ t.numInvokes = s.numInvokes /\ t.closes = s.closes
      /\ t.header = s.header /\ t.status = s.status /\ t.timestamp = s.timestamp
      /\ t.buf = s.buf /\ t.made = s.made /\ t.given = s.given /\ t.gap = s.gap
      /\ t.pausing = s.pausing /\ t.timedout = s.timedout
      /\ t.unreported = s.unreported /\ t.mediaStamp = s.mediaStamp
      /\ t.dataType = s.dataType /\ t.streamId = s.streamId
  BY <1>1 DEF Fields
<1>3. t.sock \in BOOLEAN
  BY <1>2
<1>4. Typed(t)
  BY <1>1, <1>2, <1>3, Zenon DEF Typed
<1>5. \A w : ~Sent(t, w) /\ ~Waits(t, w) /\ SentOnce(t, w)
  BY <1>2 DEF Sent, Waits, SentOnce
<1>6. FarewellEnds(t) /\ ClosedOnce(t) /\ Unparted(t) /\ CallsTold(t)
  BY <1>2, <1>5 DEF FarewellEnds, ClosedOnce, Unparted, CallsTold
<1>7. PauseKnown(t)
  <2>1. ~AskedToPause(t)
    BY <1>5, Zenon DEF AskedToPause, Sent
  <2> QED BY <2>1, <1>2 DEF PauseKnown
<1>8. InOrder(t)
  BY <1>5, Zenon DEF InOrder
<1> QED BY <1>2, <1>4, <1>5, <1>6, <1>7, <1>8, Zenon DEF Good, ComesUp

(* Connecting keeps the invariant: connect is the first request. *)
LEMMA ConnectInv ==
  ASSUME SessionInv, Connect
  PROVE  SessionInv'
<1>1. /\ Good(r) /\ Reads(r, call) /\ options \in OptionSets /\ pc = "connect"
      /\ call = NULL /\ ~r.sock /\ r.wire = <<>> /\ r.closes = 0 /\ r.calls = <<>>
      /\ r.pausing = 0 /\ ~r.header /\ r.status = 0
  BY DEF SessionInv, Connect
<1>2. options' = options /\ call' = NULL /\ gaveUp' \in BOOLEAN
  BY <1>1 DEF SessionInv, Connect
<1>3. r.gap = FALSE /\ r.given = 0
  BY <1>1 DEF Reads, BetweenCalls
<1>4. PICK s : s = r
  OBVIOUS
<1>4a. Good(s) /\ s.wire = <<>> /\ s.closes = 0 /\ s.calls = <<>> /\ s.pausing = 0
  BY <1>1, <1>4
<1>5. \A t, u : /\ t.gap = FALSE /\ t.given = 0 /\ ~t.header /\ t.status = 0
                /\ Serves(t, u)
                => Reads(u, NULL) /\ ~u.header /\ u.status = 0
  BY DEF Serves, Reads, BetweenCalls
<1>6. CASE r' = r /\ pc' = "done"
  BY <1>1, <1>2, <1>6 DEF SessionInv
<1>7. CASE r' = Close([r EXCEPT !.sock = TRUE]) /\ pc' = "done"
  <2>1. PICK t : t = [s EXCEPT !.sock = TRUE]
    OBVIOUS
  <2>2. PICK n \in Nat \union {Never} : n = s.left
    BY <1>1, <1>4, Zenon DEF Good, Typed
  <2>3. t = [s EXCEPT !.sock = TRUE, !.left = n]
    <3>1. s = [f \in Fields |-> s[f]]
      BY <1>1, <1>4, GoodTyped
    <3> QED BY <2>1, <2>2, <3>1 DEF Fields
  <2>4. /\ Good(t) /\ t.header = s.header /\ t.status = s.status
        /\ t.given = s.given /\ t.gap = s.gap
    <3>1. n \in Nat \union {Never}
      OBVIOUS
    <3>2. ComesUp(s, t)
      BY <1>4a, <2>3, <3>1, UpGood, Zenon
    <3> QED BY <3>2, Zenon DEF ComesUp
  <2>5. PICK u : u = Close(t)
    OBVIOUS
  <2>6. Good(u) /\ Serves(t, u) /\ ~u.sock
    BY <2>4, <2>5, CloseKeeps DEF Keeps
  <2>7. Reads(u, NULL)
    BY <1>1, <1>3, <1>4, <1>5, <2>4, <2>6
  <2>8. r' = u /\ pc' = "done"
    BY <1>4, <1>7, <2>1, <2>5
  <2> QED BY <1>1, <1>2, <2>6, <2>7, <2>8 DEF SessionInv
<1>8. ASSUME NEW n \in Breaks, NEW server \in Servers,
             LET up == [r EXCEPT !.sock = TRUE, !.left = n, !.pausing = 0]
                 u  == IF HandShake(server) THEN SendConnectPacket(up) ELSE Close(up)
             IN  r' = u /\ pc' = IF u.sock THEN "stream" ELSE "done"
      PROVE  SessionInv'
  <2>1. PICK t : t = [s EXCEPT !.sock = TRUE, !.left = n]
    OBVIOUS
  <2>2. t = [s EXCEPT !.sock = TRUE, !.left = n, !.pausing = 0]
    <3>1. s = [f \in Fields |-> s[f]] /\ s.pausing = 0
      BY <1>1, <1>4, GoodTyped
    <3> QED BY <2>1, <3>1 DEF Fields
  <2>3. n \in Nat \union {Never}
    BY SessionAssumption
  <2>4. /\ Good(t) /\ t.header = s.header /\ t.status = s.status
        /\ t.given = s.given /\ t.gap = s.gap /\ ~Sent(t, "connect")
    <3>1. ComesUp(s, t)
      BY <1>4a, <2>1, <2>3, UpGood, Zenon
    <3> QED BY <3>1, Zenon DEF ComesUp
  <2>5. PICK u : u = IF HandShake(server) THEN SendConnectPacket(t) ELSE Close(t)
    OBVIOUS
  <2>6. r' = u /\ pc' = IF u.sock THEN "stream" ELSE "done"
    BY <1>4, <1>8, <2>2, <2>5
  <2>7. Safe(t, u)
    <3>1. Safe(t, SendConnectPacket(t))
      BY <2>4, SendConnectPacketKeeps, KeepsSafe
    <3>2. Safe(t, Close(t))
      BY <2>4, CloseKeeps, KeepsSafe
    <3> QED BY <2>5, <3>1, <3>2
  <2>8. Good(u) /\ Reads(u, NULL) /\ ~u.header /\ u.status = 0
    BY <1>1, <1>3, <1>4, <1>5, <2>4, <2>7 DEF Safe
  <2> QED BY <1>1, <1>2, <2>6, <2>8 DEF SessionInv
<1> QED BY <1>6, <1>7, <1>8 DEF Connect

(* What the server may send is a message. *)
LEMMA InboundMessage ==
  ASSUME NEW m \in Inbound
  PROVE  IsMessage(m)
BY DEF Inbound, IsMessage

(* A message keeps the invariant, before and during the reading. *)
LEMMA ReceiveInv ==
  ASSUME SessionInv, Receive
  PROVE  SessionInv'
<1>1. /\ Good(r) /\ Reads(r, call) /\ options \in OptionSets
      /\ pc = "stream" \/ (pc = "read" /\ call # NULL)
      /\ pc = "stream" => call = NULL /\ ~r.header /\ r.status = 0
  BY DEF SessionInv, Receive, Listening
<1>2. options' = options /\ gaveUp' \in BOOLEAN
  BY DEF SessionInv, Receive
<1>3. PICK s : s = Counted(r)
  OBVIOUS
<1>4. Good(s) /\ Bytes(r, s)
  BY <1>1, <1>3, CountedBytes
<1>5. r.status = 0
  BY <1>1, InCall
<1>6. Reads(s, call) /\ s.status = 0
  BY <1>1, <1>4, <1>5, ReadsServed
<1>7. PICK m \in Inbound :
        \/ ~s.sock /\ pc = "stream" /\ r' = s /\ pc' = "done" /\ UNCHANGED call
        \/ ~s.sock /\ pc = "read" /\ NoPacket(s, EOF)
        \/ s.sock /\ pc = "stream" /\ StreamMessage(s, m)
        \/ s.sock /\ pc = "read" /\ ReadMessage(s, m)
  BY <1>3, Zenon DEF Receive
<1>8. IsMessage(m)
  BY InboundMessage
<1>9. CASE ~s.sock /\ pc = "stream" /\ r' = s /\ pc' = "done" /\ UNCHANGED call
  BY <1>1, <1>2, <1>4, <1>6, <1>9 DEF SessionInv
<1>10. CASE ~s.sock /\ pc = "read" /\ NoPacket(s, EOF)
  <2>1. Goes(s)
    BY <1>1, <1>4, <1>6, <1>10 DEF Goes
  <2>2. PICK why \in {EOF, COMPLETE} : why = EOF
    OBVIOUS
  <2>3. ReadInv'
    BY <1>10, <2>1, <2>2, NoPacketReads
  <2> QED BY <1>1, <1>2, <2>3, ReadInvSession
<1>11. CASE s.sock /\ pc = "stream" /\ StreamMessage(s, m)
  <2>1. PICK t : t = IF m.type \in {"audio", "video", "piece", "info"} THEN s
                     ELSE ClientPacket(s, m).s
    OBVIOUS
  <2>2. /\ r' = t /\ call' = call
        /\ pc' = CASE t.playing  -> "read"
                   [] t.sock     -> "stream"
                   [] OTHER      -> "done"
    BY <1>11, <2>1, Zenon DEF StreamMessage
  <2>3. Good(t) /\ Serves(s, t)
    <3>1. Safe(s, ClientPacket(s, m).s)
      BY <1>4, <1>8, ClientPacketHandles DEF Handles
    <3>2. Safe(s, s)
      BY <1>4, SafeSame
    <3> QED BY <2>1, <3>1, <3>2 DEF Safe
  <2>4. Reads(t, call) /\ t.status = 0
    BY <1>6, <2>3, ServesBytes, ReadsServed
  <2>5. ~t.header
    <3>1. ~s.header
      BY <1>1, <1>4, <1>11 DEF Bytes
    <3> QED BY <3>1, <2>3 DEF Serves
  <2>6. call = NULL
    BY <1>1, <1>11
  <2>7. pc' \in {"read", "stream", "done"} /\ (pc' = "done" => ~t.sock)
    BY <2>2
  <2> QED BY <1>1, <1>2, <2>2, <2>3, <2>4, <2>5, <2>6, <2>7 DEF SessionInv
<1>12. CASE s.sock /\ pc = "read" /\ ReadMessage(s, m)
  <2>1. Goes(s)
    BY <1>1, <1>4, <1>6, <1>12 DEF Goes
  <2>2. ReadInv'
    BY <1>8, <1>12, <2>1, ReadMessageReads
  <2> QED BY <1>1, <1>2, <2>2, ReadInvSession
<1> QED BY <1>7, <1>9, <1>10, <1>11, <1>12

(* A read that fails keeps the invariant. *)
LEMMA ReceiveFailsInv ==
  ASSUME SessionInv, ReceiveFails
  PROVE  SessionInv'
<1>1. /\ Good(r) /\ Reads(r, call) /\ options \in OptionSets
      /\ pc = "stream" \/ (pc = "read" /\ call # NULL)
      /\ pc = "stream" => call = NULL /\ ~r.header /\ r.status = 0
  BY DEF SessionInv, ReceiveFails, Listening
<1>2. options' = options /\ gaveUp' \in BOOLEAN
  BY DEF SessionInv, ReceiveFails
<1>3. r.status = 0
  BY <1>1, InCall
<1>4. PICK why \in {"timeout", "closed"} :
        LET s == ReadFails(r, why)
        IN  IF pc = "stream" THEN r' = s /\ pc' = "done" /\ UNCHANGED call
                             ELSE NoPacket(s, EOF)
  BY Zenon DEF ReceiveFails
<1>5. PICK s : s = ReadFails(r, why)
  OBVIOUS
<1>6. Good(s) /\ Bytes(r, s) /\ (~s.sock \/ s.timedout)
  BY <1>1, <1>5, ReadFailsBytes
<1>7. Reads(s, call) /\ s.status = 0
  BY <1>1, <1>3, <1>6, ReadsServed
<1>8. CASE pc = "stream"
  <2>1. r' = s /\ pc' = "done" /\ call' = call
    BY <1>4, <1>5, <1>8
  <2> QED BY <1>1, <1>2, <1>6, <1>7, <1>8, <2>1 DEF SessionInv
<1>9. CASE pc = "read" /\ call # NULL
  <2>1. NoPacket(s, EOF)
    BY <1>4, <1>5, <1>9
  <2>2. Goes(s)
    BY <1>6, <1>7, <1>9 DEF Goes
  <2>3. PICK end \in {EOF, COMPLETE} : end = EOF
    OBVIOUS
  <2>4. ReadInv'
    BY <1>6, <2>1, <2>2, <2>3, NoPacketReads
  <2> QED BY <1>1, <1>2, <2>4, ReadInvSession
<1> QED BY <1>1, <1>8, <1>9

(* A call that finds no connection keeps the invariant. *)
LEMMA DisconnectedInv ==
  ASSUME SessionInv, Disconnected
  PROVE  SessionInv'
<1>1. /\ Good(r) /\ Reads(r, call) /\ options \in OptionSets /\ ~r.sock /\ pc = "read"
      /\ call # NULL /\ NoPacket(r, EOF) /\ options' = options /\ gaveUp' \in BOOLEAN
  BY DEF SessionInv, Disconnected
<1>2. Goes(r)
  BY <1>1 DEF Goes
<1>3. PICK end \in {EOF, COMPLETE} : end = EOF
  OBVIOUS
<1>4. ReadInv'
  BY <1>1, <1>2, <1>3, NoPacketReads
<1> QED BY <1>1, <1>4, ReadInvSession

(* A new call of RTMP_Read keeps the invariant. *)
LEMMA CallReadInv ==
  ASSUME SessionInv, NEW size \in ReadSizes, CallRead(size)
  PROVE  SessionInv'
<1>1. /\ Good(r) /\ Reads(r, NULL) /\ options \in OptionSets /\ pc = "read" /\ call = NULL
      /\ options' = options /\ gaveUp' = (size = 0 /\ r.status = 0) /\ gaveUp' \in BOOLEAN
      /\ size = 0 => r.header \/ r.status # 0
  BY DEF SessionInv, CallRead
<1>2. size \in Nat
  BY SessionAssumption
<1>3. PICK s : s = r
  OBVIOUS
<1>4. /\ Good(s) /\ s.gap = FALSE /\ s.given = 0
      /\ s.header => Kept(s)
      /\ s.status # 0 => ~s.sock \/ s.timedout
  BY <1>1, <1>3 DEF Reads, BetweenCalls, Kept
<1>5. s = [f \in Fields |-> s[f]] /\ BytesTyped(s)
  BY <1>4, GoodTyped
<1>6. CASE s.status # 0
  <2>1. Return(s, 0)
    BY <1>3, <1>6 DEF CallRead, ReturnStatus
  <2>2. CanReturn(s, 0)
    BY <1>4, <1>6 DEF CanReturn
  <2>3. ReadInv'
    BY <1>1, <2>1, <2>2, ReturnReads
  <2> QED BY <1>1, <2>3, ReadInvSession
<1>7. CASE s.status = 0 /\ ~s.header
  <2>1. PICK t : t = [s EXCEPT !.made = 13]
    OBVIOUS
  <2>2. /\ Beside(s, t) /\ t.header = s.header /\ t.dataType = s.dataType
        /\ t.status = s.status /\ t.timestamp = s.timestamp
        /\ t.made = 13 /\ t.given = s.given /\ t.gap = s.gap /\ t.buf = s.buf
        /\ t = [f \in Fields |-> t[f]]
    BY <1>5, <2>1 DEF Fields, Beside
  <2>3. t.made \in Int /\ t.made \in Nat
    BY <2>2
  <2>4. BytesTyped(t)
    BY <1>5, <2>2, <2>3, Zenon DEF BytesTyped
  <2>5. Good(t)
    BY <1>4, <2>2, <2>4, BesideGood
  <2>6. CASE s.timestamp = 0
    <3>1. PICK c : c = [phase |-> "header", size |-> size, total |-> 0, room |-> HeaderBuf - 13]
      OBVIOUS
    <3>2. r' = t /\ call' = c /\ pc' = pc
      BY <1>3, <1>7, <2>1, <2>6, <3>1 DEF CallRead
    <3>3. /\ c \in [phase : {"header"}, size : Nat \ {0}, total : Nat, room : Int]
          /\ c.phase = "header" /\ c.total = 0
      <4>1. HeaderBuf - 13 \in Int
        BY SessionAssumption
      <4>2. size # 0
        BY <1>1, <1>3, <1>7
      <4> QED BY <1>2, <3>1, <4>1, <4>2
    <3>4. c # NULL
      <4>1. c \in [phase : {"header"}, size : Int, total : Int, room : Int]
        BY <3>3
      <4> QED BY <4>1, SessionAssumption
    <3>5. InHeader(t, c) /\ IsCall(c)
      BY <1>4, <1>7, <2>2, <2>3, <3>3 DEF InHeader, IsCall
    <3>6. Reads(t, c)
      BY <1>4, <1>7, <2>2, <3>3, <3>4, <3>5, Zenon DEF Reads
    <3> QED BY <1>1, <2>5, <3>2, <3>6 DEF SessionInv
  <2>7. CASE s.timestamp # 0
    <3>1. PICK u : u = [t EXCEPT !.header = TRUE, !.buf = [from |-> 0, len |-> 13]]
      OBVIOUS
    <3>2. ReadOn(u, size)
      BY <1>3, <1>7, <2>1, <2>7, <3>1 DEF CallRead
    <3>3. /\ Beside(t, u) /\ u.header /\ u.dataType = t.dataType /\ u.status = t.status
          /\ u.timestamp = t.timestamp /\ u.made = t.made /\ u.given = t.given
          /\ u.gap = t.gap /\ u.buf = [from |-> 0, len |-> 13] /\ u.header \in BOOLEAN
      BY <2>2, <3>1 DEF Fields, Beside
    <3>4. u.buf \in [from : Nat, len : Nat]
      BY <3>3
    <3>5. BytesTyped(u)
      BY <2>4, <3>3, <3>4, Zenon DEF BytesTyped
    <3>6. Good(u)
      BY <2>5, <3>3, <3>5, BesideGood
    <3>7. Kept(u)
      <4>1. u.buf # NULL
        <5>1. u.buf \in [from : Int, len : Int]
          BY <3>3
        <5> QED BY <5>1, SessionAssumption
      <4> QED BY <4>1, <2>2, <3>3 DEF Kept
    <3>8. Ahead(u)
      BY <1>4, <1>7, <2>2, <3>3, <3>6, <3>7, Zenon DEF Ahead
    <3>9. ReadInv'
      <4>1. size = 0 => gaveUp'
        BY <1>1, <1>3, <1>7
      <4> QED BY <1>1, <1>2, <3>2, <3>8, <4>1, ReadOnReads
    <3> QED BY <1>1, <3>9, ReadInvSession
  <2> QED BY <2>6, <2>7
<1>8. CASE s.status = 0 /\ s.header
  <2>1. ReadOn(s, size)
    BY <1>3, <1>8 DEF CallRead
  <2>2. Ahead(s)
    BY <1>4, <1>8, Zenon DEF Ahead
  <2>3. ReadInv'
    <3>1. size = 0 => gaveUp'
      BY <1>1, <1>3, <1>8
    <3> QED BY <1>1, <1>2, <2>1, <2>2, <3>1, ReadOnReads
  <2> QED BY <1>1, <2>3, ReadInvSession
<1> QED BY <1>6, <1>7, <1>8

(* Every step keeps the invariant. *)
LEMMA NextInv ==
  ASSUME SessionInv, [Next]_vars
  PROVE  SessionInv'
<1>1. CASE Connect
  BY <1>1, ConnectInv
<1>2. CASE Receive
  BY <1>2, ReceiveInv
<1>3. CASE ReceiveFails
  BY <1>3, ReceiveFailsInv
<1>4. CASE Disconnected
  BY <1>4, DisconnectedInv
<1>5. CASE \E size \in ReadSizes : CallRead(size)
  BY <1>5, CallReadInv
<1>6. CASE GiveUp
  BY <1>6 DEF GiveUp, SessionInv
<1>7. CASE UNCHANGED vars
  BY <1>7 DEF vars, SessionInv
<1> QED BY <1>1, <1>2, <1>3, <1>4, <1>5, <1>6, <1>7 DEF Next

(* The invariant holds in every state the client reaches. *)
THEOREM SessionInvariant == Spec => []SessionInv
BY InitInv, NextInv, PTL DEF Spec

-----------------------------------------------------------------------------
(* The properties. *)

(* What is sent once at most is counted. *)
LEMMA CountedOnce ==
  ASSUME NEW w, SentOnce(r, w)
  PROVE  Times(w) = IF Sent(r, w) THEN 1 ELSE 0
<1>1. PICK S : S = {i \in DOMAIN r.wire : r.wire[i] = w}
  OBVIOUS
<1>2. CASE Sent(r, w)
  <2>1. PICK i \in DOMAIN r.wire : r.wire[i] = w
    BY <1>2 DEF Sent
  <2>2. S = {i}
    BY <1>1, <2>1 DEF SentOnce
  <2>3. Cardinality(S) = 1
    BY <2>2, FS_Singleton
  <2> QED BY <1>1, <1>2, <2>3 DEF Times
<1>3. CASE ~Sent(r, w)
  <2>1. S = {}
    BY <1>1, <1>3 DEF Sent
  <2>2. Cardinality(S) = 0
    BY <2>1, FS_EmptySet
  <2> QED BY <1>1, <1>3, <2>2 DEF Times
<1> QED BY <1>2, <1>3

(* TypeOK follows from the invariant. *)
LEMMA InvTypeOK ==
  ASSUME SessionInv
  PROVE  TypeOK
<1>1. Typed(r) /\ ClosedOnce(r) /\ Reads(r, call)
  BY DEF SessionInv, Good
<1>2. options \in OptionSets /\ pc \in {"connect", "stream", "read", "done"}
  BY DEF SessionInv
<1>3. r.streamId \in {-1, 0, 1} /\ r.pausing \in 0 .. 3 /\ r.status \in -3 .. 0
  BY <1>1, Zenon DEF Typed
<1>4. r.calls \in Seq([name : Commands, num : Nat]) /\ r.wire \in Seq(Commands)
  BY <1>1, Zenon DEF Typed
<1>5. r.numInvokes \in Nat /\ r.unreported \in Nat /\ r.timestamp \in Nat
      /\ r.mediaStamp \in Nat /\ r.dataType \subseteq {1, 4}
  BY <1>1, Zenon DEF Typed
<1>6. {r.numInvokes, r.unreported, r.timestamp, r.mediaStamp} \subseteq Nat
  BY <1>5
<1>7. r.closes \in Nat
  BY <1>1 DEF ClosedOnce
<1>8. r.buf # NULL => r.buf.from \in Nat /\ r.buf.len \in Nat
  <2>1. r.buf # NULL => r.buf \in [from : Nat, len : Nat]
    BY <1>1, Zenon DEF Typed
  <2> QED BY <2>1
<1>9. call # NULL => /\ pc = "read"
                     /\ call.phase \in {"header", "packet"}
                     /\ call.size > 0
  <2> SUFFICES ASSUME call # NULL
               PROVE  pc = "read" /\ call.phase \in {"header", "packet"} /\ call.size > 0
    OBVIOUS
  <2>1. call.size \in Nat \ {0} /\ call.phase \in {"header", "packet"}
    BY <1>1, InCall
  <2>2. pc = "read"
    BY DEF SessionInv
  <2> QED BY <2>1, <2>2
<1>10. gaveUp \in BOOLEAN
  BY DEF SessionInv
<1> QED BY <1>2, <1>3, <1>4, <1>5, <1>6, <1>7, <1>8, <1>9, <1>10, Zenon DEF TypeOK

(* EachAnswerOnce follows from the invariant. *)
LEMMA InvEachAnswerOnce ==
  ASSUME SessionInv
  PROVE  EachAnswerOnce
<1>1. InOrder(r) /\ CallsTold(r)
  BY DEF SessionInv, Good
<1>2. \A w \in Chained : Times(w) = IF Sent(r, w) THEN 1 ELSE 0
  BY <1>1, CountedOnce DEF InOrder
<1>3. /\ Times("connect") = IF Sent(r, "connect") THEN 1 ELSE 0
      /\ Times("createStream") = IF Sent(r, "createStream") THEN 1 ELSE 0
      /\ Times("play") = IF Sent(r, "play") THEN 1 ELSE 0
  BY <1>2 DEF Chained
<1>4. /\ Sent(r, "createStream") => Sent(r, "connect")
      /\ Sent(r, "play") => Sent(r, "createStream")
  BY <1>1, Zenon DEF InOrder
<1>5. /\ Times("connect") <= 1 /\ Times("createStream") <= Times("connect")
      /\ Times("play") <= Times("createStream")
  BY <1>3, <1>4
<1>6. \A i, j \in DOMAIN r.calls : r.calls[i].num = r.calls[j].num => i = j
  BY <1>1, Zenon DEF CallsTold
<1>7. \A i \in DOMAIN r.calls : r.calls[i].name \in ToSet(r.wire)
  <2> TAKE i \in DOMAIN r.calls
  <2>1. Sent(r, r.calls[i].name)
    BY <1>1, Zenon DEF CallsTold
  <2> QED BY <2>1 DEF Sent, ToSet
<1> QED BY <1>5, <1>6, <1>7 DEF EachAnswerOnce

(* FarewellIsLast follows from the invariant. *)
LEMMA InvFarewellIsLast ==
  ASSUME SessionInv
  PROVE  FarewellIsLast
<1>1. FarewellEnds(r) /\ Unparted(r) /\ ClosedOnce(r) /\ Typed(r)
  BY DEF SessionInv, Good
<1>2. SentOnce(r, "deleteStream")
  BY <1>1, Zenon DEF FarewellEnds, SentOnce
<1>3. Times("deleteStream") = IF Sent(r, "deleteStream") THEN 1 ELSE 0
  BY <1>2, CountedOnce
<1>4. Times("deleteStream") <= 1 /\ (Times("deleteStream") = 1 => ~r.sock)
  <2>1. CASE Sent(r, "deleteStream")
    BY <2>1, <1>1, <1>3 DEF Unparted
  <2>2. CASE ~Sent(r, "deleteStream")
    BY <2>2, <1>3
  <2> QED BY <2>1, <2>2
<1>5. r.closes <= 1
  BY <1>1 DEF ClosedOnce
<1> QED BY <1>1, <1>4, <1>5, Zenon DEF FarewellIsLast, FarewellEnds

(* PauseIsKnown follows from the invariant. *)
LEMMA InvPauseIsKnown ==
  ASSUME SessionInv
  PROVE  PauseIsKnown
BY Zenon DEF SessionInv, Good, PauseKnown, PauseIsKnown

(* ReadIsWhole follows from the invariant. *)
LEMMA InvReadIsWhole ==
  ASSUME SessionInv
  PROVE  ReadIsWhole
<1>1. Reads(r, call) /\ Typed(r)
  BY DEF SessionInv, Good
<1>2. ~r.gap
  BY <1>1 DEF Reads
<1>3. call = NULL => BetweenCalls(r)
  BY <1>1, Zenon DEF Reads
<1>4. call = NULL /\ r.header => r.made = (IF r.buf = NULL THEN 0 ELSE r.buf.len)
  BY <1>3 DEF BetweenCalls
<1>5. r.buf # NULL /\ r.header => r.buf.from = 0
  <2>1. CASE call = NULL
    BY <2>1, <1>3 DEF BetweenCalls
  <2>2. CASE call # NULL
    BY <2>2, <1>1, InCall DEF InHeader, InPacket
  <2> QED BY <2>1, <2>2
<1> QED BY <1>2, <1>4, <1>5 DEF ReadIsWhole

(* LossClosesSocket follows from the invariant. *)
LEMMA InvLossClosesSocket ==
  ASSUME SessionInv
  PROVE  LossClosesSocket
BY Zenon DEF SessionInv, LossClosesSocket

(* TypeOK: the struct, the getter's place and the call in progress keep    *)
(* their types.                                                            *)
THEOREM TypeCorrect == Spec => []TypeOK
BY SessionInvariant, InvTypeOK, PTL

(* EachAnswerOnce: connect, createStream and play are sent once at most    *)
(* and in this order, whatever results the server repeats or makes up,     *)
(* and what waits for a result waits under a number of its own             *)
(* (HandleInvoke, rtmp.c:2942-3020).                                       *)
THEOREM EachAnswerOnceCorrect == Spec => []EachAnswerOnce
BY SessionInvariant, InvEachAnswerOnce, PTL

(* FarewellIsLast: deleteStream is sent once at most, nothing follows it,  *)
(* and the socket is closed once, through every nesting of a failed write  *)
(* in a close (RTMP_Close, WriteN, rtmp.c:1544, 4128-4152).                *)
THEOREM FarewellIsLastCorrect == Spec => []FarewellIsLast
BY SessionInvariant, InvFarewellIsLast, PTL

(* PauseIsKnown: while connected, the pause flag says what the server was  *)
(* asked for last (rtmp.c:3174-3181, 3390-3395, 3449-3465).               *)
THEOREM PauseIsKnownCorrect == Spec => []PauseIsKnown
BY SessionInvariant, InvPauseIsKnown, PTL

(* ReadIsWhole: RTMP_Read gives every byte of the stream once, in order,   *)
(* and as many as it returns, for packets, buffers and read sizes of any   *)
(* size (rtmp.c:4955-5086).                                                *)
THEOREM ReadIsWholeCorrect == Spec => []ReadIsWhole
BY SessionInvariant, InvReadIsWhole, PTL

(* LossClosesSocket: a getter that ends with its socket open has had a     *)
(* read that timed out, a full buffer, or given up on its own (rtmp.c:1423,*)
(* 1456; thread.c:229-338, 561-566).                                       *)
THEOREM LossClosesSocketCorrect == Spec => []LossClosesSocket
BY SessionInvariant, InvLossClosesSocket, PTL

=============================================================================
