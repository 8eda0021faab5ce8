--------------------------- MODULE PieceAssembler ---------------------------
(***************************************************************************)
(* How rtmp_getter (thread.c) makes pieces of the FLV tags it reads.       *)
(*                                                                         *)
(* Between the tags of media the server sends piece tags.  One says how    *)
(* many bytes of media the piece that it closes holds, and how many of     *)
(* those that came last (offset) belong to the next one.  The getter reads *)
(* into the buffer of a piece until a piece tag is in it; that tag's       *)
(* piece is what is before it but for the offset, and what is left over    *)
(* is copied to the buffer of the next.                                    *)
(*                                                                         *)
(* A byte of media is its number in the server's stream; the bytes of a    *)
(* tag's header and the size that follows a tag are units, too.  What      *)
(* becomes of a finished piece is in BlockRing and BlockStreaming, what    *)
(* RTMP_Read does in RtmpSession.                                          *)
(***************************************************************************)
EXTENDS Integers, Sequences, SequencesExt, FiniteSetsExt

CONSTANTS
  Room,        \* what the buffer of a piece holds
  Header,      \* sizeof(struct flv_tag_header)
  Sizes,       \* how much media a tag can have
  MaxMedia,    \* bound: the media the server sends
  MaxPieces,   \* bound: the piece tags it sends
  MaxTags,     \* how many tags a packet can have
  NULL

ASSUME PieceAssemblerAssumption == Header \in Nat \ {0, 1} /\ Sizes \subseteq Nat \ {0} /\ Room \in Nat

VARIABLES
  inbox,       \* what RTMP_Read can return at once
  piece,       \* the piece being filled
  isFirst,     \* is_first: the file header is still to be skipped
  lost,        \* lost_tag
  out,         \* the piece that was finished last
  ended,       \* why rtmp_getter has returned, or NULL
  destroyed,   \* how often it has called destroy_item
  server       \* the media sent, its last piece's end, the pieces, what was lost

vars == <<inbox, piece, isFirst, lost, out, ended, destroyed, server>>

-----------------------------------------------------------------------------
(* Units. *)

FileHeader    == [k |-> "file"]
HeaderOf(n, pt) == <<[k |-> "head", n |-> n, pt |-> pt]>> \o [i \in 1 .. Header - 1 |-> [k |-> "rest"]]
SizeOf(n)     == [k |-> "size", n |-> Header + n]
MediaOf(a, b) == [i \in 1 .. b - a |-> [k |-> "media", no |-> a + i]]

MediaTag(a, b) == HeaderOf(b - a, NULL) \o MediaOf(a, b) \o <<SizeOf(b - a)>>
PieceTag(pt)   == HeaderOf(1, pt) \o <<[k |-> "piece"], SizeOf(1)>>

Total(b, i) == Header + b[i].n + 1

(* The media among units. *)
Media(b) == LET m == SelectSeq(b, LAMBDA u : u.k = "media") IN [i \in DOMAIN m |-> m[i].no]

-----------------------------------------------------------------------------
(* malloc_piece and what the getter sets in it: unparsed is where what has *)
(* been copied but not looked at begins, or 0.                             *)
NewPiece == [buf |-> <<>>, data |-> 1, unparsed |-> 0]

Init == /\ inbox = <<FileHeader>>
        /\ piece = NewPiece
        /\ isFirst = TRUE
        /\ lost = FALSE
        /\ out = NULL
        /\ ended = NULL
        /\ destroyed = 0
        /\ server = [sent |-> 0, end |-> 0, pieces |-> 0, gone |-> {}]

-----------------------------------------------------------------------------
(* The server. *)

(* One more tag for a packet that is being put together: the packet, and   *)
(* the server after it.  Media may also be lost on the way to it, and the  *)
(* end of a piece be said to be ahead, which it may not.                   *)
MoreTags(packet, s) ==
  { [tags |-> packet \o MediaTag(s.sent, s.sent + n), s |-> [s EXCEPT !.sent = @ + n]] :
      n \in {n \in Sizes : s.sent + n <= MaxMedia} }
  \union
  { [tags |-> packet, s |-> [s EXCEPT !.sent = @ + n, !.gone = @ \union (s.sent + 1 .. s.sent + n)]] :
      n \in {n \in Sizes : s.sent + n <= MaxMedia /\ s.gone = {}} }
  \union
  { [tags |-> packet \o PieceTag([ahead |-> FALSE, key |-> key, offset |-> offset,
                                  said |-> s.sent - offset - s.end, from |-> s.end]),
     s    |-> [s EXCEPT !.end = s.sent - offset, !.pieces = @ + 1]] :
      key \in BOOLEAN, offset \in IF s.pieces < MaxPieces THEN 0 .. s.sent - s.end ELSE {} }
  \union
  { [tags |-> packet \o PieceTag([ahead |-> TRUE, key |-> FALSE, offset |-> 0, said |-> 0, from |-> 0]),
     s    |-> s] }

(* RTMP_Read takes a packet when it has nothing left of the one before.    *)
(* The first comes after the file header.                                  *)
Send ==
  /\ ended = NULL /\ piece.unparsed = 0 /\ inbox \in {<<>>, <<FileHeader>>}
  /\ \E n \in 1 .. MaxTags :
       LET packets[m \in 0 .. n] ==
             IF m = 0 THEN {[tags |-> inbox, s |-> server]}
             ELSE LET shorter == packets[m - 1]
                  IN  UNION {MoreTags(p.tags, p.s) : p \in shorter}
       IN  \E p \in packets[n] : inbox' = p.tags /\ server' = p.s
  /\ UNCHANGED <<piece, isFirst, lost, out, ended, destroyed>>

-----------------------------------------------------------------------------
(* destroy_item and return. *)
End(why, times) == ended' = why /\ destroyed' = destroyed + times

GoOn(next) == /\ piece' = next
              /\ UNCHANGED <<ended, destroyed>>

(* The tags of the buffer b from start on, up to the first piece tag: its  *)
(* place, or the end of the buffer, or 0 when the last tag is not whole.   *)
FirstPieceTag(b, start) ==
  LET from[i \in start .. Len(b) + Header] ==
        IF i > Len(b) THEN i
        ELSE IF b[i].k # "head" THEN 0
        ELSE IF i + Total(b, i) - 1 > Len(b) THEN 0
        ELSE IF b[i].pt # NULL THEN i
        ELSE from[i + Total(b, i)]
  IN  from[start]

(* Fault: all of a tag's media is counted, though part of it has gone with *)
(* the piece before.                                                       *)
FaultMediaBefore(p, i) == p.buf[i].n - Header

(* The media of a tag whose size is at i that is in the piece. *)
MediaBefore(p, i) == Min({p.buf[i].n - Header, i - p.data})

(* From the piece tag at s back through the tags before it, by their       *)
(* sizes: where the last offset bytes of media begin (cut), and how much   *)
(* media is before that (length).                                          *)
WalkBack(p, s, offset) ==
  LET sizes == SelectSeq([i \in 1 .. s - 1 |-> s - i], LAMBDA i : i > p.data /\ p.buf[i].k = "size")
      Back(acc, i) ==
        LET media == MediaBefore(p, i)
        IN  IF acc.offset > media THEN [acc EXCEPT !.offset = @ - media]
            ELSE IF acc.cut = NULL
            THEN [offset |-> 0, cut |-> i - acc.offset, length |-> media - acc.offset]
            ELSE [acc EXCEPT !.length = @ + media]
  IN  FoldLeft(Back, [offset |-> offset, cut |-> NULL, length |-> 0], sizes)

(* Fault: what was kept of the old buffer is looked at again. *)
FaultNextPiece(kept, rest) == [buf |-> kept \o rest, data |-> 1, unparsed |-> IF rest = <<>> THEN 0 ELSE 1]

(* The next piece has what the offset keeps, and the rest, still unparsed. *)
NextPiece(kept, rest) ==
  [buf |-> kept \o rest, data |-> 1, unparsed |-> IF rest = <<>> THEN 0 ELSE Len(kept) + 1]

(* The piece that the tag at s closes.  A piece that has not the length it *)
(* should have is emptied, and so are all after it up to a key frame's.    *)
(* Without an offset the length is not looked at; and a length of 0 is     *)
(* taken for one that has not been set yet.                                *)
Finish(p, s) ==
  LET pt   == p.buf[s].pt
      walk == WalkBack(p, s, pt.offset)
      kept == IF pt.offset > 0 /\ walk.cut # NULL THEN SubSeq(p.buf, walk.cut, s - 1) ELSE <<>>
      rest == SubSeq(p.buf, s + Total(p.buf, s), Len(p.buf))
      bad  == (lost /\ ~pt.key) \/ (pt.offset > 0 /\ walk.length # pt.said)
      cut  == IF pt.offset > 0 /\ walk.length = pt.said /\ kept # <<>> THEN walk.cut - p.data ELSE 0
      size == CASE bad -> 0 [] ~bad /\ cut = 0 -> s - p.data [] ~bad /\ cut # 0 -> cut
  IN  /\ lost' = bad
      /\ out' = [pt |-> pt, bad |-> bad, data |-> SubSeq(p.buf, p.data, p.data + size - 1)]
      /\ GoOn(NextPiece(kept, rest))

(* The tags from start on are looked at.  times is how often the item has  *)
(* been destroyed by then.                                                 *)
Parse(p, start, times) ==
  LET s == FirstPieceTag(p.buf, start)
  IN  \/ /\ s = 0                                        \* "tag_total len"
         /\ End("cut", times + 1)
         /\ piece' = p
         /\ UNCHANGED <<lost, out>>
      \/ /\ s > Len(p.buf)
         /\ GoOn(p)
         /\ UNCHANGED <<lost, out>>
      \/ /\ s \in DOMAIN p.buf /\ p.buf[s].pt.ahead      \* "offset > 0"
         /\ End("ahead", times + 1)
         /\ piece' = p
         /\ lost' = (lost /\ ~p.buf[s].pt.key)
         /\ UNCHANGED out
      \/ /\ s \in DOMAIN p.buf /\ ~p.buf[s].pt.ahead
         /\ Finish(p, s)

(* What was copied is looked at first.  If a piece tag is in it, len is    *)
(* looked at before it has been given a value.                             *)
Unparsed ==
  /\ ended = NULL /\ piece.unparsed > 0
  /\ LET p == [piece EXCEPT !.unparsed = 0]
     IN  \/ Parse(p, piece.unparsed, 0)
         \/ /\ FirstPieceTag(p.buf, piece.unparsed) \in DOMAIN p.buf
            /\ End("len", 1)
            /\ piece' = p
            /\ UNCHANGED <<lost, out>>
  /\ UNCHANGED <<inbox, isFirst, server>>

(* RTMP_Read gives what there is room for.  Less than a header destroys    *)
(* the item, but does not end the getter.                                  *)
Read ==
  /\ ended = NULL /\ piece.unparsed = 0 /\ inbox \notin {<<>>, <<FileHeader>>}
  /\ Len(piece.buf) < Room
  /\ LET n == Min({Len(inbox), Room - Len(piece.buf)})
         p == [piece EXCEPT !.buf = @ \o SubSeq(inbox, 1, n), !.data = IF isFirst THEN 2 ELSE @]
     IN  /\ Parse(p, IF isFirst THEN 2 ELSE Len(piece.buf) + 1, IF n < Header THEN 1 ELSE 0)
         /\ inbox' = SubSeq(inbox, n + 1, Len(inbox))
  /\ isFirst' = FALSE
  /\ UNCHANGED server

(* It gives nothing when there is no room or the stream has ended. *)
ReadNothing ==
  /\ ended = NULL /\ piece.unparsed = 0
  /\ \/ Len(piece.buf) = Room /\ End("full", 1)
     \/ inbox \in {<<>>, <<FileHeader>>} /\ End("closed", 1)
  /\ UNCHANGED <<inbox, piece, isFirst, lost, out, server>>

Next == Send \/ Unparsed \/ Read \/ ReadNothing

Spec == Init /\ [][Next]_vars

-----------------------------------------------------------------------------
(* Properties. *)

Upto(a, b) == [i \in 1 .. b - a |-> a + i]

(* A finished piece has exactly the media the server put into it, from     *)
(* where the piece before ended, as long as the server loses nothing: none *)
(* is left out, repeated or emptied, however the tags are packed and read. *)
(* One kind of piece does not: with no media but an offset, it can be      *)
(* given what the next piece gets as well.  When media is lost, a piece    *)
(* with an offset has as much as it should have, or nothing.               *)
PiecesAreWhole ==
  out # NULL =>
    LET pt    == out.pt
        taken == Media(out.data)
        again == pt.said = 0 /\ taken = Upto(pt.from, pt.from + pt.offset)
    IN  /\ server.gone = {} => ~out.bad /\ (taken = Upto(pt.from, pt.from + pt.said) \/ again)
        /\ ~out.bad /\ pt.offset > 0 /\ pt.said > 0 => Len(taken) = pt.said

TypeOK ==
  /\ piece.data \in {1, 2} /\ piece.unparsed \in 0 .. Len(piece.buf) /\ Len(piece.buf) <= Room
  /\ {isFirst, lost} \subseteq BOOLEAN
  /\ ended \in {NULL, "cut", "ahead", "len", "full", "closed"} /\ destroyed \in 0 .. 2
  /\ server.end <= server.sent

(* The getter stays in step with the tags: it finds one that is not whole  *)
(* only when a read was cut short because the buffer was full.             *)
(* The item is destroyed when the getter ends, and only then; twice when   *)
(* there was room for less than a header (thread.c:267).                   *)
StaysInTags ==
  /\ TypeOK
  /\ ended = "cut" => inbox # <<>>
  /\ (destroyed > 0) = (ended # NULL)
  /\ destroyed = 2 => ended = "cut"

=============================================================================
