----------------------------- MODULE BlockRing -----------------------------
(***************************************************************************)
(* The data window of one stream: struct blocks and struct frames of an    *)
(* item (rtoh.h:160-188), filled by the getter thread under it->lock       *)
(* (thread.c:434-513) and consulted by do_generate_response under the same *)
(* lock (rtoh.c:373-406).  One action is one critical section.             *)
(*                                                                         *)
(* A data piece has a 64-bit index.  The indices are dealt round robin to  *)
(* four substreams, and four consecutive pieces of a substream make one    *)
(* block; twelve blocks are kept, block b in slot b % BLOCK_LIST_MAX.      *)
(* Payloads, timestamps and the serialised chunk headers are left out:     *)
(* a piece is its index and its key frame flag.  Reference counts and the  *)
(* piece pool, which decide when the storage of an evicted chain is        *)
(* reused, are the subject of module BlockStreaming, and have no influence *)
(* on which pieces a slot holds.                                           *)
(***************************************************************************)
EXTENDS Integers, Sequences, SequencesExt

CONSTANTS
  Starts,       \* possible indices of the first data piece the getter sees
  Skips,        \* numbers of indices the source may skip between two pieces
  GopLengths,   \* possible distances between the key frames of a stream
  RequestIds,   \* the block ids clients ask for
  MaxSpan,      \* bound: the indices used are start_index .. start_index + MaxSpan
  MaxSkips,     \* bound: number of skips in a behaviour
  MaxParked     \* bound: number of block ids clients wait for at a time

ASSUME RingAssumption ==
  /\ Starts \subseteq Nat
  /\ Skips \subseteq Nat
  /\ GopLengths \subseteq Nat \ {0}
  /\ RequestIds \subseteq Nat
  /\ MaxSpan \in Nat
  /\ MaxSkips \in Nat
  /\ MaxParked \in Nat

BLOCK_LIST_MAX == 12
FRAME_LIST_MAX == BLOCK_LIST_MAX * 4

Slots == 0 .. BLOCK_LIST_MAX - 1

VARIABLES
  block_list,   \* the ring: slot -> [block_id, chain]
  blocks,       \* piece_id_min, piece_id_max, blockid_min, blockid_max
  frs,          \* the key frame index: start, end, frame_list
  wait_list,    \* parked requests: [blockid, early], early = before any data
  start_index,  \* environment: the index of the stream's first data piece
  next_index,   \* environment: the index of the next data piece
  gop,          \* environment: the distance between its key frames
  last_key,     \* environment: the index of the last key frame
  skipped,      \* environment: how often the source skipped indices
  crashed       \* a NULL head was dereferenced: the process is gone

envVars == <<start_index, next_index, gop, last_key, skipped>>
vars == <<block_list, blocks, frs, wait_list, envVars, crashed>>

-----------------------------------------------------------------------------
(* Index arithmetic (thread.c:436-437, 445). *)

BlockId(n) == (n % 4) + (((n \div 4) \div 4) * 4)

SlotOf(b) == b % BLOCK_LIST_MAX

(* Fault: the third piece of a block is taken for its last. *)
FaultTailOneEarly(n) == ((n - (n % 4)) + 8) % 16 = 0

IsTail(n) == ((n - (n % 4)) + 4) % 16 = 0

(* A piece as the ring sees it. *)
Piece(n, flag) == [index |-> n, flag |-> flag, is_tail |-> IsTail(n)]

EmptySlot == [block_id |-> 0, chain |-> <<>>]

Retained == UNION {ToSet(block_list[s].chain) : s \in Slots}

DataSeen == next_index # start_index

-----------------------------------------------------------------------------
(* The frame index, a ring of its own. *)

(* Number of frame slots in the window start .. end - 1. *)
FrsLen(f) == (f.end - f.start) % FRAME_LIST_MAX

FrsAt(f, k) == (f.start + k) % FRAME_LIST_MAX

(* Fault: the frame of an evicted piece stays in the index. *)
FaultFrsKeep(f, n) == f

(* thread.c:454-465: clear the first frame of the window that has index n, *)
(* and move start past it when it is the oldest one.                       *)
FrsRemove(f, n) ==
  LET hits == {k \in 0 .. FrsLen(f) - 1 : f.frame_list[FrsAt(f, k)] = n}
      hit  == CHOOSE k \in hits : \A j \in hits : k <= j
  IN  IF hits = {}
      THEN f
      ELSE [f EXCEPT !.frame_list[FrsAt(f, hit)] = 0,
                     !.start = IF hit = 0 THEN FrsAt(f, 1) ELSE @]

(* thread.c:451-468: the frames of an evicted chain leave the index. *)
FrsDropChain(f, chain) ==
  FoldLeft(LAMBDA g, p : IF p.flag THEN FrsRemove(g, p.index) ELSE g, f, chain)

(* Fault: the end of the window runs past the array. *)
FaultFrsNoWrap(f, n) ==
  [start |-> f.start, end |-> f.end + 1,
   frame_list |-> [f.frame_list EXCEPT ![f.end] = n]]

(* thread.c:507-512: append; a full window loses its oldest frame. *)
FrsAdd(f, n) ==
  LET end1 == (f.end + 1) % FRAME_LIST_MAX
  IN  [start      |-> IF end1 = f.start THEN FrsAt(f, 1) ELSE f.start,
       end        |-> end1,
       frame_list |-> [f.frame_list EXCEPT ![f.end] = n]]

(* What the metainfo answer lists: the window's frames, 0 is a hole. *)
Frames == {frs.frame_list[FrsAt(frs, k)] : k \in 0 .. FrsLen(frs) - 1} \ {0}

-----------------------------------------------------------------------------
(* init_item's bzero (rtoh.c:232) leaves every field zero. *)
Init ==
  /\ block_list = [s \in Slots |-> EmptySlot]
  /\ blocks = [piece_id_min |-> 0, piece_id_max |-> 0,
               blockid_min |-> 0, blockid_max |-> 0]
  /\ frs = [start |-> 0, end |-> 0,
            frame_list |-> [i \in 0 .. FRAME_LIST_MAX - 1 |-> 0]]
  /\ wait_list = {}
  /\ start_index \in Starts
  /\ next_index = start_index
  /\ gop \in GopLengths
  /\ last_key = start_index - gop
  /\ skipped = 0
  /\ crashed = FALSE

(* Fault: the last piece's block is taken for the highest. *)
FaultBoundsMaxLast(n, b) ==
  [piece_id_min |-> IF blocks.piece_id_min = 0 THEN n ELSE blocks.piece_id_min,
   piece_id_max |-> n,
   blockid_min  |-> IF blocks.blockid_min = 0 THEN b ELSE blocks.blockid_min,
   blockid_max  |-> b]

(* thread.c:438-443: the bounds every data piece updates; 0 means unset. *)
BoundsWith(n, b) ==
  [piece_id_min |-> IF blocks.piece_id_min = 0 THEN n ELSE blocks.piece_id_min,
   piece_id_max |-> n,
   blockid_min  |-> IF blocks.blockid_min = 0 THEN b ELSE blocks.blockid_min,
   blockid_max  |-> IF blocks.blockid_max < b THEN b ELSE blocks.blockid_max]

(* Fault: the bounds are not moved on by an eviction. *)
FaultBoundsStay(bounds, bl) == bounds

(* thread.c:480-484: after an eviction the oldest block is the one in the  *)
(* next slot, and the oldest piece its head.                               *)
BoundsFromNextSlot(bounds, bl) ==
  [bounds EXCEPT !.piece_id_min = bl.chain[1].index, !.blockid_min = bl.block_id]

NextSlot(s) == block_list[(s + 1) % BLOCK_LIST_MAX]

(* The piece belongs to the block its slot already holds (thread.c:497-506). *)
AppendToBlock(n, flag) ==
  LET b == BlockId(n)
      s == SlotOf(b)
  IN  /\ block_list[s].block_id = b
      /\ block_list' = [block_list EXCEPT ![s].chain = Append(@, Piece(n, flag))]
      /\ blocks' = BoundsWith(n, b)
      /\ frs' = IF flag THEN FrsAdd(frs, n) ELSE frs
      /\ UNCHANGED <<wait_list, crashed>>

(* Fault: the parked requests are not looked at when their block opens. *)
FaultOpenBlockNoWake(n, flag) ==
  LET b       == BlockId(n)
      s       == SlotOf(b)
      old     == block_list[s]
      dropped == FrsDropChain(frs, old.chain)
  IN  /\ old.block_id # b
      /\ old.block_id > 0 => NextSlot(s).chain # <<>>
      /\ block_list' = [block_list EXCEPT
             ![s] = [block_id |-> b, chain |-> <<Piece(n, flag)>>]]
      /\ blocks' = IF old.block_id > 0
                   THEN BoundsFromNextSlot(BoundsWith(n, b), NextSlot(s))
                   ELSE BoundsWith(n, b)
      /\ frs' = IF flag THEN FrsAdd(dropped, n) ELSE dropped
      /\ UNCHANGED <<wait_list, crashed>>

(* The piece opens a new block: the chain in its slot is evicted, its key  *)
(* frames leave the index, and the requests parked for the new block move  *)
(* to the block (thread.c:449-496).                                        *)
OpenBlock(n, flag) ==
  LET b       == BlockId(n)
      s       == SlotOf(b)
      old     == block_list[s]
      dropped == FrsDropChain(frs, old.chain)
  IN  /\ old.block_id # b
      /\ old.block_id > 0 => NextSlot(s).chain # <<>>
      /\ block_list' = [block_list EXCEPT
             ![s] = [block_id |-> b, chain |-> <<Piece(n, flag)>>]]
      /\ blocks' = IF old.block_id > 0
                   THEN BoundsFromNextSlot(BoundsWith(n, b), NextSlot(s))
                   ELSE BoundsWith(n, b)
      /\ frs' = IF flag THEN FrsAdd(dropped, n) ELSE dropped
      /\ wait_list' = {w \in wait_list : w.blockid # b}
      /\ UNCHANGED crashed

(* The eviction reads bl->head->pu.dp.pc.index: a NULL head is fatal.  The *)
(* half-made update dies with the process.                                 *)
OpenBlockCrash(n) ==
  LET s == SlotOf(BlockId(n))
  IN  /\ block_list[s].block_id # BlockId(n)
      /\ block_list[s].block_id > 0
      /\ NextSlot(s).chain = <<>>
      /\ crashed' = TRUE
      /\ UNCHANGED <<block_list, blocks, frs, wait_list>>

(* The source's key frames: the first piece, and then the next one after   *)
(* gop pieces.                                                             *)
FlagAllowed(flag) == flag <=> next_index - last_key >= gop

(* The source numbers the next piece: one up, or a few more after a skip. *)
SourceSteps(flag) ==
  \E k \in Skips \union {0} :
    /\ next_index' = next_index + 1 + k
    /\ skipped' = IF k = 0 THEN skipped ELSE skipped + 1
    /\ skipped' <= MaxSkips
    /\ last_key' = IF flag THEN next_index + k ELSE last_key + k
    /\ UNCHANGED <<start_index, gop>>

(* One data piece arrives: indices increase. *)
PublishData ==
  \E flag \in BOOLEAN :
    /\ ~crashed
    /\ next_index <= start_index + MaxSpan
    /\ FlagAllowed(flag)
    /\ \/ AppendToBlock(next_index, flag)
       \/ OpenBlock(next_index, flag)
       \/ OpenBlockCrash(next_index)
    /\ SourceSteps(flag)

-----------------------------------------------------------------------------
(* do_generate_response, block branch: what a request for block b gets.    *)

(* The scan takes the first slot whose block_id matches (rtoh.c:380-385). *)
MatchingSlots(b) == {s \in Slots : block_list[s].block_id = b}

FirstMatch(b) == CHOOSE s \in MatchingSlots(b) : \A t \in MatchingSlots(b) : s <= t

(* Fault: the scan of the slots ignores the lower bound. *)
FaultLookupNoMin(b) ==
  IF b > blocks.blockid_max + 100 THEN "notfound"
  ELSE IF MatchingSlots(b) = {} THEN "wait"
  ELSE IF block_list[FirstMatch(b)].chain = <<>> THEN "null_head"
  ELSE "found"

Lookup(b) ==
  IF b > blocks.blockid_max + 100 \/ b < blocks.blockid_min THEN "notfound"
  ELSE IF MatchingSlots(b) = {} THEN "wait"
  ELSE IF block_list[FirstMatch(b)].chain = <<>> THEN "null_head"
  ELSE "found"

(* A request for a block that is not there yet is parked on it->wait_list. *)
RequestParks ==
  \E b \in RequestIds :
    /\ ~crashed
    /\ Lookup(b) = "wait"
    /\ \A w \in wait_list : w.blockid # b
    /\ Cardinality(wait_list) < MaxParked
    /\ wait_list' = wait_list \union {[blockid |-> b, early |-> ~DataSeen]}
    /\ UNCHANGED <<block_list, blocks, frs, envVars, crashed>>

(* p->ref ++ on a slot that matches but is empty (rtoh.c:386-391). *)
RequestCrash ==
  \E b \in RequestIds :
    /\ ~crashed
    /\ Lookup(b) = "null_head"
    /\ crashed' = TRUE
    /\ UNCHANGED <<block_list, blocks, frs, wait_list, envVars>>

Next == PublishData \/ RequestParks \/ RequestCrash

Spec == Init /\ [][Next]_vars

-----------------------------------------------------------------------------
(* Properties. *)

PieceType == [index : Nat, flag : BOOLEAN, is_tail : BOOLEAN]

(* Type invariant of the window. *)
TypeOK ==
  /\ block_list \in [Slots -> [block_id : Nat, chain : Seq(PieceType)]]
  /\ blocks \in [piece_id_min : Nat, piece_id_max : Nat,
                 blockid_min : Nat, blockid_max : Nat]
  /\ frs \in [start : 0 .. FRAME_LIST_MAX - 1, end : 0 .. FRAME_LIST_MAX - 1,
              frame_list : [0 .. FRAME_LIST_MAX - 1 -> Nat]]
  /\ wait_list \subseteq [blockid : Nat, early : BOOLEAN]
  /\ start_index \in Nat
  /\ next_index \in Nat
  /\ last_key \in Int
  /\ skipped \in Nat /\ gop \in Nat
  /\ crashed \in BOOLEAN

(* A slot only ever holds pieces of the block it is labelled with, and the *)
(* label belongs to the slot, so that the linear scan of do_generate_response *)
(* (rtoh.c:380-385) can meet at most one non-empty match.                  *)
SlotsHoldTheirBlocks ==
  \A s \in Slots :
    /\ block_list[s].chain = <<>> => block_list[s].block_id = 0
    /\ block_list[s].chain # <<>> => SlotOf(block_list[s].block_id) = s
    /\ \A i \in DOMAIN block_list[s].chain :
         BlockId(block_list[s].chain[i].index) = block_list[s].block_id

(* The first piece of the stream opened a group of four blocks, and was    *)
(* not piece 0, which the bounds take for unset.                           *)
JoinedAtGroup == start_index % 16 = 0 /\ start_index > 0

(* Readers walk a chain to the piece marked is_tail and then end the HTTP  *)
(* reply (rtoh.c:604-621): pieces are in index order and nothing follows a *)
(* tail, whatever the source skips.                                        *)
NothingFollowsTail ==
  \A s \in Slots :
    LET c == block_list[s].chain
    IN  \A i \in 1 .. Len(c) - 1 : ~c[i].is_tail /\ c[i].index < c[i + 1].index

(* With a source that skips nothing, a block whose substream has moved on  *)
(* ends with its tail piece: its readers do not wait for ever.             *)
OlderBlocksComplete ==
  skipped = 0 => \A s, t \in Slots :
    LET c == block_list[s].chain
    IN  ( /\ c # <<>>
          /\ block_list[t].chain # <<>>
          /\ block_list[t].block_id = block_list[s].block_id + 4 )
        => c[Len(c)].is_tail

(* What readers walk is in order: slots, tails and completeness together.  *)
BlocksSound == SlotsHoldTheirBlocks /\ NothingFollowsTail /\ OlderBlocksComplete

(* Every block between the two advertised bounds is answered at once: the  *)
(* bounds, maintained piecemeal (thread.c:438-443, 480-484), never enclose *)
(* a block that is missing, as long as the source skips nothing.           *)
AdvertisedBlocksHeld ==
  DataSeen /\ skipped = 0 => \A b \in blocks.blockid_min .. blocks.blockid_max : Lookup(b) = "found"

(* A request that was parked while the stream ran waits for a block still  *)
(* to come; it is never left behind by the block it asked for.             *)
ParkedIsAhead ==
  skipped = 0 => \A w \in wait_list : ~w.early => w.blockid > blocks.blockid_max

RetainedIndices == {p.index : p \in Retained}

RetainedKeys == {p.index : p \in {q \in Retained : q.flag}}

(* The frames the metainfo answer lists are key pieces that can be had.    *)
FramesHeld == Frames \subseteq RetainedKeys

(* A key piece among the last 47 pieces is listed, 47 being what the index *)
(* can hold (thread.c:507-512): holes left by evicted frames cost older    *)
(* entries only.  (Of 48 key pieces in a row the oldest is not listed, and *)
(* the holes of an eviction then push out more of the oldest ones.)        *)
KeyframesAdvertised ==
  skipped = 0 => \A n \in RetainedKeys \ {0} :
    next_index - n < FRAME_LIST_MAX => n \in Frames

(* The frame index and the window agree, both ways (thread.c:505-512).     *)
FrameIndexSound == FramesHeld /\ KeyframesAdvertised

(* The advertised smallest piece is in the window (si.MIN, rtoh.c:318), as *)
(* long as the source skips nothing.  Not so in a stream that was joined   *)
(* in group 0: the eviction of block 0 does not move the bounds on         *)
(* (thread.c:484).                                                         *)
MinHeld == DataSeen /\ skipped = 0 /\ start_index >= 16 => blocks.piece_id_min \in RetainedIndices

(* "uint64_t MIN; //RingBuffer最小piece编号" (rtoh.h:204): si.MIN, taken     *)
(* from piece_id_min, is the smallest piece number in the ring.  It is     *)
(* when the stream was joined at a group; joined elsewhere, the blocks of  *)
(* the ring turn over at different pieces and si.MIN can be any of them.   *)
MinIsSmallest ==
  DataSeen /\ skipped = 0 /\ JoinedAtGroup => /\ blocks.piece_id_min \in RetainedIndices
              /\ \A n \in RetainedIndices : blocks.piece_id_min <= n

(* What the metainfo answer promises can be had (rtoh.c:315-325).          *)
AdvertisedWindowHeld == AdvertisedBlocksHeld /\ MinHeld /\ MinIsSmallest

(* The advertised window never moves back, which a client that follows the *)
(* stream by it relies on: it is so when the stream was joined at a group. *)
WindowMovesForward ==
  [][ skipped' = 0 /\ JoinedAtGroup =>
      /\ blocks.piece_id_min <= blocks'.piece_id_min
      /\ blocks.blockid_min <= blocks'.blockid_min
      /\ blocks.blockid_max <= blocks'.blockid_max ]_vars

(* A NULL head is met only by a request for block 0 that comes before the  *)
(* stream's first piece, as long as the source skips nothing.              *)
CrashOnlyBeforeData == crashed /\ skipped = 0 => ~DataSeen

=============================================================================
