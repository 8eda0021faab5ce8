--------------------------- MODULE BlockRingProofs --------------------------
(***************************************************************************)
(* Theorems about BlockRing: what readers find in a slot, what the bounds  *)
(* promise, and who waits for what, for every source and every request.    *)
(***************************************************************************)
EXTENDS BlockRing, LeastElement, TLAPS

(* The types of all variables but the key frame index. *)
WindowType ==
  /\ block_list \in [Slots -> [block_id : Nat, chain : Seq(PieceType)]]
  /\ blocks \in [piece_id_min : Nat, piece_id_max : Nat,
                 blockid_min : Nat, blockid_max : Nat]
  /\ wait_list \subseteq [blockid : Nat, early : BOOLEAN]
  /\ start_index \in Nat
  /\ next_index \in Nat
  /\ last_key \in Int
  /\ skipped \in Nat /\ gop \in Nat
  /\ crashed \in BOOLEAN

(* The smallest index of a block. *)
FirstIndex(b) == 16 * (b \div 4) + (b % 4)

-----------------------------------------------------------------------------
(* Arithmetic of indices, blocks and slots. *)

(* A block has four indices, four apart, and the last is its tail. *)
LEMMA IndexInBlock ==
  ASSUME NEW n \in Nat
  PROVE  /\ BlockId(n) \in Nat
         /\ FirstIndex(BlockId(n)) \in Nat
         /\ FirstIndex(BlockId(n)) <= n /\ n <= FirstIndex(BlockId(n)) + 12
         /\ \E j \in 0 .. 3 : n = FirstIndex(BlockId(n)) + 4 * j
         /\ IsTail(n) \in BOOLEAN
         /\ IsTail(n) <=> n = FirstIndex(BlockId(n)) + 12
  BY DEF BlockId, FirstIndex, IsTail

(* Blocks are ordered as their first indices are. *)
LEMMA FirstIndexMonotone ==
  ASSUME NEW b \in Nat, NEW d \in Nat
  PROVE  /\ FirstIndex(b) \in Nat
         /\ BlockId(FirstIndex(b)) = b
         /\ b <= d <=> FirstIndex(b) <= FirstIndex(d)
         /\ FirstIndex(b + 12) = FirstIndex(b) + 48
  BY DEF BlockId, FirstIndex

(* Two indices of a block are at least four apart. *)
LEMMA SameBlock ==
  ASSUME NEW m \in Nat, NEW n \in Nat, BlockId(m) = BlockId(n), m < n
  PROVE  ~IsTail(m) /\ m + 4 <= n
  BY DEF BlockId, IsTail

(* A block number has a slot.                                               *)
LEMMA SlotType ==
  ASSUME NEW b \in Nat
  PROVE  SlotOf(b) \in Slots
  BY DEF SlotOf, Slots, BLOCK_LIST_MAX

-----------------------------------------------------------------------------
(* What a slot holds, whatever the source skips. *)

(* The pieces of a chain are of the slot's block, marked as tails where    *)
(* they are, and older than the piece to come.                             *)
ChainSound(c, b, next) ==
  /\ \A i \in 1 .. Len(c) : /\ BlockId(c[i].index) = b
                            /\ c[i].is_tail = IsTail(c[i].index)
                            /\ c[i].index < next
  /\ \A i \in 1 .. Len(c) - 1 : c[i].index < c[i + 1].index /\ ~c[i].is_tail

ChainsSound ==
  \A s \in Slots :
    /\ block_list[s].chain = <<>> => block_list[s].block_id = 0
    /\ block_list[s].chain # <<>> => SlotOf(block_list[s].block_id) = s
    /\ ChainSound(block_list[s].chain, block_list[s].block_id, next_index)

ChainsInv == WindowType /\ ChainsSound

(* At the start every chain is empty.                                       *)
LEMMA InitChains == Init => ChainsInv
<1> SUFFICES ASSUME Init PROVE ChainsInv
  OBVIOUS
<1>1. EmptySlot \in [block_id : Nat, chain : Seq(PieceType)]
  BY DEF EmptySlot
<1>2. WindowType
  <2>1. block_list \in [Slots -> [block_id : Nat, chain : Seq(PieceType)]]
    BY <1>1 DEF Init
  <2>2. start_index \in Nat /\ gop \in Nat /\ last_key \in Int
    BY RingAssumption DEF Init
  <2> QED BY <2>1, <2>2 DEF Init, WindowType
<1>3. \A s \in Slots : block_list[s].chain = <<>> /\ block_list[s].block_id = 0
  BY DEF Init, EmptySlot
<1> QED BY <1>2, <1>3 DEF ChainsInv, ChainsSound, ChainSound

(* A piece of type PieceType. *)
LEMMA PieceTyped ==
  ASSUME NEW n \in Nat, NEW flag \in BOOLEAN
  PROVE  /\ Piece(n, flag) \in PieceType
         /\ Piece(n, flag).index = n
         /\ Piece(n, flag).is_tail = IsTail(n)
  BY IndexInBlock DEF Piece, PieceType

(* The source's part of a step. *)
LEMMA SourceMoves ==
  ASSUME WindowType, NEW flag \in BOOLEAN, SourceSteps(flag)
  PROVE  /\ next_index' \in Nat /\ next_index' > next_index
         /\ skipped' \in Nat /\ (skipped' = 0 => skipped = 0 /\ next_index' = next_index + 1)
         /\ last_key' \in Int
         /\ start_index' = start_index /\ gop' = gop
<1>1. PICK k \in Skips \union {0} : /\ next_index' = next_index + 1 + k
                                    /\ skipped' = IF k = 0 THEN skipped ELSE skipped + 1
                                    /\ last_key' = IF flag THEN next_index + k ELSE last_key + k
                                    /\ UNCHANGED <<start_index, gop>>
  BY DEF SourceSteps
<1>2. k \in Nat
  BY RingAssumption
<1> QED BY <1>1, <1>2 DEF WindowType

(* What publishing does to the slot of the piece's block: the chain grows  *)
(* by the piece, or starts with it; or the process is gone.                *)
Holds(s, b, c) ==
  /\ block_list' = [t \in Slots |-> block_list'[t]]
  /\ block_list'[s] \in [block_id : Nat, chain : Seq(PieceType)]
  /\ block_list'[s].block_id = b /\ block_list'[s].chain = c
  /\ \A t \in Slots \ {s} : block_list'[t] = block_list[t]

(* What publishing a piece does to the slots, pointwise: one slot is        *)
(* written, either extended or opened afresh, and the others stay.          *)
LEMMA PublishEffect ==
  ASSUME WindowType, PublishData
  PROVE  \E flag \in BOOLEAN :
           LET n == next_index
               b == BlockId(n)
               s == SlotOf(b)
           IN  /\ SourceSteps(flag) /\ FlagAllowed(flag) /\ ~crashed
               /\ \/ /\ AppendToBlock(n, flag)
                     /\ Holds(s, b, Append(block_list[s].chain, Piece(n, flag)))
                  \/ /\ OpenBlock(n, flag)
                     /\ Holds(s, b, <<Piece(n, flag)>>)
                  \/ OpenBlockCrash(n)
<1>1. PICK flag \in BOOLEAN :
        /\ ~crashed /\ SourceSteps(flag) /\ FlagAllowed(flag)
        /\ \/ AppendToBlock(next_index, flag)
           \/ OpenBlock(next_index, flag)
           \/ OpenBlockCrash(next_index)
  BY DEF PublishData
<1> DEFINE n == next_index
           b == BlockId(n)
           s == SlotOf(b)
<1>2. n \in Nat /\ b \in Nat /\ s \in Slots
  BY IndexInBlock, SlotType DEF WindowType
<1>3. CASE AppendToBlock(n, flag)
  <2>1. block_list[s].block_id = b
    BY <1>3 DEF AppendToBlock
  <2>2. block_list' = [block_list EXCEPT ![s].chain = Append(@, Piece(n, flag))]
    BY <1>3 DEF AppendToBlock
  <2>3. Append(block_list[s].chain, Piece(n, flag)) \in Seq(PieceType)
    BY <1>2, PieceTyped DEF WindowType
  <2>4. Holds(s, b, Append(block_list[s].chain, Piece(n, flag)))
    BY <1>2, <2>1, <2>2, <2>3 DEF Holds, WindowType
  <2> QED BY <1>1, <1>3, <2>4
<1>4. CASE OpenBlock(n, flag)
  <2>1. block_list' = [block_list EXCEPT ![s] = [block_id |-> b, chain |-> <<Piece(n, flag)>>]]
    BY <1>4 DEF OpenBlock
  <2>2. <<Piece(n, flag)>> \in Seq(PieceType)
    BY <1>2, PieceTyped
  <2>3. Holds(s, b, <<Piece(n, flag)>>)
    BY <1>2, <2>1, <2>2 DEF Holds, WindowType
  <2> QED BY <1>1, <1>4, <2>3
<1>5. CASE OpenBlockCrash(n)
  BY <1>1, <1>5
<1> QED BY <1>1, <1>3, <1>4, <1>5

(* The other steps leave the ring alone. *)
LEMMA RequestEffect ==
  ASSUME RequestParks \/ RequestCrash \/ UNCHANGED vars
  PROVE  UNCHANGED <<block_list, blocks, frs, envVars>>
  BY DEF RequestParks, RequestCrash, vars

BoundsType == [piece_id_min : Nat, piece_id_max : Nat, blockid_min : Nat, blockid_max : Nat]

(* The bounds that a piece sets are numbers.                                *)
LEMMA BoundsTyped ==
  ASSUME WindowType, NEW n \in Nat, NEW b \in Nat
  PROVE  BoundsWith(n, b) \in BoundsType
  BY DEF WindowType, BoundsWith, BoundsType

(* What a slot has, field by field, with the types the provers ask for.     *)
LEMMA SlotTyped ==
  ASSUME WindowType, NEW s \in Slots
  PROVE  /\ block_list[s].block_id \in Nat
         /\ block_list[s].chain \in Seq(PieceType)
         /\ Len(block_list[s].chain) \in Nat
         /\ block_list[s].chain # <<>> => Len(block_list[s].chain) > 0
         /\ \A i \in 1 .. Len(block_list[s].chain) : /\ block_list[s].chain[i] \in PieceType
                                                    /\ block_list[s].chain[i].index \in Nat
<1>1. block_list[s] \in [block_id : Nat, chain : Seq(PieceType)]
  BY DEF WindowType
<1> DEFINE c == block_list[s].chain
<1>2. c \in Seq(PieceType)
  BY <1>1
<1> HIDE DEF c
<1>3. Len(c) \in Nat /\ (c # <<>> => Len(c) > 0)
  BY <1>2
<1>4. \A i \in 1 .. Len(c) : c[i] \in PieceType
  BY <1>2
<1>5. \A i \in 1 .. Len(c) : c[i].index \in Nat
  BY <1>4 DEF PieceType
<1> QED BY <1>1, <1>2, <1>3, <1>4, <1>5 DEF c

(* The slot whose head gives the new bounds is a slot too.                  *)
LEMMA NextSlotTyped ==
  ASSUME WindowType, NEW s \in Slots
  PROVE  /\ (s + 1) % BLOCK_LIST_MAX \in Slots
         /\ NextSlot(s).block_id \in Nat
         /\ NextSlot(s).chain # <<>> => NextSlot(s).chain[1].index \in Nat
<1>1. (s + 1) % BLOCK_LIST_MAX \in Slots
  BY DEF Slots, BLOCK_LIST_MAX
<1>2. NextSlot(s) \in [block_id : Nat, chain : Seq(PieceType)]
  BY <1>1 DEF NextSlot, WindowType
<1>3. ASSUME NextSlot(s).chain # <<>> PROVE NextSlot(s).chain[1] \in PieceType
  BY <1>2, <1>3
<1> QED BY <1>1, <1>2, <1>3 DEF PieceType

(* The types of the ring are kept, whatever the source skips.               *)
LEMMA WindowStep == WindowType /\ [Next]_vars => WindowType'
<1> SUFFICES ASSUME WindowType, [Next]_vars PROVE WindowType'
  OBVIOUS
<1>1. CASE PublishData
  <2>1. PICK flag \in BOOLEAN :
          LET n == next_index
              b == BlockId(n)
              s == SlotOf(b)
          IN  /\ SourceSteps(flag) /\ FlagAllowed(flag) /\ ~crashed
              /\ \/ /\ AppendToBlock(n, flag)
                    /\ Holds(s, b, Append(block_list[s].chain, Piece(n, flag)))
                 \/ /\ OpenBlock(n, flag)
                    /\ Holds(s, b, <<Piece(n, flag)>>)
                 \/ OpenBlockCrash(n)
    BY <1>1, PublishEffect
  <2> DEFINE n == next_index
             b == BlockId(n)
             s == SlotOf(b)
  <2>2. n \in Nat /\ b \in Nat /\ s \in Slots
    BY IndexInBlock, SlotType DEF WindowType
  <2>3. /\ start_index' \in Nat /\ next_index' \in Nat /\ last_key' \in Int
        /\ skipped' \in Nat /\ gop' \in Nat
    BY <2>1, SourceMoves DEF WindowType
  <2>4. CASE AppendToBlock(n, flag) /\ Holds(s, b, Append(block_list[s].chain, Piece(n, flag)))
    <3>1. block_list' \in [Slots -> [block_id : Nat, chain : Seq(PieceType)]]
      BY <2>2, <2>4 DEF WindowType, Holds
    <3>2. blocks' \in BoundsType
      BY <2>2, <2>4, BoundsTyped DEF AppendToBlock
    <3> QED BY <2>3, <2>4, <3>1, <3>2 DEF WindowType, AppendToBlock, BoundsType
  <2>5. CASE OpenBlock(n, flag) /\ Holds(s, b, <<Piece(n, flag)>>)
    <3>1. block_list' \in [Slots -> [block_id : Nat, chain : Seq(PieceType)]]
      BY <2>2, <2>5 DEF WindowType, Holds
    <3>2. blocks' \in BoundsType
      <4>1. BoundsWith(n, b) \in BoundsType
        BY <2>2, BoundsTyped
      <4>2. CASE block_list[s].block_id > 0
        <5>1. /\ NextSlot(s).block_id \in Nat /\ NextSlot(s).chain[1].index \in Nat
              /\ blocks' = BoundsFromNextSlot(BoundsWith(n, b), NextSlot(s))
          BY <2>2, <2>5, <4>2, NextSlotTyped DEF OpenBlock
        <5> QED BY <4>1, <5>1 DEF BoundsFromNextSlot, BoundsType
      <4>3. CASE ~(block_list[s].block_id > 0)
        BY <2>5, <4>1, <4>3 DEF OpenBlock
      <4> QED BY <4>2, <4>3
    <3> QED BY <2>3, <2>5, <3>1, <3>2 DEF WindowType, OpenBlock, BoundsType
  <2>6. CASE OpenBlockCrash(n)
    BY <2>3, <2>6 DEF WindowType, OpenBlockCrash
  <2> QED BY <2>1, <2>4, <2>5, <2>6
<1>2. CASE RequestParks
  <2>1. PICK b \in RequestIds :
          /\ wait_list' = wait_list \union {[blockid |-> b, early |-> ~DataSeen]}
          /\ UNCHANGED <<block_list, blocks, frs, envVars, crashed>>
    BY <1>2 DEF RequestParks
  <2>2. [blockid |-> b, early |-> ~DataSeen] \in [blockid : Nat, early : BOOLEAN]
    BY RingAssumption DEF DataSeen
  <2> QED BY <2>1, <2>2 DEF WindowType, envVars
<1>3. CASE RequestCrash
  BY <1>3 DEF RequestCrash, WindowType, envVars
<1>4. CASE UNCHANGED vars
  BY <1>4 DEF vars, envVars, WindowType
<1> QED BY <1>1, <1>2, <1>3, <1>4 DEF Next

(* A sound chain stays sound while the source goes on.                      *)
LEMMA ChainAges ==
  ASSUME NEW c \in Seq(PieceType), NEW b, NEW n \in Nat, NEW m \in Nat,
         ChainSound(c, b, n), n < m
  PROVE  ChainSound(c, b, m)
<1>1. \A i \in 1 .. Len(c) : c[i] \in PieceType
  OBVIOUS
<1>2. \A i \in 1 .. Len(c) : c[i].index \in Nat
  BY <1>1 DEF PieceType
<1> QED BY <1>2 DEF ChainSound

(* A sound chain stays sound when the next piece of its block is appended.  *)
LEMMA ChainGrows ==
  ASSUME NEW c \in Seq(PieceType), NEW b \in Nat, NEW n \in Nat, NEW m \in Nat,
         NEW flag \in BOOLEAN,
         ChainSound(c, b, n), BlockId(n) = b, n < m
  PROVE  ChainSound(Append(c, Piece(n, flag)), b, m)
<1> DEFINE d == Append(c, Piece(n, flag))
<1>1. /\ Len(d) = Len(c) + 1
      /\ \A i \in 1 .. Len(c) : d[i] = c[i] /\ c[i] \in PieceType
      /\ d[Len(c) + 1] = Piece(n, flag)
      /\ Len(c) \in Nat
  BY PieceTyped
<1>2. Piece(n, flag).index = n /\ Piece(n, flag).is_tail = IsTail(n)
  BY PieceTyped
<1> HIDE DEF d
<1>3. \A i \in 1 .. Len(d) : /\ BlockId(d[i].index) = b
                             /\ d[i].is_tail = IsTail(d[i].index)
                             /\ d[i].index < m
  <2> TAKE i \in 1 .. Len(d)
  <2>1. CASE i = Len(c) + 1
    BY <1>1, <1>2, <2>1
  <2>2. CASE i # Len(c) + 1
    <3>1. i \in 1 .. Len(c) /\ d[i] = c[i] /\ c[i].index \in Nat
      BY <1>1, <2>2 DEF PieceType
    <3> QED BY <3>1 DEF ChainSound
  <2> QED BY <2>1, <2>2
<1>4. ASSUME NEW i \in 1 .. Len(d) - 1 PROVE d[i].index < d[i + 1].index /\ ~d[i].is_tail
  <2>1. CASE i = Len(c)
    BY <1>1, <1>2, <2>1, SameBlock DEF ChainSound, PieceType
  <2>2. CASE i # Len(c)
    BY <1>1, <2>2 DEF ChainSound
  <2> QED BY <2>1, <2>2
<1> QED BY <1>3, <1>4 DEF ChainSound, d

(* Every step keeps the chains sound: only publishing writes a slot, and it *)
(* writes the slot of the piece it publishes.                               *)
LEMMA ChainsStep == ChainsInv /\ [Next]_vars => ChainsInv'
<1> SUFFICES ASSUME ChainsInv, [Next]_vars PROVE ChainsSound'
  BY WindowStep DEF ChainsInv
<1> USE DEF ChainsInv
<1>1. CASE PublishData
  <2>1. PICK flag \in BOOLEAN :
          LET n == next_index
              b == BlockId(n)
              s == SlotOf(b)
          IN  /\ SourceSteps(flag) /\ FlagAllowed(flag) /\ ~crashed
              /\ \/ /\ AppendToBlock(n, flag)
                    /\ Holds(s, b, Append(block_list[s].chain, Piece(n, flag)))
                 \/ /\ OpenBlock(n, flag)
                    /\ Holds(s, b, <<Piece(n, flag)>>)
                 \/ OpenBlockCrash(n)
    BY <1>1, PublishEffect
  <2> DEFINE n == next_index
             b == BlockId(n)
             s == SlotOf(b)
  <2>2. n \in Nat /\ b \in Nat /\ s \in Slots
    BY IndexInBlock, SlotType DEF WindowType
  <2>3. next_index' \in Nat /\ n < next_index'
    BY <2>1, SourceMoves
  <2>4. \A t \in Slots : ChainSound(block_list[t].chain, block_list[t].block_id, next_index')
    <3> TAKE t \in Slots
    <3> DEFINE c == block_list[t].chain
    <3>1. c \in Seq(PieceType) /\ ChainSound(c, block_list[t].block_id, n)
      BY DEF ChainsSound, WindowType
    <3> QED BY <2>2, <2>3, <3>1, ChainAges
  <2>5. ASSUME NEW c \in Seq(PieceType), c # <<>>, Holds(s, b, c), ChainSound(c, b, next_index')
        PROVE  ChainsSound'
    BY <2>2, <2>4, <2>5 DEF ChainsSound, Holds
  <2>6. CASE AppendToBlock(n, flag) /\ Holds(s, b, Append(block_list[s].chain, Piece(n, flag)))
    <3>1. block_list[s].block_id = b /\ block_list[s].chain \in Seq(PieceType)
      BY <2>2, <2>6 DEF AppendToBlock, WindowType
    <3>2. ChainSound(Append(block_list[s].chain, Piece(n, flag)), b, next_index')
      BY <2>2, <2>3, <3>1, ChainGrows DEF ChainsSound
    <3>3. /\ Append(block_list[s].chain, Piece(n, flag)) \in Seq(PieceType)
          /\ Append(block_list[s].chain, Piece(n, flag)) # <<>>
      BY <2>2, <3>1, PieceTyped
    <3> HIDE DEF b, s, n
    <3> QED BY <2>5, <2>6, <3>2, <3>3
  <2>7. CASE OpenBlock(n, flag) /\ Holds(s, b, <<Piece(n, flag)>>)
    <3>1. ChainSound(<<>>, b, n)
      BY DEF ChainSound
    <3>2. <<>> \in Seq(PieceType) /\ Append(<<>>, Piece(n, flag)) = <<Piece(n, flag)>>
      OBVIOUS
    <3>3. ChainSound(<<Piece(n, flag)>>, b, next_index')
      BY <2>2, <2>3, <3>1, <3>2, ChainGrows
    <3>4. <<Piece(n, flag)>> \in Seq(PieceType) /\ <<Piece(n, flag)>> # <<>>
      BY <2>2, PieceTyped
    <3> HIDE DEF b, s, n
    <3> QED BY <2>5, <2>7, <3>3, <3>4
  <2>8. CASE OpenBlockCrash(n)
    BY <2>4, <2>8 DEF OpenBlockCrash, ChainsSound
  <2> QED BY <2>1, <2>6, <2>7, <2>8
<1>2. CASE ~PublishData
  <2>1. UNCHANGED <<block_list, next_index>>
    BY <1>2, RequestEffect DEF Next, envVars
  <2> QED BY <2>1 DEF ChainsSound
<1> QED BY <1>1, <1>2

(* A slot holds one block, in order, and the last piece of a block is the  *)
(* last of its chain, whatever the source skips.                           *)
THEOREM ChainsCorrect == Spec => []ChainsInv
<1>1. QED BY InitChains, ChainsStep, PTL DEF Spec

(* A slot that has a chain has the block its id names: pieces of another   *)
(* block never get into it (thread.c:438-443, 480-495).                    *)
THEOREM SlotsHoldTheirBlocksCorrect == Spec => []SlotsHoldTheirBlocks
<1>1. ChainsInv => SlotsHoldTheirBlocks
  BY DEF ChainsInv, WindowType, ChainsSound, ChainSound, SlotsHoldTheirBlocks
<1> QED BY <1>1, ChainsCorrect, PTL

(* The last piece of a block ends its chain, so a reader that stops there  *)
(* has had all of it (thread.c:445-448, rtoh.c:604-621).                   *)
THEOREM NothingFollowsTailCorrect == Spec => []NothingFollowsTail
<1>1. ChainsInv => NothingFollowsTail
  BY DEF ChainsInv, ChainsSound, ChainSound, NothingFollowsTail
<1> QED BY <1>1, ChainsCorrect, PTL

-----------------------------------------------------------------------------
(* What the ring holds while the source skips nothing. *)

(* A chain is its block's pieces from the first one there was to the last  *)
(* one yet, and no later block has the slot.                               *)
UnbrokenChain(c, b, start, next) ==
  /\ \A i \in 1 .. Len(c) : c[i].index = c[1].index + 4 * (i - 1)
  /\ start <= c[1].index
  /\ c[1].index < start + 4 \/ c[1].index = FirstIndex(b)
  /\ next <= c[Len(c)].index + 4 \/ c[Len(c)].is_tail
  /\ next <= FirstIndex(b + 12)

Unbroken ==
  /\ start_index <= next_index
  /\ \A s \in Slots :
       block_list[s].chain # <<>> =>
         UnbrokenChain(block_list[s].chain, block_list[s].block_id, start_index, next_index)
  /\ \A n \in start_index .. next_index - 1 : block_list[SlotOf(BlockId(n))].chain # <<>>

RingInv == ChainsInv /\ (skipped = 0 => Unbroken)

(* The block has been begun. *)
Published(b) == \E n \in start_index .. next_index - 1 : BlockId(n) = b

(* A block that has been begun, and whose slot has not been needed for the *)
(* next but two of its group, is in its slot.                              *)
LEMMA BegunIsHeld ==
  ASSUME ChainsInv, Unbroken, NEW b \in Nat, Published(b), next_index <= FirstIndex(b + 12)
  PROVE  /\ block_list[SlotOf(b)].block_id = b
         /\ block_list[SlotOf(b)].chain # <<>>
<1>1. PICK n \in start_index .. next_index - 1 : BlockId(n) = b
  BY DEF Published
<1> DEFINE s == SlotOf(b)
           c == block_list[s].chain
           d == block_list[s].block_id
<1>2. s \in Slots /\ next_index \in Nat /\ start_index \in Nat /\ n \in Nat /\ n < next_index
  BY <1>1, SlotType DEF ChainsInv, WindowType
<1>3. c # <<>>
  BY <1>1 DEF Unbroken
<1>4. d \in Nat /\ 1 \in 1 .. Len(c) /\ c[1].index \in Nat
  <2>1. WindowType
    BY DEF ChainsInv
  <2> QED BY <1>2, <1>3, <2>1, SlotTyped
<1>5. SlotOf(d) = s /\ BlockId(c[1].index) = d /\ c[1].index < next_index
  BY <1>2, <1>3, <1>4 DEF ChainsInv, ChainsSound, ChainSound
<1>6. next_index <= FirstIndex(d + 12)
  BY <1>2, <1>3 DEF Unbroken, UnbrokenChain
<1> HIDE DEF c, d
<1>7. b < d + 12
  <2>1. FirstIndex(b) <= n /\ FirstIndex(b) \in Nat /\ FirstIndex(d + 12) \in Nat
    BY <1>1, <1>2, <1>4 DEF FirstIndex, BlockId
  <2>2. ~(FirstIndex(d + 12) <= FirstIndex(b))
    BY <1>2, <1>6, <2>1
  <2> QED BY <1>4, <2>2, FirstIndexMonotone
<1>8. d < b + 12
  <2>1. FirstIndex(d) <= c[1].index
    BY <1>4, <1>5, IndexInBlock
  <2>2. FirstIndex(d) \in Nat /\ FirstIndex(b + 12) \in Nat
    BY <1>4 DEF FirstIndex
  <2>3. ~(FirstIndex(b + 12) <= FirstIndex(d))
    BY <1>2, <1>4, <1>5, <2>1, <2>2
  <2> QED BY <1>4, <2>3, FirstIndexMonotone
<1>9. d = b
  BY <1>4, <1>5, <1>7, <1>8 DEF SlotOf, BLOCK_LIST_MAX
<1> QED BY <1>3, <1>9 DEF c, d

(* What is known of a slot that holds something. *)
LEMMA HeldChain ==
  ASSUME ChainsInv, Unbroken, NEW s \in Slots, block_list[s].chain # <<>>
  PROVE  LET c == block_list[s].chain
             d == block_list[s].block_id
             first == c[1].index
             last  == c[Len(c)].index
         IN  /\ d \in Nat /\ SlotOf(d) = s
             /\ c \in Seq(PieceType) /\ Len(c) \in Nat \ {0}
             /\ first \in Nat /\ last \in Nat /\ last = first + 4 * (Len(c) - 1)
             /\ BlockId(first) = d /\ BlockId(last) = d
             /\ start_index <= first /\ last < next_index
             /\ first < start_index + 4 \/ first = FirstIndex(d)
             /\ c[Len(c)].is_tail = IsTail(last)
             /\ next_index <= last + 4 \/ c[Len(c)].is_tail
             /\ next_index <= FirstIndex(d + 12)
<1> DEFINE c == block_list[s].chain
           d == block_list[s].block_id
<1>1. /\ d \in Nat /\ c \in Seq(PieceType) /\ Len(c) \in Nat \ {0}
      /\ 1 \in 1 .. Len(c) /\ Len(c) \in 1 .. Len(c)
      /\ c[1].index \in Nat /\ c[Len(c)].index \in Nat
  <2>1. WindowType
    BY DEF ChainsInv
  <2>2. d \in Nat /\ c \in Seq(PieceType) /\ Len(c) \in Nat /\ Len(c) > 0
    BY <2>1, SlotTyped
  <2> QED BY <2>1, <2>2, SlotTyped
<1>2. SlotOf(d) = s /\ ChainSound(c, d, next_index)
  BY DEF ChainsInv, ChainsSound
<1>3. UnbrokenChain(c, d, start_index, next_index)
  BY DEF Unbroken
<1> HIDE DEF c, d
<1>4. /\ BlockId(c[1].index) = d /\ BlockId(c[Len(c)].index) = d
      /\ c[Len(c)].is_tail = IsTail(c[Len(c)].index) /\ c[Len(c)].index < next_index
  BY <1>1, <1>2 DEF ChainSound
<1>5. c[Len(c)].index = c[1].index + 4 * (Len(c) - 1)
  BY <1>1, <1>3 DEF UnbrokenChain
<1>6. /\ start_index <= c[1].index
      /\ c[1].index < start_index + 4 \/ c[1].index = FirstIndex(d)
      /\ next_index <= c[Len(c)].index + 4 \/ c[Len(c)].is_tail
      /\ next_index <= FirstIndex(d + 12)
  BY <1>3 DEF UnbrokenChain
<1> QED BY <1>1, <1>2, <1>4, <1>5, <1>6 DEF c, d

(* The slot a new piece goes to: empty, with the piece four below last, or *)
(* with the block twelve below, whose time has come.                       *)
LEMMA SlotOfNext ==
  ASSUME ChainsInv, Unbroken
  PROVE  LET n == next_index
             b == BlockId(n)
             s == SlotOf(b)
             c == block_list[s].chain
             d == block_list[s].block_id
         IN  /\ c = <<>> => d = 0 /\ (n < start_index + 4 \/ n = FirstIndex(b))
             /\ c # <<>> /\ d = b => c[Len(c)].index = n - 4
             /\ c # <<>> /\ d # b => d = b - 12 /\ n = FirstIndex(b)
<1> DEFINE n == next_index
           b == BlockId(n)
           s == SlotOf(b)
           c == block_list[s].chain
           d == block_list[s].block_id
<1>1. n \in Nat /\ start_index \in Nat /\ start_index <= n /\ b \in Nat /\ s \in Slots
  BY IndexInBlock, SlotType DEF ChainsInv, WindowType, Unbroken
<1>2. ASSUME c = <<>>
      PROVE  d = 0 /\ (n < start_index + 4 \/ n = FirstIndex(b))
  <2>1. d = 0
    BY <1>1, <1>2 DEF ChainsInv, ChainsSound
  <2>2. ASSUME n >= start_index + 4, n # FirstIndex(b) PROVE FALSE
    <3>1. n - 4 \in start_index .. n - 1 /\ BlockId(n - 4) = b
      BY <1>1, <2>2 DEF BlockId, FirstIndex
    <3>2. block_list[SlotOf(BlockId(n - 4))].chain # <<>>
      BY <3>1 DEF Unbroken
    <3> QED BY <1>2, <3>1, <3>2
  <2> QED BY <1>1, <2>1, <2>2
<1>3. ASSUME c # <<>>
      PROVE  /\ d = b => c[Len(c)].index = n - 4
             /\ d # b => d = b - 12 /\ n = FirstIndex(b)
  <2>1. /\ d \in Nat /\ SlotOf(d) = s
        /\ c[Len(c)].index \in Nat /\ c[Len(c)].index < n /\ BlockId(c[Len(c)].index) = d
        /\ c[Len(c)].is_tail = IsTail(c[Len(c)].index)
        /\ n <= c[Len(c)].index + 4 \/ c[Len(c)].is_tail
        /\ n <= FirstIndex(d + 12)
    BY <1>1, <1>3, HeldChain
  <2> DEFINE last == c[Len(c)].index
             tail == c[Len(c)].is_tail
  <2>2. ASSUME d = b PROVE last = n - 4
    <3>1. ~IsTail(last) /\ last + 4 <= n
      BY <1>1, <2>1, <2>2, SameBlock
    <3> HIDE DEF n
    <3> QED BY SMTT(40), <1>1, <2>1, <3>1
  <2>3. ASSUME d # b PROVE d = b - 12 /\ n = FirstIndex(b)
    <3> HIDE DEF c, d
    <3>1. FirstIndex(b) <= n /\ n <= FirstIndex(b) + 12 /\ FirstIndex(b) \in Nat
      BY <1>1, IndexInBlock
    <3>2. FirstIndex(d) <= last
      BY <2>1, IndexInBlock
    <3> HIDE DEF last, n, b
    <3>3. d = b - 12
      BY <1>1, <2>1, <2>3, <3>1, <3>2 DEF FirstIndex, SlotOf, BLOCK_LIST_MAX, s, last
    <3> QED BY <1>1, <2>1, <3>1, <3>3
  <2> QED BY <2>2, <2>3
<1> QED BY <1>2, <1>3

(* When a block is evicted, the slot after it holds the block after it.    *)
LEMMA NextSlotHolds ==
  ASSUME ChainsInv, Unbroken,
         block_list[SlotOf(BlockId(next_index))].block_id # BlockId(next_index),
         block_list[SlotOf(BlockId(next_index))].block_id > 0
  PROVE  LET n == next_index
             b == BlockId(n)
         IN  /\ n = FirstIndex(b) /\ b >= 13
             /\ Published(b - 12) /\ Published(b - 11)
             /\ NextSlot(SlotOf(b)).block_id = b - 11
             /\ NextSlot(SlotOf(b)).chain # <<>>
             /\ NextSlot(SlotOf(b)) = block_list[SlotOf(b - 11)]
<1> DEFINE n == next_index
           b == BlockId(n)
           s == SlotOf(b)
           c == block_list[s].chain
           d == block_list[s].block_id
<1>1. n \in Nat /\ start_index \in Nat /\ start_index <= n /\ b \in Nat /\ s \in Slots
  BY IndexInBlock, SlotType DEF ChainsInv, WindowType, Unbroken
<1>2. c # <<>>
  BY <1>1 DEF ChainsInv, ChainsSound
<1>3. d = b - 12 /\ n = FirstIndex(b)
  BY <1>2, SlotOfNext
<1>4. b - 12 \in Nat /\ b >= 13
  BY <1>1, <1>3
<1>5. /\ c[1].index \in Nat /\ BlockId(c[1].index) = b - 12
      /\ start_index <= c[1].index /\ c[1].index < n
  <2>1. /\ c[1].index \in Nat /\ BlockId(c[1].index) = d /\ start_index <= c[1].index
        /\ c[Len(c)].index \in Nat /\ c[Len(c)].index < n /\ Len(c) \in Nat \ {0}
        /\ c[Len(c)].index = c[1].index + 4 * (Len(c) - 1)
    BY <1>1, <1>2, HeldChain
  <2> HIDE DEF c, n, b, d
  <2> QED BY <1>1, <1>3, <2>1
<1> DEFINE p == c[1].index
           q == IF b % 4 = 3 THEN FirstIndex(b - 11) ELSE p + 1
<1> HIDE DEF n, b, c, d
<1>6. Published(b - 12)
  BY <1>1, <1>5 DEF Published, n
<1>7. q \in Nat /\ start_index <= q /\ q < n /\ BlockId(q) = b - 11
  <2> HIDE DEF p
  <2>1. p \in Nat /\ BlockId(p) = b - 12 /\ start_index <= p /\ p < n
    BY <1>5 DEF p
  <2> QED BY <1>1, <1>3, <1>4, <2>1 DEF BlockId, FirstIndex
<1>8. Published(b - 11)
  BY <1>1, <1>7 DEF Published, n
<1>9. n <= FirstIndex(b - 11 + 12)
  BY <1>1, <1>3 DEF FirstIndex
<1>10. /\ block_list[SlotOf(b - 11)].block_id = b - 11
       /\ block_list[SlotOf(b - 11)].chain # <<>>
  <2>1. PICK e \in Nat : e = b - 11
    BY <1>1, <1>4
  <2> QED BY <1>8, <1>9, <2>1, BegunIsHeld DEF n
<1>11. SlotOf(b - 11) = (s + 1) % BLOCK_LIST_MAX
  BY <1>1, <1>4 DEF s, SlotOf, BLOCK_LIST_MAX
<1> QED BY <1>3, <1>4, <1>6, <1>8, <1>10, <1>11 DEF NextSlot, n, b

(* Every step keeps the ring unbroken as long as nothing has been skipped.  *)
LEMMA RingStep == RingInv /\ [Next]_vars => RingInv'
<1> SUFFICES ASSUME RingInv, [Next]_vars, skipped' = 0 PROVE Unbroken'
  BY ChainsStep DEF RingInv
<1>1. CASE PublishData
  <2>1. PICK flag \in BOOLEAN :
          LET n == next_index
              b == BlockId(n)
              s == SlotOf(b)
          IN  /\ SourceSteps(flag) /\ FlagAllowed(flag) /\ ~crashed
              /\ \/ /\ AppendToBlock(n, flag)
                    /\ Holds(s, b, Append(block_list[s].chain, Piece(n, flag)))
                 \/ /\ OpenBlock(n, flag)
                    /\ Holds(s, b, <<Piece(n, flag)>>)
                 \/ OpenBlockCrash(n)
    BY <1>1, PublishEffect DEF RingInv, ChainsInv
  <2>2. skipped = 0 /\ next_index' = next_index + 1 /\ start_index' = start_index
    BY <2>1, SourceMoves DEF RingInv, ChainsInv
  <2>3. ChainsInv /\ Unbroken
    BY <2>2 DEF RingInv
  <2> DEFINE n == next_index
             b == BlockId(n)
             s == SlotOf(b)
             c == block_list[s].chain
             d == block_list[s].block_id
  <2>4. n \in Nat /\ b \in Nat /\ s \in Slots /\ start_index \in Nat /\ start_index <= n
    BY <2>3, IndexInBlock, SlotType DEF ChainsInv, WindowType, Unbroken
  <2>5. FirstIndex(b) <= n /\ n <= FirstIndex(b) + 12 /\ FirstIndex(b) \in Nat
        /\ FirstIndex(b + 12) = FirstIndex(b) + 48
    BY <2>4, IndexInBlock, FirstIndexMonotone
  <2>6. ASSUME NEW t \in Slots \ {s}, block_list[t].chain # <<>>
        PROVE  UnbrokenChain(block_list[t].chain, block_list[t].block_id, start_index, n + 1)
    <3> DEFINE f == block_list[t].chain
               e == block_list[t].block_id
               last == f[Len(f)].index
    <3>1. /\ e \in Nat /\ SlotOf(e) = t /\ last \in Nat /\ BlockId(last) = e /\ last < n
          /\ f[Len(f)].is_tail = IsTail(last)
          /\ n <= last + 4 \/ f[Len(f)].is_tail
          /\ n <= FirstIndex(e + 12)
      BY <2>3, <2>6, HeldChain
    <3>2. UnbrokenChain(f, e, start_index, n)
      BY <2>3, <2>6 DEF Unbroken
    <3>3. f[Len(f)].is_tail \/ n + 1 <= last + 4
      <4> HIDE DEF last, f, e
      <4>1. ASSUME ~IsTail(last), n = last + 4 PROVE b = e
        BY <2>4, <3>1, <4>1 DEF IsTail, BlockId
      <4> HIDE DEF n, b
      <4>2. n <= last + 4 /\ n # last + 4 => n + 1 <= last + 4
        BY <2>4, <3>1
      <4> QED BY <3>1, <4>1, <4>2
    <3>4. n + 1 <= FirstIndex(e + 12)
      <4> HIDE DEF e
      <4>1. b # e + 12
        BY <2>4, <3>1 DEF SlotOf, BLOCK_LIST_MAX
      <4>2. n # FirstIndex(e + 12)
        BY <2>4, <3>1, <4>1, FirstIndexMonotone
      <4> QED BY <2>4, <3>1, <4>2 DEF FirstIndex
    <3> QED BY <2>2, <3>2, <3>3, <3>4 DEF UnbrokenChain
  <2>7. ASSUME NEW k, Holds(s, b, k), k # <<>>, UnbrokenChain(k, b, start_index, n + 1)
        PROVE  Unbroken'
    <3>1. \A t \in Slots : block_list'[t].chain # <<>> =>
            UnbrokenChain(block_list'[t].chain, block_list'[t].block_id, start_index, n + 1)
      BY <2>4, <2>6, <2>7 DEF Holds
    <3>2. ASSUME NEW m \in start_index .. n
          PROVE  block_list'[SlotOf(BlockId(m))].chain # <<>>
      <4>1. m = n \/ m \in start_index .. n - 1
        BY <2>4
      <4>2. SlotOf(BlockId(m)) \in Slots
        BY <2>4, IndexInBlock, SlotType
      <4>3. m # n => block_list[SlotOf(BlockId(m))].chain # <<>>
        BY <2>3, <4>1 DEF Unbroken
      <4> QED BY <2>4, <2>7, <4>1, <4>2, <4>3 DEF Holds
    <3>3. start_index' <= next_index' /\ start_index' .. next_index' - 1 = start_index .. n
      BY <2>2, <2>4
    <3> QED BY <2>2, <3>1, <3>2, <3>3 DEF Unbroken
  <2>8. CASE AppendToBlock(n, flag) /\ Holds(s, b, Append(c, Piece(n, flag)))
    <3> DEFINE k == Append(c, Piece(n, flag))
    <3>1. d = b /\ c \in Seq(PieceType) /\ Len(c) \in Nat /\ k # <<>>
          /\ Len(k) = Len(c) + 1 /\ k[Len(c) + 1].index = n
          /\ \A i \in 1 .. Len(c) : k[i] = c[i]
      BY SMTT(40), <2>3, <2>4, <2>8, SlotTyped, PieceTyped DEF AppendToBlock, ChainsInv
    <3>2. CASE c = <<>>
      <4>1. Len(k) = 1 /\ k[1].index = n
        BY <3>1, <3>2
      <4>2. n < start_index + 4 \/ n = FirstIndex(b)
        BY <2>3, <3>2, SlotOfNext
      <4> HIDE DEF k
      <4>3. UnbrokenChain(k, b, start_index, n + 1)
        BY <2>4, <2>5, <4>1, <4>2 DEF UnbrokenChain
      <4> QED BY <2>7, <2>8, <3>1, <4>3 DEF k
    <3>3. CASE c # <<>>
      <4>1. c[Len(c)].index = n - 4
        BY <2>3, <3>1, <3>3, SlotOfNext
      <4>2. UnbrokenChain(c, b, start_index, n)
        BY <2>3, <2>4, <3>1, <3>3 DEF Unbroken
      <4>3. UnbrokenChain(k, b, start_index, n + 1)
        <5> HIDE DEF k, c
        <5>1. /\ Len(c) \in 1 .. Len(c) /\ 1 \in 1 .. Len(c) /\ k[1] = c[1]
              /\ c[Len(c)].index = c[1].index + 4 * (Len(c) - 1)
              /\ start_index <= c[1].index
              /\ c[1].index < start_index + 4 \/ c[1].index = FirstIndex(b)
          BY <3>1, <3>3, <4>2 DEF UnbrokenChain
        <5>2. c[1].index \in Nat
          BY <2>3, <2>4, <5>1, SlotTyped DEF ChainsInv, c
        <5>3. \A i \in 1 .. Len(k) : k[i].index = k[1].index + 4 * (i - 1)
          <6> TAKE i \in 1 .. Len(k)
          <6>1. CASE i = Len(c) + 1
            <7>1. \A x \in Nat, l \in Nat : n - 4 = x + 4 * (l - 1) => n = x + 4 * ((l + 1) - 1)
              BY <2>4
            <7>2. n = c[1].index + 4 * ((Len(c) + 1) - 1)
              BY <3>1, <4>1, <5>1, <5>2, <7>1
            <7> QED BY <3>1, <5>1, <6>1, <7>2
          <6>2. CASE i # Len(c) + 1
            BY <3>1, <4>2, <5>1, <6>2 DEF UnbrokenChain
          <6> QED BY <6>1, <6>2
        <5>4. n + 1 <= k[Len(k)].index + 4 /\ n + 1 <= FirstIndex(b + 12)
          BY <2>4, <2>5, <3>1
        <5> QED BY <5>1, <5>3, <5>4 DEF UnbrokenChain
      <4> QED BY <2>7, <2>8, <3>1, <4>3
    <3> QED BY <3>2, <3>3
  <2>9. CASE OpenBlock(n, flag) /\ Holds(s, b, <<Piece(n, flag)>>)
    <3>1. n < start_index + 4 \/ n = FirstIndex(b)
      BY <2>3, <2>9, SlotOfNext DEF OpenBlock
    <3>2. UnbrokenChain(<<Piece(n, flag)>>, b, start_index, n + 1)
      BY <2>4, <2>5, <3>1, PieceTyped DEF UnbrokenChain
    <3> QED BY <2>7, <2>9, <3>2
  <2>10. ~OpenBlockCrash(n)
    BY <2>3, NextSlotHolds DEF OpenBlockCrash
  <2> QED BY <2>1, <2>8, <2>9, <2>10
<1>2. CASE ~PublishData
  <2>1. UNCHANGED <<block_list, next_index, start_index, skipped>>
    BY <1>2, RequestEffect DEF Next, envVars
  <2> QED BY <2>1 DEF RingInv, Unbroken, UnbrokenChain
<1> QED BY <1>1, <1>2

(* An empty ring is unbroken.                                               *)
LEMMA InitRing == Init => RingInv
<1> SUFFICES ASSUME Init PROVE RingInv
  OBVIOUS
<1>1. ChainsInv
  BY InitChains
<1>2. \A s \in Slots : block_list[s].chain = <<>>
  BY DEF Init, EmptySlot
<1>3. start_index \in Nat /\ next_index = start_index
  BY RingAssumption DEF Init
<1> QED BY <1>1, <1>2, <1>3 DEF RingInv, Unbroken

(* Between the oldest block and the newest every slot holds the block that *)
(* is due there, without a hole, while the source skips nothing: what the  *)
(* eviction relies on (thread.c:480-484).                                  *)
THEOREM RingCorrect == Spec => []RingInv
<1> QED BY InitRing, RingStep, PTL DEF Spec

(* A block that the source has gone past has its tail. *)
LEMMA OldBlocksHaveTails == RingInv => OlderBlocksComplete
<1> SUFFICES ASSUME ChainsInv, Unbroken,
                    NEW s \in Slots, NEW t \in Slots,
                    block_list[s].chain # <<>>, block_list[t].chain # <<>>,
                    block_list[t].block_id = block_list[s].block_id + 4
             PROVE  block_list[s].chain[Len(block_list[s].chain)].is_tail
  BY DEF RingInv, OlderBlocksComplete
<1> DEFINE c == block_list[s].chain
           d == block_list[s].block_id
           last == c[Len(c)].index
           first == block_list[t].chain[1].index
           e == block_list[t].block_id
           last2 == block_list[t].chain[Len(block_list[t].chain)].index
<1>1. /\ d \in Nat /\ last \in Nat /\ BlockId(last) = d
      /\ c[Len(c)].is_tail = IsTail(last)
      /\ next_index <= last + 4 \/ c[Len(c)].is_tail
  BY HeldChain
<1>2. e \in Nat /\ last2 \in Nat /\ BlockId(last2) = e /\ last2 < next_index
  BY HeldChain
<1>3. e = d + 4 /\ next_index \in Nat
  BY DEF ChainsInv, WindowType
<1> HIDE DEF d, e, last, last2, c
<1>4. last + 4 < next_index \/ IsTail(last)
  BY <1>1, <1>2, <1>3 DEF BlockId, IsTail
<1> QED BY <1>1, <1>3, <1>4 DEF c

(* Readers that walk a chain find their block, in order, to its tail       *)
(* (rtoh.c:604-621).                                                       *)
THEOREM BlocksSoundCorrect == Spec => []BlocksSound
<1>1. RingInv => OlderBlocksComplete
  BY OldBlocksHaveTails
<1> QED BY <1>1, RingCorrect, SlotsHoldTheirBlocksCorrect, NothingFollowsTailCorrect, PTL
        DEF BlocksSound

-----------------------------------------------------------------------------
(* The bounds. *)

(* The highest block is one that has been begun, and the lowest one too,   *)
(* with everything between them; the lowest is not below the block the     *)
(* stream was joined at before the group of that block is over.            *)
BlockBounds ==
  /\ Published(blocks.blockid_max)
  /\ \A n \in start_index .. next_index - 1 : BlockId(n) <= blocks.blockid_max
  /\ Published(blocks.blockid_min)
  /\ next_index <= FirstIndex(blocks.blockid_min + 12)
  /\ \/ BlockId(start_index) <= blocks.blockid_min
     \/ next_index >= 16 * (start_index \div 16 + 1)

(* The smallest piece is the first there was of the lowest block. *)
SmallestPiece ==
  start_index >= 16 =>
    /\ BlockId(blocks.piece_id_min) = blocks.blockid_min
    /\ start_index <= blocks.piece_id_min /\ blocks.piece_id_min < next_index
    /\ \/ blocks.piece_id_min < start_index + 4
       \/ blocks.piece_id_min = FirstIndex(blocks.blockid_min)

(* In a stream joined at a group the lowest block is the first, or eleven  *)
(* below the highest.                                                      *)
LowestIsOldest ==
  JoinedAtGroup => \/ blocks.blockid_min = BlockId(start_index)
                   \/ FirstIndex(blocks.blockid_min + 11) < next_index

Unset == /\ blocks.piece_id_min = 0 /\ blocks.piece_id_max = 0
         /\ blocks.blockid_min = 0 /\ blocks.blockid_max = 0

Bounds == IF DataSeen THEN BlockBounds /\ SmallestPiece /\ LowestIsOldest
                      ELSE Unset

(* Only requests for blocks to come are waiting. *)
Waiting == \A w \in wait_list : ~w.early => DataSeen /\ w.blockid > blocks.blockid_max

BoundsInv == RingInv /\ (skipped = 0 => Bounds /\ Waiting)

(* At the start the bounds are unset and nobody waits.                      *)
LEMMA InitBounds == Init => BoundsInv
<1> SUFFICES ASSUME Init PROVE BoundsInv
  OBVIOUS
<1>1. RingInv /\ ~DataSeen /\ wait_list = {}
  BY InitRing DEF Init, DataSeen
<1>2. Unset
  BY DEF Init, Unset
<1> QED BY <1>1, <1>2 DEF BoundsInv, Bounds, Waiting

(* Before the first piece every slot is empty.                             *)
LEMMA NothingHeldYet ==
  ASSUME ChainsInv, Unbroken, ~DataSeen
  PROVE  \A s \in Slots : block_list[s].chain = <<>> /\ block_list[s].block_id = 0
<1> SUFFICES ASSUME NEW s \in Slots, block_list[s].chain # <<>> PROVE FALSE
  BY DEF ChainsInv, ChainsSound
<1>1. next_index = start_index /\ start_index \in Nat
  BY DEF DataSeen, ChainsInv, WindowType
<1> DEFINE c == block_list[s].chain
<1>2. /\ c[1].index \in Nat /\ c[Len(c)].index \in Nat /\ Len(c) \in Nat \ {0}
      /\ c[Len(c)].index = c[1].index + 4 * (Len(c) - 1)
      /\ start_index <= c[1].index /\ c[Len(c)].index < next_index
  BY HeldChain
<1> HIDE DEF c
<1> QED BY <1>1, <1>2

(* What a piece does to the bounds while the source skips nothing: an      *)
(* eviction moves the lower ones to the block in the next slot, anything   *)
(* else leaves them, or sets them for the first time.                      *)
LEMMA BoundsAfter ==
  ASSUME ChainsInv, Unbroken, Bounds, NEW flag \in BOOLEAN,
         \/ AppendToBlock(next_index, flag)
         \/ OpenBlock(next_index, flag)
  PROVE  LET n == next_index
             b == BlockId(n)
             low == blocks.blockid_min
             piece == blocks'.piece_id_min
         IN  /\ blocks'.piece_id_max = n
             /\ blocks'.blockid_max = IF blocks.blockid_max < b THEN b ELSE blocks.blockid_max
             /\ \/ /\ n = FirstIndex(b) /\ b >= 13
                   /\ blocks'.blockid_min = b - 11 /\ Published(b - 11)
                   /\ piece \in Nat /\ BlockId(piece) = b - 11
                   /\ start_index <= piece /\ piece < n
                   /\ piece < start_index + 4 \/ piece = FirstIndex(b - 11)
                \/ /\ blocks'.piece_id_min = IF blocks.piece_id_min = 0 THEN n ELSE blocks.piece_id_min
                   /\ blocks'.blockid_min = IF low = 0 THEN b ELSE low
                   /\ low # 0 => n # FirstIndex(low + 12)
<1> DEFINE n == next_index
           b == BlockId(n)
           s == SlotOf(b)
           low == blocks.blockid_min
           d == block_list[s].block_id
<1>1. /\ n \in Nat /\ start_index \in Nat /\ start_index <= n /\ b \in Nat /\ s \in Slots
      /\ low \in Nat /\ WindowType
      /\ blocks \in BoundsType
  BY IndexInBlock, SlotType DEF ChainsInv, WindowType, Unbroken, BoundsType
<1>2. /\ BoundsWith(n, b) \in BoundsType
      /\ BoundsWith(n, b).piece_id_max = n
      /\ BoundsWith(n, b).blockid_max = IF blocks.blockid_max < b THEN b ELSE blocks.blockid_max
      /\ BoundsWith(n, b).piece_id_min = IF blocks.piece_id_min = 0 THEN n ELSE blocks.piece_id_min
      /\ BoundsWith(n, b).blockid_min = IF low = 0 THEN b ELSE low
  BY <1>1, BoundsTyped DEF BoundsWith
<1>3. ASSUME low # 0, n = FirstIndex(low + 12) PROVE d = low /\ d # b
  <2>1. DataSeen
    BY <1>3 DEF Bounds, Unset
  <2>2. Published(low) /\ n <= FirstIndex(low + 12)
    BY <2>1 DEF Bounds, BlockBounds
  <2>3. block_list[SlotOf(low)].block_id = low
    BY <1>1, <2>2, BegunIsHeld
  <2>4. b = low + 12
    BY <1>1, <1>3, FirstIndexMonotone
  <2>5. SlotOf(low) = s
    <3> HIDE DEF b, low
    <3> QED BY <1>1, <2>4 DEF SlotOf, BLOCK_LIST_MAX, s
  <2> QED BY <1>1, <2>3, <2>4, <2>5
<1>4. CASE AppendToBlock(n, flag)
  <2>1. blocks' = BoundsWith(n, b) /\ d = b
    BY <1>4 DEF AppendToBlock
  <2> QED BY <1>2, <1>3, <2>1
<1>5. CASE OpenBlock(n, flag) /\ d = 0
  <2>1. blocks' = BoundsWith(n, b)
    BY <1>5 DEF OpenBlock
  <2> QED BY <1>2, <1>3, <1>5, <2>1
<1>6. CASE OpenBlock(n, flag) /\ d # 0
  <2>0. d \in Nat /\ d > 0 /\ d # b
    <3>1. d \in Nat
      BY <1>1, SlotTyped
    <3> HIDE DEF d
    <3>2. d # b
      BY <1>6 DEF OpenBlock, d
    <3> QED BY <1>6, <3>1, <3>2
  <2>1. blocks' = BoundsFromNextSlot(BoundsWith(n, b), NextSlot(s))
    BY <1>6, <2>0 DEF OpenBlock
  <2>2. /\ n = FirstIndex(b) /\ b >= 13 /\ Published(b - 11)
        /\ NextSlot(s).block_id = b - 11 /\ NextSlot(s).chain # <<>>
        /\ NextSlot(s) = block_list[SlotOf(b - 11)]
    BY <2>0, NextSlotHolds
  <2> DEFINE c == NextSlot(s).chain
             piece == c[1].index
  <2>3. /\ blocks'.piece_id_max = BoundsWith(n, b).piece_id_max
        /\ blocks'.blockid_max = BoundsWith(n, b).blockid_max
        /\ blocks'.blockid_min = b - 11
        /\ blocks'.piece_id_min = piece
    <3> HIDE DEF b, n, piece
    <3> QED BY <1>2, <2>1, <2>2 DEF BoundsFromNextSlot, BoundsType, piece
  <2>4. PICK e \in Nat : e = b - 11
    BY <1>1, <2>2
  <2>5. SlotOf(e) \in Slots /\ c = block_list[SlotOf(e)].chain /\ block_list[SlotOf(e)].block_id = e
    BY <2>2, <2>4, SlotType
  <2>6. /\ piece \in Nat /\ BlockId(piece) = e
        /\ start_index <= piece
        /\ piece < start_index + 4 \/ piece = FirstIndex(e)
        /\ Len(c) \in Nat \ {0} /\ c[Len(c)].index \in Nat /\ c[Len(c)].index < n
        /\ c[Len(c)].index = piece + 4 * (Len(c) - 1)
    BY <2>2, <2>5, HeldChain
  <2>7. piece < n
    <3> HIDE DEF piece, c, n
    <3> QED BY <1>1, <2>6
  <2> QED BY <1>2, <2>2, <2>3, <2>4, <2>6, <2>7
<1> QED BY <1>4, <1>5, <1>6

(* Publishing a piece moves the bounds along with the window.               *)
LEMMA BoundsPublish ==
  ASSUME ChainsInv, Unbroken, Bounds, NEW flag \in BOOLEAN,
         \/ AppendToBlock(next_index, flag)
         \/ OpenBlock(next_index, flag),
         next_index' = next_index + 1, start_index' = start_index, WindowType'
  PROVE  Bounds'
<1> DEFINE n == next_index
           b == BlockId(n)
           low == blocks.blockid_min
           max == blocks.blockid_max
           low1 == blocks'.blockid_min
           max1 == blocks'.blockid_max
           piece == blocks.piece_id_min
           piece1 == blocks'.piece_id_min
<1>1. /\ n \in Nat /\ start_index \in Nat /\ start_index <= n /\ b \in Nat
      /\ low \in Nat /\ max \in Nat /\ piece \in Nat
      /\ low1 \in Nat /\ max1 \in Nat /\ piece1 \in Nat
  BY IndexInBlock DEF ChainsInv, WindowType, Unbroken
<1>2. FirstIndex(b) <= n /\ n <= FirstIndex(b) + 12 /\ FirstIndex(b) \in Nat
      /\ FirstIndex(b + 12) = FirstIndex(b) + 48
  BY <1>1, IndexInBlock, FirstIndexMonotone
<1>3. DataSeen'
  BY <1>1 DEF DataSeen
<1>4. DataSeen <=> start_index < n
  BY <1>1 DEF DataSeen
<1>5. ~DataSeen => low = 0 /\ max = 0 /\ piece = 0 /\ n = start_index
  BY <1>1, <1>4 DEF Bounds, Unset
<1>6. DataSeen =>
        /\ \E m \in start_index .. n - 1 : BlockId(m) = max
        /\ \A m \in start_index .. n - 1 : BlockId(m) <= max
        /\ \E m \in start_index .. n - 1 : BlockId(m) = low
        /\ n <= FirstIndex(low + 12)
        /\ BlockId(start_index) <= low \/ n >= 16 * (start_index \div 16 + 1)
        /\ start_index >= 16 =>
             /\ BlockId(piece) = low
             /\ start_index <= piece /\ piece < n
             /\ piece < start_index + 4 \/ piece = FirstIndex(low)
        /\ JoinedAtGroup => low = BlockId(start_index) \/ FirstIndex(low + 11) < n
  BY DEF Bounds, BlockBounds, SmallestPiece, LowestIsOldest, Published
<1>7. /\ max1 = IF max < b THEN b ELSE max
      /\ \/ /\ n = FirstIndex(b) /\ b >= 13
            /\ low1 = b - 11 /\ \E m \in start_index .. n - 1 : BlockId(m) = b - 11
            /\ BlockId(piece1) = b - 11
            /\ start_index <= piece1 /\ piece1 < n
            /\ piece1 < start_index + 4 \/ piece1 = FirstIndex(b - 11)
         \/ /\ piece1 = IF piece = 0 THEN n ELSE piece
            /\ low1 = IF low = 0 THEN b ELSE low
            /\ low # 0 => n # FirstIndex(low + 12)
  BY BoundsAfter DEF Published
<1>8. BlockId(n) = b /\ n \in start_index .. n /\ \A m \in start_index .. n : m = n \/ m \in start_index .. n - 1
  BY <1>1
<1>0. start_index' = start_index /\ next_index' = n + 1 /\ start_index' .. next_index' - 1 = start_index .. n
  BY <1>1
<1> HIDE DEF b, low, max, low1, max1, piece, piece1, n
<1>9. \E m \in start_index .. n : BlockId(m) = max1
  BY <1>1, <1>4, <1>5, <1>6, <1>7, <1>8
<1>10. \A m \in start_index .. n : BlockId(m) <= max1
  <2> TAKE m \in start_index .. n
  <2>1. CASE m = n
    BY <1>1, <1>7, <1>8, <2>1
  <2>2. CASE m # n
    <3>1. m \in start_index .. n - 1 /\ DataSeen /\ BlockId(m) \in Nat
      BY <1>1, <1>4, <1>8, <2>2, IndexInBlock
    <3>2. BlockId(m) <= max
      BY <1>6, <3>1
    <3> QED BY <1>1, <1>7, <3>1, <3>2
  <2> QED BY <2>1, <2>2
<1>11. CASE /\ n = FirstIndex(b) /\ b >= 13
            /\ low1 = b - 11 /\ \E m \in start_index .. n - 1 : BlockId(m) = b - 11
            /\ BlockId(piece1) = b - 11
            /\ start_index <= piece1 /\ piece1 < n
            /\ piece1 < start_index + 4 \/ piece1 = FirstIndex(b - 11)
  <2>1. /\ \E m \in start_index .. n : BlockId(m) = low1
        /\ n + 1 <= FirstIndex(low1 + 12)
        /\ FirstIndex(low1 + 11) < n + 1
    BY <1>1, <1>11 DEF FirstIndex
  <2>2. BlockId(start_index) <= low1 \/ n + 1 >= 16 * (start_index \div 16 + 1)
    BY <1>1, <1>11 DEF FirstIndex, BlockId
  <2>3. BlockBounds'
    BY <1>0, <1>9, <1>10, <2>1, <2>2 DEF BlockBounds, Published, max1, low1
  <2>4. SmallestPiece'
    <3>1. piece1 < n + 1
      BY <1>1, <1>11
    <3> QED BY <1>0, <1>11, <3>1 DEF SmallestPiece, piece1, low1
  <2>5. LowestIsOldest'
    BY <1>0, <2>1 DEF LowestIsOldest, low1
  <2> QED BY <1>3, <2>3, <2>4, <2>5 DEF Bounds
<1>12. CASE /\ piece1 = IF piece = 0 THEN n ELSE piece
            /\ low1 = IF low = 0 THEN b ELSE low
            /\ low # 0 => n # FirstIndex(low + 12)
  <2>1. \E m \in start_index .. n : BlockId(m) = low1
    BY <1>1, <1>4, <1>5, <1>6, <1>8, <1>12
  <2>2. n + 1 <= FirstIndex(low1 + 12)
    <3>1. CASE low = 0
      BY <1>1, <1>2, <1>12, <3>1
    <3>2. CASE low # 0
      <4>1. n <= FirstIndex(low + 12) /\ n # FirstIndex(low + 12) /\ FirstIndex(low + 12) \in Nat
        BY <1>1, <1>5, <1>6, <1>12, <3>2 DEF FirstIndex
      <4> QED BY <1>1, <1>12, <3>2, <4>1
    <3> QED BY <3>1, <3>2
  <2>3. BlockId(start_index) <= low1 \/ n + 1 >= 16 * (start_index \div 16 + 1)
    <3>1. CASE ~DataSeen
      BY <1>1, <1>5, <1>8, <1>12, <3>1
    <3>2. CASE DataSeen
      BY <1>1, <1>6, <1>12, <3>2 DEF BlockId
    <3> QED BY <3>1, <3>2
  <2>4. ASSUME start_index >= 16
        PROVE  /\ BlockId(piece1) = low1
               /\ start_index <= piece1 /\ piece1 < n + 1
               /\ piece1 < start_index + 4 \/ piece1 = FirstIndex(low1)
    <3>1. CASE ~DataSeen
      BY <1>1, <1>5, <1>8, <1>12, <2>4, <3>1
    <3>2. CASE DataSeen
      <4>1. piece # 0 /\ piece1 = piece /\ BlockId(piece) = low
        BY <1>1, <1>6, <1>12, <2>4, <3>2
      <4>2. low # 0
        BY <1>1, <1>6, <2>4, <3>2, <4>1 DEF BlockId
      <4> QED BY <1>1, <1>6, <1>12, <2>4, <3>2, <4>1, <4>2
    <3> QED BY <3>1, <3>2
  <2>5. ASSUME JoinedAtGroup PROVE low1 = BlockId(start_index) \/ FirstIndex(low1 + 11) < n + 1
    <3>1. CASE ~DataSeen
      BY <1>1, <1>5, <1>8, <1>12, <3>1
    <3>2. CASE DataSeen
      <4>1. start_index >= 16
        BY <1>1, <2>5 DEF JoinedAtGroup
      <4>2. low # 0
        BY <1>1, <1>6, <3>2, <4>1 DEF BlockId
      <4> QED BY <1>1, <1>6, <1>12, <2>5, <3>2, <4>2 DEF FirstIndex
    <3> QED BY <3>1, <3>2
  <2>6. BlockBounds'
    BY <1>0, <1>9, <1>10, <2>1, <2>2, <2>3 DEF BlockBounds, Published, max1, low1
  <2>7. SmallestPiece'
    BY <2>4 DEF SmallestPiece, piece1, low1, n
  <2>8. LowestIsOldest'
    BY <2>5 DEF LowestIsOldest, JoinedAtGroup, low1, n
  <2> QED BY <1>3, <2>6, <2>7, <2>8 DEF Bounds
<1> QED BY <1>7, <1>11, <1>12

(* Everything between the advertised bounds has been begun.                *)
LEMMA AdvertisedAreBegun ==
  ASSUME ChainsInv, Unbroken, BlockBounds,
         NEW b \in blocks.blockid_min .. blocks.blockid_max
  PROVE  Published(b) /\ next_index <= FirstIndex(b + 12)
<1> DEFINE n == next_index
           start == start_index
           low == blocks.blockid_min
           max == blocks.blockid_max
<1>1. /\ n \in Nat /\ start \in Nat /\ low \in Nat /\ max \in Nat /\ b \in Nat
      /\ low <= b /\ b <= max
  BY DEF ChainsInv, WindowType
<1>2. PICK m \in Nat : start <= m /\ m < n /\ BlockId(m) = max
  BY <1>1 DEF BlockBounds, Published
<1>3. PICK l \in Nat : start <= l /\ l < n /\ BlockId(l) = low
  BY <1>1 DEF BlockBounds, Published
<1>4. n <= FirstIndex(low + 12)
  BY DEF BlockBounds
<1>5. BlockId(start) <= low \/ n >= 16 * (start \div 16 + 1)
  BY DEF BlockBounds
<1>6. ASSUME NEW w \in Nat, start <= w, w < n, BlockId(w) = b PROVE Published(b)
  BY <1>1, <1>6 DEF Published
<1> HIDE DEF n, start, low, max
<1>7. ASSUME b \div 4 > start \div 16 PROVE Published(b)
  <2>1. /\ FirstIndex(b) \in Nat /\ start <= FirstIndex(b)
        /\ FirstIndex(b) < n /\ BlockId(FirstIndex(b)) = b
    BY <1>1, <1>2, <1>7 DEF FirstIndex, BlockId
  <2> QED BY <1>6, <2>1
<1>8. b \div 4 >= start \div 16
  BY <1>1, <1>3 DEF BlockId
<1>9. ASSUME b \div 4 = start \div 16 /\ b % 4 >= start % 4 PROVE Published(b)
  <2> DEFINE w == 4 * (start \div 4) + (b % 4)
  <2>1. w \in Nat /\ start <= w /\ BlockId(w) = b
    BY <1>1, <1>9 DEF BlockId
  <2>2. w < n
    BY <1>1, <1>2, <1>9 DEF BlockId
  <2> HIDE DEF w
  <2> QED BY <1>6, <2>1, <2>2
<1>10. ASSUME b \div 4 = start \div 16 /\ b % 4 < start % 4 PROVE Published(b)
  <2> DEFINE w == 4 * (l \div 4) + (b % 4)
  <2>1. low \div 4 = start \div 16 /\ l \div 16 = start \div 16 /\ l % 4 <= b % 4
    BY <1>1, <1>3, <1>10 DEF BlockId
  <2>2. n >= 16 * (start \div 16 + 1)
    BY <1>1, <1>5, <1>10, <2>1 DEF BlockId
  <2>3. w \in Nat /\ start <= w /\ w < n /\ BlockId(w) = b
    BY <1>1, <1>3, <1>10, <2>1, <2>2 DEF BlockId
  <2> HIDE DEF w
  <2> QED BY <1>6, <2>3
<1>11. Published(b)
  BY <1>1, <1>7, <1>8, <1>9, <1>10
<1>12. n <= FirstIndex(b + 12)
  BY <1>1, <1>4 DEF FirstIndex
<1> QED BY <1>11, <1>12 DEF n

(* The linear scan finds a block that is in its slot.                      *)
LEMMA HeldIsFound ==
  ASSUME ChainsInv, NEW b \in Nat,
         block_list[SlotOf(b)].block_id = b, block_list[SlotOf(b)].chain # <<>>
  PROVE  /\ MatchingSlots(b) # {}
         /\ block_list[FirstMatch(b)].chain # <<>>
<1>1. SlotOf(b) \in MatchingSlots(b) /\ MatchingSlots(b) \subseteq Nat
  BY SlotType DEF MatchingSlots, Slots
<1>2. \A t \in MatchingSlots(b) : SlotOf(b) <= t
  <2> SUFFICES ASSUME NEW t \in Slots, block_list[t].block_id = b PROVE SlotOf(b) <= t
    BY DEF MatchingSlots
  <2>1. CASE block_list[t].chain # <<>>
    <3>1. SlotOf(b) = t
      BY <2>1 DEF ChainsInv, ChainsSound
    <3> QED BY <3>1 DEF Slots
  <2>2. CASE block_list[t].chain = <<>>
    <3>1. b = 0
      BY <2>2 DEF ChainsInv, ChainsSound
    <3> QED BY <3>1 DEF SlotOf, Slots, BLOCK_LIST_MAX
  <2> QED BY <2>1, <2>2
<1>3. FirstMatch(b) \in MatchingSlots(b) /\ \A t \in MatchingSlots(b) : FirstMatch(b) <= t
  BY <1>1, <1>2 DEF FirstMatch
<1>4. FirstMatch(b) = SlotOf(b)
  BY <1>1, <1>2, <1>3
<1> QED BY <1>1, <1>4

(* So that every advertised block is answered at once.                     *)
LEMMA AdvertisedAreFound ==
  ASSUME ChainsInv, Unbroken, BlockBounds,
         NEW b \in blocks.blockid_min .. blocks.blockid_max
  PROVE  Lookup(b) = "found"
<1>1. Published(b) /\ next_index <= FirstIndex(b + 12)
  BY AdvertisedAreBegun
<1>2. b \in Nat /\ blocks.blockid_min \in Nat /\ blocks.blockid_max \in Nat
  BY DEF ChainsInv, WindowType
<1>3. MatchingSlots(b) # {} /\ block_list[FirstMatch(b)].chain # <<>>
  BY <1>1, <1>2, BegunIsHeld, HeldIsFound
<1>4. ~(b > blocks.blockid_max + 100 \/ b < blocks.blockid_min)
  BY <1>2
<1> QED BY <1>3, <1>4 DEF Lookup

(* Who is parked waits for a block to come, and is taken off the list before *)
(* the window reaches it.                                                   *)
LEMMA WaitingStep ==
  ASSUME ChainsInv, Unbroken, Bounds, Waiting, [Next]_vars, skipped' = 0
  PROVE  Waiting'
<1>0. WindowType
  BY DEF ChainsInv
<1>1. CASE PublishData
  <2>1. PICK flag \in BOOLEAN :
          LET n == next_index
              b == BlockId(n)
              s == SlotOf(b)
          IN  /\ SourceSteps(flag) /\ FlagAllowed(flag) /\ ~crashed
              /\ \/ /\ AppendToBlock(n, flag)
                    /\ Holds(s, b, Append(block_list[s].chain, Piece(n, flag)))
                 \/ /\ OpenBlock(n, flag)
                    /\ Holds(s, b, <<Piece(n, flag)>>)
                 \/ OpenBlockCrash(n)
    BY <1>0, <1>1, PublishEffect
  <2> DEFINE n == next_index
             b == BlockId(n)
             s == SlotOf(b)
             max == blocks.blockid_max
  <2>2. n' = n + 1 /\ start_index' = start_index
    BY <1>0, <2>1, SourceMoves
  <2>3. /\ n \in Nat /\ start_index \in Nat /\ start_index <= n /\ b \in Nat /\ s \in Slots
        /\ max \in Nat
    BY IndexInBlock, SlotType DEF ChainsInv, WindowType, Unbroken
  <2>4. DataSeen'
    BY <2>2, <2>3 DEF DataSeen
  <2>5. ~OpenBlockCrash(n)
    BY NextSlotHolds DEF OpenBlockCrash
  <2>6. blocks'.blockid_max = IF max < b THEN b ELSE max
    BY <2>1, <2>5, BoundsAfter
  <2>7. ASSUME NEW w \in wait_list, ~w.early
        PROVE  w.blockid \in Nat /\ w.blockid > max /\ b <= max + 1
    <3>1. DataSeen /\ w.blockid \in Nat /\ w.blockid > max
      BY <1>0, <2>7 DEF Waiting, WindowType
    <3>2. n - 1 \in start_index .. n - 1 /\ BlockId(n - 1) <= max
      BY <2>3, <3>1 DEF Bounds, BlockBounds, DataSeen
    <3>3. b <= BlockId(n - 1) + 1
      BY <2>3, <3>2 DEF BlockId
    <3>4. BlockId(n - 1) \in Nat
      BY <2>3, <3>2, IndexInBlock
    <3> HIDE DEF b, max
    <3> QED BY <2>3, <3>1, <3>2, <3>3, <3>4
  <2>8. CASE AppendToBlock(n, flag) /\ Holds(s, b, Append(block_list[s].chain, Piece(n, flag)))
    <3>1. block_list[s].block_id = b /\ wait_list' = wait_list
      BY <2>8 DEF AppendToBlock
    <3>2. DataSeen => b <= max
      <4>1. CASE block_list[s].chain = <<>>
        BY <2>3, <3>1, <4>1 DEF ChainsInv, ChainsSound
      <4>2. ASSUME block_list[s].chain # <<>>, DataSeen PROVE b <= max
        <5> DEFINE c == block_list[s].chain
                   first == c[1].index
        <5>1. /\ first \in Nat /\ BlockId(first) = b /\ start_index <= first
              /\ Len(c) \in Nat \ {0} /\ c[Len(c)].index \in Nat /\ c[Len(c)].index < n
              /\ c[Len(c)].index = first + 4 * (Len(c) - 1)
          BY <2>3, <3>1, <4>2, HeldChain
        <5>2. first \in start_index .. n - 1
          <6> HIDE DEF c, n, first
          <6> QED BY <2>3, <5>1
        <5> HIDE DEF first
        <5> QED BY <4>2, <5>1, <5>2 DEF Bounds, BlockBounds
      <4> QED BY <4>1, <4>2
    <3>3. ASSUME NEW w \in wait_list, ~w.early PROVE w.blockid > blocks'.blockid_max
      <4>1. DataSeen /\ w.blockid > max
        BY <3>3 DEF Waiting
      <4> HIDE DEF max, b
      <4> QED BY <2>3, <2>6, <3>2, <4>1
    <3> QED BY <2>4, <3>1, <3>3 DEF Waiting
  <2>9. CASE OpenBlock(n, flag) /\ Holds(s, b, <<Piece(n, flag)>>)
    <3>1. wait_list' = {w \in wait_list : w.blockid # b}
      BY <2>9 DEF OpenBlock
    <3>2. ASSUME NEW w \in wait_list, ~w.early, w.blockid # b PROVE w.blockid > blocks'.blockid_max
      <4>1. w.blockid \in Nat /\ w.blockid > max /\ b <= max + 1
        BY <2>7, <3>2
      <4> HIDE DEF max, b
      <4> QED BY <2>3, <2>6, <3>2, <4>1
    <3> QED BY <2>4, <3>1, <3>2 DEF Waiting
  <2> QED BY <2>1, <2>5, <2>8, <2>9
<1>2. CASE RequestParks
  <2>1. PICK b \in RequestIds :
          /\ Lookup(b) = "wait"
          /\ wait_list' = wait_list \union {[blockid |-> b, early |-> ~DataSeen]}
          /\ UNCHANGED <<block_list, blocks, frs, envVars, crashed>>
    BY <1>2 DEF RequestParks
  <2>2. UNCHANGED <<blocks, next_index, start_index>> /\ (DataSeen' <=> DataSeen)
    BY <2>1 DEF envVars, DataSeen
  <2>3. DataSeen => b > blocks.blockid_max
    <3> SUFFICES ASSUME DataSeen, ~(b > blocks.blockid_max) PROVE FALSE
      OBVIOUS
    <3>1. b \in Nat /\ blocks.blockid_min \in Nat /\ blocks.blockid_max \in Nat
      BY RingAssumption DEF ChainsInv, WindowType
    <3>2. ~(b < blocks.blockid_min)
      BY <2>1 DEF Lookup
    <3>3. Lookup(b) = "found"
      BY <3>1, <3>2, AdvertisedAreFound DEF Bounds
    <3> QED BY <2>1, <3>3
  <2> DEFINE new == [blockid |-> b, early |-> ~DataSeen]
  <2>4. new.blockid = b /\ (~new.early => DataSeen)
    BY Zenon
  <2> HIDE DEF new
  <2>5. \A w \in wait_list' : w \in wait_list \/ w = new
    BY <2>1 DEF new
  <2> QED BY <2>2, <2>3, <2>4, <2>5 DEF Waiting
<1>3. CASE RequestCrash \/ UNCHANGED vars
  <2>1. UNCHANGED <<blocks, next_index, start_index, wait_list>>
    BY <1>3 DEF RequestCrash, vars, envVars
  <2> QED BY <2>1 DEF Waiting, DataSeen
<1> QED BY <1>1, <1>2, <1>3 DEF Next

(* The bounds and the parked requests are right after every step.           *)
LEMMA BoundsStep == BoundsInv /\ [Next]_vars => BoundsInv'
<1> SUFFICES ASSUME BoundsInv, [Next]_vars PROVE BoundsInv'
  OBVIOUS
<1>1. RingInv' /\ WindowType' /\ WindowType
  BY RingStep DEF BoundsInv, RingInv, ChainsInv
<1>2. ASSUME skipped' = 0, PublishData PROVE Bounds' /\ Waiting'
  <2>1. PICK flag \in BOOLEAN :
          /\ SourceSteps(flag)
          /\ \/ AppendToBlock(next_index, flag)
             \/ OpenBlock(next_index, flag)
             \/ OpenBlockCrash(next_index)
    BY <1>2 DEF PublishData
  <2>2. skipped = 0 /\ next_index' = next_index + 1 /\ start_index' = start_index
    BY <1>1, <1>2, <2>1, SourceMoves
  <2>3. ChainsInv /\ Unbroken /\ Bounds /\ Waiting
    BY <2>2 DEF BoundsInv, RingInv
  <2>4. ~OpenBlockCrash(next_index)
    BY <2>3, NextSlotHolds DEF OpenBlockCrash
  <2> QED BY <1>1, <1>2, <2>1, <2>2, <2>3, <2>4, BoundsPublish, WaitingStep
<1>3. ASSUME skipped' = 0, ~PublishData PROVE Bounds' /\ Waiting'
  <2>1. UNCHANGED <<block_list, blocks, start_index, next_index, skipped>>
    BY <1>3, RequestEffect DEF Next, envVars
  <2>2. ChainsInv /\ Unbroken /\ Bounds /\ Waiting
    BY <1>3, <2>1 DEF BoundsInv, RingInv
  <2>3. Bounds'
    BY <2>1, <2>2 DEF Bounds, BlockBounds, Published, SmallestPiece, LowestIsOldest,
                      JoinedAtGroup, Unset, DataSeen
  <2> QED BY <1>3, <2>2, <2>3, WaitingStep
<1> QED BY <1>1, <1>2, <1>3 DEF BoundsInv

(* The advertised bounds describe the window, and only requests for blocks *)
(* to come are parked, while the source skips nothing.                     *)
THEOREM BoundsCorrect == Spec => []BoundsInv
<1> QED BY InitBounds, BoundsStep, PTL DEF Spec

(* A parked request is for a block still to come (rtoh.c:392-404,          *)
(* thread.c:486-495).                                                      *)
THEOREM ParkedIsAheadCorrect == Spec => []ParkedIsAhead
<1>1. BoundsInv => ParkedIsAhead
  BY DEF BoundsInv, Waiting, ParkedIsAhead
<1> QED BY <1>1, BoundsCorrect, PTL

(* Every block between the advertised bounds is answered at once           *)
(* (rtoh.c:373-391, thread.c:438-443, 480-484).                            *)
THEOREM AdvertisedBlocksHeldCorrect == Spec => []AdvertisedBlocksHeld
<1>1. BoundsInv => AdvertisedBlocksHeld
  BY AdvertisedAreFound DEF BoundsInv, RingInv, Bounds, AdvertisedBlocksHeld
<1> QED BY <1>1, BoundsCorrect, PTL

(* In a stream joined at a group the smallest piece is the first of its    *)
(* block.                                                                  *)
LEMMA JoinedMin ==
  ASSUME ChainsInv, BlockBounds, SmallestPiece, JoinedAtGroup
  PROVE  /\ blocks.piece_id_min = FirstIndex(blocks.blockid_min)
         /\ blocks.piece_id_min \in Nat /\ blocks.blockid_min \in Nat
         /\ start_index \in Nat /\ start_index >= 16 /\ start_index % 16 = 0
<1> DEFINE p == blocks.piece_id_min
           low == blocks.blockid_min
<1>1. p \in Nat /\ low \in Nat /\ start_index \in Nat
  BY DEF ChainsInv, WindowType
<1>2. start_index >= 16 /\ start_index % 16 = 0
  BY <1>1 DEF JoinedAtGroup
<1>3. /\ BlockId(p) = low /\ start_index <= p
      /\ p < start_index + 4 \/ p = FirstIndex(low)
  BY <1>2 DEF SmallestPiece
<1> HIDE DEF p, low
<1>4. p = FirstIndex(low)
  BY <1>1, <1>2, <1>3 DEF BlockId, FirstIndex
<1> QED BY <1>1, <1>2, <1>4 DEF p, low

(* MIN is a piece that the ring holds.                                      *)
LEMMA SmallestIsHeld ==
  ASSUME ChainsInv, Unbroken, BlockBounds, SmallestPiece, start_index >= 16
  PROVE  blocks.piece_id_min \in RetainedIndices
<1> DEFINE p == blocks.piece_id_min
           low == blocks.blockid_min
           s == SlotOf(low)
           c == block_list[s].chain
           first == c[1].index
<1>1. p \in Nat /\ low \in Nat /\ start_index \in Nat /\ s \in Slots
  BY SlotType DEF ChainsInv, WindowType
<1>2. /\ BlockId(p) = low /\ start_index <= p
      /\ p < start_index + 4 \/ p = FirstIndex(low)
  BY DEF SmallestPiece
<1>3. block_list[s].block_id = low /\ c # <<>>
  BY <1>1, BegunIsHeld DEF BlockBounds
<1>4. /\ first \in Nat /\ BlockId(first) = low /\ start_index <= first
      /\ first < start_index + 4 \/ first = FirstIndex(low)
      /\ c \in Seq(PieceType) /\ Len(c) \in Nat \ {0}
  BY <1>1, <1>3, HeldChain
<1>5. p = first
  <2> HIDE DEF p, low, first
  <2> QED BY <1>1, <1>2, <1>4 DEF BlockId, FirstIndex
<1>6. c[1] \in ToSet(c)
  <2> HIDE DEF c
  <2> QED BY <1>4 DEF ToSet
<1>7. c[1] \in Retained
  BY <1>1, <1>6 DEF Retained
<1> HIDE DEF c
<1> QED BY <1>5, <1>7 DEF RetainedIndices

(* No piece of the ring is smaller than MIN.                                *)
LEMMA NoneIsSmaller ==
  ASSUME ChainsInv, Unbroken, BlockBounds, SmallestPiece, LowestIsOldest, JoinedAtGroup,
         NEW n \in RetainedIndices
  PROVE  blocks.piece_id_min <= n
<1>1. PICK s \in Slots : \E p \in ToSet(block_list[s].chain) : p.index = n
  BY DEF RetainedIndices, Retained
<1> DEFINE c == block_list[s].chain
           d == block_list[s].block_id
           low == blocks.blockid_min
<1>2. PICK i \in 1 .. Len(c) : c[i].index = n
  BY SMTT(40), <1>1 DEF ToSet
<1>3. n \in Nat /\ d \in Nat /\ c \in Seq(PieceType) /\ c # <<>> /\ Len(c) \in Nat
  <2>1. WindowType
    BY DEF ChainsInv
  <2> QED BY <1>1, <1>2, <2>1, SlotTyped
<1>4. BlockId(n) = d
  BY <1>1, <1>2 DEF ChainsInv, ChainsSound, ChainSound
<1>5. /\ c[1].index \in Nat /\ start_index <= c[1].index
      /\ next_index <= FirstIndex(d + 12)
  BY <1>3, HeldChain
<1>6. c[i].index = c[1].index + 4 * (i - 1)
  BY <1>2, <1>3 DEF Unbroken, UnbrokenChain
<1>7. start_index <= n
  <2> HIDE DEF c
  <2>1. start_index \in Nat
    BY DEF ChainsInv, WindowType
  <2> QED BY <1>1, <1>2, <1>3, <1>5, <1>6, <2>1
<1>8. /\ blocks.piece_id_min = FirstIndex(low) /\ low \in Nat
      /\ start_index \in Nat /\ start_index % 16 = 0 /\ next_index \in Nat
  BY JoinedMin DEF ChainsInv, WindowType
<1>9. low = BlockId(start_index) \/ FirstIndex(low + 11) < next_index
  BY DEF LowestIsOldest
<1> HIDE DEF d, low
<1>10. FirstIndex(low) <= n
  <2>1. CASE low = BlockId(start_index)
    BY <1>3, <1>7, <1>8, <2>1 DEF BlockId, FirstIndex
  <2>2. CASE FirstIndex(low + 11) < next_index
    BY SMTT(40), <1>3, <1>4, <1>5, <1>8, <2>2 DEF BlockId, FirstIndex
  <2> QED BY <1>9, <2>1, <2>2
<1> QED BY <1>8, <1>10

(* What the metainfo answer promises can be had, and si.MIN is what        *)
(* rtoh.h:204 says when the stream was joined at a group.                  *)
THEOREM AdvertisedWindowHeldCorrect == Spec => []AdvertisedWindowHeld
<1>1. BoundsInv => MinHeld
  BY SmallestIsHeld DEF BoundsInv, RingInv, Bounds, MinHeld
<1>2. BoundsInv => MinIsSmallest
  <2> SUFFICES ASSUME ChainsInv, Unbroken, BlockBounds, SmallestPiece, LowestIsOldest,
                      JoinedAtGroup
               PROVE  /\ blocks.piece_id_min \in RetainedIndices
                      /\ \A n \in RetainedIndices : blocks.piece_id_min <= n
    BY DEF BoundsInv, RingInv, Bounds, MinIsSmallest
  <2>1. start_index >= 16
    BY JoinedMin
  <2> QED BY <2>1, SmallestIsHeld, NoneIsSmaller
<1> QED BY <1>1, <1>2, BoundsCorrect, AdvertisedBlocksHeldCorrect, PTL DEF AdvertisedWindowHeld

(* Publishing a piece moves no advertised bound back.                       *)
LEMMA WindowStepForward ==
  ASSUME BoundsInv, PublishData, skipped' = 0, JoinedAtGroup, WindowType'
  PROVE  /\ blocks.piece_id_min <= blocks'.piece_id_min
         /\ blocks.blockid_min <= blocks'.blockid_min
         /\ blocks.blockid_max <= blocks'.blockid_max
<1>1. PICK flag \in BOOLEAN :
        /\ SourceSteps(flag)
        /\ \/ AppendToBlock(next_index, flag)
           \/ OpenBlock(next_index, flag)
           \/ OpenBlockCrash(next_index)
  BY DEF PublishData
<1>2. WindowType
  BY DEF BoundsInv, RingInv, ChainsInv
<1>3. ChainsInv /\ Unbroken /\ Bounds
  BY <1>1, <1>2, SourceMoves DEF BoundsInv, RingInv
<1>4. ~OpenBlockCrash(next_index)
  BY <1>3, NextSlotHolds DEF OpenBlockCrash
<1> DEFINE n == next_index
           b == BlockId(n)
           low == blocks.blockid_min
           low1 == blocks'.blockid_min
           p == blocks.piece_id_min
           p1 == blocks'.piece_id_min
<1>5. /\ blocks'.blockid_max = IF blocks.blockid_max < b THEN b ELSE blocks.blockid_max
      /\ \/ /\ n = FirstIndex(b) /\ b >= 13 /\ low1 = b - 11 /\ Published(b - 11)
            /\ BlockId(p1) = b - 11
         \/ /\ p1 = IF p = 0 THEN n ELSE p
            /\ low1 = IF low = 0 THEN b ELSE low
  BY <1>1, <1>3, <1>4, BoundsAfter
<1>6. /\ n \in Nat /\ b \in Nat /\ low \in Nat /\ low1 \in Nat /\ p \in Nat /\ p1 \in Nat
      /\ blocks.blockid_max \in Nat
  BY <1>2, IndexInBlock DEF WindowType
<1>7. CASE ~DataSeen
  <2>1. p = 0 /\ low = 0
    BY <1>3, <1>7 DEF Bounds, Unset
  <2> HIDE DEF p, low, p1, low1, b
  <2> QED BY <1>5, <1>6, <2>1 DEF p, low, p1, low1
<1>8. CASE DataSeen
  <2>1. BlockBounds /\ SmallestPiece /\ LowestIsOldest
    BY <1>3, <1>8 DEF Bounds
  <2>2. /\ p = FirstIndex(low) /\ start_index \in Nat
        /\ start_index % 16 = 0 /\ start_index >= 16
    BY <1>3, <2>1, JoinedMin
  <2>3. low = BlockId(start_index) \/ FirstIndex(low + 11) < n
    BY <2>1 DEF LowestIsOldest
  <2>4. Published(b - 11) => \E m \in Nat : start_index <= m /\ BlockId(m) = b - 11
    BY <1>6, <2>2 DEF Published
  <2> HIDE DEF p, low, p1, low1, b, n
  <2>5. CASE /\ n = FirstIndex(b) /\ b >= 13 /\ low1 = b - 11 /\ Published(b - 11)
             /\ BlockId(p1) = b - 11
    <3>1. low <= low1
      <4>1. CASE low = BlockId(start_index)
        BY <1>6, <2>2, <2>4, <2>5, <4>1 DEF BlockId
      <4>2. CASE FirstIndex(low + 11) < n
        BY <1>6, <2>5, <4>2 DEF FirstIndex
      <4> QED BY <2>3, <4>1, <4>2
    <3>2. p <= p1
      BY <1>6, <2>2, <2>5, <3>1 DEF BlockId, FirstIndex
    <3> QED BY <1>5, <1>6, <3>1, <3>2 DEF p, low, p1, low1
  <2>6. CASE /\ p1 = IF p = 0 THEN n ELSE p
             /\ low1 = IF low = 0 THEN b ELSE low
    BY <1>5, <1>6, <2>6 DEF p, low, p1, low1
  <2> QED BY <1>5, <2>5, <2>6
<1> QED BY <1>7, <1>8

(* The advertised window never moves back in a stream joined at a group    *)
(* (thread.c:438-443, 480-484).                                            *)
THEOREM WindowMovesForwardCorrect == Spec => WindowMovesForward
<1>1. BoundsInv /\ BoundsInv' /\ [Next]_vars =>
        [ skipped' = 0 /\ JoinedAtGroup =>
            /\ blocks.piece_id_min <= blocks'.piece_id_min
            /\ blocks.blockid_min <= blocks'.blockid_min
            /\ blocks.blockid_max <= blocks'.blockid_max ]_vars
  <2> SUFFICES ASSUME BoundsInv, WindowType', Next, skipped' = 0, JoinedAtGroup
               PROVE  /\ blocks.piece_id_min <= blocks'.piece_id_min
                      /\ blocks.blockid_min <= blocks'.blockid_min
                      /\ blocks.blockid_max <= blocks'.blockid_max
    BY DEF BoundsInv, RingInv, ChainsInv
  <2>1. CASE PublishData
    BY <2>1, WindowStepForward
  <2>2. CASE ~PublishData
    <3>1. UNCHANGED blocks
      BY <2>2, RequestEffect DEF Next
    <3>2. /\ blocks.piece_id_min \in Nat /\ blocks.blockid_min \in Nat
          /\ blocks.blockid_max \in Nat
      BY DEF BoundsInv, RingInv, ChainsInv, WindowType
    <3> QED BY <3>1, <3>2
  <2> QED BY <2>1, <2>2
<1> QED BY <1>1, BoundsCorrect, PTL DEF Spec, WindowMovesForward

(* A NULL head is met only by a request that comes before the stream's     *)
(* first piece (rtoh.c:386-391): the eviction never meets one              *)
(* (thread.c:480-484), nor does a request once there is data.              *)
THEOREM CrashOnlyBeforeDataCorrect == Spec => []CrashOnlyBeforeData
<1>1. Init => CrashOnlyBeforeData
  BY DEF Init, CrashOnlyBeforeData
<1>2. BoundsInv /\ CrashOnlyBeforeData /\ [Next]_vars => CrashOnlyBeforeData'
  <2> SUFFICES ASSUME BoundsInv, CrashOnlyBeforeData, [Next]_vars, crashed', skipped' = 0
               PROVE  ~DataSeen'
    BY DEF CrashOnlyBeforeData
  <2>0. WindowType
    BY DEF BoundsInv, RingInv, ChainsInv
  <2>1. CASE PublishData
    <3>1. PICK flag \in BOOLEAN :
            /\ ~crashed /\ SourceSteps(flag)
            /\ \/ AppendToBlock(next_index, flag)
               \/ OpenBlock(next_index, flag)
               \/ OpenBlockCrash(next_index)
      BY <2>1 DEF PublishData
    <3>2. ChainsInv /\ Unbroken
      BY <2>0, <3>1, SourceMoves DEF BoundsInv, RingInv
    <3>3. ~OpenBlockCrash(next_index)
      BY <3>2, NextSlotHolds DEF OpenBlockCrash
    <3> QED BY <3>1, <3>3 DEF AppendToBlock, OpenBlock
  <2>2. CASE RequestCrash
    <3>1. PICK b \in RequestIds : Lookup(b) = "null_head"
      BY <2>2 DEF RequestCrash
    <3>2. UNCHANGED <<next_index, start_index, skipped>>
      BY <2>2 DEF RequestCrash, envVars
    <3>3. ASSUME DataSeen PROVE FALSE
      <4>1. ChainsInv /\ Unbroken /\ BlockBounds
        BY <3>2, <3>3 DEF BoundsInv, RingInv, Bounds
      <4>2. /\ b \in Nat /\ blocks.blockid_min \in Nat /\ blocks.blockid_max \in Nat
            /\ b >= blocks.blockid_min /\ MatchingSlots(b) # {}
            /\ block_list[FirstMatch(b)].chain = <<>>
        BY <2>0, <3>1, RingAssumption DEF Lookup, WindowType
      <4>3. \E s \in MatchingSlots(b) : \A t \in MatchingSlots(b) : s <= t
        <5>1. MatchingSlots(b) \in SUBSET Nat
          BY DEF MatchingSlots, Slots
        <5> QED BY <4>2, <5>1, LeastOf
      <4>4. FirstMatch(b) \in MatchingSlots(b)
        BY <4>3 DEF FirstMatch
      <4>5. b = 0
        BY <4>1, <4>2, <4>4 DEF MatchingSlots, ChainsInv, ChainsSound
      <4>6. Lookup(b) = "found"
        BY <4>1, <4>2, <4>5, AdvertisedAreFound
      <4> QED BY <3>1, <4>6
    <3> QED BY <3>2, <3>3 DEF DataSeen
  <2>3. CASE RequestParks \/ UNCHANGED vars
    BY <2>3 DEF RequestParks, vars, envVars, CrashOnlyBeforeData, DataSeen
  <2> QED BY <2>1, <2>2, <2>3 DEF Next
<1> QED BY <1>1, <1>2, BoundsCorrect, PTL DEF Spec

-----------------------------------------------------------------------------
(* The key frame index: dropping a chain goes through its pieces in turn.  *)

(* One piece of an evicted chain (thread.c:451-468).                       *)
FrsStep(g, p) == IF p.flag THEN FrsRemove(g, p.index) ELSE g

(* The function that the fold of FrsDropChain builds, on the subsets of the *)
(* chain's positions.                                                      *)
IsIter(g, f, chain, k) ==
  g = [s \in SUBSET (1 .. k) |->
         IF s = {} THEN f ELSE FrsStep(g[s \ {Max(s)}], chain[Max(s)])]

(* The fold over a chain is what its steps give, once they exist.           *)
LEMMA FoldIs ==
  ASSUME NEW f, NEW chain, NEW k, DOMAIN chain = 1 .. k, \E h : IsIter(h, f, chain, k)
  PROVE  \E g : IsIter(g, f, chain, k) /\ FrsDropChain(f, chain) = g[1 .. k]
<1>1. FrsDropChain(f, chain) = (CHOOSE g : IsIter(g, f, chain, k))[1 .. k]
  BY Zenon DEF FrsDropChain, FoldLeft, MapThenFoldSet, FrsStep, IsIter
<1>2. IsIter(CHOOSE g : IsIter(g, f, chain, k), f, chain, k)
  BY Zenon
<1> QED BY <1>1, <1>2

(* The steps of the fold exist for every chain: by induction on its length. *)
LEMMA IterExists ==
  ASSUME NEW f, NEW chain, NEW k \in Nat
  PROVE  \E h : IsIter(h, f, chain, k)
<1> DEFINE Has(n) == \E h : IsIter(h, f, chain, n)
           S == {n \in Nat : ~Has(n)}
<1> SUFFICES ASSUME S # {} PROVE FALSE
  BY Zenon
<1>1. PICK n \in S : \A m \in S : n <= m
  BY LeastOf, Zenon
<1>2. n \in Nat /\ ~Has(n) /\ \A m \in Nat : ~Has(m) => n <= m
  BY <1>1, Zenon
<1> HIDE DEF S
<1>3. n # 0
  <2> SUFFICES Has(0)
    BY <1>2
  <2> DEFINE h == [s \in SUBSET (1 .. 0) |-> f]
  <2>1. \A s \in SUBSET (1 .. 0) : s = {}
    OBVIOUS
  <2>2. IsIter(h, f, chain, 0)
    BY <2>1 DEF IsIter
  <2> QED BY <2>2
<1>4. PICK hp : IsIter(hp, f, chain, n - 1)
  <2>1. n - 1 \in Nat /\ ~(n <= n - 1)
    BY <1>2, <1>3
  <2> QED BY <1>2, <2>1
<1> DEFINE h == [s \in SUBSET (1 .. n) |->
                   IF s = {} THEN f ELSE FrsStep(hp[s \ {Max(s)}], chain[Max(s)])]
<1>5. ASSUME NEW s \in SUBSET (1 .. n), s # {}
      PROVE  h[s \ {Max(s)}] = hp[s \ {Max(s)}]
  <2>1. Max(s) \in s /\ \A x \in s : x <= Max(s)
    BY <1>2, <1>5, MaxOf
  <2>2. s \ {Max(s)} \in SUBSET (1 .. n - 1) /\ s \ {Max(s)} \in SUBSET (1 .. n)
    <3> DEFINE m == Max(s)
    <3> HIDE DEF m
    <3>1. m \in 1 .. n /\ \A x \in s : x \in 1 .. n /\ x <= m
      BY <2>1 DEF m
    <3>2. \A x \in s \ {m} : x \in 1 .. n - 1
      BY <1>2, <3>1
    <3> QED BY <3>2 DEF m
  <2> DEFINE t == s \ {Max(s)}
  <2> HIDE DEF t
  <2>3. h[t] = IF t = {} THEN f ELSE FrsStep(hp[t \ {Max(t)}], chain[Max(t)])
    BY <2>2 DEF t
  <2>4. hp[t] = IF t = {} THEN f ELSE FrsStep(hp[t \ {Max(t)}], chain[Max(t)])
    BY <1>4, <2>2 DEF t, IsIter
  <2> QED BY <2>3, <2>4 DEF t
<1>6. IsIter(h, f, chain, n)
  <2>1. h = [s \in SUBSET (1 .. n) |->
               IF s = {} THEN f ELSE FrsStep(h[s \ {Max(s)}], chain[Max(s)])]
    BY <1>5
  <2> QED BY <2>1, Zenon DEF IsIter
<1> QED BY <1>2, <1>6, Zenon

(* Dropping a chain from the index goes through the chain step by step.     *)
LEMMA FrsDropChainIs ==
  ASSUME NEW f, NEW chain \in Seq(PieceType)
  PROVE  \E g : /\ g[0] = f
                /\ \A i \in 1 .. Len(chain) : g[i] = FrsStep(g[i - 1], chain[i])
                /\ FrsDropChain(f, chain) = g[Len(chain)]
<1> DEFINE k == Len(chain)
<1>1. k \in Nat /\ DOMAIN chain = 1 .. k
  OBVIOUS
<1>2. PICK h : IsIter(h, f, chain, k) /\ FrsDropChain(f, chain) = h[1 .. k]
  BY <1>1, IterExists, FoldIs
<1> HIDE DEF k
<1> DEFINE g == [i \in 0 .. k |-> h[1 .. i]]
<1>3. g[0] = f
  BY <1>1, <1>2 DEF IsIter
<1>4. ASSUME NEW i \in 1 .. k PROVE g[i] = FrsStep(g[i - 1], chain[i])
  <2>1. 1 .. i \in SUBSET (1 .. k) /\ 1 .. i # {} /\ i \in Nat
    BY <1>1
  <2>2. Max(1 .. i) \in 1 .. i /\ \A x \in 1 .. i : x <= Max(1 .. i)
    BY <2>1, MaxOf
  <2>3. Max(1 .. i) = i /\ (1 .. i) \ {i} = 1 .. i - 1
    BY <2>1, <2>2
  <2>4. h[1 .. i] = FrsStep(h[(1 .. i) \ {i}], chain[i])
    BY <1>2, <2>1, <2>3 DEF IsIter
  <2> QED BY <1>1, <2>3, <2>4
<1>5. g[k] = h[1 .. k]
  BY <1>1
<1> HIDE DEF g
<1> QED BY <1>2, <1>3, <1>4, <1>5 DEF k

(* What the frame index lists, in the order of its window.                 *)
FrsType == [start : 0 .. FRAME_LIST_MAX - 1, end : 0 .. FRAME_LIST_MAX - 1,
            frame_list : [0 .. FRAME_LIST_MAX - 1 -> Nat]]

FrsVal(f, k) == f.frame_list[FrsAt(f, k)]

FramesOf(f) == {FrsVal(f, k) : k \in 0 .. FrsLen(f) - 1} \ {0}

(* Frames are in order, and as far back from the next piece as there are   *)
(* places behind them, so that the index cannot fill up before 48 pieces.  *)
FrsSorted(f, next) ==
  \A k \in 0 .. FrsLen(f) - 1 :
    FrsVal(f, k) # 0 => /\ FrsVal(f, k) + (FrsLen(f) - k) <= next
                        /\ \A j \in 0 .. k - 1 : FrsVal(f, j) < FrsVal(f, k)

(* Places of the index wrap around at 48.                                  *)
LEMMA Wrap ==
  ASSUME NEW a \in 0 .. 47, NEW j \in 0 .. 47
  PROVE  (a + j) % 48 = IF a + j < 48 THEN a + j ELSE a + j - 48
  OBVIOUS

(* Different places of the index are different cells of the array.          *)
LEMMA WrapInjective ==
  ASSUME NEW a \in 0 .. 47, NEW j \in 0 .. 47, NEW k \in 0 .. 47, (a + j) % 48 = (a + k) % 48
  PROVE  j = k
  OBVIOUS

(* The cells and entries of the index, with the types the provers ask for.  *)
LEMMA FrsPlaces ==
  ASSUME NEW f \in FrsType
  PROVE  /\ FrsLen(f) \in 0 .. 47 /\ f.start \in 0 .. 47 /\ f.end \in 0 .. 47
         /\ f.end = FrsAt(f, FrsLen(f))
         /\ \A k \in 0 .. 47 : FrsAt(f, k) \in 0 .. 47 /\ FrsVal(f, k) \in Nat
         /\ \A k \in 0 .. 47 : FrsAt(f, k) = IF f.start + k < 48 THEN f.start + k ELSE f.start + k - 48
         /\ \A j, k \in 0 .. 47 : FrsAt(f, j) = FrsAt(f, k) => j = k
<1>1. /\ f.start \in 0 .. 47 /\ f.end \in 0 .. 47 /\ f.frame_list \in [0 .. 47 -> Nat]
  BY DEF FrsType, FRAME_LIST_MAX, BLOCK_LIST_MAX
<1>2. FrsLen(f) \in 0 .. 47 /\ f.end = FrsAt(f, FrsLen(f))
  BY SMTT(40), <1>1 DEF FrsLen, FrsAt, FRAME_LIST_MAX, BLOCK_LIST_MAX
<1>3. \A k \in 0 .. 47 : /\ FrsAt(f, k) = (f.start + k) % 48
                         /\ FrsAt(f, k) = IF f.start + k < 48 THEN f.start + k ELSE f.start + k - 48
                         /\ FrsAt(f, k) \in 0 .. 47
  <2> TAKE k \in 0 .. 47
  <2>1. FrsAt(f, k) = (f.start + k) % 48
    BY DEF FrsAt, FRAME_LIST_MAX, BLOCK_LIST_MAX
  <2>2. FrsAt(f, k) = IF f.start + k < 48 THEN f.start + k ELSE f.start + k - 48
    BY <1>1, <2>1, Wrap
  <2> QED BY <1>1, <2>1, <2>2
<1>4. ASSUME NEW j \in 0 .. 47, NEW k \in 0 .. 47, FrsAt(f, j) = FrsAt(f, k) PROVE j = k
  <2>1. FrsAt(f, j) = (f.start + j) % 48 /\ FrsAt(f, k) = (f.start + k) % 48
    BY <1>3
  <2>2. PICK a \in 0 .. 47 : a = f.start
    BY <1>1
  <2>3. (a + j) % 48 = (a + k) % 48
    BY <1>4, <2>1, <2>2
  <2> HIDE <1>4
  <2> QED BY <2>3, WrapInjective, Zenon
<1> QED BY <1>1, <1>2, <1>3, <1>4 DEF FrsVal

(* Taking a frame out of the index makes it a hole, or moves the start on. *)
LEMMA FrsRemoveEffect ==
  ASSUME NEW f \in FrsType, NEW n \in Nat, NEW next \in Nat, FrsSorted(f, next)
  PROVE  /\ FrsRemove(f, n) \in FrsType
         /\ FrsSorted(FrsRemove(f, n), next)
         /\ FramesOf(FrsRemove(f, n)) = FramesOf(f) \ {n}
<1> DEFINE L == FrsLen(f)
           hits == {k \in 0 .. L - 1 : f.frame_list[FrsAt(f, k)] = n}
           hit == CHOOSE k \in hits : \A j \in hits : k <= j
           g == FrsRemove(f, n)
<1>1. L \in 0 .. 47
  BY FrsPlaces
<1>2. CASE hits = {}
  <2>1. g = f
    BY <1>2 DEF FrsRemove
  <2>2. n \notin FramesOf(f)
    BY <1>2 DEF FramesOf, FrsVal
  <2>3. FramesOf(f) = FramesOf(f) \ {n}
    BY <2>2
  <2> QED BY <2>1, <2>3
<1>3. CASE hits # {}
  <2>1. \E k \in hits : \A j \in hits : k <= j
    <3>1. hits \in SUBSET Nat
      BY <1>1
    <3> QED BY <1>3, <3>1, LeastOf
  <2>2. hit \in hits
    BY <2>1
  <2>3. g = [f EXCEPT !.frame_list[FrsAt(f, hit)] = 0,
                      !.start = IF hit = 0 THEN FrsAt(f, 1) ELSE @]
    BY <1>3 DEF FrsRemove
  <2>4. hit \in 0 .. L - 1 /\ FrsVal(f, hit) = n
    BY <2>2 DEF FrsVal
  <2> HIDE DEF hit, hits, g, L
  <2>5. hit \in 0 .. 47 /\ FrsAt(f, hit) \in 0 .. 47 /\ FrsAt(f, 1) \in 0 .. 47
    BY <1>1, <2>4, FrsPlaces
  <2>6. /\ g \in FrsType /\ g.end = f.end
        /\ g.start = IF hit = 0 THEN FrsAt(f, 1) ELSE f.start
        /\ g.frame_list = [f.frame_list EXCEPT ![FrsAt(f, hit)] = 0]
    <3>1. /\ f = [start |-> f.start, end |-> f.end, frame_list |-> f.frame_list]
          /\ f.start \in 0 .. 47 /\ f.end \in 0 .. 47 /\ f.frame_list \in [0 .. 47 -> Nat]
      BY DEF FrsType, FRAME_LIST_MAX, BLOCK_LIST_MAX
    <3>2. g = [start |-> IF hit = 0 THEN FrsAt(f, 1) ELSE f.start, end |-> f.end,
               frame_list |-> [f.frame_list EXCEPT ![FrsAt(f, hit)] = 0]]
      BY <2>3, <3>1
    <3>3. [f.frame_list EXCEPT ![FrsAt(f, hit)] = 0] \in [0 .. 47 -> Nat]
      BY <2>5, <3>1
    <3> QED BY <2>5, <3>1, <3>2, <3>3 DEF FrsType, FRAME_LIST_MAX, BLOCK_LIST_MAX
  <2>7. \A i \in 0 .. 47 : g.frame_list[i] = IF i = FrsAt(f, hit) THEN 0 ELSE f.frame_list[i]
    BY <2>6 DEF FrsType, FRAME_LIST_MAX, BLOCK_LIST_MAX
  <2>8. ASSUME NEW k \in 0 .. L - 1
        PROVE  /\ FrsVal(f, k) \in Nat
               /\ FrsVal(f, k) = n /\ n # 0 => k = hit
    <3>1. FrsVal(f, k) \in Nat
      BY <1>1, FrsPlaces
    <3>2. ASSUME FrsVal(f, k) = n, n # 0, k < hit PROVE FALSE
      BY <2>4, <3>2 DEF FrsSorted, L
    <3>3. ASSUME FrsVal(f, k) = n, n # 0, hit < k PROVE FALSE
      BY <2>4, <3>3 DEF FrsSorted, L
    <3> QED BY <1>1, <2>4, <3>1, <3>2, <3>3
  <2>9. CASE hit # 0
    <3>1. \A k : FrsAt(g, k) = FrsAt(f, k)
      BY <2>6, <2>9 DEF FrsAt
    <3>2. FrsLen(g) = L
      BY <2>6, <2>9 DEF FrsLen, L
    <3>3. \A k \in 0 .. L - 1 : FrsVal(g, k) = IF k = hit THEN 0 ELSE FrsVal(f, k)
      <4> TAKE k \in 0 .. L - 1
      <4>1. FrsAt(f, k) \in 0 .. 47 /\ (FrsAt(f, k) = FrsAt(f, hit) => k = hit)
        BY SMTT(40), <1>1, <2>5, FrsPlaces
      <4> QED BY <2>7, <3>1, <4>1 DEF FrsVal
    <3>4. FrsSorted(g, next)
      BY <1>1, <2>8, <3>2, <3>3 DEF FrsSorted, L
    <3>5. FramesOf(g) = FramesOf(f) \ {n}
      BY <2>4, <2>8, <3>2, <3>3 DEF FramesOf, L
    <3> QED BY <2>6, <3>4, <3>5 DEF g
  <2>10. CASE hit = 0
    <3>1. L >= 1
      BY <1>1, <2>4
    <3>2. FrsLen(g) = L - 1 /\ \A k \in 0 .. 46 : FrsAt(g, k) = FrsAt(f, k + 1)
      <4>1. /\ f.start \in 0 .. 47 /\ f.end \in 0 .. 47 /\ g.end = f.end
            /\ g.start = IF f.start + 1 < 48 THEN f.start + 1 ELSE f.start + 1 - 48
        BY <2>6, <2>10, FrsPlaces
      <4>2. L = (f.end - f.start) % 48 /\ FrsLen(g) = (g.end - g.start) % 48
        BY DEF L, FrsLen, FRAME_LIST_MAX, BLOCK_LIST_MAX
      <4>3. FrsLen(g) = L - 1
        BY SMTT(40), <3>1, <4>1, <4>2
      <4>4. \A k \in 0 .. 46 : FrsAt(g, k) = FrsAt(f, k + 1)
        BY <4>1 DEF FrsAt, FRAME_LIST_MAX, BLOCK_LIST_MAX
      <4> QED BY <4>3, <4>4
    <3>3. \A k \in 0 .. L - 2 : FrsVal(g, k) = FrsVal(f, k + 1)
      <4> TAKE k \in 0 .. L - 2
      <4>1. FrsAt(f, k + 1) \in 0 .. 47 /\ FrsAt(f, k + 1) # FrsAt(f, hit)
        BY SMTT(40), <1>1, <2>5, <2>10, FrsPlaces
      <4> QED BY SMTT(40), <1>1, <2>7, <3>2, <4>1 DEF FrsVal
    <3>4. FrsSorted(g, next)
      <4> SUFFICES ASSUME NEW k \in 0 .. L - 2, FrsVal(f, k + 1) # 0
                   PROVE  /\ FrsVal(f, k + 1) + (L - 1 - k) <= next
                          /\ \A j \in 0 .. k - 1 : FrsVal(f, j + 1) < FrsVal(f, k + 1)
        BY <1>1, <3>1, <3>2, <3>3 DEF FrsSorted
      <4>1. k + 1 \in 0 .. L - 1 /\ \A j \in 0 .. k - 1 : j + 1 \in 0 .. (k + 1) - 1
        BY <1>1
      <4>2. /\ FrsVal(f, k + 1) + (L - (k + 1)) <= next
            /\ \A j \in 0 .. (k + 1) - 1 : FrsVal(f, j) < FrsVal(f, k + 1)
        BY <4>1 DEF FrsSorted, L
      <4> QED BY <1>1, <4>1, <4>2
    <3>5. FramesOf(g) = FramesOf(f) \ {n}
      <4>1. ASSUME NEW x \in FramesOf(g) PROVE x \in FramesOf(f) \ {n}
        <5>1. PICK k \in 0 .. L - 2 : x = FrsVal(f, k + 1) /\ x # 0
          BY <1>1, <3>1, <3>2, <3>3 DEF FramesOf
        <5>2. k + 1 \in 0 .. L - 1 /\ k + 1 # hit
          BY <1>1, <2>10
        <5> QED BY <2>8, <5>1, <5>2 DEF FramesOf, L
      <4>2. ASSUME NEW x \in FramesOf(f) \ {n} PROVE x \in FramesOf(g)
        <5>1. PICK k \in 0 .. L - 1 : x = FrsVal(f, k) /\ x # 0
          BY DEF FramesOf, L
        <5>2. k # 0
          BY <2>4, <2>10, <4>2, <5>1
        <5>3. k - 1 \in 0 .. L - 2 /\ (k - 1) + 1 = k
          BY <1>1, <5>2
        <5>4. FrsVal(g, k - 1) = x /\ k - 1 \in 0 .. FrsLen(g) - 1
          BY <1>1, <3>1, <3>2, <3>3, <5>1, <5>3
        <5> QED BY <5>1, <5>4 DEF FramesOf
      <4> QED BY <4>1, <4>2
    <3> QED BY <2>6, <3>4, <3>5 DEF g
  <2> QED BY <2>9, <2>10
<1> QED BY <1>2, <1>3

(* The length of the window when its end moves on, and when both ends do.  *)
LEMMA LenGrows ==
  ASSUME NEW a \in 0 .. 47, NEW e \in 0 .. 47, (e - a) % 48 # 47
  PROVE  (((e + 1) % 48) - a) % 48 = ((e - a) % 48) + 1
  OBVIOUS

(* A full index that loses its first entry to a new one stays full.         *)
LEMMA LenStays ==
  ASSUME NEW a \in 0 .. 47, NEW e \in 0 .. 47, (e - a) % 48 = 47
  PROVE  (((e + 1) % 48) - ((a + 1) % 48)) % 48 = 47
  OBVIOUS

(* A frame is added at the end; what a full index loses for it is at least *)
(* 48 pieces old.                                                          *)
LEMMA FrsAddEffect ==
  ASSUME NEW f \in FrsType, NEW n \in Nat, FrsSorted(f, n)
  PROVE  /\ FrsAdd(f, n) \in FrsType
         /\ FrsSorted(FrsAdd(f, n), n + 1)
         /\ FramesOf(FrsAdd(f, n)) \subseteq FramesOf(f) \union {n}
         /\ n # 0 => n \in FramesOf(FrsAdd(f, n))
         /\ \A x \in FramesOf(f) : x \in FramesOf(FrsAdd(f, n)) \/ x + 48 <= n + 1
<1> DEFINE L == FrsLen(f)
           g == FrsAdd(f, n)
           full == (f.end + 1) % 48 = f.start
           M == FrsLen(g)
<1>1. L \in 0 .. 47 /\ f.start \in 0 .. 47 /\ f.end \in 0 .. 47 /\ f.end = FrsAt(f, L)
  BY FrsPlaces
<1>2. L = (f.end - f.start) % 48
  BY DEF FrsLen, FRAME_LIST_MAX, BLOCK_LIST_MAX
<1>3. /\ g = [start |-> IF full THEN FrsAt(f, 1) ELSE f.start, end |-> (f.end + 1) % 48,
              frame_list |-> [f.frame_list EXCEPT ![f.end] = n]]
  BY DEF FrsAdd, FRAME_LIST_MAX, BLOCK_LIST_MAX
<1>4. g \in FrsType
  <2>1. FrsAt(f, 1) \in 0 .. 47 /\ f.frame_list \in [0 .. 47 -> Nat]
    <3>1. f.frame_list \in [0 .. 47 -> Nat]
      BY DEF FrsType, FRAME_LIST_MAX, BLOCK_LIST_MAX
    <3> QED BY <3>1, FrsPlaces
  <2>2. (f.end + 1) % 48 \in 0 .. 47 /\ [f.frame_list EXCEPT ![f.end] = n] \in [0 .. 47 -> Nat]
    BY <1>1, <2>1
  <2> HIDE DEF full, g
  <2> QED BY <1>1, <1>3, <2>1, <2>2 DEF FrsType, FRAME_LIST_MAX, BLOCK_LIST_MAX
<1>5. \A i \in 0 .. 47 : g.frame_list[i] = IF i = f.end THEN n ELSE f.frame_list[i]
  BY <1>1, <1>3 DEF FrsType, FRAME_LIST_MAX, BLOCK_LIST_MAX
<1>6. full <=> L = 47
  BY <1>1, <1>2
<1>7. g.end = (f.end + 1) % 48 /\ g.start = IF full THEN FrsAt(f, 1) ELSE f.start
  BY <1>3
<1>8. M \in 0 .. 47 /\ M = (g.end - g.start) % 48
  BY <1>4, FrsPlaces DEF FrsLen, FRAME_LIST_MAX, BLOCK_LIST_MAX
<1>9. \A k \in 0 .. L - 1 : FrsAt(f, k) # f.end /\ FrsAt(f, k) \in 0 .. 47 /\ FrsVal(f, k) \in Nat
  <2> TAKE k \in 0 .. L - 1
  <2>1. L \in 0 .. 47 /\ f.end = FrsAt(f, L)
    BY <1>1, FrsPlaces
  <2>2. k \in 0 .. 47 /\ k # L
    BY <2>1
  <2>3. FrsAt(f, k) \in 0 .. 47 /\ FrsVal(f, k) \in Nat
    BY <1>1, <2>2, FrsPlaces
  <2>4. FrsAt(f, k) # FrsAt(f, L)
    BY <1>1, <2>1, <2>2, FrsPlaces
  <2> QED BY <2>1, <2>3, <2>4
<1>10. \A k \in 0 .. L - 1 : FrsVal(f, k) # 0 => FrsVal(f, k) + (L - k) <= n
  BY DEF FrsSorted
<1>11. \A k \in 0 .. L - 1 : FrsVal(f, k) # 0 => \A j \in 0 .. k - 1 : FrsVal(f, j) < FrsVal(f, k)
  BY DEF FrsSorted
<1> HIDE DEF g, full, M, L
<1>12. CASE ~full
  <2>1. \A k \in 0 .. 47 : FrsAt(g, k) = FrsAt(f, k)
    BY <1>7, <1>12 DEF FrsAt
  <2>2. M = L + 1
    BY <1>1, <1>2, <1>6, <1>7, <1>8, <1>12, LenGrows
  <2>3. \A k \in 0 .. L - 1 : FrsVal(g, k) = FrsVal(f, k)
    <3> TAKE k \in 0 .. L - 1
    <3>1. k \in 0 .. 47
      BY <1>1
    <3> QED BY <1>5, <1>9, <2>1, <3>1 DEF FrsVal
  <2>4. FrsVal(g, L) = n
    BY <1>1, <1>5, <2>1 DEF FrsVal
  <2>5. FrsSorted(g, n + 1)
    <3> SUFFICES ASSUME NEW k \in 0 .. L, FrsVal(g, k) # 0
                 PROVE  /\ FrsVal(g, k) + (L + 1 - k) <= n + 1
                        /\ \A j \in 0 .. k - 1 : FrsVal(g, j) < FrsVal(g, k)
      BY <1>1, <2>2 DEF FrsSorted, M
    <3>1. CASE k = L
      <4>1. ASSUME NEW j \in 0 .. L - 1 PROVE FrsVal(g, j) < n
        BY <1>1, <1>9, <1>10, <2>3, <2>4, <3>1
      <4> QED BY <1>1, <2>4, <3>1, <4>1
    <3>2. CASE k # L
      <4>1. k \in 0 .. L - 1
        BY <1>1, <3>2
      <4>2. FrsVal(g, k) + (L - k) <= n /\ FrsVal(g, k) \in Nat
        BY <1>9, <1>10, <2>3, <4>1
      <4>3. \A j \in 0 .. k - 1 : FrsVal(g, j) < FrsVal(g, k)
        BY <1>1, <1>11, <2>3, <4>1
      <4> QED BY <1>1, <4>1, <4>2, <4>3
    <3> QED BY <3>1, <3>2
  <2>6. FramesOf(g) = (FramesOf(f) \union {n}) \ {0}
    <3>1. 0 .. M - 1 = (0 .. L - 1) \union {L}
      BY <1>1, <2>2
    <3> QED BY <2>3, <2>4, <3>1 DEF FramesOf, M, L
  <2> QED BY <1>4, <2>5, <2>6 DEF g, FramesOf
<1>13. CASE full
  <2>1. \A k \in 0 .. 46 : FrsAt(g, k) = FrsAt(f, k + 1)
    <3>1. g.start = IF f.start + 1 < 48 THEN f.start + 1 ELSE f.start + 1 - 48
      BY <1>7, <1>13, FrsPlaces
    <3> QED BY <1>1, <3>1 DEF FrsAt, FRAME_LIST_MAX, BLOCK_LIST_MAX
  <2>2. M = 47 /\ L = 47
    <3>1. g.start = IF f.start + 1 < 48 THEN f.start + 1 ELSE f.start + 1 - 48
      BY <1>7, <1>13, FrsPlaces
    <3>2. L = 47
      BY <1>6, <1>13
    <3>3. g.start = (f.start + 1) % 48
      BY <1>1, <3>1
    <3> QED BY <1>1, <1>2, <1>7, <1>8, <3>2, <3>3, LenStays
  <2>3. \A k \in 0 .. 45 : FrsVal(g, k) = FrsVal(f, k + 1)
    <3> TAKE k \in 0 .. 45
    <3>1. k + 1 \in 0 .. L - 1 /\ k \in 0 .. 46
      BY <2>2
    <3> QED BY <1>5, <1>9, <2>1, <3>1 DEF FrsVal
  <2>4. FrsVal(g, 46) = n
    BY <1>1, <1>5, <2>1, <2>2 DEF FrsVal
  <2>5. FrsSorted(g, n + 1)
    <3> SUFFICES ASSUME NEW k \in 0 .. 46, FrsVal(g, k) # 0
                 PROVE  /\ FrsVal(g, k) + (47 - k) <= n + 1
                        /\ \A j \in 0 .. k - 1 : FrsVal(g, j) < FrsVal(g, k)
      BY <2>2 DEF FrsSorted, M
    <3>1. CASE k = 46
      <4>1. ASSUME NEW j \in 0 .. 45 PROVE FrsVal(g, j) < n
        <5>1. j + 1 \in 0 .. L - 1 /\ FrsVal(f, j + 1) \in Nat
          BY <1>9, <2>2
        <5>2. FrsVal(f, j + 1) # 0 => FrsVal(f, j + 1) + (L - (j + 1)) <= n
          BY <1>10, <5>1
        <5> QED BY <2>2, <2>3, <2>4, <3>1, <5>1, <5>2
      <4> QED BY <2>4, <3>1, <4>1
    <3>2. CASE k # 46
      <4>1. k \in 0 .. 45 /\ k + 1 \in 0 .. L - 1 /\ FrsVal(g, k) = FrsVal(f, k + 1)
        BY <2>2, <2>3, <3>2
      <4>2. FrsVal(g, k) + (L - (k + 1)) <= n /\ FrsVal(g, k) \in Nat
        BY <1>9, <1>10, <4>1
      <4>3. \A j \in 0 .. k - 1 : j \in 0 .. 45 /\ j + 1 \in 0 .. (k + 1) - 1
        BY <4>1
      <4>4. \A j \in 0 .. k - 1 : FrsVal(g, j) < FrsVal(g, k)
        BY <1>11, <2>3, <4>1, <4>3
      <4> QED BY <2>2, <4>1, <4>2, <4>4
    <3> QED BY <3>1, <3>2
  <2>6. FramesOf(g) \subseteq FramesOf(f) \union {n}
    <3> SUFFICES ASSUME NEW k \in 0 .. 46, FrsVal(g, k) # 0 PROVE FrsVal(g, k) \in FramesOf(f) \union {n}
      BY <2>2 DEF FramesOf, M
    <3>1. k = 46 \/ (k \in 0 .. 45 /\ k + 1 \in 0 .. L - 1)
      BY <2>2
    <3> QED BY <2>3, <2>4, <3>1 DEF FramesOf, L
  <2>7. n # 0 => n \in FramesOf(g)
    BY <2>2, <2>4 DEF FramesOf, M
  <2>8. ASSUME NEW x \in FramesOf(f) PROVE x \in FramesOf(g) \/ x + 48 <= n + 1
    <3>1. PICK k \in 0 .. L - 1 : x = FrsVal(f, k) /\ x # 0
      BY DEF FramesOf, L
    <3>2. CASE k = 0
      <4>1. x \in Nat /\ x + (L - 0) <= n
        BY <1>9, <1>10, <3>1, <3>2
      <4> QED BY <2>2, <4>1
    <3>3. CASE k # 0
      <4>1. k - 1 \in 0 .. 45 /\ (k - 1) + 1 = k /\ k - 1 \in 0 .. M - 1
        BY <2>2, <3>3
      <4>2. FrsVal(g, k - 1) = x
        BY <2>3, <3>1, <4>1
      <4> QED BY <3>1, <4>1, <4>2 DEF FramesOf, M
    <3> QED BY <3>2, <3>3
  <2> QED BY <1>4, <2>5, <2>6, <2>7, <2>8 DEF g
<1> QED BY <1>12, <1>13

(* The indices of a chain's key pieces.                                    *)
KeysUpTo(c, k) == {c[i].index : i \in {j \in 1 .. k : c[j].flag}}

KeysOf(c) == KeysUpTo(c, Len(c))

(* Evicting a chain takes exactly its key frames out of the index.         *)
LEMMA FrsDropEffect ==
  ASSUME NEW f \in FrsType, NEW chain \in Seq(PieceType), NEW next \in Nat, FrsSorted(f, next)
  PROVE  /\ FrsDropChain(f, chain) \in FrsType
         /\ FrsSorted(FrsDropChain(f, chain), next)
         /\ FramesOf(FrsDropChain(f, chain)) = FramesOf(f) \ KeysOf(chain)
<1>1. PICK g : /\ g[0] = f
               /\ \A i \in 1 .. Len(chain) : g[i] = FrsStep(g[i - 1], chain[i])
               /\ FrsDropChain(f, chain) = g[Len(chain)]
  BY FrsDropChainIs
<1> DEFINE Good(i) == /\ g[i] \in FrsType /\ FrsSorted(g[i], next)
                      /\ FramesOf(g[i]) = FramesOf(f) \ KeysUpTo(chain, i)
           S == {i \in 0 .. Len(chain) : ~Good(i)}
<1>2. Len(chain) \in Nat
  OBVIOUS
<1>3. S = {}
  <2> SUFFICES ASSUME S # {} PROVE FALSE
    OBVIOUS
  <2>1. S \in SUBSET Nat
    OBVIOUS
  <2>2. PICK i \in S : \A j \in S : i <= j
    BY <2>1, LeastOf
  <2>3. i \in 0 .. Len(chain) /\ ~Good(i) /\ \A j \in 0 .. Len(chain) : j < i => Good(j)
    <3>1. \A j \in 0 .. Len(chain) : j < i => ~(i <= j)
      BY <1>2, <2>2
    <3> QED BY <2>2, <3>1
  <2> HIDE DEF S
  <2>4. i # 0
    <3>1. KeysUpTo(chain, 0) = {}
      BY DEF KeysUpTo
    <3> QED BY <1>1, <2>3, <3>1
  <2>5. i \in 1 .. Len(chain) /\ i - 1 \in 0 .. Len(chain) /\ i - 1 < i
    BY <1>2, <2>3, <2>4
  <2>6. Good(i - 1)
    BY <2>3, <2>5
  <2>7. g[i] = FrsStep(g[i - 1], chain[i])
    BY <1>1, <2>5
  <2>8. chain[i] \in PieceType /\ chain[i].index \in Nat
    <3>1. chain[i] \in PieceType
      BY <2>5
    <3> QED BY <3>1 DEF PieceType
  <2>9. CASE chain[i].flag
    <3>1. g[i] = FrsRemove(g[i - 1], chain[i].index)
      BY <2>7, <2>9 DEF FrsStep
    <3>2. KeysUpTo(chain, i) = KeysUpTo(chain, i - 1) \union {chain[i].index}
      <4>1. 1 .. i = (1 .. i - 1) \union {i}
        BY <1>2, <2>5
      <4> QED BY <2>9, <4>1 DEF KeysUpTo
    <3> HIDE DEF Good
    <3>3. /\ g[i - 1] \in FrsType /\ FrsSorted(g[i - 1], next)
          /\ FramesOf(g[i - 1]) = FramesOf(f) \ KeysUpTo(chain, i - 1)
      BY <2>6 DEF Good
    <3>4. /\ g[i] \in FrsType /\ FrsSorted(g[i], next)
          /\ FramesOf(g[i]) = FramesOf(g[i - 1]) \ {chain[i].index}
      BY <2>8, <3>1, <3>3, FrsRemoveEffect
    <3>5. FramesOf(g[i]) = FramesOf(f) \ KeysUpTo(chain, i)
      BY <3>2, <3>3, <3>4
    <3> QED BY <2>3, <3>4, <3>5 DEF Good
  <2>10. CASE ~chain[i].flag
    <3>1. g[i] = g[i - 1]
      BY <2>7, <2>10 DEF FrsStep
    <3>2. KeysUpTo(chain, i) = KeysUpTo(chain, i - 1)
      <4>1. 1 .. i = (1 .. i - 1) \union {i}
        BY <1>2, <2>5
      <4> QED BY <2>10, <4>1 DEF KeysUpTo
    <3> QED BY <2>3, <2>6, <3>1, <3>2
  <2> QED BY <2>9, <2>10
<1>4. Good(Len(chain))
  BY <1>2, <1>3
<1> QED BY <1>1, <1>4 DEF KeysOf

(* The frame index lists retained key pieces, and all of the last 47.      *)
FrsInv ==
  /\ frs \in FrsType
  /\ FrsSorted(frs, next_index)
  /\ FramesOf(frs) \subseteq RetainedKeys
  /\ \A n \in RetainedKeys \ {0} : n + 48 <= next_index \/ n \in FramesOf(frs)

(* The key frames that are held, chain by chain.                            *)
LEMMA RetainedKeysOf ==
  ASSUME WindowType
  PROVE  RetainedKeys = UNION {KeysOf(block_list[s].chain) : s \in Slots}
<1>1. \A s \in Slots : block_list[s].chain \in Seq(PieceType)
  BY SlotTyped
<1>2. \A s \in Slots : DOMAIN block_list[s].chain = 1 .. Len(block_list[s].chain)
  BY <1>1
<1>3. ASSUME NEW n \in RetainedKeys
      PROVE  n \in UNION {KeysOf(block_list[s].chain) : s \in Slots}
  <2>1. PICK p \in Retained : p.flag /\ p.index = n
    BY DEF RetainedKeys
  <2>2. PICK s \in Slots : p \in ToSet(block_list[s].chain)
    BY <2>1 DEF Retained
  <2>3. PICK i \in 1 .. Len(block_list[s].chain) : p = block_list[s].chain[i]
    BY <1>2, <2>2 DEF ToSet
  <2> QED BY <2>1, <2>3 DEF KeysOf, KeysUpTo
<1>4. ASSUME NEW s \in Slots, NEW n \in KeysOf(block_list[s].chain)
      PROVE  n \in RetainedKeys
  <2> DEFINE c == block_list[s].chain
  <2>1. PICK i \in 1 .. Len(c) : c[i].flag /\ c[i].index = n
    BY <1>4 DEF KeysOf, KeysUpTo
  <2>2. c[i] \in ToSet(c)
    BY <1>2, <2>1 DEF ToSet
  <2>3. c[i] \in Retained
    BY <2>2 DEF Retained
  <2> QED BY <2>1, <2>3 DEF RetainedKeys
<1> QED BY <1>3, <1>4

(* No piece is in two slots.                                               *)
LEMMA KeysApart ==
  ASSUME ChainsInv, NEW s \in Slots, NEW t \in Slots, s # t,
         NEW n \in KeysOf(block_list[s].chain)
  PROVE  n \notin KeysOf(block_list[t].chain)
<1> SUFFICES ASSUME n \in KeysOf(block_list[t].chain) PROVE FALSE
  OBVIOUS
<1>1. PICK i \in 1 .. Len(block_list[s].chain) : block_list[s].chain[i].index = n
  BY DEF KeysOf, KeysUpTo
<1>2. PICK j \in 1 .. Len(block_list[t].chain) : block_list[t].chain[j].index = n
  BY DEF KeysOf, KeysUpTo
<1>3. BlockId(n) = block_list[s].block_id /\ BlockId(n) = block_list[t].block_id
  BY <1>1, <1>2 DEF ChainsInv, ChainsSound, ChainSound
<1>4. block_list[s].chain # <<>> /\ block_list[t].chain # <<>>
  BY <1>1, <1>2
<1>5. SlotOf(block_list[s].block_id) = s /\ SlotOf(block_list[t].block_id) = t
  BY <1>4 DEF ChainsInv, ChainsSound
<1> QED BY <1>3, <1>5

(* A piece at the end of a chain adds itself to the key frames, or nothing. *)
LEMMA KeysOfAppend ==
  ASSUME NEW c \in Seq(PieceType), NEW n \in Nat, NEW flag \in BOOLEAN
  PROVE  /\ KeysOf(Append(c, Piece(n, flag))) = KeysOf(c) \union {m \in {n} : flag}
         /\ KeysOf(<<Piece(n, flag)>>) = {m \in {n} : flag}
<1> DEFINE d == Append(c, Piece(n, flag))
<1>1. /\ Len(c) \in Nat /\ Len(d) = Len(c) + 1 /\ d[Len(c) + 1] = Piece(n, flag)
      /\ \A i \in 1 .. Len(c) : d[i] = c[i]
  BY PieceTyped
<1>2. Piece(n, flag).index = n /\ Piece(n, flag).flag = flag
  BY DEF Piece
<1> HIDE DEF d
<1>3. KeysOf(d) = KeysOf(c) \union {m \in {n} : flag}
  <2>1. 1 .. Len(d) = (1 .. Len(c)) \union {Len(d)}
    BY <1>1
  <2>2. {j \in 1 .. Len(d) : d[j].flag} = {j \in 1 .. Len(c) : c[j].flag} \union (IF flag THEN {Len(d)} ELSE {})
    BY <1>1, <1>2, <2>1
  <2>3. \A j \in 1 .. Len(c) : d[j].index = c[j].index
    BY <1>1
  <2>4. d[Len(d)].index = n
    BY <1>1, <1>2
  <2> QED BY <2>2, <2>3, <2>4 DEF KeysOf, KeysUpTo
<1>4. KeysOf(<<Piece(n, flag)>>) = {m \in {n} : flag}
  <2> DEFINE e == <<Piece(n, flag)>>
  <2>1. Len(e) = 1 /\ e[1] = Piece(n, flag)
    OBVIOUS
  <2> HIDE DEF e
  <2>2. {j \in 1 .. Len(e) : e[j].flag} = IF flag THEN {1} ELSE {}
    BY <1>2, <2>1
  <2> QED BY <1>2, <2>1, <2>2 DEF KeysOf, KeysUpTo, e
<1> QED BY <1>3, <1>4 DEF d

(* A sorted index stays below a source that goes on.                        *)
LEMMA FrsLater ==
  ASSUME NEW f \in FrsType, NEW n \in Nat, NEW m \in Nat, n < m, FrsSorted(f, n)
  PROVE  FrsSorted(f, m)
<1>1. \A k \in 0 .. FrsLen(f) - 1 : FrsVal(f, k) \in Nat /\ FrsLen(f) - k \in Nat
  BY FrsPlaces
<1> QED BY <1>1 DEF FrsSorted

(* A publish step, seen from the index: the evicted keys leave it, and a   *)
(* key piece enters it.                                                    *)
LEMMA FrsPublish ==
  ASSUME FrsInv, RetainedKeys \subseteq Nat, NEW flag \in BOOLEAN, NEW m \in Nat, next_index \in Nat, next_index < m,
         NEW dropped \in FrsType, FrsSorted(dropped, next_index),
         NEW Gone, FramesOf(dropped) = FramesOf(frs) \ Gone,
         NEW keys, keys = (RetainedKeys \ Gone) \union {k \in {next_index} : flag},
         NEW new, new = IF flag THEN FrsAdd(dropped, next_index) ELSE dropped
  PROVE  /\ new \in FrsType /\ FrsSorted(new, m)
         /\ FramesOf(new) \subseteq keys
         /\ \A n \in keys \ {0} : n + 48 <= m \/ n \in FramesOf(new)
<1>1. /\ FramesOf(frs) \subseteq RetainedKeys
      /\ \A n \in RetainedKeys \ {0} : n + 48 <= next_index \/ n \in FramesOf(frs)
  BY DEF FrsInv
<1>2. CASE ~flag
  <2>1. FrsSorted(dropped, m)
    BY FrsLater
  <2>2. \A n \in Nat : n + 48 <= next_index => n + 48 <= m
    OBVIOUS
  <2>3. new = dropped /\ keys = RetainedKeys \ Gone
    BY <1>2
  <2>4. \A n \in keys \ {0} : n \in Nat /\ (n + 48 <= next_index \/ n \in FramesOf(new))
    BY <1>1, <2>3
  <2>5. FramesOf(new) \subseteq keys
    BY <1>1, <2>3
  <2> QED BY <2>1, <2>2, <2>3, <2>4, <2>5
<1>3. CASE flag
  <2> DEFINE g == FrsAdd(dropped, next_index)
  <2>1. /\ g \in FrsType /\ FrsSorted(g, next_index + 1)
        /\ FramesOf(g) \subseteq FramesOf(dropped) \union {next_index}
        /\ next_index # 0 => next_index \in FramesOf(g)
        /\ \A x \in FramesOf(dropped) : x \in FramesOf(g) \/ x + 48 <= next_index + 1
    BY FrsAddEffect
  <2>2. FrsSorted(g, m)
    BY <2>1, FrsLater
  <2> HIDE DEF g
  <2>3. new = g /\ keys = (RetainedKeys \ Gone) \union {next_index}
    BY <1>3 DEF g
  <2>4. FramesOf(new) \subseteq keys
    BY <1>1, <2>1, <2>3
  <2>5. ASSUME NEW n \in keys \ {0} PROVE n + 48 <= m \/ n \in FramesOf(new)
    <3>1. CASE n = next_index
      BY <2>1, <2>3, <2>5, <3>1
    <3>2. CASE n # next_index
      <4>1. n \in RetainedKeys \ Gone /\ n \in Nat
        BY <2>3, <2>5, <3>2
      <4>2. n + 48 <= next_index \/ n \in FramesOf(dropped)
        BY <1>1, <2>5, <4>1
      <4>3. n + 48 <= next_index \/ n + 48 <= next_index + 1 \/ n \in FramesOf(g)
        BY <2>1, <4>2
      <4> QED BY <2>3, <4>1, <4>3
    <3> QED BY <3>1, <3>2
  <2> QED BY <2>1, <2>2, <2>3, <2>4, <2>5
<1> QED BY <1>2, <1>3

(* Key frames are piece numbers.                                            *)
LEMMA KeysAreIndices ==
  ASSUME WindowType
  PROVE  RetainedKeys \subseteq Nat
<1>1. \A s \in Slots : \A i \in 1 .. Len(block_list[s].chain) : block_list[s].chain[i].index \in Nat
  BY SlotTyped
<1> QED BY <1>1, RetainedKeysOf DEF KeysOf, KeysUpTo

(* What the slot of the new piece retains is what the step changes.        *)
LEMMA KeysAfter ==
  ASSUME WindowType, WindowType', NEW s \in Slots, NEW b, NEW c, Holds(s, b, c)
  PROVE  RetainedKeys' = (UNION {KeysOf(block_list[t].chain) : t \in Slots \ {s}}) \union KeysOf(c)
<1>1. RetainedKeys' = UNION {KeysOf(block_list'[t].chain) : t \in Slots}
  <2>1. \A t \in Slots : block_list'[t].chain \in Seq(PieceType)
    BY DEF WindowType
  <2>2. \A t \in Slots : DOMAIN block_list'[t].chain = 1 .. Len(block_list'[t].chain)
    BY <2>1
  <2>3. ASSUME NEW n \in RetainedKeys'
        PROVE  n \in UNION {KeysOf(block_list'[t].chain) : t \in Slots}
    <3>1. PICK p \in Retained' : p.flag /\ p.index = n
      BY <2>3 DEF RetainedKeys
    <3>2. PICK t \in Slots : p \in ToSet(block_list'[t].chain)
      BY <3>1 DEF Retained
    <3>3. PICK i \in 1 .. Len(block_list'[t].chain) : p = block_list'[t].chain[i]
      BY <2>2, <3>2 DEF ToSet
    <3> QED BY <3>1, <3>3 DEF KeysOf, KeysUpTo
  <2>4. ASSUME NEW t \in Slots, NEW n \in KeysOf(block_list'[t].chain)
        PROVE  n \in RetainedKeys'
    <3> DEFINE d == block_list'[t].chain
    <3>1. PICK i \in 1 .. Len(d) : d[i].flag /\ d[i].index = n
      BY <2>4 DEF KeysOf, KeysUpTo
    <3>2. d[i] \in ToSet(d)
      BY <2>2, <3>1 DEF ToSet
    <3>3. d[i] \in Retained'
      BY <3>2 DEF Retained
    <3> QED BY <3>1, <3>3 DEF RetainedKeys
  <2> QED BY <2>3, <2>4
<1>2. \A t \in Slots \ {s} : block_list'[t] = block_list[t]
  BY DEF Holds
<1>3. block_list'[s].chain = c
  BY DEF Holds
<1> QED BY <1>1, <1>2, <1>3

FramesInv == ChainsInv /\ FrsInv

(* At the start the index is empty, and so is the ring.                     *)
LEMMA InitFrames == Init => FramesInv
<1> SUFFICES ASSUME Init PROVE FramesInv
  OBVIOUS
<1>1. ChainsInv
  BY InitChains
<1>2. frs \in FrsType /\ FrsLen(frs) = 0
  BY DEF Init, FrsType, FrsLen, FRAME_LIST_MAX, BLOCK_LIST_MAX
<1>3. RetainedKeys = {}
  <2>1. \A s \in Slots : block_list[s].chain = <<>>
    BY DEF Init, EmptySlot
  <2>2. KeysOf(<<>>) = {}
    BY DEF KeysOf, KeysUpTo
  <2> QED BY <1>1, <2>1, <2>2, RetainedKeysOf DEF ChainsInv
<1>4. FrsSorted(frs, next_index) /\ FramesOf(frs) = {}
  BY <1>2 DEF FrsSorted, FramesOf
<1> QED BY <1>1, <1>2, <1>3, <1>4 DEF FramesInv, FrsInv

(* Every step keeps the index sorted, bounded and in agreement with the ring. *)
LEMMA FramesStep == FramesInv /\ [Next]_vars => FramesInv'
<1> SUFFICES ASSUME FramesInv, [Next]_vars PROVE FrsInv'
  BY ChainsStep DEF FramesInv
<1>0. ChainsInv /\ WindowType /\ FrsInv /\ WindowType'
  BY WindowStep DEF FramesInv, ChainsInv
<1>1. CASE PublishData
  <2>1. PICK flag \in BOOLEAN :
          LET n == next_index
              b == BlockId(n)
              s == SlotOf(b)
          IN  /\ SourceSteps(flag) /\ FlagAllowed(flag) /\ ~crashed
              /\ \/ /\ AppendToBlock(n, flag)
                    /\ Holds(s, b, Append(block_list[s].chain, Piece(n, flag)))
                 \/ /\ OpenBlock(n, flag)
                    /\ Holds(s, b, <<Piece(n, flag)>>)
                 \/ OpenBlockCrash(n)
    BY <1>0, <1>1, PublishEffect
  <2> DEFINE n == next_index
             b == BlockId(n)
             s == SlotOf(b)
             c == block_list[s].chain
             others == UNION {KeysOf(block_list[t].chain) : t \in Slots \ {s}}
             new == {m \in {n} : flag}
  <2>2. n \in Nat /\ b \in Nat /\ s \in Slots /\ n' \in Nat /\ n < n'
    BY <1>0, <2>1, IndexInBlock, SlotType, SourceMoves DEF WindowType
  <2>3. c \in Seq(PieceType)
    BY <1>0, <2>2, SlotTyped
  <2>4. RetainedKeys = others \union KeysOf(c)
    BY <1>0, <2>2, RetainedKeysOf
  <2>5. RetainedKeys \subseteq Nat
    BY <1>0, KeysAreIndices
  <2>6. frs \in FrsType /\ FrsSorted(frs, n)
    BY <1>0 DEF FrsInv
  <2>7. KeysOf(c) \intersect others = {}
    BY <1>0, <2>2, KeysApart
  <2> HIDE DEF others
  <2>8. ASSUME NEW dropped \in FrsType, FrsSorted(dropped, n),
               NEW Gone, FramesOf(dropped) = FramesOf(frs) \ Gone,
               RetainedKeys' = (RetainedKeys \ Gone) \union new,
               frs' = IF flag THEN FrsAdd(dropped, n) ELSE dropped
        PROVE  FrsInv'
    <3>1. /\ frs' \in FrsType /\ FrsSorted(frs', n')
          /\ FramesOf(frs') \subseteq RetainedKeys'
          /\ \A x \in RetainedKeys' \ {0} : x + 48 <= n' \/ x \in FramesOf(frs')
      BY <1>0, <2>2, <2>5, <2>8, FrsPublish
    <3> QED BY <3>1 DEF FrsInv
  <2>9. CASE AppendToBlock(n, flag) /\ Holds(s, b, Append(c, Piece(n, flag)))
    <3>1. RetainedKeys' = others \union (KeysOf(c) \union new)
      <4>1. RetainedKeys' = others \union KeysOf(Append(c, Piece(n, flag)))
        BY <1>0, <2>2, <2>9, KeysAfter DEF others
      <4>2. PICK k \in Seq(PieceType) : k = c
        BY <2>3
      <4>3. KeysOf(Append(k, Piece(n, flag))) = KeysOf(k) \union new
        BY <2>2, KeysOfAppend
      <4> HIDE DEF new, c
      <4> QED BY <4>1, <4>2, <4>3
    <3>2. RetainedKeys' = (RetainedKeys \ {}) \union new
      BY <2>4, <3>1
    <3>3. frs' = IF flag THEN FrsAdd(frs, n) ELSE frs
      BY <2>9 DEF AppendToBlock
    <3>4. FramesOf(frs) = FramesOf(frs) \ {}
      OBVIOUS
    <3> HIDE DEF new, n
    <3> QED BY <2>6, <2>8, <3>2, <3>3, <3>4
  <2>10. CASE OpenBlock(n, flag) /\ Holds(s, b, <<Piece(n, flag)>>)
    <3> DEFINE dropped == FrsDropChain(frs, c)
    <3>1. RetainedKeys' = others \union new
      <4>1. RetainedKeys' = others \union KeysOf(<<Piece(n, flag)>>)
        BY <1>0, <2>2, <2>10, KeysAfter DEF others
      <4>2. KeysOf(<<Piece(n, flag)>>) = new
        BY <2>2, <2>3, KeysOfAppend
      <4> HIDE DEF new
      <4> QED BY <4>1, <4>2
    <3>2. RetainedKeys' = (RetainedKeys \ KeysOf(c)) \union new
      BY <2>4, <2>7, <3>1
    <3>3. frs' = IF flag THEN FrsAdd(dropped, n) ELSE dropped
      BY <2>10 DEF OpenBlock
    <3>4. /\ dropped \in FrsType /\ FrsSorted(dropped, n)
          /\ FramesOf(dropped) = FramesOf(frs) \ KeysOf(c)
      BY <2>2, <2>3, <2>6, FrsDropEffect
    <3> HIDE DEF new, n, dropped, c
    <3> QED BY <2>8, <3>2, <3>3, <3>4
  <2>11. CASE OpenBlockCrash(n)
    <3>1. UNCHANGED <<block_list, frs>>
      BY <2>11 DEF OpenBlockCrash
    <3>2. RetainedKeys' = RetainedKeys
      BY <3>1 DEF RetainedKeys, Retained
    <3>3. FrsSorted(frs, n')
      BY <2>2, <2>6, FrsLater
    <3>4. \A x \in RetainedKeys : x \in Nat /\ (x + 48 <= n => x + 48 <= n')
      BY <2>2, <2>5
    <3> QED BY <1>0, <3>1, <3>2, <3>3, <3>4 DEF FrsInv
  <2> QED BY <2>1, <2>9, <2>10, <2>11
<1>2. CASE ~PublishData
  <2>1. UNCHANGED <<block_list, frs, next_index>>
    BY <1>2, RequestEffect DEF Next, envVars
  <2> QED BY <1>0, <2>1 DEF FrsInv, RetainedKeys, Retained
<1> QED BY <1>1, <1>2

(* The key frame index lists key pieces of the window in order, with their *)
(* holes behind them, and stays shorter than its array                     *)
(* (thread.c:451-468, 505-512).                                            *)
THEOREM FramesCorrect == Spec => []FramesInv
<1> QED BY InitFrames, FramesStep, PTL DEF Spec

(* Every variable stays in its type: the frame index never runs out of its *)
(* array, the bounds are block and piece numbers (rtoh.h:160-188).         *)
THEOREM TypeCorrect == Spec => []TypeOK
<1>1. FramesInv => TypeOK
  BY DEF FramesInv, FrsInv, FrsType, ChainsInv, WindowType, TypeOK
<1> QED BY <1>1, FramesCorrect, PTL

(* The metainfo answer lists key pieces that can be had, and all of them   *)
(* among the last 47 pieces (thread.c:451-468, 505-512).                   *)
THEOREM FrameIndexSoundCorrect == Spec => []FrameIndexSound
<1>1. FramesInv => FrameIndexSound
  <2> SUFFICES ASSUME FramesInv PROVE FramesHeld /\ KeyframesAdvertised
    BY DEF FrameIndexSound
  <2>1. Frames = FramesOf(frs)
    BY DEF Frames, FramesOf, FrsVal
  <2>2. RetainedKeys \subseteq Nat /\ next_index \in Nat
    BY KeysAreIndices DEF FramesInv, ChainsInv, WindowType
  <2>3. FramesHeld
    BY <2>1 DEF FramesInv, FrsInv, FramesHeld
  <2>4. ASSUME NEW n \in RetainedKeys \ {0}, next_index - n < FRAME_LIST_MAX PROVE n \in Frames
    <3>1. ~(n + 48 <= next_index)
      BY <2>2, <2>4 DEF FRAME_LIST_MAX, BLOCK_LIST_MAX
    <3> QED BY <2>1, <2>4, <3>1 DEF FramesInv, FrsInv
  <2> QED BY <2>3, <2>4 DEF KeyframesAdvertised
<1> QED BY <1>1, FramesCorrect, PTL

=============================================================================
