# Verification of rtoh

rtoh fetches live streams from an RTMP source and serves them over HTTP, cut
into numbered pieces and blocks. A client first asks for the metainfo of a
stream (`/mediainfo/tn?streamid=...`): codec headers, the bounds of the data
window and the index of key frames. It then asks for blocks
(`/datainfo/<stream>/<block>`), which are sent as chunked replies while their
pieces are still arriving. The first metainfo request for a stream creates it.

This directory holds TLA+ models of the program (`rtoh.c`, `thread.c`,
`assoc.c`) and of the parts it uses of the libraries it vendors
(`librtmp/rtmp.c`, `libhttp/http_parser.c`), TLC configurations that check them
on small instances, and TLAPS proofs for all instances.

## The system

| part | code | state | operations |
|---|---|---|---|
| connections, event loop | `rtoh.c:675-921` | connection structs and their pool, buffers, events | accept, read, write, destroy |
| HTTP parser | `libhttp/http_parser.c`, `http_callback.c` | state, flags, length, bytes read; URL of the connection | execute, `on_url`, `on_message_complete` |
| request routing | `rtoh.c:410-575` | fields of the connection | parse the URL, find or create the item |
| stream registry | `assoc.c:341-540` | two hash tables, `expand_bucket`, `hash_items` | find, insert, delete, expand, under `assoc_lock` |
| item pool | `thread.c:89-152` | `item_head`, `stats.curr_items` | malloc, free, under `item_mm_lock` |
| getter | `thread.c:195-568` | an RTMP session, the piece being assembled | connect, read, publish a piece, wake readers, destroy |
| RTMP session | `librtmp/rtmp.c` | stream id, pending calls, pausing, read buffer | connect, stream, read, close |
| RTMP chunks | `librtmp/rtmp.c:3555-4110` | last header and half-read message of each channel, chunk sizes | read and send a packet |
| piece assembler | `thread.c:224-419` | bytes of a piece, the tag at hand, `lost_tag` | cut the byte stream at piece tags |
| block ring of a stream | `rtoh.h:160-202`, `thread.c:434-513` | twelve slots with chains of pieces, four bounds, key frame index | append, evict, look up, under `it->lock` |
| answers | `rtoh.c:282-409` | the item's two wait lists | answer or park, under `it->lock` |
| block streaming | `rtoh.c:576-674`, `thread.c:545-552` | `conn->piece`, `piece->ref`, wait lists of blocks | send the next piece, park at the end of an open block |
| piece pool | `thread.c:27-90` | `piece_head` | malloc, free, under `piece_mm_lock` |
| start-up | `rtoh.c:922-1095`, `sysv.c` | settings | system calls |

Two kinds of thread run: the main thread, which dispatches events and creates
items, and one getter per item. They share the registry, the pools, the item
(ring, codec headers, wait lists), and every connection that is parked: a
getter writes to parked connections itself, and puts them back under the main
thread's event loop, without a lock. A getter's RTMP session is its own; it
meets the server only.

What is hard here:

- an item is found, created, inserted, used and torn down in separate critical
  sections of different locks, and its cell is used again for another stream;
- a parked connection belongs to the list it is on and to nobody's event loop,
  until one of two threads takes it back;
- pieces are freed by whoever drops the last reference, and a reader looks for
  the next piece without the lock under which it parks;
- the ring's bounds are kept piecemeal, with 0 for "unset", on indices that
  start anywhere;
- the hash table starts an expansion that nothing completes;
- requests come cut into reads anywhere, and the parser's own count of bytes
  says where the next read is parsed from;
- chunks of several messages are interleaved, and later headers leave out what
  earlier ones said;
- a write that fails inside the RTMP client closes the session in the middle of
  a handler, which goes on;
- a piece ends where a tag that follows it says, give or take an offset.

What makes each part correct:

- *pools and ownership*: a cell is free, or owned once; the counters agree;
- *registry*: a dictionary; one item per stream; whoever is registered is being
  fetched; a getter takes out its own item;
- *parked requests*: everyone parked is on one list, of his own stream, and is
  answered or closed in the end;
- *ring*: what is advertised is held; a chain is in order and ends where its
  readers stop; the key frame index lists only frames that are held;
- *block streaming*: a piece is in one place, references count readers, every
  reply is the block's pieces in order, every waiting reader is woken;
- *connections*: a struct is free or in use, waits for one thing, and the
  request that is answered is the one that was sent;
- *chunks*: what is read is what was sent; *session*: each answer is acted on
  once, a stream is deleted once and last, reads are gapless;
- *assembler*: a piece has its part of the server's stream, no more or less.

## Modules

The models are layered, and meet at interfaces instead of being multiplied into
one state space. From the server to the client:

    RtmpChunks -> RtmpSession -> PieceAssembler -> BlockRing / BlockStreaming -> HttpConn
                                                        |
                             StreamLifecycle (items, getters, parked requests)
                                                        |
                             AssocTable => AssocDict (registry)

`HttpConn` extends `HttpParser` and runs it; `AssocTable` refines `AssocDict`,
whose set with a look-up by key is what `StreamLifecycle` uses. Otherwise each
module takes the next one's input as any behaviour that fits its interface:
`PieceAssembler` a byte stream that `RtmpSession` shows to be gapless,
`BlockRing` and `BlockStreaming` a series of pieces, `HttpConn` an item that
answers, goes on reading, or closes.

`BlockRing` - the data window of one stream, one action per critical section of
`it->lock`. `block_list`, `blocks`, `frs` and `wait_list` are the program's
fields. `PublishData` is the whole DATA_PIECE branch: either the slot holds the
piece's block (`AppendToBlock`) or a block is evicted (`OpenBlock`), bounds and
key frame index included; reading a NULL head is `OpenBlockCrash`. `Lookup` is
the block branch of `do_generate_response`; a request that is served or refused
changes nothing here, so only parking and the NULL head are actions. The source
is external: indices go up, with skips if the instance has them, key frames fall
at given distances.

`BlockStreaming` - one stream whose pieces are cells of a pool. The getter
fills a cell (and takes a second one when more has come than fits), publishes it
under the lock (evicting a chain whose readers it counts), takes over the
block's wait list and the item's, and walks it, sending as `on_write_piece`
does, whether or not the connection's header is out. The main thread does the
same for a connection whose socket is writable, after the header. What is under
`it->lock` is a step; everything else is cut where the other thread can come in
between: the test of `p->next` and the parking; at the end of a reply the load
of `ref`, its store, the test, each `free_piece` and each look at the freed
piece's `next` (rtoh.c:610-616); the store of a new reader's count, which the
getter's does not wait for; the header's failure; and `wait_list->next`, read
after `on_write_piece` has returned (thread.c:551). `Group` and `Slots` shrink
the 4 and 12 of the code. A freed piece keeps its contents until it is handed
out again, so stale pointers are followed as the code would; where even that is
not defined, or both threads drive one connection, the behaviour ends, with the
reason in `status`. The history variables name the readers, waiters, slots and
pieces that the known races have hit (`overtaken`, `lost`, `forgotten`,
`stale`, `leaked`, `reused`, `raced`), so that the properties can speak of all
others.

`StreamLifecycle` - pool, registry, parked requests, getters. The main thread
goes loop -> malloc -> init -> insert -> generate -> loop, one section per lock;
a getter goes connect -> run <-> (answer, advance) -> drain -> delete -> free.
The pool and the wait lists are heads and next pointers, as in the code. A
failed assertion, or an answer to a connection that is no longer parked, ends
the behaviour (`status`). A getter thread exits with the same step that frees
its item. `pthread_create` may fail, or find no thread left.

`AssocTable` - the hash table with its two arrays; hash functions are a constant.
One action per `mt_` call. `assoc_expand` moves one bucket (`InsertAndExpand`);
no other caller of `do_assoc_move_next_bucket` exists, so the expansion goes no
further. `AssocDict` is the promise: one partial function from keys to items.

`HttpParser` - `http_parser_execute` for requests in strict mode, as an operator
on a record (the parser, the callbacks so far, the mark of the URL). A byte is a
symbol, and a word that the code matches letter by letter is one symbol.
`HttpConn` - `on_accept`, `on_read`, `on_write`, `on_write_header`,
`generate_response` with its URL grammar, `destroy_conn`, and the pool that
grows by batches. The client's bytes arrive in reads of any size (`Readable`);
a write sends everything, part, or fails. A request for a block is handed to its
item, with a piece or parked, before its header is written; from then on the
item may serve it, wait for its socket, let go of it or destroy it at any time,
before, while and after the main thread writes the header (`header` is the
connection it is at). A struct that an item still has may be closed and given
to the next client. A header that fails for a parked request dereferences NULL,
and the behaviour ends (`crashed`). Assumed of libevent: adding an event again, or setting another callback,
takes the place of the event that was there.

`RtmpChunks` - `RTMP_SendPacket` and `RTMP_ReadPacket` with their channel tables.
The writer is the library itself or a peer that interleaves channels and
repeats extended timestamps as the protocol says; the connection may be lost and
set up again. `RtmpSession` - the struct as one record `r`; `RTMP_Connect`,
`RTMP_ConnectStream`, `RTMP_ClientPacket` with every handler a reading client
can reach, `RTMP_Read` with `Read_1_Packet`, pausing, `RTMP_Close`. Handlers are
compositions of operators on `r`, because a failed write closes the session
half-way through. The server sends anything at any time; a read may time out.

`PieceAssembler` - the loop of `rtmp_getter` around `RTMP_Read`: the unparsed
part, piece tags, the offset that splits media between two pieces, lost media,
the copy to the next buffer, and every return. A byte of media is its number in
the server's stream.

The `MC...` modules are the instances. The theorems about a module `M` and their
proofs are in `MProofs`: `BlockRingProofs`, `BlockStreamingProofs`,
`StreamLifecycleProofs`, `AssocTableProofs`, `HttpConnProofs`,
`RtmpChunksProofs`, `RtmpSessionProofs`. `LeastElement` has what they share: a set
of numbers that is
not empty has a least element, which does the work of induction, and equations
of the form `f[n] = step(f[n - 1])` do define a function.
The operators that a plausible slip in the code would give stand beside the
right ones, named `Fault...`; they are never part of `Next`.

## Runs

| run | what it asks | bounds |
|---|---|---|
| `ring_window` | chains in order and complete; every advertised block and MIN held; key frame index and window agree; nobody waits for the past; the window only moves forward; NULL heads met only before data | joined at each of 16 positions of a group, at 48 and at 0, 1, 3, 12; 104 indices, more than two turns of twelve blocks of four; a hole of 1 or 46; key frames at each or every third piece; requests below, in and above the window |
| `lifecycle_safety` | pool, registry and wait lists sound; a getter deletes its own item | two cells, streams, connections, threads: the least in which a cell changes stream while a request and a hand-over are half-way |
| `lifecycle_short_reads` | the double teardown still gets through or is stopped by an assertion | one stream, one connection, one short read |
| `lifecycle_delete_assert` | violation: an assertion said to be unreachable | one stream, one connection |
| `lifecycle_parked_dying` | violation: parked in the gap of the teardown | one stream, one connection |
| `assoc_table` | the two tables are one dictionary, through an expansion | four items and keys, from one bucket to two and four, three hash functions |
| `streaming_complete` | each piece is in one place, references count readers, what is sent is in order, replies end | two readers of finished blocks, two slots of blocks of two pieces, six cells, pieces 4 to 10: both slots are evicted, also while they are read, and cells are used again; writes may fail |
| `streaming_open` | readers are at their next piece and are sent all of the block; who waits is listed once and will be woken | two readers of finished, open and future blocks, the same ring, five cells, pieces 4 to 9; writes may fail; symmetry of the readers |
| `rtmp_chunks` | messages come out as they went in; reader and writer stay in step; nothing is left over | three messages on two channels, at the edge between basic header forms; bodies of 0 and 3 chunk bytes; two chunk sizes; timestamps on both sides of the extended form; one loss |
| `rtmp_session` | answers acted on once, farewell last, pauses known, reads gapless, a loss closes the socket and ends the getter | two sets of options covering every branch, breaks after 1 and 4 writes or never, six server messages, packets on either side of every size that matters |
| `http` | the request answered is the one sent; structs held once; each connection waits for one thing | two structs in batches of one; eighteen scripts for the first, none for the second, which only takes a struct and gives it back; every way to cut them into reads; a buffer of 23 bytes, which some requests outgrow |
| `pieces` | every piece has its part of the stream; the getter stays in step | six units of media in tags of one or three, three piece tags with every offset, packets of up to two tags, any tag lost; room for 17 units, which some packets outgrow |

`BlockRing` keeps the ring's real size, so the arithmetic is the program's; the
indices are bounded by `MaxSpan` (and `MaxSkips`, `MaxParked`). In the life
cycle only the number of short reads is bounded (`MaxShortReads`); everything
else is finite because cells are. `BlockStreaming` ends after `MaxIndex` pieces,
`RtmpChunks` after `MaxMessages` (with `MaxWire` chunks unread and `MaxLosses`),
`RtmpSession` after `MaxMessages` of the server, `PieceAssembler` after
`MaxMedia` and `MaxPieces`, with `MaxTags` to a packet; clients of `HttpConn`
send one script per connection, and connect again and again. The size of the
HTTP header limit is larger than the read buffer, as in the program, so that
`HPE_HEADER_OVERFLOW` is out of reach, as in the program. Where the instances
are symmetric and no liveness is checked, symmetry is used (`lifecycle_safety`,
`lifecycle_delete_assert`, `assoc_table`, `streaming_open`).

Deadlock is not checked: bounds run out, a process that has asserted takes no
step, a connection may have nothing more to send, and the table may be full.

### What the runs found

Two runs end in a violation, each of a sentence of the code:

- `lifecycle_delete_assert`: `init_item` starts the getter before
  `mt_assoc_insert` (rtoh.c:563-567). An upstream that refuses at once makes the
  getter delete an item that is not there, and `assert` ends the process.
- `lifecycle_parked_dying`: `destroy_item` empties the wait list, unlocks and
  then deregisters. A request parked in between is never answered.

Other disagreements are written into the properties as named exceptions, so
that a run shows that nothing else goes wrong:

- *Life cycle.* `ParkedGetsResponse` also fails without any teardown, for two
  streams and connections and `StreamsEnd = FALSE`: `meta_conn_head->next` is
  read after the answer, when the main thread may have parked the connection on
  another list. `MetaIdIsServed` fails with `Kinds <- AllKinds`:
  `/mediainfo/<stream>/<metaId>` is accepted and falls through
  `do_generate_response` without an answer or an event.
- *Ring.* MIN is the smallest piece only for streams joined at a multiple of 16.
  With a key frame at every piece, the holes that evictions leave in the key
  frame index push out live frames (`FRAME_LIST_MAX` counts holes). A request
  for block 0 before any data, and an eviction beside an unused slot,
  dereference NULL.
- *Block streaming.* A reader that sees `p->next == NULL` just before a piece is
  appended parks beside it and sleeps until the next (`overtaken`, until its next
  request). The last reader of a finished block can free the chain while the ring
  still points at it (`stale`). It gives its reference back and looks at the
  count without the lock, while the getter that evicts the block looks at it
  with the lock: both can see 0, and the chain is freed twice (`raced`,
  `double_free`). It reads a piece's `next` after it has freed it: if the getter
  has taken the piece by then, the rest of the chain is never freed (`leaked`),
  or another chain is (`dangling`). A failed write of a piece leaves its
  reference behind, and a failed header of a request for a future block
  dereferences `conn->piece`, which is NULL. When the getter has served a waiter,
  `wait_list->next` (thread.c:551) leads elsewhere in three cases: the waiter
  has parked again on its block, the main thread has parked it for its next
  request, or it was closed and a new client has its struct. Those behind it on
  the getter's list are on no list any more (`forgotten`), and those on the list
  it leads to are served though they wait (`astray`). The getter does not look
  whether a waiter's header is out: a piece may be sent before or inside the
  header, and a header that waited for its socket loses its event to the piece and
  is never finished; if the main thread then comes to the pieces too,
  both drive one connection (`crossed`, `destroyed`). A request that waited for
  its block takes no reference, so the block can be evicted and its cells used
  again under it, and its end can free the chain of a reader that does count
  (`lost`).
- *HTTP.* A URL that a read cuts is answered for its last part
  (`http_callback.c:30-36`). Of two requests in one read the second's URL is
  answered, and bytes of the second are thrown away (rtoh.c:761). A body that
  comes in several reads is parsed again in part, since the parser's count
  restarts (rtoh.c:743). The answer to a metainfo request is written twice
  (rtoh.c:363 and 767): when the first write fails the struct goes to the pool
  twice, and when it blocks an event is left behind (`late`). A request for a block
  that is served while its header is not out is in both threads' hands from then
  on (`crossed`): both may destroy it.
- *Chunks.* `RTMP_SendPacket` does not repeat an extended timestamp, which
  `RTMP_ReadPacket` looks for in every chunk. `RTMP_Close` keeps the chunk size
  for a connection that starts with the default. A message at the same time as
  the last but one leaves its timestamp out, and its reader adds the last
  difference again.
- *Session.* After a timeout the getter ends with the socket open, and so it does
  when its buffer is full, so that it reads 0 bytes, or when it gives a piece up
  for a cut tag, an offset or want of memory; only a loss that is noticed closes
  the socket (`LossClosesSocket`). `RTMP_LF_BUFX`, without which `m_pausing` stays
  0, is set nowhere in the program: `PauseIsKnown`, and the set of options with
  it, are about the library the program vendors. A corrupted
  embedded FLV stream is noticed, but the status it sets is overwritten
  (rtmp.c:4945).
- *Assembler.* A piece with an offset but no media of its own can be given the
  next piece's media. A piece without an offset is not checked for length.
  After a loss within the part that is kept, a piece can have the right length
  and the wrong media. Two piece tags in one packet make the last use of `len`
  at thread.c:561 one of an uninitialised variable. A full buffer is taken for
  the end of the stream, a packet it cuts for a broken one, and one cut within a
  header destroys the item twice (thread.c:267).

### Fairness

A thread that can run runs: no section of the models waits for another but by a
lock that is held for a bounded time, so this is what the system's scheduler
gives.

- `StreamLifecycle!FairSpec`: weak fairness of the main thread's sections and of
  each getter's hand-over and teardown. It also assumes that a connected
  upstream sooner or later goes live or ends; that is used only where a run asks
  what becomes of parked requests.
- `BlockStreaming!FairSpec`: threads run and a client goes on reading, so that
  its socket is writable again and again, and the event loop comes to each socket in
  its turn (strong fairness of `Writable`, which the main thread disables while it
  serves another); and not every write to a client blocks: strong fairness of
  `HeaderSent` and of `Progress` on its connection, since a write that would block
  disables them in between. Nothing is assumed of the source:
  a reader may wait for ever, but not in the middle of a block that is finished.
- `RtmpSession!Spec`: the getter's thread runs. Nothing is assumed of the server.

## Proofs

Everything below holds for every value of the constants that the modules'
ASSUMEs allow: finite sets of items, connections and threads' cells, a NULL that
is none of them, sizes that are numbers. `SessionAssumption` also says what the
server's packets are like (a type, a size, a timestamp, the tracks they hold),
which is what the parsing of a packet finds out before the modelled code runs;
`HttpConnAssumption` numbers the structs, which are allocated in that order;
`ChunksAssumption` bounds the channels by the largest a basic header can name.

| module | properties of the runs that are theorems | only model-checked |
|---|---|---|
| `BlockRing` | all seven | |
| `AssocTable` | all three, refinement included | |
| `RtmpSession` | `TypeOK` and the five safety properties | `LossEndsGetter` |
| `StreamLifecycle` | `TypeOK`, `PoolSound`, `RegistrySound`, `OnlyOwnGetterDeletes`, `WaitListsSound` | `EndedStreamIsReclaimed` |
| `BlockStreaming` | `TypeOK`, `WaitListsSound` | `PiecesSound`, `SentInOrder`, `ReadersSound`, `ReplyIsWhole`, `ReplyEnds` |
| `HttpConn` | `ConnsHeldOnce`, `HeldByOne` | `TypeOK`, `RequestsRead` |
| `RtmpChunks` | `TypeOK`, `PacketsKept`, `StaysInStep`, `NothingLeftOver` | |
| `PieceAssembler` | none | `PiecesAreWhole`, `StaysInTags` |

### The ring (`BlockRingProofs`)

Four invariants, each on top of the one before.

- `ChainsInv`: a slot's chain is of the one block that its id names, in order,
  and nothing follows a tail. Of every source, holes or not.
- `RingInv`: while the source has left out nothing, every chain is unbroken from
  where it begins, and every slot a piece has ever gone to is in use. It is needed for
  what comes next: that a block is *held* follows from when its slot was last
  needed (`BegunIsHeld`), not from what the slot says.
- `BoundsInv`: once there is data, and nothing was left out, MAX is the highest
  block that has been begun, MIN a block that has been begun and whose slot has
  not been needed again, the smallest piece is the first there was of MIN, in a
  stream joined at a group MIN is the first block or eleven below MAX, and
  whoever is parked waits for something above MAX. From it follow `AdvertisedWindowHeld`,
  `WindowMovesForward`, `ParkedIsAhead` and `CrashOnlyBeforeData`.
- `FramesInv`, of every source: the key frame index is sorted (a window of the
  array that wraps, with zeros for what evictions took out), lists only key
  frames that are in the ring, and every one of those that is fewer than 48
  pieces old. What the scans over the array compute is a matter of recursive
  functions and folds; `LeastElement` gives their values.

### The registry (`AssocTableProofs`)

`TableInv`: there is a set of items whose keys differ, as many as `hash_items`
counts, and the heads and next pointers of both arrays form a `Forest` over it:
each item is in the list of its own bucket, is reached by one pointer, and ranks
fall along a list, so that it ends. Insert, delete and expand keep a forest.
Moving a bucket to the new array is taking its items out and inserting them one
by one (`PushForest`), so one lemma about insertion serves both. `ChainIs` turns
pointers into what `find` walks over, and `FindIs` says that it returns the
item with that key or nothing: with that each step of the table is a step of
`AssocDict` or a stutter (`RefinesDictCorrect`).

### The life cycle (`StreamLifecycleProofs`)

`TypeCorrect` holds of every instance, the rest with `MaxShortReads = 0`: a
short read destroys an item twice, and ownership is then false, not just
unproved.

- `PoolSoundCorrect` (`OneOwnerCorrect`, `PoolCorrect`, `CurrItemsCorrect`). The
  invariant is `OwnerInv`: types, `OnceOnly` (no second teardown pending),
  `OneOwner`, and `PoolIsFreeCells`, which is `PoolHoldsTheRest` with the length
  of the list named. One owner needs the pool: `malloc_item` hands out the head,
  so the head must be nobody's. `PoolChanges` says that a step leaves pool and
  owners alone, takes a free cell, or gives back one in use; `PoolStep` then
  follows the list through both.
- `RegistrySoundCorrect` (`RegisteredHasGetterCorrect`, `OneGetterPerKeyCorrect`,
  `InsertKeyIsNewCorrect`) and `OnlyOwnGetterDeletesCorrect`. The invariant is
  `RegistryInv`: besides `OwnerInv`, a miss stays a miss until the main thread
  inserts (`MissStaysMiss`), what it inserts is being served (`InsertIsServed`),
  who serves is registered or about to be (`ServedIsRegistered`), and keys of
  registered items differ. None of the four is inductive alone: a getter finds
  its own item under its key (`DeletesOwn`) only because keys differ and it is
  registered.
- `WaitListsSoundCorrect`. In the invariant `WaitInv` there is an assignment `on`
  of connections to the item whose list they are on, and the pointers agree with
  it. A getter reads the next pointer of a connection after it has answered it,
  with no lock, when the main thread may have parked it again, so what it holds
  need not be a list any more. `HandsOut` says what is still true: a connection it
  would answer next is on no list, if it waits for this stream at all. `MainSound`
  says that the main thread parks on the list of the one item that serves the
  stream.

### Block streaming (`BlockStreamingProofs`)

`TypeCorrect` and `WaitListsSoundCorrect` are about every instance: readers of
open blocks, requests for blocks to come, failed writes, stale pointers and
early frees. The invariant is `WaitInv`. Besides the types it says what a thread
may hold at each stage of `on_write_piece` (`ThreadSound`): a connection that is
being served, and not by the other thread too, so that no step but the getter's
moves a waiter; that a connection with a reply to send has a piece and a slot,
and that who parks has been sent something (`ConnSound`), which tells a reader
that waits for more from a request that waits for its block; that the getter is
at the first of its list and the last piece is in the ring while it walks
(`WalkSound`); that parked connections are on the list of their slot and nowhere
else, those ahead on the item's, and the woken on the getter's unless it has
missed them (`Listed`); that a request on the item's list is for a block with
nothing in it, and once it is woken for the one just opened (`Coming`); and that
the blocks being filled are in their slots (`Opened`), so that a request leaves
the item's list when, and only when, its block takes a slot.

Most steps are of one thread with its own connection and move nobody on a list
(`Acts`, `ActsKeep`). The others are parking, publishing and the step to the next
waiter. For that one, `After` is a part of the list the connection is on now,
and whoever was behind it and is not there is `forgotten`. What the two walks over
a list return, `Due` and `StillAhead`, are recursive functions; that they share
the list out is proved with `LeastElement`.

### Connections (`HttpConnProofs`)

`HttpInv`: `ConnSound` says of one struct what it may wait for while it is open,
and that a closed one has no event; an item or a header under way it has only if
`late` or `crossed`. `PoolSound` says that the structs allocated so far are free
or open, and that only the head of the pool can be there twice, after the answer
that is written twice or a destruction by both threads. `crossed` is set by the
steps that let the getter and the header of one connection pass each other, and
by no others (`Tidy` is what holds until then): that is where the work lies, for
the item may serve, block, let go and destroy at every stage of the header. Every
handler ends with the connection kept, freed, or freed twice (`Kept`, `Freed`,
`FreedTwo`), and these three keep the invariant. Nothing depends on what the
parser makes of the bytes: the theorems hold for any client.

### The chunk layer (`RtmpChunksProofs`)

Chunks wait on the wire while the writer goes on, so what reader and writer
remember of a channel need not agree at any moment. `ChunksInv` says instead
that the account can be settled: there is a run of reader states, from the
present one over the chunks on the wire (`Leads`), that ends in one that agrees
with the writer, or at a chunk that the reader misreads, and then for one of the
two known reasons (`Settled`). To agree on a channel (`AgreeOn`) is to have
nothing where nothing was sent, the last message where it is complete, and
exactly the part that was sent where it is not.

- A step of the reader is the first of the run (`FirstOfRun`). What is left is
  the run of the rest of the wire.
- A step of the writer concerns the last state of the run only, as if each
  chunk were read as it is written (`Outcome`; `GoesOnAll` for the chunks
  `RTMP_SendPacket` sends in one call). That more is due does not change what is
  read of the chunks before (`OwesRun`).
- What is left is about one chunk: the basic header decodes to the channel
  (`DecodesWhatWasEncoded`), the difference of two timestamps added again gives
  the later one modulo 2^32 (`Difference`), a message cut at the chunk size is
  put together again (`FirstOfBody`, `NextOfBody`), and a header shortened
  against the previous message is restored from it (`Shortens`).

`PacketsKept`, `StaysInStep` and `NothingLeftOver` are then conjuncts of the
invariant, or follow from the state of the run when the wire is empty. The
theorems hold for bodies and wires of any length, any set of channels up to
65599, any chunk sizes and any number of lost connections.

### The session (`RtmpSessionProofs`)

`SessionInv` is in two parts. `Good` relates what was sent to what waits for an
answer and to the socket. Every operator that takes the struct and gives it back
keeps it, whether its writes succeed or close the session half-way; the lemmas
are put together as the handlers are, so a handler of six steps needs no case
for each place where it can break. `Reads` is about the bytes of `RTMP_Read`: how
many have been made and not yet given, between calls and in the header and
packet part of one.

### What is only model-checked

- Everything with fairness: `EndedStreamIsReclaimed`, `ReplyEnds`,
  `LossEndsGetter`. The prover has no rule for liveness or ENABLED.
- `PiecesSound`, `SentInOrder`, `ReadersSound` and `ReplyIsWhole` of
  `BlockStreaming`: they need what each thread holds of a chain at every step
  of letting it go, besides the chains themselves.
- `HttpConn!TypeOK` and `RequestsRead`, which are about the value of the parser,
  a recursive function over the bytes. What such a function computes can be
  proved (`LeastElement` stands in for induction), but with a proof for each of
  the parser's states.
- `PieceAssembler`. Where a tag begins is found by a walk from one tag to the
  next, in the code and in the model, with the unparsed part of one call carried
  over to the next. A proof has to say what the walk over such a part finds.

## Not modelled

- *HTTP parser*: responses, `http_parser_parse_url`, hosts, `http_parser_pause`;
  the program uses none of them.
- *librtmp*: AMF (a message is taken for what it says), URL parsing and option
  strings (the getter's URL is fixed but for the stream's name), the SWF hash,
  logging, the handshake's cryptography, RTMPT, RTMPE, SOCKS, publishing,
  resuming and seeking, which no getter asks for. FLV packets embedded in a
  stream are taken to hold no metadata tag.
- *Start-up*, daemon, signals, rlimits: a sequence of system calls before the
  event loop; the one-second clock and counters nobody reads.
- *The bytes of an answer*: `write_buf` is not checked in the metainfo reply;
  its size is not a state of any model.
- *End of a stream under readers*: the streams of `BlockStreaming` do not end.
  `destroy_item` does not drain the lists of the blocks (thread.c:171), so a
  reader left there is never woken.
- *The event library* is touched by several threads without a lock, and an
  item's mutex is initialised after its getter starts; neither is a matter of
  the states of these models.

## Plan

Modelled so far: everything from the chunk layer to the HTTP connection. Next:

1. Proofs. `PieceAssembler`: `StaysInTags`, then `PiecesAreWhole`.
   `HttpConn!TypeOK`, with the states of the parser.
2. `StreamUrl`: `RTMP_ParseURL`, `RTMP_ParsePlaypath` and `RTMP_SetOpt` as
   operators, against reference definitions over bounded strings; `Amf`:
   encoding and decoding as inverse operators.
