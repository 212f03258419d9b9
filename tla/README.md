# Verification of pivx-bridge

pivx-bridge follows a PIVX full node over JSON-RPC, keeps every block that
holds Sapling transactions in a binary stream (`shield.bin` and a copy of it in
memory) with an index from height to offset, and serves the stream to light
wallets over HTTP.  A wallet that is served a block twice, a block that is no
longer on the chain, or a stream with a hole in it computes a wrong balance,
and no wallet can tell.  The hard part is keeping four copies of one fact (file,
buffer, index, cursor) together while the node reorganises, RPCs and writes
fail, two tasks run the indexer and a proxy fills the cache the indexer trusts.

This directory holds TLA+ models of that part of the code, TLC configurations
that check them on small instances, and proofs checked by TLAPS for every value
of the constants.

    tlc -workers 2 -config races.cfg MCIndexer.tla      # one run
    tlapm IndexerLogProofs.tla                          # one proof module

## 1. The system

| component | state | operations | where |
|---|---|---|---|
| Live indexer | gate `indexing`, `chain_height`, `last_scanned_height`, `last_scanned_hash` | `index_new_blocks`, `find_fork_point` | `main.rs` 270-621 |
| Block cache | `entries` by (hash, verbosity), `height_to_hash` | `get`, `insert`, `evict_lowest`, `invalidate_from`, `hash_for_height`, `detect_reorg` | `block_cache.rs` |
| Shield index | `entries`, `shield_heights`, the saved JSON | `add`, `offset_for_height`, `remove_from`, `save`, `load` | `index.rs` |
| Shield stream | `shield.bin`, `shield_buffer` | `append_blocks`, `truncate_to`, `recover_cache`; encoders | `cache.rs`, `stream.rs` |
| Scan cursor | height and hash, the saved JSON | `save`, `load` | `index.rs` 251-289 |
| Scanner | none | `scan_block`, `scan_range`, `fetch_block` | `scanner.rs` 180-300 |
| Transaction parser | none | `parse_sapling_tx`, `read_compact_size` | `scanner.rs` 305-440 |
| Compact formats | none | `encode_compact`, `encode_compact_plus`, `pivxcompat_to_compact` | `stream.rs`, `api.rs` 244-330 |
| RPC client | a connection pool | `getblockcount`, `getblockhash`, `getblock`, `getrawtransaction` | `rpc.rs` |
| Proxy | none of its own; fills both caches | `rpc_proxy` | `proxy.rs` |
| Hash cache | `entries` by height, `order` | `get`, `insert` | `api.rs` 55-90 |
| HTTP readers | none | `get_shield_data`, `get_shield_data_length`, `get_shield_blocks` | `api.rs` |
| Scheduling | `zmq_active` | ZMQ listener, poller, `poll_new_blocks` | `main.rs` 623-772 |
| Start-up | all of the above, from disk | `init_network`, `find_fork_point_via_rpc` | `main.rs` 42-255 |

How they interact.  Two tasks, the ZMQ listener and the poller, each call
`index_new_blocks` on a blocking thread and wait for it; `AppState.indexing`
turns the second away.  A pass asks the node for its height, compares the parent
hash of the first new block with the block cache, on a mismatch walks back to
the fork and cuts file, buffer and index there, then scans one block at a time:
hash (from the cache, else the node), block (from the cache, else the node),
append to the file, extend the buffer, add to the index, move the cursor.
HTTP handlers read index and buffer under their own locks, and the proxy writes
into the very cache the indexer takes hashes and blocks from.

What makes it hard, and which property is about it, is listed hazard by hazard
in `PROJECT.json`.  In short: any RPC may fail between two steps and every
failure has a different way out; the node may reorganise at any point of a
pass; a write may fail half way; the cache forgets on its own; the proxy's answer
may arrive after the reorg it predates; and a restart finds whatever was on disk.

What makes each part correct:

* indexer: no block skipped, none stored twice, a store that is always the
  shield blocks of one chain, the node's once a pass has caught up; a gate that
  opens again after every pass;
* stream and index: each index entry names the first packet of the whole block
  of that height, in file and buffer alike;
* block cache: the hash of a height is a block of that height; eviction ends;
  an invalidated orphan does not come back;
* wire format: every byte string read back is what was written, through each of
  the three encodings and whatever a stop leaves of an append;
* proxy and hash cache: an answer about a height the node has is the node's, or was
  before a reorg;
* start-up: what is on disk after a crash at any point leads to the same store
  as an uninterrupted run;
* readers: a response is whole blocks from one state of the store; no two lock
  holders wait for each other;
* scheduling: the cursor reaches the tip of a node that stays up.

## 2. Modules

| module | what it is |
|---|---|
| `Chain` | the node: blocks, the chains it may be on, heights counted from the block before the first scanned |
| `BlockCache` | `block_cache.rs` as operators on a cache value, each one critical section of its lock |
| `ShieldStore` | the stream as a sequence of packets, `ShieldIndex`, and what it means for an index to delimit a stream |
| `Indexer` | the state machine of `index_new_blocks`; its environment; the properties |
| `ShieldLog` | the abstract promise: a log that only gains the next block or gives up a suffix |
| `MCIndexer` | chains, blocks and transaction counts for TLC |
| `RwLock` | tokio's fair read-write lock as a value with the calls its users make (external to the repository) |
| `Readers` | the HTTP handlers that read the store, against the indexer that writes it, lock by lock |
| `Restart` | a stop at any step and the start after it, in front of `Indexer` |
| `Scheduler` | the ZMQ listener and the poller, in front of `Indexer` |
| `Wire` | the bytes of the stream: CompactSize, the transaction parser, the encoders, the converter, the search for the last footer |
| `WireFile` | `shield.bin` as those bytes, with a stop at any of them; what a wallet reads |
| `Proxy` | `rpc_proxy`'s `getblockhash` and `getblock`, `HashCache`, and whoever else fills the two caches |
| `MCReaders`, `MCRestart`, `MCScheduler`, `MCWire`, `MCProxy` | their chains, blocks and transactions for TLC |
| `ShieldStoreProofs` | lemmas about the operators of `ShieldStore` |
| `IndexerProofs` | the inductive invariant of `Indexer`; type correctness, mutual exclusion, ascending index; `insert`'s eviction loop ends; with a working node: no reorganisation is missed, the fork is found, what is scanned is one chain, the node's |
| `IndexerLogProofs` | with a working disk the stream is well formed, the buffer mirrors the file, nothing is lost, and `Indexer` implements `ShieldLog`; no block is skipped, whatever fails; what `shield.bin` keeps when appends and saves fail |
| `ReadersProofs` | whole and complete responses, sufficient lengths, and the locks that make it so |
| `ProxyProofs` | the hash cache's map and queue agree; answers about settled heights are the node's |
| `SchedulerProofs` | the scheduled program implements `Indexer`; what was heard of is scanned |
| `RestartProofs` | what a start appends; stops between passes leave stream and saved index whole; on a growing chain no stop, wherever it falls, makes the bridge skip a block |
| `WireProofs` | byte by byte: recovery leaves the indexed blocks and nothing else; converter and encoders agree; a wallet reads the node's transactions |

Who uses whom: `Scheduler` and `Restart` EXTEND `Indexer`, which EXTENDS
`BlockCache` and `ShieldStore` (both over `Chain`) and maps onto `ShieldLog`;
`Readers` EXTENDS `ShieldStore` and `RwLock`; `Proxy` EXTENDS `BlockCache`;
`WireFile` EXTENDS `Wire`.

### Indexer

The variables are the fields of `AppState` under the names of their fields
(`buffer` is `shield_buffer`, `file` is `cache_file`), what is on disk
(`file`, `diskIndex`, `diskCursor`), the node's `chain`, the proxy's pending
answer `inflight`, and in `pass[w]` the locals of task `w`'s pass: where it is
(`pc`), the height at hand (`at`), the hash or block at hand (`seen`), the
number of Sapling transactions decoded (`got`), the offset `append_blocks`
returned (`off`) and `needs_persist` (`dirty`).  `scanned` is a history
variable: which block was scanned at each height up to the cursor.  No action
reads it; the properties do.

| action | code |
|---|---|
| `Enter`, `Leave` | the `compare_exchange` of the gate and the guard's drop (`main.rs` 291-306) |
| `Count` | `getblockcount`, `chain_height`, first early returns (308-327) |
| `Probe`, `Detect` | `getblockhash`, `getblock`, `detect_reorg` (330-335) |
| `FindFork` | one turn of the loop of `find_fork_point` (565-621) |
| `Invalidate` | `invalidate_from` (337) |
| `Truncate`, `SaveTrimmedIndex`, `Rewind` | the three outcomes of the cut, the index save, the cursor (346-387) |
| `Target`, `Fetch`, `CachePut` | the head of the loop, `scan_block`, `fetch_block`, `scan_block_inner` |
| `AdvanceEmpty` | `Ok(None)` (497-506) |
| `AppendFile`, `ExtendBuffer`, `AddIndex`, `Advance` | `Ok(Some(block))` (419-496) |
| `PersistIndex`, `PersistCursor` | `needs_persist` (516-534) |
| `NodeStep` | the node connects blocks or reorganises |
| `ProxyFetch`, `ProxyInsert` | `rpc_proxy`'s `getblock`: cache miss and answer; insert |

Where one action covers several statements:

* Every RPC is a step of its own, so the node can move before and after it,
  with two exceptions.  `Probe` takes `getblockhash` and `getblock` together: a
  hash determines its block and parent, and the node keeps stale blocks, so
  nothing can change the answer of the second call, and the failure of either
  leads to the same place.  `Advance` takes the `getblockhash` for the cursor's
  hash together with the cursor's move: no other task reads or writes the cursor
  while the gate is shut.
* `Truncate` is one step because the code holds the index, buffer and file
  locks throughout.  It is split from the save that follows, under the same
  locks, so that a stop can fall between them (`Restart`).
* `Target` reads the cursor, which only the pass writes, and the cache under
  one read lock, then calls the node only on a miss.

A block is a value, and so is a transaction: a packet is `<<b, j>>`, the j-th
Sapling transaction of `b`, or its footer for `j = 0`.  Byte lengths play no
role; which packets a write left, and where the index says they are, do.
`write_all` that fails leaves any prefix of the block's packets (a torn packet
is counted as absent: nothing in the live indexer parses the file).

The environment of `Indexer`: RPC errors (`RpcMayFail`), reorganisations during a pass
(`MidPassReorg`; else only between passes), failing appends, truncations and
saves (`DiskFaults`), and the proxy (`ProxyVerbosity`).  Each is a constant, so
that a run can say which assumption a property needs.  Bounds: `MaxHeight` on
chains; `FaultBound`, the length of the buffer up to which disk operations may
fail, which bounds the duplicates a failing append leaves in the buffer; one
proxy request in flight, for any block the node knows: one of its chain, or one
it keeps beside it up to its height.  `ProxyVerbosity` is what `as u8` leaves of the
number asked for: a request for 256 more gets no less of the block from the node than
the model lets it have.

`Init` is the state after an initial scan without shield blocks that found no
failure: the cache holds its blocks at verbosity 2, the cursor is at the tip.
`IndexerAssumption` therefore asks for an `InitChain` that fits the cache.
Start-up itself, after a crash in particular, is module `Restart`.

In a live pass the branch "this height is already indexed" of `AppendFile` is
never taken: `IndexerProofs` shows that the block at hand is above every indexed
height.  It is there for what a restart may leave behind, and is kept in the
model as it is in the code.

### BlockCache

The cache is a value and each method of `BlockCache` an operator on it, since each
runs under the cache's lock from beginning to end.  Verbosity is the `u8` of the
code, 0 to 255: `Fallback` and `Forget` treat those above 2 as the code does,
which matters for eviction.  `Evict` is the `while` of `insert`: the heights up to
the lowest that makes room are forgotten.  If none makes room the loop never ends;
`RoomToMake` says that one does, and is a conjunct of every action that inserts,
so that the model stops there as the program would hang.  `EvictionEnds` is that
it always holds.

### ShieldLog

`Indexer` implements `ShieldLog` (`ImplementsShieldLog`, checked in `races`)
under the mapping `Log`: `synced` is the sequence of scanned blocks as the store
stands for it, and `stream` the blocks at the offsets the index names in the
buffer.  Between the append and the cursor's move, and between the cut and the
cursor's rewind, the store is ahead of the cursor; `Synced` accounts for it, so
that the abstract step happens at the very step that changes the index.

### Readers

A response to a wallet is put together from two values with a lock each.  The
module has the two values, the two locks (`RwLock`: waiters are served in order,
so a waiting writer keeps later readers out, which is what turns two lock orders
into a deadlock), the indexer reduced to what it does to the two values, and per
request the handler's locals.  A handler that asks for a lock and one that has it
are two actions, since anything may happen while it waits.

| action | code |
|---|---|
| `CheckIndexed`, `Checked` | the idempotency check under the index's read lock (`main.rs` 424-433) |
| `AskExtend`, `Extend`, `AskAdd`, `Add` | append, buffer, index: one lock at a time (435-496) |
| `AskCut`, `AskCutBuffer`, `Cut` | the reorg handler: index, then buffer under it (346-387) |
| `DataAsk`, `DataOffset`, `DataAskBuffer`, `DataSlice` | `get_shield_data`, any format (`api.rs` 132-191) |
| `LengthAsk`, `LengthAskIndex`, `LengthMeasure` | `get_shield_data_length` (207-242) |

The read lock of the index under which a pass saves it at its end (`main.rs` 523) is
left out: it keeps writers out, and the only writer of the index is the pass itself.

`reader[r].cut`, `due` and `room` are history: whether a cut fell between the
handler's two locks, which indexed blocks it owed, and what the buffer held of
the range when the length was taken.

### Restart

`Restart` EXTENDS `Indexer`: the variables are the same, and while the program
starts, `lastScanned`, `lastHash`, `index` and `cache` stand for the locals of
`init_network` that become the fields of `AppState`.  `Stop` takes all memory and
leaves `file`, `diskIndex` and `diskCursor`; if an append is under way, it leaves
any part of it.

| action | code |
|---|---|
| `Connect` | `getblockcount`, `load_or_create`, `recover_cache`, `ScanCursor::load` (`main.rs` 43-79) |
| `CheckHash` | the persisted hash against the node's, `find_fork_point_via_rpc` (87-104, 219-255) |
| `CutFile`, `CutIndex`, `CutCursor` | the roll-back, one write each (105-118) |
| `BeginScan`, `ScanBlock`, `SkipBlock`, `NextHash` | `scan_range` (`scanner.rs` 215-300) |
| `AppendBatch`, `SaveBatch` | the batch append, without the live loop's check against the index (151-163) |
| `SaveCursor`, `Load` | the cursor at the chain's height, whatever came before; the buffer (177-211) |
| `LiveStep` | a step of `Indexer` |
| `NodeMoves` | the node's chain grows, or gives way to one no shorter |

`resume` is history: the blocks behind the point a next start resumes from, which
is the saved cursor, or without one the last block of the saved index.  A height
that was passed over without being looked at is `NoBlock` in it.

The live part of `Restart` is the passes; the proxy's steps (`ProxyFetch`,
`ProxyInsert`) are not in it.  No request is served before the start is over, and what
a request may put into the cache of a running bridge is `Indexer`'s, where the
configurations `races`, `masked` and `proxystale` look at it.

What is coarser than the code: a stop inside a write leaves whole packets, where
the program may leave part of one.  Behind a footer this makes no difference, since
`recover_cache` cuts back to the footer in either case.  A file that `set_len`
extended holds zeros, which `find_last_footer` reads as empty packets; the model
keeps one packet per position and does not lose the framing behind them.  The
node's height does not go down (it does for a moment when a node reindexes).

The hash saved with the cursor and the empty cache after a start are what
`ReorgNoticed` (`coldcache`) and `CursorNamesScanned` (`cursorhash`) are about.

### Scheduler

`Scheduler` EXTENDS `Indexer` and decides when its `Enter` happens: a task does
nothing else until its pass has ended, and one turned away at the gate goes back
to waiting.  `messages` counts the `hashblock` messages sent and not yet taken
(they carry nothing the listener uses), `missed` is history.

| action | code |
|---|---|
| `Subscribe`, `SubscribeFails` | the subscription, and the sleep before the next attempt (`main.rs` 636-650) |
| `Hear`, `ListenerEnters`, `ListenerTurnedAway` | a message and the pass it asks for (652-671) |
| `Disconnect`, `StreamEnds` | an error on the stream; its end, which leaves `zmq_active` set |
| `Wake` | the poller's tick with `zmq_active` unset (691-709) |
| `PollHash`, `PollNext`, `PollCount` | `poll_new_blocks`: hash of the last scanned height, its `nextblockhash`, the node's height |
| `PollerEnters`, `PollerTurnedAway` | the call of `index_new_blocks` |
| `SchedPass` | a step of the pass, `Indexer`'s `PassStep` |
| `NodeMoves` | the node's chain changes and a message is sent to whoever is subscribed |

The poller's insert into the hash cache is in `Proxy`, as nothing here reads it.
`MaxMessages` bounds the messages under way.

### Wire and WireFile

`Wire` is the code that reads and writes bytes, one operator per function.  A byte
is a digit below `Base` (256 in the code, 7 for TLC); the CompactSize markers are
the three highest digits and widths are counted in digits, so that the widths
change where the code's do.  A field whose content nothing looks into, such as a
proof or a ciphertext, is one digit.  Loops over packets, transactions and
digits are recursive functions over positions.  `parse_sapling_tx` answers `None` or an error; every caller
leaves the transaction out on either, and the model has one value for both.

`WireFile` puts it together: `NodeBlock` serialises a transaction as PIVX Core
does (external), `AppendBlock` scans and encodes it, `TruncateTo` cuts at an
index entry, `Stop` and `StopAppending` stop the program, the latter after any
number of bytes of a block, and `Start` is `recover_cache`.  `ReadCompact` is a
wallet's reader, written from the description of the formats in `stream.rs` and
from no function of it.

| action or operator | code |
|---|---|
| `WriteCompactSize`, `ReadCompactSize` | `stream.rs` 36-49, `scanner.rs` 414-436 |
| `ParseSaplingTx`, `ParseSaplingDescs`, `ScanBlockInner` | `scanner.rs` 114-178, 316-412 |
| `EncodePivxCompat`, `EncodeCompact`, `EncodeCompactPlus`, `EncodeShieldStream` | `stream.rs` 55-173 |
| `PivxCompatToCompact`, `EncodeCompactPacket` | `api.rs` 244-330 |
| `FindLastFooter`, `RecoverCache` | `cache.rs` 275-340 |
| `AppendBlock`, `TruncateTo`, `AppendFails`, `Start` | `cache.rs`, as called from `main.rs` |

`Restart` and `Indexer` keep the packets of `ShieldStore`: framing is checked
here once, and there it is a fact.

### Proxy

A request is followed from call to response, one step per lock or RPC.  What it
answers is kept in `request[r]` as the values a reader of the answer would look
at: the block, the verbosity it is told at, confirmations, next block.

| action | code |
|---|---|
| `GetBlockHash`, `GetBlock` | the fast paths, and the height looked up in the block cache (`proxy.rs` 38-65) |
| `LoadHeight`, `Lookup` | `chain_height`, then `BlockCache::get` with the fields put back (66-67) |
| `U32`, `U8` | the casts of height and verbosity (40, 55, 63-65, 90, 103-105) |
| `AskNode` | `proxy_call` with the parameters as they came; an error is the answer (84-85) |
| `PutHash`, `PutBlock`, `Respond` | the inserts, one lock each (88-107) |
| `PollWakes`, `PollAsks`, `PollCaches` | `poll_new_blocks` up to its insert (`main.rs` 714-759) |
| `IndexerCounts`, `IndexerRewinds`, `IndexerFetches`, `IndexerCaches` | what a pass does to `chain_height`, the cursor and the block cache |

What was asked stays in the request beside what is found for it, because the two go
different ways.  The caches are asked with `as u32` of the height and `as u8` of the
verbosity, so a height of 2^32 + k is answered with what is cached of height k, and
verbosity 256 is looked up and stored as 0.  The node is asked with the parameters
as they came: a `getblock` by height that a hash was found for, but no block, asks it
for the height again, and may get another block.  That an error may be the answer to any
request covers a node whose `getblock` takes hashes only.  A verbosity below 0 stands
for whatever `as_u64` does not take (`false`, or a negative number): 1 to the cache, 0
to the node.

The indexer is here no more than a source of the caches' contents.  Its RPCs
succeed and a reorg takes it back, in one step, to the highest block that cache and
node agree on; between its steps anything may happen.  What a failed RPC or a walk
cut short at its depth does to the cursor is `Indexer`'s.  One request runs against poller and indexer at any of
their steps; further requests matter only through the caches, which the requests
before it have filled.

## 3. Runs

### Of Indexer

All instances have two tasks and chains that fork above a common block `a1`,
which was scanned at start-up: `a`, `b` fork at height 2, `a`, `c` at height 3;
blocks hold 0, 1 or 2 Sapling transactions.  `Capacity` is 2 so that eviction,
cache misses during `find_fork_point` and entries without a height occur within
three or four blocks.  A reorg during the repair of a reorg and a retry of a
block on another chain fit in heights up to 3; `quiet` goes to 5, for two forks
one inside the other with blocks scanned in between.

Runs that pass:

| run | environment | what it shows |
|---|---|---|
| `quiet` | working node, reorgs between passes, heights to 5 | detection does its job: `ParentLinked`, `ScanOnChain`, `ForkPointSound`, `ReorgNoticed` |
| `races` | RPC errors, reorgs at any step, `SearchDepth` 2, proxy at verbosity 2, working disk | `StreamWellFormed`, `BufferMirrorsFile`, `NeverSkip`, `NothingLost`, `EvictionEnds`, and the refinement |
| `faults` | RPC errors, reorgs at any step, failing appends and saves | `TypeOK`, `NeverSkip`, `FileKeepsIndexed` |

`races` and `quiet` divide the work: with a node that answers and stays put
during a pass, the scanned blocks are the node's; without, the store is still
whole, complete and faithful to what was scanned.

`SearchDepth` 2 stands for 1000 in `races`, `gate` and `deepfork` (below): what matters is
whether the fork is inside the window, and forks at heights 2 and 3 of chains of
three or four blocks lie on either side of it.  In the other runs the window
covers the whole chain.

### Of Readers

Two chains that fork at height 2, the block there with one transaction on one and
two on the other, so that an offset taken on one side is no block boundary on the
other; up to four blocks, as a reorg is noticed only when there is a block to scan.

| run | instance | what it shows |
|---|---|---|
| `serving` | a request for the stream, one for a length, fairness | `WholeUnlessCut`, `CompleteUnlessCut`, `LengthCoversIndexed`, `StoreGuarded`, `EveryoneServed` |
| `lockorder` | a request for a length, fairness | finds handler and pass waiting for each other (a finding) |

`serving` and `lockorder` do not check for deadlock: with `get_shield_data_length`
the system really stops, which `lockorder` shows.  `EveryoneServed` is therefore
about behaviours in which no length is asked for.

### Of Restart

One task.  `crashes`: one chain that grows to three blocks, the middle one without
transactions, three stops at any step.  `reboots`: two chains that fork at height
2, three stops between passes, RPC errors, the node free to move at any step.
Three stops are enough for a start that fails to repair what the start before it
left, and for a stop during that one.  The runs end when stops and chains are used
up, so deadlock is not checked.

| run | environment | what it shows |
|---|---|---|
| `crashes` | stops anywhere, working node, no reorg | `CursorBacked`, `SavedIndexBacked`: file, index and cursor are written in an order that loses nothing |
| `reboots` | stops between passes, RPC errors, reorgs | `SavedIndexBacked`, `ServesWellFormed` |
| `coldcache` | one stop between passes, reorgs | finds a reorg missed by the first pass after a start (a finding) |

The two passing runs divide the stops: one that hits a pass costs duplicates
(`crashdup.cfg`, below) but never a block, one between passes costs nothing.

### Of Scheduler

Two chains that fork at height 2, heights up to 3, one message under way at a
time: enough for a message that comes while the pass for another runs, for one
that is turned away while the poller's pass has already asked for the height, and
for a subscription lost with a message in it.

| run | environment | what it shows |
|---|---|---|
| `scheduling` | fairness; RPCs that succeed, reorgs at any step, failing truncations | `NotifiedIsScanned`, `PollerCatchesUp` |
| `gate` | fairness; RPC errors, reorgs at any step, failing truncations, `SearchDepth` 2 | `GateReleased` |

Of the disk, `gate` has failing truncations only, after which a pass goes on with the
cursor where it was.  A failing append ends the loop where a failing RPC does, and the
failure of a save is only warned of.

`PollerCatchesUp` needs RPCs that succeed (a node that never answers is never
caught up with), and a truncation that fails now and then does not disturb it.

### Of WireFile

`wire`: three heights with two blocks to choose from at each, made of transactions
that are not Sapling, Sapling without shielded parts, with
spends only, outputs only and both, scripts that need a marker, and counts of 3,
4, 48 and 49: the last of one digit, the first of two, the last of two, the first
of four (a count of eight digits differs from that of four in its width alone).
Stops fall on every byte of an append once the file holds a block.

### Of Proxy

`proxying`: a chain of two blocks that gives way to one of three which parts from
it at height 2; both caches with two entries, so that each evicts; one request, at
verbosity 257, which the cache takes for 1 (at 1 nothing differs but what it is told).  Heights 1 and 3 have one block
each, and `SettledAnswers` says that nothing that happens at height 2 reaches an answer
about them.  `U32Range` is 4 in place of 2^32, and height 5, which no chain reaches, is
asked for as well: the node has no block of it, and the caches answer with height 1.
`SettledAnswers` therefore says "the height asked for, modulo 2^32": for every height
the node has the two are the same (`KeyOfHeight`), and for others the answer is what
the code gives, not what the node would say.  The node never goes
back to a shorter chain: an RPC count below the height asked for is `Indexer`'s.

### Further disagreements

The two findings in `PROJECT.json` are runs.  These configurations are kept beside
them.  Each violates its one property in a few seconds, for the reason given;
`stalehash` violates either of two.

| configuration | property | what TLC finds | what the code says |
|---|---|---|---|
| `midpass` (`MCIndexer`) | `ParentLinked` | the parent hash is compared once, at the pass's first height (`main.rs` 330); a reorg between two blocks of a pass joins two chains | "Detects chain reorganizations by verifying the parent hash chain" (`main.rs` 272) |
| `forkerror` (`MCIndexer`) | `ForkPointSound` | an RPC error ends `find_fork_point` above the fork, and the orphans below it stay | "at most SEARCH_DEPTH blocks of redundant work" (598-601) |
| `deepfork` (`MCIndexer`) | `ForkPointSound` | orphans below the search window stay | "the next pass will re-scan from there forward, which is correct" (560-563) |
| `cutfault` (`MCIndexer`) | `ParentLinked` | the file cannot be cut, the cache has forgotten the orphan, and the pass appends on top of it | "Don't proceed [...] Bail." (365-366) |
| `appendfault` (`MCIndexer`) | `BufferMirrorsFile` | the buffer is extended though the append failed (`main.rs` 439-444), and again by the retry: buffer ahead of the file, block twice in the buffer | "the entire shield.bin held in RAM" (`api.rs` 23) |
| `proxystale` (`MCIndexer`) | `ParentLinked` | the proxy's answer puts an orphan back in the cache after the reorg (`proxy.rs` 106), and `scan_block` takes its hash from there | "reorg detection" (`block_cache.rs` 1) |
| `masked` (`MCIndexer`) | `ReorgNoticed` | the proxy inserts the new block at the last scanned height, and `detect_reorg` compares it with itself | "Detects chain reorganizations by verifying the parent hash chain" (`main.rs` 272) |
| `evictstuck` (`MCIndexer`) | `EvictionEnds` | entries of verbosity 3 are never removed, the cache fills with them and `insert` loops for ever under the write lock | "When at capacity, the lowest-height entry is evicted" (`block_cache.rs` 85) |
| `proxytxs` (`MCIndexer`) | `NeverSkip` | a block the proxy cached at verbosity 1 loses the transactions whose `getrawtransaction` fails (`scanner.rs` 142) | "No skipping, no advancing past a block we couldn't process" (402-404) |
| `zmqgap` (`MCScheduler`) | `AnythingMissedIsCaught` | while `zmq_active` is set the poller skips its turn, and a block whose message was lost or turned away waits for the next one | "always runs, catches anything ZMQ misses" (`main.rs` 679) |
| `winner` (`MCScheduler`) | `WinnerCovers` | the pass that keeps the listener out had already asked for the node's height | "just return — the winner will cover whatever we would have done" (`main.rs` 289-290) |
| `tornread` (`MCReaders`) | `ServedWhole` | a cut and an append between the handler's two locks: the response starts inside a block (`api.rs` 146) | "a concurrent streaming reader can never observe torn state" (`main.rs` 339-343) |
| `crashdup` (`MCRestart`) | `NoDuplicateAppend` | a stop between append and save, and the next start, which does not look at the index, appends the block again (`main.rs` 151) | the cursor is there against "double-appends" (`index.rs` 254-258) |
| `torn` (`MCRestart`) | `RecoveredWhole` | part of the first block stays, as there is no footer to cut back to (`cache.rs` 288) | "Prevents a half-written block from corrupting the stream" (279-280) |
| `crashcut` (`MCRestart`) | `SavedIndexBacked` | a stop between the cut of the file and the save of the index leaves entries past the file's end | "an atomic save pass updates all three together" (`main.rs` 35-36) |
| `downreorg` (`MCRestart`) | `RestartForkSound` | the start takes the fork to be above the last indexed block, which may be an orphan too (`main.rs` 254) | "strictly correct, doesn't require hashes-per-entry" (`main.rs` 236-240) |
| `cursorhash` (`MCRestart`) | `CursorNamesScanned` | the hash saved with the cursor is asked for after the block was stored (`main.rs` 481), and a reorg in between makes it another block's | "Hash of the block at `last_scanned_height`" (`api.rs` 29) |
| `framing` (`MCWire`) | `RecoveryKeepsIndexed` | the length of a packet torn by a failed append swallows the retried block, and the next start cuts it off | "Prevents a half-written block from corrupting the stream" (`cache.rs` 279-280) |
| `stalehash` (`MCProxy`) | `HashesOnChain` | a height keeps its first hash through a reorg (`api.rs` 78) | "LRU cache: height → block hash. Eliminates redundant getblockhash RPCs" (`api.rs` 36) |
| `stalehash`, its invariant replaced | `ToldAsAsked` | a request at verbosity 0 is answered with a cached verbosity 1 | "v0 lookup: no fallback (v0 is hex, not JSON)" (`block_cache.rs` 265) |
| `initappend` (`MCRestart`) | `CursorBacked` | the initial append fails and the cursor is saved at the tip (177) | "the next pass will retry the same range" (149-150) |

### Mutants

Each property of a passing run has a mutant, a change of one mapped definition
of the kind a programmer would make: `EnterUngated` is the code before issue 1,
`LeaveStomping` the poller's old habit of moving the cursor to the tip (the blocks
jumped over then count as scanned),
`FindForkToMiss` and `AddIndexPoisoned` the earlier versions that comments in
`find_fork_point` and in the append branch describe, and so on.  The mutated
definitions stand beside the originals.

### Fairness

`FairSpec` has weak fairness of each task's steps inside a pass and of nothing
else.  The pass runs on its own thread (`spawn_blocking`) and is never waiting
for another task with the gate shut, every RPC ends with an answer or with the
client's 30 s timeout (`rpc.rs` 19), and the locks it takes are assumed to be
released by HTTP handlers, which `Readers` examines (`lockorder`).  There
is no fairness of `Enter`, of the node or of the proxy.

`FairSchedSpec` adds what makes a task enter: the poller's timer goes off again and
again and `poll_new_blocks` goes on to its end, a message that is there is taken,
and a task that called `index_new_blocks` is let in or turned away.  Nothing is
promised of the subscription, which may succeed never, once or again and again,
nor of the node.  `PollerCatchesUp` therefore assumes that ZMQ stays down and that
the chain stays put; with ZMQ up the same does not hold (`zmqgap`).

In `Readers` fairness is of the indexer's steps once a block or a cut has begun,
and of each handler's once it was called: a task whose lock has been granted is
polled again by the runtime.  `RwLock` grants in order of arrival, as tokio does.
New requests and new blocks need never come.

## 4. Proofs

Proved for every set of chains, tasks, capacity, search depth and kind of fault:

* `IndexerProofs!TypeCorrect`, `Spec => []TypeOK`.
* `IndexerProofs!OnePassAtATime`: no two tasks are inside a pass.
* `IndexerProofs!IndexAscends`: heights in the index ascend strictly, which the
  binary search of `offset_for_height` takes for granted.

and, assuming `WorkingStream` (append and truncate do not fail; saves may):

* `IndexerLogProofs!StreamSound`, `Spec => []StreamWellFormed`: the bytes
  served are whole blocks, each once, in ascending order.
* `IndexerLogProofs!MirrorSound`, `Spec => []BufferMirrorsFile`.

Assuming `WholeReads` (the proxy caches nothing at verbosity 1, or no RPC fails):

* `IndexerLogProofs!NothingSkipped`, `Spec => []NeverSkip`, whatever RPC, append,
  truncation or save fails.
* `IndexerLogProofs!FileKeepsAll`, if truncations do not fail (`CutsReachDisk`),
  `Spec => []FileKeepsIndexed`, whatever appends and saves do.
* `IndexerLogProofs!LogImplemented` and `NoTransactionLost`, with `WorkingStream`:
  `Spec => ImplementsShieldLog`, the refinement, and `Spec => []NothingLost`.

Assuming `QuietNode` (the node answers, reorganises between passes only and less
than `SEARCH_DEPTH` deep; the proxy asks for no block; append and truncate do not
fail, saves may), for any chains, capacity and order of reorganisations:

* `IndexerProofs!ChainScanned`, `Spec => []ParentLinked`;
* `IndexerProofs!ScansTheNode`, `Spec => []ScanOnChain`;
* `IndexerProofs!ForksFound`, `Spec => []ForkPointSound`;
* `IndexerProofs!ReorgsNoticed`, `Spec => ReorgNoticed`, the action property.

Of `Readers`, for any number of requests, any chains and whatever is indexed,
appended and cut meanwhile, without further assumptions:

* `ReadersProofs!ReadersGetWholeBlocks`, `Spec => []WholeUnlessCut`;
* `ReadersProofs!ReadersMissNothing`, `Spec => []CompleteUnlessCut`;
* `ReadersProofs!LengthIsEnough`, `Spec => []LengthCoversIndexed`;
* `ReadersProofs!LocksExclude`, `Spec => []StoreGuarded`.

Further:

* `IndexerProofs!EvictionTerminates`, if `ProxyVerbosity` is within 0..2,
  `Spec => []EvictionEnds`.
* `ProxyProofs!HashesSound`, `Spec => []HashCacheSound`, and
  `ProxyProofs!AnswersSettled`, `Spec => []SettledAnswers`, of module `Proxy`, for
  any number of requests, whatever heights and verbosities they ask for, and poller,
  indexer and node in any order.  The node's heights fit in a u32 (`ProxyAssumption`);
  those asked for need not.
* `SchedulerProofs!ScheduledIndexer`, `SchedSpec => Spec`: every step of the
  scheduled program is one of `Indexer`'s or changes none of its variables.  All
  theorems above hold of `Scheduler` with it.
* `SchedulerProofs!NotifiedSound`, if RPCs and appends succeed (`Reliable`),
  `SchedSpec => []NotifiedIsScanned`, for any number of messages.

Of `Restart`, for stops between passes (`~AbruptStops`) and a disk that appends, cuts
and saves (`WorkingStream`, `RestartAssumption`), for any number of stops, any chains,
reorganisations at any time, also while down and while starting, and any RPC errors:

* `RestartProofs!ServesSound`, `RestartSpec => []ServesWellFormed`;
* `RestartProofs!SavedIndexSound`, `RestartSpec => []SavedIndexBacked`.

And for stops anywhere, in the middle of a write, a pass or a start, any number of
them, on a chain that only grows and with a node that answers (`GrowingNode`, which
is `~Reorgs` and `~RpcMayFail`), again with `WorkingStream`; blocks may arrive at any
time, also in the middle of a start:

* `RestartProofs!NoBlockSkipped`, `RestartSpec => []CursorBacked`;
* `RestartProofs!SavedIndexSurvives`, `RestartSpec => []SavedIndexBacked`.

Of `WireFile`, for every base, every chain of blocks and every transaction a node may
send (`CandidatesAssumption`: heights and a packet's length are a u32, as in the code,
which would truncate them), any number of stops and cuts, if a stop does not tear the
very first block of the file (`~HeadTear`):

* `WireProofs!RecoverySound`, `WireSpec => []RecoveredIsWhole`;
* `WireProofs!CompactSound`, `WireSpec => []CompactAgrees`;
* `WireProofs!WalletSound`, `WireSpec => []WalletReadsChain`.

None of the assumptions can be dropped: `appendfault` shows the buffer leaving
the file behind, `evictstuck` an eviction that does not end, `proxytxs` a block
decoded without its transactions, and an RPC error or a failed append ends a pass
below the node's height.  A truncation that reports failure may have cut the file,
while the index still names what was there and the pass goes on (`cutfault`).
A stop in the middle of a pass may leave a block in the file that the index does not
name, which the next start appends again (`crashdup`).  Of `GrowingNode`, an RPC
error makes a start skip a block and save the tip as scanned (`SkipBlock`, then
`SaveCursor`), and after a reorg a stop between two cuts leaves entries beyond the
file's end (`crashcut`).
Those of `QuietNode` are needed one by one: `forkerror` (an RPC error), `midpass`,
`proxystale` and `masked` (the proxy), `deepfork`, `cutfault`; and a block whose
append failed stays in the cache as the last one above the cursor, from where the
next pass takes its hash though the node may have left it.

The argument.  `TypeOK` alone is not inductive: that an offset added to the
index is a natural number needs that `AddIndex` runs only after the append
succeeded; that the hash fetched is at the height wanted needs that the cache
maps a height to a block of that height; and the index stays in order only if
the block appended is above all of it.  `Inv` is therefore the conjunction of
the types (`Shape`); `GateInv` (a pass is running only when the gate is shut, and
only one); `PassOK` for each task (what its locals hold at each label: the target is
one above the cursor, the block at hand has that height, a fork point is at
least 1 and at most one above the cursor); `IndexInv` (heights ascend and stay
at or below the cursor, up to the block being stored); and `CacheInv` (a mapped
hash is a block of its height).  The proof that a step preserves it has a lemma per
action; the gate makes the other tasks' labels `idle` and their conjuncts trivial.
`Inv` is silent about the history `scanned`, on which nothing depends that a pass
does; `Traced` adds that it is one block for each height up to the cursor.

`StoreInv` adds that the index delimits the buffer up to what is committed, that
file and buffer agree outside an append, and during one differ by exactly the
block being appended.  It rests on two lemmas of `ShieldStoreProofs` that do the
work: `DelimitsAppend` (a delimited stream, extended by an encoded block and an
entry for it at its old end, is delimited) and `DelimitsCut` (a delimited
stream, cut at `offset_for_height(h)` with the index cut by `remove_from(h)`, is
delimited).  They hold because an offset in the index is always the end of a
block, which is what the orphaned bytes of the old reorg handler broke.

Nothing skipped.  `DecodeInv` says that what a task has decoded is the whole of the
block it has seen: the one way to less is a block cached at verbosity 1, whose
transactions are asked for one by one.  With it a block with shielded transactions
never takes the way around the store (`AdvanceEmpty`), and the branch "nothing to
append" never follows a decoded block.  What the store stands for, `Synced`, is
`scanned` except between the steps that change the one and the other; `SyncedNext`
says that a step leaves it, adds a block to it with or without an entry in the
index, or cuts it with or without one, and the theorems are inductions over these
five cases.

The refinement maps `ShieldLog`'s log to the first packets of the indexed blocks.
`LogExtends` and `LogRollsBack` give its two actions: an entry added lengthens the
log by the block just scanned, and a cut at a fork leaves a prefix, because
`remove_from(h)` leaves the entries below `h` and `truncate_to` the bytes below
the offset of the first of the others.  Every other step is a stutter.

The file when appends fail.  It is then no longer delimited by the index: remains of
failed appends lie between the blocks.  `KeepInv` asks less, that each indexed
block stands whole where its entry points, that the entries' blocks do not overlap,
and that a block appended and not indexed yet stands above them.  An append only
adds at the end of the file, where none of them is, and a cut at an entry's offset
takes that block and those behind it and no part of one before.

Eviction.  Entries outlive their height when a second block of the height is
inserted, so the cache does hold entries that `evict_lowest` cannot reach, and the
question is whether they can fill it.  `EvictInv` says that they are always fewer
than `Capacity`.  It is kept because `insert` adds an entry that the height it maps
reaches, to a cache in which there is room: whatever was unreachable before is
counted in what was there, and the new entry is not (`InsertRoom`); invalidation
only removes (`ForgetRoom`).  The loop's `CHOOSE` of the lowest height needs the
least element of a set of naturals (`LeastRoom`, by `WellFoundedInduction`).  At a
verbosity above 2 the new entry is not reachable either, and the argument fails
where the code does.

The reorg detection.  It compares the parent of the first new block with the block
cached at the cursor, so it is only as good as the cache.  `QuietInv` says that the
height map holds what was scanned at a height or nothing (`CacheFollows`), that
every entry is mapped by its height, and that outside a repair the block at the
cursor is cached (`LastCached`): eviction removes the lowest heights, and the block
just scanned is inserted after it.  A detection that passes has therefore compared
the node's block with the one scanned last, and two chains that share a block share
all below it (`SharedBelow`).  A turn of `find_fork_point` that ends the search has
matched the node's hash with a scanned block's; where the cache has forgotten it
goes lower, and at the bottom of its window `ForksInReach` says that no two chains
part there (`LimitOnNode`).  After the cut nothing at or above the fork is cached,
so each block that is scanned next is asked of the node.

Readers.  `StoreInv` of `ReadersProofs` says that the buffer is whole blocks of
ascending height, that each index entry points at the first packet of its block, and
that at most one block, the last, is not indexed yet (`Holding`, `UpTo`).  Of a
request between its two locks `Waiting` says: unless a cut has come, the offset it
holds is still the one the index gives for the height asked for, and the blocks it
owes are still indexed; an append changes neither, since it indexes a block above
all others (`OffsetStays`, `NextFacts`).  What it then slices is whole blocks from a
block's beginning, and as heights ascend it holds every one from the height on
(`SliceFromEntry`).  A cut is what `cut` records, and what the two `...UnlessCut`
properties exempt.  A length is measured under both locks, from an entry's offset to
the next one's or the buffer's end (`RangeFits`).  `LockInv` is about the locks
alone: the queue is in order, no task is in it twice, who holds is not waiting, and
a task holds or waits for a lock only at the labels where the code has asked for it
(`IndexClaims`, `BufferClaims`).  `StoreGuarded` follows, and with it that one action
for each locked section loses no interleaving.

The proxy.  The node takes no chain shorter than the one it leaves, and `ProxyInv`
says that whatever the bridge holds (the caches, the poller's and the requests'
locals, the block the indexer is about to cache) is of a height that the node has,
and that a hash filed under a height is a block of that height.  A request by height has
a block of that height modulo 2^32: from a cache, because the remainder is the key; from
the node, because a height that it has is its own remainder (`KeyOfHeight`), so that the
hash is filed under the block's height, too.  Where a height has
one block only the rest follows (`SettledOnChain`).  A hash that a request names
itself is exempt until a cache or the node has answered to it.  For the hash cache
`Queued` strengthens `HashCacheSound`: the queue lists no height twice, from which
that map and queue are of one size follows by a bijection (`QueuedSound`).

Scheduling.  `CoverInv` follows the node's height through a pass: while every
move of the node has been heard (nothing missed, queued or about to be called
for), a pass behind its count has the node's height, one on its way out has
scanned up to it, and with no pass running the cursor is there.  It needs `Inv`
for the gate: the step of one task's pass says nothing of the other's, and the
gate says the other is idle.

Starting again.  `OrderlyInv` has a part for each phase.  Down (`DownInv`): the saved
index delimits the file, each of its entries names a whole block, and none is above
the saved cursor.  Starting (`StartInv`): the same of the index in memory; what
the scan has found is in ascending order and above all that is indexed (`FoundUpTo`),
because the scan begins above the cursor and each hash the node answers with is of
the height asked for.  So the batch, which is appended without a look at the index,
leaves a delimited file (`BatchDelimits`, an induction over the batch).  Live
(`LiveInv`): the invariants of the indexer, to which `Load` hands over all they need,
and that saved index and cursor follow those in memory but for the steps between.
Between passes the two agree, which is what `Stop` leaves.  A saved cursor may
be ahead of what was scanned, where an RPC failed, and never behind the index:
that is what the next start relies on.

Bytes.  `FileInv` says that the file is the encoding of the indexed blocks and each
entry points at the beginning of its block (`Placed`), or, when the program is down,
that this is followed by a proper part of the next block (`TornBehind`).  A start has
to cut exactly this part.  `WalkLaid` follows the walk of `find_last_footer` from
packet to packet, which needs that a length of four digits reads back (`ReadsBack4`,
and with it that blocks are no longer than a u32 says); `CutFramed` says where the
walk stops in the part, in front of a packet whose length or content is not all there.
A block has its footer last, so the part holds none, and none of its transactions looks
like one: the first byte of a Sapling transaction is its version, not the footer's tag
(`ShieldTxShape`).  The last footer is therefore the one in front (`FindsLastFooter`),
and there is one unless the file had no block (`~HeadTear`, where `torn` shows what
happens otherwise).

The converter walks the same packets (`StreamPackets`), with what is pending as its
state: behind the footer of a block it is empty, and what went out is what
`encode_compact` makes of the blocks up to it (`ConvertsStream`).  That the two build
the same packet of a transaction rests on what the parser answers (`Parsed`): each output
has the fields that `CompactOutput` keeps, so that the middle of it is what the
"plus" format sends (`EncodersAgree`).  A reader who starts at the k-th block
gets the packets from there on, since its entry points there (`ServedIs`).

What the wallet reads is the node's, because each layout is undone by the reader behind
it.  The parser goes over the scripts of a transaction as the node serialises it
(`SkipsScripts`, which needs that a count reads back in the width it was written in,
`ReadsCount`) and finds the descriptions where the counts say (`RawParsed`): it answers
with the node's nullifiers and outputs if the transaction has Sapling data, which is
also when the scanner keeps it (`KeptIffSapling`).  The wallet's reader undoes the compact
payload in the same way, in both formats (`ReadsPayload`), and so gets the `Notes` of
the transaction (`ReadsNotes`), of which the first byte is not a header's.  A header
begins a block and what follows goes to the last one read (`ReadsBlock`), so what is read
after the packets of the first blocks are those blocks (`ReadsStream`).  No payload is
too long for its length field, as it holds a part of what the transaction does
(`PayloadShort`).

Stopping anywhere.  `CrashInv` says what is on disk at any moment (`SavedInv`): each
saved entry names a whole block; the saved index is in order and has every block with
Sapling transactions up to its last one (`Gapless`); and, up to where a start resumes,
every one there is (`Covers`).  The last two differ: between the save of the index and
that of the cursor the index is a block ahead, or, after an initial scan, all of it,
and a start without a cursor resumes behind the index, not behind the cursor
(`ResumeAt`).  That an append cut short does no harm is two facts about
`recover_cache`: the file only grows (`PartGrows`), and a cut behind the last footer
keeps every block that has its footer (`RecoveryKeepsWhole`), indexed or not.  Nothing
is ever repaired on such a chain: the saved hash is the node's or none, so is
what the cache says of the block below the cursor (`CachedOnChain`), and all steps
that cut are disabled (`FollowsChain`, `ScanInv`).  What the scan of a start has found
is new to the index or was there before (`FoundIsNew`): blocks that were indexed but
not yet below the cursor are scanned again, which duplicates them in the file
(`crashdup`) and leaves the index as it is (`BatchAscends`).

## 5. Model-checked only, and not modelled

Model-checked only:

* liveness (`GateReleased`, `PollerCatchesUp`, `EveryoneServed`), which is beyond
  TLAPS: every invariant that a passing run checks is stated by a theorem, most of
  them under the conditions that section 4 names.

Not modelled:

* hex decoding: table lookups and SIMD, no state; a hash or a transaction is a
  value in every module;
* configuration and routes: command line, environment, router, compression;
* broadcast, the address index, the block count: one call passed through;
* `get_shield_blocks`: one read under one lock;
* of the proxy, the whitelist, the parsing of parameters, and jq filters with
  their cache of compiled filters, a pure function of the expression;
* of the RPC client, everything below "an answer or an error";
* an index file that does not parse.  `load_or_create` (`index.rs` 233-236) warns and
  starts with an empty index, while the saved cursor stays where it was: what was indexed
  before is then in `shield.bin` and in no index, and is not scanned again (the comment
  at `index.rs` 52-54 says it would be, from genesis).  Saves write another file and
  rename it, so no stop leaves such an index, and no run meets it;
* `heights_from`, which nothing calls;
* the hit counters of the block cache, for logging only.

## 6. Plan

Done: `Indexer` with its store and cache; `Readers`; `Restart`; `Scheduler`;
`Proxy` with both caches; `Wire`; proofs of type correctness, mutual exclusion,
order of the index, soundness of the stream, nothing skipped or lost, the
refinement, what the file keeps, eviction, the reorg detection, the readers and
their locks, the proxy's answers, scheduling, starts after orderly stops, starts
after stops anywhere on a growing chain, and recovery, compact streams and what a
wallet reads from them byte by byte.
