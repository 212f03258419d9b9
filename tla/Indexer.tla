------------------------------ MODULE Indexer ------------------------------
(***************************************************************************)
(* The live indexer of src/main.rs: index_new_blocks and the functions it  *)
(* calls (find_fork_point, scanner::scan_block, BlockCache, ShieldIndex,   *)
(* cache::append_blocks, cache::truncate_to, ScanCursor::save).            *)
(*                                                                         *)
(* Two tasks run it, the ZMQ listener and the poller, each awaiting its    *)
(* own pass; AppState.indexing keeps a second pass out.  A pass is cut     *)
(* into one action per RPC, lock or write, so that the node, the proxy     *)
(* and the other task can act between any two of them.                     *)
(***************************************************************************)
EXTENDS BlockCache, ShieldStore

CONSTANTS
    Worker,           \* the tasks that call index_new_blocks
    InitChain,        \* the chain at start-up, already scanned
    SearchDepth,      \* SEARCH_DEPTH of find_fork_point
    RpcMayFail,       \* the node may refuse or time out on any RPC
    MidPassReorg,     \* the node may change chain while a pass runs
    ProxyVerbosity,   \* verbosities, "as u8", asked for through the proxy
    DiskFaults,       \* kinds of disk operation that may fail
    FaultBound        \* bound on Len(buffer) when a disk operation fails

ASSUME IndexerAssumption ==
    /\ SearchDepth \in Nat \ {0}
    /\ InitChain \in Chains /\ Len(InitChain) <= Capacity
    /\ \A h \in 1..Len(InitChain) : ShieldTxs[InitChain[h]] = 0
    /\ RpcMayFail \in BOOLEAN /\ MidPassReorg \in BOOLEAN
    /\ ProxyVerbosity \subseteq Verbosity
    /\ DiskFaults \subseteq {"append", "truncate", "save"}
    /\ FaultBound \in Nat

VARIABLES
    chain,         \* the node's active chain
    indexing,      \* AppState.indexing, the gate
    chainHeight,   \* AppState.chain_height, also the pass's own copy
    lastScanned,   \* AppState.last_scanned_height
    lastHash,      \* AppState.last_scanned_hash
    index,         \* AppState.index
    buffer,        \* AppState.shield_buffer
    cache,         \* AppState.block_cache
    file,          \* shield.bin
    diskIndex,     \* the saved index
    diskCursor,    \* the saved ScanCursor
    inflight,      \* a getblock answer the proxy has yet to insert
    pass,          \* per task, the locals of index_new_blocks
    scanned        \* history: the block scanned at each height so far

store  == <<index, buffer, file, diskIndex>>
cursor == <<lastScanned, lastHash, diskCursor, scanned>>
node   == <<chain, inflight>>
vars   == <<chain, indexing, chainHeight, lastScanned, lastHash, index, buffer,
            cache, file, diskIndex, diskCursor, inflight, pass, scanned>>

PC == {"idle", "count", "probe", "detect", "fork", "invalidate", "truncate",
       "saveindex", "rewind", "target", "fetch", "cacheput", "decoded",
       "extend", "add", "advance", "exit", "cursor", "leave"}

Pass == [ pc    : PC,
          at    : Nat,                      \* scan_from, fork_height or target_h
          seen  : Block \cup {NoBlock},     \* previousblockhash, then the block
          got   : Nat,                      \* Sapling transactions decoded
          off   : Nat \cup {NoOffset},      \* offset append_blocks returned
          dirty : BOOLEAN ]                 \* needs_persist

IdlePass == [pc |-> "idle", at |-> 0, seen |-> NoBlock, got |-> 0,
             off |-> NoOffset, dirty |-> FALSE]

NoRequest == <<>>

Init ==
    /\ chain = InitChain
    /\ indexing = FALSE
    /\ chainHeight = Len(InitChain)
    /\ lastScanned = Len(InitChain)
    /\ lastHash = IF InitChain = <<>> THEN NoBlock ELSE InitChain[Len(InitChain)]
    /\ index = <<>> /\ buffer = <<>> /\ file = <<>> /\ diskIndex = <<>>
    /\ cache = [ h2h |-> [h \in Heights |->
                            IF h <= Len(InitChain) THEN InitChain[h] ELSE NoBlock],
                 entries |-> {<<InitChain[h], 2>> : h \in 1..Len(InitChain)} ]
    /\ diskCursor = [height |-> lastScanned, hash |-> lastHash]
    /\ inflight = NoRequest
    /\ pass = [w \in Worker |-> IdlePass]
    /\ scanned = InitChain

----------------------------------------------------------------------------
(* The node's answers and the disk's.  An RPC error is the hash NoBlock.   *)

NodeHash(h) == IF h \in 1..Len(chain) THEN chain[h] ELSE NoBlock

HashAnswers(h) == {NodeHash(h)} \cup (IF RpcMayFail THEN {NoBlock} ELSE {})

MayFail(op) == op \in DiskFaults /\ Len(buffer) <= FaultBound

\* An atomic save by write, sync and rename: the new content or the old.
Saved(new, old) == {new} \cup (IF MayFail("save") THEN {old} ELSE {})

\* File::set_len fills with zeros when it grows a file.
SetLen(f, n) ==
    [p \in 1..n |-> IF p <= Len(f) THEN f[p] ELSE <<NoBlock, 0>>]

\* Mutant of TruncateVec: the buffer keeps the orphans' bytes.
TruncateNothing(s, n) == s

\* Vec::truncate never grows.
TruncateVec(s, n) == IF n < Len(s) THEN SubSeq(s, 1, n) ELSE s

----------------------------------------------------------------------------
(* Entering a pass, and leaving it.                                        *)

At(w, label) == pass[w].pc = label
Step(w, next) == pass' = [pass EXCEPT ![w] = next]
Goto(w, label) == Step(w, [pass[w] EXCEPT !.pc = label])
GotoAt(w, label, h) == Step(w, [pass[w] EXCEPT !.pc = label, !.at = h])
GotoSeeing(w, label, h, b) ==
    Step(w, [pass[w] EXCEPT !.pc = label, !.at = h, !.seen = b])

\* Mutant of Enter: no gate, as before issue 1.
EnterUngated(w) ==
    /\ At(w, "idle")
    /\ indexing' = TRUE
    /\ Goto(w, "count")
    /\ UNCHANGED <<node, chainHeight, cursor, store, cache>>

\* The compare_exchange of the gate; the loser returns at once.
Enter(w) ==
    /\ At(w, "idle")
    /\ ~indexing
    /\ indexing' = TRUE
    /\ Goto(w, "count")
    /\ UNCHANGED <<node, chainHeight, cursor, store, cache>>

\* Mutant of Count: the height the last pass saw decides whether to go on.
CountStale(w) ==
    /\ At(w, "count")
    /\ chainHeight' = Len(chain)
    /\ IF lastScanned + 1 > chainHeight
       THEN Goto(w, "leave")
       ELSE GotoAt(w, "probe", lastScanned + 1)
    /\ UNCHANGED <<node, indexing, cursor, store, cache>>

\* getblockcount, and the first early return when nothing is new.
Count(w) ==
    /\ At(w, "count")
    /\ \/ /\ RpcMayFail
          /\ Goto(w, "leave")
          /\ UNCHANGED chainHeight
       \/ /\ chainHeight' = Len(chain)
          /\ IF lastScanned + 1 > Len(chain)
             THEN Goto(w, "leave")
             ELSE GotoAt(w, "probe", lastScanned + 1)
    /\ UNCHANGED <<node, indexing, cursor, store, cache>>

\* Mutant of Leave: no guard, the early returns leave the gate shut.
LeaveUnguarded(w) ==
    /\ At(w, "leave") \/ (At(w, "exit") /\ ~pass[w].dirty)
    /\ indexing' = At(w, "leave")
    /\ Step(w, IdlePass)
    /\ UNCHANGED <<node, chainHeight, cursor, store, cache>>

\* Mutant of Leave: the cursor jumps to the chain's height, as the poller's
\* did before the fix its closing comment describes, and the blocks it jumps
\* over count as scanned.
LeaveStomping(w) ==
    /\ At(w, "leave") \/ (At(w, "exit") /\ ~pass[w].dirty)
    /\ indexing' = FALSE
    /\ scanned' = IF chainHeight <= Len(chain)
                  THEN SubSeq(chain, 1, chainHeight) ELSE scanned
    /\ lastScanned' = Len(scanned')
    /\ Step(w, IdlePass)
    /\ UNCHANGED <<node, chainHeight, lastHash, diskCursor, store, cache>>

\* The guard's drop.
Leave(w) ==
    /\ At(w, "leave") \/ (At(w, "exit") /\ ~pass[w].dirty)
    /\ indexing' = FALSE
    /\ Step(w, IdlePass)
    /\ UNCHANGED <<node, chainHeight, cursor, store, cache>>

----------------------------------------------------------------------------
(* Reorg detection, once per pass, at the first height to scan.            *)

\* getblockhash and getblock; an error of either skips the detection.
Probe(w) ==
    /\ At(w, "probe")
    /\ \E hash \in HashAnswers(pass[w].at) :
         IF hash = NoBlock
         THEN Goto(w, "target")
         ELSE GotoSeeing(w, "detect", pass[w].at, NodeHash(pass[w].at - 1))
    /\ UNCHANGED <<node, indexing, chainHeight, cursor, store, cache>>

Detect(w) ==
    /\ At(w, "detect")
    /\ IF DetectReorg(cache, pass[w].at, pass[w].seen)
       THEN GotoAt(w, "fork", pass[w].at - 1)
       ELSE Goto(w, "target")
    /\ UNCHANGED <<node, indexing, chainHeight, cursor, store, cache>>

\* find_fork_point's limit, counted from scan_from.
SearchLimit ==
    IF lastScanned + 1 > SearchDepth THEN lastScanned + 1 - SearchDepth ELSE 0

\* Mutant of FindFork: an uncached height ends the search, as it did before
\* the fallback the comment of find_fork_point describes.
FindForkToMiss(w) ==
    LET h     == pass[w].at
        known == HashForHeight(cache, h)
    IN  /\ At(w, "fork")
        /\ IF known \in {NoBlock, NodeHash(h)}
           THEN GotoAt(w, "invalidate", h + 1)
           ELSE GotoAt(w, "fork", h - 1)
        /\ UNCHANGED <<node, indexing, chainHeight, cursor, store, cache>>

\* One turn of find_fork_point's loop at height h: a match or an RPC error
\* ends the search at h + 1, a mismatch or an uncached height goes lower.
FindFork(w) ==
    LET h == pass[w].at
    IN  /\ At(w, "fork")
        /\ IF h <= SearchLimit
           THEN GotoAt(w, "invalidate", SearchLimit + 1)
           ELSE \E hash \in HashAnswers(h) :
                  IF hash \in {NoBlock, HashForHeight(cache, h)}
                  THEN GotoAt(w, "invalidate", h + 1)
                  ELSE GotoAt(w, "fork", h - 1)
        /\ UNCHANGED <<node, indexing, chainHeight, cursor, store, cache>>

Invalidate(w) ==
    /\ At(w, "invalidate")
    /\ cache' = InvalidateFrom(cache, pass[w].at)
    /\ Goto(w, "truncate")
    /\ UNCHANGED <<node, indexing, chainHeight, cursor, store>>

\* With the index, buffer and file locks held: cut the three at the fork.
\* Without an indexed block there, only the in-memory cursor moves; when the
\* file cannot be cut, nothing else is, and the pass goes on.
Truncate(w) ==
    LET fork == pass[w].at
        off  == OffsetForHeight(index, fork)
    IN  /\ At(w, "truncate")
        /\ \/ /\ off = NoOffset
              /\ lastScanned' = fork - 1
              /\ scanned' = SubSeq(scanned, 1, fork - 1)
              /\ Goto(w, "target")
              /\ UNCHANGED <<file, buffer, index>>
           \/ /\ off # NoOffset /\ MayFail("truncate")
              /\ file' \in {file, SetLen(file, off)}
              /\ Goto(w, "target")
              /\ UNCHANGED <<buffer, index, lastScanned, scanned>>
           \/ /\ off # NoOffset
              /\ file' = SetLen(file, off)
              /\ buffer' = TruncateVec(buffer, off)
              /\ index' = RemoveFrom(index, fork)
              /\ Goto(w, "saveindex")
              /\ UNCHANGED <<lastScanned, scanned>>
        /\ UNCHANGED <<node, indexing, chainHeight, lastHash, diskIndex,
                       diskCursor, cache>>

SaveTrimmedIndex(w) ==
    /\ At(w, "saveindex")
    /\ diskIndex' \in Saved(index, diskIndex)
    /\ Goto(w, "rewind")
    /\ UNCHANGED <<node, indexing, chainHeight, cursor, index, buffer, file, cache>>

\* Mutant of Rewind: the cursor stops on the orphan at the fork.
RewindToFork(w) ==
    LET fork == pass[w].at
    IN  /\ At(w, "rewind")
        /\ lastScanned' = fork
        /\ scanned' = SubSeq(scanned, 1, fork)
        /\ lastHash' = NoBlock
        /\ diskCursor' \in Saved([height |-> fork, hash |-> NoBlock], diskCursor)
        /\ Goto(w, "target")
        /\ UNCHANGED <<node, indexing, chainHeight, store, cache>>

Rewind(w) ==
    LET fork == pass[w].at
    IN  /\ At(w, "rewind")
        /\ lastScanned' = fork - 1
        /\ scanned' = SubSeq(scanned, 1, fork - 1)
        /\ lastHash' = NoBlock
        /\ diskCursor' \in Saved([height |-> fork - 1, hash |-> NoBlock], diskCursor)
        /\ Goto(w, "target")
        /\ UNCHANGED <<node, indexing, chainHeight, store, cache>>

----------------------------------------------------------------------------
(* The loop: scan the next block, append it, move the cursor.              *)

\* The head of the loop and scan_block's choice of a hash: the one cached
\* for the height before the node's.
Target(w) ==
    LET t == lastScanned + 1
    IN  /\ At(w, "target")
        /\ IF t > chainHeight
           THEN Goto(w, "exit")
           ELSE \E hash \in IF HashForHeight(cache, t) # NoBlock
                            THEN {HashForHeight(cache, t)} ELSE HashAnswers(t) :
                  IF hash = NoBlock
                  THEN Goto(w, "exit")
                  ELSE GotoSeeing(w, "fetch", t, hash)
        /\ UNCHANGED <<node, indexing, chainHeight, cursor, store, cache>>

\* Mutant of Fetch: a transaction that is not read is left out of any block.
FetchLossy(w) ==
    /\ At(w, "fetch")
    /\ \E n \in 0..ShieldTxs[pass[w].seen] :
         Step(w, [pass[w] EXCEPT !.pc = IF Hit(cache, pass[w].seen, 2)
                                        THEN "decoded" ELSE "cacheput",
                                 !.got = n])
    /\ UNCHANGED <<node, indexing, chainHeight, cursor, store, cache>>

\* fetch_block.  A cached block served at verbosity 1 needs one RPC for each
\* transaction, and one that fails leaves its transaction out.  On a miss the
\* node, which keeps stale blocks, is asked for the block at verbosity 2.
Fetch(w) ==
    LET b     == pass[w].seen
        total == ShieldTxs[b]
    IN  /\ At(w, "fetch")
        /\ \/ /\ Hit(cache, b, 2)
              /\ \E n \in IF ServedVerbosity(cache, b, 2) = 1 /\ RpcMayFail
                          THEN 0..total ELSE {total} :
                   Step(w, [pass[w] EXCEPT !.pc = "decoded", !.got = n])
           \/ /\ ~Hit(cache, b, 2)
              /\ Step(w, [pass[w] EXCEPT !.pc = "cacheput", !.got = total])
           \/ /\ ~Hit(cache, b, 2) /\ RpcMayFail
              /\ Goto(w, "exit")
        /\ UNCHANGED <<node, indexing, chainHeight, cursor, store, cache>>

CachePut(w) ==
    /\ At(w, "cacheput")
    /\ RoomToMake(cache)
    /\ cache' = Insert(cache, pass[w].seen, 2)
    /\ Goto(w, "decoded")
    /\ UNCHANGED <<node, indexing, chainHeight, cursor, store>>

\* Ok(None): the cursor moves in memory only.
AdvanceEmpty(w) ==
    /\ At(w, "decoded") /\ pass[w].got = 0
    /\ lastScanned' = pass[w].at
    /\ scanned' = Append(scanned, pass[w].seen)
    /\ Step(w, [pass[w] EXCEPT !.pc = "target", !.dirty = TRUE])
    /\ UNCHANGED <<node, indexing, chainHeight, lastHash, diskCursor, store, cache>>

\* Ok(Some(block)): the idempotency check, then cache::append_blocks.  A
\* write that fails leaves any part of the block behind.
AppendFile(w) ==
    LET bytes == Encode(pass[w].seen, pass[w].got)
        next  == [pass[w] EXCEPT !.pc = "extend"]
    IN  /\ At(w, "decoded") /\ pass[w].got > 0
        /\ IF HeightOf[pass[w].seen] \in HeightsIn(index)
           THEN Goto(w, "advance") /\ UNCHANGED file
           ELSE \/ /\ file' = file \o bytes
                   /\ Step(w, [next EXCEPT !.off = Len(file)])
                \/ /\ MayFail("append")
                   /\ \E k \in 0..Len(bytes) : file' = file \o SubSeq(bytes, 1, k)
                   /\ Step(w, [next EXCEPT !.off = NoOffset])
        /\ UNCHANGED <<node, indexing, chainHeight, cursor, index, buffer,
                       diskIndex, cache>>

\* The buffer is extended whether or not the file was.
ExtendBuffer(w) ==
    /\ At(w, "extend")
    /\ buffer' = buffer \o Encode(pass[w].seen, pass[w].got)
    /\ Goto(w, "add")
    /\ UNCHANGED <<node, indexing, chainHeight, cursor, index, file, diskIndex, cache>>

\* Mutant of AddIndex: the result of the append is not looked at.
AddIndexUnchecked(w) ==
    /\ At(w, "add")
    /\ index' = AddEntry(index, HeightOf[pass[w].seen], pass[w].off)
    /\ diskIndex' \in Saved(index', diskIndex)
    /\ Goto(w, "advance")
    /\ UNCHANGED <<node, indexing, chainHeight, cursor, buffer, file, cache>>

\* Mutant of AddIndex: a failed append is indexed at offset 0, the poisoned
\* entry the comment of this branch describes.
AddIndexPoisoned(w) ==
    /\ At(w, "add")
    /\ index' = AddEntry(index, HeightOf[pass[w].seen],
                         IF pass[w].off = NoOffset THEN 0 ELSE pass[w].off)
    /\ diskIndex' \in Saved(index', diskIndex)
    /\ Goto(w, "advance")
    /\ UNCHANGED <<node, indexing, chainHeight, cursor, buffer, file, cache>>

\* Mutant of AddIndex: a failed append is not retried.
AddIndexSkipping(w) ==
    /\ At(w, "add")
    /\ IF pass[w].off = NoOffset
       THEN UNCHANGED <<index, diskIndex>>
       ELSE /\ index' = AddEntry(index, HeightOf[pass[w].seen], pass[w].off)
            /\ diskIndex' \in Saved(index', diskIndex)
    /\ Goto(w, "advance")
    /\ UNCHANGED <<node, indexing, chainHeight, cursor, buffer, file, cache>>

AddIndex(w) ==
    /\ At(w, "add")
    /\ IF pass[w].off = NoOffset
       THEN Goto(w, "exit") /\ UNCHANGED <<index, diskIndex>>
       ELSE /\ index' = AddEntry(index, HeightOf[pass[w].seen], pass[w].off)
            /\ diskIndex' \in Saved(index', diskIndex)
            /\ Goto(w, "advance")
    /\ UNCHANGED <<node, indexing, chainHeight, cursor, buffer, file, cache>>

\* getblockhash again, for the persisted cursor; then the cursor moves.
Advance(w) ==
    LET t == pass[w].at
    IN  /\ At(w, "advance")
        /\ \E hash \in HashAnswers(t) :
             /\ lastHash' = IF hash = NoBlock THEN lastHash ELSE hash
             /\ diskCursor' \in Saved([height |-> t, hash |-> hash], diskCursor)
        /\ lastScanned' = t
        /\ scanned' = Append(scanned, pass[w].seen)
        /\ Step(w, [pass[w] EXCEPT !.pc = "target", !.dirty = FALSE])
        /\ UNCHANGED <<node, indexing, chainHeight, store, cache>>

\* needs_persist at the end of the loop: the hash, the index, the cursor.
PersistIndex(w) ==
    /\ At(w, "exit") /\ pass[w].dirty
    /\ \E hash \in HashAnswers(lastScanned) :
         GotoSeeing(w, "cursor", pass[w].at, hash)
    /\ diskIndex' \in Saved(index, diskIndex)
    /\ UNCHANGED <<node, indexing, chainHeight, cursor, index, buffer, file, cache>>

PersistCursor(w) ==
    LET hash == pass[w].seen
    IN  /\ At(w, "cursor")
        /\ lastHash' = hash
        /\ diskCursor' \in Saved([height |-> lastScanned, hash |-> hash], diskCursor)
        /\ Goto(w, "leave")
        /\ UNCHANGED <<node, indexing, chainHeight, lastScanned, scanned, store, cache>>

----------------------------------------------------------------------------
(* The environment: the node's chain, and the proxy's getblock handler.    *)

NodeStep ==
    /\ MidPassReorg \/ ~indexing
    /\ chain' \in Chains \ {chain}
    /\ UNCHANGED <<indexing, chainHeight, cursor, store, cache, inflight, pass>>

\* rpc_proxy: a miss in the cache, then the node's answer, for a block of its
\* chain or one it keeps beside it; bounded to one request at a time.
ProxyFetch ==
    /\ inflight = NoRequest
    /\ \E b \in Block, v \in ProxyVerbosity :
         /\ HeightOf[b] <= Len(chain)
         /\ ~Hit(cache, b, v)
         /\ inflight' = <<b, v>>
    /\ UNCHANGED <<chain, indexing, chainHeight, cursor, store, cache, pass>>

ProxyInsert ==
    /\ inflight # NoRequest
    /\ RoomToMake(cache)
    /\ cache' = Insert(cache, inflight[1], inflight[2])
    /\ inflight' = NoRequest
    /\ UNCHANGED <<chain, indexing, chainHeight, cursor, store, pass>>

\* The steps of a pass that has entered, in the order of the code.
PassStep(w) ==
    \/ Count(w) \/ Probe(w) \/ Detect(w) \/ FindFork(w) \/ Invalidate(w)
    \/ Truncate(w) \/ SaveTrimmedIndex(w) \/ Rewind(w)
    \/ Target(w) \/ Fetch(w) \/ CachePut(w) \/ AdvanceEmpty(w)
    \/ AppendFile(w) \/ ExtendBuffer(w) \/ AddIndex(w) \/ Advance(w)
    \/ PersistIndex(w) \/ PersistCursor(w) \/ Leave(w)

Next ==
    \/ \E w \in Worker : Enter(w) \/ PassStep(w)
    \/ NodeStep \/ ProxyFetch \/ ProxyInsert

Spec == Init /\ [][Next]_vars

\* A pass runs on its own blocking thread and every RPC it makes ends, with
\* an answer or the client's timeout: nothing may hold a pass up for ever.
FairSpec == Spec /\ \A w \in Worker : WF_vars(PassStep(w))

----------------------------------------------------------------------------
(* Properties.                                                             *)

TypeOK ==
    /\ chain \in Chains
    /\ indexing \in BOOLEAN
    /\ chainHeight \in Nat
    /\ lastScanned \in Nat
    /\ lastHash \in Block \cup {NoBlock}
    /\ index \in Seq(IndexEntry) /\ diskIndex \in Seq(IndexEntry)
    /\ buffer \in Seq(Packet)
    /\ file \in Seq((Block \cup {NoBlock}) \X Nat)
    /\ cache \in CacheType
    /\ diskCursor \in [height : Nat, hash : Block \cup {NoBlock}]
    /\ inflight \in (Block \X Verbosity) \cup {NoRequest}
    /\ pass \in [Worker -> Pass]
    /\ scanned \in Seq(Block)

\* Some task's pass is at one of the labels.
Somewhere(labels) == \E w \in Worker : pass[w].pc \in labels

\* The task inside a pass, when there is one.
Running == CHOOSE w \in Worker : pass[w].pc # "idle"

\* Up to where the stream is indexed: a block being appended is not yet.
Committed ==
    IF Somewhere({"extend", "add"}) THEN pass[Running].off ELSE Len(file)

\* The blocks the store stands for: between an append and the cursor's move,
\* and between a truncation and the cursor's rewind, it is ahead of scanned.
Synced ==
    IF Somewhere({"saveindex", "rewind"})
    THEN SubSeq(scanned, 1, pass[Running].at - 1)
    ELSE IF Somewhere({"advance"}) THEN Append(scanned, pass[Running].seen)
    ELSE scanned

\* With a working disk, the index cuts the stream that readers are served
\* into whole blocks of ascending height, none twice, at every step of every
\* pass: the duplicate and torn blocks of issue 1 and of truncate_to.
StreamWellFormed == Delimits(index, buffer, Committed)

\* With a working disk, shield.bin and the buffer hold the same packets
\* except while a block is being appended.
BufferMirrorsFile == Somewhere({"extend"}) \/ buffer = file

\* Every block behind the cursor that holds Sapling transactions is indexed,
\* and nothing else is: no block is skipped, whatever fails or reorganises.
NeverSkip ==
    HeightsIn(index) = {h \in 1..Len(Synced) : ShieldTxs[Synced[h]] > 0}

\* And the stream holds that very block with all of its transactions.
NothingLost ==
    \A k \in 1..Len(index) :
      LET b == Synced[index[k].block]
      IN  EndOf(index, k, Committed) - index[k].i = ShieldTxs[b] + 1
          /\ buffer[index[k].i + 1][1] = b

\* Whatever append or save fails, each index entry points at a whole block in
\* shield.bin: the block scanned at that height, all of its transactions.
FileKeepsIndexed ==
    \A k \in 1..Len(index) :
      LET b     == Synced[index[k].block]
          bytes == Encode(b, ShieldTxs[b])
      IN  /\ index[k].i + Len(bytes) <= Len(file)
          /\ SubSeq(file, index[k].i + 1, index[k].i + Len(bytes)) = bytes

\* What has been scanned is one chain: each block's parent is the block
\* scanned before it, as the reorg detection is there to ensure.
ParentLinked == OnOneChain(scanned)

\* A pass goes on past the reorg check only if the node's chain goes through the
\* block scanned last: no reorganisation of it is missed, whatever the cache
\* has forgotten and whichever blocks a fork point search has left in it.
ReorgNoticed ==
    [][\A w \in Worker : Detect(w) /\ pass'[w].pc = "target" /\ lastScanned > 0
         => scanned[lastScanned] = pass[w].seen]_vars

\* Once the reorg check is behind it, a pass works on top of the node's
\* chain: every block it has recorded is the node's at that height.
ScanOnChain ==
    Somewhere({"target", "fetch", "cacheput", "decoded", "extend", "add", "advance"})
      => /\ Len(scanned) <= Len(chain)
         /\ \A h \in 1..Len(scanned) : scanned[h] = chain[h]

\* The fork find_fork_point returns is no higher than the first block that
\* left the node's chain: no orphan stays below it.
ForkPointSound ==
    \A w \in Worker : At(w, "invalidate") =>
      \A h \in 1..Len(scanned) : h < pass[w].at => scanned[h] = NodeHash(h)

\* insert's eviction loop, which runs under the cache's write lock, ends: a
\* full cache always has a mapped height to evict, however many entries a
\* second block of their height or an invalidation has left without one.
EvictionEnds == RoomToMake(cache)

\* The indexer implements the abstract log: seen through the index, the store
\* only ever gains the next block of the scanned sequence or gives up a
\* suffix of it, at the very step that changes the index.
Log == INSTANCE ShieldLog WITH
    Start  <- InitChain,
    synced <- Synced,
    stream <- [k \in 1..Len(index) |-> buffer[index[k].i + 1][1]]

ImplementsShieldLog == Log!Spec

\* The gate is released again after every pass: a tick that was turned away
\* is never the last one to be let in, whichever of its ways out a pass takes
\* when an RPC or the cut of shield.bin fails.
GateReleased == indexing ~> ~indexing
=============================================================================
