------------------------------- MODULE Proxy -------------------------------
(***************************************************************************)
(* The JSON-RPC proxy of src/proxy.rs and the two caches it answers from:  *)
(* AppState.hash_cache (HashCache in src/api.rs), which the poller fills   *)
(* as well, and AppState.block_cache, which the indexer fills and          *)
(* invalidates.  The whitelist and the jq filter are left out.             *)
(*                                                                         *)
(* The indexer's pass is module Indexer's; here it is reduced to what it   *)
(* does to the block cache and the chain height, with RPCs that succeed.   *)
(***************************************************************************)
EXTENDS BlockCache

CONSTANTS
    InitChain,      \* the chain at start-up, already scanned
    Request,        \* requests the proxy handles at a time
    AskedHeight,    \* heights they ask for, whether the node has them or not
    AskedVerbosity, \* verbosities they ask for; below 0, one that is no number
    U32Range,       \* the numbers that a u32 holds, 2^32 in the code
    HashCapacity    \* entries of the hash cache, 1000 in init_network

ASSUME ProxyAssumption ==
    /\ InitChain \in Chains /\ Len(InitChain) <= Capacity
    /\ AskedHeight \subseteq Nat \ {0}
    /\ AskedVerbosity \subseteq Int
    /\ U32Range \in Nat /\ MaxHeight < U32Range
    /\ HashCapacity \in Nat \ {0}

VARIABLES
    chain,          \* the node's active chain
    chainHeight,    \* AppState.chain_height
    lastScanned,    \* AppState.last_scanned_height
    cache,          \* AppState.block_cache
    fetched,        \* a block the indexer has yet to put in it
    hashCache,      \* AppState.hash_cache
    polled,         \* the locals of poll_new_blocks up to its insert
    request         \* per request, the locals of rpc_proxy and its answer

indexer == <<chainHeight, lastScanned, cache, fetched>>
vars    == <<chain, indexer, hashCache, polled, request>>

NodeHash(h) == IF h \in 1..Len(chain) THEN chain[h] ELSE NoBlock

----------------------------------------------------------------------------
(* HashCache.                                                              *)

EmptyHashes == [entries |-> [h \in Heights |-> NoBlock], order |-> <<>>]

Cached(c) == {h \in Heights : c.entries[h] # NoBlock}

\* Without the oldest entry, if the cache is full.
DropOldest(c) ==
    IF Cardinality(Cached(c)) >= HashCapacity /\ c.order # <<>>
    THEN [entries |-> [c.entries EXCEPT ![Head(c.order)] = NoBlock],
          order   |-> Tail(c.order)]
    ELSE c

\* Mutant of HashInsert: a height that is present is entered once more.
HashInsertAgain(c, h, b) ==
    LET room == DropOldest(c)
    IN  [entries |-> [room.entries EXCEPT ![h] = b], order |-> Append(room.order, h)]

\* A height that is present keeps its first hash.
HashInsert(c, h, b) ==
    IF h \in Cached(c) THEN c
    ELSE LET room == DropOldest(c)
         IN  [entries |-> [room.entries EXCEPT ![h] = b],
              order   |-> Append(room.order, h)]

----------------------------------------------------------------------------
(* The poller: the last scanned block's hash and its successor's.          *)

NotPolling == [pc |-> "asleep", h |-> 0, last |-> NoBlock, next |-> NoBlock]

PollWakes ==
    /\ polled = NotPolling
    /\ polled' = [NotPolling EXCEPT !.pc = "ask", !.h = lastScanned]
    /\ UNCHANGED <<chain, indexer, hashCache, request>>

\* getblockhash and getblock; no error, no insert.  A block that has left the
\* node's chain between the two has no nextblockhash.
PollAsks ==
    /\ polled.pc = "ask"
    /\ LET h == polled.h
       IN  IF NodeHash(h) = NoBlock \/ NodeHash(h + 1) = NoBlock
           THEN polled' = NotPolling
           ELSE polled' = [pc |-> "cache", h |-> h, last |-> NodeHash(h),
                           next |-> NodeHash(h + 1)]
    /\ UNCHANGED <<chain, indexer, hashCache, request>>

\* Both inserts, under one write lock.
PollCaches ==
    /\ polled.pc = "cache"
    /\ hashCache' = HashInsert(HashInsert(hashCache, polled.h, polled.last),
                               polled.h + 1, polled.next)
    /\ polled' = NotPolling
    /\ UNCHANGED <<chain, indexer, request>>

PollerStep == PollWakes \/ PollAsks \/ PollCaches

----------------------------------------------------------------------------
(* rpc_proxy: getblockhash of a height, getblock of a hash or a height.    *)
(* A request holds what was asked, h or b with v, and what is answered:    *)
(* the block, the verbosity it is told at, and the two fields that change  *)
(* with the chain.  With a height asked, b is what the caches or the node  *)
(* have for it; h and v stay as they were asked, for the node to see.      *)

Waiting == [pc |-> "waiting", method |-> "none", h |-> 0, b |-> NoBlock, v |-> 0,
            tip |-> 0, told |-> 0, confirmations |-> 0, next |-> NoBlock]

\* A height asked for, "as u32": the key it has in the caches.  Counting from the
\* first scanned block on, as everywhere, does not change which key it hits.
U32(h) == h % U32Range

\* A verbosity asked for, "as u8"; what as_u64 does not take counts as 1.
U8(v) == IF v \in Nat THEN v % 256 ELSE 1

Is(r, label) == request[r].pc = label
Set(r, q) == request' = [request EXCEPT ![r] = q]

\* The fast path of getblockhash, or on to the node.
GetBlockHash(r) ==
    /\ Is(r, "waiting")
    /\ \E h \in AskedHeight :
         LET asked == [Waiting EXCEPT !.method = "getblockhash", !.h = h]
         IN  IF U32(h) \in Cached(hashCache)
             THEN Set(r, [asked EXCEPT !.pc = "answered",
                                       !.b = hashCache.entries[U32(h)]])
             ELSE Set(r, [asked EXCEPT !.pc = "ask"])
    /\ UNCHANGED <<chain, indexer, hashCache, polled>>

\* A height is looked up in the block cache first, under a lock of its own.
GetBlock(r) ==
    /\ Is(r, "waiting")
    /\ \E v \in AskedVerbosity :
         LET asked == [Waiting EXCEPT !.method = "getblock", !.v = v]
         IN  \/ \E b \in Block : Set(r, [asked EXCEPT !.pc = "height", !.b = b])
             \/ \E h \in AskedHeight :
                  LET b == HashForHeight(cache, U32(h))
                  IN  Set(r, [asked EXCEPT !.pc = IF b = NoBlock THEN "ask" ELSE "height",
                                           !.h = h, !.b = b])
    /\ UNCHANGED <<chain, indexer, hashCache, polled>>

LoadHeight(r) ==
    /\ Is(r, "height")
    /\ Set(r, [request[r] EXCEPT !.pc = "lookup", !.tip = chainHeight])
    /\ UNCHANGED <<chain, indexer, hashCache, polled>>

\* Mutant of Confirmations: a plain subtraction.
ConfirmationsBelow(tip, h) == tip - h + 1

\* chain_height.saturating_sub(height) + 1; a pass may not have set
\* chain_height yet when the proxy hears of the block.
Confirmations(tip, h) == (IF tip > h THEN tip - h ELSE 0) + 1

\* BlockCache::get, with the stripped fields put back.
Lookup(r) ==
    LET q == request[r]
        h == HeightOf[q.b]
    IN  /\ Is(r, "lookup")
        /\ IF Hit(cache, q.b, U8(q.v))
           THEN Set(r, [q EXCEPT !.pc = "answered", !.tip = 0,
                                 !.told = ServedVerbosity(cache, q.b, U8(q.v)),
                                 !.confirmations = Confirmations(q.tip, h),
                                 !.next = HashForHeight(cache, h + 1)])
           ELSE Set(r, [q EXCEPT !.pc = "ask", !.tip = 0])
        /\ UNCHANGED <<chain, indexer, hashCache, polled>>

\* The node knows every block up to its height, also beside its chain.
Known(b) == IF HeightOf[b] <= Len(chain) THEN b ELSE NoBlock

\* proxy_call, with the parameters as they came: a height asked for is asked of
\* the node, also if a cache had a hash for it.  An error is the answer, and is
\* not cached; nor is a block at verbosity 0, a string without a height.
AskNode(r) ==
    LET q == request[r]
        b == IF q.h # 0 THEN NodeHash(q.h) ELSE Known(q.b)
        h == HeightOf[b]
        onChain  == NodeHash(h) = b
        uncached == q.method = "getblock" /\ q.v <= 0
        answer   == [q EXCEPT
            !.pc = IF uncached THEN "answered" ELSE "puthash",
            !.b = b, !.told = q.v,
            !.confirmations = IF onChain THEN Len(chain) - h + 1 ELSE -1,
            !.next = IF onChain THEN NodeHash(h + 1) ELSE NoBlock]
    IN  /\ Is(r, "ask")
        /\ \/ Set(r, Waiting)
           \/ b # NoBlock /\ Set(r, answer)
        /\ UNCHANGED <<chain, indexer, hashCache, polled>>

\* Under the height asked for, or the one that getblock's answer names.
PutHash(r) ==
    LET q == request[r]
        h == IF q.method = "getblockhash" THEN q.h ELSE HeightOf[q.b]
    IN  /\ Is(r, "puthash")
        /\ hashCache' = HashInsert(hashCache, U32(h), q.b)
        /\ Set(r, [q EXCEPT !.pc = IF q.method = "getblock" THEN "putblock" ELSE "answered"])
        /\ UNCHANGED <<chain, indexer, polled>>

\* The block cache, by a second lock.
PutBlock(r) ==
    LET q == request[r]
    IN  /\ Is(r, "putblock")
        /\ RoomToMake(cache)
        /\ cache' = Insert(cache, q.b, U8(q.v))
        /\ Set(r, [q EXCEPT !.pc = "answered"])
        /\ UNCHANGED <<chain, chainHeight, lastScanned, fetched, hashCache, polled>>

\* The response is sent, and the next request may come.
Respond(r) ==
    /\ Is(r, "answered")
    /\ Set(r, Waiting)
    /\ UNCHANGED <<chain, indexer, hashCache, polled>>

RequestStep(r) ==
    \/ GetBlockHash(r) \/ GetBlock(r) \/ LoadHeight(r) \/ Lookup(r)
    \/ AskNode(r) \/ PutHash(r) \/ PutBlock(r) \/ Respond(r)

----------------------------------------------------------------------------
(* The indexer and the node.                                               *)

IndexerCounts ==
    /\ chainHeight' = Len(chain)
    /\ UNCHANGED <<chain, lastScanned, cache, fetched, hashCache, polled, request>>

\* Where find_fork_point's walk ends: the highest block up to the cursor that
\* cache and node agree on.
CommonHeight ==
    LET common == {h \in 1..lastScanned : HashForHeight(cache, h) = NodeHash(h)}
    IN  IF common = {} THEN 0 ELSE CHOOSE h \in common : \A g \in common : g <= h

\* detect_reorg, and invalidate_from the height find_fork_point comes back with.
IndexerRewinds ==
    /\ fetched = NoBlock /\ lastScanned < Len(chain)
    /\ DetectReorg(cache, lastScanned + 1, NodeHash(lastScanned))
    /\ lastScanned' = CommonHeight
    /\ cache' = InvalidateFrom(cache, CommonHeight + 1)
    /\ UNCHANGED <<chain, chainHeight, fetched, hashCache, polled, request>>

\* scan_block takes the hash the cache has for the height, or the node's.
IndexerFetches ==
    /\ fetched = NoBlock /\ lastScanned < Len(chain)
    /\ LET hash == HashForHeight(cache, lastScanned + 1)
           b    == IF hash = NoBlock THEN NodeHash(lastScanned + 1) ELSE hash
       IN  IF Hit(cache, b, 2)
           THEN lastScanned' = lastScanned + 1 /\ UNCHANGED fetched
           ELSE fetched' = b /\ UNCHANGED lastScanned
    /\ UNCHANGED <<chain, chainHeight, cache, hashCache, polled, request>>

IndexerCaches ==
    /\ fetched # NoBlock /\ RoomToMake(cache)
    /\ cache' = Insert(cache, fetched, 2)
    /\ lastScanned' = lastScanned + 1
    /\ fetched' = NoBlock
    /\ UNCHANGED <<chain, chainHeight, hashCache, polled, request>>

\* The node takes a chain no shorter than the one it leaves.
NodeMoves ==
    /\ \E c \in Chains \ {chain} : Len(c) >= Len(chain) /\ chain' = c
    /\ UNCHANGED <<indexer, hashCache, polled, request>>

Init ==
    /\ chain = InitChain
    /\ chainHeight = Len(InitChain) /\ lastScanned = Len(InitChain)
    /\ cache = [ h2h |-> [h \in Heights |->
                            IF h <= Len(InitChain) THEN InitChain[h] ELSE NoBlock],
                 entries |-> {<<InitChain[h], 2>> : h \in 1..Len(InitChain)} ]
    /\ fetched = NoBlock
    /\ hashCache = EmptyHashes
    /\ polled = NotPolling
    /\ request = [r \in Request |-> Waiting]

IndexerStep == IndexerCounts \/ IndexerRewinds \/ IndexerFetches \/ IndexerCaches

Next ==
    \/ \E r \in Request : RequestStep(r)
    \/ PollerStep \/ IndexerStep \/ NodeMoves

Spec == Init /\ [][Next]_vars

----------------------------------------------------------------------------
(* Properties.                                                             *)

\* The hash cache's queue names each of its heights once, so that it never
\* grows past its capacity nor loses a height it still lists, and each hash is
\* of a block of its height, from whichever of its three sources it came.
HashCacheSound ==
    /\ Cardinality(Cached(hashCache)) = Len(hashCache.order)
    /\ Len(hashCache.order) <= HashCapacity
    /\ Cached(hashCache) = {hashCache.order[k] : k \in 1..Len(hashCache.order)}
    /\ \A h \in Cached(hashCache) : HeightOf[hashCache.entries[h]] = h

\* Where the node's chains do not part, there is only one block of a height.
Settled(h) == \E b \in Block : {c \in Block : HeightOf[c] = h} = {b}

\* Where the node's chains do not part, an answer put together from a hash
\* looked up, a height loaded and a block got at three different moments of an
\* indexing pass, a reorganisation and other requests says what the node says:
\* the block of that height, the one after it, and no more confirmations than it
\* has.  The height is the one asked for as far as a u32 holds it: of one beyond,
\* which the node does not have, the caches take the rest modulo 2^32.
SettledAnswers ==
    \A r \in Request : Is(r, "answered") =>
      LET q == request[r]
          h == HeightOf[q.b]
      IN  /\ q.h # 0 => h = U32(q.h)
          /\ Settled(h) => q.b = NodeHash(h)
          /\ Settled(h + 1) => q.next \in {NoBlock, NodeHash(h + 1)}
          /\ Settled(h) /\ q.method = "getblock" =>
               q.confirmations \in 1..(Len(chain) - h + 1)

\* "LRU cache: height -> block hash. Eliminates redundant getblockhash RPCs": a
\* hash in it is what the node would have answered.
HashesOnChain ==
    \A h \in Cached(hashCache) : hashCache.entries[h] = NodeHash(h)

\* "v0 lookup: no fallback (v0 is hex, not JSON)", and "a verbosity 2 response
\* is a superset of verbosity 1, so serving it for a v1 request is safe".
ToldAsAsked ==
    \A r \in Request : Is(r, "answered") /\ request[r].method = "getblock" =>
      request[r].told = request[r].v \/ (request[r].v = 1 /\ request[r].told = 2)
=============================================================================
