----------------------------- MODULE ProxyProofs -----------------------------
(***************************************************************************)
(* What the proxy answers where the node's chains do not part, and that    *)
(* the hash cache's map and queue agree: for every set of chains, requests *)
(* and verbosities and any capacities, whatever the order in which         *)
(* requests, poller, indexer and node take their steps.                    *)
(***************************************************************************)
EXTENDS Proxy, FiniteSetTheorems, SequenceTheorems, WellFoundedInduction, TLAPS

HashCacheType == [ entries : [Heights -> Block \cup {NoBlock}],
                   order   : Seq(Heights) ]

\* The queue of the hash cache names what is in its map, each height once.
Queued(c) ==
    /\ c \in HashCacheType
    /\ \A j, k \in 1..Len(c.order) : c.order[j] = c.order[k] => j = k
    /\ Cached(c) = {c.order[k] : k \in 1..Len(c.order)}
    /\ Len(c.order) <= HashCapacity

\* Whatever is cached is of a height that the node has, and each hash is of a
\* block of its height.
HashesUpTo(c, n) ==
    \A h \in Cached(c) : HeightOf[c.entries[h]] = h /\ h <= n

BlocksUpTo(c, n) ==
    /\ c \in CacheType
    /\ \A h \in Heights : c.h2h[h] # NoBlock => HeightOf[c.h2h[h]] = h /\ h <= n
    /\ \A e \in c.entries : HeightOf[e[1]] <= n

NodeOK ==
    /\ chain \in Chains
    /\ chainHeight \in 0..Len(chain)
    /\ lastScanned \in Nat
    /\ fetched \in Block \cup {NoBlock}
    /\ fetched # NoBlock => HeightOf[fetched] <= Len(chain)

CachesOK ==
    /\ BlocksUpTo(cache, Len(chain))
    /\ Queued(hashCache)
    /\ HashesUpTo(hashCache, Len(chain))

\* What the poller is about to insert.
PolledOK ==
    polled.pc = "cache" =>
      /\ polled.last \in Block /\ HeightOf[polled.last] = polled.h
      /\ polled.next \in Block /\ HeightOf[polled.next] = polled.h + 1
      /\ polled.h + 1 <= Len(chain)

\* An answer, from the moment that it is known.
AnswerOK(q, n) ==
    /\ q.b \in Block /\ HeightOf[q.b] <= n
    /\ q.next # NoBlock =>
         q.next \in Block /\ HeightOf[q.next] = HeightOf[q.b] + 1 /\ HeightOf[q.next] <= n
    /\ q.method = "getblock" /\ Settled(HeightOf[q.b]) =>
         q.confirmations \in 1..(n - HeightOf[q.b] + 1)

RequestOK(q, n) ==
    /\ q.b \in Block \cup {NoBlock} /\ q.v \in Int /\ q.h \in Nat
    /\ q.h # 0 /\ q.b # NoBlock => HeightOf[q.b] = U32(q.h)
    /\ q.method = "getblockhash" => q.h # 0
    /\ q.pc \in {"height", "lookup"} => q.b \in Block
    /\ q.pc = "lookup" => q.tip \in 0..n
    /\ q.pc \in {"puthash", "putblock", "answered"} => AnswerOK(q, n)

RequestsOK ==
    /\ DOMAIN request = Request
    /\ \A r \in Request : RequestOK(request[r], Len(chain))

ProxyInv == NodeOK /\ CachesOK /\ PolledOK /\ RequestsOK

----------------------------------------------------------------------------
(* The node's chain.                                                       *)

LEMMA ChainHeights ==
    ASSUME chain \in Chains
    PROVE  /\ Len(chain) \in 0..MaxHeight /\ Len(chain) \in Nat
           /\ \A h : NodeHash(h) # NoBlock =>
                /\ h \in Heights /\ h <= Len(chain)
                /\ NodeHash(h) \in Block /\ HeightOf[NodeHash(h)] = h
           /\ \A h \in 1..Len(chain) : NodeHash(h) # NoBlock
<1>1. /\ chain \in Seq(Block) /\ Len(chain) <= MaxHeight /\ MaxHeight \in Nat
      /\ \A h \in 1..Len(chain) : HeightOf[chain[h]] = h
      /\ NoBlock \notin Block
  BY ChainAssumption
<1>2. Len(chain) \in Nat /\ \A h \in 1..Len(chain) : chain[h] \in Block
  BY <1>1, ElementOfSeq, LenProperties
<1>. QED  BY <1>1, <1>2 DEF NodeHash, Heights

\* Where the chains do not part, a block of a height that the node has is the
\* node's block of that height.
LEMMA SettledOnChain ==
    ASSUME chain \in Chains, NEW b \in Block, HeightOf[b] <= Len(chain),
           Settled(HeightOf[b])
    PROVE  NodeHash(HeightOf[b]) = b
<1>. DEFINE h == HeightOf[b]
<1>1. h \in 1..Len(chain)
  BY ChainHeights, ChainAssumption DEF Heights
<1>2. NodeHash(h) \in Block /\ HeightOf[NodeHash(h)] = h
  BY <1>1, ChainHeights
<1>3. PICK x : {c \in Block : HeightOf[c] = h} = {x}
  BY DEF Settled
<1>. QED  BY <1>2, <1>3

----------------------------------------------------------------------------
(* The conversions.                                                        *)

\* A height that the node has is its own key: a u32 holds it.
LEMMA KeyOfHeight == \A h \in Heights : U32(h) = h
<1>. SUFFICES ASSUME NEW h \in Heights PROVE U32(h) = h
  OBVIOUS
<1>1. h \in Nat /\ U32Range \in Nat /\ h < U32Range
  BY ProxyAssumption, ChainAssumption DEF Heights
<1>2. h % U32Range = h
  <2>. DEFINE m == U32Range
              d == h \div m
  <2>1. d \in Int /\ h % m \in 0..(m - 1) /\ h = m * d + (h % m)
    BY <1>1, SMTT(30)
  <2>. QED  BY <1>1, <2>1, SMTT(30)
<1>. QED  BY <1>2 DEF U32

LEMMA KeyOfVerbosity == \A v \in Int : U8(v) \in Verbosity
BY SMTT(30) DEF U8, Verbosity

----------------------------------------------------------------------------
(* The caches.                                                             *)

LEMMA QueuedSound ==
    ASSUME NEW c, Queued(c)
    PROVE  /\ Cardinality(Cached(c)) = Len(c.order)
           /\ Len(c.order) \in Nat
<1>. DEFINE n == Len(c.order)
            S == Cached(c)
<1>1. n \in Nat /\ c.order \in Seq(Heights)
  BY LenProperties DEF Queued, HashCacheType
<1>2. IsFiniteSet(1..n) /\ Cardinality(1..n) = n
  BY <1>1, FS_Interval, SMTT(30)
<1>3. \A k \in 1..n : c.order[k] \in S
  BY DEF Queued
<1>4. c.order \in [1..n -> S]
  BY <1>1, <1>3, LenProperties
<1>5. c.order \in Bijection(1..n, S)
  BY <1>4 DEF Queued, Bijection, Injection, Surjection, IsInjective
<1>6. ExistsBijection(1..n, S)
  BY <1>5 DEF ExistsBijection
<1>. HIDE DEF n, S
<1>7. Cardinality(S) = n
  BY <1>2, <1>6, FS_Bijection
<1>. QED  BY <1>1, <1>7 DEF n, S

LEMMA DropQueued ==
    ASSUME NEW c, Queued(c), NEW n, HashesUpTo(c, n)
    PROVE  /\ Queued(DropOldest(c)) /\ HashesUpTo(DropOldest(c), n)
           /\ Len(DropOldest(c).order) < HashCapacity
           /\ Cached(DropOldest(c)) \subseteq Cached(c)
<1>1. /\ Cardinality(Cached(c)) = Len(c.order) /\ Len(c.order) \in Nat
      /\ HashCapacity \in Nat \ {0} /\ Len(c.order) <= HashCapacity
      /\ c \in HashCacheType /\ c.order \in Seq(Heights)
  BY QueuedSound, ProxyAssumption DEF Queued, HashCacheType
<1>2. CASE Len(c.order) < HashCapacity
  BY <1>1, <1>2 DEF DropOldest
<1>3. CASE Len(c.order) = HashCapacity
  <2>. DEFINE first == Head(c.order)
              rest  == Tail(c.order)
              d     == [entries |-> [c.entries EXCEPT ![first] = NoBlock], order |-> rest]
              m     == Len(rest)
  <2>1. c.order # <<>>
    BY <1>1, <1>3
  <2>2. DropOldest(c) = d
    BY <1>1, <1>3, <2>1 DEF DropOldest
  <2>3. /\ first = c.order[1] /\ rest \in Seq(Heights)
        /\ m = Len(c.order) - 1 /\ m \in Nat
        /\ \A k \in 1..m : rest[k] = c.order[k + 1]
    BY <1>1, <2>1, HeadTailProperties, LenProperties
  <2>. HIDE DEF first, rest, m
  <2>4. d \in HashCacheType
    BY <1>1, <2>3 DEF HashCacheType
  <2>5. Cached(d) = Cached(c) \ {first}
    BY <1>1 DEF Cached, HashCacheType
  <2>6. \A k \in 1..m : k + 1 \in 1..Len(c.order) /\ k + 1 # 1
    BY <1>1, <2>3
  <2>7. \A j, k \in 1..m : rest[j] = rest[k] => j = k
    <3>1. \A j, k \in 1..m : rest[j] = rest[k] => j + 1 = k + 1
      BY <2>3, <2>6 DEF Queued
    <3>. QED  BY <2>3, <3>1
  <2>8. Cached(d) = {rest[k] : k \in 1..m}
    <3>1. ASSUME NEW k \in 1..m PROVE rest[k] \in Cached(c) /\ rest[k] # first
      <4>1. 1 \in 1..Len(c.order)
        BY <1>1, <1>3
      <4>. QED  BY <2>3, <2>6, <4>1 DEF Queued
    <3>2. ASSUME NEW h \in Cached(c), h # first PROVE \E k \in 1..m : rest[k] = h
      <4>1. PICK k \in 1..Len(c.order) : c.order[k] = h
        BY DEF Queued
      <4>2. k # 1
        BY <2>3, <3>2, <4>1
      <4>3. k - 1 \in 1..m /\ (k - 1) + 1 = k
        BY <1>1, <2>3, <4>2
      <4>. QED  BY <2>3, <4>1, <4>3
    <3>. QED  BY <2>5, <3>1, <3>2
  <2>9. Len(d.order) < HashCapacity
    BY <1>1, <1>3, <2>3 DEF m
  <2>10. HashesUpTo(d, n)
    <3>1. \A h \in Cached(d) : h # first /\ h \in Cached(c) /\ d.entries[h] = c.entries[h]
      BY <1>1, <2>5 DEF Cached, HashCacheType
    <3>. QED  BY <3>1 DEF HashesUpTo
  <2>11. Queued(d)
    <3>1. d.order = rest /\ Len(rest) = m /\ m <= HashCapacity
      BY <1>1, <1>3, <2>3 DEF m
    <3>. HIDE DEF d
    <3>. QED  BY <2>4, <2>7, <2>8, <3>1 DEF Queued
  <2>. QED  BY <2>2, <2>5, <2>9, <2>10, <2>11
<1>. QED  BY <1>1, <1>2, <1>3

LEMMA HashInsertKeeps ==
    ASSUME NEW c, NEW n, Queued(c), HashesUpTo(c, n), NEW b \in Block,
           HeightOf[b] <= n
    PROVE  LET d == HashInsert(c, HeightOf[b], b) IN Queued(d) /\ HashesUpTo(d, n)
<1>. DEFINE h    == HeightOf[b]
            room == DropOldest(c)
            m    == Len(room.order)
            d    == [entries |-> [room.entries EXCEPT ![h] = b],
                     order   |-> Append(room.order, h)]
<1>1. CASE h \in Cached(c)
  BY <1>1 DEF HashInsert
<1>2. CASE h \notin Cached(c)
  <2>1. /\ Queued(room) /\ HashesUpTo(room, n) /\ m < HashCapacity
        /\ h \notin Cached(room) /\ h \in Heights /\ b # NoBlock
    BY <1>2, DropQueued, ChainAssumption
  <2>2. HashInsert(c, h, b) = d
    BY <1>2 DEF HashInsert
  <2>. HIDE DEF h, room
  <2>3. /\ room \in HashCacheType /\ room.order \in Seq(Heights) /\ m \in Nat
        /\ HashCapacity \in Nat
    BY <2>1, LenProperties, ProxyAssumption DEF Queued, HashCacheType
  <2>4. /\ Append(room.order, h) \in Seq(Heights) /\ Len(Append(room.order, h)) = m + 1
        /\ \A k \in 1..m : Append(room.order, h)[k] = room.order[k]
        /\ Append(room.order, h)[m + 1] = h
    BY <2>1, <2>3, AppendProperties
  <2>5. d \in HashCacheType
    BY <2>1, <2>3, <2>4 DEF HashCacheType
  <2>6. Cached(d) = Cached(room) \cup {h}
    BY <2>1, <2>3 DEF Cached, HashCacheType
  <2>. DEFINE order == Append(room.order, h)
  <2>7. \A k \in 1..m : order[k] \in Cached(room)
    BY <2>1, <2>4 DEF Queued
  <2>8. \A k \in 1..(m + 1) : k \in 1..m \/ k = m + 1
    BY <2>3
  <2>9. \A k \in 1..m : k \in 1..(m + 1)
    BY <2>3
  <2>10. m + 1 \in 1..(m + 1)
    BY <2>3
  <2>11. \A j, k \in 1..(m + 1) : order[j] = order[k] => j = k
    <3>1. \A j, k \in 1..m : order[j] = order[k] => j = k
      BY <2>1, <2>4 DEF Queued
    <3>2. \A k \in 1..m : order[k] # order[m + 1]
      BY <2>1, <2>4, <2>7
    <3>. HIDE DEF order, m
    <3>. QED  BY <2>8, <3>1, <3>2
  <2>12. Cached(d) = {order[k] : k \in 1..(m + 1)}
    <3>1. Cached(room) = {order[k] : k \in 1..m}
      BY <2>1, <2>4 DEF Queued
    <3>2. order[m + 1] = h
      BY <2>4
    <3>. HIDE DEF order, m, d
    <3>. QED  BY <2>6, <2>8, <2>9, <2>10, <3>1, <3>2
  <2>13. Queued(d)
    <3>1. d.order = order /\ Len(order) = m + 1 /\ m + 1 <= HashCapacity
      BY <2>1, <2>3, <2>4
    <3>. HIDE DEF d, order, m
    <3>. QED  BY <2>5, <2>11, <2>12, <3>1 DEF Queued
  <2>14. HashesUpTo(d, n)
    <3>1. d.entries[h] = b /\ \A g \in Cached(room) : d.entries[g] = room.entries[g]
      BY <2>1, <2>3 DEF Cached, HashCacheType
    <3>. HIDE DEF d
    <3>. QED  BY <2>1, <2>6, <3>1 DEF HashesUpTo, h
  <2>. QED  BY <2>2, <2>13, <2>14 DEF h
<1>. QED  BY <1>1, <1>2

LEMMA ForgetKeeps ==
    ASSUME NEW c, NEW n, BlocksUpTo(c, n), NEW H
    PROVE  BlocksUpTo(Forget(c, H), n)
BY DEF BlocksUpTo, Forget, CacheType

LEMMA InsertKeeps ==
    ASSUME NEW c, NEW n, BlocksUpTo(c, n), NEW b \in Block, HeightOf[b] <= n,
           NEW v \in Verbosity
    PROVE  BlocksUpTo(Insert(c, b, v), n)
<1>. DEFINE room == Evict(c)
<1>1. BlocksUpTo(room, n)
  BY ForgetKeeps DEF Evict
<1>2. HeightOf[b] \in Heights
  BY ChainAssumption
<1>. HIDE DEF room
<1>3. CASE <<b, v>> \in c.entries
  BY <1>3 DEF Insert
<1>4. CASE <<b, v>> \notin c.entries
  BY <1>1, <1>2, <1>4 DEF Insert, BlocksUpTo, CacheType, room
<1>. QED  BY <1>3, <1>4

LEMMA CachedHash ==
    ASSUME NEW c, NEW n, BlocksUpTo(c, n), NEW h
    PROVE  /\ HashForHeight(c, h) \in Block \cup {NoBlock}
           /\ HashForHeight(c, h) # NoBlock =>
                HeightOf[HashForHeight(c, h)] = h /\ h <= n
BY DEF HashForHeight, BlocksUpTo, CacheType

----------------------------------------------------------------------------
(* The steps.                                                              *)

\* A chain at least as long keeps what was true of the one before it.
LEMMA LongerChain ==
    ASSUME NEW n \in Nat, NEW m \in Nat, n <= m
    PROVE  /\ \A c : HashesUpTo(c, n) /\ Queued(c) => HashesUpTo(c, m)
           /\ \A c : BlocksUpTo(c, n) => BlocksUpTo(c, m)
           /\ \A q : RequestOK(q, n) => RequestOK(q, m)
<1>1. \A h \in Heights : h \in Nat
  BY ChainAssumption DEF Heights
<1>2. \A b \in Block : HeightOf[b] \in Heights /\ HeightOf[b] \in Nat
  BY <1>1, ChainAssumption
<1>3. ASSUME NEW c, HashesUpTo(c, n) PROVE HashesUpTo(c, m)
  BY <1>1, <1>3 DEF HashesUpTo, Cached
<1>4. ASSUME NEW c, BlocksUpTo(c, n) PROVE BlocksUpTo(c, m)
  <2>1. \A e \in c.entries : e[1] \in Block
    BY <1>4 DEF BlocksUpTo, CacheType
  <2>2. \A e \in c.entries : HeightOf[e[1]] <= m
    BY <1>2, <1>4, <2>1 DEF BlocksUpTo
  <2>. QED  BY <1>1, <1>4, <2>2 DEF BlocksUpTo
<1>5. ASSUME NEW q, AnswerOK(q, n) PROVE AnswerOK(q, m)
  BY <1>2, <1>5 DEF AnswerOK
<1>6. ASSUME NEW q, RequestOK(q, n) PROVE RequestOK(q, m)
  BY <1>5, <1>6 DEF RequestOK
<1>. QED  BY <1>3, <1>4, <1>6

\* A step of one request leaves the others as they are.
LEMMA RequestSet ==
    ASSUME ProxyInv, NEW r \in Request, NEW q, Set(r, q), RequestOK(q, Len(chain)),
           UNCHANGED chain
    PROVE  RequestsOK'
BY DEF ProxyInv, RequestsOK, Set

LEMMA WaitingOK == \A n : RequestOK(Waiting, n)
BY DEF RequestOK, Waiting

LEMMA AnswerFromCache ==
    ASSUME ProxyInv, NEW r \in Request, Lookup(r)
    PROVE  RequestsOK'
<1>. DEFINE q  == request[r]
            h  == HeightOf[q.b]
            n  == Len(chain)
            ans == [q EXCEPT !.pc = "answered", !.tip = 0,
                             !.told = ServedVerbosity(cache, q.b, U8(q.v)),
                             !.confirmations = Confirmations(q.tip, h),
                             !.next = HashForHeight(cache, h + 1)]
            miss == [q EXCEPT !.pc = "ask", !.tip = 0]
<1>1. /\ RequestOK(q, n) /\ q.pc = "lookup" /\ n \in Nat
      /\ BlocksUpTo(cache, n) /\ UNCHANGED chain
  BY ChainHeights DEF ProxyInv, RequestsOK, CachesOK, NodeOK, Lookup, Is
<1>2. q.b \in Block /\ q.tip \in 0..n /\ h \in Heights /\ h \in Nat /\ h > 0
  BY <1>1, ChainAssumption DEF RequestOK, Heights
<1>3. CASE Hit(cache, q.b, U8(q.v)) /\ Set(r, ans)
  <2>1. h <= n
    BY <1>1, <1>3 DEF Hit, BlocksUpTo
  <2>2. Confirmations(q.tip, h) \in 1..(n - h + 1)
    BY <1>1, <1>2, <2>1 DEF Confirmations
  <2>3. /\ HashForHeight(cache, h + 1) \in Block \cup {NoBlock}
        /\ HashForHeight(cache, h + 1) # NoBlock =>
             HeightOf[HashForHeight(cache, h + 1)] = h + 1 /\ h + 1 <= n
    BY <1>1, CachedHash
  <2>4. AnswerOK(ans, n)
    BY <1>2, <2>1, <2>2, <2>3 DEF AnswerOK
  <2>5. RequestOK(ans, n)
    BY <1>1, <2>4 DEF RequestOK
  <2>. HIDE DEF ans
  <2>. QED  BY <1>1, <1>3, <2>5, RequestSet
<1>4. CASE Set(r, miss)
  <2>1. RequestOK(miss, n)
    BY <1>1, <1>2 DEF RequestOK
  <2>. HIDE DEF miss
  <2>. QED  BY <1>1, <1>4, <2>1, RequestSet
<1>. QED  BY <1>3, <1>4 DEF Lookup

LEMMA AnswerFromNode ==
    ASSUME ProxyInv, NEW r \in Request, AskNode(r)
    PROVE  RequestsOK'
<1>. DEFINE q == request[r]
            b == IF q.h # 0 THEN NodeHash(q.h) ELSE Known(q.b)
            h == HeightOf[b]
            n == Len(chain)
            onChain == NodeHash(h) = b
            conf    == IF onChain THEN n - h + 1 ELSE -1
            next    == IF onChain THEN NodeHash(h + 1) ELSE NoBlock
            ans(label) == [q EXCEPT !.pc = label, !.b = b, !.told = q.v,
                                    !.confirmations = conf, !.next = next]
<1>1. /\ RequestOK(q, n) /\ n \in Nat /\ chain \in Chains /\ UNCHANGED chain
  BY ChainHeights DEF ProxyInv, RequestsOK, NodeOK, AskNode
<1>2. CASE Set(r, Waiting)
  BY <1>1, <1>2, WaitingOK, RequestSet
<1>3. CASE b # NoBlock /\ \E label \in {"answered", "puthash"} : Set(r, ans(label))
  <2>1. b \in Block /\ h <= n /\ (q.h # 0 => h = U32(q.h))
    <3>1. CASE q.h # 0
      <4>1. b = NodeHash(q.h) /\ b # NoBlock
        BY <1>3, <3>1
      <4>. HIDE DEF b
      <4>2. q.h \in Heights /\ q.h <= n /\ b \in Block /\ h = q.h
        BY <1>1, <4>1, ChainHeights
      <4>. QED  BY <4>2, KeyOfHeight
    <3>2. CASE q.h = 0
      BY <1>1, <1>3, <3>2 DEF RequestOK, Known
    <3>. QED  BY <3>1, <3>2
  <2>2. h \in Heights /\ h \in Nat /\ h > 0
    BY <2>1, ChainAssumption DEF Heights
  <2>3. next # NoBlock => next \in Block /\ HeightOf[next] = h + 1 /\ h + 1 <= n
    BY <1>1, ChainHeights
  <2>4. Settled(h) => conf \in 1..(n - h + 1)
    <3>1. Settled(h) => onChain
      BY <1>1, <2>1, SettledOnChain
    <3>. QED  BY <1>1, <2>1, <2>2, <3>1
  <2>5. q.v \in Int /\ q.h \in Nat /\ (q.method = "getblockhash" => q.h # 0)
    BY <1>1 DEF RequestOK
  <2>. HIDE DEF b, conf, next
  <2>6. PICK label \in {"answered", "puthash"} : Set(r, ans(label))
    BY <1>3
  <2>7. AnswerOK(ans(label), n)
    BY <2>1, <2>3, <2>4 DEF AnswerOK
  <2>8. RequestOK(ans(label), n)
    BY <2>1, <2>5, <2>7 DEF RequestOK
  <2>. HIDE DEF ans
  <2>. QED  BY <1>1, <2>6, <2>8, RequestSet
<1>. QED  BY <1>2, <1>3 DEF AskNode

LEMMA RequestKeeps ==
    ASSUME ProxyInv, NEW r \in Request, RequestStep(r)
    PROVE  ProxyInv'
<1>. DEFINE q == request[r]
            n == Len(chain)
<1>1. /\ RequestOK(q, n) /\ n \in Nat /\ chain \in Chains
      /\ BlocksUpTo(cache, n) /\ Queued(hashCache) /\ HashesUpTo(hashCache, n)
  BY ChainHeights DEF ProxyInv, RequestsOK, NodeOK, CachesOK
<1>2. ASSUME RequestsOK', UNCHANGED <<chain, indexer, hashCache, polled>>
      PROVE  ProxyInv'
  BY <1>2 DEF ProxyInv, NodeOK, CachesOK, PolledOK, indexer
<1>3. \A h \in Heights : h \in Nat /\ h # 0
  BY ChainAssumption DEF Heights
<1>4. CASE GetBlockHash(r)
  <2>1. PICK h \in AskedHeight :
          LET asked == [Waiting EXCEPT !.method = "getblockhash", !.h = h]
          IN  IF U32(h) \in Cached(hashCache)
              THEN Set(r, [asked EXCEPT !.pc = "answered",
                                        !.b = hashCache.entries[U32(h)]])
              ELSE Set(r, [asked EXCEPT !.pc = "ask"])
    BY <1>4 DEF GetBlockHash
  <2>. DEFINE asked == [Waiting EXCEPT !.method = "getblockhash", !.h = h]
              hit   == [asked EXCEPT !.pc = "answered",
                                     !.b = hashCache.entries[U32(h)]]
              miss  == [asked EXCEPT !.pc = "ask"]
  <2>0. h \in Nat /\ h # 0
    BY ProxyAssumption
  <2>2. RequestOK(miss, n)
    BY <2>0 DEF RequestOK, Waiting
  <2>3. ASSUME U32(h) \in Cached(hashCache) PROVE RequestOK(hit, n)
    <3>. DEFINE key  == U32(h)
                hash == hashCache.entries[key]
    <3>. HIDE DEF key
    <3>1. hash \in Block /\ HeightOf[hash] = key /\ key <= n
      BY <1>1, <2>3 DEF Cached, Queued, HashCacheType, HashesUpTo, key
    <3>. QED  BY <2>0, <3>1 DEF RequestOK, AnswerOK, Waiting, key
  <2>4. IF U32(h) \in Cached(hashCache) THEN Set(r, hit) ELSE Set(r, miss)
    BY <2>1
  <2>. HIDE DEF hit, miss
  <2>5. RequestsOK'
    BY <1>4, <2>2, <2>3, <2>4, RequestSet DEF GetBlockHash
  <2>. QED  BY <1>2, <1>4, <2>5 DEF GetBlockHash
<1>5. CASE GetBlock(r)
  <2>1. PICK v \in AskedVerbosity :
          LET asked == [Waiting EXCEPT !.method = "getblock", !.v = v]
          IN  \/ \E b \in Block : Set(r, [asked EXCEPT !.pc = "height", !.b = b])
              \/ \E h \in AskedHeight :
                   LET b == HashForHeight(cache, U32(h))
                   IN  Set(r, [asked EXCEPT !.pc = IF b = NoBlock THEN "ask" ELSE "height",
                                            !.h = h, !.b = b])
    BY <1>5 DEF GetBlock
  <2>. DEFINE asked == [Waiting EXCEPT !.method = "getblock", !.v = v]
              ByHash(b)   == [asked EXCEPT !.pc = "height", !.b = b]
              Found(h, b) == [asked EXCEPT !.pc = IF b = NoBlock THEN "ask" ELSE "height",
                                           !.h = h, !.b = b]
  <2>2. v \in Int /\ AskedHeight \subseteq Nat
    BY ProxyAssumption
  <2>3. \A b \in Block : RequestOK(ByHash(b), n)
    BY <2>2 DEF RequestOK, Waiting
  <2>4. \A h \in AskedHeight : RequestOK(Found(h, HashForHeight(cache, U32(h))), n)
    <3>1. ASSUME NEW h \in AskedHeight, NEW b \in Block \cup {NoBlock},
                 b # NoBlock => HeightOf[b] = U32(h)
          PROVE  RequestOK(Found(h, b), n)
      BY <2>2, <3>1 DEF RequestOK, Waiting
    <3>. HIDE DEF Found
    <3>. QED  BY <1>1, <3>1, CachedHash
  <2>5. \/ \E b \in Block : Set(r, ByHash(b))
        \/ \E h \in AskedHeight : Set(r, Found(h, HashForHeight(cache, U32(h))))
    BY <2>1
  <2>. HIDE DEF ByHash, Found
  <2>6. RequestsOK'
    BY <1>5, <2>3, <2>4, <2>5, RequestSet DEF GetBlock
  <2>. QED  BY <1>2, <1>5, <2>6 DEF GetBlock
<1>6. CASE LoadHeight(r)
  <2>. DEFINE next == [q EXCEPT !.pc = "lookup", !.tip = chainHeight]
  <2>1. chainHeight \in 0..n
    BY DEF ProxyInv, NodeOK
  <2>2. RequestOK(next, n)
    BY <1>1, <1>6, <2>1 DEF RequestOK, LoadHeight, Is
  <2>3. Set(r, next)
    BY <1>6 DEF LoadHeight
  <2>. HIDE DEF next
  <2>4. RequestsOK'
    BY <1>6, <2>2, <2>3, RequestSet DEF LoadHeight
  <2>. QED  BY <1>2, <1>6, <2>4 DEF LoadHeight
<1>7. CASE Lookup(r)
  BY <1>2, <1>7, AnswerFromCache DEF Lookup
<1>8. CASE AskNode(r)
  BY <1>2, <1>8, AnswerFromNode DEF AskNode
<1>9. CASE PutHash(r) \/ PutBlock(r)
  <2>. DEFINE To(label) == [q EXCEPT !.pc = label]
  <2>1. q.pc \in {"puthash", "putblock"} /\ AnswerOK(q, n) /\ U8(q.v) \in Verbosity
    BY <1>1, <1>9, KeyOfVerbosity DEF PutHash, PutBlock, Is, RequestOK
  <2>2. \A label \in {"putblock", "answered"} : RequestOK(To(label), n)
    BY <1>1, <2>1 DEF RequestOK, AnswerOK
  <2>3. \E label \in {"putblock", "answered"} : Set(r, To(label))
    BY <1>9 DEF PutHash, PutBlock
  <2>. HIDE DEF To
  <2>4. RequestsOK'
    BY <1>9, <2>2, <2>3, RequestSet DEF PutHash, PutBlock
  <2>5. CASE PutHash(r)
    <3>. DEFINE key == IF q.method = "getblockhash" THEN q.h ELSE HeightOf[q.b]
    <3>0. U32(key) = HeightOf[q.b]
      <4>1. q.b \in Block /\ q.b # NoBlock /\ HeightOf[q.b] \in Heights
        BY <2>1, ChainAssumption DEF AnswerOK
      <4>2. CASE q.method = "getblockhash"
        BY <1>1, <4>1, <4>2 DEF RequestOK
      <4>3. CASE q.method # "getblockhash"
        BY <4>1, <4>3, KeyOfHeight
      <4>. QED  BY <4>2, <4>3
    <3>2. hashCache' = HashInsert(hashCache, U32(key), q.b)
      BY <2>5 DEF PutHash
    <3>. HIDE DEF key
    <3>1. Queued(hashCache') /\ HashesUpTo(hashCache', n)
      BY <1>1, <2>1, <3>0, <3>2, HashInsertKeeps DEF AnswerOK
    <3>. QED
      BY <1>1, <2>4, <2>5, <3>1
      DEF PutHash, ProxyInv, NodeOK, CachesOK, PolledOK, indexer
  <2>6. CASE PutBlock(r)
    <3>1. BlocksUpTo(cache', n)
      BY <1>1, <2>1, <2>6, InsertKeeps DEF PutBlock, AnswerOK
    <3>. QED
      BY <1>1, <2>4, <2>6, <3>1 DEF PutBlock, ProxyInv, NodeOK, CachesOK, PolledOK
  <2>. QED  BY <1>9, <2>5, <2>6
<1>10. CASE Respond(r)
  BY <1>2, <1>10, WaitingOK, RequestSet DEF Respond
<1>. QED
  BY <1>4, <1>5, <1>6, <1>7, <1>8, <1>9, <1>10 DEF RequestStep

LEMMA PollerKeeps ==
    ASSUME ProxyInv, PollerStep PROVE ProxyInv'
<1>. DEFINE n == Len(chain)
<1>1. /\ n \in Nat /\ chain \in Chains
      /\ Queued(hashCache) /\ HashesUpTo(hashCache, n)
  BY ChainHeights DEF ProxyInv, NodeOK, CachesOK
<1>2. UNCHANGED <<chain, chainHeight, lastScanned, cache, fetched, request>>
  BY DEF PollerStep, PollWakes, PollAsks, PollCaches, indexer
<1>3. ASSUME PolledOK', Queued(hashCache'), HashesUpTo(hashCache', n)
      PROVE  ProxyInv'
  BY <1>2, <1>3 DEF ProxyInv, NodeOK, CachesOK, RequestsOK
<1>4. CASE PollWakes
  BY <1>1, <1>3, <1>4 DEF PollWakes, PolledOK, NotPolling
<1>5. CASE PollAsks
  <2>1. PolledOK'
    BY <1>1, <1>2, <1>5, ChainHeights DEF PollAsks, PolledOK, NotPolling
  <2>. QED  BY <1>1, <1>3, <1>5, <2>1 DEF PollAsks
<1>6. CASE PollCaches
  <2>. DEFINE last == polled.last
              next == polled.next
              one  == HashInsert(hashCache, HeightOf[last], last)
  <2>1. /\ last \in Block /\ HeightOf[last] = polled.h
        /\ next \in Block /\ HeightOf[next] = polled.h + 1
        /\ polled.h + 1 <= n
    BY <1>6 DEF PollCaches, ProxyInv, PolledOK
  <2>2. HeightOf[last] <= n
    <3>1. HeightOf[last] \in Nat
      BY <2>1, ChainAssumption DEF Heights
    <3>. QED  BY <1>1, <2>1, <3>1
  <2>3. hashCache' = HashInsert(one, HeightOf[next], next)
    BY <1>6, <2>1 DEF PollCaches
  <2>. HIDE DEF last, next
  <2>4. Queued(one) /\ HashesUpTo(one, n)
    BY <1>1, <2>1, <2>2, HashInsertKeeps
  <2>. HIDE DEF one
  <2>5. Queued(hashCache') /\ HashesUpTo(hashCache', n)
    BY <2>1, <2>3, <2>4, HashInsertKeeps
  <2>. QED  BY <1>3, <1>6, <2>5 DEF PollCaches, PolledOK, NotPolling
<1>. QED  BY <1>4, <1>5, <1>6 DEF PollerStep

LEMMA CommonHeightType ==
    ASSUME lastScanned \in Nat PROVE CommonHeight \in Nat
<1>. DEFINE common == {h \in 1..lastScanned : HashForHeight(cache, h) = NodeHash(h)}
            below  == {lastScanned - h : h \in common}
<1>1. CASE common = {}
  BY <1>1 DEF CommonHeight
<1>2. CASE common # {}
  <2>1. below \in SUBSET Nat /\ below # {}
    BY <1>2
  <2>2. PICK k \in below : \A n \in below : <<n, k>> \notin OpToRel(<, Nat)
    <3>. HIDE DEF below
    <3>. QED  BY <2>1, NatLessThanWellFounded, WFMin
  <2>3. PICK h \in common : k = lastScanned - h
    OBVIOUS
  <2>4. ASSUME NEW g \in common PROVE g <= h
    <3>1. lastScanned - g \in below /\ lastScanned - g \in Nat /\ k \in Nat
      BY <2>1
    <3>2. ~(lastScanned - g < k)
      BY <2>2, <3>1 DEF OpToRel
    <3>. QED  BY <2>3, <3>2
  <2>5. (CHOOSE x \in common : \A g \in common : g <= x) \in common
    <3>. HIDE DEF common
    <3>. QED  BY <2>4
  <2>. QED  BY <1>2, <2>5 DEF CommonHeight
<1>. QED  BY <1>1, <1>2

LEMMA IndexerKeeps ==
    ASSUME ProxyInv, IndexerStep PROVE ProxyInv'
<1>. DEFINE n == Len(chain)
<1>1. /\ n \in Nat /\ chain \in Chains /\ lastScanned \in Nat
      /\ BlocksUpTo(cache, n)
      /\ fetched # NoBlock => fetched \in Block /\ HeightOf[fetched] <= n
  BY ChainHeights DEF ProxyInv, NodeOK, CachesOK
<1>2. UNCHANGED <<chain, hashCache, polled, request>>
  BY DEF IndexerStep, IndexerCounts, IndexerRewinds, IndexerFetches, IndexerCaches
<1>3. ASSUME NodeOK', BlocksUpTo(cache', n) PROVE ProxyInv'
  BY <1>2, <1>3 DEF ProxyInv, CachesOK, PolledOK, RequestsOK
<1>4. CASE IndexerCounts
  BY <1>1, <1>3, <1>4 DEF IndexerCounts, ProxyInv, NodeOK
<1>5. CASE IndexerRewinds
  <2>1. BlocksUpTo(cache', n)
    BY <1>1, <1>5, ForgetKeeps DEF IndexerRewinds, InvalidateFrom
  <2>2. NodeOK'
    BY <1>1, <1>5, CommonHeightType DEF IndexerRewinds, ProxyInv, NodeOK
  <2>. QED  BY <1>3, <2>1, <2>2
<1>6. CASE IndexerFetches
  <2>. DEFINE hash == HashForHeight(cache, lastScanned + 1)
              b    == IF hash = NoBlock THEN NodeHash(lastScanned + 1) ELSE hash
  <2>1. b \in Block /\ HeightOf[b] <= n
    <3>1. lastScanned + 1 \in 1..n
      BY <1>1, <1>6 DEF IndexerFetches
    <3>2. /\ NodeHash(lastScanned + 1) \in Block
          /\ HeightOf[NodeHash(lastScanned + 1)] = lastScanned + 1
      BY <1>1, <3>1, ChainHeights
    <3>3. /\ hash \in Block \cup {NoBlock}
          /\ hash # NoBlock => HeightOf[hash] = lastScanned + 1
      BY <1>1, CachedHash
    <3>. QED  BY <1>1, <3>1, <3>2, <3>3
  <2>2. \/ lastScanned' = lastScanned + 1 /\ UNCHANGED fetched
        \/ fetched' = b /\ UNCHANGED lastScanned
    BY <1>6 DEF IndexerFetches
  <2>. HIDE DEF b
  <2>. QED  BY <1>1, <1>3, <1>6, <2>1, <2>2 DEF IndexerFetches, ProxyInv, NodeOK
<1>7. CASE IndexerCaches
  <2>1. BlocksUpTo(cache', n)
    BY <1>1, <1>7, InsertKeeps DEF IndexerCaches, Verbosity
  <2>. QED  BY <1>1, <1>3, <1>7, <2>1 DEF IndexerCaches, ProxyInv, NodeOK
<1>. QED  BY <1>4, <1>5, <1>6, <1>7 DEF IndexerStep

LEMMA NodeKeeps ==
    ASSUME ProxyInv, NodeMoves PROVE ProxyInv'
<1>1. PICK c \in Chains : Len(c) >= Len(chain) /\ chain' = c
  BY DEF NodeMoves
<1>2. /\ Len(chain) \in Nat /\ Len(c) \in Nat /\ Len(chain) <= Len(c)
      /\ \A b \in Block : HeightOf[b] \in Nat
  BY <1>1, ChainAssumption, LenProperties DEF ProxyInv, NodeOK, Heights
<1>3. UNCHANGED <<chainHeight, lastScanned, cache, fetched, hashCache, polled, request>>
  BY DEF NodeMoves, indexer
<1>4. NodeOK'
  BY <1>1, <1>2, <1>3 DEF ProxyInv, NodeOK
<1>5. CachesOK'
  BY <1>1, <1>2, <1>3, LongerChain DEF ProxyInv, CachesOK
<1>6. PolledOK'
  <2>1. SUFFICES ASSUME polled.pc = "cache" PROVE polled.h + 1 <= Len(c)
    BY <1>1, <1>3 DEF ProxyInv, PolledOK
  <2>2. polled.h + 1 \in Nat /\ polled.h + 1 <= Len(chain)
    BY <1>2, <2>1 DEF ProxyInv, PolledOK
  <2>. QED  BY <1>2, <2>2
<1>7. RequestsOK'
  BY <1>1, <1>2, <1>3, LongerChain DEF ProxyInv, RequestsOK
<1>. QED  BY <1>4, <1>5, <1>6, <1>7 DEF ProxyInv

LEMMA ProxyStart == Init => ProxyInv
<1>. SUFFICES ASSUME Init PROVE ProxyInv
  OBVIOUS
<1>. DEFINE n == Len(chain)
<1>1. /\ chain = InitChain /\ chain \in Chains /\ n \in 0..MaxHeight /\ n \in Nat
      /\ \A h \in 1..n : h \in Heights /\ chain[h] \in Block /\ HeightOf[chain[h]] = h
  <2>1. chain \in Chains /\ chain = InitChain
    BY ProxyAssumption DEF Init
  <2>2. \A h \in 1..n : NodeHash(h) # NoBlock /\ NodeHash(h) = chain[h]
    BY <2>1, ChainHeights DEF NodeHash
  <2>. QED  BY <2>1, <2>2, ChainHeights
<1>2. NodeOK
  BY <1>1 DEF Init, NodeOK
<1>3. BlocksUpTo(cache, n)
  <2>1. /\ cache.h2h = [h \in Heights |-> IF h <= n THEN chain[h] ELSE NoBlock]
        /\ cache.entries = {<<chain[h], 2>> : h \in 1..n}
        /\ cache = [h2h |-> cache.h2h, entries |-> cache.entries]
    BY <1>1 DEF Init
  <2>2. \A h \in Heights : h <= n => h \in 1..n
    BY ChainAssumption DEF Heights
  <2>3. cache.h2h \in [Heights -> Block \cup {NoBlock}]
    BY <1>1, <2>1, <2>2
  <2>4. cache.entries \in SUBSET (Block \X Verbosity)
    BY <1>1, <2>1 DEF Verbosity
  <2>5. \A e \in cache.entries : HeightOf[e[1]] <= n
    BY <1>1, <2>1
  <2>6. \A h \in Heights : cache.h2h[h] # NoBlock => HeightOf[cache.h2h[h]] = h /\ h <= n
    BY <1>1, <2>1, <2>2
  <2>. QED  BY <2>1, <2>3, <2>4, <2>5, <2>6 DEF BlocksUpTo, CacheType
<1>4. Queued(hashCache) /\ HashesUpTo(hashCache, n)
  BY ProxyAssumption DEF Init, EmptyHashes, Queued, HashesUpTo, Cached, HashCacheType
<1>5. PolledOK /\ RequestsOK
  BY WaitingOK DEF Init, PolledOK, NotPolling, RequestsOK
<1>. QED  BY <1>2, <1>3, <1>4, <1>5 DEF ProxyInv, CachesOK

LEMMA ProxyInvariance == Spec => []ProxyInv
<1>1. ProxyInv /\ [Next]_vars => ProxyInv'
  <2>. SUFFICES ASSUME ProxyInv, [Next]_vars PROVE ProxyInv'
    OBVIOUS
  <2>1. CASE UNCHANGED vars
    BY <2>1 DEF vars, indexer, ProxyInv, NodeOK, CachesOK, PolledOK, RequestsOK
  <2>. QED
    BY <2>1, RequestKeeps, PollerKeeps, IndexerKeeps, NodeKeeps DEF Next
<1>. QED  BY <1>1, ProxyStart, PTL DEF Spec

\* HashCache.insert is called from three places, each under the lock but with a
\* hash that was asked for before: its map and its queue agree nonetheless, it
\* stays within its capacity, and a hash is of a block of its height.
THEOREM HashesSound == Spec => []HashCacheSound
<1>1. ProxyInv => HashCacheSound
  BY QueuedSound DEF ProxyInv, CachesOK, Queued, HashesUpTo, HashCacheSound
<1>. QED  BY <1>1, ProxyInvariance, PTL

\* What rpc_proxy answers at a height at which the node's chains do not part is
\* the node's block of that height, whatever is cached or invalidated between
\* the steps of the request.  The height is the one asked for, or what a u32
\* keeps of it: an answer to a height that the node has is about that height.
THEOREM AnswersSettled == Spec => []SettledAnswers
<1>1. ProxyInv => SettledAnswers
  <2>. SUFFICES ASSUME ProxyInv, NEW r \in Request, Is(r, "answered")
                PROVE  LET q == request[r]
                           h == HeightOf[q.b]
                       IN  /\ q.h # 0 => h = U32(q.h)
                           /\ Settled(h) => q.b = NodeHash(h)
                           /\ Settled(h + 1) => q.next \in {NoBlock, NodeHash(h + 1)}
                           /\ Settled(h) /\ q.method = "getblock" =>
                                q.confirmations \in 1..(Len(chain) - h + 1)
    BY DEF SettledAnswers
  <2>. DEFINE q == request[r]
              h == HeightOf[q.b]
  <2>1. RequestOK(q, Len(chain)) /\ q.pc = "answered" /\ chain \in Chains
    BY DEF ProxyInv, RequestsOK, NodeOK, Is
  <2>2. AnswerOK(q, Len(chain)) /\ q.b # NoBlock
    BY <2>1, ChainAssumption DEF RequestOK, AnswerOK
  <2>3. q.h # 0 => h = U32(q.h)
    BY <2>1, <2>2 DEF RequestOK
  <2>4. Settled(h) => q.b = NodeHash(h)
    BY <2>1, <2>2, SettledOnChain DEF AnswerOK
  <2>5. Settled(h + 1) => q.next \in {NoBlock, NodeHash(h + 1)}
    BY <2>1, <2>2, SettledOnChain DEF AnswerOK
  <2>. QED  BY <2>2, <2>3, <2>4, <2>5 DEF AnswerOK
<1>. QED  BY <1>1, ProxyInvariance, PTL
=============================================================================
