---------------------------- MODULE IndexerProofs ----------------------------
(***************************************************************************)
(* Theorems about Indexer, for every set of blocks, chains and tasks.      *)
(***************************************************************************)
EXTENDS Indexer, ShieldStoreProofs, FiniteSetTheorems

----------------------------------------------------------------------------
(* The inductive invariant.  The types alone are not inductive: cutting the *)
(* index is only defined when its heights ascend, which holds because every *)
(* block that is indexed is one above the cursor, which holds because one   *)
(* pass runs at a time.                                                     *)

\* One task is inside a pass, and only with the gate shut.
GateInv ==
    /\ \A w \in Worker : pass[w].pc # "idle" => indexing
    /\ \A v, w \in Worker : pass[v].pc # "idle" /\ pass[w].pc # "idle" => v = w

Scanning == {"fetch", "cacheput", "decoded", "extend", "add", "advance"}
Cutting  == {"invalidate", "truncate", "saveindex", "rewind"}

IndexedUpTo(h) == \A k \in 1..Len(index) : index[k].block <= h

\* What the locals of w's pass have to do with the cursor and the index.
PassOK(w) ==
    /\ pass[w].pc \in {"probe", "detect"} => pass[w].at = lastScanned + 1
    /\ pass[w].pc = "fork" => pass[w].at <= lastScanned
    /\ pass[w].pc \in Cutting => pass[w].at > 0 /\ pass[w].at <= lastScanned + 1
    /\ pass[w].pc = "rewind" => IndexedUpTo(pass[w].at - 1)
    /\ pass[w].pc \in Scanning => /\ pass[w].seen \in Block
                                  /\ pass[w].at = lastScanned + 1
                                  /\ HeightOf[pass[w].seen] = pass[w].at
    /\ pass[w].pc = "saveindex" => IndexedUpTo(pass[w].at - 1)
    /\ pass[w].pc = "advance" => IndexedUpTo(pass[w].at)

IndexInv ==
    /\ AscendingHeights(index)
    /\ Somewhere({"advance"}) \/ IndexedUpTo(lastScanned)

\* The cache files each block at its own height.
CacheInv ==
    \A h \in Heights : cache.h2h[h] # NoBlock => HeightOf[cache.h2h[h]] = h

\* The types, but for the history: it bears on nothing that a pass does.
Shape ==
    /\ chain \in Chains
    /\ indexing \in BOOLEAN
    /\ chainHeight \in Nat
    /\ lastScanned \in Nat
    /\ lastHash \in Block \cup {NoBlock}
    /\ index \in Seq(IndexEntry) /\ diskIndex \in Seq(IndexEntry)
    /\ buffer \in Seq(Packet)
    /\ file \in Seq((Block \cup {NoBlock}) \X Nat)
    /\ cache \in CacheType
    /\ diskCursor \in [height : Nat, hash : Block \cup {NoBlock}]
    /\ inflight \in (Block \X Verbosity) \cup {NoRequest}
    /\ pass \in [Worker -> Pass]

Inv ==
    /\ Shape
    /\ GateInv
    /\ \A w \in Worker : PassOK(w)
    /\ IndexInv
    /\ CacheInv

\* A task's move changes its own locals and nobody else's.
LEMMA StepLocals ==
    ASSUME pass \in [Worker -> Pass],
           NEW w \in Worker, NEW next \in Pass, Step(w, next)
    PROVE  /\ pass' \in [Worker -> Pass]
           /\ pass'[w] = next
           /\ \A v \in Worker : v # w => pass'[v] = pass[v]
BY DEF Step

LEMMA GotoLocals ==
    ASSUME pass \in [Worker -> Pass],
           NEW w \in Worker, NEW label \in PC, Goto(w, label)
    PROVE  /\ pass' \in [Worker -> Pass]
           /\ pass'[w].pc = label
           /\ pass'[w].at = pass[w].at /\ pass'[w].seen = pass[w].seen
           /\ pass'[w].got = pass[w].got /\ pass'[w].off = pass[w].off
           /\ \A v \in Worker : v # w => pass'[v] = pass[v]
BY DEF Step, Goto, Pass

LEMMA GotoAtLocals ==
    ASSUME pass \in [Worker -> Pass],
           NEW w \in Worker, NEW label \in PC, NEW h \in Nat, GotoAt(w, label, h)
    PROVE  /\ pass' \in [Worker -> Pass]
           /\ pass'[w].pc = label /\ pass'[w].at = h
           /\ \A v \in Worker : v # w => pass'[v] = pass[v]
BY DEF Step, GotoAt, Pass

LEMMA GotoSeeingLocals ==
    ASSUME pass \in [Worker -> Pass],
           NEW w \in Worker, NEW label \in PC, NEW h \in Nat,
           NEW b \in Block \cup {NoBlock}, GotoSeeing(w, label, h, b)
    PROVE  /\ pass' \in [Worker -> Pass]
           /\ pass'[w].pc = label /\ pass'[w].at = h /\ pass'[w].seen = b
           /\ \A v \in Worker : v # w => pass'[v] = pass[v]
BY DEF Step, GotoSeeing, Pass

LEMMA NodeHashType ==
    ASSUME chain \in Chains, NEW h \in Int
    PROVE  /\ NodeHash(h) \in Block \cup {NoBlock}
           /\ HashAnswers(h) \subseteq Block \cup {NoBlock}
BY ChainAssumption DEF NodeHash, HashAnswers

\* Cache operations yield caches.
LEMMA ForgetType ==
    ASSUME NEW c \in CacheType, NEW H
    PROVE  Forget(c, H) \in CacheType
BY DEF Forget, CacheType

LEMMA InsertType ==
    ASSUME NEW c \in CacheType, NEW b \in Block, NEW v \in Verbosity
    PROVE  Insert(c, b, v) \in CacheType
<1>1. Evict(c) \in CacheType
  BY ForgetType DEF Evict
<1>2. HeightOf[b] \in Heights
  BY ChainAssumption
<1>. QED  BY <1>1, <1>2 DEF Insert, CacheType

LEMMA ForgetFiles ==
    ASSUME NEW c \in CacheType, NEW H,
           \A h \in Heights : c.h2h[h] # NoBlock => HeightOf[c.h2h[h]] = h
    PROVE  \A h \in Heights : Forget(c, H).h2h[h] # NoBlock =>
             HeightOf[Forget(c, H).h2h[h]] = h
BY DEF Forget

LEMMA InsertFiles ==
    ASSUME NEW c \in CacheType, NEW b \in Block, NEW v \in Verbosity,
           \A h \in Heights : c.h2h[h] # NoBlock => HeightOf[c.h2h[h]] = h
    PROVE  \A h \in Heights : Insert(c, b, v).h2h[h] # NoBlock =>
             HeightOf[Insert(c, b, v).h2h[h]] = h
<1>1. Evict(c) \in CacheType
  BY ForgetType DEF Evict
<1>2. \A h \in Heights : Evict(c).h2h[h] # NoBlock => HeightOf[Evict(c).h2h[h]] = h
  BY ForgetFiles DEF Evict
<1>. QED  BY <1>1, <1>2 DEF Insert, CacheType

LEMMA HashForHeightType ==
    ASSUME NEW c \in CacheType, NEW h
    PROVE  HashForHeight(c, h) \in Block \cup {NoBlock}
BY DEF HashForHeight, CacheType

\* Cutting sequences.
LEMMA PrefixType ==
    ASSUME NEW S, NEW s \in Seq(S), NEW n \in Nat, n <= Len(s)
    PROVE  SubSeq(s, 1, n) \in Seq(S) /\ Len(SubSeq(s, 1, n)) = n
<1>1. Len(s) \in Nat /\ \A p \in 1..Len(s) : s[p] \in S
  BY LenProperties, ElementOfSeq
<1>2. \A p \in 1..n : p \in 1..Len(s)
  BY <1>1
<1>. QED  BY <1>1, <1>2, SubSeqProperties

LEMMA SetLenType ==
    ASSUME NEW f \in Seq((Block \cup {NoBlock}) \X Nat), NEW n \in Nat
    PROVE  SetLen(f, n) \in Seq((Block \cup {NoBlock}) \X Nat)
<1>1. \A p \in 1..n : (IF p <= Len(f) THEN f[p] ELSE <<NoBlock, 0>>)
                        \in (Block \cup {NoBlock}) \X Nat
  BY LenProperties, ElementOfSeq
<1>. QED  BY <1>1 DEF SetLen

LEMMA TruncateVecType ==
    ASSUME NEW s \in Seq(Packet), NEW n \in Nat
    PROVE  TruncateVec(s, n) \in Seq(Packet)
BY PrefixType, LenProperties DEF TruncateVec

----------------------------------------------------------------------------
(* Initially the invariant holds.                                          *)

LEMMA InitInv == Init => Inv
<1>. SUFFICES ASSUME Init PROVE Inv
  OBVIOUS
<1>1. /\ InitChain \in Seq(Block) /\ Len(InitChain) \in Nat
      /\ \A h \in 1..Len(InitChain) :
           InitChain[h] \in Block /\ HeightOf[InitChain[h]] = h
  <2>1. InitChain \in Chains
    BY IndexerAssumption
  <2>. QED  BY <2>1, ChainAssumption
<1>2. lastHash \in Block \cup {NoBlock}
  BY <1>1 DEF Init
<1>3. cache \in CacheType /\ CacheInv
  <2>1. [h \in Heights |-> IF h <= Len(InitChain) THEN InitChain[h] ELSE NoBlock]
          \in [Heights -> Block \cup {NoBlock}]
    BY <1>1, ChainAssumption DEF Heights
  <2>2. {<<InitChain[h], 2>> : h \in 1..Len(InitChain)} \subseteq Block \X Verbosity
    BY <1>1 DEF Verbosity
  <2>3. cache \in CacheType
    BY <2>1, <2>2 DEF Init, CacheType
  <2>4. ASSUME NEW h \in Heights, cache.h2h[h] # NoBlock
        PROVE  HeightOf[cache.h2h[h]] = h
    <3>1. h <= Len(InitChain) /\ cache.h2h[h] = InitChain[h]
      BY <2>4 DEF Init
    <3>. QED  BY <3>1, <1>1 DEF Heights
  <2>. QED  BY <2>3, <2>4 DEF CacheInv
<1>4. pass \in [Worker -> Pass] /\ \A w \in Worker : pass[w].pc = "idle"
  BY DEF Init, IdlePass, Pass, PC
<1>5. /\ index \in Seq(IndexEntry) /\ diskIndex \in Seq(IndexEntry)
      /\ buffer \in Seq(Packet) /\ file \in Seq((Block \cup {NoBlock}) \X Nat)
  BY DEF Init
<1>6. diskCursor \in [height : Nat, hash : Block \cup {NoBlock}]
  BY <1>1, <1>2 DEF Init
<1>7. Shape
  BY <1>1, <1>2, <1>3, <1>4, <1>5, <1>6, IndexerAssumption DEF Init, Shape
<1>8. IndexInv
  BY <1>1 DEF Init, IndexInv, AscendingHeights, IndexedUpTo
<1>9. GateInv /\ \A w \in Worker : PassOK(w)
  BY <1>4 DEF GateInv, PassOK, Scanning, Cutting
<1>. QED  BY <1>3, <1>7, <1>8, <1>9 DEF Inv

----------------------------------------------------------------------------
(* What each step of a pass has to show.                                   *)

\* While a task is inside a pass, the others are idle.
LEMMA Alone ==
    ASSUME Inv, NEW w \in Worker, pass[w].pc # "idle"
    PROVE  indexing /\ \A v \in Worker : v # w => pass[v].pc = "idle"
BY DEF Inv, GateInv

\* Outside "advance", no height above the cursor is indexed.
LEMMA IndexBehind ==
    ASSUME Inv, NEW w \in Worker, pass[w].pc # "advance",
           \A v \in Worker : v # w => pass[v].pc = "idle"
    PROVE  IndexedUpTo(lastScanned)
BY DEF Inv, IndexInv, Somewhere

\* When only w moves, only w's locals are in question.
LEMMA InvKept ==
    ASSUME Inv, NEW w \in Worker,
           \A v \in Worker : v # w => pass[v].pc = "idle" /\ pass'[v] = pass[v],
           pass'[w].pc # "idle" => indexing',
           Shape', PassOK(w)', AscendingHeights(index)', CacheInv',
           pass'[w].pc # "advance" => IndexedUpTo(lastScanned)'
    PROVE  Inv'
<1>1. \A v \in Worker : v # w => pass'[v].pc = "idle"
  OBVIOUS
<1>2. GateInv'
  BY <1>1 DEF GateInv
<1>3. \A v \in Worker : PassOK(v)'
  <2>1. ASSUME NEW v \in Worker, v # w PROVE PassOK(v)'
    BY <1>1, <2>1 DEF PassOK, Scanning, Cutting
  <2>. QED  BY <2>1
<1>4. IndexInv'
  BY DEF IndexInv, Somewhere
<1>. QED  BY <1>2, <1>3, <1>4 DEF Inv

\* The same for a step that leaves the index and the cursor alone.
LEMMA LocalStepKept ==
    ASSUME Inv, NEW w \in Worker, pass[w].pc \notin {"idle", "advance"},
           pass' \in [Worker -> Pass],
           \A v \in Worker : v # w => pass'[v] = pass[v],
           PassOK(w)',
           pass'[w].pc # "idle" => indexing',
           indexing' \in BOOLEAN, chainHeight' \in Nat,
           UNCHANGED <<chain, lastScanned, index, inflight>>,
           lastHash' \in Block \cup {NoBlock},
           diskIndex' \in Seq(IndexEntry),
           buffer' \in Seq(Packet),
           file' \in Seq((Block \cup {NoBlock}) \X Nat),
           cache' \in CacheType, CacheInv',
           diskCursor' \in [height : Nat, hash : Block \cup {NoBlock}]
    PROVE  Inv'
<1>1. \A v \in Worker : v # w => pass[v].pc = "idle"
  BY Alone
<1>2. Shape'
  BY DEF Inv, Shape
<1>3. IndexedUpTo(lastScanned)'
  BY <1>1, IndexBehind DEF IndexedUpTo
<1>4. AscendingHeights(index)'
  BY DEF Inv, IndexInv, AscendingHeights
<1>. QED  BY <1>1, <1>2, <1>3, <1>4, InvKept

\* The same for a step that only moves w.
LEMMA MoveKept ==
    ASSUME Inv, NEW w \in Worker, pass[w].pc \notin {"idle", "advance"},
           pass' \in [Worker -> Pass],
           \A v \in Worker : v # w => pass'[v] = pass[v],
           PassOK(w)',
           UNCHANGED <<node, indexing, chainHeight, cursor, store, cache>>
    PROVE  Inv'
<1>1. CacheInv' /\ indexing
  BY Alone DEF Inv, CacheInv
<1>. QED  BY <1>1, LocalStepKept DEF Inv, Shape, node, cursor, store

----------------------------------------------------------------------------
(* The actions, one by one.                                                *)

LEMMA EnterInv ==
    ASSUME Inv, NEW w \in Worker, Enter(w) PROVE Inv'
<1>1. pass \in [Worker -> Pass] /\ Goto(w, "count") /\ "count" \in PC
  BY DEF Inv, Shape, Enter, PC
<1>2. /\ pass' \in [Worker -> Pass] /\ pass'[w].pc = "count"
      /\ \A v \in Worker : v # w => pass'[v] = pass[v]
  BY <1>1, GotoLocals
<1>3. pass[w].pc # "advance" /\ \A v \in Worker : pass[v].pc = "idle"
  BY DEF Enter, At, Inv, GateInv
<1>4. indexing' = TRUE
  BY DEF Enter
<1>5. Shape'
  BY <1>2, <1>4 DEF Enter, Inv, Shape, node, cursor, store
<1>6. PassOK(w)'
  BY <1>2 DEF PassOK, Scanning, Cutting
<1>7. IndexedUpTo(lastScanned)
  BY <1>3, IndexBehind
<1>8. UNCHANGED <<index, lastScanned, cache>>
  BY DEF Enter, cursor, store
<1>9. AscendingHeights(index)' /\ CacheInv'
  BY <1>8 DEF Inv, IndexInv, CacheInv, AscendingHeights
<1>10. IndexedUpTo(lastScanned)'
  BY <1>7, <1>8 DEF IndexedUpTo
<1>. QED  BY <1>2, <1>3, <1>4, <1>5, <1>6, <1>9, <1>10, InvKept

LEMMA CountInv ==
    ASSUME Inv, NEW w \in Worker, Count(w) PROVE Inv'
<1>1. /\ pass \in [Worker -> Pass] /\ chain \in Seq(Block)
      /\ lastScanned + 1 \in Nat
      /\ "leave" \in PC /\ "probe" \in PC
  BY ChainAssumption DEF Inv, Shape, PC
<1>2. /\ pass' \in [Worker -> Pass]
      /\ \A v \in Worker : v # w => pass'[v] = pass[v]
      /\ \/ pass'[w].pc = "leave"
         \/ pass'[w].pc = "probe" /\ pass'[w].at = lastScanned + 1
  <2>1. Goto(w, "leave") \/ GotoAt(w, "probe", lastScanned + 1)
    BY DEF Count
  <2>. QED  BY <1>1, <2>1, GotoLocals, GotoAtLocals
<1>3. /\ UNCHANGED <<chain, indexing, lastScanned, index, buffer, file,
                     diskIndex, inflight, cache, lastHash, diskCursor>>
      /\ pass[w].pc \notin {"idle", "advance"}
  BY DEF Count, At, node, cursor, store
<1>4. PassOK(w)'
  BY <1>2, <1>3 DEF PassOK, Scanning, Cutting
<1>5. chainHeight' \in Nat
  BY <1>1 DEF Count, Inv, Shape
<1>6. CacheInv'
  BY <1>3 DEF Inv, CacheInv
<1>7. indexing
  BY <1>3, Alone
<1>. QED
  BY <1>2, <1>3, <1>4, <1>5, <1>6, <1>7, LocalStepKept DEF Inv, Shape

LEMMA LeaveInv ==
    ASSUME Inv, NEW w \in Worker, Leave(w) PROVE Inv'
<1>1. IdlePass \in Pass /\ IdlePass.pc = "idle"
  BY DEF Pass, PC, IdlePass
<1>2. pass \in [Worker -> Pass] /\ Step(w, IdlePass)
  BY DEF Leave, Inv, Shape
<1>3. /\ pass' \in [Worker -> Pass] /\ pass'[w].pc = "idle"
      /\ \A v \in Worker : v # w => pass'[v] = pass[v]
  BY <1>1, <1>2, StepLocals
<1>4. /\ UNCHANGED <<chain, chainHeight, lastScanned, index, buffer, file,
                     diskIndex, inflight, cache, lastHash, diskCursor>>
      /\ indexing' = FALSE
      /\ pass[w].pc \notin {"idle", "advance"}
  BY DEF Leave, At, node, cursor, store
<1>5. PassOK(w)'
  BY <1>3 DEF PassOK, Scanning, Cutting
<1>6. CacheInv'
  BY <1>4 DEF Inv, CacheInv
<1>. QED
  BY <1>3, <1>4, <1>5, <1>6, LocalStepKept DEF Inv, Shape

LEMMA ProbeInv ==
    ASSUME Inv, NEW w \in Worker, Probe(w) PROVE Inv'
<1>. DEFINE prev == NodeHash(pass[w].at - 1)
<1>1. /\ pass \in [Worker -> Pass] /\ pass[w].at \in Nat
      /\ chain \in Chains /\ "target" \in PC /\ "detect" \in PC
      /\ pass[w].at = lastScanned + 1
  BY DEF Inv, Shape, PassOK, Probe, At, Pass, PC
<1>2. prev \in Block \cup {NoBlock}
  BY <1>1, NodeHashType
<1>3. Goto(w, "target") \/ GotoSeeing(w, "detect", pass[w].at, prev)
  BY DEF Probe
<1>. HIDE DEF prev
<1>4. /\ pass' \in [Worker -> Pass]
      /\ \A v \in Worker : v # w => pass'[v] = pass[v]
      /\ \/ pass'[w].pc = "target"
         \/ pass'[w].pc = "detect" /\ pass'[w].at = lastScanned + 1
  BY <1>1, <1>2, <1>3, GotoLocals, GotoSeeingLocals
<1>5. PassOK(w)'
  BY <1>4 DEF PassOK, Scanning, Cutting, Probe, cursor
<1>. QED  BY <1>4, <1>5, MoveKept DEF Probe, At

LEMMA DetectInv ==
    ASSUME Inv, NEW w \in Worker, Detect(w) PROVE Inv'
<1>1. /\ pass \in [Worker -> Pass] /\ pass[w].at - 1 \in Nat
      /\ "target" \in PC /\ "fork" \in PC
      /\ pass[w].at = lastScanned + 1 /\ lastScanned \in Nat
  BY DEF Inv, Shape, PassOK, Detect, At, Pass, PC
<1>2. Goto(w, "target") \/ GotoAt(w, "fork", pass[w].at - 1)
  BY DEF Detect
<1>3. /\ pass' \in [Worker -> Pass]
      /\ \A v \in Worker : v # w => pass'[v] = pass[v]
      /\ \/ pass'[w].pc = "target"
         \/ pass'[w].pc = "fork" /\ pass'[w].at = pass[w].at - 1
  BY <1>1, <1>2, GotoLocals, GotoAtLocals
<1>4. PassOK(w)'
  BY <1>1, <1>3 DEF PassOK, Scanning, Cutting, Detect, cursor
<1>. QED  BY <1>3, <1>4, MoveKept DEF Detect, At

LEMMA FindForkInv ==
    ASSUME Inv, NEW w \in Worker, FindFork(w) PROVE Inv'
<1>. DEFINE h     == pass[w].at
            limit == SearchLimit
            Move(label, to) ==
              /\ pass' \in [Worker -> Pass]
              /\ \A v \in Worker : v # w => pass'[v] = pass[v]
              /\ pass'[w].pc = label /\ pass'[w].at = to
<1>1. /\ pass \in [Worker -> Pass] /\ h \in Nat /\ lastScanned \in Nat
      /\ h <= lastScanned /\ "invalidate" \in PC /\ "fork" \in PC
  BY DEF Inv, Shape, PassOK, FindFork, At, Pass, PC
<1>2. limit \in Nat /\ limit <= lastScanned
  BY <1>1, IndexerAssumption DEF SearchLimit
<1>3. /\ h <= limit => GotoAt(w, "invalidate", limit + 1)
      /\ ~(h <= limit) =>
           GotoAt(w, "invalidate", h + 1) \/ GotoAt(w, "fork", h - 1)
  BY DEF FindFork
<1>. HIDE DEF limit
<1>4. \E k \in Nat :
        \/ Move("invalidate", k) /\ k > 0 /\ k <= lastScanned + 1
        \/ Move("fork", k) /\ k <= lastScanned
  <2>1. CASE h <= limit
    <3>1. limit + 1 \in Nat /\ limit + 1 > 0 /\ limit + 1 <= lastScanned + 1
      BY <1>1, <1>2
    <3>2. Move("invalidate", limit + 1)
      BY <1>1, <1>3, <2>1, <3>1, GotoAtLocals
    <3>. QED  BY <3>1, <3>2
  <2>2. CASE ~(h <= limit) /\ GotoAt(w, "invalidate", h + 1)
    <3>1. h + 1 \in Nat /\ h + 1 > 0 /\ h + 1 <= lastScanned + 1
      BY <1>1
    <3>2. Move("invalidate", h + 1)
      BY <1>1, <2>2, <3>1, GotoAtLocals
    <3>. QED  BY <3>1, <3>2
  <2>3. CASE ~(h <= limit) /\ GotoAt(w, "fork", h - 1)
    <3>1. h - 1 \in Nat /\ h - 1 <= lastScanned
      BY <1>1, <1>2, <2>3
    <3>2. Move("fork", h - 1)
      BY <1>1, <2>3, <3>1, GotoAtLocals
    <3>. QED  BY <3>1, <3>2
  <2>. QED  BY <1>3, <2>1, <2>2, <2>3
<1>5. PassOK(w)'
  BY <1>4 DEF PassOK, Scanning, Cutting, FindFork, cursor
<1>. QED  BY <1>4, <1>5, MoveKept DEF FindFork, At

LEMMA InvalidateInv ==
    ASSUME Inv, NEW w \in Worker, Invalidate(w) PROVE Inv'
<1>1. /\ pass \in [Worker -> Pass] /\ pass[w].pc \in Cutting
      /\ Goto(w, "truncate") /\ "truncate" \in PC
  BY DEF Inv, Shape, Invalidate, At, PC, Cutting
<1>2. /\ pass' \in [Worker -> Pass] /\ pass'[w].pc = "truncate"
      /\ pass'[w].at = pass[w].at
      /\ \A v \in Worker : v # w => pass'[v] = pass[v]
  BY <1>1, GotoLocals
<1>3. cache' \in CacheType /\ CacheInv'
  BY ForgetType, ForgetFiles DEF Invalidate, InvalidateFrom, Inv, Shape, CacheInv
<1>4. /\ UNCHANGED <<chain, indexing, chainHeight, lastScanned, index,
                     buffer, file, diskIndex, inflight, lastHash, diskCursor>>
      /\ pass[w].pc \notin {"idle", "advance"}
  BY DEF Invalidate, At, node, cursor, store
<1>5. PassOK(w)'
  BY <1>1, <1>2, <1>4 DEF Inv, PassOK, Scanning, Cutting
<1>6. indexing
  BY <1>4, Alone
<1>. QED
  BY <1>2, <1>3, <1>4, <1>5, <1>6, LocalStepKept DEF Inv, Shape

LEMMA TruncateInv ==
    ASSUME Inv, NEW w \in Worker, Truncate(w) PROVE Inv'
<1>. DEFINE fork == pass[w].at
            off  == OffsetForHeight(index, fork)
<1>1. /\ pass \in [Worker -> Pass] /\ pass[w].pc = "truncate"
      /\ fork \in Nat /\ fork > 0 /\ fork <= lastScanned + 1
      /\ lastScanned \in Nat
      /\ index \in Seq(IndexEntry) /\ AscendingHeights(index)
      /\ buffer \in Seq(Packet) /\ file \in Seq((Block \cup {NoBlock}) \X Nat)
      /\ "target" \in PC /\ "saveindex" \in PC
  BY DEF Inv, Shape, PassOK, IndexInv, Truncate, At, Pass, PC, Cutting
<1>2. indexing /\ \A v \in Worker : v # w => pass[v].pc = "idle"
  BY <1>1, Alone
<1>3. UNCHANGED <<node, indexing, chainHeight, lastHash, diskIndex, diskCursor, cache>>
  BY DEF Truncate
<1>4. /\ RemoveFrom(index, fork) \in Seq(IndexEntry)
      /\ AscendingHeights(RemoveFrom(index, fork))
      /\ \A k \in 1..Len(RemoveFrom(index, fork)) :
           RemoveFrom(index, fork)[k].block < fork
      /\ off \in Nat \cup {NoOffset}
      /\ off = NoOffset => \A k \in 1..Len(index) : index[k].block < fork
  BY <1>1, RemoveFromBelow
<1>5. CacheInv'
  BY <1>3 DEF Inv, CacheInv
<1>6. CASE /\ off = NoOffset
           /\ lastScanned' = fork - 1
           /\ Goto(w, "target")
           /\ UNCHANGED <<file, buffer, index>>
  <2>1. /\ pass' \in [Worker -> Pass] /\ pass'[w].pc = "target"
        /\ \A v \in Worker : v # w => pass'[v] = pass[v]
    BY <1>1, <1>6, GotoLocals
  <2>2. lastScanned' \in Nat
    BY <1>1, <1>6
  <2>3. IndexedUpTo(lastScanned)'
    <3>1. \A k \in 1..Len(index) : index[k].block < fork /\ index[k].block \in Nat
      BY <1>1, <1>4, <1>6, EntryTypes
    <3>. QED  BY <1>1, <1>6, <3>1 DEF IndexedUpTo
  <2>4. Shape'
    BY <1>3, <1>6, <2>1, <2>2 DEF Inv, Shape, node
  <2>5. PassOK(w)'
    BY <2>1 DEF PassOK, Scanning, Cutting
  <2>6. AscendingHeights(index)'
    BY <1>1, <1>6 DEF AscendingHeights
  <2>. QED  BY <1>2, <1>3, <1>5, <2>1, <2>2, <2>3, <2>4, <2>5, <2>6, InvKept
<1>7. CASE /\ off # NoOffset
           /\ file' \in {file, SetLen(file, off)}
           /\ Goto(w, "target")
           /\ UNCHANGED <<buffer, index, lastScanned>>
  <2>1. /\ pass' \in [Worker -> Pass] /\ pass'[w].pc = "target"
        /\ \A v \in Worker : v # w => pass'[v] = pass[v]
    BY <1>1, <1>7, GotoLocals
  <2>2. file' \in Seq((Block \cup {NoBlock}) \X Nat)
    BY <1>1, <1>4, <1>7, SetLenType
  <2>3. PassOK(w)'
    BY <2>1 DEF PassOK, Scanning, Cutting
  <2>. QED
    BY <1>1, <1>2, <1>3, <1>5, <1>7, <2>1, <2>2, <2>3, LocalStepKept
    DEF Inv, Shape, node
<1>8. CASE /\ off # NoOffset
           /\ file' = SetLen(file, off)
           /\ buffer' = TruncateVec(buffer, off)
           /\ index' = RemoveFrom(index, fork)
           /\ Goto(w, "saveindex")
           /\ UNCHANGED <<lastScanned>>
  <2>1. /\ pass' \in [Worker -> Pass] /\ pass'[w].pc = "saveindex"
        /\ pass'[w].at = fork
        /\ \A v \in Worker : v # w => pass'[v] = pass[v]
    BY <1>1, <1>8, GotoLocals
  <2>2. /\ file' \in Seq((Block \cup {NoBlock}) \X Nat)
        /\ buffer' \in Seq(Packet)
    BY <1>1, <1>4, <1>8, SetLenType, TruncateVecType
  <2>3. index' \in Seq(IndexEntry) /\ AscendingHeights(index)'
    BY <1>4, <1>8 DEF AscendingHeights
  <2>4. \A k \in 1..Len(index') :
          index'[k].block <= fork - 1 /\ index'[k].block <= lastScanned'
    <3>1. \A k \in 1..Len(index') : index'[k].block < fork /\ index'[k].block \in Nat
      BY <1>4, <1>8, <2>3, EntryTypes
    <3>. QED  BY <3>1, <1>1, <1>8
  <2>5. Shape'
    BY <1>3, <1>8, <2>1, <2>2, <2>3 DEF Inv, Shape, node
  <2>6. PassOK(w)' /\ IndexedUpTo(lastScanned)'
    BY <1>1, <1>8, <2>1, <2>4 DEF PassOK, Scanning, Cutting, IndexedUpTo
  <2>. QED  BY <1>1, <1>2, <1>3, <1>5, <1>8, <2>1, <2>3, <2>5, <2>6, InvKept
<1>. QED  BY <1>6, <1>7, <1>8 DEF Truncate

LEMMA SaveTrimmedIndexInv ==
    ASSUME Inv, NEW w \in Worker, SaveTrimmedIndex(w) PROVE Inv'
<1>1. /\ pass \in [Worker -> Pass] /\ pass[w].pc = "saveindex"
      /\ Goto(w, "rewind") /\ "rewind" \in PC
  BY DEF Inv, Shape, SaveTrimmedIndex, At, PC
<1>2. /\ pass' \in [Worker -> Pass] /\ pass'[w].pc = "rewind"
      /\ pass'[w].at = pass[w].at
      /\ \A v \in Worker : v # w => pass'[v] = pass[v]
  BY <1>1, GotoLocals
<1>3. UNCHANGED <<chain, inflight, indexing, chainHeight, lastScanned, lastHash,
                  diskCursor, index, buffer, file, cache>>
  BY DEF SaveTrimmedIndex, node, cursor
<1>4. diskIndex' \in Seq(IndexEntry)
  BY DEF SaveTrimmedIndex, Saved, Inv, Shape
<1>5. PassOK(w)'
  BY <1>1, <1>2, <1>3 DEF Inv, PassOK, Scanning, Cutting, IndexedUpTo
<1>6. CacheInv' /\ indexing
  BY <1>1, <1>3, Alone DEF Inv, CacheInv
<1>. QED
  BY <1>1, <1>2, <1>3, <1>4, <1>5, <1>6, LocalStepKept DEF Inv, Shape

LEMMA RewindInv ==
    ASSUME Inv, NEW w \in Worker, Rewind(w) PROVE Inv'
<1>. DEFINE fork == pass[w].at
<1>1. /\ pass \in [Worker -> Pass] /\ pass[w].pc = "rewind" /\ "target" \in PC
      /\ fork \in Nat /\ fork > 0 /\ fork <= lastScanned + 1
      /\ lastScanned \in Nat
      /\ IndexedUpTo(fork - 1)
  BY DEF Inv, Shape, PassOK, Rewind, At, Pass, PC, Cutting
<1>2. indexing /\ \A v \in Worker : v # w => pass[v].pc = "idle"
  BY <1>1, Alone
<1>3. /\ lastScanned' = fork - 1 /\ lastHash' = NoBlock
      /\ Goto(w, "target")
      /\ UNCHANGED <<chain, inflight, indexing, chainHeight, index, buffer, file,
                     diskIndex, cache>>
  BY DEF Rewind, node, store
<1>4. /\ pass' \in [Worker -> Pass] /\ pass'[w].pc = "target"
      /\ \A v \in Worker : v # w => pass'[v] = pass[v]
  BY <1>1, <1>3, GotoLocals
<1>5. lastScanned' \in Nat
  BY <1>1, <1>3
<1>6. diskCursor' \in [height : Nat, hash : Block \cup {NoBlock}]
  <2>1. fork - 1 \in Nat
    BY <1>1
  <2>. HIDE DEF fork
  <2>2. diskCursor' = [height |-> fork - 1, hash |-> NoBlock] \/ diskCursor' = diskCursor
    BY DEF Rewind, Saved, fork
  <2>. QED  BY <2>1, <2>2 DEF Inv, Shape
<1>7. Shape'
  BY <1>3, <1>4, <1>5, <1>6 DEF Inv, Shape
<1>8. /\ PassOK(w)' /\ CacheInv'
      /\ AscendingHeights(index)' /\ IndexedUpTo(lastScanned)'
  BY <1>1, <1>3, <1>4
  DEF Inv, PassOK, Scanning, Cutting, IndexInv, CacheInv, AscendingHeights, IndexedUpTo
<1>. QED  BY <1>2, <1>3, <1>4, <1>5, <1>7, <1>8, InvKept

LEMMA TargetInv ==
    ASSUME Inv, NEW w \in Worker, Target(w) PROVE Inv'
<1>. DEFINE t == lastScanned + 1
<1>1. /\ pass \in [Worker -> Pass] /\ pass[w].pc = "target"
      /\ t \in Nat /\ "exit" \in PC /\ "fetch" \in PC
      /\ chain \in Chains /\ cache \in CacheType
  BY DEF Inv, Shape, Target, At, PC
<1>2. \/ Goto(w, "exit")
      \/ \E b \in Block : HeightOf[b] = t /\ GotoSeeing(w, "fetch", t, b)
  <2>1. HashForHeight(cache, t) # NoBlock =>
          HashForHeight(cache, t) \in Block /\ HeightOf[HashForHeight(cache, t)] = t
    BY <1>1 DEF HashForHeight, CacheType, Inv, CacheInv
  <2>2. ASSUME NEW hash \in HashAnswers(t), hash # NoBlock
        PROVE  hash \in Block /\ HeightOf[hash] = t
    <3>1. hash = chain[t] /\ t \in 1..Len(chain)
      BY <2>2 DEF HashAnswers, NodeHash
    <3>. QED  BY <1>1, <3>1, ChainAssumption
  <2>3. \/ Goto(w, "exit")
        \/ \E hash \in IF HashForHeight(cache, t) # NoBlock
                       THEN {HashForHeight(cache, t)} ELSE HashAnswers(t) :
             hash # NoBlock /\ GotoSeeing(w, "fetch", t, hash)
    BY DEF Target
  <2>. QED  BY <2>1, <2>2, <2>3
<1>. HIDE DEF t
<1>3. /\ pass' \in [Worker -> Pass]
      /\ \A v \in Worker : v # w => pass'[v] = pass[v]
      /\ \/ pass'[w].pc = "exit"
         \/ /\ pass'[w].pc = "fetch" /\ pass'[w].at = t
            /\ pass'[w].seen \in Block /\ HeightOf[pass'[w].seen] = t
  BY <1>1, <1>2, GotoLocals, GotoSeeingLocals
<1>4. PassOK(w)'
  BY <1>3 DEF PassOK, Scanning, Cutting, Target, cursor, t
<1>. QED  BY <1>1, <1>3, <1>4, MoveKept DEF Target

LEMMA FetchInv ==
    ASSUME Inv, NEW w \in Worker, Fetch(w) PROVE Inv'
<1>1. /\ pass \in [Worker -> Pass] /\ pass[w].pc = "fetch"
      /\ pass[w].pc \in Scanning /\ PassOK(w)
      /\ "decoded" \in PC /\ "cacheput" \in PC /\ "exit" \in PC
  BY DEF Inv, Shape, Fetch, At, PC, Scanning
<1>2. pass[w].seen \in Block /\ ShieldTxs[pass[w].seen] \in Nat
  BY <1>1, ChainAssumption DEF PassOK
<1>3. \/ Goto(w, "exit")
      \/ \E n \in Nat, label \in {"decoded", "cacheput"} :
           Step(w, [pass[w] EXCEPT !.pc = label, !.got = n])
  <2>. DEFINE total == ShieldTxs[pass[w].seen]
              To(label, n) == Step(w, [pass[w] EXCEPT !.pc = label, !.got = n])
  <2>1. \/ Goto(w, "exit")
        \/ \E n \in 0..total : To("decoded", n)
        \/ To("decoded", total)
        \/ To("cacheput", total)
    BY DEF Fetch
  <2>2. total \in Nat /\ \A n \in 0..total : n \in Nat
    BY <1>2
  <2>. HIDE DEF total, To
  <2>3. \/ Goto(w, "exit")
        \/ \E n \in Nat, label \in {"decoded", "cacheput"} : To(label, n)
    BY <2>1, <2>2
  <2>. QED  BY <2>3 DEF To
<1>4. /\ pass' \in [Worker -> Pass]
      /\ \A v \in Worker : v # w => pass'[v] = pass[v]
      /\ \/ pass'[w].pc = "exit"
         \/ /\ pass'[w].pc \in {"decoded", "cacheput"}
            /\ pass'[w].at = pass[w].at /\ pass'[w].seen = pass[w].seen
  <2>1. CASE Goto(w, "exit")
    BY <1>1, <2>1, GotoLocals
  <2>2. ASSUME NEW n \in Nat, NEW label \in {"decoded", "cacheput"},
               Step(w, [pass[w] EXCEPT !.pc = label, !.got = n])
        PROVE  /\ pass' \in [Worker -> Pass]
               /\ \A v \in Worker : v # w => pass'[v] = pass[v]
               /\ pass'[w].pc = label
               /\ pass'[w].at = pass[w].at /\ pass'[w].seen = pass[w].seen
    <3>. DEFINE next == [pass[w] EXCEPT !.pc = label, !.got = n]
    <3>1. pass[w] \in Pass /\ label \in PC
      BY <1>1
    <3>2. /\ next \in Pass /\ next.pc = label
          /\ next.at = pass[w].at /\ next.seen = pass[w].seen
      BY <3>1 DEF Pass
    <3>3. Step(w, next)
      BY <2>2
    <3>. HIDE DEF next
    <3>. QED  BY <1>1, <3>2, <3>3, StepLocals
  <2>. QED  BY <1>3, <2>1, <2>2
<1>5. PassOK(w)'
  BY <1>1, <1>4 DEF PassOK, Scanning, Cutting, Fetch, cursor
<1>. QED  BY <1>1, <1>4, <1>5, MoveKept DEF Fetch

LEMMA CachePutInv ==
    ASSUME Inv, NEW w \in Worker, CachePut(w) PROVE Inv'
<1>1. /\ pass \in [Worker -> Pass] /\ pass[w].pc = "cacheput"
      /\ pass[w].seen \in Block
      /\ Goto(w, "decoded") /\ "decoded" \in PC
  BY DEF Inv, Shape, PassOK, CachePut, At, PC, Scanning
<1>2. /\ pass' \in [Worker -> Pass] /\ pass'[w].pc = "decoded"
      /\ pass'[w].at = pass[w].at /\ pass'[w].seen = pass[w].seen
      /\ \A v \in Worker : v # w => pass'[v] = pass[v]
  BY <1>1, GotoLocals
<1>3. cache' \in CacheType /\ CacheInv'
  <2>1. 2 \in Verbosity /\ cache \in CacheType /\ cache' = Insert(cache, pass[w].seen, 2)
    BY DEF Verbosity, CachePut, Inv, Shape
  <2>. QED  BY <1>1, <2>1, InsertType, InsertFiles DEF Inv, CacheInv
<1>4. UNCHANGED <<chain, indexing, chainHeight, lastScanned, index,
                  buffer, file, diskIndex, inflight, lastHash, diskCursor>>
  BY DEF CachePut, node, cursor, store
<1>5. PassOK(w)'
  BY <1>1, <1>2, <1>4 DEF Inv, PassOK, Scanning, Cutting
<1>6. indexing
  BY <1>1, Alone
<1>. QED
  BY <1>1, <1>2, <1>3, <1>4, <1>5, <1>6, LocalStepKept DEF Inv, Shape

LEMMA AdvanceEmptyInv ==
    ASSUME Inv, NEW w \in Worker, AdvanceEmpty(w) PROVE Inv'
<1>1. /\ pass \in [Worker -> Pass] /\ pass[w].pc = "decoded"
      /\ pass[w].seen \in Block /\ pass[w].at = lastScanned + 1
      /\ lastScanned \in Nat
  BY DEF Inv, Shape, PassOK, AdvanceEmpty, At, Scanning
<1>2. indexing /\ \A v \in Worker : v # w => pass[v].pc = "idle"
  BY <1>1, Alone
<1>3. /\ lastScanned' = pass[w].at
      /\ Step(w, [pass[w] EXCEPT !.pc = "target", !.dirty = TRUE])
      /\ UNCHANGED <<chain, inflight, indexing, chainHeight, lastHash, diskCursor,
                     index, buffer, file, diskIndex, cache>>
  BY DEF AdvanceEmpty, node, store
<1>4. /\ pass' \in [Worker -> Pass] /\ pass'[w].pc = "target"
      /\ \A v \in Worker : v # w => pass'[v] = pass[v]
  <2>. DEFINE next == [pass[w] EXCEPT !.pc = "target", !.dirty = TRUE]
  <2>1. pass[w] \in Pass /\ "target" \in PC
    BY <1>1 DEF PC
  <2>2. next \in Pass /\ next.pc = "target"
    BY <2>1 DEF Pass
  <2>3. Step(w, next)
    BY <1>3
  <2>. HIDE DEF next
  <2>. QED  BY <1>1, <2>2, <2>3, StepLocals
<1>5. lastScanned' \in Nat
  BY <1>1, <1>3
<1>6. Shape'
  BY <1>3, <1>4, <1>5 DEF Inv, Shape
<1>7. IndexedUpTo(lastScanned)'
  <2>1. IndexedUpTo(lastScanned) /\ \A k \in 1..Len(index) : index[k].block \in Nat
    BY <1>1, <1>2, IndexBehind, EntryTypes DEF Inv, Shape
  <2>. QED  BY <1>1, <1>3, <2>1 DEF IndexedUpTo
<1>8. PassOK(w)' /\ CacheInv' /\ AscendingHeights(index)'
  BY <1>3, <1>4
  DEF Inv, PassOK, Scanning, Cutting, IndexInv, CacheInv, AscendingHeights
<1>. QED  BY <1>2, <1>3, <1>4, <1>5, <1>6, <1>7, <1>8, InvKept

LEMMA AppendFileInv ==
    ASSUME Inv, NEW w \in Worker, AppendFile(w) PROVE Inv'
<1>. DEFINE b     == pass[w].seen
            n     == pass[w].got
            bytes == Encode(b, n)
<1>1. /\ pass \in [Worker -> Pass] /\ pass[w].pc = "decoded" /\ pass[w] \in Pass
      /\ b \in Block /\ pass[w].at = lastScanned + 1 /\ HeightOf[b] = pass[w].at
      /\ n \in Nat /\ lastScanned \in Nat
      /\ file \in Seq((Block \cup {NoBlock}) \X Nat)
      /\ "extend" \in PC /\ "advance" \in PC
  BY DEF Inv, Shape, PassOK, AppendFile, At, Scanning, Pass, PC
<1>2. /\ indexing
      /\ IndexedUpTo(lastScanned)
      /\ \A k \in 1..Len(index) : index[k].block \in Nat
  BY <1>1, Alone, IndexBehind, EntryTypes DEF Inv, Shape
<1>3. UNCHANGED <<chain, inflight, indexing, chainHeight, lastScanned, lastHash,
                  diskCursor, index, buffer, diskIndex, cache>>
  BY DEF AppendFile, node, cursor
<1>4. CacheInv'
  BY <1>3 DEF Inv, CacheInv
<1>5. HeightOf[b] \notin HeightsIn(index)
  BY <1>1, <1>2 DEF HeightsIn, IndexedUpTo
<1>6. bytes \in Seq(Packet) /\ Len(bytes) = n + 1
  <2>. HIDE DEF b, n
  <2>. QED  BY <1>1, EncodeProperties
<1>7. \E offset \in Nat \cup {NoOffset}, k \in 0..Len(bytes) :
        /\ file' \in {file \o bytes, file \o SubSeq(bytes, 1, k)}
        /\ Step(w, [[pass[w] EXCEPT !.pc = "extend"] EXCEPT !.off = offset])
  <2>1. Len(file) \in Nat /\ 0 \in 0..(n + 1)
    BY <1>1, LenProperties
  <2>2. CASE /\ file' = file \o bytes
             /\ Step(w, [[pass[w] EXCEPT !.pc = "extend"] EXCEPT !.off = Len(file)])
    BY <1>6, <2>1, <2>2
  <2>3. CASE /\ \E k \in 0..Len(bytes) : file' = file \o SubSeq(bytes, 1, k)
             /\ Step(w, [[pass[w] EXCEPT !.pc = "extend"] EXCEPT !.off = NoOffset])
    BY <2>3
  <2>. QED  BY <1>5, <2>2, <2>3 DEF AppendFile
<1>8. file' \in Seq((Block \cup {NoBlock}) \X Nat)
  <2>1. bytes \in Seq(Packet) /\ Len(bytes) \in Nat
    BY <1>1, <1>6
  <2>. HIDE DEF bytes
  <2>2. \A k \in 0..Len(bytes) : SubSeq(bytes, 1, k) \in Seq(Packet)
    BY <2>1, PrefixType
  <2>3. \A s \in Seq(Packet) : s \in Seq((Block \cup {NoBlock}) \X Nat)
    BY DEF Packet
  <2>4. \A s \in Seq(Packet) : file \o s \in Seq((Block \cup {NoBlock}) \X Nat)
    BY <1>1, <2>3, ConcatProperties
  <2>. QED  BY <1>7, <2>1, <2>2, <2>4
<1>9. /\ pass' \in [Worker -> Pass]
      /\ \A v \in Worker : v # w => pass'[v] = pass[v]
      /\ pass'[w].pc = "extend"
      /\ pass'[w].at = pass[w].at /\ pass'[w].seen = b
  <2>1. PICK offset \in Nat \cup {NoOffset} :
          Step(w, [[pass[w] EXCEPT !.pc = "extend"] EXCEPT !.off = offset])
    BY <1>7
  <2>. DEFINE next == [[pass[w] EXCEPT !.pc = "extend"] EXCEPT !.off = offset]
  <2>2. /\ next \in Pass /\ next.pc = "extend"
        /\ next.at = pass[w].at /\ next.seen = b
    BY <1>1 DEF Pass
  <2>3. Step(w, next)
    BY <2>1
  <2>. HIDE DEF next
  <2>. QED  BY <1>1, <2>2, <2>3, StepLocals
<1>10. PassOK(w)'
  BY <1>1, <1>3, <1>9 DEF PassOK, Scanning, Cutting
<1>. QED
  BY <1>1, <1>2, <1>3, <1>4, <1>8, <1>9, <1>10, LocalStepKept DEF Inv, Shape

LEMMA ExtendBufferInv ==
    ASSUME Inv, NEW w \in Worker, ExtendBuffer(w) PROVE Inv'
<1>1. /\ pass \in [Worker -> Pass] /\ pass[w].pc = "extend" /\ PassOK(w)
      /\ pass[w].seen \in Block /\ pass[w].got \in Nat
      /\ buffer \in Seq(Packet)
      /\ Goto(w, "add") /\ "add" \in PC
  BY DEF Inv, Shape, PassOK, ExtendBuffer, At, Scanning, Pass, PC
<1>2. /\ pass' \in [Worker -> Pass] /\ pass'[w].pc = "add"
      /\ pass'[w].at = pass[w].at /\ pass'[w].seen = pass[w].seen
      /\ \A v \in Worker : v # w => pass'[v] = pass[v]
  BY <1>1, GotoLocals
<1>3. UNCHANGED <<chain, inflight, indexing, chainHeight, lastScanned, lastHash,
                  diskCursor, index, file, diskIndex, cache>>
  BY DEF ExtendBuffer, node, cursor
<1>4. buffer' \in Seq(Packet)
  BY <1>1, EncodeProperties, ConcatProperties DEF ExtendBuffer
<1>5. PassOK(w)'
  BY <1>1, <1>2, <1>3 DEF PassOK, Scanning, Cutting
<1>6. CacheInv' /\ indexing
  BY <1>1, <1>3, Alone DEF Inv, CacheInv
<1>. QED
  BY <1>1, <1>2, <1>3, <1>4, <1>5, <1>6, LocalStepKept DEF Inv, Shape

LEMMA AddIndexInv ==
    ASSUME Inv, NEW w \in Worker, AddIndex(w) PROVE Inv'
<1>. DEFINE b   == pass[w].seen
            off == pass[w].off
<1>1. /\ pass \in [Worker -> Pass] /\ pass[w].pc = "add" /\ PassOK(w)
      /\ b \in Block /\ pass[w].at = lastScanned + 1 /\ HeightOf[b] = pass[w].at
      /\ off \in Nat \cup {NoOffset} /\ lastScanned \in Nat
      /\ index \in Seq(IndexEntry) /\ AscendingHeights(index)
      /\ "exit" \in PC /\ "advance" \in PC
  BY DEF Inv, Shape, PassOK, IndexInv, AddIndex, At, Scanning, Pass, PC
<1>2. indexing /\ \A v \in Worker : v # w => pass[v].pc = "idle"
  BY <1>1, Alone
<1>3. IndexedUpTo(lastScanned) /\ \A k \in 1..Len(index) : index[k].block \in Nat
  BY <1>1, <1>2, IndexBehind, EntryTypes
<1>4. UNCHANGED <<chain, inflight, indexing, chainHeight, lastScanned, lastHash,
                  diskCursor, buffer, file, cache>>
  BY DEF AddIndex, node, cursor
<1>5. CacheInv'
  BY <1>4 DEF Inv, CacheInv
<1>6. CASE off = NoOffset
  <2>1. Goto(w, "exit") /\ UNCHANGED <<index, diskIndex>>
    BY <1>6 DEF AddIndex
  <2>2. /\ pass' \in [Worker -> Pass] /\ pass'[w].pc = "exit"
        /\ \A v \in Worker : v # w => pass'[v] = pass[v]
    BY <1>1, <2>1, GotoLocals
  <2>3. PassOK(w)'
    BY <2>2 DEF PassOK, Scanning, Cutting
  <2>. QED
    BY <1>1, <1>2, <1>4, <1>5, <2>1, <2>2, <2>3, LocalStepKept DEF Inv, Shape
<1>7. CASE off # NoOffset
  <2>. DEFINE e == [block |-> HeightOf[b], i |-> off]
  <2>1. /\ index' = AddEntry(index, HeightOf[b], off)
        /\ diskIndex' \in Saved(index', diskIndex)
        /\ Goto(w, "advance")
    BY <1>7 DEF AddIndex
  <2>2. index' = Append(index, e)
    <3>1. HeightOf[b] \notin HeightsIn(index)
      BY <1>1, <1>3 DEF HeightsIn, IndexedUpTo
    <3>. QED  BY <2>1, <3>1 DEF AddEntry
  <2>3. e \in IndexEntry /\ e.block = pass[w].at
    BY <1>1, <1>7, ChainAssumption DEF IndexEntry
  <2>. HIDE DEF e
  <2>4. /\ index' \in Seq(IndexEntry) /\ Len(index') = Len(index) + 1
        /\ index'[Len(index) + 1] = e
        /\ \A k \in 1..Len(index) : index'[k] = index[k]
    BY <1>1, <2>2, <2>3, AppendProperties
  <2>5. \A k \in 1..Len(index') : k \in 1..Len(index) \/ k = Len(index) + 1
    BY <1>1, <2>4, LenProperties
  <2>6. AscendingHeights(index)'
    <3>1. ASSUME NEW k \in 1..Len(index'), NEW m \in 1..Len(index'), k < m
          PROVE  index'[k].block < index'[m].block
      <4>1. k \in 1..Len(index) /\ index'[k] = index[k] /\ index[k].block <= lastScanned
        BY <1>1, <1>3, <2>4, <2>5, <3>1, LenProperties DEF IndexedUpTo
      <4>2. CASE m \in 1..Len(index)
        BY <1>1, <2>4, <3>1, <4>1, <4>2 DEF AscendingHeights
      <4>3. CASE m = Len(index) + 1
        BY <1>1, <1>3, <2>3, <2>4, <4>1, <4>3
      <4>. QED  BY <2>5, <4>2, <4>3
    <3>. QED  BY <3>1 DEF AscendingHeights
  <2>7. \A k \in 1..Len(index') : index'[k].block <= pass[w].at
    <3>1. ASSUME NEW k \in 1..Len(index') PROVE index'[k].block <= pass[w].at
      <4>1. CASE k \in 1..Len(index)
        BY <1>1, <1>3, <2>4, <4>1, SMTT(30) DEF IndexedUpTo
      <4>2. CASE k = Len(index) + 1
        BY <1>1, <2>3, <2>4, <4>2
      <4>. QED  BY <2>5, <4>1, <4>2
    <3>. QED  BY <3>1
  <2>8. /\ pass' \in [Worker -> Pass] /\ pass'[w].pc = "advance"
        /\ pass'[w].at = pass[w].at /\ pass'[w].seen = b
        /\ \A v \in Worker : v # w => pass'[v] = pass[v]
    BY <1>1, <2>1, GotoLocals
  <2>9. Shape'
    BY <1>4, <2>1, <2>4, <2>8 DEF Inv, Shape, Saved
  <2>10. PassOK(w)'
    BY <1>1, <1>4, <2>7, <2>8 DEF PassOK, Scanning, Cutting, IndexedUpTo
  <2>. QED  BY <1>2, <1>4, <1>5, <2>6, <2>8, <2>9, <2>10, InvKept
<1>. QED  BY <1>6, <1>7

LEMMA AdvanceInv ==
    ASSUME Inv, NEW w \in Worker, Advance(w) PROVE Inv'
<1>. DEFINE t == pass[w].at
<1>1. /\ pass \in [Worker -> Pass] /\ pass[w].pc = "advance"
      /\ pass[w].seen \in Block /\ t = lastScanned + 1 /\ t \in Nat
      /\ IndexedUpTo(t) /\ chain \in Chains
      /\ diskCursor \in [height : Nat, hash : Block \cup {NoBlock}]
      /\ lastHash \in Block \cup {NoBlock}
  BY DEF Inv, Shape, PassOK, Advance, At, Scanning
<1>2. indexing /\ \A v \in Worker : v # w => pass[v].pc = "idle"
  BY <1>1, Alone
<1>3. /\ lastScanned' = t
      /\ Step(w, [pass[w] EXCEPT !.pc = "target", !.dirty = FALSE])
      /\ UNCHANGED <<chain, inflight, indexing, chainHeight, index, buffer, file,
                     diskIndex, cache>>
  BY DEF Advance, node, store
<1>4. /\ pass' \in [Worker -> Pass] /\ pass'[w].pc = "target"
      /\ \A v \in Worker : v # w => pass'[v] = pass[v]
  <2>. DEFINE next == [pass[w] EXCEPT !.pc = "target", !.dirty = FALSE]
  <2>1. pass[w] \in Pass /\ "target" \in PC
    BY <1>1 DEF PC
  <2>2. next \in Pass /\ next.pc = "target"
    BY <2>1 DEF Pass
  <2>3. Step(w, next)
    BY <1>3
  <2>. HIDE DEF next
  <2>. QED  BY <1>1, <2>2, <2>3, StepLocals
<1>5. lastScanned' \in Nat
  BY <1>1, <1>3
<1>6. /\ lastHash' \in Block \cup {NoBlock}
      /\ diskCursor' \in [height : Nat, hash : Block \cup {NoBlock}]
  <2>. HIDE DEF t
  <2>1. PICK hash \in HashAnswers(t) :
          /\ lastHash' = IF hash = NoBlock THEN lastHash ELSE hash
          /\ diskCursor' \in Saved([height |-> t, hash |-> hash], diskCursor)
    BY DEF Advance, t
  <2>2. hash \in Block \cup {NoBlock}
    BY <1>1, NodeHashType
  <2>3. diskCursor' = [height |-> t, hash |-> hash] \/ diskCursor' = diskCursor
    BY <2>1 DEF Saved
  <2>. QED  BY <1>1, <2>1, <2>2, <2>3
<1>7. Shape'
  BY <1>3, <1>4, <1>5, <1>6 DEF Inv, Shape
<1>8. /\ PassOK(w)' /\ CacheInv'
      /\ AscendingHeights(index)' /\ IndexedUpTo(lastScanned)'
  BY <1>1, <1>3, <1>4
  DEF Inv, PassOK, Scanning, Cutting, IndexInv, CacheInv, AscendingHeights, IndexedUpTo
<1>. QED  BY <1>2, <1>3, <1>4, <1>5, <1>7, <1>8, InvKept

LEMMA PersistIndexInv ==
    ASSUME Inv, NEW w \in Worker, PersistIndex(w) PROVE Inv'
<1>1. /\ pass \in [Worker -> Pass] /\ pass[w].pc = "exit" /\ pass[w].at \in Nat
      /\ chain \in Chains /\ lastScanned \in Nat /\ "cursor" \in PC
  BY DEF Inv, Shape, PersistIndex, At, Pass, PC
<1>2. \E hash \in Block \cup {NoBlock} : GotoSeeing(w, "cursor", pass[w].at, hash)
  BY <1>1, NodeHashType DEF PersistIndex
<1>3. /\ pass' \in [Worker -> Pass] /\ pass'[w].pc = "cursor"
      /\ \A v \in Worker : v # w => pass'[v] = pass[v]
  BY <1>1, <1>2, GotoSeeingLocals
<1>4. UNCHANGED <<chain, inflight, indexing, chainHeight, lastScanned, lastHash,
                  diskCursor, index, buffer, file, cache>>
  BY DEF PersistIndex, node, cursor
<1>5. diskIndex' \in Seq(IndexEntry)
  BY DEF PersistIndex, Saved, Inv, Shape
<1>6. PassOK(w)' /\ CacheInv' /\ indexing
  BY <1>1, <1>3, <1>4, Alone DEF Inv, CacheInv, PassOK, Scanning, Cutting
<1>. QED
  BY <1>1, <1>3, <1>4, <1>5, <1>6, LocalStepKept DEF Inv, Shape

LEMMA PersistCursorInv ==
    ASSUME Inv, NEW w \in Worker, PersistCursor(w) PROVE Inv'
<1>1. /\ pass \in [Worker -> Pass] /\ pass[w].pc = "cursor"
      /\ pass[w].seen \in Block \cup {NoBlock}
      /\ lastScanned \in Nat /\ "leave" \in PC /\ Goto(w, "leave")
  BY DEF Inv, Shape, PersistCursor, At, Pass, PC
<1>2. /\ pass' \in [Worker -> Pass] /\ pass'[w].pc = "leave"
      /\ \A v \in Worker : v # w => pass'[v] = pass[v]
  BY <1>1, GotoLocals
<1>3. UNCHANGED <<chain, inflight, indexing, chainHeight, lastScanned,
                  index, buffer, file, diskIndex, cache>>
  BY DEF PersistCursor, node, store
<1>4. /\ lastHash' \in Block \cup {NoBlock}
      /\ diskCursor' \in [height : Nat, hash : Block \cup {NoBlock}]
  <2>. DEFINE hash == pass[w].seen
  <2>1. /\ lastHash' = hash
        /\ \/ diskCursor' = [height |-> lastScanned, hash |-> hash]
           \/ diskCursor' = diskCursor
    BY DEF PersistCursor, Saved
  <2>2. hash \in Block \cup {NoBlock}
    BY <1>1
  <2>. HIDE DEF hash
  <2>. QED  BY <1>1, <2>1, <2>2 DEF Inv, Shape
<1>5. PassOK(w)' /\ CacheInv' /\ indexing
  BY <1>1, <1>2, <1>3, Alone DEF Inv, CacheInv, PassOK, Scanning, Cutting
<1>. QED
  BY <1>1, <1>2, <1>3, <1>4, <1>5, LocalStepKept DEF Inv, Shape

\* The node and the proxy touch no pass, no cursor and no index.
LEMMA BackgroundKept ==
    ASSUME Inv, Shape', CacheInv',
           UNCHANGED <<indexing, pass, lastScanned, index>>
    PROVE  Inv'
<1>1. GateInv' /\ IndexInv'
  BY DEF Inv, GateInv, IndexInv, AscendingHeights, IndexedUpTo, Somewhere
<1>2. \A w \in Worker : PassOK(w)'
  BY DEF Inv, PassOK, IndexedUpTo
<1>. QED  BY <1>1, <1>2 DEF Inv

LEMMA BackgroundInv ==
    ASSUME Inv, NodeStep \/ ProxyFetch \/ ProxyInsert PROVE Inv'
<1>1. CASE NodeStep
  <2>1. Shape' /\ CacheInv'
    BY <1>1 DEF NodeStep, Inv, Shape, CacheInv, cursor, store
  <2>. QED  BY <1>1, <2>1, BackgroundKept DEF NodeStep, cursor, store
<1>2. CASE ProxyFetch
  <2>1. inflight' \in Block \X Verbosity
    BY <1>2, IndexerAssumption, ChainAssumption DEF ProxyFetch, Inv, Shape
  <2>2. Shape' /\ CacheInv'
    BY <1>2, <2>1 DEF ProxyFetch, Inv, Shape, CacheInv, cursor, store
  <2>. QED  BY <1>2, <2>2, BackgroundKept DEF ProxyFetch, cursor, store
<1>3. CASE ProxyInsert
  <2>1. inflight[1] \in Block /\ inflight[2] \in Verbosity /\ cache \in CacheType
    BY <1>3 DEF ProxyInsert, Inv, Shape
  <2>2. cache' \in CacheType /\ CacheInv'
    BY <1>3, <2>1, InsertType, InsertFiles DEF ProxyInsert, Inv, CacheInv
  <2>3. Shape'
    BY <1>3, <2>2 DEF ProxyInsert, Inv, Shape, cursor, store
  <2>. QED  BY <1>3, <2>2, <2>3, BackgroundKept DEF ProxyInsert, cursor, store
<1>. QED  BY <1>1, <1>2, <1>3

----------------------------------------------------------------------------
(* The theorems.                                                           *)

LEMMA NextInv == Inv /\ [Next]_vars => Inv'
<1>. SUFFICES ASSUME Inv, [Next]_vars PROVE Inv'
  OBVIOUS
<1>1. ASSUME NEW w \in Worker, Enter(w) \/ PassStep(w) PROVE Inv'
  BY <1>1, EnterInv, CountInv, LeaveInv, ProbeInv, DetectInv, FindForkInv,
     InvalidateInv, TruncateInv, SaveTrimmedIndexInv, RewindInv, TargetInv,
     FetchInv, CachePutInv, AdvanceEmptyInv, AppendFileInv, ExtendBufferInv,
     AddIndexInv, AdvanceInv, PersistIndexInv, PersistCursorInv
  DEF PassStep
<1>2. CASE UNCHANGED vars
  <2>1. Shape' /\ CacheInv'
    BY <1>2 DEF vars, Inv, Shape, CacheInv
  <2>. QED  BY <1>2, <2>1, BackgroundKept DEF vars
<1>. QED  BY <1>1, <1>2, BackgroundInv DEF Next

\* The inductive invariant, of every behaviour.
LEMMA Invariance == Spec => []Inv
BY InitInv, NextInv, PTL DEF Spec

\* The history is one block for each height up to the cursor.
Traced == scanned \in Seq(Block) /\ Len(scanned) = lastScanned

LEMMA TracedNext ==
    ASSUME Inv, Traced, [Next]_vars PROVE Traced'
<1>1. CASE UNCHANGED <<scanned, lastScanned>>
  BY <1>1 DEF Traced
<1>2. ASSUME NEW w \in Worker, AdvanceEmpty(w) \/ Advance(w)
      PROVE  Traced'
  <2>1. pass[w].seen \in Block /\ pass[w].at = lastScanned + 1 /\ lastScanned \in Nat
    BY <1>2 DEF Inv, Shape, PassOK, AdvanceEmpty, Advance, At, Scanning
  <2>2. scanned' = Append(scanned, pass[w].seen) /\ lastScanned' = pass[w].at
    BY <1>2 DEF AdvanceEmpty, Advance
  <2>. QED  BY <2>1, <2>2, AppendProperties DEF Traced
<1>3. ASSUME NEW w \in Worker, Truncate(w) \/ Rewind(w),
             ~UNCHANGED <<scanned, lastScanned>>
      PROVE  Traced'
  <2>. DEFINE n == pass[w].at - 1
  <2>1. n \in Nat /\ n <= Len(scanned)
    BY <1>3 DEF Inv, Shape, Pass, PassOK, Truncate, Rewind, At, Cutting, Traced
  <2>2. scanned' = SubSeq(scanned, 1, n) /\ lastScanned' = n
    BY <1>3 DEF Truncate, Rewind
  <2>. HIDE DEF n
  <2>. QED  BY <2>1, <2>2, PrefixType DEF Traced
<1>4. \/ \E w \in Worker : AdvanceEmpty(w) \/ Advance(w) \/ Truncate(w) \/ Rewind(w)
      \/ UNCHANGED <<scanned, lastScanned>>
  <2>1. ASSUME NEW w \in Worker, Enter(w) \/ PassStep(w)
        PROVE  \/ AdvanceEmpty(w) \/ Advance(w) \/ Truncate(w) \/ Rewind(w)
               \/ UNCHANGED <<scanned, lastScanned>>
    BY <2>1 DEF PassStep, Enter, Count, Probe, Detect, FindFork, Invalidate,
         SaveTrimmedIndex, Target, Fetch, CachePut, AppendFile, ExtendBuffer,
         AddIndex, PersistIndex, PersistCursor, Leave, cursor
  <2>2. NodeStep \/ ProxyFetch \/ ProxyInsert => UNCHANGED <<scanned, lastScanned>>
    BY DEF NodeStep, ProxyFetch, ProxyInsert, cursor
  <2>3. UNCHANGED vars => UNCHANGED <<scanned, lastScanned>>
    BY DEF vars
  <2>. QED  BY <2>1, <2>2, <2>3 DEF Next
<1>. QED  BY <1>1, <1>2, <1>3, <1>4

LEMMA TracedInit == Init => Traced
BY IndexerAssumption, ChainAssumption DEF Init, Traced

LEMMA TracedInvariance == Spec => [](Inv /\ Traced)
<1>1. Inv /\ Traced /\ [Next]_vars => Traced'
  BY TracedNext
<1>. QED  BY <1>1, TracedInit, Invariance, PTL DEF Spec

\* Whatever the blocks, chains, tasks and faults, the state of the indexer
\* keeps its types: no pass cuts the index, the buffer or the scanned
\* sequence beyond its end, and none indexes a block at a failed offset.
THEOREM TypeCorrect == Spec => []TypeOK
<1>1. Inv /\ Traced => TypeOK
  BY DEF Inv, Shape, Traced, TypeOK
<1>. QED  BY <1>1, TracedInvariance, PTL

\* The gate of issue 1: no two tasks are ever inside a pass together.
THEOREM OnePassAtATime ==
    Spec => [](\A v, w \in Worker :
                 pass[v].pc # "idle" /\ pass[w].pc # "idle" => v = w)
<1>1. Inv => \A v, w \in Worker :
               pass[v].pc # "idle" /\ pass[w].pc # "idle" => v = w
  BY DEF Inv, GateInv
<1>. QED  BY <1>1, Invariance, PTL

\* The index is in ascending order of height and names no height twice,
\* which partition_point in offset_for_height takes for granted.
THEOREM IndexAscends == Spec => []AscendingHeights(index)
<1>1. Inv => AscendingHeights(index)
  BY DEF Inv, IndexInv
<1>. QED  BY <1>1, Invariance, PTL

----------------------------------------------------------------------------
(* insert's eviction loop in src/block_cache.rs ends, for every capacity,  *)
(* every chain and every order of scans, invalidations and proxy answers,  *)
(* as long as the proxy is asked for no verbosity above 2.                 *)

\* What evict_lowest cannot reach: entries whose hash no height maps to.
Unreachable(c) == Forget(c, Heights).entries

\* They never fill the cache, since the entry inserted last was reachable.
HasRoom(c) ==
    /\ IsFiniteSet(c.entries)
    /\ Cardinality(Unreachable(c)) < Capacity

EvictInv ==
    /\ HasRoom(cache)
    /\ inflight # NoRequest => inflight[2] \in 0..2

LEMMA ForgetKeepsFinite ==
    ASSUME NEW c \in CacheType, NEW H, IsFiniteSet(c.entries)
    PROVE  IsFiniteSet(Forget(c, H).entries)
<1>1. Forget(c, H).entries \in SUBSET c.entries
  BY DEF Forget
<1>. QED  BY <1>1, FS_Subset

\* With room left once every height is forgotten, the loop ends.
LEMMA RoomSuffices ==
    ASSUME NEW c \in CacheType, HasRoom(c)
    PROVE  RoomToMake(c)
<1>1. MaxHeight \in 0..MaxHeight
  BY ChainAssumption
<1>2. RoomAbove(c, MaxHeight)
  BY DEF HasRoom, Unreachable, RoomAbove, Heights
<1>. QED  BY <1>1, <1>2 DEF RoomToMake

\* Forgetting some heights leaves nothing behind that forgetting all would not.
LEMMA ForgetRoom ==
    ASSUME NEW c \in CacheType, NEW H, HasRoom(c)
    PROVE  HasRoom(Forget(c, H))
<1>1. Unreachable(Forget(c, H)) \in SUBSET Unreachable(c)
  BY ChainAssumption DEF Unreachable, Forget, CacheType
<1>2. IsFiniteSet(Unreachable(c)) /\ IsFiniteSet(Forget(c, H).entries)
  BY ForgetKeepsFinite DEF HasRoom, Unreachable
<1>3. /\ IsFiniteSet(Unreachable(Forget(c, H)))
      /\ Cardinality(Unreachable(Forget(c, H))) <= Cardinality(Unreachable(c))
  BY <1>1, <1>2, FS_Subset
<1>4. /\ Cardinality(Unreachable(c)) \in Nat
      /\ Cardinality(Unreachable(Forget(c, H))) \in Nat
  BY <1>2, <1>3, FS_CardinalityType
<1>. QED  BY <1>2, <1>3, <1>4, CapacityAssumption DEF HasRoom

\* The least number of evictions that makes room, when some number does.
LEMMA LeastRoom ==
    ASSUME NEW c, RoomToMake(c)
    PROVE  \E t \in 0..MaxHeight :
             RoomAbove(c, t) /\ \A s \in 0..(t - 1) : ~RoomAbove(c, s)
<1>. DEFINE S == {t \in 0..MaxHeight : RoomAbove(c, t)}
<1>1. S \in SUBSET Nat /\ S # {}
  BY ChainAssumption DEF RoomToMake
<1>2. PICK t \in S : \A s \in S : <<s, t>> \notin OpToRel(<, Nat)
  BY <1>1, NatLessThanWellFounded, WFMin
<1>3. ASSUME NEW s \in 0..(t - 1), RoomAbove(c, s)
      PROVE  FALSE
  <2>1. s \in S /\ s \in Nat /\ t \in Nat /\ s < t
    BY <1>3, ChainAssumption
  <2>2. <<s, t>> \in OpToRel(<, Nat)
    BY <2>1 DEF OpToRel
  <2>. QED  BY <1>2, <2>1, <2>2
<1>. QED  BY <1>2, <1>3

\* After an insert, all that is unreachable was there when room had been made.
LEMMA InsertRoom ==
    ASSUME NEW c \in CacheType, NEW b \in Block, NEW v \in 0..2, HasRoom(c)
    PROVE  HasRoom(Insert(c, b, v))
<1>1. CASE <<b, v>> \in c.entries
  BY <1>1 DEF Insert
<1>2. CASE <<b, v>> \notin c.entries
  <2>. DEFINE room == Evict(c)
              new  == Insert(c, b, v)
  <2>1. PICK t \in 0..MaxHeight : room = Forget(c, 1..t) /\ RoomAbove(c, t)
    <3>1. \E t \in 0..MaxHeight :
            RoomAbove(c, t) /\ \A s \in 0..(t - 1) : ~RoomAbove(c, s)
      <4>1. \E n \in 0..MaxHeight : RoomAbove(c, n)
        BY RoomSuffices DEF RoomToMake
      <4>. QED  BY <4>1, LeastRoom DEF RoomToMake
    <3>. QED  BY <3>1 DEF Evict
  <2>2. room \in CacheType /\ IsFiniteSet(room.entries)
    BY <2>1, ForgetType, ForgetKeepsFinite DEF HasRoom
  <2>3. Cardinality(room.entries) < Capacity
    BY <2>1 DEF RoomAbove
  <2>4. HeightOf[b] \in Heights /\ b # NoBlock
    BY ChainAssumption
  <2>5. /\ new.h2h[HeightOf[b]] = b
        /\ new.entries = room.entries \cup {<<b, v>>}
    BY <1>2, <2>2, <2>4 DEF Insert, CacheType
  <2>6. Unreachable(new) \in SUBSET room.entries
    BY <2>4, <2>5 DEF Unreachable, Forget
  <2>7. IsFiniteSet(new.entries)
    BY <2>2, <2>5, FS_AddElement
  <2>8. /\ IsFiniteSet(Unreachable(new))
        /\ Cardinality(Unreachable(new)) <= Cardinality(room.entries)
    BY <2>2, <2>6, FS_Subset
  <2>9. Cardinality(Unreachable(new)) \in Nat /\ Cardinality(room.entries) \in Nat
    BY <2>2, <2>8, FS_CardinalityType
  <2>. QED  BY <2>3, <2>7, <2>8, <2>9, CapacityAssumption DEF HasRoom
<1>. QED  BY <1>1, <1>2

LEMMA EvictInit == Init => EvictInv
<1>. SUFFICES ASSUME Init PROVE EvictInv
  OBVIOUS
<1>. DEFINE n == Len(InitChain)
            f == [h \in 1..n |-> <<InitChain[h], 2>>]
<1>1. /\ n \in Nat /\ 1..n \subseteq Heights
      /\ \A h \in 1..n : InitChain[h] \in Block
  BY IndexerAssumption, ChainAssumption DEF Heights
<1>2. cache.entries = {<<InitChain[h], 2>> : h \in 1..n}
  BY DEF Init
<1>3. IsFiniteSet(cache.entries)
  <2>1. f \in Surjection(1..n, cache.entries)
    BY <1>2 DEF Surjection
  <2>2. IsFiniteSet(1..n)
    BY <1>1, FS_Interval
  <2>. QED  BY <2>1, <2>2, FS_Surjection
<1>4. Unreachable(cache) = {}
  BY <1>1, <1>2 DEF Unreachable, Forget, Init
<1>5. Cardinality({}) = 0
  BY FS_EmptySet
<1>6. HasRoom(cache)
  BY <1>3, <1>4, <1>5, CapacityAssumption DEF HasRoom
<1>. QED  BY <1>6 DEF EvictInv, Init

LEMMA EvictStep ==
    ASSUME Inv, EvictInv, [Next]_vars, ProxyVerbosity \subseteq 0..2
    PROVE  EvictInv'
<1>. cache \in CacheType
  BY DEF Inv, Shape
<1>1. CASE \E w \in Worker : Invalidate(w)
  <2>1. PICK w \in Worker : Invalidate(w)
    BY <1>1
  <2>2. HasRoom(cache')
    BY <2>1, ForgetRoom DEF Invalidate, InvalidateFrom, EvictInv
  <2>. QED  BY <2>1, <2>2 DEF EvictInv, Invalidate, node, HasRoom, Unreachable
<1>2. CASE \E w \in Worker : CachePut(w)
  <2>1. PICK w \in Worker : CachePut(w)
    BY <1>2
  <2>2. pass[w].seen \in Block
    BY <2>1 DEF Inv, PassOK, CachePut, At, Scanning
  <2>3. HasRoom(cache')
    BY <2>1, <2>2, InsertRoom DEF CachePut, EvictInv
  <2>. QED  BY <2>1, <2>3 DEF EvictInv, CachePut, node, HasRoom, Unreachable
<1>3. CASE ProxyInsert
  <2>1. inflight[1] \in Block /\ inflight[2] \in 0..2
    BY <1>3 DEF ProxyInsert, Inv, Shape, EvictInv
  <2>2. HasRoom(cache')
    BY <1>3, <2>1, InsertRoom DEF ProxyInsert, EvictInv
  <2>. QED  BY <1>3, <2>2 DEF EvictInv, ProxyInsert, HasRoom, Unreachable
<1>4. CASE ProxyFetch
  <2>1. inflight'[2] \in 0..2 /\ cache' = cache
    BY <1>4 DEF ProxyFetch
  <2>. QED  BY <2>1 DEF EvictInv, HasRoom, Unreachable
<1>5. CASE UNCHANGED <<cache, inflight>>
  BY <1>5 DEF EvictInv, HasRoom, Unreachable
<1>6. \/ \E w \in Worker : Invalidate(w) \/ CachePut(w)
      \/ ProxyInsert \/ ProxyFetch
      \/ UNCHANGED <<cache, inflight>>
  <2>1. ASSUME NEW w \in Worker, Enter(w) \/ PassStep(w)
        PROVE  Invalidate(w) \/ CachePut(w) \/ UNCHANGED <<cache, inflight>>
    BY <2>1 DEF PassStep, Enter, Count, Probe, Detect, FindFork, Truncate,
         SaveTrimmedIndex, Rewind, Target, Fetch, AdvanceEmpty, AppendFile,
         ExtendBuffer, AddIndex, Advance, PersistIndex, PersistCursor, Leave,
         node
  <2>2. NodeStep => UNCHANGED <<cache, inflight>>
    BY DEF NodeStep
  <2>3. UNCHANGED vars => UNCHANGED <<cache, inflight>>
    BY DEF vars
  <2>. QED  BY <2>1, <2>2, <2>3 DEF Next
<1>. QED  BY <1>1, <1>2, <1>3, <1>4, <1>5, <1>6

\* insert always returns, and with it the write lock of the cache: at every
\* step of every pass a full cache has a mapped height to evict.
THEOREM EvictionTerminates ==
    ASSUME ProxyVerbosity \subseteq 0..2
    PROVE  Spec => []EvictionEnds
<1>1. Init => EvictInv
  BY EvictInit
<1>2. Inv /\ EvictInv /\ [Next]_vars => EvictInv'
  BY EvictStep
<1>3. Inv /\ EvictInv => EvictionEnds
  BY RoomSuffices DEF Inv, Shape, EvictInv, EvictionEnds
<1>. QED  BY <1>1, <1>2, <1>3, Invariance, PTL DEF Spec

----------------------------------------------------------------------------
(* The reorg detection with a node that answers and reorganises between     *)
(* passes only: it misses no reorganisation, find_fork_point goes low       *)
(* enough, and what is scanned is one chain, the node's.                    *)

\* Two chains part less than SEARCH_DEPTH blocks below the shorter one's tip.
ForksInReach ==
    \A c, d \in Chains : \A h \in 1..Len(c) :
      /\ h <= Len(d)
      /\ h + SearchDepth <= Len(c) + 1 /\ h + SearchDepth <= Len(d) + 1
      => c[h] = d[h]

\* Each of these is needed: with any one of them dropped TLC finds an orphan
\* that stays scanned.  A save that fails does no harm.
QuietNode ==
    /\ RpcMayFail = FALSE /\ MidPassReorg = FALSE
    /\ ProxyVerbosity = {} /\ DiskFaults \subseteq {"save"}
    /\ ForksInReach

----------------------------------------------------------------------------
(* The inductive invariant.                                                *)

Behind == {"fork", "target"} \cup Cutting \cup Scanning
Stored == {"decoded", "extend", "add", "advance"}

\* Up to n, what is scanned is the node's.
OnNode(n) == n <= Len(chain) /\ \A h \in 1..n : scanned[h] = chain[h]

\* The cache knows the block scanned last, by which a reorg is noticed.
LastCached == lastScanned > 0 => cache.h2h[lastScanned] = scanned[lastScanned]

\* The height map names what was scanned at a height or nothing; above the
\* cursor only the block being scanned has an entry.
CacheFollows ==
    /\ \A e \in cache.entries : e[2] = 2 /\ cache.h2h[HeightOf[e[1]]] = e[1]
    /\ \A h \in 1..lastScanned : cache.h2h[h] \in {NoBlock, scanned[h]}
    /\ \A h \in Heights : h > lastScanned =>
         \/ cache.h2h[h] = NoBlock
         \/ \E w \in Worker : pass[w].pc \in Stored /\ pass[w].at = h

\* The locals of w's pass, the chain, the cursor and the cache.
QuietPass(w) ==
    /\ pass[w].pc \in {"probe", "detect"} \cup Behind => chainHeight = Len(chain)
    /\ pass[w].pc \in {"probe", "detect", "fork"} \cup Cutting =>
         lastScanned < Len(chain)
    /\ pass[w].pc = "detect" => pass[w].seen = NodeHash(lastScanned)
    /\ pass[w].pc \in Cutting => OnNode(pass[w].at - 1)
    /\ pass[w].pc \in Cutting \ {"invalidate"} =>
         \A h \in Heights : h >= pass[w].at => cache.h2h[h] = NoBlock
    /\ pass[w].pc \in {"target"} \cup Scanning => OnNode(lastScanned)
    /\ pass[w].pc = "target" => lastScanned < chainHeight \/ LastCached
    /\ pass[w].pc \in Scanning =>
         pass[w].at <= Len(chain) /\ pass[w].seen = chain[pass[w].at]
    /\ pass[w].pc \in Stored => cache.h2h[pass[w].at] = pass[w].seen
    /\ pass[w].pc \in {"extend", "add"} => pass[w].off # NoOffset

QuietInv ==
    /\ inflight = NoRequest
    /\ OnOneChain(scanned)
    /\ CacheFollows
    /\ Somewhere(Behind) \/ LastCached
    /\ \A w \in Worker : QuietPass(w)

----------------------------------------------------------------------------
(* What the invariant gives a step.                                        *)

\* The ranges of the cursor and of the chains.
LEMMA QuietRanges ==
    ASSUME Inv, Traced, QuietInv
    PROVE  /\ lastScanned \in Nat /\ Len(scanned) = lastScanned
           /\ lastScanned <= MaxHeight /\ MaxHeight \in Nat
           /\ scanned \in Seq(Block)
           /\ \A h \in 1..lastScanned : scanned[h] \in Block /\ scanned[h] # NoBlock
           /\ chain \in Chains /\ chain \in Seq(Block)
           /\ Len(chain) \in Nat /\ Len(chain) <= MaxHeight
           /\ \A h \in 1..Len(chain) :
                chain[h] \in Block /\ chain[h] # NoBlock /\ HeightOf[chain[h]] = h
<1>1. PICK c \in Chains : Len(scanned) <= Len(c)
  BY DEF QuietInv, OnOneChain
<1>2. /\ c \in Seq(Block) /\ Len(c) <= MaxHeight /\ MaxHeight \in Nat
      /\ chain \in Chains /\ chain \in Seq(Block) /\ Len(chain) <= MaxHeight
      /\ \A h \in 1..Len(chain) : HeightOf[chain[h]] = h
  BY ChainAssumption DEF Inv, Shape
<1>3. scanned \in Seq(Block) /\ lastScanned \in Nat /\ Len(scanned) = lastScanned
  BY DEF Inv, Shape, Traced
<1>4. Len(c) \in Nat /\ Len(chain) \in Nat
  BY <1>2, LenProperties
<1>5. /\ \A h \in 1..lastScanned : scanned[h] \in Block
      /\ \A h \in 1..Len(chain) : chain[h] \in Block
  BY <1>2, <1>3, ElementOfSeq
<1>6. lastScanned <= MaxHeight
  BY <1>1, <1>2, <1>3, <1>4
<1>. QED  BY <1>2, <1>3, <1>4, <1>5, <1>6, ChainAssumption

\* A hash commits to its ancestors: where what is scanned meets the node's
\* chain, it is the node's all the way down.
LEMMA SharedBelow ==
    ASSUME Inv, Traced, QuietInv,
           NEW n \in Nat, n <= lastScanned, n <= Len(chain),
           n > 0 => scanned[n] = chain[n]
    PROVE  OnNode(n)
<1>1. PICK c \in Chains :
        Len(scanned) <= Len(c) /\ \A h \in 1..Len(scanned) : scanned[h] = c[h]
  BY DEF QuietInv, OnOneChain
<1>2. CASE n = 0
  BY <1>2, QuietRanges DEF OnNode
<1>3. CASE n > 0
  <2>1. Len(c) \in Nat /\ chain \in Chains
    BY <1>1, QuietRanges, ChainAssumption, LenProperties
  <2>2. n \in 1..Len(c) /\ n <= Len(chain) /\ c[n] = chain[n]
    BY <1>1, <1>3, <2>1, QuietRanges
  <2>3. \A g \in 1..n : c[g] = chain[g]
    BY <1>1, <2>1, <2>2, ChainAssumption
  <2>4. \A g \in 1..n : g \in 1..Len(scanned)
    BY QuietRanges
  <2>. QED  BY <1>1, <2>3, <2>4 DEF OnNode
<1>. QED  BY <1>2, <1>3

\* The beginning of what is scanned is the beginning of the same chain.
LEMMA PrefixOnOneChain ==
    ASSUME Inv, Traced, QuietInv, NEW n \in Nat, n <= lastScanned
    PROVE  /\ OnOneChain(SubSeq(scanned, 1, n))
           /\ \A h \in 1..n : SubSeq(scanned, 1, n)[h] = scanned[h]
<1>1. PICK c \in Chains :
        Len(scanned) <= Len(c) /\ \A h \in 1..Len(scanned) : scanned[h] = c[h]
  BY DEF QuietInv, OnOneChain
<1>2. Len(c) \in Nat /\ scanned \in Seq(Block) /\ Len(scanned) = lastScanned
      /\ lastScanned \in Nat
  BY <1>1, QuietRanges, ChainAssumption, LenProperties
<1>3. /\ Len(SubSeq(scanned, 1, n)) = n
      /\ \A h \in 1..n : SubSeq(scanned, 1, n)[h] = scanned[h]
  BY <1>2, SubSeqProperties
<1>. QED  BY <1>1, <1>2, <1>3 DEF OnOneChain

\* When only w moves, and neither chain, cursor nor cache changes, only w's
\* locals are in question.
LEMMA QuietKept ==
    ASSUME Inv, Traced, QuietInv, NEW w \in Worker,
           \A v \in Worker : v # w => pass[v].pc = "idle" /\ pass'[v] = pass[v],
           UNCHANGED <<inflight, chain, lastScanned, scanned, cache>>,
           pass[w].pc \in Stored =>
             pass'[w].pc \in Stored /\ pass'[w].at = pass[w].at,
           pass'[w].pc \in Behind \/ LastCached,
           QuietPass(w)'
    PROVE  QuietInv'
<1>1. \A v \in Worker : QuietPass(v)'
  <2>1. ASSUME NEW v \in Worker, v # w PROVE QuietPass(v)'
    BY <2>1 DEF QuietPass, Behind, Cutting, Scanning, Stored
  <2>. QED  BY <2>1
<1>2. CacheFollows'
  <2>1. ASSUME NEW h \in Heights, h > lastScanned, cache.h2h[h] # NoBlock
        PROVE  \E v \in Worker : pass'[v].pc \in Stored /\ pass'[v].at = h
    <3>1. PICK v \in Worker : pass[v].pc \in Stored /\ pass[v].at = h
      BY <2>1 DEF QuietInv, CacheFollows
    <3>2. v = w
      BY <3>1 DEF Stored
    <3>. QED  BY <3>1, <3>2
  <2>. QED  BY <2>1 DEF QuietInv, CacheFollows
<1>3. (Somewhere(Behind) \/ LastCached)'
  BY DEF Somewhere, LastCached
<1>4. inflight' = NoRequest /\ OnOneChain(scanned)'
  BY DEF QuietInv, OnOneChain
<1>. QED  BY <1>1, <1>2, <1>3, <1>4 DEF QuietInv

\* Initially everything is scanned, cached and the node's.
LEMMA QuietInit == Init => QuietInv
<1>. SUFFICES ASSUME Init PROVE QuietInv
  OBVIOUS
<1>1. /\ InitChain \in Chains /\ InitChain \in Seq(Block) /\ Len(InitChain) \in Nat
      /\ Len(InitChain) <= MaxHeight /\ MaxHeight \in Nat
      /\ \A h \in 1..Len(InitChain) :
           InitChain[h] \in Block /\ HeightOf[InitChain[h]] = h
  BY IndexerAssumption, ChainAssumption
<1>2. OnOneChain(scanned)
  BY <1>1 DEF Init, OnOneChain
<1>3. \A h \in 1..Len(InitChain) : h \in Heights /\ cache.h2h[h] = InitChain[h]
  BY <1>1 DEF Init, Heights
<1>4. \A h \in Heights : h > Len(InitChain) => cache.h2h[h] = NoBlock
  BY <1>1 DEF Init, Heights
<1>5. CacheFollows
  <2>1. lastScanned = Len(InitChain) /\ scanned = InitChain
    BY DEF Init
  <2>2. ASSUME NEW e \in cache.entries
        PROVE  e[2] = 2 /\ cache.h2h[HeightOf[e[1]]] = e[1]
    <3>1. PICK h \in 1..Len(InitChain) : e = <<InitChain[h], 2>>
      BY DEF Init
    <3>. QED  BY <3>1, <1>1, <1>3
  <2>. QED  BY <2>1, <2>2, <1>3, <1>4 DEF CacheFollows
<1>6. LastCached
  BY <1>1, <1>3 DEF Init, LastCached
<1>7. \A w \in Worker : QuietPass(w)
  BY DEF Init, IdlePass, QuietPass, Behind, Cutting, Scanning, Stored
<1>. QED  BY <1>2, <1>5, <1>6, <1>7 DEF Init, QuietInv

----------------------------------------------------------------------------
(* The steps up to the end of the fork search.                             *)

LEMMA EnterQuiet ==
    ASSUME Inv, Traced, QuietInv, NEW w \in Worker, Enter(w) PROVE QuietInv'
<1>1. pass \in [Worker -> Pass] /\ Goto(w, "count") /\ "count" \in PC
  BY DEF Inv, Shape, Enter, PC
<1>2. pass'[w].pc = "count" /\ \A v \in Worker : v # w => pass'[v] = pass[v]
  BY <1>1, GotoLocals
<1>3. \A v \in Worker : pass[v].pc = "idle"
  BY DEF Enter, Inv, GateInv
<1>4. UNCHANGED <<inflight, chain, lastScanned, scanned, cache>>
  BY DEF Enter, node, cursor
<1>5. LastCached
  BY <1>3 DEF QuietInv, Somewhere, Behind, Cutting, Scanning
<1>6. QuietPass(w)'
  BY <1>2 DEF QuietPass, Behind, Cutting, Scanning, Stored
<1>7. pass[w].pc \notin Stored
  BY <1>3 DEF Stored
<1>. QED  BY <1>2, <1>3, <1>4, <1>5, <1>6, <1>7, QuietKept

\* Outside the labels of Behind the pass still knows the last block.
LEMMA CachedOutside ==
    ASSUME Inv, Traced, QuietInv, NEW w \in Worker, pass[w].pc # "idle",
           pass[w].pc \notin Behind
    PROVE  LastCached
<1>1. \A v \in Worker : v # w => pass[v].pc = "idle"
  BY Alone
<1>2. "idle" \notin Behind
  BY DEF Behind, Cutting, Scanning
<1>. QED  BY <1>1, <1>2 DEF QuietInv, Somewhere

LEMMA CountQuiet ==
    ASSUME QuietNode, Inv, Traced, QuietInv, NEW w \in Worker, Count(w) PROVE QuietInv'
<1>1. /\ pass \in [Worker -> Pass] /\ lastScanned \in Nat /\ lastScanned + 1 \in Nat
      /\ Len(chain) \in Nat /\ "leave" \in PC /\ "probe" \in PC
  BY QuietRanges DEF Inv, Shape, PC
<1>2. pass[w].pc = "count"
  BY DEF Count, At
<1>3. \/ Goto(w, "leave")
      \/ /\ GotoAt(w, "probe", lastScanned + 1)
         /\ chainHeight' = Len(chain) /\ lastScanned + 1 <= Len(chain)
  BY <1>1 DEF Count
<1>4. /\ \A v \in Worker : v # w => pass'[v] = pass[v]
      /\ \/ pass'[w].pc = "leave"
         \/ /\ pass'[w].pc = "probe"
            /\ chainHeight' = Len(chain) /\ lastScanned + 1 <= Len(chain)
  BY <1>1, <1>3, GotoLocals, GotoAtLocals
<1>5. UNCHANGED <<inflight, chain, lastScanned, scanned, cache>>
  BY DEF Count, node, cursor
<1>6. LastCached
  BY <1>2, CachedOutside DEF Behind, Cutting, Scanning
<1>7. \A v \in Worker : v # w => pass[v].pc = "idle"
  BY <1>2, Alone
<1>8. QuietPass(w)'
  BY <1>1, <1>4, <1>5 DEF QuietPass, Behind, Cutting, Scanning, Stored
<1>9. pass[w].pc \notin Stored
  BY <1>2 DEF Stored
<1>. QED  BY <1>4, <1>5, <1>6, <1>7, <1>8, <1>9, QuietKept

LEMMA LeaveQuiet ==
    ASSUME Inv, Traced, QuietInv, NEW w \in Worker, Leave(w) PROVE QuietInv'
<1>1. IdlePass \in Pass /\ IdlePass.pc = "idle"
  BY DEF Pass, PC, IdlePass
<1>2. pass \in [Worker -> Pass] /\ Step(w, IdlePass)
  BY DEF Leave, Inv, Shape
<1>3. pass'[w].pc = "idle" /\ \A v \in Worker : v # w => pass'[v] = pass[v]
  BY <1>1, <1>2, StepLocals
<1>4. pass[w].pc \in {"leave", "exit"}
  BY DEF Leave, At
<1>5. UNCHANGED <<inflight, chain, lastScanned, scanned, cache>>
  BY DEF Leave, node, cursor
<1>6. LastCached
  BY <1>4, CachedOutside DEF Behind, Cutting, Scanning
<1>7. \A v \in Worker : v # w => pass[v].pc = "idle"
  BY <1>4, Alone
<1>8. QuietPass(w)'
  BY <1>3 DEF QuietPass, Behind, Cutting, Scanning, Stored
<1>9. pass[w].pc \notin Stored
  BY <1>4 DEF Stored
<1>. QED  BY <1>3, <1>5, <1>6, <1>7, <1>8, <1>9, QuietKept

\* The node answers for each height of its chain, so the detection is done.
LEMMA AnswersSure ==
    ASSUME QuietNode, Inv, Traced, QuietInv, NEW h \in 1..Len(chain)
    PROVE  HashAnswers(h) = {chain[h]} /\ chain[h] # NoBlock /\ NodeHash(h) = chain[h]
BY QuietRanges DEF QuietNode, HashAnswers, NodeHash

LEMMA ProbeQuiet ==
    ASSUME QuietNode, Inv, Traced, QuietInv, NEW w \in Worker, Probe(w) PROVE QuietInv'
<1>. DEFINE prev == NodeHash(pass[w].at - 1)
<1>1. /\ pass \in [Worker -> Pass] /\ pass[w].at \in Nat
      /\ chain \in Chains /\ "detect" \in PC /\ pass[w].pc = "probe"
      /\ pass[w].at = lastScanned + 1
  BY DEF Inv, Shape, PassOK, Probe, At, Pass, PC
<1>2. /\ chainHeight = Len(chain) /\ lastScanned < Len(chain)
      /\ lastScanned \in Nat /\ Len(chain) \in Nat
  BY <1>1, QuietRanges DEF QuietInv, QuietPass
<1>3. prev \in Block \cup {NoBlock}
  BY <1>1, NodeHashType
<1>4. prev = NodeHash(lastScanned)
  <2>1. pass[w].at - 1 = lastScanned
    BY <1>1, <1>2
  <2>. QED  BY <2>1
<1>5. HashAnswers(pass[w].at) = {chain[pass[w].at]} /\ chain[pass[w].at] # NoBlock
  BY <1>1, <1>2, AnswersSure
<1>6. GotoSeeing(w, "detect", pass[w].at, prev)
  BY <1>5 DEF Probe
<1>. HIDE DEF prev
<1>7. /\ pass'[w].pc = "detect" /\ pass'[w].seen = prev
      /\ \A v \in Worker : v # w => pass'[v] = pass[v]
  BY <1>1, <1>3, <1>6, GotoSeeingLocals
<1>8. UNCHANGED <<inflight, chain, lastScanned, scanned, cache, chainHeight>>
  BY DEF Probe, node, cursor
<1>9. LastCached
  BY <1>1, CachedOutside DEF Behind, Cutting, Scanning
<1>10. \A v \in Worker : v # w => pass[v].pc = "idle"
  BY <1>1, Alone
<1>11. QuietPass(w)'
  BY <1>2, <1>4, <1>7, <1>8
  DEF QuietPass, Behind, Cutting, Scanning, Stored, NodeHash
<1>12. pass[w].pc \notin Stored
  BY <1>1 DEF Stored
<1>. QED  BY <1>7, <1>8, <1>9, <1>10, <1>11, <1>12, QuietKept

\* A detection that lets the pass go on has seen the block scanned last.
LEMMA DetectSound ==
    ASSUME QuietNode, Inv, Traced, QuietInv, NEW w \in Worker, At(w, "detect"),
           ~DetectReorg(cache, pass[w].at, pass[w].seen), lastScanned > 0
    PROVE  /\ scanned[lastScanned] = pass[w].seen
           /\ scanned[lastScanned] = chain[lastScanned]
<1>1. /\ pass[w].pc = "detect" /\ pass[w].at = lastScanned + 1
      /\ pass[w].seen = NodeHash(lastScanned) /\ lastScanned < Len(chain)
  BY DEF At, Inv, PassOK, QuietInv, QuietPass
<1>2. /\ lastScanned \in 1..lastScanned /\ lastScanned \in 1..Len(chain)
      /\ pass[w].at - 1 = lastScanned /\ lastScanned \in Heights
  BY <1>1, QuietRanges DEF Heights
<1>3. LastCached
  BY <1>1, CachedOutside DEF Behind, Cutting, Scanning
<1>4. HashForHeight(cache, pass[w].at - 1) = scanned[lastScanned]
  BY <1>2, <1>3 DEF HashForHeight, LastCached
<1>5. scanned[lastScanned] # NoBlock
  BY <1>2, QuietRanges
<1>6. scanned[lastScanned] = pass[w].seen
  BY <1>4, <1>5 DEF DetectReorg
<1>. QED  BY <1>1, <1>2, <1>6 DEF NodeHash

LEMMA DetectQuiet ==
    ASSUME QuietNode, Inv, Traced, QuietInv, NEW w \in Worker, Detect(w) PROVE QuietInv'
<1>1. /\ pass \in [Worker -> Pass] /\ pass[w].at - 1 \in Nat
      /\ "target" \in PC /\ "fork" \in PC /\ pass[w].pc = "detect"
  BY DEF Inv, Shape, PassOK, Detect, At, Pass, PC
<1>2. /\ chainHeight = Len(chain) /\ lastScanned < Len(chain)
      /\ lastScanned \in Nat /\ Len(chain) \in Nat
  BY <1>1, QuietRanges DEF QuietInv, QuietPass
<1>3. \A v \in Worker : v # w => pass[v].pc = "idle"
  BY <1>1, Alone
<1>4. UNCHANGED <<inflight, chain, lastScanned, scanned, cache, chainHeight>>
  BY DEF Detect, node, cursor
<1>5. pass[w].pc \notin Stored
  BY <1>1 DEF Stored
<1>6. CASE DetectReorg(cache, pass[w].at, pass[w].seen)
  <2>1. pass'[w].pc = "fork" /\ \A v \in Worker : v # w => pass'[v] = pass[v]
    BY <1>1, <1>6, GotoAtLocals DEF Detect
  <2>2. QuietPass(w)'
    BY <1>2, <1>4, <2>1 DEF QuietPass, Behind, Cutting, Scanning, Stored
  <2>. QED  BY <1>3, <1>4, <1>5, <2>1, <2>2, QuietKept DEF Behind
<1>7. CASE ~DetectReorg(cache, pass[w].at, pass[w].seen)
  <2>1. pass'[w].pc = "target" /\ \A v \in Worker : v # w => pass'[v] = pass[v]
    BY <1>1, <1>7, GotoLocals DEF Detect
  <2>2. lastScanned > 0 => scanned[lastScanned] = chain[lastScanned]
    BY <1>7, DetectSound DEF Detect
  <2>3. OnNode(lastScanned)
    BY <1>2, <2>2, SharedBelow
  <2>4. QuietPass(w)'
    BY <1>2, <1>4, <2>1, <2>3
    DEF QuietPass, Behind, Cutting, Scanning, Stored, OnNode
  <2>. QED  BY <1>3, <1>4, <1>5, <2>1, <2>4, QuietKept DEF Behind
<1>. QED  BY <1>6, <1>7

\* Below the search's limit no two chains part.
LEMMA LimitOnNode ==
    ASSUME QuietNode, Inv, Traced, QuietInv, lastScanned < Len(chain)
    PROVE  OnNode(SearchLimit)
<1>1. PICK c \in Chains :
        Len(scanned) <= Len(c) /\ \A h \in 1..Len(scanned) : scanned[h] = c[h]
  BY DEF QuietInv, OnOneChain
<1>2. /\ Len(c) \in Nat /\ chain \in Chains /\ Len(chain) \in Nat
      /\ lastScanned \in Nat /\ Len(scanned) = lastScanned /\ SearchDepth \in Nat \ {0}
  BY <1>1, QuietRanges, ChainAssumption, LenProperties, IndexerAssumption
<1>3. SearchLimit \in Nat /\ SearchLimit <= lastScanned
  BY <1>2 DEF SearchLimit
<1>4. ASSUME SearchLimit > 0 PROVE scanned[SearchLimit] = chain[SearchLimit]
  <2>1. SearchLimit + SearchDepth = lastScanned + 1
    BY <1>2, <1>4 DEF SearchLimit
  <2>2. /\ SearchLimit \in 1..Len(c) /\ SearchLimit <= Len(chain)
        /\ SearchLimit \in 1..Len(scanned)
        /\ SearchLimit + SearchDepth <= Len(c) + 1
        /\ SearchLimit + SearchDepth <= Len(chain) + 1
    BY <1>1, <1>2, <1>3, <1>4, <2>1
  <2>3. c[SearchLimit] = chain[SearchLimit]
    BY <1>2, <2>2 DEF QuietNode, ForksInReach
  <2>. QED  BY <1>1, <2>2, <2>3
<1>. QED  BY <1>2, <1>3, <1>4, SharedBelow

\* A turn of the search either ends above a block the node has, or goes lower.
LEMMA FindForkQuiet ==
    ASSUME QuietNode, Inv, Traced, QuietInv, NEW w \in Worker, FindFork(w) PROVE QuietInv'
<1>. DEFINE h == pass[w].at
<1>1. /\ pass \in [Worker -> Pass] /\ h \in Nat /\ h <= lastScanned
      /\ "invalidate" \in PC /\ "fork" \in PC /\ pass[w].pc = "fork"
  BY DEF Inv, Shape, PassOK, FindFork, At, Pass, PC
<1>2. /\ chainHeight = Len(chain) /\ lastScanned < Len(chain)
      /\ lastScanned \in Nat /\ Len(chain) \in Nat /\ SearchLimit \in Nat
  <2>1. chainHeight = Len(chain) /\ lastScanned < Len(chain)
    BY <1>1 DEF QuietInv, QuietPass, Behind
  <2>. QED  BY <2>1, QuietRanges, IndexerAssumption DEF SearchLimit
<1>3. \A v \in Worker : v # w => pass[v].pc = "idle"
  BY <1>1, Alone
<1>4. UNCHANGED <<inflight, chain, lastScanned, scanned, cache, chainHeight>>
  BY DEF FindFork, node, cursor
<1>5. pass[w].pc \notin Stored
  BY <1>1 DEF Stored
<1>6. \/ GotoAt(w, "fork", h - 1) /\ h - 1 \in Nat
      \/ \E k \in Nat : GotoAt(w, "invalidate", k + 1) /\ OnNode(k)
  <2>1. CASE h <= SearchLimit
    <3>1. GotoAt(w, "invalidate", SearchLimit + 1)
      BY <2>1 DEF FindFork
    <3>. QED  BY <1>2, <3>1, LimitOnNode
  <2>2. CASE ~(h <= SearchLimit)
    <3>1. h \in 1..Len(chain) /\ h \in 1..lastScanned /\ h \in Heights
      BY <1>1, <1>2, <2>2, QuietRanges DEF Heights
    <3>2. HashAnswers(h) = {chain[h]} /\ chain[h] # NoBlock
      BY <3>1, AnswersSure
    <3>3. IF chain[h] = HashForHeight(cache, h)
          THEN GotoAt(w, "invalidate", h + 1) ELSE GotoAt(w, "fork", h - 1)
      BY <2>2, <3>2 DEF FindFork
    <3>4. CASE chain[h] = HashForHeight(cache, h)
      <4>1. scanned[h] = chain[h]
        BY <3>1, <3>2, <3>4 DEF QuietInv, CacheFollows, HashForHeight
      <4>2. OnNode(h)
        BY <1>1, <1>2, <4>1, SharedBelow
      <4>. QED  BY <1>1, <3>3, <3>4, <4>2
    <3>. QED  BY <3>1, <3>3, <3>4
  <2>. QED  BY <2>1, <2>2
<1>7. CASE GotoAt(w, "fork", h - 1) /\ h - 1 \in Nat
  <2>1. pass'[w].pc = "fork" /\ \A v \in Worker : v # w => pass'[v] = pass[v]
    BY <1>1, <1>7, GotoAtLocals
  <2>2. QuietPass(w)'
    BY <1>2, <1>4, <2>1 DEF QuietPass, Behind, Cutting, Scanning, Stored
  <2>. QED  BY <1>3, <1>4, <1>5, <2>1, <2>2, QuietKept DEF Behind
<1>8. ASSUME NEW k \in Nat, GotoAt(w, "invalidate", k + 1), OnNode(k)
      PROVE  QuietInv'
  <2>1. /\ pass'[w].pc = "invalidate" /\ pass'[w].at = k + 1
        /\ \A v \in Worker : v # w => pass'[v] = pass[v]
    BY <1>1, <1>8, GotoAtLocals
  <2>2. pass'[w].at - 1 = k
    BY <2>1
  <2>3. OnNode(pass[w].at - 1)'
    BY <1>4, <1>8, <2>2 DEF OnNode
  <2>4. QuietPass(w)'
    BY <1>2, <1>4, <2>1, <2>3 DEF QuietPass, Behind, Cutting, Scanning, Stored
  <2>. QED  BY <1>3, <1>4, <1>5, <2>1, <2>4, QuietKept DEF Behind, Cutting
<1>. QED  BY <1>6, <1>7, <1>8

----------------------------------------------------------------------------
(* The cut at the fork.                                                    *)

\* Forgetting heights keeps every entry that is left mapped by its height.
LEMMA ForgetKeepsMapped ==
    ASSUME NEW c \in CacheType, NEW H,
           \A e \in c.entries : e[2] = 2 /\ c.h2h[HeightOf[e[1]]] = e[1]
    PROVE  \A e \in Forget(c, H).entries :
             /\ e \in c.entries /\ e[2] = 2
             /\ Forget(c, H).h2h[HeightOf[e[1]]] = e[1]
<1>. TAKE e \in Forget(c, H).entries
<1>1. /\ e \in c.entries /\ e[2] = 2 /\ c.h2h[HeightOf[e[1]]] = e[1]
      /\ \A h \in H : c.h2h[h] # e[1]
  BY DEF Forget
<1>2. HeightOf[e[1]] \in Heights
  BY <1>1, ChainAssumption DEF CacheType
<1>3. HeightOf[e[1]] \notin H
  BY <1>1
<1>. QED  BY <1>1, <1>2, <1>3 DEF Forget

LEMMA InvalidateQuiet ==
    ASSUME QuietNode, Inv, Traced, QuietInv, NEW w \in Worker, Invalidate(w) PROVE QuietInv'
<1>1. /\ pass \in [Worker -> Pass] /\ "truncate" \in PC
      /\ pass[w].pc = "invalidate" /\ pass[w].at \in Nat
      /\ cache \in CacheType /\ Goto(w, "truncate")
  BY DEF Inv, Shape, Invalidate, At, Pass, PC
<1>2. /\ pass'[w].pc = "truncate" /\ pass'[w].at = pass[w].at
      /\ \A v \in Worker : v # w => pass'[v] = pass[v]
  BY <1>1, GotoLocals
<1>3. \A v \in Worker : v # w => pass[v].pc = "idle"
  BY <1>1, Alone
<1>4. /\ UNCHANGED <<inflight, chain, lastScanned, scanned, chainHeight>>
      /\ cache' = Forget(cache, {h \in Heights : h >= pass[w].at})
  BY DEF Invalidate, InvalidateFrom, node, cursor
<1>5. \A h \in Heights :
        cache'.h2h[h] = IF h >= pass[w].at THEN NoBlock ELSE cache.h2h[h]
  BY <1>4 DEF Forget
<1>6. CacheFollows'
  <2>1. \A e \in cache'.entries : e[2] = 2 /\ cache'.h2h[HeightOf[e[1]]] = e[1]
    BY <1>1, <1>4, ForgetKeepsMapped DEF QuietInv, CacheFollows
  <2>2. \A h \in 1..lastScanned : cache'.h2h[h] \in {NoBlock, scanned[h]}
    <3>1. \A h \in 1..lastScanned : h \in Heights
      BY QuietRanges DEF Heights
    <3>. QED  BY <1>5, <3>1 DEF QuietInv, CacheFollows
  <2>3. \A h \in Heights : h > lastScanned => cache.h2h[h] = NoBlock
    BY <1>1, <1>3 DEF QuietInv, CacheFollows, Stored
  <2>. QED  BY <1>4, <1>5, <2>1, <2>2, <2>3 DEF CacheFollows
<1>7. QuietPass(w)'
  <2>1. chainHeight = Len(chain) /\ lastScanned < Len(chain) /\ OnNode(pass[w].at - 1)
    BY <1>1 DEF QuietInv, QuietPass, Behind, Cutting
  <2>2. OnNode(pass[w].at - 1)'
    BY <1>2, <1>4, <2>1 DEF OnNode
  <2>3. \A h \in Heights : h >= pass'[w].at => cache'.h2h[h] = NoBlock
    BY <1>2, <1>5
  <2>. QED  BY <1>2, <1>4, <2>1, <2>2, <2>3
       DEF QuietPass, Behind, Cutting, Scanning, Stored
<1>8. \A v \in Worker : QuietPass(v)'
  <2>1. ASSUME NEW v \in Worker, v # w PROVE QuietPass(v)'
    BY <1>2, <1>3, <2>1 DEF QuietPass, Behind, Cutting, Scanning, Stored
  <2>. QED  BY <1>7, <2>1
<1>9. Somewhere(Behind)'
  BY <1>2 DEF Somewhere, Behind, Cutting
<1>. QED  BY <1>4, <1>6, <1>8, <1>9 DEF QuietInv, OnOneChain

\* The cursor back below the fork, as a cut ends either way.
LEMMA BackBelowFork ==
    ASSUME QuietNode, Inv, Traced, QuietInv, NEW w \in Worker,
           pass[w].pc \in {"truncate", "rewind"},
           pass'[w].pc = "target",
           \A v \in Worker : v # w => pass'[v] = pass[v],
           lastScanned' = pass[w].at - 1,
           scanned' = SubSeq(scanned, 1, pass[w].at - 1),
           UNCHANGED <<inflight, chain, chainHeight, cache>>
    PROVE  QuietInv'
<1>. DEFINE n == pass[w].at - 1
<1>1. /\ pass[w].at \in Nat /\ pass[w].at > 0 /\ pass[w].at <= lastScanned + 1
      /\ pass[w].pc \in Cutting /\ pass[w].pc # "invalidate"
  BY DEF Inv, Shape, PassOK, Pass, Cutting
<1>2. n \in Nat /\ n <= lastScanned /\ lastScanned \in Nat /\ Len(chain) \in Nat
  BY <1>1, QuietRanges
<1>3. /\ chainHeight = Len(chain) /\ lastScanned < Len(chain) /\ OnNode(n)
      /\ \A h \in Heights : h >= pass[w].at => cache.h2h[h] = NoBlock
  <2>1. QuietPass(w) /\ pass[w].pc \in Behind
    BY <1>1 DEF QuietInv, Behind
  <2>. QED  BY <1>1, <2>1 DEF QuietPass
<1>4. /\ OnOneChain(SubSeq(scanned, 1, n))
      /\ \A h \in 1..n : SubSeq(scanned, 1, n)[h] = scanned[h]
  BY <1>2, PrefixOnOneChain
<1>. HIDE DEF n
<1>5. /\ OnOneChain(scanned)' /\ lastScanned' = n
      /\ \A h \in 1..n : scanned'[h] = scanned[h]
  BY <1>4 DEF n, OnOneChain
<1>6. CacheFollows'
  <2>1. \A h \in Heights : h > n => h >= pass[w].at
    BY <1>1 DEF n, Heights
  <2>2. \A h \in 1..n : h \in 1..lastScanned
    BY <1>2
  <2>. QED  BY <1>3, <1>5, <2>1, <2>2 DEF QuietInv, CacheFollows
<1>7. OnNode(lastScanned)'
  BY <1>3, <1>5 DEF OnNode
<1>8. lastScanned' < chainHeight'
  BY <1>2, <1>3, <1>5
<1>9. QuietPass(w)'
  BY <1>3, <1>7, <1>8 DEF QuietPass, Behind, Cutting, Scanning, Stored
<1>10. \A v \in Worker : QuietPass(v)'
  <2>1. ASSUME NEW v \in Worker, v # w PROVE QuietPass(v)'
    <3>1. pass[v].pc = "idle"
      BY <1>1, <2>1, Alone
    <3>. QED  BY <2>1, <3>1 DEF QuietPass, Behind, Cutting, Scanning, Stored
  <2>. QED  BY <1>9, <2>1
<1>11. Somewhere(Behind)'
  BY DEF Somewhere, Behind
<1>. QED  BY <1>5, <1>6, <1>10, <1>11 DEF QuietInv

LEMMA TruncateQuiet ==
    ASSUME QuietNode, Inv, Traced, QuietInv, NEW w \in Worker, Truncate(w) PROVE QuietInv'
<1>1. /\ pass \in [Worker -> Pass] /\ "target" \in PC /\ "saveindex" \in PC
      /\ pass[w].pc = "truncate"
  BY DEF Inv, Shape, Truncate, At, PC
<1>2. UNCHANGED <<inflight, chain, chainHeight, cache>>
  BY DEF Truncate, node
<1>3. ~MayFail("truncate")
  BY DEF QuietNode, MayFail
<1>4. \/ /\ Goto(w, "target")
         /\ lastScanned' = pass[w].at - 1
         /\ scanned' = SubSeq(scanned, 1, pass[w].at - 1)
      \/ Goto(w, "saveindex") /\ UNCHANGED <<lastScanned, scanned>>
  BY <1>3 DEF Truncate
<1>5. CASE /\ Goto(w, "target")
           /\ lastScanned' = pass[w].at - 1
           /\ scanned' = SubSeq(scanned, 1, pass[w].at - 1)
  <2>1. pass'[w].pc = "target" /\ \A v \in Worker : v # w => pass'[v] = pass[v]
    BY <1>1, <1>5, GotoLocals
  <2>. QED  BY <1>1, <1>2, <1>5, <2>1, BackBelowFork
<1>6. CASE Goto(w, "saveindex") /\ UNCHANGED <<lastScanned, scanned>>
  <2>1. /\ pass'[w].pc = "saveindex" /\ pass'[w].at = pass[w].at
        /\ \A v \in Worker : v # w => pass'[v] = pass[v]
    BY <1>1, <1>6, GotoLocals
  <2>2. \A v \in Worker : v # w => pass[v].pc = "idle"
    BY <1>1, Alone
  <2>3. QuietPass(w)'
    BY <1>1, <1>2, <1>6, <2>1
    DEF QuietInv, QuietPass, Behind, Cutting, Scanning, Stored, OnNode
  <2>4. pass[w].pc \notin Stored
    BY <1>1 DEF Stored
  <2>. QED  BY <1>2, <1>6, <2>1, <2>2, <2>3, <2>4, QuietKept DEF Behind, Cutting
<1>. QED  BY <1>4, <1>5, <1>6

LEMMA SaveTrimmedIndexQuiet ==
    ASSUME Inv, Traced, QuietInv, NEW w \in Worker, SaveTrimmedIndex(w) PROVE QuietInv'
<1>1. /\ pass \in [Worker -> Pass] /\ "rewind" \in PC
      /\ pass[w].pc = "saveindex" /\ Goto(w, "rewind")
  BY DEF Inv, Shape, SaveTrimmedIndex, At, PC
<1>2. UNCHANGED <<inflight, chain, chainHeight, cache, lastScanned, scanned>>
  BY DEF SaveTrimmedIndex, node, cursor
<1>3. /\ pass'[w].pc = "rewind" /\ pass'[w].at = pass[w].at
      /\ \A v \in Worker : v # w => pass'[v] = pass[v]
  BY <1>1, GotoLocals
<1>4. \A v \in Worker : v # w => pass[v].pc = "idle"
  BY <1>1, Alone
<1>5. QuietPass(w)'
  BY <1>1, <1>2, <1>3
  DEF QuietInv, QuietPass, Behind, Cutting, Scanning, Stored, OnNode
<1>6. pass[w].pc \notin Stored
  BY <1>1 DEF Stored
<1>. QED  BY <1>2, <1>3, <1>4, <1>5, <1>6, QuietKept DEF Behind, Cutting

LEMMA RewindQuiet ==
    ASSUME QuietNode, Inv, Traced, QuietInv, NEW w \in Worker, Rewind(w) PROVE QuietInv'
<1>1. /\ pass \in [Worker -> Pass] /\ "target" \in PC
      /\ pass[w].pc = "rewind" /\ Goto(w, "target")
  BY DEF Inv, Shape, Rewind, At, PC
<1>2. pass'[w].pc = "target" /\ \A v \in Worker : v # w => pass'[v] = pass[v]
  BY <1>1, GotoLocals
<1>. QED  BY <1>1, <1>2, BackBelowFork DEF Rewind, node

----------------------------------------------------------------------------
(* The loop.                                                               *)

LEMMA TargetQuiet ==
    ASSUME QuietNode, Inv, Traced, QuietInv, NEW w \in Worker, Target(w) PROVE QuietInv'
<1>. DEFINE t == lastScanned + 1
<1>1. /\ pass \in [Worker -> Pass] /\ "exit" \in PC /\ "fetch" \in PC
      /\ pass[w].pc = "target" /\ lastScanned \in Nat /\ t \in Nat
      /\ Len(chain) \in Nat
  BY QuietRanges DEF Inv, Shape, Target, At, PC
<1>2. /\ chainHeight = Len(chain) /\ OnNode(lastScanned)
      /\ lastScanned < chainHeight \/ LastCached
  BY <1>1 DEF QuietInv, QuietPass, Behind
<1>3. \A v \in Worker : v # w => pass[v].pc = "idle"
  BY <1>1, Alone
<1>4. UNCHANGED <<inflight, chain, lastScanned, scanned, cache, chainHeight>>
  BY DEF Target, node, cursor
<1>5. pass[w].pc \notin Stored
  BY <1>1 DEF Stored
<1>6. CASE t > chainHeight
  <2>1. pass'[w].pc = "exit" /\ \A v \in Worker : v # w => pass'[v] = pass[v]
    BY <1>1, <1>6, GotoLocals DEF Target
  <2>2. LastCached
    BY <1>1, <1>2, <1>6
  <2>3. QuietPass(w)'
    BY <2>1 DEF QuietPass, Behind, Cutting, Scanning, Stored
  <2>. QED  BY <1>3, <1>4, <1>5, <2>1, <2>2, <2>3, QuietKept
<1>7. CASE ~(t > chainHeight)
  <2>1. t \in 1..Len(chain) /\ t \in Heights /\ t > lastScanned
    BY <1>1, <1>2, <1>7, QuietRanges DEF Heights
  <2>2. cache.h2h[t] = NoBlock
    <3>1. \A v \in Worker : pass[v].pc \notin Stored
      BY <1>3, <1>5 DEF Stored
    <3>. QED  BY <2>1, <3>1 DEF QuietInv, CacheFollows
  <2>3. HashAnswers(t) = {chain[t]} /\ chain[t] # NoBlock /\ chain[t] \in Block
    BY <2>1, AnswersSure, QuietRanges
  <2>4. GotoSeeing(w, "fetch", t, chain[t])
    BY <1>7, <2>1, <2>2, <2>3 DEF Target, HashForHeight
  <2>5. /\ pass'[w].pc = "fetch" /\ pass'[w].at = t /\ pass'[w].seen = chain[t]
        /\ \A v \in Worker : v # w => pass'[v] = pass[v]
    BY <1>1, <2>3, <2>4, GotoSeeingLocals
  <2>6. OnNode(lastScanned)'
    BY <1>2, <1>4 DEF OnNode
  <2>7. QuietPass(w)'
    BY <1>2, <1>4, <2>1, <2>5, <2>6
    DEF QuietPass, Behind, Cutting, Scanning, Stored
  <2>. QED  BY <1>3, <1>4, <1>5, <2>5, <2>7, QuietKept DEF Behind, Scanning
<1>. QED  BY <1>6, <1>7

\* A block that the height map does not know has no entry.
LEMMA NewBlockMisses ==
    ASSUME QuietNode, Inv, Traced, QuietInv, NEW w \in Worker,
           pass[w].pc \in {"fetch", "cacheput"}
    PROVE  /\ ~Hit(cache, pass[w].seen, 2) /\ <<pass[w].seen, 2>> \notin cache.entries
           /\ pass[w].at \in Heights /\ pass[w].at = lastScanned + 1
           /\ HeightOf[pass[w].seen] = pass[w].at
           /\ pass[w].seen \in Block /\ pass[w].seen # NoBlock
<1>1. /\ pass[w].pc \in Scanning
      /\ pass[w].seen \in Block /\ pass[w].at = lastScanned + 1
      /\ HeightOf[pass[w].seen] = pass[w].at
  BY DEF Inv, PassOK, Scanning
<1>2. pass[w].seen # NoBlock /\ pass[w].at \in Heights /\ pass[w].at > lastScanned
  BY <1>1, ChainAssumption, QuietRanges
<1>3. \A v \in Worker : pass[v].pc \notin Stored
  BY Alone DEF Stored
<1>4. cache.h2h[pass[w].at] = NoBlock
  BY <1>2, <1>3 DEF QuietInv, CacheFollows
<1>5. \A v \in Verbosity : <<pass[w].seen, v>> \notin cache.entries
  BY <1>1, <1>2, <1>4 DEF QuietInv, CacheFollows
<1>6. 1 \in Verbosity /\ 2 \in Verbosity /\ Fallback(2) = 1
  BY DEF Verbosity, Fallback
<1>7. <<pass[w].seen, 1>> \notin cache.entries /\ <<pass[w].seen, 2>> \notin cache.entries
  BY <1>5, <1>6
<1>8. ~Hit(cache, pass[w].seen, 2)
  BY <1>6, <1>7 DEF Hit
<1>. QED  BY <1>1, <1>2, <1>7, <1>8

LEMMA FetchQuiet ==
    ASSUME QuietNode, Inv, Traced, QuietInv, NEW w \in Worker, Fetch(w) PROVE QuietInv'
<1>. DEFINE next == [pass[w] EXCEPT !.pc = "cacheput", !.got = ShieldTxs[pass[w].seen]]
<1>1. /\ pass \in [Worker -> Pass] /\ "cacheput" \in PC /\ pass[w].pc = "fetch"
      /\ pass[w] \in Pass
  BY DEF Inv, Shape, Fetch, At, PC
<1>2. ~Hit(cache, pass[w].seen, 2) /\ pass[w].seen \in Block
  BY <1>1, NewBlockMisses
<1>3. Step(w, next)
  BY <1>2 DEF Fetch, QuietNode
<1>4. /\ next \in Pass /\ next.pc = "cacheput"
      /\ next.at = pass[w].at /\ next.seen = pass[w].seen
  BY <1>1, <1>2, ChainAssumption DEF Pass
<1>. HIDE DEF next
<1>5. /\ pass'[w].pc = "cacheput" /\ pass'[w].at = pass[w].at
      /\ pass'[w].seen = pass[w].seen
      /\ \A v \in Worker : v # w => pass'[v] = pass[v]
  BY <1>1, <1>3, <1>4, StepLocals
<1>6. UNCHANGED <<inflight, chain, lastScanned, scanned, cache, chainHeight>>
  BY DEF Fetch, node, cursor
<1>7. \A v \in Worker : v # w => pass[v].pc = "idle"
  BY <1>1, Alone
<1>8. QuietPass(w)'
  BY <1>1, <1>5, <1>6
  DEF QuietInv, QuietPass, Behind, Cutting, Scanning, Stored, OnNode
<1>9. pass[w].pc \notin Stored
  BY <1>1 DEF Stored
<1>. QED  BY <1>5, <1>6, <1>7, <1>8, <1>9, QuietKept DEF Behind, Scanning

LEMMA CachePutQuiet ==
    ASSUME QuietNode, Inv, Traced, QuietInv, NEW w \in Worker, CachePut(w) PROVE QuietInv'
<1>. DEFINE b == pass[w].seen
            t == CHOOSE u \in 0..MaxHeight :
                   RoomAbove(cache, u) /\ \A s \in 0..(u - 1) : ~RoomAbove(cache, s)
            room == Forget(cache, 1..t)
<1>1. /\ pass \in [Worker -> Pass] /\ "decoded" \in PC /\ cache \in CacheType
      /\ pass[w].pc = "cacheput" /\ Goto(w, "decoded")
  BY DEF Inv, Shape, CachePut, At, PC
<1>2. /\ pass'[w].pc = "decoded" /\ pass'[w].at = pass[w].at /\ pass'[w].seen = b
      /\ \A v \in Worker : v # w => pass'[v] = pass[v]
  BY <1>1, GotoLocals
<1>3. \A v \in Worker : v # w => pass[v].pc = "idle"
  BY <1>1, Alone
<1>4. UNCHANGED <<inflight, chain, lastScanned, scanned, chainHeight>>
  BY DEF CachePut, node, cursor
<1>5. /\ <<b, 2>> \notin cache.entries /\ b \in Block /\ b # NoBlock
      /\ pass[w].at \in Heights /\ pass[w].at = lastScanned + 1
      /\ HeightOf[b] = pass[w].at
  BY <1>1, NewBlockMisses
<1>6. cache' = [ h2h     |-> [room.h2h EXCEPT ![HeightOf[b]] = b],
                 entries |-> room.entries \cup {<<b, 2>>} ]
  BY <1>5 DEF CachePut, Insert, Evict
<1>. HIDE DEF b, t
<1>7. room \in CacheType /\ \A h \in Heights : room.h2h[h] \in {NoBlock, cache.h2h[h]}
  BY <1>1, ForgetType DEF Forget
<1>8. \A e \in room.entries : /\ e \in cache.entries /\ e[2] = 2
                              /\ room.h2h[HeightOf[e[1]]] = e[1]
  BY <1>1, ForgetKeepsMapped DEF QuietInv, CacheFollows
<1>. HIDE DEF room
<1>9. cache'.h2h[pass[w].at] = b /\
      \A h \in Heights : h # pass[w].at => cache'.h2h[h] \in {NoBlock, cache.h2h[h]}
  BY <1>5, <1>6, <1>7 DEF CacheType
<1>10. \A h \in Heights : h > lastScanned => cache.h2h[h] = NoBlock
  BY <1>1, <1>3 DEF QuietInv, CacheFollows, Stored
<1>11. CacheFollows'
  <2>1. ASSUME NEW e \in cache'.entries
        PROVE  e[2] = 2 /\ cache'.h2h[HeightOf[e[1]]] = e[1]
    <3>1. CASE e = <<b, 2>>
      BY <1>5, <1>9, <3>1
    <3>2. CASE e # <<b, 2>>
      <4>1. e \in cache.entries /\ e[2] = 2 /\ room.h2h[HeightOf[e[1]]] = e[1]
        BY <1>6, <1>8, <3>2
      <4>2. e[1] \in Block /\ HeightOf[e[1]] \in Heights
        BY <1>1, <4>1, ChainAssumption DEF CacheType
      <4>3. HeightOf[e[1]] # pass[w].at
        <5>1. cache.h2h[HeightOf[e[1]]] = e[1] /\ e[1] # NoBlock
          BY <4>1, <4>2, ChainAssumption DEF QuietInv, CacheFollows
        <5>. QED  BY <1>5, <1>10, <4>2, <5>1, QuietRanges
      <4>. QED  BY <1>5, <1>6, <1>7, <4>1, <4>2, <4>3 DEF CacheType
    <3>. QED  BY <3>1, <3>2
  <2>2. \A h \in 1..lastScanned : cache'.h2h[h] \in {NoBlock, scanned[h]}
    <3>1. \A h \in 1..lastScanned : h \in Heights /\ h # pass[w].at
      BY <1>5, QuietRanges DEF Heights
    <3>. QED  BY <1>9, <3>1 DEF QuietInv, CacheFollows
  <2>3. ASSUME NEW h \in Heights, h > lastScanned, cache'.h2h[h] # NoBlock
        PROVE  h = pass[w].at
    BY <1>9, <1>10, <2>3
  <2>. QED  BY <1>2, <1>4, <2>1, <2>2, <2>3 DEF CacheFollows, Stored
<1>12. QuietPass(w)'
  <2>1. /\ chainHeight = Len(chain) /\ OnNode(lastScanned)
        /\ pass[w].at <= Len(chain) /\ b = chain[pass[w].at]
    BY <1>1 DEF b, QuietInv, QuietPass, Behind, Scanning
  <2>2. OnNode(lastScanned)'
    BY <1>4, <2>1 DEF OnNode
  <2>. QED  BY <1>2, <1>4, <1>9, <2>1, <2>2
       DEF QuietPass, Behind, Cutting, Scanning, Stored
<1>13. \A v \in Worker : QuietPass(v)'
  <2>1. ASSUME NEW v \in Worker, v # w PROVE QuietPass(v)'
    BY <1>2, <1>3, <2>1 DEF QuietPass, Behind, Cutting, Scanning, Stored
  <2>. QED  BY <1>12, <2>1
<1>14. Somewhere(Behind)'
  BY <1>2 DEF Somewhere, Behind, Scanning
<1>. QED  BY <1>4, <1>11, <1>13, <1>14 DEF QuietInv, OnOneChain

\* The cursor on the block just scanned, as both kinds of block end.
LEMMA CursorMoves ==
    ASSUME QuietNode, Inv, Traced, QuietInv, NEW w \in Worker,
           pass[w].pc \in {"decoded", "advance"},
           pass'[w].pc = "target",
           \A v \in Worker : v # w => pass'[v] = pass[v],
           lastScanned' = pass[w].at,
           scanned' = Append(scanned, pass[w].seen),
           UNCHANGED <<inflight, chain, chainHeight, cache>>
    PROVE  QuietInv'
<1>. DEFINE t == pass[w].at
            b == pass[w].seen
<1>1. pass[w].pc \in Scanning /\ pass[w].pc \in Stored
  BY DEF Scanning, Stored
<1>2. /\ t = lastScanned + 1 /\ b \in Block /\ lastScanned \in Nat
      /\ Len(chain) \in Nat /\ Len(scanned) = lastScanned /\ scanned \in Seq(Block)
  BY <1>1, QuietRanges DEF Inv, PassOK
<1>3. /\ chainHeight = Len(chain) /\ OnNode(lastScanned) /\ t <= Len(chain)
      /\ b = chain[t] /\ cache.h2h[t] = b
  <2>1. QuietPass(w) /\ pass[w].pc \in Behind
    BY <1>1 DEF QuietInv, Behind
  <2>. QED  BY <1>1, <2>1 DEF QuietPass
<1>. HIDE DEF t, b
<1>4. /\ Len(scanned') = t /\ scanned'[t] = b
      /\ \A h \in 1..lastScanned : scanned'[h] = scanned[h]
  BY <1>2, AppendProperties DEF t, b
<1>5. lastScanned' = t /\ OnNode(lastScanned)'
  <2>1. ASSUME NEW h \in 1..t PROVE scanned'[h] = chain[h]
    BY <1>2, <1>3, <1>4 DEF OnNode
  <2>2. lastScanned' = t
    BY DEF t
  <2>. QED  BY <1>3, <2>1, <2>2 DEF OnNode
<1>6. OnOneChain(scanned)'
  BY <1>3, <1>4, <1>5, QuietRanges DEF OnOneChain, OnNode, t
<1>7. LastCached'
  BY <1>3, <1>4 DEF LastCached, t
<1>8. CacheFollows'
  <2>1. \A h \in 1..t : cache.h2h[h] \in {NoBlock, scanned'[h]}
    <3>1. ASSUME NEW h \in 1..t PROVE cache.h2h[h] \in {NoBlock, scanned'[h]}
      <4>1. CASE h = t
        BY <1>3, <1>4, <4>1
      <4>2. CASE h # t
        <5>1. h \in 1..lastScanned
          BY <1>2, <4>2
        <5>. QED  BY <1>4, <5>1 DEF QuietInv, CacheFollows
      <4>. QED  BY <4>1, <4>2
    <3>. QED  BY <3>1
  <2>2. ASSUME NEW h \in Heights, h > t PROVE cache.h2h[h] = NoBlock
    <3>1. h > lastScanned /\ h # t
      BY <1>2, <2>2 DEF Heights
    <3>2. \A v \in Worker : pass[v].pc \in Stored => v = w
      BY <1>1, Alone DEF Stored
    <3>. QED  BY <3>1, <3>2 DEF QuietInv, CacheFollows, t
  <2>3. \A e \in cache.entries : e[2] = 2 /\ cache.h2h[HeightOf[e[1]]] = e[1]
    BY DEF QuietInv, CacheFollows
  <2>. QED  BY <2>1, <2>2, <2>3 DEF CacheFollows, t
<1>9. QuietPass(w)'
  BY <1>3, <1>5, <1>7
  DEF QuietPass, Behind, Cutting, Scanning, Stored
<1>10. \A v \in Worker : QuietPass(v)'
  <2>1. ASSUME NEW v \in Worker, v # w PROVE QuietPass(v)'
    <3>1. pass[v].pc = "idle"
      BY <1>1, <2>1, Alone DEF Scanning
    <3>. QED  BY <2>1, <3>1 DEF QuietPass, Behind, Cutting, Scanning, Stored
  <2>. QED  BY <1>9, <2>1
<1>. QED  BY <1>6, <1>7, <1>8, <1>10 DEF QuietInv

LEMMA AdvanceEmptyQuiet ==
    ASSUME QuietNode, Inv, Traced, QuietInv, NEW w \in Worker, AdvanceEmpty(w)
    PROVE  QuietInv'
<1>. DEFINE next == [pass[w] EXCEPT !.pc = "target", !.dirty = TRUE]
<1>1. pass \in [Worker -> Pass] /\ pass[w].pc = "decoded" /\ Step(w, next)
  BY DEF Inv, Shape, AdvanceEmpty, At
<1>2. next \in Pass /\ next.pc = "target"
  BY <1>1 DEF Pass, PC
<1>. HIDE DEF next
<1>3. pass'[w].pc = "target" /\ \A v \in Worker : v # w => pass'[v] = pass[v]
  BY <1>1, <1>2, StepLocals
<1>. QED  BY <1>1, <1>3, CursorMoves DEF AdvanceEmpty, node

LEMMA AdvanceQuiet ==
    ASSUME QuietNode, Inv, Traced, QuietInv, NEW w \in Worker, Advance(w)
    PROVE  QuietInv'
<1>. DEFINE next == [pass[w] EXCEPT !.pc = "target", !.dirty = FALSE]
<1>1. pass \in [Worker -> Pass] /\ pass[w].pc = "advance" /\ Step(w, next)
  BY DEF Inv, Shape, Advance, At
<1>2. next \in Pass /\ next.pc = "target"
  BY <1>1 DEF Pass, PC
<1>. HIDE DEF next
<1>3. pass'[w].pc = "target" /\ \A v \in Worker : v # w => pass'[v] = pass[v]
  BY <1>1, <1>2, StepLocals
<1>. QED  BY <1>1, <1>3, CursorMoves DEF Advance, node

\* A step from one of the labels of Stored to the next keeps the block.
LEMMA StoredKept ==
    ASSUME QuietNode, Inv, Traced, QuietInv, NEW w \in Worker,
           pass[w].pc \in Stored, pass'[w].pc \in Stored,
           \A v \in Worker : v # w => pass'[v] = pass[v],
           pass'[w].at = pass[w].at, pass'[w].seen = pass[w].seen,
           pass'[w].pc \in {"extend", "add"} => pass'[w].off # NoOffset,
           UNCHANGED <<inflight, chain, chainHeight, lastScanned, scanned, cache>>
    PROVE  QuietInv'
<1>1. /\ pass[w].pc \in Behind /\ pass[w].pc \in Scanning /\ QuietPass(w)
      /\ pass'[w].pc \in Behind /\ pass'[w].pc \in Scanning
  BY DEF QuietInv, Stored, Behind, Scanning
<1>2. pass'[w].pc \notin {"probe", "detect", "fork", "target"} \cup Cutting
  BY DEF Stored, Cutting
<1>3. OnNode(lastScanned)'
  BY <1>1 DEF QuietPass, OnNode
<1>4. QuietPass(w)'
  BY <1>1, <1>2, <1>3 DEF QuietPass
<1>5. \A v \in Worker : v # w => pass[v].pc = "idle"
  BY <1>1, Alone DEF Scanning
<1>. QED  BY <1>1, <1>4, <1>5, QuietKept

LEMMA AppendFileQuiet ==
    ASSUME QuietNode, Inv, Traced, QuietInv, NEW w \in Worker, AppendFile(w)
    PROVE  QuietInv'
<1>. DEFINE next == [[pass[w] EXCEPT !.pc = "extend"] EXCEPT !.off = Len(file)]
<1>1. /\ pass \in [Worker -> Pass] /\ pass[w].pc = "decoded" /\ pass[w] \in Pass
      /\ "advance" \in PC /\ Len(file) \in Nat
  BY LenProperties DEF Inv, Shape, AppendFile, At, PC
<1>2. UNCHANGED <<inflight, chain, chainHeight, lastScanned, scanned, cache>>
  BY DEF AppendFile, node, cursor
<1>3. ~MayFail("append")
  BY DEF QuietNode, MayFail
<1>4. Goto(w, "advance") \/ Step(w, next)
  BY <1>3 DEF AppendFile
<1>5. /\ next \in Pass /\ next.pc = "extend" /\ next.at = pass[w].at
      /\ next.seen = pass[w].seen /\ next.off = Len(file)
  BY <1>1 DEF Pass, PC
<1>. HIDE DEF next
<1>6. CASE Goto(w, "advance")
  <2>1. /\ pass'[w].pc = "advance" /\ pass'[w].at = pass[w].at
        /\ pass'[w].seen = pass[w].seen
        /\ \A v \in Worker : v # w => pass'[v] = pass[v]
    BY <1>1, <1>6, GotoLocals
  <2>. QED  BY <1>1, <1>2, <2>1, StoredKept DEF Stored
<1>7. CASE Step(w, next)
  <2>1. /\ pass'[w].pc = "extend" /\ pass'[w].at = pass[w].at
        /\ pass'[w].seen = pass[w].seen /\ pass'[w].off = Len(file)
        /\ \A v \in Worker : v # w => pass'[v] = pass[v]
    BY <1>1, <1>5, <1>7, StepLocals
  <2>2. Len(file) # NoOffset
    BY <1>1 DEF NoOffset
  <2>. QED  BY <1>1, <1>2, <2>1, <2>2, StoredKept DEF Stored
<1>. QED  BY <1>4, <1>6, <1>7

LEMMA ExtendBufferQuiet ==
    ASSUME QuietNode, Inv, Traced, QuietInv, NEW w \in Worker, ExtendBuffer(w)
    PROVE  QuietInv'
<1>1. /\ pass \in [Worker -> Pass] /\ pass[w].pc = "extend" /\ "add" \in PC
      /\ Goto(w, "add")
  BY DEF Inv, Shape, ExtendBuffer, At, PC
<1>2. /\ pass'[w].pc = "add" /\ pass'[w].at = pass[w].at
      /\ pass'[w].seen = pass[w].seen /\ pass'[w].off = pass[w].off
      /\ \A v \in Worker : v # w => pass'[v] = pass[v]
  BY <1>1, GotoLocals
<1>3. pass[w].off # NoOffset
  BY <1>1 DEF QuietInv, QuietPass
<1>4. UNCHANGED <<inflight, chain, chainHeight, lastScanned, scanned, cache>>
  BY DEF ExtendBuffer, node, cursor
<1>. QED  BY <1>1, <1>2, <1>3, <1>4, StoredKept DEF Stored

LEMMA AddIndexQuiet ==
    ASSUME QuietNode, Inv, Traced, QuietInv, NEW w \in Worker, AddIndex(w)
    PROVE  QuietInv'
<1>1. pass \in [Worker -> Pass] /\ pass[w].pc = "add" /\ "advance" \in PC
  BY DEF Inv, Shape, AddIndex, At, PC
<1>2. pass[w].off # NoOffset
  BY <1>1 DEF QuietInv, QuietPass
<1>3. Goto(w, "advance")
  BY <1>2 DEF AddIndex
<1>4. /\ pass'[w].pc = "advance" /\ pass'[w].at = pass[w].at
      /\ pass'[w].seen = pass[w].seen
      /\ \A v \in Worker : v # w => pass'[v] = pass[v]
  BY <1>1, <1>3, GotoLocals
<1>5. UNCHANGED <<inflight, chain, chainHeight, lastScanned, scanned, cache>>
  BY DEF AddIndex, node, cursor
<1>. QED  BY <1>1, <1>4, <1>5, StoredKept DEF Stored

----------------------------------------------------------------------------
(* The end of a pass, and the node.                                        *)

LEMMA PersistIndexQuiet ==
    ASSUME QuietNode, Inv, Traced, QuietInv, NEW w \in Worker, PersistIndex(w)
    PROVE  QuietInv'
<1>1. /\ pass \in [Worker -> Pass] /\ pass[w].pc = "exit" /\ "cursor" \in PC
      /\ pass[w].at \in Nat /\ chain \in Chains /\ lastScanned \in Int
  BY DEF Inv, Shape, PersistIndex, At, PC, Pass
<1>2. PICK hash \in Block \cup {NoBlock} : GotoSeeing(w, "cursor", pass[w].at, hash)
  BY <1>1, NodeHashType DEF PersistIndex
<1>3. pass'[w].pc = "cursor" /\ \A v \in Worker : v # w => pass'[v] = pass[v]
  BY <1>1, <1>2, GotoSeeingLocals
<1>4. UNCHANGED <<inflight, chain, chainHeight, lastScanned, scanned, cache>>
  BY DEF PersistIndex, node, cursor
<1>5. LastCached
  BY <1>1, CachedOutside DEF Behind, Cutting, Scanning
<1>6. \A v \in Worker : v # w => pass[v].pc = "idle"
  BY <1>1, Alone
<1>7. QuietPass(w)'
  BY <1>3 DEF QuietPass, Behind, Cutting, Scanning, Stored
<1>8. pass[w].pc \notin Stored
  BY <1>1 DEF Stored
<1>. QED  BY <1>3, <1>4, <1>5, <1>6, <1>7, <1>8, QuietKept

LEMMA PersistCursorQuiet ==
    ASSUME QuietNode, Inv, Traced, QuietInv, NEW w \in Worker, PersistCursor(w)
    PROVE  QuietInv'
<1>1. /\ pass \in [Worker -> Pass] /\ pass[w].pc = "cursor" /\ "leave" \in PC
      /\ Goto(w, "leave")
  BY DEF Inv, Shape, PersistCursor, At, PC
<1>2. pass'[w].pc = "leave" /\ \A v \in Worker : v # w => pass'[v] = pass[v]
  BY <1>1, GotoLocals
<1>3. UNCHANGED <<inflight, chain, chainHeight, lastScanned, scanned, cache>>
  BY DEF PersistCursor, node
<1>4. LastCached
  BY <1>1, CachedOutside DEF Behind, Cutting, Scanning
<1>5. \A v \in Worker : v # w => pass[v].pc = "idle"
  BY <1>1, Alone
<1>6. QuietPass(w)'
  BY <1>2 DEF QuietPass, Behind, Cutting, Scanning, Stored
<1>7. pass[w].pc \notin Stored
  BY <1>1 DEF Stored
<1>. QED  BY <1>2, <1>3, <1>4, <1>5, <1>6, <1>7, QuietKept

\* The node reorganises while nobody looks: nothing of the bridge moves.
LEMMA NodeStepQuiet ==
    ASSUME QuietNode, Inv, Traced, QuietInv, NodeStep
    PROVE  QuietInv'
<1>1. \A w \in Worker : pass[w].pc = "idle"
  BY DEF NodeStep, QuietNode, Inv, GateInv
<1>2. UNCHANGED <<inflight, chainHeight, lastScanned, scanned, cache, pass>>
  BY DEF NodeStep, cursor
<1>3. \A w \in Worker : QuietPass(w)'
  BY <1>1, <1>2 DEF QuietPass, Behind, Cutting, Scanning, Stored
<1>4. CacheFollows' /\ OnOneChain(scanned)' /\ (Somewhere(Behind) \/ LastCached)'
  BY <1>2 DEF QuietInv, CacheFollows, OnOneChain, Somewhere, LastCached
<1>. QED  BY <1>2, <1>3, <1>4 DEF QuietInv

LEMMA QuietNext ==
    ASSUME QuietNode, Inv, Traced, QuietInv, [Next]_vars
    PROVE  QuietInv'
<1>1. ASSUME NEW w \in Worker, Enter(w) PROVE QuietInv'
  BY <1>1, EnterQuiet
<1>2. ASSUME NEW w \in Worker, PassStep(w) PROVE QuietInv'
  BY <1>2, CountQuiet, ProbeQuiet, DetectQuiet, FindForkQuiet, InvalidateQuiet,
     TruncateQuiet, SaveTrimmedIndexQuiet, RewindQuiet, TargetQuiet, FetchQuiet,
     CachePutQuiet, AdvanceEmptyQuiet, AppendFileQuiet, ExtendBufferQuiet,
     AddIndexQuiet, AdvanceQuiet, PersistIndexQuiet, PersistCursorQuiet, LeaveQuiet
  DEF PassStep
<1>3. ~ProxyFetch /\ ~ProxyInsert
  BY DEF ProxyFetch, ProxyInsert, QuietNode, QuietInv
<1>4. CASE UNCHANGED vars
  <2>1. \A w \in Worker : QuietPass(w)'
    BY <1>4 DEF vars, QuietInv, QuietPass, OnNode, LastCached, NodeHash
  <2>2. CacheFollows' /\ OnOneChain(scanned)' /\ (Somewhere(Behind) \/ LastCached)'
    BY <1>4 DEF vars, QuietInv, CacheFollows, OnOneChain, Somewhere, LastCached
  <2>. QED  BY <1>4, <2>1, <2>2 DEF vars, QuietInv
<1>. QED  BY <1>1, <1>2, <1>3, <1>4, NodeStepQuiet DEF Next

----------------------------------------------------------------------------
(* The theorems.                                                           *)

LEMMA QuietInvariance == ASSUME QuietNode PROVE Spec => [](Inv /\ Traced /\ QuietInv)
<1>1. Init => Inv /\ Traced /\ QuietInv
  BY InitInv, TracedInit, QuietInit
<1>2. Inv /\ Traced /\ QuietInv /\ [Next]_vars => (Inv /\ Traced /\ QuietInv)'
  BY NextInv, TracedNext, QuietNext
<1>. QED  BY <1>1, <1>2, PTL DEF Spec

\* What has been scanned is one chain: between any two blocks the bridge
\* recorded next to each other, the upper one names the lower as its parent,
\* however often and to whichever of its chains the node reorganised.
THEOREM ChainScanned == ASSUME QuietNode PROVE Spec => []ParentLinked
<1>1. Inv /\ Traced /\ QuietInv => ParentLinked
  BY DEF QuietInv, ParentLinked
<1>. QED  BY <1>1, QuietInvariance, PTL

\* Past its reorg check a pass stands on the node's chain, to the last block.
THEOREM ScansTheNode == ASSUME QuietNode PROVE Spec => []ScanOnChain
<1>1. Inv /\ Traced /\ QuietInv => ScanOnChain
  <2>. SUFFICES ASSUME Inv, Traced, QuietInv, NEW w \in Worker,
                       pass[w].pc \in {"target"} \cup Scanning
                PROVE  /\ Len(scanned) <= Len(chain)
                       /\ \A h \in 1..Len(scanned) : scanned[h] = chain[h]
    BY DEF ScanOnChain, Somewhere, Scanning
  <2>1. OnNode(lastScanned)
    BY DEF QuietInv, QuietPass
  <2>. QED  BY <2>1, QuietRanges DEF OnNode
<1>. QED  BY <1>1, QuietInvariance, PTL

\* find_fork_point goes low enough: at the fork it returns nothing below is
\* an orphan, whatever the cache has evicted and within SEARCH_DEPTH.
THEOREM ForksFound == ASSUME QuietNode PROVE Spec => []ForkPointSound
<1>1. Inv /\ Traced /\ QuietInv => ForkPointSound
  <2>. SUFFICES ASSUME Inv, Traced, QuietInv, NEW w \in Worker, At(w, "invalidate"),
                       NEW h \in 1..Len(scanned), h < pass[w].at
                PROVE  scanned[h] = NodeHash(h)
    BY DEF ForkPointSound
  <2>1. pass[w].at \in Nat /\ OnNode(pass[w].at - 1)
    BY DEF At, Inv, Shape, Pass, QuietInv, QuietPass, Cutting
  <2>2. h \in 1..(pass[w].at - 1) /\ h \in 1..Len(chain)
    BY <2>1, QuietRanges DEF OnNode
  <2>. QED  BY <2>1, <2>2 DEF OnNode, NodeHash
<1>. QED  BY <1>1, QuietInvariance, PTL

\* No reorganisation of the block scanned last gets past the detection.
THEOREM ReorgsNoticed == ASSUME QuietNode PROVE Spec => ReorgNoticed
<1>1. Inv /\ Traced /\ QuietInv /\ [Next]_vars =>
        [\A w \in Worker : Detect(w) /\ pass'[w].pc = "target" /\ lastScanned > 0
           => scanned[lastScanned] = pass[w].seen]_vars
  <2>. SUFFICES ASSUME Inv, Traced, QuietInv, NEW w \in Worker, Detect(w),
                       pass'[w].pc = "target", lastScanned > 0
                PROVE  scanned[lastScanned] = pass[w].seen
    OBVIOUS
  <2>1. /\ pass \in [Worker -> Pass] /\ "fork" \in PC /\ pass[w].at - 1 \in Nat
        /\ At(w, "detect")
    BY DEF Detect, At, Inv, Shape, PassOK, PC
  <2>2. ASSUME DetectReorg(cache, pass[w].at, pass[w].seen) PROVE FALSE
    <3>1. pass'[w].pc = "fork"
      BY <2>1, <2>2, GotoAtLocals DEF Detect
    <3>. QED  BY <3>1
  <2>. QED  BY <2>1, <2>2, DetectSound
<1>. QED  BY <1>1, QuietInvariance, PTL DEF Spec, ReorgNoticed

=============================================================================
