--------------------------- MODULE IndexerLogProofs ---------------------------
(***************************************************************************)
(* What the store holds, for every set of blocks, chains and tasks.        *)
(* When appends and truncations reach the disk, the stream the readers are *)
(* served is whole blocks, and the indexer implements the abstract log.    *)
(* Whatever RPC or disk operation fails and whatever the node and the      *)
(* proxy do, no block is skipped, and shield.bin keeps what is indexed.    *)
(***************************************************************************)
EXTENDS IndexerProofs

WorkingStream == DiskFaults \cap {"append", "truncate"} = {}

Quiet == PC \ {"extend", "add"}

\* The n transactions of block b, then its footer, follow the stream's first
\* off packets and end it.
EndsWith(stream, off, b, n) ==
    /\ Len(stream) = off + n + 1
    /\ \A j \in 1..(n + 1) : stream[off + j] = <<b, IF j <= n THEN j ELSE 0>>

\* While a block is being appended, the stream is cut into blocks up to where
\* the append began, and the rest of the file is that block; at any other
\* time file and buffer are one stream, all of it blocks.
StoreInv ==
    /\ \A w \in Worker : pass[w].pc = "extend" =>
         /\ pass[w].off = Len(buffer)
         /\ file = buffer \o Encode(pass[w].seen, pass[w].got)
         /\ Delimits(index, buffer, Len(buffer))
    /\ \A w \in Worker : pass[w].pc = "add" =>
         /\ pass[w].off \in Nat
         /\ buffer = file
         /\ EndsWith(buffer, pass[w].off, pass[w].seen, pass[w].got)
         /\ Delimits(index, buffer, pass[w].off)
    /\ (\A w \in Worker : pass[w].pc \in Quiet) =>
         /\ buffer = file
         /\ Delimits(index, buffer, Len(buffer))

----------------------------------------------------------------------------
(* Streams.                                                                *)

\* Delimits reads no further than the length it is given.
LEMMA DelimitsPrefix ==
    ASSUME NEW ix \in Seq(IndexEntry), NEW s \in Seq(Packet), NEW t \in Seq(Packet),
           NEW n \in Nat, Delimits(ix, s, n), \A p \in 1..n : t[p] = s[p]
    PROVE  Delimits(ix, t, n)
<1>1. /\ Len(ix) \in Nat /\ \A m \in 1..Len(ix) : ix[m].i \in Nat
  BY EntryTypes
<1>2. ASSUME NEW k \in 1..Len(ix)
      PROVE  WholeBlock(t, ix[k].i, EndOf(ix, k, n), ix[k].block)
  <2>. DEFINE first == ix[k].i
              last  == EndOf(ix, k, n)
  <2>1. WholeBlock(s, first, last, ix[k].block) /\ last <= n
    BY DEF Delimits
  <2>2. first \in Nat /\ last \in Nat
    BY <1>1 DEF EndOf
  <2>. HIDE DEF first, last
  <2>3. \A p \in (first + 1)..last : t[p] = s[p]
    BY <2>1, <2>2
  <2>4. last \in (first + 1)..last
    BY <2>1, <2>2 DEF WholeBlock
  <2>5. WholeBlock(t, first, last, ix[k].block)
    BY <2>1, <2>3, <2>4 DEF WholeBlock
  <2>. QED  BY <2>5 DEF first, last
<1>. QED  BY <1>2 DEF Delimits

\* Within its length, cutting the file and cutting the buffer come to the same.
LEMMA CutsAgree ==
    ASSUME NEW s \in Seq(Packet), NEW n \in 0..Len(s)
    PROVE  /\ SetLen(s, n) = SubSeq(s, 1, n)
           /\ TruncateVec(s, n) = SubSeq(s, 1, n)
           /\ Len(SubSeq(s, 1, n)) = n
<1>1. Len(s) \in Nat /\ n \in Nat /\ n <= Len(s)
  BY LenProperties
<1>2. /\ SubSeq(s, 1, n) \in Seq(Packet) /\ Len(SubSeq(s, 1, n)) = n
      /\ \A p \in 1..n : SubSeq(s, 1, n)[p] = s[p]
  <2>1. \A e \in 1..n : e \in 1..Len(s)
    BY <1>1
  <2>2. \A p \in 1..Len(s) : s[p] \in Packet
    BY ElementOfSeq
  <2>. QED  BY <1>1, <2>1, <2>2, SubSeqProperties
<1>3. /\ SetLen(s, n) \in Seq(Packet) /\ Len(SetLen(s, n)) = n
      /\ \A p \in 1..n : SetLen(s, n)[p] = s[p]
  <2>1. \A p \in 1..n : p <= Len(s) /\ s[p] \in Packet
    BY <1>1, ElementOfSeq
  <2>2. SetLen(s, n) = [p \in 1..n |-> s[p]]
    BY <2>1 DEF SetLen
  <2>. QED  BY <1>1, <2>1, <2>2
<1>4. SetLen(s, n) = SubSeq(s, 1, n)
  BY <1>2, <1>3, SeqEqual
<1>5. TruncateVec(s, n) = SubSeq(s, 1, n)
  <2>1. CASE n < Len(s)
    BY <2>1 DEF TruncateVec
  <2>2. CASE n = Len(s)
    <3>1. SubSeq(s, 1, n) = s
      BY <1>1, <1>2, <2>2, SeqEqual
    <3>. QED  BY <2>2, <3>1, <1>1 DEF TruncateVec
  <2>. QED  BY <1>1, <2>1, <2>2
<1>. QED  BY <1>2, <1>4, <1>5

\* A stream with a block's packets after it.
LEMMA EncodedAtEnd ==
    ASSUME NEW s \in Seq(Packet), NEW b \in Block, NEW n \in Nat
    PROVE  LET t == s \o Encode(b, n)
           IN  /\ t \in Seq(Packet)
               /\ EndsWith(t, Len(s), b, n)
               /\ \A p \in 1..Len(s) : t[p] = s[p]
<1>. DEFINE e == Encode(b, n)
<1>1. /\ e \in Seq(Packet) /\ Len(e) = n + 1
      /\ \A j \in 1..(n + 1) : e[j] = <<b, IF j <= n THEN j ELSE 0>>
  BY EncodeProperties
<1>. HIDE DEF e
<1>2. /\ s \o e \in Seq(Packet) /\ Len(s \o e) = Len(s) + Len(e)
      /\ \A p \in 1..(Len(s) + Len(e)) :
           (s \o e)[p] = IF p <= Len(s) THEN s[p] ELSE e[p - Len(s)]
  BY <1>1, ConcatProperties
<1>3. Len(s) \in Nat
  BY LenProperties
<1>4. \A p \in 1..Len(s) : (s \o e)[p] = s[p]
  BY <1>1, <1>2, <1>3
<1>5. ASSUME NEW j \in 1..(n + 1) PROVE (s \o e)[Len(s) + j] = e[j]
  <2>1. /\ Len(s) + j \in 1..(Len(s) + Len(e)) /\ ~(Len(s) + j <= Len(s))
        /\ (Len(s) + j) - Len(s) = j
    BY <1>1, <1>3
  <2>. QED  BY <1>2, <2>1
<1>6. Len(s \o e) = Len(s) + n + 1
  BY <1>1, <1>2, <1>3
<1>. QED  BY <1>1, <1>2, <1>4, <1>5, <1>6 DEF EndsWith, e

----------------------------------------------------------------------------
(* Steps that leave the stream and its index alone.                        *)

\* Only w moves, to a label outside the append.
Quietly(w) ==
    /\ pass'[w].pc \in Quiet
    /\ \A v \in Worker : v # w => pass'[v] = pass[v]

LEMMA QuietGoto ==
    ASSUME pass \in [Worker -> Pass], NEW w \in Worker, NEW label \in Quiet
    PROVE  /\ Goto(w, label) => Quietly(w)
           /\ \A h : GotoAt(w, label, h) => Quietly(w)
           /\ \A h, b : GotoSeeing(w, label, h, b) => Quietly(w)
           /\ \A n : Step(w, [pass[w] EXCEPT !.pc = label, !.got = n]) => Quietly(w)
           /\ \A d : Step(w, [pass[w] EXCEPT !.pc = label, !.dirty = d]) => Quietly(w)
BY ZenonT(40) DEF Quietly, Goto, GotoAt, GotoSeeing, Step, Pass

LEMMA QuietSteps ==
    ASSUME Inv, NEW w \in Worker,
           \/ Enter(w) \/ Count(w) \/ Leave(w) \/ Probe(w) \/ Detect(w)
           \/ FindFork(w) \/ Invalidate(w) \/ SaveTrimmedIndex(w) \/ Rewind(w)
           \/ Target(w) \/ Fetch(w) \/ CachePut(w) \/ AdvanceEmpty(w)
           \/ Advance(w) \/ PersistIndex(w) \/ PersistCursor(w)
    PROVE  pass[w].pc \in Quiet /\ Quietly(w) /\ UNCHANGED <<index, buffer, file>>
<1>1. pass \in [Worker -> Pass]
  BY DEF Inv, Shape
<1>2. /\ {"count", "leave", "target", "detect", "probe", "fork", "invalidate",
          "truncate", "rewind", "exit", "fetch", "decoded", "cacheput",
          "cursor"} \subseteq Quiet
      /\ pass[w].pc \in Quiet
  BY DEF Quiet, PC, At, Enter, Count, Leave, Probe, Detect, FindFork, Invalidate,
     SaveTrimmedIndex, Rewind, Target, Fetch, CachePut, AdvanceEmpty, Advance,
     PersistIndex, PersistCursor
<1>3. UNCHANGED <<index, buffer, file>>
  BY DEF store, Enter, Count, Leave, Probe, Detect, FindFork, Invalidate,
     SaveTrimmedIndex, Rewind, Target, Fetch, CachePut, AdvanceEmpty, Advance,
     PersistIndex, PersistCursor
<1>4. CASE Enter(w)
  BY <1>1, <1>2, <1>3, <1>4, QuietGoto DEF Enter
<1>5. CASE Count(w)
  BY <1>1, <1>2, <1>3, <1>5, QuietGoto DEF Count
<1>6. CASE Leave(w)
  BY <1>1, <1>2, <1>3, <1>6 DEF Leave, Step, IdlePass, Quietly, Quiet, PC
<1>7. CASE Probe(w)
  BY <1>1, <1>2, <1>3, <1>7, QuietGoto DEF Probe
<1>8. CASE Detect(w)
  BY <1>1, <1>2, <1>3, <1>8, QuietGoto DEF Detect
<1>9. CASE FindFork(w)
  BY <1>1, <1>2, <1>3, <1>9, QuietGoto DEF FindFork
<1>10. CASE Invalidate(w)
  BY <1>1, <1>2, <1>3, <1>10, QuietGoto DEF Invalidate
<1>11. CASE SaveTrimmedIndex(w)
  BY <1>1, <1>2, <1>3, <1>11, QuietGoto DEF SaveTrimmedIndex
<1>12. CASE Rewind(w)
  BY <1>1, <1>2, <1>3, <1>12, QuietGoto DEF Rewind
<1>13. CASE Target(w)
  BY <1>1, <1>2, <1>3, <1>13, QuietGoto DEF Target
<1>14. CASE Fetch(w)
  BY <1>1, <1>2, <1>3, <1>14, QuietGoto DEF Fetch
<1>15. CASE CachePut(w)
  BY <1>1, <1>2, <1>3, <1>15, QuietGoto DEF CachePut
<1>16. CASE AdvanceEmpty(w)
  BY <1>1, <1>2, <1>3, <1>16, QuietGoto DEF AdvanceEmpty
<1>17. CASE Advance(w)
  BY <1>1, <1>2, <1>3, <1>17, QuietGoto DEF Advance
<1>18. CASE PersistIndex(w)
  BY <1>1, <1>2, <1>3, <1>18, QuietGoto DEF PersistIndex
<1>19. CASE PersistCursor(w)
  BY <1>1, <1>2, <1>3, <1>19, QuietGoto DEF PersistCursor
<1>. QED
  BY <1>2, <1>3, <1>4, <1>5, <1>6, <1>7, <1>8, <1>9, <1>10, <1>11,
     <1>12, <1>13, <1>14, <1>15, <1>16, <1>17, <1>18, <1>19

LEMMA QuietStepsStore ==
    ASSUME StoreInv, NEW w \in Worker,
           pass[w].pc \in Quiet, Quietly(w),
           UNCHANGED <<index, buffer, file>>
    PROVE  StoreInv'
<1>1. /\ \A v \in Worker : pass'[v].pc \in {"extend", "add"} => pass'[v] = pass[v]
      /\ \A v \in Worker : pass[v].pc \notin Quiet => pass'[v].pc \notin Quiet
  BY DEF Quiet, Quietly
<1>. QED  BY <1>1 DEF StoreInv

----------------------------------------------------------------------------
(* Steps that write.                                                       *)

\* What a step that leaves no append under way has to show.
LEMMA StoreSettled ==
    ASSUME Inv, NEW w \in Worker, pass[w].pc # "idle", Quietly(w),
           buffer' = file', Delimits(index', buffer', Len(buffer'))
    PROVE  StoreInv'
<1>1. \A v \in Worker : pass'[v].pc \in Quiet
  BY Alone DEF Quietly, Quiet, PC
<1>2. \A v \in Worker : pass'[v].pc # "extend" /\ pass'[v].pc # "add"
  BY <1>1 DEF Quiet
<1>. QED  BY <1>2 DEF StoreInv

LEMMA TruncateStore ==
    ASSUME WorkingStream, Inv, StoreInv, NEW w \in Worker, Truncate(w)
    PROVE  StoreInv'
<1>. DEFINE fork == pass[w].at
            off  == OffsetForHeight(index, fork)
<1>1. /\ pass \in [Worker -> Pass] /\ pass[w].pc = "truncate" /\ fork \in Nat
      /\ index \in Seq(IndexEntry) /\ buffer \in Seq(Packet)
      /\ {"target", "saveindex"} \subseteq Quiet
  BY DEF Inv, Shape, Truncate, At, Pass, PC, Quiet
<1>2. \A v \in Worker : pass[v].pc \in Quiet
  BY <1>1, Alone DEF Quiet, PC
<1>3. buffer = file /\ Delimits(index, buffer, Len(buffer))
  BY <1>2 DEF StoreInv
<1>4. CASE Goto(w, "target") /\ UNCHANGED <<file, buffer, index>>
  <2>1. Quietly(w)
    BY <1>1, <1>4, QuietGoto
  <2>. QED  BY <1>1, <1>3, <1>4, <2>1, StoreSettled
<1>5. CASE /\ off # NoOffset
           /\ file' = SetLen(file, off)
           /\ buffer' = TruncateVec(buffer, off)
           /\ index' = RemoveFrom(index, fork)
           /\ Goto(w, "saveindex")
  <2>1. Quietly(w)
    BY <1>1, <1>5, QuietGoto
  <2>2. /\ off \in 0..Len(buffer)
        /\ Delimits(RemoveFrom(index, fork), SubSeq(buffer, 1, off), off)
    BY <1>1, <1>3, <1>5, DelimitsCut
  <2>. HIDE DEF off
  <2>3. /\ file' = SubSeq(buffer, 1, off) /\ buffer' = SubSeq(buffer, 1, off)
        /\ Len(buffer') = off
    BY <1>1, <1>3, <1>5, <2>2, CutsAgree
  <2>. QED  BY <1>1, <1>5, <2>1, <2>2, <2>3, StoreSettled
<1>6. ~MayFail("truncate")
  BY DEF WorkingStream, MayFail
<1>. QED  BY <1>4, <1>5, <1>6 DEF Truncate

LEMMA AppendFileStore ==
    ASSUME WorkingStream, Inv, StoreInv, NEW w \in Worker, AppendFile(w)
    PROVE  StoreInv'
<1>. DEFINE next == [[pass[w] EXCEPT !.pc = "extend"] EXCEPT !.off = Len(file)]
<1>1. /\ pass \in [Worker -> Pass] /\ pass[w].pc = "decoded" /\ pass[w] \in Pass
      /\ "advance" \in Quiet
  BY DEF Inv, Shape, AppendFile, At, PC, Quiet
<1>2. /\ \A v \in Worker : v # w => pass[v].pc = "idle"
      /\ \A v \in Worker : pass[v].pc \in Quiet
  BY <1>1, Alone DEF Quiet, PC
<1>3. buffer = file /\ Delimits(index, buffer, Len(buffer))
  BY <1>2 DEF StoreInv
<1>4. UNCHANGED <<index, buffer>>
  BY DEF AppendFile
<1>5. CASE Goto(w, "advance") /\ UNCHANGED file
  <2>1. Quietly(w)
    BY <1>1, <1>5, QuietGoto
  <2>. QED  BY <1>1, <1>3, <1>4, <1>5, <2>1, StoreSettled
<1>6. CASE /\ file' = file \o Encode(pass[w].seen, pass[w].got)
           /\ Step(w, next)
  <2>1. /\ next.pc = "extend" /\ next.off = Len(file)
        /\ next.seen = pass[w].seen /\ next.got = pass[w].got
    BY <1>1 DEF Pass
  <2>. HIDE DEF next
  <2>2. pass'[w] = next /\ \A v \in Worker : v # w => pass'[v].pc = "idle"
    BY <1>1, <1>2, <1>6 DEF Step
  <2>3. /\ pass'[w].off = Len(buffer')
        /\ file' = buffer' \o Encode(pass'[w].seen, pass'[w].got)
        /\ Delimits(index', buffer', Len(buffer'))
    BY <1>3, <1>4, <1>6, <2>1, <2>2
  <2>4. \A v \in Worker : pass'[v].pc = "extend" => v = w
    BY <2>2
  <2>5. (\A v \in Worker : pass'[v].pc # "add") /\ pass'[w].pc \notin Quiet
    BY <2>1, <2>2 DEF Quiet
  <2>. QED  BY <2>3, <2>4, <2>5 DEF StoreInv
<1>7. ~MayFail("append")
  BY DEF WorkingStream, MayFail
<1>. QED  BY <1>5, <1>6, <1>7 DEF AppendFile

LEMMA ExtendBufferStore ==
    ASSUME Inv, StoreInv, NEW w \in Worker, ExtendBuffer(w)
    PROVE  StoreInv'
<1>. DEFINE b == pass[w].seen
            n == pass[w].got
<1>1. /\ pass \in [Worker -> Pass] /\ pass[w].pc = "extend"
      /\ b \in Block /\ n \in Nat
      /\ index \in Seq(IndexEntry) /\ buffer \in Seq(Packet) /\ Len(buffer) \in Nat
      /\ Goto(w, "add") /\ "add" \in PC
  BY LenProperties DEF Inv, Shape, PassOK, ExtendBuffer, At, Scanning, Pass, PC
<1>2. \A v \in Worker : v # w => pass[v].pc = "idle"
  BY <1>1, Alone
<1>3. /\ buffer' = buffer \o Encode(b, n)
      /\ UNCHANGED <<index, file>>
  BY DEF ExtendBuffer
<1>4. /\ pass[w].off = Len(buffer) /\ file = buffer \o Encode(b, n)
      /\ Delimits(index, buffer, Len(buffer))
  BY <1>1 DEF StoreInv
<1>5. /\ pass'[w].pc = "add" /\ pass'[w].seen = b /\ pass'[w].got = n
      /\ pass'[w].off = Len(buffer)
      /\ \A v \in Worker : v # w => pass'[v].pc = "idle"
  BY <1>1, <1>2, <1>4, GotoLocals
<1>. HIDE DEF b, n
<1>6. /\ buffer' \in Seq(Packet)
      /\ EndsWith(buffer', Len(buffer), b, n)
      /\ \A p \in 1..Len(buffer) : buffer'[p] = buffer[p]
  BY <1>1, <1>3, EncodedAtEnd
<1>7. Delimits(index, buffer', Len(buffer))
  BY <1>1, <1>4, <1>6, DelimitsPrefix
<1>8. /\ pass'[w].off \in Nat
      /\ buffer' = file'
      /\ EndsWith(buffer', pass'[w].off, pass'[w].seen, pass'[w].got)
      /\ Delimits(index', buffer', pass'[w].off)
  BY <1>1, <1>3, <1>4, <1>5, <1>6, <1>7
<1>9. \A v \in Worker : pass'[v].pc = "add" => v = w
  BY <1>5
<1>10. (\A v \in Worker : pass'[v].pc # "extend") /\ pass'[w].pc \notin Quiet
  BY <1>5 DEF Quiet
<1>. QED  BY <1>8, <1>9, <1>10 DEF StoreInv

LEMMA AddIndexStore ==
    ASSUME Inv, StoreInv, NEW w \in Worker, AddIndex(w)
    PROVE  StoreInv'
<1>. DEFINE b   == pass[w].seen
            n   == pass[w].got
            off == pass[w].off
<1>1. /\ pass \in [Worker -> Pass] /\ pass[w].pc = "add"
      /\ b \in Block /\ n \in Nat /\ HeightOf[b] = lastScanned + 1
      /\ lastScanned \in Nat
      /\ index \in Seq(IndexEntry) /\ buffer \in Seq(Packet)
      /\ "advance" \in Quiet
  BY DEF Inv, Shape, PassOK, AddIndex, At, Scanning, Pass, PC, Quiet
<1>2. /\ off \in Nat /\ buffer = file
      /\ EndsWith(buffer, off, b, n)
      /\ Delimits(index, buffer, off)
  BY <1>1 DEF StoreInv
<1>3. \A k \in 1..Len(index) : index[k].block < HeightOf[b]
  <2>1. IndexedUpTo(lastScanned) /\ \A k \in 1..Len(index) : index[k].block \in Nat
    BY <1>1, Alone, IndexBehind, EntryTypes
  <2>. QED  BY <1>1, <2>1 DEF IndexedUpTo
<1>4. UNCHANGED <<buffer, file>>
  BY DEF AddIndex
<1>5. /\ index' = AddEntry(index, HeightOf[b], off) /\ Goto(w, "advance")
  <2>1. off # NoOffset
    BY <1>2 DEF NoOffset
  <2>. QED  BY <2>1 DEF AddIndex
<1>6. Quietly(w)
  BY <1>1, <1>5, QuietGoto
<1>. HIDE DEF b, n, off
<1>7. index' = Append(index, [block |-> HeightOf[b], i |-> off])
  <2>1. HeightOf[b] \notin HeightsIn(index)
    <3>1. \A k \in 1..Len(index) : index[k].block # HeightOf[b]
      BY <1>1, <1>3, EntryTypes
    <3>. QED  BY <3>1 DEF HeightsIn
  <2>. QED  BY <1>5, <2>1 DEF AddEntry
<1>8. Delimits(index', buffer, Len(buffer))
  BY <1>1, <1>2, <1>3, <1>7, DelimitsAppend DEF EndsWith
<1>. QED  BY <1>1, <1>2, <1>4, <1>6, <1>8, StoreSettled

----------------------------------------------------------------------------
(* The theorems.                                                           *)

LEMMA StoreNext ==
    ASSUME WorkingStream, Inv, StoreInv, [Next]_vars PROVE StoreInv'
<1>1. ASSUME NEW w \in Worker, Enter(w) \/ PassStep(w) PROVE StoreInv'
  <2>1. CASE Truncate(w)
    BY <2>1, TruncateStore
  <2>2. CASE AppendFile(w)
    BY <2>2, AppendFileStore
  <2>3. CASE ExtendBuffer(w)
    BY <2>3, ExtendBufferStore
  <2>4. CASE AddIndex(w)
    BY <2>4, AddIndexStore
  <2>. QED
    BY <1>1, <2>1, <2>2, <2>3, <2>4, QuietSteps, QuietStepsStore DEF PassStep
<1>2. CASE UNCHANGED <<pass, index, buffer, file>>
  BY <1>2 DEF StoreInv
<1>. QED
  BY <1>1, <1>2 DEF Next, NodeStep, ProxyFetch, ProxyInsert, store, vars

LEMMA StoreInvariance ==
    ASSUME WorkingStream PROVE Spec => [](Inv /\ StoreInv)
<1>1. Init => StoreInv
  <2>. SUFFICES ASSUME Init PROVE StoreInv
    OBVIOUS
  <2>1. buffer = <<>> /\ file = <<>> /\ index = <<>>
        /\ \A w \in Worker : pass[w].pc = "idle"
    BY DEF Init, IdlePass
  <2>2. Delimits(index, buffer, Len(buffer))
    BY <2>1 DEF Delimits, AscendingHeights, AscendingOffsets
  <2>. QED  BY <2>1, <2>2 DEF StoreInv
<1>2. Inv /\ StoreInv /\ [Next]_vars => StoreInv'
  BY StoreNext
<1>. QED  BY <1>1, <1>2, InitInv, NextInv, PTL DEF Spec

\* What StoreInv says of the operators the properties are stated with.
LEMMA StoreInvMeans ==
    ASSUME Inv, StoreInv PROVE StreamWellFormed /\ BufferMirrorsFile
<1>1. CASE \A w \in Worker : pass[w].pc \in Quiet
  <2>1. buffer = file /\ Delimits(index, buffer, Len(buffer))
    BY <1>1 DEF StoreInv
  <2>2. ~Somewhere({"extend", "add"})
    BY <1>1 DEF Somewhere, Quiet
  <2>. QED
    BY <2>1, <2>2 DEF StreamWellFormed, BufferMirrorsFile, Committed
<1>2. ASSUME NEW w \in Worker, pass[w].pc \notin Quiet
      PROVE  StreamWellFormed /\ BufferMirrorsFile
  <2>1. pass[w].pc \in {"extend", "add"}
    BY <1>2 DEF Inv, Shape, Pass, Quiet
  <2>2. Running = w /\ Somewhere({"extend", "add"})
    BY <2>1, Alone DEF Running, Somewhere
  <2>3. Committed = pass[w].off
    BY <2>2 DEF Committed
  <2>4. CASE pass[w].pc = "extend"
    <3>1. pass[w].off = Len(buffer) /\ Delimits(index, buffer, Len(buffer))
      BY <2>4 DEF StoreInv
    <3>2. Somewhere({"extend"})
      BY <2>4 DEF Somewhere
    <3>. QED  BY <2>3, <3>1, <3>2 DEF StreamWellFormed, BufferMirrorsFile
  <2>5. CASE pass[w].pc = "add"
    <3>1. buffer = file /\ Delimits(index, buffer, pass[w].off)
      BY <2>5 DEF StoreInv
    <3>. QED  BY <2>3, <3>1 DEF StreamWellFormed, BufferMirrorsFile
  <2>. QED  BY <2>1, <2>4, <2>5
<1>. QED  BY <1>1, <1>2

\* When appends and truncations reach the disk, the index cuts the served
\* stream into whole blocks of ascending height, at every step of every pass,
\* whatever the RPCs, the node, the proxy and the other tasks do.
THEOREM StreamSound ==
    ASSUME WorkingStream PROVE Spec => []StreamWellFormed
<1>1. Inv /\ StoreInv => StreamWellFormed
  BY StoreInvMeans
<1>. QED  BY <1>1, StoreInvariance, PTL

\* And shield.bin and the buffer hold the same packets, but while a block is
\* being appended.
THEOREM MirrorSound ==
    ASSUME WorkingStream PROVE Spec => []BufferMirrorsFile
<1>1. Inv /\ StoreInv => BufferMirrorsFile
  BY StoreInvMeans
<1>. QED  BY <1>1, StoreInvariance, PTL

----------------------------------------------------------------------------
(* Nothing is skipped.                                                     *)

\* A block served out of the cache at verbosity 1 is decoded with one RPC a
\* transaction, and one that fails leaves its transaction out: either no such
\* entry comes into the cache, or RPCs do not fail.
WholeReads == 1 \notin ProxyVerbosity \/ ~RpcMayFail

Decoded == {"cacheput", "decoded", "extend", "add"}

\* No block is cached by the ids of its transactions, nor about to be.
NoIds ==
    /\ \A e \in cache.entries : e[2] # 1
    /\ inflight # NoRequest => inflight[2] # 1

\* What is decoded is the whole block, and what is appended is not empty.
DecodeInv ==
    /\ 1 \notin ProxyVerbosity => NoIds
    /\ \A w \in Worker :
         /\ pass[w].pc \in Decoded => pass[w].got = ShieldTxs[pass[w].seen]
         /\ pass[w].pc \in {"extend", "add", "advance"} =>
              ShieldTxs[pass[w].seen] > 0

\* The heights of the sequence s of blocks that the index has to name.
Sought(s) == {h \in 1..Len(s) : ShieldTxs[s[h]] > 0}

\* Labels at which neither decoded transactions nor a store ahead of the
\* scanned sequence are pending.
Plain == PC \ (Decoded \cup {"advance", "saveindex", "rewind"})

----------------------------------------------------------------------------
(* Steps between plain labels.                                             *)

Plainly(w) ==
    /\ pass'[w].pc \in Plain
    /\ \A v \in Worker : v # w => pass'[v] = pass[v]

LEMMA PlainGoto ==
    ASSUME pass \in [Worker -> Pass], NEW w \in Worker, NEW label \in Plain
    PROVE  /\ Goto(w, label) => Plainly(w)
           /\ \A h : GotoAt(w, label, h) => Plainly(w)
           /\ \A h, b : GotoSeeing(w, label, h, b) => Plainly(w)
           /\ \A d : Step(w, [pass[w] EXCEPT !.pc = label, !.dirty = d]) => Plainly(w)
BY ZenonT(40) DEF Plainly, Goto, GotoAt, GotoSeeing, Step, Pass

PlainStep(w) ==
    \/ Enter(w) \/ Count(w) \/ Leave(w) \/ Probe(w) \/ Detect(w) \/ FindFork(w)
    \/ Invalidate(w) \/ Target(w) \/ PersistIndex(w) \/ PersistCursor(w)

LEMMA PlainSteps ==
    ASSUME Inv, NEW w \in Worker, PlainStep(w)
    PROVE  /\ pass[w].pc \in Plain /\ Plainly(w)
           /\ UNCHANGED <<index, buffer, file, scanned, inflight>>
<1>1. pass \in [Worker -> Pass]
  BY DEF Inv, Shape
<1>2. /\ {"count", "leave", "target", "detect", "probe", "fork", "invalidate",
          "truncate", "exit", "fetch", "cursor"} \subseteq Plain
      /\ pass[w].pc \in Plain
  BY DEF Plain, Decoded, PC, At, PlainStep, Enter, Count, Leave, Probe, Detect,
     FindFork, Invalidate, Target, PersistIndex, PersistCursor
<1>3. UNCHANGED <<index, buffer, file, scanned, inflight>>
  BY DEF store, cursor, node, PlainStep, Enter, Count, Leave, Probe, Detect,
     FindFork, Invalidate, Target, PersistIndex, PersistCursor
<1>4. CASE Enter(w)
  BY <1>1, <1>2, <1>3, <1>4, PlainGoto DEF Enter
<1>5. CASE Count(w)
  BY <1>1, <1>2, <1>3, <1>5, PlainGoto DEF Count
<1>6. CASE Leave(w)
  BY <1>1, <1>2, <1>3, <1>6 DEF Leave, Step, IdlePass, Plainly, Plain, Decoded, PC
<1>7. CASE Probe(w)
  BY <1>1, <1>2, <1>3, <1>7, PlainGoto DEF Probe
<1>8. CASE Detect(w)
  BY <1>1, <1>2, <1>3, <1>8, PlainGoto DEF Detect
<1>9. CASE FindFork(w)
  BY <1>1, <1>2, <1>3, <1>9, PlainGoto DEF FindFork
<1>10. CASE Invalidate(w)
  BY <1>1, <1>2, <1>3, <1>10, PlainGoto DEF Invalidate
<1>11. CASE Target(w)
  BY <1>1, <1>2, <1>3, <1>11, PlainGoto DEF Target
<1>12. CASE PersistIndex(w)
  BY <1>1, <1>2, <1>3, <1>12, PlainGoto DEF PersistIndex
<1>13. CASE PersistCursor(w)
  BY <1>1, <1>2, <1>3, <1>13, PlainGoto DEF PersistCursor
<1>. QED
  BY <1>2, <1>3, <1>4, <1>5, <1>6, <1>7, <1>8, <1>9, <1>10, <1>11,
     <1>12, <1>13 DEF PlainStep

----------------------------------------------------------------------------
(* What is decoded.                                                        *)

LEMMA InsertEntries ==
    ASSUME NEW c \in CacheType, NEW b \in Block, NEW v
    PROVE  \A e \in Insert(c, b, v).entries : e \in c.entries \/ e = <<b, v>>
BY DEF Insert, Evict, Forget

\* A step that leaves the cache's verbosities alone has to answer for the
\* locals of the task that moves only.
LEMMA DecodeKept ==
    ASSUME Inv, DecodeInv, NEW w \in Worker,
           \A v \in Worker : v # w => pass[v].pc = "idle" /\ pass'[v] = pass[v],
           UNCHANGED inflight,
           \A e \in cache'.entries : e \in cache.entries \/ e[2] # 1,
           pass'[w].pc \in Decoded => pass'[w].got = ShieldTxs[pass'[w].seen],
           pass'[w].pc \in {"extend", "add", "advance"} =>
             ShieldTxs[pass'[w].seen] > 0
    PROVE  DecodeInv'
<1>1. \A v \in Worker : v # w => pass'[v].pc = "idle"
  OBVIOUS
<1>. QED  BY <1>1 DEF DecodeInv, NoIds, Decoded

LEMMA DecodeFetch ==
    ASSUME NoIds \/ ~RpcMayFail, Inv, DecodeInv, NEW w \in Worker, Fetch(w)
    PROVE  DecodeInv'
<1>. DEFINE b     == pass[w].seen
            total == ShieldTxs[b]
            To(label, n) == Step(w, [pass[w] EXCEPT !.pc = label, !.got = n])
<1>1. /\ pass \in [Worker -> Pass] /\ pass[w].pc = "fetch" /\ pass[w] \in Pass
      /\ b \in Block /\ total \in Nat
  BY ChainAssumption DEF Inv, Shape, PassOK, Fetch, At, Scanning
<1>2. \A v \in Worker : v # w => pass[v].pc = "idle"
  BY <1>1, Alone
<1>3. ~(ServedVerbosity(cache, b, 2) = 1 /\ RpcMayFail /\ Hit(cache, b, 2))
  <2>1. ASSUME NoIds, Hit(cache, b, 2)
        PROVE  ServedVerbosity(cache, b, 2) # 1
    <3>1. <<b, 1>> \notin cache.entries
      BY <2>1 DEF NoIds
    <3>2. <<b, 2>> \in cache.entries
      BY <2>1, <3>1 DEF Hit, Fallback
    <3>. QED  BY <3>2 DEF ServedVerbosity
  <2>. QED  BY <2>1
<1>4. \/ Goto(w, "exit")
      \/ To("decoded", total)
      \/ To("cacheput", total)
  <2>1. CASE /\ Hit(cache, b, 2)
             /\ \E n \in IF ServedVerbosity(cache, b, 2) = 1 /\ RpcMayFail
                         THEN 0..total ELSE {total} : To("decoded", n)
    <3>1. \E n \in {total} : To("decoded", n)
      BY <1>3, <2>1
    <3>. HIDE DEF To, total
    <3>. QED  BY <3>1
  <2>. QED  BY <2>1 DEF Fetch
<1>5. ASSUME NEW label \in {"decoded", "cacheput"}, To(label, total)
      PROVE  /\ pass'[w].pc = label /\ pass'[w].seen = b /\ pass'[w].got = total
             /\ \A v \in Worker : v # w => pass'[v] = pass[v]
  <2>. DEFINE next == [pass[w] EXCEPT !.pc = label, !.got = total]
  <2>1. next \in Pass /\ next.pc = label /\ next.seen = b /\ next.got = total
    BY <1>1 DEF Pass, PC
  <2>2. Step(w, next)
    BY <1>5
  <2>. HIDE DEF next
  <2>. QED  BY <1>1, <2>1, <2>2, StepLocals
<1>6. CASE Goto(w, "exit")
  <2>1. pass'[w].pc = "exit" /\ \A v \in Worker : v # w => pass'[v] = pass[v]
    BY <1>1, <1>6, GotoLocals DEF PC
  <2>. QED  BY <1>2, <2>1, DecodeKept DEF Fetch, node, Decoded
<1>7. ASSUME NEW label \in {"decoded", "cacheput"}, To(label, total)
      PROVE  DecodeInv'
  <2>1. /\ pass'[w].pc = label /\ pass'[w].seen = b /\ pass'[w].got = total
        /\ \A v \in Worker : v # w => pass'[v] = pass[v]
    BY <1>5, <1>7
  <2>. QED  BY <1>2, <2>1, DecodeKept DEF Fetch, node
<1>. QED  BY <1>4, <1>6, <1>7

LEMMA DecodeAppendFile ==
    ASSUME Inv, DecodeInv, NEW w \in Worker, AppendFile(w)
    PROVE  DecodeInv' /\ pass'[w].pc = "extend" /\ pass'[w].seen = pass[w].seen
<1>1. /\ pass \in [Worker -> Pass] /\ pass[w].pc = "decoded" /\ pass[w] \in Pass
      /\ pass[w].got > 0 /\ pass[w].got = ShieldTxs[pass[w].seen]
      /\ Len(file) \in Nat
  BY LenProperties DEF Inv, Shape, AppendFile, At, DecodeInv, Decoded
<1>2. \A v \in Worker : v # w => pass[v].pc = "idle"
  BY <1>1, Alone
<1>3. HeightOf[pass[w].seen] \notin HeightsIn(index)
  <2>1. IndexedUpTo(lastScanned) /\ \A k \in 1..Len(index) : index[k].block \in Nat
    BY <1>1, <1>2, IndexBehind, EntryTypes DEF Inv, Shape
  <2>2. HeightOf[pass[w].seen] = lastScanned + 1 /\ lastScanned \in Nat
    BY <1>1 DEF Inv, Shape, PassOK, Scanning
  <2>. QED  BY <2>1, <2>2 DEF IndexedUpTo, HeightsIn
<1>4. \E off \in Nat \cup {NoOffset} :
        Step(w, [[pass[w] EXCEPT !.pc = "extend"] EXCEPT !.off = off])
  BY <1>1, <1>3 DEF AppendFile
<1>5. PICK off \in Nat \cup {NoOffset} :
        Step(w, [[pass[w] EXCEPT !.pc = "extend"] EXCEPT !.off = off])
  BY <1>4
<1>. DEFINE next == [[pass[w] EXCEPT !.pc = "extend"] EXCEPT !.off = off]
<1>6. /\ next \in Pass /\ next.pc = "extend"
      /\ next.seen = pass[w].seen /\ next.got = pass[w].got
  BY <1>1 DEF Pass, PC
<1>7. Step(w, next)
  BY <1>5
<1>. HIDE DEF next
<1>8. pass'[w] = next /\ \A v \in Worker : v # w => pass'[v] = pass[v]
  BY <1>1, <1>6, <1>7, StepLocals
<1>9. UNCHANGED <<cache, inflight>>
  BY DEF AppendFile, node
<1>. QED  BY <1>1, <1>2, <1>6, <1>8, <1>9, DecodeKept

LEMMA DecodeMoves ==
    ASSUME NoIds \/ ~RpcMayFail, Inv, DecodeInv, [Next]_vars
    PROVE  DecodeInv'
<1>1. pass \in [Worker -> Pass] /\ cache \in CacheType
  BY DEF Inv, Shape
<1>2. ASSUME NEW w \in Worker, PlainStep(w) PROVE DecodeInv'
  <2>1. Plainly(w) /\ UNCHANGED inflight
    BY <1>2, PlainSteps
  <2>2. \A v \in Worker : v # w => pass[v].pc = "idle" /\ pass'[v] = pass[v]
    <3>1. Enter(w) => \A v \in Worker : pass[v].pc = "idle"
      BY DEF Enter, Inv, GateInv
    <3>2. ~Enter(w) => pass[w].pc # "idle"
      BY <1>2 DEF PlainStep, At, Count, Leave, Probe, Detect, FindFork, Invalidate,
         Target, PersistIndex, PersistCursor
    <3>. QED  BY <2>1, <3>1, <3>2, Alone DEF Plainly
  <2>3. \A e \in cache'.entries : e \in cache.entries
    BY <1>2 DEF PlainStep, Enter, Count, Leave, Probe, Detect, FindFork, Invalidate,
       Target, PersistIndex, PersistCursor, InvalidateFrom, Forget
  <2>4. pass'[w].pc \notin Decoded /\ pass'[w].pc # "advance"
    BY <2>1 DEF Plainly, Plain
  <2>. QED  BY <2>1, <2>2, <2>3, <2>4, DecodeKept DEF Decoded
<1>3. ASSUME NEW w \in Worker,
             \/ Truncate(w) \/ SaveTrimmedIndex(w) \/ Rewind(w) \/ AdvanceEmpty(w)
             \/ Advance(w)
      PROVE  DecodeInv'
  <2>1. /\ pass'[w].pc \in {"target", "saveindex", "rewind"}
        /\ \A v \in Worker : v # w => pass'[v] = pass[v]
    BY <1>1, <1>3, ZenonT(40) DEF Truncate, SaveTrimmedIndex, Rewind, AdvanceEmpty, Advance,
       Goto, Step, Pass
  <2>2. \A v \in Worker : v # w => pass[v].pc = "idle"
    BY <1>3, Alone DEF At, Truncate, SaveTrimmedIndex, Rewind, AdvanceEmpty, Advance
  <2>3. UNCHANGED <<cache, inflight>>
    BY <1>3 DEF Truncate, SaveTrimmedIndex, Rewind, AdvanceEmpty, Advance, node
  <2>. QED  BY <2>1, <2>2, <2>3, DecodeKept DEF Decoded
<1>4. ASSUME NEW w \in Worker, CachePut(w) PROVE DecodeInv'
  <2>1. pass[w].pc = "cacheput" /\ Goto(w, "decoded") /\ pass[w].seen \in Block
    BY <1>4 DEF CachePut, At, Inv, PassOK, Scanning
  <2>2. /\ pass'[w].pc = "decoded"
        /\ pass'[w].seen = pass[w].seen /\ pass'[w].got = pass[w].got
        /\ \A v \in Worker : v # w => pass[v].pc = "idle" /\ pass'[v] = pass[v]
    BY <1>1, <2>1, GotoLocals, Alone DEF PC
  <2>3. \A e \in cache'.entries : e \in cache.entries \/ e[2] # 1
    BY <1>1, <1>4, <2>1, InsertEntries DEF CachePut
  <2>. QED  BY <1>4, <2>1, <2>2, <2>3, DecodeKept DEF CachePut, node, DecodeInv, Decoded
<1>5. ASSUME NEW w \in Worker, ExtendBuffer(w) \/ AddIndex(w) PROVE DecodeInv'
  <2>1. /\ pass[w].pc \in {"extend", "add"}
        /\ \E label \in {"add", "advance", "exit"} : Goto(w, label)
        /\ {"add", "advance", "exit"} \subseteq PC
    BY <1>5 DEF ExtendBuffer, AddIndex, At, PC
  <2>2. /\ pass'[w].pc \in {"add", "advance", "exit"}
        /\ pass'[w].seen = pass[w].seen /\ pass'[w].got = pass[w].got
        /\ \A v \in Worker : v # w => pass[v].pc = "idle" /\ pass'[v] = pass[v]
    BY <1>1, <2>1, GotoLocals, Alone
  <2>3. UNCHANGED <<cache, inflight>>
    BY <1>5 DEF ExtendBuffer, AddIndex, node
  <2>. QED  BY <2>1, <2>2, <2>3, DecodeKept DEF DecodeInv, Decoded
<1>6. CASE ProxyFetch
  BY <1>6 DEF ProxyFetch, DecodeInv, NoIds
<1>7. CASE ProxyInsert
  <2>1. /\ inflight[1] \in Block /\ inflight' = NoRequest
        /\ cache' = Insert(cache, inflight[1], inflight[2])
        /\ inflight # NoRequest /\ pass' = pass
    BY <1>7 DEF ProxyInsert, Inv, Shape
  <2>2. \A e \in cache'.entries : e \in cache.entries \/ e[2] = inflight[2]
    BY <1>1, <2>1, InsertEntries
  <2>. QED  BY <2>1, <2>2 DEF DecodeInv, NoIds
<1>8. CASE UNCHANGED <<pass, cache, inflight>>
  BY <1>8 DEF DecodeInv, NoIds
<1>. QED
  BY <1>2, <1>3, <1>4, <1>5, <1>6, <1>7, <1>8, DecodeFetch, DecodeAppendFile
  DEF Next, PassStep, PlainStep, NodeStep, vars

LEMMA DecodeStep ==
    ASSUME WholeReads, Inv, DecodeInv, [Next]_vars
    PROVE  DecodeInv'
BY DecodeMoves DEF WholeReads, DecodeInv

LEMMA DecodeInvariance ==
    ASSUME WholeReads PROVE Spec => [](Inv /\ DecodeInv)
<1>1. Init => DecodeInv
  <2>. SUFFICES ASSUME Init PROVE DecodeInv
    OBVIOUS
  <2>1. /\ \A w \in Worker : pass[w].pc = "idle"
        /\ inflight = NoRequest
        /\ \A e \in cache.entries : e[2] = 2
    BY DEF Init, IdlePass
  <2>. QED  BY <2>1 DEF DecodeInv, NoIds, Decoded
<1>2. Inv /\ DecodeInv /\ [Next]_vars => DecodeInv'
  BY DecodeStep
<1>. QED  BY <1>1, <1>2, Invariance, PTL DEF Spec

----------------------------------------------------------------------------
(* What the store stands for, step by step.                                *)

\* Synced, by where the only task that may be inside a pass is.
SyncedAt(w) ==
    IF pass[w].pc \in {"saveindex", "rewind"}
    THEN SubSeq(scanned, 1, pass[w].at - 1)
    ELSE IF pass[w].pc = "advance" THEN Append(scanned, pass[w].seen)
    ELSE scanned

SyncedWhere ==
    \A w \in Worker :
      (\A v \in Worker : v # w => pass[v].pc = "idle") => Synced = SyncedAt(w)

LEMMA SyncedIs == SyncedWhere
<1>. SUFFICES ASSUME NEW w \in Worker, \A v \in Worker : v # w => pass[v].pc = "idle"
              PROVE  Synced = SyncedAt(w)
  BY DEF SyncedWhere
<1>1. CASE pass[w].pc \in {"saveindex", "rewind", "advance"}
  <2>1. Running = w
    BY <1>1 DEF Running
  <2>2. /\ Somewhere({"saveindex", "rewind"}) <=> pass[w].pc \in {"saveindex", "rewind"}
        /\ Somewhere({"advance"}) <=> pass[w].pc = "advance"
    BY <1>1 DEF Somewhere
  <2>. QED  BY <1>1, <2>1, <2>2 DEF Synced, SyncedAt
<1>2. CASE pass[w].pc \notin {"saveindex", "rewind", "advance"}
  <2>1. ~Somewhere({"saveindex", "rewind"}) /\ ~Somewhere({"advance"})
    BY <1>2 DEF Somewhere
  <2>. QED  BY <1>2, <2>1 DEF Synced, SyncedAt
<1>. QED  BY <1>1, <1>2

LEMMA SyncedIsNext == SyncedWhere'
BY SyncedIs, PTL

LEMMA SyncedSteps ==
    ASSUME NEW w \in Worker,
           \A v \in Worker : v # w => pass[v].pc = "idle" /\ pass'[v] = pass[v]
    PROVE  Synced = SyncedAt(w) /\ Synced' = SyncedAt(w)'
<1>1. \A v \in Worker : v # w => pass'[v].pc = "idle"
  OBVIOUS
<1>. QED  BY <1>1, SyncedIs, SyncedIsNext DEF SyncedWhere

\* Synced is a sequence of blocks, one for each height.
LEMMA SyncedType ==
    ASSUME Inv, Traced PROVE Synced \in Seq(Block)
<1>1. scanned \in Seq(Block) /\ Len(scanned) \in Nat /\ Len(scanned) = lastScanned
  BY LenProperties DEF Inv, Shape, Traced
<1>2. CASE Worker = {}
  BY <1>1, <1>2 DEF Synced, Somewhere
<1>3. ASSUME NEW w \in Worker, \A v \in Worker : v # w => pass[v].pc = "idle"
      PROVE  Synced \in Seq(Block)
  <2>1. CASE pass[w].pc \in {"saveindex", "rewind"}
    <3>1. /\ pass[w].at \in Nat /\ pass[w].at > 0 /\ pass[w].at <= Len(scanned) + 1
      BY <1>1, <2>1 DEF Inv, Shape, PassOK, Pass, Cutting
    <3>2. pass[w].at - 1 \in Nat /\ pass[w].at - 1 <= Len(scanned)
      BY <1>1, <3>1
    <3>3. SubSeq(scanned, 1, pass[w].at - 1) \in Seq(Block)
      BY <1>1, <3>2, PrefixType
    <3>. QED  BY <1>3, <2>1, <3>3, SyncedIs DEF SyncedWhere, SyncedAt
  <2>2. CASE pass[w].pc = "advance"
    <3>1. pass[w].seen \in Block
      BY <2>2 DEF Inv, PassOK, Scanning
    <3>. QED  BY <1>1, <1>3, <2>2, <3>1, SyncedIs, AppendProperties DEF SyncedWhere, SyncedAt
  <2>3. CASE pass[w].pc \notin {"saveindex", "rewind", "advance"}
    BY <1>1, <1>3, <2>3, SyncedIs DEF SyncedWhere, SyncedAt
  <2>. QED  BY <2>1, <2>2, <2>3
<1>4. Worker # {} => \E w \in Worker : \A v \in Worker : v # w => pass[v].pc = "idle"
  <2>1. SUFFICES ASSUME Worker # {}
                 PROVE  \E w \in Worker : \A v \in Worker : v # w => pass[v].pc = "idle"
    OBVIOUS
  <2>2. CASE \A v \in Worker : pass[v].pc = "idle"
    BY <2>1, <2>2
  <2>3. ASSUME NEW w \in Worker, pass[w].pc # "idle"
        PROVE  \A v \in Worker : v # w => pass[v].pc = "idle"
    BY <2>3, Alone
  <2>. QED  BY <2>2, <2>3
<1>. QED  BY <1>2, <1>3, <1>4

\* A pass changes what the store stands for in three places only: at an empty
\* block, at an entry added to the index and at a truncation.
SyncedChange(w) ==
    \/ /\ UNCHANGED <<Synced, index>>
       /\ ExtendBuffer(w) \/ UNCHANGED buffer
    \/ /\ Synced' = Append(Synced, pass[w].seen)
       /\ pass[w].got = 0 /\ AdvanceEmpty(w)
       /\ UNCHANGED <<index, buffer, file>>
    \/ /\ Synced' = Append(Synced, pass[w].seen)
       /\ AddIndex(w) /\ pass[w].off # NoOffset
       /\ index' = Append(index, [block |-> HeightOf[pass[w].seen], i |-> pass[w].off])
       /\ UNCHANGED <<buffer, file>>
    \/ /\ Synced' = SubSeq(Synced, 1, pass[w].at - 1)
       /\ Truncate(w)
       /\ OffsetForHeight(index, pass[w].at) = NoOffset
       /\ UNCHANGED <<index, buffer, file>>
    \/ /\ Synced' = SubSeq(Synced, 1, pass[w].at - 1)
       /\ Truncate(w)
       /\ OffsetForHeight(index, pass[w].at) # NoOffset
       /\ index' = RemoveFrom(index, pass[w].at)
       /\ buffer' = TruncateVec(buffer, OffsetForHeight(index, pass[w].at))

LEMMA SyncedPlain ==
    ASSUME Inv, Traced, NEW w \in Worker, PlainStep(w)
    PROVE  SyncedChange(w)
<1>1. /\ pass[w].pc \in Plain /\ pass'[w].pc \in Plain
      /\ \A v \in Worker : v # w => pass'[v] = pass[v]
      /\ UNCHANGED <<index, buffer, scanned>>
  BY PlainSteps DEF Plainly
<1>2. \A v \in Worker : v # w => pass[v].pc = "idle"
  <2>1. Enter(w) => \A v \in Worker : pass[v].pc = "idle"
    BY DEF Enter, Inv, GateInv
  <2>2. ~Enter(w) => pass[w].pc # "idle"
    BY DEF PlainStep, At, Count, Leave, Probe, Detect, FindFork, Invalidate,
       Target, PersistIndex, PersistCursor
  <2>. QED  BY <2>1, <2>2, Alone
<1>3. Synced = scanned /\ Synced' = scanned'
  BY <1>1, <1>2, SyncedSteps DEF SyncedAt, Plain, Decoded
<1>. QED  BY <1>1, <1>3 DEF SyncedChange

LEMMA SyncedLoop ==
    ASSUME Inv, Traced, DecodeInv, NEW w \in Worker,
           \/ SaveTrimmedIndex(w) \/ Rewind(w) \/ Fetch(w) \/ CachePut(w)
           \/ AppendFile(w) \/ ExtendBuffer(w) \/ Advance(w)
    PROVE  SyncedChange(w)
<1>1. pass \in [Worker -> Pass] /\ pass[w].pc # "idle"
  BY DEF Inv, Shape, At, SaveTrimmedIndex, Rewind, Fetch, CachePut, AppendFile,
     ExtendBuffer, Advance
<1>2. \A v \in Worker : v # w => pass[v].pc = "idle"
  BY <1>1, Alone
<1>3. (\A v \in Worker : v # w => pass'[v] = pass[v]) =>
        Synced = SyncedAt(w) /\ Synced' = SyncedAt(w)'
  BY <1>2, SyncedSteps
<1>4. UNCHANGED index /\ (ExtendBuffer(w) \/ UNCHANGED buffer)
  BY DEF store, SaveTrimmedIndex, Rewind, Fetch, CachePut, AppendFile,
     ExtendBuffer, Advance
<1>5. CASE SaveTrimmedIndex(w)
  <2>1. /\ pass[w].pc = "saveindex" /\ pass'[w].pc = "rewind"
        /\ pass'[w].at = pass[w].at
        /\ \A v \in Worker : v # w => pass'[v] = pass[v]
        /\ UNCHANGED scanned
    BY <1>1, <1>5, GotoLocals DEF SaveTrimmedIndex, At, cursor, PC
  <2>. QED  BY <1>3, <1>4, <2>1 DEF SyncedAt, SyncedChange
<1>6. CASE Rewind(w)
  <2>1. /\ pass[w].pc = "rewind" /\ pass'[w].pc = "target"
        /\ \A v \in Worker : v # w => pass'[v] = pass[v]
        /\ scanned' = SubSeq(scanned, 1, pass[w].at - 1)
    BY <1>1, <1>6, GotoLocals DEF Rewind, At, PC
  <2>. QED  BY <1>3, <1>4, <2>1 DEF SyncedAt, SyncedChange
<1>7. CASE Fetch(w)
  <2>1. /\ pass[w].pc = "fetch" /\ pass'[w].pc \in {"exit", "decoded", "cacheput"}
        /\ \A v \in Worker : v # w => pass'[v] = pass[v]
        /\ UNCHANGED scanned
    BY <1>1, <1>7, ZenonT(40) DEF Fetch, At, Goto, Step, Pass, cursor
  <2>. QED  BY <1>3, <1>4, <2>1 DEF SyncedAt, SyncedChange
<1>8. CASE CachePut(w) \/ ExtendBuffer(w)
  <2>1. /\ pass[w].pc \in {"cacheput", "extend"} /\ pass'[w].pc \in {"decoded", "add"}
        /\ \A v \in Worker : v # w => pass'[v] = pass[v]
        /\ UNCHANGED scanned
    BY <1>1, <1>8, GotoLocals DEF CachePut, ExtendBuffer, At, PC, cursor
  <2>. QED  BY <1>3, <1>4, <2>1 DEF SyncedAt, SyncedChange
<1>9. CASE AppendFile(w)
  <2>1. pass'[w].pc = "extend"
    BY <1>9, DecodeAppendFile
  <2>2. /\ pass[w].pc = "decoded" /\ UNCHANGED scanned
        /\ \A v \in Worker : v # w => pass'[v] = pass[v]
    BY <1>1, <1>9 DEF AppendFile, At, Goto, Step, Pass, cursor
  <2>. QED  BY <1>3, <1>4, <2>1, <2>2 DEF SyncedAt, SyncedChange
<1>10. CASE Advance(w)
  <2>1. /\ pass[w].pc = "advance" /\ pass'[w].pc = "target"
        /\ \A v \in Worker : v # w => pass'[v] = pass[v]
        /\ scanned' = Append(scanned, pass[w].seen)
    BY <1>1, <1>10 DEF Advance, At, Step, Pass
  <2>. QED  BY <1>3, <1>4, <2>1 DEF SyncedAt, SyncedChange
<1>. QED  BY <1>5, <1>6, <1>7, <1>8, <1>9, <1>10

LEMMA SyncedStore ==
    ASSUME Inv, Traced, NEW w \in Worker, AdvanceEmpty(w) \/ AddIndex(w) \/ Truncate(w)
    PROVE  /\ SyncedChange(w)
           /\ Synced = scanned
<1>1. pass \in [Worker -> Pass] /\ pass[w].pc \in {"decoded", "add", "truncate"}
  BY DEF Inv, Shape, At, AdvanceEmpty, AddIndex, Truncate
<1>2. \A v \in Worker : v # w => pass[v].pc = "idle"
  BY <1>1, Alone
<1>3. /\ \A v \in Worker : v # w => pass'[v] = pass[v]
      /\ pass'[w].at = pass[w].at /\ pass'[w].seen = pass[w].seen
  BY <1>1, ZenonT(40) DEF AdvanceEmpty, AddIndex, Truncate, Goto, Step, Pass
<1>4. Synced = SyncedAt(w) /\ Synced' = SyncedAt(w)' /\ Synced = scanned
  BY <1>1, <1>2, <1>3, SyncedSteps DEF SyncedAt
<1>5. CASE AdvanceEmpty(w)
  <2>1. /\ pass'[w].pc = "target" /\ scanned' = Append(scanned, pass[w].seen)
        /\ pass[w].got = 0 /\ UNCHANGED <<index, buffer, file>>
    BY <1>1, <1>5 DEF AdvanceEmpty, Step, Pass, store
  <2>. QED  BY <1>4, <1>5, <2>1 DEF SyncedAt, SyncedChange
<1>6. CASE AddIndex(w)
  <2>1. UNCHANGED <<scanned, buffer, file>>
    BY <1>6 DEF AddIndex, cursor
  <2>2. CASE pass[w].off = NoOffset
    <3>1. pass'[w].pc = "exit" /\ UNCHANGED index
      BY <1>1, <1>6, <2>2, GotoLocals DEF AddIndex, PC
    <3>. QED  BY <1>4, <2>1, <3>1 DEF SyncedAt, SyncedChange
  <2>3. CASE pass[w].off # NoOffset
    <3>1. /\ pass'[w].pc = "advance"
          /\ index' = AddEntry(index, HeightOf[pass[w].seen], pass[w].off)
      BY <1>1, <1>6, <2>3, GotoLocals DEF AddIndex, PC
    <3>2. HeightOf[pass[w].seen] \notin HeightsIn(index)
      <4>1. IndexedUpTo(lastScanned) /\ \A k \in 1..Len(index) : index[k].block \in Nat
        BY <1>1, <1>2, IndexBehind, EntryTypes DEF Inv, Shape
      <4>2. HeightOf[pass[w].seen] = lastScanned + 1 /\ lastScanned \in Nat
        BY <1>1, <1>6 DEF Inv, Shape, PassOK, Scanning, AddIndex, At
      <4>. QED  BY <4>1, <4>2 DEF IndexedUpTo, HeightsIn
    <3>3. Synced' = Append(Synced, pass[w].seen)
      BY <1>3, <1>4, <2>1, <3>1 DEF SyncedAt
    <3>. QED  BY <1>4, <1>6, <2>1, <2>3, <3>1, <3>2, <3>3 DEF SyncedChange, AddEntry
  <2>. QED  BY <2>2, <2>3
<1>7. CASE Truncate(w)
  <2>. DEFINE fork == pass[w].at
              off  == OffsetForHeight(index, fork)
  <2>1. CASE /\ off = NoOffset
             /\ scanned' = SubSeq(scanned, 1, fork - 1)
             /\ Goto(w, "target")
             /\ UNCHANGED <<file, buffer, index>>
    <3>1. pass'[w].pc = "target"
      BY <1>1, <2>1, GotoLocals DEF PC
    <3>. QED  BY <1>4, <1>7, <2>1, <3>1 DEF SyncedAt, SyncedChange
  <2>2. CASE Goto(w, "target") /\ UNCHANGED <<buffer, index, scanned>>
    <3>1. pass'[w].pc = "target"
      BY <1>1, <2>2, GotoLocals DEF PC
    <3>. QED  BY <1>4, <2>2, <3>1 DEF SyncedAt, SyncedChange
  <2>3. CASE /\ off # NoOffset
             /\ buffer' = TruncateVec(buffer, off)
             /\ index' = RemoveFrom(index, fork)
             /\ Goto(w, "saveindex")
             /\ UNCHANGED scanned
    <3>1. pass'[w].pc = "saveindex"
      BY <1>1, <2>3, GotoLocals DEF PC
    <3>2. Synced' = SubSeq(Synced, 1, fork - 1)
      BY <1>3, <1>4, <2>3, <3>1 DEF SyncedAt
    <3>. QED  BY <1>4, <1>7, <2>3, <3>2 DEF SyncedChange
  <2>. QED  BY <1>7, <2>1, <2>2, <2>3 DEF Truncate
<1>. QED  BY <1>4, <1>5, <1>6, <1>7

\* Every step of the indexer: one of a pass, or one that leaves the store and
\* what it stands for alone.
LEMMA SyncedNext ==
    ASSUME Inv, Traced, DecodeInv, [Next]_vars
    PROVE  \/ \E w \in Worker : SyncedChange(w) /\ (PlainStep(w) \/ PassStep(w))
           \/ UNCHANGED <<Synced, index, buffer, file, pass>>
<1>1. ASSUME NEW w \in Worker, Enter(w) \/ PassStep(w)
      PROVE  SyncedChange(w) /\ (PlainStep(w) \/ PassStep(w))
  BY <1>1, SyncedPlain, SyncedLoop, SyncedStore DEF PassStep, PlainStep
<1>2. UNCHANGED <<pass, scanned, index, buffer, file>> =>
        UNCHANGED <<Synced, index, buffer, file, pass>>
  BY DEF Synced, Somewhere, Running
<1>. QED
  BY <1>1, <1>2 DEF Next, NodeStep, ProxyFetch, ProxyInsert, store, cursor, vars

----------------------------------------------------------------------------
(* No block is skipped.                                                    *)

LEMMA SoughtAppend ==
    ASSUME NEW s \in Seq(Block), NEW b \in Block
    PROVE  Sought(Append(s, b)) =
             Sought(s) \cup (IF ShieldTxs[b] > 0 THEN {Len(s) + 1} ELSE {})
<1>1. /\ Len(s) \in Nat /\ Len(Append(s, b)) = Len(s) + 1
      /\ \A h \in 1..Len(s) : Append(s, b)[h] = s[h]
      /\ Append(s, b)[Len(s) + 1] = b
  BY LenProperties, AppendProperties
<1>. DEFINE t == Append(s, b)
<1>. HIDE DEF t
<1>2. ASSUME NEW h PROVE h \in Sought(t) <=>
        \/ h \in Sought(s)
        \/ h = Len(s) + 1 /\ ShieldTxs[b] > 0
  BY <1>1 DEF Sought, t
<1>. QED  BY <1>2 DEF t

LEMMA SoughtCut ==
    ASSUME NEW s \in Seq(Block), NEW n \in 0..Len(s)
    PROVE  Sought(SubSeq(s, 1, n)) = {h \in Sought(s) : h <= n}
<1>1. /\ Len(s) \in Nat /\ n \in Nat /\ n <= Len(s)
      /\ Len(SubSeq(s, 1, n)) = n
      /\ \A h \in 1..n : SubSeq(s, 1, n)[h] = s[h]
  <2>1. Len(s) \in Nat /\ \A h \in 1..n : h \in 1..Len(s)
    BY LenProperties
  <2>2. \A h \in 1..Len(s) : s[h] \in Block
    BY ElementOfSeq
  <2>. QED  BY <2>1, <2>2, SubSeqProperties
<1>. DEFINE t == SubSeq(s, 1, n)
<1>. HIDE DEF t
<1>. QED  BY <1>1 DEF Sought, t

LEMMA WholeSubSeq ==
    ASSUME NEW S, NEW s \in Seq(S)
    PROVE  SubSeq(s, 1, Len(s)) = s
<1>1. Len(s) \in Nat /\ \A k \in 1..Len(s) : k \in 1..Len(s) /\ s[k] \in S
  BY LenProperties, ElementOfSeq
<1>2. /\ SubSeq(s, 1, Len(s)) \in Seq(S) /\ Len(SubSeq(s, 1, Len(s))) = Len(s)
      /\ \A k \in 1..Len(s) : SubSeq(s, 1, Len(s))[k] = s[k]
  BY <1>1, SubSeqProperties
<1>. QED  BY <1>2, SeqEqual

LEMMA HeightsRemoved ==
    ASSUME NEW ix \in Seq(IndexEntry), AscendingHeights(ix), NEW h \in Nat
    PROVE  /\ Len(RemoveFrom(ix, h)) \in 0..Len(ix)
           /\ \A k \in 1..Len(RemoveFrom(ix, h)) : RemoveFrom(ix, h)[k] = ix[k]
           /\ \A k \in 1..Len(ix) :
                k <= Len(RemoveFrom(ix, h)) <=> ix[k].block < h
           /\ HeightsIn(RemoveFrom(ix, h)) = {g \in HeightsIn(ix) : g < h}
           /\ OffsetForHeight(ix, h) # NoOffset =>
                /\ Len(RemoveFrom(ix, h)) < Len(ix)
                /\ OffsetForHeight(ix, h) = ix[Len(RemoveFrom(ix, h)) + 1].i
<1>. DEFINE q   == PartitionPoint(ix, h)
            new == RemoveFrom(ix, h)
            N   == Len(ix)
<1>1. N \in Nat /\ \A m \in 1..N : ix[m] \in IndexEntry /\ ix[m].block \in Nat
  BY EntryTypes
<1>2. /\ q \in 1..(N + 1)
      /\ \A m \in 1..N : m < q => ix[m].block < h
      /\ \A m \in 1..N : m >= q => ix[m].block >= h
  BY PartitionPointSplits
<1>7. OffsetForHeight(ix, h) = IF q <= N THEN ix[q].i ELSE NoOffset
  BY DEF OffsetForHeight
<1>. HIDE DEF q
<1>3. /\ Len(new) = q - 1
      /\ \A k \in 1..(q - 1) : new[k] = ix[k]
  <2>1. q - 1 \in 0..N /\ \A e \in 1..(q - 1) : e \in 1..N
    BY <1>1, <1>2
  <2>2. \A e \in 1..N : ix[e] \in IndexEntry
    BY <1>1
  <2>. QED  BY <1>1, <2>1, <2>2, SubSeqProperties DEF RemoveFrom, q
<1>. HIDE DEF new
<1>4. \A k \in 1..N : k <= Len(new) <=> ix[k].block < h
  BY <1>1, <1>2, <1>3
<1>5. Len(new) \in 0..N /\ \A k \in 1..Len(new) : k \in 1..N /\ new[k] = ix[k]
  BY <1>1, <1>2, <1>3
<1>6. HeightsIn(new) = {g \in HeightsIn(ix) : g < h}
  BY <1>1, <1>4, <1>5, SMTT(30) DEF HeightsIn
<1>8. OffsetForHeight(ix, h) # NoOffset =>
        Len(new) < N /\ OffsetForHeight(ix, h) = ix[Len(new) + 1].i
  <2>1. Len(new) + 1 = q
    BY <1>2, <1>3
  <2>. QED  BY <1>1, <1>2, <1>3, <1>7, <2>1
<1>. QED  BY <1>4, <1>5, <1>6, <1>8 DEF new

LEMMA NeverSkipInit == Init => NeverSkip
<1>. SUFFICES ASSUME Init PROVE NeverSkip
  OBVIOUS
<1>1. \A w \in Worker : pass[w].pc = "idle"
  BY DEF Init, IdlePass
<1>2. Synced = InitChain /\ index = <<>>
  BY <1>1 DEF Init, Synced, Somewhere
<1>3. \A h \in 1..Len(InitChain) : ~(ShieldTxs[InitChain[h]] > 0)
  BY IndexerAssumption
<1>. QED  BY <1>2, <1>3 DEF NeverSkip, HeightsIn

LEMMA NeverSkipStep ==
    ASSUME Inv, Traced, DecodeInv, NeverSkip, [Next]_vars
    PROVE  NeverSkip'
<1>. /\ index \in Seq(IndexEntry) /\ AscendingHeights(index)
     /\ scanned \in Seq(Block) /\ Len(scanned) = lastScanned /\ lastScanned \in Nat
  BY DEF Inv, Shape, Traced, IndexInv
<1>1. HeightsIn(index) = Sought(Synced)
  BY DEF NeverSkip, Sought
<1>2. SUFFICES HeightsIn(index') = Sought(Synced')
  BY DEF NeverSkip, Sought, HeightsIn
<1>3. CASE UNCHANGED <<Synced, index>>
  BY <1>1, <1>3
<1>4. ASSUME NEW w \in Worker, AdvanceEmpty(w) \/ AddIndex(w) \/ Truncate(w),
             SyncedChange(w), ~UNCHANGED <<Synced, index>>
      PROVE  HeightsIn(index') = Sought(Synced')
  <2>. DEFINE b    == pass[w].seen
              fork == pass[w].at
  <2>1. Synced = scanned
    BY <1>4, SyncedStore
  <2>2. ASSUME AdvanceEmpty(w) \/ AddIndex(w)
        PROVE  b \in Block /\ HeightOf[b] = Len(scanned) + 1
    BY <2>2 DEF Inv, PassOK, AdvanceEmpty, AddIndex, At, Scanning
  <2>3. CASE Synced' = Append(Synced, b) /\ AdvanceEmpty(w) /\ UNCHANGED index
    <3>1. ShieldTxs[b] = 0
      BY <2>3 DEF AdvanceEmpty, At, DecodeInv, Decoded
    <3>2. ~(ShieldTxs[b] > 0)
      BY <3>1
    <3>3. Sought(Append(scanned, b)) = Sought(scanned)
      BY <2>2, <2>3, <3>2, SoughtAppend
    <3>. QED  BY <1>1, <2>1, <2>3, <3>3
  <2>4. CASE /\ Synced' = Append(Synced, b) /\ AddIndex(w)
             /\ index' = Append(index, [block |-> HeightOf[b], i |-> pass[w].off])
             /\ pass[w].off # NoOffset
    <3>1. ShieldTxs[b] > 0
      BY <2>4 DEF AddIndex, At, DecodeInv
    <3>. DEFINE e == [block |-> HeightOf[b], i |-> pass[w].off]
    <3>2. e.block = Len(scanned) + 1
      BY <2>2, <2>4
    <3>3. e \in IndexEntry
      <4>1. HeightOf[b] \in Heights /\ pass[w].off \in Nat
        BY <2>2, <2>4, ChainAssumption DEF Inv, Shape, Pass
      <4>. QED  BY <4>1 DEF IndexEntry
    <3>. HIDE DEF e
    <3>4. HeightsIn(Append(index, e)) = HeightsIn(index) \cup {e.block}
      <4>1. /\ Len(index) \in Nat /\ Len(Append(index, e)) = Len(index) + 1
            /\ \A k \in 1..Len(index) : Append(index, e)[k] = index[k]
            /\ Append(index, e)[Len(index) + 1] = e
        BY <3>3, LenProperties, AppendProperties
      <4>. DEFINE new == Append(index, e)
      <4>. HIDE DEF new
      <4>. QED  BY <4>1 DEF HeightsIn, new
    <3>5. Sought(Append(scanned, b)) = Sought(scanned) \cup {Len(scanned) + 1}
      BY <2>2, <2>4, <3>1, SoughtAppend
    <3>. QED  BY <1>1, <2>1, <2>4, <3>2, <3>4, <3>5 DEF e
  <2>5. CASE /\ Synced' = SubSeq(Synced, 1, fork - 1) /\ Truncate(w)
             /\ \/ OffsetForHeight(index, fork) = NoOffset /\ UNCHANGED index
                \/ index' = RemoveFrom(index, fork)
    <3>1. fork \in Nat /\ fork - 1 \in 0..Len(scanned)
      BY <2>5 DEF Truncate, At, Inv, Shape, PassOK, Pass, Cutting
    <3>2. HeightsIn(index') = {g \in HeightsIn(index) : g < fork}
      <4>1. CASE OffsetForHeight(index, fork) = NoOffset /\ UNCHANGED index
        <5>1. \A k \in 1..Len(index) : index[k].block < fork
          BY <3>1, <4>1, RemoveFromBelow
        <5>. QED  BY <4>1, <5>1 DEF HeightsIn
      <4>2. CASE index' = RemoveFrom(index, fork)
        BY <3>1, <4>2, HeightsRemoved
      <4>. QED  BY <2>5, <4>1, <4>2
    <3>3. Sought(Synced') = {g \in Sought(scanned) : g <= fork - 1}
      BY <2>1, <2>5, <3>1, SoughtCut
    <3>4. Sought(scanned) \subseteq Nat
      BY DEF Sought
    <3>. QED  BY <1>1, <2>1, <3>1, <3>2, <3>3, <3>4
  <2>. QED  BY <1>4, <2>3, <2>4, <2>5 DEF SyncedChange
<1>. QED
  <2>1. CASE UNCHANGED <<Synced, index, buffer, file, pass>>
    BY <1>3, <2>1
  <2>2. ASSUME NEW w \in Worker, SyncedChange(w)
        PROVE  HeightsIn(index') = Sought(Synced')
    BY <1>3, <1>4, <2>2 DEF SyncedChange
  <2>. QED  BY <2>1, <2>2, SyncedNext

\* Every block behind the cursor that holds Sapling transactions is indexed and
\* nothing else is, whatever append, truncation, save or RPC fails, whatever
\* the node and the proxy do: provided that no block is decoded out of an entry
\* of verbosity 1 with RPCs that fail.
THEOREM NothingSkipped ==
    ASSUME WholeReads PROVE Spec => []NeverSkip
<1>1. Inv /\ Traced /\ DecodeInv /\ NeverSkip /\ [Next]_vars => NeverSkip'
  BY NeverSkipStep
<1>. QED  BY <1>1, NeverSkipInit, DecodeInvariance, TracedInvariance, PTL DEF Spec

----------------------------------------------------------------------------
(* The abstract log.                                                       *)

LogStream == [k \in 1..Len(index) |-> buffer[index[k].i + 1][1]]

\* Every indexed offset is that of a packet of the block it is indexed for.
LEMMA FirstPackets ==
    ASSUME Inv, Traced, StoreInv
    PROVE  /\ Committed \in 0..Len(buffer)
           /\ \A k \in 1..Len(index) :
                /\ index[k].i \in Nat /\ index[k].i + 1 \in 1..Committed
                /\ LogStream[k] \in Block
                /\ HeightOf[LogStream[k]] = index[k].block
<1>1. /\ index \in Seq(IndexEntry) /\ buffer \in Seq(Packet) /\ Len(buffer) \in Nat
      /\ \A k \in 1..Len(index) : index[k].i \in Nat
  BY EntryTypes, LenProperties DEF Inv, Shape
<1>2. Committed \in 0..Len(buffer)
  <2>1. CASE \A w \in Worker : pass[w].pc \in Quiet
    <3>1. ~Somewhere({"extend", "add"}) /\ buffer = file
      BY <2>1 DEF Somewhere, Quiet, StoreInv
    <3>. QED  BY <1>1, <3>1 DEF Committed
  <2>2. ASSUME NEW w \in Worker, pass[w].pc \notin Quiet
        PROVE  Committed \in 0..Len(buffer)
    <3>1. pass[w].pc \in {"extend", "add"} /\ pass[w].got \in Nat
      BY <2>2 DEF Inv, Shape, Pass, Quiet
    <3>2. Committed = pass[w].off
      BY <3>1, Alone DEF Running, Somewhere, Committed
    <3>3. pass[w].pc = "extend" => pass[w].off = Len(buffer)
      BY DEF StoreInv
    <3>4. pass[w].pc = "add" => /\ pass[w].off \in Nat
                                /\ Len(buffer) = pass[w].off + pass[w].got + 1
      BY DEF StoreInv, EndsWith
    <3>. QED  BY <1>1, <3>1, <3>2, <3>3, <3>4
  <2>. QED  BY <2>1, <2>2
<1>3. Delimits(index, buffer, Committed)
  BY StoreInvMeans DEF StreamWellFormed
<1>4. ASSUME NEW k \in 1..Len(index)
      PROVE  /\ index[k].i + 1 \in 1..Committed
             /\ LogStream[k] \in Block /\ HeightOf[LogStream[k]] = index[k].block
  <2>. DEFINE first == index[k].i
              last  == EndOf(index, k, Committed)
  <2>1. WholeBlock(buffer, first, last, index[k].block) /\ last <= Committed
    BY <1>3 DEF Delimits
  <2>2. first \in Nat /\ last \in Nat
    BY <1>1, <1>2 DEF EndOf
  <2>3. LogStream[k] = buffer[first + 1][1]
    BY DEF LogStream
  <2>. HIDE DEF first, last
  <2>4. first + 1 \in 1..Committed /\ first + 1 \in (first + 1)..last
    BY <1>2, <2>1, <2>2 DEF WholeBlock
  <2>5. buffer[first + 1][1] = buffer[last][1] /\ HeightOf[buffer[last][1]] = index[k].block
    BY <2>1, <2>4 DEF WholeBlock
  <2>6. buffer[first + 1] \in Packet
    BY <1>1, <1>2, <2>4, ElementOfSeq
  <2>. QED  BY <2>3, <2>4, <2>5, <2>6 DEF Packet, first
<1>. QED  BY <1>1, <1>2, <1>4

LEMMA LogStreamType ==
    ASSUME Inv, Traced, StoreInv
    PROVE  LogStream \in Seq(Block) /\ Len(LogStream) = Len(index)
<1>1. Len(index) \in Nat
  BY LenProperties DEF Inv, Shape
<1>2. \A k \in 1..Len(index) : buffer[index[k].i + 1][1] \in Block
  BY FirstPackets DEF LogStream
<1>. QED  BY <1>1, <1>2 DEF LogStream

\* The packets the index points at stay where they are when the buffer grows.
LEMMA LogStreamKept ==
    ASSUME Inv, Traced, StoreInv, NEW w \in Worker, UNCHANGED index,
           ExtendBuffer(w) \/ UNCHANGED buffer
    PROVE  UNCHANGED LogStream
<1>1. CASE UNCHANGED buffer
  BY <1>1 DEF LogStream
<1>2. CASE ExtendBuffer(w)
  <2>1. /\ pass[w].seen \in Block /\ pass[w].got \in Nat /\ buffer \in Seq(Packet)
        /\ buffer' = buffer \o Encode(pass[w].seen, pass[w].got)
        /\ Len(buffer) \in Nat
    BY <1>2, LenProperties
    DEF ExtendBuffer, At, Inv, Shape, PassOK, Pass, Scanning
  <2>2. \A p \in 1..Len(buffer) : buffer'[p] = buffer[p]
    BY <2>1, EncodedAtEnd
  <2>3. \A k \in 1..Len(index) : index[k].i + 1 \in 1..Len(buffer)
    BY <2>1, FirstPackets
  <2>. QED  BY <2>2, <2>3 DEF LogStream
<1>. QED  BY <1>1, <1>2

LEMMA LogExtends ==
    ASSUME Inv, Traced, DecodeInv, StoreInv, NEW w \in Worker, SyncedChange(w),
           AdvanceEmpty(w) \/ AddIndex(w), Synced' = Append(Synced, pass[w].seen),
           AddIndex(w) => pass[w].off # NoOffset /\ UNCHANGED buffer /\
             index' = Append(index, [block |-> HeightOf[pass[w].seen], i |-> pass[w].off]),
           AdvanceEmpty(w) => UNCHANGED <<index, buffer>>
    PROVE  \E b \in Block :
             /\ HeightOf[b] = Len(Synced) + 1
             /\ Synced' = Append(Synced, b)
             /\ LogStream' = IF ShieldTxs[b] > 0 THEN Append(LogStream, b) ELSE LogStream
<1>. DEFINE b == pass[w].seen
<1>1. /\ b \in Block /\ HeightOf[b] = Len(Synced) + 1
  <2>1. Synced = scanned
    BY SyncedStore
  <2>. QED  BY <2>1 DEF Inv, PassOK, Traced, AdvanceEmpty, AddIndex, At, Scanning
<1>2. CASE AdvanceEmpty(w)
  <2>1. ~(ShieldTxs[b] > 0)
    BY <1>2 DEF AdvanceEmpty, At, DecodeInv, Decoded
  <2>2. LogStream' = LogStream
    BY <1>2 DEF LogStream
  <2>. QED  BY <1>1, <2>1, <2>2
<1>3. CASE AddIndex(w)
  <2>. DEFINE e   == [block |-> HeightOf[b], i |-> pass[w].off]
              n   == pass[w].got
  <2>1. /\ ShieldTxs[b] > 0 /\ pass[w].off \in Nat /\ n \in Nat
        /\ EndsWith(buffer, pass[w].off, b, n)
    BY <1>3 DEF AddIndex, At, DecodeInv, StoreInv, Inv, Shape, Pass
  <2>2. buffer[e.i + 1][1] = b
    <3>1. 1 \in 1..(n + 1)
      BY <2>1
    <3>. QED  BY <2>1, <3>1 DEF EndsWith
  <2>3. e \in IndexEntry /\ index \in Seq(IndexEntry) /\ index' = Append(index, e)
    BY <1>1, <1>3, <2>1, ChainAssumption DEF IndexEntry, Inv, Shape
  <2>. HIDE DEF e, b
  <2>4. /\ Len(index) \in Nat /\ Len(index') = Len(index) + 1
        /\ \A k \in 1..Len(index) : index'[k] = index[k]
        /\ index'[Len(index) + 1] = e
    BY <2>3, LenProperties, AppendProperties
  <2>5. LogStream \in Seq(Block) /\ Len(LogStream) = Len(index)
    BY LogStreamType
  <2>6. LogStream' \in Seq(Block) /\ Len(LogStream') = Len(index) + 1
        /\ \A k \in 1..(Len(index) + 1) :
             LogStream'[k] = IF k <= Len(index) THEN LogStream[k] ELSE b
    <3>1. LogStream' = [k \in 1..(Len(index) + 1) |-> buffer[index'[k].i + 1][1]]
      BY <1>3, <2>4 DEF LogStream
    <3>2. \A k \in 1..(Len(index) + 1) :
            buffer[index'[k].i + 1][1] = IF k <= Len(index) THEN LogStream[k] ELSE b
      BY <2>2, <2>4 DEF LogStream
    <3>3. \A k \in 1..(Len(index) + 1) : buffer[index'[k].i + 1][1] \in Block
      <4>1. \A k \in 1..Len(index) : LogStream[k] \in Block
        BY FirstPackets
      <4>2. b \in Block
        BY <1>1
      <4>3. \A k \in 1..(Len(index) + 1) : k <= Len(index) => k \in 1..Len(index)
        BY <2>4
      <4>. QED  BY <3>2, <4>1, <4>2, <4>3
    <3>. HIDE DEF LogStream
    <3>. QED  BY <2>4, <3>1, <3>2, <3>3
  <2>7. /\ Append(LogStream, b) \in Seq(Block)
        /\ Len(Append(LogStream, b)) = Len(index) + 1
        /\ \A k \in 1..(Len(index) + 1) :
             Append(LogStream, b)[k] = IF k <= Len(index) THEN LogStream[k] ELSE b
    BY <1>1, <2>4, <2>5, AppendProperties
  <2>8. LogStream' = Append(LogStream, b)
    BY <2>6, <2>7, SeqEqual
  <2>. QED  BY <1>1, <2>1, <2>8 DEF b
<1>. QED  BY <1>2, <1>3

LEMMA LogRollsBack ==
    ASSUME Inv, Traced, StoreInv, NEW w \in Worker, Truncate(w),
           Synced' = SubSeq(Synced, 1, pass[w].at - 1),
           \/ /\ OffsetForHeight(index, pass[w].at) = NoOffset
              /\ UNCHANGED <<index, buffer>>
           \/ /\ OffsetForHeight(index, pass[w].at) # NoOffset
              /\ index' = RemoveFrom(index, pass[w].at)
              /\ buffer' = TruncateVec(buffer, OffsetForHeight(index, pass[w].at))
    PROVE  \E m \in 0..Len(LogStream) :
             /\ LogStream' = SubSeq(LogStream, 1, m)
             /\ \A k \in 1..Len(LogStream) :
                  k <= m <=> HeightOf[LogStream[k]] <= pass[w].at - 1
<1>. DEFINE fork == pass[w].at
            off  == OffsetForHeight(index, fork)
            N    == Len(index)
<1>1. /\ fork \in Nat /\ fork > 0 /\ index \in Seq(IndexEntry) /\ AscendingHeights(index)
      /\ N \in Nat /\ buffer \in Seq(Packet) /\ Len(buffer) \in Nat
      /\ pass[w].pc = "truncate"
      /\ \A k \in 1..N : index[k].block \in Nat /\ index[k].i \in Nat
  BY EntryTypes, LenProperties
  DEF Truncate, At, Inv, Shape, PassOK, IndexInv, Pass, Cutting
<1>2. /\ LogStream \in Seq(Block) /\ Len(LogStream) = N
      /\ \A k \in 1..N : HeightOf[LogStream[k]] = index[k].block
  BY LogStreamType, FirstPackets
<1>2a. \A k \in 1..N : index[k].block < fork <=> HeightOf[LogStream[k]] <= fork - 1
  <2>1. \A k \in 1..N : index[k].block < fork <=> index[k].block <= fork - 1
    BY <1>1
  <2>. QED  BY <1>2, <2>1
<1>3. CASE off = NoOffset /\ UNCHANGED <<index, buffer>>
  <2>1. \A k \in 1..N : index[k].block < fork
    BY <1>1, <1>3, RemoveFromBelow
  <2>2. LogStream' = LogStream
    BY <1>3 DEF LogStream
  <2>3. SubSeq(LogStream, 1, N) = LogStream
    BY <1>2, WholeSubSeq
  <2>4. \A k \in 1..Len(LogStream) : k <= N <=> HeightOf[LogStream[k]] <= fork - 1
    BY <1>1, <1>2, <1>2a, <2>1
  <2>5. N \in 0..Len(LogStream) /\ LogStream' = SubSeq(LogStream, 1, N)
    BY <1>1, <1>2, <2>2, <2>3
  <2>. QED  BY <2>4, <2>5
<1>4. CASE /\ off # NoOffset /\ index' = RemoveFrom(index, fork)
           /\ buffer' = TruncateVec(buffer, off)
  <2>. DEFINE m == Len(RemoveFrom(index, fork))
  <2>1. /\ m \in 0..N /\ \A k \in 1..m : index'[k] = index[k]
        /\ \A k \in 1..N : k <= m <=> index[k].block < fork
    BY <1>1, <1>4, HeightsRemoved
  <2>2. Len(index') = m
    BY <1>4
  <2>3. buffer = file /\ Delimits(index, buffer, Len(buffer))
    <3>1. \A v \in Worker : pass[v].pc \in Quiet
      BY <1>1, Alone DEF Quiet, PC
    <3>. QED  BY <3>1 DEF StoreInv
  <2>4. /\ off \in 0..Len(buffer)
        /\ index' \in Seq(IndexEntry)
        /\ Delimits(index', SubSeq(buffer, 1, off), off)
    BY <1>1, <1>4, <2>3, DelimitsCut
  <2>. HIDE DEF m, off
  <2>5. \A k \in 1..m : index'[k].i + 1 \in 1..off
    <3>1. \A k \in 1..m : /\ EndOf(index', k, off) <= off
                          /\ index'[k].i < EndOf(index', k, off)
                          /\ index'[k].i \in Nat /\ EndOf(index', k, off) \in Nat
      <4>1. \A k \in 1..Len(index') : index'[k].i \in Nat
        BY <2>4, EntryTypes
      <4>2. m \in Nat /\ off \in Nat
        BY <1>1, <2>1, <2>4
      <4>3. \A k \in 1..m : EndOf(index', k, off) \in Nat
        BY <2>2, <4>1, <4>2 DEF EndOf
      <4>. QED  BY <2>2, <2>4, <4>1, <4>3 DEF Delimits, WholeBlock
    <3>2. off \in Nat
      BY <1>1, <2>4
    <3>. QED  BY <3>1, <3>2
  <2>6. \A p \in 1..off : buffer'[p] = buffer[p]
    <3>1. buffer' = SubSeq(buffer, 1, off)
      BY <1>1, <1>4, <2>4, CutsAgree
    <3>2. \A p \in 1..off : p \in 1..Len(buffer) /\ buffer[p] \in Packet
      BY <1>1, <2>4, ElementOfSeq
    <3>. QED  BY <1>1, <2>4, <3>1, <3>2, SubSeqProperties
  <2>7. LogStream' = [k \in 1..m |-> LogStream[k]]
    <3>1. \A k \in 1..m : buffer'[index'[k].i + 1][1] = LogStream[k]
      <4>1. \A k \in 1..m : k \in 1..N
        BY <1>1, <2>1
      <4>. QED  BY <2>1, <2>5, <2>6, <4>1 DEF LogStream
    <3>2. LogStream' = [k \in 1..m |-> buffer'[index'[k].i + 1][1]]
      BY <2>2 DEF LogStream
    <3>. HIDE DEF LogStream
    <3>. QED  BY <3>1, <3>2
  <2>8. SubSeq(LogStream, 1, m) = [k \in 1..m |-> LogStream[k]]
    <3>1. \A k \in 1..m : k \in 1..N /\ LogStream[k] \in Block
      BY <1>1, <1>2, <2>1, ElementOfSeq
    <3>2. m \in Nat /\ m <= N
      BY <1>1, <2>1
    <3>3. /\ SubSeq(LogStream, 1, m) \in Seq(Block) /\ Len(SubSeq(LogStream, 1, m)) = m
          /\ \A k \in 1..m : SubSeq(LogStream, 1, m)[k] = LogStream[k]
      BY <1>2, <3>1, <3>2, SubSeqProperties
    <3>4. LET t == [k \in 1..m |-> LogStream[k]]
          IN  /\ t \in Seq(Block) /\ Len(t) = m /\ \A k \in 1..m : t[k] = LogStream[k]
      BY <3>1, <3>2
    <3>. QED  BY <3>3, <3>4, SeqEqual
  <2>9. \A k \in 1..Len(LogStream) : k <= m <=> HeightOf[LogStream[k]] <= fork - 1
    BY <1>1, <1>2, <1>2a, <2>1
  <2>. QED  BY <1>2, <2>1, <2>7, <2>8, <2>9
<1>. QED  BY <1>3, <1>4

\* The indexer implements ShieldLog when appends and truncations reach the disk
\* and blocks are decoded whole: seen through its index, the store gains the
\* next block of the scanned sequence or gives up a suffix, at the very step
\* that changes the index, whichever task takes it and whatever else fails.
THEOREM LogImplemented ==
    ASSUME WorkingStream, WholeReads PROVE Spec => ImplementsShieldLog
<1>1. Init => Log!Init
  <2>. SUFFICES ASSUME Init PROVE Log!Init
    OBVIOUS
  <2>1. Synced = InitChain
    <3>1. ~Somewhere({"saveindex", "rewind"}) /\ ~Somewhere({"advance"})
      BY DEF Init, IdlePass, Somewhere
    <3>. QED  BY <3>1 DEF Init, Synced
  <2>2. LogStream = <<>>
    BY DEF Init, LogStream
  <2>. QED  BY <2>1, <2>2 DEF Log!Init, LogStream
<1>2. Inv /\ Traced /\ DecodeInv /\ StoreInv /\ [Next]_vars => [Log!Next]_(Log!vars)
  <2>. SUFFICES ASSUME Inv, Traced, DecodeInv, StoreInv, [Next]_vars,
                       ~UNCHANGED <<Synced, LogStream>>
                PROVE  Log!Next
    BY DEF Log!vars, LogStream
  <2>1. PICK w \in Worker : SyncedChange(w)
    <3>1. UNCHANGED <<Synced, index, buffer, file, pass>> => UNCHANGED LogStream
      BY DEF LogStream
    <3>. QED  BY <3>1, SyncedNext
  <2>2. CASE /\ UNCHANGED <<Synced, index>>
             /\ ExtendBuffer(w) \/ UNCHANGED buffer
    BY <2>2, LogStreamKept
  <2>3. CASE /\ Synced' = Append(Synced, pass[w].seen)
             /\ \/ AdvanceEmpty(w) /\ UNCHANGED <<index, buffer>>
                \/ /\ AddIndex(w) /\ pass[w].off # NoOffset /\ UNCHANGED buffer
                   /\ index' = Append(index, [block |-> HeightOf[pass[w].seen],
                                              i |-> pass[w].off])
    <3>1. ~(AdvanceEmpty(w) /\ AddIndex(w))
      BY DEF AdvanceEmpty, AddIndex, At
    <3>2. \E b \in Block :
             /\ HeightOf[b] = Len(Synced) + 1
             /\ Synced' = Append(Synced, b)
             /\ LogStream' = IF ShieldTxs[b] > 0 THEN Append(LogStream, b) ELSE LogStream
      BY <2>1, <2>3, <3>1, LogExtends
    <3>. QED  BY <3>2 DEF Log!Next, Log!Extend, LogStream
  <2>4. CASE /\ Synced' = SubSeq(Synced, 1, pass[w].at - 1)
             /\ Truncate(w)
             /\ \/ /\ OffsetForHeight(index, pass[w].at) = NoOffset
                   /\ UNCHANGED <<index, buffer>>
                \/ /\ OffsetForHeight(index, pass[w].at) # NoOffset
                   /\ index' = RemoveFrom(index, pass[w].at)
                   /\ buffer' = TruncateVec(buffer, OffsetForHeight(index, pass[w].at))
    <3>. DEFINE n == pass[w].at - 1
    <3>1. PICK m \in 0..Len(LogStream) :
             /\ LogStream' = SubSeq(LogStream, 1, m)
             /\ \A k \in 1..Len(LogStream) : k <= m <=> HeightOf[LogStream[k]] <= n
      BY <2>4, LogRollsBack
    <3>2. /\ n \in 0..Len(Synced) /\ Synced = scanned
      <4>1. Synced = scanned
        BY <2>4, SyncedStore
      <4>2. /\ pass[w].at \in Nat /\ pass[w].at > 0 /\ pass[w].at <= Len(scanned) + 1
            /\ Len(scanned) \in Nat
        BY <2>4, LenProperties
        DEF Truncate, At, Inv, Shape, Traced, PassOK, Pass, Cutting
      <4>. QED  BY <4>1, <4>2
    <3>3. CASE n = Len(Synced)
      <4>1. Synced' = Synced
        <5>1. SubSeq(scanned, 1, Len(scanned)) = scanned
          BY WholeSubSeq DEF Traced
        <5>. QED  BY <2>4, <3>2, <3>3, <5>1
      <4>2. LogStream' = LogStream
        <5>1. \A k \in 1..Len(index) : index[k].block <= n
          <6>1. IndexedUpTo(lastScanned)
            BY <2>4, Alone, IndexBehind DEF Truncate, At
          <6>. QED  BY <3>2, <3>3, <6>1 DEF Traced, IndexedUpTo
        <5>2. LogStream \in Seq(Block) /\ Len(LogStream) = Len(index)
          BY LogStreamType
        <5>. HIDE DEF n
        <5>3. \A k \in 1..Len(LogStream) : k <= m
          BY <3>1, <5>1, <5>2, FirstPackets
        <5>4. m = Len(LogStream)
          BY <5>2, <5>3, LenProperties
        <5>. QED  BY <3>1, <5>2, <5>4, WholeSubSeq
      <4>. QED  BY <4>1, <4>2
    <3>4. CASE n # Len(Synced)
      <4>1. n \in 0..(Len(Synced) - 1)
        <5>1. Len(Synced) \in Nat
          BY <3>2, LenProperties DEF Inv, Shape
        <5>. QED  BY <3>2, <3>4, <5>1
      <4>. HIDE DEF n
      <4>2. Synced' = SubSeq(Synced, 1, n)
        BY <2>4 DEF n
      <4>. QED  BY <3>1, <4>1, <4>2 DEF Log!Next, Log!Rollback, LogStream
    <3>. QED  BY <3>3, <3>4
  <2>. QED  BY <2>1, <2>2, <2>3, <2>4 DEF SyncedChange
<1>. QED
  BY <1>1, <1>2, DecodeInvariance, StoreInvariance, TracedInvariance, PTL
  DEF Spec, ImplementsShieldLog, Log!Spec

----------------------------------------------------------------------------
(* No transaction is lost.                                                 *)

\* Up to where the stream is indexed, when the disk works.
CommittedWhere ==
    \A w \in Worker :
      (\A v \in Worker : v # w => pass[v].pc = "idle") =>
        Committed = IF pass[w].pc = "add" THEN pass[w].off ELSE Len(buffer)

LEMMA CommittedIs == Inv /\ StoreInv => CommittedWhere
<1>. SUFFICES ASSUME Inv, StoreInv, NEW w \in Worker,
                     \A v \in Worker : v # w => pass[v].pc = "idle"
              PROVE  Committed = IF pass[w].pc = "add" THEN pass[w].off ELSE Len(buffer)
  BY DEF CommittedWhere
<1>1. CASE pass[w].pc \in {"extend", "add"}
  <2>1. Committed = pass[w].off
    BY <1>1 DEF Committed, Running, Somewhere
  <2>. QED  BY <1>1, <2>1 DEF StoreInv
<1>2. CASE pass[w].pc \notin {"extend", "add"}
  <2>1. \A v \in Worker : pass[v].pc \in Quiet
    BY <1>2 DEF Inv, Shape, Pass, PC, Quiet
  <2>2. ~Somewhere({"extend", "add"}) /\ buffer = file
    BY <2>1 DEF Somewhere, Quiet, StoreInv
  <2>. QED  BY <1>2, <2>2 DEF Committed
<1>. QED  BY <1>1, <1>2

LEMMA CommittedIsNext == Inv' /\ StoreInv' => CommittedWhere'
BY CommittedIs, PTL

\* The k-th indexed block is the one scanned at its height, as long as it is.
Held(k) ==
    /\ EndOf(index, k, Committed) - index[k].i =
         ShieldTxs[Synced[index[k].block]] + 1
    /\ LogStream[k] = Synced[index[k].block]

LEMMA NothingLostHeld ==
    /\ NothingLost <=> \A k \in 1..Len(index) : Held(k)
    /\ NothingLost' <=> \A k \in 1..Len(index') : Held(k)'
BY DEF NothingLost, Held, LogStream

\* Only the step that extends the buffer leads to the addition to the index.
LEMMA ToAdd ==
    ASSUME Inv, Traced, DecodeInv, NEW w \in Worker, PlainStep(w) \/ PassStep(w),
           ~ExtendBuffer(w)
    PROVE  /\ pass'[w].pc # "add"
           /\ \A v \in Worker : v # w => pass[v].pc = "idle" /\ pass'[v] = pass[v]
<1>1. pass \in [Worker -> Pass]
  BY DEF Inv, Shape
<1>2. CASE PlainStep(w)
  <2>1. Enter(w) => \A v \in Worker : pass[v].pc = "idle"
    BY DEF Enter, Inv, GateInv
  <2>2. ~Enter(w) => pass[w].pc # "idle"
    BY <1>2 DEF PlainStep, At, Count, Leave, Probe, Detect, FindFork, Invalidate,
       Target, PersistIndex, PersistCursor
  <2>3. "add" \notin Plain
    BY DEF Plain, Decoded
  <2>. QED  BY <1>2, <2>1, <2>2, <2>3, PlainSteps, Alone DEF Plainly
<1>3. CASE AppendFile(w)
  <2>1. pass'[w].pc = "extend" /\ pass[w].pc # "idle"
    BY <1>3, DecodeAppendFile DEF AppendFile, At
  <2>2. \A v \in Worker : v # w => pass'[v] = pass[v]
    BY <1>1, <1>3 DEF AppendFile, Goto, Step
  <2>. QED  BY <2>1, <2>2, Alone
<1>4. CASE \/ Truncate(w) \/ SaveTrimmedIndex(w) \/ Rewind(w) \/ Fetch(w)
           \/ CachePut(w) \/ AdvanceEmpty(w) \/ AddIndex(w) \/ Advance(w)
  <2>1. /\ pass'[w].pc # "add" /\ pass[w].pc # "idle"
        /\ \A v \in Worker : v # w => pass'[v] = pass[v]
    BY <1>1, <1>4 DEF Truncate, SaveTrimmedIndex, Rewind, Fetch, CachePut,
       AdvanceEmpty, AddIndex, Advance, At, Goto, Step, Pass
  <2>. QED  BY <2>1, Alone
<1>. QED  BY <1>2, <1>3, <1>4 DEF PassStep, PlainStep

\* A step of a pass that leaves buffer and index alone moves neither the end
\* of the indexed stream nor its first packets; nor does the buffer's growth.
LEMMA CommittedKept ==
    ASSUME Inv, Traced, DecodeInv, StoreInv, Inv', Traced', StoreInv', NEW w \in Worker,
           PlainStep(w) \/ PassStep(w), UNCHANGED index,
           ExtendBuffer(w) \/ UNCHANGED buffer
    PROVE  UNCHANGED <<Committed, LogStream>>
<1>1. UNCHANGED LogStream
  BY LogStreamKept
<1>2. CASE ExtendBuffer(w)
  <2>1. /\ pass \in [Worker -> Pass] /\ pass[w].pc = "extend" /\ Goto(w, "add")
        /\ "add" \in PC
    BY <1>2 DEF Inv, Shape, ExtendBuffer, At, PC
  <2>2. /\ pass'[w].pc = "add" /\ pass'[w].off = pass[w].off
        /\ \A v \in Worker : v # w => pass[v].pc = "idle" /\ pass'[v].pc = "idle"
    BY <2>1, GotoLocals, Alone
  <2>3. Committed = Len(buffer) /\ Committed' = pass'[w].off
    BY <2>1, <2>2, CommittedIs, CommittedIsNext DEF CommittedWhere
  <2>. QED  BY <1>1, <2>1, <2>2, <2>3 DEF StoreInv
<1>3. CASE ~ExtendBuffer(w)
  <2>1. /\ pass'[w].pc # "add"
        /\ \A v \in Worker : v # w => pass[v].pc = "idle" /\ pass'[v].pc = "idle"
    BY <1>3, ToAdd
  <2>2. pass[w].pc # "add"
    <3>1. SUFFICES ASSUME pass[w].pc = "add" PROVE FALSE
      OBVIOUS
    <3>2. ~PlainStep(w) /\ AddIndex(w)
      BY <1>3, <3>1
      DEF PlainStep, PassStep, At, Enter, Count, Leave, Probe, Detect, FindFork,
          Invalidate, Target, PersistIndex, PersistCursor, Truncate,
          SaveTrimmedIndex, Rewind, Fetch, CachePut, AdvanceEmpty, AppendFile,
          ExtendBuffer, Advance
    <3>3. pass[w].off \in Nat
      BY <3>1 DEF StoreInv
    <3>4. pass[w].off # NoOffset
      BY <3>3 DEF NoOffset
    <3>5. index' = Append(index, [block |-> HeightOf[pass[w].seen], i |-> pass[w].off])
      <4>1. HeightOf[pass[w].seen] \notin HeightsIn(index)
        <5>1. IndexedUpTo(lastScanned) /\ \A k \in 1..Len(index) : index[k].block \in Nat
          BY <2>1, <3>1, IndexBehind, EntryTypes DEF Inv, Shape
        <5>2. HeightOf[pass[w].seen] = lastScanned + 1 /\ lastScanned \in Nat
          BY <3>1 DEF Inv, Shape, PassOK, Scanning
        <5>. QED  BY <5>1, <5>2 DEF IndexedUpTo, HeightsIn
      <4>. QED  BY <3>2, <3>4, <4>1 DEF AddIndex, AddEntry
    <3>6. Len(index') = Len(index) + 1 /\ Len(index) \in Nat
      BY <3>5, AppendProperties, LenProperties DEF Inv, Shape
    <3>. QED  BY <3>6
  <2>3. Committed = Len(buffer) /\ Committed' = Len(buffer')
    BY <2>1, <2>2, CommittedIs, CommittedIsNext DEF CommittedWhere
  <2>. QED  BY <1>1, <1>3, <2>3
<1>. QED  BY <1>2, <1>3

LEMMA NothingLostAdd ==
    ASSUME Inv, Traced, DecodeInv, StoreInv, NeverSkip, NothingLost, Inv', Traced', StoreInv',
           NEW w \in Worker, SyncedChange(w), AddIndex(w), pass[w].off # NoOffset,
           Synced' = Append(Synced, pass[w].seen), UNCHANGED buffer,
           index' = Append(index, [block |-> HeightOf[pass[w].seen], i |-> pass[w].off])
    PROVE  NothingLost'
<1>. DEFINE b   == pass[w].seen
            off == pass[w].off
            n   == pass[w].got
            e   == [block |-> HeightOf[b], i |-> off]
            N   == Len(index)
<1>1. /\ pass[w].pc = "add" /\ off \in Nat /\ n \in Nat /\ n = ShieldTxs[b]
      /\ b \in Block /\ ShieldTxs[b] > 0
      /\ Len(buffer) = off + n + 1
  BY DEF AddIndex, At, DecodeInv, Decoded, StoreInv, EndsWith, Inv, Shape,
     PassOK, Pass, Scanning
<1>2. /\ Synced = scanned /\ scanned \in Seq(Block)
      /\ HeightOf[b] = Len(Synced) + 1
      /\ Len(Synced') = Len(Synced) + 1
      /\ \A h \in 1..Len(Synced) : Synced'[h] = Synced[h]
      /\ Synced'[HeightOf[b]] = b
  <2>1. Synced = scanned
    BY SyncedStore
  <2>2. scanned \in Seq(Block) /\ HeightOf[b] = Len(scanned) + 1
    BY <1>1 DEF Inv, Shape, Traced, PassOK, Scanning
  <2>. QED  BY <1>1, <2>1, <2>2, AppendProperties
<1>3. /\ Committed = off /\ Committed' = Len(buffer)
  <2>1. /\ \A v \in Worker : v # w => pass[v].pc = "idle" /\ pass'[v].pc = "idle"
        /\ pass'[w].pc # "add"
    BY ToAdd DEF PassStep, AddIndex, ExtendBuffer, At
  <2>. QED  BY <1>1, <2>1, CommittedIs, CommittedIsNext DEF CommittedWhere
<1>4. /\ N \in Nat /\ Len(index') = N + 1
      /\ \A k \in 1..N : index'[k] = index[k]
      /\ index'[N + 1] = e
  <2>1. e \in IndexEntry /\ index \in Seq(IndexEntry)
    BY <1>1, ChainAssumption DEF IndexEntry, Inv, Shape
  <2>. HIDE DEF e
  <2>. QED  BY <2>1, AppendProperties, LenProperties DEF e
<1>5. LogStream' = Append(LogStream, b)
  <2>1. PICK c \in Block :
             /\ Synced' = Append(Synced, c)
             /\ LogStream' = IF ShieldTxs[c] > 0 THEN Append(LogStream, c) ELSE LogStream
    <3>1. ~AdvanceEmpty(w)
      BY DEF AdvanceEmpty, AddIndex, At
    <3>. QED  BY <3>1, LogExtends
  <2>2. c = b
    <3>1. Append(Synced, c)[Len(Synced) + 1] = c /\ Append(Synced, b)[Len(Synced) + 1] = b
      BY <1>1, <1>2, AppendProperties
    <3>. QED  BY <2>1, <3>1
  <2>. QED  BY <1>1, <2>1, <2>2
<1>6. /\ \A k \in 1..N : LogStream'[k] = LogStream[k]
      /\ LogStream'[N + 1] = b
  BY <1>1, <1>4, <1>5, LogStreamType, AppendProperties
<1>7. \A k \in 1..N : index[k].block \in 1..Len(Synced)
  BY DEF NeverSkip, HeightsIn
<1>. HIDE DEF b, off, n, e
<1>8. ASSUME NEW k \in 1..N PROVE Held(k)'
  <2>1. EndOf(index', k, Committed') = EndOf(index, k, Committed)
    <3>1. CASE k < N
      <4>1. k + 1 \in 1..N /\ k < Len(index')
        BY <1>4, <3>1
      <4>. QED  BY <1>4, <3>1, <4>1 DEF EndOf
    <3>2. CASE k = N
      <4>1. k < Len(index') /\ ~(k < N) /\ k + 1 = N + 1
        BY <1>4, <3>2
      <4>. QED  BY <1>3, <1>4, <4>1 DEF EndOf, e
    <3>. QED  BY <1>4, <3>1, <3>2
  <2>2. index'[k] = index[k] /\ LogStream'[k] = LogStream[k]
        /\ Synced'[index[k].block] = Synced[index[k].block]
    BY <1>2, <1>4, <1>6, <1>7
  <2>3. Held(k)
    BY NothingLostHeld
  <2>. QED  BY <2>1, <2>2, <2>3 DEF Held
<1>9. ASSUME NEW k, k = N + 1 PROVE Held(k)'
  <2>1. EndOf(index', k, Committed') = Len(buffer)
    BY <1>3, <1>4, <1>9 DEF EndOf
  <2>2. index'[k].i = off /\ index'[k].block = HeightOf[b]
    BY <1>4, <1>9 DEF e
  <2>3. Synced'[index'[k].block] = b /\ LogStream'[k] = b
    BY <1>2, <1>6, <1>9, <2>2
  <2>4. Len(buffer) - off = ShieldTxs[b] + 1
    <3>1. (off + n + 1) - off = n + 1
      BY <1>1
    <3>. QED  BY <1>1, <3>1
  <2>. QED  BY <2>1, <2>2, <2>3, <2>4 DEF Held
<1>10. ASSUME NEW k \in 1..Len(index') PROVE k \in 1..N \/ k = N + 1
  BY <1>4
<1>. QED  BY <1>8, <1>9, <1>10, NothingLostHeld

LEMMA NothingLostCut ==
    ASSUME Inv, Traced, DecodeInv, StoreInv, NeverSkip, NothingLost, Inv', Traced', StoreInv',
           NEW w \in Worker, SyncedChange(w), Truncate(w),
           Synced' = SubSeq(Synced, 1, pass[w].at - 1),
           OffsetForHeight(index, pass[w].at) # NoOffset,
           index' = RemoveFrom(index, pass[w].at),
           buffer' = TruncateVec(buffer, OffsetForHeight(index, pass[w].at))
    PROVE  NothingLost'
<1>. DEFINE fork == pass[w].at
            off  == OffsetForHeight(index, fork)
            N    == Len(index)
            m    == Len(index')
<1>1. /\ fork \in Nat /\ fork > 0 /\ index \in Seq(IndexEntry) /\ AscendingHeights(index)
      /\ N \in Nat /\ buffer \in Seq(Packet) /\ pass[w].pc = "truncate"
      /\ fork - 1 \in 0..Len(scanned) /\ Len(scanned) \in Nat
  BY EntryTypes, LenProperties, SMTT(30)
  DEF Truncate, At, Inv, Shape, Traced, PassOK, IndexInv, Pass, Cutting
<1>2. /\ m \in 0..N /\ m < N /\ off = index[m + 1].i
      /\ \A k \in 1..m : index'[k] = index[k]
      /\ \A k \in 1..N : k <= m <=> index[k].block < fork
  BY <1>1, HeightsRemoved
<1>3. /\ Synced = scanned /\ \A h \in 1..(fork - 1) : Synced'[h] = Synced[h]
  <2>1. Synced = scanned
    BY SyncedStore
  <2>. DEFINE n == fork - 1
  <2>2. n \in 0..Len(scanned) /\ scanned \in Seq(Block)
    BY <1>1 DEF Inv, Shape, Traced
  <2>. HIDE DEF n
  <2>3. \A h \in 1..n : h \in 1..Len(scanned) /\ scanned[h] \in Block
    BY <1>1, <2>2, ElementOfSeq
  <2>4. \A h \in 1..n : SubSeq(scanned, 1, n)[h] = scanned[h]
    BY <1>1, <2>2, <2>3, SubSeqProperties
  <2>. QED  BY <2>1, <2>4 DEF n
<1>4. Committed' = off
  <2>1. /\ \A v \in Worker : v # w => pass[v].pc = "idle" /\ pass'[v].pc = "idle"
        /\ pass'[w].pc # "add"
    BY ToAdd DEF PassStep, Truncate, ExtendBuffer, At
  <2>2. \A v \in Worker : pass[v].pc \in Quiet
    BY <1>1, Alone DEF Quiet, PC
  <2>3. Delimits(index, buffer, Len(buffer))
    BY <2>2 DEF StoreInv
  <2>4. off \in 0..Len(buffer)
    BY <1>1, <2>3, DelimitsCut
  <2>5. Len(buffer') = off
    <3>. HIDE DEF off
    <3>1. buffer' = TruncateVec(buffer, off)
      BY DEF off
    <3>. QED  BY <1>1, <2>4, <3>1, CutsAgree
  <2>. QED  BY <2>1, <2>5, CommittedIsNext DEF CommittedWhere
<1>5. \A k \in 1..m : LogStream'[k] = LogStream[k]
  <2>1. PICK j \in 0..Len(LogStream) : LogStream' = SubSeq(LogStream, 1, j)
    BY LogRollsBack
  <2>2. LogStream \in Seq(Block) /\ Len(LogStream) = N
    BY LogStreamType
  <2>3. LogStream' = [k \in 1..m |-> buffer'[index'[k].i + 1][1]]
    BY DEF LogStream
  <2>4. /\ Len(SubSeq(LogStream, 1, j)) = j /\ j \in Nat
        /\ \A k \in 1..j : SubSeq(LogStream, 1, j)[k] = LogStream[k]
    <3>1. j \in Nat /\ \A k \in 1..j : k \in 1..N /\ LogStream[k] \in Block
      BY <1>1, <2>1, <2>2, ElementOfSeq
    <3>. QED  BY <1>1, <2>1, <2>2, <3>1, SubSeqProperties
  <2>5. Len(LogStream') = m
    <3>1. m \in Nat
      BY <1>1, <1>2
    <3>. QED  BY <2>3, <3>1
  <2>. QED  BY <2>1, <2>4, <2>5
<1>. HIDE DEF off
<1>6. ASSUME NEW k \in 1..m PROVE Held(k)'
  <2>1. k \in 1..N /\ k < N
    BY <1>1, <1>2
  <2>2. EndOf(index', k, Committed') = EndOf(index, k, Committed)
    <3>1. CASE k < m
      <4>1. k + 1 \in 1..m
        BY <1>1, <1>2, <3>1
      <4>. QED  BY <1>2, <2>1, <3>1, <4>1 DEF EndOf
    <3>2. CASE k = m
      BY <1>2, <1>4, <2>1, <3>2 DEF EndOf
    <3>. QED  BY <1>1, <1>2, <3>1, <3>2
  <2>3. index[k].block \in 1..(fork - 1)
    <3>1. index[k].block \in 1..Len(Synced)
      BY <2>1 DEF NeverSkip, HeightsIn
    <3>2. index[k].block < fork
      BY <1>2, <2>1
    <3>. QED  BY <1>1, <1>3, <3>1, <3>2
  <2>4. Held(k)
    BY <2>1, NothingLostHeld
  <2>. QED  BY <1>2, <1>3, <1>5, <2>2, <2>3, <2>4 DEF Held
<1>. QED  BY <1>6, NothingLostHeld

LEMMA NothingLostStep ==
    ASSUME Inv, Traced, DecodeInv, StoreInv, NeverSkip, NothingLost, Inv', Traced', StoreInv',
           [Next]_vars
    PROVE  NothingLost'
<1>1. \A k \in 1..Len(index) : index[k].block \in 1..Len(Synced)
  BY DEF NeverSkip, HeightsIn
<1>2. ASSUME NEW w \in Worker, SyncedChange(w), PlainStep(w) \/ PassStep(w)
      PROVE  NothingLost'
  <2>1. ASSUME UNCHANGED index, ExtendBuffer(w) \/ UNCHANGED buffer,
               \A k \in 1..Len(index) :
                 Synced'[index[k].block] = Synced[index[k].block]
        PROVE  NothingLost'
    <3>1. UNCHANGED <<Committed, LogStream>>
      BY <1>2, <2>1, CommittedKept
    <3>. QED  BY <2>1, <3>1, NothingLostHeld DEF Held
  <2>2. CASE /\ UNCHANGED <<Synced, index>>
             /\ ExtendBuffer(w) \/ UNCHANGED buffer
    BY <2>1, <2>2
  <2>3. CASE /\ Synced' = Append(Synced, pass[w].seen) /\ AdvanceEmpty(w)
             /\ UNCHANGED <<index, buffer>>
    <3>1. Synced = scanned
      BY <2>3, SyncedStore
    <3>2. scanned \in Seq(Block) /\ pass[w].seen \in Block
      BY <2>3 DEF Inv, Shape, Traced, PassOK, AdvanceEmpty, At, Scanning
    <3>3. \A h \in 1..Len(Synced) : Synced'[h] = Synced[h]
      BY <2>3, <3>1, <3>2, AppendProperties
    <3>. QED  BY <1>1, <2>1, <2>3, <3>3
  <2>4. CASE /\ Synced' = SubSeq(Synced, 1, pass[w].at - 1) /\ Truncate(w)
             /\ OffsetForHeight(index, pass[w].at) = NoOffset
             /\ UNCHANGED <<index, buffer>>
    <3>. DEFINE n == pass[w].at - 1
    <3>1. Synced = scanned
      BY <2>4, SyncedStore
    <3>2. /\ pass[w].at \in Nat /\ n \in 0..Len(scanned) /\ Len(scanned) \in Nat
          /\ scanned \in Seq(Block)
      BY <2>4, LenProperties DEF Truncate, At, Inv, Shape, Traced, PassOK, Pass, Cutting
    <3>3. \A h \in 1..n : SubSeq(scanned, 1, n)[h] = scanned[h]
      <4>1. \A h \in 1..n : h \in 1..Len(scanned) /\ scanned[h] \in Block
        BY <3>2, ElementOfSeq
      <4>. QED  BY <3>2, <4>1, SubSeqProperties
    <3>4. \A k \in 1..Len(index) : index[k].block \in 1..n
      <4>1. \A k \in 1..Len(index) : index[k].block < pass[w].at
        BY <2>4, <3>2, RemoveFromBelow DEF Inv, Shape, IndexInv
      <4>. QED  BY <1>1, <3>1, <3>2, <4>1
    <3>. QED  BY <2>1, <2>4, <3>1, <3>3, <3>4
  <2>. QED
    BY <1>2, <2>2, <2>3, <2>4, NothingLostAdd, NothingLostCut DEF SyncedChange
<1>3. CASE UNCHANGED <<Synced, index, buffer, file, pass>>
  <2>1. UNCHANGED <<Committed, LogStream>>
    BY <1>3 DEF Committed, Somewhere, Running, LogStream
  <2>. QED  BY <1>3, <2>1, NothingLostHeld DEF Held
<1>. QED  BY <1>2, <1>3, SyncedNext

\* And the stream holds each of those blocks, the very one scanned at its
\* height, with all of its transactions, whatever the node, the proxy, the
\* saves and the RPCs do.
THEOREM NoTransactionLost ==
    ASSUME WorkingStream, WholeReads PROVE Spec => []NothingLost
<1>1. Init => NothingLost
  BY DEF Init, NothingLost
<1>2. /\ Inv /\ Traced /\ DecodeInv /\ StoreInv /\ NeverSkip /\ NothingLost /\ [Next]_vars
      /\ Inv' /\ Traced' /\ StoreInv'
      => NothingLost'
  BY NothingLostStep
<1>. QED
  BY <1>1, <1>2, DecodeInvariance, StoreInvariance, NothingSkipped, TracedInvariance,
     PTL DEF Spec

----------------------------------------------------------------------------
(* What shield.bin keeps when appends and saves fail: a block left half    *)
(* written stays behind in the file, and the retry writes it again after   *)
(* the remains.                                                            *)

CutsReachDisk == "truncate" \notin DiskFaults

\* The packets of block b, all of them, follow the first i of f.
PacketsAt(f, i, b) ==
    /\ i + ShieldTxs[b] + 1 <= Len(f)
    /\ \A j \in 1..(ShieldTxs[b] + 1) :
         f[i + j] = <<b, IF j <= ShieldTxs[b] THEN j ELSE 0>>

\* Where the k-th indexed block ends, whatever follows it in the file.
EndsAt(k) == index[k].i + ShieldTxs[Synced[index[k].block]] + 1

\* The indexed blocks are whole and do not overlap; nor does a block that has
\* been appended and is still to be indexed.
KeepInv ==
    /\ \A k \in 1..Len(index) : PacketsAt(file, index[k].i, Synced[index[k].block])
    /\ \A k, m \in 1..Len(index) : k < m => EndsAt(k) <= index[m].i
    /\ \A w \in Worker : pass[w].pc \in {"extend", "add"} /\ pass[w].off # NoOffset =>
         /\ PacketsAt(file, pass[w].off, pass[w].seen)
         /\ \A k \in 1..Len(index) : EndsAt(k) <= pass[w].off

Bytes == (Block \cup {NoBlock}) \X Nat

LEMMA IndexedTypes ==
    ASSUME Inv, Traced, NeverSkip
    PROVE  /\ index \in Seq(IndexEntry) /\ file \in Seq(Bytes) /\ scanned \in Seq(Block)
           /\ Len(index) \in Nat /\ Len(file) \in Nat
           /\ \A k \in 1..Len(index) :
                /\ index[k].block \in 1..Len(Synced)
                /\ index[k].i \in Nat
BY EntryTypes, LenProperties DEF Inv, Shape, Traced, Bytes, NeverSkip, HeightsIn

\* Packets stay where they are when the file grows.
LEMMA PacketsKept ==
    ASSUME NEW f \in Seq(Bytes), NEW g \in Seq(Bytes), NEW i \in Nat, NEW b \in Block,
           PacketsAt(f, i, b),
           i + ShieldTxs[b] + 1 <= Len(g),
           \A p \in 1..(i + ShieldTxs[b] + 1) : g[p] = f[p]
    PROVE  PacketsAt(g, i, b)
<1>1. ShieldTxs[b] \in Nat
  BY ChainAssumption
<1>2. \A j \in 1..(ShieldTxs[b] + 1) : i + j \in 1..(i + ShieldTxs[b] + 1)
  BY <1>1
<1>. QED  BY <1>1, <1>2 DEF PacketsAt

\* While the index stands, so do the blocks that it names.
LEMMA IndexedSame ==
    ASSUME Inv, Traced, NeverSkip, NEW w \in Worker, SyncedChange(w), UNCHANGED index
    PROVE  \A k \in 1..Len(index) : /\ Synced'[index[k].block] = Synced[index[k].block]
                                    /\ EndsAt(k)' = EndsAt(k)
<1>1. SUFFICES \A k \in 1..Len(index) : Synced'[index[k].block] = Synced[index[k].block]
  BY DEF EndsAt
<1>2. CASE UNCHANGED Synced
  BY <1>2
<1>3. CASE Synced' = Append(Synced, pass[w].seen) /\ (AdvanceEmpty(w) \/ AddIndex(w))
  <2>1. Synced = scanned
    BY <1>3, SyncedStore
  <2>2. scanned \in Seq(Block) /\ pass[w].seen \in Block
    BY <1>3 DEF Inv, Shape, Traced, PassOK, AdvanceEmpty, AddIndex, At, Scanning
  <2>3. \A h \in 1..Len(Synced) : Synced'[h] = Synced[h]
    BY <1>3, <2>1, <2>2, AppendProperties
  <2>. QED  BY <2>3, IndexedTypes
<1>4. CASE /\ Synced' = SubSeq(Synced, 1, pass[w].at - 1) /\ Truncate(w)
           /\ \/ OffsetForHeight(index, pass[w].at) = NoOffset
              \/ index' = RemoveFrom(index, pass[w].at)
  <2>. DEFINE n == pass[w].at - 1
  <2>1. Synced = scanned
    BY <1>4, SyncedStore
  <2>2. /\ pass[w].at \in Nat /\ n \in 0..Len(scanned) /\ Len(scanned) \in Nat
        /\ scanned \in Seq(Block) /\ index \in Seq(IndexEntry) /\ AscendingHeights(index)
    BY <1>4, LenProperties, SMTT(30)
    DEF Truncate, At, Inv, Shape, Traced, IndexInv, PassOK, Pass, Cutting
  <2>3. \A h \in 1..n : SubSeq(scanned, 1, n)[h] = scanned[h]
    <3>1. \A h \in 1..n : h \in 1..Len(scanned) /\ scanned[h] \in Block
      BY <2>2, ElementOfSeq
    <3>. QED  BY <2>2, <3>1, SubSeqProperties
  <2>4. \A k \in 1..Len(index) : index[k].block \in 1..n
    <3>1. \A k \in 1..Len(index) : index[k].block < pass[w].at
      BY <1>4, <2>2, RemoveFromBelow
    <3>2. \A k \in 1..Len(index) : index[k].block \in 1..Len(scanned)
      BY <2>1, IndexedTypes
    <3>. QED  BY <2>2, <3>1, <3>2
  <2>. QED  BY <1>4, <2>1, <2>3, <2>4
<1>. QED  BY <1>2, <1>3, <1>4 DEF SyncedChange

\* A step that leaves the index alone and at most adds to the file has to
\* answer for the block it has appended only.
LEMMA KeepKept ==
    ASSUME Inv, Traced, NeverSkip, KeepInv, NEW w \in Worker, SyncedChange(w),
           UNCHANGED index,
           \A v \in Worker : v # w => pass[v].pc = "idle" /\ pass'[v] = pass[v],
           file' \in Seq(Bytes), Len(file) <= Len(file'),
           \A p \in 1..Len(file) : file'[p] = file[p],
           pass'[w].pc \in {"extend", "add"} /\ pass'[w].off # NoOffset =>
             /\ PacketsAt(file', pass'[w].off, pass'[w].seen)
             /\ \A k \in 1..Len(index) : EndsAt(k) <= pass'[w].off
    PROVE  KeepInv'
<1>1. \A k \in 1..Len(index) : /\ Synced'[index[k].block] = Synced[index[k].block]
                               /\ EndsAt(k)' = EndsAt(k)
  BY IndexedSame
<1>2. ASSUME NEW k \in 1..Len(index)
      PROVE  PacketsAt(file', index[k].i, Synced[index[k].block])
  <2>. DEFINE b == Synced[index[k].block]
              i == index[k].i
  <2>1. /\ PacketsAt(file, i, b) /\ i \in Nat /\ Len(file) \in Nat
        /\ Len(file') \in Nat /\ file \in Seq(Bytes)
    BY IndexedTypes, LenProperties DEF KeepInv
  <2>2. b \in Block
    BY SyncedType, IndexedTypes, ElementOfSeq
  <2>. HIDE DEF b, i
  <2>3. ShieldTxs[b] \in Nat
    BY <2>2, ChainAssumption
  <2>4. i + ShieldTxs[b] + 1 <= Len(file)
    BY <2>1 DEF PacketsAt
  <2>5. /\ i + ShieldTxs[b] + 1 <= Len(file')
        /\ \A p \in 1..(i + ShieldTxs[b] + 1) : file'[p] = file[p]
    BY <2>1, <2>3, <2>4
  <2>. QED  BY <2>1, <2>2, <2>5, PacketsKept DEF b, i
<1>3. \A v \in Worker : v # w => pass'[v].pc = "idle"
  OBVIOUS
<1>. QED  BY <1>1, <1>2, <1>3 DEF KeepInv

----------------------------------------------------------------------------
(* Appending, whole or in part.                                            *)

LEMMA EncodedBytes ==
    ASSUME NEW f \in Seq(Bytes), NEW b \in Block
    PROVE  LET e == Encode(b, ShieldTxs[b])
           IN  /\ f \o e \in Seq(Bytes) /\ Len(f) <= Len(f \o e)
               /\ \A p \in 1..Len(f) : (f \o e)[p] = f[p]
               /\ PacketsAt(f \o e, Len(f), b)
               /\ \A k \in 0..Len(e) :
                    /\ Len(f) <= Len(f \o SubSeq(e, 1, k))
                    /\ \A p \in 1..Len(f) : (f \o SubSeq(e, 1, k))[p] = f[p]
<1>. DEFINE n == ShieldTxs[b]
            e == Encode(b, n)
<1>1. n \in Nat /\ Len(f) \in Nat
  BY ChainAssumption, LenProperties
<1>2. /\ e \in Seq(Bytes) /\ Len(e) = n + 1
      /\ \A j \in 1..(n + 1) : e[j] = <<b, IF j <= n THEN j ELSE 0>>
  BY <1>1 DEF Encode, Bytes
<1>. HIDE DEF n, e
<1>3. ASSUME NEW g \in Seq(Bytes)
      PROVE  /\ f \o g \in Seq(Bytes) /\ Len(f \o g) = Len(f) + Len(g) /\ Len(g) \in Nat
             /\ \A p \in 1..Len(f) : (f \o g)[p] = f[p]
             /\ \A j \in 1..Len(g) : (f \o g)[Len(f) + j] = g[j]
  <2>1. /\ f \o g \in Seq(Bytes) /\ Len(f \o g) = Len(f) + Len(g)
        /\ \A p \in 1..(Len(f) + Len(g)) :
             (f \o g)[p] = IF p <= Len(f) THEN f[p] ELSE g[p - Len(f)]
    BY ConcatProperties
  <2>2. Len(g) \in Nat
    BY LenProperties
  <2>3. \A j \in 1..Len(g) : /\ Len(f) + j \in 1..(Len(f) + Len(g))
                             /\ ~(Len(f) + j <= Len(f)) /\ (Len(f) + j) - Len(f) = j
    BY <1>1, <2>2
  <2>4. \A p \in 1..Len(f) : p \in 1..(Len(f) + Len(g)) /\ p <= Len(f)
    BY <1>1, <2>2
  <2>. QED  BY <2>1, <2>2, <2>3, <2>4
<1>4. PacketsAt(f \o e, Len(f), b)
  <2>1. Len(f \o e) = Len(f) + n + 1
    <3>1. Len(f \o e) = Len(f) + Len(e)
      BY <1>2, <1>3
    <3>. QED  BY <1>1, <1>2, <3>1
  <2>2. \A j \in 1..(n + 1) : (f \o e)[Len(f) + j] = <<b, IF j <= n THEN j ELSE 0>>
    BY <1>2, <1>3
  <2>. QED  BY <1>1, <2>1, <2>2 DEF PacketsAt, n
<1>5. \A k \in 0..Len(e) : SubSeq(e, 1, k) \in Seq(Bytes)
  BY <1>1, <1>2, PrefixType
<1>6. ASSUME NEW g \in Seq(Bytes) PROVE Len(f) <= Len(f \o g)
  BY <1>1, <1>3
<1>. QED  BY <1>2, <1>3, <1>4, <1>5, <1>6 DEF e, n

LEMMA KeepAppend ==
    ASSUME Inv, Traced, DecodeInv, NeverSkip, KeepInv, Inv', NEW w \in Worker, AppendFile(w)
    PROVE  KeepInv'
<1>. DEFINE b     == pass[w].seen
            bytes == Encode(b, ShieldTxs[b])
<1>1. /\ pass \in [Worker -> Pass] /\ pass[w].pc = "decoded" /\ pass[w] \in Pass
      /\ b \in Block /\ pass[w].got = ShieldTxs[b]
      /\ file \in Seq(Bytes) /\ Len(file) \in Nat
  BY LenProperties
  DEF Inv, Shape, PassOK, AppendFile, At, DecodeInv, Decoded, Scanning, Bytes
<1>2. \A v \in Worker : v # w => pass[v].pc = "idle"
  BY <1>1, Alone
<1>3. pass'[w].pc = "extend"
  BY DecodeAppendFile
<1>4. \A v \in Worker : v # w => pass'[v] = pass[v]
  BY <1>1 DEF AppendFile, Goto, Step
<1>5. /\ UNCHANGED index /\ SyncedChange(w) /\ file' \in Seq(Bytes)
  BY SyncedLoop DEF AppendFile, Inv, Shape, Bytes
<1>6. \A k \in 1..Len(index) : EndsAt(k) <= Len(file)
  BY DEF KeepInv, PacketsAt, EndsAt
<1>7. \/ file' = file \o bytes /\ pass'[w].off = Len(file) /\ pass'[w].seen = b
      \/ /\ \E k \in 0..Len(bytes) : file' = file \o SubSeq(bytes, 1, k)
         /\ pass'[w].off = NoOffset
  <2>1. ~Goto(w, "advance")
    BY <1>1, <1>3, GotoLocals DEF PC
  <2>2. \/ /\ file' = file \o bytes
           /\ Step(w, [[pass[w] EXCEPT !.pc = "extend"] EXCEPT !.off = Len(file)])
        \/ /\ \E k \in 0..Len(bytes) : file' = file \o SubSeq(bytes, 1, k)
           /\ Step(w, [[pass[w] EXCEPT !.pc = "extend"] EXCEPT !.off = NoOffset])
    BY <1>1, <2>1 DEF AppendFile
  <2>3. ASSUME NEW off \in Nat \cup {NoOffset},
               Step(w, [[pass[w] EXCEPT !.pc = "extend"] EXCEPT !.off = off])
        PROVE  pass'[w].off = off /\ pass'[w].seen = b
    <3>. DEFINE next == [[pass[w] EXCEPT !.pc = "extend"] EXCEPT !.off = off]
    <3>1. next.off = off /\ next.seen = b
      BY <1>1 DEF Pass
    <3>2. Step(w, next)
      BY <2>3
    <3>. HIDE DEF next
    <3>3. pass'[w] = next
      BY <1>1, <3>2 DEF Step
    <3>. QED  BY <3>1, <3>3
  <2>. HIDE DEF bytes, b
  <2>. QED  BY <1>1, <2>2, <2>3
<1>8. CASE file' = file \o bytes /\ pass'[w].off = Len(file) /\ pass'[w].seen = b
  <2>1. /\ Len(file) <= Len(file') /\ \A p \in 1..Len(file) : file'[p] = file[p]
        /\ PacketsAt(file', Len(file), b)
    BY <1>1, <1>8, EncodedBytes
  <2>. HIDE DEF b
  <2>. QED  BY <1>2, <1>4, <1>5, <1>6, <1>8, <2>1, KeepKept
<1>9. CASE /\ \E k \in 0..Len(bytes) : file' = file \o SubSeq(bytes, 1, k)
           /\ pass'[w].off = NoOffset
  <2>1. Len(file) <= Len(file') /\ \A p \in 1..Len(file) : file'[p] = file[p]
    BY <1>1, <1>9, EncodedBytes
  <2>. QED  BY <1>2, <1>4, <1>5, <1>9, <2>1, KeepKept
<1>. QED  BY <1>7, <1>8, <1>9

----------------------------------------------------------------------------
(* Indexing what was appended, and cutting.                                *)

LEMMA KeepAdd ==
    ASSUME Inv, Traced, DecodeInv, NeverSkip, KeepInv, NEW w \in Worker, AddIndex(w),
           pass[w].off # NoOffset, Synced' = Append(Synced, pass[w].seen),
           index' = Append(index, [block |-> HeightOf[pass[w].seen], i |-> pass[w].off]),
           UNCHANGED file
    PROVE  KeepInv'
<1>. DEFINE b   == pass[w].seen
            off == pass[w].off
            e   == [block |-> HeightOf[b], i |-> off]
            N   == Len(index)
<1>1. /\ pass[w].pc = "add" /\ off \in Nat /\ b \in Block
      /\ PacketsAt(file, off, b) /\ \A k \in 1..N : EndsAt(k) <= off
  BY DEF AddIndex, At, KeepInv, Inv, Shape, PassOK, Pass, Scanning
<1>2. /\ \A h \in 1..Len(Synced) : Synced'[h] = Synced[h]
      /\ Synced'[HeightOf[b]] = b
  <2>1. Synced = scanned
    BY SyncedStore
  <2>2. scanned \in Seq(Block) /\ HeightOf[b] = Len(scanned) + 1
    BY <1>1 DEF Inv, Shape, Traced, PassOK, Scanning
  <2>. QED  BY <1>1, <2>1, <2>2, AppendProperties
<1>3. /\ N \in Nat /\ Len(index') = N + 1
      /\ \A k \in 1..N : index'[k] = index[k]
      /\ index'[N + 1] = e
  <2>1. e \in IndexEntry /\ index \in Seq(IndexEntry) /\ index' = Append(index, e)
    BY <1>1, ChainAssumption DEF IndexEntry, Inv, Shape
  <2>. HIDE DEF e
  <2>. QED  BY <2>1, AppendProperties, LenProperties
<1>4. \A k \in 1..N : index[k].block \in 1..Len(Synced)
  BY IndexedTypes
<1>5. \A v \in Worker : pass'[v].pc \notin {"extend", "add"}
  <2>1. /\ pass'[w].pc = "advance"
        /\ \A v \in Worker : v # w => pass[v].pc = "idle" /\ pass'[v] = pass[v]
    BY <1>1, GotoLocals, Alone DEF AddIndex, Inv, Shape, PC
  <2>. QED  BY <2>1
<1>6. index'[N + 1].i = off /\ Synced'[index'[N + 1].block] = b
  <2>1. e.i = off /\ e.block = HeightOf[b]
    OBVIOUS
  <2>. HIDE DEF e
  <2>. QED  BY <1>2, <1>3, <2>1
<1>. HIDE DEF b, off, e
<1>7. ASSUME NEW k \in 1..N
      PROVE  /\ index'[k] = index[k] /\ Synced'[index'[k].block] = Synced[index[k].block]
             /\ EndsAt(k)' = EndsAt(k)
  BY <1>2, <1>3, <1>4 DEF EndsAt
<1>8. ASSUME NEW k \in 1..Len(index')
      PROVE  PacketsAt(file', index'[k].i, Synced'[index'[k].block])
  <2>1. CASE k \in 1..N
    <3>1. PacketsAt(file, index[k].i, Synced[index[k].block])
      BY <2>1 DEF KeepInv
    <3>2. index'[k].i = index[k].i /\ Synced'[index'[k].block] = Synced[index[k].block]
      BY <1>7, <2>1
    <3>. QED  BY <3>1, <3>2
  <2>2. CASE k = N + 1
    <3>1. index'[k].i = off /\ Synced'[index'[k].block] = b
      BY <1>6, <2>2
    <3>2. PacketsAt(file, off, b) /\ file' = file
      BY <1>1
    <3>. QED  BY <3>1, <3>2
  <2>3. k \in 1..N \/ k = N + 1
    BY <1>3
  <2>. QED  BY <2>1, <2>2, <2>3
<1>9. ASSUME NEW k \in 1..Len(index'), NEW m \in 1..Len(index'), k < m
      PROVE  EndsAt(k)' <= index'[m].i
  <2>1. k \in 1..N
    BY <1>3, <1>9
  <2>2. CASE m \in 1..N
    BY <1>7, <1>9, <2>1, <2>2 DEF KeepInv
  <2>3. CASE m = N + 1
    <3>1. EndsAt(k)' = EndsAt(k) /\ EndsAt(k) <= off
      BY <1>1, <1>7, <2>1
    <3>2. index'[m].i = off
      BY <1>6, <2>3
    <3>. QED  BY <3>1, <3>2
  <2>. QED  BY <1>3, <2>2, <2>3
<1>. QED  BY <1>5, <1>8, <1>9 DEF KeepInv

LEMMA KeepCut ==
    ASSUME Inv, Traced, NeverSkip, KeepInv, Inv', NEW w \in Worker, Truncate(w),
           SyncedChange(w), pass'[w].pc # "target",
           OffsetForHeight(index, pass[w].at) # NoOffset,
           file' = SetLen(file, OffsetForHeight(index, pass[w].at)),
           index' = RemoveFrom(index, pass[w].at),
           Synced' = SubSeq(Synced, 1, pass[w].at - 1)
    PROVE  KeepInv'
<1>. DEFINE fork == pass[w].at
            off  == OffsetForHeight(index, fork)
            N    == Len(index)
            m    == Len(index')
<1>1. /\ fork \in Nat /\ fork > 0 /\ index \in Seq(IndexEntry) /\ AscendingHeights(index)
      /\ N \in Nat /\ pass[w].pc = "truncate" /\ pass \in [Worker -> Pass]
      /\ fork - 1 \in 0..Len(scanned) /\ Len(scanned) \in Nat /\ scanned \in Seq(Block)
      /\ file \in Seq(Bytes) /\ Len(file) \in Nat
      /\ \A k \in 1..N : index[k].i \in Nat /\ index[k].block \in 1..Len(Synced)
  <2>1. /\ fork \in Nat /\ fork > 0 /\ fork <= lastScanned + 1 /\ lastScanned \in Nat
        /\ pass[w].pc = "truncate" /\ pass \in [Worker -> Pass]
        /\ AscendingHeights(index) /\ Len(scanned) = lastScanned
    BY DEF Truncate, At, Inv, Shape, Traced, PassOK, IndexInv, Pass, Cutting
  <2>2. fork - 1 \in 0..Len(scanned)
    BY <2>1
  <2>. QED  BY <2>1, <2>2, IndexedTypes
<1>2. /\ m \in 0..N /\ m < N /\ off = index[m + 1].i
      /\ \A k \in 1..m : index'[k] = index[k]
      /\ \A k \in 1..N : k <= m <=> index[k].block < fork
  BY <1>1, HeightsRemoved
<1>3. /\ Synced = scanned /\ \A h \in 1..(fork - 1) : Synced'[h] = Synced[h]
  <2>1. Synced = scanned
    BY SyncedStore
  <2>. DEFINE n == fork - 1
  <2>2. n \in 0..Len(scanned)
    BY <1>1
  <2>. HIDE DEF n
  <2>3. \A h \in 1..n : h \in 1..Len(scanned) /\ scanned[h] \in Block
    BY <1>1, <2>2, ElementOfSeq
  <2>4. \A h \in 1..n : SubSeq(scanned, 1, n)[h] = scanned[h]
    BY <1>1, <2>2, <2>3, SubSeqProperties
  <2>. QED  BY <2>1, <2>4 DEF n
<1>4. \A v \in Worker : pass'[v].pc \notin {"extend", "add"}
  <2>1. /\ pass'[w].pc \in {"target", "saveindex"}
        /\ \A v \in Worker : v # w => pass[v].pc = "idle" /\ pass'[v] = pass[v]
    BY <1>1, GotoLocals, Alone DEF Truncate, PC
  <2>. QED  BY <2>1
<1>5. /\ off \in Nat /\ file' \in Seq(Bytes) /\ Len(file') = off
      /\ \A p \in 1..off : p <= Len(file) => file'[p] = file[p]
  <2>1. off \in Nat
    BY <1>1, <1>2
  <2>. HIDE DEF off
  <2>2. file' = SetLen(file, off)
    BY DEF off
  <2>3. file' \in Seq(Bytes)
    BY DEF Inv, Shape, Bytes
  <2>4. file' = [p \in 1..off |-> IF p <= Len(file) THEN file[p] ELSE <<NoBlock, 0>>]
    BY <2>2 DEF SetLen
  <2>5. Len(file') = off
    BY <2>1, <2>3, <2>4, LenProperties
  <2>. QED  BY <2>1, <2>3, <2>4, <2>5
<1>. HIDE DEF off
<1>6. ASSUME NEW k \in 1..m
      PROVE  /\ k \in 1..N /\ index'[k] = index[k]
             /\ Synced'[index'[k].block] = Synced[index[k].block]
             /\ EndsAt(k)' = EndsAt(k) /\ EndsAt(k) <= off
  <2>1. k \in 1..N /\ k < m + 1 /\ m + 1 \in 1..N
    BY <1>1, <1>2
  <2>2. index[k].block \in 1..(fork - 1)
    <3>1. index[k].block < fork /\ index[k].block \in 1..Len(scanned)
      BY <1>1, <1>2, <1>3, <2>1
    <3>. QED  BY <1>1, <3>1
  <2>3. EndsAt(k) <= off
    BY <1>2, <2>1 DEF KeepInv
  <2>. QED  BY <1>2, <1>3, <2>1, <2>2, <2>3 DEF EndsAt
<1>7. ASSUME NEW k \in 1..m
      PROVE  PacketsAt(file', index'[k].i, Synced'[index'[k].block])
  <2>. DEFINE b == Synced[index[k].block]
              i == index[k].i
  <2>1. PacketsAt(file, i, b) /\ i \in Nat /\ b \in Block
    BY <1>1, <1>6, SyncedType, ElementOfSeq DEF KeepInv
  <2>2. i + ShieldTxs[b] + 1 <= off
    BY <1>6 DEF EndsAt
  <2>3. index'[k].i = i /\ Synced'[index'[k].block] = b
    BY <1>6
  <2>. HIDE DEF b, i
  <2>4. ShieldTxs[b] \in Nat /\ i + ShieldTxs[b] + 1 <= Len(file)
    BY <2>1, ChainAssumption DEF PacketsAt
  <2>5. \A p \in 1..(i + ShieldTxs[b] + 1) : file'[p] = file[p]
    <3>1. \A p \in 1..(i + ShieldTxs[b] + 1) : p \in 1..off /\ p <= Len(file)
      BY <1>1, <1>5, <2>1, <2>2, <2>4, SMTT(30)
    <3>. QED  BY <1>5, <3>1
  <2>6. PacketsAt(file', i, b)
    BY <1>1, <1>5, <2>1, <2>2, <2>5, PacketsKept
  <2>. QED  BY <2>3, <2>6
<1>8. ASSUME NEW k \in 1..m, NEW l \in 1..m, k < l PROVE EndsAt(k)' <= index'[l].i
  BY <1>6, <1>8 DEF KeepInv
<1>. QED  BY <1>4, <1>7, <1>8 DEF KeepInv

----------------------------------------------------------------------------
(* The other steps, and the theorem.                                       *)

\* Steps that leave index and file alone, and begin no append.
LEMMA KeepRest ==
    ASSUME Inv, Traced, DecodeInv, NeverSkip, KeepInv, Inv', NEW w \in Worker,
           SyncedChange(w), PlainStep(w) \/ PassStep(w), ~AppendFile(w),
           UNCHANGED <<index, file>>
    PROVE  KeepInv'
<1>1. file \in Seq(Bytes) /\ Len(file) \in Nat
  BY IndexedTypes
<1>2. CASE ExtendBuffer(w)
  <2>1. pass[w].pc = "extend" /\ Goto(w, "add") /\ "add" \in PC /\ pass \in [Worker -> Pass]
    BY <1>2 DEF ExtendBuffer, At, PC, Inv, Shape
  <2>2. /\ pass'[w].off = pass[w].off /\ pass'[w].seen = pass[w].seen
        /\ \A v \in Worker : v # w => pass[v].pc = "idle" /\ pass'[v] = pass[v]
    BY <2>1, GotoLocals, Alone
  <2>3. pass'[w].off # NoOffset =>
          /\ PacketsAt(file, pass'[w].off, pass'[w].seen)
          /\ \A k \in 1..Len(index) : EndsAt(k) <= pass'[w].off
    BY <2>1, <2>2 DEF KeepInv
  <2>. QED  BY <1>1, <2>2, <2>3, KeepKept
<1>3. CASE ~ExtendBuffer(w)
  <2>1. /\ pass'[w].pc # "add"
        /\ \A v \in Worker : v # w => pass[v].pc = "idle" /\ pass'[v] = pass[v]
    BY <1>3, ToAdd
  <2>2. pass'[w].pc # "extend"
    <3>1. CASE PlainStep(w)
      BY <3>1, PlainSteps DEF Plainly, Plain, Decoded
    <3>2. CASE \/ Truncate(w) \/ SaveTrimmedIndex(w) \/ Rewind(w) \/ Fetch(w)
               \/ CachePut(w) \/ AdvanceEmpty(w) \/ AddIndex(w) \/ Advance(w)
      <4>1. pass \in [Worker -> Pass]
        BY DEF Inv, Shape
      <4>. QED
        BY <3>2, <4>1 DEF Truncate, SaveTrimmedIndex, Rewind, Fetch, CachePut,
           AdvanceEmpty, AddIndex, Advance, At, Goto, Step, Pass
    <3>. QED  BY <1>3, <3>1, <3>2 DEF PassStep, PlainStep
  <2>. QED  BY <1>1, <2>1, <2>2, KeepKept
<1>. QED  BY <1>2, <1>3

\* Of the steps of a pass, one appends and one truncates.
LEMMA FileSteps ==
    ASSUME Inv, Traced, NEW w \in Worker, PlainStep(w) \/ PassStep(w),
           ~AppendFile(w), ~Truncate(w)
    PROVE  UNCHANGED file
<1>1. PlainStep(w) => UNCHANGED file
  BY PlainSteps
<1>. QED
  BY <1>1 DEF PassStep, PlainStep, SaveTrimmedIndex, Rewind, Fetch, CachePut,
     AdvanceEmpty, ExtendBuffer, AddIndex, Advance, store

LEMMA KeepStep ==
    ASSUME CutsReachDisk, Inv, Traced, DecodeInv, NeverSkip, KeepInv, Inv', [Next]_vars
    PROVE  KeepInv'
<1>1. CASE UNCHANGED <<Synced, index, buffer, file, pass>>
  BY <1>1 DEF KeepInv, EndsAt
<1>2. ASSUME NEW w \in Worker, SyncedChange(w), PlainStep(w) \/ PassStep(w)
      PROVE  KeepInv'
  <2>1. CASE AppendFile(w)
    BY <2>1, KeepAppend
  <2>2. CASE Truncate(w)
    <3>. DEFINE off == OffsetForHeight(index, pass[w].at)
    <3>1. ~MayFail("truncate") /\ pass \in [Worker -> Pass] /\ pass[w].pc = "truncate"
      BY <2>2 DEF CutsReachDisk, MayFail, Truncate, At, Inv, Shape
    <3>2. CASE UNCHANGED <<file, index>>
      BY <1>2, <2>2, <3>2, KeepRest DEF AppendFile, Truncate, At
    <3>3. CASE /\ off # NoOffset /\ file' = SetLen(file, off)
               /\ index' = RemoveFrom(index, pass[w].at)
               /\ Goto(w, "saveindex") /\ UNCHANGED scanned
      <4>1. /\ pass'[w].pc = "saveindex" /\ pass'[w].at = pass[w].at
            /\ \A v \in Worker : v # w => pass[v].pc = "idle" /\ pass'[v] = pass[v]
        BY <3>1, <3>3, GotoLocals, Alone DEF PC
      <4>2. Synced' = SubSeq(Synced, 1, pass[w].at - 1)
        BY <2>2, <3>3, <4>1, SyncedSteps, SyncedStore DEF SyncedAt
      <4>. QED  BY <1>2, <2>2, <3>3, <4>1, <4>2, KeepCut
    <3>. QED  BY <2>2, <3>1, <3>2, <3>3 DEF Truncate
  <2>3. CASE AddIndex(w)
    <3>1. UNCHANGED file
      BY <2>3 DEF AddIndex
    <3>2. CASE UNCHANGED index
      BY <1>2, <2>3, <3>1, <3>2, KeepRest DEF AppendFile, AddIndex, At
    <3>3. CASE ~UNCHANGED index
      <4>1. ~AdvanceEmpty(w) /\ ~Truncate(w)
        BY <2>3 DEF AdvanceEmpty, Truncate, AddIndex, At
      <4>. QED  BY <1>2, <2>3, <3>1, <3>3, <4>1, KeepAdd DEF SyncedChange
    <3>. QED  BY <3>2, <3>3
  <2>4. CASE ~AppendFile(w) /\ ~Truncate(w) /\ ~AddIndex(w)
    <3>1. UNCHANGED file
      BY <1>2, <2>4, FileSteps
    <3>2. UNCHANGED index
      BY <1>2, <2>4 DEF SyncedChange
    <3>. QED  BY <1>2, <2>4, <3>1, <3>2, KeepRest
  <2>. QED  BY <2>1, <2>2, <2>3, <2>4
<1>. QED  BY <1>1, <1>2, SyncedNext

LEMMA KeepMeans ==
    ASSUME Inv, Traced, NeverSkip, KeepInv PROVE FileKeepsIndexed
<1>1. ASSUME NEW k \in 1..Len(index)
      PROVE  LET b     == Synced[index[k].block]
                 bytes == Encode(b, ShieldTxs[b])
             IN  /\ index[k].i + Len(bytes) <= Len(file)
                 /\ SubSeq(file, index[k].i + 1, index[k].i + Len(bytes)) = bytes
  <2>. DEFINE b     == Synced[index[k].block]
              n     == ShieldTxs[b]
              bytes == Encode(b, n)
              i     == index[k].i
              kept  == SubSeq(file, i + 1, i + n + 1)
  <2>1. PacketsAt(file, i, b) /\ i \in Nat /\ b \in Block
        /\ file \in Seq(Bytes) /\ Len(file) \in Nat
    BY IndexedTypes, SyncedType, ElementOfSeq DEF KeepInv
  <2>. HIDE DEF b, i
  <2>2. /\ n \in Nat /\ i + n + 1 <= Len(file)
        /\ \A j \in 1..(n + 1) : file[i + j] = <<b, IF j <= n THEN j ELSE 0>>
    BY <2>1, ChainAssumption DEF PacketsAt
  <2>. HIDE DEF n
  <2>3. /\ bytes \in Seq(Bytes) /\ Len(bytes) = n + 1
        /\ \A j \in 1..(n + 1) : bytes[j] = <<b, IF j <= n THEN j ELSE 0>>
    <3>1. bytes = [j \in 1..(n + 1) |-> <<b, IF j <= n THEN j ELSE 0>>]
      BY DEF Encode
    <3>. HIDE DEF bytes
    <3>2. \A j \in 1..(n + 1) : <<b, IF j <= n THEN j ELSE 0>> \in Bytes
      <4>1. \A j \in 1..(n + 1) : (IF j <= n THEN j ELSE 0) \in Nat
        BY <2>2
      <4>. QED  BY <2>1, <4>1 DEF Bytes
    <3>. QED  BY <2>2, <3>1, <3>2
  <2>4. /\ kept \in Seq(Bytes) /\ Len(kept) = n + 1
        /\ \A j \in 1..(n + 1) : kept[j] = file[i + j]
    <3>1. \A p \in (i + 1)..(i + n + 1) : p \in 1..Len(file) /\ file[p] \in Bytes
      BY <2>1, <2>2, ElementOfSeq
    <3>2. /\ i + 1 \in Int /\ i + n + 1 \in Int
          /\ i + 1 <= i + n + 2
          /\ (i + n + 1) - (i + 1) + 1 = n + 1
      BY <2>1, <2>2
    <3>3. /\ kept \in Seq(Bytes) /\ Len(kept) = n + 1
          /\ \A j \in 1..(n + 1) : kept[j] = file[i + 1 + j - 1]
      <4>. DEFINE first == i + 1
                  last  == i + n + 1
      <4>1. /\ first \in Int /\ last \in Int /\ first <= last
            /\ last - first + 1 = n + 1
            /\ \A p \in first..last : file[p] \in Bytes
            /\ kept = SubSeq(file, first, last)
        BY <2>1, <2>2, <3>1
      <4>2. \A j \in 1..(n + 1) : first + j - 1 = i + 1 + j - 1
        OBVIOUS
      <4>. HIDE DEF first, last, kept
      <4>3. /\ SubSeq(file, first, last) \in Seq(Bytes)
            /\ Len(SubSeq(file, first, last)) = last - first + 1
            /\ \A j \in 1..(last - first + 1) :
                 SubSeq(file, first, last)[j] = file[first + j - 1]
        BY <4>1, SubSeqProperties
      <4>. QED  BY <4>1, <4>2, <4>3
    <3>4. \A j \in 1..(n + 1) : i + 1 + j - 1 = i + j
      BY <2>1, <2>2
    <3>. QED  BY <3>2, <3>3, <3>4
  <2>. HIDE DEF bytes, kept
  <2>5. kept = bytes
    BY <2>2, <2>3, <2>4, SeqEqual
  <2>6. i + Len(bytes) = i + n + 1
    BY <2>1, <2>2, <2>3
  <2>. QED  BY <2>2, <2>5, <2>6 DEF b, n, i, bytes, kept
<1>. QED  BY <1>1 DEF FileKeepsIndexed

\* Whatever appends and saves fail, each index entry points in shield.bin at
\* the block scanned at its height, whole: the remains of an append that
\* failed are never taken for a block, and no later append or truncation
\* reaches into one, as long as the truncations themselves reach the disk.
THEOREM FileKeepsAll ==
    ASSUME CutsReachDisk, WholeReads PROVE Spec => []FileKeepsIndexed
<1>1. Init => KeepInv
  <2>. SUFFICES ASSUME Init PROVE KeepInv
    OBVIOUS
  <2>1. index = <<>> /\ \A w \in Worker : pass[w].pc = "idle"
    BY DEF Init, IdlePass
  <2>. QED  BY <2>1 DEF KeepInv
<1>2. Inv /\ Traced /\ DecodeInv /\ NeverSkip /\ KeepInv /\ Inv' /\ [Next]_vars
        => KeepInv'
  BY KeepStep
<1>3. Inv /\ Traced /\ NeverSkip /\ KeepInv => FileKeepsIndexed
  BY KeepMeans
<1>. QED
  BY <1>1, <1>2, <1>3, DecodeInvariance, NothingSkipped, TracedInvariance, PTL DEF Spec
=============================================================================
