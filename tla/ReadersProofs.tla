---------------------------- MODULE ReadersProofs ----------------------------
(***************************************************************************)
(* What the HTTP readers of the shield store answer, for every set of      *)
(* blocks, chains and requests, and with any number of requests at a time. *)
(***************************************************************************)
EXTENDS Readers, ShieldStoreProofs, FiniteSetTheorems

----------------------------------------------------------------------------
(* The store between two steps of the indexer: the buffer is whole blocks, *)
(* and the index names the blocks of its first n packets.  The packets     *)
(* after them are the block that Extend has stored and Add has yet to name. *)

\* Heights never fall along the buffer.
Rising(s) ==
    \A p, q \in 1..Len(s) : p <= q => HeightOf[s[p][1]] <= HeightOf[s[q][1]]

\* An entry's offset is where its block begins.
PointsAt(idx, s) ==
    \A k \in 1..Len(idx) :
        /\ idx[k].i < Len(s)
        /\ s[idx[k].i + 1][2] = 1
        /\ HeightOf[s[idx[k].i + 1][1]] = idx[k].block

Holding(idx, s, n) ==
    /\ AscendingHeights(idx) /\ AscendingOffsets(idx)
    /\ WholeBlocks(s) /\ Rising(s)
    /\ PointsAt(idx, s)
    /\ n \in 0..Len(s)
    /\ \A k \in 1..Len(idx) : idx[k].i < n
    /\ \A p \in 1..n : HeightOf[s[p][1]] \in HeightsIn(idx)

\* No packet of s and no entry of idx is above height h.
UpTo(idx, s, h) ==
    /\ \A k \in 1..Len(idx) : idx[k].block <= h
    /\ \A p \in 1..Len(s) : HeightOf[s[p][1]] <= h

Stored == writer.pc \in {"index", "add"}

StoreInv ==
    /\ Holding(index, buffer, IF Stored THEN writer.off ELSE Len(buffer))
    /\ IF Stored
       THEN /\ writer.off < Len(buffer)
            /\ buffer[writer.off + 1] = <<NextBlock, 1>>
            /\ \A p \in (writer.off + 1)..Len(buffer) : buffer[p][1] = NextBlock
            /\ \A k \in 1..Len(index) : index[k].block <= scannedTo
       ELSE UpTo(index, buffer, scannedTo)

----------------------------------------------------------------------------
(* The invariant.                                                          *)

WriterPc == {"idle", "check", "append", "extend", "index", "add", "cut", "truncate"}

ReaderPc == {"idle", "find", "offset", "slice", "length", "measure", "data", "size"}

RequestType ==
    [ pc : ReaderPc, start : Nat, end : Nat, off : Nat \cup {NoOffset},
      due : SUBSET Heights, cut : BOOLEAN, data : Seq(Packet), size : Nat,
      room : SUBSET Packet ]

TypeInv ==
    /\ index \in Seq(IndexEntry) /\ buffer \in Seq(Packet)
    /\ chain \in Chains /\ scannedTo \in 0..Len(chain)
    /\ writer \in [pc : WriterPc, fork : Nat, off : Nat]
    /\ reader \in [Reader -> RequestType]

\* What the indexer knows at each of its steps.
WriterInv ==
    /\ writer.pc \in {"check", "append", "extend", "index", "add"} =>
         scannedTo < Len(chain) /\ ShieldTxs[NextBlock] > 0
    /\ writer.pc = "extend" => writer.off = Len(buffer)
    /\ writer.pc \in {"cut", "truncate"} => writer.fork \in 1..scannedTo

\* A handler between its two locks: until a cut the offset it took is still
\* that of its start, and the blocks it owes are still indexed.
Waiting(r) ==
    ~reader[r].cut =>
        /\ reader[r].off = OffsetForHeight(index, reader[r].start)
        /\ reader[r].due \subseteq HeightsIn(index)
        /\ \A h \in reader[r].due : h >= reader[r].start

Served(r) == {HeightOf[reader[r].data[p][1]] : p \in 1..Len(reader[r].data)}

Answered(r) ==
    ~reader[r].cut =>
        /\ WholeBlocks(reader[r].data)
        /\ reader[r].due \subseteq Served(r)
        /\ \A h \in Served(r) : h >= reader[r].start

Measured(r) ==
    Cardinality({p \in reader[r].room : HeightOf[p[1]] \in reader[r].due})
      <= reader[r].size

RequestOk(r) ==
    /\ reader[r].pc # "data" => reader[r].data = <<>>
    /\ reader[r].pc \in {"offset", "slice"} => reader[r].off # NoOffset /\ Waiting(r)
    /\ reader[r].pc = "data" => Answered(r)
    /\ reader[r].pc = "size" => Measured(r)

RequestInv == \A r \in Reader : RequestOk(r)

ReadInv == TypeInv /\ WriterInv /\ StoreInv /\ RequestInv

----------------------------------------------------------------------------
(* The operators on the store.                                             *)

LEMMA PacketTypes ==
    ASSUME NEW s \in Seq(Packet)
    PROVE  /\ Len(s) \in Nat
           /\ \A p \in 1..Len(s) :
                /\ s[p] = <<s[p][1], s[p][2]>>
                /\ s[p] \in Packet
                /\ s[p][1] \in Block /\ s[p][2] \in Nat
                /\ HeightOf[s[p][1]] \in Heights
                /\ HeightOf[s[p][1]] \in Nat
<1>1. \A p \in 1..Len(s) : s[p] \in Packet
  BY ElementOfSeq
<1>2. Heights \subseteq Nat
  BY ChainAssumption DEF Heights
<1>3. \A e \in Packet : e = <<e[1], e[2]>> /\ e[1] \in Block /\ e[2] \in Nat
  BY DEF Packet
<1>. QED  BY <1>1, <1>2, <1>3, LenProperties, ChainAssumption

\* What stands before an indexed block is from below its height, and what
\* follows is not; the packet just before it is a footer.
LEMMA Around ==
    ASSUME NEW idx \in Seq(IndexEntry), NEW s \in Seq(Packet), NEW n,
           Holding(idx, s, n), NEW k \in 1..Len(idx)
    PROVE  /\ idx[k].i \in 0..(Len(s) - 1)
           /\ \A p \in 1..idx[k].i : HeightOf[s[p][1]] < idx[k].block
           /\ \A p \in (idx[k].i + 1)..Len(s) : HeightOf[s[p][1]] >= idx[k].block
           /\ idx[k].i > 0 => s[idx[k].i][2] = 0
<1>. DEFINE i == idx[k].i
<1>1. /\ i \in Nat /\ i < Len(s) /\ Len(s) \in Nat /\ idx[k].block \in Nat
      /\ s[i + 1][2] = 1 /\ HeightOf[s[i + 1][1]] = idx[k].block
  BY EntryTypes, PacketTypes DEF Holding, PointsAt
<1>. HIDE DEF i
<1>2. i \in 0..(Len(s) - 1) /\ i + 1 \in 1..Len(s)
  BY <1>1
<1>3. \A p, q \in 1..Len(s) : p <= q => HeightOf[s[p][1]] <= HeightOf[s[q][1]]
  BY DEF Holding, Rising
<1>4. \A p \in 1..Len(s) : HeightOf[s[p][1]] \in Nat /\ s[p][2] \in Nat
  BY PacketTypes
<1>5. ASSUME i > 0
      PROVE  s[i][2] = 0 /\ HeightOf[s[i][1]] < idx[k].block
  <2>1. i \in 1..(Len(s) - 1) /\ i \in 1..Len(s)
    BY <1>1, <1>5
  <2>2. IF s[i][2] = 0
        THEN s[i + 1][2] = 1 /\ HeightOf[s[i + 1][1]] > HeightOf[s[i][1]]
        ELSE s[i + 1] = <<s[i][1], IF s[i][2] < ShieldTxs[s[i][1]]
                                   THEN s[i][2] + 1 ELSE 0>>
    BY <2>1 DEF Holding, WholeBlocks
  <2>3. s[i][2] = 0
    <3>1. SUFFICES ASSUME s[i][2] # 0 PROVE FALSE
      OBVIOUS
    <3>. DEFINE j == IF s[i][2] < ShieldTxs[s[i][1]] THEN s[i][2] + 1 ELSE 0
    <3>2. j # 1
      BY <3>1, <2>1, <1>4
    <3>3. s[i + 1] = <<s[i][1], j>>
      BY <2>2, <3>1
    <3>. HIDE DEF j
    <3>4. s[i + 1][2] = j
      BY <3>3
    <3>. QED  BY <3>2, <3>4, <1>1
  <2>4. HeightOf[s[i + 1][1]] > HeightOf[s[i][1]]
    BY <2>2, <2>3
  <2>. QED  BY <2>1, <2>3, <2>4, <1>1, <1>4
<1>6. ASSUME NEW p \in 1..i PROVE HeightOf[s[p][1]] < idx[k].block
  <2>1. i > 0 /\ p \in 1..Len(s) /\ i \in 1..Len(s) /\ p <= i
    BY <1>1
  <2>2. HeightOf[s[p][1]] <= HeightOf[s[i][1]]
    BY <2>1, <1>3
  <2>. QED  BY <2>1, <2>2, <1>1, <1>4, <1>5
<1>7. ASSUME NEW p \in (i + 1)..Len(s) PROVE HeightOf[s[p][1]] >= idx[k].block
  <2>1. p \in 1..Len(s) /\ i + 1 <= p
    BY <1>1
  <2>2. HeightOf[s[i + 1][1]] <= HeightOf[s[p][1]]
    BY <2>1, <1>2, <1>3
  <2>. QED  BY <2>1, <2>2, <1>1, <1>4
<1>. QED  BY <1>2, <1>5, <1>6, <1>7 DEF i

\* The stream from an indexed block on is whole blocks of its height and
\* above, every later block of the index among them.
LEMMA SliceFromEntry ==
    ASSUME NEW idx \in Seq(IndexEntry), NEW s \in Seq(Packet), NEW n,
           Holding(idx, s, n), NEW k \in 1..Len(idx)
    PROVE  LET d == SubSeq(s, idx[k].i + 1, Len(s))
           IN  /\ d \in Seq(Packet)
               /\ WholeBlocks(d)
               /\ \A p \in 1..Len(d) : HeightOf[d[p][1]] >= idx[k].block
               /\ \A m \in k..Len(idx) :
                    \E p \in 1..Len(d) : HeightOf[d[p][1]] = idx[m].block
<1>. DEFINE i == idx[k].i
            d == SubSeq(s, i + 1, Len(s))
<1>1. /\ Len(s) \in Nat /\ Len(idx) \in Nat
      /\ \A m \in 1..Len(idx) : idx[m].i \in Nat /\ idx[m].i < Len(s)
      /\ i \in Nat /\ i < Len(s)
  BY EntryTypes, PacketTypes DEF Holding, PointsAt
<1>2. /\ s[i + 1][2] = 1
      /\ \A p \in (i + 1)..Len(s) : HeightOf[s[p][1]] >= idx[k].block
  BY Around DEF Holding, PointsAt
<1>. HIDE DEF i
<1>3. /\ d \in Seq(Packet) /\ Len(d) = Len(s) - i
      /\ \A p \in 1..(Len(s) - i) : d[p] = s[i + p]
  <2>1. i + 1 \in 1..Len(s) /\ Len(s) \in 1..Len(s)
    BY <1>1
  <2>2. \A p \in (i + 1)..Len(s) : s[p] \in Packet
    BY <1>1, PacketTypes
  <2>3. /\ SubSeq(s, i + 1, Len(s)) \in Seq(Packet)
        /\ Len(SubSeq(s, i + 1, Len(s))) =
             IF i + 1 <= Len(s) THEN Len(s) - (i + 1) + 1 ELSE 0
        /\ \A p \in 1..(Len(s) - (i + 1) + 1) :
             SubSeq(s, i + 1, Len(s))[p] = s[i + 1 + p - 1]
    BY <2>1, <2>2, <1>1, SubSeqProperties
  <2>4. Len(s) - (i + 1) + 1 = Len(s) - i /\ i + 1 <= Len(s)
    BY <1>1
  <2>5. \A p \in 1..(Len(s) - i) : i + 1 + p - 1 = i + p
    BY <1>1
  <2>. QED  BY <2>3, <2>4, <2>5
<1>. HIDE DEF d
<1>4. \A p \in 1..Len(d) : i + p \in 1..Len(s) /\ i + p \in (i + 1)..Len(s) /\ d[p] = s[i + p]
  BY <1>1, <1>3
<1>5. WholeBlocks(d)
  <2>1. d[1][2] = 1 /\ d[Len(d)][2] = 0
    <3>1. 1 \in 1..(Len(s) - i) /\ Len(s) - i \in 1..(Len(s) - i) /\ i + (Len(s) - i) = Len(s)
      BY <1>1
    <3>2. d[1] = s[i + 1] /\ d[Len(d)] = s[Len(s)]
      BY <3>1, <1>3
    <3>3. s # <<>>
      BY <1>1
    <3>. QED  BY <3>2, <3>3, <1>2 DEF Holding, WholeBlocks
  <2>2. ASSUME NEW p \in 1..(Len(d) - 1)
        PROVE  /\ d[p] = s[i + p] /\ d[p + 1] = s[i + p + 1]
               /\ i + p \in 1..(Len(s) - 1)
    <3>1. p \in 1..(Len(s) - i) /\ p + 1 \in 1..(Len(s) - i) /\ i + (p + 1) = i + p + 1
      BY <1>1, <1>3
    <3>2. i + p \in 1..(Len(s) - 1)
      BY <1>1, <1>3
    <3>. QED  BY <3>1, <3>2, <1>3
  <2>3. \A p \in 1..(Len(s) - 1) :
          IF s[p][2] = 0
          THEN s[p + 1][2] = 1 /\ HeightOf[s[p + 1][1]] > HeightOf[s[p][1]]
          ELSE s[p + 1] = <<s[p][1], IF s[p][2] < ShieldTxs[s[p][1]]
                                     THEN s[p][2] + 1 ELSE 0>>
    BY DEF Holding, WholeBlocks
  <2>. QED  BY <2>1, <2>2, <2>3, ZenonT(40) DEF WholeBlocks
<1>6. ASSUME NEW m \in k..Len(idx)
      PROVE  \E p \in 1..Len(d) : HeightOf[d[p][1]] = idx[m].block
  <2>1. m \in 1..Len(idx) /\ (m = k \/ k < m)
    BY <1>1
  <2>2. idx[m].i >= i
    BY <2>1, <1>1 DEF Holding, AscendingOffsets, i
  <2>. DEFINE p == idx[m].i + 1 - i
  <2>3. p \in 1..Len(d) /\ i + p = idx[m].i + 1
    <3>1. idx[m].i \in Nat /\ idx[m].i < Len(s)
      BY <2>1, <1>1
    <3>2. Len(d) = Len(s) - i
      BY <1>3
    <3>. QED  BY <3>1, <3>2, <2>2, <1>1
  <2>4. HeightOf[s[idx[m].i + 1][1]] = idx[m].block
    BY <2>1 DEF Holding, PointsAt
  <2>. QED  BY <2>3, <2>4, <1>4
<1>7. \A p \in 1..Len(d) : HeightOf[d[p][1]] >= idx[k].block
  BY <1>2, <1>4
<1>. QED  BY <1>3, <1>5, <1>6, <1>7 DEF d, i

\* A cut at an indexed block leaves whole blocks, below the height cut at.
LEMMA HoldingCut ==
    ASSUME NEW idx \in Seq(IndexEntry), NEW s \in Seq(Packet), NEW h \in Nat,
           Holding(idx, s, Len(s)), OffsetForHeight(idx, h) # NoOffset
    PROVE  LET off == OffsetForHeight(idx, h)
               new == RemoveFrom(idx, h)
               cut == SubSeq(s, 1, off)
           IN  /\ new \in Seq(IndexEntry) /\ cut \in Seq(Packet)
               /\ Len(cut) = off
               /\ Holding(new, cut, Len(cut))
               /\ \A k \in 1..Len(new) : new[k].block < h
               /\ \A p \in 1..Len(cut) : HeightOf[cut[p][1]] < h
<1>. DEFINE off == OffsetForHeight(idx, h)
            new == RemoveFrom(idx, h)
            cut == SubSeq(s, 1, off)
            q   == PartitionPoint(idx, h)
            N   == Len(idx)
<1>1. /\ N \in Nat /\ Len(s) \in Nat
      /\ \A m \in 1..N : idx[m].block \in Nat /\ idx[m].i \in Nat
  BY EntryTypes, LenProperties
<1>2. /\ AscendingHeights(idx) /\ AscendingOffsets(idx) /\ PointsAt(idx, s)
      /\ WholeBlocks(s) /\ Rising(s)
      /\ \A p \in 1..Len(s) : HeightOf[s[p][1]] \in HeightsIn(idx)
  BY DEF Holding
<1>3. q \in 1..N /\ \A m \in 1..N : m < q => idx[m].block < h
  <2>1. q \in 1..(N + 1) /\ \A m \in 1..N : m < q => idx[m].block < h
    BY <1>2, PartitionPointSplits
  <2>2. q <= N
    BY DEF OffsetForHeight
  <2>. QED  BY <1>1, <2>1, <2>2
<1>4. off = idx[q].i
  BY <1>3 DEF OffsetForHeight
<1>5. /\ off \in 0..(Len(s) - 1)
      /\ \A p \in 1..off : HeightOf[s[p][1]] < idx[q].block
      /\ off > 0 => s[off][2] = 0
  BY <1>3, <1>4, Around
<1>6. /\ new \in Seq(IndexEntry) /\ Len(new) = q - 1
      /\ \A k \in 1..(q - 1) : new[k] = idx[k]
  <2>1. q - 1 \in 0..N
    BY <1>1, <1>3
  <2>2. \A e \in 1..(q - 1) : e \in 1..N
    BY <1>1, <1>3
  <2>. QED  BY <1>1, <2>1, <2>2, SubSeqProperties DEF RemoveFrom
<1>7. /\ cut \in Seq(Packet) /\ Len(cut) = off
      /\ \A p \in 1..off : cut[p] = s[p]
  BY <1>1, <1>5, SubSeqProperties
<1>. HIDE DEF off, new, cut, q
<1>8. \A k \in 1..Len(new) : k \in 1..N /\ k < q /\ new[k] = idx[k] /\ new[k].block < h
  BY <1>1, <1>3, <1>6
<1>9. \A p \in 1..Len(cut) : p \in 1..Len(s) /\ cut[p] = s[p]
  BY <1>1, <1>5, <1>7
<1>10. AscendingHeights(new) /\ AscendingOffsets(new)
  BY <1>2, <1>8 DEF AscendingHeights, AscendingOffsets
<1>11. WholeBlocks(cut)
  <2>1. ASSUME cut # <<>> PROVE cut[1][2] = 1 /\ cut[Len(cut)][2] = 0
    <3>1. off > 0 /\ 1 \in 1..off /\ off \in 1..off
      BY <1>5, <1>7, <2>1, EmptySeq
    <3>2. s # <<>>
      BY <3>1, <1>5, <1>1
    <3>. QED  BY <3>1, <3>2, <1>2, <1>5, <1>7 DEF WholeBlocks
  <2>2. \A p \in 1..(Len(cut) - 1) :
          cut[p] = s[p] /\ cut[p + 1] = s[p + 1] /\ p \in 1..(Len(s) - 1)
    BY <1>1, <1>5, <1>7
  <2>. QED  BY <2>1, <2>2, <1>2, ZenonT(40) DEF WholeBlocks
<1>12. Rising(cut)
  BY <1>2, <1>9 DEF Rising
<1>13. \A k \in 1..Len(new) : new[k].i < off /\ new[k].i + 1 \in 1..off
  <2>1. SUFFICES ASSUME NEW k \in 1..Len(new)
                 PROVE  idx[k].i < idx[q].i /\ new[k].i = idx[k].i /\ idx[k].i \in Nat
    BY <1>1, <1>3, <1>4, SMTT(30)
  <2>. QED  BY <1>1, <1>2, <1>3, <1>8 DEF AscendingOffsets
<1>14. PointsAt(new, cut)
  <2>1. ASSUME NEW k \in 1..Len(new)
        PROVE  /\ new[k].i < Len(cut) /\ cut[new[k].i + 1][2] = 1
               /\ HeightOf[cut[new[k].i + 1][1]] = new[k].block
    <3>1. /\ new[k].i < off /\ cut[new[k].i + 1] = s[new[k].i + 1]
          /\ k \in 1..N /\ new[k] = idx[k]
      BY <1>7, <1>8, <1>13
    <3>2. s[idx[k].i + 1][2] = 1 /\ HeightOf[s[idx[k].i + 1][1]] = idx[k].block
      BY <3>1, <1>2 DEF PointsAt
    <3>. QED  BY <3>1, <3>2, <1>7
  <2>. QED  BY <2>1 DEF PointsAt
<1>15. ASSUME NEW p \in 1..off PROVE HeightOf[cut[p][1]] \in HeightsIn(new)
  <2>1. p \in 1..Len(s) /\ cut[p] = s[p] /\ HeightOf[s[p][1]] < idx[q].block
    BY <1>5, <1>7, <1>9
  <2>2. PICK m \in 1..N : HeightOf[s[p][1]] = idx[m].block
    BY <1>2, <2>1 DEF HeightsIn
  <2>3. m < q
    <3>1. CASE m = q
      BY <3>1, <2>1, <2>2, <1>1, <1>3
    <3>2. CASE m > q
      BY <3>2, <2>1, <2>2, <1>1, <1>2, <1>3 DEF AscendingHeights
    <3>. QED  BY <3>1, <3>2, <1>3
  <2>4. m \in 1..Len(new) /\ new[m] = idx[m]
    BY <2>3, <1>3, <1>6
  <2>. QED  BY <2>1, <2>2, <2>4 DEF HeightsIn
<1>16. \A p \in 1..Len(cut) : HeightOf[cut[p][1]] < h
  BY <1>7, <1>8, <1>15 DEF HeightsIn
<1>17. Holding(new, cut, Len(cut))
  BY <1>5, <1>7, <1>10, <1>11, <1>12, <1>13, <1>14, <1>15 DEF Holding
<1>. QED  BY <1>6, <1>7, <1>8, <1>16, <1>17 DEF off, new, cut

\* The next block is stored behind whole blocks that are all below it.
LEMMA HoldingExtend ==
    ASSUME NEW idx \in Seq(IndexEntry), NEW s \in Seq(Packet), NEW b \in Block,
           ShieldTxs[b] > 0,
           Holding(idx, s, Len(s)),
           \A p \in 1..Len(s) : HeightOf[s[p][1]] < HeightOf[b]
    PROVE  LET new == s \o Encode(b, ShieldTxs[b])
           IN  /\ new \in Seq(Packet)
               /\ Len(s) < Len(new)
               /\ new[Len(s) + 1] = <<b, 1>>
               /\ \A p \in (Len(s) + 1)..Len(new) : new[p][1] = b
               /\ Holding(idx, new, Len(s))
<1>. DEFINE n   == ShieldTxs[b]
            e   == Encode(b, n)
            new == s \o e
            L   == Len(s)
            At(j) == IF j <= n THEN j ELSE 0
<1>1. n \in Nat /\ n > 0 /\ HeightOf[b] \in Nat /\ L \in Nat
  BY ChainAssumption, LenProperties DEF Heights
<1>2. e \in Seq(Packet) /\ Len(e) = n + 1 /\ \A j \in 1..(n + 1) : e[j] = <<b, At(j)>>
  BY <1>1, EncodeProperties
<1>. HIDE DEF e
<1>3. /\ new \in Seq(Packet) /\ Len(new) = L + n + 1
      /\ \A p \in 1..L : new[p] = s[p]
      /\ \A j \in 1..(n + 1) : new[L + j] = <<b, At(j)>>
  <2>1. /\ new \in Seq(Packet) /\ Len(new) = L + Len(e)
        /\ \A p \in 1..(L + Len(e)) : new[p] = IF p <= L THEN s[p] ELSE e[p - L]
    BY <1>2, ConcatProperties
  <2>2. \A j \in 1..(n + 1) : L + j \in 1..(L + n + 1) /\ ~(L + j <= L) /\ (L + j) - L = j
    BY <1>1
  <2>3. \A p \in 1..L : p \in 1..(L + n + 1) /\ p <= L
    BY <1>1
  <2>4. L + Len(e) = L + n + 1
    BY <1>1, <1>2
  <2>5. \A p \in 1..(L + n + 1) : new[p] = IF p <= L THEN s[p] ELSE e[p - L]
    BY <2>1, <2>4
  <2>. HIDE DEF new, At, n, L
  <2>6. \A p \in 1..L : new[p] = s[p]
    BY <2>3, <2>5
  <2>7. \A j \in 1..(n + 1) : new[L + j] = e[j]
    BY <2>2, <2>5
  <2>. QED  BY <1>2, <2>1, <2>4, <2>6, <2>7
<1>. HIDE DEF new, n, L
<1>4. /\ At(1) = 1 /\ At(n + 1) = 0 /\ \A j \in 1..n : At(j) = j
      /\ \A j \in 1..n : At(j + 1) = IF j < n THEN j + 1 ELSE 0
  BY <1>1
<1>. HIDE DEF At
<1>5. \A j \in 1..(n + 1) : new[L + j][1] = b /\ new[L + j][2] = At(j)
  BY <1>3
<1>6. ASSUME NEW p \in 1..Len(new)
      PROVE  p \in 1..L \/ (p - L \in 1..(n + 1) /\ L + (p - L) = p)
  BY <1>1, <1>3
<1>7. \A p \in (L + 1)..Len(new) : new[p][1] = b
  <2>1. \A p \in (L + 1)..Len(new) : p - L \in 1..(n + 1) /\ L + (p - L) = p
    BY <1>1, <1>3
  <2>. QED  BY <2>1, <1>5
<1>8. new[L + 1] = <<b, 1>>
  <2>1. 1 \in 1..(n + 1)
    BY <1>1
  <2>. QED  BY <2>1, <1>3, <1>4
<1>9. WholeBlocks(new)
  <2>1. new # <<>> /\ new[1][2] = 1
    <3>1. CASE L = 0
      BY <3>1, <1>1, <1>3, <1>8
    <3>2. CASE L > 0
      <4>1. 1 \in 1..L /\ s # <<>>
        BY <3>2, <1>1 DEF L
      <4>2. s[1][2] = 1
        BY <4>1 DEF Holding, WholeBlocks
      <4>. QED  BY <4>1, <4>2, <1>1, <1>3
    <3>. QED  BY <3>1, <3>2, <1>1
  <2>2. new[Len(new)][2] = 0
    <3>1. n + 1 \in 1..(n + 1) /\ L + (n + 1) = Len(new)
      BY <1>1, <1>3
    <3>. QED  BY <3>1, <1>4, <1>5
  <2>3. ASSUME NEW p \in 1..(Len(new) - 1)
        PROVE  IF new[p][2] = 0
               THEN new[p + 1][2] = 1 /\ HeightOf[new[p + 1][1]] > HeightOf[new[p][1]]
               ELSE new[p + 1] = <<new[p][1], IF new[p][2] < ShieldTxs[new[p][1]]
                                              THEN new[p][2] + 1 ELSE 0>>
    <3>1. CASE p \in 1..(L - 1)
      <4>1. new[p] = s[p] /\ new[p + 1] = s[p + 1]
        <5>1. p \in 1..L /\ p + 1 \in 1..L
          BY <3>1, <1>1
        <5>. QED  BY <5>1, <1>3
      <4>2. IF s[p][2] = 0
            THEN s[p + 1][2] = 1 /\ HeightOf[s[p + 1][1]] > HeightOf[s[p][1]]
            ELSE s[p + 1] = <<s[p][1], IF s[p][2] < ShieldTxs[s[p][1]]
                                       THEN s[p][2] + 1 ELSE 0>>
        BY <3>1 DEF Holding, WholeBlocks, L
      <4>. QED  BY <4>1, <4>2
    <3>2. CASE p = L
      <4>1. p \in 1..L /\ new[p] = s[p] /\ s # <<>>
        BY <3>2, <1>1, <1>3 DEF L
      <4>2. s[p][2] = 0 /\ HeightOf[s[p][1]] < HeightOf[b]
        BY <3>2, <4>1 DEF Holding, WholeBlocks, L
      <4>3. new[p + 1][2] = 1 /\ new[p + 1][1] = b
        BY <3>2, <1>8
      <4>4. HeightOf[s[p][1]] \in Nat
        BY <4>1, PacketTypes DEF L
      <4>. QED  BY <4>1, <4>2, <4>3, <4>4, <1>1
    <3>3. CASE p - L \in 1..n
      <4>. DEFINE j == p - L
      <4>1. j \in 1..n /\ j \in 1..(n + 1) /\ j + 1 \in 1..(n + 1)
            /\ L + j = p /\ L + (j + 1) = p + 1
        BY <3>3, <1>1
      <4>. HIDE DEF j
      <4>2. new[p][1] = b /\ new[p][2] = j /\ j # 0
        BY <4>1, <1>4, <1>5
      <4>3. new[p + 1] = <<b, At(j + 1)>> /\ At(j + 1) = IF j < n THEN j + 1 ELSE 0
        <5>1. new[L + (j + 1)] = <<b, At(j + 1)>>
          BY <4>1, <1>3
        <5>. QED  BY <5>1, <4>1, <1>4
      <4>4. At(j + 1) = IF new[p][2] < ShieldTxs[new[p][1]] THEN new[p][2] + 1 ELSE 0
        BY <4>2, <4>3 DEF n
      <4>. QED  BY <4>2, <4>3, <4>4
    <3>4. p \in 1..(L - 1) \/ p = L \/ p - L \in 1..n
      BY <1>1, <1>3
    <3>. QED  BY <3>1, <3>2, <3>3, <3>4
  <2>. QED  BY <2>1, <2>2, <2>3 DEF WholeBlocks
<1>10. Rising(new)
  <2>1. \A p \in 1..L : HeightOf[s[p][1]] \in Nat
    BY PacketTypes DEF L
  <2>2. ASSUME NEW p \in 1..Len(new), NEW r \in 1..Len(new), p <= r
        PROVE  HeightOf[new[p][1]] <= HeightOf[new[r][1]]
    <3>1. CASE r \in 1..L
      <4>1. p \in 1..L
        BY <3>1, <2>2, <1>1
      <4>. QED  BY <3>1, <4>1, <2>2, <1>3 DEF Holding, Rising, L
    <3>2. CASE r - L \in 1..(n + 1) /\ L + (r - L) = r
      <4>1. new[r][1] = b
        BY <3>2, <1>5
      <4>2. CASE p \in 1..L
        <5>1. HeightOf[s[p][1]] < HeightOf[b] /\ new[p] = s[p]
          BY <4>2, <1>3 DEF L
        <5>. QED  BY <5>1, <4>1, <4>2, <1>1, <2>1
      <4>3. CASE p - L \in 1..(n + 1) /\ L + (p - L) = p
        <5>1. new[p][1] = b
          BY <4>3, <1>5
        <5>. QED  BY <5>1, <4>1, <1>1
      <4>. QED  BY <4>2, <4>3, <1>6
    <3>. QED  BY <3>1, <3>2, <1>6
  <2>. QED  BY <2>2 DEF Rising
<1>11. PointsAt(idx, new) /\ \A k \in 1..Len(idx) : idx[k].i < L
  <2>1. ASSUME NEW k \in 1..Len(idx)
        PROVE  /\ idx[k].i < L /\ idx[k].i < Len(new)
               /\ new[idx[k].i + 1] = s[idx[k].i + 1]
    <3>1. idx[k].i \in Nat /\ idx[k].i < L
      BY EntryTypes DEF Holding, PointsAt, L
    <3>2. idx[k].i + 1 \in 1..L
      BY <3>1, <1>1
    <3>. QED  BY <3>1, <3>2, <1>1, <1>3
  <2>. QED  BY <2>1 DEF Holding, PointsAt
<1>12. Holding(idx, new, L)
  <2>1. \A p \in 1..L : HeightOf[new[p][1]] \in HeightsIn(idx)
    BY <1>3 DEF Holding, L
  <2>2. L \in 0..Len(new)
    BY <1>1, <1>3
  <2>3. AscendingHeights(idx) /\ AscendingOffsets(idx)
    BY DEF Holding
  <2>. QED  BY <2>1, <2>2, <2>3, <1>9, <1>10, <1>11 DEF Holding
<1>13. L < Len(new)
  BY <1>1, <1>3
<1>. QED  BY <1>3, <1>7, <1>8, <1>12, <1>13 DEF new, e, n, L

\* The index names the block that the buffer holds behind its first n packets.
LEMMA HoldingAdd ==
    ASSUME NEW idx \in Seq(IndexEntry), NEW s \in Seq(Packet), NEW n \in Nat,
           NEW b \in Block,
           Holding(idx, s, n), n < Len(s), s[n + 1] = <<b, 1>>,
           \A p \in (n + 1)..Len(s) : s[p][1] = b,
           \A k \in 1..Len(idx) : idx[k].block < HeightOf[b]
    PROVE  LET new == AddEntry(idx, HeightOf[b], n)
           IN  /\ new = Append(idx, [block |-> HeightOf[b], i |-> n])
               /\ new \in Seq(IndexEntry)
               /\ Holding(new, s, Len(s))
               /\ \A k \in 1..Len(new) : new[k].block <= HeightOf[b]
<1>. DEFINE e   == [block |-> HeightOf[b], i |-> n]
            new == Append(idx, e)
            N   == Len(idx)
<1>1. /\ N \in Nat /\ Len(s) \in Nat /\ HeightOf[b] \in Nat
      /\ \A k \in 1..N : idx[k].block \in Nat /\ idx[k].i \in Nat
  BY EntryTypes, LenProperties, ChainAssumption DEF Heights
<1>2. AddEntry(idx, HeightOf[b], n) = new
  <2>1. HeightOf[b] \notin HeightsIn(idx)
    BY <1>1 DEF HeightsIn
  <2>. QED  BY <2>1 DEF AddEntry
<1>3. e \in IndexEntry /\ e.block = HeightOf[b] /\ e.i = n
  BY ChainAssumption DEF IndexEntry
<1>4. /\ new \in Seq(IndexEntry) /\ Len(new) = N + 1 /\ new[N + 1] = e
      /\ \A k \in 1..N : new[k] = idx[k]
  BY <1>3, AppendProperties
<1>. HIDE DEF e, new
<1>5. \A k \in 1..Len(new) : (k \in 1..N /\ new[k] = idx[k]) \/ (k = N + 1 /\ new[k] = e)
  BY <1>1, <1>4
<1>6. \A k \in 1..N : idx[k].i < n
  BY DEF Holding
<1>7. AscendingHeights(new) /\ AscendingOffsets(new)
  <2>1. ASSUME NEW k \in 1..Len(new), NEW m \in 1..Len(new), k < m
        PROVE  new[k].block < new[m].block /\ new[k].i < new[m].i
    <3>1. k \in 1..N /\ new[k] = idx[k]
      BY <1>1, <1>4, <1>5, <2>1
    <3>2. CASE m \in 1..N /\ new[m] = idx[m]
      BY <3>1, <3>2, <2>1 DEF Holding, AscendingHeights, AscendingOffsets
    <3>3. CASE new[m] = e
      BY <3>1, <3>3, <1>3, <1>6
    <3>. QED  BY <3>2, <3>3, <1>5
  <2>. QED  BY <2>1 DEF AscendingHeights, AscendingOffsets
<1>8. PointsAt(new, s)
  <2>1. \A k \in 1..N : /\ idx[k].i < Len(s) /\ s[idx[k].i + 1][2] = 1
                        /\ HeightOf[s[idx[k].i + 1][1]] = idx[k].block
    BY DEF Holding, PointsAt
  <2>2. s[n + 1][2] = 1 /\ s[n + 1][1] = b
    OBVIOUS
  <2>3. ASSUME NEW k \in 1..Len(new)
        PROVE  /\ new[k].i < Len(s) /\ s[new[k].i + 1][2] = 1
               /\ HeightOf[s[new[k].i + 1][1]] = new[k].block
    <3>1. CASE k \in 1..N /\ new[k] = idx[k]
      BY <3>1, <2>1
    <3>2. CASE new[k] = e
      BY <3>2, <2>2, <1>3
    <3>. QED  BY <3>1, <3>2, <1>5
  <2>. QED  BY <2>3 DEF PointsAt
<1>9. \A k \in 1..Len(new) : new[k].i < Len(s) /\ new[k].block <= HeightOf[b]
  <2>1. \A k \in 1..Len(new) : new[k].i < Len(s)
    BY <1>8 DEF PointsAt
  <2>2. ASSUME NEW k \in 1..Len(new) PROVE new[k].block <= HeightOf[b]
    <3>1. CASE k \in 1..N /\ new[k] = idx[k]
      BY <3>1, <1>1, SMTT(30)
    <3>2. CASE new[k] = e
      BY <3>2, <1>1, <1>3
    <3>. QED  BY <3>1, <3>2, <1>5
  <2>. QED  BY <2>1, <2>2
<1>10. \A p \in 1..Len(s) : HeightOf[s[p][1]] \in HeightsIn(new)
  <2>1. \A k \in 1..N : k \in 1..Len(new) /\ new[k] = idx[k]
    BY <1>1, <1>4
  <2>2. \A p \in 1..n : HeightOf[s[p][1]] \in HeightsIn(new)
    <3>1. \A p \in 1..n : \E k \in 1..N : HeightOf[s[p][1]] = idx[k].block
      BY DEF Holding, HeightsIn
    <3>. SUFFICES ASSUME NEW p \in 1..n PROVE HeightOf[s[p][1]] \in HeightsIn(new)
      OBVIOUS
    <3>2. PICK k \in 1..N : HeightOf[s[p][1]] = idx[k].block
      BY <3>1
    <3>. QED  BY <2>1, <3>2 DEF HeightsIn
  <2>3. HeightOf[b] \in HeightsIn(new)
    <3>1. N + 1 \in 1..Len(new) /\ new[N + 1].block = HeightOf[b]
      BY <1>1, <1>3, <1>4
    <3>. QED  BY <3>1 DEF HeightsIn
  <2>4. \A p \in 1..Len(s) : p \in 1..n \/ p \in (n + 1)..Len(s)
    BY <1>1
  <2>. QED  BY <2>2, <2>3, <2>4
<1>11. Len(s) \in 0..Len(s) /\ WholeBlocks(s) /\ Rising(s)
  BY <1>1 DEF Holding
<1>12. Holding(new, s, Len(s))
  BY <1>7, <1>8, <1>9, <1>10, <1>11 DEF Holding
<1>. QED  BY <1>2, <1>4, <1>9, <1>12 DEF new, e

\* A new block at the top leaves the offset of a start that had one.
LEMMA OffsetStays ==
    ASSUME NEW idx \in Seq(IndexEntry), NEW e \in IndexEntry, NEW h \in Nat,
           AscendingHeights(idx), \A k \in 1..Len(idx) : idx[k].block < e.block,
           OffsetForHeight(idx, h) # NoOffset
    PROVE  OffsetForHeight(Append(idx, e), h) = OffsetForHeight(idx, h)
<1>. DEFINE new == Append(idx, e)
            N   == Len(idx)
            q   == PartitionPoint(idx, h)
            r   == PartitionPoint(new, h)
<1>1. N \in Nat /\ e.block \in Nat /\ \A k \in 1..N : idx[k].block \in Nat
  <2>1. e.block \in Heights
    BY DEF IndexEntry
  <2>. QED  BY <2>1, EntryTypes, ChainAssumption DEF Heights
<1>2. /\ new \in Seq(IndexEntry) /\ Len(new) = N + 1 /\ new[N + 1] = e
      /\ \A k \in 1..N : new[k] = idx[k]
  BY AppendProperties
<1>3. /\ q \in 1..N
      /\ \A k \in 1..N : k < q => idx[k].block < h
      /\ \A k \in 1..N : k >= q => idx[k].block >= h
  <2>1. q <= N
    BY DEF OffsetForHeight
  <2>2. /\ q \in 1..(N + 1)
        /\ \A k \in 1..N : k < q => idx[k].block < h
        /\ \A k \in 1..N : k >= q => idx[k].block >= h
    BY PartitionPointSplits
  <2>. QED  BY <2>1, <2>2, <1>1
<1>. HIDE DEF new
<1>4. \A k \in 1..Len(new) : (k \in 1..N /\ new[k] = idx[k]) \/ (k = N + 1 /\ new[k] = e)
  BY <1>1, <1>2
<1>5. AscendingHeights(new)
  <2>1. ASSUME NEW k \in 1..Len(new), NEW m \in 1..Len(new), k < m
        PROVE  new[k].block < new[m].block
    <3>1. k \in 1..N /\ new[k] = idx[k]
      BY <1>1, <1>2, <1>4, <2>1
    <3>2. CASE m \in 1..N /\ new[m] = idx[m]
      BY <3>1, <3>2, <2>1 DEF AscendingHeights
    <3>3. CASE new[m] = e
      BY <3>1, <3>3
    <3>. QED  BY <3>2, <3>3, <1>4
  <2>. QED  BY <2>1 DEF AscendingHeights
<1>6. /\ r \in 1..(N + 2)
      /\ \A k \in 1..Len(new) : k < r => new[k].block < h
      /\ \A k \in 1..Len(new) : k >= r => new[k].block >= h
  <2>1. /\ r \in 1..(Len(new) + 1)
        /\ \A k \in 1..Len(new) : k < r => new[k].block < h
        /\ \A k \in 1..Len(new) : k >= r => new[k].block >= h
    BY <1>2, <1>5, PartitionPointSplits
  <2>. HIDE DEF r
  <2>. QED  BY <2>1, <1>1, <1>2
<1>. HIDE DEF q, r
<1>7. q \in 1..Len(new) /\ new[q] = idx[q] /\ idx[q].block >= h
  BY <1>1, <1>2, <1>3
<1>8. r = q
  <2>1. r <= q
    BY <1>6, <1>7, <1>3, <1>1
  <2>2. CASE r < q
    <3>1. r \in 1..N /\ r \in 1..Len(new) /\ new[r] = idx[r]
      BY <2>2, <1>1, <1>2, <1>3, <1>6
    <3>2. idx[r].block < h /\ idx[r].block >= h
      BY <3>1, <2>2, <1>3, <1>6
    <3>. QED  BY <3>1, <3>2, <1>1
  <2>. QED  BY <2>1, <2>2, <1>3, <1>6
<1>. QED  BY <1>2, <1>3, <1>7, <1>8 DEF OffsetForHeight, q, r, new

\* The offset at which the range of heights from h on begins.
Bound(idx, s, h) ==
    IF OffsetForHeight(idx, h) = NoOffset THEN Len(s) ELSE OffsetForHeight(idx, h)

LEMMA BoundFacts ==
    ASSUME NEW idx \in Seq(IndexEntry), NEW s \in Seq(Packet), NEW n, NEW h \in Nat,
           Holding(idx, s, n)
    PROVE  /\ Bound(idx, s, h) \in 0..Len(s)
           /\ \A p \in 1..Bound(idx, s, h) :
                HeightOf[s[p][1]] \in HeightsIn(idx) => HeightOf[s[p][1]] < h
           /\ \A p \in (Bound(idx, s, h) + 1)..Len(s) : HeightOf[s[p][1]] >= h
<1>. DEFINE q == PartitionPoint(idx, h)
            N == Len(idx)
            B == Bound(idx, s, h)
<1>1. /\ N \in Nat /\ Len(s) \in Nat
      /\ \A k \in 1..N : idx[k].block \in Nat /\ idx[k].i \in Nat
      /\ \A p \in 1..Len(s) : HeightOf[s[p][1]] \in Nat
  BY EntryTypes, PacketTypes
<1>2. AscendingHeights(idx)
  BY DEF Holding
<1>3. /\ q \in 1..(N + 1)
      /\ \A k \in 1..N : k < q => idx[k].block < h
      /\ \A k \in 1..N : k >= q => idx[k].block >= h
  BY <1>2, PartitionPointSplits
<1>4. OffsetForHeight(idx, h) = IF q <= N THEN idx[q].i ELSE NoOffset
  BY DEF OffsetForHeight
<1>. HIDE DEF q
<1>5. CASE q <= N
  <2>1. q \in 1..N /\ B = idx[q].i /\ idx[q].block >= h
    <3>1. q \in 1..N /\ idx[q].block >= h /\ idx[q].i \in Nat
      BY <1>1, <1>3, <1>5
    <3>2. OffsetForHeight(idx, h) = idx[q].i /\ idx[q].i # NoOffset
      BY <3>1, <1>4, <1>5 DEF NoOffset
    <3>. QED  BY <3>1, <3>2 DEF Bound
  <2>2. /\ B \in 0..(Len(s) - 1)
        /\ \A p \in 1..B : HeightOf[s[p][1]] < idx[q].block
        /\ \A p \in (B + 1)..Len(s) : HeightOf[s[p][1]] >= idx[q].block
    BY <2>1, Around
  <2>. HIDE DEF B
  <2>3. ASSUME NEW p \in (B + 1)..Len(s) PROVE HeightOf[s[p][1]] >= h
    <3>1. p \in 1..Len(s)
      BY <2>2, <1>1
    <3>. QED  BY <3>1, <2>1, <2>2, <1>1, SMTT(30)
  <2>4. ASSUME NEW p \in 1..B, HeightOf[s[p][1]] \in HeightsIn(idx)
        PROVE  HeightOf[s[p][1]] < h
    <3>1. PICK k \in 1..N : HeightOf[s[p][1]] = idx[k].block
      BY <2>4 DEF HeightsIn
    <3>2. idx[k].block < idx[q].block
      BY <3>1, <2>2
    <3>3. k < q
      <4>1. ~(k = q) /\ ~(q < k)
        BY <3>2, <2>1, <1>1, <1>2 DEF AscendingHeights
      <4>. QED  BY <4>1, <2>1
    <3>. QED  BY <3>1, <3>3, <1>3
  <2>5. B \in 0..Len(s)
    BY <2>2, <1>1
  <2>. QED  BY <2>3, <2>4, <2>5 DEF B
<1>6. CASE ~(q <= N)
  <2>1. B = Len(s)
    BY <1>4, <1>6 DEF Bound
  <2>2. \A k \in 1..N : idx[k].block < h
    BY <1>1, <1>3, <1>6
  <2>3. (B + 1)..Len(s) = {}
    BY <2>1, <1>1
  <2>4. B \in 0..Len(s)
    BY <2>1, <1>1
  <2>. HIDE DEF B
  <2>. QED  BY <2>2, <2>3, <2>4 DEF HeightsIn, B
<1>. QED  BY <1>5, <1>6

\* A range of heights: the indexed ones, their packets, the room for them.
DueIn(idx, start, end) == HeightsIn(idx) \cap start..end

RoomOf(s, start, end) ==
    {s[p] : p \in {q \in 1..Len(s) : HeightOf[s[q][1]] \in start..end}}

RoomFor(idx, s, start, end) ==
    IF Bound(idx, s, end + 1) > Bound(idx, s, start)
    THEN Bound(idx, s, end + 1) - Bound(idx, s, start) ELSE 0

\* The room between two bounds is enough for the packets of the range that
\* are of indexed blocks.
LEMMA RangeFits ==
    ASSUME NEW idx \in Seq(IndexEntry), NEW s \in Seq(Packet), NEW n,
           NEW start \in Nat, NEW end \in Nat, Holding(idx, s, n)
    PROVE  /\ RoomFor(idx, s, start, end) \in Nat
           /\ Cardinality({p \in RoomOf(s, start, end) :
                             HeightOf[p[1]] \in DueIn(idx, start, end)})
                <= RoomFor(idx, s, start, end)
<1>. DEFINE lo   == Bound(idx, s, start)
            hi   == Bound(idx, s, end + 1)
            due  == HeightsIn(idx) \cap start..end
            room == {s[p] : p \in {q \in 1..Len(s) : HeightOf[s[q][1]] \in start..end}}
            size == IF hi > lo THEN hi - lo ELSE 0
            At   == {p \in 1..Len(s) : HeightOf[s[p][1]] \in due}
            T    == {p \in room : HeightOf[p[1]] \in due}
            f    == [p \in At |-> s[p]]
<1>1. /\ lo \in 0..Len(s) /\ hi \in 0..Len(s) /\ Len(s) \in Nat
      /\ \A p \in 1..lo : HeightOf[s[p][1]] \in HeightsIn(idx) => HeightOf[s[p][1]] < start
      /\ \A p \in (hi + 1)..Len(s) : HeightOf[s[p][1]] >= end + 1
  <2>1. end + 1 \in Nat
    OBVIOUS
  <2>2. /\ lo \in 0..Len(s) /\ Len(s) \in Nat
        /\ \A p \in 1..lo : HeightOf[s[p][1]] \in HeightsIn(idx) => HeightOf[s[p][1]] < start
    BY BoundFacts, PacketTypes
  <2>3. hi \in 0..Len(s) /\ \A p \in (hi + 1)..Len(s) : HeightOf[s[p][1]] >= end + 1
    BY <2>1, BoundFacts
  <2>. QED  BY <2>2, <2>3
<1>2. \A p \in 1..Len(s) : HeightOf[s[p][1]] \in Nat
  BY PacketTypes
<1>. HIDE DEF lo, hi
<1>3. At \subseteq (lo + 1)..hi
  <2>1. SUFFICES ASSUME NEW p \in At PROVE p \in (lo + 1)..hi
    OBVIOUS
  <2>2. /\ p \in 1..Len(s) /\ HeightOf[s[p][1]] \in HeightsIn(idx)
        /\ HeightOf[s[p][1]] \in start..end
    OBVIOUS
  <2>3. ~(p <= lo)
    BY <2>2, <1>1, <1>2
  <2>4. ~(p > hi)
    BY <2>2, <1>1, <1>2
  <2>. QED  BY <2>2, <2>3, <2>4, <1>1
<1>4. IsFiniteSet((lo + 1)..hi) /\ Cardinality((lo + 1)..hi) = size /\ size \in Nat
  <2>1. /\ IsFiniteSet((lo + 1)..hi)
        /\ Cardinality((lo + 1)..hi) = IF lo + 1 > hi THEN 0 ELSE hi - (lo + 1) + 1
    <3>1. lo + 1 \in Int /\ hi \in Int
      BY <1>1
    <3>. QED  BY <3>1, FS_Interval
  <2>2. (IF lo + 1 > hi THEN 0 ELSE hi - (lo + 1) + 1) = size /\ size \in Nat
    BY <1>1
  <2>. QED  BY <2>1, <2>2
<1>5. IsFiniteSet(At) /\ Cardinality(At) <= size /\ Cardinality(At) \in Nat
  <2>. HIDE DEF At, size
  <2>. QED  BY <1>3, <1>4, FS_Subset, FS_CardinalityType
<1>6. f \in Surjection(At, T)
  <2>1. \A p \in At : s[p] \in T
    OBVIOUS
  <2>2. \A e \in T : \E p \in At : s[p] = e
    OBVIOUS
  <2>. HIDE DEF At, T
  <2>. QED  BY <2>1, <2>2 DEF Surjection
<1>7. IsFiniteSet(T) /\ Cardinality(T) <= Cardinality(At) /\ Cardinality(T) \in Nat
  <2>. HIDE DEF At, T, f
  <2>. QED  BY <1>5, <1>6, FS_Surjection, FS_CardinalityType
<1>8. Cardinality(T) <= size
  <2>. HIDE DEF At, T, size
  <2>. QED  BY <1>4, <1>5, <1>7
<1>. QED  BY <1>4, <1>8 DEF lo, hi, RoomFor, RoomOf, DueIn

----------------------------------------------------------------------------
(* The indexer's steps.                                                    *)

\* The block after the cursor is one above it.
LEMMA NextFacts ==
    ASSUME TypeInv, scannedTo < Len(chain)
    PROVE  /\ NextBlock \in Block /\ HeightOf[NextBlock] = scannedTo + 1
           /\ ShieldTxs[NextBlock] \in Nat
<1>1. chain \in Seq(Block) /\ \A h \in 1..Len(chain) : HeightOf[chain[h]] = h
  BY ChainAssumption DEF TypeInv
<1>2. Len(chain) \in Nat /\ scannedTo \in 0..Len(chain)
  BY <1>1, LenProperties DEF TypeInv
<1>3. scannedTo + 1 \in 1..Len(chain)
  BY <1>2
<1>4. chain[scannedTo + 1] \in Block
  BY <1>1, <1>3, ElementOfSeq
<1>. QED  BY <1>1, <1>3, <1>4, ChainAssumption DEF NextBlock

LEMMA UpToHigher ==
    ASSUME NEW idx \in Seq(IndexEntry), NEW s \in Seq(Packet), NEW h \in Nat,
           NEW g \in Nat, h <= g, UpTo(idx, s, h)
    PROVE  UpTo(idx, s, g)
BY EntryTypes, PacketTypes DEF UpTo

\* The fork with another chain is a height that has been scanned.
LEMMA ForkWithin ==
    ASSUME TypeInv, NEW c \in Chains, \E h \in 1..scannedTo : chain[h] # c[h]
    PROVE  ForkWith(c) \in 1..scannedTo
<1>. DEFINE D == {h \in 1..scannedTo : chain[h] # c[h]}
<1>1. scannedTo \in Nat
  BY ChainAssumption, LenProperties DEF TypeInv
<1>2. D \in SUBSET Nat /\ D # {}
  BY <1>1
<1>3. PICK k \in D : \A h \in D : k <= h
  <2>. HIDE DEF D
  <2>. QED  BY <1>2, LeastElement
<1>4. \A g \in 1..(k - 1) : chain[g] = c[g]
  <2>1. SUFFICES ASSUME NEW g \in 1..(k - 1), chain[g] # c[g] PROVE FALSE
    OBVIOUS
  <2>2. g \in D /\ ~(k <= g)
    BY <1>1, <1>3, <2>1
  <2>. QED  BY <1>3, <2>2
<1>. QED  BY <1>3, <1>4 DEF ForkWith

LEMMA ReadInitially == Init => ReadInv
<1> SUFFICES ASSUME Init PROVE ReadInv
  OBVIOUS
<1>1. /\ <<>> \in Seq(IndexEntry) /\ <<>> \in Seq(Packet)
      /\ Len(<<>>) = 0
  OBVIOUS
<1>2. IdleReader \in RequestType
  BY DEF IdleReader, RequestType, ReaderPc
<1>3. Len(chain) \in Nat
  BY ChainAssumption, LenProperties DEF Init
<1>4. TypeInv
  BY <1>1, <1>2, <1>3 DEF Init, TypeInv, WriterPc
<1>5. WriterInv
  BY DEF Init, WriterInv
<1>6. Holding(index, buffer, Len(buffer)) /\ UpTo(index, buffer, scannedTo)
  BY <1>1 DEF Init, Holding, UpTo, AscendingHeights, AscendingOffsets, WholeBlocks,
              Rising, PointsAt, HeightsIn
<1>7. StoreInv
  BY <1>6 DEF Init, StoreInv, Stored
<1>8. RequestInv
  BY DEF Init, RequestInv, RequestOk, IdleReader
<1>. QED  BY <1>4, <1>5, <1>7, <1>8 DEF ReadInv

\* A step of the indexer, whatever it is, keeps the store's invariant.
LEMMA WriterKeepsStore ==
    ASSUME TypeInv, WriterInv, StoreInv,
           PassOver \/ CheckIndexed \/ AskCut \/ WriterStep
    PROVE  /\ index' \in Seq(IndexEntry) /\ buffer' \in Seq(Packet)
           /\ chain' \in Chains /\ scannedTo' \in 0..Len(chain')
           /\ writer' \in [pc : WriterPc, fork : Nat, off : Nat]
           /\ WriterInv' /\ StoreInv'
<1>1. /\ index \in Seq(IndexEntry) /\ buffer \in Seq(Packet)
      /\ chain \in Chains /\ scannedTo \in 0..Len(chain) /\ scannedTo \in Nat
      /\ writer \in [pc : WriterPc, fork : Nat, off : Nat]
      /\ writer.pc \in WriterPc /\ writer.fork \in Nat /\ writer.off \in Nat
      /\ Len(chain) \in Nat /\ Len(buffer) \in Nat
  BY ChainAssumption, LenProperties DEF TypeInv
<1>. DEFINE Goal == /\ index' \in Seq(IndexEntry) /\ buffer' \in Seq(Packet)
                    /\ chain' \in Chains /\ scannedTo' \in 0..Len(chain')
                    /\ writer' \in [pc : WriterPc, fork : Nat, off : Nat]
                    /\ WriterInv' /\ StoreInv'
<1>2. CASE PassOver
  <2>1. /\ UNCHANGED <<index, buffer, chain, writer>>
        /\ writer.pc = "idle" /\ scannedTo' = scannedTo + 1 /\ scannedTo < Len(chain)
    BY <1>2 DEF PassOver, Writing, values
  <2>2. UpTo(index, buffer, scannedTo + 1) /\ Holding(index, buffer, Len(buffer))
    BY <1>1, <2>1, UpToHigher DEF StoreInv, Stored
  <2>3. StoreInv' /\ WriterInv'
    BY <2>1, <2>2 DEF StoreInv, WriterInv, Stored
  <2>. QED  BY <1>1, <2>1, <2>3
<1>3. CASE CheckIndexed
  <2>1. /\ UNCHANGED <<index, buffer, chain, scannedTo>>
        /\ writer.pc = "idle" /\ scannedTo < Len(chain) /\ ShieldTxs[NextBlock] > 0
        /\ writer' = [writer EXCEPT !.pc = "check"]
    BY <1>3 DEF CheckIndexed, Writing, Write, values
  <2>2. /\ writer' \in [pc : WriterPc, fork : Nat, off : Nat] /\ writer'.pc = "check"
        /\ NextBlock' = NextBlock
    BY <1>1, <2>1 DEF WriterPc, NextBlock
  <2>3. StoreInv' /\ WriterInv'
    BY <2>1, <2>2 DEF StoreInv, WriterInv, Stored
  <2>. QED  BY <1>1, <2>1, <2>2, <2>3
<1>4. CASE AskCut
  <2>1. PICK c \in Chains :
          /\ Len(c) > scannedTo /\ \E h \in 1..scannedTo : chain[h] # c[h]
          /\ chain' = c /\ writer.pc = "idle"
          /\ writer' = [writer EXCEPT !.pc = "cut", !.fork = ForkWith(c)]
          /\ UNCHANGED <<index, buffer, scannedTo>>
    BY <1>4 DEF AskCut, Writing, values
  <2>2. ForkWith(c) \in 1..scannedTo /\ ForkWith(c) \in Nat
    BY <1>1, <2>1, ForkWithin
  <2>3. /\ writer' \in [pc : WriterPc, fork : Nat, off : Nat]
        /\ writer'.pc = "cut" /\ writer'.fork = ForkWith(c)
    <3>. HIDE DEF Goal
    <3>. QED  BY <1>1, <2>1, <2>2 DEF WriterPc
  <2>4. StoreInv' /\ WriterInv'
    BY <2>1, <2>2, <2>3 DEF StoreInv, WriterInv, Stored
  <2>5. Len(c) \in Nat
    BY ChainAssumption, LenProperties
  <2>6. scannedTo' \in 0..Len(chain')
    BY <1>1, <2>1, <2>5
  <2>. QED  BY <1>1, <2>1, <2>3, <2>4, <2>6
<1>5. CASE Checked
  <2>1. /\ UNCHANGED <<index, buffer, chain>> /\ writer.pc = "check"
        /\ \/ writer' = [writer EXCEPT !.pc = "idle"] /\ scannedTo' = scannedTo + 1
           \/ writer' = [writer EXCEPT !.pc = "append"] /\ scannedTo' = scannedTo
    BY <1>5 DEF Checked, Writing, Write, values
  <2>2. scannedTo < Len(chain) /\ ShieldTxs[NextBlock] > 0
    BY <2>1 DEF WriterInv
  <2>3. Holding(index, buffer, Len(buffer)) /\ UpTo(index, buffer, scannedTo)
    BY <2>1 DEF StoreInv, Stored
  <2>4. CASE writer' = [writer EXCEPT !.pc = "idle"] /\ scannedTo' = scannedTo + 1
    <3>1. writer' \in [pc : WriterPc, fork : Nat, off : Nat] /\ writer'.pc = "idle"
      BY <1>1, <2>4 DEF WriterPc
    <3>2. UpTo(index, buffer, scannedTo + 1)
      BY <1>1, <2>3, UpToHigher
    <3>3. StoreInv' /\ WriterInv'
      BY <2>1, <2>3, <2>4, <3>1, <3>2 DEF StoreInv, WriterInv, Stored
    <3>. QED  BY <1>1, <2>1, <2>2, <2>4, <3>1, <3>3
  <2>5. CASE writer' = [writer EXCEPT !.pc = "append"] /\ scannedTo' = scannedTo
    <3>1. /\ writer' \in [pc : WriterPc, fork : Nat, off : Nat] /\ writer'.pc = "append"
          /\ NextBlock' = NextBlock
      BY <1>1, <2>1, <2>5 DEF WriterPc, NextBlock
    <3>2. StoreInv' /\ WriterInv'
      BY <2>1, <2>2, <2>3, <2>5, <3>1 DEF StoreInv, WriterInv, Stored
    <3>. QED  BY <1>1, <2>1, <2>5, <3>1, <3>2
  <2>. QED  BY <2>1, <2>4, <2>5
<1>6. CASE AskExtend
  <2>1. /\ UNCHANGED <<index, buffer, chain, scannedTo>> /\ writer.pc = "append"
        /\ writer' = [writer EXCEPT !.pc = "extend", !.off = Len(buffer)]
    BY <1>6 DEF AskExtend, Writing, values
  <2>2. /\ writer' \in [pc : WriterPc, fork : Nat, off : Nat]
        /\ writer'.pc = "extend" /\ writer'.off = Len(buffer) /\ NextBlock' = NextBlock
    BY <1>1, <2>1 DEF WriterPc, NextBlock
  <2>3. StoreInv' /\ WriterInv'
    BY <2>1, <2>2 DEF StoreInv, WriterInv, Stored
  <2>. QED  BY <1>1, <2>1, <2>2, <2>3
<1>7. CASE Extend
  <2>1. /\ UNCHANGED <<index, chain, scannedTo>> /\ writer.pc = "extend"
        /\ buffer' = buffer \o Encode(NextBlock, ShieldTxs[NextBlock])
        /\ writer' = [writer EXCEPT !.pc = "index"]
    BY <1>7 DEF Extend, Writing, Write
  <2>2. /\ writer' \in [pc : WriterPc, fork : Nat, off : Nat]
        /\ writer'.pc = "index" /\ writer'.off = writer.off /\ NextBlock' = NextBlock
    BY <1>1, <2>1 DEF WriterPc, NextBlock
  <2>3. /\ writer.off = Len(buffer) /\ scannedTo < Len(chain) /\ ShieldTxs[NextBlock] > 0
        /\ Holding(index, buffer, Len(buffer)) /\ UpTo(index, buffer, scannedTo)
    BY <2>1 DEF StoreInv, Stored, WriterInv
  <2>4. NextBlock \in Block /\ HeightOf[NextBlock] = scannedTo + 1
    BY <2>3, NextFacts
  <2>5. \A p \in 1..Len(buffer) : HeightOf[buffer[p][1]] < HeightOf[NextBlock]
    <3>1. \A p \in 1..Len(buffer) :
            HeightOf[buffer[p][1]] \in Nat /\ HeightOf[buffer[p][1]] <= scannedTo
      BY <1>1, <2>3, PacketTypes DEF UpTo
    <3>. QED  BY <3>1, <2>4, <1>1
  <2>. DEFINE new == buffer \o Encode(NextBlock, ShieldTxs[NextBlock])
  <2>6. /\ buffer' \in Seq(Packet) /\ Len(buffer) < Len(buffer')
        /\ buffer'[Len(buffer) + 1] = <<NextBlock, 1>>
        /\ \A p \in (Len(buffer) + 1)..Len(buffer') : buffer'[p][1] = NextBlock
        /\ Holding(index, buffer', Len(buffer))
    <3>1. index \in Seq(IndexEntry) /\ buffer \in Seq(Packet)
      BY <1>1
    <3>2. /\ new \in Seq(Packet) /\ Len(buffer) < Len(new)
          /\ new[Len(buffer) + 1] = <<NextBlock, 1>>
          /\ \A p \in (Len(buffer) + 1)..Len(new) : new[p][1] = NextBlock
          /\ Holding(index, new, Len(buffer))
      BY <3>1, <2>3, <2>4, <2>5, HoldingExtend, Zenon
    <3>. HIDE DEF new
    <3>3. buffer' = new
      BY <2>1 DEF new
    <3>. QED  BY <3>2, <3>3
  <2>7. StoreInv' /\ WriterInv'
    BY <2>1, <2>2, <2>3, <2>6 DEF StoreInv, WriterInv, Stored, UpTo
  <2>. QED  BY <1>1, <2>1, <2>2, <2>6, <2>7
<1>8. CASE AskAdd
  <2>1. /\ UNCHANGED <<index, buffer, chain, scannedTo>> /\ writer.pc = "index"
        /\ writer' = [writer EXCEPT !.pc = "add"]
    BY <1>8 DEF AskAdd, Writing, Write, values
  <2>2. /\ writer' \in [pc : WriterPc, fork : Nat, off : Nat]
        /\ writer'.pc = "add" /\ writer'.off = writer.off /\ NextBlock' = NextBlock
    BY <1>1, <2>1 DEF WriterPc, NextBlock
  <2>3. StoreInv' /\ WriterInv'
    BY <2>1, <2>2 DEF StoreInv, WriterInv, Stored
  <2>. QED  BY <1>1, <2>1, <2>2, <2>3
<1>9. CASE Add
  <2>1. /\ UNCHANGED <<buffer, chain>> /\ writer.pc = "add"
        /\ index' = AddEntry(index, HeightOf[NextBlock], writer.off)
        /\ scannedTo' = scannedTo + 1
        /\ writer' = [writer EXCEPT !.pc = "idle"]
    BY <1>9 DEF Add, Writing, Write
  <2>2. writer' \in [pc : WriterPc, fork : Nat, off : Nat] /\ writer'.pc = "idle"
    BY <1>1, <2>1 DEF WriterPc
  <2>3. /\ scannedTo < Len(chain)
        /\ Holding(index, buffer, writer.off) /\ writer.off < Len(buffer)
        /\ buffer[writer.off + 1] = <<NextBlock, 1>>
        /\ \A p \in (writer.off + 1)..Len(buffer) : buffer[p][1] = NextBlock
        /\ \A k \in 1..Len(index) : index[k].block <= scannedTo
    BY <2>1 DEF StoreInv, Stored, WriterInv
  <2>4. NextBlock \in Block /\ HeightOf[NextBlock] = scannedTo + 1
    BY <2>3, NextFacts
  <2>5. \A k \in 1..Len(index) : index[k].block < HeightOf[NextBlock]
    BY <1>1, <2>3, <2>4, EntryTypes
  <2>6. /\ index' \in Seq(IndexEntry) /\ Holding(index', buffer, Len(buffer))
        /\ \A k \in 1..Len(index') : index'[k].block <= scannedTo + 1
    <3>. DEFINE new == AddEntry(index, HeightOf[NextBlock], writer.off)
    <3>1. index \in Seq(IndexEntry) /\ buffer \in Seq(Packet) /\ writer.off \in Nat
      BY <1>1
    <3>2. /\ new \in Seq(IndexEntry) /\ Holding(new, buffer, Len(buffer))
          /\ \A k \in 1..Len(new) : new[k].block <= HeightOf[NextBlock]
      BY <3>1, <2>3, <2>4, <2>5, HoldingAdd, Zenon
    <3>. HIDE DEF new
    <3>3. index' = new
      BY <2>1 DEF new
    <3>. QED  BY <3>2, <3>3, <2>4
  <2>7. \A p \in 1..Len(buffer) : HeightOf[buffer[p][1]] <= scannedTo + 1
    <3>1. \A p \in 1..Len(buffer) : HeightOf[buffer[p][1]] \in HeightsIn(index')
      BY <2>6 DEF Holding
    <3>. QED  BY <3>1, <2>6 DEF HeightsIn
  <2>8. StoreInv' /\ WriterInv'
    BY <2>1, <2>2, <2>6, <2>7 DEF StoreInv, WriterInv, Stored, UpTo
  <2>. QED  BY <1>1, <2>1, <2>2, <2>3, <2>6, <2>8
<1>10. CASE AskCutBuffer
  <2>1. /\ UNCHANGED <<index, buffer, chain, scannedTo>> /\ writer.pc = "cut"
        /\ writer' = [writer EXCEPT !.pc = "truncate"]
    BY <1>10 DEF AskCutBuffer, Writing, Write, values
  <2>2. /\ writer' \in [pc : WriterPc, fork : Nat, off : Nat]
        /\ writer'.pc = "truncate" /\ writer'.fork = writer.fork
    BY <1>1, <2>1 DEF WriterPc
  <2>3. StoreInv' /\ WriterInv'
    BY <2>1, <2>2 DEF StoreInv, WriterInv, Stored
  <2>. QED  BY <1>1, <2>1, <2>2, <2>3
<1>11. CASE Cut
  <2>. DEFINE off == OffsetForHeight(index, writer.fork)
  <2>1. /\ UNCHANGED chain /\ writer.pc = "truncate"
        /\ scannedTo' = writer.fork - 1
        /\ writer' = [writer EXCEPT !.pc = "idle"]
        /\ off = NoOffset => UNCHANGED <<index, buffer>>
        /\ off # NoOffset => /\ buffer' = SubSeq(buffer, 1, off)
                             /\ index' = RemoveFrom(index, writer.fork)
    BY <1>11 DEF Cut, Writing, Write, values, CutBuffer
  <2>2. writer' \in [pc : WriterPc, fork : Nat, off : Nat] /\ writer'.pc = "idle"
    BY <1>1, <2>1 DEF WriterPc
  <2>3. /\ writer.fork \in 1..scannedTo /\ writer.fork \in Nat
        /\ Holding(index, buffer, Len(buffer))
    BY <1>1, <2>1 DEF StoreInv, Stored, WriterInv
  <2>. HIDE DEF off
  <2>4. /\ index' \in Seq(IndexEntry) /\ buffer' \in Seq(Packet)
        /\ Holding(index', buffer', Len(buffer'))
        /\ \A k \in 1..Len(index') : index'[k].block < writer.fork
        /\ \A p \in 1..Len(buffer') : HeightOf[buffer'[p][1]] < writer.fork
    <3>1. CASE off = NoOffset
      <4>1. \A k \in 1..Len(index) : index[k].block < writer.fork
        BY <3>1, <2>3, <1>1, RemoveFromBelow DEF Holding, off
      <4>2. \A p \in 1..Len(buffer) : HeightOf[buffer[p][1]] \in HeightsIn(index)
        BY <2>3 DEF Holding
      <4>. QED  BY <3>1, <4>1, <4>2, <2>1, <2>3, <1>1 DEF HeightsIn
    <3>2. CASE off # NoOffset
      BY <3>2, <2>1, <2>3, <1>1, HoldingCut, ZenonT(40) DEF off
    <3>. QED  BY <3>1, <3>2
  <2>5. UpTo(index', buffer', writer.fork - 1)
    <3>1. /\ \A k \in 1..Len(index') : index'[k].block \in Nat
          /\ \A p \in 1..Len(buffer') : HeightOf[buffer'[p][1]] \in Nat
      BY <2>4, EntryTypes, PacketTypes
    <3>. QED  BY <2>3, <2>4, <3>1 DEF UpTo
  <2>6. StoreInv' /\ WriterInv'
    BY <2>1, <2>2, <2>4, <2>5 DEF StoreInv, WriterInv, Stored
  <2>7. scannedTo' \in 0..Len(chain')
    BY <1>1, <2>1, <2>3
  <2>. QED  BY <1>1, <2>1, <2>2, <2>4, <2>6, <2>7
<1>. QED  BY <1>2, <1>3, <1>4, <1>5, <1>6, <1>7, <1>8, <1>9, <1>10, <1>11 DEF WriterStep

----------------------------------------------------------------------------
(* The requests.                                                           *)

LEMMA RequestKept ==
    ASSUME NEW q \in Reader, RequestOk(q), reader'[q] = reader[q], index' = index
    PROVE  RequestOk(q)'
BY DEF RequestOk, Waiting, Answered, Measured, Served

\* A block added at the top, and a cut, leave every request as it should be.
LEMMA WriterKeepsRequests ==
    ASSUME ReadInv, PassOver \/ CheckIndexed \/ AskCut \/ WriterStep
    PROVE  reader' \in [Reader -> RequestType] /\ RequestInv'
<1>1. /\ reader \in [Reader -> RequestType] /\ index \in Seq(IndexEntry)
      /\ \A q \in Reader : reader[q] \in RequestType /\ RequestOk(q)
  BY DEF ReadInv, TypeInv, RequestInv
<1>2. CASE Add
  <2>1. /\ UNCHANGED reader /\ writer.pc = "add"
        /\ index' = AddEntry(index, HeightOf[NextBlock], writer.off)
    BY <1>2 DEF Add, Writing
  <2>2. /\ scannedTo < Len(chain) /\ writer.off \in Nat
        /\ scannedTo \in Nat /\ AscendingHeights(index)
        /\ \A k \in 1..Len(index) : index[k].block <= scannedTo
    BY <2>1, ChainAssumption, LenProperties
       DEF ReadInv, TypeInv, WriterInv, StoreInv, Stored, Holding
  <2>3. NextBlock \in Block /\ HeightOf[NextBlock] = scannedTo + 1
    BY <2>2, NextFacts DEF ReadInv
  <2>. DEFINE e == [block |-> HeightOf[NextBlock], i |-> writer.off]
  <2>4. e \in IndexEntry /\ e.block = scannedTo + 1
    BY <2>2, <2>3, ChainAssumption DEF IndexEntry
  <2>5. \A k \in 1..Len(index) : index[k].block < e.block
    BY <1>1, <2>2, <2>4, EntryTypes
  <2>6. index' = Append(index, e)
    <3>1. HeightOf[NextBlock] \notin HeightsIn(index)
      BY <1>1, <2>3, <2>4, <2>5, EntryTypes DEF HeightsIn
    <3>. QED  BY <2>1, <3>1 DEF AddEntry
  <2>. HIDE DEF e
  <2>7. HeightsIn(index) \subseteq HeightsIn(index')
    <3>1. /\ Len(index) \in Nat /\ Len(index') = Len(index) + 1
          /\ \A k \in 1..Len(index) : index'[k] = index[k]
      BY <1>1, <2>4, <2>6, AppendProperties, LenProperties
    <3>2. \A k \in 1..Len(index) : k \in 1..Len(index')
      BY <3>1
    <3>. QED  BY <3>1, <3>2 DEF HeightsIn
  <2>8. ASSUME NEW q \in Reader PROVE RequestOk(q)'
    <3>1. reader'[q] = reader[q]
      BY <2>1
    <3>2. ASSUME Waiting(q), reader[q].off # NoOffset PROVE Waiting(q)'
      <4>1. reader[q].start \in Nat
        BY <1>1 DEF RequestType
      <4>2. OffsetForHeight(index, reader[q].start) # NoOffset =>
              OffsetForHeight(index', reader[q].start) =
                OffsetForHeight(index, reader[q].start)
        BY <1>1, <2>2, <2>4, <2>5, <2>6, <4>1, OffsetStays
      <4>. QED  BY <2>7, <3>1, <3>2, <4>2 DEF Waiting
    <3>3. Answered(q)' <=> Answered(q)
      BY <3>1 DEF Answered, Served
    <3>4. Measured(q)' <=> Measured(q)
      BY <3>1 DEF Measured
    <3>. QED  BY <1>1, <3>1, <3>2, <3>3, <3>4 DEF RequestOk
  <2>. QED  BY <1>1, <2>1, <2>8 DEF RequestInv
<1>3. CASE Cut
  <2>1. CASE UNCHANGED <<index, reader>>
    BY <1>1, <2>1, RequestKept DEF RequestInv
  <2>2. CASE reader' = [r \in Reader |->
                 IF reader[r].pc \in {"offset", "slice"}
                 THEN [reader[r] EXCEPT !.cut = TRUE] ELSE reader[r]]
    <3>1. ASSUME NEW q \in Reader
          PROVE  reader'[q] \in RequestType /\ RequestOk(q)'
      <4>1. CASE reader[q].pc \in {"offset", "slice"}
        <5>1. reader'[q] = [reader[q] EXCEPT !.cut = TRUE]
          BY <2>2, <4>1
        <5>2. /\ reader'[q] \in RequestType /\ reader'[q].pc = reader[q].pc
              /\ reader'[q].cut = TRUE /\ reader'[q].data = reader[q].data
              /\ reader'[q].off = reader[q].off
          BY <1>1, <5>1 DEF RequestType
        <5>. QED  BY <1>1, <4>1, <5>2 DEF RequestOk, Waiting
      <4>2. CASE reader[q].pc \notin {"offset", "slice"}
        <5>1. reader'[q] = reader[q]
          BY <2>2, <4>2
        <5>2. Answered(q)' <=> Answered(q)
          BY <5>1 DEF Answered, Served
        <5>3. Measured(q)' <=> Measured(q)
          BY <5>1 DEF Measured
        <5>. QED  BY <1>1, <4>2, <5>1, <5>2, <5>3 DEF RequestOk
      <4>. QED  BY <4>1, <4>2
    <3>. QED  BY <2>2, <3>1 DEF RequestInv
  <2>. QED  BY <1>3, <2>1, <2>2 DEF Cut, values
<1>4. CASE UNCHANGED <<index, reader>>
  BY <1>1, <1>4, RequestKept DEF RequestInv
<1>. QED  BY <1>2, <1>3, <1>4 DEF PassOver, CheckIndexed, AskCut, WriterStep, Checked,
              AskExtend, Extend, AskAdd, AskCutBuffer, values

\* A step of a handler changes its own request and nothing of the store.
Moves(r) == DataAsk(r) \/ LengthAsk(r) \/ ReaderStep(r)

LEMMA MovesReader ==
    ASSUME NEW r \in Reader, Moves(r), reader \in [Reader -> RequestType]
    PROVE  /\ UNCHANGED <<index, buffer, chain, scannedTo, writer>>
           /\ reader' = [reader EXCEPT ![r] = reader'[r]]
<1>1. /\ UNCHANGED <<index, buffer, chain, scannedTo, writer>>
      /\ \E x : reader' = [reader EXCEPT ![r] = x]
  <2>1. CASE DataAsk(r)
    BY <2>1 DEF DataAsk, Read, values
  <2>2. CASE LengthAsk(r)
    BY <2>2 DEF LengthAsk, Read, values
  <2>3. CASE DataOffset(r)
    BY <2>3 DEF DataOffset, Read, values
  <2>4. CASE DataAskBuffer(r) \/ DataSlice(r) \/ LengthAskIndex(r) \/ Respond(r)
    BY <2>4 DEF DataAskBuffer, DataSlice, LengthAskIndex, Respond, Read, values
  <2>5. CASE LengthMeasure(r)
    BY <2>5 DEF LengthMeasure, Read, values
  <2>. QED  BY <2>1, <2>2, <2>3, <2>4, <2>5 DEF Moves, ReaderStep
<1>. QED  BY <1>1

LEMMA IdleTyped ==
    /\ IdleReader \in RequestType
    /\ IdleReader.pc = "idle" /\ IdleReader.data = <<>>
BY DEF IdleReader, RequestType, ReaderPc

\* What the handler's next request is.
LEMMA MovesRequest ==
    ASSUME NEW r \in Reader, Moves(r), ReadInv
    PROVE  reader'[r] \in RequestType /\ RequestOk(r)'
<1>1. /\ reader \in [Reader -> RequestType] /\ reader[r] \in RequestType
      /\ RequestOk(r) /\ Heights \subseteq Nat /\ MaxHeight \in Heights
      /\ index \in Seq(IndexEntry) /\ buffer \in Seq(Packet)
  BY ChainAssumption DEF ReadInv, TypeInv, RequestInv, Heights
<1>2. /\ AscendingHeights(index)
      /\ Holding(index, buffer, IF Stored THEN writer.off ELSE Len(buffer))
  BY DEF ReadInv, StoreInv, Holding
<1>3. /\ reader[r].start \in Nat /\ reader[r].end \in Nat
      /\ reader[r].cut \in BOOLEAN
  BY <1>1 DEF RequestType
<1>4. UNCHANGED <<index, buffer>>
  BY <1>1, MovesReader
<1>5. CASE DataAsk(r) \/ LengthAsk(r) \/ Respond(r)
  <2>1. /\ reader'[r] \in RequestType /\ reader'[r].data = <<>>
        /\ reader'[r].pc \in {"idle", "find", "length"}
    <3>1. CASE DataAsk(r)
      <4>1. PICK h \in Heights :
              reader' = [reader EXCEPT ![r] = [IdleReader EXCEPT !.pc = "find", !.start = h]]
        BY <3>1 DEF DataAsk, Read
      <4>2. reader'[r] = [IdleReader EXCEPT !.pc = "find", !.start = h]
        BY <4>1, <1>1
      <4>3. h \in Nat
        BY <1>1
      <4>. QED  BY <4>2, <4>3, IdleTyped DEF RequestType, ReaderPc
    <3>2. CASE LengthAsk(r)
      <4>1. PICK h \in Heights, g \in Heights :
              reader' = [reader EXCEPT ![r] =
                          [IdleReader EXCEPT !.pc = "length", !.start = h, !.end = g]]
        BY <3>2 DEF LengthAsk, Read
      <4>2. reader'[r] = [IdleReader EXCEPT !.pc = "length", !.start = h, !.end = g]
        BY <4>1, <1>1
      <4>3. h \in Nat /\ g \in Nat
        BY <1>1
      <4>. QED  BY <4>2, <4>3, IdleTyped DEF RequestType, ReaderPc
    <3>3. CASE Respond(r)
      BY <3>3, <1>1, IdleTyped DEF Respond, Read
    <3>. QED  BY <1>5, <3>1, <3>2, <3>3
  <2>. QED  BY <2>1 DEF RequestOk
<1>6. CASE DataOffset(r)
  <2>. DEFINE off == OffsetForHeight(index, reader[r].start)
              due == {h \in HeightsIn(index) : h >= reader[r].start}
  <2>1. off \in Nat \cup {NoOffset}
    BY <1>1, <1>2, <1>3, RemoveFromBelow
  <2>2. due \in SUBSET Heights /\ due \subseteq HeightsIn(index)
    <3>1. \A k \in 1..Len(index) : index[k].block \in Heights
      BY <1>1, EntryTypes DEF IndexEntry
    <3>. QED  BY <3>1 DEF HeightsIn
  <2>3. off = NoOffset => due = {}
    <3>1. ASSUME off = NoOffset, NEW h \in HeightsIn(index), h >= reader[r].start
          PROVE  FALSE
      <4>1. \A k \in 1..Len(index) : index[k].block < reader[r].start
                                     /\ index[k].block \in Nat
        BY <3>1, <1>1, <1>2, <1>3, RemoveFromBelow, EntryTypes
      <4>. QED  BY <3>1, <4>1, <1>3 DEF HeightsIn
    <3>. QED  BY <3>1
  <2>4. \A h \in due : h >= reader[r].start
    OBVIOUS
  <2>5. /\ reader[r].pc = "find"
        /\ reader'[r] = IF off = NoOffset
             THEN [Moved(r, "data") EXCEPT !.due = due]
             ELSE [Moved(r, "offset") EXCEPT !.due = due, !.off = off]
    BY <1>1, <1>6 DEF DataOffset, Read, Reading
  <2>. HIDE DEF due, off
  <2>6. CASE off = NoOffset
    <3>1. reader'[r] = [reader[r] EXCEPT !.pc = "data", !.due = due]
      BY <2>5, <2>6 DEF Moved
    <3>2. reader[r].data = <<>>
      BY <1>1, <2>5 DEF RequestOk
    <3>3. /\ reader'[r] \in RequestType /\ reader'[r].pc = "data"
          /\ reader'[r].due = {} /\ reader'[r].data = <<>>
      BY <1>1, <2>2, <2>3, <2>6, <3>1, <3>2 DEF RequestType, ReaderPc
    <3>4. Answered(r)'
      BY <3>3 DEF Answered, Served, WholeBlocks
    <3>. QED  BY <3>3, <3>4 DEF RequestOk
  <2>7. CASE off # NoOffset
    <3>1. reader'[r] = [reader[r] EXCEPT !.pc = "offset", !.due = due, !.off = off]
      BY <2>5, <2>7 DEF Moved
    <3>2. reader[r].data = <<>>
      BY <1>1, <2>5 DEF RequestOk
    <3>3. /\ reader'[r] \in RequestType /\ reader'[r].pc = "offset"
          /\ reader'[r].due = due /\ reader'[r].off = off
          /\ reader'[r].data = <<>> /\ reader'[r].start = reader[r].start
      BY <1>1, <2>1, <2>2, <3>1, <3>2, ZenonT(40) DEF RequestType, ReaderPc
    <3>4. Waiting(r)'
      BY <3>3, <2>2, <2>4, <2>7, <1>4 DEF Waiting, off
    <3>. QED  BY <3>3, <3>4, <2>7 DEF RequestOk
  <2>. QED  BY <2>6, <2>7
<1>7. CASE DataAskBuffer(r)
  <2>1. reader[r].pc = "offset" /\ reader'[r] = [reader[r] EXCEPT !.pc = "slice"]
    BY <1>1, <1>7 DEF DataAskBuffer, Read, Reading, Moved
  <2>2. /\ reader'[r] \in RequestType /\ reader'[r].pc = "slice"
        /\ reader'[r].due = reader[r].due /\ reader'[r].off = reader[r].off
        /\ reader'[r].data = <<>> /\ reader'[r].start = reader[r].start
        /\ reader'[r].cut = reader[r].cut
    BY <1>1, <2>1 DEF RequestType, ReaderPc, RequestOk
  <2>3. Waiting(r)' /\ reader'[r].off # NoOffset
    BY <1>1, <1>4, <2>1, <2>2 DEF RequestOk, Waiting
  <2>. QED  BY <2>2, <2>3 DEF RequestOk
<1>8. CASE DataSlice(r)
  <2>. DEFINE d == SubSeq(buffer, reader[r].off + 1, Len(buffer))
  <2>1. reader[r].pc = "slice" /\ reader'[r] = [reader[r] EXCEPT !.pc = "data", !.data = d]
    BY <1>1, <1>8 DEF DataSlice, Read, Reading, Moved
  <2>2. d \in Seq(Packet) /\ reader[r].off \in Nat
    <3>1. reader[r].off \in Nat /\ Len(buffer) \in Nat
      BY <1>1, <2>1, LenProperties DEF RequestType, RequestOk
    <3>2. \A p \in (reader[r].off + 1)..Len(buffer) : buffer[p] \in Packet
      BY <1>1, <3>1, PacketTypes
    <3>. QED  BY <3>1, <3>2, SubSeqProperties
  <2>. HIDE DEF d
  <2>3. /\ reader'[r] \in RequestType /\ reader'[r].pc = "data"
        /\ reader'[r].data = d /\ reader'[r].due = reader[r].due
        /\ reader'[r].start = reader[r].start /\ reader'[r].cut = reader[r].cut
    BY <1>1, <2>1, <2>2, ZenonT(40) DEF RequestType, ReaderPc
  <2>4. ASSUME ~reader[r].cut
        PROVE  /\ WholeBlocks(d)
               /\ \A p \in 1..Len(d) : HeightOf[d[p][1]] >= reader[r].start
               /\ \A h \in reader[r].due : \E p \in 1..Len(d) : HeightOf[d[p][1]] = h
    <3>. DEFINE k == PartitionPoint(index, reader[r].start)
    <3>1. /\ reader[r].off = OffsetForHeight(index, reader[r].start)
          /\ reader[r].off # NoOffset
          /\ reader[r].due \subseteq HeightsIn(index)
          /\ \A h \in reader[r].due : h >= reader[r].start
      BY <1>1, <2>1, <2>4 DEF RequestOk, Waiting
    <3>2. /\ k \in 1..(Len(index) + 1) /\ Len(index) \in Nat
          /\ \A m \in 1..Len(index) : index[m].block \in Nat
          /\ \A m \in 1..Len(index) : m < k => index[m].block < reader[r].start
          /\ \A m \in 1..Len(index) : m >= k => index[m].block >= reader[r].start
      BY <1>1, <1>2, <1>3, PartitionPointSplits, EntryTypes
    <3>3. k <= Len(index) /\ reader[r].off = index[k].i
      BY <3>1 DEF OffsetForHeight
    <3>. HIDE DEF k
    <3>4. k \in 1..Len(index)
      BY <3>2, <3>3
    <3>5. /\ WholeBlocks(d)
          /\ \A p \in 1..Len(d) : HeightOf[d[p][1]] >= index[k].block
          /\ \A m \in k..Len(index) :
               \E p \in 1..Len(d) : HeightOf[d[p][1]] = index[m].block
      <4>1. d = SubSeq(buffer, index[k].i + 1, Len(buffer))
        BY <3>3 DEF d
      <4>. QED  BY <4>1, <3>4, <1>1, <1>2, SliceFromEntry
    <3>6. \A p \in 1..Len(d) : HeightOf[d[p][1]] >= reader[r].start
      <4>1. \A p \in 1..Len(d) : HeightOf[d[p][1]] \in Nat
        BY <2>2, PacketTypes
      <4>. QED  BY <4>1, <3>2, <3>4, <3>5, <1>3
    <3>7. ASSUME NEW h \in reader[r].due
          PROVE  \E p \in 1..Len(d) : HeightOf[d[p][1]] = h
      <4>1. PICK m \in 1..Len(index) : h = index[m].block
        BY <3>1 DEF HeightsIn
      <4>2. m \in k..Len(index)
        BY <4>1, <3>1, <3>2, <3>4, <1>3
      <4>. QED  BY <4>1, <4>2, <3>5
    <3>. QED  BY <3>5, <3>6, <3>7
  <2>5. Answered(r)'
    BY <2>3, <2>4 DEF Answered, Served
  <2>. QED  BY <2>3, <2>5 DEF RequestOk
<1>9. CASE LengthAskIndex(r)
  <2>1. reader[r].pc = "length" /\ reader'[r] = [reader[r] EXCEPT !.pc = "measure"]
    BY <1>1, <1>9 DEF LengthAskIndex, Read, Reading, Moved
  <2>2. reader'[r] \in RequestType /\ reader'[r].pc = "measure" /\ reader'[r].data = <<>>
    BY <1>1, <2>1 DEF RequestType, ReaderPc, RequestOk
  <2>. QED  BY <2>2 DEF RequestOk
<1>10. CASE LengthMeasure(r)
  <2>. DEFINE start == reader[r].start
              end   == reader[r].end
              size  == RoomFor(index, buffer, start, end)
              due   == DueIn(index, start, end)
              room  == RoomOf(buffer, start, end)
  <2>1. ByteLengthBetween(start, end) = size
    BY DEF ByteLengthBetween, Bound, RoomFor
  <2>2. size \in Nat /\ Cardinality({p \in room : HeightOf[p[1]] \in due}) <= size
    BY <1>1, <1>2, <1>3, RangeFits
  <2>3. due \in SUBSET Heights /\ room \in SUBSET Packet
    <3>1. \A k \in 1..Len(index) : index[k].block \in Heights
      BY <1>1, EntryTypes DEF IndexEntry
    <3>2. \A p \in 1..Len(buffer) : buffer[p] \in Packet
      BY <1>1, PacketTypes
    <3>. QED  BY <3>1, <3>2 DEF HeightsIn, DueIn, RoomOf
  <2>4. /\ reader[r].pc = "measure"
        /\ reader'[r] = [reader[r] EXCEPT !.pc = "size", !.size = size,
                                          !.due = due, !.room = room]
    BY <1>1, <1>10, <2>1 DEF LengthMeasure, Read, Reading, Moved, DueIn, RoomOf
  <2>. HIDE DEF size, due, room
  <2>5. /\ reader'[r] \in RequestType /\ reader'[r].pc = "size"
        /\ reader'[r].size = size /\ reader'[r].due = due
        /\ reader'[r].room = room /\ reader'[r].data = reader[r].data
    BY <1>1, <2>2, <2>3, <2>4 DEF RequestType, ReaderPc
  <2>6. reader'[r].data = <<>>
    BY <1>1, <2>4, <2>5 DEF RequestOk
  <2>. QED  BY <2>2, <2>5, <2>6 DEF RequestOk, Measured
<1>. QED  BY <1>5, <1>6, <1>7, <1>8, <1>9, <1>10 DEF Moves, ReaderStep

\* The store's invariant and the requests' are kept by every step.
LEMMA ReadStep == ReadInv /\ [Next]_vars => ReadInv'
<1> SUFFICES ASSUME ReadInv, [Next]_vars PROVE ReadInv'
  OBVIOUS
<1>1. TypeInv /\ WriterInv /\ StoreInv /\ RequestInv
  BY DEF ReadInv
<1>2. CASE PassOver \/ CheckIndexed \/ AskCut \/ WriterStep
  BY <1>1, <1>2, WriterKeepsStore, WriterKeepsRequests DEF ReadInv, TypeInv
<1>3. ASSUME NEW r \in Reader, Moves(r) PROVE ReadInv'
  <2>1. /\ UNCHANGED <<index, buffer, chain, scannedTo, writer>>
        /\ reader \in [Reader -> RequestType]
        /\ reader' = [reader EXCEPT ![r] = reader'[r]]
    BY <1>1, <1>3, MovesReader DEF TypeInv
  <2>2. reader'[r] \in RequestType /\ RequestOk(r)'
    BY <1>3, MovesRequest
  <2>3. TypeInv'
    BY <1>1, <2>1, <2>2 DEF TypeInv
  <2>4. WriterInv' /\ StoreInv'
    BY <1>1, <2>1 DEF WriterInv, StoreInv, Stored, NextBlock, UpTo
  <2>5. ASSUME NEW q \in Reader, q # r PROVE RequestOk(q)'
    <3>1. reader'[q] = reader[q] /\ index' = index
      BY <2>1, <2>5
    <3>. QED  BY <1>1, <3>1, RequestKept DEF RequestInv
  <2>. QED  BY <2>2, <2>3, <2>4, <2>5 DEF ReadInv, RequestInv
<1>4. CASE UNCHANGED vars
  <2>1. UNCHANGED <<index, buffer, chain, scannedTo, writer, reader>>
    BY <1>4 DEF vars, values
  <2>2. TypeInv' /\ WriterInv' /\ StoreInv'
    BY <1>1, <2>1 DEF TypeInv, WriterInv, StoreInv, Stored, NextBlock, UpTo
  <2>3. RequestInv'
    BY <1>1, <2>1, RequestKept DEF RequestInv
  <2>. QED  BY <2>2, <2>3 DEF ReadInv
<1>. QED  BY <1>2, <1>3, <1>4 DEF Next, Moves

LEMMA ReadInvariance == Spec => []ReadInv
BY ReadInitially, ReadStep, PTL DEF Spec

\* A response of get_shield_data is whole blocks in ascending order, unless a
\* reorg cut the store between the handler's two locks.
THEOREM ReadersGetWholeBlocks == Spec => []WholeUnlessCut
<1>1. ReadInv => WholeUnlessCut
  <2> SUFFICES ASSUME ReadInv, NEW r \in Reader, ~reader[r].cut
               PROVE  WholeBlocks(reader[r].data)
    BY DEF WholeUnlessCut
  <2>1. WholeBlocks(<<>>)
    BY DEF WholeBlocks
  <2>. QED  BY <2>1 DEF ReadInv, RequestInv, RequestOk, Answered
<1>. QED  BY <1>1, ReadInvariance, PTL

\* And it then holds every block from the start height on that was indexed
\* when the handler looked, and none from below it.
THEOREM ReadersMissNothing == Spec => []CompleteUnlessCut
<1>1. ReadInv => CompleteUnlessCut
  BY DEF ReadInv, RequestInv, RequestOk, Answered, Served, CompleteUnlessCut, Reading
<1>. QED  BY <1>1, ReadInvariance, PTL

\* get_shield_data_length announces no less than what the buffer holds of the
\* indexed blocks of the range.
THEOREM LengthIsEnough == Spec => []LengthCoversIndexed
<1>1. ReadInv => LengthCoversIndexed
  BY DEF ReadInv, RequestInv, RequestOk, Measured, LengthCoversIndexed, Reading
<1>. QED  BY <1>1, ReadInvariance, PTL

----------------------------------------------------------------------------
(* The locks.                                                              *)

Claim == [task : Reader \cup {Indexing}, mode : Mode]

Claims(l) == l.held \cup {l.queue[k] : k \in 1..Len(l.queue)}

\* No task has two claims on a lock, and those let in are compatible.
Orderly(l) ==
    /\ l \in [held : SUBSET Claim, queue : Seq(Claim)]
    /\ Compatible(l.held)
    /\ \A j, k \in 1..Len(l.queue) : l.queue[j].task = l.queue[k].task => j = k
    /\ \A x \in l.held, k \in 1..Len(l.queue) : x.task # l.queue[k].task

\* What the tasks may claim at the places they are at.
IndexClaims ==
    {x \in Claim :
       IF x.task = Indexing
       THEN \/ writer.pc = "check" /\ x.mode = "read"
            \/ writer.pc \in {"add", "cut", "truncate"} /\ x.mode = "write"
       ELSE reader[x.task].pc \in {"find", "measure"}}

BufferClaims ==
    {x \in Claim :
       IF x.task = Indexing
       THEN writer.pc \in {"extend", "truncate"} /\ x.mode = "write"
       ELSE reader[x.task].pc \in {"slice", "length", "measure"}}

LockInv ==
    /\ Orderly(indexLock) /\ Claims(indexLock) \subseteq IndexClaims
    /\ Orderly(bufferLock) /\ Claims(bufferLock) \subseteq BufferClaims
    /\ writer.pc = "truncate" => Holds(indexLock, Indexing)
    /\ \A r \in Reader : reader[r].pc = "measure" => Holds(bufferLock, r)

\* Waiters are let in without anyone being put out or two becoming one.
LEMMA GrantOrderly ==
    ASSUME NEW l, Orderly(l)
    PROVE  /\ Orderly(Grant(l))
           /\ l.held \subseteq Grant(l).held
           /\ Claims(Grant(l)) \subseteq Claims(l)
<1>. DEFINE L == Len(l.queue)
            Fits(k) == Compatible(Admitted(l, k))
            Up == {k \in 0..L : \A m \in (k + 1)..L : ~Fits(m)}
            n == CHOOSE k \in 0..L : Fits(k) /\ \A m \in (k + 1)..L : ~Fits(m)
            held == Admitted(l, n)
            rest == SubSeq(l.queue, n + 1, L)
<1>1. /\ l.held \in SUBSET Claim /\ l.queue \in Seq(Claim) /\ L \in Nat
      /\ \A k \in 1..L : l.queue[k] \in Claim
  BY LenProperties, ElementOfSeq DEF Orderly
<1>2. n \in 0..L /\ Fits(n)
  <2>1. L \in Up /\ Up \in SUBSET Nat /\ Up # {}
    BY <1>1
  <2>2. PICK k \in Up : \A j \in Up : k <= j
    <3>. HIDE DEF Up
    <3>. QED  BY <2>1, LeastElement
  <2>3. Fits(k)
    <3>1. CASE k = 0
      <4>1. Admitted(l, 0) = l.held
        BY DEF Admitted
      <4>. QED  BY <3>1, <4>1 DEF Orderly
    <3>2. CASE k # 0
      <4>1. k - 1 \in 0..L /\ k - 1 \notin Up
        <5>1. k \in 0..L
          BY <2>2
        <5>2. k - 1 \in 0..L /\ ~(k <= k - 1)
          BY <5>1, <3>2, <1>1
        <5>. HIDE DEF Up
        <5>. QED  BY <5>2, <2>2
      <4>2. PICK m \in k..L : Fits(m)
        BY <4>1, <1>1
      <4>3. m = k
        BY <2>2, <4>2, <1>1
      <4>. QED  BY <4>2, <4>3
    <3>. QED  BY <3>1, <3>2
  <2>4. k \in 0..L /\ \A m \in (k + 1)..L : ~Fits(m)
    BY <2>2
  <2>. HIDE DEF Up, Fits
  <2>. QED  BY <2>3, <2>4
<1>3. Grant(l) = [held |-> held, queue |-> rest]
  BY DEF Grant
<1>. HIDE DEF n
<1>4. /\ rest \in Seq(Claim) /\ Len(rest) = L - n
      /\ \A k \in 1..(L - n) : rest[k] = l.queue[n + k] /\ n + k \in (n + 1)..L
  <2>1. \A k \in (n + 1)..L : l.queue[k] \in Claim
    BY <1>1, <1>2
  <2>2. /\ rest \in Seq(Claim)
        /\ Len(rest) = IF n + 1 <= L THEN L - (n + 1) + 1 ELSE 0
        /\ \A k \in 1..(L - (n + 1) + 1) : rest[k] = l.queue[n + 1 + k - 1]
    <3>1. n + 1 \in Nat \ {0}
      BY <1>1, <1>2
    <3>. QED  BY <2>1, <3>1, <1>1, <1>2, SubSeqProperties
  <2>. HIDE DEF rest
  <2>3. L - (n + 1) + 1 = L - n /\ (~(n + 1 <= L) => L - n = 0)
        /\ \A k \in 1..(L - n) : n + 1 + k - 1 = n + k /\ n + k \in (n + 1)..L
    BY <1>1, <1>2
  <2>. QED  BY <2>2, <2>3
<1>. HIDE DEF rest
<1>5. \A x \in held : x \in l.held \/ \E k \in 1..n : x = l.queue[k] /\ k \in 1..L
  BY <1>1, <1>2 DEF Admitted
<1>6. l.held \subseteq held /\ held \in SUBSET Claim
  BY <1>1, <1>5 DEF Admitted
<1>. HIDE DEF held
<1>7. /\ \A j, k \in 1..L : l.queue[j].task = l.queue[k].task => j = k
      /\ \A x \in l.held, k \in 1..L : x.task # l.queue[k].task
  BY DEF Orderly
<1>8. \A j, k \in 1..Len(rest) : rest[j].task = rest[k].task => j = k
  <2>1. SUFFICES ASSUME NEW j \in 1..Len(rest), NEW k \in 1..Len(rest),
                        rest[j].task = rest[k].task
                 PROVE  j = k
    OBVIOUS
  <2>2. /\ rest[j] = l.queue[n + j] /\ rest[k] = l.queue[n + k]
        /\ n + j \in 1..L /\ n + k \in 1..L
    BY <1>1, <1>2, <1>4
  <2>3. n + j = n + k
    BY <2>1, <2>2, <1>7
  <2>. QED  BY <2>3, <1>1, <1>2, <1>4
<1>9. \A x \in held, k \in 1..Len(rest) : x.task # rest[k].task
  <2>1. SUFFICES ASSUME NEW x \in held, NEW k \in 1..Len(rest)
                 PROVE  x.task # rest[k].task
    OBVIOUS
  <2>2. rest[k] = l.queue[n + k] /\ n + k \in 1..L /\ n + k > n
    BY <1>1, <1>2, <1>4
  <2>3. CASE x \in l.held
    BY <2>2, <2>3, <1>7
  <2>4. CASE \E j \in 1..n : x = l.queue[j] /\ j \in 1..L
    <3>1. PICK j \in 1..n : x = l.queue[j] /\ j \in 1..L
      BY <2>4
    <3>2. j # n + k
      BY <2>2, <3>1, <1>2
    <3>. QED  BY <2>2, <3>1, <3>2, <1>7
  <2>. QED  BY <2>3, <2>4, <1>5
<1>10. Orderly(Grant(l))
  <2>1. Compatible(held)
    BY <1>2 DEF held
  <2>. QED  BY <2>1, <1>3, <1>4, <1>6, <1>8, <1>9 DEF Orderly
<1>11. Claims(Grant(l)) \subseteq Claims(l)
  <2>1. \A k \in 1..Len(rest) : \E j \in 1..L : rest[k] = l.queue[j]
    BY <1>1, <1>2, <1>4
  <2>. QED  BY <2>1, <1>3, <1>5 DEF Claims
<1>. QED  BY <1>3, <1>6, <1>10, <1>11

\* A task that has no claim asks; A are the claims there may be before.
LEMMA RequestOrderly ==
    ASSUME NEW l, Orderly(l), NEW A, Claims(l) \subseteq A,
           NEW t \in Reader \cup {Indexing}, NEW mode \in Mode,
           \A x \in A : x.task # t
    PROVE  /\ Orderly(Request(l, t, mode))
           /\ l.held \subseteq Request(l, t, mode).held
           /\ Claims(Request(l, t, mode)) \subseteq A \cup {[task |-> t, mode |-> mode]}
<1>. DEFINE c == [task |-> t, mode |-> mode]
            q == Append(l.queue, c)
            m == [l EXCEPT !.queue = q]
<1>1. /\ l \in [held : SUBSET Claim, queue : Seq(Claim)] /\ Compatible(l.held)
      /\ \A j, k \in 1..Len(l.queue) : l.queue[j].task = l.queue[k].task => j = k
      /\ \A x \in l.held, k \in 1..Len(l.queue) : x.task # l.queue[k].task
  BY DEF Orderly
<1>2. c \in Claim /\ c.task = t
  BY DEF Claim
<1>3. /\ q \in Seq(Claim) /\ Len(l.queue) \in Nat /\ Len(q) = Len(l.queue) + 1
      /\ q[Len(l.queue) + 1] = c
      /\ \A k \in 1..Len(l.queue) : q[k] = l.queue[k]
  BY <1>1, <1>2, AppendProperties, LenProperties
<1>. HIDE DEF c, q
<1>4. m.held = l.held /\ m.queue = q /\ m \in [held : SUBSET Claim, queue : Seq(Claim)]
  BY <1>1, <1>3
<1>5. \A k \in 1..Len(q) :
        \/ k \in 1..Len(l.queue) /\ q[k] = l.queue[k]
        \/ k = Len(l.queue) + 1 /\ q[k] = c
  BY <1>3
<1>6. /\ \A x \in l.held : x.task # t
      /\ \A k \in 1..Len(l.queue) : l.queue[k].task # t
  BY DEF Claims
<1>7. Orderly(m)
  <2>1. \A j, k \in 1..Len(q) : q[j].task = q[k].task => j = k
    BY <1>1, <1>2, <1>5, <1>6
  <2>2. \A x \in l.held, k \in 1..Len(q) : x.task # q[k].task
    BY <1>1, <1>2, <1>5, <1>6
  <2>. HIDE DEF m
  <2>. QED  BY <1>1, <1>4, <2>1, <2>2 DEF Orderly
<1>8. Claims(m) \subseteq A \cup {c}
  <2>. HIDE DEF m
  <2>. QED  BY <1>4, <1>5 DEF Claims
<1>9. Request(l, t, mode) = Grant(m)
  BY DEF Request, q, c
<1>. HIDE DEF m
<1>. QED  BY <1>4, <1>7, <1>8, <1>9, GrantOrderly DEF c

\* A task that is in the lock lets it go.
LEMMA ReleaseOrderly ==
    ASSUME NEW l, Orderly(l), NEW A, Claims(l) \subseteq A, NEW t, Holds(l, t)
    PROVE  /\ Orderly(Release(l, t))
           /\ \A u : u # t /\ Holds(l, u) => Holds(Release(l, t), u)
           /\ Claims(Release(l, t)) \subseteq {x \in A : x.task # t}
<1>. DEFINE left == {x \in l.held : x.task # t}
            m    == [l EXCEPT !.held = left]
<1>1. /\ l \in [held : SUBSET Claim, queue : Seq(Claim)] /\ Compatible(l.held)
      /\ \A j, k \in 1..Len(l.queue) : l.queue[j].task = l.queue[k].task => j = k
      /\ \A x \in l.held, k \in 1..Len(l.queue) : x.task # l.queue[k].task
  BY DEF Orderly
<1>2. /\ m.held = left /\ m.queue = l.queue
      /\ m \in [held : SUBSET Claim, queue : Seq(Claim)]
  BY <1>1
<1>3. Orderly(m)
  <2>1. Compatible(left)
    BY <1>1 DEF Compatible
  <2>2. \A x \in left, k \in 1..Len(l.queue) : x.task # l.queue[k].task
    BY <1>1
  <2>. HIDE DEF m, left
  <2>. QED  BY <1>1, <1>2, <2>1, <2>2 DEF Orderly
<1>4. Claims(m) \subseteq {x \in A : x.task # t}
  <2>1. \A k \in 1..Len(l.queue) : l.queue[k].task # t
    BY <1>1 DEF Holds
  <2>. HIDE DEF m
  <2>. QED  BY <1>2, <2>1 DEF Claims
<1>5. Release(l, t) = Grant(m)
  BY DEF Release
<1>6. \A u : u # t /\ Holds(l, u) => \E x \in m.held : x.task = u
  BY <1>2 DEF Holds
<1>. HIDE DEF m
<1>7. Orderly(Grant(m)) /\ m.held \subseteq Grant(m).held /\ Claims(Grant(m)) \subseteq Claims(m)
  BY <1>3, GrantOrderly
<1>. QED  BY <1>4, <1>5, <1>6, <1>7 DEF Holds

LEMMA LocksInitially == Init => LockInv
<1> SUFFICES ASSUME Init PROVE LockInv
  OBVIOUS
<1>1. /\ Free \in [held : SUBSET Claim, queue : Seq(Claim)]
      /\ Free.held = {} /\ Len(Free.queue) = 0
  BY DEF Free
<1>2. Orderly(Free) /\ Claims(Free) = {}
  BY <1>1 DEF Orderly, Claims, Compatible
<1>. QED  BY <1>2 DEF Init, LockInv, IdleReader

\* A step of a handler other than r, or of the indexer, leaves r's place.
LEMMA WriterKeepsLocks ==
    ASSUME LockInv, TypeInv, PassOver \/ CheckIndexed \/ AskCut \/ WriterStep
    PROVE  LockInv'
<1>1. /\ writer \in [pc : WriterPc, fork : Nat, off : Nat]
      /\ Orderly(indexLock) /\ Claims(indexLock) \subseteq IndexClaims
      /\ Orderly(bufferLock) /\ Claims(bufferLock) \subseteq BufferClaims
      /\ writer.pc = "truncate" => Holds(indexLock, Indexing)
      /\ \A r \in Reader : reader[r].pc = "measure" => Holds(bufferLock, r)
      /\ Indexing \in Reader \cup {Indexing} /\ "read" \in Mode /\ "write" \in Mode
      /\ \A r \in Reader : r # Indexing
  BY ReadersAssumption DEF LockInv, TypeInv, Mode
<1>2. \A r \in Reader : reader'[r].pc = reader[r].pc
  <2>1. CASE UNCHANGED reader
    BY <2>1
  <2>2. CASE reader' = [r \in Reader |->
                 IF reader[r].pc \in {"offset", "slice"}
                 THEN [reader[r] EXCEPT !.cut = TRUE] ELSE reader[r]]
    <3>1. \A r \in Reader : reader[r] \in RequestType
      BY DEF TypeInv
    <3>. QED  BY <2>2, <3>1 DEF RequestType
  <2>. QED  BY <2>1, <2>2 DEF PassOver, CheckIndexed, AskCut, WriterStep, Checked,
              AskExtend, Extend, AskAdd, Add, AskCutBuffer, Cut
\* What becomes of the claims when only the indexer has moved.
<1>3. \A x \in IndexClaims : x.task # Indexing => x \in IndexClaims'
  BY <1>2 DEF IndexClaims, Claim
<1>4. \A x \in BufferClaims : x.task # Indexing => x \in BufferClaims'
  BY <1>2 DEF BufferClaims, Claim
<1>5. CASE PassOver
  <2>1. UNCHANGED <<indexLock, bufferLock, writer>>
    BY <1>5 DEF PassOver, locks
  <2>2. IndexClaims' = IndexClaims /\ BufferClaims' = BufferClaims
    BY <1>2, <2>1 DEF IndexClaims, BufferClaims, Claim
  <2>. QED  BY <1>1, <1>2, <2>1, <2>2 DEF LockInv
<1>6. CASE CheckIndexed \/ AskCut
  <2>1. PICK mode \in Mode :
          /\ indexLock' = Request(indexLock, Indexing, mode) /\ bufferLock' = bufferLock
          /\ writer.pc = "idle"
          /\ \/ mode = "read" /\ writer'.pc = "check"
             \/ mode = "write" /\ writer'.pc = "cut"
    BY <1>1, <1>6 DEF CheckIndexed, AskCut, Writing, Write, locks
  <2>2. \A x \in IndexClaims \cup BufferClaims : x.task # Indexing
    BY <2>1 DEF IndexClaims, BufferClaims
  <2>3. /\ Orderly(indexLock')
        /\ Claims(indexLock') \subseteq IndexClaims \cup {[task |-> Indexing, mode |-> mode]}
    BY <1>1, <2>1, <2>2, RequestOrderly
  <2>4. [task |-> Indexing, mode |-> mode] \in IndexClaims'
    BY <2>1 DEF IndexClaims, Claim
  <2>. QED  BY <1>1, <1>2, <1>3, <1>4, <2>1, <2>2, <2>3, <2>4 DEF LockInv
<1>7. CASE Checked \/ Add
  <2>1. /\ indexLock' = Release(indexLock, Indexing) /\ bufferLock' = bufferLock
        /\ Holds(indexLock, Indexing)
        /\ writer.pc \in {"check", "add"} /\ writer'.pc \in {"idle", "append"}
    BY <1>1, <1>7 DEF Checked, Add, Writing, Write
  <2>2. \A x \in BufferClaims : x.task # Indexing
    BY <2>1 DEF BufferClaims
  <2>3. /\ Orderly(indexLock')
        /\ Claims(indexLock') \subseteq {x \in IndexClaims : x.task # Indexing}
    BY <1>1, <2>1, ReleaseOrderly
  <2>. QED  BY <1>1, <1>2, <1>3, <1>4, <2>1, <2>2, <2>3 DEF LockInv
<1>8. CASE AskExtend \/ AskCutBuffer
  <2>1. /\ bufferLock' = Request(bufferLock, Indexing, "write") /\ indexLock' = indexLock
        /\ \/ writer.pc = "append" /\ writer'.pc = "extend"
           \/ writer.pc = "cut" /\ writer'.pc = "truncate" /\ Holds(indexLock, Indexing)
    BY <1>1, <1>8 DEF AskExtend, AskCutBuffer, Writing, Write
  <2>2. \A x \in BufferClaims : x.task # Indexing
    BY <2>1 DEF BufferClaims
  <2>3. /\ Orderly(bufferLock')
        /\ bufferLock.held \subseteq bufferLock'.held
        /\ Claims(bufferLock') \subseteq BufferClaims \cup {[task |-> Indexing, mode |-> "write"]}
    BY <1>1, <2>1, <2>2, RequestOrderly
  <2>4. [task |-> Indexing, mode |-> "write"] \in BufferClaims'
    BY <1>1, <2>1 DEF BufferClaims, Claim
  <2>5. IndexClaims \subseteq IndexClaims'
    BY <1>2, <2>1 DEF IndexClaims, Claim
  <2>6. \A r \in Reader : Holds(bufferLock, r) => Holds(bufferLock', r)
    BY <2>3 DEF Holds
  <2>. QED  BY <1>1, <1>2, <1>4, <2>1, <2>2, <2>3, <2>4, <2>5, <2>6 DEF LockInv
<1>9. CASE Extend
  <2>1. /\ bufferLock' = Release(bufferLock, Indexing) /\ indexLock' = indexLock
        /\ Holds(bufferLock, Indexing) /\ writer.pc = "extend" /\ writer'.pc = "index"
    BY <1>1, <1>9 DEF Extend, Writing, Write
  <2>2. \A x \in IndexClaims : x.task # Indexing
    BY <2>1 DEF IndexClaims
  <2>3. /\ Orderly(bufferLock')
        /\ \A r \in Reader : Holds(bufferLock, r) => Holds(bufferLock', r)
        /\ Claims(bufferLock') \subseteq {x \in BufferClaims : x.task # Indexing}
    BY <1>1, <2>1, ReleaseOrderly
  <2>. QED  BY <1>1, <1>2, <1>3, <1>4, <2>1, <2>2, <2>3 DEF LockInv
<1>10. CASE AskAdd
  <2>1. /\ indexLock' = Request(indexLock, Indexing, "write") /\ bufferLock' = bufferLock
        /\ writer.pc = "index" /\ writer'.pc = "add"
    BY <1>1, <1>10 DEF AskAdd, Writing, Write
  <2>2. \A x \in IndexClaims \cup BufferClaims : x.task # Indexing
    BY <2>1 DEF IndexClaims, BufferClaims
  <2>3. /\ Orderly(indexLock')
        /\ Claims(indexLock') \subseteq IndexClaims \cup {[task |-> Indexing, mode |-> "write"]}
    BY <1>1, <2>1, <2>2, RequestOrderly
  <2>4. [task |-> Indexing, mode |-> "write"] \in IndexClaims'
    BY <1>1, <2>1 DEF IndexClaims, Claim
  <2>. QED  BY <1>1, <1>2, <1>3, <1>4, <2>1, <2>2, <2>3, <2>4 DEF LockInv
<1>11. CASE Cut
  <2>1. /\ indexLock' = Release(indexLock, Indexing)
        /\ bufferLock' = Release(bufferLock, Indexing)
        /\ Holds(bufferLock, Indexing) /\ writer.pc = "truncate" /\ writer'.pc = "idle"
    BY <1>1, <1>11 DEF Cut, Writing, Write
  <2>2. /\ Orderly(indexLock')
        /\ Claims(indexLock') \subseteq {x \in IndexClaims : x.task # Indexing}
    BY <1>1, <2>1, ReleaseOrderly
  <2>3. /\ Orderly(bufferLock')
        /\ \A r \in Reader : Holds(bufferLock, r) => Holds(bufferLock', r)
        /\ Claims(bufferLock') \subseteq {x \in BufferClaims : x.task # Indexing}
    BY <1>1, <2>1, ReleaseOrderly
  <2>. QED  BY <1>1, <1>2, <1>3, <1>4, <2>1, <2>2, <2>3 DEF LockInv
<1>. QED  BY <1>5, <1>6, <1>7, <1>8, <1>9, <1>10, <1>11 DEF WriterStep

LEMMA ReaderKeepsLocks ==
    ASSUME LockInv, TypeInv, NEW r \in Reader, Moves(r)
    PROVE  LockInv'
<1>1. /\ reader \in [Reader -> RequestType] /\ reader[r] \in RequestType
      /\ Orderly(indexLock) /\ Claims(indexLock) \subseteq IndexClaims
      /\ Orderly(bufferLock) /\ Claims(bufferLock) \subseteq BufferClaims
      /\ writer.pc = "truncate" => Holds(indexLock, Indexing)
      /\ \A q \in Reader : reader[q].pc = "measure" => Holds(bufferLock, q)
      /\ r \in Reader \cup {Indexing} /\ "read" \in Mode /\ r # Indexing
  BY ReadersAssumption DEF LockInv, TypeInv, Mode
<1>2. /\ UNCHANGED writer /\ \A q \in Reader : q # r => reader'[q] = reader[q]
  BY <1>1, MovesReader
<1>3. \A x \in IndexClaims : x.task # r => x \in IndexClaims'
  BY <1>2 DEF IndexClaims, Claim
<1>4. \A x \in BufferClaims : x.task # r => x \in BufferClaims'
  BY <1>2 DEF BufferClaims, Claim
<1>. DEFINE c == [task |-> r, mode |-> "read"]
<1>5. c \in Claim /\ c.task = r
  BY <1>1 DEF Claim
<1>. HIDE DEF c
<1>6. CASE DataAsk(r)
  <2>1. /\ indexLock' = Request(indexLock, r, "read") /\ bufferLock' = bufferLock
        /\ reader[r].pc = "idle" /\ reader'[r].pc = "find"
    BY <1>1, <1>6, IdleTyped DEF DataAsk, Reading, Read, RequestType
  <2>2. \A x \in IndexClaims \cup BufferClaims : x.task # r
    BY <1>1, <2>1 DEF IndexClaims, BufferClaims
  <2>3. /\ Orderly(indexLock') /\ indexLock.held \subseteq indexLock'.held
        /\ Claims(indexLock') \subseteq IndexClaims \cup {c}
    BY <1>1, <2>1, <2>2, RequestOrderly DEF c
  <2>4. c \in IndexClaims'
    BY <1>1, <1>5, <2>1 DEF IndexClaims
  <2>5. Holds(indexLock, Indexing) => Holds(indexLock', Indexing)
    BY <2>3 DEF Holds
  <2>. QED  BY <1>1, <1>2, <1>3, <1>4, <2>1, <2>2, <2>3, <2>4, <2>5 DEF LockInv
<1>7. CASE DataOffset(r)
  <2>1. /\ indexLock' = Release(indexLock, r) /\ bufferLock' = bufferLock
        /\ Holds(indexLock, r)
        /\ reader[r].pc = "find" /\ reader'[r].pc \in {"data", "offset"}
    BY <1>1, <1>7, ZenonT(40) DEF DataOffset, Reading, Read, Moved, RequestType
  <2>2. \A x \in BufferClaims : x.task # r
    BY <1>1, <2>1 DEF BufferClaims
  <2>3. /\ Orderly(indexLock')
        /\ \A u : u # r /\ Holds(indexLock, u) => Holds(indexLock', u)
        /\ Claims(indexLock') \subseteq {x \in IndexClaims : x.task # r}
    BY <1>1, <2>1, ReleaseOrderly
  <2>. QED  BY <1>1, <1>2, <1>3, <1>4, <2>1, <2>2, <2>3 DEF LockInv
<1>8. CASE DataAskBuffer(r) \/ LengthAsk(r)
  <2>1. /\ bufferLock' = Request(bufferLock, r, "read") /\ indexLock' = indexLock
        /\ \/ reader[r].pc = "offset" /\ reader'[r].pc = "slice"
           \/ reader[r].pc = "idle" /\ reader'[r].pc = "length"
    <3>1. CASE DataAskBuffer(r)
      BY <1>1, <3>1 DEF DataAskBuffer, Reading, Read, Moved, RequestType
    <3>2. CASE LengthAsk(r)
      BY <1>1, <3>2, IdleTyped DEF LengthAsk, Reading, Read, RequestType
    <3>. QED  BY <1>8, <3>1, <3>2
  <2>2. \A x \in IndexClaims \cup BufferClaims : x.task # r
    BY <1>1, <2>1 DEF IndexClaims, BufferClaims
  <2>3. /\ Orderly(bufferLock') /\ bufferLock.held \subseteq bufferLock'.held
        /\ Claims(bufferLock') \subseteq BufferClaims \cup {c}
    BY <1>1, <2>1, <2>2, RequestOrderly DEF c
  <2>4. c \in BufferClaims'
    BY <1>1, <1>5, <2>1 DEF BufferClaims
  <2>5. \A q : Holds(bufferLock, q) => Holds(bufferLock', q)
    BY <2>3 DEF Holds
  <2>. QED  BY <1>1, <1>2, <1>3, <1>4, <2>1, <2>2, <2>3, <2>4, <2>5 DEF LockInv
<1>9. CASE DataSlice(r)
  <2>1. /\ bufferLock' = Release(bufferLock, r) /\ indexLock' = indexLock
        /\ Holds(bufferLock, r)
        /\ reader[r].pc = "slice" /\ reader'[r].pc = "data"
    BY <1>1, <1>9 DEF DataSlice, Reading, Read, Moved, RequestType
  <2>2. \A x \in IndexClaims : x.task # r
    BY <1>1, <2>1 DEF IndexClaims
  <2>3. /\ Orderly(bufferLock')
        /\ \A u : u # r /\ Holds(bufferLock, u) => Holds(bufferLock', u)
        /\ Claims(bufferLock') \subseteq {x \in BufferClaims : x.task # r}
    BY <1>1, <2>1, ReleaseOrderly
  <2>. QED  BY <1>1, <1>2, <1>3, <1>4, <2>1, <2>2, <2>3 DEF LockInv
<1>10. CASE LengthAskIndex(r)
  <2>1. /\ indexLock' = Request(indexLock, r, "read") /\ bufferLock' = bufferLock
        /\ Holds(bufferLock, r)
        /\ reader[r].pc = "length" /\ reader'[r].pc = "measure"
    BY <1>1, <1>10 DEF LengthAskIndex, Reading, Read, Moved, RequestType
  <2>2. \A x \in IndexClaims : x.task # r
    BY <1>1, <2>1 DEF IndexClaims
  <2>3. /\ Orderly(indexLock') /\ indexLock.held \subseteq indexLock'.held
        /\ Claims(indexLock') \subseteq IndexClaims \cup {c}
    BY <1>1, <2>1, <2>2, RequestOrderly DEF c
  <2>4. c \in IndexClaims'
    BY <1>1, <1>5, <2>1 DEF IndexClaims
  <2>5. BufferClaims \subseteq BufferClaims'
    BY <1>2, <2>1 DEF BufferClaims, Claim
  <2>6. Holds(indexLock, Indexing) => Holds(indexLock', Indexing)
    BY <2>3 DEF Holds
  <2>. QED  BY <1>1, <1>2, <1>3, <2>1, <2>2, <2>3, <2>4, <2>5, <2>6 DEF LockInv
<1>11. CASE LengthMeasure(r)
  <2>1. /\ indexLock' = Release(indexLock, r) /\ bufferLock' = Release(bufferLock, r)
        /\ Holds(indexLock, r)
        /\ reader[r].pc = "measure" /\ reader'[r].pc = "size"
    BY <1>1, <1>11 DEF LengthMeasure, Reading, Read, Moved, RequestType
  <2>2. /\ Orderly(indexLock')
        /\ \A u : u # r /\ Holds(indexLock, u) => Holds(indexLock', u)
        /\ Claims(indexLock') \subseteq {x \in IndexClaims : x.task # r}
    BY <1>1, <2>1, ReleaseOrderly
  <2>3. /\ Orderly(bufferLock')
        /\ \A u : u # r /\ Holds(bufferLock, u) => Holds(bufferLock', u)
        /\ Claims(bufferLock') \subseteq {x \in BufferClaims : x.task # r}
    BY <1>1, <2>1, ReleaseOrderly
  <2>. QED  BY <1>1, <1>2, <1>3, <1>4, <2>1, <2>2, <2>3 DEF LockInv
<1>12. CASE Respond(r)
  <2>1. /\ UNCHANGED <<indexLock, bufferLock>>
        /\ reader[r].pc \in {"data", "size"} /\ reader'[r].pc = "idle"
    BY <1>1, <1>12, IdleTyped DEF Respond, Read, locks
  <2>2. \A x \in IndexClaims \cup BufferClaims : x.task # r
    BY <1>1, <2>1 DEF IndexClaims, BufferClaims
  <2>. QED  BY <1>1, <1>2, <1>3, <1>4, <2>1, <2>2 DEF LockInv
<1>. QED  BY <1>6, <1>7, <1>8, <1>9, <1>10, <1>11, <1>12 DEF Moves, ReaderStep

LEMMA LockStep == LockInv /\ ReadInv /\ [Next]_vars => LockInv'
<1> SUFFICES ASSUME LockInv, ReadInv, [Next]_vars PROVE LockInv'
  OBVIOUS
<1>1. TypeInv
  BY DEF ReadInv
<1>2. CASE UNCHANGED vars
  BY <1>2 DEF vars, locks, LockInv, IndexClaims, BufferClaims
<1>. QED  BY <1>1, <1>2, WriterKeepsLocks, ReaderKeepsLocks DEF Next, Moves

\* The indexer changes the index or the buffer with no handler in that value's
\* lock, cuts with both locks held, and a length is measured under both.
THEOREM LocksExclude == Spec => []StoreGuarded
<1>1. LockInv => StoreGuarded
  <2> SUFFICES ASSUME LockInv PROVE StoreGuarded
    OBVIOUS
  <2>1. ASSUME NEW r \in Reader, Holds(indexLock, r), Holds(indexLock, Indexing),
               writer.pc \in {"add", "cut", "truncate"}
        PROVE  FALSE
    <3>1. PICK x \in indexLock.held, y \in indexLock.held :
            x.task = r /\ y.task = Indexing
      BY <2>1 DEF Holds
    <3>2. y.mode = "write"
      BY <2>1, <3>1 DEF LockInv, Claims, IndexClaims
    <3>. QED  BY <3>1, <3>2, ReadersAssumption DEF LockInv, Orderly, Compatible
  <2>2. ASSUME NEW r \in Reader, Holds(bufferLock, r), Holds(bufferLock, Indexing)
        PROVE  FALSE
    <3>1. PICK x \in bufferLock.held, y \in bufferLock.held :
            x.task = r /\ y.task = Indexing
      BY <2>2 DEF Holds
    <3>2. y.mode = "write"
      BY <3>1 DEF LockInv, Claims, BufferClaims
    <3>. QED  BY <3>1, <3>2, ReadersAssumption DEF LockInv, Orderly, Compatible
  <2>. QED  BY <2>1, <2>2 DEF StoreGuarded, LockInv, Writing, Reading
<1>. QED  BY <1>1, LocksInitially, LockStep, ReadInvariance, PTL DEF Spec
=============================================================================
