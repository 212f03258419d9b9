------------------------- MODULE ShieldStoreProofs -------------------------
(***************************************************************************)
(* What the operators of ShieldStore return, preserve and bound.           *)
(***************************************************************************)
EXTENDS ShieldStore, SequenceTheorems, WellFoundedInduction, TLAPS

\* A set of naturals that is not empty has a least element.
LEMMA LeastElement ==
    ASSUME NEW T \in SUBSET Nat, T # {}
    PROVE  \E k \in T : \A n \in T : k <= n
<1>. DEFINE R == {ss \in Nat \X Nat : ss[1] < ss[2]}
<1>1. IsWellFoundedOn(R, Nat)
  BY NatLessThanWellFounded DEF OpToRel
<1>2. PICK k \in T : \A n \in T : <<n, k>> \notin R
  <2>. HIDE DEF R
  <2>. QED  BY <1>1, WFMin, Zenon
<1>3. ASSUME NEW n \in T PROVE k <= n
  <2>1. <<n, k>>[1] = n /\ <<n, k>>[2] = k /\ <<n, k>> \in Nat \X Nat
    OBVIOUS
  <2>2. ~(n < k)
    BY <1>2, <2>1, Zenon
  <2>. QED  BY <2>2
<1>. QED  BY <1>3

\* A block's packets: as many as its transactions, and the footer.
LEMMA EncodeProperties ==
    ASSUME NEW b \in Block, NEW n \in Nat
    PROVE  /\ Encode(b, n) \in Seq(Packet)
           /\ Len(Encode(b, n)) = n + 1
           /\ \A j \in 1..(n + 1) :
                Encode(b, n)[j] = <<b, IF j <= n THEN j ELSE 0>>
BY DEF Encode, Packet

LEMMA EntryTypes ==
    ASSUME NEW index \in Seq(IndexEntry)
    PROVE  /\ Len(index) \in Nat
           /\ \A m \in 1..Len(index) :
                /\ index[m] \in IndexEntry
                /\ index[m].block \in Nat
                /\ index[m].i \in Nat
<1>1. \A m \in 1..Len(index) : index[m] \in IndexEntry
  BY ElementOfSeq
<1>2. Heights \subseteq Nat
  BY ChainAssumption DEF Heights
<1>3. \A e \in IndexEntry : e.block \in Heights /\ e.i \in Nat
  BY DEF IndexEntry
<1>. QED  BY <1>1, <1>2, <1>3, LenProperties

\* On an ascending index the partition point exists: below it the heights
\* are below h, from it on they are not.
LEMMA PartitionPointSplits ==
    ASSUME NEW index \in Seq(IndexEntry), AscendingHeights(index), NEW h \in Nat
    PROVE  LET k == PartitionPoint(index, h)
           IN  /\ k \in 1..(Len(index) + 1)
               /\ \A m \in 1..Len(index) : m < k => index[m].block < h
               /\ \A m \in 1..Len(index) : m >= k => index[m].block >= h
<1>. DEFINE NoneBelow == {k \in 1..(Len(index) + 1) :
                       \A m \in 1..Len(index) : m >= k => index[m].block >= h}
<1>1. Len(index) \in Nat /\ \A m \in 1..Len(index) : index[m].block \in Nat
  BY EntryTypes
<1>2. Len(index) + 1 \in NoneBelow
  BY <1>1
<1>3. PICK k \in NoneBelow : \A n \in NoneBelow : k <= n
  <2>1. NoneBelow \in SUBSET Nat /\ NoneBelow # {}
    BY <1>1, <1>2
  <2>. HIDE DEF NoneBelow
  <2>. QED  BY <2>1, LeastElement
<1>4. ASSUME NEW m \in 1..Len(index), m < k PROVE index[m].block < h
  <2>1. SUFFICES ASSUME index[m].block >= h PROVE m \in NoneBelow
    BY <1>1, <1>3, <1>4
  <2>2. \A p \in 1..Len(index) : p >= m => index[p].block >= h
    BY <2>1, <1>1 DEF AscendingHeights
  <2>. QED  BY <2>2, <1>1
<1>. QED  BY <1>3, <1>4, <1>1 DEF PartitionPoint

\* remove_from keeps the entries below h, in order, and no others; when there
\* is no offset for h, every entry is below it.
LEMMA RemoveFromBelow ==
    ASSUME NEW index \in Seq(IndexEntry), AscendingHeights(index), NEW h \in Nat
    PROVE  /\ RemoveFrom(index, h) \in Seq(IndexEntry)
           /\ AscendingHeights(RemoveFrom(index, h))
           /\ \A k \in 1..Len(RemoveFrom(index, h)) :
                RemoveFrom(index, h)[k].block < h
           /\ OffsetForHeight(index, h) \in Nat \cup {NoOffset}
           /\ OffsetForHeight(index, h) = NoOffset =>
                \A k \in 1..Len(index) : index[k].block < h
<1>. DEFINE new == RemoveFrom(index, h)
            q   == PartitionPoint(index, h)
            N   == Len(index)
<1>1. /\ N \in Nat
      /\ \A m \in 1..N : index[m].block \in Nat /\ index[m].i \in Nat
  BY EntryTypes
<1>2. q \in 1..(N + 1) /\ \A m \in 1..N : m < q => index[m].block < h
  BY PartitionPointSplits
<1>3. /\ new \in Seq(IndexEntry) /\ Len(new) = q - 1
      /\ \A k \in 1..(q - 1) : new[k] = index[k]
  <2>1. q - 1 \in 0..N
    BY <1>1, <1>2
  <2>2. \A e \in 1..(q - 1) : e \in 1..N
    BY <1>1, <1>2
  <2>. QED  BY <1>1, <2>1, <2>2, SubSeqProperties DEF RemoveFrom
<1>4. OffsetForHeight(index, h) = IF q <= N THEN index[q].i ELSE NoOffset
  BY DEF OffsetForHeight
<1>. HIDE DEF new, q
<1>5. \A k \in 1..Len(new) : k \in 1..N /\ k < q /\ new[k] = index[k]
  BY <1>1, <1>2, <1>3
<1>6. AscendingHeights(new) /\ \A k \in 1..Len(new) : new[k].block < h
  BY <1>2, <1>5 DEF AscendingHeights
<1>7. OffsetForHeight(index, h) \in Nat \cup {NoOffset}
  BY <1>1, <1>2, <1>4
<1>8. ASSUME OffsetForHeight(index, h) = NoOffset, NEW k \in 1..N
      PROVE  index[k].block < h
  <2>1. ASSUME q <= N PROVE FALSE
    <3>1. q \in 1..N /\ index[q].i \in Nat /\ index[q].i = NoOffset
      BY <1>1, <1>2, <1>4, <1>8, <2>1
    <3>. QED  BY <3>1 DEF NoOffset
  <2>. QED  BY <1>1, <1>2, <2>1
<1>. QED  BY <1>3, <1>6, <1>7, <1>8 DEF new

\* Two steps of Delimits: appending a block and its entry, and cutting both.
LEMMA DelimitsAppend ==
    ASSUME NEW index \in Seq(IndexEntry), NEW stream \in Seq(Packet),
           NEW length \in Nat, NEW b \in Block, NEW n \in Nat,
           Delimits(index, stream, length),
           \A m \in 1..Len(index) : index[m].block < HeightOf[b],
           Len(stream) = length + n + 1,
           \A j \in 1..(n + 1) :
             stream[length + j] = <<b, IF j <= n THEN j ELSE 0>>
    PROVE  LET new == Append(index, [block |-> HeightOf[b], i |-> length])
           IN  /\ new \in Seq(IndexEntry)
               /\ Delimits(new, stream, Len(stream))
<1>. DEFINE e   == [block |-> HeightOf[b], i |-> length]
            new == Append(index, e)
            N   == Len(index)
<1>1. /\ N \in Nat
      /\ \A m \in 1..N : index[m].block \in Nat /\ index[m].i \in Nat
      /\ HeightOf[b] \in Nat
  BY EntryTypes, ChainAssumption DEF Heights
<1>2. e \in IndexEntry /\ e.block = HeightOf[b] /\ e.i = length
  BY ChainAssumption DEF IndexEntry
<1>3. /\ new \in Seq(IndexEntry) /\ Len(new) = N + 1 /\ new[N + 1] = e
      /\ \A k \in 1..N : new[k] = index[k]
  BY <1>2, AppendProperties
<1>. HIDE DEF e, new
<1>4. \A k \in 1..N : EndOf(new, k, Len(stream)) = EndOf(index, k, length)
  BY <1>1, <1>2, <1>3, SMTT(30) DEF EndOf
<1>5. EndOf(new, N + 1, Len(stream)) = Len(stream)
  BY <1>1, <1>3 DEF EndOf
<1>6. ASSUME NEW k \in 1..N PROVE index[k].i < length
  <2>1. /\ EndOf(index, k, length) <= length
        /\ index[k].i < EndOf(index, k, length)
    BY DEF Delimits, WholeBlock
  <2>2. EndOf(index, k, length) \in Nat
    BY <1>1 DEF EndOf
  <2>. QED  BY <1>1, <2>1, <2>2
<1>7. AscendingHeights(new) /\ AscendingOffsets(new)
  <2>1. \A k, m \in 1..N :
          k < m => index[k].block < index[m].block /\ index[k].i < index[m].i
    BY DEF Delimits, AscendingHeights, AscendingOffsets
  <2>2. ASSUME NEW k \in 1..Len(new), NEW m \in 1..Len(new), k < m
        PROVE  new[k].block < new[m].block /\ new[k].i < new[m].i
    <3>1. k \in 1..N /\ new[k] = index[k]
      BY <1>1, <1>3, <2>2
    <3>2. CASE m \in 1..N
      BY <3>1, <3>2, <1>3, <2>1, <2>2
    <3>3. CASE m = N + 1
      <4>1. index[k].block < HeightOf[b] /\ index[k].i < length
        BY <3>1, <1>6
      <4>. QED  BY <4>1, <3>1, <3>3, <1>2, <1>3
    <3>. QED  BY <3>2, <3>3, <1>1, <1>3
  <2>. QED  BY <2>2 DEF AscendingHeights, AscendingOffsets
<1>8. new[1].i = 0
  <2>1. CASE N = 0
    <3>1. length = 0
      BY <2>1 DEF Delimits
    <3>. QED  BY <3>1, <2>1, <1>2, <1>3
  <2>2. CASE N > 0
    BY <2>2, <1>1, <1>3, SMTT(30) DEF Delimits
  <2>. QED  BY <2>1, <2>2, <1>1
<1>9. ASSUME NEW k \in 1..N
      PROVE  /\ EndOf(new, k, Len(stream)) <= Len(stream)
             /\ WholeBlock(stream, new[k].i, EndOf(new, k, Len(stream)), new[k].block)
  <2>1. /\ EndOf(index, k, length) <= length
        /\ WholeBlock(stream, index[k].i, EndOf(index, k, length), index[k].block)
    BY DEF Delimits
  <2>2. EndOf(index, k, length) \in Nat
    BY <1>1 DEF EndOf
  <2>3. EndOf(new, k, Len(stream)) <= Len(stream)
    BY <1>4, <2>1, <2>2
  <2>. QED  BY <1>3, <1>4, <2>1, <2>3
<1>10. WholeBlock(stream, length, length + n + 1, HeightOf[b])
  <2>1. stream[length + n + 1] = <<b, 0>>
    <3>1. n + 1 \in 1..(n + 1) /\ ~(n + 1 <= n) /\ length + (n + 1) = length + n + 1
      OBVIOUS
    <3>2. stream[length + (n + 1)] = <<b, IF n + 1 <= n THEN n + 1 ELSE 0>>
      BY <3>1, Zenon
    <3>. QED  BY <3>1, <3>2, Zenon
  <2>2. ASSUME NEW p \in (length + 1)..(length + n + 1)
        PROVE  stream[p] = <<b, IF p < length + n + 1 THEN p - length ELSE 0>>
    <3>1. /\ p - length \in 1..(n + 1) /\ length + (p - length) = p
          /\ p - length <= n <=> p < length + n + 1
      OBVIOUS
    <3>. QED  BY <3>1
  <2>3. length < length + n + 1
    OBVIOUS
  <2>. QED  BY <2>1, <2>2, <2>3 DEF WholeBlock
<1>11. \A k \in 1..Len(new) :
         /\ EndOf(new, k, Len(stream)) <= Len(stream)
         /\ WholeBlock(stream, new[k].i, EndOf(new, k, Len(stream)), new[k].block)
  <2>1. /\ EndOf(new, N + 1, Len(stream)) <= Len(stream)
        /\ WholeBlock(stream, new[N + 1].i, EndOf(new, N + 1, Len(stream)),
                      new[N + 1].block)
    BY <1>1, <1>2, <1>3, <1>5, <1>10
  <2>2. \A k \in 1..Len(new) : k \in 1..N \/ k = N + 1
    BY <1>1, <1>3
  <2>. QED  BY <1>9, <2>1, <2>2
<1>12. Len(new) # 0
  BY <1>1, <1>3
<1>13. Delimits(new, stream, Len(stream))
  BY <1>7, <1>8, <1>11, <1>12 DEF Delimits
<1>. QED  BY <1>3, <1>13 DEF new, e

LEMMA DelimitsCut ==
    ASSUME NEW index \in Seq(IndexEntry), NEW stream \in Seq(Packet), NEW h \in Nat,
           Delimits(index, stream, Len(stream)),
           OffsetForHeight(index, h) # NoOffset
    PROVE  LET off == OffsetForHeight(index, h)
               new == RemoveFrom(index, h)
           IN  /\ off \in 0..Len(stream)
               /\ new \in Seq(IndexEntry)
               /\ \A k \in 1..Len(new) : new[k].block < h
               /\ Delimits(new, SubSeq(stream, 1, off), off)
<1>. DEFINE off == OffsetForHeight(index, h)
            new == RemoveFrom(index, h)
            cut == SubSeq(stream, 1, off)
            q   == PartitionPoint(index, h)
            N   == Len(index)
<1>1. /\ N \in Nat /\ Len(stream) \in Nat
      /\ \A m \in 1..N : index[m].block \in Nat /\ index[m].i \in Nat
  BY EntryTypes, LenProperties
<1>2. /\ AscendingHeights(index) /\ AscendingOffsets(index)
      /\ Len(index) # 0 => index[1].i = 0
      /\ \A k \in 1..N :
           /\ EndOf(index, k, Len(stream)) <= Len(stream)
           /\ WholeBlock(stream, index[k].i, EndOf(index, k, Len(stream)),
                         index[k].block)
  BY DEF Delimits
<1>3. q \in 1..N /\ \A m \in 1..N : m < q => index[m].block < h
  <2>1. q \in 1..(N + 1) /\ \A m \in 1..N : m < q => index[m].block < h
    BY <1>2, PartitionPointSplits
  <2>2. q <= N
    BY DEF OffsetForHeight
  <2>. QED  BY <1>1, <2>1, <2>2
<1>4. off = index[q].i
  BY <1>3 DEF OffsetForHeight
<1>5. off \in 0..Len(stream)
  <2>1. /\ EndOf(index, q, Len(stream)) <= Len(stream)
        /\ index[q].i < EndOf(index, q, Len(stream))
        /\ EndOf(index, q, Len(stream)) \in Nat
    BY <1>1, <1>2, <1>3 DEF WholeBlock, EndOf
  <2>. QED  BY <1>1, <1>3, <1>4, <2>1
<1>6. /\ new \in Seq(IndexEntry) /\ Len(new) = q - 1
      /\ \A k \in 1..(q - 1) : new[k] = index[k]
  <2>1. q - 1 \in 0..N
    BY <1>1, <1>3
  <2>2. \A e \in 1..(q - 1) : e \in 1..N
    BY <1>1, <1>3
  <2>. QED  BY <1>1, <2>1, <2>2, SubSeqProperties DEF RemoveFrom
<1>7. /\ cut \in Seq(Packet) /\ Len(cut) = off
      /\ \A p \in 1..off : cut[p] = stream[p]
  BY <1>1, <1>5, SubSeqProperties
<1>. HIDE DEF off, new, cut, q
<1>8. ASSUME NEW k \in 1..(q - 1)
      PROVE  /\ EndOf(new, k, off) = EndOf(index, k, Len(stream))
             /\ EndOf(new, k, off) <= off
  <2>1. k \in 1..N /\ k + 1 \in 1..N /\ k + 1 <= q /\ k < N
    BY <1>1, <1>3
  <2>2. EndOf(index, k, Len(stream)) = index[k + 1].i
    BY <2>1 DEF EndOf
  <2>3. EndOf(new, k, off) = index[k + 1].i
    <3>1. CASE k < q - 1
      BY <3>1, <1>3, <1>6, <2>1 DEF EndOf
    <3>2. CASE k = q - 1
      BY <3>2, <1>3, <1>4, <1>6 DEF EndOf
    <3>. QED  BY <3>1, <3>2, <1>3
  <2>4. index[k + 1].i <= off
    <3>1. k + 1 = q \/ k + 1 < q
      BY <2>1, <1>3
    <3>. QED  BY <3>1, <2>1, <1>1, <1>2, <1>3, <1>4 DEF AscendingHeights, AscendingOffsets
  <2>. QED  BY <2>2, <2>3, <2>4
<1>9. IF Len(new) = 0 THEN off = 0 ELSE new[1].i = 0
  <2>1. index[1].i = 0
    BY <1>1, <1>2, <1>3
  <2>. QED  BY <1>3, <1>4, <1>6, <2>1
<1>10. AscendingHeights(new) /\ AscendingOffsets(new)
  <2>1. \A k \in 1..Len(new) : k \in 1..N /\ new[k] = index[k]
    BY <1>1, <1>3, <1>6
  <2>. QED  BY <1>2, <2>1 DEF AscendingHeights, AscendingOffsets
<1>11. ASSUME NEW k \in 1..Len(new)
       PROVE  /\ EndOf(new, k, off) <= off
              /\ WholeBlock(cut, new[k].i, EndOf(new, k, off), new[k].block)
  <2>1. k \in 1..(q - 1) /\ k \in 1..N
    BY <1>1, <1>3, <1>6
  <2>. DEFINE first == index[k].i
              last  == EndOf(index, k, Len(stream))
  <2>2. new[k].i = first /\ EndOf(new, k, off) = last /\ last <= off
    BY <1>6, <1>8, <2>1
  <2>3. WholeBlock(stream, first, last, index[k].block)
    BY <1>2, <2>1
  <2>4. first \in Nat /\ last \in Nat
    BY <1>1, <2>1 DEF EndOf
  <2>. HIDE DEF first, last
  <2>5. WholeBlock(cut, first, last, index[k].block)
    <3>1. \A p \in (first + 1)..last : cut[p] = stream[p]
      BY <1>5, <1>7, <2>2, <2>4
    <3>2. last \in (first + 1)..last
      BY <2>3, <2>4 DEF WholeBlock
    <3>. QED  BY <3>1, <3>2, <2>3 DEF WholeBlock
  <2>. QED  BY <1>6, <2>1, <2>2, <2>5
<1>12. Delimits(new, cut, off)
  BY <1>9, <1>10, <1>11 DEF Delimits
<1>13. \A k \in 1..Len(new) : new[k].block < h
  BY <1>1, <1>3, <1>6
<1>. QED  BY <1>5, <1>6, <1>12, <1>13 DEF off, new, cut
=============================================================================
