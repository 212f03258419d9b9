--------------------------- MODULE RestartProofs ---------------------------
(***************************************************************************)
(* Proofs about stopping and starting, in front of those about the live    *)
(* indexer, whatever the blocks and the number of stops, with a disk that  *)
(* does what it is told: first for stops between passes, whatever chains   *)
(* the node follows and whichever RPCs fail; then for stops anywhere, a    *)
(* write included, on a chain that grows and with a node that answers.     *)
(***************************************************************************)
EXTENDS Restart, IndexerLogProofs

----------------------------------------------------------------------------
(* What append_blocks writes for a batch, and the index entries for it.    *)

\* f holds a block of e's height at e's offset, all of it.
Whole(f, e) == \E b \in Block : HeightOf[b] = e.block /\ PacketsAt(f, e.i, b)

\* after[n] is what file and index are after n blocks of the batch.
Writes(after, idx, f, found) ==
    /\ after[0] = [index |-> idx, file |-> f]
    /\ \A n \in 1..Len(found) :
         after[n] = [ index |-> AddEntry(after[n - 1].index, HeightOf[found[n]],
                                         Len(after[n - 1].file)),
                      file  |-> after[n - 1].file
                                  \o Encode(found[n], ShieldTxs[found[n]]) ]

LEMMA BatchUnfolds ==
    ASSUME NEW idx, NEW f, NEW found \in Seq(Block)
    PROVE  \E after : /\ Batch(idx, f, found) = after[Len(found)]
                     /\ Writes(after, idx, f, found)
<1>. DEFINE Then(after, n) ==
              IF n = 0 THEN [index |-> idx, file |-> f]
              ELSE [ index |-> AddEntry(after[n - 1].index, HeightOf[found[n]],
                                        Len(after[n - 1].file)),
                     file  |-> after[n - 1].file
                                 \o Encode(found[n], ShieldTxs[found[n]]) ]
            Is(after, m) == after = [n \in 0..m |-> Then(after, n)]
            Wrong == {m \in Nat : ~\E after : Is(after, m)}
<1>1. Wrong = {}
  <2>. SUFFICES ASSUME Wrong # {} PROVE FALSE
    OBVIOUS
  <2>1. PICK k \in Wrong : \A n \in Wrong : k <= n
    <3>1. Wrong \in SUBSET Nat
      OBVIOUS
    <3>. HIDE DEF Wrong
    <3>. QED  BY <3>1, LeastElement
  <2>2. CASE k = 0
    <3>. DEFINE g == [n \in 0..0 |-> [index |-> idx, file |-> f]]
    <3>1. Is(g, 0)
      OBVIOUS
    <3>. QED  BY <2>2, <3>1
  <2>3. CASE k # 0
    <3>1. k \in Nat /\ k - 1 \in Nat /\ k - 1 \notin Wrong
      <4>1. k \in Nat /\ k - 1 \in Nat /\ ~(k <= k - 1)
        BY <2>3
      <4>. QED  BY <2>1, <4>1
    <3>2. PICK g : Is(g, k - 1)
      BY <3>1
    <3>. DEFINE h == [n \in 0..k |-> IF n < k THEN g[n] ELSE Then(g, k)]
    <3>3. \A n \in 0..k : h[n] = Then(h, n)
      <4>. SUFFICES ASSUME NEW n \in 0..k PROVE h[n] = Then(h, n)
        OBVIOUS
      <4>1. Then(h, n) = Then(g, n)
        <5>1. n # 0 => n - 1 \in 0..k /\ n - 1 < k
          BY <3>1
        <5>. QED  BY <5>1
      <4>2. h[n] = Then(g, n)
        <5>1. CASE n < k
          <6>1. n \in 0..(k - 1)
            BY <3>1, <5>1
          <6>2. h[n] = g[n]
            BY <5>1
          <6>. HIDE DEF Then, h
          <6>. QED  BY <3>2, <6>1, <6>2
        <5>2. CASE n = k
          <6>1. h[n] = Then(g, k)
            <7>. HIDE DEF Then
            <7>. QED  BY <5>2
          <6>. HIDE DEF Then, h
          <6>. QED  BY <5>2, <6>1
        <5>3. n < k \/ n = k
          OBVIOUS
        <5>. HIDE DEF Then, h
        <5>. QED  BY <5>1, <5>2, <5>3
      <4>. QED  BY <4>1, <4>2
    <3>4. Is(h, k)
      <4>1. h = [n \in 0..k |-> h[n]]
        OBVIOUS
      <4>. HIDE DEF h, Then
      <4>. QED  BY <3>3, <4>1
    <3>. QED  BY <3>4
  <2>. QED  BY <2>2, <2>3
<1>2. PICK after : Is(after, Len(found)) /\ Batch(idx, f, found) = after[Len(found)]
  <2>1. \E after : Is(after, Len(found))
    <3>. HIDE DEF Is
    <3>1. \A m \in Nat : \E after : Is(after, m)
      BY <1>1
    <3>. QED  BY <3>1
  <2>2. Batch(idx, f, found) = (CHOOSE after : Is(after, Len(found)))[Len(found)]
    BY DEF Batch
  <2>. HIDE DEF Is
  <2>. QED  BY <2>1, <2>2
<1>3. \A n \in 0..Len(found) : after[n] = Then(after, n)
  <2>. HIDE DEF Then
  <2>. QED  BY <1>2
<1>4. Len(found) \in Nat
  OBVIOUS
<1>5. after[0] = [index |-> idx, file |-> f]
  <2>1. Then(after, 0) = [index |-> idx, file |-> f]
    OBVIOUS
  <2>. HIDE DEF Then
  <2>. QED  BY <1>3, <1>4, <2>1
<1>6. \A n \in 1..Len(found) : after[n] = Then(after, n) /\ n # 0
  <2>. HIDE DEF Then
  <2>. QED  BY <1>3, <1>4
<1>. QED  BY <1>2, <1>5, <1>6 DEF Writes

\* One block more: the file grows by it, and the index by an entry for it,
\* unless it has one of that height.
AddsOne(idx, f, b, ix, g) ==
    /\ ix \in Seq(IndexEntry) /\ g \in Seq(Bytes)
    /\ Len(f) <= Len(g) /\ \A p \in 1..Len(f) : g[p] = f[p]
    /\ Len(ix) \in {Len(idx), Len(idx) + 1}
    /\ \A k \in 1..Len(idx) : ix[k] = idx[k]
    /\ \A k \in 1..Len(ix) : k > Len(idx) =>
         ix[k].block = HeightOf[b] /\ Whole(g, ix[k])
    /\ HeightOf[b] \in HeightsIn(ix)

LEMMA BatchOne ==
    ASSUME NEW idx \in Seq(IndexEntry), NEW f \in Seq(Bytes), NEW b \in Block
    PROVE  AddsOne(idx, f, b, AddEntry(idx, HeightOf[b], Len(f)),
                   f \o Encode(b, ShieldTxs[b]))
<1>. DEFINE e  == [block |-> HeightOf[b], i |-> Len(f)]
            ix == AddEntry(idx, HeightOf[b], Len(f))
            g  == f \o Encode(b, ShieldTxs[b])
<1>1. /\ g \in Seq(Bytes) /\ Len(f) <= Len(g) /\ \A p \in 1..Len(f) : g[p] = f[p]
      /\ PacketsAt(g, Len(f), b)
  BY EncodedBytes
<1>. HIDE DEF g
<1>2. /\ e \in IndexEntry /\ Len(idx) \in Nat /\ Len(f) \in Nat
      /\ e.block = HeightOf[b] /\ e.i = Len(f)
  BY ChainAssumption DEF IndexEntry, Heights
<1>. HIDE DEF e
<1>3. CASE HeightOf[b] \in HeightsIn(idx)
  <2>1. ix = idx
    BY <1>3 DEF AddEntry
  <2>. HIDE DEF ix
  <2>2. AddsOne(idx, f, b, ix, g)
    BY <1>1, <1>2, <1>3, <2>1 DEF AddsOne
  <2>. QED  BY <2>2 DEF ix, g
<1>4. CASE HeightOf[b] \notin HeightsIn(idx)
  <2>1. ix = Append(idx, e)
    BY <1>4 DEF AddEntry, e
  <2>2. /\ ix \in Seq(IndexEntry) /\ Len(ix) = Len(idx) + 1
        /\ \A k \in 1..Len(idx) : ix[k] = idx[k]
        /\ ix[Len(idx) + 1] = e
    BY <1>2, <2>1
  <2>3. Whole(g, e)
    BY <1>1, <1>2 DEF Whole
  <2>4. \A k \in 1..Len(ix) : k > Len(idx) => k = Len(idx) + 1
    BY <1>2, <2>2
  <2>5. HeightOf[b] \in HeightsIn(ix)
    BY <1>2, <2>2 DEF HeightsIn
  <2>. HIDE DEF ix
  <2>6. AddsOne(idx, f, b, ix, g)
    BY <1>1, <1>2, <2>2, <2>3, <2>4, <2>5 DEF AddsOne
  <2>. QED  BY <2>6 DEF ix, g
<1>. QED  BY <1>3, <1>4

\* Entries stay whole when the file grows.
LEMMA WholeGrows ==
    ASSUME NEW f \in Seq(Bytes), NEW g \in Seq(Bytes), NEW e \in IndexEntry,
           Whole(f, e), Len(f) <= Len(g), \A p \in 1..Len(f) : g[p] = f[p]
    PROVE  Whole(g, e)
<1>1. PICK b \in Block : HeightOf[b] = e.block /\ PacketsAt(f, e.i, b)
  BY DEF Whole
<1>2. e.i \in Nat /\ ShieldTxs[b] \in Nat /\ Len(f) \in Nat /\ Len(g) \in Nat
  BY ChainAssumption DEF IndexEntry
<1>3. e.i + ShieldTxs[b] + 1 <= Len(f)
  BY <1>1 DEF PacketsAt
<1>4. /\ e.i + ShieldTxs[b] + 1 <= Len(g)
      /\ \A p \in 1..(e.i + ShieldTxs[b] + 1) : g[p] = f[p]
  BY <1>2, <1>3
<1>. QED  BY <1>1, <1>2, <1>4, PacketsKept DEF Whole

\* A batch adds to file and index and changes nothing that is there; each
\* entry that it adds is of one of its blocks, whole.
LEMMA BatchAdds ==
    ASSUME NEW idx \in Seq(IndexEntry), NEW f \in Seq(Bytes), NEW found \in Seq(Block)
    PROVE  LET r == Batch(idx, f, found)
           IN  /\ r.index \in Seq(IndexEntry) /\ r.file \in Seq(Bytes)
               /\ Len(f) <= Len(r.file) /\ \A p \in 1..Len(f) : r.file[p] = f[p]
               /\ Len(idx) <= Len(r.index)
               /\ \A k \in 1..Len(idx) : r.index[k] = idx[k]
               /\ \A k \in 1..Len(r.index) : k > Len(idx) =>
                    /\ Whole(r.file, r.index[k])
                    /\ \E j \in 1..Len(found) : r.index[k].block = HeightOf[found[j]]
               /\ \A j \in 1..Len(found) : HeightOf[found[j]] \in HeightsIn(r.index)
<1>1. PICK after :
        Batch(idx, f, found) = after[Len(found)] /\ Writes(after, idx, f, found)
  BY BatchUnfolds
<1>. DEFINE I(n) == after[n].index
            F(n) == after[n].file
            Good(n) ==
              /\ I(n) \in Seq(IndexEntry) /\ F(n) \in Seq(Bytes)
              /\ Len(f) <= Len(F(n)) /\ \A p \in 1..Len(f) : F(n)[p] = f[p]
              /\ Len(idx) <= Len(I(n))
              /\ \A k \in 1..Len(idx) : I(n)[k] = idx[k]
              /\ \A k \in 1..Len(I(n)) : k > Len(idx) =>
                   /\ Whole(F(n), I(n)[k])
                   /\ \E j \in 1..n : I(n)[k].block = HeightOf[found[j]]
              /\ \A j \in 1..n : HeightOf[found[j]] \in HeightsIn(I(n))
            Wrong == {n \in 0..Len(found) : ~Good(n)}
<1>2. Len(found) \in Nat /\ Len(idx) \in Nat /\ Len(f) \in Nat
  OBVIOUS
<1>3. Good(0)
  <2>1. I(0) = idx /\ F(0) = f
    BY <1>1 DEF Writes
  <2>. QED  BY <1>2, <2>1
<1>4. ASSUME NEW n \in 1..Len(found), Good(n - 1) PROVE Good(n)
  <2>. DEFINE b == found[n]
              ix == I(n - 1)
              g  == F(n - 1)
              jx == I(n)
              h  == F(n)
  <2>1. /\ b \in Block /\ n - 1 \in Nat /\ n \in Nat
        /\ jx = AddEntry(ix, HeightOf[b], Len(g))
        /\ h = g \o Encode(b, ShieldTxs[b])
    <3>1. /\ b \in Block /\ n - 1 \in Nat /\ n \in Nat
      BY <1>2
    <3>2. after[n] = [ index |-> AddEntry(ix, HeightOf[b], Len(g)),
                       file  |-> g \o Encode(b, ShieldTxs[b]) ]
      BY <1>1 DEF Writes
    <3>. HIDE DEF b, ix, g
    <3>. QED  BY <3>1, <3>2
  <2>2. /\ ix \in Seq(IndexEntry) /\ g \in Seq(Bytes)
        /\ Len(f) <= Len(g) /\ \A p \in 1..Len(f) : g[p] = f[p]
        /\ Len(idx) <= Len(ix)
        /\ \A k \in 1..Len(idx) : ix[k] = idx[k]
        /\ \A k \in 1..Len(ix) : k > Len(idx) =>
             /\ Whole(g, ix[k])
             /\ \E j \in 1..(n - 1) : ix[k].block = HeightOf[found[j]]
        /\ \A j \in 1..(n - 1) : HeightOf[found[j]] \in HeightsIn(ix)
    BY <1>4
  <2>. HIDE DEF b, ix, g, jx, h
  <2>3. /\ jx \in Seq(IndexEntry) /\ h \in Seq(Bytes)
        /\ Len(g) <= Len(h) /\ \A p \in 1..Len(g) : h[p] = g[p]
        /\ Len(jx) \in {Len(ix), Len(ix) + 1}
        /\ \A k \in 1..Len(ix) : jx[k] = ix[k]
        /\ \A k \in 1..Len(jx) : k > Len(ix) =>
             jx[k].block = HeightOf[b] /\ Whole(h, jx[k])
        /\ HeightOf[b] \in HeightsIn(jx)
    <3>1. AddsOne(ix, g, b, jx, h)
      BY <2>1, <2>2, BatchOne
    <3>. QED  BY <3>1 DEF AddsOne
  <2>4. /\ Len(ix) \in Nat /\ Len(g) \in Nat /\ Len(jx) \in Nat /\ Len(h) \in Nat
        /\ Len(ix) <= Len(jx)
    BY <2>2, <2>3
  <2>5. /\ Len(f) <= Len(h) /\ \A p \in 1..Len(f) : h[p] = f[p]
        /\ Len(idx) <= Len(jx) /\ \A k \in 1..Len(idx) : jx[k] = idx[k]
    BY <1>2, <2>2, <2>3, <2>4
  <2>6. ASSUME NEW k \in 1..Len(jx), k > Len(idx)
        PROVE  /\ Whole(h, jx[k])
               /\ \E j \in 1..n : jx[k].block = HeightOf[found[j]]
    <3>1. CASE k > Len(ix)
      <4>1. n \in 1..n
        BY <2>1
      <4>. QED  BY <2>3, <3>1, <4>1 DEF b
    <3>2. CASE k <= Len(ix)
      <4>1. k \in 1..Len(ix) /\ jx[k] = ix[k] /\ ix[k] \in IndexEntry
        BY <2>2, <2>3, <2>4, <3>2
      <4>2. /\ Whole(g, ix[k])
            /\ \E j \in 1..(n - 1) : ix[k].block = HeightOf[found[j]]
        BY <2>2, <2>6, <4>1
      <4>3. Whole(h, ix[k])
        BY <2>2, <2>3, <4>1, <4>2, WholeGrows
      <4>. QED  BY <2>1, <4>1, <4>2, <4>3
    <3>. QED  BY <2>4, <3>1, <3>2, <1>2
  <2>7. ASSUME NEW j \in 1..n PROVE HeightOf[found[j]] \in HeightsIn(jx)
    <3>1. CASE j = n
      BY <2>3, <3>1 DEF b
    <3>2. CASE j # n
      <4>1. j \in 1..(n - 1)
        BY <2>1, <3>2
      <4>2. PICK k \in 1..Len(ix) : ix[k].block = HeightOf[found[j]]
        BY <2>2, <4>1 DEF HeightsIn
      <4>3. k \in 1..Len(jx) /\ jx[k].block = HeightOf[found[j]]
        BY <2>3, <2>4, <4>2
      <4>. QED  BY <4>3 DEF HeightsIn
    <3>. QED  BY <3>1, <3>2
  <2>. QED  BY <2>3, <2>5, <2>6, <2>7 DEF jx, h
<1>. HIDE DEF Good
<1>5. Wrong = {}
  <2>. SUFFICES ASSUME Wrong # {} PROVE FALSE
    OBVIOUS
  <2>1. PICK k \in Wrong : \A n \in Wrong : k <= n
    <3>1. Wrong \in SUBSET Nat
      OBVIOUS
    <3>. HIDE DEF Wrong
    <3>. QED  BY <3>1, LeastElement
  <2>2. k # 0 /\ k \in 0..Len(found)
    BY <1>3, <2>1
  <2>3. k \in 1..Len(found) /\ k - 1 \in 0..Len(found) /\ ~(k <= k - 1)
    BY <1>2, <2>2
  <2>4. Good(k - 1)
    BY <2>1, <2>3
  <2>. QED  BY <1>4, <2>1, <2>3, <2>4
<1>6. Good(Len(found))
  BY <1>2, <1>5
<1>. QED  BY <1>1, <1>6 DEF Good

\* A batch of blocks in ascending order, all above the blocks that are indexed,
\* leaves a stream that the index cuts into blocks.
LEMMA BatchDelimits ==
    ASSUME NEW idx \in Seq(IndexEntry), NEW f \in Seq(Packet), NEW found \in Seq(Block),
           Delimits(idx, f, Len(f)),
           \A k \in 1..Len(idx), j \in 1..Len(found) :
             idx[k].block < HeightOf[found[j]],
           \A i, j \in 1..Len(found) :
             i < j => HeightOf[found[i]] < HeightOf[found[j]]
    PROVE  LET r == Batch(idx, f, found)
           IN  r.file \in Seq(Packet) /\ Delimits(r.index, r.file, Len(r.file))
<1>1. PICK after :
        Batch(idx, f, found) = after[Len(found)] /\ Writes(after, idx, f, found)
  BY BatchUnfolds
<1>. DEFINE I(n) == after[n].index
            F(n) == after[n].file
            Good(n) ==
              /\ I(n) \in Seq(IndexEntry) /\ F(n) \in Seq(Packet)
              /\ Delimits(I(n), F(n), Len(F(n)))
              /\ \A k \in 1..Len(I(n)), j \in (n + 1)..Len(found) :
                   I(n)[k].block < HeightOf[found[j]]
            Wrong == {n \in 0..Len(found) : ~Good(n)}
<1>2. Len(found) \in Nat
  OBVIOUS
<1>3. Good(0)
  <2>1. I(0) = idx /\ F(0) = f
    BY <1>1 DEF Writes
  <2>. QED  BY <1>2, <2>1
<1>4. ASSUME NEW n \in 1..Len(found), Good(n - 1) PROVE Good(n)
  <2>. DEFINE b  == found[n]
              ix == I(n - 1)
              g  == F(n - 1)
              jx == I(n)
              h  == F(n)
              e  == [block |-> HeightOf[b], i |-> Len(g)]
  <2>1. /\ b \in Block /\ n - 1 \in Nat /\ n \in Nat
        /\ jx = AddEntry(ix, HeightOf[b], Len(g))
        /\ h = g \o Encode(b, ShieldTxs[b])
    <3>1. /\ b \in Block /\ n - 1 \in Nat /\ n \in Nat
      BY <1>2
    <3>2. after[n] = [ index |-> AddEntry(ix, HeightOf[b], Len(g)),
                       file  |-> g \o Encode(b, ShieldTxs[b]) ]
      BY <1>1 DEF Writes
    <3>. HIDE DEF b, ix, g
    <3>. QED  BY <3>1, <3>2
  <2>2. /\ ix \in Seq(IndexEntry) /\ g \in Seq(Packet) /\ Delimits(ix, g, Len(g))
        /\ \A k \in 1..Len(ix), j \in n..Len(found) : ix[k].block < HeightOf[found[j]]
    <3>1. (n - 1) + 1 = n
      OBVIOUS
    <3>. QED  BY <1>4, <3>1
  <2>3. ShieldTxs[b] \in Nat /\ HeightOf[b] \in Heights
    BY <2>1, ChainAssumption
  <2>4. \A k \in 1..Len(ix) : ix[k].block < HeightOf[b]
    <3>1. n \in n..Len(found)
      BY <1>2
    <3>. QED  BY <2>2, <3>1
  <2>. HIDE DEF b, ix, g, jx, h, e
  <2>5. Len(g) \in Nat /\ Len(ix) \in Nat /\ \A k \in 1..Len(ix) : ix[k].block \in Nat
    BY <2>2, EntryTypes
  <2>6. /\ h \in Seq(Packet) /\ EndsWith(h, Len(g), b, ShieldTxs[b])
        /\ \A p \in 1..Len(g) : h[p] = g[p]
    BY <2>1, <2>2, <2>3, EncodedAtEnd
  <2>7. Delimits(ix, h, Len(g))
    BY <2>2, <2>5, <2>6, DelimitsPrefix
  <2>8. jx = Append(ix, e)
    <3>1. \A k \in 1..Len(ix) : ix[k].block # HeightOf[b]
      BY <2>3, <2>4, <2>5 DEF Heights
    <3>2. HeightOf[b] \notin HeightsIn(ix)
      BY <3>1 DEF HeightsIn
    <3>. QED  BY <2>1, <3>2 DEF AddEntry, e
  <2>9. jx \in Seq(IndexEntry) /\ Delimits(jx, h, Len(h))
    <3>1. /\ Len(h) = Len(g) + ShieldTxs[b] + 1
          /\ \A j \in 1..(ShieldTxs[b] + 1) :
               h[Len(g) + j] = <<b, IF j <= ShieldTxs[b] THEN j ELSE 0>>
      BY <2>6 DEF EndsWith
    <3>2. LET new == Append(ix, [block |-> HeightOf[b], i |-> Len(g)])
          IN  new \in Seq(IndexEntry) /\ Delimits(new, h, Len(h))
      BY <2>1, <2>2, <2>3, <2>4, <2>5, <2>6, <2>7, <3>1, DelimitsAppend
    <3>. QED  BY <2>8, <3>2 DEF e
  <2>10. ASSUME NEW k \in 1..Len(jx), NEW j \in (n + 1)..Len(found)
         PROVE  jx[k].block < HeightOf[found[j]]
    <3>1. /\ j \in n..Len(found) /\ n \in 1..Len(found) /\ j \in 1..Len(found) /\ n < j
      BY <1>2, <2>1
    <3>2. HeightOf[b] < HeightOf[found[j]]
      BY <3>1 DEF b
    <3>3. e \in IndexEntry /\ e.block = HeightOf[b]
      BY <2>3, <2>5 DEF e, IndexEntry
    <3>4. CASE k <= Len(ix)
      <4>1. jx[k] = ix[k] /\ k \in 1..Len(ix)
        BY <2>2, <2>5, <2>8, <3>3, <3>4
      <4>. QED  BY <2>2, <3>1, <4>1
    <3>5. CASE ~(k <= Len(ix))
      <4>1. jx[k] = e
        BY <2>2, <2>5, <2>8, <3>3, <3>5
      <4>. QED  BY <3>2, <3>3, <4>1
    <3>. QED  BY <3>4, <3>5
  <2>. QED  BY <2>6, <2>9, <2>10 DEF jx, h
<1>. HIDE DEF Good
<1>5. Wrong = {}
  <2>. SUFFICES ASSUME Wrong # {} PROVE FALSE
    OBVIOUS
  <2>1. PICK k \in Wrong : \A n \in Wrong : k <= n
    <3>1. Wrong \in SUBSET Nat
      OBVIOUS
    <3>. HIDE DEF Wrong
    <3>. QED  BY <3>1, LeastElement
  <2>2. k # 0 /\ k \in 0..Len(found)
    BY <1>3, <2>1
  <2>3. k \in 1..Len(found) /\ k - 1 \in 0..Len(found) /\ ~(k <= k - 1)
    BY <1>2, <2>2
  <2>4. Good(k - 1)
    BY <2>1, <2>3
  <2>. QED  BY <1>4, <2>1, <2>3, <2>4
<1>6. Good(Len(found))
  BY <1>2, <1>5
<1>. QED  BY <1>1, <1>6 DEF Good

----------------------------------------------------------------------------
(* What is on disk.                                                        *)

\* What an entry points at ends where the index says that its block does.
LEMMA WholeEnds ==
    ASSUME NEW idx \in Seq(IndexEntry), NEW s \in Seq(Packet), Delimits(idx, s, Len(s)),
           NEW k \in 1..Len(idx), NEW b \in Block, PacketsAt(s, idx[k].i, b)
    PROVE  idx[k].i + ShieldTxs[b] + 1 <= EndOf(idx, k, Len(s))
<1>. DEFINE first == idx[k].i
            last  == EndOf(idx, k, Len(s))
            n     == ShieldTxs[b]
<1>1. first \in Nat /\ n \in Nat /\ Len(s) \in Nat /\ last \in Nat /\ Len(idx) \in Nat
  <2>1. k < Len(idx) => k + 1 \in 1..Len(idx)
    OBVIOUS
  <2>. QED  BY <2>1, EntryTypes, ChainAssumption DEF EndOf
<1>2. WholeBlock(s, first, last, idx[k].block) /\ last <= Len(s)
  BY DEF Delimits
<1>3. /\ first + n + 1 <= Len(s)
      /\ \A j \in 1..(n + 1) : s[first + j] = <<b, IF j <= n THEN j ELSE 0>>
  BY DEF PacketsAt
<1>. HIDE DEF first, last, n
<1>4. first < last /\ \A p \in (first + 1)..last :
        s[p] = <<s[last][1], IF p < last THEN p - first ELSE 0>>
  BY <1>2 DEF WholeBlock
<1>5. CASE last <= first + n
  <2>1. /\ last \in (first + 1)..last /\ ~(last < last)
        /\ last - first \in 1..(n + 1) /\ last - first <= n
        /\ first + (last - first) = last /\ last - first # 0
    BY <1>1, <1>4, <1>5
  <2>2. s[last] = <<s[last][1], 0>>
    BY <1>4, <2>1
  <2>3. s[last] = <<b, last - first>>
    BY <1>3, <2>1
  <2>. QED  BY <2>1, <2>2, <2>3
<1>6. CASE ~(last <= first + n)
  BY <1>1, <1>6 DEF first, last, n
<1>. QED  BY <1>5, <1>6

\* A cut at an indexed offset leaves the blocks below it whole.
LEMMA WholeCut ==
    ASSUME NEW idx \in Seq(IndexEntry), NEW s \in Seq(Packet), Delimits(idx, s, Len(s)),
           \A k \in 1..Len(idx) : Whole(s, idx[k]),
           NEW h \in Nat, OffsetForHeight(idx, h) # NoOffset
    PROVE  \A k \in 1..Len(RemoveFrom(idx, h)) :
             Whole(SubSeq(s, 1, OffsetForHeight(idx, h)), RemoveFrom(idx, h)[k])
<1>. DEFINE off == OffsetForHeight(idx, h)
            rm  == RemoveFrom(idx, h)
            cut == SubSeq(s, 1, off)
<1>1. AscendingHeights(idx) /\ AscendingOffsets(idx)
  BY DEF Delimits
<1>2. /\ Len(rm) \in 0..Len(idx) /\ Len(rm) < Len(idx)
      /\ \A k \in 1..Len(rm) : rm[k] = idx[k]
      /\ off = idx[Len(rm) + 1].i
  BY <1>1, HeightsRemoved
<1>3. off \in 0..Len(s)
  BY DelimitsCut
<1>. SUFFICES ASSUME NEW k \in 1..Len(rm) PROVE Whole(cut, rm[k])
  OBVIOUS
<1>. HIDE DEF off, rm
<1>4. /\ k \in 1..Len(idx) /\ k + 1 \in 1..Len(idx) /\ k < Len(idx)
      /\ Len(rm) + 1 \in 1..Len(idx) /\ Len(idx) \in Nat
  BY <1>2
<1>5. PICK b \in Block : HeightOf[b] = idx[k].block /\ PacketsAt(s, idx[k].i, b)
  BY <1>4 DEF Whole
<1>6. /\ idx[k].i \in Nat /\ idx[k + 1].i \in Nat /\ off \in Nat
      /\ ShieldTxs[b] \in Nat /\ Len(s) \in Nat
  BY <1>3, <1>4, EntryTypes, ChainAssumption
<1>7. idx[k + 1].i <= off
  <2>1. k + 1 = Len(rm) + 1 \/ k + 1 < Len(rm) + 1
    BY <1>2
  <2>. QED  BY <1>1, <1>2, <1>4, <1>6, <2>1 DEF AscendingOffsets
<1>8. idx[k].i + ShieldTxs[b] + 1 <= off
  <2>1. idx[k].i + ShieldTxs[b] + 1 <= idx[k + 1].i
    BY <1>4, <1>5, WholeEnds DEF EndOf
  <2>. QED  BY <1>6, <1>7, <2>1, SMTT(30)
<1>9. /\ s \in Seq(Bytes) /\ cut \in Seq(Bytes) /\ Len(cut) = off
      /\ \A p \in 1..off : cut[p] = s[p]
  <2>1. s \in Seq(Bytes)
    BY DEF Packet, Bytes
  <2>. QED  BY <1>3, <2>1
<1>. HIDE DEF cut
<1>10. \A p \in 1..(idx[k].i + ShieldTxs[b] + 1) : cut[p] = s[p]
  BY <1>6, <1>8, <1>9, SMTT(30)
<1>11. PacketsAt(cut, idx[k].i, b)
  BY <1>5, <1>6, <1>8, <1>9, <1>10, PacketsKept
<1>. QED  BY <1>2, <1>5, <1>11 DEF Whole

\* Where no block is indexed from h on, there is nothing to remove.
LEMMA NothingToRemove ==
    ASSUME NEW idx \in Seq(IndexEntry), AscendingHeights(idx), NEW h \in Nat,
           OffsetForHeight(idx, h) = NoOffset
    PROVE  RemoveFrom(idx, h) = idx
<1>. DEFINE rm == RemoveFrom(idx, h)
<1>1. /\ Len(rm) \in 0..Len(idx) /\ \A k \in 1..Len(rm) : rm[k] = idx[k]
      /\ \A k \in 1..Len(idx) : k <= Len(rm) <=> idx[k].block < h
  BY HeightsRemoved
<1>2. rm \in Seq(IndexEntry) /\ \A k \in 1..Len(idx) : idx[k].block < h
  BY RemoveFromBelow
<1>. HIDE DEF rm
<1>3. Len(rm) = Len(idx)
  <2>1. CASE Len(idx) = 0
    BY <1>1, <2>1
  <2>2. CASE Len(idx) # 0
    <3>1. Len(idx) \in 1..Len(idx)
      BY <2>2
    <3>. QED  BY <1>1, <1>2, <3>1
  <2>. QED  BY <2>1, <2>2
<1>. QED  BY <1>1, <1>2, <1>3 DEF rm

\* A file that is nothing but blocks ends with a footer: recovery keeps it.
LEMMA RecoveryKeeps ==
    ASSUME NEW idx \in Seq(IndexEntry), NEW s \in Seq(Packet), Delimits(idx, s, Len(s))
    PROVE  RecoverCache(s) = s
<1>1. CASE Len(idx) = 0
  <2>1. Len(s) = 0
    BY <1>1 DEF Delimits
  <2>2. Footers(s) = {}
    BY <2>1 DEF Footers
  <2>. QED  BY <2>2 DEF RecoverCache
<1>2. CASE Len(idx) # 0
  <2>. DEFINE k == Len(idx)
              n == Len(s)
  <2>1. k \in 1..Len(idx) /\ EndOf(idx, k, n) = n /\ n \in Nat /\ idx[k].i \in Nat
    BY <1>2, EntryTypes DEF EndOf
  <2>2. WholeBlock(s, idx[k].i, n, idx[k].block)
    BY <2>1 DEF Delimits
  <2>3. n \in 1..n /\ s[n] = <<s[n][1], 0>>
    <3>1. idx[k].i < n /\ n \in (idx[k].i + 1)..n /\ ~(n < n)
      BY <2>1, <2>2 DEF WholeBlock
    <3>. QED  BY <2>1, <2>2, <3>1 DEF WholeBlock
  <2>4. s[n] \in Packet
    BY <2>3
  <2>5. s[n][1] # NoBlock /\ s[n][2] = 0
    BY <2>3, <2>4, ChainAssumption DEF Packet
  <2>6. n \in Footers(s) /\ \A p \in Footers(s) : p <= n /\ p \in Nat
    BY <2>1, <2>3, <2>5 DEF Footers
  <2>7. LastOf(Footers(s)) = n
    BY <2>1, <2>6 DEF LastOf
  <2>8. SubSeq(s, 1, n) = s
    BY WholeSubSeq
  <2>. QED  BY <2>6, <2>7, <2>8 DEF RecoverCache
<1>. QED  BY <1>1, <1>2

\* A bounded set of numbers has a greatest.
LEMMA GreatestElement ==
    ASSUME NEW S \in SUBSET Nat, S # {}, NEW n \in Nat, \A x \in S : x <= n
    PROVE  LastOf(S) \in S /\ \A y \in S : y <= LastOf(S)
<1>. DEFINE Bound == {m \in Nat : \A x \in S : x <= m}
<1>1. PICK m \in Bound : \A l \in Bound : m <= l
  <2>1. Bound \in SUBSET Nat /\ Bound # {}
    OBVIOUS
  <2>. HIDE DEF Bound
  <2>. QED  BY <2>1, LeastElement
<1>2. m \in S
  <2>1. CASE m = 0
    <3>1. PICK x \in S : TRUE
      OBVIOUS
    <3>. QED  BY <2>1, <3>1
  <2>2. CASE m # 0
    <3>. SUFFICES ASSUME m \notin S PROVE FALSE
      OBVIOUS
    <3>1. m \in Nat /\ m - 1 \in Nat /\ ~(m <= m - 1)
      BY <2>2
    <3>2. \A x \in S : x <= m - 1
      <4>1. \A x \in S : x \in Nat /\ x <= m /\ x # m
        OBVIOUS
      <4>. QED  BY <3>1, <4>1
    <3>. QED  BY <1>1, <3>1, <3>2
  <2>. QED  BY <2>1, <2>2
<1>3. m \in S /\ \A y \in S : y <= m
  BY <1>2
<1>. QED  BY <1>3 DEF LastOf

\* A whole block backs its entry, in the terms of the property.
LEMMA WholeBacks ==
    ASSUME NEW f \in Seq(Bytes), NEW e \in IndexEntry, Whole(f, e)
    PROVE  Backs(f, e)
<1>1. PICK b \in Block : HeightOf[b] = e.block /\ PacketsAt(f, e.i, b)
  BY DEF Whole
<1>. DEFINE i == e.i
            n == ShieldTxs[b]
            s == SubSeq(f, i + 1, i + n + 1)
<1>2. i \in Nat /\ n \in Nat /\ Len(f) \in Nat
  BY ChainAssumption DEF IndexEntry
<1>3. /\ i + n + 1 <= Len(f)
      /\ \A j \in 1..(n + 1) : f[i + j] = <<b, IF j <= n THEN j ELSE 0>>
  BY <1>1 DEF PacketsAt
<1>. HIDE DEF i, n
<1>4. f[i + 1][1] = b /\ b # NoBlock
  <2>1. 1 \in 1..(n + 1)
    BY <1>2
  <2>2. f[i + 1] = <<b, IF 1 <= n THEN 1 ELSE 0>>
    BY <1>3, <2>1
  <2>. QED  BY <2>2, ChainAssumption
<1>5. s = Encode(b, n)
  <2>1. /\ Encode(b, n) \in Seq(Packet) /\ Len(Encode(b, n)) = n + 1
        /\ \A j \in 1..(n + 1) : Encode(b, n)[j] = <<b, IF j <= n THEN j ELSE 0>>
    BY <1>2, EncodeProperties
  <2>2. Encode(b, n) \in Seq(Bytes)
    BY <2>1 DEF Packet, Bytes
  <2>3. /\ s \in Seq(Bytes) /\ Len(s) = n + 1
        /\ \A j \in 1..(n + 1) : s[j] = f[i + j]
    <3>1. i + 1 \in Nat /\ i + n + 1 \in Nat /\ i + 1 <= i + n + 1
      BY <1>2
    <3>2. (i + n + 1) - (i + 1) + 1 = n + 1
      BY <1>2
    <3>3. \A j \in 1..(n + 1) : (i + 1) + j - 1 = i + j
      BY <1>2
    <3>4. s \in Seq(Bytes)
      BY <1>2, <1>3, <3>1
    <3>5. Len(s) = (i + n + 1) - (i + 1) + 1
      BY <1>2, <1>3, <3>1
    <3>6. \A j \in 1..(n + 1) : s[j] = f[(i + 1) + j - 1]
      BY <1>2, <1>3, <3>1, <3>2
    <3>. HIDE DEF s
    <3>. QED  BY <3>2, <3>3, <3>4, <3>5, <3>6
  <2>. HIDE DEF s
  <2>4. \A j \in 1..(n + 1) : s[j] = Encode(b, n)[j]
    BY <1>3, <2>1, <2>3
  <2>. QED  BY <1>2, <2>1, <2>2, <2>3, <2>4
<1>6. i < Len(f)
  BY <1>2, <1>3
<1>. QED  BY <1>1, <1>3, <1>4, <1>5, <1>6 DEF Backs, i, n

----------------------------------------------------------------------------
(* Stops between passes, whatever else happens: the inductive invariant.   *)

BootPC == {"down", "check", "cut", "saveindex", "savecursor", "from", "scan",
           "next", "append", "save", "cursor", "load", "live"}

BootType == boot \in [ pc : BootPC, at : Nat, seen : Block \cup {NoBlock},
                       found : Seq(Block) ]

\* idx names no block above height h.
UpTo(idx, h) == \A k \in 1..Len(idx) : idx[k].block <= h

\* f holds every block that idx names.
AllWhole(f, idx) == \A k \in 1..Len(idx) : Whole(f, idx[k])

\* The blocks found up to height h are in ascending order, above those of idx.
FoundUpTo(idx, found, h) ==
    /\ UpTo(idx, h)
    /\ \A j \in 1..Len(found) : HeightOf[found[j]] <= h
    /\ \A i, j \in 1..Len(found) : i < j => HeightOf[found[i]] < HeightOf[found[j]]
    /\ \A k \in 1..Len(idx), j \in 1..Len(found) : idx[k].block < HeightOf[found[j]]

Resting ==
    /\ indexing = FALSE /\ \A w \in Worker : pass[w].pc = "idle"
    /\ file \in Seq(Packet)

\* What is on disk while the program is down.
DownInv ==
    /\ Delimits(diskIndex, file, Len(file)) /\ AllWhole(file, diskIndex)
    /\ UpTo(diskIndex, diskCursor.height)
    /\ boot.found = <<>>

\* What init_network has in its locals, and what it has left on disk.
StartInv ==
    /\ Delimits(index, file, Len(file)) /\ AllWhole(file, index)
    /\ UpTo(index, chainHeight)
    /\ boot.pc \notin {"saveindex", "save"} => diskIndex = index
    /\ boot.pc \in {"check", "cut", "from"} =>
         lastScanned = diskCursor.height /\ UpTo(index, lastScanned)
    /\ boot.pc \in {"check", "cut", "saveindex", "savecursor", "from"} =>
         boot.found = <<>>
    /\ boot.pc \in {"cut", "saveindex", "savecursor"} => boot.at > 0
    /\ boot.pc \in {"saveindex", "savecursor"} => UpTo(index, boot.at - 1)
    /\ boot.pc = "scan" =>
         /\ boot.seen \in Block /\ HeightOf[boot.seen] = boot.at
         /\ boot.at <= chainHeight /\ FoundUpTo(index, boot.found, boot.at - 1)
    /\ boot.pc = "next" =>
         boot.at < chainHeight /\ FoundUpTo(index, boot.found, boot.at)
    /\ boot.pc = "append" => FoundUpTo(index, boot.found, chainHeight)
    /\ boot.pc = "load" => lastScanned = chainHeight /\ diskCursor.height = chainHeight

\* What the live indexer leaves to the next start, besides what it needs itself.
LiveInv ==
    /\ Inv /\ StoreInv /\ AllWhole(file, index)
    /\ (\A w \in Worker : pass[w].pc # "saveindex") => diskIndex = index
    /\ (\A w \in Worker : pass[w].pc # "advance") => UpTo(index, diskCursor.height)
    /\ \A w \in Worker : pass[w].pc \in Scanning => pass[w].at <= Len(chain)

OrderlyInv ==
    /\ Shape /\ BootType /\ CacheInv /\ NoIds /\ DecodeInv
    /\ chainHeight <= Len(chain)
    /\ UpTo(index, Len(chain)) /\ UpTo(diskIndex, Len(chain))
    /\ boot.pc = "live" => LiveInv
    /\ boot.pc # "live" => Resting
    /\ boot.pc = "down" => DownInv
    /\ boot.pc \notin {"down", "live"} => StartInv

LEMMA EmptyCacheIs ==
    /\ EmptyCache \in CacheType /\ EmptyCache.entries = {}
    /\ \A h \in Heights : EmptyCache.h2h[h] = NoBlock
BY DEF EmptyCache, CacheType

LEMMA OrderlyInit == RestartInit => OrderlyInv
<1>. SUFFICES ASSUME RestartInit PROVE OrderlyInv
  OBVIOUS
<1>1. /\ chain \in Chains /\ indexing = FALSE /\ chainHeight = 0 /\ lastScanned = 0
      /\ lastHash = NoBlock /\ index = <<>> /\ buffer = <<>> /\ file = <<>>
      /\ diskIndex = <<>> /\ cache = EmptyCache /\ inflight = NoRequest
      /\ boot = Down /\ diskCursor.height = 0
      /\ diskCursor \in [height : Nat, hash : Block \cup {NoBlock}]
  BY DEF RestartInit, NoCursor
<1>2. pass \in [Worker -> Pass] /\ \A w \in Worker : pass[w].pc = "idle"
  BY DEF RestartInit, IdlePass, Pass, PC, NoOffset
<1>3. Shape
  <2>1. /\ index \in Seq(IndexEntry) /\ diskIndex \in Seq(IndexEntry)
        /\ buffer \in Seq(Packet) /\ file \in Seq((Block \cup {NoBlock}) \X Nat)
    BY <1>1
  <2>2. indexing \in BOOLEAN /\ chainHeight \in Nat /\ lastScanned \in Nat
    BY <1>1
  <2>. QED  BY <1>1, <1>2, <2>1, <2>2, EmptyCacheIs DEF Shape
<1>4. BootType /\ boot.pc = "down" /\ boot.found = <<>>
  BY <1>1 DEF BootType, BootPC, Down
<1>5. CacheInv
  BY <1>1, EmptyCacheIs DEF CacheInv
<1>6. NoIds /\ DecodeInv
  BY <1>1, <1>2, EmptyCacheIs DEF NoIds, DecodeInv, Decoded
<1>7. chain \in Seq(Block) /\ Len(chain) \in Nat
  BY <1>1, ChainAssumption
<1>8. /\ UpTo(index, Len(chain)) /\ UpTo(diskIndex, Len(chain))
      /\ UpTo(diskIndex, diskCursor.height) /\ AllWhole(file, diskIndex)
  BY <1>1 DEF UpTo, AllWhole
<1>9. Delimits(diskIndex, file, Len(file))
  BY <1>1 DEF Delimits, AscendingHeights, AscendingOffsets
<1>10. Resting
  BY <1>1, <1>2 DEF Resting
<1>. QED
  BY <1>1, <1>3, <1>4, <1>5, <1>6, <1>7, <1>8, <1>9, <1>10 DEF OrderlyInv, DownInv

----------------------------------------------------------------------------
(* The steps of a start.                                                   *)

\* What a step of init_network has to show.
LEMMA StartKept ==
    ASSUME OrderlyInv, boot.pc # "live", boot'.pc \notin {"down", "live"},
           UNCHANGED <<chain, inflight, indexing, pass, buffer>>,
           BootType', StartInv',
           chainHeight' \in Nat, chainHeight' <= Len(chain),
           lastScanned' \in Nat, lastHash' \in Block \cup {NoBlock},
           index' \in Seq(IndexEntry), UpTo(index', Len(chain)),
           diskIndex' \in Seq(IndexEntry), UpTo(diskIndex', Len(chain)),
           file' \in Seq(Packet),
           diskCursor' \in [height : Nat, hash : Block \cup {NoBlock}],
           cache' \in CacheType, CacheInv',
           \A e \in cache'.entries : e \in cache.entries \/ e[2] # 1
    PROVE  OrderlyInv'
<1>1. file' \in Seq(Bytes)
  BY DEF Packet, Bytes
<1>2. Shape'
  BY <1>1 DEF OrderlyInv, Shape, Bytes
<1>3. Resting'
  BY DEF OrderlyInv, Resting
<1>4. NoIds' /\ DecodeInv'
  BY DEF OrderlyInv, NoIds, DecodeInv, Resting, Decoded
<1>. QED  BY <1>2, <1>3, <1>4 DEF OrderlyInv

\* The same for a step that leaves store, cursor and cache alone.
LEMMA StartMoves ==
    ASSUME OrderlyInv, boot.pc \notin {"down", "live"},
           boot'.pc \notin {"down", "live"}, BootType', StartInv',
           UNCHANGED <<node, indexing, chainHeight, cursor, store, cache, pass>>
    PROVE  OrderlyInv'
<1>1. CacheInv'
  BY DEF OrderlyInv, CacheInv
<1>. QED
  BY <1>1, StartKept DEF OrderlyInv, Shape, Resting, node, cursor, store

LEMMA BootToIs ==
    ASSUME BootType, NEW label \in BootPC, BootTo(label)
    PROVE  /\ BootType' /\ boot'.pc = label
           /\ boot'.at = boot.at /\ boot'.seen = boot.seen /\ boot'.found = boot.found
BY DEF BootType, BootTo

LEMMA ConnectOrderly ==
    ASSUME OrderlyInv, Connect PROVE OrderlyInv'
<1>1. /\ boot.pc = "down" /\ BootType /\ DownInv /\ Resting /\ Shape
      /\ UpTo(diskIndex, Len(chain)) /\ CacheInv
  BY DEF OrderlyInv, Connect, Booting
<1>2. /\ BootType' /\ boot'.pc = "check" /\ boot'.found = <<>>
  BY <1>1, BootToIs DEF Connect, BootPC, DownInv
<1>3. chain \in Seq(Block) /\ Len(chain) \in Nat
  BY <1>1, ChainAssumption DEF Shape
<1>4. file' = file
  BY <1>1, RecoveryKeeps DEF Connect, DownInv, Resting, Shape
<1>5. /\ chainHeight' = Len(chain) /\ index' = diskIndex /\ diskIndex' = diskIndex
      /\ lastScanned' = diskCursor.height /\ lastHash' = diskCursor.hash
      /\ UNCHANGED <<diskCursor, chain, inflight, indexing, pass, buffer, cache>>
  BY DEF Connect, node
<1>6. StartInv'
  BY <1>1, <1>2, <1>4, <1>5 DEF StartInv, DownInv
<1>7. CacheInv'
  BY <1>1, <1>5 DEF CacheInv
<1>. QED
  BY <1>1, <1>2, <1>3, <1>4, <1>5, <1>6, <1>7, StartKept DEF Shape, Resting

LEMMA CheckHashOrderly ==
    ASSUME OrderlyInv, CheckHash PROVE OrderlyInv'
<1>1. boot.pc = "check" /\ BootType /\ StartInv /\ Shape
  BY DEF OrderlyInv, CheckHash, Booting
<1>2. UNCHANGED <<node, indexing, chainHeight, cursor, store, cache, pass>>
  BY DEF CheckHash
<1>3. CASE BootTo("from")
  <2>1. BootType' /\ boot'.pc = "from" /\ boot'.found = boot.found
    BY <1>1, <1>3, BootToIs DEF BootPC
  <2>2. StartInv'
    BY <1>1, <1>2, <2>1 DEF StartInv, cursor, store
  <2>. QED  BY <1>1, <1>2, <2>1, <2>2, StartMoves
<1>4. CASE boot' = [boot EXCEPT !.pc = "cut", !.at = ForkViaRpc]
  <2>1. ForkViaRpc \in Nat /\ ForkViaRpc > 0
    <3>. DEFINE S == {h \in HeightsIn(index) : h < lastScanned} \cup {0}
    <3>1. index \in Seq(IndexEntry) /\ lastScanned \in Nat
      BY <1>1 DEF Shape
    <3>2. S \in SUBSET Nat /\ S # {} /\ \A x \in S : x <= lastScanned
      BY <3>1, EntryTypes DEF HeightsIn
    <3>3. LastOf(S) \in Nat
      <4>. HIDE DEF S
      <4>. QED  BY <3>1, <3>2, GreatestElement
    <3>. QED  BY <3>3 DEF ForkViaRpc
  <2>2. /\ BootType' /\ boot'.pc = "cut" /\ boot'.found = boot.found
        /\ boot'.at = ForkViaRpc
    BY <1>1, <1>4, <2>1 DEF BootType, BootPC
  <2>3. StartInv'
    BY <1>1, <1>2, <2>1, <2>2 DEF StartInv, cursor, store
  <2>. QED  BY <1>1, <1>2, <2>2, <2>3, StartMoves
<1>. QED  BY <1>3, <1>4 DEF CheckHash

LEMMA CutFileOrderly ==
    ASSUME WorkingStream, OrderlyInv, CutFile PROVE OrderlyInv'
<1>. DEFINE at  == boot.at
            off == OffsetForHeight(index, at)
            rm  == RemoveFrom(index, at)
<1>1. /\ boot.pc = "cut" /\ BootType /\ StartInv /\ Shape /\ Resting /\ CacheInv
      /\ UpTo(index, Len(chain))
  BY DEF OrderlyInv, CutFile, Booting
<1>2. /\ UNCHANGED <<node, indexing, chainHeight, cursor, buffer, diskIndex, cache, pass>>
      /\ index' = rm
  BY DEF CutFile
<1>3. /\ BootType' /\ boot'.pc = "saveindex" /\ boot'.found = boot.found
      /\ boot'.at = at
  BY <1>1, BootToIs DEF CutFile, BootPC
<1>4. /\ index \in Seq(IndexEntry) /\ file \in Seq(Packet) /\ at \in Nat /\ at > 0
      /\ Delimits(index, file, Len(file)) /\ AllWhole(file, index)
      /\ AscendingHeights(index)
  BY <1>1 DEF Shape, StartInv, Resting, BootType, Delimits
<1>5. file' = IF off = NoOffset THEN file ELSE SetLen(file, off)
  BY DEF CutFile, MayFail, WorkingStream
<1>6. /\ rm \in Seq(IndexEntry) /\ \A k \in 1..Len(rm) : rm[k].block < at
      /\ Len(rm) \in 0..Len(index) /\ \A k \in 1..Len(rm) : rm[k] = index[k]
  BY <1>4, RemoveFromBelow, HeightsRemoved
<1>7. \A h : UpTo(index, h) => UpTo(rm, h)
  <2>. HIDE DEF rm
  <2>1. \A k \in 1..Len(rm) : k \in 1..Len(index)
    BY <1>4, <1>6
  <2>. QED  BY <1>6, <2>1 DEF UpTo
<1>8. UpTo(rm, at - 1)
  <2>. HIDE DEF rm
  <2>1. \A k \in 1..Len(rm) : rm[k].block \in Nat
    BY <1>6, EntryTypes
  <2>. QED  BY <1>4, <1>6, <2>1 DEF UpTo
<1>9. file' \in Seq(Packet) /\ Delimits(rm, file', Len(file')) /\ AllWhole(file', rm)
  <2>1. CASE off = NoOffset
    <3>1. rm = index /\ file' = file
      BY <1>4, <1>5, <2>1, NothingToRemove
    <3>. HIDE DEF rm
    <3>. QED  BY <1>4, <3>1
  <2>2. CASE off # NoOffset
    <3>1. /\ off \in 0..Len(file)
          /\ Delimits(rm, SubSeq(file, 1, off), off)
      BY <1>4, <2>2, DelimitsCut
    <3>2. \A k \in 1..Len(rm) : Whole(SubSeq(file, 1, off), rm[k])
      BY <1>4, <2>2, WholeCut DEF AllWhole
    <3>. HIDE DEF off, rm
    <3>3. file' = SubSeq(file, 1, off) /\ Len(file') = off /\ file' \in Seq(Packet)
      <4>1. SetLen(file, off) = SubSeq(file, 1, off) /\ Len(SubSeq(file, 1, off)) = off
        BY <1>4, <3>1, CutsAgree
      <4>2. SubSeq(file, 1, off) \in Seq(Packet)
        BY <1>4, <3>1, PrefixType
      <4>. QED  BY <1>5, <2>2, <4>1, <4>2
    <3>. QED  BY <3>1, <3>2, <3>3 DEF AllWhole
  <2>. QED  BY <2>1, <2>2
<1>. HIDE DEF at, off, rm
<1>10. StartInv'
  <2>1. UpTo(rm, chainHeight)
    BY <1>1, <1>7 DEF StartInv
  <2>. QED  BY <1>1, <1>2, <1>3, <1>4, <1>8, <1>9, <2>1 DEF StartInv
<1>11. CacheInv'
  BY <1>1, <1>2 DEF CacheInv
<1>12. UpTo(index', Len(chain))
  BY <1>1, <1>2, <1>7
<1>. QED
  BY <1>1, <1>2, <1>3, <1>6, <1>9, <1>10, <1>11, <1>12, StartKept
  DEF OrderlyInv, Shape, node, cursor

LEMMA CutIndexOrderly ==
    ASSUME OrderlyInv, CutIndex PROVE OrderlyInv'
<1>1. /\ boot.pc = "saveindex" /\ BootType /\ StartInv /\ Shape /\ Resting /\ CacheInv
      /\ UpTo(index, Len(chain))
  BY DEF OrderlyInv, CutIndex, Booting
<1>2. /\ UNCHANGED <<node, indexing, chainHeight, cursor, index, buffer, file,
                     cache, pass>>
      /\ diskIndex' = index
  BY DEF CutIndex
<1>3. /\ BootType' /\ boot'.pc = "savecursor" /\ boot'.found = boot.found
      /\ boot'.at = boot.at
  BY <1>1, BootToIs DEF CutIndex, BootPC
<1>4. StartInv'
  BY <1>1, <1>2, <1>3 DEF StartInv
<1>5. CacheInv'
  BY <1>1, <1>2 DEF CacheInv
<1>. QED
  BY <1>1, <1>2, <1>3, <1>4, <1>5, StartKept
  DEF OrderlyInv, Shape, Resting, node, cursor

LEMMA CutCursorOrderly ==
    ASSUME OrderlyInv, CutCursor PROVE OrderlyInv'
<1>1. /\ boot.pc = "savecursor" /\ BootType /\ StartInv /\ Shape /\ Resting /\ CacheInv
  BY DEF OrderlyInv, CutCursor, Booting
<1>2. /\ UNCHANGED <<node, indexing, chainHeight, store, cache, pass>>
      /\ lastScanned' = boot.at - 1 /\ lastHash' = NoBlock
      /\ diskCursor' = [height |-> boot.at - 1, hash |-> NoBlock]
  BY DEF CutCursor
<1>3. /\ BootType' /\ boot'.pc = "from" /\ boot'.found = boot.found
  BY <1>1, BootToIs DEF CutCursor, BootPC
<1>4. boot.at - 1 \in Nat
  BY <1>1 DEF StartInv, BootType
<1>5. StartInv'
  BY <1>1, <1>2, <1>3 DEF StartInv, store
<1>6. CacheInv'
  BY <1>1, <1>2 DEF CacheInv
<1>7. diskCursor' \in [height : Nat, hash : Block \cup {NoBlock}]
  BY <1>2, <1>4
<1>. QED
  BY <1>1, <1>2, <1>3, <1>4, <1>5, <1>6, <1>7, StartKept
  DEF OrderlyInv, Shape, Resting, node, store

\* A hash that the node answers with is that of a block of the height asked for.
LEMMA AnswerIsBlock ==
    ASSUME chain \in Chains, NEW h \in Nat, NEW hash \in HashAnswers(h), hash # NoBlock
    PROVE  hash \in Block /\ HeightOf[hash] = h /\ h > 0 /\ h <= Len(chain)
<1>1. hash = NodeHash(h)
  BY DEF HashAnswers
<1>2. h \in 1..Len(chain) /\ hash = chain[h]
  BY <1>1 DEF NodeHash
<1>. QED  BY <1>2, ChainAssumption

LEMMA BeginScanOrderly ==
    ASSUME OrderlyInv, BeginScan PROVE OrderlyInv'
<1>1. /\ boot.pc = "from" /\ BootType /\ StartInv /\ Shape
  BY DEF OrderlyInv, BeginScan, Booting
<1>2. UNCHANGED <<node, indexing, chainHeight, cursor, store, cache, pass>>
  BY DEF BeginScan
<1>3. CASE BootTo("cursor")
  <2>1. BootType' /\ boot'.pc = "cursor"
    BY <1>1, <1>3, BootToIs DEF BootPC
  <2>2. StartInv'
    BY <1>1, <1>2, <2>1 DEF StartInv, cursor, store
  <2>. QED  BY <1>1, <1>2, <2>1, <2>2, StartMoves
<1>4. ASSUME ~(ScanFrom > chainHeight), NEW hash \in HashAnswers(ScanFrom), hash # NoBlock,
             boot' = [boot EXCEPT !.pc = "scan", !.at = ScanFrom, !.seen = hash]
      PROVE  OrderlyInv'
  <2>1. ScanFrom \in Nat /\ UpTo(index, ScanFrom - 1)
    <3>1. /\ index \in Seq(IndexEntry) /\ lastScanned \in Nat /\ Len(index) \in Nat
          /\ \A k \in 1..Len(index) : index[k].block \in Nat
          /\ AscendingHeights(index) /\ UpTo(index, lastScanned)
      BY <1>1, EntryTypes DEF Shape, StartInv, Delimits
    <3>2. CASE lastScanned > 0
      <4>1. ScanFrom = lastScanned + 1
        BY <3>2 DEF ScanFrom
      <4>2. ScanFrom \in Nat /\ ScanFrom - 1 = lastScanned
        BY <3>1, <4>1
      <4>. QED  BY <3>1, <4>2
    <3>3. CASE ~(lastScanned > 0)
      <4>1. ScanFrom = LastHeight(index) + 1
        BY <3>3 DEF ScanFrom
      <4>2. LastHeight(index) \in Nat /\ UpTo(index, LastHeight(index))
        <5>1. CASE index = <<>>
          BY <5>1 DEF LastHeight, UpTo
        <5>2. CASE index # <<>>
          <6>1. Len(index) \in 1..Len(index)
            BY <3>1, <5>2
          <6>2. LastHeight(index) = index[Len(index)].block
            BY <5>2 DEF LastHeight
          <6>3. ASSUME NEW k \in 1..Len(index)
                PROVE  index[k].block <= index[Len(index)].block
            <7>1. k = Len(index) \/ k < Len(index)
              BY <3>1
            <7>. QED  BY <3>1, <6>1, <7>1 DEF AscendingHeights
          <6>. QED  BY <3>1, <6>1, <6>2, <6>3 DEF UpTo
        <5>. QED  BY <5>1, <5>2
      <4>3. ScanFrom \in Nat /\ ScanFrom - 1 = LastHeight(index)
        BY <4>1, <4>2
      <4>. QED  BY <4>2, <4>3
    <3>. QED  BY <3>2, <3>3
  <2>2. hash \in Block /\ HeightOf[hash] = ScanFrom
    BY <1>1, <1>4, <2>1, AnswerIsBlock DEF Shape
  <2>3. /\ BootType' /\ boot'.pc = "scan" /\ boot'.found = boot.found
        /\ boot'.at = ScanFrom /\ boot'.seen = hash
    BY <1>1, <1>4, <2>1, <2>2 DEF BootType, BootPC
  <2>4. chainHeight \in Nat /\ ScanFrom <= chainHeight
    BY <1>1, <1>4, <2>1 DEF Shape
  <2>5. FoundUpTo(index, boot.found, ScanFrom - 1)
    BY <1>1, <2>1 DEF StartInv, FoundUpTo
  <2>6. StartInv'
    BY <1>1, <1>2, <2>2, <2>3, <2>4, <2>5 DEF StartInv, cursor, store
  <2>. QED  BY <1>1, <1>2, <2>3, <2>6, StartMoves
<1>. QED  BY <1>3, <1>4 DEF BeginScan

\* One block more is scanned, and found if it holds Sapling transactions.
LEMMA FoundMore ==
    ASSUME NEW idx \in Seq(IndexEntry), NEW found \in Seq(Block), NEW h \in Nat,
           FoundUpTo(idx, found, h - 1), NEW b \in Block, HeightOf[b] = h,
           NEW more, more \in {found, Append(found, b)}
    PROVE  more \in Seq(Block) /\ FoundUpTo(idx, more, h)
<1>1. /\ \A k \in 1..Len(idx) : idx[k].block \in Nat
      /\ \A j \in 1..Len(found) : found[j] \in Block /\ HeightOf[found[j]] \in Nat
      /\ Len(found) \in Nat
  BY EntryTypes, ChainAssumption DEF Heights
<1>2. /\ \A k \in 1..Len(idx) : idx[k].block < h
      /\ \A j \in 1..Len(found) : HeightOf[found[j]] < h
      /\ \A i, j \in 1..Len(found) : i < j => HeightOf[found[i]] < HeightOf[found[j]]
      /\ \A k \in 1..Len(idx), j \in 1..Len(found) : idx[k].block < HeightOf[found[j]]
  BY <1>1 DEF FoundUpTo, UpTo
<1>3. UpTo(idx, h) /\ \A j \in 1..Len(found) : HeightOf[found[j]] <= h
  BY <1>1, <1>2 DEF UpTo
<1>4. CASE more = found
  BY <1>2, <1>3, <1>4 DEF FoundUpTo
<1>5. CASE more = Append(found, b)
  <2>1. /\ more \in Seq(Block) /\ Len(more) = Len(found) + 1
        /\ \A j \in 1..Len(found) : more[j] = found[j]
        /\ more[Len(found) + 1] = b
    BY <1>5
  <2>2. \A j \in 1..Len(more) : j \in 1..Len(found) \/ j = Len(found) + 1
    BY <1>1, <2>1
  <2>3. \A j \in 1..Len(more) : HeightOf[more[j]] <= h
    BY <1>3, <2>1, <2>2
  <2>4. ASSUME NEW i \in 1..Len(more), NEW j \in 1..Len(more), i < j
        PROVE  HeightOf[more[i]] < HeightOf[more[j]]
    <3>1. i \in 1..Len(found)
      BY <1>1, <2>1, <2>4
    <3>. QED  BY <1>2, <2>1, <2>2, <2>4, <3>1
  <2>5. \A k \in 1..Len(idx), j \in 1..Len(more) : idx[k].block < HeightOf[more[j]]
    BY <1>2, <2>1, <2>2
  <2>. QED  BY <1>3, <2>1, <2>3, <2>4, <2>5 DEF FoundUpTo
<1>. QED  BY <1>4, <1>5

LEMMA ScanBlockOrderly ==
    ASSUME OrderlyInv, ScanBlock PROVE OrderlyInv'
<1>. DEFINE b    == boot.seen
            h    == boot.at
            more == IF ShieldTxs[b] > 0 THEN Append(boot.found, b) ELSE boot.found
            next == IF NodeHash(h) = boot.seen THEN NodeHash(h + 1) ELSE NoBlock
<1>1. /\ boot.pc = "scan" /\ BootType /\ StartInv /\ Shape /\ Resting /\ CacheInv
      /\ UpTo(index, Len(chain)) /\ UpTo(diskIndex, Len(chain))
      /\ chainHeight <= Len(chain)
  BY DEF OrderlyInv, ScanBlock, Booting
<1>2. /\ UNCHANGED <<node, indexing, chainHeight, lastScanned, lastHash, diskCursor,
                     store, pass>>
      /\ cache' = Insert(cache, b, 2)
  BY DEF ScanBlock
<1>3. /\ b \in Block /\ HeightOf[b] = h /\ h \in Nat /\ h <= chainHeight
      /\ FoundUpTo(index, boot.found, h - 1) /\ boot.found \in Seq(Block)
      /\ index \in Seq(IndexEntry) /\ chainHeight \in Nat /\ h + 1 \in Nat
  BY <1>1 DEF StartInv, BootType, Shape
<1>4. more \in Seq(Block) /\ FoundUpTo(index, more, h)
  <2>1. more \in {boot.found, Append(boot.found, b)}
    OBVIOUS
  <2>. HIDE DEF more, b, h
  <2>. QED  BY <1>3, <2>1, FoundMore
<1>5. /\ cache' \in CacheType /\ CacheInv'
      /\ \A e \in cache'.entries : e \in cache.entries \/ e[2] # 1
  <2>1. 2 \in Verbosity /\ cache \in CacheType
    BY <1>1 DEF Verbosity, Shape
  <2>2. cache' \in CacheType /\ CacheInv'
    BY <1>1, <1>2, <1>3, <2>1, InsertType, InsertFiles DEF CacheInv
  <2>3. \A e \in cache'.entries : e \in cache.entries \/ e = <<b, 2>>
    BY <1>2, <1>3, <2>1, InsertEntries
  <2>. QED  BY <2>2, <2>3
<1>6. ScanOn(more)
  BY DEF ScanBlock
<1>7. next \in Block \cup {NoBlock} /\ (next # NoBlock => HeightOf[next] = h + 1)
  <2>1. chain \in Chains
    BY <1>1 DEF Shape
  <2>2. NodeHash(h + 1) \in HashAnswers(h + 1)
    BY DEF HashAnswers
  <2>3. /\ NodeHash(h + 1) \in Block \cup {NoBlock}
        /\ NodeHash(h + 1) # NoBlock => HeightOf[NodeHash(h + 1)] = h + 1
    <3>. HIDE DEF h
    <3>. QED  BY <1>3, <2>1, <2>2, AnswerIsBlock, NodeHashType
  <2>. QED  BY <2>3
<1>8. boot' = IF h = chainHeight
              THEN [boot EXCEPT !.pc = "append", !.found = more]
              ELSE IF next = NoBlock
              THEN [boot EXCEPT !.pc = "next", !.found = more]
              ELSE [boot EXCEPT !.at = h + 1, !.seen = next, !.found = more]
  BY <1>6 DEF ScanOn
<1>. HIDE DEF b, h, more, next
<1>9. BootType' /\ StartInv' /\ boot'.pc \in {"append", "next", "scan"}
  <2>1. CASE h = chainHeight
    <3>1. /\ boot'.pc = "append" /\ boot'.at = boot.at /\ boot'.seen = boot.seen
          /\ boot'.found = more /\ BootType'
      BY <1>1, <1>4, <1>8, <2>1 DEF BootType, BootPC
    <3>2. StartInv'
      BY <1>1, <1>2, <1>4, <2>1, <3>1 DEF StartInv, store
    <3>. QED  BY <3>1, <3>2
  <2>2. CASE h # chainHeight /\ next = NoBlock
    <3>1. /\ boot'.pc = "next" /\ boot'.at = h /\ boot'.seen = boot.seen
          /\ boot'.found = more /\ BootType'
      BY <1>1, <1>4, <1>8, <2>2 DEF BootType, BootPC, h
    <3>2. h < chainHeight
      BY <1>3, <2>2
    <3>3. StartInv'
      BY <1>1, <1>2, <1>4, <3>1, <3>2 DEF StartInv, store
    <3>. QED  BY <3>1, <3>3
  <2>3. CASE h # chainHeight /\ next # NoBlock
    <3>1. /\ boot'.pc = "scan" /\ boot'.at = h + 1 /\ boot'.seen = next
          /\ boot'.found = more /\ BootType'
      BY <1>1, <1>3, <1>4, <1>7, <1>8, <2>3 DEF BootType, BootPC
    <3>2. h + 1 <= chainHeight /\ (h + 1) - 1 = h
      BY <1>3, <2>3
    <3>3. next \in Block /\ HeightOf[next] = h + 1
      BY <1>7, <2>3
    <3>4. FoundUpTo(index, more, (h + 1) - 1)
      BY <1>4, <3>2
    <3>5. StartInv'
      BY <1>1, <1>2, <3>1, <3>2, <3>3, <3>4 DEF StartInv, store
    <3>. QED  BY <3>1, <3>5
  <2>. QED  BY <2>1, <2>2, <2>3
<1>. QED
  BY <1>1, <1>2, <1>5, <1>9, StartKept DEF Shape, Resting, node, store

\* Nothing more is found.
LEMMA FoundSame ==
    ASSUME NEW idx \in Seq(IndexEntry), NEW found \in Seq(Block), NEW h \in Nat,
           NEW g \in Nat, h - 1 <= g, FoundUpTo(idx, found, h - 1)
    PROVE  FoundUpTo(idx, found, g)
<1>1. /\ \A k \in 1..Len(idx) : idx[k].block \in Nat
      /\ \A j \in 1..Len(found) : HeightOf[found[j]] \in Nat
  BY EntryTypes, ChainAssumption DEF Heights
<1>2. UpTo(idx, g)
  BY <1>1 DEF FoundUpTo, UpTo
<1>3. \A j \in 1..Len(found) : HeightOf[found[j]] <= g
  BY <1>1 DEF FoundUpTo
<1>. QED  BY <1>2, <1>3 DEF FoundUpTo

LEMMA SkipBlockOrderly ==
    ASSUME OrderlyInv, SkipBlock PROVE OrderlyInv'
<1>. DEFINE label == IF boot.at = chainHeight THEN "append" ELSE "next"
<1>1. boot.pc = "scan" /\ BootType /\ StartInv /\ Shape
  BY DEF OrderlyInv, SkipBlock, Booting
<1>2. /\ UNCHANGED <<node, indexing, chainHeight, lastScanned, lastHash, diskCursor,
                     store, cache, pass>>
      /\ BootTo(label)
  BY DEF SkipBlock
<1>3. /\ boot.at \in Nat /\ boot.at <= chainHeight /\ chainHeight \in Nat
      /\ FoundUpTo(index, boot.found, boot.at - 1) /\ boot.found \in Seq(Block)
      /\ index \in Seq(IndexEntry)
  BY <1>1 DEF StartInv, BootType, Shape
<1>4. FoundUpTo(index, boot.found, boot.at) /\ FoundUpTo(index, boot.found, chainHeight)
  <2>1. boot.at - 1 <= boot.at /\ boot.at - 1 <= chainHeight
    BY <1>3
  <2>. QED  BY <1>3, <2>1, FoundSame
<1>5. /\ BootType' /\ boot'.pc = label
      /\ boot'.at = boot.at /\ boot'.seen = boot.seen /\ boot'.found = boot.found
  <2>1. label \in BootPC
    BY DEF BootPC
  <2>. HIDE DEF label
  <2>. QED  BY <1>1, <1>2, <2>1, BootToIs
<1>6. StartInv'
  <2>1. CASE boot.at = chainHeight
    BY <1>1, <1>2, <1>4, <1>5, <2>1 DEF StartInv, store
  <2>2. CASE boot.at # chainHeight
    <3>1. boot.at < chainHeight
      BY <1>3, <2>2
    <3>. QED  BY <1>1, <1>2, <1>4, <1>5, <2>2, <3>1 DEF StartInv, store
  <2>. QED  BY <2>1, <2>2
<1>7. CacheInv'
  BY <1>2 DEF OrderlyInv, CacheInv
<1>. QED
  BY <1>1, <1>2, <1>5, <1>6, <1>7, StartKept
  DEF OrderlyInv, Shape, Resting, node, store

LEMMA NextHashOrderly ==
    ASSUME OrderlyInv, NextHash PROVE OrderlyInv'
<1>1. boot.pc = "next" /\ BootType /\ StartInv /\ Shape
  BY DEF OrderlyInv, NextHash, Booting
<1>2. UNCHANGED <<node, indexing, chainHeight, cursor, store, cache, pass>>
  BY DEF NextHash
<1>3. /\ boot.at \in Nat /\ boot.at < chainHeight /\ chainHeight \in Nat
      /\ boot.at + 1 \in Nat /\ (boot.at + 1) - 1 = boot.at
      /\ boot.at + 1 <= chainHeight
      /\ FoundUpTo(index, boot.found, boot.at) /\ boot.found \in Seq(Block)
      /\ index \in Seq(IndexEntry)
  BY <1>1 DEF StartInv, BootType, Shape
<1>4. FoundUpTo(index, boot.found, chainHeight)
  <2>1. (boot.at + 1) - 1 <= chainHeight /\ FoundUpTo(index, boot.found, (boot.at + 1) - 1)
    BY <1>3
  <2>. QED  BY <1>3, <2>1, FoundSame
<1>5. PICK hash \in HashAnswers(boot.at + 1) :
        boot' = IF hash = NoBlock THEN [boot EXCEPT !.pc = "append"]
                ELSE [boot EXCEPT !.pc = "scan", !.at = boot.at + 1, !.seen = hash]
  BY DEF NextHash
<1>6. CASE hash = NoBlock
  <2>1. /\ boot'.pc = "append" /\ boot'.found = boot.found /\ BootType'
    BY <1>1, <1>5, <1>6 DEF BootType, BootPC
  <2>2. StartInv'
    BY <1>1, <1>2, <1>4, <2>1 DEF StartInv, store, cursor
  <2>. QED  BY <1>1, <1>2, <2>1, <2>2, StartMoves
<1>7. CASE hash # NoBlock
  <2>1. hash \in Block /\ HeightOf[hash] = boot.at + 1
    BY <1>1, <1>3, <1>7, AnswerIsBlock DEF Shape
  <2>2. /\ boot'.pc = "scan" /\ boot'.at = boot.at + 1 /\ boot'.seen = hash
        /\ boot'.found = boot.found /\ BootType'
    BY <1>1, <1>3, <1>5, <1>7, <2>1 DEF BootType, BootPC
  <2>3. StartInv'
    BY <1>1, <1>2, <1>3, <2>1, <2>2 DEF StartInv, store, cursor
  <2>. QED  BY <1>1, <1>2, <2>2, <2>3, StartMoves
<1>. QED  BY <1>6, <1>7

LEMMA AppendBatchOrderly ==
    ASSUME WorkingStream, OrderlyInv, AppendBatch PROVE OrderlyInv'
<1>. DEFINE r == Batch(index, file, boot.found)
<1>1. /\ boot.pc = "append" /\ BootType /\ StartInv /\ Shape /\ Resting
      /\ chainHeight <= Len(chain)
  BY DEF OrderlyInv, AppendBatch, Booting
<1>2. /\ UNCHANGED <<node, indexing, chainHeight, cursor, buffer, diskIndex, cache, pass>>
      /\ file' = r.file /\ index' = r.index /\ BootTo("save")
  BY DEF AppendBatch, MayFail, WorkingStream
<1>3. /\ index \in Seq(IndexEntry) /\ file \in Seq(Packet) /\ file \in Seq(Bytes)
      /\ boot.found \in Seq(Block) /\ FoundUpTo(index, boot.found, chainHeight)
      /\ Delimits(index, file, Len(file)) /\ AllWhole(file, index)
  BY <1>1 DEF BootType, StartInv, Shape, Resting, Bytes
<1>4. /\ r.index \in Seq(IndexEntry) /\ r.file \in Seq(Bytes)
      /\ Len(file) <= Len(r.file) /\ \A p \in 1..Len(file) : r.file[p] = file[p]
      /\ Len(index) <= Len(r.index)
      /\ \A k \in 1..Len(index) : r.index[k] = index[k]
      /\ \A k \in 1..Len(r.index) : k > Len(index) =>
           /\ Whole(r.file, r.index[k])
           /\ \E j \in 1..Len(boot.found) : r.index[k].block = HeightOf[boot.found[j]]
  BY <1>3, BatchAdds
<1>5. r.file \in Seq(Packet) /\ Delimits(r.index, r.file, Len(r.file))
  BY <1>3, BatchDelimits DEF FoundUpTo
<1>6. /\ BootType' /\ boot'.pc = "save" /\ boot'.found = boot.found
  BY <1>1, <1>2, BootToIs DEF BootPC
<1>. HIDE DEF r
<1>7. Len(index) \in Nat /\ Len(r.index) \in Nat /\ \A k \in 1..Len(r.index) :
        k \in 1..Len(index) \/ k > Len(index)
  BY <1>3, <1>4
<1>8. UpTo(r.index, chainHeight)
  BY <1>3, <1>4, <1>7 DEF UpTo, FoundUpTo
<1>9. AllWhole(r.file, r.index)
  <2>1. ASSUME NEW k \in 1..Len(index) PROVE Whole(r.file, r.index[k])
    <3>1. index[k] \in IndexEntry /\ Whole(file, index[k])
      BY <1>3 DEF AllWhole
    <3>2. Whole(r.file, index[k])
      BY <1>3, <1>4, <3>1, WholeGrows
    <3>. QED  BY <1>4, <3>2
  <2>. QED  BY <1>4, <1>7, <2>1 DEF AllWhole
<1>10. StartInv'
  <2>1. file' = r.file /\ index' = r.index /\ chainHeight' = chainHeight
    BY <1>2
  <2>. QED  BY <1>5, <1>6, <1>8, <1>9, <2>1 DEF StartInv
<1>11. UpTo(r.index, Len(chain))
  <2>1. /\ chainHeight \in Nat /\ Len(chain) \in Nat
        /\ \A k \in 1..Len(r.index) : r.index[k].block \in Nat
    BY <1>1, <1>4, EntryTypes, ChainAssumption DEF Shape
  <2>. QED  BY <1>1, <1>8, <2>1 DEF UpTo
<1>12. CacheInv'
  BY <1>2 DEF OrderlyInv, CacheInv
<1>. QED
  BY <1>1, <1>2, <1>4, <1>5, <1>6, <1>10, <1>11, <1>12, StartKept
  DEF OrderlyInv, Shape, Resting, node, cursor

LEMMA SaveBatchOrderly ==
    ASSUME OrderlyInv, SaveBatch PROVE OrderlyInv'
<1>1. /\ boot.pc = "save" /\ BootType /\ StartInv /\ Shape /\ UpTo(index, Len(chain))
  BY DEF OrderlyInv, SaveBatch, Booting
<1>2. /\ UNCHANGED <<node, indexing, chainHeight, cursor, index, buffer, file, cache,
                     pass>>
      /\ diskIndex' = index /\ BootTo("cursor")
  BY DEF SaveBatch
<1>3. /\ BootType' /\ boot'.pc = "cursor" /\ boot'.found = boot.found
  BY <1>1, <1>2, BootToIs DEF BootPC
<1>4. StartInv'
  BY <1>1, <1>2, <1>3 DEF StartInv
<1>5. CacheInv'
  BY <1>2 DEF OrderlyInv, CacheInv
<1>. QED
  BY <1>1, <1>2, <1>3, <1>4, <1>5, StartKept
  DEF OrderlyInv, Shape, Resting, node, cursor

LEMMA SaveCursorOrderly ==
    ASSUME OrderlyInv, SaveCursor PROVE OrderlyInv'
<1>1. /\ boot.pc = "cursor" /\ BootType /\ StartInv /\ Shape
  BY DEF OrderlyInv, SaveCursor, Booting
<1>2. /\ UNCHANGED <<node, indexing, chainHeight, store, cache, pass>>
      /\ lastScanned' = chainHeight /\ BootTo("load")
      /\ diskCursor' = [height |-> chainHeight, hash |-> lastHash']
  BY DEF SaveCursor
<1>3. lastHash' \in Block \cup {NoBlock} /\ chainHeight \in Nat
  BY <1>1, NodeHashType DEF SaveCursor, Shape
<1>4. /\ BootType' /\ boot'.pc = "load" /\ boot'.found = boot.found
  BY <1>1, <1>2, BootToIs DEF BootPC
<1>5. StartInv'
  BY <1>1, <1>2, <1>4 DEF StartInv, store
<1>6. CacheInv'
  BY <1>2 DEF OrderlyInv, CacheInv
<1>7. diskCursor' \in [height : Nat, hash : Block \cup {NoBlock}]
  BY <1>2, <1>3
<1>. QED
  BY <1>1, <1>2, <1>3, <1>4, <1>5, <1>6, <1>7, StartKept
  DEF OrderlyInv, Shape, Resting, node, store

\* The start hands over to the live indexer all that it relies on.
LEMMA LoadOrderly ==
    ASSUME OrderlyInv, Load PROVE OrderlyInv'
<1>1. /\ boot.pc = "load" /\ BootType /\ StartInv /\ Shape /\ Resting
      /\ UpTo(index, Len(chain)) /\ UpTo(diskIndex, Len(chain))
      /\ chainHeight <= Len(chain) /\ CacheInv /\ NoIds
  BY DEF OrderlyInv, Load, Booting
<1>2. /\ UNCHANGED <<node, indexing, chainHeight, cursor, index, file, diskIndex, cache,
                     pass>>
      /\ buffer' = file /\ boot' = [Down EXCEPT !.pc = "live"]
  BY DEF Load
<1>3. BootType' /\ boot'.pc = "live"
  <2>1. boot' = [pc |-> "live", at |-> 0, seen |-> NoBlock, found |-> <<>>]
    BY <1>2 DEF Down
  <2>2. "live" \in BootPC /\ <<>> \in Seq(Block)
    BY DEF BootPC
  <2>. QED  BY <2>1, <2>2 DEF BootType
<1>4. /\ lastScanned = chainHeight /\ diskCursor.height = chainHeight
      /\ UpTo(index, chainHeight) /\ Delimits(index, file, Len(file))
      /\ AllWhole(file, index) /\ diskIndex = index /\ AscendingHeights(index)
  BY <1>1 DEF StartInv, Delimits
<1>5. UNCHANGED <<chain, inflight, lastScanned, lastHash, diskCursor>>
  BY <1>2 DEF node, cursor
<1>6. Shape'
  BY <1>1, <1>2, <1>5 DEF Shape, Resting
<1>7. \A w \in Worker : pass'[w].pc = "idle"
  BY <1>1, <1>2 DEF Resting
<1>8. Inv'
  <2>1. GateInv' /\ \A w \in Worker : PassOK(w)'
    BY <1>7 DEF GateInv, PassOK, Scanning, Cutting
  <2>2. IndexInv' /\ CacheInv'
    BY <1>1, <1>2, <1>4, <1>5
    DEF IndexInv, IndexedUpTo, UpTo, CacheInv, AscendingHeights
  <2>. QED  BY <1>6, <2>1, <2>2 DEF Inv
<1>9. StoreInv'
  <2>1. buffer' = file' /\ Delimits(index', buffer', Len(buffer'))
    BY <1>2, <1>4
  <2>. QED  BY <1>7, <2>1 DEF StoreInv
<1>10. LiveInv'
  <2>1. /\ AllWhole(file', index') /\ diskIndex' = index'
        /\ UpTo(index', diskCursor'.height)
    BY <1>2, <1>4, <1>5
  <2>. QED  BY <1>7, <1>8, <1>9, <2>1 DEF LiveInv, Scanning
<1>11. NoIds' /\ DecodeInv'
  BY <1>1, <1>2, <1>5, <1>7 DEF NoIds, DecodeInv, Decoded
<1>. QED
  BY <1>1, <1>2, <1>3, <1>5, <1>6, <1>8, <1>10, <1>11 DEF OrderlyInv, Inv

----------------------------------------------------------------------------
(* The steps of the live indexer.                                          *)

\* A disk that saves what it is told to.
LEMMA SavedIs == \A new, old : Saved(new, old) = {new}
BY RestartAssumption DEF Saved, MayFail

LEMMA RemovedUpTo ==
    ASSUME NEW idx \in Seq(IndexEntry), AscendingHeights(idx), NEW h \in Nat,
           NEW g, UpTo(idx, g)
    PROVE  UpTo(RemoveFrom(idx, h), g)
<1>1. /\ Len(RemoveFrom(idx, h)) \in 0..Len(idx) /\ Len(idx) \in Nat
      /\ \A k \in 1..Len(RemoveFrom(idx, h)) : RemoveFrom(idx, h)[k] = idx[k]
  BY HeightsRemoved
<1>2. \A k \in 1..Len(RemoveFrom(idx, h)) : k \in 1..Len(idx)
  BY <1>1
<1>. QED  BY <1>1, <1>2 DEF UpTo

LEMMA AddedUpTo ==
    ASSUME NEW idx \in Seq(IndexEntry), NEW h, NEW off, NEW g, UpTo(idx, g), h <= g
    PROVE  UpTo(AddEntry(idx, h, off), g)
<1>1. CASE h \in HeightsIn(idx)
  BY <1>1 DEF AddEntry
<1>2. CASE h \notin HeightsIn(idx)
  <2>. DEFINE e  == [block |-> h, i |-> off]
              ix == Append(idx, e)
  <2>1. /\ Len(ix) = Len(idx) + 1 /\ ix[Len(idx) + 1] = e /\ Len(idx) \in Nat
        /\ \A k \in 1..Len(idx) : ix[k] = idx[k]
    OBVIOUS
  <2>2. e.block = h
    OBVIOUS
  <2>. HIDE DEF e
  <2>3. AddEntry(idx, h, off) = ix
    BY <1>2 DEF AddEntry, e
  <2>. HIDE DEF ix
  <2>. QED  BY <2>1, <2>2, <2>3 DEF UpTo
<1>. QED  BY <1>1, <1>2

\* A pass cuts the index, or adds the block it has appended, or leaves it.
LEMMA IndexChanges ==
    ASSUME Inv, NEW w \in Worker, Enter(w) \/ PassStep(w)
    PROVE  \/ UNCHANGED index
           \/ Truncate(w) /\ index' = RemoveFrom(index, pass[w].at)
           \/ AddIndex(w) /\ index' = AddEntry(index, HeightOf[pass[w].seen], pass[w].off)
<1>1. Truncate(w) => UNCHANGED index \/ index' = RemoveFrom(index, pass[w].at)
  BY DEF Truncate
<1>2. AddIndex(w) => \/ UNCHANGED index
                     \/ index' = AddEntry(index, HeightOf[pass[w].seen], pass[w].off)
  BY DEF AddIndex
<1>3. AppendFile(w) \/ ExtendBuffer(w) => UNCHANGED index
  BY DEF AppendFile, ExtendBuffer
<1>. QED  BY <1>1, <1>2, <1>3, QuietSteps DEF PassStep

\* The index names no block above the node's chain.
LEMMA IndexBelow ==
    ASSUME Inv, UpTo(index, Len(chain)),
           \A v \in Worker : pass[v].pc \in Scanning => pass[v].at <= Len(chain),
           NEW w \in Worker, Enter(w) \/ PassStep(w)
    PROVE  UpTo(index', Len(chain))
<1>1. index \in Seq(IndexEntry) /\ AscendingHeights(index) /\ pass \in [Worker -> Pass]
  BY DEF Inv, Shape, IndexInv
<1>2. CASE Truncate(w) /\ index' = RemoveFrom(index, pass[w].at)
  BY <1>1, <1>2, RemovedUpTo DEF Pass
<1>3. CASE AddIndex(w) /\ index' = AddEntry(index, HeightOf[pass[w].seen], pass[w].off)
  <2>1. HeightOf[pass[w].seen] <= Len(chain)
    BY <1>3 DEF AddIndex, At, Scanning, Inv, PassOK
  <2>. QED  BY <1>1, <1>3, <2>1, AddedUpTo
<1>. QED  BY <1>2, <1>3, IndexChanges

\* What the index names stays whole in the file.
LEMMA LiveWhole ==
    ASSUME WorkingStream, Inv, StoreInv, DecodeInv, AllWhole(file, index), Inv',
           NEW w \in Worker, Enter(w) \/ PassStep(w)
    PROVE  AllWhole(file', index')
<1>1. /\ index \in Seq(IndexEntry) /\ file \in Seq(Bytes) /\ buffer \in Seq(Packet)
      /\ pass \in [Worker -> Pass] /\ index' \in Seq(IndexEntry)
  BY DEF Inv, Shape, Bytes
<1>2. CASE Truncate(w)
  <2>. DEFINE h   == pass[w].at
              off == OffsetForHeight(index, h)
  <2>1. CASE UNCHANGED <<file, index>>
    BY <2>1 DEF AllWhole
  <2>2. CASE ~UNCHANGED <<file, index>>
    <3>1. off # NoOffset /\ file' = SetLen(file, off) /\ index' = RemoveFrom(index, h)
      BY <1>2, <2>2 DEF Truncate, MayFail, WorkingStream
    <3>2. h \in Nat
      BY <1>1 DEF Pass
    <3>3. file = buffer /\ Delimits(index, file, Len(file))
      <4>1. \A v \in Worker : pass[v].pc \in Quiet
        BY <1>2, Alone DEF Truncate, At, Quiet, PC
      <4>. QED  BY <4>1 DEF StoreInv
    <3>4. file \in Seq(Packet)
      BY <1>1, <3>3
    <3>. HIDE DEF h
    <3>5. off \in 0..Len(file)
      BY <1>1, <3>1, <3>2, <3>3, <3>4, DelimitsCut
    <3>6. file' = SubSeq(file, 1, off)
      BY <3>1, <3>4, <3>5, CutsAgree
    <3>7. \A k \in 1..Len(RemoveFrom(index, h)) :
            Whole(SubSeq(file, 1, off), RemoveFrom(index, h)[k])
      BY <1>1, <3>1, <3>2, <3>3, <3>4, WholeCut DEF AllWhole
    <3>. QED  BY <3>1, <3>6, <3>7 DEF AllWhole
  <2>. QED  BY <2>1, <2>2
<1>3. CASE AppendFile(w)
  <2>1. UNCHANGED index
    BY <1>3 DEF AppendFile
  <2>2. CASE UNCHANGED file
    BY <2>1, <2>2 DEF AllWhole
  <2>3. CASE ~UNCHANGED file
    <3>1. file' = file \o Encode(pass[w].seen, pass[w].got)
      BY <1>3, <2>3 DEF AppendFile, MayFail, WorkingStream
    <3>2. pass[w].seen \in Block /\ pass[w].got = ShieldTxs[pass[w].seen]
      BY <1>3 DEF AppendFile, At, Inv, PassOK, Scanning, DecodeInv, Decoded
    <3>3. /\ file' \in Seq(Bytes) /\ Len(file) <= Len(file')
          /\ \A p \in 1..Len(file) : file'[p] = file[p]
      BY <1>1, <3>1, <3>2, EncodedBytes
    <3>4. \A k \in 1..Len(index) : index[k] \in IndexEntry
      BY <1>1
    <3>. QED  BY <1>1, <2>1, <3>3, <3>4, WholeGrows DEF AllWhole
  <2>. QED  BY <2>2, <2>3
<1>4. CASE AddIndex(w)
  <2>. DEFINE b   == pass[w].seen
              off == pass[w].off
              e   == [block |-> HeightOf[b], i |-> off]
  <2>1. UNCHANGED file
    BY <1>4 DEF AddIndex
  <2>2. CASE UNCHANGED index
    BY <2>1, <2>2 DEF AllWhole
  <2>3. CASE ~UNCHANGED index
    <3>1. index' = Append(index, e)
      BY <1>4, <2>3 DEF AddIndex, AddEntry
    <3>2. /\ b \in Block /\ off \in Nat /\ buffer = file
          /\ EndsWith(buffer, off, b, ShieldTxs[b])
      BY <1>4 DEF AddIndex, At, Inv, PassOK, Scanning, DecodeInv, Decoded, StoreInv
    <3>3. ShieldTxs[b] \in Nat /\ e.block = HeightOf[b] /\ e.i = off
      BY <3>2, ChainAssumption
    <3>. HIDE DEF b, off, e
    <3>4. PacketsAt(file, off, b)
      BY <3>2, <3>3 DEF PacketsAt, EndsWith
    <3>5. Whole(file, e)
      BY <3>2, <3>3, <3>4 DEF Whole
    <3>6. /\ Len(index') = Len(index) + 1 /\ index'[Len(index) + 1] = e
          /\ \A k \in 1..Len(index) : index'[k] = index[k]
          /\ Len(index) \in Nat
      BY <1>1, <3>1
    <3>. QED  BY <2>1, <3>5, <3>6 DEF AllWhole
  <2>. QED  BY <2>2, <2>3
<1>5. CASE UNCHANGED <<file, index>>
  BY <1>5 DEF AllWhole
<1>6. ExtendBuffer(w) => UNCHANGED <<file, index>>
  BY DEF ExtendBuffer
<1>. QED  BY <1>2, <1>3, <1>4, <1>5, <1>6, QuietSteps DEF PassStep

\* One task moves, and the others are idle.
LEMMA OthersIdle ==
    ASSUME Inv, NEW w \in Worker, Enter(w) \/ PassStep(w)
    PROVE  \A v \in Worker : v # w => pass[v].pc = "idle" /\ pass'[v] = pass[v]
<1>1. pass \in [Worker -> Pass]
  BY DEF Inv, Shape
<1>2. CASE Truncate(w) \/ AppendFile(w) \/ ExtendBuffer(w) \/ AddIndex(w)
  <2>1. pass[w].pc # "idle" /\ \A v \in Worker : v # w => pass'[v] = pass[v]
    BY <1>1, <1>2 DEF Truncate, AppendFile, ExtendBuffer, AddIndex, At, Goto, Step
  <2>. QED  BY <2>1, Alone
<1>3. CASE ~(Truncate(w) \/ AppendFile(w) \/ ExtendBuffer(w) \/ AddIndex(w))
  <2>1. Quietly(w)
    BY <1>3, QuietSteps DEF PassStep
  <2>2. Enter(w) => \A v \in Worker : pass[v].pc = "idle"
    BY DEF Enter, Inv, GateInv
  <2>3. PassStep(w) => pass[w].pc # "idle"
    BY DEF PassStep, At, Count, Leave, Probe, Detect, FindFork, Invalidate, Truncate,
       SaveTrimmedIndex, Rewind, Target, Fetch, CachePut, AdvanceEmpty, AppendFile,
       ExtendBuffer, AddIndex, Advance, PersistIndex, PersistCursor
  <2>. QED  BY <2>1, <2>2, <2>3, Alone DEF Quietly
<1>. QED  BY <1>2, <1>3

\* Steps that leave index and cursor alone, saved or not; for those that end
\* in the index or the cursor being saved, see below.
LEMMA KeepsDisk ==
    ASSUME Inv, NEW w \in Worker, Enter(w) \/ PassStep(w),
           ~(\/ Truncate(w) \/ SaveTrimmedIndex(w) \/ Rewind(w) \/ AddIndex(w)
             \/ Advance(w) \/ PersistIndex(w) \/ PersistCursor(w))
    PROVE  /\ UNCHANGED <<index, diskIndex, diskCursor>>
           /\ pass[w].pc \notin {"saveindex", "advance"}
BY DEF At, PassStep, Enter, Count, Leave, Probe, Detect, FindFork, Invalidate,
   Target, Fetch, CachePut, AdvanceEmpty, AppendFile, ExtendBuffer, store, cursor

LEMMA LiveIndexSaved ==
    ASSUME Inv, (\A v \in Worker : pass[v].pc # "saveindex") => diskIndex = index,
           NEW w \in Worker, Enter(w) \/ PassStep(w)
    PROVE  (\A v \in Worker : pass'[v].pc # "saveindex") => diskIndex' = index'
<1>1. pass \in [Worker -> Pass]
  BY DEF Inv, Shape
<1>2. pass[w].pc # "saveindex" => diskIndex = index
  BY OthersIdle
<1>3. CASE SaveTrimmedIndex(w) \/ PersistIndex(w)
  BY <1>3, SavedIs DEF SaveTrimmedIndex, PersistIndex
<1>4. CASE AddIndex(w)
  <2>1. CASE UNCHANGED <<index, diskIndex>>
    BY <1>2, <1>4, <2>1 DEF AddIndex, At
  <2>2. CASE diskIndex' \in Saved(index', diskIndex)
    BY <2>2, SavedIs
  <2>. QED  BY <1>4, <2>1, <2>2 DEF AddIndex
<1>5. CASE Truncate(w)
  <2>1. CASE UNCHANGED index
    BY <1>2, <1>5, <2>1 DEF Truncate, At
  <2>2. CASE Goto(w, "saveindex")
    <3>1. pass'[w].pc = "saveindex"
      BY <1>1, <2>2, GotoLocals DEF PC
    <3>. QED  BY <3>1
  <2>. QED  BY <1>5, <2>1, <2>2 DEF Truncate
<1>6. CASE Rewind(w) \/ Advance(w) \/ PersistCursor(w)
  BY <1>2, <1>6 DEF Rewind, Advance, PersistCursor, At, store
<1>. QED  BY <1>2, <1>3, <1>4, <1>5, <1>6, KeepsDisk

LEMMA LiveCursorSaved ==
    ASSUME Inv, NEW w \in Worker, Enter(w) \/ PassStep(w),
           (\A v \in Worker : pass[v].pc # "advance") => UpTo(index, diskCursor.height)
    PROVE  (\A v \in Worker : pass'[v].pc # "advance") => UpTo(index', diskCursor'.height)
<1>1. /\ pass \in [Worker -> Pass] /\ index \in Seq(IndexEntry)
      /\ AscendingHeights(index)
  BY DEF Inv, Shape, IndexInv
<1>2. pass[w].pc # "advance" => UpTo(index, diskCursor.height)
  BY OthersIdle
<1>3. CASE Truncate(w)
  <2>1. UpTo(index, diskCursor.height) /\ UNCHANGED diskCursor
    BY <1>2, <1>3 DEF Truncate, At
  <2>2. UNCHANGED index \/ index' = RemoveFrom(index, pass[w].at)
    BY <1>3 DEF Truncate
  <2>3. pass[w].at \in Nat
    BY <1>1 DEF Pass
  <2>. QED  BY <1>1, <2>1, <2>2, <2>3, RemovedUpTo
<1>4. CASE AddIndex(w)
  <2>1. CASE Goto(w, "advance")
    <3>1. pass'[w].pc = "advance"
      BY <1>1, <2>1, GotoLocals DEF PC
    <3>. QED  BY <3>1
  <2>2. CASE UNCHANGED index
    BY <1>2, <1>4, <2>2 DEF AddIndex, At, cursor
  <2>. QED  BY <1>4, <2>1, <2>2 DEF AddIndex
<1>5. CASE Rewind(w)
  <2>1. diskCursor' = [height |-> pass[w].at - 1, hash |-> NoBlock] /\ UNCHANGED index
    BY <1>5, SavedIs DEF Rewind, store
  <2>2. UpTo(index, pass[w].at - 1)
    BY <1>5 DEF Rewind, At, Inv, PassOK, IndexedUpTo, UpTo
  <2>. QED  BY <2>1, <2>2
<1>6. CASE Advance(w)
  <2>1. diskCursor'.height = pass[w].at /\ UNCHANGED index
    BY <1>6, SavedIs DEF Advance, store
  <2>2. UpTo(index, pass[w].at)
    BY <1>6 DEF Advance, At, Inv, PassOK, IndexedUpTo, UpTo
  <2>. QED  BY <2>1, <2>2
<1>7. CASE PersistCursor(w)
  <2>1. diskCursor' = [height |-> lastScanned, hash |-> pass[w].seen] /\ UNCHANGED index
    BY <1>7, SavedIs DEF PersistCursor, store
  <2>2. UpTo(index, lastScanned)
    BY <1>7, OthersIdle, IndexBehind DEF PersistCursor, At, IndexedUpTo, UpTo
  <2>. QED  BY <2>1, <2>2
<1>8. CASE SaveTrimmedIndex(w) \/ PersistIndex(w)
  BY <1>2, <1>8 DEF SaveTrimmedIndex, PersistIndex, At, cursor
<1>. QED  BY <1>2, <1>3, <1>4, <1>5, <1>6, <1>7, <1>8, KeepsDisk

LEMMA LiveSavedBelow ==
    ASSUME Inv, NEW w \in Worker, Enter(w) \/ PassStep(w), NEW h,
           UpTo(diskIndex, h), UpTo(index, h), UpTo(index', h)
    PROVE  UpTo(diskIndex', h)
<1>1. diskIndex' \in {diskIndex, index, index'}
  BY SavedIs DEF At, PassStep, Enter, Count, Leave, Probe, Detect, FindFork, Invalidate,
     Truncate, SaveTrimmedIndex, Rewind, Target, Fetch, CachePut, AdvanceEmpty,
     AppendFile, ExtendBuffer, AddIndex, Advance, PersistIndex, PersistCursor, store
<1>. QED  BY <1>1

\* A pass learns of the chain's height before it scans.
LEMMA LiveHeight ==
    ASSUME Inv, chainHeight <= Len(chain),
           \A v \in Worker : pass[v].pc \in Scanning => pass[v].at <= Len(chain),
           NEW w \in Worker, Enter(w) \/ PassStep(w)
    PROVE  /\ UNCHANGED <<chain, inflight>> /\ chainHeight' <= Len(chain)
           /\ \A v \in Worker : pass'[v].pc \in Scanning => pass'[v].at <= Len(chain)
<1>1. /\ pass \in [Worker -> Pass] /\ lastScanned \in Nat /\ chainHeight \in Nat
      /\ Len(chain) \in Nat /\ chain \in Chains
  BY ChainAssumption DEF Inv, Shape
<1>2. UNCHANGED <<chain, inflight>>
  BY DEF PassStep, Enter, Count, Leave, Probe, Detect, FindFork, Invalidate,
     Truncate, SaveTrimmedIndex, Rewind, Target, Fetch, CachePut, AdvanceEmpty,
     AppendFile, ExtendBuffer, AddIndex, Advance, PersistIndex, PersistCursor, node
<1>3. chainHeight' <= Len(chain)
  <2>1. chainHeight' = chainHeight \/ chainHeight' = Len(chain)
    BY DEF PassStep, Enter, Count, Leave, Probe, Detect, FindFork, Invalidate,
       Truncate, SaveTrimmedIndex, Rewind, Target, Fetch, CachePut, AdvanceEmpty,
       AppendFile, ExtendBuffer, AddIndex, Advance, PersistIndex, PersistCursor
  <2>. QED  BY <1>1, <2>1
<1>4. pass'[w].pc \in Scanning => pass'[w].at <= Len(chain)
  <2>1. CASE Target(w)
    <3>. DEFINE t == lastScanned + 1
    <3>1. CASE t > chainHeight
      <4>1. Goto(w, "exit")
        BY <2>1, <3>1 DEF Target
      <4>. QED  BY <1>1, <4>1, GotoLocals DEF PC, Scanning
    <3>2. CASE ~(t > chainHeight)
      <4>1. Goto(w, "exit") \/ \E hash : GotoSeeing(w, "fetch", t, hash)
        BY <2>1, <3>2 DEF Target
      <4>2. CASE Goto(w, "exit")
        BY <1>1, <4>2, GotoLocals DEF PC, Scanning
      <4>3. CASE \E hash : GotoSeeing(w, "fetch", t, hash)
        <5>1. pass'[w].at = t
          BY <1>1, <4>3 DEF GotoSeeing, Step, Pass
        <5>. QED  BY <1>1, <3>2, <5>1
      <4>. QED  BY <4>1, <4>2, <4>3
    <3>. QED  BY <3>1, <3>2
  <2>2. CASE Fetch(w) \/ CachePut(w) \/ AppendFile(w) \/ ExtendBuffer(w) \/ AddIndex(w)
    <3>1. pass[w].pc \in Scanning
      BY <2>2 DEF Fetch, CachePut, AppendFile, ExtendBuffer, AddIndex, At, Scanning
    <3>2. pass'[w].at = pass[w].at
      BY <1>1, <2>2 DEF Fetch, CachePut, AppendFile, ExtendBuffer, AddIndex, Goto, Step,
         Pass
    <3>. QED  BY <3>1, <3>2
  <2>3. CASE PlainStep(w) /\ ~Target(w)
    <3>1. Plainly(w)
      BY <2>3, PlainSteps
    <3>2. pass'[w].pc # "fetch"
      <4>1. ASSUME NEW label \in {"count", "leave", "probe", "target", "detect", "fork",
                                  "invalidate", "truncate", "cursor"},
                   NEW h, NEW b,
                   Goto(w, label) \/ GotoAt(w, label, h) \/ GotoSeeing(w, label, h, b)
            PROVE  pass'[w].pc # "fetch"
        BY <1>1, <4>1, ZenonT(40) DEF Goto, GotoAt, GotoSeeing, Step, Pass
      <4>2. CASE Enter(w) \/ Count(w) \/ Probe(w) \/ Detect(w)
        BY <4>1, <4>2 DEF Enter, Count, Probe, Detect
      <4>3. CASE FindFork(w) \/ Invalidate(w) \/ PersistIndex(w) \/ PersistCursor(w)
        BY <4>1, <4>3 DEF FindFork, Invalidate, PersistIndex, PersistCursor
      <4>4. CASE Leave(w)
        BY <1>1, <4>4 DEF Leave, Step, IdlePass
      <4>. QED  BY <2>3, <4>2, <4>3, <4>4 DEF PlainStep
    <3>. QED  BY <3>1, <3>2 DEF Plainly, Plain, Decoded, Scanning
  <2>4. CASE \/ Truncate(w) \/ SaveTrimmedIndex(w) \/ Rewind(w) \/ AdvanceEmpty(w)
             \/ Advance(w)
    <3>1. pass'[w].pc \in {"target", "saveindex", "rewind"}
      BY <1>1, <2>4, ZenonT(40) DEF Truncate, SaveTrimmedIndex, Rewind, AdvanceEmpty, Advance,
         Goto, Step, Pass
    <3>. QED  BY <3>1 DEF Scanning
  <2>. QED  BY <2>1, <2>2, <2>3, <2>4 DEF PassStep, PlainStep
<1>5. \A v \in Worker : v # w => pass'[v].pc \notin Scanning
  BY OthersIdle DEF Scanning
<1>. QED  BY <1>2, <1>3, <1>4, <1>5

LEMMA LiveNoIds ==
    ASSUME Inv, NoIds, NEW w \in Worker, Enter(w) \/ PassStep(w), UNCHANGED inflight
    PROVE  NoIds'
<1>1. CASE CachePut(w)
  <2>1. pass[w].seen \in Block /\ cache \in CacheType
    BY <1>1 DEF CachePut, At, Inv, Shape, PassOK, Scanning
  <2>2. \A e \in cache'.entries : e \in cache.entries \/ e = <<pass[w].seen, 2>>
    BY <1>1, <2>1, InsertEntries DEF CachePut
  <2>. QED  BY <2>2 DEF NoIds
<1>2. CASE Invalidate(w)
  BY <1>2 DEF Invalidate, InvalidateFrom, Forget, NoIds
<1>3. CASE UNCHANGED cache
  BY <1>3 DEF NoIds
<1>. QED
  BY <1>1, <1>2, <1>3 DEF PassStep, Enter, Count, Leave, Probe, Detect, FindFork,
     Truncate, SaveTrimmedIndex, Rewind, Target, Fetch, AdvanceEmpty,
     AppendFile, ExtendBuffer, AddIndex, Advance, PersistIndex, PersistCursor

LEMMA LiveOrderly ==
    ASSUME WorkingStream, OrderlyInv, LiveStep PROVE OrderlyInv'
<1>1. /\ boot.pc = "live" /\ BootType /\ LiveInv /\ NoIds /\ DecodeInv
      /\ chainHeight <= Len(chain) /\ UpTo(index, Len(chain)) /\ UpTo(diskIndex, Len(chain))
  BY DEF OrderlyInv, LiveStep, Booting
<1>2. PICK w \in Worker : Enter(w) \/ PassStep(w)
  BY DEF LiveStep
<1>3. Inv' /\ DecodeInv'
  <2>1. Inv /\ [Next]_vars
    BY <1>1, <1>2 DEF LiveInv, Next
  <2>. QED  BY <1>1, <2>1, NextInv, DecodeMoves
<1>4. StoreInv'
  BY <1>1, <1>2, StoreNext DEF LiveInv, Next
<1>5. /\ UNCHANGED <<chain, inflight>> /\ chainHeight' <= Len(chain)
      /\ \A v \in Worker : pass'[v].pc \in Scanning => pass'[v].at <= Len(chain)
  BY <1>1, <1>2, LiveHeight DEF LiveInv
<1>6. NoIds'
  BY <1>1, <1>2, <1>5, LiveNoIds DEF LiveInv
<1>7. UpTo(index', Len(chain)) /\ UpTo(diskIndex', Len(chain))
  <2>1. UpTo(index', Len(chain))
    BY <1>1, <1>2, IndexBelow DEF LiveInv
  <2>. QED  BY <1>1, <1>2, <2>1, LiveSavedBelow DEF LiveInv
<1>8. AllWhole(file', index')
  BY <1>1, <1>2, <1>3, LiveWhole DEF LiveInv
<1>9. /\ (\A v \in Worker : pass'[v].pc # "saveindex") => diskIndex' = index'
      /\ (\A v \in Worker : pass'[v].pc # "advance") => UpTo(index', diskCursor'.height)
  BY <1>1, <1>2, LiveIndexSaved, LiveCursorSaved DEF LiveInv
<1>10. LiveInv'
  BY <1>3, <1>4, <1>5, <1>8, <1>9 DEF LiveInv
<1>11. BootType' /\ boot'.pc = "live"
  BY <1>1 DEF LiveStep, BootType
<1>12. Shape' /\ CacheInv'
  BY <1>3 DEF Inv
<1>. QED  BY <1>3, <1>5, <1>6, <1>7, <1>10, <1>11, <1>12 DEF OrderlyInv

----------------------------------------------------------------------------
(* The other steps.                                                        *)

LEMMA NodeMovesOrderly ==
    ASSUME WorkingStream, OrderlyInv, NodeMoves PROVE OrderlyInv'
<1>1. /\ NodeStep /\ chain' \in Chains /\ Len(chain') >= Len(chain)
      /\ UNCHANGED <<indexing, chainHeight, cursor, store, cache, inflight, pass, boot>>
  BY DEF NodeMoves, NodeStep
<1>2. UNCHANGED <<lastScanned, lastHash, diskCursor, index, buffer, file, diskIndex>>
  BY <1>1 DEF cursor, store
<1>3. /\ Len(chain) \in Nat /\ Len(chain') \in Nat /\ chainHeight \in Nat
      /\ index \in Seq(IndexEntry) /\ diskIndex \in Seq(IndexEntry)
  BY <1>1, ChainAssumption DEF OrderlyInv, Shape
<1>4. \A idx \in Seq(IndexEntry) : UpTo(idx, Len(chain)) => UpTo(idx, Len(chain'))
  <2>. SUFFICES ASSUME NEW idx \in Seq(IndexEntry), UpTo(idx, Len(chain))
                PROVE  UpTo(idx, Len(chain'))
    OBVIOUS
  <2>1. \A k \in 1..Len(idx) : idx[k].block \in Nat
    BY EntryTypes
  <2>. QED  BY <1>1, <1>3, <2>1 DEF UpTo
<1>5. /\ UpTo(index', Len(chain')) /\ UpTo(diskIndex', Len(chain'))
      /\ chainHeight' <= Len(chain')
  <2>1. chainHeight <= Len(chain')
    BY <1>1, <1>3 DEF OrderlyInv
  <2>. QED  BY <1>1, <1>2, <1>3, <1>4, <2>1 DEF OrderlyInv
<1>6. Shape' /\ CacheInv'
  BY <1>1, <1>2 DEF OrderlyInv, Shape, CacheInv
<1>7. BootType' /\ NoIds' /\ DecodeInv'
  BY <1>1 DEF OrderlyInv, BootType, NoIds, DecodeInv
<1>8. CASE boot.pc = "live"
  <2>1. Inv' /\ StoreInv'
    BY <1>1, <1>8, NextInv, StoreNext DEF OrderlyInv, LiveInv, Next
  <2>2. \A v \in Worker : pass'[v].pc \in Scanning => pass'[v].at <= Len(chain')
    <3>1. \A v \in Worker : pass[v].at \in Nat
      BY DEF OrderlyInv, Shape, Pass
    <3>. QED  BY <1>1, <1>3, <1>8, <3>1 DEF OrderlyInv, LiveInv
  <2>3. LiveInv'
    BY <1>1, <1>2, <1>8, <2>1, <2>2 DEF OrderlyInv, LiveInv
  <2>. QED  BY <1>1, <1>5, <1>6, <1>7, <1>8, <2>3 DEF OrderlyInv
<1>9. CASE boot.pc # "live"
  <2>1. Resting' /\ (DownInv => DownInv') /\ (StartInv => StartInv')
    BY <1>1, <1>2, <1>9 DEF OrderlyInv, Resting, DownInv, StartInv
  <2>. QED  BY <1>1, <1>5, <1>6, <1>7, <1>9, <2>1 DEF OrderlyInv
<1>. QED  BY <1>8, <1>9

\* Between two passes nothing is being written, and what is on disk is whole.
LEMMA StopOrderly ==
    ASSUME ~AbruptStops, OrderlyInv, Stop PROVE OrderlyInv'
<1>1. boot.pc = "live" /\ ~indexing /\ LiveInv
  BY DEF Stop, OrderlyInv
<1>2. \A w \in Worker : pass[w].pc = "idle"
  BY <1>1 DEF LiveInv, Inv, GateInv
<1>3. file = buffer /\ Delimits(index, file, Len(file))
  BY <1>1, <1>2 DEF LiveInv, StoreInv, Quiet, PC
<1>4. diskIndex = index /\ UpTo(index, diskCursor.height) /\ AllWhole(file, index)
  BY <1>1, <1>2 DEF LiveInv
<1>5. file' = file
  <2>1. BeingWritten = <<>>
    BY <1>1, <1>2 DEF BeingWritten, Somewhere
  <2>2. file' = file \o SubSeq(<<>>, 1, 0)
    <3>1. PICK k \in 0..Len(BeingWritten) : file' = file \o SubSeq(BeingWritten, 1, k)
      BY DEF Stop
    <3>2. k = 0
      BY <2>1, <3>1
    <3>. QED  BY <2>1, <3>1, <3>2
  <2>3. file \in Seq(Bytes)
    BY DEF OrderlyInv, Shape, Bytes
  <2>4. SubSeq(<<>>, 1, 0) = <<>>
    OBVIOUS
  <2>. QED  BY <2>2, <2>3, <2>4
<1>6. /\ UNCHANGED <<chain, diskIndex, diskCursor>>
      /\ indexing' = FALSE /\ chainHeight' = 0 /\ lastScanned' = 0 /\ lastHash' = NoBlock
      /\ index' = <<>> /\ buffer' = <<>> /\ cache' = EmptyCache
      /\ inflight' = NoRequest /\ boot' = Down
  BY DEF Stop
<1>7. pass' \in [Worker -> Pass] /\ \A w \in Worker : pass'[w].pc = "idle"
  BY DEF Stop, IdlePass, Pass, PC, NoOffset
<1>8. Shape'
  <2>1. /\ chain \in Chains /\ diskIndex \in Seq(IndexEntry) /\ file \in Seq(Bytes)
        /\ diskCursor \in [height : Nat, hash : Block \cup {NoBlock}]
    BY DEF OrderlyInv, Shape, Bytes
  <2>2. <<>> \in Seq(IndexEntry) /\ <<>> \in Seq(Packet)
    OBVIOUS
  <2>. QED  BY <1>5, <1>6, <1>7, <2>1, <2>2, EmptyCacheIs DEF Shape, Bytes
<1>9. /\ BootType' /\ boot'.pc = "down" /\ boot'.found = <<>>
  <2>1. "down" \in BootPC /\ <<>> \in Seq(Block)
    BY DEF BootPC
  <2>. QED  BY <1>6, <2>1 DEF BootType, Down
<1>10. CacheInv' /\ NoIds' /\ DecodeInv'
  BY <1>6, <1>7, EmptyCacheIs DEF CacheInv, NoIds, DecodeInv, Decoded
<1>11. /\ UpTo(index', Len(chain')) /\ UpTo(diskIndex', Len(chain'))
       /\ chainHeight' <= Len(chain')
  <2>1. Len(chain) \in Nat
    BY ChainAssumption DEF OrderlyInv, Shape
  <2>. QED  BY <1>6, <2>1 DEF OrderlyInv, UpTo
<1>12. DownInv'
  BY <1>3, <1>4, <1>5, <1>6, <1>9 DEF DownInv
<1>13. Resting'
  BY <1>1, <1>3, <1>5, <1>6, <1>7 DEF Resting, LiveInv, Inv, Shape
<1>. QED  BY <1>8, <1>9, <1>10, <1>11, <1>12, <1>13 DEF OrderlyInv

LEMMA OrderlyNext ==
    ASSUME ~AbruptStops, WorkingStream, OrderlyInv, [RestartNext]_allvars
    PROVE  OrderlyInv'
<1>1. CASE BootStep
  BY <1>1, ConnectOrderly, CheckHashOrderly, CutFileOrderly, CutIndexOrderly,
     CutCursorOrderly, BeginScanOrderly, ScanBlockOrderly, SkipBlockOrderly,
     NextHashOrderly, AppendBatchOrderly, SaveBatchOrderly, SaveCursorOrderly,
     LoadOrderly
  DEF BootStep
<1>2. CASE UNCHANGED allvars
  <2>1. UNCHANGED <<chain, indexing, chainHeight, lastScanned, lastHash, index, buffer,
                    cache, file, diskIndex, diskCursor, inflight, pass, boot>>
    BY <1>2 DEF allvars, vars
  <2>2. Shape' /\ BootType' /\ CacheInv' /\ NoIds' /\ DecodeInv'
    BY <2>1 DEF OrderlyInv, Shape, BootType, CacheInv, NoIds, DecodeInv
  <2>3. (Resting => Resting') /\ (DownInv => DownInv') /\ (StartInv => StartInv')
    BY <2>1 DEF Resting, DownInv, StartInv
  <2>4. LiveInv => LiveInv'
    <3>1. Inv /\ StoreInv /\ WorkingStream => Inv' /\ StoreInv'
      BY <1>2, NextInv, StoreNext DEF allvars
    <3>. QED  BY <2>1, <3>1 DEF LiveInv
  <2>. QED  BY <2>1, <2>2, <2>3, <2>4 DEF OrderlyInv
<1>. QED
  BY <1>1, <1>2, LiveOrderly, NodeMovesOrderly, StopOrderly DEF RestartNext

\* The inductive invariant, of every behaviour.
LEMMA OrderlyInvariance ==
    ASSUME ~AbruptStops, WorkingStream PROVE RestartSpec => []OrderlyInv
<1>1. OrderlyInv /\ [RestartNext]_allvars => OrderlyInv'
  BY OrderlyNext
<1>. QED  BY <1>1, OrderlyInit, PTL DEF RestartSpec

----------------------------------------------------------------------------
(* The theorems about stops between passes.                                *)

\* However often the bridge is stopped between two passes and started again,
\* whatever the node and the RPCs do meanwhile, the stream it serves is cut by
\* its index into whole blocks of ascending height, none twice: starts append
\* what is missing to what the disk kept, and no more.
THEOREM ServesSound ==
    ASSUME ~AbruptStops, WorkingStream PROVE RestartSpec => []ServesWellFormed
<1>1. OrderlyInv => ServesWellFormed
  BY StoreInvMeans DEF OrderlyInv, LiveInv, ServesWellFormed, Booting
<1>. QED  BY <1>1, OrderlyInvariance, PTL

\* And whenever it is down, each entry of the saved index names a whole block
\* of its height in shield.bin, for the next start to go on from.
THEOREM SavedIndexSound ==
    ASSUME ~AbruptStops, WorkingStream PROVE RestartSpec => []SavedIndexBacked
<1>1. OrderlyInv => SavedIndexBacked
  <2>. SUFFICES ASSUME OrderlyInv, Booting("down"), NEW k \in 1..Len(diskIndex)
                PROVE  Backs(file, diskIndex[k])
    BY DEF SavedIndexBacked
  <2>1. file \in Seq(Bytes) /\ diskIndex[k] \in IndexEntry /\ Whole(file, diskIndex[k])
    BY DEF OrderlyInv, Shape, Booting, DownInv, AllWhole, Bytes
  <2>. QED  BY <2>1, WholeBacks
<1>. QED  BY <1>1, OrderlyInvariance, PTL

----------------------------------------------------------------------------
(* Stops anywhere, on a chain that grows and with a node that answers: the  *)
(* inductive invariant.                                                     *)

GrowingNode == ~Reorgs /\ ~RpcMayFail

\* The blocks of s are the node's.
Followed(s) ==
    /\ s \in Seq(Block) /\ Len(s) <= Len(chain)
    /\ \A h \in 1..Len(s) : s[h] = chain[h]

\* idx has every block with Sapling transactions up to height h.
Covers(idx, h) == \A g \in 1..h : ShieldTxs[chain[g]] > 0 => g \in HeightsIn(idx)

\* idx is in order, and has all there is up to its last block.
Gapless(idx, h) ==
    AscendingHeights(idx) /\ UpTo(idx, h) /\ Covers(idx, LastHeight(idx))

\* The height a start resumes behind.
ResumeAt(idx, h) == IF h > 0 THEN h ELSE LastHeight(idx)

CachedOnChain ==
    \A h \in Heights : cache.h2h[h] # NoBlock =>
      h <= Len(chain) /\ cache.h2h[h] = chain[h]

\* What is on disk, at any time.
SavedInv ==
    /\ file \in Seq(Packet) /\ AllWhole(file, diskIndex)
    /\ Gapless(diskIndex, Len(chain))
    /\ diskCursor.height <= Len(chain)
    /\ diskCursor.height > 0 => diskCursor.hash \in {NoBlock, chain[diskCursor.height]}
    /\ Followed(resume) /\ Len(resume) = ResumeAt(diskIndex, diskCursor.height)
    /\ Covers(diskIndex, Len(resume))

\* What the scan has found is on the node's chain, in order, and together with
\* what is indexed all there is up to height h.
FoundAll(idx, found, h) ==
    /\ \A j \in 1..Len(found) :
         /\ HeightOf[found[j]] <= h /\ chain[HeightOf[found[j]]] = found[j]
         /\ ShieldTxs[found[j]] > 0
    /\ \A i, j \in 1..Len(found) : i < j => HeightOf[found[i]] < HeightOf[found[j]]
    /\ \A g \in 1..h : ShieldTxs[chain[g]] > 0 =>
         g \in HeightsIn(idx) \/ \E j \in 1..Len(found) : HeightOf[found[j]] = g

\* While the program starts: it finds nothing to cut, and every block.
ScanInv ==
    /\ boot.pc \in {"check", "from", "scan", "append", "save", "cursor", "load"}
    /\ AllWhole(file, index) /\ Gapless(index, chainHeight)
    /\ boot.pc # "save" => diskIndex = index
    /\ Followed(scanned) /\ Len(scanned) <= chainHeight /\ Len(resume) <= chainHeight
    /\ boot.pc \in {"check", "from"} =>
         /\ lastScanned = diskCursor.height /\ lastHash = diskCursor.hash
         /\ scanned = resume /\ boot.found = <<>>
    /\ boot.pc = "scan" =>
         /\ boot.at = Len(scanned) + 1 /\ boot.at <= chainHeight
         /\ boot.seen = chain[boot.at] /\ FoundAll(index, boot.found, Len(scanned))
    /\ boot.pc \in {"append", "save", "cursor", "load"} => Len(scanned) = chainHeight
    /\ boot.pc = "append" => FoundAll(index, boot.found, chainHeight)
    /\ boot.pc \in {"save", "cursor", "load"} => Covers(index, chainHeight)
    /\ boot.pc = "load" => lastScanned = chainHeight

Repairing == {"fork", "invalidate", "truncate", "saveindex", "rewind"}

\* What the locals of w's pass have to do with the node's chain and the file.
FollowsChain(w) ==
    /\ pass[w].pc \notin Repairing
    /\ pass[w].pc \in Scanning =>
         pass[w].at <= Len(chain) /\ pass[w].seen = chain[pass[w].at]
    /\ pass[w].pc \in {"extend", "add"} =>
         pass[w].off \in Nat /\ PacketsAt(file, pass[w].off, pass[w].seen)
    /\ pass[w].pc = "detect" /\ pass[w].at > 1 => pass[w].seen = chain[pass[w].at - 1]
    /\ pass[w].pc = "advance" => HeightOf[pass[w].seen] \in HeightsIn(index)
    /\ pass[w].pc = "cursor" /\ lastScanned > 0 =>
         pass[w].seen \in {NoBlock, chain[lastScanned]}

\* While it runs: it finds nothing to cut either, and the saved index follows
\* the one in memory.
FollowInv ==
    /\ Inv /\ Traced /\ Followed(scanned)
    /\ diskIndex = index /\ Covers(index, lastScanned)
    /\ \A w \in Worker : FollowsChain(w)

CrashInv ==
    /\ Shape /\ BootType /\ CachedOnChain /\ NoIds /\ DecodeInv
    /\ chainHeight <= Len(chain) /\ SavedInv
    /\ boot.pc = "live" => FollowInv
    /\ boot.pc # "live" => indexing = FALSE /\ \A w \in Worker : pass[w].pc = "idle"
    /\ boot.pc = "down" => boot.found = <<>> /\ scanned = resume
    /\ boot.pc \notin {"down", "live"} => ScanInv

----------------------------------------------------------------------------
(* What these say about chains, indexes and files.                         *)

LEMMA ChainFacts ==
    ASSUME chain \in Chains
    PROVE  /\ chain \in Seq(Block) /\ Len(chain) \in Nat /\ Len(chain) <= MaxHeight
           /\ \A h \in 1..Len(chain) :
                /\ h \in Heights /\ chain[h] \in Block /\ chain[h] # NoBlock
                /\ HeightOf[chain[h]] = h /\ NodeHash(h) = chain[h]
<1>1. chain \in Seq(Block) /\ Len(chain) \in Nat /\ Len(chain) <= MaxHeight
  BY ChainAssumption
<1>2. MaxHeight \in Nat
  BY ChainAssumption
<1>3. \A h \in 1..Len(chain) : h \in 1..MaxHeight
  BY <1>1, <1>2
<1>. QED  BY <1>1, <1>3, ChainAssumption DEF Heights, NodeHash

\* A node that answers gives the hash of its own block.
LEMMA SureAnswer == ASSUME GrowingNode PROVE \A h : HashAnswers(h) = {NodeHash(h)}
BY DEF GrowingNode, HashAnswers

\* The last entry of an index in order has the greatest height.
LEMMA LastHeightIs ==
    ASSUME NEW idx \in Seq(IndexEntry), AscendingHeights(idx)
    PROVE  /\ LastHeight(idx) \in Nat /\ UpTo(idx, LastHeight(idx))
           /\ \A g \in HeightsIn(idx) : g \in Nat /\ g > 0 /\ g <= LastHeight(idx)
           /\ \A h \in Nat : UpTo(idx, h) => LastHeight(idx) <= h
           /\ LastHeight(idx) > 0 => LastHeight(idx) \in HeightsIn(idx)
<1>1. /\ Len(idx) \in Nat
      /\ \A k \in 1..Len(idx) : idx[k].block \in Nat /\ idx[k].block > 0
  <2>1. \A e \in IndexEntry : e.block > 0
    BY ChainAssumption DEF IndexEntry, Heights
  <2>. QED  BY <2>1, EntryTypes
<1>2. CASE idx = <<>>
  BY <1>2 DEF LastHeight, UpTo, HeightsIn
<1>3. CASE idx # <<>>
  <2>1. Len(idx) \in 1..Len(idx)
    BY <1>1, <1>3
  <2>2. LastHeight(idx) = idx[Len(idx)].block
    BY <1>3 DEF LastHeight
  <2>3. \A k \in 1..Len(idx) : idx[k].block <= idx[Len(idx)].block
    <3>1. ASSUME NEW k \in 1..Len(idx) PROVE idx[k].block <= idx[Len(idx)].block
      <4>1. k = Len(idx) \/ k < Len(idx)
        BY <1>1
      <4>. QED  BY <1>1, <2>1, <4>1 DEF AscendingHeights
    <3>. QED  BY <3>1
  <2>. QED  BY <1>1, <2>1, <2>2, <2>3 DEF UpTo, HeightsIn
<1>. QED  BY <1>2, <1>3

\* What covers the chain up to a height covers it up to any lower one.
LEMMA CoversLess ==
    ASSUME NEW idx, NEW h \in Nat, NEW g \in Nat, Covers(idx, h), g <= h
    PROVE  Covers(idx, g)
<1>1. \A x \in 1..g : x \in 1..h
  OBVIOUS
<1>. QED  BY <1>1 DEF Covers

\* An index in order, with nothing above a height it covers, has no gap.
LEMMA GaplessIs ==
    ASSUME NEW idx \in Seq(IndexEntry), AscendingHeights(idx), NEW h \in Nat,
           UpTo(idx, h), Covers(idx, h), NEW n \in Nat, h <= n
    PROVE  Gapless(idx, n)
<1>1. LastHeight(idx) \in Nat /\ LastHeight(idx) <= h
  BY LastHeightIs
<1>2. Covers(idx, LastHeight(idx))
  BY <1>1, CoversLess
<1>3. \A k \in 1..Len(idx) : idx[k].block \in Nat
  BY EntryTypes
<1>. QED  BY <1>2, <1>3 DEF Gapless, UpTo

\* g is f with more behind it.
Grows(f, g) == Len(f) <= Len(g) /\ \A p \in 1..Len(f) : g[p] = f[p]

LEMMA AllWholeGrows ==
    ASSUME NEW f \in Seq(Bytes), NEW g \in Seq(Bytes), NEW idx \in Seq(IndexEntry),
           AllWhole(f, idx), Grows(f, g)
    PROVE  AllWhole(g, idx)
<1>1. \A k \in 1..Len(idx) : idx[k] \in IndexEntry /\ Whole(f, idx[k])
  BY DEF AllWhole
<1>. QED  BY <1>1, WholeGrows DEF AllWhole, Grows

\* An append that is cut short adds to the file all the same.
LEMMA PartGrows ==
    ASSUME NEW f \in Seq(Packet), NEW e \in Seq(Packet), NEW k \in 0..Len(e)
    PROVE  f \o SubSeq(e, 1, k) \in Seq(Packet) /\ Grows(f, f \o SubSeq(e, 1, k))
<1>1. k \in Nat /\ k <= Len(e)
  OBVIOUS
<1>2. SubSeq(e, 1, k) \in Seq(Packet)
  BY <1>1, PrefixType
<1>. DEFINE t == SubSeq(e, 1, k)
<1>. HIDE DEF t
<1>3. t \in Seq(Packet) => f \o t \in Seq(Packet) /\ Len(f) <= Len(f \o t)
                           /\ \A p \in 1..Len(f) : (f \o t)[p] = f[p]
  OBVIOUS
<1>. QED  BY <1>2, <1>3 DEF Grows, t

\* recover_cache keeps every block that is whole.
LEMMA RecoveryKeepsWhole ==
    ASSUME NEW f \in Seq(Packet), NEW idx \in Seq(IndexEntry), AllWhole(f, idx)
    PROVE  RecoverCache(f) \in Seq(Packet) /\ AllWhole(RecoverCache(f), idx)
<1>. DEFINE S == Footers(f)
            l == LastOf(S)
<1>1. CASE S = {}
  BY <1>1 DEF RecoverCache
<1>2. CASE S # {}
  <2>1. S \in SUBSET Nat /\ (\A x \in S : x <= Len(f) /\ x > 0) /\ Len(f) \in Nat
    BY DEF Footers
  <2>2. l \in S /\ \A y \in S : y <= l
    <3>. HIDE DEF S
    <3>. QED  BY <1>2, <2>1, GreatestElement
  <2>3. RecoverCache(f) = SubSeq(f, 1, l)
    BY <1>2 DEF RecoverCache
  <2>4. /\ SubSeq(f, 1, l) \in Seq(Packet) /\ Len(SubSeq(f, 1, l)) = l
        /\ \A p \in 1..l : SubSeq(f, 1, l)[p] = f[p]
    <3>1. l \in Nat /\ l <= Len(f)
      BY <2>1, <2>2
    <3>. HIDE DEF l
    <3>. QED  BY <3>1
  <2>. HIDE DEF l
  <2>5. ASSUME NEW k \in 1..Len(idx) PROVE Whole(SubSeq(f, 1, l), idx[k])
    <3>1. PICK b \in Block : HeightOf[b] = idx[k].block /\ PacketsAt(f, idx[k].i, b)
      BY DEF AllWhole, Whole
    <3>2. idx[k].i \in Nat /\ ShieldTxs[b] \in Nat
      BY EntryTypes, ChainAssumption
    <3>. DEFINE i == idx[k].i
                n == ShieldTxs[b] + 1
    <3>3. n \in 1..n /\ n \in Nat /\ ~(n <= ShieldTxs[b])
      BY <3>2
    <3>4. i + n <= Len(f) /\ f[i + n] = <<b, 0>>
      BY <2>1, <3>1, <3>2, <3>3, SMTT(30) DEF PacketsAt
    <3>5. i + n \in S
      <4>1. i + n \in 1..Len(f)
        BY <2>1, <3>2, <3>3, <3>4
      <4>2. b # NoBlock
        BY ChainAssumption
      <4>. QED  BY <3>4, <4>1, <4>2 DEF Footers
    <3>6. i + n <= l /\ l \in Nat
      BY <2>1, <2>2, <3>5
    <3>7. /\ i + ShieldTxs[b] + 1 <= l
          /\ \A p \in 1..(i + ShieldTxs[b] + 1) : SubSeq(f, 1, l)[p] = f[p]
      <4>1. i + n = i + ShieldTxs[b] + 1 /\ \A p \in 1..(i + ShieldTxs[b] + 1) : p \in 1..l
        BY <3>2, <3>6, SMTT(30)
      <4>. QED  BY <2>4, <3>6, <4>1, SMTT(30)
    <3>8. f \in Seq(Bytes) /\ SubSeq(f, 1, l) \in Seq(Bytes)
      BY <2>4 DEF Packet, Bytes
    <3>9. PacketsAt(SubSeq(f, 1, l), i, b)
      BY <2>4, <3>1, <3>2, <3>7, <3>8, PacketsKept
    <3>. QED  BY <3>1, <3>9 DEF Whole
  <2>. QED  BY <2>3, <2>4, <2>5 DEF AllWhole
<1>. QED  BY <1>1, <1>2

\* What a scan has found is new to the index, or has been there.
NewOrThere(idx, found) ==
    /\ \A j \in 1..Len(found) :
         \/ HeightOf[found[j]] \in HeightsIn(idx)
         \/ \A k \in 1..Len(idx) : idx[k].block < HeightOf[found[j]]
    /\ \A i, j \in 1..Len(found) : i < j => HeightOf[found[i]] < HeightOf[found[j]]

\* Appending that leaves the index in order, and the file a file of packets.
LEMMA BatchAscends ==
    ASSUME NEW idx \in Seq(IndexEntry), NEW f \in Seq(Packet), NEW found \in Seq(Block),
           AscendingHeights(idx), NewOrThere(idx, found)
    PROVE  LET r == Batch(idx, f, found)
           IN  r.file \in Seq(Packet) /\ AscendingHeights(r.index)
<1>1. PICK after :
        Batch(idx, f, found) = after[Len(found)] /\ Writes(after, idx, f, found)
  BY BatchUnfolds
<1>. DEFINE I(n) == after[n].index
            F(n) == after[n].file
            Good(n) ==
              /\ I(n) \in Seq(IndexEntry) /\ F(n) \in Seq(Packet)
              /\ AscendingHeights(I(n))
              /\ \A j \in (n + 1)..Len(found) :
                   \/ HeightOf[found[j]] \in HeightsIn(I(n))
                   \/ \A k \in 1..Len(I(n)) : I(n)[k].block < HeightOf[found[j]]
            Wrong == {n \in 0..Len(found) : ~Good(n)}
<1>2. Len(found) \in Nat
  OBVIOUS
<1>3. Good(0)
  <2>1. I(0) = idx /\ F(0) = f
    BY <1>1 DEF Writes
  <2>2. \A j \in (0 + 1)..Len(found) : j \in 1..Len(found)
    OBVIOUS
  <2>. QED  BY <2>1, <2>2 DEF NewOrThere
<1>4. ASSUME NEW n \in 1..Len(found), Good(n - 1) PROVE Good(n)
  <2>. DEFINE b  == found[n]
              ix == I(n - 1)
              g  == F(n - 1)
              jx == I(n)
              h  == F(n)
              e  == [block |-> HeightOf[b], i |-> Len(g)]
  <2>1. /\ b \in Block /\ n - 1 \in Nat /\ n \in Nat
        /\ jx = AddEntry(ix, HeightOf[b], Len(g))
        /\ h = g \o Encode(b, ShieldTxs[b])
    <3>1. /\ b \in Block /\ n - 1 \in Nat /\ n \in Nat
      BY <1>2
    <3>2. after[n] = [ index |-> AddEntry(ix, HeightOf[b], Len(g)),
                       file  |-> g \o Encode(b, ShieldTxs[b]) ]
      BY <1>1 DEF Writes
    <3>. HIDE DEF b, ix, g
    <3>. QED  BY <3>1, <3>2
  <2>2. /\ ix \in Seq(IndexEntry) /\ g \in Seq(Packet) /\ AscendingHeights(ix)
        /\ \A j \in n..Len(found) :
             \/ HeightOf[found[j]] \in HeightsIn(ix)
             \/ \A k \in 1..Len(ix) : ix[k].block < HeightOf[found[j]]
    <3>1. (n - 1) + 1 = n
      OBVIOUS
    <3>. QED  BY <1>4, <3>1
  <2>3. ShieldTxs[b] \in Nat /\ HeightOf[b] \in Heights
    BY <2>1, ChainAssumption
  <2>4. n \in n..Len(found) /\ \A j \in (n + 1)..Len(found) :
          j \in n..Len(found) /\ j \in 1..Len(found) /\ n < j
    BY <1>2, <2>1
  <2>5. \A j \in (n + 1)..Len(found) : HeightOf[b] < HeightOf[found[j]]
    BY <2>4 DEF NewOrThere
  <2>. HIDE DEF b, ix, g, jx, h, e
  <2>6. h \in Seq(Packet)
    BY <2>1, <2>2, <2>3, EncodedAtEnd
  <2>7. CASE HeightOf[b] \in HeightsIn(ix)
    <3>1. jx = ix
      BY <2>1, <2>7 DEF AddEntry
    <3>. QED  BY <2>2, <2>4, <2>6, <3>1 DEF jx, h
  <2>8. CASE HeightOf[b] \notin HeightsIn(ix)
    <3>1. \A k \in 1..Len(ix) : ix[k].block < HeightOf[b]
      BY <2>2, <2>4, <2>8 DEF b
    <3>2. /\ e \in IndexEntry /\ e.block = HeightOf[b] /\ Len(ix) \in Nat
      BY <2>2, <2>3 DEF e, IndexEntry
    <3>3. jx = Append(ix, e)
      BY <2>1, <2>8 DEF AddEntry, e
    <3>4. /\ jx \in Seq(IndexEntry) /\ Len(jx) = Len(ix) + 1
          /\ \A k \in 1..Len(ix) : jx[k] = ix[k]
          /\ jx[Len(ix) + 1] = e
      BY <2>2, <3>2, <3>3
    <3>5. \A k \in 1..Len(jx) : k \in 1..Len(ix) \/ k = Len(ix) + 1
      BY <3>2, <3>4
    <3>6. AscendingHeights(jx)
      <4>. SUFFICES ASSUME NEW k \in 1..Len(jx), NEW m \in 1..Len(jx), k < m
                    PROVE  jx[k].block < jx[m].block
        BY DEF AscendingHeights
      <4>1. k \in 1..Len(ix)
        BY <3>2, <3>4
      <4>. QED  BY <2>2, <3>1, <3>2, <3>4, <3>5, <4>1 DEF AscendingHeights
    <3>7. \A x \in HeightsIn(ix) : x \in HeightsIn(jx)
      <4>1. \A k \in 1..Len(ix) : k \in 1..Len(jx)
        BY <3>2, <3>4
      <4>. QED  BY <3>4, <4>1 DEF HeightsIn
    <3>8. \A j \in (n + 1)..Len(found) :
             \/ HeightOf[found[j]] \in HeightsIn(jx)
             \/ \A k \in 1..Len(jx) : jx[k].block < HeightOf[found[j]]
      BY <2>2, <2>4, <2>5, <3>2, <3>4, <3>5, <3>7
    <3>. QED  BY <2>6, <3>4, <3>6, <3>8 DEF jx, h
  <2>. QED  BY <2>7, <2>8
<1>. HIDE DEF Good
<1>5. Wrong = {}
  <2>. SUFFICES ASSUME Wrong # {} PROVE FALSE
    OBVIOUS
  <2>1. PICK k \in Wrong : \A n \in Wrong : k <= n
    <3>1. Wrong \in SUBSET Nat
      OBVIOUS
    <3>. HIDE DEF Wrong
    <3>. QED  BY <3>1, LeastElement
  <2>2. k # 0 /\ k \in 0..Len(found)
    BY <1>3, <2>1
  <2>3. k \in 1..Len(found) /\ k - 1 \in 0..Len(found) /\ ~(k <= k - 1)
    BY <1>2, <2>2
  <2>4. Good(k - 1)
    BY <2>1, <2>3
  <2>. QED  BY <1>4, <2>1, <2>3, <2>4
<1>6. Good(Len(found))
  BY <1>2, <1>5
<1>. QED  BY <1>1, <1>6 DEF Good

----------------------------------------------------------------------------
(* The steps of a start that nothing has to be cut for.                    *)

LEMMA CrashInit == RestartInit => CrashInv
<1>. SUFFICES ASSUME RestartInit PROVE CrashInv
  OBVIOUS
<1>1. OrderlyInv
  BY OrderlyInit
<1>2. /\ Shape /\ BootType /\ NoIds /\ DecodeInv /\ chainHeight <= Len(chain)
      /\ indexing = FALSE /\ \A w \in Worker : pass[w].pc = "idle"
  BY <1>1 DEF OrderlyInv, Resting, RestartInit, Down
<1>3. /\ boot.pc = "down" /\ boot.found = <<>> /\ scanned = resume
      /\ file = <<>> /\ diskIndex = <<>> /\ resume = <<>> /\ diskCursor.height = 0
      /\ cache = EmptyCache
  BY DEF RestartInit, Down, NoCursor
<1>4. CachedOnChain
  BY <1>3, EmptyCacheIs DEF CachedOnChain
<1>5. SavedInv
  <2>1. Len(chain) \in Nat
    BY <1>2, ChainFacts DEF Shape
  <2>2. LastHeight(diskIndex) = 0 /\ Len(resume) = 0 /\ file \in Seq(Packet)
        /\ resume \in Seq(Block)
    BY <1>3 DEF LastHeight
  <2>. QED
    BY <1>3, <2>1, <2>2
    DEF SavedInv, AllWhole, Gapless, AscendingHeights, UpTo, Covers, Followed, ResumeAt
<1>. QED  BY <1>2, <1>3, <1>4, <1>5 DEF CrashInv

\* A step that saves neither index nor cursor, and keeps what is in the file.
LEMMA SavedKept ==
    ASSUME Shape, SavedInv, UNCHANGED <<chain, diskIndex, diskCursor, resume>>,
           file' \in Seq(Packet), AllWhole(file', diskIndex)
    PROVE  SavedInv'
BY DEF SavedInv, Gapless, Covers, Followed

\* What a step of init_network has to show.
LEMMA BootKept ==
    ASSUME CrashInv, boot.pc # "live", boot'.pc \notin {"down", "live"},
           UNCHANGED <<chain, inflight, indexing, pass, buffer>>,
           BootType', ScanInv', SavedInv',
           chainHeight' \in Nat, chainHeight' <= Len(chain),
           lastScanned' \in Nat, lastHash' \in Block \cup {NoBlock},
           index' \in Seq(IndexEntry), diskIndex' \in Seq(IndexEntry),
           diskCursor' \in [height : Nat, hash : Block \cup {NoBlock}],
           cache' \in CacheType, CachedOnChain',
           \A e \in cache'.entries : e \in cache.entries \/ e[2] # 1
    PROVE  CrashInv'
<1>1. file' \in Seq(Bytes)
  BY DEF SavedInv, Packet, Bytes
<1>2. Shape'
  BY <1>1 DEF CrashInv, Shape, Bytes
<1>3. indexing' = FALSE /\ \A w \in Worker : pass'[w].pc = "idle"
  BY DEF CrashInv
<1>4. NoIds' /\ DecodeInv'
  BY DEF CrashInv, NoIds, DecodeInv, Decoded
<1>. QED  BY <1>2, <1>3, <1>4 DEF CrashInv

\* The same for a step that only moves on.
LEMMA BootMoves ==
    ASSUME CrashInv, boot.pc \notin {"down", "live"},
           boot'.pc \notin {"down", "live"}, BootType', ScanInv',
           UNCHANGED <<node, indexing, chainHeight, cursor, store, cache, pass, resume>>
    PROVE  CrashInv'
<1>1. UNCHANGED <<chain, inflight, lastScanned, lastHash, diskCursor, index, buffer, file,
                  diskIndex>>
  BY DEF node, cursor, store
<1>2. CachedOnChain'
  BY <1>1 DEF CrashInv, CachedOnChain
<1>3. SavedInv'
  BY <1>1, SavedKept DEF CrashInv, SavedInv
<1>. QED  BY <1>1, <1>2, <1>3, BootKept DEF CrashInv, Shape

LEMMA ConnectCrash ==
    ASSUME CrashInv, Connect PROVE CrashInv'
<1>1. /\ boot.pc = "down" /\ BootType /\ Shape /\ SavedInv /\ CachedOnChain
      /\ boot.found = <<>> /\ scanned = resume
  BY DEF CrashInv, Connect, Booting
<1>2. BootType' /\ boot'.pc = "check" /\ boot'.found = <<>>
  BY <1>1, BootToIs DEF Connect, BootPC
<1>3. /\ chainHeight' = Len(chain) /\ index' = diskIndex
      /\ lastScanned' = diskCursor.height /\ lastHash' = diskCursor.hash
      /\ file' = RecoverCache(file)
      /\ UNCHANGED <<diskCursor, diskIndex, chain, inflight, indexing, pass, buffer, cache,
                     scanned, resume>>
  BY DEF Connect, node
<1>4. file' \in Seq(Packet) /\ AllWhole(file', diskIndex)
  BY <1>1, <1>3, RecoveryKeepsWhole DEF Shape, SavedInv
<1>5. SavedInv'
  BY <1>1, <1>3, <1>4, SavedKept
<1>6. ScanInv'
  <2>1. Gapless(index, chainHeight)'
    BY <1>1, <1>3 DEF SavedInv, Gapless, Covers
  <2>2. Followed(scanned)' /\ Len(scanned') <= chainHeight' /\ Len(resume') <= chainHeight'
    BY <1>1, <1>3 DEF SavedInv, Followed
  <2>3. AllWhole(file', index')
    BY <1>3, <1>4
  <2>. QED  BY <1>1, <1>2, <1>3, <2>1, <2>2, <2>3 DEF ScanInv
<1>7. CachedOnChain'
  BY <1>1, <1>3 DEF CachedOnChain
<1>8. Len(chain) \in Nat
  BY <1>1, ChainFacts DEF Shape
<1>. QED
  BY <1>1, <1>2, <1>3, <1>5, <1>6, <1>7, <1>8, BootKept DEF Shape

\* ScanInv speaks of the chain, of the store, of the cursor and of the locals.
LEMMA ScanKept ==
    ASSUME ScanInv, UNCHANGED <<chain, chainHeight, file, index, resume, scanned, diskIndex>>,
           boot'.pc \in {"check", "from", "scan", "append", "cursor", "load"},
           diskIndex = index,
           boot'.pc \in {"check", "from"} =>
             /\ lastScanned' = diskCursor'.height /\ lastHash' = diskCursor'.hash
             /\ scanned' = resume' /\ boot'.found = <<>>,
           boot'.pc = "scan" =>
             /\ boot'.at = Len(scanned) + 1 /\ boot'.at <= chainHeight
             /\ boot'.seen = chain[boot'.at] /\ FoundAll(index, boot'.found, Len(scanned)),
           boot'.pc \in {"append", "cursor", "load"} => Len(scanned) = chainHeight,
           boot'.pc = "append" => FoundAll(index, boot'.found, chainHeight),
           boot'.pc \in {"cursor", "load"} => Covers(index, chainHeight),
           boot'.pc = "load" => lastScanned' = chainHeight
    PROVE  ScanInv'
BY DEF ScanInv, Gapless, Covers, Followed, FoundAll

\* The saved hash is the node's: the check finds nothing.
LEMMA CheckHashCrash ==
    ASSUME GrowingNode, CrashInv, CheckHash PROVE CrashInv'
<1>1. boot.pc = "check" /\ BootType /\ ScanInv /\ Shape /\ SavedInv
  BY DEF CrashInv, CheckHash, Booting
<1>2. UNCHANGED <<node, indexing, chainHeight, cursor, store, cache, pass, resume>>
  BY DEF CheckHash
<1>3. BootTo("from")
  <2>1. CASE lastHash = NoBlock \/ lastScanned = 0
    BY <2>1 DEF CheckHash
  <2>2. CASE ~(lastHash = NoBlock \/ lastScanned = 0)
    <3>1. lastScanned \in 1..Len(chain) /\ lastHash = chain[lastScanned]
      BY <1>1, <2>2 DEF ScanInv, SavedInv, Shape
    <3>2. HashAnswers(lastScanned) = {lastHash}
      BY <1>1, <3>1, SureAnswer, ChainFacts DEF Shape
    <3>. QED  BY <2>2, <3>2 DEF CheckHash
  <2>. QED  BY <2>1, <2>2
<1>4. BootType' /\ boot'.pc = "from" /\ boot'.found = boot.found
  BY <1>1, <1>3, BootToIs DEF BootPC
<1>5. ScanInv'
  <2>1. UNCHANGED <<chain, chainHeight, file, index, resume, scanned, diskIndex,
                    lastScanned, lastHash, diskCursor>>
    BY <1>2 DEF node, cursor, store
  <2>2. diskIndex = index
    BY <1>1 DEF ScanInv
  <2>3. /\ lastScanned' = diskCursor'.height /\ lastHash' = diskCursor'.hash
        /\ scanned' = resume' /\ boot'.found = <<>>
    BY <1>1, <1>4, <2>1 DEF ScanInv
  <2>. QED  BY <1>1, <1>4, <2>1, <2>2, <2>3, ScanKept
<1>. QED  BY <1>1, <1>2, <1>4, <1>5, BootMoves

LEMMA BeginScanCrash ==
    ASSUME GrowingNode, CrashInv, BeginScan PROVE CrashInv'
<1>1. /\ boot.pc = "from" /\ BootType /\ ScanInv /\ Shape /\ SavedInv
      /\ chainHeight <= Len(chain)
  BY DEF CrashInv, BeginScan, Booting
<1>2. UNCHANGED <<node, indexing, chainHeight, cursor, store, cache, pass, resume>>
  BY DEF BeginScan
<1>3. UNCHANGED <<chain, chainHeight, file, index, resume, scanned, diskIndex,
                  lastScanned, lastHash, diskCursor>>
  BY <1>2 DEF node, cursor, store
<1>4. /\ diskIndex = index /\ scanned = resume /\ boot.found = <<>>
      /\ lastScanned = diskCursor.height /\ Len(scanned) <= chainHeight
      /\ scanned \in Seq(Block) /\ Len(scanned) \in Nat /\ chainHeight \in Nat
  BY <1>1 DEF ScanInv, Followed, Shape
<1>5. ScanFrom = Len(scanned) + 1
  BY <1>1, <1>4 DEF SavedInv, ResumeAt, ScanFrom
<1>6. Covers(index, Len(scanned))
  BY <1>1, <1>4 DEF SavedInv
<1>7. CASE ScanFrom > chainHeight
  <2>1. BootTo("cursor")
    BY <1>7 DEF BeginScan
  <2>2. BootType' /\ boot'.pc = "cursor"
    BY <1>1, <2>1, BootToIs DEF BootPC
  <2>3. Len(scanned) = chainHeight
    BY <1>4, <1>5, <1>7
  <2>4. ScanInv'
    BY <1>1, <1>3, <1>4, <1>6, <2>2, <2>3, ScanKept
  <2>. QED  BY <1>1, <1>2, <2>2, <2>4, BootMoves
<1>8. CASE ~(ScanFrom > chainHeight)
  <2>. DEFINE at == ScanFrom
  <2>1. at = Len(scanned) + 1 /\ at <= chainHeight /\ at \in 1..Len(chain)
    <3>1. Len(chain) \in Nat
      BY <1>1, ChainFacts DEF Shape
    <3>. QED  BY <1>1, <1>4, <1>5, <1>8, <3>1
  <2>2. chain[at] \in Block /\ chain[at] # NoBlock /\ HashAnswers(at) = {chain[at]}
    BY <1>1, <2>1, SureAnswer, ChainFacts DEF Shape
  <2>3. boot' = [boot EXCEPT !.pc = "scan", !.at = at, !.seen = chain[at]]
    BY <1>8, <2>2 DEF BeginScan
  <2>. HIDE DEF at
  <2>4. /\ boot'.pc = "scan" /\ boot'.at = at /\ boot'.seen = chain[at]
        /\ boot'.found = boot.found /\ BootType'
    <3>1. at \in Nat /\ chain[at] \in Block \cup {NoBlock} /\ "scan" \in BootPC
      BY <2>1, <2>2 DEF BootPC
    <3>. QED  BY <1>1, <2>3, <3>1 DEF BootType
  <2>5. FoundAll(index, boot'.found, Len(scanned))
    BY <1>4, <1>6, <2>4 DEF FoundAll, Covers
  <2>6. ScanInv'
    BY <1>1, <1>3, <1>4, <2>1, <2>4, <2>5, ScanKept
  <2>. QED  BY <1>1, <1>2, <2>4, <2>6, BootMoves
<1>. QED  BY <1>7, <1>8

\* A block of the node's chain enters the cache.
LEMMA InsertOnChain ==
    ASSUME chain \in Chains, cache \in CacheType, CachedOnChain, NEW b \in Block,
           NEW h \in 1..Len(chain), b = chain[h], NEW v \in Verbosity
    PROVE  LET c == Insert(cache, b, v)
           IN  /\ c \in CacheType
               /\ \A g \in Heights : c.h2h[g] # NoBlock =>
                    g <= Len(chain) /\ c.h2h[g] = chain[g]
<1>1. Evict(cache) \in CacheType
  BY ForgetType DEF Evict
<1>2. \A g \in Heights : Evict(cache).h2h[g] # NoBlock =>
        g <= Len(chain) /\ Evict(cache).h2h[g] = chain[g]
  BY DEF Evict, Forget, CachedOnChain
<1>3. h \in Heights /\ HeightOf[b] = h /\ h <= Len(chain)
  BY ChainFacts
<1>4. Insert(cache, b, v) \in CacheType
  BY InsertType
<1>5. ASSUME NEW g \in Heights, Insert(cache, b, v).h2h[g] # NoBlock
      PROVE  g <= Len(chain) /\ Insert(cache, b, v).h2h[g] = chain[g]
  <2>1. CASE <<b, v>> \in cache.entries
    BY <1>5, <2>1 DEF Insert, CachedOnChain
  <2>2. CASE <<b, v>> \notin cache.entries
    <3>1. Insert(cache, b, v).h2h[g] = IF g = h THEN b ELSE Evict(cache).h2h[g]
      BY <1>1, <1>3, <2>2 DEF Insert, CacheType
    <3>. QED  BY <1>2, <1>3, <1>5, <3>1
  <2>. QED  BY <2>1, <2>2
<1>. QED  BY <1>4, <1>5

\* One block more is scanned.
LEMMA FollowedMore ==
    ASSUME chain \in Chains, NEW s, Followed(s), NEW b, Len(s) + 1 <= Len(chain),
           b = chain[Len(s) + 1]
    PROVE  Followed(Append(s, b)) /\ Len(Append(s, b)) = Len(s) + 1
<1>. DEFINE t == Append(s, b)
<1>1. s \in Seq(Block) /\ Len(s) \in Nat /\ Len(chain) \in Nat
      /\ \A h \in 1..Len(s) : s[h] = chain[h]
  BY ChainFacts DEF Followed
<1>2. b \in Block
  BY <1>1, ChainFacts
<1>3. /\ t \in Seq(Block) /\ Len(t) = Len(s) + 1 /\ t[Len(s) + 1] = b
      /\ \A h \in 1..Len(s) : t[h] = s[h]
  BY <1>1, <1>2
<1>4. \A h \in 1..Len(t) : h \in 1..Len(s) \/ h = Len(s) + 1
  BY <1>1, <1>3
<1>. HIDE DEF t
<1>5. \A h \in 1..Len(t) : t[h] = chain[h]
  BY <1>1, <1>3, <1>4
<1>. QED  BY <1>3, <1>5 DEF Followed, t

LEMMA FollowedPart ==
    ASSUME chain \in Chains, NEW s, Followed(s), NEW n \in Nat, n <= Len(s)
    PROVE  Followed(SubSeq(s, 1, n)) /\ Len(SubSeq(s, 1, n)) = n
<1>1. s \in Seq(Block) /\ Len(s) \in Nat /\ Len(chain) \in Nat /\ Len(s) <= Len(chain)
      /\ \A h \in 1..Len(s) : s[h] = chain[h]
  BY ChainFacts DEF Followed
<1>2. SubSeq(s, 1, n) \in Seq(Block) /\ Len(SubSeq(s, 1, n)) = n
  BY <1>1, PrefixType
<1>3. \A h \in 1..n : h \in 1..Len(s) /\ SubSeq(s, 1, n)[h] = s[h]
  BY <1>1
<1>. QED  BY <1>1, <1>2, <1>3 DEF Followed

LEMMA FoundNext ==
    ASSUME chain \in Chains, NEW idx, NEW found \in Seq(Block), NEW n \in Nat,
           n + 1 <= Len(chain), FoundAll(idx, found, n), NEW more,
           more = IF ShieldTxs[chain[n + 1]] > 0 THEN Append(found, chain[n + 1]) ELSE found
    PROVE  more \in Seq(Block) /\ FoundAll(idx, more, n + 1)
<1>. DEFINE b == chain[n + 1]
<1>1. /\ n + 1 \in 1..Len(chain) /\ n + 1 \in Nat /\ ~(n + 1 <= n) /\ n <= n + 1
      /\ \A g \in 1..(n + 1) : g \in 1..n \/ g = n + 1
  BY ChainFacts
<1>2. b \in Block /\ HeightOf[b] = n + 1 /\ chain[HeightOf[b]] = b
  BY <1>1, ChainFacts
<1>3. /\ Len(found) \in Nat
      /\ \A j \in 1..Len(found) : found[j] \in Block /\ HeightOf[found[j]] \in Nat
  BY ChainAssumption DEF Heights
<1>4. /\ \A j \in 1..Len(found) :
           /\ HeightOf[found[j]] <= n /\ chain[HeightOf[found[j]]] = found[j]
           /\ ShieldTxs[found[j]] > 0
      /\ \A i, j \in 1..Len(found) : i < j => HeightOf[found[i]] < HeightOf[found[j]]
      /\ \A g \in 1..n : ShieldTxs[chain[g]] > 0 =>
           g \in HeightsIn(idx) \/ \E j \in 1..Len(found) : HeightOf[found[j]] = g
  BY DEF FoundAll
<1>5. \A j \in 1..Len(found) : HeightOf[found[j]] < n + 1 /\ HeightOf[found[j]] <= n + 1
  BY <1>3, <1>4, SMTT(30)
<1>6. CASE ShieldTxs[b] > 0
  <2>1. more = Append(found, b)
    BY <1>6
  <2>. HIDE DEF b
  <2>2. /\ more \in Seq(Block) /\ Len(more) = Len(found) + 1
        /\ \A j \in 1..Len(found) : more[j] = found[j] /\ j \in 1..Len(more)
        /\ more[Len(found) + 1] = b /\ Len(found) + 1 \in 1..Len(more)
    BY <1>2, <1>3, <2>1
  <2>3. \A j \in 1..Len(more) : j \in 1..Len(found) \/ j = Len(found) + 1
    BY <1>3, <2>2
  <2>4. \A j \in 1..Len(more) :
           /\ HeightOf[more[j]] <= n + 1 /\ chain[HeightOf[more[j]]] = more[j]
           /\ ShieldTxs[more[j]] > 0
    BY <1>1, <1>2, <1>4, <1>5, <1>6, <2>2, <2>3
  <2>5. ASSUME NEW i \in 1..Len(more), NEW j \in 1..Len(more), i < j
        PROVE  HeightOf[more[i]] < HeightOf[more[j]]
    <3>1. i \in 1..Len(found)
      BY <1>3, <2>2, <2>5
    <3>. QED  BY <1>2, <1>4, <1>5, <2>2, <2>3, <2>5, <3>1
  <2>6. ASSUME NEW g \in 1..(n + 1), ShieldTxs[chain[g]] > 0
        PROVE  g \in HeightsIn(idx) \/ \E j \in 1..Len(more) : HeightOf[more[j]] = g
    <3>1. CASE g = n + 1
      BY <1>2, <2>2, <3>1
    <3>2. CASE g \in 1..n
      BY <1>4, <2>2, <2>6, <3>2
    <3>. QED  BY <1>1, <3>1, <3>2
  <2>. QED  BY <2>2, <2>4, <2>5, <2>6 DEF FoundAll
<1>7. CASE ~(ShieldTxs[b] > 0)
  BY <1>1, <1>4, <1>5, <1>7 DEF FoundAll
<1>. QED  BY <1>6, <1>7

LEMMA ScanBlockCrash ==
    ASSUME CrashInv, ScanBlock PROVE CrashInv'
<1>. DEFINE n    == Len(scanned)
            b    == boot.seen
            more == IF ShieldTxs[b] > 0 THEN Append(boot.found, b) ELSE boot.found
<1>1. /\ boot.pc = "scan" /\ BootType /\ ScanInv /\ Shape /\ SavedInv /\ CachedOnChain
      /\ chainHeight <= Len(chain) /\ chain \in Chains /\ cache \in CacheType
  BY DEF CrashInv, ScanBlock, Booting, Shape
<1>2. /\ UNCHANGED <<node, indexing, chainHeight, lastScanned, lastHash, diskCursor,
                     store, pass, resume>>
      /\ cache' = Insert(cache, b, 2) /\ scanned' = Append(scanned, b)
  BY DEF ScanBlock
<1>3. UNCHANGED <<chain, inflight, chainHeight, index, buffer, file, diskIndex>>
  BY <1>2 DEF node, store
<1>4. /\ n \in Nat /\ chainHeight \in Nat /\ Len(chain) \in Nat /\ Followed(scanned)
      /\ boot.at = n + 1 /\ n + 1 <= chainHeight /\ n + 1 <= Len(chain)
      /\ n + 1 \in 1..Len(chain) /\ b = chain[n + 1] /\ b \in Block
      /\ FoundAll(index, boot.found, n) /\ boot.found \in Seq(Block) /\ diskIndex = index
  <2>1. n \in Nat /\ chainHeight \in Nat /\ Len(chain) \in Nat /\ Followed(scanned)
    BY <1>1, ChainFacts DEF ScanInv, Followed, Shape
  <2>2. /\ boot.at = n + 1 /\ n + 1 <= chainHeight /\ b = chain[n + 1]
        /\ FoundAll(index, boot.found, n) /\ boot.found \in Seq(Block) /\ diskIndex = index
    BY <1>1 DEF ScanInv, BootType
  <2>3. n + 1 <= Len(chain) /\ n + 1 \in 1..Len(chain)
    BY <1>1, <2>1, <2>2
  <2>. QED  BY <1>1, <2>1, <2>2, <2>3, ChainFacts
<1>5. more \in Seq(Block) /\ FoundAll(index, more, n + 1)
  BY <1>1, <1>4, FoundNext
<1>6. Followed(scanned') /\ Len(scanned') = n + 1
  BY <1>1, <1>2, <1>4, FollowedMore
<1>7. /\ cache' \in CacheType /\ CachedOnChain'
      /\ \A e \in cache'.entries : e \in cache.entries \/ e[2] # 1
  <2>1. 2 \in Verbosity
    BY DEF Verbosity
  <2>2. cache' \in CacheType /\ CachedOnChain'
    BY <1>1, <1>2, <1>3, <1>4, <2>1, InsertOnChain DEF CachedOnChain
  <2>3. \A e \in cache'.entries : e \in cache.entries \/ e = <<b, 2>>
    BY <1>1, <1>2, <1>4, InsertEntries
  <2>. QED  BY <2>2, <2>3
<1>8. ScanOn(more)
  BY DEF ScanBlock
<1>9. NodeHash(boot.at) = boot.seen
  BY <1>1, <1>4, ChainFacts
<1>10. SavedInv'
  BY <1>1, <1>2, <1>3, SavedKept DEF SavedInv
<1>11. UNCHANGED <<chain, chainHeight, file, index, resume, diskIndex>>
  BY <1>2, <1>3
<1>12. BootType' /\ ScanInv' /\ boot'.pc \notin {"down", "live"}
  <2>. HIDE DEF more, b
  <2>1. CASE boot.at = chainHeight
    <3>1. boot' = [boot EXCEPT !.pc = "append", !.found = more]
      BY <1>8, <2>1 DEF ScanOn
    <3>2. BootType' /\ boot'.pc = "append" /\ boot'.found = more
      BY <1>1, <1>5, <3>1 DEF BootType, BootPC
    <3>3. ScanInv'
      <4>1. FoundAll(index, boot.found, chainHeight)' /\ Len(scanned') = chainHeight'
        BY <1>4, <1>5, <1>6, <1>11, <2>1, <3>2 DEF FoundAll
      <4>2. Gapless(index, chainHeight)' /\ Followed(scanned)'
        BY <1>1, <1>6, <1>11 DEF ScanInv, Gapless, Covers, Followed
      <4>3. Len(scanned') <= chainHeight' /\ Len(resume') <= chainHeight'
        BY <1>1, <1>4, <1>6, <1>11 DEF ScanInv
      <4>. QED  BY <1>1, <1>4, <1>11, <3>2, <4>1, <4>2, <4>3 DEF ScanInv
    <3>. QED  BY <3>2, <3>3
  <2>2. CASE boot.at # chainHeight
    <3>. DEFINE next == chain[n + 2]
    <3>1. n + 2 \in 1..Len(chain) /\ n + 2 <= chainHeight /\ boot.at + 1 = n + 2
          /\ n + 2 = (n + 1) + 1 /\ n + 2 \in Nat
      BY <1>1, <1>4, <2>2
    <3>2. next \in Block /\ next # NoBlock /\ NodeHash(boot.at + 1) = next
      BY <1>1, <3>1, ChainFacts
    <3>3. boot' = [boot EXCEPT !.at = n + 2, !.seen = next, !.found = more]
      BY <1>8, <1>9, <2>2, <3>1, <3>2 DEF ScanOn
    <3>. HIDE DEF next
    <3>4. /\ BootType' /\ boot'.pc = "scan" /\ boot'.found = more
          /\ boot'.at = n + 2 /\ boot'.seen = next
      BY <1>1, <1>5, <3>1, <3>2, <3>3 DEF BootType
    <3>5. /\ boot'.at = Len(scanned') + 1 /\ boot'.at <= chainHeight'
          /\ boot'.seen = chain'[boot'.at]
      BY <1>4, <1>6, <1>11, <3>1, <3>4 DEF next
    <3>6. FoundAll(index, boot.found, Len(scanned))'
      BY <1>5, <1>6, <1>11, <3>4 DEF FoundAll
    <3>7. Gapless(index, chainHeight)' /\ Followed(scanned)'
      BY <1>1, <1>6, <1>11 DEF ScanInv, Gapless, Covers, Followed
    <3>8. Len(scanned') <= chainHeight' /\ Len(resume') <= chainHeight'
      BY <1>1, <1>4, <1>6, <1>11 DEF ScanInv
    <3>9. ScanInv'
      BY <1>1, <1>4, <1>11, <3>4, <3>5, <3>6, <3>7, <3>8 DEF ScanInv
    <3>. QED  BY <3>4, <3>9
  <2>. QED  BY <2>1, <2>2
<1>. QED
  BY <1>1, <1>2, <1>3, <1>4, <1>7, <1>10, <1>12, BootKept DEF Shape, CrashInv

\* The scan has found blocks in order, each new to the index or there already.
LEMMA FoundIsNew ==
    ASSUME chain \in Chains, NEW idx \in Seq(IndexEntry), NEW found \in Seq(Block),
           NEW h \in Nat, h <= Len(chain), Gapless(idx, h), FoundAll(idx, found, h)
    PROVE  NewOrThere(idx, found) /\ NewOrThere(<<>>, found)
<1>1. \A i, j \in 1..Len(found) : i < j => HeightOf[found[i]] < HeightOf[found[j]]
  BY DEF FoundAll
<1>2. ASSUME NEW j \in 1..Len(found), HeightOf[found[j]] \notin HeightsIn(idx),
             NEW k \in 1..Len(idx)
      PROVE  idx[k].block < HeightOf[found[j]]
  <2>. DEFINE g == HeightOf[found[j]]
              l == LastHeight(idx)
  <2>1. g \in Nat /\ g > 0 /\ chain[g] = found[j] /\ ShieldTxs[chain[g]] > 0
    <3>1. g \in Heights
      BY ChainAssumption
    <3>2. g \in Nat /\ g > 0
      BY <3>1, ChainAssumption DEF Heights
    <3>3. chain[g] = found[j] /\ ShieldTxs[found[j]] > 0
      BY DEF FoundAll
    <3>. QED  BY <3>2, <3>3
  <2>2. l \in Nat /\ idx[k].block \in Nat /\ idx[k].block <= l
    BY LastHeightIs, EntryTypes DEF Gapless, UpTo
  <2>3. g \in 1..l => g \in HeightsIn(idx)
    BY <2>1 DEF Gapless, Covers
  <2>. HIDE DEF g, l
  <2>4. ~(g <= l)
    BY <1>2, <2>1, <2>2, <2>3 DEF g
  <2>5. idx[k].block < g
    BY <2>1, <2>2, <2>4
  <2>. QED  BY <2>5 DEF g
<1>. QED  BY <1>1, <1>2 DEF NewOrThere

LEMMA AppendBatchCrash ==
    ASSUME WorkingStream, CrashInv, AppendBatch PROVE CrashInv'
<1>. DEFINE r == Batch(index, file, boot.found)
<1>1. /\ boot.pc = "append" /\ BootType /\ ScanInv /\ Shape /\ SavedInv
      /\ chainHeight <= Len(chain)
  BY DEF CrashInv, AppendBatch, Booting
<1>2. /\ UNCHANGED <<node, indexing, chainHeight, cursor, buffer, diskIndex, cache, pass,
                     resume>>
      /\ file' = r.file /\ index' = r.index /\ BootTo("save")
  BY DEF AppendBatch, MayFail, WorkingStream
<1>3. UNCHANGED <<chain, inflight, lastScanned, lastHash, diskCursor, scanned>>
  BY <1>2 DEF node, cursor
<1>4. /\ index \in Seq(IndexEntry) /\ file \in Seq(Packet) /\ file \in Seq(Bytes)
      /\ diskIndex \in Seq(IndexEntry) /\ chain \in Chains /\ chainHeight \in Nat
      /\ boot.found \in Seq(Block) /\ FoundAll(index, boot.found, chainHeight)
      /\ AllWhole(file, index) /\ Gapless(index, chainHeight)
      /\ diskIndex = index /\ AllWhole(file, diskIndex)
  BY <1>1 DEF BootType, ScanInv, SavedInv, Shape, Bytes
<1>5. /\ r.index \in Seq(IndexEntry) /\ r.file \in Seq(Bytes)
      /\ Len(file) <= Len(r.file) /\ \A p \in 1..Len(file) : r.file[p] = file[p]
      /\ Len(index) <= Len(r.index)
      /\ \A k \in 1..Len(index) : r.index[k] = index[k]
      /\ \A k \in 1..Len(r.index) : k > Len(index) =>
           /\ Whole(r.file, r.index[k])
           /\ \E j \in 1..Len(boot.found) : r.index[k].block = HeightOf[boot.found[j]]
      /\ \A j \in 1..Len(boot.found) : HeightOf[boot.found[j]] \in HeightsIn(r.index)
  BY <1>4, BatchAdds
<1>6. r.file \in Seq(Packet) /\ AscendingHeights(r.index)
  <2>1. NewOrThere(index, boot.found)
    BY <1>1, <1>4, FoundIsNew
  <2>. QED  BY <1>4, <2>1, BatchAscends DEF Gapless
<1>7. BootType' /\ boot'.pc = "save" /\ boot'.found = boot.found
  BY <1>1, <1>2, BootToIs DEF BootPC
<1>. HIDE DEF r
<1>8. /\ Len(index) \in Nat /\ Len(r.index) \in Nat
      /\ \A k \in 1..Len(r.index) : k \in 1..Len(index) \/ k > Len(index)
      /\ \A k \in 1..Len(index) : k \in 1..Len(r.index)
  BY <1>4, <1>5
<1>9. UpTo(r.index, chainHeight)
  BY <1>4, <1>5, <1>8 DEF UpTo, Gapless, FoundAll
<1>10. AllWhole(r.file, r.index) /\ AllWhole(r.file, diskIndex)
  <2>1. AllWhole(r.file, index)
    BY <1>4, <1>5, AllWholeGrows DEF Grows
  <2>2. \A k \in 1..Len(index) : Whole(r.file, r.index[k])
    BY <1>5, <2>1 DEF AllWhole
  <2>. QED  BY <1>4, <1>5, <1>8, <2>1, <2>2 DEF AllWhole
<1>11. Covers(r.index, chainHeight)
  <2>1. \A x \in HeightsIn(index) : x \in HeightsIn(r.index)
    BY <1>5, <1>8 DEF HeightsIn
  <2>. QED  BY <1>4, <1>5, <2>1 DEF Covers, FoundAll
<1>12. Gapless(r.index, chainHeight)
  <2>1. chainHeight <= chainHeight
    BY <1>4
  <2>. QED  BY <1>4, <1>5, <1>6, <1>9, <1>11, <2>1, GaplessIs
<1>13. SavedInv'
  BY <1>1, <1>2, <1>3, <1>6, <1>10, SavedKept
<1>14. ScanInv'
  <2>1. Gapless(index, chainHeight)' /\ Covers(index, chainHeight)'
    BY <1>2, <1>3, <1>11, <1>12 DEF Gapless, Covers
  <2>2. /\ Followed(scanned)' /\ Len(scanned') <= chainHeight'
        /\ Len(resume') <= chainHeight' /\ Len(scanned') = chainHeight'
    BY <1>1, <1>2, <1>3 DEF ScanInv, Followed
  <2>3. AllWhole(file', index')
    BY <1>2, <1>10
  <2>. QED  BY <1>7, <2>1, <2>2, <2>3 DEF ScanInv
<1>15. CachedOnChain'
  BY <1>2, <1>3 DEF CrashInv, CachedOnChain
<1>. QED
  BY <1>1, <1>2, <1>3, <1>5, <1>7, <1>13, <1>14, <1>15, BootKept DEF Shape

LEMMA SaveBatchCrash ==
    ASSUME CrashInv, SaveBatch PROVE CrashInv'
<1>1. /\ boot.pc = "save" /\ BootType /\ ScanInv /\ Shape /\ SavedInv
      /\ chainHeight <= Len(chain)
  BY DEF CrashInv, SaveBatch, Booting
<1>2. /\ UNCHANGED <<node, indexing, chainHeight, cursor, index, buffer, file, cache,
                     pass>>
      /\ diskIndex' = index /\ BootTo("cursor")
      /\ resume' = IF diskCursor.height = 0 THEN SubSeq(scanned, 1, LastHeight(index))
                   ELSE resume
  BY DEF SaveBatch, ResumeByIndex
<1>3. UNCHANGED <<chain, inflight, lastScanned, lastHash, diskCursor, scanned>>
  BY <1>2 DEF node, cursor
<1>4. BootType' /\ boot'.pc = "cursor" /\ boot'.found = boot.found
  BY <1>1, <1>2, BootToIs DEF BootPC
<1>5. /\ index \in Seq(IndexEntry) /\ chain \in Chains /\ chainHeight \in Nat
      /\ Len(chain) \in Nat /\ AscendingHeights(index) /\ UpTo(index, chainHeight)
      /\ Covers(index, LastHeight(index)) /\ Covers(index, chainHeight)
      /\ AllWhole(file, index) /\ Followed(scanned) /\ Len(scanned) = chainHeight
      /\ diskCursor.height \in Nat
  BY <1>1, ChainFacts DEF ScanInv, Gapless, Shape
<1>6. LastHeight(index) \in Nat /\ LastHeight(index) <= chainHeight
  BY <1>5, LastHeightIs
<1>7. /\ Followed(resume') /\ Len(resume') = ResumeAt(index, diskCursor.height)
      /\ Len(resume') \in Nat /\ Len(resume') <= chainHeight
  <2>1. CASE diskCursor.height = 0
    <3>1. resume' = SubSeq(scanned, 1, LastHeight(index))
      BY <1>2, <2>1
    <3>2. Followed(resume') /\ Len(resume') = LastHeight(index)
      BY <1>5, <1>6, <3>1, FollowedPart
    <3>. QED  BY <1>6, <2>1, <3>2 DEF ResumeAt
  <2>2. CASE diskCursor.height # 0
    <3>1. resume' = resume /\ diskCursor.height > 0
      BY <1>2, <1>5, <2>2
    <3>. QED  BY <1>1, <1>5, <3>1 DEF ScanInv, SavedInv, ResumeAt
  <2>. QED  BY <2>1, <2>2
<1>8. Covers(index, Len(resume'))
  BY <1>5, <1>7, CoversLess
<1>9. Gapless(index, Len(chain))
  BY <1>1, <1>5, GaplessIs
<1>10. SavedInv'
  <2>1. Followed(resume)' /\ Gapless(diskIndex, Len(chain))'
        /\ Covers(diskIndex, Len(resume))'
    BY <1>2, <1>3, <1>7, <1>8, <1>9 DEF Followed, Gapless, Covers
  <2>2. file' = file /\ diskIndex' = index /\ AllWhole(file', diskIndex')
    BY <1>2, <1>5
  <2>. QED  BY <1>1, <1>3, <1>7, <2>1, <2>2 DEF SavedInv
<1>11. ScanInv'
  <2>1. /\ Gapless(index, chainHeight)' /\ Covers(index, chainHeight)' /\ Followed(scanned)'
    BY <1>1, <1>2, <1>3, <1>5 DEF ScanInv, Gapless, Covers, Followed
  <2>2. /\ Len(scanned') = chainHeight' /\ Len(resume') <= chainHeight'
        /\ Len(scanned') <= chainHeight'
    <3>1. chainHeight' = chainHeight /\ scanned' = scanned
      BY <1>2, <1>3
    <3>2. chainHeight <= chainHeight
      BY <1>5
    <3>. QED  BY <1>5, <1>7, <3>1, <3>2
  <2>. QED  BY <1>2, <1>4, <1>5, <2>1, <2>2 DEF ScanInv
<1>12. CachedOnChain'
  BY <1>2, <1>3 DEF CrashInv, CachedOnChain
<1>. QED
  BY <1>1, <1>2, <1>3, <1>4, <1>5, <1>10, <1>11, <1>12, BootKept DEF Shape

LEMMA SaveCursorCrash ==
    ASSUME GrowingNode, CrashInv, SaveCursor PROVE CrashInv'
<1>1. /\ boot.pc = "cursor" /\ BootType /\ ScanInv /\ Shape /\ SavedInv
      /\ chainHeight <= Len(chain)
  BY DEF CrashInv, SaveCursor, Booting
<1>2. /\ UNCHANGED <<node, indexing, chainHeight, store, cache, pass>>
      /\ lastScanned' = chainHeight /\ BootTo("load")
      /\ diskCursor' = [height |-> chainHeight, hash |-> lastHash']
      /\ resume' = scanned'
  BY DEF SaveCursor
<1>3. UNCHANGED <<chain, inflight, index, buffer, file, diskIndex>>
  BY <1>2 DEF node, store
<1>4. BootType' /\ boot'.pc = "load" /\ boot'.found = boot.found
  BY <1>1, <1>2, BootToIs DEF BootPC
<1>5. /\ index \in Seq(IndexEntry) /\ chain \in Chains /\ chainHeight \in Nat
      /\ Len(chain) \in Nat /\ AscendingHeights(index) /\ UpTo(index, chainHeight)
      /\ Covers(index, chainHeight) /\ diskIndex = index
      /\ Followed(scanned) /\ Len(scanned) = chainHeight
      /\ lastHash \in Block \cup {NoBlock}
  BY <1>1, ChainFacts DEF ScanInv, Gapless, Shape
<1>6. scanned' = scanned
  <2>1. scanned' = [h \in 1..chainHeight |-> IF h <= chainHeight THEN scanned[h] ELSE NoBlock]
    BY <1>5 DEF SaveCursor
  <2>2. \A h \in 1..chainHeight : h <= chainHeight
    BY <1>5
  <2>3. scanned' = [h \in 1..chainHeight |-> scanned[h]]
    BY <2>1, <2>2
  <2>4. scanned \in Seq(Block) /\ DOMAIN scanned = 1..chainHeight
    BY <1>5 DEF Followed
  <2>5. scanned = [h \in DOMAIN scanned |-> scanned[h]]
    BY <2>4
  <2>. QED  BY <2>3, <2>4, <2>5
<1>7. /\ lastHash' \in Block \cup {NoBlock}
      /\ chainHeight > 0 => lastHash' = chain[chainHeight]
  <2>1. lastHash' = IF NodeHash(chainHeight) = NoBlock THEN lastHash
                    ELSE NodeHash(chainHeight)
    BY SureAnswer DEF SaveCursor
  <2>2. CASE chainHeight > 0
    <3>1. chainHeight \in 1..Len(chain)
      BY <1>1, <1>5, <2>2
    <3>. QED  BY <1>5, <2>1, <3>1, ChainFacts
  <2>3. CASE ~(chainHeight > 0)
    BY <1>5, <2>1, <2>3, NodeHashType
  <2>. QED  BY <2>2, <2>3
<1>8. diskCursor' \in [height : Nat, hash : Block \cup {NoBlock}]
      /\ diskCursor'.height = chainHeight /\ diskCursor'.hash = lastHash'
  BY <1>2, <1>5, <1>7
<1>9. ResumeAt(index, chainHeight) = chainHeight
  <2>1. CASE chainHeight > 0
    BY <2>1 DEF ResumeAt
  <2>2. CASE ~(chainHeight > 0)
    <3>1. LastHeight(index) \in Nat /\ LastHeight(index) <= chainHeight
      BY <1>5, LastHeightIs
    <3>. QED  BY <1>5, <2>2, <3>1 DEF ResumeAt
  <2>. QED  BY <2>1, <2>2
<1>10. SavedInv'
  <2>1. Followed(resume)' /\ Covers(diskIndex, Len(resume))'
        /\ Gapless(diskIndex, Len(chain))'
    BY <1>1, <1>2, <1>3, <1>5, <1>6 DEF SavedInv, Followed, Covers, Gapless
  <2>2. /\ Len(resume') = ResumeAt(diskIndex', diskCursor'.height)
    BY <1>2, <1>3, <1>5, <1>6, <1>8, <1>9
  <2>3. file' \in Seq(Packet) /\ AllWhole(file', diskIndex')
    BY <1>1, <1>3 DEF SavedInv
  <2>4. /\ diskCursor'.height <= Len(chain')
        /\ diskCursor'.height > 0 =>
             diskCursor'.hash \in {NoBlock, chain'[diskCursor'.height]}
    BY <1>1, <1>3, <1>7, <1>8
  <2>. QED  BY <2>1, <2>2, <2>3, <2>4 DEF SavedInv
<1>11. ScanInv'
  <2>1. Gapless(index, chainHeight)' /\ Covers(index, chainHeight)' /\ Followed(scanned)'
    BY <1>1, <1>2, <1>3, <1>5, <1>6 DEF ScanInv, Gapless, Covers, Followed
  <2>2. Len(scanned') = chainHeight' /\ Len(resume') <= chainHeight'
        /\ Len(scanned') <= chainHeight'
    BY <1>2, <1>5, <1>6
  <2>. QED  BY <1>1, <1>2, <1>3, <1>4, <1>5, <2>1, <2>2 DEF ScanInv
<1>12. CachedOnChain'
  BY <1>2, <1>3 DEF CrashInv, CachedOnChain
<1>. QED
  BY <1>1, <1>2, <1>3, <1>4, <1>5, <1>7, <1>8, <1>10, <1>11, <1>12, BootKept
  DEF Shape

\* The start hands over to the live indexer a cursor at the top of what has
\* been scanned and an index that covers it.
LEMMA LoadCrash ==
    ASSUME CrashInv, Load PROVE CrashInv'
<1>1. /\ boot.pc = "load" /\ BootType /\ ScanInv /\ Shape /\ SavedInv /\ CachedOnChain
      /\ NoIds /\ DecodeInv /\ chainHeight <= Len(chain)
      /\ indexing = FALSE /\ \A w \in Worker : pass[w].pc = "idle"
  BY DEF CrashInv, Load, Booting
<1>2. /\ UNCHANGED <<node, indexing, chainHeight, cursor, index, file, diskIndex, cache,
                     pass, resume>>
      /\ buffer' = file /\ boot' = [Down EXCEPT !.pc = "live"]
  BY DEF Load
<1>3. BootType' /\ boot'.pc = "live"
  <2>1. boot' = [pc |-> "live", at |-> 0, seen |-> NoBlock, found |-> <<>>]
    BY <1>2 DEF Down
  <2>2. "live" \in BootPC /\ <<>> \in Seq(Block)
    BY DEF BootPC
  <2>. QED  BY <2>1, <2>2 DEF BootType
<1>4. UNCHANGED <<chain, inflight, lastScanned, lastHash, diskCursor, scanned>>
  BY <1>2 DEF node, cursor
<1>5. /\ lastScanned = chainHeight /\ Len(scanned) = chainHeight /\ Followed(scanned)
      /\ AscendingHeights(index) /\ UpTo(index, chainHeight) /\ Covers(index, chainHeight)
      /\ diskIndex = index /\ file \in Seq(Packet) /\ chain \in Chains
  BY <1>1 DEF ScanInv, Gapless, SavedInv, Shape
<1>6. Shape'
  BY <1>1, <1>2, <1>4, <1>5 DEF Shape
<1>7. \A w \in Worker : pass'[w].pc = "idle"
  BY <1>1, <1>2
<1>8. Inv'
  <2>1. GateInv' /\ \A w \in Worker : PassOK(w)'
    BY <1>7 DEF GateInv, PassOK, Scanning, Cutting
  <2>2. IndexInv'
    BY <1>2, <1>4, <1>5 DEF IndexInv, IndexedUpTo, UpTo, AscendingHeights
  <2>3. CacheInv'
    <3>1. \A h \in Heights : cache.h2h[h] # NoBlock =>
            h \in 1..Len(chain) /\ cache.h2h[h] = chain[h]
      <4>1. \A h \in Heights : h \in Nat /\ h > 0
        BY ChainAssumption DEF Heights
      <4>2. Len(chain) \in Nat
        BY <1>5, ChainFacts
      <4>. QED  BY <1>1, <4>1, <4>2 DEF CachedOnChain
    <3>2. \A h \in 1..Len(chain) : HeightOf[chain[h]] = h
      BY <1>5, ChainFacts
    <3>. QED  BY <1>2, <3>1, <3>2 DEF CacheInv
  <2>. QED  BY <1>6, <2>1, <2>2, <2>3 DEF Inv
<1>9. FollowInv'
  <2>1. Followed(scanned)' /\ Covers(index, lastScanned)'
    BY <1>2, <1>4, <1>5 DEF Followed, Covers
  <2>2. Traced'
    BY <1>4, <1>5 DEF Traced, Followed
  <2>3. \A w \in Worker : FollowsChain(w)'
    BY <1>7 DEF FollowsChain, Repairing, Scanning
  <2>4. diskIndex' = index'
    BY <1>2, <1>5
  <2>. QED  BY <1>8, <2>1, <2>2, <2>3, <2>4 DEF FollowInv
<1>10. SavedInv'
  BY <1>1, <1>2, <1>4, SavedKept DEF SavedInv
<1>11. CachedOnChain' /\ NoIds' /\ DecodeInv' /\ chainHeight' <= Len(chain')
  BY <1>1, <1>2, <1>4 DEF CachedOnChain, NoIds, DecodeInv, Decoded
<1>. QED  BY <1>3, <1>6, <1>9, <1>10, <1>11 DEF CrashInv

LEMMA BootCrash ==
    ASSUME GrowingNode, WorkingStream, CrashInv, BootStep PROVE CrashInv'
<1>1. ~(CutFile \/ CutIndex \/ CutCursor \/ SkipBlock \/ NextHash)
  BY DEF CrashInv, ScanInv, CutFile, CutIndex, CutCursor, SkipBlock, NextHash, Booting,
     GrowingNode
<1>. QED
  BY <1>1, ConnectCrash, CheckHashCrash, BeginScanCrash, ScanBlockCrash, AppendBatchCrash,
     SaveBatchCrash, SaveCursorCrash, LoadCrash
  DEF BootStep

----------------------------------------------------------------------------
(* The steps of the live indexer, which finds nothing to repair.           *)

\* What CrashInv says while the bridge runs.
Live == /\ CachedOnChain /\ DecodeInv /\ chainHeight <= Len(chain) /\ SavedInv
        /\ FollowInv

LEMMA LiveFacts ==
    ASSUME Live
    PROVE  /\ Inv /\ Shape /\ Traced /\ chain \in Chains /\ pass \in [Worker -> Pass]
           /\ index \in Seq(IndexEntry) /\ diskIndex = index /\ AscendingHeights(index)
           /\ lastScanned \in Nat /\ chainHeight \in Nat /\ Len(chain) \in Nat
           /\ Followed(scanned) /\ Len(scanned) = lastScanned /\ lastScanned <= Len(chain)
           /\ file \in Seq(Packet) /\ file \in Seq(Bytes) /\ AllWhole(file, index)
           /\ Covers(index, lastScanned)
<1>1. /\ Inv /\ Shape /\ Traced /\ chain \in Chains /\ pass \in [Worker -> Pass]
      /\ index \in Seq(IndexEntry) /\ diskIndex = index /\ AscendingHeights(index)
      /\ lastScanned \in Nat /\ chainHeight \in Nat
      /\ Followed(scanned) /\ Len(scanned) = lastScanned
      /\ file \in Seq(Packet) /\ AllWhole(file, index) /\ Covers(index, lastScanned)
  BY DEF Live, FollowInv, Inv, Shape, IndexInv, Traced, SavedInv
<1>2. file \in Seq(Bytes)
  BY <1>1 DEF Packet, Bytes
<1>. QED  BY <1>1, <1>2, ChainFacts DEF Followed

\* What a pass does when nothing has to be repaired.
GrowingStep(w) ==
    \/ Enter(w) \/ Count(w) \/ Leave(w) \/ Probe(w) \/ Detect(w) \/ Target(w)
    \/ Fetch(w) \/ CachePut(w) \/ AdvanceEmpty(w) \/ AppendFile(w) \/ ExtendBuffer(w)
    \/ AddIndex(w) \/ Advance(w) \/ PersistIndex(w) \/ PersistCursor(w)

LEMMA OnlyGrowing ==
    ASSUME Live, NEW w \in Worker, Enter(w) \/ PassStep(w)
    PROVE  /\ GrowingStep(w) /\ UNCHANGED <<chain, inflight>>
           /\ \A v \in Worker : v # w => pass[v].pc = "idle" /\ pass'[v] = pass[v]
<1>1. ~(FindFork(w) \/ Invalidate(w) \/ Truncate(w) \/ SaveTrimmedIndex(w) \/ Rewind(w))
  BY DEF Live, FollowInv, FollowsChain, Repairing, At, FindFork, Invalidate, Truncate,
     SaveTrimmedIndex, Rewind
<1>2. UNCHANGED <<chain, inflight>>
  BY DEF PassStep, Enter, Count, Leave, Probe, Detect, FindFork, Invalidate,
     Truncate, SaveTrimmedIndex, Rewind, Target, Fetch, CachePut, AdvanceEmpty,
     AppendFile, ExtendBuffer, AddIndex, Advance, PersistIndex, PersistCursor, node
<1>. QED  BY <1>1, <1>2, LiveFacts, OthersIdle DEF PassStep, GrowingStep

\* A pass that scans: its block is the next one of the node's chain.
LEMMA NextBlock ==
    ASSUME Live, NEW w \in Worker, pass[w].pc \in Scanning
    PROVE  /\ pass[w].seen \in Block /\ pass[w].at = lastScanned + 1
           /\ HeightOf[pass[w].seen] = pass[w].at /\ pass[w].at <= Len(chain)
           /\ pass[w].seen = chain[pass[w].at] /\ pass[w].at \in 1..Len(chain)
<1>1. /\ pass[w].seen \in Block /\ pass[w].at = lastScanned + 1
      /\ HeightOf[pass[w].seen] = pass[w].at /\ pass[w].at <= Len(chain)
      /\ pass[w].seen = chain[pass[w].at]
  BY LiveFacts DEF Live, FollowInv, FollowsChain, Inv, PassOK
<1>. QED  BY <1>1, LiveFacts

LEMMA LiveCached ==
    ASSUME Live, NEW w \in Worker, GrowingStep(w), UNCHANGED chain
    PROVE  CachedOnChain'
<1>1. CASE CachePut(w)
  <2>1. pass[w].pc \in Scanning /\ cache' = Insert(cache, pass[w].seen, 2)
    BY <1>1 DEF CachePut, At, Scanning
  <2>2. 2 \in Verbosity /\ cache \in CacheType
    BY LiveFacts DEF Verbosity, Shape
  <2>. QED
    BY <2>1, <2>2, NextBlock, LiveFacts, InsertOnChain DEF Live, CachedOnChain
<1>2. CASE UNCHANGED cache
  BY <1>2 DEF Live, CachedOnChain
<1>. QED
  BY <1>1, <1>2 DEF GrowingStep, Enter, Count, Leave, Probe, Detect, Target, Fetch,
     AdvanceEmpty, AppendFile, ExtendBuffer, AddIndex, Advance, PersistIndex, PersistCursor

\* The file only grows.
LEMMA LiveFile ==
    ASSUME WorkingStream, Live, NEW w \in Worker, GrowingStep(w)
    PROVE  file' \in Seq(Packet) /\ file' \in Seq(Bytes) /\ Grows(file, file')
<1>1. CASE AppendFile(w) /\ file' # file
  <2>1. file' = file \o Encode(pass[w].seen, pass[w].got)
    BY <1>1 DEF AppendFile, MayFail, WorkingStream
  <2>2. pass[w].seen \in Block /\ pass[w].got \in Nat
    BY <1>1, NextBlock, LiveFacts DEF AppendFile, At, Scanning, Pass
  <2>3. file' \in Seq(Packet) /\ EndsWith(file', Len(file), pass[w].seen, pass[w].got)
        /\ \A p \in 1..Len(file) : file'[p] = file[p]
    BY <2>1, <2>2, LiveFacts, EncodedAtEnd
  <2>4. Len(file) <= Len(file')
    <3>1. Len(file') = Len(file) + pass[w].got + 1 /\ Len(file) \in Nat
      BY <2>3, LiveFacts DEF EndsWith
    <3>. QED  BY <2>2, <3>1
  <2>5. file' \in Seq(Bytes)
    BY <2>3 DEF Packet, Bytes
  <2>. QED  BY <2>3, <2>4, <2>5 DEF Grows
<1>2. CASE file' = file
  <2>1. Len(file) \in Nat
    BY LiveFacts
  <2>. QED  BY <1>2, <2>1, LiveFacts DEF Grows
<1>. QED
  BY <1>1, <1>2 DEF GrowingStep, Enter, Count, Leave, Probe, Detect, Target, Fetch,
     CachePut, AdvanceEmpty, ExtendBuffer, AddIndex, Advance, PersistIndex, PersistCursor,
     store

\* An entry for the next block goes to the end of the index.
LEMMA LiveAdds ==
    ASSUME Live, NEW w \in Worker, AddIndex(w)
    PROVE  /\ index' = Append(index, [block |-> pass[w].at, i |-> pass[w].off])
           /\ index' \in Seq(IndexEntry) /\ AscendingHeights(index')
           /\ LastHeight(index') = pass[w].at /\ pass[w].at \in HeightsIn(index')
           /\ \A x \in HeightsIn(index) : x \in HeightsIn(index')
           /\ AllWhole(file, index') /\ UNCHANGED <<file, cursor>>
           /\ diskIndex' = index' /\ diskIndex' # diskIndex
           /\ Goto(w, "advance")
<1>. DEFINE b   == pass[w].seen
            h   == pass[w].at
            off == pass[w].off
            e   == [block |-> h, i |-> off]
<1>1. /\ pass[w].pc = "add" /\ pass[w].pc \in Scanning
  BY DEF AddIndex, At, Scanning
<1>2. off \in Nat /\ off # NoOffset /\ PacketsAt(file, off, b)
  BY <1>1 DEF Live, FollowInv, FollowsChain, NoOffset
<1>3. b \in Block /\ h = lastScanned + 1 /\ HeightOf[b] = h /\ h \in Nat /\ h > 0
  BY <1>1, NextBlock, LiveFacts
<1>4. /\ index' = AddEntry(index, h, off) /\ diskIndex' \in Saved(index', diskIndex)
      /\ Goto(w, "advance") /\ UNCHANGED <<file, cursor>>
  BY <1>2, <1>3 DEF AddIndex
<1>5. diskIndex' = index'
  BY <1>4, SavedIs
<1>6. /\ Len(index) \in Nat
      /\ \A k \in 1..Len(index) : index[k].block \in Nat /\ index[k].block < h
  <2>1. \A v \in Worker : v # w => pass[v].pc = "idle"
    BY <1>1, LiveFacts, Alone
  <2>2. IndexedUpTo(lastScanned)
    BY <1>1, <2>1, LiveFacts, IndexBehind
  <2>. QED  BY <1>3, <2>2, LiveFacts, EntryTypes DEF IndexedUpTo
<1>7. index' = Append(index, e)
  <2>1. h \notin HeightsIn(index)
    BY <1>3, <1>6 DEF HeightsIn
  <2>. QED  BY <1>4, <2>1 DEF AddEntry
<1>8. e \in IndexEntry /\ e.block = h /\ e.i = off
  <2>1. h \in Heights
    BY <1>3, ChainAssumption
  <2>. QED  BY <1>2, <2>1 DEF IndexEntry
<1>. HIDE DEF e, h, off, b
<1>9. /\ index' \in Seq(IndexEntry) /\ Len(index') = Len(index) + 1
      /\ \A k \in 1..Len(index) : index'[k] = index[k] /\ k \in 1..Len(index')
      /\ index'[Len(index')] = e /\ Len(index) + 1 \in 1..Len(index')
      /\ index' # index /\ index' # <<>>
  BY <1>6, <1>7, <1>8, LiveFacts
<1>10. \A k \in 1..Len(index') : k \in 1..Len(index) \/ k = Len(index')
  BY <1>6, <1>9
<1>11. AscendingHeights(index')
  <2>. SUFFICES ASSUME NEW k \in 1..Len(index'), NEW m \in 1..Len(index'), k < m
                PROVE  index'[k].block < index'[m].block
    BY DEF AscendingHeights
  <2>1. k \in 1..Len(index)
    BY <1>6, <1>9
  <2>. QED  BY <1>6, <1>8, <1>9, <1>10, <2>1, LiveFacts DEF AscendingHeights
<1>12. LastHeight(index') = h /\ h \in HeightsIn(index')
  BY <1>8, <1>9 DEF LastHeight, HeightsIn
<1>13. \A x \in HeightsIn(index) : x \in HeightsIn(index')
  BY <1>9 DEF HeightsIn
<1>14. AllWhole(file, index')
  <2>1. Whole(file, e)
    BY <1>2, <1>3, <1>8 DEF Whole
  <2>. QED  BY <1>9, <1>10, <2>1, LiveFacts DEF AllWhole
<1>15. diskIndex' # diskIndex
  BY <1>5, <1>9, LiveFacts
<1>. QED
  BY <1>4, <1>5, <1>7, <1>9, <1>11, <1>12, <1>13, <1>14, <1>15 DEF e, h, off

\* Nowhere else does the index change, saved or not.
LEMMA LiveIndexes ==
    ASSUME Live, NEW w \in Worker, GrowingStep(w), ~AddIndex(w)
    PROVE  UNCHANGED <<index, diskIndex>>
<1>1. CASE PersistIndex(w)
  BY <1>1, SavedIs, LiveFacts DEF PersistIndex
<1>. QED
  BY <1>1 DEF GrowingStep, Enter, Count, Leave, Probe, Detect, Target, Fetch, CachePut,
     AdvanceEmpty, AppendFile, ExtendBuffer, Advance, PersistCursor, store

----------------------------------------------------------------------------
(* Where the pass gets to.                                                 *)

\* Outside the reads and the append there is nothing to hold on to.
LEMMA FollowsWhere ==
    ASSUME NEW w \in Worker,
           pass'[w].pc \in {"idle", "count", "probe", "target", "exit", "leave"}
    PROVE  FollowsChain(w)'
BY DEF FollowsChain, Repairing, Scanning

\* The pass goes on with its block.
LEMMA FollowsOn ==
    ASSUME Live, NEW w \in Worker, pass[w].pc \in Scanning, UNCHANGED chain,
           pass'[w].pc \in Scanning,
           pass'[w].at = pass[w].at, pass'[w].seen = pass[w].seen,
           pass'[w].pc \in {"extend", "add"} =>
             pass'[w].off \in Nat /\ PacketsAt(file', pass'[w].off, pass[w].seen),
           pass'[w].pc = "advance" => HeightOf[pass[w].seen] \in HeightsIn(index')
    PROVE  FollowsChain(w)'
<1>1. pass[w].at <= Len(chain) /\ pass[w].seen = chain[pass[w].at]
  BY NextBlock
<1>2. pass'[w].pc \in {"extend", "add"} => PacketsAt(file, pass[w].off, pass[w].seen)'
  BY DEF PacketsAt
<1>3. pass'[w].pc \notin Repairing /\ pass'[w].pc \notin {"detect", "cursor"}
  BY DEF Scanning, Repairing
<1>. QED  BY <1>1, <1>2, <1>3 DEF FollowsChain

LEMMA FollowsProbe ==
    ASSUME GrowingNode, Live, NEW w \in Worker, Probe(w) PROVE FollowsChain(w)'
<1>. DEFINE at == pass[w].at
<1>1. /\ pass \in [Worker -> Pass] /\ chain \in Chains /\ lastScanned \in Nat
      /\ Len(chain) \in Nat /\ UNCHANGED chain
  BY LiveFacts DEF Probe, node
<1>2. at = lastScanned + 1
  BY LiveFacts DEF Probe, At, Inv, PassOK
<1>3. CASE NodeHash(at) = NoBlock
  <2>1. Goto(w, "target")
    BY <1>3, SureAnswer DEF Probe
  <2>2. pass'[w].pc = "target"
    BY <1>1, <2>1, GotoLocals DEF PC
  <2>. QED  BY <2>2, FollowsWhere
<1>4. CASE NodeHash(at) # NoBlock
  <2>1. GotoSeeing(w, "detect", at, NodeHash(at - 1))
    BY <1>4, SureAnswer DEF Probe
  <2>2. at \in 1..Len(chain) /\ at - 1 \in Int
    BY <1>1, <1>2, <1>4 DEF NodeHash
  <2>3. NodeHash(at - 1) \in Block \cup {NoBlock}
    BY <1>1, <2>2, NodeHashType
  <2>4. pass'[w].pc = "detect" /\ pass'[w].at = at /\ pass'[w].seen = NodeHash(at - 1)
    <3>1. at \in Nat /\ "detect" \in PC
      BY <1>1, <1>2 DEF PC
    <3>. HIDE DEF at
    <3>. QED  BY <1>1, <2>1, <2>3, <3>1, GotoSeeingLocals
  <2>5. at > 1 => NodeHash(at - 1) = chain[at - 1]
    <3>1. at > 1 => at - 1 \in 1..Len(chain)
      BY <1>1, <2>2
    <3>. QED  BY <3>1 DEF NodeHash
  <2>. HIDE DEF at
  <2>. QED  BY <1>1, <2>4, <2>5 DEF FollowsChain, Repairing, Scanning
<1>. QED  BY <1>3, <1>4

\* What the cache remembers is on the node's chain: there is no reorganisation.
LEMMA FollowsDetect ==
    ASSUME Live, NEW w \in Worker, Detect(w) PROVE FollowsChain(w)'
<1>. DEFINE at == pass[w].at
<1>1. /\ pass \in [Worker -> Pass] /\ lastScanned \in Nat /\ pass[w].pc = "detect"
      /\ at = lastScanned + 1
  BY LiveFacts DEF Detect, At, Inv, PassOK
<1>2. HashForHeight(cache, at - 1) \in {NoBlock, pass[w].seen}
  <2>1. CASE at - 1 \in Heights
    <3>1. at > 1 /\ at - 1 \in Heights
      BY <1>1, <2>1 DEF Heights
    <3>2. pass[w].seen = chain[at - 1]
      BY <1>1, <3>1 DEF Live, FollowInv, FollowsChain
    <3>3. cache.h2h[at - 1] # NoBlock => cache.h2h[at - 1] = chain[at - 1]
      BY <3>1 DEF Live, CachedOnChain
    <3>. QED  BY <2>1, <3>2, <3>3 DEF HashForHeight
  <2>2. CASE at - 1 \notin Heights
    BY <2>2 DEF HashForHeight
  <2>. QED  BY <2>1, <2>2
<1>3. Goto(w, "target")
  BY <1>2 DEF Detect, DetectReorg
<1>4. pass'[w].pc = "target"
  BY <1>1, <1>3, GotoLocals DEF PC
<1>. QED  BY <1>4, FollowsWhere

LEMMA FollowsTarget ==
    ASSUME GrowingNode, Live, NEW w \in Worker, Target(w) PROVE FollowsChain(w)'
<1>. DEFINE t == lastScanned + 1
<1>1. /\ pass \in [Worker -> Pass] /\ chain \in Chains /\ lastScanned \in Nat
      /\ Len(chain) \in Nat /\ chainHeight \in Nat /\ chainHeight <= Len(chain)
      /\ UNCHANGED chain
  BY LiveFacts DEF Target, node, Live
<1>2. CASE t > chainHeight
  <2>1. Goto(w, "exit")
    BY <1>2 DEF Target
  <2>2. pass'[w].pc = "exit"
    BY <1>1, <2>1, GotoLocals DEF PC
  <2>. QED  BY <2>2, FollowsWhere
<1>3. CASE ~(t > chainHeight)
  <2>1. t \in 1..Len(chain) /\ t \in Nat /\ t <= Len(chain)
    BY <1>1, <1>3
  <2>2. t \in Heights /\ chain[t] \in Block /\ chain[t] # NoBlock /\ NodeHash(t) = chain[t]
    <3>. HIDE DEF t
    <3>. QED  BY <1>1, <2>1, ChainFacts
  <2>3. HashForHeight(cache, t) # NoBlock => HashForHeight(cache, t) = chain[t]
    BY <2>2 DEF HashForHeight, Live, CachedOnChain
  <2>4. GotoSeeing(w, "fetch", t, chain[t])
    <3>1. (IF HashForHeight(cache, t) # NoBlock
           THEN {HashForHeight(cache, t)} ELSE HashAnswers(t)) = {chain[t]}
      BY <2>2, <2>3, SureAnswer
    <3>. QED  BY <1>3, <2>2, <3>1 DEF Target
  <2>. HIDE DEF t
  <2>5. pass'[w].pc = "fetch" /\ pass'[w].at = t /\ pass'[w].seen = chain[t]
    <3>1. "fetch" \in PC /\ chain[t] \in Block \cup {NoBlock}
      BY <2>2 DEF PC
    <3>. QED  BY <1>1, <2>1, <2>4, <3>1, GotoSeeingLocals
  <2>. QED  BY <1>1, <2>1, <2>5 DEF FollowsChain, Repairing, Scanning
<1>. QED  BY <1>2, <1>3

LEMMA FollowsAppend ==
    ASSUME WorkingStream, Live, NEW w \in Worker, AppendFile(w) PROVE FollowsChain(w)'
<1>. DEFINE b == pass[w].seen
<1>1. /\ pass \in [Worker -> Pass] /\ pass[w].pc = "decoded" /\ pass[w].pc \in Scanning
      /\ UNCHANGED <<chain, index>> /\ b \in Block /\ file \in Seq(Bytes)
      /\ Len(file) \in Nat
  BY LiveFacts, NextBlock DEF AppendFile, At, Scanning, node
<1>2. CASE HeightOf[b] \in HeightsIn(index)
  <2>1. Goto(w, "advance")
    BY <1>2 DEF AppendFile
  <2>2. pass'[w].pc = "advance" /\ pass'[w].at = pass[w].at /\ pass'[w].seen = b
    BY <1>1, <2>1, GotoLocals DEF PC
  <2>. QED  BY <1>1, <1>2, <2>2, FollowsOn DEF Scanning
<1>3. CASE HeightOf[b] \notin HeightsIn(index)
  <2>1. /\ file' = file \o Encode(b, pass[w].got)
        /\ Step(w, [pass[w] EXCEPT !.pc = "extend", !.off = Len(file)])
    BY <1>3 DEF AppendFile, MayFail, WorkingStream
  <2>2. /\ pass'[w].pc = "extend" /\ pass'[w].at = pass[w].at /\ pass'[w].seen = b
        /\ pass'[w].off = Len(file)
    BY <1>1, <2>1 DEF Step, Pass
  <2>3. pass[w].got = ShieldTxs[b]
    BY <1>1 DEF Live, DecodeInv, Decoded
  <2>4. PacketsAt(file', Len(file), b)
    BY <1>1, <2>1, <2>3, EncodedBytes
  <2>. QED  BY <1>1, <2>2, <2>4, FollowsOn DEF Scanning
<1>. QED  BY <1>2, <1>3

LEMMA FollowsCursor ==
    ASSUME GrowingNode, Live, NEW w \in Worker, PersistIndex(w) PROVE FollowsChain(w)'
<1>1. /\ pass \in [Worker -> Pass] /\ chain \in Chains /\ lastScanned \in Nat
      /\ lastScanned <= Len(chain) /\ Len(chain) \in Nat /\ UNCHANGED <<chain, lastScanned>>
  BY LiveFacts DEF PersistIndex, node, cursor
<1>2. GotoSeeing(w, "cursor", pass[w].at, NodeHash(lastScanned))
  BY SureAnswer DEF PersistIndex
<1>3. pass'[w].pc = "cursor" /\ pass'[w].seen = NodeHash(lastScanned)
  <2>1. /\ "cursor" \in PC /\ pass[w].at \in Nat
        /\ NodeHash(lastScanned) \in Block \cup {NoBlock}
    BY <1>1, NodeHashType DEF PC, Pass
  <2>. QED  BY <1>1, <1>2, <2>1, GotoSeeingLocals
<1>4. lastScanned > 0 => NodeHash(lastScanned) = chain[lastScanned]
  BY <1>1 DEF NodeHash
<1>. QED  BY <1>1, <1>3, <1>4 DEF FollowsChain, Repairing, Scanning

LEMMA LiveFollows ==
    ASSUME GrowingNode, WorkingStream, Live, NEW w \in Worker, GrowingStep(w),
           UNCHANGED chain
    PROVE  FollowsChain(w)'
<1>1. pass \in [Worker -> Pass] /\ lastScanned + 1 \in Nat
  BY LiveFacts
<1>2. ASSUME NEW label \in {"count", "probe", "target", "exit", "leave"},
             NEW h, Goto(w, label) \/ GotoAt(w, label, h)
      PROVE  FollowsChain(w)'
  <2>1. pass'[w].pc = label
    BY <1>1, <1>2, ZenonT(40) DEF Goto, GotoAt, Step, Pass
  <2>. QED  BY <2>1, FollowsWhere
<1>3. CASE Enter(w) \/ Count(w)
  BY <1>2, <1>3 DEF Enter, Count
<1>4. CASE Leave(w)
  <2>1. pass'[w].pc = "idle"
    BY <1>1, <1>4 DEF Leave, Step, IdlePass
  <2>. QED  BY <2>1, FollowsWhere
<1>5. CASE PersistCursor(w)
  BY <1>2, <1>5 DEF PersistCursor
<1>6. CASE AdvanceEmpty(w) \/ Advance(w)
  <2>1. pass'[w].pc = "target"
    BY <1>1, <1>6 DEF AdvanceEmpty, Advance, Step, Pass
  <2>. QED  BY <2>1, FollowsWhere
<1>7. CASE Fetch(w)
  <2>1. pass[w].pc \in Scanning
    BY <1>7 DEF Fetch, At, Scanning
  <2>2. /\ pass'[w].pc \in {"decoded", "cacheput", "exit"}
        /\ pass'[w].at = pass[w].at /\ pass'[w].seen = pass[w].seen
    BY <1>1, <1>7, ZenonT(40) DEF Fetch, Goto, Step, Pass
  <2>. QED  BY <2>1, <2>2, FollowsWhere, FollowsOn DEF Scanning
<1>8. CASE CachePut(w)
  <2>1. pass[w].pc \in Scanning
    BY <1>8 DEF CachePut, At, Scanning
  <2>2. /\ pass'[w].pc = "decoded"
        /\ pass'[w].at = pass[w].at /\ pass'[w].seen = pass[w].seen
    BY <1>1, <1>8, GotoLocals DEF CachePut, PC
  <2>. QED  BY <2>1, <2>2, FollowsOn DEF Scanning
<1>9. CASE ExtendBuffer(w)
  <2>1. pass[w].pc \in Scanning /\ pass[w].pc = "extend" /\ UNCHANGED <<file, index>>
    BY <1>9 DEF ExtendBuffer, At, Scanning
  <2>2. /\ pass'[w].pc = "add" /\ pass'[w].off = pass[w].off
        /\ pass'[w].at = pass[w].at /\ pass'[w].seen = pass[w].seen
    BY <1>1, <1>9, GotoLocals DEF ExtendBuffer, PC
  <2>3. pass[w].off \in Nat /\ PacketsAt(file, pass[w].off, pass[w].seen)
    BY <2>1 DEF Live, FollowInv, FollowsChain
  <2>. QED  BY <2>1, <2>2, <2>3, FollowsOn DEF Scanning
<1>10. CASE AddIndex(w)
  <2>1. pass[w].pc \in Scanning
    BY <1>10 DEF AddIndex, At, Scanning
  <2>2. Goto(w, "advance") /\ pass[w].at \in HeightsIn(index')
    BY <1>10, LiveAdds
  <2>3. /\ pass'[w].pc = "advance"
        /\ pass'[w].at = pass[w].at /\ pass'[w].seen = pass[w].seen
    BY <1>1, <2>2, GotoLocals DEF PC
  <2>4. HeightOf[pass[w].seen] = pass[w].at
    BY <2>1, NextBlock
  <2>. QED  BY <2>1, <2>2, <2>3, <2>4, FollowsOn DEF Scanning
<1>. QED
  BY <1>3, <1>4, <1>5, <1>6, <1>7, <1>8, <1>9, <1>10, FollowsProbe, FollowsDetect,
     FollowsTarget, FollowsAppend, FollowsCursor
  DEF GrowingStep

----------------------------------------------------------------------------
(* What the pass records, and what it saves.                               *)

\* One height more is covered.
LEMMA CoversNext ==
    ASSUME NEW idx, NEW h \in Nat, Covers(idx, h),
           ShieldTxs[chain[h + 1]] > 0 => h + 1 \in HeightsIn(idx)
    PROVE  Covers(idx, h + 1)
<1>1. \A g \in 1..(h + 1) : g \in 1..h \/ g = h + 1
  OBVIOUS
<1>. QED  BY <1>1 DEF Covers

LEMMA LiveScanned ==
    ASSUME Live, NEW w \in Worker, GrowingStep(w), UNCHANGED chain
    PROVE  Followed(scanned)' /\ Covers(index, lastScanned)'
<1>1. /\ chain \in Chains /\ lastScanned \in Nat /\ Len(scanned) = lastScanned
      /\ Followed(scanned) /\ Covers(index, lastScanned)
  BY LiveFacts
<1>2. CASE AdvanceEmpty(w) \/ Advance(w)
  <2>1. /\ pass[w].pc \in Scanning /\ UNCHANGED index
        /\ lastScanned' = pass[w].at /\ scanned' = Append(scanned, pass[w].seen)
    BY <1>2 DEF AdvanceEmpty, Advance, At, Scanning, store
  <2>2. /\ pass[w].at = lastScanned + 1 /\ pass[w].at <= Len(chain)
        /\ pass[w].seen = chain[pass[w].at] /\ HeightOf[pass[w].seen] = pass[w].at
    BY <2>1, NextBlock
  <2>3. Followed(scanned')
    BY <1>1, <2>1, <2>2, FollowedMore
  <2>4. ShieldTxs[chain[lastScanned + 1]] > 0 => lastScanned + 1 \in HeightsIn(index)
    <3>1. CASE AdvanceEmpty(w)
      <4>1. ShieldTxs[pass[w].seen] = 0
        BY <3>1 DEF AdvanceEmpty, At, Live, DecodeInv, Decoded
      <4>. QED  BY <2>2, <4>1
    <3>2. CASE Advance(w)
      <4>1. HeightOf[pass[w].seen] \in HeightsIn(index)
        BY <3>2 DEF Advance, At, Live, FollowInv, FollowsChain
      <4>. QED  BY <2>2, <4>1
    <3>. QED  BY <1>2, <3>1, <3>2
  <2>5. Covers(index, pass[w].at)
    BY <1>1, <2>2, <2>4, CoversNext
  <2>. QED  BY <2>1, <2>3, <2>5 DEF Followed, Covers
<1>3. CASE AddIndex(w)
  <2>1. UNCHANGED <<scanned, lastScanned>> /\ \A x \in HeightsIn(index) : x \in HeightsIn(index')
    BY <1>3, LiveAdds DEF cursor
  <2>. QED  BY <1>1, <2>1 DEF Followed, Covers
<1>4. CASE ~(AdvanceEmpty(w) \/ Advance(w) \/ AddIndex(w))
  <2>1. UNCHANGED <<scanned, lastScanned>>
    BY <1>4 DEF GrowingStep, Enter, Count, Leave, Probe, Detect, Target, Fetch, CachePut,
       AppendFile, ExtendBuffer, PersistIndex, PersistCursor, cursor
  <2>2. UNCHANGED index
    BY <1>4, LiveIndexes
  <2>. QED  BY <1>1, <2>1, <2>2 DEF Followed, Covers
<1>. QED  BY <1>2, <1>3, <1>4

\* The index has no gap, also while it is ahead of the cursor.
LEMMA FollowGapless == FollowInv => Gapless(index, Len(chain))
<1>. SUFFICES ASSUME FollowInv PROVE Gapless(index, Len(chain))
  OBVIOUS
<1>1. /\ index \in Seq(IndexEntry) /\ AscendingHeights(index) /\ lastScanned \in Nat
      /\ Len(chain) \in Nat /\ lastScanned <= Len(chain) /\ Covers(index, lastScanned)
  BY ChainFacts DEF FollowInv, Inv, Shape, IndexInv, Traced, Followed
<1>2. CASE Somewhere({"advance"})
  <2>1. PICK w \in Worker : pass[w].pc = "advance"
    BY <1>2 DEF Somewhere
  <2>2. /\ pass[w].at = lastScanned + 1 /\ HeightOf[pass[w].seen] = pass[w].at
        /\ IndexedUpTo(pass[w].at)
    BY <2>1 DEF FollowInv, Inv, PassOK, Scanning
  <2>3. pass[w].at <= Len(chain) /\ HeightOf[pass[w].seen] \in HeightsIn(index)
    BY <2>1 DEF FollowInv, FollowsChain, Scanning
  <2>4. Covers(index, pass[w].at)
    BY <1>1, <2>2, <2>3, CoversNext
  <2>5. pass[w].at \in Nat /\ UpTo(index, pass[w].at)
    BY <1>1, <2>2 DEF IndexedUpTo, UpTo
  <2>. QED  BY <1>1, <2>3, <2>4, <2>5, GaplessIs
<1>3. CASE ~Somewhere({"advance"})
  <2>1. UpTo(index, lastScanned)
    BY <1>3 DEF FollowInv, Inv, IndexInv, IndexedUpTo, UpTo
  <2>. QED  BY <1>1, <2>1, GaplessIs
<1>. QED  BY <1>2, <1>3

LEMMA FollowGaplessNext == FollowInv' => Gapless(index, Len(chain))'
BY FollowGapless, PTL

\* What the history says a start resumes behind.
Resumes ==
    resume' = IF pass' # pass /\ Somewhere({"rewind", "advance", "cursor"})
              THEN scanned'
              ELSE IF diskIndex' # diskIndex
              THEN ResumeByIndex(diskIndex', Synced')
              ELSE resume

\* Of what is saved, the part that is about where to resume.
ResumeInv ==
    /\ diskCursor.height <= Len(chain)
    /\ diskCursor.height > 0 => diskCursor.hash \in {NoBlock, chain[diskCursor.height]}
    /\ Followed(resume) /\ Len(resume) = ResumeAt(diskIndex, diskCursor.height)
    /\ Covers(diskIndex, Len(resume))

\* The cursor is saved.
LEMMA SavedAdvance ==
    ASSUME GrowingNode, Live, NEW w \in Worker, Advance(w), UNCHANGED chain, Resumes,
           FollowInv'
    PROVE  ResumeInv'
<1>1. /\ pass[w].pc = "advance" /\ pass[w].pc \in Scanning /\ pass \in [Worker -> Pass]
      /\ chain \in Chains /\ lastScanned \in Nat /\ Len(chain) \in Nat
  BY LiveFacts DEF Advance, At, Scanning
<1>. DEFINE t == pass[w].at
<1>2. t \in 1..Len(chain) /\ t > 0 /\ t <= Len(chain) /\ t \in Nat
  BY <1>1, NextBlock
<1>3. NodeHash(t) = chain[t]
  BY <1>2 DEF NodeHash
<1>4. lastScanned' = t /\ diskCursor' = [height |-> t, hash |-> chain[t]]
  <2>1. diskCursor' \in Saved([height |-> t, hash |-> NodeHash(t)], diskCursor)
    BY SureAnswer DEF Advance
  <2>2. diskCursor' = [height |-> t, hash |-> NodeHash(t)]
    BY <2>1, SavedIs
  <2>. QED  BY <1>3, <2>2 DEF Advance
<1>5. resume' = scanned'
  <2>1. pass'[w].pc = "target"
    BY <1>1 DEF Advance, Step, Pass
  <2>. QED  BY <1>1, <2>1 DEF Resumes, Somewhere
<1>6. /\ Followed(scanned)' /\ Len(scanned') = lastScanned' /\ diskIndex' = index'
      /\ Covers(index, lastScanned)'
  BY DEF FollowInv, Traced
<1>. HIDE DEF t
<1>7. diskCursor'.height = t /\ diskCursor'.hash = chain[t]
  BY <1>4
<1>8. ResumeAt(diskIndex, diskCursor.height)' = t
  BY <1>2, <1>7 DEF ResumeAt
<1>9. Followed(resume)' /\ Len(resume') = t /\ Covers(diskIndex, Len(resume))'
  BY <1>4, <1>5, <1>6 DEF Followed, Covers
<1>. QED  BY <1>2, <1>7, <1>8, <1>9 DEF ResumeInv

LEMMA SavedPersist ==
    ASSUME Live, NEW w \in Worker, PersistCursor(w), UNCHANGED chain, Resumes, FollowInv'
    PROVE  ResumeInv'
<1>1. /\ pass[w].pc = "cursor" /\ pass \in [Worker -> Pass] /\ index \in Seq(IndexEntry)
      /\ AscendingHeights(index) /\ diskIndex = index
      /\ chain \in Chains /\ lastScanned \in Nat /\ lastScanned <= Len(chain)
  BY LiveFacts DEF PersistCursor, At
<1>2. /\ UNCHANGED <<lastScanned, scanned, index, diskIndex>>
      /\ diskCursor' = [height |-> lastScanned, hash |-> pass[w].seen]
  BY SavedIs DEF PersistCursor, store
<1>3. lastScanned > 0 => pass[w].seen \in {NoBlock, chain[lastScanned]}
  BY <1>1 DEF Live, FollowInv, FollowsChain
<1>4. resume' = scanned'
  <2>1. pass'[w].pc = "leave"
    BY <1>1, GotoLocals DEF PersistCursor, PC
  <2>. QED  BY <1>1, <2>1 DEF Resumes, Somewhere
<1>5. /\ Followed(scanned)' /\ Len(scanned') = lastScanned' /\ diskIndex' = index'
      /\ Covers(index, lastScanned)'
  BY DEF FollowInv, Traced
<1>6. ResumeAt(index, lastScanned) = lastScanned
  <2>1. CASE lastScanned > 0
    BY <2>1 DEF ResumeAt
  <2>2. CASE ~(lastScanned > 0)
    <3>1. IndexedUpTo(lastScanned)
      BY <1>1, LiveFacts, Alone, IndexBehind
    <3>2. UpTo(index, lastScanned)
      BY <3>1 DEF IndexedUpTo, UpTo
    <3>3. LastHeight(index) \in Nat /\ LastHeight(index) <= lastScanned
      BY <1>1, <3>2, LastHeightIs
    <3>. QED  BY <1>1, <2>2, <3>3 DEF ResumeAt
  <2>. QED  BY <2>1, <2>2
<1>7. diskCursor'.height = lastScanned /\ diskCursor'.hash = pass[w].seen
  BY <1>2
<1>8. ResumeAt(diskIndex, diskCursor.height)' = lastScanned
  <2>1. ResumeAt(index', lastScanned) = lastScanned
    BY <1>2, <1>6
  <2>. QED  BY <1>5, <1>7, <2>1 DEF ResumeAt
<1>9. Followed(resume)' /\ Len(resume') = lastScanned /\ Covers(diskIndex, Len(resume))'
  BY <1>2, <1>4, <1>5 DEF Followed, Covers
<1>. QED  BY <1>1, <1>3, <1>7, <1>8, <1>9 DEF ResumeInv

\* An index is saved that is a block ahead of the cursor; a start without a
\* cursor resumes behind that block.
LEMMA SavedAdd ==
    ASSUME Live, NEW w \in Worker, AddIndex(w), UNCHANGED chain, Resumes,
           \A v \in Worker : v # w => pass[v].pc = "idle" /\ pass'[v] = pass[v]
    PROVE  ResumeInv'
<1>. DEFINE h == pass[w].at
            s == Append(scanned, pass[w].seen)
<1>1. /\ pass[w].pc = "add" /\ pass[w].pc \in Scanning /\ pass \in [Worker -> Pass]
      /\ chain \in Chains /\ lastScanned \in Nat /\ Len(scanned) = lastScanned
      /\ Followed(scanned) /\ Covers(index, lastScanned) /\ diskIndex = index
  BY LiveFacts DEF AddIndex, At, Scanning
<1>2. /\ h = lastScanned + 1 /\ h <= Len(chain) /\ pass[w].seen = chain[h] /\ h \in Nat
      /\ h > 0
  BY <1>1, NextBlock
<1>3. /\ LastHeight(index') = h /\ h \in HeightsIn(index')
      /\ \A x \in HeightsIn(index) : x \in HeightsIn(index')
      /\ diskIndex' = index' /\ diskIndex' # diskIndex
      /\ UNCHANGED <<scanned, diskCursor>> /\ Goto(w, "advance")
  BY LiveAdds DEF cursor
<1>4. Followed(s) /\ Len(s) = h
  BY <1>1, <1>2, FollowedMore
<1>5. Synced' = s
  <2>1. pass'[w].pc = "advance" /\ pass'[w].seen = pass[w].seen
    BY <1>1, <1>3, GotoLocals DEF PC
  <2>2. Synced' = SyncedAt(w)'
    BY SyncedSteps
  <2>. QED  BY <1>3, <2>1, <2>2 DEF SyncedAt
<1>. HIDE DEF s, h
<1>6. resume' = ResumeByIndex(index', s)
  <2>1. ~Somewhere({"rewind", "advance", "cursor"})
    BY <1>1 DEF Somewhere
  <2>. QED  BY <1>3, <1>5, <2>1 DEF Resumes
<1>7. Covers(index', h)
  <2>1. Covers(index', lastScanned)
    BY <1>1, <1>3 DEF Covers
  <2>. QED  BY <1>1, <1>2, <1>3, <2>1, CoversNext
<1>8. /\ diskCursor.height \in Nat /\ diskCursor.height <= Len(chain)
      /\ diskCursor.height > 0 => diskCursor.hash \in {NoBlock, chain[diskCursor.height]}
  BY LiveFacts DEF Live, SavedInv, Shape
<1>9. CASE diskCursor.height = 0
  <2>1. resume' = SubSeq(s, 1, h)
    BY <1>3, <1>6, <1>9 DEF ResumeByIndex
  <2>2. Followed(SubSeq(s, 1, h)) /\ Len(SubSeq(s, 1, h)) = h
    <3>1. h <= Len(s)
      BY <1>2, <1>4
    <3>. QED  BY <1>1, <1>2, <1>4, <3>1, FollowedPart
  <2>3. ResumeAt(diskIndex', diskCursor'.height) = h
    BY <1>3, <1>9 DEF ResumeAt
  <2>4. Followed(resume)' /\ Len(resume') = h
    BY <2>1, <2>2 DEF Followed
  <2>5. Covers(diskIndex, Len(resume))'
    BY <1>3, <1>7, <2>4 DEF Covers
  <2>. QED  BY <1>3, <1>8, <2>3, <2>4, <2>5 DEF ResumeInv
<1>10. CASE diskCursor.height # 0
  <2>1. resume' = resume
    BY <1>6, <1>10 DEF ResumeByIndex
  <2>2. ResumeAt(diskIndex', diskCursor'.height) = diskCursor.height
        /\ ResumeAt(diskIndex, diskCursor.height) = diskCursor.height
    BY <1>3, <1>8, <1>10 DEF ResumeAt
  <2>3. /\ Followed(resume) /\ Len(resume) = diskCursor.height
        /\ Covers(diskIndex, Len(resume))
    BY <2>2 DEF Live, SavedInv
  <2>4. Followed(resume)' /\ Covers(diskIndex, Len(resume))'
    BY <1>1, <1>3, <2>1, <2>3 DEF Followed, Covers
  <2>. QED  BY <1>3, <1>8, <2>1, <2>2, <2>3, <2>4 DEF ResumeInv
<1>. QED  BY <1>9, <1>10

LEMMA LiveSaved ==
    ASSUME GrowingNode, WorkingStream, Live, NEW w \in Worker, GrowingStep(w),
           UNCHANGED chain, Resumes, FollowInv',
           \A v \in Worker : v # w => pass[v].pc = "idle" /\ pass'[v] = pass[v]
    PROVE  SavedInv'
<1>1. file' \in Seq(Packet) /\ file' \in Seq(Bytes) /\ Grows(file, file')
  BY LiveFile
<1>2. Gapless(diskIndex, Len(chain))'
  <2>1. Gapless(index, Len(chain))' /\ diskIndex' = index'
    BY FollowGaplessNext DEF FollowInv
  <2>. QED  BY <2>1 DEF Gapless, Covers
<1>3. AllWhole(file', diskIndex')
  <2>1. CASE AddIndex(w)
    BY <2>1, LiveAdds
  <2>2. CASE ~AddIndex(w)
    <3>1. AllWhole(file', index)
      BY <1>1, LiveFacts, AllWholeGrows
    <3>. QED  BY <2>2, <3>1, LiveIndexes, LiveFacts
  <2>. QED  BY <2>1, <2>2
<1>4. ResumeInv'
  <2>1. CASE ~(Advance(w) \/ PersistCursor(w) \/ AddIndex(w))
    <3>1. UNCHANGED diskCursor /\ pass[w].pc \notin {"rewind", "advance", "cursor"}
      BY <2>1 DEF GrowingStep, At, Enter, Count, Leave, Probe, Detect, Target, Fetch,
         CachePut, AdvanceEmpty, AppendFile, ExtendBuffer, PersistIndex, cursor
    <3>2. UNCHANGED diskIndex
      BY <2>1, LiveIndexes
    <3>3. UNCHANGED resume
      <4>1. ~Somewhere({"rewind", "advance", "cursor"})
        BY <3>1 DEF Somewhere
      <4>. QED  BY <3>2, <4>1 DEF Resumes
    <3>. QED
      BY <3>1, <3>2, <3>3 DEF Live, SavedInv, ResumeInv, Followed, Covers
  <2>. QED  BY <2>1, SavedAdvance, SavedPersist, SavedAdd
<1>. QED  BY <1>1, <1>2, <1>3, <1>4 DEF SavedInv, ResumeInv

LEMMA LiveCrash ==
    ASSUME GrowingNode, WorkingStream, CrashInv, LiveStep PROVE CrashInv'
<1>1. /\ boot.pc = "live" /\ BootType /\ Live /\ NoIds
  BY DEF CrashInv, LiveStep, Booting, Live
<1>2. PICK w \in Worker : Enter(w) \/ PassStep(w)
  BY DEF LiveStep
<1>3. /\ GrowingStep(w) /\ UNCHANGED <<chain, inflight>>
      /\ \A v \in Worker : v # w => pass[v].pc = "idle" /\ pass'[v] = pass[v]
  BY <1>1, <1>2, OnlyGrowing
<1>4. Resumes
  BY DEF LiveStep, Resumes
<1>5. Inv' /\ Traced' /\ DecodeInv'
  <2>1. Inv /\ Traced /\ DecodeInv /\ [Next]_vars
    BY <1>1, <1>2, LiveFacts DEF Live, Next
  <2>. QED  BY <2>1, NextInv, TracedNext, DecodeMoves DEF GrowingNode
<1>6. chainHeight' <= Len(chain')
  <2>1. \A v \in Worker : pass[v].pc \in Scanning => pass[v].at <= Len(chain)
    BY <1>1 DEF Live, FollowInv, FollowsChain
  <2>. QED  BY <1>1, <1>2, <1>3, <2>1, LiveHeight, LiveFacts DEF Live
<1>7. NoIds'
  BY <1>1, <1>2, <1>3, LiveNoIds, LiveFacts
<1>8. CachedOnChain'
  BY <1>1, <1>3, LiveCached
<1>9. FollowInv'
  <2>1. diskIndex' = index'
    BY <1>1, <1>3, LiveFacts, LiveAdds, LiveIndexes
  <2>2. ASSUME NEW v \in Worker PROVE FollowsChain(v)'
    <3>1. CASE v = w
      BY <1>1, <1>3, <3>1, LiveFollows
    <3>2. CASE v # w
      BY <1>3, <3>2, FollowsWhere
    <3>. QED  BY <3>1, <3>2
  <2>3. Followed(scanned)' /\ Covers(index, lastScanned)'
    BY <1>1, <1>3, LiveScanned
  <2>. QED  BY <1>5, <2>1, <2>2, <2>3 DEF FollowInv
<1>10. SavedInv'
  BY <1>1, <1>3, <1>4, <1>9, LiveSaved
<1>11. BootType' /\ boot'.pc = "live" /\ Shape'
  BY <1>1, <1>5 DEF LiveStep, BootType, Inv
<1>. QED  BY <1>5, <1>6, <1>7, <1>8, <1>9, <1>10, <1>11 DEF CrashInv

----------------------------------------------------------------------------
(* The node's chain grows.                                                 *)

\* The node's chain has become longer, and is otherwise the same.
Longer ==
    /\ chain \in Chains /\ chain' \in Chains
    /\ Len(chain) \in Nat /\ Len(chain') \in Nat /\ Len(chain) <= Len(chain')
    /\ \A h \in 1..Len(chain) : chain'[h] = chain[h]

LEMMA NodeExtends == ASSUME GrowingNode, Shape, NodeMoves PROVE Longer
<1>1. /\ chain \in Chains /\ chain' \in Chains /\ Len(chain') >= Len(chain)
      /\ SubSeq(chain', 1, Len(chain)) = chain
  BY DEF NodeMoves, NodeStep, GrowingNode, Shape
<1>2. /\ chain' \in Seq(Block) /\ Len(chain') \in Nat /\ Len(chain) \in Nat
      /\ Len(chain) <= Len(chain')
  BY <1>1, ChainAssumption
<1>3. \A h \in 1..Len(chain) : SubSeq(chain', 1, Len(chain))[h] = chain'[h]
  BY <1>2
<1>4. \A h \in 1..Len(chain) : chain'[h] = chain[h]
  BY <1>1, <1>3
<1>. QED  BY <1>1, <1>2, <1>4 DEF Longer

LEMMA FollowedGrows ==
    ASSUME Longer, NEW s, Followed(s)
    PROVE  /\ s \in Seq(Block) /\ Len(s) <= Len(chain')
           /\ \A h \in 1..Len(s) : s[h] = chain'[h]
<1>1. /\ s \in Seq(Block) /\ Len(s) <= Len(chain) /\ Len(s) \in Nat
      /\ \A h \in 1..Len(s) : s[h] = chain[h]
  BY DEF Followed
<1>2. Len(s) <= Len(chain') /\ \A h \in 1..Len(s) : h \in 1..Len(chain)
  BY <1>1 DEF Longer
<1>. QED  BY <1>1, <1>2 DEF Longer

LEMMA CoversGrows ==
    ASSUME Longer, NEW idx, NEW h \in Nat, h <= Len(chain), Covers(idx, h)
    PROVE  \A g \in 1..h : ShieldTxs[chain'[g]] > 0 => g \in HeightsIn(idx)
<1>1. \A g \in 1..h : g \in 1..Len(chain)
  BY DEF Longer
<1>. QED  BY <1>1 DEF Longer, Covers

LEMMA GaplessGrows ==
    ASSUME Longer, NEW idx \in Seq(IndexEntry), NEW h \in Nat, h <= Len(chain),
           Gapless(idx, h)
    PROVE  \A g \in 1..LastHeight(idx) : ShieldTxs[chain'[g]] > 0 => g \in HeightsIn(idx)
<1>1. LastHeight(idx) \in Nat /\ LastHeight(idx) <= h
  BY LastHeightIs DEF Gapless
<1>2. LastHeight(idx) <= Len(chain)
  BY <1>1 DEF Longer
<1>. QED  BY <1>1, <1>2, CoversGrows DEF Gapless

\* FoundAll, of any chain c.
FoundOn(c, idx, found, h) ==
    /\ \A j \in 1..Len(found) :
         /\ HeightOf[found[j]] <= h /\ c[HeightOf[found[j]]] = found[j]
         /\ ShieldTxs[found[j]] > 0
    /\ \A i, j \in 1..Len(found) : i < j => HeightOf[found[i]] < HeightOf[found[j]]
    /\ \A g \in 1..h : ShieldTxs[c[g]] > 0 =>
         g \in HeightsIn(idx) \/ \E j \in 1..Len(found) : HeightOf[found[j]] = g

LEMMA FoundGrows ==
    ASSUME Longer, NEW idx, NEW found \in Seq(Block), NEW h \in Nat, h <= Len(chain),
           FoundAll(idx, found, h)
    PROVE  FoundOn(chain', idx, found, h)
<1>1. ASSUME NEW j \in 1..Len(found) PROVE HeightOf[found[j]] \in 1..Len(chain)
  <2>1. HeightOf[found[j]] \in Heights
    BY ChainAssumption
  <2>2. HeightOf[found[j]] \in Nat /\ HeightOf[found[j]] > 0
    BY <2>1, ChainAssumption DEF Heights
  <2>3. HeightOf[found[j]] <= h
    BY DEF FoundAll
  <2>. QED  BY <2>2, <2>3 DEF Longer
<1>2. \A g \in 1..h : g \in 1..Len(chain)
  BY DEF Longer
<1>. QED  BY <1>1, <1>2 DEF Longer, FoundAll, FoundOn

LEMMA NodeMovesCrash ==
    ASSUME GrowingNode, CrashInv, NodeMoves PROVE CrashInv'
<1>1. /\ Shape /\ BootType /\ CachedOnChain /\ NoIds /\ DecodeInv
      /\ chainHeight <= Len(chain) /\ SavedInv
  BY DEF CrashInv
<1>2. Longer
  BY <1>1, NodeExtends
<1>3. UNCHANGED <<indexing, chainHeight, lastScanned, lastHash, diskCursor, index, buffer,
                  file, diskIndex, cache, inflight, pass, boot, resume, scanned>>
  BY DEF NodeMoves, NodeStep, cursor, store
<1>4. Shape' /\ BootType' /\ NoIds' /\ DecodeInv'
  BY <1>1, <1>2, <1>3 DEF Shape, BootType, NoIds, DecodeInv, Decoded, Longer
<1>5. /\ chainHeight \in Nat /\ Len(chain) \in Nat /\ Len(chain') \in Nat
      /\ Len(chain) <= Len(chain') /\ chainHeight' <= Len(chain')
      /\ index \in Seq(IndexEntry) /\ diskIndex \in Seq(IndexEntry)
      /\ diskCursor.height \in Nat
      /\ \A h \in 1..Len(chain) : chain'[h] = chain[h]
  BY <1>1, <1>2, <1>3 DEF Shape, Longer
<1>6. CachedOnChain'
  <2>1. ASSUME NEW h \in Heights, cache.h2h[h] # NoBlock
        PROVE  h <= Len(chain') /\ cache.h2h[h] = chain'[h]
    <3>1. h \in Nat /\ h > 0
      BY ChainAssumption DEF Heights
    <3>2. h \in 1..Len(chain) /\ cache.h2h[h] = chain[h]
      BY <1>1, <1>5, <2>1, <3>1 DEF CachedOnChain
    <3>. QED  BY <1>5, <3>1, <3>2
  <2>. QED  BY <1>3, <2>1 DEF CachedOnChain
<1>7. SavedInv'
  <2>1. Followed(resume)'
    BY <1>1, <1>2, <1>3, FollowedGrows DEF SavedInv, Followed
  <2>2. Covers(diskIndex, Len(resume))'
    <3>1. Len(resume) \in Nat /\ Len(resume) <= Len(chain) /\ Covers(diskIndex, Len(resume))
      BY <1>1 DEF SavedInv, Followed
    <3>2. \A g \in 1..Len(resume) : ShieldTxs[chain'[g]] > 0 => g \in HeightsIn(diskIndex)
      BY <1>2, <3>1, CoversGrows
    <3>. QED  BY <1>3, <3>2 DEF Covers
  <2>3. Gapless(diskIndex, Len(chain))'
    <3>1. Gapless(diskIndex, Len(chain)) /\ Len(chain) <= Len(chain)
      BY <1>1, <1>5 DEF SavedInv
    <3>2. \A g \in 1..LastHeight(diskIndex) :
            ShieldTxs[chain'[g]] > 0 => g \in HeightsIn(diskIndex)
      BY <1>2, <1>5, <3>1, GaplessGrows
    <3>3. UpTo(diskIndex, Len(chain'))
      <4>1. \A k \in 1..Len(diskIndex) : diskIndex[k].block \in Nat
        BY <1>5, EntryTypes
      <4>. QED  BY <1>5, <3>1, <4>1 DEF Gapless, UpTo
    <3>. QED  BY <1>3, <3>1, <3>2, <3>3 DEF Gapless, Covers
  <2>4. /\ diskCursor.height <= Len(chain')
        /\ diskCursor.height > 0 => diskCursor.hash \in {NoBlock, chain'[diskCursor.height]}
    <3>1. /\ diskCursor.height <= Len(chain)
          /\ diskCursor.height > 0 => diskCursor.hash \in {NoBlock, chain[diskCursor.height]}
      BY <1>1 DEF SavedInv
    <3>. QED  BY <1>5, <3>1
  <2>. QED  BY <1>1, <1>3, <2>1, <2>2, <2>3, <2>4 DEF SavedInv
<1>8. ASSUME boot.pc = "live" PROVE FollowInv'
  <2>1. FollowInv
    BY <1>8 DEF CrashInv
  <2>2. Inv' /\ Traced'
    <3>1. Inv /\ Traced /\ [Next]_vars
      BY <2>1 DEF FollowInv, NodeMoves, Next
    <3>. QED  BY <3>1, NextInv, TracedNext
  <2>3. Followed(scanned)'
    BY <1>2, <1>3, <2>1, FollowedGrows DEF FollowInv, Followed
  <2>4. lastScanned \in Nat /\ lastScanned <= Len(chain)
    BY <1>1, <2>1 DEF FollowInv, Traced, Followed, Shape
  <2>5. Covers(index, lastScanned)'
    <3>1. \A g \in 1..lastScanned : ShieldTxs[chain'[g]] > 0 => g \in HeightsIn(index)
      BY <1>2, <2>1, <2>4, CoversGrows DEF FollowInv
    <3>. QED  BY <1>3, <3>1 DEF Covers
  <2>6. ASSUME NEW w \in Worker PROVE FollowsChain(w)'
    <3>1. FollowsChain(w) /\ PassOK(w) /\ pass[w] \in Pass
      BY <1>1, <2>1 DEF FollowInv, Inv, Shape
    <3>2. pass[w].pc \in Scanning =>
            pass[w].at <= Len(chain') /\ pass[w].seen = chain'[pass[w].at]
      BY <1>5, <2>4, <3>1 DEF FollowsChain, PassOK
    <3>3. pass[w].pc = "detect" /\ pass[w].at > 1 => pass[w].seen = chain'[pass[w].at - 1]
      <4>. SUFFICES ASSUME pass[w].pc = "detect", pass[w].at > 1
                    PROVE  pass[w].seen = chain'[pass[w].at - 1]
        OBVIOUS
      <4>1. pass[w].at = lastScanned + 1 /\ pass[w].seen = chain[pass[w].at - 1]
        BY <3>1 DEF FollowsChain, PassOK
      <4>2. pass[w].at - 1 \in 1..Len(chain)
        BY <1>5, <2>4, <4>1
      <4>. QED  BY <1>5, <4>1, <4>2
    <3>4. pass[w].pc = "cursor" /\ lastScanned > 0 =>
            pass[w].seen \in {NoBlock, chain'[lastScanned]}
      BY <1>5, <2>4, <3>1 DEF FollowsChain
    <3>. QED  BY <1>3, <3>1, <3>2, <3>3, <3>4 DEF FollowsChain, PacketsAt
  <2>. QED  BY <1>3, <2>1, <2>2, <2>3, <2>5, <2>6 DEF FollowInv
<1>9. ASSUME boot.pc \notin {"down", "live"} PROVE ScanInv'
  <2>1. ScanInv
    BY <1>9 DEF CrashInv
  <2>2. Followed(scanned)' /\ Len(scanned) \in Nat /\ Len(scanned) <= Len(chain)
    <3>1. Followed(scanned)
      BY <2>1 DEF ScanInv
    <3>2. Followed(scanned)'
      BY <1>2, <1>3, <3>1, FollowedGrows DEF Followed
    <3>. QED  BY <3>1, <3>2 DEF Followed
  <2>3. Gapless(index, chainHeight)'
    <3>1. Gapless(index, chainHeight)
      BY <2>1 DEF ScanInv
    <3>2. \A g \in 1..LastHeight(index) : ShieldTxs[chain'[g]] > 0 => g \in HeightsIn(index)
      BY <1>1, <1>2, <1>5, <3>1, GaplessGrows
    <3>. QED  BY <1>3, <3>1, <3>2 DEF Gapless, Covers
  <2>4. boot.pc \in {"save", "cursor", "load"} => Covers(index, chainHeight)'
    <3>1. ASSUME Covers(index, chainHeight) PROVE Covers(index, chainHeight)'
      <4>1. \A g \in 1..chainHeight : ShieldTxs[chain'[g]] > 0 => g \in HeightsIn(index)
        BY <1>1, <1>2, <1>5, <3>1, CoversGrows
      <4>. QED  BY <1>3, <4>1 DEF Covers
    <3>. QED  BY <2>1, <3>1 DEF ScanInv
  <2>5. boot.pc = "append" => FoundAll(index, boot.found, chainHeight)'
    <3>1. ASSUME FoundAll(index, boot.found, chainHeight)
          PROVE  FoundAll(index, boot.found, chainHeight)'
      <4>1. boot.found \in Seq(Block)
        BY <1>1 DEF BootType
      <4>2. /\ chainHeight \in Nat /\ chainHeight <= Len(chain)
            /\ UNCHANGED <<boot, index, chainHeight>>
        BY <1>1, <1>3, <1>5
      <4>3. FoundOn(chain', index, boot.found, chainHeight)
        BY <1>2, <3>1, <4>1, <4>2, FoundGrows
      <4>4. FoundOn(chain', index', boot'.found, chainHeight')
        BY <4>2, <4>3
      <4>. QED  BY <4>4 DEF FoundAll, FoundOn
    <3>. QED  BY <2>1, <3>1 DEF ScanInv
  <2>6. boot.pc = "scan" =>
          /\ boot.at = Len(scanned) + 1 /\ boot.at <= chainHeight
          /\ boot.seen = chain'[boot.at] /\ FoundAll(index, boot.found, Len(scanned))'
    <3>. SUFFICES ASSUME boot.pc = "scan"
                  PROVE  /\ boot.at = Len(scanned) + 1 /\ boot.at <= chainHeight
                         /\ boot.seen = chain'[boot.at]
                         /\ FoundAll(index, boot.found, Len(scanned))'
      OBVIOUS
    <3>1. /\ boot.at = Len(scanned) + 1 /\ boot.at <= chainHeight
          /\ boot.seen = chain[boot.at] /\ FoundAll(index, boot.found, Len(scanned))
          /\ boot.found \in Seq(Block)
      BY <1>1, <2>1 DEF ScanInv, BootType
    <3>2. boot.at \in 1..Len(chain)
      BY <1>1, <1>5, <2>2, <3>1
    <3>3. UNCHANGED <<boot, index, scanned>>
      BY <1>3
    <3>4. FoundAll(index, boot.found, Len(scanned))'
      <4>1. FoundOn(chain', index, boot.found, Len(scanned))
        BY <1>2, <2>2, <3>1, FoundGrows
      <4>2. FoundOn(chain', index', boot'.found, Len(scanned'))
        BY <3>3, <4>1
      <4>. QED  BY <4>2 DEF FoundAll, FoundOn
    <3>. QED  BY <1>5, <3>1, <3>2, <3>4
  <2>. QED  BY <1>3, <2>1, <2>2, <2>3, <2>4, <2>5, <2>6 DEF ScanInv
<1>. QED
  BY <1>3, <1>4, <1>5, <1>6, <1>7, <1>8, <1>9 DEF CrashInv

----------------------------------------------------------------------------
(* The program stops, also in the middle of a write.                       *)

LEMMA WrittenType == ASSUME CrashInv PROVE BeingWritten \in Seq(Packet)
<1>1. CASE boot.pc = "append"
  <2>1. /\ ScanInv /\ Shape /\ boot.found \in Seq(Block) /\ chainHeight <= Len(chain)
    BY <1>1 DEF CrashInv, BootType
  <2>2. /\ FoundAll(index, boot.found, chainHeight) /\ Gapless(index, chainHeight)
        /\ index \in Seq(IndexEntry) /\ chainHeight \in Nat /\ chain \in Chains
    BY <1>1, <2>1 DEF ScanInv, Shape
  <2>3. NewOrThere(<<>>, boot.found)
    BY <2>1, <2>2, FoundIsNew
  <2>4. <<>> \in Seq(IndexEntry) /\ <<>> \in Seq(Packet) /\ AscendingHeights(<<>>)
    BY DEF AscendingHeights
  <2>5. Batch(<<>>, <<>>, boot.found).file \in Seq(Packet)
    BY <2>1, <2>3, <2>4, BatchAscends
  <2>. QED  BY <1>1, <2>5 DEF BeingWritten, EncodeAll
<1>2. CASE boot.pc # "append" /\ Somewhere({"decoded"})
  <2>1. PICK w \in Worker : pass[w].pc = "decoded"
    BY <1>2 DEF Somewhere
  <2>2. Live
    BY <2>1 DEF CrashInv, Live
  <2>3. Running = w
    <3>1. \A v \in Worker : v # w => pass[v].pc = "idle"
      BY <2>1, <2>2, Alone, LiveFacts
    <3>. QED  BY <2>1, <3>1 DEF Running
  <2>4. pass[w].seen \in Block /\ pass[w].got \in Nat
    BY <2>1, <2>2, NextBlock, LiveFacts DEF Scanning, Pass
  <2>5. Encode(pass[w].seen, pass[w].got) \in Seq(Packet)
    BY <2>4, EncodeProperties
  <2>6. BeingWritten = <<>> \/ BeingWritten = Encode(pass[w].seen, pass[w].got)
    BY <1>2, <2>3 DEF BeingWritten
  <2>7. <<>> \in Seq(Packet)
    OBVIOUS
  <2>. QED  BY <2>5, <2>6, <2>7
<1>3. CASE boot.pc # "append" /\ ~Somewhere({"decoded"})
  <2>1. BeingWritten = <<>>
    BY <1>3 DEF BeingWritten
  <2>. QED  BY <2>1
<1>. QED  BY <1>1, <1>2, <1>3

LEMMA StopCrash == ASSUME CrashInv, Stop PROVE CrashInv'
<1>1. Shape /\ SavedInv
  BY DEF CrashInv
<1>2. /\ UNCHANGED <<chain, diskIndex, diskCursor, resume>>
      /\ indexing' = FALSE /\ chainHeight' = 0 /\ lastScanned' = 0 /\ lastHash' = NoBlock
      /\ index' = <<>> /\ buffer' = <<>> /\ cache' = EmptyCache
      /\ inflight' = NoRequest /\ boot' = Down /\ scanned' = resume
  BY DEF Stop
<1>3. file' \in Seq(Packet) /\ file' \in Seq(Bytes) /\ Grows(file, file')
  <2>1. PICK k \in 0..Len(BeingWritten) : file' = file \o SubSeq(BeingWritten, 1, k)
    BY DEF Stop
  <2>2. file \in Seq(Packet) /\ BeingWritten \in Seq(Packet)
    BY <1>1, WrittenType DEF SavedInv
  <2>3. file' \in Seq(Packet) /\ Grows(file, file')
    BY <2>1, <2>2, PartGrows
  <2>. QED  BY <2>3 DEF Packet, Bytes
<1>4. AllWhole(file', diskIndex)
  <2>1. file \in Seq(Bytes) /\ AllWhole(file, diskIndex) /\ diskIndex \in Seq(IndexEntry)
    BY <1>1 DEF SavedInv, Shape, Bytes
  <2>. QED  BY <1>3, <2>1, AllWholeGrows
<1>5. SavedInv'
  BY <1>1, <1>2, <1>3, <1>4, SavedKept
<1>6. pass' \in [Worker -> Pass] /\ \A w \in Worker : pass'[w].pc = "idle"
  BY DEF Stop, IdlePass, Pass, PC, NoOffset
<1>7. Shape'
  <2>1. /\ chain \in Chains /\ diskIndex \in Seq(IndexEntry)
        /\ diskCursor \in [height : Nat, hash : Block \cup {NoBlock}]
    BY <1>1 DEF Shape
  <2>2. <<>> \in Seq(IndexEntry) /\ <<>> \in Seq(Packet)
    OBVIOUS
  <2>. QED  BY <1>2, <1>3, <1>6, <2>1, <2>2, EmptyCacheIs DEF Shape, Bytes
<1>8. BootType' /\ boot'.pc = "down" /\ boot'.found = <<>>
  <2>1. "down" \in BootPC /\ <<>> \in Seq(Block)
    BY DEF BootPC
  <2>. QED  BY <1>2, <2>1 DEF BootType, Down
<1>9. CachedOnChain' /\ NoIds' /\ DecodeInv'
  BY <1>2, <1>6, EmptyCacheIs DEF CachedOnChain, NoIds, DecodeInv, Decoded
<1>10. chainHeight' <= Len(chain') /\ scanned' = resume'
  <2>1. Len(chain) \in Nat
    BY <1>1, ChainFacts DEF Shape
  <2>. QED  BY <1>2, <2>1
<1>. QED
  BY <1>2, <1>5, <1>6, <1>7, <1>8, <1>9, <1>10 DEF CrashInv

LEMMA CrashNext ==
    ASSUME GrowingNode, WorkingStream, CrashInv, [RestartNext]_allvars
    PROVE  CrashInv'
<1>1. CASE UNCHANGED allvars
  <2>1. UNCHANGED <<chain, indexing, chainHeight, lastScanned, lastHash, index, buffer,
                    cache, file, diskIndex, diskCursor, inflight, pass, boot, scanned,
                    resume>>
    BY <1>1 DEF allvars, vars
  <2>2. Shape' /\ BootType' /\ CachedOnChain' /\ NoIds' /\ DecodeInv'
    BY <2>1 DEF CrashInv, Shape, BootType, CachedOnChain, NoIds, DecodeInv
  <2>3. SavedInv'
    BY <2>1, SavedKept DEF CrashInv, SavedInv
  <2>4. FollowInv => FollowInv'
    <3>1. Inv /\ Traced => Inv' /\ Traced'
      BY <1>1, NextInv, TracedNext DEF allvars
    <3>2. \A w \in Worker : FollowsChain(w) => FollowsChain(w)'
      BY <2>1 DEF FollowsChain, PacketsAt
    <3>. QED  BY <2>1, <3>1, <3>2 DEF FollowInv, Followed, Covers
  <2>5. ScanInv => ScanInv'
    <3>1. /\ Gapless(index, chainHeight)' <=> Gapless(index, chainHeight)
          /\ Covers(index, chainHeight)' <=> Covers(index, chainHeight)
          /\ Followed(scanned)' <=> Followed(scanned)
      BY <2>1 DEF Gapless, Covers, Followed
    <3>2. FoundAll(index, boot.found, chainHeight) =>
            FoundAll(index, boot.found, chainHeight)'
      BY <2>1 DEF FoundAll
    <3>3. FoundAll(index, boot.found, Len(scanned)) =>
            FoundAll(index, boot.found, Len(scanned))'
      BY <2>1 DEF FoundAll
    <3>. QED  BY <2>1, <3>1, <3>2, <3>3 DEF ScanInv
  <2>. QED  BY <2>1, <2>2, <2>3, <2>4, <2>5 DEF CrashInv
<1>. QED
  BY <1>1, BootCrash, LiveCrash, NodeMovesCrash, StopCrash DEF RestartNext

LEMMA CrashInvariance ==
    ASSUME GrowingNode, WorkingStream PROVE RestartSpec => []CrashInv
<1>1. CrashInv /\ [RestartNext]_allvars => CrashInv'
  BY CrashNext
<1>. QED  BY <1>1, CrashInit, PTL DEF RestartSpec

----------------------------------------------------------------------------
(* The theorems about stops anywhere.                                      *)

\* Wherever the bridge is stopped, a write included, and however often: when it
\* starts again, on a chain that has only grown and with a node that answers,
\* it resumes behind blocks that have all been scanned, and of which the saved
\* index has every one with Sapling transactions. No block is skipped.
THEOREM NoBlockSkipped ==
    ASSUME GrowingNode, WorkingStream PROVE RestartSpec => []CursorBacked
<1>1. CrashInv => CursorBacked
  <2>. SUFFICES ASSUME CrashInv, NEW h \in 1..Len(resume)
                PROVE  /\ resume[h] # NoBlock
                       /\ ShieldTxs[resume[h]] > 0 => h \in HeightsIn(diskIndex)
    BY DEF CursorBacked
  <2>1. Shape /\ Followed(resume) /\ Covers(diskIndex, Len(resume))
    BY DEF CrashInv, SavedInv
  <2>2. h \in 1..Len(chain) /\ resume[h] = chain[h]
    <3>1. Len(resume) \in Nat /\ Len(resume) <= Len(chain) /\ Len(chain) \in Nat
      BY <2>1, ChainFacts DEF Followed, Shape
    <3>. QED  BY <2>1, <3>1 DEF Followed
  <2>. QED  BY <2>1, <2>2, ChainFacts DEF Covers, Shape
<1>. QED  BY <1>1, CrashInvariance, PTL

\* And each entry of the saved index names a whole block of its height in
\* shield.bin, also behind an append that was cut short: recover_cache takes
\* away what is torn, and nothing else.
THEOREM SavedIndexSurvives ==
    ASSUME GrowingNode, WorkingStream PROVE RestartSpec => []SavedIndexBacked
<1>1. CrashInv => SavedIndexBacked
  <2>. SUFFICES ASSUME CrashInv, NEW k \in 1..Len(diskIndex)
                PROVE  Backs(file, diskIndex[k])
    BY DEF SavedIndexBacked
  <2>1. file \in Seq(Bytes) /\ diskIndex[k] \in IndexEntry /\ Whole(file, diskIndex[k])
    BY DEF CrashInv, SavedInv, Shape, AllWhole, Bytes
  <2>. QED  BY <2>1, WholeBacks
<1>. QED  BY <1>1, CrashInvariance, PTL

=============================================================================
