---------------------------- MODULE ShieldStore ----------------------------
(***************************************************************************)
(* The shield store: the binary stream of src/cache.rs and src/stream.rs   *)
(* (shield.bin and its in-memory mirror) and the index of src/index.rs.    *)
(*                                                                         *)
(* The stream is a sequence of packets, and an offset counts the packets   *)
(* before it.  A packet is <<b, j>>: the j-th transaction of block b, or   *)
(* b's footer when j = 0.  Packets have no length here: what matters is    *)
(* which packets a write left behind and where the index says they are.    *)
(***************************************************************************)
EXTENDS Chain

Packet == Block \X Nat

IndexEntry == [block : Heights, i : Nat]

NoOffset == -1

\* encode_pivx_compat: the transactions that were read, then the footer.
Encode(b, n) == [j \in 1..(n + 1) |-> <<b, IF j <= n THEN j ELSE 0>>]

\* partition_point: the first entry at or above height h, in an index that
\* is split by the predicate (there is no such point otherwise).
PartitionPoint(index, h) ==
    CHOOSE k \in 1..(Len(index) + 1) :
        /\ \A m \in 1..Len(index) : m < k => index[m].block < h
        /\ \A m \in 1..Len(index) : m >= k => index[m].block >= h

\* Mutant of OffsetForHeight: the first entry above h, not at it.
OffsetAbove(index, h) ==
    LET k == PartitionPoint(index, h + 1)
    IN  IF k <= Len(index) THEN index[k].i ELSE NoOffset

\* offset_for_height
OffsetForHeight(index, h) ==
    LET k == PartitionPoint(index, h)
    IN  IF k <= Len(index) THEN index[k].i ELSE NoOffset

\* remove_from: on an ascending index the entries retained are a prefix.
RemoveFrom(index, h) == SubSeq(index, 1, PartitionPoint(index, h) - 1)

HeightsIn(index) == {index[k].block : k \in 1..Len(index)}

\* ShieldIndex::add ignores a height it already has.
AddEntry(index, h, offset) ==
    IF h \in HeightsIn(index) THEN index
    ELSE Append(index, [block |-> h, i |-> offset])

\* Where the k-th indexed block ends in a stream of the given length.
EndOf(index, k, length) == IF k < Len(index) THEN index[k + 1].i ELSE length

AscendingHeights(index) ==
    \A k, m \in 1..Len(index) : k < m => index[k].block < index[m].block

AscendingOffsets(index) ==
    \A k, m \in 1..Len(index) : k < m => index[k].i < index[m].i

\* The packets after offset first, up to offset last, are one block of height
\* h, whole and in order: its transactions, then its footer.
WholeBlock(stream, first, last, h) ==
    /\ first < last
    /\ HeightOf[stream[last][1]] = h
    /\ \A p \in (first + 1)..last :
         stream[p] = <<stream[last][1], IF p < last THEN p - first ELSE 0>>

\* The stream up to the given length is exactly the blocks the index names.
Delimits(index, stream, length) ==
    /\ AscendingHeights(index) /\ AscendingOffsets(index)
    /\ IF Len(index) = 0 THEN length = 0 ELSE index[1].i = 0
    /\ \A k \in 1..Len(index) :
         /\ EndOf(index, k, length) <= length
         /\ WholeBlock(stream, index[k].i, EndOf(index, k, length), index[k].block)
=============================================================================
