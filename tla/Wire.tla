-------------------------------- MODULE Wire --------------------------------
(***************************************************************************)
(* The bytes of the shield stream: CompactSize counts, the Sapling part of *)
(* a raw PIVX transaction, the three encodings of a block, the conversion  *)
(* from the stored one to the compact ones, and the search for the last    *)
(* footer (src/scanner.rs, src/stream.rs, src/api.rs, src/cache.rs).       *)
(*                                                                         *)
(* A byte is a digit below Base, 256 in the code; the CompactSize markers  *)
(* are the three highest digits and every width is counted in digits, so   *)
(* that each encoding changes width where the code's does.  A field whose  *)
(* content nothing looks into (a hash, a proof, a ciphertext) is one       *)
(* digit.  Positions count from 0, as in the code: data[p] is d[p + 1].    *)
(***************************************************************************)
EXTENDS Integers, SequencesExt

CONSTANT Base           \* the number of values of a byte

ASSUME BaseAssumption == Base \in Nat /\ Base >= 7

TxVersion == 3          \* first byte of a raw transaction
CompactTag == 4         \* PACKET_TYPE_COMPACT_TX
CompactPlusTag == 5     \* PACKET_TYPE_COMPACT_PLUS_TX
BlockTag == 6           \* PACKET_TYPE_BLOCK

SaplingHeader == <<TxVersion, 0, 0, 0>>

\* cv, anchor, nullifier, rk, proof, sig.
SpendDescSize == 6
NullifierAt   == 2

\* cv, cmu, epk, enc_ciphertext, out_ciphertext, proof.
OutputDescSize == 6
OutputFields   == 5     \* what CompactOutput keeps of it

FooterSize == 9         \* tag, height, time

Concat(Op(_), s) == FlattenSeq([i \in 1..Len(s) |-> Op(s[i])])

----------------------------------------------------------------------------
(* Integers.                                                               *)

U16Max == Base * Base - 1
U32Max == Base * Base * Base * Base - 1

\* The low digits of n, least significant first: `n as uN` and to_le_bytes.
LE(width, n) ==
    LET rest[i \in 0..width] == IF i = 0 THEN n ELSE rest[i - 1] \div Base
    IN  [i \in 1..width |-> rest[i - 1] % Base]

FromLE(s) ==
    LET value[i \in 0..Len(s)] ==
          IF i = Len(s) THEN 0 ELSE s[i + 1] + Base * value[i + 1]
    IN  value[0]

\* Mutant of WriteCompactSize: a count is one byte, as it was before.
WriteCount(n) == <<n % Base>>

WriteCompactSize(n) ==
    IF n < Base - 3     THEN <<n>>
    ELSE IF n <= U16Max THEN <<Base - 3>> \o LE(2, n)
    ELSE IF n <= U32Max THEN <<Base - 2>> \o LE(4, n)
    ELSE                     <<Base - 1>> \o LE(8, n)

\* How many digits of a count follow its first.
CountWidth(first) ==
    CASE first = Base - 3 -> 2
      [] first = Base - 2 -> 4
      [] first = Base - 1 -> 8
      [] OTHER            -> 0

Err == -1               \* in place of a position

\* The count at p, and the position behind it.
ReadCompactSize(d, p) ==
    LET width == CountWidth(d[p + 1])
        next  == p + 1 + width
    IN  IF p >= Len(d) \/ next > Len(d) THEN [n |-> 0, next |-> Err]
        ELSE [ n    |-> IF width = 0 THEN d[p + 1] ELSE FromLE(SubSeq(d, p + 2, next)),
               next |-> next ]

----------------------------------------------------------------------------
(* parse_sapling_tx.  Ok(None) and Err are one: all callers leave the       *)
(* transaction out on either.                                               *)

\* One vin or vout: fields, a script with its length, fields.
SkipScript(d, p, before, after) ==
    IF p = Err THEN Err
    ELSE LET script == ReadCompactSize(d, p + before)
             next   == script.next + script.n + after
         IN  IF script.next = Err \/ next > Len(d) THEN Err ELSE next

SkipScripts(d, p, before, after) ==
    IF p = Err THEN Err
    ELSE LET count == ReadCompactSize(d, p)
             skipped[i \in 0..count.n] ==
               IF i = 0 THEN count.next
               ELSE SkipScript(d, skipped[i - 1], before, after)
         IN  skipped[count.n]

NotShielded == [shielded |-> FALSE, nullifiers |-> <<>>, outputs |-> <<>>]

ParseSaplingDescs(d, p) ==
    LET spends  == ReadCompactSize(d, p)
        behind  == spends.next + spends.n * SpendDescSize
        outputs == ReadCompactSize(d, behind)
        end     == outputs.next + outputs.n * OutputDescSize
        field(from, size, i, k) == d[from + (i - 1) * size + k + 1]
    IN  IF \/ spends.next = Err \/ behind > Len(d)
           \/ outputs.next = Err \/ end > Len(d)
           \/ spends.n + outputs.n = 0
        THEN NotShielded
        ELSE [ shielded   |-> TRUE,
               nullifiers |-> [i \in 1..spends.n |->
                                 field(spends.next, SpendDescSize, i, NullifierAt)],
               outputs    |-> [i \in 1..outputs.n |->
                                 [k \in 1..OutputFields |->
                                    field(outputs.next, OutputDescSize, i, k - 1)]] ]

\* Behind the header: vins (prevout, script, sequence), vouts (value, script),
\* the lock time, the presence byte and the value balance.
ParseSaplingTx(d) ==
    LET vouts  == SkipScripts(d, Len(SaplingHeader), 1, 1)
        locked == SkipScripts(d, vouts, 1, 0)
        p      == locked + 1
    IN  IF locked = Err \/ p >= Len(d) THEN NotShielded
        ELSE IF d[p + 1] = 0 \/ p + 2 > Len(d) THEN NotShielded
        ELSE ParseSaplingDescs(d, p + 2)

\* scan_block_inner: the raw transactions a shield block is made of.
IsShielded(raw) ==
    /\ IsPrefix(SaplingHeader, raw)
    /\ ParseSaplingTx(raw).shielded

ScanBlockInner(block) ==
    LET kept(raw) == IF IsShielded(raw) THEN <<raw>> ELSE <<>>
    IN  [block EXCEPT !.txs = Concat(kept, block.txs)]

----------------------------------------------------------------------------
(* The encoders of stream.rs.                                              *)

Packet(payload) == LE(4, Len(payload)) \o payload

EncodePivxCompat(block) ==
    Concat(Packet, block.txs)
      \o Packet(<<BlockTag>> \o LE(4, block.height) \o LE(4, block.time))

EncodeBlockHeader(height) == Packet(<<BlockTag>> \o LE(4, height))

Counts(tx) == WriteCompactSize(Len(tx.nullifiers)) \o WriteCompactSize(Len(tx.outputs))

EncodeCompactTx(raw) ==
    LET tx == ParseSaplingTx(raw)
    IN  Packet(<<CompactTag>> \o Counts(tx) \o tx.nullifiers \o FlattenSeq(tx.outputs))

\* Without cv and out_ciphertext.
EncodeCompactPlusTx(raw) ==
    LET tx == ParseSaplingTx(raw)
        kept(out) == SubSeq(out, 2, 4)
    IN  Packet(<<CompactPlusTag>> \o Counts(tx) \o tx.nullifiers
                 \o Concat(kept, tx.outputs))

EncodeCompact(block) ==
    EncodeBlockHeader(block.height) \o Concat(EncodeCompactTx, block.txs)

EncodeCompactPlus(block) ==
    EncodeBlockHeader(block.height) \o Concat(EncodeCompactPlusTx, block.txs)

EncodeShieldStream(blocks, format) ==
    CASE format = "PivxCompat"  -> Concat(EncodePivxCompat, blocks)
      [] format = "Compact"     -> Concat(EncodeCompact, blocks)
      [] format = "CompactPlus" -> Concat(EncodeCompactPlus, blocks)

----------------------------------------------------------------------------
(* Walking a stream.                                                       *)

\* The payloads [from, to) of the packets of d up to the first that reaches
\* beyond its end.  pivxcompat_to_compact stops at an empty packet as well.
Packets(d, stopAtEmpty) ==
    LET walk[p \in 0..Len(d)] ==
          IF p + 4 > Len(d) THEN <<>>
          ELSE LET size == FromLE(SubSeq(d, p + 1, p + 4))
                   end  == p + 4 + size
               IN  IF end > Len(d) \/ (stopAtEmpty /\ size = 0) THEN <<>>
                   ELSE <<[from |-> p + 4, to |-> end]>> \o walk[end]
    IN  walk[0]

Payload(d, packet) == SubSeq(d, packet.from + 1, packet.to)

IsFooter(payload) == Len(payload) = FooterSize /\ payload[1] = BlockTag

\* Mutant of FindLastFooter: the end of the last whole packet, footer or not.
FindLastPacket(d) ==
    LET packets == Packets(d, FALSE)
    IN  IF packets = <<>> THEN 0 ELSE Last(packets).to

\* The position behind the last footer, 0 for None.
FindLastFooter(d) ==
    LET packets == Packets(d, FALSE)
        footers == {i \in 1..Len(packets) : IsFooter(Payload(d, packets[i]))}
    IN  IF footers = {} THEN 0 ELSE packets[Max(footers)].to

\* Without a footer the file is left as it is.
RecoverCache(d) ==
    IF FindLastFooter(d) = 0 THEN d ELSE SubSeq(d, 1, FindLastFooter(d))

EncodeCompactPacket(tx, plus) ==
    LET tag == IF plus THEN CompactPlusTag ELSE CompactTag
        kept(out) == IF plus THEN SubSeq(out, 2, 4) ELSE out
    IN  Packet(<<tag>> \o Counts(tx) \o tx.nullifiers \o Concat(kept, tx.outputs))

\* At a footer: the header, then those pending transactions that parse.
ConvertBlock(footer, pending, plus) ==
    LET compact(raw) == LET tx == ParseSaplingTx(raw)
                        IN  IF tx.shielded THEN EncodeCompactPacket(tx, plus) ELSE <<>>
    IN  EncodeBlockHeader(FromLE(SubSeq(footer, 2, 5))) \o Concat(compact, pending)

\* Mutant of PivxCompatToCompact: pending_txs is not cleared at a footer.
PivxCompatToCompactUncleared(d, plus) ==
    LET packets == Packets(d, TRUE)
        after[n \in 0..Len(packets)] ==
          IF n = 0 THEN [out |-> <<>>, pending |-> <<>>]
          ELSE LET s == after[n - 1]
                   payload == Payload(d, packets[n])
               IN  IF IsFooter(payload)
                   THEN [s EXCEPT !.out = @ \o ConvertBlock(payload, s.pending, plus)]
                   ELSE [s EXCEPT !.pending = Append(@, payload)]
    IN  after[Len(packets)].out

PivxCompatToCompact(d, plus) ==
    LET packets == Packets(d, TRUE)
        after[n \in 0..Len(packets)] ==
          IF n = 0 THEN [out |-> <<>>, pending |-> <<>>]
          ELSE LET s == after[n - 1]
                   payload == Payload(d, packets[n])
               IN  IF IsFooter(payload)
                   THEN [ out     |-> s.out \o ConvertBlock(payload, s.pending, plus),
                          pending |-> <<>> ]
                   ELSE [s EXCEPT !.pending = Append(@, payload)]
    IN  after[Len(packets)].out
=============================================================================
