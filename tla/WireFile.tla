------------------------------ MODULE WireFile ------------------------------
(***************************************************************************)
(* shield.bin byte by byte: what append_blocks, truncate_to and            *)
(* recover_cache (src/cache.rs) do to it, with a stop at any byte of an    *)
(* append, and what a wallet reads from it in each format.                 *)
(***************************************************************************)
EXTENDS Wire

CONSTANTS
    Candidates,     \* per height, the blocks a node may have there, each a
                    \* sequence of transactions (Tx)
    HeadTear,       \* a stop may tear the very first block of the file
    AppendFaults    \* bound on appends that fail while the program runs

ASSUME WireFileAssumption == HeadTear \in BOOLEAN /\ AppendFaults \in Nat

VARIABLES
    file,       \* shield.bin
    stored,     \* the index: per block indexed its transactions and its offset
    up,         \* the program runs
    faults      \* appends that failed so far

wirevars == <<file, stored, up, faults>>

----------------------------------------------------------------------------
(* What the node sends: transactions as PIVX Core serialises them.  A Tx    *)
(* says how many bytes each script has, and how many spends and outputs.    *)

NodeCount(n) ==
    CASE n < Base - 3                     -> <<n>>
      [] n \in (Base - 3)..(Base * Base - 1) -> <<Base - 3>> \o LE(2, n)
      [] n >= Base * Base                  -> <<Base - 2>> \o LE(4, n)

Script(size) == NodeCount(size) \o [i \in 1..size |-> i % Base]

SpendDesc(i)  == [k \in 1..SpendDescSize |-> (i + k) % Base]
OutputDesc(i) == [k \in 1..OutputDescSize |-> (2 * i + k) % Base]
Upto(n)       == [i \in 1..n |-> i]

RawTx(tx) ==
    LET vin(size)  == <<1>> \o Script(size) \o <<1>>
        vout(size) == <<1>> \o Script(size)
    IN  <<tx.version, 0, 0, 0>>
          \o NodeCount(Len(tx.vin)) \o Concat(vin, tx.vin)
          \o NodeCount(Len(tx.vout)) \o Concat(vout, tx.vout)
          \o <<0>>
          \o IF tx.spends + tx.outputs = 0 THEN <<0>>
             ELSE <<1, 0>> \o NodeCount(tx.spends) \o Concat(SpendDesc, Upto(tx.spends))
                    \o NodeCount(tx.outputs) \o Concat(OutputDesc, Upto(tx.outputs))
                    \o <<0>>

Sapling(tx) == tx.spends + tx.outputs > 0

\* What a candidate is made of: Sapling data is in transactions of its version.
\* Heights are u32, and a packet has its length in four digits: blocks, and so
\* their transactions, are far smaller.
Transaction ==
    {tx \in [version : 0..(Base - 1), vin : Seq(Nat), vout : Seq(Nat),
             spends : Nat, outputs : Nat] :
       Sapling(tx) => tx.version = TxVersion}

ASSUME CandidatesAssumption ==
    /\ Candidates \in Seq(SUBSET Seq(Transaction)) /\ Len(Candidates) <= U32Max
    /\ \A h \in 1..Len(Candidates) :
         \A txs \in Candidates[h] :
           \A i \in 1..Len(txs) : Len(RawTx(txs[i])) <= U32Max

\* Times wrap, as a digit of a real one would.
NodeBlock(h, txs) ==
    [height |-> h, time |-> Base * Base * Base + h, txs |-> [i \in 1..Len(txs) |-> RawTx(txs[i])]]

Scanned(h, txs) == ScanBlockInner(NodeBlock(h, txs))

----------------------------------------------------------------------------
(* The file.                                                               *)

Init == file = <<>> /\ stored = <<>> /\ up = TRUE /\ faults = 0

NextHeight == Len(stored) + 1

NextBytes ==
    {EncodePivxCompat(Scanned(NextHeight, txs)) :
       txs \in IF NextHeight <= Len(Candidates) THEN Candidates[NextHeight] ELSE {}}

\* append_blocks of the next block, and its index entry.
AppendBlock ==
    /\ up /\ NextHeight <= Len(Candidates)
    /\ \E txs \in Candidates[NextHeight] :
         /\ file' = file \o EncodePivxCompat(Scanned(NextHeight, txs))
         /\ stored' = Append(stored, [txs |-> txs, at |-> Len(file)])
    /\ UNCHANGED <<up, faults>>

\* What a write_all that did not end leaves of a block.
TornAppend ==
    \E bytes \in NextBytes :
      \E k \in 1..(Len(bytes) - 1) : file' = file \o SubSeq(bytes, 1, k)

\* The disk refuses the rest; the block is retried on the next pass.
AppendFails ==
    /\ up
    /\ faults < AppendFaults
    /\ TornAppend
    /\ faults' = faults + 1
    /\ UNCHANGED <<stored, up>>

\* truncate_to, for a reorganisation that reaches an indexed block.
TruncateTo ==
    /\ up
    /\ \E k \in 1..Len(stored) :
         /\ file' = SubSeq(file, 1, stored[k].at)
         /\ stored' = SubSeq(stored, 1, k - 1)
    /\ UNCHANGED <<up, faults>>

StopAppending ==
    /\ up
    /\ HeadTear \/ stored # <<>>
    /\ TornAppend
    /\ up' = FALSE
    /\ UNCHANGED <<stored, faults>>

Stop ==
    /\ up
    /\ up' = FALSE
    /\ UNCHANGED <<file, stored, faults>>

Start ==
    /\ ~up
    /\ file' = RecoverCache(file)
    /\ up' = TRUE
    /\ UNCHANGED <<stored, faults>>

Next == AppendBlock \/ TruncateTo \/ StopAppending \/ Stop \/ Start

WireSpec == Init /\ [][Next]_wirevars

FaultyWireSpec == Init /\ [][Next \/ AppendFails]_wirevars

----------------------------------------------------------------------------
(* What a reader makes of a compact stream, from the format's description   *)
(* in stream.rs and nothing else.                                           *)

Cut(d, from, to) == [i \in 1..(to - from) |-> IF from + i <= Len(d) THEN d[from + i] ELSE Err]

ReadTx(payload) ==
    LET nullifiers == ReadCompactSize(payload, 1)
        outputs    == ReadCompactSize(payload, nullifiers.next)
        size       == IF payload[1] = CompactTag THEN 5 ELSE 3
        from       == outputs.next + nullifiers.n
    IN  [ nullifiers |-> Cut(payload, outputs.next, from),
          outputs    |-> [i \in 1..outputs.n |->
                            Cut(payload, from + (i - 1) * size, from + i * size)] ]

\* Per block, its height and the transactions behind its header.
ReadCompact(d) ==
    LET packets == Packets(d, FALSE)
        read[n \in 0..Len(packets)] ==
          IF n = 0 THEN <<>>
          ELSE LET blocks  == read[n - 1]
                   payload == Payload(d, packets[n])
               IN  IF payload[1] = BlockTag
                   THEN Append(blocks, [height |-> FromLE(SubSeq(payload, 2, 5)),
                                        txs    |-> <<>>])
                   ELSE [blocks EXCEPT ![Len(blocks)].txs = Append(@, ReadTx(payload))]
    IN  read[Len(packets)]

\* What a transaction should come to in a compact stream.
Notes(tx, plus) ==
    LET output(i) == IF plus THEN SubSeq(OutputDesc(i), 2, 4) ELSE SubSeq(OutputDesc(i), 1, 5)
    IN  [ nullifiers |-> [i \in 1..tx.spends |-> SpendDesc(i)[3]],
          outputs    |-> [i \in 1..tx.outputs |-> output(i)] ]

ShieldBlock(k) == Scanned(k, stored[k].txs)

\* The stream a reader gets who starts at the k-th indexed block.
Served(k) == SubSeq(file, stored[k].at + 1, Len(file))

----------------------------------------------------------------------------
(* Properties.                                                             *)

\* "recover_cache [...] prevents a half-written block from corrupting the
\* stream": wherever in a block a stop hits an append, after the start the
\* file is the indexed blocks, byte by byte, and nothing else.
RecoveredIsWhole ==
    up => file = EncodeShieldStream([k \in 1..Len(stored) |-> ShieldBlock(k)], "PivxCompat")

\* The converter in api.rs and the encoders in stream.rs, each with its own
\* loop and its own layout, make the same compact streams of the same blocks,
\* from whichever block on.
CompactAgrees ==
    up => \A k \in 1..Len(stored), plus \in BOOLEAN :
      LET blocks == [i \in 1..(Len(stored) - k + 1) |-> ShieldBlock(k + i - 1)]
          format == IF plus THEN "CompactPlus" ELSE "Compact"
      IN  PivxCompatToCompact(Served(k), plus) = EncodeShieldStream(blocks, format)

\* A wallet that reads a compact stream gets the heights of the node's blocks,
\* and of each their Sapling transactions, with every nullifier and output:
\* whatever else a transaction holds and however many there are of each.
WalletReadsChain ==
    up => \A k \in 1..Len(stored), plus \in BOOLEAN :
      LET notes(tx) == IF Sapling(tx) THEN <<Notes(tx, plus)>> ELSE <<>>
      IN  ReadCompact(PivxCompatToCompact(Served(k), plus))
            = [i \in 1..(Len(stored) - k + 1) |->
                 [ height |-> k + i - 1,
                   txs    |-> Concat(notes, stored[k + i - 1].txs) ]]

\* Whatever was appended, torn and retried before a stop, the start keeps
\* every block the index names.
RecoveryKeepsIndexed ==
    up => \A k \in 1..Len(stored) :
      LET bytes == EncodePivxCompat(ShieldBlock(k))
      IN  Cut(file, stored[k].at, stored[k].at + Len(bytes)) = bytes
=============================================================================
