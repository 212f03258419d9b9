------------------------------ MODULE ShieldLog ------------------------------
(***************************************************************************)
(* What the indexer promises: the shield store is the shield blocks of one *)
(* sequence of scanned blocks.  It grows by the block at the next height   *)
(* and shrinks only by giving up a suffix; it never skips, repeats or      *)
(* reorders a block, and never loses one that is not given up.             *)
(***************************************************************************)
EXTENDS Integers, Sequences

CONSTANTS Block, HeightOf, ShieldTxs, Start

VARIABLES
    synced,     \* the blocks scanned, by height
    stream      \* the shield blocks stored, in order

vars == <<synced, stream>>

Init ==
    /\ synced = Start
    /\ stream = <<>>

Extend(b) ==
    /\ HeightOf[b] = Len(synced) + 1
    /\ synced' = Append(synced, b)
    /\ stream' = IF ShieldTxs[b] > 0 THEN Append(stream, b) ELSE stream

\* n is the last height kept.
Rollback(n) ==
    /\ synced' = SubSeq(synced, 1, n)
    /\ \E m \in 0..Len(stream) :
         /\ stream' = SubSeq(stream, 1, m)
         /\ \A k \in 1..Len(stream) : k <= m <=> HeightOf[stream[k]] <= n

Next ==
    \/ \E b \in Block : Extend(b)
    \/ \E n \in 0..(Len(synced) - 1) : Rollback(n)

Spec == Init /\ [][Next]_vars
=============================================================================
