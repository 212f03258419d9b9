----------------------------- MODULE MCIndexer -----------------------------
(* Small instances of Indexer: three chains that fork at heights 2 and 3,  *)
(* with blocks of zero, one and two Sapling transactions.                  *)
EXTENDS Indexer, TLC

ChainA == <<"a1", "a2", "a3", "a4", "a5">>
ChainB == <<"a1", "b2", "b3", "b4", "b5">>
ChainC == <<"a1", "a2", "c3", "c4", "c5">>

Prefixes(c, from, to) == {SubSeq(c, 1, n) : n \in from..to}

BlocksOf(chains) == UNION {{c[h] : h \in 1..Len(c)} : c \in chains}

HeightIn(chains) ==
    [b \in BlocksOf(chains) |->
        CHOOSE h \in 1..5 : \E c \in chains : h <= Len(c) /\ c[h] = b]

\* Every block holds one Sapling transaction but for a few.
TxsIn(chains) ==
    [b \in BlocksOf(chains) |->
        CASE b \in {"a1", "a3", "b4"} -> 0
          [] b \in {"b3"} -> 2
          [] OTHER -> 1]

Start == <<"a1">>

\* Three chains up to height 5.
Chains5  == UNION {Prefixes(c, 1, 5) : c \in {ChainA, ChainB, ChainC}}
Block5   == BlocksOf(Chains5)
Height5  == HeightIn(Chains5)
Txs5     == TxsIn(Chains5)

\* Up to height 4.
Chains4  == UNION {Prefixes(c, 1, 4) : c \in {ChainA, ChainB, ChainC}}
Block4   == BlocksOf(Chains4)
Height4  == HeightIn(Chains4)
Txs4     == TxsIn(Chains4)

\* Two chains up to height 3.
Chains3  == UNION {Prefixes(c, 1, 3) : c \in {ChainA, ChainB}}
Block3   == BlocksOf(Chains3)
Height3  == HeightIn(Chains3)
Txs3     == TxsIn(Chains3)

WorkerSymmetry == Permutations(Worker)
=============================================================================
