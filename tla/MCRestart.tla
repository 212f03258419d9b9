----------------------------- MODULE MCRestart -----------------------------
(* Small instances of Restart: one chain that grows, and two that fork at  *)
(* height 2; every block holds one Sapling transaction but for a2.         *)
EXTENDS Restart

ChainA == <<"a1", "a2", "a3">>
ChainB == <<"a1", "b2", "b3">>

Prefixes(c) == {SubSeq(c, 1, n) : n \in 0..3}

BlocksOf(chains) == UNION {{c[h] : h \in 1..Len(c)} : c \in chains}

HeightIn(chains) ==
    [b \in BlocksOf(chains) |->
        CHOOSE h \in 1..3 : \E c \in chains : h <= Len(c) /\ c[h] = b]

Start == <<>>

Growing       == Prefixes(ChainA)
GrowingBlock  == BlocksOf(Growing)
GrowingHeight == HeightIn(Growing)
GrowingTxs    == [b \in GrowingBlock |-> IF b = "a2" THEN 0 ELSE 1]

Forking       == Prefixes(ChainA) \cup Prefixes(ChainB)
ForkingBlock  == BlocksOf(Forking)
ForkingHeight == HeightIn(Forking)
ForkingTxs    == [b \in ForkingBlock |-> IF b = "b3" THEN 0 ELSE 1]
=============================================================================
