----------------------------- MODULE MCScheduler -----------------------------
(* Small instances of Scheduler: two chains that fork at height 2.          *)
EXTENDS Scheduler

ChainA == <<"a1", "a2", "a3">>
ChainB == <<"a1", "b2", "b3">>

Prefixes(c) == {SubSeq(c, 1, n) : n \in 1..3}

BlocksOf(chains) == UNION {{c[h] : h \in 1..Len(c)} : c \in chains}

HeightIn(chains) ==
    [b \in BlocksOf(chains) |->
        CHOOSE h \in 1..3 : \E c \in chains : h <= Len(c) /\ c[h] = b]

Start == <<"a1">>

Fork       == Prefixes(ChainA) \cup Prefixes(ChainB)
ForkBlock  == BlocksOf(Fork)
ForkHeight == HeightIn(Fork)
ForkTxs    == [b \in ForkBlock |-> IF b \in {"a1", "a3"} THEN 0 ELSE 1]
=============================================================================
