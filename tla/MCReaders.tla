----------------------------- MODULE MCReaders -----------------------------
(* Small instances of Readers: two chains that fork at height 2, where the *)
(* blocks on either side hold different numbers of transactions.           *)
EXTENDS Readers

Fork == { <<"a1", "a2", "a3">>, <<"a1", "b2", "b3", "b4">> }

BlocksIn(chains) == UNION {{c[h] : h \in 1..Len(c)} : c \in chains}

HeightsOf(chains) ==
    [b \in BlocksIn(chains) |->
        CHOOSE h \in 1..4 : \E c \in chains : h <= Len(c) /\ c[h] = b]

ForkBlock  == BlocksIn(Fork)
ForkHeight == HeightsOf(Fork)
ForkTxs    == [b \in ForkBlock |-> CASE b = "b2" -> 2 [] b \in {"b3", "b4"} -> 0 [] OTHER -> 1]
=============================================================================
