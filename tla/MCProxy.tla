------------------------------- MODULE MCProxy -------------------------------
(* Small instances of Proxy: a chain that grows and then gives way to a     *)
(* longer one, from height 2 on.  Height 3 again has one block only.        *)
EXTENDS Proxy

ChainA == <<"a1", "a2">>
ChainC == <<"a1", "c2", "c3">>

Start == <<"a1">>

Fork       == {Start, ChainA, ChainC}
ForkBlock  == {"a1", "a2", "c2", "c3"}
ForkHeight == [b \in ForkBlock |->
                 CHOOSE h \in 1..3 : ChainC[h] = b \/ (h <= 2 /\ ChainA[h] = b)]
ForkTxs    == [b \in ForkBlock |-> 0]
=============================================================================
