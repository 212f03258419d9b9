------------------------------- MODULE MCWire -------------------------------
(* Small instances of WireFile.  In base 7 a count has one digit up to 3,   *)
(* two behind a marker up to 48, and four from 49 on.                       *)
EXTENDS WireFile

Tx(version, vin, vout, spends, outputs) ==
    [version |-> version, vin |-> vin, vout |-> vout,
     spends |-> spends, outputs |-> outputs]

Legacy      == Tx(1, <<2>>, <<1, 0>>, 0, 0)
Transparent == Tx(3, <<4>>, <<2>>, 0, 0)
Shield      == Tx(3, <<3, 1>>, <<4>>, 0, 2)
Unshield    == Tx(3, <<>>, <<2>>, 1, 0)
Narrow      == Tx(3, <<>>, <<>>, 3, 4)
Wide        == Tx(3, <<>>, <<>>, 48, 1)
Widest      == Tx(3, <<>>, <<>>, 49, 3)

Blocks ==
    << {<<Legacy, Unshield>>, <<Narrow>>},
       {<<Shield, Transparent, Unshield>>, <<Wide>>},
       {<<Unshield, Narrow>>, <<Widest>>} >>

SmallBlocks == << {<<Unshield>>}, {<<Shield>>}, {<<Unshield>>} >>
=============================================================================
