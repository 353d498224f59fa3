------------------------------- MODULE MCNat -------------------------------
(* Digits of four bits; nats of four, two and one digits, one after the    *)
(* other.                                                                  *)
EXTENDS Nat

MCFirst ==
  { <<0, 0, 0, 0>>, <<15, 15, 15, 7>>, <<0, 8, 15, 0>>, <<15, 15, 15, 15>>, <<3, 14, 6, 1>>,
    <<15, 0, 14, 6>>, <<1, 15, 15, 15>>, <<0, 0, 15, 14>>, <<12, 5, 9, 2>> }
MCSecond == { <<0, 8>>, <<15, 15>>, <<0, 0>>, <<9, 1>>, <<15, 7>> }
MCThird == {1, 3, 8, 15}
MCMemories ==
  { [p \in 0 .. 6 |-> IF p < 4 THEN x[p + 1] ELSE IF p < 6 THEN y[p - 3] ELSE z] :
      x \in MCFirst, y \in MCSecond, z \in MCThird }
MCScratch == [p \in 0 .. 6 |-> IF p = 5 THEN 8 ELSE IF p = 6 THEN 1 ELSE 0]
MCRanges1 == {<<0, 4>>, <<0, 3>>, <<1, 3>>, <<2, 2>>}
MCRanges2 == {<<4, 2>>, <<4, 1>>, <<5, 1>>}
MCNaturals == { <<a, b>> : a \in {0, 1, 6, 15}, b \in {0, 1, 9} } \cup
  { <<a>> : a \in {0, 1, 4, 12, 15} } \cup {<<8, 0, 2>>, <<15, 15, 0>>, <<5, 2, 7>>}
=============================================================================
