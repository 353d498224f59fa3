----------------------------- MODULE MCZarith -----------------------------
(* Words of six bits, limbs smaller than 64, OCaml integers from -16 to 15. *)
EXTENDS Zarith

MCMagnitudes == {0, 1, 2, 3, 7, 8, 12, 15, 16, 17, 31, 32, 33, 63, 64, 65, 128, 192, 4095, 4096}
MCNumbers    == MCMagnitudes \cup { -n : n \in MCMagnitudes }
MCCounts     == {-1, 0, 1, 3, 5, 6, 7, 12, 13}
MCExponents  == {-2, -1, 0, 1, 2, 3, 8}
MCFloats ==
  { [special |-> FALSE, neg |-> n, exp |-> e, frac |-> m] :
      n \in BOOLEAN, e \in -1..8, m \in {0, 1, 5, 7} }
  \cup { [special |-> TRUE, neg |-> FALSE, exp |-> 9, frac |-> 0] }
MCFormats ==
  { [alt |-> a, zero |-> z, left |-> l, sign |-> s, width |-> w, conv |-> c] :
      a \in BOOLEAN, z \in BOOLEAN, l \in BOOLEAN, s \in {"", "+"}, w \in {0, 4, 15},
      c \in {"d", "b", "X"} }
MCTexts == { <<"-","0","x","1","F">>, <<"0","0","7","8">>, <<"-","+","1","2","g">>,
             <<"0","b","1","0","1","1","0">>, <<"0","o","1","7","8">>, << >>, <<"-","0">> }
=============================================================================
