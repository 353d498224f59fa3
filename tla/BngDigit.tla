----------------------------- MODULE BngDigit -----------------------------
(***************************************************************************)
(* The arithmetic of num on one digit, bng_digit.c.  A digit is less than  *)
(* Base = Half * Half, where Half is 2 ^ BNG_BITS_PER_HALF_DIGIT, and      *)
(* every result is cut to a digit.                                         *)
(***************************************************************************)
EXTENDS Integers

CONSTANT Half

ASSUME HalfAssumption == Half \in Nat /\ Half > 1

Base == Half * Half
Digit == 0 .. Base - 1

Cut(x) == x % Base
LowHalf(d) == d % Half
HighHalf(d) == d \div Half
Bool(p) == IF p THEN 1 ELSE 0

(* A sum is known to have overflown by its being less than what was added  *)
(* to.                                                                     *)
AddTwo(x, y) == [digit |-> Cut(x + y), carry |-> Bool(Cut(x + y) < x)]

AddTwoCarryOnce(x, y, c) ==     \* mutant: one test of overflow for two additions
  [digit |-> Cut(x + y + c), carry |-> Bool(Cut(x + y + c) < x)]

AddTwoCarry(x, y, c) ==
  LET s == Cut(x + y)
      t == Cut(s + c)
  IN [digit |-> t, carry |-> Bool(s < x) + Bool(t < s)]

AddThree(accu, x, y, z) ==
  LET s == Cut(x + y)
      t == Cut(s + z)
  IN [digit |-> t, carry |-> Cut(accu + Bool(s < x) + Bool(t < s))]

SubTwo(x, y) == [digit |-> Cut(x - y), carry |-> Bool(x < y)]

SubTwoCarry(x, y, c) ==
  LET s == Cut(x - y)
  IN [digit |-> Cut(s - c), carry |-> Bool(x < y) + Bool(s < c)]

SubThree(accu, x, y, z) ==
  LET s == Cut(x - y)
  IN [digit |-> Cut(s - z), carry |-> Cut(accu + Bool(x < y) + Bool(s < z))]

(* The product of two digits from the products of their halves.            *)
Mult(x, y) ==
  LET p12 == LowHalf(x) * HighHalf(y)
      p21 == HighHalf(x) * LowHalf(y)
      r   == AddThree(Cut(HighHalf(x) * HighHalf(y) + HighHalf(p12) + HighHalf(p21)),
                      LowHalf(x) * LowHalf(y), Cut(p12 * Half), Cut(p21 * Half))
  IN [high |-> r.carry, low |-> r.digit]

(* bng_div_aux: each half of the quotient is estimated from below with the *)
(* top half of d, then raised until the rest nh:nl is less than d.         *)
Raised(q0, nh0, nl0, d) ==
  LET raise[q \in Digit, nh \in Digit, nl \in Digit] ==
        IF nh = 0 /\ nl < d THEN [quo |-> q, rem |-> nl]
        ELSE raise[Cut(q + 1), Cut(nh - Bool(nl < d)), Cut(nl - d)]
  IN raise[q0, nh0, nl0]

DivByHalves(nh, nl, d) ==
  LET dl  == LowHalf(d)
      dh  == HighHalf(d)
      qh  == nh \div (dh + 1)
      top == Cut(nh - qh * dh)
      nl1 == HighHalf(nl) + Cut(top * Half)
      up  == Raised(qh, Cut(HighHalf(top) - Bool(nl1 < Cut(qh * dl))),
                    Cut(nl1 - qh * dl), d)
      ql  == up.rem \div (dh + 1)
      bot == Cut(up.rem - ql * dh)
      nl2 == Cut(bot * Half) + LowHalf(nl)
      dn  == Raised(ql, Cut(HighHalf(bot) - Bool(nl2 < Cut(ql * dl))),
                    Cut(nl2 - ql * dl), d)
  IN [quo |-> Cut(up.quo * Half) + dn.quo, rem |-> dn.rem]
=============================================================================
