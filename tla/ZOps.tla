-------------------------------- MODULE ZOps --------------------------------
(***************************************************************************)
(* The arithmetic primitives of src/duniverse/Zarith/caml_z.c, the ones    *)
(* based on mpz_t, and the functions of z.mlp made of them.  Each has a    *)
(* fast path on OCaml integers, in machine arithmetic, and falls through   *)
(* to the computation on limbs when the result does not fit.               *)
(***************************************************************************)
EXTENDS ZRepr

CONSTANTS IntMax    \* INT_MAX, the largest size of a mpz_t in limbs

ASSUME IntMaxAssumption == IntMax \in Nat

BothLong(x, y) == IsLong(x) /\ IsLong(y)

(* Division of C, which truncates; the divisor is not zero. *)
Magnitude(n)  == IF n < 0 THEN -n ELSE n
TruncDiv(a, b) ==
  LET q == Magnitude(a) \div Magnitude(b)
  IN  IF (a < 0) = (b < 0) THEN q ELSE -q
TruncRem(a, b) == a - b * TruncDiv(a, b)

Opposite(z) ==      \* ml_z_neg
  IF IsLong(z) /\ z.n > MinInt THEN Long(-z.n) ELSE Reduce(~NegOf(z), AbsOf(z))

Absolute(z) ==      \* ml_z_abs
  IF IsLong(z) /\ z.n >= 0 THEN z
  ELSE IF IsLong(z) /\ z.n > MinInt THEN Long(-z.n)
  ELSE Reduce(FALSE, AbsOf(z))

AddSubKeeping(x, y, negate) ==     \* mutant: 0 - y is y
  LET s2 == NegOf(y) # negate
  IN  IF AbsOf(y) = 0 THEN x
      ELSE IF AbsOf(x) = 0 THEN y
      ELSE IF NegOf(x) = s2 THEN Reduce(s2, AbsOf(x) + AbsOf(y))
      ELSE IF AbsOf(x) >= AbsOf(y) THEN Reduce(NegOf(x), AbsOf(x) - AbsOf(y))
      ELSE Reduce(s2, AbsOf(y) - AbsOf(x))

AddSub(x, y, negate) ==
  LET a1 == AbsOf(x)    a2 == AbsOf(y)
      s1 == NegOf(x)    s2 == NegOf(y) # negate
  IN  IF a2 = 0 THEN x
      ELSE IF a1 = 0 THEN (IF negate THEN Reduce(s2, a2) ELSE y)
      ELSE IF s1 = s2 THEN Reduce(s1, a1 + a2)
      ELSE IF a1 >= a2 THEN Reduce(s1, a1 - a2)
      ELSE Reduce(s2, a2 - a1)

Add(x, y) ==
  IF BothLong(x, y) /\ FitsInt(Wrap(x.n + y.n)) THEN Long(Wrap(x.n + y.n))
  ELSE AddSub(x, y, FALSE)

Sub(x, y) ==
  IF BothLong(x, y) /\ FitsInt(Wrap(x.n - y.n)) THEN Long(Wrap(x.n - y.n))
  ELSE AddSub(x, y, TRUE)

(* The test for small arguments is made on the tagged words. *)
Mul(x, y) ==
  IF BothLong(x, y) /\ FitsHint(Tagged(x.n)) /\ FitsHint(Tagged(y.n))
    THEN Long(Wrap(x.n * y.n))
    ELSE Reduce(NegOf(x) # NegOf(y), AbsOf(x) * AbsOf(y))

(* Truncated quotient and remainder on limbs; a dividend with less limbs   *)
(* than the divisor is returned as it is.                                  *)
TDivQR(x, y) ==
  IF SizeOf(x) >= SizeOf(y)
    THEN <<Reduce(NegOf(x) # NegOf(y), AbsOf(x) \div AbsOf(y)),
           Reduce(NegOf(x), AbsOf(x) % AbsOf(y))>>
    ELSE <<Long(0), x>>

Div(x, y) ==
  IF AbsOf(y) = 0 THEN DivideByZero
  ELSE IF BothLong(x, y) /\ FitsInt(TruncDiv(x.n, y.n)) THEN Long(TruncDiv(x.n, y.n))
  ELSE TDivQR(x, y)[1]

Rem(x, y) ==
  IF AbsOf(y) = 0 THEN DivideByZero
  ELSE IF BothLong(x, y) THEN Long(TruncRem(x.n, y.n))
  ELSE TDivQR(x, y)[2]

DivRem(x, y) ==
  IF AbsOf(y) = 0 THEN DivideByZero
  ELSE IF BothLong(x, y) /\ FitsInt(TruncDiv(x.n, y.n))
    THEN [tag |-> "pair", fst |-> Long(TruncDiv(x.n, y.n)), snd |-> Long(TruncRem(x.n, y.n))]
    ELSE [tag |-> "pair", fst |-> TDivQR(x, y)[1], snd |-> TDivQR(x, y)[2]]

(* Rounding outwards when the sign of the quotient is that of the          *)
(* direction: towards minus infinity when down, plus infinity otherwise.   *)

RDiv(x, y, down) ==
  LET neg     == NegOf(x) # NegOf(y)
      outward == neg = down /\ AbsOf(x) % AbsOf(y) # 0
  IN  IF SizeOf(x) >= SizeOf(y)
        THEN Reduce(neg, AbsOf(x) \div AbsOf(y) + (IF outward THEN 1 ELSE 0))
        ELSE IF AbsOf(x) # 0 /\ neg = down THEN Long(IF down THEN -1 ELSE 1)
        ELSE Long(0)

CDiv(x, y) ==
  LET n == IF x.n > 0 /\ y.n > 0 THEN x.n + y.n - 1
           ELSE IF x.n < 0 /\ y.n < 0 THEN x.n + y.n + 1 ELSE x.n
  IN  IF AbsOf(y) = 0 THEN DivideByZero
      ELSE IF BothLong(x, y) /\ FitsInt(TruncDiv(Wrap(n), y.n))
        THEN Long(TruncDiv(Wrap(n), y.n))
        ELSE RDiv(x, y, FALSE)

FDiv(x, y) ==
  LET n == IF x.n < 0 /\ y.n > 0 THEN x.n - (y.n - 1)
           ELSE IF x.n > 0 /\ y.n < 0 THEN x.n - (y.n + 1) ELSE x.n
  IN  IF AbsOf(y) = 0 THEN DivideByZero
      ELSE IF BothLong(x, y) /\ FitsInt(TruncDiv(Wrap(n), y.n))
        THEN Long(TruncDiv(Wrap(n), y.n))
        ELSE RDiv(x, y, TRUE)

SuccPred(z, neg) ==
  IF AbsOf(z) = 0 THEN Reduce(neg, 1)
  ELSE IF NegOf(z) = neg THEN Reduce(neg, AbsOf(z) + 1)
  ELSE Reduce(NegOf(z), AbsOf(z) - 1)

Succ(z) == IF IsLong(z) /\ z.n < MaxInt THEN Long(z.n + 1) ELSE SuccPred(z, FALSE)
Pred(z) == IF IsLong(z) /\ z.n > MinInt THEN Long(z.n - 1) ELSE SuccPred(z, TRUE)

(* mpn_sqrtrem *)
Floor2[a \in Nat, r \in Nat] ==
  IF (r + 1) * (r + 1) > a THEN r ELSE Floor2[a, r + 1]

SqrtRem(z) ==
  IF NegOf(z) THEN InvalidArg
  ELSE LET r == Floor2[AbsOf(z), 0]
       IN  [tag |-> "pair", fst |-> Reduce(FALSE, r),
                            snd |-> Reduce(FALSE, AbsOf(z) - r * r)]

(* The fast path is Euclid's loop in intnats, after a change of signs that *)
(* cannot overflow an intnat; its result is boxed without a test.  A zero  *)
(* argument of the slow path returns the other one as it is.               *)
Euclid[a \in Nat, b \in Nat] == IF b = 0 THEN a ELSE Euclid[b, a % b]

(* Factors of two are removed before mpn_gcd and put back afterwards. *)
Twos[a \in Nat] == IF a = 0 \/ a % 2 = 1 THEN 0 ELSE 1 + Twos[a \div 2]

Gcd(x, y) ==
  IF BothLong(x, y) THEN Long(Euclid[AbsOf(x), AbsOf(y)])
  ELSE IF AbsOf(x) = 0 THEN y
  ELSE IF AbsOf(y) = 0 THEN x
  ELSE LET p1 == Twos[AbsOf(x)]   p2 == Twos[AbsOf(y)]
           odd == Euclid[AbsOf(x) \div 2^p1, AbsOf(y) \div 2^p2]
       IN  Reduce(FALSE, odd * 2^(IF p1 <= p2 THEN p1 ELSE p2))

(* mpn_gcdext returns one cofactor of the larger magnitude u; its choice   *)
(* of the cofactor is left open.                                           *)
Cofactors(u, v) ==
  LET g == Euclid[u, v] IN { s \in -(v \div 2)..(v \div 2) : (s * u - g) % v = 0 }

GcdExtIntern(x, y, s) ==
  LET a1 == AbsOf(x)  a2 == AbsOf(y)
      first == a1 >= a2
      neg   == IF first THEN NegOf(x) ELSE NegOf(y)
  IN  [gcd |-> Reduce(FALSE, Euclid[a1, a2]),
       cof |-> IF s >= 0 THEN Reduce(neg, s) ELSE Reduce(~neg, -s),
       first |-> first]

GcdExt(x, y, s) ==
  LET i == GcdExtIntern(x, y, s)
      other(u, v) == Div(Sub(i.gcd, Mul(u, i.cof)), v)
  IN  IF i.first THEN <<i.gcd, i.cof, other(x, y)>> ELSE <<i.gcd, other(y, x), i.cof>>

DivExact(x, y) ==
  IF AbsOf(y) = 0 THEN DivideByZero
  ELSE IF BothLong(x, y) /\ FitsInt(TruncDiv(x.n, y.n)) THEN Long(TruncDiv(x.n, y.n))
  ELSE IF SizeOf(x) < SizeOf(y) THEN Long(0)
  ELSE Reduce(NegOf(x) # NegOf(y), AbsOf(x) \div AbsOf(y))

(* Functions of z.mlp. *)
EDivRem(x, y) ==
  IF AbsOf(y) = 0 THEN DivideByZero
  ELSE LET p == DivRem(x, y)
       IN  IF Sgn(p.snd) >= 0 THEN p
           ELSE IF Sgn(y) >= 0 THEN [p EXCEPT !.fst = Pred(@), !.snd = Add(@, y)]
           ELSE [p EXCEPT !.fst = Succ(@), !.snd = Sub(@, y)]

EDiv(x, y) == IF Sgn(y) >= 0 THEN FDiv(x, y) ELSE CDiv(x, y)

ERem(x, y) ==
  LET r == Rem(x, y)
  IN  IF ~IsZ(r) \/ Sgn(r) >= 0 THEN r ELSE Add(r, Absolute(y))

Lcm(x, y) ==
  LET d == DivExact(x, Gcd(x, y))
  IN  IF IsZ(d) THEN Absolute(Mul(d, y)) ELSE d

(* Functions based on mpz_t: the argument is copied, the result reduced.   *)
FromMpz(n) == Reduce(n < 0, Magnitude(n))

Power(n, e) == IF e = 0 THEN 1 ELSE n^e      \* 0^0 included

Bits[a \in Nat] == IF a = 0 THEN 0 ELSE 1 + Bits[a \div 2]

(* The size of the result is bounded before the call, in machine words;    *)
(* GMP aborts the process when a size exceeds an int.                      *)
PowSize(z, e) == Wrap(TruncDiv(Wrap(Bits[AbsOf(z)] * e), W) + 5)
Pow(z, e) ==
  IF e < 0 \/ PowSize(z, e) > IntMax THEN InvalidArg
  ELSE IF Bits[AbsOf(z)] * e > W * IntMax THEN [tag |-> "abort"]
  ELSE FromMpz(Power(Value(z), e))

Inverses(b, m) == { i \in 0..(m - 1) : (i * b - 1) % m = 0 }

Invert(b, m) ==
  LET found == Inverses(Value(b), AbsOf(m))
  IN  IF AbsOf(m) = 0 \/ found = {} THEN DivideByZero
      ELSE FromMpz(CHOOSE i \in found : TRUE)

(* A negative exponent is the power of the inverse. *)
PowM(b, e, m) ==
  LET base == IF e >= 0 THEN b ELSE Invert(b, m)
  IN  IF IsZ(base) THEN FromMpz(Power(Value(base), Magnitude(e)) % AbsOf(m)) ELSE base

(* The side channel resistant variant refuses what it cannot do. *)
PowMSec(b, e, m) ==
  IF e <= 0 \/ AbsOf(m) % 2 = 0 THEN InvalidArg
  ELSE FromMpz(Power(Value(b), e) % AbsOf(m))

(* mpz_root truncates; it divides by zero on purpose, which kills the      *)
(* process, for a root of order zero and an even root of a negative.       *)
RootOf(a, e) == CHOOSE r \in 0..a : r^e <= a /\ (r + 1)^e > a
Root(z, e) ==
  IF e < 0 THEN InvalidArg
  ELSE IF e = 0 \/ (NegOf(z) /\ e % 2 = 0) THEN [tag |-> "abort"]
  ELSE FromMpz(IF NegOf(z) THEN -RootOf(AbsOf(z), e) ELSE RootOf(AbsOf(z), e))
=============================================================================
