------------------------------- MODULE Zarith -------------------------------
(***************************************************************************)
(* A program that computes with the numbers of the Z module                *)
(* (src/duniverse/Zarith/caml_z.c): two numbers, x and y, that come from   *)
(* strings, from blocks another process marshalled and from earlier        *)
(* results, and one call of a primitive at a time on them.  The same       *)
(* number may be held as an OCaml integer or as a block.                   *)
(***************************************************************************)
EXTENDS ZOps, ZBits, ZConv, FiniteSets

CONSTANTS Numbers,     \* the numbers held in x and y (a bound)
          Counts,      \* bit counts, offsets and lengths given to primitives
          Exponents,   \* exponents of powers
          Floats,      \* the floats converted
          Formats,     \* the formats printed with
          Texts        \* the strings read, with junk among them

VARIABLES x, y,   \* the numbers the program holds
          out     \* the call just made: op, its other argument, its result

vars == <<x, y, out>>

Idle == [op |-> "none", arg |-> 0, res |-> Long(0)]

Decimal(n) == (IF n < 0 THEN <<"-">> ELSE << >>) \o Digits(Magnitude(n), 10, LowerDigits)
Parse(s)   == OfSubstringBase(0, s, 0, Len(s))

Init == x = Long(0) /\ y = Long(0) /\ out = Idle

Return(op, arg, res) ==
  out = Idle /\ out' = [op |-> op, arg |-> arg, res |-> res] /\ UNCHANGED <<x, y>>

(* A new number in x, the former one in y. *)
Hold(z) == x' = z /\ y' = x /\ out' = Idle

Enter == out = Idle /\ \E n \in Numbers : Hold(Parse(Decimal(n)))

(* Marshalled on a machine with limbs half as long: what is a block there. *)
Unmarshal ==
  out = Idle /\ \E n \in Numbers :
    /\ Magnitude(n) > 2^(W \div 2 - 2) - 1
    /\ Hold(Deserialize(Serialize(n < 0, Magnitude(n), LimbBytes \div 2)))

Keep == out # Idle /\ IsZ(out.res) /\ Value(out.res) \in Numbers /\ Hold(out.res)
Drop == out # Idle /\ out' = Idle /\ UNCHANGED <<x, y>>

(* Primitives of one number are called when the other one is zero (bound). *)
Alone == y = Long(0)

Arithmetic ==
  \/ Alone /\ Return("neg", 0, Opposite(x))
  \/ Alone /\ Return("abs", 0, Absolute(x))
  \/ Alone /\ Return("succ", 0, Succ(x))
  \/ Alone /\ Return("pred", 0, Pred(x))
  \/ Alone /\ Return("sqrt_rem", 0, SqrtRem(x))
  \/ Return("add", 0, Add(x, y))
  \/ Return("sub", 0, Sub(x, y))
  \/ Return("mul", 0, Mul(x, y))

Division ==
  \/ Return("div", 0, Div(x, y))
  \/ Return("rem", 0, Rem(x, y))
  \/ Return("div_rem", 0, DivRem(x, y))
  \/ Return("cdiv", 0, CDiv(x, y))
  \/ Return("fdiv", 0, FDiv(x, y))
  \/ Return("ediv", 0, EDiv(x, y))
  \/ Return("erem", 0, ERem(x, y))
  \/ Return("ediv_rem", 0, EDivRem(x, y))
  \/ Return("divexact", 0, DivExact(x, y))

Divisibility ==
  \/ Return("gcd", 0, Gcd(x, y))
  \/ Return("lcm", 0, Lcm(x, y))
  \/ LET big   == IF AbsOf(x) >= AbsOf(y) THEN AbsOf(x) ELSE AbsOf(y)
         small == AbsOf(x) + AbsOf(y) - big
     IN  /\ small \in 1..(B + 1)
         /\ \E s \in Cofactors(big, small) :
              Return("gcdext", s, [tag |-> "triple", of |-> GcdExt(x, y, s)])
  \/ AbsOf(y) \in 2..B /\ Return("invert", 0, Invert(x, y))
  \/ AbsOf(y) \in 2..B /\ AbsOf(x) < B /\
     \E e \in Exponents \cap -3..3 : Return("powm", e, PowM(x, e, y))
  \/ AbsOf(y) \in 2..B /\ AbsOf(x) < B /\
     \E e \in Exponents \cap -3..3 : Return("powm_sec", e, PowMSec(x, e, y))
  \/ Alone /\ AbsOf(x) <= B /\ \E e \in Exponents \cap -3..3 : Return("root", e, Root(x, e))
  \/ Alone /\ AbsOf(x) <= B /\ \E e \in Exponents : Return("pow", e, Pow(x, e))

Bitwise2 ==
  \/ Return("logand", 0, LogAnd(x, y))
  \/ Return("logor", 0, LogOr(x, y))
  \/ Return("logxor", 0, LogXor(x, y))
  \/ Return("hamdist", 0, HamDist(x, y))

Bitwise1 ==
  Alone /\
  \/ Return("lognot", 0, LogNot(x))
  \/ Return("numbits", 0, Long(NumBits(x)))
  \/ Return("trailing_zeros", 0, Long(TrailingZeros(x)))
  \/ Return("popcount", 0, Popcount(x))
  \/ \E c \in Counts :
       \/ Return("shift_left", c, ShiftLeft(x, c))
       \/ Return("shift_right", c, ShiftRight(x, c))
       \/ Return("shift_right_trunc", c, ShiftRightTrunc(x, c))
       \/ c >= 0 /\ Return("testbit", c, [tag |-> "bool", is |-> TestBit(x, c)])
       \/ \E l \in Counts :
            \/ Return("extract", <<c, l>>, Extract(x, c, l))
            \/ c >= 0 /\ l > 0 /\ Return("signed_extract", <<c, l>>, SignedExtract(x, c, l))

Comparison ==
  Return("compare", 0, [tag |-> "order", cmp |-> Compare(x, y), custom |-> CustomCompare(x, y), eq |-> Equal(x, y),
                        hash |-> <<Hash(x), Hash(y)>>, sgn |-> Sgn(x)])

Conversion ==
  Alone /\
  \/ \E w \in {W \div 2, W - 1, W} :
       Return("to", w, [tag |-> "conv", to |-> To(x, w), fits |-> FitsIn(x, w)])
  \/ AbsOf(x) < B \div 2 /\ Return("of_native", 0, OfNative(Value(x)))
  \/ \E f \in Floats : Return("of_float", f, OfFloat(f))
  \/ Return("bits", 0, OfBits(ToBits(x)))
  \/ \E k \in 1..Len(ToBits(x)) :
       Return("of_bits", k, OfBits(SubSeq(ToBits(x), 1, k)))
  \/ x.tag = "block" /\
     Return("marshal", 0, Deserialize(Serialize(x.neg, x.abs, LimbBytes)))

Text ==
  Alone /\
  \/ \E f \in Formats, lead \in {0, 1} :
       /\ lead = 0 \/ AbsOf(x) # 0
       /\ Return("format", f, [tag |-> "text", text |-> Format(f, x), buf |-> FormatBuffer(f, x, lead)])
  \/ x = Long(0) /\ \E s \in Texts, base \in {0, 2, 10, 16}, ofs, len \in Counts :
       Return("of_substring", <<base, s, ofs, len>>, OfSubstringBase(base, s, ofs, len))

Next == \/ Enter \/ Unmarshal \/ Keep \/ Drop
        \/ Arithmetic \/ Division \/ Divisibility \/ Bitwise2 \/ Bitwise1
        \/ Comparison \/ Conversion \/ Text

Spec == Init /\ [][Next]_vars
-----------------------------------------------------------------------------

(***************************************************************************)
(* Properties                                                              *)
(***************************************************************************)
X == Value(x)
Y == Value(y)
Called(op) == out.op = op
Answer == Value(out.res)

WellFormed(z) == \/ z.tag = "int" /\ FitsInt(z.n)
                 \/ z.tag = "block" /\ z.neg \in BOOLEAN /\ z.abs > 0

(* A result is a block only if it does not fit an OCaml integer, whichever *)
(* of the paths computed it and whatever the arguments were held in; the   *)
(* smallest integer, which ml_z_reduce leaves in a block, is the exception.*)
(* An argument returned as it is, or a block read from outside, is no      *)
(* result.  An OCaml integer is in range, and no block holds zero.          *)
ResultsReduced ==
  /\ WellFormed(x) /\ WellFormed(y)
  /\ IsZ(out.res) => WellFormed(out.res)
  /\ (IsZ(out.res) /\ out.res \notin {x, y} /\ ~Called("marshal")) =>
       (out.res.tag = "block" <=> ~FitsInt(Answer)) \/ out.res = Block(TRUE, -MinInt)

(* The fast paths in machine arithmetic, the slow paths on limbs and their *)
(* mixtures compute the sum, the difference, the product, ... of the       *)
(* numbers, at every boundary of the representations.                      *)
ArithmeticExact ==
  /\ Called("neg")  => Answer = -X
  /\ Called("abs")  => Answer = Magnitude(X)
  /\ Called("succ") => Answer = X + 1
  /\ Called("pred") => Answer = X - 1
  /\ Called("add")  => Answer = X + Y
  /\ Called("sub")  => Answer = X - Y
  /\ Called("mul")  => Answer = X * Y
  /\ Called("sqrt_rem") =>
       IF X < 0 THEN out.res = InvalidArg
       ELSE LET r == Value(out.res.fst)   s == Value(out.res.snd)
            IN  r >= 0 /\ r * r + s = X /\ s \in 0..(2 * r)

(* Every division is a division: what is left is smaller than the divisor, *)
(* with the sign its rounding promises, whichever primitives computed the  *)
(* quotient and the remainder; and a zero divisor raises.                  *)
Divisions == {"div", "rem", "div_rem", "cdiv", "fdiv", "ediv", "erem", "ediv_rem", "divexact"}
Rest(q)   == X - q * Y
DivisionsRound ==
  IF out.op \in Divisions /\ Y = 0 THEN out.res = DivideByZero
  ELSE /\ out.op \in Divisions => Called("divexact") \/ out.res.tag = "pair" \/
            LET r == IF out.op \in {"rem", "erem"} THEN Answer ELSE Rest(Answer)
            IN  /\ Magnitude(r) < Magnitude(Y) /\ (X - r) % Magnitude(Y) = 0
                /\ r # 0 => CASE out.op \in {"div", "rem"}   -> r * X > 0
                              [] Called("fdiv")              -> r * Y > 0
                              [] Called("cdiv")              -> r * Y < 0
                              [] out.op \in {"ediv", "erem"} -> r > 0
       /\ out.op \in {"div_rem", "ediv_rem"} =>
            LET r == Value(out.res.snd)
            IN  /\ r = Rest(Value(out.res.fst)) /\ Magnitude(r) < Magnitude(Y)
                /\ r # 0 => IF Called("div_rem") THEN r * X > 0 ELSE r > 0
       /\ Called("divexact") /\ X % Magnitude(Y) = 0 => Rest(Answer) = 0

(* The gcd divides both numbers and is a multiple of their common          *)
(* divisors, and the lcm is their product divided by it; the cofactors of  *)
(* gcdext combine to it; the inverse and the powers are those of the ring; *)
(* a power whose size, with some limbs to spare, exceeds an int is refused.*)
(* Left out is what the code does against its documentation:               *)
(* - of zero and a number gcd answers the number, as it is held or its     *)
(*   magnitude, and lcm zero, where z.mlip:414-416 and 428-432 have both   *)
(*   raise Division_by_zero;                                               *)
(* - the gcd of the smallest integer and itself is negative;               *)
(* - where the size of a power does not fit a machine word, the test that  *)
(*   is to refuse it (caml_z.c:2731-2734) may let it through to GMP, which *)
(*   aborts.                                                               *)
GreatestDivisor(g) ==
  /\ g # 0 => X % g = 0 /\ Y % g = 0
  /\ \A d \in 1..B : (X % d = 0 /\ Y % d = 0) => g % d = 0
DivisibilityExact ==
  /\ Called("gcd") /\ X # 0 /\ Y # 0 =>
       /\ GreatestDivisor(Magnitude(Answer))
       /\ Answer > 0 \/ (X = MinInt /\ Y = MinInt)
  /\ Called("lcm") =>
       IF X = 0 /\ Y = 0 THEN out.res = DivideByZero
       ELSE LET product == Magnitude(X * Y)
            IN  product # 0 => /\ Answer > 0 /\ product % Answer = 0
                               /\ GreatestDivisor(product \div Answer)
  /\ Called("gcdext") =>
       LET g == Value(out.res.of[1])
       IN  g > 0 /\ GreatestDivisor(g) /\ g = Value(out.res.of[2]) * X + Value(out.res.of[3]) * Y
  /\ Called("invert") /\ IsZ(out.res) =>
       Answer \in 0..(Magnitude(Y) - 1) /\ (Answer * X) % Magnitude(Y) = 1
  /\ Called("powm") /\ IsZ(out.res) =>
       /\ Answer \in 0..(Magnitude(Y) - 1)
       /\ IF out.arg >= 0 THEN (Answer - Power(X, out.arg)) % Magnitude(Y) = 0
          ELSE (Answer * Power(X, -out.arg) - 1) % Magnitude(Y) = 0
  /\ Called("powm_sec") =>
       IF out.arg <= 0 \/ Y % 2 = 0 THEN out.res = InvalidArg
       ELSE (Answer - Power(X, out.arg)) % Magnitude(Y) = 0 /\ Answer \in 0..(Magnitude(Y) - 1)
  /\ Called("root") /\ IsZ(out.res) =>
       /\ Answer * X >= 0 /\ Power(Magnitude(Answer), out.arg) <= Magnitude(X)
       /\ Power(Magnitude(Answer) + 1, out.arg) > Magnitude(X)
  /\ Called("pow") =>
       LET bits == Bits[AbsOf(x)] * out.arg
       IN  IF out.arg < 0 THEN out.res = InvalidArg
           ELSE IF bits >= B \div 2 THEN out.res = InvalidArg \/ out.res.tag = "abort"
           ELSE IF bits \div W + 5 > IntMax THEN out.res = InvalidArg
           ELSE IsZ(out.res) /\ Answer = Power(X, out.arg)

(* Numbers are infinite strings of bits, whatever the sizes and the signs  *)
(* of the limbs the primitives loop over (ml_z_logand and the like); two   *)
(* negative numbers have a distance or are refused, as they are held.      *)
Window == 0..(3 * W)
BitsExact ==
  /\ Called("logand") => \A i \in Window : Bit(Answer, i) = Bit(X, i) * Bit(Y, i)
  /\ Called("logor")  => \A i \in Window : Bit(Answer, i) = 1 - (1 - Bit(X, i)) * (1 - Bit(Y, i))
  /\ Called("logxor") => \A i \in Window : Bit(Answer, i) = (Bit(X, i) + Bit(Y, i)) % 2
  /\ Called("lognot") => Answer = -X - 1
  /\ Called("numbits") => LET n == Answer IN
       IF X = 0 THEN n = 0 ELSE 2^(n - 1) <= Magnitude(X) /\ Magnitude(X) < 2^n
  /\ Called("trailing_zeros") /\ X # 0 => X % 2^Answer = 0 /\ (X \div 2^Answer) % 2 = 1
  /\ Called("popcount") => IF X < 0 THEN out.res = Overflow ELSE
       \E S \in {{i \in Window : Bit(X, i) = 1}} : Answer = Cardinality(S)
  /\ Called("hamdist") => IF (X < 0) # (Y < 0) THEN out.res = Overflow ELSE
       \/ IsZ(out.res) /\ Answer = Cardinality({i \in Window : Bit(X, i) # Bit(Y, i)})
       \/ X < 0 /\ out.res = InvalidArg

(* Shifts multiply and divide by a power of two, and the extracted bits    *)
(* are those of the infinite string, whether whole limbs are shifted out   *)
(* or the window reaches past the last one.  What the fast path of         *)
(* shift_right_trunc makes of the smallest integer is left out (see        *)
(* TruncIsDivision).                                                       *)
ShiftsExact ==
  /\ out.op \in {"shift_left", "shift_right", "shift_right_trunc"} /\ out.arg < 0 => out.res = InvalidArg
  /\ Called("shift_left")  /\ out.arg >= 0 => Answer = X * 2^out.arg
  /\ Called("shift_right") /\ out.arg >= 0 => Answer = X \div 2^out.arg
  /\ Called("shift_right_trunc") /\ out.arg >= 0 =>
       X = MinInt \/ Answer = TruncDiv(X, 2^out.arg)
  /\ Called("testbit") => out.res.is = (Bit(X, out.arg) = 1)
  /\ Called("extract") => IF out.arg[1] < 0 \/ out.arg[2] <= 0 THEN out.res = InvalidArg
                          ELSE Answer = (X \div 2^out.arg[1]) % 2^out.arg[2]
  /\ Called("signed_extract") =>
       /\ Answer \in -(2^(out.arg[2] - 1))..(2^(out.arg[2] - 1) - 1)
       /\ (Answer - X \div 2^out.arg[1]) % 2^out.arg[2] = 0

(* Whatever the paths taken, a primitive computes what it is named for.    *)
ResultsExact ==
  ArithmeticExact /\ DivisionsRound /\ DivisibilityExact /\ BitsExact /\ ShiftsExact

(* Comparisons, the test of equality, the hash and the conversions to and  *)
(* from native integers see the number, never how it is held; a number     *)
(* converts exactly when it is said to fit.                                *)
RepresentationHidden ==
  /\ Called("compare") =>
       /\ (out.res.cmp > 0) = (X > Y) /\ (out.res.cmp < 0) = (X < Y)
       /\ out.res.custom = out.res.cmp
       /\ out.res.eq = (X = Y) /\ (X = Y => out.res.hash[1] = out.res.hash[2])
       /\ out.res.sgn * Magnitude(X) = X /\ (X = 0 => out.res.sgn = 0)
  /\ Called("to") =>
       /\ out.res.fits = (X \in -(2^(out.arg - 1))..(2^(out.arg - 1) - 1))
       /\ IF out.res.fits THEN out.res.to.n = X ELSE out.res.to = Overflow
  /\ Called("of_native") => Answer = X
  /\ Called("of_float") =>
       IF out.arg.special THEN out.res = Overflow
       ELSE Answer = LET m == IF out.arg.exp < 0 THEN 0
                              ELSE (Mantissa(out.arg) * 2^out.arg.exp) \div 2^Precision
                     IN  IF out.arg.neg THEN -m ELSE m
  /\ Called("bits") => Answer = Magnitude(X)
  /\ Called("of_bits") => Answer = Magnitude(X) % Byte^out.arg
  /\ Called("marshal") => Answer = X

(* What is printed reads back, unless spaces were put around it, fits the  *)
(* buffer allocated for it, and has at least the width asked for.  What is *)
(* read from a substring depends on its characters only, though the prefix *)
(* is read past its end.                                                   *)
TextRoundTrips ==
  /\ Called("format") =>
       LET t == out.res.text  b == out.res.buf
           sep == \E i \in 1..Len(t) : t[i] = " "
           own == out.arg.alt \/ out.arg.conv = "d"
       IN  /\ Len(t) >= out.arg.width
           /\ b.first >= 0 /\ b.last < b.size
           /\ ~sep => Value(OfSubstringBase(IF own /\ out.arg.conv # "d" THEN 0 ELSE Base(out.arg), t, 0, Len(t))) = X
  /\ Called("of_substring") =>
       LET base == out.arg[1]  s == out.arg[2]  ofs == out.arg[3]  len == out.arg[4]
       IN  IF ofs < 0 \/ len < 0 \/ ofs + len > Len(s) THEN out.res = InvalidArg
           ELSE out.res = OfSubstringBase(base, SubSeq(s, ofs + 1, ofs + len), 0, len)

(* The documentation of shift_right_trunc (z.mlip:232): it is a division   *)
(* by a power of two, with truncation.                                     *)
TruncIsDivision ==
  Called("shift_right_trunc") /\ out.arg >= 0 => Answer = TruncDiv(X, 2^out.arg)
=============================================================================
