-------------------------------- MODULE Bng --------------------------------
(***************************************************************************)
(* The operations of num on arrays of digits: bng.c, and what bng_amd64.c  *)
(* and bng_ia32.c put in their place.                                      *)
(*                                                                         *)
(* m is a memory, a function from addresses to digits; {a, n} are the n    *)
(* digits from address a on, least significant first, as in bng.h.  An     *)
(* operation gives the memory it leaves and what it returns.  The variant  *)
(* v is the table of operations bng_init installs: "generic" is the C      *)
(* code, "flags" the assembly that keeps the carry in the carry flag       *)
(* (amd64, plain ia32), "sse2" the one that computes on two digits (ia32). *)
(***************************************************************************)
EXTENDS BngDigit, Sequences, FiniteSetsExt, SequencesExt

CONSTANT HalfBits

ASSUME HalfBitsAssumption ==
  /\ HalfBits \in {1, 2, 4, 8, 16, 32}
  /\ Half = 2 ^ HalfBits

DigitBits == 2 * HalfBits
Variants == {"generic", "flags", "sse2"}

Left(mem, ret) == [mem |-> mem, ret |-> ret]

(* The loop of an operation over the addresses of n digits: step gives the *)
(* digit to store and the carry, from the address, its distance from the   *)
(* first and the carry so far.                                             *)
Sweep(step(_, _, _), m, n, at(_), carry) ==
  FoldLeft(LAMBDA s, i: LET r == step(s.mem, i - 1, s.ret)
                        IN Left([s.mem EXCEPT ![at(i - 1)] = r.digit], r.carry),
           Left(m, carry), [i \in 1 .. n |-> i])

(* A carry goes up through the digits that overflow, and comes out when    *)
(* all do.                                                                 *)
Ripple(m, a, n, carry, last, by) ==
  LET stops == {i \in 0 .. n - 1 : m[a + i] # last}
      upto  == IF stops = {} THEN n - 1 ELSE Min(stops)
  IN IF carry = 0 \/ n = 0 THEN Left(m, carry)
     ELSE Left([p \in DOMAIN m |-> IF p \in a .. a + upto THEN Cut(m[p] + by) ELSE m[p]],
               Bool(stops = {}))

AddCarry(m, a, n, carry) == Ripple(m, a, n, carry, Base - 1, 1)
SubCarry(m, a, n, carry) == Ripple(m, a, n, carry, 0, -1)

(* paddq and psubq: the carry is the upper digit, the borrow the sign.     *)
AddDouble(x, y, c) == [digit |-> Cut(x + y + c), carry |-> (x + y + c) \div Base]
SubDouble(x, y, c) ==
  LET t == (x - y - c) % (Base * Base)
  IN [digit |-> Cut(t), carry |-> (2 * t) \div (Base * Base)]

(* adc and sbb: what the sum, or the difference, leaves in the flag.       *)
AddFlag(x, y, c) == [digit |-> Cut(x + y + c), carry |-> Bool(x + y + c >= Base)]
SubFlag(x, y, c) == [digit |-> Cut(x - y - c), carry |-> Bool(x < y + c)]

BngAdd(v, m, a, alen, b, blen, carry) ==
  LET step(mem, i, c) == CASE v = "generic" -> AddTwoCarry(mem[a + i], mem[b + i], c)
                           [] v = "flags"   -> AddFlag(mem[a + i], mem[b + i], c)
                           [] v = "sse2"    -> AddDouble(mem[a + i], mem[b + i], c)
      s == Sweep(step, m, blen, LAMBDA i: a + i, carry)
  IN AddCarry(s.mem, a + blen, alen - blen, s.ret)

BngSub(v, m, a, alen, b, blen, carry) ==
  LET step(mem, i, c) == CASE v = "generic" -> SubTwoCarry(mem[a + i], mem[b + i], c)
                           [] v = "flags"   -> SubFlag(mem[a + i], mem[b + i], c)
                           [] v = "sse2"    -> SubDouble(mem[a + i], mem[b + i], c)
      s == Sweep(step, m, blen, LAMBDA i: a + i, carry)
  IN SubCarry(s.mem, a + blen, alen - blen, s.ret)

(* With no bit to shift the digits stay and nothing comes out.             *)
ShiftLeft(m, a, n, shift) ==
  LET step(mem, i, c) == [digit |-> Cut(mem[a + i] * 2 ^ shift) + c,
                          carry |-> mem[a + i] \div 2 ^ (DigitBits - shift)]
  IN IF shift = 0 THEN Left(m, 0) ELSE Sweep(step, m, n, LAMBDA i: a + i, 0)

ShiftRight(m, a, n, shift) ==
  LET top(i) == a + n - 1 - i
      step(mem, i, c) == [digit |-> mem[top(i)] \div 2 ^ shift + c,
                          carry |-> Cut(mem[top(i)] * 2 ^ (DigitBits - shift))]
  IN IF shift = 0 THEN Left(m, 0) ELSE Sweep(step, m, n, top, 0)

(* What is left of the carry, a digit, goes in the digit above the product *)
(* when there is one, and ripples from there.                              *)
AddOut(s, a, n) ==
  LET r == AddTwo(s.mem[a], s.ret)
  IN IF n = 0 THEN s ELSE AddCarry([s.mem EXCEPT ![a] = r.digit], a + 1, n - 1, r.carry)
SubOut(s, a, n) ==
  LET r == SubTwo(s.mem[a], s.ret)
  IN IF n = 0 THEN s ELSE SubCarry([s.mem EXCEPT ![a] = r.digit], a + 1, n - 1, r.carry)

MultAddDigit(v, m, a, alen, b, blen, d) ==
  LET generic(mem, i, out) ==
        LET p == Mult(mem[b + i], d) IN AddThree(p.high, mem[a + i], p.low, out)
      double(mem, i, out) == AddDouble(mem[a + i], mem[b + i] * d, out)
      s == IF v = "generic" THEN Sweep(generic, m, blen, LAMBDA i: a + i, 0)
                            ELSE Sweep(double, m, blen, LAMBDA i: a + i, 0)
  IN AddOut(s, a + blen, alen - blen)

(* The sse2 code holds the borrow c as Base - 1 - c, adds bias1 to the     *)
(* digit of a so that the difference stays positive, and undoes the        *)
(* encoding at the end.                                                    *)
Bias1 == (Base - 1) * Base - (Base - 1)
SubEncoded(x, p, enc) ==
  LET t == (enc + x + Bias1 - p) % (Base * Base)
  IN [digit |-> Cut(t), carry |-> t \div Base]

MultSubDigit(v, m, a, alen, b, blen, d) ==
  LET at(i) == a + i
      generic(mem, i, out) ==
        LET p == Mult(mem[b + i], d) IN SubThree(p.high, mem[a + i], p.low, out)
      flags(mem, i, out) ==
        LET p == mem[b + i] * d IN SubThree(p \div Base, mem[a + i], Cut(p), out)
      encoded(mem, i, enc) == SubEncoded(mem[a + i], mem[b + i] * d, enc)
      sse2 == IF blen = 0 THEN Left(m, 0)
              ELSE LET s == Sweep(encoded, m, blen, at, Base - 1)
                   IN Left(s.mem, Base - 1 - s.ret)
      swept == CASE v = "generic" -> Sweep(generic, m, blen, at, 0)
                 [] v = "flags"   -> Sweep(flags, m, blen, at, 0)
                 [] v = "sse2"    -> sse2
  IN SubOut(swept, a + blen, alen - blen)

MultAdd(v, m, a, alen, b, blen, c, clen) ==
  FoldLeft(LAMBDA s, i: LET r == MultAddDigit(v, s.mem, a + i, alen - i, b, blen, s.mem[c + i])
                        IN Left(r.mem, s.ret + r.ret),
           Left(m, 0), [i \in 1 .. clen |-> i - 1])

(* The products of different digits, once each, then doubled, then the     *)
(* squares.                                                                *)
SquareAdd(v, m, a, alen, b, blen) ==
  LET crossed == FoldLeft(LAMBDA s, i:
                   LET r == MultAddDigit(v, s.mem, a + 2 * i - 1, alen - 2 * i + 1,
                                         b + i, blen - i, s.mem[b + i - 1])
                   IN Left(r.mem, s.ret + r.ret),
                   Left(m, 0), [i \in 1 .. blen - 1 |-> i])
      doubled == ShiftLeft(crossed.mem, a, alen, 1)
      square(mem, i, c) ==
        LET d == mem[b + i \div 2]
            p == IF v = "generic" THEN Mult(d, d)
                 ELSE [high |-> (d * d) \div Base, low |-> Cut(d * d)]
        IN AddTwoCarry(mem[a + i], IF i % 2 = 0 THEN p.low ELSE p.high, c)
      squared == Sweep(square, doubled.mem, 2 * blen, LAMBDA i: a + i, 0)
      rest == AddCarry(squared.mem, a + 2 * blen, alen - 2 * blen, squared.ret)
  IN Left(rest.mem, 2 * crossed.ret + doubled.ret + rest.ret)

BngDiv(v, nh, nl, d) ==
  IF v = "generic" THEN DivByHalves(nh, nl, d)
  ELSE [quo |-> (nh * Base + nl) \div d, rem |-> (nh * Base + nl) % d]

DivRemNormDigit(v, m, a, b, n, d) ==
  LET step(mem, i, top) == LET r == BngDiv(v, top, mem[b + n - 2 - i], d)
                           IN [digit |-> r.quo, carry |-> r.rem]
  IN Sweep(step, m, n - 1, LAMBDA i: a + n - 2 - i, m[b + n - 1])

LeadingZeroBits(digit) ==
  LET zeros[d \in Digit, n \in 0 .. DigitBits, width \in 1 .. DigitBits] ==
        LET h == width \div 2
        IN IF width = 1 THEN n - d
           ELSE IF d >= 2 ^ h THEN zeros[d \div 2 ^ h, n - h, h]
           ELSE zeros[d, n, h]
  IN zeros[digit, DigitBits, DigitBits]

(* Division instructions need no normalized divisor.                       *)

DivRemDigit(v, m, a, b, n, d) ==
  LET shift == LeadingZeroBits(d)
      r == DivRemNormDigit(v, ShiftLeft(m, b, n, shift).mem, a, b, n, Cut(d * 2 ^ shift))
  IN IF v # "generic" THEN DivRemNormDigit(v, m, a, b, n, d)
     ELSE Left(ShiftRight(r.mem, b, n, shift).mem, r.ret \div 2 ^ shift)

Complement(m, a, n) ==
  [p \in DOMAIN m |-> IF p \in a .. a + n - 1 THEN Base - 1 - m[p] ELSE m[p]]

Significant(m, a, n) == {i \in 1 .. n : m[a + i - 1] # 0}

(* Never less than one digit.                                              *)
NumDigits(m, a, n) ==
  IF Significant(m, a, n) = {} THEN 1 ELSE Max(Significant(m, a, n))

(* The longer is the greater, leading zeros apart; else the topmost digit  *)
(* that differs decides.                                                   *)
CompareDigits(x, y) == IF x > y THEN 1 ELSE IF x < y THEN -1 ELSE 0

BngCompare(m, a, alen, b, blen) ==
  LET la == Max(Significant(m, a, alen) \cup {0})
      lb == Max(Significant(m, b, blen) \cup {0})
      differ == {i \in 0 .. la - 1 : m[a + i] # m[b + i]}
  IN IF la # lb THEN CompareDigits(la, lb)
     ELSE IF differ = {} THEN 0
     ELSE CompareDigits(m[a + Max(differ)], m[b + Max(differ)])

(* Long division.  A multiple of the divisor is subtracted from the        *)
(* numerator, and the borrow from the digit above it, digit by digit.      *)
Borrowed(r, j) == [r.mem EXCEPT ![j] = Cut(r.mem[j] - r.ret)]

(* A digit of the quotient is estimated from below with the top digit of   *)
(* the divisor plus one, and raised while the numerator has the divisor    *)
(* left in it.                                                             *)
RaiseQuotient(v, numerator, j, estimate, d, dlen) ==
  LET raise[m \in [DOMAIN numerator -> Digit], quo \in Digit] ==
        IF m[j] # 0 \/ BngCompare(m, j - dlen, dlen, d, dlen) >= 0
        THEN raise[Borrowed(BngSub(v, m, j - dlen, dlen, d, dlen, 0), j), Cut(quo + 1)]
        ELSE [m EXCEPT ![j] = quo]
  IN raise[numerator, estimate]

QuotientDigit(v, m, j, d, dlen, topden) ==
  LET quo == IF Cut(topden + 1) = 0 THEN m[j] ELSE BngDiv(v, m[j], m[j - 1], topden + 1).quo
  IN RaiseQuotient(v, Borrowed(MultSubDigit(v, m, j - dlen, dlen, d, dlen, quo), j), j, quo, d, dlen)

(* The divisor is normalized; with one of one digit the remainder goes     *)
(* below the quotient.                                                     *)
DivRemNorm(v, norm, n, nlen, d, dlen) ==
  FoldLeft(LAMBDA m, j: QuotientDigit(v, m, j, d, dlen, norm[d + dlen - 1]),
           norm, [i \in 1 .. nlen - dlen |-> n + nlen - i])

DivRemNormOne(v, norm, n, nlen, d) ==
  LET r == DivRemNormDigit(v, norm, n + 1, n, nlen, norm[d]) IN [r.mem EXCEPT ![n] = r.ret]

ShiftUp(m, n, nlen, d, dlen, shift) ==
  ShiftLeft(ShiftLeft(m, n, nlen, shift).mem, d, dlen, shift).mem
ShiftDown(m, n, d, dlen, shift) ==
  ShiftRight(ShiftRight(m, n, dlen, shift).mem, d, dlen, shift).mem

BngDivRem(v, m, n, nlen, d, dlen) ==
  LET shift == LeadingZeroBits(m[d + dlen - 1])
      norm == ShiftUp(m, n, nlen, d, dlen, shift)
  IN ShiftDown(IF dlen = 1 THEN DivRemNormOne(v, norm, n, nlen, d)
               ELSE DivRemNorm(v, norm, n, nlen, d, dlen), n, d, dlen, shift)
=============================================================================
