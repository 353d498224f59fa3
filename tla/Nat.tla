-------------------------------- MODULE Nat --------------------------------
(***************************************************************************)
(* The natural numbers of num as OCaml sees them: nat_stubs.c over Bng,    *)
(* with the algorithms of nat.ml that stress the division.  The memory     *)
(* holds three nats; a call works in place on ranges of them and fills in  *)
(* the record call, which keeps the memory it found.                       *)
(***************************************************************************)
EXTENDS Bng, Bitwise

CONSTANTS
  Memories,   \* the contents of the memory before a call
  Ranges1,    \* ranges <<offset, length>> of the first nat
  Ranges2,    \* ranges of the second nat, which has no digit of the first
  Cell,       \* the address of the third nat, of one digit
  Naturals,   \* nats, sequences of digits
  Scratch     \* the memory in which calls on these are made

VARIABLES variant, mem, call

vars == <<variant, mem, call>>

Idle == [op |-> "none", before |-> << >>, ret |-> 0, args |-> << >>]

-----------------------------------------------------------------------------
(* Stubs.                                                                  *)

(* Long_val and Val_long: OCaml integers have one bit less than a digit.   *)
MaxLong == Base \div 4 - 1
AsLong(d) == LET t == d % (Base \div 2) IN IF t > MaxLong THEN t - Base \div 2 ELSE t
IsDigitInt(d) == d <= MaxLong
IsDigitNormalized(d) == d >= Base \div 2

Zero(m, a, n) == [p \in DOMAIN m |-> IF p \in a .. a + n - 1 THEN 0 ELSE m[p]]
AssignMore(m, a, b, n) ==     \* mutant: a digit too many
  [p \in DOMAIN m |-> IF p \in a .. a + n /\ b + p - a \in DOMAIN m THEN m[b + p - a] ELSE m[p]]

Assign(m, a, b, n) == [p \in DOMAIN m |-> IF p \in a .. a + n - 1 THEN m[b + p - a] ELSE m[p]]
SetDigit(m, a, i) == [m EXCEPT ![a] = Cut(i)]

(* The words of 32 bits that caml_hash_mix_uint32 is fed: a digit gives    *)
(* two on a machine of 64 bits, but a last one of zero is left out.        *)
Words(x) == FoldLeft(LAMBDA ws, d: ws \o <<LowHalf(d), HighHalf(d)>>, << >>, x)
MemoryOf(x) == [p \in 0 .. Len(x) - 1 |-> x[p + 1]]
Trim(x) == SubSeq(x, 1, NumDigits(MemoryOf(x), 0, Len(x)))
Hash64All(x) == Words(Trim(x))     \* mutant: a last half of zero is mixed in

Hash64(x) == LET ws == Words(Trim(x)) IN IF Last(ws) = 0 THEN Front(ws) ELSE ws
Hash32(ws) == Trim(ws)

(* A big-endian machine has the upper half of a digit first in memory and  *)
(* swaps the halves on their way out and in; an odd number of words, from  *)
(* a machine of 32 bits, is completed with zero.                           *)
Platforms == {"32", "64", "64-be"}
Layout(pf, d) == IF pf = "64-be" THEN <<HighHalf(d), LowHalf(d)>> ELSE <<LowHalf(d), HighHalf(d)>>
FromLayout(pf, w) == IF pf = "64-be" THEN w[1] * Half + w[2] ELSE w[2] * Half + w[1]

Serialize(pf, x) ==
  CASE pf = "32"    -> x
    [] pf = "64"    -> FoldLeft(LAMBDA ws, d: ws \o Layout(pf, d), << >>, x)
    [] pf = "64-be" -> FoldLeft(LAMBDA ws, d: LET w == Layout(pf, d) IN ws \o <<w[2], w[1]>>,
                                << >>, x)

Deserialize(pf, words) ==
  LET whole == IF Len(words) % 2 = 1 THEN Append(words, 0) ELSE words
      pair(i) == IF pf = "64-be" THEN <<whole[2 * i], whole[2 * i - 1]>>
                                 ELSE <<whole[2 * i - 1], whole[2 * i]>>
  IN IF pf = "32" THEN words
     ELSE [i \in 1 .. Len(whole) \div 2 |-> FromLayout(pf, pair(i))]

-----------------------------------------------------------------------------
(* nat.ml.                                                                 *)

IsZeroNat(m, a, n) == Significant(m, a, n) = {}

(* Both copies have a digit more than their nat, so that the one that is   *)
(* divided can be given a leading zero.  They are at 0 and start; p is     *)
(* where the one is that is divided first.                                 *)
GcdLoop(v, copies, start, p, l) ==
  LET loop[m \in [DOMAIN copies -> Digit], p1 \in {0, start}, l1 \in Nat, l2 \in Nat] ==
        LET next(r) == loop[r, start - p1, l2, NumDigits(r, p1, l2)]
        IN IF IsZeroNat(m, start - p1, l2) THEN [i \in 1 .. l1 |-> m[p1 + i - 1]]
           ELSE next(BngDivRem(v, [m EXCEPT ![p1 + l1] = 0], p1, l1 + 1, start - p1, l2))
      digits(q) == NumDigits(copies, q, l[q])
  IN loop[copies, p, digits(p), digits(start - p)]

GcdNat(v, x, y) ==
  LET start == Len(x) + 1
      copies == MemoryOf(x \o <<0>> \o y \o <<0>>)
      swapped == BngCompare(copies, 0, Len(x), start, Len(y)) < 0
  IN IF IsZeroNat(MemoryOf(x), 0, Len(x)) THEN y
     ELSE GcdLoop(v, copies, start, IF swapped THEN start ELSE 0,
                  [q \in {0, start} |-> IF q = 0 THEN Len(x) + 1 ELSE Len(y) + 1])

(* Newton's method, from a candidate of which only the lowest digit is     *)
(* shifted.  next_cand is at 0, and the candidate after it.                *)
Mean(v, m, candLen, radLen) ==
  ShiftRight(BngAdd(v, m, candLen, radLen - candLen, radLen, candLen, 0).mem,
             candLen, radLen - candLen, 1).mem
NextCand(v, m, rad, candLen) ==
  Mean(v, BngDivRem(v, MemoryOf(rad) @@ m, 0, Len(rad), Len(rad), candLen), candLen, Len(rad))

Newton(v, rad, cand) ==
  LET len == Len(cand)
      improve[m \in [0 .. Len(rad) + len - 1 -> Digit]] ==
        IF BngCompare(m, len, Len(rad) - len, Len(rad), len) < 0
        THEN improve[NextCand(v, Assign(m, Len(rad), len, len), rad, len)]
        ELSE [i \in 1 .. len |-> m[Len(rad) + i - 1]]
  IN improve[NextCand(v, MemoryOf(rad \o cand), rad, len)]

SqrtNat(v, x) ==
  LET len == NumDigits(MemoryOf(x), 0, Len(x))
      rad == [p \in 1 .. len + 1 + (len % 2) |-> IF p <= len THEN x[p] ELSE 0]
      shift == (LeadingZeroBits(x[len]) + DigitBits * (len % 2)) \div 2
      cand(lowest) == [i \in 1 .. (len + 1) \div 2 |-> IF i = 1 THEN lowest ELSE Base - 1]
  IN IF shift = DigitBits THEN [i \in 1 .. (len + 1) \div 2 |-> 0]
     ELSE Newton(v, rad, cand((Base - 1) \div 2 ^ shift))

-----------------------------------------------------------------------------
(* The calls.                                                              *)

Init == variant \in Variants /\ mem \in Memories /\ call = Idle

Called(op, args, r) ==
  /\ call = Idle
  /\ mem' = r.mem
  /\ call' = [op |-> op, before |-> mem, ret |-> r.ret, args |-> args]
  /\ UNCHANGED variant

(* A carry is returned as an OCaml integer: a full digit loses its top bit. *)
Answered(r) == Left(r.mem, AsLong(r.ret))

(* The carries of decr_nat and sub_nat are inverted: one is no borrow.     *)
Inverted(r) == Left(r.mem, AsLong(1 - r.ret))

Sums == \E s \in Ranges1, t \in Ranges2, carry \in {0, 1} :
  \/ Called("incr_nat", <<s, carry>>, Answered(AddCarry(mem, s[1], s[2], carry)))
  \/ Called("decr_nat", <<s, carry>>, Inverted(SubCarry(mem, s[1], s[2], 1 - carry)))
  \/ /\ s[2] >= t[2]
     /\ \/ Called("add_nat", <<s, carry, t>>,
                  Answered(BngAdd(variant, mem, s[1], s[2], t[1], t[2], carry)))
        \/ Called("sub_nat", <<s, carry, t>>,
                  Inverted(BngSub(variant, mem, s[1], s[2], t[1], t[2], 1 - carry)))

(* A nat may be added to, or subtracted from, itself.                      *)
Doubles == \E s \in Ranges1 :
  \/ Called("add_nat", <<s, 0, s>>, Answered(BngAdd(variant, mem, s[1], s[2], s[1], s[2], 0)))
  \/ Called("sub_nat", <<s, 1, s>>, Inverted(BngSub(variant, mem, s[1], s[2], s[1], s[2], 0)))

(* The digit shifted out is stored in another nat.                         *)
ToCell(r) == Left([r.mem EXCEPT ![Cell] = r.ret], 0)

Shifts == \E s \in Ranges1, nbits \in 0 .. DigitBits - 1 :
  \/ Called("shift_left_nat", <<s, nbits>>, ToCell(ShiftLeft(mem, s[1], s[2], nbits)))
  \/ Called("shift_right_nat", <<s, nbits>>, ToCell(ShiftRight(mem, s[1], s[2], nbits)))

Products == \E s \in Ranges1, t \in Ranges2 :
  \/ /\ s[2] >= t[2]
     /\ Called("mult_digit_nat", <<s, t>>,
               Answered(MultAddDigit(variant, mem, s[1], s[2], t[1], t[2], mem[Cell])))
  \/ \E u \in Ranges2 :
       /\ s[2] >= t[2] + u[2]
       /\ Called("mult_nat", <<s, t, u>>,
                 Answered(MultAdd(variant, mem, s[1], s[2], t[1], t[2], u[1], u[2])))
  \/ /\ s[2] >= 2 * t[2]
     /\ Called("square_nat", <<s, t>>, Answered(SquareAdd(variant, mem, s[1], s[2], t[1], t[2])))

TopDigit(s) == mem[s[1] + s[2] - 1]

(* The dividend's top digit is less than the divisor's.  div_digit_nat     *)
(* leaves its quotient in the second nat, its remainder in the cell, where *)
(* the divisor was.                                                        *)
Divisions == \E s \in Ranges1, t \in Ranges2 :
  \/ /\ s[2] > t[2] /\ TopDigit(s) < TopDigit(t)
     /\ Called("div_nat", <<s, t>>,
               Left(BngDivRem(variant, mem, s[1], s[2], t[1], t[2]), 0))
  \/ /\ s[2] - 1 = t[2] /\ TopDigit(s) < mem[Cell]
     /\ Called("div_digit_nat", <<s, t>>,
               ToCell(DivRemDigit(variant, mem, t[1], s[1], s[2], mem[Cell])))

Observations == \E s \in Ranges1, t \in Ranges2 :
  \/ Called("compare_nat", <<s, t>>, Left(mem, BngCompare(mem, s[1], s[2], t[1], t[2])))
  \/ Called("compare_digits_nat", <<s, t>>, Left(mem, CompareDigits(mem[s[1]], mem[t[1]])))
  \/ Called("num_digits_nat", <<s>>, Left(mem, NumDigits(mem, s[1], s[2])))
  \/ Called("num_leading_zero_bits_in_digit", <<s>>, Left(mem, LeadingZeroBits(mem[s[1]])))
  \/ Called("nth_digit_nat", <<s, IsDigitInt(mem[s[1]]), IsDigitNormalized(mem[s[1]]),
                               mem[s[1]] % 2 = 1>>, Left(mem, AsLong(mem[s[1]])))

Stores == \E s \in Ranges1, t \in Ranges2 :
  \/ Called("complement_nat", <<s>>, Left(Complement(mem, s[1], s[2]), 0))
  \/ Called("set_to_zero_nat", <<s>>, Left(Zero(mem, s[1], s[2]), 0))
  \/ Called("set_digit_nat", <<s>>, Left(SetDigit(mem, s[1], AsLong(mem[t[1]])), 0))
  \/ \E b \in Ranges1 \cup Ranges2 :
       /\ b[2] >= s[2]
       /\ Called("blit_nat", <<s, b>>, Left(Assign(mem, s[1], b[1], s[2]), 0))
  \/ Called("land_digit_nat", <<s, t>>, Left([mem EXCEPT ![s[1]] = @ & mem[t[1]]], 0))
  \/ Called("lor_digit_nat", <<s, t>>, Left([mem EXCEPT ![s[1]] = @ | mem[t[1]]], 0))
  \/ Called("lxor_digit_nat", <<s, t>>, Left([mem EXCEPT ![s[1]] = @ ^^ mem[t[1]]], 0))

(* Whole nats, from the set of nats, with the machine that marshals them   *)
(* and the one that reads them back.                                       *)
Wholes == mem = Scratch /\ \E x \in Naturals :
  \/ Called("hash_nat", <<x, Hash32(Words(x))>>, Left(mem, Hash64(x)))
  \/ \E from \in Platforms, to \in Platforms, cut \in {0, 1} :
       LET nat == IF from = "32" THEN SubSeq(Words(x), 1, 2 * Len(x) - cut) ELSE x
       IN Called("marshal", <<from, to, nat>>, Left(mem, Deserialize(to, Serialize(from, nat))))
  \/ \E y \in Naturals : Called("gcd_nat", <<x, y>>, Left(mem, GcdNat(variant, x, y)))
  \/ Called("sqrt_nat", <<x>>, Left(mem, SqrtNat(variant, x)))

Next ==
  \/ Sums \/ Doubles \/ Shifts \/ Products \/ Divisions
  \/ Observations \/ Stores \/ Wholes

Spec == Init /\ [][Next]_vars

-----------------------------------------------------------------------------

(* The value of the n digits from a on, in base b.                         *)
Value(m, a, n, b) == FoldLeft(LAMBDA v, i: v * b + m[a + n - i], 0, [i \in 1 .. n |-> i])
Old(s) == Value(call.before, s[1], s[2], Base)
New(s) == Value(mem, s[1], s[2], Base)
Overflow(s) == call.ret * Base ^ s[2]
ValueOf(x) == Value(MemoryOf(x), 0, Len(x), Base)

(* Increments, additions and subtractions, in the three variants and also  *)
(* of a nat and itself, leave the exact sum or difference once the carry   *)
(* they return is counted; the carries of the subtractions are inverted    *)
(* (bng.c:92-152, nat_stubs.c:137-181).                                   *)
SumsExact ==
  LET s == call.args[1]
      carry == call.args[2]
      t == call.args[3]
  IN /\ call.op = "incr_nat" => New(s) + Overflow(s) = Old(s) + carry
     /\ call.op = "add_nat" => New(s) + Overflow(s) = Old(s) + Old(t) + carry
     /\ call.op = "decr_nat" => New(s) + Overflow(s) = Old(s) + carry - 1 + Base ^ s[2]
     /\ call.op = "sub_nat" => New(s) + Overflow(s) = Old(s) - Old(t) + carry - 1 + Base ^ s[2]

(* A shift loses no bit: those that leave the nat are in the digit it      *)
(* stores, at the bottom after a shift to the left, at the top after one   *)
(* to the right (bng.c:154-190).                                           *)
ShiftsKeepBits ==
  LET s == call.args[1]
      nbits == call.args[2]
  IN /\ call.op = "shift_left_nat" =>
          New(s) + mem[Cell] * Base ^ s[2] = Old(s) * 2 ^ nbits
     /\ call.op = "shift_right_nat" =>
          New(s) * Base + mem[Cell] = Old(s) * (Base \div 2 ^ nbits)

(* Products and squares are exact with their carry.  That of a product by  *)
(* a digit is 0 or 1 when the result has a digit more than the number      *)
(* multiplied; when it has as many, the carry is a full digit (bng.h:71-77) *)
(* of which the caller gets all but the top bit, for it is returned as an  *)
(* OCaml integer (nat_stubs.c:183-192): the digits left are exact, and so  *)
(* is the carry up to that bit.                                            *)
ProductsExact ==
  LET s == call.args[1]
      t == call.args[2]
      exactWith(carry) ==
        New(s) + carry * Base ^ s[2] = Old(s) + call.before[Cell] * Old(t)
  IN /\ call.op = "mult_digit_nat" =>
          IF s[2] > t[2] THEN call.ret \in {0, 1} /\ exactWith(call.ret)
          ELSE \E carry \in Digit : AsLong(carry) = call.ret /\ exactWith(carry)
     /\ call.op = "mult_nat" => New(s) + Overflow(s) = Old(s) + Old(t) * Old(call.args[3])
     /\ call.op = "square_nat" => New(s) + Overflow(s) = 2 * Old(s) + Old(t) * Old(t)

(* A division leaves the quotient and the remainder, less than the         *)
(* divisor, and the number that was normalized as it was, whatever the     *)
(* estimates of the quotient's digits were (bng.h:108-127).                *)
DivisionsExact ==
  LET s == call.args[1]
      t == call.args[2]
      rem == Value(mem, s[1], t[2], Base)
  IN /\ call.op = "div_nat" =>
          /\ New(t) = Old(t)
          /\ rem < Old(t)
          /\ Old(s) = Value(mem, s[1] + t[2], s[2] - t[2], Base) * Old(t) + rem
     /\ call.op = "div_digit_nat" =>
          /\ New(s) = Old(s)
          /\ mem[Cell] < call.before[Cell]
          /\ Old(s) = New(t) * call.before[Cell] + mem[Cell]

(* Leading zeros do not count: the order is that of the values, the number *)
(* of digits the least that holds the value, and a digit read as an OCaml  *)
(* integer is itself exactly when is_digit_int says so.                    *)
OrderByValue ==
  LET s == call.args[1]
      d == call.before[s[1]]
  IN /\ call.op = "compare_nat" =>
          call.ret = CompareDigits(Old(s), Old(call.args[2]))
     /\ call.op = "num_digits_nat" =>
          /\ Old(s) < Base ^ call.ret
          /\ call.ret > 1 => Old(s) >= Base ^ (call.ret - 1)
     /\ call.op = "num_leading_zero_bits_in_digit" =>
          /\ d * 2 ^ call.ret < Base
          /\ d > 0 => 2 * d * 2 ^ call.ret >= Base
     /\ call.op = "nth_digit_nat" => (call.args[2] <=> call.ret = d)

(* What a nat hashes to and what it is read back as depend on its value,   *)
(* and not on its leading zeros or on the machines (nat_stubs.c:342-421).  *)
MachineIndependent ==
  LET value(pf, x) == Value(MemoryOf(x), 0, Len(x), IF pf = "32" THEN Half ELSE Base)
  IN /\ call.op = "hash_nat" =>
          /\ call.ret = call.args[2]
          /\ value("32", call.ret) = ValueOf(call.args[1])
          /\ Len(call.ret) > 1 => Last(call.ret) # 0
     /\ call.op = "marshal" =>
          value(call.args[2], call.ret) = value(call.args[1], call.args[3])

(* gcd_nat and sqrt_nat meet the conditions of the divisions they do, and  *)
(* compute the greatest common divisor and the square root rounded down.   *)
AlgorithmsExact ==
  LET x == ValueOf(call.args[1])
      r == ValueOf(call.ret)
      common(y) == {k \in 1 .. x + y : x % k = 0 /\ y % k = 0}
  IN /\ call.op = "gcd_nat" =>
          LET y == ValueOf(call.args[2]) IN x + y > 0 => r = Max(common(y))
     /\ call.op = "sqrt_nat" => r * r <= x /\ x < (r + 1) * (r + 1)

(* Whatever the variant, a call computes what it is named for.             *)
ResultsExact ==
  SumsExact /\ ShiftsKeepBits /\ ProductsExact /\ DivisionsExact /\ AlgorithmsExact

(* What is observed of a nat depends on its value alone: not on leading    *)
(* zeros, and not on the machine.                                          *)
ValueDecides == OrderByValue /\ MachineIndependent

(* A call writes digits, and nothing but those it is given to write.       *)
WritesInRange ==
  mem \in [0 .. Cell -> Digit] /\
  (call.op \notin {"none", "hash_nat", "marshal", "gcd_nat", "sqrt_nat"} =>
    LET addresses(s) == s[1] .. s[1] + s[2] - 1
        written ==
          CASE call.op \in {"div_digit_nat"} -> addresses(call.args[2]) \cup {Cell}
            [] call.op \in {"shift_left_nat", "shift_right_nat"} ->
                 addresses(call.args[1]) \cup {Cell}
            [] OTHER -> addresses(call.args[1])
    IN \A p \in DOMAIN mem \ written : mem[p] = call.before[p])
=============================================================================
