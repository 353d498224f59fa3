------------------------- MODULE Arithmetic_proofs -------------------------
(***************************************************************************)
(* Proofs about the arithmetic of Zarith, for words of any width, and of   *)
(* num, for digits of any width: an operation of num leaves a digit and a  *)
(* carry that together are the exact result, and the C code and the        *)
(* assembly variants leave the same ones.                                  *)
(***************************************************************************)
EXTENDS ZOps, Bng, TLAPS

-----------------------------------------------------------------------------
(* Integers and machine words.                                             *)

(* A number is its own remainder by a larger one.                          *)
LEMMA ModSmall ==
  ASSUME NEW a \in Nat, NEW b \in Nat, a < b
  PROVE  a % b = a
OBVIOUS

(* Quotient and remainder by a positive number.                            *)
LEMMA Euclidean ==
  ASSUME NEW a \in Int, NEW b \in Nat, b > 0
  PROVE  /\ a \div b \in Int /\ a % b \in Int
         /\ a = b * (a \div b) + (a % b)
         /\ 0 <= a % b /\ a % b < b
OBVIOUS

(* What an intnat holds does not wrap.                                     *)
LEMMA WrapIs ==
  ASSUME NEW v \in Int, -2 * Quarter <= v, v < 2 * Quarter
  PROVE  Wrap(v) = v
<1>1. PICK q \in Nat : q = Quarter /\ q > 0
  BY QuarterAssumption
<1>2. v + 2 * q \in Nat /\ v + 2 * q < 4 * q /\ 4 * q \in Nat
  BY <1>1
<1>3. (v + 2 * q) % (4 * q) = v + 2 * q
  BY <1>2, ModSmall
<1> QED
  BY <1>1, <1>3 DEF Wrap, B

(* An integer that fits is boxed as itself.                                *)
LEMMA LongIs ==
  ASSUME NEW n \in Int, FitsInt(n)
  PROVE  Long(n) = [tag |-> "int", n |-> n]
<1>1. PICK q \in Nat : q = Quarter /\ q > 0
  BY QuarterAssumption
<1>2. -q <= n /\ n <= q - 1
  BY <1>1 DEF FitsInt, MinInt, MaxInt
<1>3. Wrap(2 * n + 1) = 2 * n + 1
  BY <1>1, <1>2, WrapIs
<1>4. (2 * n + 1) \div 2 = n
  OBVIOUS
<1> QED
  BY <1>3, <1>4 DEF Long, Tagged, Untagged

-----------------------------------------------------------------------------
(* The numbers of Z: how one is held, and when a result is reduced.        *)

Held(z) ==
  \/ \E n \in Int : FitsInt(n) /\ z = [tag |-> "int", n |-> n]
  \/ \E neg \in BOOLEAN, a \in Nat \ {0} : z = Block(neg, a)

Canonical(z) ==
  z.tag = "block" => ~FitsInt(Value(z)) \/ z = Block(TRUE, Quarter)

(* A value that is an OCaml integer: what IsLong, Value and Z_ARG read in  *)
(* it.                                                                     *)
LEMMA IntIs ==
  ASSUME NEW n \in Int, NEW z, z = [tag |-> "int", n |-> n]
  PROVE  /\ IsLong(z) /\ IsZ(z) /\ z.n = n /\ Value(z) = n
         /\ AbsOf(z) = Magnitude(n) /\ (NegOf(z) <=> n < 0) /\ NegOf(z) \in BOOLEAN
         /\ Canonical(z)
<1>1. z.tag = "int" /\ z.n = n
  OBVIOUS
<1> QED
  BY <1>1 DEF IsLong, IsZ, Value, AbsOf, NegOf, Magnitude, Canonical

(* A value that is a block: its sign and its limbs are what is read in it. *)
LEMMA BlockIs ==
  ASSUME NEW neg \in BOOLEAN, NEW a \in Nat, NEW z, z = Block(neg, a)
  PROVE  /\ ~IsLong(z) /\ IsZ(z) /\ Value(z) = IF neg THEN -a ELSE a
         /\ AbsOf(z) = a /\ NegOf(z) = neg
BY DEF IsLong, IsZ, Value, AbsOf, NegOf, Block

(* The sign and the magnitude a primitive reads.                           *)
LEMMA HeldIs ==
  ASSUME NEW z, Held(z)
  PROVE  /\ NegOf(z) \in BOOLEAN /\ AbsOf(z) \in Nat /\ Value(z) \in Int /\ IsZ(z)
         /\ Value(z) = (IF NegOf(z) THEN -AbsOf(z) ELSE AbsOf(z))
         /\ NegOf(z) <=> Value(z) < 0
         /\ AbsOf(z) = Magnitude(Value(z))
         /\ IsLong(z) => Value(z) = z.n /\ FitsInt(z.n) /\ z.n \in Int
<1>1. ASSUME NEW n \in Int, FitsInt(n), z = [tag |-> "int", n |-> n]
      PROVE  /\ NegOf(z) \in BOOLEAN /\ AbsOf(z) \in Nat /\ Value(z) \in Int /\ IsZ(z)
             /\ Value(z) = (IF NegOf(z) THEN -AbsOf(z) ELSE AbsOf(z))
             /\ NegOf(z) <=> Value(z) < 0
             /\ AbsOf(z) = Magnitude(Value(z))
             /\ IsLong(z) => Value(z) = z.n /\ FitsInt(z.n) /\ z.n \in Int
  BY <1>1, IntIs DEF Magnitude
<1>2. ASSUME NEW neg \in BOOLEAN, NEW a \in Nat \ {0}, z = Block(neg, a)
      PROVE  /\ NegOf(z) \in BOOLEAN /\ AbsOf(z) \in Nat /\ Value(z) \in Int /\ IsZ(z)
             /\ Value(z) = (IF NegOf(z) THEN -AbsOf(z) ELSE AbsOf(z))
             /\ NegOf(z) <=> Value(z) < 0
             /\ AbsOf(z) = Magnitude(Value(z))
             /\ IsLong(z) => Value(z) = z.n /\ FitsInt(z.n) /\ z.n \in Int
  BY <1>2, BlockIs DEF Magnitude
<1> QED
  BY <1>1, <1>2 DEF Held

(* What is boxed is held, and is the number.                               *)
LEMMA Boxed ==
  ASSUME NEW n \in Int, FitsInt(n)
  PROVE  Held(Long(n)) /\ Value(Long(n)) = n /\ Canonical(Long(n))
<1>1. Long(n) = [tag |-> "int", n |-> n]
  BY LongIs
<1> QED
  BY <1>1, IntIs DEF Held

(* ml_z_reduce: a result is the number of its sign and magnitude, and is a *)
(* block only when it has to be.                                           *)
LEMMA ReduceIs ==
  ASSUME NEW neg \in BOOLEAN, NEW a \in Nat
  PROVE  /\ Held(Reduce(neg, a)) /\ Canonical(Reduce(neg, a))
         /\ Value(Reduce(neg, a)) = IF neg THEN -a ELSE a
<1>1. PICK q \in Nat : q = Quarter /\ q > 0
  BY QuarterAssumption
<1>2. CASE a <= MaxInt
  <2>1. PICK n \in Int : n = IF neg THEN -a ELSE a
    OBVIOUS
  <2>2. FitsInt(n)
    BY <1>1, <1>2, <2>1 DEF FitsInt, MinInt, MaxInt
  <2>3. Reduce(neg, a) = Long(n)
    BY <1>2, <2>1 DEF Reduce
  <2> QED
    BY <2>1, <2>2, <2>3, Boxed
<1>3. CASE ~(a <= MaxInt)
  <2>1. a > q - 1 /\ a # 0
    BY <1>1, <1>3 DEF MaxInt
  <2>2. Reduce(neg, a) = Block(neg, a)
    BY <1>3 DEF Reduce
  <2>3. Value(Block(neg, a)) = IF neg THEN -a ELSE a
    BY BlockIs
  <2>4. Held(Block(neg, a))
    BY <2>1 DEF Held
  <2>5. ~FitsInt(Value(Block(neg, a))) \/ Block(neg, a) = Block(TRUE, Quarter)
    <3>1. CASE neg /\ a = q
      BY <1>1, <3>1
    <3>2. CASE neg /\ a # q
      <4>1. Value(Block(neg, a)) = -a
        BY <2>3, <3>2
      <4>2. ~FitsInt(-a)
        BY <1>1, <2>1, <3>2 DEF FitsInt, MinInt
      <4> QED
        BY <4>1, <4>2
    <3>3. CASE ~neg
      <4>1. Value(Block(neg, a)) = a
        BY <2>3, <3>3
      <4>2. ~FitsInt(a)
        BY <1>1, <2>1 DEF FitsInt, MaxInt
      <4> QED
        BY <4>1, <4>2
    <3> QED
      BY <3>1, <3>2, <3>3
  <2> QED
    BY <2>2, <2>3, <2>4, <2>5 DEF Canonical
<1> QED
  BY <1>2, <1>3

-----------------------------------------------------------------------------
(* What a primitive gives for numbers that are held: the number v, reduced *)
(* unless it is one of them.                                               *)
Gives(r, v, from) == Held(r) /\ Value(r) = v /\ (Canonical(r) \/ r \in from)

(* A boxed integer.                                                        *)
LEMMA BoxedGives ==
  ASSUME NEW n \in Int, FitsInt(n), NEW from
  PROVE  Gives(Long(n), n, from)
BY Boxed DEF Gives

(* A reduced number.                                                       *)
LEMMA ReducedGives ==
  ASSUME NEW neg \in BOOLEAN, NEW a \in Nat, NEW from
  PROVE  Gives(Reduce(neg, a), IF neg THEN -a ELSE a, from)
BY ReduceIs DEF Gives

(* FitsInt is a test of two bounds.                                        *)
LEMMA HeldRange ==
  /\ Quarter \in Nat /\ Quarter > 0
  /\ \A n \in Int : FitsInt(n) <=> -Quarter <= n /\ n < Quarter
<1>1. PICK q \in Nat : q = Quarter /\ q > 0
  BY QuarterAssumption
<1> QED
  BY <1>1 DEF FitsInt, MinInt, MaxInt

(* ml_z_neg gives the opposite, reduced. The opposite of the least integer *)
(* does not fit one: the guard leaves it to the limbs.                     *)
THEOREM OppositeExact ==
  ASSUME NEW z, Held(z)
  PROVE  Gives(Opposite(z), -Value(z), {})
<1>1. CASE IsLong(z) /\ z.n > MinInt
  <2>1. FitsInt(-z.n) /\ -z.n \in Int /\ -z.n = -Value(z)
    BY <1>1, HeldIs, HeldRange DEF MinInt
  <2> QED
    BY <1>1, <2>1, BoxedGives DEF Opposite
<1>2. CASE ~(IsLong(z) /\ z.n > MinInt)
  <2>1. PICK neg \in BOOLEAN, a \in Nat : neg = NegOf(z) /\ a = AbsOf(z)
    BY HeldIs
  <2>2. Gives(Reduce(~neg, a), IF ~neg THEN -a ELSE a, {})
    BY ReducedGives
  <2>3. -Value(z) = IF ~neg THEN -a ELSE a
    BY <2>1, HeldIs
  <2> QED
    BY <1>2, <2>1, <2>2, <2>3 DEF Opposite
<1> QED
  BY <1>1, <1>2

(* ml_z_abs gives the magnitude: the argument itself when it is an integer *)
(* that is not negative, a reduced number otherwise, the least integer     *)
(* included.                                                               *)
THEOREM AbsoluteExact ==
  ASSUME NEW z, Held(z)
  PROVE  Gives(Absolute(z), Magnitude(Value(z)), {z})
<1>1. CASE IsLong(z) /\ z.n >= 0
  <2>1. Value(z) \in Int /\ Value(z) >= 0
    BY <1>1, HeldIs
  <2>2. Magnitude(Value(z)) = Value(z)
    BY <2>1 DEF Magnitude
  <2>3. Absolute(z) = z
    BY <1>1 DEF Absolute
  <2> QED
    BY <2>2, <2>3 DEF Gives
<1>2. CASE ~(IsLong(z) /\ z.n >= 0) /\ IsLong(z) /\ z.n > MinInt
  <2>1. FitsInt(-z.n) /\ -z.n \in Int /\ -z.n = Magnitude(Value(z))
    BY <1>2, HeldIs, HeldRange DEF MinInt, Magnitude
  <2> QED
    BY <1>2, <2>1, BoxedGives DEF Absolute
<1>3. CASE ~(IsLong(z) /\ z.n >= 0) /\ ~(IsLong(z) /\ z.n > MinInt)
  <2>1. Gives(Reduce(FALSE, AbsOf(z)), AbsOf(z), {z})
    BY HeldIs, ReducedGives
  <2> QED
    BY <1>3, <2>1, HeldIs DEF Absolute
<1> QED
  BY <1>1, <1>2, <1>3

(* On limbs, with the sign of the second number changed or not: the signs  *)
(* decide between a sum and a difference of the magnitudes.                *)
LEMMA AddSubExact ==
  ASSUME NEW x, Held(x), NEW y, Held(y), NEW negate \in BOOLEAN
  PROVE  Gives(AddSub(x, y, negate), IF negate THEN Value(x) - Value(y) ELSE Value(x) + Value(y),
               {x, y})
<1>1. PICK a1 \in Nat, a2 \in Nat, s1 \in BOOLEAN, s \in BOOLEAN :
        a1 = AbsOf(x) /\ a2 = AbsOf(y) /\ s1 = NegOf(x) /\ s = NegOf(y)
  BY HeldIs
<1>2. PICK s2 \in BOOLEAN : s2 = (s # negate)
  OBVIOUS
<1>3. Value(x) = (IF s1 THEN -a1 ELSE a1) /\ Value(y) = (IF s THEN -a2 ELSE a2)
  BY <1>1, HeldIs
<1> DEFINE v == IF negate THEN Value(x) - Value(y) ELSE Value(x) + Value(y)
<1>4. v = (IF s1 THEN -a1 ELSE a1) + (IF s2 THEN -a2 ELSE a2)
  <2>1. PICK m \in Int, n \in Int : m = Value(x) /\ n = Value(y)
    BY HeldIs
  <2>2. m = (IF s1 THEN -a1 ELSE a1) /\ n = (IF s THEN -a2 ELSE a2)
    BY <1>3, <2>1
  <2>3. v = IF negate THEN m - n ELSE m + n
    BY <2>1
  <2> HIDE DEF v
  <2>4. CASE negate /\ s
    <3>1. ~s2
      BY <1>2, <2>4
    <3>2. v = m + a2
      BY <2>2, <2>3, <2>4
    <3> QED
      BY <2>2, <3>1, <3>2
  <2>5. CASE negate /\ ~s
    <3>1. s2
      BY <1>2, <2>5
    <3>2. v = m + (-a2)
      BY <2>2, <2>3, <2>5
    <3> QED
      BY <2>2, <3>1, <3>2
  <2>6. CASE ~negate /\ s
    <3>1. s2
      BY <1>2, <2>6
    <3>2. v = m + (-a2)
      BY <2>2, <2>3, <2>6
    <3> QED
      BY <2>2, <3>1, <3>2
  <2>7. CASE ~negate /\ ~s
    <3>1. ~s2
      BY <1>2, <2>7
    <3>2. v = m + a2
      BY <2>2, <2>3, <2>7
    <3> QED
      BY <2>2, <3>1, <3>2
  <2> QED
    BY <2>4, <2>5, <2>6, <2>7
<1>5. AddSub(x, y, negate) =
        IF a2 = 0 THEN x
        ELSE IF a1 = 0 THEN (IF negate THEN Reduce(s2, a2) ELSE y)
        ELSE IF s1 = s2 THEN Reduce(s1, a1 + a2)
        ELSE IF a1 >= a2 THEN Reduce(s1, a1 - a2)
        ELSE Reduce(s2, a2 - a1)
  BY <1>1, <1>2 DEF AddSub
<1> HIDE DEF v
<1>6. CASE a2 = 0
  BY <1>3, <1>4, <1>5, <1>6 DEF Gives
<1>7. CASE a2 # 0 /\ a1 = 0 /\ negate
  <2>1. Gives(Reduce(s2, a2), IF s2 THEN -a2 ELSE a2, {x, y})
    BY ReducedGives
  <2>2. v = IF s2 THEN -a2 ELSE a2
    BY <1>4, <1>7
  <2> QED
    BY <1>5, <1>7, <2>1, <2>2 DEF v
<1>8. CASE a2 # 0 /\ a1 = 0 /\ ~negate
  <2>1. v = Value(y)
    BY <1>2, <1>3, <1>4, <1>8
  <2> QED
    BY <1>5, <1>8, <2>1 DEF Gives, v
<1>9. CASE a2 # 0 /\ a1 # 0 /\ s1 = s2
  <2>1. PICK a \in Nat : a = a1 + a2
    OBVIOUS
  <2>2. Gives(Reduce(s1, a), IF s1 THEN -a ELSE a, {x, y})
    BY ReducedGives
  <2>3. v = IF s1 THEN -a ELSE a
    BY <1>4, <1>9, <2>1
  <2> QED
    BY <1>5, <1>9, <2>1, <2>2, <2>3 DEF v
<1>10. CASE a2 # 0 /\ a1 # 0 /\ s1 # s2 /\ a1 >= a2
  <2>1. PICK a \in Nat : a = a1 - a2
    BY <1>10
  <2>2. Gives(Reduce(s1, a), IF s1 THEN -a ELSE a, {x, y})
    BY ReducedGives
  <2>3. v = IF s1 THEN -a ELSE a
    BY <1>4, <1>10, <2>1
  <2> QED
    BY <1>5, <1>10, <2>1, <2>2, <2>3 DEF v
<1>11. CASE a2 # 0 /\ a1 # 0 /\ s1 # s2 /\ ~(a1 >= a2)
  <2>1. PICK a \in Nat : a = a2 - a1
    BY <1>11
  <2>2. Gives(Reduce(s2, a), IF s2 THEN -a ELSE a, {x, y})
    BY ReducedGives
  <2>3. v = IF s2 THEN -a ELSE a
    BY <1>4, <1>11, <2>1
  <2> QED
    BY <1>5, <1>11, <2>1, <2>2, <2>3 DEF v
<1> QED
  BY <1>6, <1>7, <1>8, <1>9, <1>10, <1>11 DEF v

(* ml_z_add gives the sum, whatever the two arguments are held in: the sum *)
(* of two integers does not wrap in an intnat, so the test of whether it   *)
(* fits an OCaml integer is a test of the sum itself. The result is        *)
(* reduced or is one of the arguments.                                     *)
THEOREM AddExact ==
  ASSUME NEW x, Held(x), NEW y, Held(y)
  PROVE  Gives(Add(x, y), Value(x) + Value(y), {x, y})
<1>1. CASE BothLong(x, y)
  <2>1. PICK m \in Int, n \in Int :
          /\ m = x.n /\ n = y.n /\ m = Value(x) /\ n = Value(y)
          /\ FitsInt(m) /\ FitsInt(n)
    BY <1>1, HeldIs DEF BothLong
  <2>2. Wrap(m + n) = m + n /\ m + n \in Int
    <3>1. -2 * Quarter <= m + n /\ m + n < 2 * Quarter
      BY <2>1, HeldRange
    <3> QED
      BY <3>1, WrapIs
  <2>3. CASE FitsInt(m + n)
    BY <1>1, <2>1, <2>2, <2>3, BoxedGives DEF Add
  <2>4. CASE ~FitsInt(m + n)
    BY <1>1, <2>1, <2>2, <2>4, AddSubExact DEF Add
  <2> QED
    BY <2>3, <2>4
<1>2. CASE ~BothLong(x, y)
  BY <1>2, AddSubExact DEF Add
<1> QED
  BY <1>1, <1>2

(* ml_z_sub gives the difference, as ml_z_add gives the sum; 0 - y         *)
(* included, where the limbs of y are copied with the other sign.          *)
THEOREM SubExact ==
  ASSUME NEW x, Held(x), NEW y, Held(y)
  PROVE  Gives(Sub(x, y), Value(x) - Value(y), {x, y})
<1>1. CASE BothLong(x, y)
  <2>1. PICK m \in Int, n \in Int :
          /\ m = x.n /\ n = y.n /\ m = Value(x) /\ n = Value(y)
          /\ FitsInt(m) /\ FitsInt(n)
    BY <1>1, HeldIs DEF BothLong
  <2>2. Wrap(m - n) = m - n /\ m - n \in Int
    <3>1. -2 * Quarter <= m - n /\ m - n < 2 * Quarter
      BY <2>1, HeldRange
    <3> QED
      BY <3>1, WrapIs
  <2>3. CASE FitsInt(m - n)
    BY <1>1, <2>1, <2>2, <2>3, BoxedGives DEF Sub
  <2>4. CASE ~FitsInt(m - n)
    BY <1>1, <2>1, <2>2, <2>4, AddSubExact DEF Sub
  <2> QED
    BY <2>3, <2>4
<1>2. CASE ~BothLong(x, y)
  BY <1>2, AddSubExact DEF Sub
<1> QED
  BY <1>1, <1>2

-----------------------------------------------------------------------------
(* Products.                                                               *)

(* Multiplying by a number that is not negative keeps an order.            *)
LEMMA TimesMonotone ==
  ASSUME NEW a \in Nat, NEW b \in Nat, NEW c \in Nat, a <= b
  PROVE  c * a <= c * b
<1>1. PICK d \in Nat : b = a + d
  BY b - a \in Nat
<1>2. c * d \in Nat /\ c * b = c * a + c * d /\ c * a \in Nat
  BY <1>1
<1> QED
  BY <1>2

(* The product of two numbers of magnitude at most h is at most h * h.     *)
LEMMA ProductBound ==
  ASSUME NEW a \in Nat, NEW b \in Nat, NEW h \in Nat, a <= h, b <= h
  PROVE  a * b \in Nat /\ a * b <= h * h
<1>1. a * b <= a * h
  BY TimesMonotone
<1>2. h * a <= h * h
  BY TimesMonotone
<1>3. a * h = h * a /\ a * b \in Nat /\ h * a \in Nat /\ h * h \in Nat
  OBVIOUS
<1> QED
  BY <1>1, <1>2, <1>3

(* A product by signs and magnitudes.                                      *)
LEMMA ProductOfSigns ==
  ASSUME NEW a \in Nat, NEW b \in Nat, NEW s \in BOOLEAN, NEW t \in BOOLEAN
  PROVE  (IF s THEN -a ELSE a) * (IF t THEN -b ELSE b)
           = IF s # t THEN -(a * b) ELSE a * b
<1>1. (-a) * b = -(a * b) /\ a * (-b) = -(a * b) /\ (-a) * (-b) = a * b
  OBVIOUS
<1>2. CASE s
  BY <1>1, <1>2
<1>3. CASE ~s
  BY <1>1, <1>3
<1> QED
  BY <1>2, <1>3

(* Integers whose words are small are smaller still.                       *)
LEMMA HintIs ==
  ASSUME NEW n \in Int, FitsInt(n), FitsHint(Tagged(n))
  PROVE  Magnitude(n) \in Nat /\ Magnitude(n) <= MaxHint + 1
<1>1. PICK q \in Nat : q = Quarter /\ -q <= n /\ n < q
  BY HeldRange
<1>2. Tagged(n) = 2 * n + 1
  BY <1>1, WrapIs DEF Tagged
<1>3. PICK h \in Nat : h = MaxHint
  BY HintAssumption
<1>4. -h <= 2 * n + 1 /\ 2 * n + 1 <= h
  BY <1>2, <1>3 DEF FitsHint
<1>5. n <= h + 1 /\ -n <= h + 1
  BY <1>4
<1> QED
  BY <1>3, <1>5 DEF Magnitude

(* ml_z_mul gives the product, reduced. Its fast path tests the tagged     *)
(* words and then multiplies without a test: with both within Z_MAX_HINT   *)
(* the product neither wraps nor leaves the range of OCaml integers.       *)
THEOREM MulExact ==
  ASSUME NEW x, Held(x), NEW y, Held(y)
  PROVE  Gives(Mul(x, y), Value(x) * Value(y), {})
<1>1. PICK a \in Nat, b \in Nat, s \in BOOLEAN, t \in BOOLEAN :
        a = AbsOf(x) /\ b = AbsOf(y) /\ s = NegOf(x) /\ t = NegOf(y)
  BY HeldIs
<1>2. PICK p \in Nat : p = a * b
  OBVIOUS
<1>3. Value(x) * Value(y) = IF s # t THEN -p ELSE p
  <2>1. Value(x) = (IF s THEN -a ELSE a) /\ Value(y) = (IF t THEN -b ELSE b)
    BY <1>1, HeldIs
  <2> QED
    BY <1>2, <2>1, ProductOfSigns
<1>4. CASE BothLong(x, y) /\ FitsHint(Tagged(x.n)) /\ FitsHint(Tagged(y.n))
  <2>1. PICK m \in Int, n \in Int :
          /\ m = x.n /\ n = y.n /\ m = Value(x) /\ n = Value(y)
          /\ FitsInt(m) /\ FitsInt(n)
    BY <1>4, HeldIs DEF BothLong
  <2>2. PICK h \in Nat : h = MaxHint + 1 /\ 4 * (h * h) = Quarter
    BY HintAssumption
  <2>3. a = Magnitude(m) /\ b = Magnitude(n)
    BY <1>1, <2>1, HeldIs
  <2>4. a <= h /\ b <= h
    BY <1>4, <2>1, <2>2, <2>3, HintIs
  <2>5. p <= h * h
    BY <1>2, <2>4, ProductBound
  <2>6. h * h \in Nat /\ h * h < Quarter
    <3>1. PICK k \in Nat : k = h * h
      OBVIOUS
    <3> QED
      BY <2>2, <3>1, HeldRange
  <2>7. m * n = (IF s # t THEN -p ELSE p) /\ m * n \in Int
    BY <1>3, <2>1
  <2>8. FitsInt(m * n) /\ -2 * Quarter <= m * n /\ m * n < 2 * Quarter
    <3>1. PICK k \in Nat, v \in Int : k = h * h /\ v = m * n
      OBVIOUS
    <3>2. -k <= v /\ v <= k
      BY <2>5, <2>7, <3>1
    <3> QED
      BY <2>6, <3>1, <3>2, HeldRange
  <2>9. Mul(x, y) = Long(Wrap(m * n))
    BY <1>4, <2>1 DEF Mul
  <2> QED
    BY <2>1, <2>7, <2>8, <2>9, WrapIs, BoxedGives
<1>5. CASE ~(BothLong(x, y) /\ FitsHint(Tagged(x.n)) /\ FitsHint(Tagged(y.n)))
  <2>1. Mul(x, y) = Reduce(s # t, p)
    BY <1>1, <1>2, <1>5 DEF Mul
  <2>2. PICK neg \in BOOLEAN : neg = (s # t)
    OBVIOUS
  <2>3. Gives(Reduce(neg, p), IF neg THEN -p ELSE p, {})
    BY ReducedGives
  <2> QED
    BY <1>3, <2>1, <2>2, <2>3
<1> QED
  BY <1>4, <1>5

-----------------------------------------------------------------------------
(* One more and one less.                                                  *)

(* ml_z_succ and ml_z_pred on limbs: through zero the sign changes.        *)
LEMMA SuccPredExact ==
  ASSUME NEW z, Held(z), NEW neg \in BOOLEAN
  PROVE  Gives(SuccPred(z, neg), IF neg THEN Value(z) - 1 ELSE Value(z) + 1, {})
<1>1. PICK a \in Nat, s \in BOOLEAN : a = AbsOf(z) /\ s = NegOf(z)
  BY HeldIs
<1>2. PICK v \in Int : v = Value(z) /\ v = IF s THEN -a ELSE a
  BY <1>1, HeldIs
<1>3. CASE a = 0
  <2>1. SuccPred(z, neg) = Reduce(neg, 1)
    BY <1>1, <1>3 DEF SuccPred
  <2>2. Gives(Reduce(neg, 1), IF neg THEN -1 ELSE 1, {})
    BY ReducedGives
  <2>3. (IF neg THEN v - 1 ELSE v + 1) = IF neg THEN -1 ELSE 1
    BY <1>2, <1>3
  <2> QED
    BY <1>2, <2>1, <2>2, <2>3
<1>4. CASE a # 0 /\ s = neg
  <2>1. PICK k \in Nat : k = a + 1
    OBVIOUS
  <2>2. SuccPred(z, neg) = Reduce(neg, k)
    BY <1>1, <1>4, <2>1 DEF SuccPred
  <2>3. Gives(Reduce(neg, k), IF neg THEN -k ELSE k, {})
    BY ReducedGives
  <2>4. (IF neg THEN v - 1 ELSE v + 1) = IF neg THEN -k ELSE k
    BY <1>2, <1>4, <2>1
  <2> QED
    BY <1>2, <2>2, <2>3, <2>4
<1>5. CASE a # 0 /\ s # neg
  <2>1. PICK k \in Nat : k = a - 1
    BY <1>5
  <2>2. SuccPred(z, neg) = Reduce(s, k)
    BY <1>1, <1>5, <2>1 DEF SuccPred
  <2>3. Gives(Reduce(s, k), IF s THEN -k ELSE k, {})
    BY ReducedGives
  <2>4. (IF neg THEN v - 1 ELSE v + 1) = IF s THEN -k ELSE k
    BY <1>2, <1>5, <2>1
  <2> QED
    BY <1>2, <2>2, <2>3, <2>4
<1> QED
  BY <1>3, <1>4, <1>5

(* ml_z_succ gives the next number, reduced. The greatest integer has none *)
(* among the integers: the guard leaves it to the limbs.                   *)
THEOREM SuccExact ==
  ASSUME NEW z, Held(z)
  PROVE  Gives(Succ(z), Value(z) + 1, {})
<1>1. CASE IsLong(z) /\ z.n < MaxInt
  <2>1. FitsInt(z.n + 1) /\ z.n + 1 \in Int /\ z.n + 1 = Value(z) + 1
    BY <1>1, HeldIs, HeldRange DEF MaxInt
  <2> QED
    BY <1>1, <2>1, BoxedGives DEF Succ
<1>2. CASE ~(IsLong(z) /\ z.n < MaxInt)
  BY <1>2, SuccPredExact DEF Succ
<1> QED
  BY <1>1, <1>2

(* ml_z_pred gives the number before, reduced; the least integer is left   *)
(* to the limbs.                                                           *)
THEOREM PredExact ==
  ASSUME NEW z, Held(z)
  PROVE  Gives(Pred(z), Value(z) - 1, {})
<1>1. CASE IsLong(z) /\ z.n > MinInt
  <2>1. FitsInt(z.n - 1) /\ z.n - 1 \in Int /\ z.n - 1 = Value(z) - 1
    BY <1>1, HeldIs, HeldRange DEF MinInt
  <2> QED
    BY <1>1, <2>1, BoxedGives DEF Pred
<1>2. CASE ~(IsLong(z) /\ z.n > MinInt)
  BY <1>2, SuccPredExact DEF Pred
<1> QED
  BY <1>1, <1>2

-----------------------------------------------------------------------------
(* Comparisons: mixed representations of the same number included.         *)

(* ml_z_compare is the order of the numbers, an integer and a block        *)
(* compared by sign and magnitude included.                                *)
THEOREM CompareExact ==
  ASSUME NEW x, Held(x), NEW y, Held(y)
  PROVE  Compare(x, y) = IF Value(x) > Value(y) THEN 1
                         ELSE IF Value(x) < Value(y) THEN -1 ELSE 0
<1>1. CASE IsLong(x) /\ IsLong(y)
  BY <1>1, HeldIs DEF Compare
<1>2. CASE ~(IsLong(x) /\ IsLong(y))
  <2>1. PICK a \in Nat, b \in Nat, s \in BOOLEAN, t \in BOOLEAN :
          /\ a = AbsOf(x) /\ b = AbsOf(y) /\ s = NegOf(x) /\ t = NegOf(y)
          /\ s <=> Value(x) < 0
          /\ t <=> Value(y) < 0
    BY HeldIs
  <2>2. PICK m \in Int, n \in Int :
          /\ m = Value(x) /\ n = Value(y)
          /\ m = (IF s THEN -a ELSE a) /\ n = (IF t THEN -b ELSE b)
    BY <2>1, HeldIs
  <2>3. Compare(x, y) = LET r == IF s # t \/ a > b THEN 1 ELSE IF a < b THEN -1 ELSE 0
                        IN  IF s THEN -r ELSE r
    BY <1>2, <2>1 DEF Compare
  <2>4. /\ s <=> m < 0
        /\ t <=> n < 0
    BY <2>1, <2>2
  <2>5. CASE s /\ t
    <3>1. Compare(x, y) = IF a > b THEN -1 ELSE IF a < b THEN 1 ELSE 0
      BY <2>3, <2>5
    <3> QED
      BY <2>2, <2>4, <2>5, <3>1
  <2>6. CASE s /\ ~t
    <3>1. Compare(x, y) = -1
      BY <2>3, <2>6
    <3> QED
      BY <2>2, <2>4, <2>6, <3>1
  <2>7. CASE ~s /\ t
    <3>1. Compare(x, y) = 1
      BY <2>3, <2>7
    <3> QED
      BY <2>2, <2>4, <2>7, <3>1
  <2>8. CASE ~s /\ ~t
    <3>1. Compare(x, y) = IF a > b THEN 1 ELSE IF a < b THEN -1 ELSE 0
      BY <2>3, <2>8
    <3> QED
      BY <2>2, <2>4, <2>8, <3>1
  <2> QED
    BY <2>5, <2>6, <2>7, <2>8
<1> QED
  BY <1>1, <1>2

(* ml_z_equal is the equality of the numbers, even of the same number held *)
(* in two ways.                                                            *)
THEOREM EqualExact ==
  ASSUME NEW x, Held(x), NEW y, Held(y)
  PROVE  Equal(x, y) <=> Value(x) = Value(y)
<1>1. CASE IsLong(x) /\ IsLong(y)
  BY <1>1, HeldIs DEF Equal
<1>2. CASE ~(IsLong(x) /\ IsLong(y))
  <2>1. Equal(x, y) <=> NegOf(x) = NegOf(y) /\ AbsOf(x) = AbsOf(y)
    BY <1>2 DEF Equal
  <2>2. ASSUME Value(x) = Value(y)
        PROVE  NegOf(x) = NegOf(y) /\ AbsOf(x) = AbsOf(y)
    <3>1. /\ NegOf(x) <=> Value(x) < 0
          /\ NegOf(y) <=> Value(y) < 0
          /\ NegOf(x) \in BOOLEAN /\ NegOf(y) \in BOOLEAN
          /\ AbsOf(x) = Magnitude(Value(x)) /\ AbsOf(y) = Magnitude(Value(y))
      BY HeldIs
    <3>2. AbsOf(x) = AbsOf(y)
      BY <2>2, <3>1
    <3>3. NegOf(x) <=> NegOf(y)
      BY <2>2, <3>1
    <3> QED
      BY <3>1, <3>2, <3>3
  <2>3. ASSUME NegOf(x) = NegOf(y), AbsOf(x) = AbsOf(y)
        PROVE  Value(x) = Value(y)
    BY <2>3, HeldIs
  <2> QED
    BY <2>1, <2>2, <2>3
<1> QED
  BY <1>1, <1>2

-----------------------------------------------------------------------------
(* Quotients of OCaml integers.                                            *)

(* Magnitudes.                                                             *)
LEMMA MagnitudeIs ==
  ASSUME NEW n \in Int
  PROVE  /\ Magnitude(n) \in Nat /\ (n # 0 => Magnitude(n) > 0)
         /\ n < 0 => n = -Magnitude(n)
         /\ n >= 0 => n = Magnitude(n)
BY DEF Magnitude

(* A division of C: the quotient of the magnitudes, with its sign.         *)
LEMMA TruncDivIs ==
  ASSUME NEW a \in Int, NEW b \in Int, b # 0
  PROVE  \E k \in Nat, r \in Nat :
           /\ Magnitude(a) = Magnitude(b) * k + r /\ r < Magnitude(b)
           /\ TruncDiv(a, b) = IF (a < 0) = (b < 0) THEN k ELSE -k
<1>1. PICK m \in Nat, n \in Nat : m = Magnitude(a) /\ n = Magnitude(b) /\ n > 0
  BY MagnitudeIs
<1>2. PICK k \in Int, r \in Int : k = m \div n /\ m = n * k + r /\ 0 <= r /\ r < n
  <2>1. /\ m \div n \in Int /\ m % n \in Int
        /\ m = n * (m \div n) + (m % n)
        /\ 0 <= m % n /\ m % n < n
    <3>1. m \in Int /\ n \in Nat /\ n > 0
      BY <1>1
    <3> QED
      BY <3>1, Euclidean
  <2> QED
    BY <2>1
<1>3. k >= 0
  <2>1. SUFFICES ASSUME k < 0
                 PROVE  FALSE
    OBVIOUS
  <2>2. PICK j \in Nat : j = -1 - k
    BY <2>1
  <2>3. n * k = -n - n * j /\ n * j \in Nat
    BY <2>2
  <2> QED
    BY <1>2, <2>3
<1> QED
  BY <1>1, <1>2, <1>3 DEF TruncDiv

(* When the dividend is m, or m with less than the divisor added to round  *)
(* away from zero, neither the dividend nor the quotient overflows; the    *)
(* exception is the opposite of the least integer.                         *)
LEMMA QuotientFits ==
  ASSUME NEW v \in Int, NEW m \in Int, NEW n \in Int, FitsInt(m), FitsInt(n), n # 0,
         ~(m = MinInt /\ n = -1),
         Magnitude(v) <= Magnitude(m) + Magnitude(n) - 1,
         (n = 1 \/ n = -1) => v = m
  PROVE  Wrap(v) = v /\ TruncDiv(v, n) \in Int /\ FitsInt(TruncDiv(v, n))
<1>1. PICK q \in Nat : q = Quarter /\ q > 0 /\ -q <= m /\ m < q /\ -q <= n /\ n < q
  BY HeldRange
<1>2. PICK k \in Nat, r \in Nat :
        /\ Magnitude(v) = Magnitude(n) * k + r /\ r < Magnitude(n)
        /\ TruncDiv(v, n) = IF (v < 0) = (n < 0) THEN k ELSE -k
  BY TruncDivIs
<1>3. PICK a \in Nat, b \in Nat, c \in Nat :
        /\ a = Magnitude(m) /\ b = Magnitude(n) /\ c = Magnitude(v)
        /\ a <= q /\ b <= q /\ b > 0
  BY <1>1, MagnitudeIs
<1>4. Wrap(v) = v
  <2>1. -2 * q < v /\ v < 2 * q
    BY <1>3, MagnitudeIs
  <2> QED
    BY <1>1, <2>1, WrapIs
<1>5. TruncDiv(v, n) \in Int
  BY <1>2
<1>6. CASE b >= 2
  <2>1. c = b * k + r /\ c <= a + b - 1
    BY <1>2, <1>3
  <2>2. k = 0 \/ 2 * (k - 1) <= q - 1
    <3>1. SUFFICES ASSUME k >= 1
                   PROVE  2 * (k - 1) <= q - 1
      OBVIOUS
    <3>2. PICK j \in Nat : j = k - 1
      BY <3>1
    <3>3. b * k = j * b + b /\ j * 2 <= j * b
      BY <1>6, <3>2, TimesMonotone
    <3>4. PICK p \in Nat : p = j * b
      OBVIOUS
    <3> QED
      BY <1>3, <2>1, <3>2, <3>3, <3>4
  <2>3. k <= q - 1
    BY <1>3, <1>6, <2>2
  <2> QED
    BY <1>1, <1>2, <1>4, <1>5, <2>3, HeldRange
<1>7. CASE b = 1
  <2>1. v = m /\ c = a /\ (n = 1 \/ n = -1)
    <3>1. n = 1 \/ n = -1
      BY <1>3, <1>7 DEF Magnitude
    <3> QED
      BY <1>3, <3>1
  <2>2. k = a
    BY <1>2, <1>3, <1>7, <2>1
  <2>3. TruncDiv(v, n) = IF n = 1 THEN m ELSE -m
    <3>1. CASE n = 1
      BY <1>2, <1>3, <2>1, <2>2, <3>1, MagnitudeIs
    <3>2. CASE n = -1
      BY <1>2, <1>3, <2>1, <2>2, <3>2, MagnitudeIs
    <3> QED
      BY <2>1, <3>1, <3>2
  <2>4. n = -1 => m # -q
    BY <1>1 DEF MinInt
  <2> QED
    BY <1>1, <1>4, <2>1, <2>3, <2>4, HeldRange
<1> QED
  BY <1>3, <1>4, <1>5, <1>6, <1>7

(* Two OCaml integers, and the one division that does not stay among them. *)
Integers2(x, y) ==
  /\ Held(x) /\ Held(y) /\ BothLong(x, y)
  /\ Value(y) # 0 /\ ~(Value(x) = MinInt /\ Value(y) = -1)

LEMMA Integers2Are ==
  ASSUME NEW x, NEW y, Integers2(x, y)
  PROVE  /\ x.n \in Int /\ y.n \in Int /\ x.n = Value(x) /\ y.n = Value(y)
         /\ FitsInt(x.n) /\ FitsInt(y.n) /\ BothLong(x, y) /\ AbsOf(y) # 0
         /\ y.n # 0 /\ ~(x.n = MinInt /\ y.n = -1)
<1>1. /\ x.n \in Int /\ y.n \in Int /\ x.n = Value(x) /\ y.n = Value(y)
      /\ FitsInt(x.n) /\ FitsInt(y.n) /\ BothLong(x, y)
  BY HeldIs DEF Integers2, BothLong
<1>2. AbsOf(y) = Magnitude(Value(y))
  BY HeldIs DEF Integers2
<1> QED
  BY <1>1, <1>2, MagnitudeIs DEF Integers2

(* What a division of C leaves has the sign of the dividend.               *)
LEMMA TruncLeaves ==
  ASSUME NEW a \in Int, NEW b \in Int, b # 0
  PROVE  /\ TruncDiv(a, b) \in Int
         /\ \E s \in Nat : /\ s < Magnitude(b)
                           /\ b * TruncDiv(a, b) = IF a < 0 THEN a + s ELSE a - s
<1>1. PICK k \in Nat, s \in Nat, n \in Nat, q \in Int, p \in Nat :
        /\ n = Magnitude(b) /\ Magnitude(a) = n * k + s /\ s < n
        /\ q = TruncDiv(a, b) /\ q = (IF (a < 0) = (b < 0) THEN k ELSE -k)
        /\ p = n * k
  <2>1. PICK k \in Nat, s \in Nat :
          /\ Magnitude(a) = Magnitude(b) * k + s /\ s < Magnitude(b)
          /\ TruncDiv(a, b) = IF (a < 0) = (b < 0) THEN k ELSE -k
    BY TruncDivIs
  <2>2. Magnitude(b) \in Nat /\ Magnitude(b) * k \in Nat /\ TruncDiv(a, b) \in Int
    BY <2>1, MagnitudeIs
  <2> QED
    BY <2>1, <2>2
<1>2. b * q = IF a < 0 THEN -p ELSE p
  <2>1. CASE b < 0
    <3>1. b = -n
      BY <1>1, <2>1, MagnitudeIs
    <3>2. (-n) * k = -(n * k) /\ (-n) * (-k) = n * k
      OBVIOUS
    <3> QED
      BY <1>1, <2>1, <3>1, <3>2
  <2>2. CASE ~(b < 0)
    <3>1. b = n
      BY <1>1, <2>2, MagnitudeIs
    <3>2. n * (-k) = -(n * k)
      OBVIOUS
    <3> QED
      BY <1>1, <2>2, <3>1, <3>2
  <2> QED
    BY <2>1, <2>2
<1>3. p = (IF a < 0 THEN -a ELSE a) - s
  BY <1>1 DEF Magnitude
<1>4. b * q = IF a < 0 THEN a + s ELSE a - s
  BY <1>2, <1>3
<1> QED
  BY <1>1, <1>4

(* ml_z_div on integers, and what it leaves, which ml_z_rem gives: less    *)
(* than the divisor, with the sign of the dividend.                        *)
THEOREM DivOfIntegers ==
  ASSUME NEW x, NEW y, Integers2(x, y)
  PROVE  \E q \in Int :
           LET r == Value(x) - Value(y) * q
           IN  /\ Gives(Div(x, y), q, {}) /\ Gives(Rem(x, y), r, {})
               /\ Magnitude(r) < Magnitude(Value(y))
               /\ r # 0 => (r < 0) = (Value(x) < 0)
<1>1. PICK m \in Int, n \in Int :
        /\ m = x.n /\ n = y.n /\ m = Value(x) /\ n = Value(y) /\ FitsInt(m) /\ FitsInt(n)
        /\ BothLong(x, y) /\ AbsOf(y) # 0 /\ n # 0 /\ ~(m = MinInt /\ n = -1)
  BY Integers2Are
<1>2. PICK q \in Int : q = TruncDiv(m, n) /\ FitsInt(q)
  <2>1. Magnitude(m) <= Magnitude(m) + Magnitude(n) - 1
    BY <1>1, MagnitudeIs
  <2> QED
    BY <1>1, <2>1, QuotientFits
<1>3. Div(x, y) = Long(q)
  BY <1>1, <1>2 DEF Div
<1>4. PICK s \in Nat : s < Magnitude(n) /\ n * q = IF m < 0 THEN m + s ELSE m - s
  BY <1>1, <1>2, TruncLeaves
<1>5. PICK r \in Int : r = m - n * q
  OBVIOUS
<1>6. r = IF m < 0 THEN -s ELSE s
  BY <1>4, <1>5
<1>7. Magnitude(r) < Magnitude(n) /\ (r # 0 => (r < 0) = (m < 0))
  <2>1. Magnitude(r) = s
    BY <1>6 DEF Magnitude
  <2> QED
    BY <1>4, <1>6, <2>1
<1>8. FitsInt(r)
  <2>1. Magnitude(n) <= Quarter
    BY <1>1, HeldRange DEF Magnitude
  <2>2. s <= Quarter - 1
    BY <1>4, <2>1, HeldRange, MagnitudeIs
  <2> QED
    BY <1>6, <2>2, HeldRange
<1>9. Rem(x, y) = Long(r)
  BY <1>1, <1>2, <1>5 DEF Rem, TruncRem
<1> QED
  BY <1>1, <1>2, <1>3, <1>5, <1>7, <1>8, <1>9, BoxedGives

(* ml_z_fdiv on integers: truncating a dividend moved down rounds towards  *)
(* minus infinity, what is left having the sign of the divisor; the move   *)
(* does not overflow an intnat.                                            *)
THEOREM FDivOfIntegers ==
  ASSUME NEW x, NEW y, Integers2(x, y)
  PROVE  \E q \in Int :
           LET r == Value(x) - Value(y) * q
           IN  /\ Gives(FDiv(x, y), q, {})
               /\ Magnitude(r) < Magnitude(Value(y))
               /\ r # 0 => (r < 0) = (Value(y) < 0)
<1>1. PICK m \in Int, n \in Int :
        /\ m = x.n /\ n = y.n /\ m = Value(x) /\ n = Value(y) /\ FitsInt(m) /\ FitsInt(n)
        /\ BothLong(x, y) /\ AbsOf(y) # 0 /\ n # 0 /\ ~(m = MinInt /\ n = -1)
  BY Integers2Are
<1> DEFINE moved == IF m < 0 /\ n > 0 THEN m - (n - 1)
                    ELSE IF m > 0 /\ n < 0 THEN m - (n + 1) ELSE m
<1>2. PICK v \in Int : v = moved
  <2>1. moved \in Int
    OBVIOUS
  <2> QED
    BY <2>1
<1>3. PICK q \in Int : q = TruncDiv(v, n) /\ FitsInt(q) /\ Wrap(v) = v
  <2>1. Magnitude(v) <= Magnitude(m) + Magnitude(n) - 1
    BY <1>1, <1>2 DEF Magnitude
  <2>2. (n = 1 \/ n = -1) => v = m
    BY <1>2
  <2> QED
    BY <1>1, <2>1, <2>2, QuotientFits
<1>4. FDiv(x, y) = Long(q)
  BY <1>1, <1>2, <1>3 DEF FDiv
<1>5. PICK s \in Nat, p \in Int :
        s < Magnitude(n) /\ p = n * q /\ p = IF v < 0 THEN v + s ELSE v - s
  <2>1. PICK s \in Nat : s < Magnitude(n) /\ n * q = IF v < 0 THEN v + s ELSE v - s
    BY <1>1, <1>3, TruncLeaves
  <2>2. n * q \in Int
    OBVIOUS
  <2> QED
    BY <2>1, <2>2
<1>6. PICK r \in Int : r = m - p /\ r = m - n * q
  BY <1>5
<1>7. Magnitude(r) < Magnitude(n) /\ (r # 0 => (r < 0) = (n < 0))
  <2>1. CASE m < 0 /\ n > 0
    BY <1>1, <1>2, <1>5, <1>6, <2>1 DEF Magnitude
  <2>2. CASE m > 0 /\ n < 0
    BY <1>1, <1>2, <1>5, <1>6, <2>2 DEF Magnitude
  <2>3. CASE m >= 0 /\ n > 0
    BY <1>1, <1>2, <1>5, <1>6, <2>3 DEF Magnitude
  <2>4. CASE m <= 0 /\ n < 0
    BY <1>1, <1>2, <1>5, <1>6, <2>4 DEF Magnitude
  <2> QED
    BY <1>1, <2>1, <2>2, <2>3, <2>4
<1> QED
  BY <1>1, <1>3, <1>4, <1>6, <1>7, BoxedGives

(* ml_z_cdiv on integers rounds towards plus infinity: what is left does   *)
(* not have the sign of the divisor.                                       *)
THEOREM CDivOfIntegers ==
  ASSUME NEW x, NEW y, Integers2(x, y)
  PROVE  \E q \in Int :
           LET r == Value(x) - Value(y) * q
           IN  /\ Gives(CDiv(x, y), q, {})
               /\ Magnitude(r) < Magnitude(Value(y))
               /\ r # 0 => (r < 0) # (Value(y) < 0)
<1>1. PICK m \in Int, n \in Int :
        /\ m = x.n /\ n = y.n /\ m = Value(x) /\ n = Value(y) /\ FitsInt(m) /\ FitsInt(n)
        /\ BothLong(x, y) /\ AbsOf(y) # 0 /\ n # 0 /\ ~(m = MinInt /\ n = -1)
  BY Integers2Are
<1> DEFINE moved == IF m > 0 /\ n > 0 THEN m + n - 1
                    ELSE IF m < 0 /\ n < 0 THEN m + n + 1 ELSE m
<1>2. PICK v \in Int : v = moved
  <2>1. moved \in Int
    OBVIOUS
  <2> QED
    BY <2>1
<1>3. PICK q \in Int : q = TruncDiv(v, n) /\ FitsInt(q) /\ Wrap(v) = v
  <2>1. Magnitude(v) <= Magnitude(m) + Magnitude(n) - 1
    BY <1>1, <1>2 DEF Magnitude
  <2>2. (n = 1 \/ n = -1) => v = m
    BY <1>2
  <2> QED
    BY <1>1, <2>1, <2>2, QuotientFits
<1>4. CDiv(x, y) = Long(q)
  BY <1>1, <1>2, <1>3 DEF CDiv
<1>5. PICK s \in Nat, p \in Int :
        s < Magnitude(n) /\ p = n * q /\ p = IF v < 0 THEN v + s ELSE v - s
  <2>1. PICK s \in Nat : s < Magnitude(n) /\ n * q = IF v < 0 THEN v + s ELSE v - s
    BY <1>1, <1>3, TruncLeaves
  <2>2. n * q \in Int
    OBVIOUS
  <2> QED
    BY <2>1, <2>2
<1>6. PICK r \in Int : r = m - p /\ r = m - n * q
  BY <1>5
<1>7. Magnitude(r) < Magnitude(n) /\ (r # 0 => (r < 0) # (n < 0))
  <2>1. CASE m > 0 /\ n > 0
    BY <1>1, <1>2, <1>5, <1>6, <2>1 DEF Magnitude
  <2>2. CASE m < 0 /\ n < 0
    BY <1>1, <1>2, <1>5, <1>6, <2>2 DEF Magnitude
  <2>3. CASE m <= 0 /\ n > 0
    BY <1>1, <1>2, <1>5, <1>6, <2>3 DEF Magnitude
  <2>4. CASE m >= 0 /\ n < 0
    BY <1>1, <1>2, <1>5, <1>6, <2>4 DEF Magnitude
  <2> QED
    BY <1>1, <2>1, <2>2, <2>3, <2>4
<1> QED
  BY <1>1, <1>3, <1>4, <1>6, <1>7, BoxedGives

-----------------------------------------------------------------------------
(* Digits of num.                                                          *)

(* What the base is, for halves of any width.                              *)
LEMMA BaseIs ==
  /\ Half \in Nat /\ Half > 1
  /\ Base \in Nat /\ Base > 1 /\ Base >= 2 * Half
<1>1. PICK h \in Nat : h = Half /\ h > 1
  BY HalfAssumption
<1>2. PICK k \in Nat : h = k + 2
  <2>1. h - 2 \in Nat /\ h = (h - 2) + 2
    BY <1>1
  <2> QED
    BY <2>1
<1>3. h * h = h * k + 2 * h /\ h * k \in Nat
  BY <1>2
<1> QED
  BY <1>1, <1>3 DEF Base

(* A positive multiple of a number is at least that number.                *)
LEMMA MultipleAtLeast ==
  ASSUME NEW b \in Nat, NEW k \in Int, k >= 1
  PROVE  b * k \in Nat /\ b * k >= b
<1>1. PICK j \in Nat : k = j + 1
  BY k - 1 \in Nat
<1>2. b * k = b * j + b /\ b * j \in Nat
  BY <1>1
<1> QED
  BY <1>2

(* Quotient and remainder exist, and are the only ones.                    *)
LEMMA Quotient ==
  ASSUME NEW v \in Int, NEW b \in Nat, b > 0
  PROVE  /\ v \div b \in Int /\ v % b \in Int
         /\ v = b * (v \div b) + (v % b)
         /\ 0 <= v % b /\ v % b < b
OBVIOUS

(* A quotient and a remainder are the only ones.                           *)
LEMMA QuotientUnique ==
  ASSUME NEW b \in Nat, b > 0, NEW r \in Int, NEW q \in Int, 0 <= r, r < b,
         NEW v \in Int, v = b * q + r
  PROVE  v % b = r /\ v \div b = q
<1>1. PICK s \in Int, p \in Int : s = v % b /\ p = v \div b /\ v = b * p + s /\ 0 <= s /\ s < b
  BY Quotient
<1>2. CASE p = q
  BY <1>1, <1>2
<1>3. CASE p > q
  <2>1. PICK d \in Int : d = p - q /\ d >= 1
    BY <1>3
  <2>2. b * d >= b /\ b * d \in Nat
    BY <2>1, MultipleAtLeast
  <2>3. b * p = b * q + b * d
    BY <2>1
  <2> QED
    BY <1>1, <2>2, <2>3
<1>4. CASE p < q
  <2>1. PICK d \in Int : d = q - p /\ d >= 1
    BY <1>4
  <2>2. b * d >= b /\ b * d \in Nat
    BY <2>1, MultipleAtLeast
  <2>3. b * q = b * p + b * d
    BY <2>1
  <2> QED
    BY <1>1, <2>2, <2>3
<1> QED
  BY <1>2, <1>3, <1>4

(* A number is itself when it is a digit, and loses or gains the base when *)
(* it is just outside.                                                     *)
LEMMA CutIs ==
  ASSUME NEW v \in Int
  PROVE  /\ Cut(v) \in Digit /\ Cut(v) \in Nat /\ Cut(v) < Base
         /\ v \in Digit => Cut(v) = v
         /\ (Base <= v /\ v < 2 * Base) => Cut(v) = v - Base
         /\ (-Base <= v /\ v < 0) => Cut(v) = v + Base
<1>1. PICK b \in Nat : b = Base /\ b > 1
  BY BaseIs
<1>2. v % b \in Int /\ 0 <= v % b /\ v % b < b
  BY <1>1, Quotient
<1>3. ASSUME 0 <= v, v < b
      PROVE  v % b = v
  <2>1. v = b * 0 + v
    OBVIOUS
  <2> QED
    BY <1>1, <1>3, <2>1, QuotientUnique
<1>4. ASSUME b <= v, v < 2 * b
      PROVE  v % b = v - b
  <2>1. v = b * 1 + (v - b) /\ v - b \in Int /\ 0 <= v - b /\ v - b < b
    BY <1>4
  <2> QED
    BY <1>1, <2>1, QuotientUnique
<1>5. ASSUME -b <= v, v < 0
      PROVE  v % b = v + b
  <2>1. v = b * (-1) + (v + b) /\ v + b \in Int /\ 0 <= v + b /\ v + b < b
    BY <1>5
  <2> QED
    BY <1>1, <2>1, QuotientUnique
<1> QED
  BY <1>1, <1>2, <1>3, <1>4, <1>5 DEF Cut, Digit

(* A digit is a natural number below the base.                             *)
LEMMA DigitIs ==
  ASSUME NEW d
  PROVE  d \in Digit <=> d \in Nat /\ d < Base
BY BaseIs DEF Digit

(* A result is exact when its digit and its carry make up the number v;    *)
(* there is only one such result.                                          *)
Exact(r, v) ==
  /\ r.digit \in Digit /\ r.carry \in Int
  /\ r.digit + Base * r.carry = v

(* There is only one digit and one carry for a number.                     *)
LEMMA ExactUnique ==
  ASSUME NEW r, NEW s, NEW v \in Int, Exact(r, v), Exact(s, v)
  PROVE  r.digit = s.digit /\ r.carry = s.carry
<1>1. PICK b \in Nat : b = Base /\ b > 1
  BY BaseIs
<1>2. /\ r.digit \in Int /\ r.carry \in Int /\ 0 <= r.digit /\ r.digit < b
      /\ r.digit + b * r.carry = v
  BY <1>1, DigitIs DEF Exact
<1>3. /\ s.digit \in Int /\ s.carry \in Int /\ 0 <= s.digit /\ s.digit < b
      /\ s.digit + b * s.carry = v
  BY <1>1, DigitIs DEF Exact
<1>4. v % b = r.digit /\ v \div b = r.carry
  <2>1. PICK d \in Int, c \in Int : d = r.digit /\ c = r.carry
    BY <1>2
  <2>2. v = b * c + d /\ 0 <= d /\ d < b
    BY <1>2, <2>1
  <2>3. v % b = d /\ v \div b = c
    BY <1>1, <2>2, QuotientUnique
  <2> QED
    BY <2>1, <2>3
<1>5. v % b = s.digit /\ v \div b = s.carry
  <2>1. PICK d \in Int, c \in Int : d = s.digit /\ c = s.carry
    BY <1>3
  <2>2. v = b * c + d /\ 0 <= d /\ d < b
    BY <1>3, <2>1
  <2>3. v % b = d /\ v \div b = c
    BY <1>1, <2>2, QuotientUnique
  <2> QED
    BY <2>1, <2>3
<1> QED
  BY <1>4, <1>5

-----------------------------------------------------------------------------
(* Sums and differences.                                                   *)

(* One test of overflow for one addition: the carry is 0 or 1.             *)
LEMMA AddTwoExact ==
  ASSUME NEW x \in Digit, NEW y \in Digit
  PROVE  /\ Cut(x + y) \in Digit /\ Bool(Cut(x + y) < x) \in {0, 1}
         /\ Cut(x + y) + Base * Bool(Cut(x + y) < x) = x + y
<1>1. PICK b \in Nat : b = Base /\ b > 1
  BY BaseIs
<1>2. x \in Nat /\ x < b /\ y \in Nat /\ y < b
  BY <1>1, DigitIs
<1>3. CASE x + y < b
  <2>1. Cut(x + y) = x + y
    BY <1>1, <1>2, <1>3, CutIs, DigitIs
  <2> QED
    BY <1>1, <1>2, <1>3, <2>1, DigitIs DEF Bool
<1>4. CASE x + y >= b
  <2>1. Cut(x + y) = x + y - b /\ Cut(x + y) \in Digit
    BY <1>1, <1>2, <1>4, CutIs
  <2>2. Bool(Cut(x + y) < x) = 1
    BY <1>1, <1>2, <2>1 DEF Bool
  <2> QED
    BY <1>1, <1>2, <2>1, <2>2
<1> QED
  BY <1>2, <1>3, <1>4

(* A difference has borrowed exactly when the first digit is the less.     *)
LEMMA SubTwoExact ==
  ASSUME NEW x \in Digit, NEW y \in Digit
  PROVE  /\ Cut(x - y) \in Digit /\ Bool(x < y) \in {0, 1}
         /\ Cut(x - y) - Base * Bool(x < y) = x - y
<1>1. PICK b \in Nat : b = Base /\ b > 1
  BY BaseIs
<1>2. x \in Nat /\ x < b /\ y \in Nat /\ y < b
  BY <1>1, DigitIs
<1>3. CASE x >= y
  <2>1. Cut(x - y) = x - y
    BY <1>1, <1>2, <1>3, CutIs, DigitIs
  <2> QED
    BY <1>1, <1>2, <1>3, <2>1, DigitIs DEF Bool
<1>4. CASE x < y
  <2>1. Cut(x - y) = x - y + b /\ Cut(x - y) \in Digit
    BY <1>1, <1>2, <1>4, CutIs
  <2> QED
    BY <1>1, <1>2, <1>4, <2>1 DEF Bool
<1> QED
  BY <1>2, <1>3, <1>4

(* BngAdd2 adds two digits: the digit it leaves and its carry, 0 or 1,     *)
(* make up the sum, though overflow is only known from the sum being less  *)
(* than a term.                                                            *)
THEOREM DigitsAdd ==
  ASSUME NEW x \in Digit, NEW y \in Digit
  PROVE  Exact(AddTwo(x, y), x + y) /\ AddTwo(x, y).carry \in {0, 1}
BY AddTwoExact DEF AddTwo, Exact

(* What a subtraction borrows is taken from the digit above.               *)
Borrows(r, v) ==
  /\ r.digit \in Digit /\ r.carry \in Int
  /\ r.digit - Base * r.carry = v

(* There is only one digit and one borrow for a number.                    *)
LEMMA BorrowsUnique ==
  ASSUME NEW r, NEW s, NEW v \in Int, Borrows(r, v), Borrows(s, v)
  PROVE  r.digit = s.digit /\ r.carry = s.carry
<1>1. PICK b \in Nat : b = Base
  BY BaseIs
<1>2. PICK t, u :
          /\ t = [digit |-> r.digit, carry |-> -r.carry]
          /\ u = [digit |-> s.digit, carry |-> -s.carry]
  OBVIOUS
<1>3. b * (-r.carry) = -(b * r.carry) /\ b * (-s.carry) = -(b * s.carry)
  BY DEF Borrows
<1>4. Exact(t, v) /\ Exact(u, v)
  BY <1>1, <1>2, <1>3, DigitIs DEF Borrows, Exact
<1>5. r.digit = s.digit /\ -r.carry = -s.carry
  BY <1>2, <1>4, ExactUnique
<1> QED
  BY <1>5 DEF Borrows

(* BngSub2 subtracts two digits: the digit it leaves, less the borrow of 0 *)
(* or 1, is the difference.                                                *)
THEOREM DigitsSub ==
  ASSUME NEW x \in Digit, NEW y \in Digit
  PROVE  Borrows(SubTwo(x, y), x - y) /\ SubTwo(x, y).carry \in {0, 1}
BY SubTwoExact DEF SubTwo, Borrows

(* BngAdd2Carry adds two digits and a carry, any digit: two tests of       *)
(* overflow for two additions. From a carry of 0 or 1 comes a carry of 0   *)
(* or 1, as the two additions never both overflow.                         *)
THEOREM DigitsAddCarry ==
  ASSUME NEW x \in Digit, NEW y \in Digit, NEW c \in Digit
  PROVE  /\ Exact(AddTwoCarry(x, y, c), x + y + c)
         /\ c \in {0, 1} => AddTwoCarry(x, y, c).carry \in {0, 1}
<1>1. PICK b \in Nat : b = Base /\ b > 1
  BY BaseIs
<1>2. /\ x \in Nat /\ x < b /\ y \in Nat /\ y < b /\ c \in Nat /\ c < b
  BY <1>1, DigitIs
<1>3. PICK s \in Digit, k \in {0, 1} :
          /\ s = Cut(x + y) /\ k = Bool(s < x)
          /\ s + b * k = x + y
  BY <1>1, AddTwoExact
<1>4. PICK t \in Digit, l \in {0, 1} :
          /\ t = Cut(s + c) /\ l = Bool(t < s)
          /\ t + b * l = s + c
  BY <1>1, <1>3, AddTwoExact
<1>5. AddTwoCarry(x, y, c) = [digit |-> t, carry |-> k + l]
  BY <1>3, <1>4 DEF AddTwoCarry
<1>6. s \in Nat /\ t \in Nat /\ k \in Int /\ l \in Int
  BY DigitIs
<1>7. PICK p \in Int, q \in Int : p = b * k /\ q = b * l /\ b * (k + l) = p + q
  BY <1>6
<1>8. t + b * (k + l) = x + y + c
  <2>1. s + p = x + y /\ t + q = s + c
    BY <1>3, <1>4, <1>7
  <2> QED
    BY <1>2, <1>6, <1>7, <2>1
<1>9. ASSUME c \in {0, 1}, k = 1, l = 1
      PROVE  FALSE
  BY <1>2, <1>3, <1>4, <1>6, <1>9
<1> QED
  BY <1>1, <1>3, <1>4, <1>5, <1>6, <1>8, <1>9 DEF Exact

(* BngSub2Carry subtracts two digits and a borrow, and a borrow of 0 or 1  *)
(* comes from one of 0 or 1.                                               *)
THEOREM DigitsSubCarry ==
  ASSUME NEW x \in Digit, NEW y \in Digit, NEW c \in Digit
  PROVE  /\ Borrows(SubTwoCarry(x, y, c), x - y - c)
         /\ c \in {0, 1} => SubTwoCarry(x, y, c).carry \in {0, 1}
<1>1. PICK b \in Nat : b = Base /\ b > 1
  BY BaseIs
<1>2. /\ x \in Nat /\ x < b /\ y \in Nat /\ y < b /\ c \in Nat /\ c < b
  BY <1>1, DigitIs
<1>3. PICK s \in Digit, k \in {0, 1} :
          /\ s = Cut(x - y) /\ k = Bool(x < y)
          /\ s - b * k = x - y
  BY <1>1, SubTwoExact
<1>4. PICK t \in Digit, l \in {0, 1} :
          /\ t = Cut(s - c) /\ l = Bool(s < c)
          /\ t - b * l = s - c
  BY <1>1, <1>3, SubTwoExact
<1>5. SubTwoCarry(x, y, c) = [digit |-> t, carry |-> k + l]
  BY <1>3, <1>4 DEF SubTwoCarry
<1>6. s \in Nat /\ t \in Nat /\ k \in Int /\ l \in Int
  BY DigitIs
<1>7. PICK p \in Int, q \in Int : p = b * k /\ q = b * l /\ b * (k + l) = p + q
  BY <1>6
<1>8. t - b * (k + l) = x - y - c
  BY <1>2, <1>3, <1>4, <1>6, <1>7
<1>9. ASSUME c \in {0, 1}, k = 1, l = 1
      PROVE  FALSE
  BY <1>1, <1>2, <1>3, <1>4, <1>6, <1>9, DigitIs
<1> QED
  BY <1>1, <1>3, <1>4, <1>5, <1>6, <1>8, <1>9 DEF Borrows

-----------------------------------------------------------------------------
(* The variants of the additions.                                          *)

(* adc: what the carry flag holds is the carry.                            *)
LEMMA AddFlagExact ==
  ASSUME NEW x \in Digit, NEW y \in Digit, NEW c \in {0, 1}
  PROVE  Exact(AddFlag(x, y, c), x + y + c)
<1>1. PICK b \in Nat : b = Base /\ b > 1
  BY BaseIs
<1>2. /\ x \in Nat /\ x < b /\ y \in Nat /\ y < b /\ c \in Nat /\ c <= 1
  BY <1>1, DigitIs
<1>3. CASE x + y + c < b
  <2>1. Cut(x + y + c) = x + y + c /\ Cut(x + y + c) \in Digit
    BY <1>1, <1>2, <1>3, CutIs, DigitIs
  <2>2. Bool(x + y + c >= Base) = 0
    BY <1>1, <1>2, <1>3 DEF Bool
  <2> QED
    BY <1>1, <1>2, <2>1, <2>2 DEF AddFlag, Exact
<1>4. CASE x + y + c >= b
  <2>1. Cut(x + y + c) = x + y + c - b /\ Cut(x + y + c) \in Digit
    BY <1>1, <1>2, <1>4, CutIs
  <2>2. Bool(x + y + c >= Base) = 1
    BY <1>1, <1>4 DEF Bool
  <2> QED
    BY <1>1, <1>2, <2>1, <2>2 DEF AddFlag, Exact
<1> QED
  BY <1>2, <1>3, <1>4

(* paddq: the upper digit of a sum on two digits is the carry.             *)
LEMMA AddDoubleExact ==
  ASSUME NEW x \in Nat, NEW y \in Nat, NEW c \in Nat
  PROVE  Exact(AddDouble(x, y, c), x + y + c)
<1>1. PICK b \in Nat : b = Base /\ b > 1
  BY BaseIs
<1>2. PICK v \in Nat : v = x + y + c
  OBVIOUS
<1>3. v \div b \in Int /\ v % b \in Int /\ v = b * (v \div b) + (v % b)
  BY <1>1, Quotient
<1>4. Cut(v) \in Digit
  BY CutIs
<1> QED
  BY <1>1, <1>2, <1>3, <1>4 DEF AddDouble, Exact, Cut

(* bng_generic_add, bng_amd64_add and bng_ia32sse2_add do the same at a    *)
(* digit: they leave the digit and the carry of BngAdd2Carry.              *)
THEOREM AdditionsAgree ==
  ASSUME NEW x \in Digit, NEW y \in Digit, NEW c \in {0, 1}
  PROVE  /\ AddFlag(x, y, c) = AddTwoCarry(x, y, c)
         /\ AddDouble(x, y, c) = AddTwoCarry(x, y, c)
<1>1. x \in Nat /\ y \in Nat /\ c \in Nat /\ c \in Digit /\ x + y + c \in Int
  BY BaseIs, DigitIs
<1>2. /\ Exact(AddFlag(x, y, c), x + y + c) /\ Exact(AddDouble(x, y, c), x + y + c)
      /\ Exact(AddTwoCarry(x, y, c), x + y + c)
  BY <1>1, AddFlagExact, AddDoubleExact, DigitsAddCarry
<1>3. /\ AddFlag(x, y, c).digit = AddTwoCarry(x, y, c).digit
      /\ AddFlag(x, y, c).carry = AddTwoCarry(x, y, c).carry
      /\ AddDouble(x, y, c).digit = AddTwoCarry(x, y, c).digit
      /\ AddDouble(x, y, c).carry = AddTwoCarry(x, y, c).carry
  BY <1>1, <1>2, ExactUnique
<1> QED
  BY <1>3 DEF AddFlag, AddDouble, AddTwoCarry

(* sbb: what the carry flag holds is the borrow.                           *)
LEMMA SubFlagExact ==
  ASSUME NEW x \in Digit, NEW y \in Digit, NEW c \in {0, 1}
  PROVE  Borrows(SubFlag(x, y, c), x - y - c)
<1>1. PICK b \in Nat : b = Base /\ b > 1
  BY BaseIs
<1>2. /\ x \in Nat /\ x < b /\ y \in Nat /\ y < b /\ c \in Nat /\ c <= 1
  BY <1>1, DigitIs
<1>3. CASE x - y - c >= 0
  <2>1. Cut(x - y - c) = x - y - c /\ Cut(x - y - c) \in Digit
    BY <1>1, <1>2, <1>3, CutIs, DigitIs
  <2>2. Bool(x < y + c) = 0
    BY <1>2, <1>3 DEF Bool
  <2> QED
    BY <1>1, <1>2, <2>1, <2>2 DEF SubFlag, Borrows
<1>4. CASE x - y - c < 0
  <2>1. Cut(x - y - c) = x - y - c + b /\ Cut(x - y - c) \in Digit
    BY <1>1, <1>2, <1>4, CutIs
  <2>2. Bool(x < y + c) = 1
    BY <1>2, <1>4 DEF Bool
  <2> QED
    BY <1>1, <1>2, <2>1, <2>2 DEF SubFlag, Borrows
<1> QED
  BY <1>2, <1>3, <1>4

(* The sign bit of the double digit is the borrow.                         *)
LEMMA SubDoubleExact ==
  ASSUME NEW x \in Digit, NEW y \in Digit, NEW c \in {0, 1}
  PROVE  Borrows(SubDouble(x, y, c), x - y - c)
<1>1. PICK b \in Nat : b = Base /\ b > 1
  BY BaseIs
<1>2. PICK bb \in Nat : bb = b * b /\ bb >= 2 * b
  <2>1. PICK j \in Nat : b = j + 2
    <3>1. b - 2 \in Nat /\ b = (b - 2) + 2
      BY <1>1
    <3> QED
      BY <3>1
  <2>2. b * b = b * j + 2 * b /\ b * j \in Nat
    BY <2>1
  <2> QED
    BY <2>2
<1>3. /\ x \in Nat /\ x < b /\ y \in Nat /\ y < b /\ c \in Nat /\ c <= 1
  BY <1>1, DigitIs
<1>4. PICK v \in Int : v = x - y - c /\ -b <= v /\ v < b
  BY <1>3
<1>5. PICK t \in Int : t = v % bb
  <2>1. bb > 0
    BY <1>1, <1>2
  <2> QED
    BY <2>1, Quotient
<1>6. SubDouble(x, y, c) = [digit |-> Cut(t), carry |-> (2 * t) \div bb]
  BY <1>1, <1>2, <1>4, <1>5 DEF SubDouble
<1>7. CASE v >= 0
  <2>1. t = v
    <3>1. v = bb * 0 + v /\ v < bb
      BY <1>1, <1>2, <1>4
    <3> QED
      BY <1>1, <1>2, <1>5, <1>7, <3>1, QuotientUnique
  <2>2. (2 * t) \div bb = 0
    <3>1. 2 * t = bb * 0 + 2 * t /\ 0 <= 2 * t /\ 2 * t < bb /\ 2 * t \in Int
      BY <1>1, <1>2, <1>4, <1>7, <2>1
    <3> QED
      BY <1>1, <1>2, <3>1, QuotientUnique
  <2>3. Cut(t) = v /\ v \in Digit
    BY <1>1, <1>4, <1>7, <2>1, CutIs, DigitIs
  <2> QED
    BY <1>1, <1>4, <1>6, <2>2, <2>3 DEF Borrows
<1>8. CASE v < 0
  <2>1. t = v + bb
    <3>1. v = bb * (-1) + (v + bb) /\ 0 <= v + bb /\ v + bb < bb /\ v + bb \in Int
      BY <1>1, <1>2, <1>4, <1>8
    <3> QED
      BY <1>1, <1>2, <1>5, <3>1, QuotientUnique
  <2>2. (2 * t) \div bb = 1
    <3>1. 2 * t = bb * 1 + (2 * v + bb) /\ 0 <= 2 * v + bb /\ 2 * v + bb < bb
      BY <1>1, <1>2, <1>4, <1>8, <2>1
    <3>2. 2 * t \in Int /\ 2 * v + bb \in Int
      OBVIOUS
    <3> QED
      BY <1>1, <1>2, <3>1, <3>2, QuotientUnique
  <2>3. Cut(t) = v + b /\ v + b \in Digit
    <3>1. PICK r \in Int, q \in Int : r = v + b /\ q = b - 1
      OBVIOUS
    <3>2. 0 <= r /\ r < b /\ v + b \in Int
      BY <1>1, <1>4, <1>8, <3>1
    <3>3. t % b = v + b
      <4>1. b * q = b * b - b
        BY <3>1
      <4>2. t = b * q + r
        BY <1>2, <2>1, <3>1, <4>1
      <4>3. t % b = r
        BY <1>1, <3>2, <4>2, QuotientUnique
      <4> QED
        BY <3>1, <4>3
    <3> QED
      BY <1>1, <3>2, <3>3, DigitIs DEF Cut
  <2> QED
    BY <1>1, <1>4, <1>6, <2>2, <2>3 DEF Borrows
<1> QED
  BY <1>4, <1>7, <1>8

(* bng_generic_sub, bng_amd64_sub and bng_ia32sse2_sub do the same at a    *)
(* digit: they leave the digit and the borrow of BngSub2Carry.             *)
THEOREM SubtractionsAgree ==
  ASSUME NEW x \in Digit, NEW y \in Digit, NEW c \in {0, 1}
  PROVE  /\ SubFlag(x, y, c) = SubTwoCarry(x, y, c)
         /\ SubDouble(x, y, c) = SubTwoCarry(x, y, c)
<1>1. x \in Nat /\ y \in Nat /\ c \in Nat /\ c \in Digit /\ x - y - c \in Int
  BY BaseIs, DigitIs
<1>2. /\ Borrows(SubFlag(x, y, c), x - y - c) /\ Borrows(SubDouble(x, y, c), x - y - c)
      /\ Borrows(SubTwoCarry(x, y, c), x - y - c)
  BY <1>1, SubFlagExact, SubDoubleExact, DigitsSubCarry
<1>3. /\ SubFlag(x, y, c).digit = SubTwoCarry(x, y, c).digit
      /\ SubFlag(x, y, c).carry = SubTwoCarry(x, y, c).carry
      /\ SubDouble(x, y, c).digit = SubTwoCarry(x, y, c).digit
      /\ SubDouble(x, y, c).carry = SubTwoCarry(x, y, c).carry
  BY <1>1, <1>2, BorrowsUnique
<1> QED
  BY <1>3 DEF SubFlag, SubDouble, SubTwoCarry

-----------------------------------------------------------------------------
(* Three digits at a time.                                                 *)

(* Below a multiple of b there is no more than what is left of it.         *)
LEMMA LessThanMultiple ==
  ASSUME NEW b \in Nat, b > 0, NEW k \in Int, NEW m \in Int, b * k < b * m
  PROVE  k < m
<1>1. SUFFICES ASSUME k >= m
               PROVE  FALSE
  OBVIOUS
<1>2. PICK d \in Nat : k = m + d
  <2>1. k - m \in Nat /\ k = m + (k - m)
    BY <1>1
  <2> QED
    BY <2>1
<1>3. b * k = b * m + b * d /\ b * d \in Nat
  BY <1>2
<1>4. PICK p \in Int, q \in Int, r \in Nat : p = b * k /\ q = b * m /\ r = b * d
  BY <1>3
<1> QED
  BY <1>3, <1>4

(* BngAdd3: exact unless the accumulator itself overflows.                 *)
LEMMA AddThreeExact ==
  ASSUME NEW accu \in Digit, NEW x \in Digit, NEW y \in Digit, NEW z \in Digit,
         accu * Base + x + y + z < Base * Base
  PROVE  Exact(AddThree(accu, x, y, z), accu * Base + x + y + z)
         /\ AddThree(accu, x, y, z).carry \in Digit
<1>1. PICK b \in Nat : b = Base /\ b > 1
  BY BaseIs
<1>2. /\ accu \in Nat /\ x \in Nat /\ y \in Nat /\ z \in Nat
  BY DigitIs
<1>3. PICK s \in Digit, k \in {0, 1} :
          /\ s = Cut(x + y) /\ k = Bool(s < x)
          /\ s + b * k = x + y
  BY <1>1, AddTwoExact
<1>4. PICK t \in Digit, l \in {0, 1} :
          /\ t = Cut(s + z) /\ l = Bool(t < s)
          /\ t + b * l = s + z
  BY <1>1, <1>3, AddTwoExact
<1>5. AddThree(accu, x, y, z) = [digit |-> t, carry |-> Cut(accu + k + l)]
  BY <1>3, <1>4 DEF AddThree
<1>6. s \in Nat /\ t \in Nat /\ k \in Nat /\ l \in Nat
  BY DigitIs
<1>7. PICK p \in Nat, q \in Nat, r \in Nat :
        p = b * k /\ q = b * l /\ r = b * accu /\ b * (accu + k + l) = r + p + q
  BY <1>2, <1>6
<1>8. t + b * (accu + k + l) = r + x + y + z
  <2>1. s + p = x + y /\ t + q = s + z
    BY <1>3, <1>4, <1>7
  <2> QED
    BY <1>2, <1>6, <1>7, <2>1
<1>9. accu * Base = r
  BY <1>1, <1>2, <1>7
<1>10. accu + k + l < b
  <2>1. b * (accu + k + l) < b * b
    <3>1. PICK u \in Nat, w \in Nat : u = b * (accu + k + l) /\ w = b * b
      BY <1>2, <1>6
    <3>2. r + x + y + z < w
      BY <1>1, <1>9, <3>1
    <3> QED
      BY <1>2, <1>6, <1>7, <1>8, <3>1, <3>2
  <2> QED
    BY <1>1, <1>2, <1>6, <2>1, LessThanMultiple
<1>11. Cut(accu + k + l) = accu + k + l /\ accu + k + l \in Digit
  BY <1>1, <1>2, <1>6, <1>10, CutIs, DigitIs
<1> QED
  BY <1>1, <1>2, <1>5, <1>6, <1>8, <1>9, <1>11 DEF Exact

(* BngSub3: exact unless what it borrows does not fit a digit.             *)
LEMMA SubThreeExact ==
  ASSUME NEW accu \in Digit, NEW x \in Digit, NEW y \in Digit, NEW z \in Digit,
         accu * Base + y + z - x < Base * Base - Base + 1
  PROVE  Borrows(SubThree(accu, x, y, z), x - y - z - accu * Base)
         /\ SubThree(accu, x, y, z).carry \in Digit
<1>1. PICK b \in Nat : b = Base /\ b > 1
  BY BaseIs
<1>2. /\ accu \in Nat /\ x \in Nat /\ y \in Nat /\ z \in Nat
  BY DigitIs
<1>3. PICK s \in Digit, k \in {0, 1} :
          /\ s = Cut(x - y) /\ k = Bool(x < y)
          /\ s - b * k = x - y
  BY <1>1, SubTwoExact
<1>4. PICK t \in Digit, l \in {0, 1} :
          /\ t = Cut(s - z) /\ l = Bool(s < z)
          /\ t - b * l = s - z
  BY <1>1, <1>3, SubTwoExact
<1>5. SubThree(accu, x, y, z) = [digit |-> t, carry |-> Cut(accu + k + l)]
  BY <1>3, <1>4 DEF SubThree
<1>6. s \in Nat /\ t \in Nat /\ t < b /\ k \in Nat /\ l \in Nat
  BY <1>1, DigitIs
<1>7. PICK p \in Nat, q \in Nat, r \in Nat :
        p = b * k /\ q = b * l /\ r = b * accu /\ b * (accu + k + l) = r + p + q
  BY <1>2, <1>6
<1>8. t - b * (accu + k + l) = x - y - z - r
  <2>1. s - p = x - y /\ t - q = s - z
    BY <1>3, <1>4, <1>7
  <2> QED
    BY <1>2, <1>6, <1>7, <2>1
<1>9. accu * Base = r
  BY <1>1, <1>2, <1>7
<1>10. accu + k + l < b
  <2>1. b * (accu + k + l) < b * b
    <3>1. PICK u \in Nat, w \in Nat : u = b * (accu + k + l) /\ w = b * b
      BY <1>2, <1>6
    <3>2. r + y + z - x < w - b + 1
      BY <1>1, <1>9, <3>1
    <3> QED
      BY <1>2, <1>6, <1>7, <1>8, <3>1, <3>2
  <2> QED
    BY <1>1, <1>2, <1>6, <2>1, LessThanMultiple
<1>11. Cut(accu + k + l) = accu + k + l /\ accu + k + l \in Digit
  BY <1>1, <1>2, <1>6, <1>10, CutIs, DigitIs
<1> QED
  BY <1>1, <1>2, <1>5, <1>6, <1>8, <1>9, <1>11 DEF Borrows

-----------------------------------------------------------------------------
(* Products.                                                               *)

(* The halves of a number less than the square of n.                       *)
LEMMA Halves ==
  ASSUME NEW n \in Nat, n > 0, NEW v \in Nat, v < n * n
  PROVE  /\ v \div n \in Nat /\ v \div n <= n - 1
         /\ v % n \in Nat /\ v % n <= n - 1
         /\ v = n * (v \div n) + (v % n)
<1>1. PICK q \in Int, r \in Int :
        q = v \div n /\ r = v % n /\ v = n * q + r /\ 0 <= r /\ r < n
  BY Quotient
<1>2. q < n
  <2>1. n * q < n * n
    <3>1. PICK u \in Int, w \in Int : u = n * q /\ w = n * n
      OBVIOUS
    <3> QED
      BY <1>1, <3>1
  <2> QED
    BY <2>1, LessThanMultiple
<1>3. q >= 0
  <2>1. n * (-1) < n * q
    <3>1. PICK u \in Int : u = n * q
      OBVIOUS
    <3> QED
      BY <1>1, <3>1
  <2>2. -1 < q
    BY <2>1, LessThanMultiple
  <2> QED
    BY <2>2
<1> QED
  BY <1>1, <1>2, <1>3

(* BngMult computes the product of two digits from those of their halves:  *)
(* what it cuts to a digit on the way (the sum for the upper digit, the    *)
(* middle products moved up by half a digit) loses nothing that is not     *)
(* added elsewhere.                                                        *)
THEOREM ProductOfHalves ==
  ASSUME NEW x \in Digit, NEW y \in Digit
  PROVE  /\ Mult(x, y).low \in Digit /\ Mult(x, y).high \in Digit
         /\ Mult(x, y).low + Base * Mult(x, y).high = x * y
<1>1. PICK h \in Nat, n \in Nat : h = Half /\ h > 1 /\ n = h * h /\ n = Base /\ n > 1
  BY BaseIs DEF Base
<1>2. x \in Nat /\ x < h * h /\ y \in Nat /\ y < h * h /\ h > 0
  BY <1>1, DigitIs
<1>3. PICK m \in Nat : m = h - 1
  BY <1>1
<1>4. PICK a \in Nat, b \in Nat :
        a = HighHalf(x) /\ b = LowHalf(x) /\ a <= m /\ b <= m /\ x = h * a + b
  BY <1>1, <1>2, <1>3, Halves DEF HighHalf, LowHalf
<1>5. PICK c \in Nat, d \in Nat :
        c = HighHalf(y) /\ d = LowHalf(y) /\ c <= m /\ d <= m /\ y = h * c + d
  BY <1>1, <1>2, <1>3, Halves DEF HighHalf, LowHalf
<1>6. PICK mm \in Nat : mm = m * m /\ n = mm + 2 * m + 1
  <2>1. h * h = m * m + 2 * m + 1 /\ m * m \in Nat
    BY <1>3
  <2> QED
    BY <1>1, <2>1
<1>7. PICK ac \in Nat, ad \in Nat, bc \in Nat, bd \in Nat :
        /\ ac = a * c /\ ad = a * d /\ bc = b * c /\ bd = b * d
        /\ ac <= mm /\ ad <= mm /\ bc <= mm /\ bd <= mm
  <2>1. a * c \in Nat /\ a * c <= m * m
    BY <1>4, <1>5, ProductBound
  <2>2. a * d \in Nat /\ a * d <= m * m
    BY <1>4, <1>5, ProductBound
  <2>3. b * c \in Nat /\ b * c <= m * m
    BY <1>4, <1>5, ProductBound
  <2>4. b * d \in Nat /\ b * d <= m * m
    BY <1>4, <1>5, ProductBound
  <2> QED
    BY <1>6, <2>1, <2>2, <2>3, <2>4
<1>8. ad < h * h /\ bc < h * h /\ bd < h * h
  BY <1>1, <1>6, <1>7
<1>9. PICK e \in Nat, f \in Nat :
        e = HighHalf(bc) /\ e <= m /\ f <= m /\ bc = h * e + f
  BY <1>1, <1>2, <1>3, <1>8, Halves DEF HighHalf
<1>10. PICK g \in Nat, i \in Nat :
        g = HighHalf(ad) /\ g <= m /\ i <= m /\ ad = h * g + i
  BY <1>1, <1>2, <1>3, <1>8, Halves DEF HighHalf
<1>11. PICK fh \in Nat, ih \in Nat :
         /\ fh = h * f /\ fh < n /\ ih = h * i /\ ih < n
         /\ bc * h = n * e + fh /\ ad * h = n * g + ih
  <2>1. h * f <= h * m /\ h * i <= h * m
    BY <1>9, <1>10, TimesMonotone
  <2>2. h * m \in Nat /\ h * m < n
    <3>1. h * m = m * m + m
      BY <1>3
    <3> QED
      BY <1>6, <3>1
  <2>3. bc * h = (h * h) * e + h * f /\ ad * h = (h * h) * g + h * i
    BY <1>9, <1>10
  <2> QED
    BY <1>1, <2>1, <2>2, <2>3
<1>12. Cut(bc * h) = fh /\ Cut(ad * h) = ih
  <2>1. n > 0 /\ bc * h \in Int /\ ad * h \in Int /\ fh >= 0 /\ ih >= 0
    BY <1>1
  <2>2. (bc * h) % n = fh
    BY <1>11, <2>1, QuotientUnique
  <2>3. (ad * h) % n = ih
    BY <1>11, <2>1, QuotientUnique
  <2> QED
    BY <1>1, <2>2, <2>3 DEF Cut
<1>13. PICK accu \in Digit : accu = ac + e + g /\ accu = Cut(ac + e + g)
  <2>1. ac + e + g \in Nat /\ ac + e + g < n
    BY <1>6, <1>7, <1>9, <1>10
  <2>2. ac + e + g \in Digit
    BY <1>1, <2>1, DigitIs
  <2> QED
    BY <2>1, <2>2, CutIs
<1>14. bd \in Digit /\ fh \in Digit /\ ih \in Digit
  BY <1>1, <1>6, <1>7, <1>11, DigitIs
<1>15. accu * n + bd + fh + ih = x * y
  <2>1. x * y = (h * h) * (a * c) + h * (a * d) + h * (b * c) + b * d
    BY <1>4, <1>5
  <2>2. x * y = n * ac + ad * h + bc * h + bd
    BY <1>1, <1>7, <2>1
  <2>3. accu * n = n * ac + n * e + n * g
    BY <1>13
  <2>4. PICK u \in Nat, v \in Nat, w \in Nat : u = n * ac /\ v = n * e /\ w = n * g
    OBVIOUS
  <2> QED
    BY <1>11, <2>2, <2>3, <2>4
<1>16. x * y < n * n
  <2>1. PICK k \in Nat : k = n - 1
    BY <1>1
  <2>2. x <= k /\ y <= k
    BY <1>1, <1>2, <2>1
  <2>3. x * y <= k * k
    BY <1>2, <2>2, ProductBound
  <2>4. n * n = k * k + 2 * k + 1 /\ k * k \in Nat
    BY <2>1
  <2> QED
    BY <1>2, <2>3, <2>4
<1>17. /\ Exact(AddThree(accu, bd, fh, ih), x * y)
       /\ AddThree(accu, bd, fh, ih).carry \in Digit
  <2>1. accu * Base + bd + fh + ih = x * y
    BY <1>1, <1>15
  <2>2. accu * Base + bd + fh + ih < Base * Base
    BY <1>1, <1>16, <2>1
  <2>3. /\ Exact(AddThree(accu, bd, fh, ih), accu * Base + bd + fh + ih)
        /\ AddThree(accu, bd, fh, ih).carry \in Digit
    BY <1>14, <2>2, AddThreeExact
  <2> QED
    BY <2>1, <2>3
<1>18. Mult(x, y) = [high |-> AddThree(accu, bd, fh, ih).carry,
                     low |-> AddThree(accu, bd, fh, ih).digit]
  BY <1>1, <1>4, <1>5, <1>7, <1>9, <1>10, <1>12, <1>13 DEF Mult
<1> QED
  BY <1>17, <1>18 DEF Exact

-----------------------------------------------------------------------------
(* One digit of a product added to, or subtracted from, a number.          *)

(* The square of the greatest digit, and what may be added to it.          *)
LEMMA DoubleDigit ==
  ASSUME NEW x \in Digit, NEW y \in Digit
  PROVE  /\ x * y \in Nat /\ (Base - 1) * (Base - 1) \in Nat
         /\ x * y <= (Base - 1) * (Base - 1)
         /\ Base * Base = (Base - 1) * (Base - 1) + 2 * Base - 1
<1>1. PICK b \in Nat, k \in Nat : b = Base /\ b > 1 /\ k = b - 1
  BY BaseIs
<1>2. x \in Nat /\ x <= k /\ y \in Nat /\ y <= k
  BY <1>1, DigitIs
<1>3. x * y \in Nat /\ x * y <= k * k
  BY <1>2, ProductBound
<1>4. b * b = k * k + 2 * b - 1
  BY <1>1
<1> QED
  BY <1>1, <1>3, <1>4

(* A step of bng_generic_mult_add_digit, by BngMult and BngAdd3, and of    *)
(* its variants on double digits: both add a digit, a product of two       *)
(* digits and a carry exactly, leave the same digit and carry, and the     *)
(* carry is a digit again.                                                 *)
THEOREM MultAddStepsAgree ==
  ASSUME NEW x \in Digit, NEW y \in Digit, NEW d \in Digit, NEW out \in Digit
  PROVE  LET p == Mult(y, d)
             r == AddThree(p.high, x, p.low, out)
         IN  /\ Exact(r, x + y * d + out) /\ r.carry \in Digit
             /\ AddDouble(x, y * d, out) = r
<1>1. PICK b \in Nat : b = Base /\ b > 1
  BY BaseIs
<1>2. PICK hi \in Digit, lo \in Digit :
        hi = Mult(y, d).high /\ lo = Mult(y, d).low /\ lo + b * hi = y * d
  BY <1>1, ProductOfHalves
<1>3. PICK v \in Nat, k \in Nat, bb \in Nat :
        /\ v = y * d /\ k = (b - 1) * (b - 1) /\ v <= k
        /\ bb = b * b /\ bb = k + 2 * b - 1
  BY <1>1, DoubleDigit
<1>4. /\ x \in Nat /\ x < b /\ out \in Nat /\ out < b /\ hi \in Nat /\ lo \in Nat
  BY <1>1, DigitIs
<1>5. PICK bh \in Nat : bh = b * hi /\ hi * b = bh
  BY <1>4
<1>6. hi * Base + x + lo + out = x + y * d + out
  BY <1>1, <1>2, <1>3, <1>4, <1>5
<1>7. hi * Base + x + lo + out < Base * Base
  BY <1>1, <1>2, <1>3, <1>4, <1>5
<1>8. /\ Exact(AddThree(hi, x, lo, out), x + y * d + out)
      /\ AddThree(hi, x, lo, out).carry \in Digit
  BY <1>6, <1>7, AddThreeExact
<1>9. Exact(AddDouble(x, y * d, out), x + y * d + out)
  BY <1>3, <1>4, AddDoubleExact
<1>10. /\ AddDouble(x, y * d, out).digit = AddThree(hi, x, lo, out).digit
       /\ AddDouble(x, y * d, out).carry = AddThree(hi, x, lo, out).carry
  <2>1. x + y * d + out \in Int
    BY <1>3, <1>4
  <2> QED
    BY <1>8, <1>9, <2>1, ExactUnique
<1>11. AddDouble(x, y * d, out) = AddThree(hi, x, lo, out)
  BY <1>10 DEF AddDouble, AddThree
<1> QED
  BY <1>2, <1>8, <1>11

(* A step of bng_generic_mult_sub_digit, by BngMult and BngSub3, with the  *)
(* carry as it is, and of bng_ia32sse2_mult_sub_digit, with the complement *)
(* of the carry and a bias that keeps the difference positive: from a      *)
(* carry and its complement they come to the same digit, a carry and its   *)
(* complement.                                                             *)
THEOREM MultSubStepsAgree ==
  ASSUME NEW x \in Digit, NEW y \in Digit, NEW d \in Digit, NEW out \in Digit
  PROVE  LET p == Mult(y, d)
             r == SubThree(p.high, x, p.low, out)
             e == SubEncoded(x, y * d, Base - 1 - out)
         IN  /\ Borrows(r, x - y * d - out) /\ r.carry \in Digit
             /\ e.digit = r.digit /\ e.carry = Base - 1 - r.carry
<1>1. PICK b \in Nat : b = Base /\ b > 1
  BY BaseIs
<1>2. PICK hi \in Digit, lo \in Digit :
        hi = Mult(y, d).high /\ lo = Mult(y, d).low /\ lo + b * hi = y * d
  BY <1>1, ProductOfHalves
<1>3. PICK v \in Nat, k \in Nat, bb \in Nat :
        /\ v = y * d /\ k = (b - 1) * (b - 1) /\ v <= k
        /\ bb = b * b /\ bb = k + 2 * b - 1
  BY <1>1, DoubleDigit
<1>4. /\ x \in Nat /\ x < b /\ out \in Nat /\ out < b /\ hi \in Nat /\ lo \in Nat
  BY <1>1, DigitIs
<1>5. PICK bh \in Nat : bh = b * hi /\ hi * b = bh
  BY <1>4
<1>6. x - lo - out - hi * Base = x - y * d - out
  <2>1. lo + bh = v /\ hi * Base = bh /\ y * d = v
    BY <1>1, <1>2, <1>3, <1>5
  <2> QED
    BY <1>3, <1>4, <1>5, <2>1
<1>7. hi * Base + lo + out - x < Base * Base - Base + 1
  BY <1>1, <1>2, <1>3, <1>4, <1>5
<1>8. PICK r : r = SubThree(hi, x, lo, out)
  OBVIOUS
<1>9. Borrows(r, x - y * d - out) /\ r.carry \in Digit
  BY <1>6, <1>7, <1>8, SubThreeExact
<1>10. PICK t \in Int, q \in Int, m \in Int :
         /\ t = r.digit /\ q = r.carry /\ 0 <= t /\ t < b /\ 0 <= q /\ q < b
         /\ m = b * q /\ t - m = x - v - out
  BY <1>1, <1>3, <1>9, DigitIs DEF Borrows
<1>11. Bias1 = k
  <2>1. (b - 1) * b - (b - 1) = (b - 1) * (b - 1)
    OBVIOUS
  <2> QED
    BY <1>1, <1>3, <2>1 DEF Bias1
<1>12. PICK w \in Nat : /\ w = (Base - 1 - out) + x + Bias1 - y * d
                        /\ w < bb /\ w = t - m + bb - b
  BY <1>1, <1>3, <1>4, <1>10, <1>11
<1>13. w % (Base * Base) = w
  <2>1. bb > 0 /\ w = bb * 0 + w
    BY <1>1, <1>3
  <2>2. w % bb = w
    BY <1>12, <2>1, QuotientUnique
  <2> QED
    BY <1>1, <1>3, <2>2
<1>14. w % b = t /\ w \div b = b - 1 - q
  <2>1. PICK j \in Int : j = b - 1 - q
    OBVIOUS
  <2>2. b * j = b * b - b - b * q
    BY <2>1
  <2>3. w = b * j + t
    BY <1>3, <1>10, <1>12, <2>2
  <2>4. w % b = t /\ w \div b = j
    <3>1. b > 0 /\ 0 <= t /\ t < b
      BY <1>1, <1>10
    <3> QED
      BY <2>3, <3>1, QuotientUnique
  <2> QED
    BY <2>1, <2>4
<1>15. SubEncoded(x, y * d, Base - 1 - out) = [digit |-> t, carry |-> b - 1 - q]
  BY <1>1, <1>12, <1>13, <1>14 DEF SubEncoded, Cut
<1> QED
  BY <1>1, <1>2, <1>8, <1>9, <1>10, <1>15
=============================================================================
