------------------------------- MODULE ZBits -------------------------------
(***************************************************************************)
(* The bitwise primitives of src/duniverse/Zarith/caml_z.c, on numbers     *)
(* seen as infinite sequences of bits in two's complement.  Limbs hold a   *)
(* sign and a magnitude, so each of them converts on the fly: a negative   *)
(* number -a is the complement of a - 1.                                   *)
(***************************************************************************)
EXTENDS ZRepr, Bitwise

AndNot(a, b) == a - (a & b)
Bit(n, i)    == (n \div 2^i) % 2      \* of an integer, in two's complement

(* The loops want the longer argument first. *)
Longer(x, y)  == IF SizeOf(x) >= SizeOf(y) THEN x ELSE y
Shorter(x, y) == IF SizeOf(x) >= SizeOf(y) THEN y ELSE x

(* Where the result has the size of the shorter argument, the longer one   *)
(* is decremented in its low limbs only.                                   *)
LowPred(x, y) == Low(AbsOf(x) - 1, SizeOf(y))

LogAnd(x, y) ==
  LET p == Longer(x, y)   q == Shorter(x, y)
  IN  IF IsLong(x) /\ IsLong(y)
        THEN Long(Untagged(Wrap((Tagged(x.n) % B) & (Tagged(y.n) % B))))
      ELSE IF AbsOf(q) = 0 THEN q
      ELSE IF NegOf(p) /\ NegOf(q) THEN Reduce(TRUE, ((AbsOf(p) - 1) | (AbsOf(q) - 1)) + 1)
      ELSE IF NegOf(p) THEN Reduce(FALSE, AndNot(AbsOf(q), LowPred(p, q)))
      ELSE IF NegOf(q) THEN Reduce(FALSE, AndNot(AbsOf(p), AbsOf(q) - 1))
      ELSE Reduce(FALSE, AbsOf(p) & AbsOf(q))

LogOr(x, y) ==
  LET p == Longer(x, y)   q == Shorter(x, y)
  IN  IF IsLong(x) /\ IsLong(y)
        THEN Long(Untagged(Wrap((Tagged(x.n) % B) | (Tagged(y.n) % B))))
      ELSE IF AbsOf(q) = 0 THEN p
      ELSE IF NegOf(p) /\ NegOf(q) THEN Reduce(TRUE, (LowPred(p, q) & (AbsOf(q) - 1)) + 1)
      ELSE IF NegOf(p) THEN Reduce(TRUE, AndNot(AbsOf(p) - 1, AbsOf(q)) + 1)
      ELSE IF NegOf(q) THEN Reduce(TRUE, AndNot(AbsOf(q) - 1, AbsOf(p)) + 1)
      ELSE Reduce(FALSE, AbsOf(p) | AbsOf(q))

LogXor(x, y) ==
  LET p == Longer(x, y)   q == Shorter(x, y)
  IN  IF IsLong(x) /\ IsLong(y)
        THEN Long(Untagged(Wrap(((Tagged(x.n) % B) ^^ (Tagged(y.n) % B)) | 1)))
      ELSE IF AbsOf(q) = 0 THEN p
      ELSE IF NegOf(p) /\ NegOf(q) THEN Reduce(FALSE, (AbsOf(p) - 1) ^^ (AbsOf(q) - 1))
      ELSE IF NegOf(p) THEN Reduce(TRUE, ((AbsOf(p) - 1) ^^ AbsOf(q)) + 1)
      ELSE IF NegOf(q) THEN Reduce(TRUE, (AbsOf(p) ^^ (AbsOf(q) - 1)) + 1)
      ELSE Reduce(FALSE, AbsOf(p) ^^ AbsOf(q))

LogNot(z) ==
  IF IsLong(z) THEN Long(-z.n - 1)
  ELSE IF NegOf(z) THEN Reduce(FALSE, AbsOf(z) - 1)
  ELSE Reduce(TRUE, AbsOf(z) + 1)

(* The fast path compares with the word less its tag, and never applies.   *)
ShiftLeft(z, c) ==
  LET word    == Tagged(z.n)
      shifted == Wrap(word * 2^(c % W))
  IN  IF c < 0 THEN InvalidArg
      ELSE IF c = 0 THEN z
      ELSE IF IsLong(z) /\ c < W /\ word - 1 = shifted \div 2^(c % W)
        THEN Long(Untagged(shifted))
        ELSE Reduce(NegOf(z), AbsOf(z) * 2^c)

(* Rounds down: the magnitude of a negative number is rounded up when a    *)
(* bit that is not zero was shifted out, of a limb or with whole limbs.    *)

ShiftRight(z, c) ==
  IF c < 0 THEN InvalidArg
  ELSE IF c = 0 THEN z
  ELSE IF IsLong(z) THEN
         IF c >= W THEN Long(IF z.n < 0 THEN -1 ELSE 0)
                   ELSE Long(Untagged(Tagged(z.n) \div 2^c))
  ELSE IF c \div W >= SizeOf(z) THEN Long(IF NegOf(z) THEN -1 ELSE 0)
  ELSE LET limbs   == AbsOf(z) \div B^(c \div W)
           carry   == limbs % 2^(c % W) # 0 \/ Low(AbsOf(z), c \div W) # 0
       IN  Reduce(NegOf(z), limbs \div 2^(c % W) + (IF NegOf(z) /\ carry THEN 1 ELSE 0))

(* Rounds towards zero.  On a negative integer the fast path works on the  *)
(* word of its opposite, 2 - word, which wraps for the smallest integer.   *)
ShiftRightTrunc(z, c) ==
  LET word == Tagged(z.n)
      tag1(t) == 2 * (t \div 2) + 1
  IN  IF c < 0 THEN InvalidArg
      ELSE IF c = 0 THEN z
      ELSE IF IsLong(z) THEN
             IF c >= W THEN Long(0)
             ELSE IF word >= 1 THEN Long(Untagged(word \div 2^c))
             ELSE Long(Untagged(Wrap(2 - tag1(Wrap(2 - word) \div 2^c))))
      ELSE IF c \div W >= SizeOf(z) THEN Long(0)
      ELSE Reduce(NegOf(z), AbsOf(z) \div 2^c)

(* The number of bits of the most significant limb, and those below it. *)
BitLength[a \in Nat] == IF a = 0 THEN 0 ELSE 1 + BitLength[a \div 2]
Clz(limb) == W - BitLength[limb]
Ctz[limb \in Nat] == IF limb % 2 = 1 THEN 0 ELSE 1 + Ctz[limb \div 2]
PopCount[a \in Nat] == IF a = 0 THEN 0 ELSE (a % 2) + PopCount[a \div 2]

NumBits(z) ==
  IF AbsOf(z) = 0 THEN 0
  ELSE SizeOf(z) * W - Clz(AbsOf(z) \div B^(SizeOf(z) - 1))

TrailingZeros(z) ==
  LET limb(i) == (AbsOf(z) \div B^i) % B
      first   == CHOOSE i \in 0..SizeOf(z) : limb(i) # 0 /\ \A j \in 0..(i - 1) : limb(j) = 0
  IN  IF AbsOf(z) = 0 THEN MaxInt
      ELSE IF IsLong(z) THEN Ctz[z.n % B]
      ELSE first * W + Ctz[limb(first)]

Popcount(z) ==
  IF NegOf(z) THEN Overflow ELSE Long(PopCount[AbsOf(z)])

(* Two negative integers have a distance, two numbers of which one is a    *)
(* block do not: the fast path works on the words, the other one refuses.  *)
HamDist(x, y) ==
  LET sz == IF SizeOf(x) <= SizeOf(y) THEN SizeOf(x) ELSE SizeOf(y)
  IN  IF NegOf(x) # NegOf(y) THEN Overflow
      ELSE IF IsLong(x) /\ IsLong(y) THEN Long(PopCount[(x.n % B) ^^ (y.n % B)])
      ELSE IF NegOf(x) THEN InvalidArg
      ELSE Long(PopCount[Low(AbsOf(x), sz) ^^ Low(AbsOf(y), sz)]
               + PopCount[AbsOf(x) \div B^sz] + PopCount[AbsOf(y) \div B^sz])

(* A limb of a negative number is complemented if a limb below it is not   *)
(* zero, and negated otherwise.                                            *)
TestBit(z, i) ==
  LET limb  == (AbsOf(z) \div B^(i \div W)) % B
      seen  == IF ~NegOf(z) THEN limb
               ELSE IF Low(AbsOf(z), i \div W) # 0 THEN B - 1 - limb ELSE -limb
  IN  IF IsLong(z) THEN Bit(z.n, IF i >= W THEN W - 1 ELSE i) = 1
      ELSE IF i \div W >= SizeOf(z) THEN NegOf(z)
      ELSE Bit(seen, i % W) = 1

(* Bits o to o + l - 1.  The limbs that hold them are shifted in place,    *)
(* complemented for a negative number, and incremented if everything below *)
(* them is zero; the last limb is then cut at l bits.                      *)
Extract(z, o, l) ==
  LET sz    == (l + W - 1) \div W
      c1    == o \div W
      clip  == IF o >= W THEN W - 1 ELSE o
      room  == Low(AbsOf(z) \div B^c1, sz + 1)
      bits  == Low(room \div 2^(o % W), sz)
      clean == room % 2^(o % W) = 0 /\ Low(AbsOf(z), c1) = 0
      compl == IF ~NegOf(z) THEN bits
               ELSE Low(B^sz - 1 - bits + (IF clean THEN 1 ELSE 0), sz)
  IN  IF o < 0 \/ l <= 0 THEN InvalidArg
      ELSE IF IsLong(z) /\ l < W - 1 THEN Long((z.n \div 2^clip) % 2^l)
      ELSE IF IsLong(z) /\ z.n >= 0 THEN Long(z.n \div 2^clip)
      ELSE Reduce(FALSE, compl % 2^l)

(* signed_extract and log2 of z.mlp, for valid arguments. *)
SignedExtract(z, o, l) ==
  IF TestBit(z, o + l - 1) THEN LogNot(Extract(LogNot(z), o, l)) ELSE Extract(z, o, l)
=============================================================================
