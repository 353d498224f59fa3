------------------------------- MODULE ZConv -------------------------------
(***************************************************************************)
(* The ways in and out of a number of src/duniverse/Zarith/caml_z.c:       *)
(* floats, strings of digits, formats, strings of bits and marshalled      *)
(* blocks.  A string is a sequence of characters, a byte a number smaller  *)
(* than Byte, LimbBytes of them in a limb.                                 *)
(***************************************************************************)
EXTENDS ZRepr, Sequences

CONSTANTS Precision,   \* bits of the mantissa of a float, 52 for a double
          LimbBytes    \* sizeof(mp_limb_t)

ASSUME ConvAssumption == /\ Precision \in Nat /\ Precision < W - 2
                         /\ LimbBytes \in Nat /\ LimbBytes % 2 = 0 /\ W % LimbBytes = 0

Byte == 2^(W \div LimbBytes)

(* A float [special, neg, exp, frac] is infinite or not a number, or it is *)
(* +-(2^Precision + frac) * 2^(exp - Precision).                           *)
MaxIntFl    == 2^(W - 2) - 2^(W - Precision)     \* Z_MAX_INT_FL
Mantissa(f) == 2^Precision + f.frac
Shifted(m, k) == IF k >= 0 THEN m * 2^k ELSE m \div 2^(-k)

OfFloat(f) ==
  LET whole == Shifted(Mantissa(f), f.exp - Precision)
      signed(n) == IF f.neg THEN -n ELSE n
  IN  IF f.special THEN Overflow
      ELSE IF f.exp < 0 THEN Long(0)
      ELSE IF Mantissa(f) * 2^f.exp <= MaxIntFl * 2^Precision THEN Long(signed(whole))
      ELSE IF f.exp <= Precision THEN Long(signed(whole))
      ELSE Reduce(f.neg, whole)

(***************************************************************************)
(* Strings                                                                 *)
(***************************************************************************)
LowerDigits == <<"0","1","2","3","4","5","6","7","8","9","a","b","c","d","e","f">>
UpperDigits == <<"0","1","2","3","4","5","6","7","8","9","A","B","C","D","E","F">>
IsDigit(c, base) == \E i \in 1..base : c \in {LowerDigits[i], UpperDigits[i]}
DigitOf(c) == CHOOSE d \in 0..15 : c \in {LowerDigits[d + 1], UpperDigits[d + 1]}

(* The digits of s, most significant first, as a number. *)
Number(s, base) ==
  LET n[i \in 0..Len(s)] == IF i = 0 THEN 0 ELSE n[i - 1] * base + DigitOf(s[i])
  IN  n[Len(s)]

(* The longest strings of digits read in an intnat: (W - 2) log_base(2).   *)
LengthOver(base) ==     \* mutant: one digit more
  CHOOSE l \in 1..(W + 1) : base^(l - 1) <= 2^(W - 2) /\ base^l > 2^(W - 2)
LengthOp(base) == CHOOSE l \in 0..W : base^l <= 2^(W - 2) /\ base^(l + 1) > 2^(W - 2)

(* The prefix is read at d without looking at the end of the substring; the *)
(* terminating null stops it, read here as the character "".  What is left  *)
(* of the substring after it are the digits.                                *)
OfSubstringBase(base0, s, ofs, len) ==
  LET at(d)  == IF d <= Len(s) THEN s[d] ELSE ""
      start  == ofs + 1
      minus  == at(start) = "-"
      d1     == IF minus THEN start + 1 ELSE start
      d2     == IF at(d1) = "+" THEN d1 + 1 ELSE d1
      zero   == base0 = 0 /\ at(d2) = "0"
      mark   == IF zero THEN at(d2 + 1) ELSE ""
      base   == IF base0 # 0 THEN base0
                ELSE IF mark \in {"o", "O"} THEN 8 ELSE IF mark \in {"x", "X"} THEN 16
                ELSE IF mark \in {"b", "B"} THEN 2 ELSE 10
      d3     == IF ~zero THEN d2
                ELSE IF mark \in {"o", "O", "x", "X", "b", "B"} THEN d2 + 2 ELSE d2 + 1
      d4     == CHOOSE d \in d3..(Len(s) + 1) :
                  at(d) # "0" /\ \A e \in d3..(d - 1) : at(e) = "0"
      digits == SubSeq(s, d4, ofs + len)
      n      == Number(digits, base)
  IN  IF ofs < 0 \/ len < 0 \/ Len(s) < ofs + len \/ base < 2 \/ base > 16 THEN InvalidArg
      ELSE IF d4 > ofs + len THEN Long(0)
      ELSE IF \E i \in 1..Len(digits) : ~IsDigit(digits[i], base) THEN InvalidArg
      ELSE IF base \in {2, 8, 10, 16} /\ Len(digits) <= LengthOp(base)
        THEN Long(Wrap(IF minus THEN -n ELSE n))
        ELSE Reduce(minus, n)

(* mpn_get_str *)
Digits(a, base, tab) ==
  LET s[n \in Nat] == IF n = 0 THEN << >> ELSE Append(s[n \div base], tab[(n % base) + 1])
  IN  IF a = 0 THEN <<"0">> ELSE s[a]

Times(c, n) == [i \in 1..(IF n > 0 THEN n ELSE 0) |-> c]

(* A format once read: its flags # 0 - and the sign among "", " " and "+", *)
(* its width and its conversion.                                           *)
Base(f)   == CASE f.conv = "b" -> 2 [] f.conv = "o" -> 8
               [] f.conv \in {"x", "X"} -> 16 [] OTHER -> 10
Prefix(f) == IF f.alt /\ f.conv # "d" THEN <<"0", f.conv>> ELSE << >>

Format(f, z) ==
  LET sign   == IF NegOf(z) THEN <<"-">> ELSE IF f.sign = "" THEN << >> ELSE <<f.sign>>
      digits == Digits(AbsOf(z), Base(f), IF f.conv = "X" THEN UpperDigits ELSE LowerDigits)
      head   == sign \o Prefix(f)
      room   == f.width - Len(head) - Len(digits)
  IN  IF f.left THEN head \o digits \o Times(" ", room)
      ELSE IF f.zero THEN head \o Times("0", room) \o digits
      ELSE Times(" ", room) \o head \o digits

(* The buffer of format: the digits start after room for a sign, a prefix  *)
(* and the width, mpn_get_str may put a zero before them, everything else  *)
(* is written before them or, on the left, after.                          *)
FormatBuffer(f, z, lead) ==
  LET text   == Len(Format(f, z))
      digits == Len(Digits(AbsOf(z), Base(f), LowerDigits))
      after  == IF f.left
                  THEN text - digits - Len(Prefix(f)) - (IF NegOf(z) \/ f.sign # "" THEN 1 ELSE 0)
                  ELSE 0
      first  == 3 + f.width + lead + digits + after - text
  IN  [size |-> 3 + W * SizeOf(z) + 1 + 2 * f.width + 1, first |-> first, last |-> first + text]

(***************************************************************************)
(* Bytes                                                                   *)
(***************************************************************************)
BytesOf(a, n) == [i \in 1..n |-> (a \div Byte^(i - 1)) % Byte]
OfBytes(s) ==
  LET n[i \in 0..Len(s)] == IF i = 0 THEN 0 ELSE n[i - 1] + s[i] * Byte^(i - 1)
  IN  n[Len(s)]

ToBits(z) == BytesOf(AbsOf(z), SizeOf(z) * LimbBytes)
OfBits(s) == Reduce(FALSE, OfBytes(s))

(* A block marshalled by a process whose limbs have k bytes, and read by   *)
(* this one: always a block, even if the number fits in an int here.       *)
LimbsOf(a, k) ==
  CHOOSE n \in 0..(a + 1) : a < Byte^(k * n) /\ \A m \in 0..(n - 1) : a >= Byte^(k * m)
Serialize(neg, a, k) == [neg |-> neg, bytes |-> BytesOf(a, k * LimbsOf(a, k))]
Deserialize(m)       == Block(m.neg, OfBytes(m.bytes))
=============================================================================
