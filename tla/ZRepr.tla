------------------------------- MODULE ZRepr -------------------------------
(***************************************************************************)
(* The numbers of the Z module (src/duniverse/Zarith/caml_z.c): an OCaml   *)
(* integer of W - 1 bits, or a custom block with a sign and an array of    *)
(* limbs of W bits.  The limbs are kept as the natural number they encode; *)
(* what the mpn_ functions of GMP do is done on that number, and the size  *)
(* of the array is computed where the code looks at it.                    *)
(***************************************************************************)
EXTENDS Integers

CONSTANT W    \* bits of an intnat and of a mp_limb_t, 64 in the usual build

ASSUME WordAssumption == W \in Nat /\ W >= 4 /\ W % 2 = 0

Quarter == 2^(W - 2)
ASSUME QuarterAssumption == Quarter \in Nat /\ Quarter > 0

B       == 4 * Quarter            \* a limb is smaller than B
MaxInt  == Quarter - 1            \* Z_MAX_INT
MinInt  == -Quarter               \* Z_MIN_INT
MaxHint == 2^(W \div 2 - 2) - 1   \* Z_MAX_HINT

(* Two numbers up to the hint have a product that fits.                     *)
ASSUME HintAssumption == MaxHint \in Nat /\ 4 * (MaxHint + 1) * (MaxHint + 1) = Quarter

FitsInt(v)  == v \in MinInt..MaxInt
FitsHint(v) == v \in -MaxHint..MaxHint

(* The outcome of a computation in an intnat, which wraps. *)
Wrap(v) == ((v + 2 * Quarter) % B) - 2 * Quarter

(* Val_long and Long_val: the machine word that encodes an integer. *)
Tagged(n)   == Wrap(2 * n + 1)
Untagged(t) == t \div 2

Long(n)        == [tag |-> "int", n |-> Untagged(Tagged(n))]
Block(neg, a) == [tag |-> "block", neg |-> neg, abs |-> a]
IsLong(z)     == z.tag = "int"

Raise(e)      == [tag |-> "exn", exn |-> e]
Overflow      == Raise("Overflow")
DivideByZero  == Raise("Division_by_zero")
InvalidArg    == Raise("Invalid_argument")
IsZ(r)        == r.tag \in {"int", "block"}

(* Z_ARG: the sign and the magnitude a primitive works on. *)
NegOf(z) == IF IsLong(z) THEN z.n < 0 ELSE z.neg
AbsOf(z) == IF IsLong(z) THEN (IF z.n < 0 THEN -z.n ELSE z.n) ELSE z.abs

Size[a \in Nat] == IF a = 0 THEN 0 ELSE 1 + Size[a \div B]
SizeOf(z)       == Size[AbsOf(z)]
Low(a, sz)      == a % B^sz          \* the sz first limbs of a

(* The number a value stands for: no part of the code. *)
Value(z) == IF NegOf(z) THEN -AbsOf(z) ELSE AbsOf(z)

(* Mutants: zero stays in a block; the bound itself stays in a block.      *)
ReduceBelow(neg, a) ==
  IF a < MaxInt THEN Long(IF neg THEN -a ELSE a) ELSE Block(neg, a)

(* ml_z_reduce *)
Reduce(neg, a) ==
  IF a <= MaxInt THEN Long(IF neg THEN -a ELSE a) ELSE Block(neg, a)

Sgn(z) == IF Value(z) > 0 THEN 1 ELSE IF Value(z) < 0 THEN -1 ELSE 0

(* Comparisons look at the magnitudes only when the signs agree. *)
Compare(x, y) ==
  IF IsLong(x) /\ IsLong(y)
    THEN IF x.n > y.n THEN 1 ELSE IF x.n < y.n THEN -1 ELSE 0
    ELSE LET r == IF NegOf(x) # NegOf(y) \/ AbsOf(x) > AbsOf(y) THEN 1
                  ELSE IF AbsOf(x) < AbsOf(y) THEN -1 ELSE 0
         IN  IF NegOf(x) THEN -r ELSE r

EqualAsHeld(x, y) ==     \* mutant: an integer never equals a block
  IF IsLong(x) \/ IsLong(y) THEN x = y
  ELSE NegOf(x) = NegOf(y) /\ AbsOf(x) = AbsOf(y)

CustomCompare(x, y) == Compare(x, y)     \* its copy for polymorphic comparison

Equal(x, y) ==
  IF IsLong(x) /\ IsLong(y) THEN x.n = y.n
  ELSE NegOf(x) = NegOf(y) /\ AbsOf(x) = AbsOf(y)

(* Z.hash mixes the limbs and then the sign; what it mixes is kept. *)
Hash(z) == <<NegOf(z), AbsOf(z)>>

(* Conversions to a machine integer of w bits, and the test before them.   *)
(* An OCaml integer fits every type but int32.                             *)
InRange(z, w) ==
  /\ SizeOf(z) <= 1
  /\ IF NegOf(z) THEN AbsOf(z) <= 2^(w - 1) ELSE AbsOf(z) < 2^(w - 1)

FitsIn(z, w) ==
  IF IsLong(z) /\ w >= W - 1 THEN TRUE
  ELSE IF IsLong(z) THEN ~(z.n >= 2^(w - 1) \/ z.n < -(2^(w - 1)))
  ELSE InRange(z, w)

To(z, w) ==
  IF FitsIn(z, w)
    THEN [tag |-> "native", n |-> IF IsLong(z) THEN z.n ELSE
                                  IF NegOf(z) THEN -AbsOf(z) ELSE AbsOf(z)]
    ELSE Overflow

OfNative(n) == IF FitsInt(n) THEN Long(n) ELSE Block(n < 0, IF n < 0 THEN -n ELSE n)
=============================================================================
