------------------------------ MODULE Passes_proofs ----------------------------
(***************************************************************************)
(* Proofs about the plan of a driver, for any transformations, names,      *)
(* options and bounds: what FlattenSeq, the filter and the sort return,    *)
(* what each part of the plan calls, and that what has run and what is     *)
(* left to run are together the plan.                                      *)
(***************************************************************************)
EXTENDS Passes, SequenceTheorems, FiniteSetTheorems, NaturalsInduction,
        WellFoundedInduction, TLAPS

\* A set of natural numbers that is not empty has a least element.
LEMMA LeastExists ==
  ASSUME NEW S \in SUBSET Nat, S # {}
  PROVE  \E x \in S : \A y \in S : x <= y
<1>1. PICK x \in S : \A y \in S : ~(<<y, x>> \in OpToRel(<, Nat))
  BY NatLessThanWellFounded, WFMin, Zenon
<1>2. \A y \in S : x <= y
  <2>. TAKE y \in S
  <2>1. <<y, x>> \in OpToRel(<, Nat) <=> y < x
    BY DEF OpToRel
  <2>2. ~(y < x)
    BY <1>1, <2>1, Zenon
  <2>. QED  BY <2>2
<1>. QED  BY <1>2

IsFlatten(f, seqs, n) ==
  f = [i \in 1..n |-> IF i = 1 THEN seqs[i] ELSE f[i - 1] \o seqs[i]]

\* If the function did not exist for some length, there would be a least one; it
\* extends the function for the length before.
LEMMA FlattenExists ==
  ASSUME NEW seqs, NEW n \in Nat
  PROVE  \E f : IsFlatten(f, seqs, n)
<1>. DEFINE Without == {m \in Nat : ~\E f : IsFlatten(f, seqs, m)}
<1>. SUFFICES ASSUME Without # {} PROVE FALSE
  OBVIOUS
<1>1. PICK m \in Without : \A k \in Without : m <= k
  <2>1. Without \in SUBSET Nat
    OBVIOUS
  <2>. HIDE DEF Without
  <2>. QED  BY <2>1, LeastExists
<1>2. CASE m = 0
  <2>1. IsFlatten([i \in 1..0 |-> <<>>], seqs, 0)
    BY DEF IsFlatten
  <2>. QED  BY <1>2, <2>1
<1>3. CASE m # 0
  <2>1. m - 1 \in Nat /\ m - 1 \notin Without
    BY <1>1, <1>3
  <2>2. PICK f : IsFlatten(f, seqs, m - 1)
    BY <2>1
  <2>. DEFINE g == [i \in 1..m |-> IF i < m THEN f[i]
                                   ELSE IF i = 1 THEN seqs[i] ELSE f[i - 1] \o seqs[i]]
  <2>3. ASSUME NEW i \in 1..m PROVE g[i] = IF i = 1 THEN seqs[i] ELSE g[i - 1] \o seqs[i]
    <3>1. i # 1 => g[i - 1] = f[i - 1]
      BY <1>1
    <3>2. g[i] = IF i = 1 THEN seqs[i] ELSE f[i - 1] \o seqs[i]
      <4>1. CASE i < m
        <5>1. g[i] = f[i] /\ i \in 1..(m - 1)
          BY <1>1, <4>1
        <5>. QED  BY <2>2, <5>1 DEF IsFlatten
      <4>2. CASE ~(i < m)
        BY <4>2
      <4>. QED  BY <4>1, <4>2
    <3>. HIDE DEF g
    <3>3. CASE i = 1
      BY <3>2, <3>3
    <3>4. CASE i # 1
      BY <3>1, <3>2, <3>4
    <3>. QED  BY <3>3, <3>4
  <2>4. g = [i \in 1..m |-> g[i]]
    OBVIOUS
  <2>5. IsFlatten(g, seqs, m)
    BY <2>3, <2>4 DEF IsFlatten
  <2>. QED  BY <2>5
<1>. QED  BY <1>2, <1>3

\* It is the only one, so its last value is the result.
LEMMA FlattenIs ==
  ASSUME NEW seqs, NEW n \in Nat, n > 0, Len(seqs) = n, NEW f, IsFlatten(f, seqs, n)
  PROVE  FlattenSeq(seqs) = f[n]
<1>. DEFINE flat == CHOOSE g : IsFlatten(g, seqs, n)
            Differ == {i \in 1..n : flat[i] # f[i]}
<1>1. IsFlatten(flat, seqs, n)
  BY FlattenExists
<1>2. FlattenSeq(seqs) = flat[n]
  BY DEF FlattenSeq, IsFlatten
<1>. HIDE DEF flat
<1>3. Differ = {}
  <2>. SUFFICES ASSUME Differ # {} PROVE FALSE
    OBVIOUS
  <2>1. PICK m \in Differ : \A k \in Differ : m <= k
    <3>1. Differ \in SUBSET Nat
      OBVIOUS
    <3>. HIDE DEF Differ
    <3>. QED  BY <3>1, LeastExists
  <2>2. m \in 1..n /\ flat[m] # f[m]
    BY <2>1
  <2>3. /\ flat[m] = IF m = 1 THEN seqs[m] ELSE flat[m - 1] \o seqs[m]
        /\ f[m] = IF m = 1 THEN seqs[m] ELSE f[m - 1] \o seqs[m]
    BY <1>1, <2>2 DEF IsFlatten
  <2>4. m # 1
    BY <2>2, <2>3
  <2>5. m - 1 \in 1..n /\ ~(m <= m - 1)
    BY <2>2, <2>4
  <2>6. flat[m - 1] = f[m - 1]
    BY <2>1, <2>5
  <2>. QED  BY <2>2, <2>3, <2>4, <2>6
<1>4. n \in 1..n
  OBVIOUS
<1>. QED  BY <1>2, <1>3, <1>4

\* No sequences, flattened.
LEMMA FlattenEmpty == FlattenSeq(<<>>) = <<>>
BY DEF FlattenSeq

\* One sequence more, and the types.
LEMMA FlattenAppend ==
  ASSUME NEW S, NEW seqs \in Seq(Seq(S)), NEW x \in Seq(S)
  PROVE  FlattenSeq(Append(seqs, x)) = FlattenSeq(seqs) \o x
<1>. DEFINE n == Len(seqs)
            u == Append(seqs, x)
<1>1. /\ n \in Nat /\ n + 1 \in Nat /\ n + 1 > 0 /\ Len(u) = n + 1 /\ u[n + 1] = x
      /\ \A i \in 1..n : u[i] = seqs[i]
  OBVIOUS
<1>2. PICK f : IsFlatten(f, u, n + 1)
  BY <1>1, FlattenExists
<1>3. FlattenSeq(u) = f[n + 1]
  <2>. HIDE DEF u, n
  <2>. QED  BY <1>1, <1>2, FlattenIs
<1>4. f[n + 1] = IF n + 1 = 1 THEN x ELSE f[n] \o x
  <2>. DEFINE m == n + 1
  <2>1. m \in 1..m /\ m - 1 = n
    BY <1>1
  <2>2. f[m] = IF m = 1 THEN u[m] ELSE f[m - 1] \o u[m]
    <3>. HIDE DEF m, u
    <3>. QED  BY <1>2, <2>1 DEF IsFlatten, m
  <2>. QED  BY <1>1, <2>1, <2>2
<1>5. CASE n = 0
  <2>1. seqs = <<>>
    BY <1>5
  <2>2. FlattenSeq(seqs) = <<>> /\ <<>> \o x = x
    BY <2>1, FlattenEmpty, ConcatEmptySeq
  <2>. QED  BY <1>3, <1>4, <1>5, <2>2
<1>6. CASE n # 0
  <2>. DEFINE g == [i \in 1..n |-> f[i]]
  <2>1. ASSUME NEW i \in 1..n PROVE g[i] = IF i = 1 THEN seqs[i] ELSE g[i - 1] \o seqs[i]
    <3>1. i \in 1..(n + 1) /\ u[i] = seqs[i]
      BY <1>1
    <3>2. f[i] = IF i = 1 THEN u[i] ELSE f[i - 1] \o u[i]
      <4>. HIDE DEF u, n
      <4>. QED  BY <1>2, <3>1 DEF IsFlatten
    <3>3. g[i] = f[i] /\ (i # 1 => g[i - 1] = f[i - 1])
      BY <1>1
    <3>. HIDE DEF g, u
    <3>. QED  BY <3>1, <3>2, <3>3
  <2>2. g = [i \in 1..n |-> g[i]]
    OBVIOUS
  <2>3. IsFlatten(g, seqs, n)
    BY <2>1, <2>2 DEF IsFlatten
  <2>4. n > 0 /\ n \in 1..n
    BY <1>1, <1>6
  <2>5. FlattenSeq(seqs) = g[n]
    <3>. HIDE DEF g
    <3>. QED  BY <1>1, <2>3, <2>4, FlattenIs
  <2>6. g[n] = f[n]
    BY <2>4
  <2>7. n + 1 # 1
    BY <1>1, <1>6
  <2>. HIDE DEF g, n, u
  <2>8. FlattenSeq(u) = FlattenSeq(seqs) \o x
    BY <1>3, <1>4, <2>5, <2>6, <2>7
  <2>. QED  BY <2>8 DEF u
<1>. QED  BY <1>5, <1>6

\* A sequence that is not empty is what comes before its last element, and that.
LEMMA LastElement ==
  ASSUME NEW S, NEW s \in Seq(S), s # <<>>
  PROVE  \E t \in Seq(S), x \in S : s = Append(t, x) /\ Len(t) = Len(s) - 1
<1>. DEFINE n == Len(s)
            t == SubSeq(s, 1, n - 1)
<1>1. n \in Nat /\ n > 0 /\ n \in 1..n /\ \A i \in 1..n : s[i] \in S
  <2>1. n \in Nat /\ n # 0
    BY EmptySeq
  <2>. QED  BY <2>1, ElementOfSeq
<1>2. t \in Seq(S) /\ Len(t) = n - 1 /\ \A i \in 1..(n - 1) : t[i] = s[i]
  <2>1. \A i \in 1..(n - 1) : s[i] \in S
    BY <1>1
  <2>2. /\ t \in Seq(S) /\ Len(t) = IF 1 <= n - 1 THEN (n - 1) - 1 + 1 ELSE 0
        /\ \A i \in 1..((n - 1) - 1 + 1) : t[i] = s[1 + i - 1]
    <3>1. 1 \in Int /\ n - 1 \in Int
      BY <1>1
    <3>. QED  BY <2>1, <3>1, SubSeqProperties
  <2>. HIDE DEF t
  <2>3. \A i \in 1..(n - 1) : i \in 1..((n - 1) - 1 + 1) /\ 1 + i - 1 = i
    BY <1>1
  <2>4. \A i \in 1..(n - 1) : t[i] = s[i]
    <3>. TAKE i \in 1..(n - 1)
    <3>1. i \in 1..((n - 1) - 1 + 1) /\ 1 + i - 1 = i
      BY <2>3
    <3>2. t[i] = s[1 + i - 1]
      BY <2>2, <3>1
    <3>. HIDE DEF n
    <3>. QED  BY <3>1, <3>2
  <2>5. (IF 1 <= n - 1 THEN (n - 1) - 1 + 1 ELSE 0) = n - 1
    <3>. HIDE DEF n
    <3>. QED  BY <1>1
  <2>6. Len(t) = n - 1
    <3>. HIDE DEF n
    <3>. QED  BY <2>2, <2>5
  <2>. QED  BY <2>2, <2>4, <2>6
<1>3. s = Append(t, s[n])
  <2>. HIDE DEF t
  <2>1. Append(t, s[n]) \in Seq(S) /\ Len(Append(t, s[n])) = n
    BY <1>1, <1>2
  <2>2. \A i \in 1..n : s[i] = Append(t, s[n])[i]
    BY <1>1, <1>2
  <2>. QED  BY <2>1, <2>2, SeqEqual
<1>. QED  BY <1>1, <1>2, <1>3

\* Sequences over a set flatten to a sequence over it.
LEMMA FlattenTyped ==
  ASSUME NEW S, NEW seqs \in Seq(Seq(S))
  PROVE  FlattenSeq(seqs) \in Seq(S)
<1>. DEFINE Untyped == {m \in Nat : \E t \in Seq(Seq(S)) : Len(t) = m /\ FlattenSeq(t) \notin Seq(S)}
<1>1. Untyped = {}
  <2>. SUFFICES ASSUME Untyped # {} PROVE FALSE
    OBVIOUS
  <2>1. PICK m \in Untyped : \A k \in Untyped : m <= k
    <3>1. Untyped \in SUBSET Nat
      OBVIOUS
    <3>. HIDE DEF Untyped
    <3>. QED  BY <3>1, LeastExists
  <2>2. PICK t \in Seq(Seq(S)) : Len(t) = m /\ FlattenSeq(t) \notin Seq(S)
    BY <2>1
  <2>3. t # <<>>
    <3>1. <<>> \in Seq(S)
      OBVIOUS
    <3>. QED  BY <2>2, <3>1, FlattenEmpty
  <2>4. PICK u \in Seq(Seq(S)), x \in Seq(S) : t = Append(u, x) /\ Len(u) = Len(t) - 1
    BY <2>3, LastElement
  <2>5. Len(u) \in Nat /\ ~(m <= Len(u))
    BY <2>2, <2>4
  <2>6. FlattenSeq(u) \in Seq(S)
    BY <2>1, <2>5
  <2>7. FlattenSeq(t) = FlattenSeq(u) \o x
    BY <2>4, FlattenAppend
  <2>. QED  BY <2>2, <2>4, <2>6, <2>7, ConcatProperties
<1>2. Len(seqs) \in Nat
  OBVIOUS
<1>. QED  BY <1>1, <1>2

Associates(a, b, c) == (a \o b) \o c = a \o (b \o c)

\* Concatenation is associative; the name keeps the provers from unfolding it.
LEMMA Associative ==
  \A S : \A a, b, c \in Seq(S) : Associates(a, b, c)
BY ConcatAssociative DEF Associates

\* Flattening distributes over concatenation.
LEMMA FlattenConcat ==
  ASSUME NEW S, NEW a \in Seq(Seq(S)), NEW b \in Seq(Seq(S))
  PROVE  FlattenSeq(a \o b) = FlattenSeq(a) \o FlattenSeq(b)
<1>. DEFINE Fails(t) == FlattenSeq(a \o t) # FlattenSeq(a) \o FlattenSeq(t)
            Failing == {m \in Nat : \E t \in Seq(Seq(S)) : Len(t) = m /\ Fails(t)}
<1>0. FlattenSeq(a) \in Seq(S)
  BY FlattenTyped
<1>1. Failing = {}
  <2>. SUFFICES ASSUME Failing # {} PROVE FALSE
    OBVIOUS
  <2>1. PICK m \in Failing : \A k \in Failing : m <= k
    <3>1. Failing \in SUBSET Nat
      OBVIOUS
    <3>. HIDE DEF Failing
    <3>. QED  BY <3>1, LeastExists
  <2>2. PICK t \in Seq(Seq(S)) : Len(t) = m /\ Fails(t)
    BY <2>1
  <2>3. t # <<>>
    <3>1. a \o <<>> = a /\ FlattenSeq(a) \o <<>> = FlattenSeq(a)
      BY <1>0, ConcatEmptySeq
    <3>. QED  BY <2>2, <3>1, FlattenEmpty
  <2>4. PICK u \in Seq(Seq(S)), x \in Seq(S) : t = Append(u, x) /\ Len(u) = Len(t) - 1
    BY <2>3, LastElement
  <2>5. Len(u) \in Nat /\ ~(m <= Len(u))
    <3>1. m \in Nat /\ Len(u) \in Nat
      OBVIOUS
    <3>2. Len(u) = m - 1
      BY <2>2, <2>4
    <3>. HIDE DEF Failing, Fails
    <3>. QED  BY <3>1, <3>2
  <2>6. FlattenSeq(a \o u) = FlattenSeq(a) \o FlattenSeq(u)
    BY <2>1, <2>5
  <2>7. a \o t = Append(a \o u, x) /\ a \o u \in Seq(Seq(S))
    <3>. HIDE DEF Failing, Fails
    <3>1. <<x>> \in Seq(Seq(S))
      BY <2>4
    <3>2. a \o u \in Seq(Seq(S))
      BY ConcatProperties
    <3>3. t = u \o <<x>>
      BY <2>4, AppendIsConcat
    <3>4. Associates(a, u, <<x>>)
      BY <3>1, Associative
    <3>5. (a \o u) \o <<x>> = a \o t
      BY <3>3, <3>4 DEF Associates
    <3>6. Append(a \o u, x) = (a \o u) \o <<x>>
      BY <2>4, <3>2, AppendIsConcat
    <3>. QED  BY <3>2, <3>5, <3>6
  <2>8. FlattenSeq(a \o t) = (FlattenSeq(a) \o FlattenSeq(u)) \o x
    BY <2>6, <2>7, FlattenAppend
  <2>9. FlattenSeq(t) = FlattenSeq(u) \o x /\ FlattenSeq(u) \in Seq(S)
    BY <2>4, FlattenAppend, FlattenTyped
  <2>10. (FlattenSeq(a) \o FlattenSeq(u)) \o x = FlattenSeq(a) \o (FlattenSeq(u) \o x)
    <3>. HIDE DEF Failing, Fails
    <3>1. Associates(FlattenSeq(a), FlattenSeq(u), x)
      BY <1>0, <2>4, <2>9, Associative
    <3>. QED  BY <3>1 DEF Associates
  <2>. QED  BY <2>2, <2>8, <2>9, <2>10
<1>2. Len(b) \in Nat
  OBVIOUS
<1>. QED  BY <1>1, <1>2

\* Empty sequences flatten to the empty one.
LEMMA FlattenNothing ==
  ASSUME NEW S, NEW seqs \in Seq(Seq(S)), \A i \in 1..Len(seqs) : seqs[i] = <<>>
  PROVE  FlattenSeq(seqs) = <<>>
<1>. DEFINE n == Len(seqs)
            f == [i \in 1..n |-> <<>>]
<1>1. n \in Nat
  OBVIOUS
<1>2. CASE n = 0
  <2>1. seqs = <<>>
    BY <1>2
  <2>. QED  BY <2>1, FlattenEmpty
<1>3. CASE n # 0
  <2>1. <<>> \o <<>> = <<>>
    <3>1. <<>> \in Seq(S)
      OBVIOUS
    <3>. QED  BY <3>1, ConcatEmptySeq
  <2>2. \A i \in 1..n : f[i] = IF i = 1 THEN seqs[i] ELSE f[i - 1] \o seqs[i]
    <3>. TAKE i \in 1..n
    <3>1. f[i] = <<>> /\ seqs[i] = <<>> /\ (i # 1 => f[i - 1] = <<>>)
      BY <1>1
    <3>. HIDE DEF f
    <3>. QED  BY <2>1, <3>1
  <2>3. f = [i \in 1..n |-> f[i]]
    OBVIOUS
  <2>4. IsFlatten(f, seqs, n)
    BY <2>2, <2>3 DEF IsFlatten
  <2>5. n > 0 /\ n \in 1..n /\ f[n] = <<>>
    BY <1>1, <1>3
  <2>. HIDE DEF f
  <2>. QED  BY <1>1, <2>4, <2>5, FlattenIs
<1>. QED  BY <1>2, <1>3

--------------------------------------------------------------------------------
(***************************************************************************)
(* Sequences that have every element of a set, each once.                  *)
(***************************************************************************)
Lists(s, R) ==
  /\ s \in Seq(R)
  /\ \A i, j \in 1..Len(s) : s[i] = s[j] => i = j
  /\ \A r \in R : \E i \in 1..Len(s) : s[i] = r

\* Beginnings of a sequence.
First(s, m) == [i \in 1..m |-> s[i]]

\* The first elements of a sequence, and one more.
LEMMA FirstIs ==
  ASSUME NEW S, NEW s \in Seq(S)
  PROVE  /\ First(s, Len(s)) = s
         /\ First(s, 0) = <<>>
         /\ \A m \in 0..Len(s) : First(s, m) \in Seq(S) /\ Len(First(s, m)) = m
         /\ \A m \in 1..Len(s) : First(s, m) = Append(First(s, m - 1), s[m])
<1>. DEFINE n == Len(s)
<1>1. n \in Nat /\ \A i \in 1..n : s[i] \in S
  BY ElementOfSeq
<1>2. ASSUME NEW m \in 0..n
      PROVE  First(s, m) \in Seq(S) /\ Len(First(s, m)) = m /\ \A i \in 1..m : First(s, m)[i] = s[i]
  <2>. DEFINE f == First(s, m)
  <2>1. f \in [1..m -> S] /\ m \in Nat
    BY <1>1 DEF First
  <2>. QED  BY <2>1 DEF First
<1>3. First(s, n) = s
  <2>1. n \in 0..n
    BY <1>1
  <2>. QED  BY <1>2, <2>1, SeqEqual
<1>4. First(s, 0) = <<>>
  BY DEF First
<1>5. ASSUME NEW m \in 1..n PROVE First(s, m) = Append(First(s, m - 1), s[m])
  <2>. DEFINE f == First(s, m)
              g == First(s, m - 1)
              h == Append(g, s[m])
  <2>1. m \in 0..n /\ m - 1 \in 0..n /\ (m - 1) + 1 = m /\ m - 1 \in Nat
    BY <1>1
  <2>2. f \in Seq(S) /\ Len(f) = m /\ \A i \in 1..m : f[i] = s[i]
    BY <1>2, <2>1
  <2>3. g \in Seq(S) /\ Len(g) = m - 1 /\ \A i \in 1..(m - 1) : g[i] = s[i]
    BY <1>2, <2>1
  <2>. HIDE DEF f, g
  <2>4. s[m] \in S
    BY <1>1
  <2>5. h \in Seq(S) /\ Len(h) = m /\ h[m] = s[m] /\ \A i \in 1..(m - 1) : h[i] = g[i]
    BY <2>1, <2>3, <2>4, AppendProperties
  <2>. HIDE DEF h
  <2>6. \A i \in 1..m : f[i] = h[i]
    <3>. TAKE i \in 1..m
    <3>1. CASE i = m
      BY <2>2, <2>5, <3>1
    <3>2. CASE i # m
      <4>1. i \in 1..(m - 1)
        BY <3>2
      <4>. QED  BY <2>2, <2>3, <2>5, <4>1
    <3>. QED  BY <3>1, <3>2
  <2>7. f = h
    BY <2>2, <2>5, <2>6, SeqEqual
  <2>. QED  BY <2>7 DEF f, g, h
<1>. QED  BY <1>2, <1>3, <1>4, <1>5

\* The empty sequence lists the empty set.
LEMMA ListsNothing == Lists(<<>>, {})
BY DEF Lists

\* A sequence of one element lists it.
LEMMA ListsOne ==
  ASSUME NEW x PROVE Lists(<<x>>, {x})
<1>. DEFINE s == <<x>>
<1>1. s \in Seq({x}) /\ Len(s) = 1 /\ s[1] = x
  OBVIOUS
<1>. HIDE DEF s
<1>2. Lists(s, {x})
  BY <1>1 DEF Lists
<1>. QED  BY <1>2 DEF s

\* Sequences without an element in common, one after the other.
LEMMA ListsBoth ==
  ASSUME NEW s, NEW R, NEW t, NEW Q, Lists(s, R), Lists(t, Q), R \cap Q = {}
  PROVE  Lists(s \o t, R \cup Q)
<1>. DEFINE u == s \o t
            n == Len(s)
            m == Len(t)
            A == R \cup Q
<1>1. s \in Seq(R) /\ t \in Seq(Q) /\ n \in Nat /\ m \in Nat
  BY DEF Lists
<1>2. (\A i \in 1..n : s[i] \in R) /\ (\A i \in 1..m : t[i] \in Q)
  BY <1>1, ElementOfSeq
<1>3. s \in Seq(A) /\ t \in Seq(A)
  BY <1>1, <1>2
<1>4. /\ u \in Seq(A) /\ Len(u) = n + m
      /\ \A i \in 1..(n + m) : u[i] = IF i <= n THEN s[i] ELSE t[i - n]
  BY <1>3, ConcatProperties
<1>. HIDE DEF u
<1>5. \A i, j \in 1..(n + m) : u[i] = u[j] => i = j
  <2>. TAKE i, j \in 1..(n + m)
  <2>1. i \in 1..n \/ i - n \in 1..m
    BY <1>1
  <2>2. j \in 1..n \/ j - n \in 1..m
    BY <1>1
  <2>3. CASE i \in 1..n /\ j \in 1..n
    <3>1. i <= n /\ j <= n
      BY <2>3
    <3>2. u[i] = s[i] /\ u[j] = s[j]
      BY <1>4, <3>1
    <3>. QED  BY <2>3, <3>2 DEF Lists
  <2>4. CASE i \in 1..n /\ ~(j \in 1..n)
    <3>1. i <= n /\ ~(j <= n) /\ j - n \in 1..m
      BY <1>1, <2>2, <2>4
    <3>2. u[i] \in R /\ u[j] \in Q
      BY <1>2, <1>4, <2>4, <3>1
    <3>. QED  BY <3>2
  <2>5. CASE ~(i \in 1..n) /\ j \in 1..n
    <3>1. j <= n /\ ~(i <= n) /\ i - n \in 1..m
      BY <1>1, <2>1, <2>5
    <3>2. u[i] \in Q /\ u[j] \in R
      BY <1>2, <1>4, <2>5, <3>1
    <3>. QED  BY <3>2
  <2>6. CASE ~(i \in 1..n) /\ ~(j \in 1..n)
    <3>1. ~(i <= n) /\ i - n \in 1..m /\ ~(j <= n) /\ j - n \in 1..m
      BY <1>1, <2>1, <2>2, <2>6
    <3>2. u[i] = t[i - n] /\ u[j] = t[j - n]
      BY <1>4, <3>1
    <3>3. u[i] = u[j] => i - n = j - n
      BY <3>1, <3>2 DEF Lists
    <3>. QED  BY <1>1, <3>3
  <2>. QED  BY <2>3, <2>4, <2>5, <2>6
<1>6. \A r \in A : \E i \in 1..(n + m) : u[i] = r
  <2>. TAKE r \in A
  <2>1. CASE r \in R
    <3>1. PICK i \in 1..n : s[i] = r
      BY <2>1 DEF Lists
    <3>2. i \in 1..(n + m) /\ i <= n
      BY <1>1
    <3>. QED  BY <1>4, <3>1, <3>2
  <2>2. CASE r \in Q
    <3>1. PICK i \in 1..m : t[i] = r
      BY <2>2 DEF Lists
    <3>2. n + i \in 1..(n + m) /\ ~(n + i <= n) /\ (n + i) - n = i
      BY <1>1
    <3>. QED  BY <1>4, <3>1, <3>2
  <2>. QED  BY <2>1, <2>2
<1>7. Lists(u, A)
  BY <1>4, <1>5, <1>6 DEF Lists
<1>. QED  BY <1>7 DEF u

\* The reverse lists the same set.
LEMMA ListsReversed ==
  ASSUME NEW s, NEW R, Lists(s, R)
  PROVE  Lists(Reverse(s), R) /\ Len(Reverse(s)) = Len(s)
<1>. DEFINE n == Len(s)
            u == Reverse(s)
<1>1. s \in Seq(R) /\ n \in Nat /\ \A i \in 1..n : s[i] \in R
  BY ElementOfSeq DEF Lists
<1>2. \A i \in 1..n : n - i + 1 \in 1..n
  BY <1>1
<1>3. u \in [1..n -> R] /\ \A i \in 1..n : u[i] = s[n - i + 1]
  BY <1>1, <1>2 DEF Reverse
<1>. HIDE DEF u
<1>4. u \in Seq(R) /\ Len(u) = n
  BY <1>1, <1>3
<1>5. \A i, j \in 1..n : u[i] = u[j] => i = j
  <2>. TAKE i, j \in 1..n
  <2>. HAVE u[i] = u[j]
  <2>1. n - i + 1 \in 1..n /\ n - j + 1 \in 1..n /\ s[n - i + 1] = s[n - j + 1]
    BY <1>2, <1>3
  <2>2. \A a, b \in 1..n : s[a] = s[b] => a = b
    BY DEF Lists
  <2>. HIDE DEF n
  <2>3. n - i + 1 = n - j + 1
    BY <2>1, <2>2
  <2>. QED  BY <1>1, <2>3
<1>6. \A r \in R : \E i \in 1..n : u[i] = r
  <2>. TAKE r \in R
  <2>1. PICK i \in 1..n : s[i] = r
    BY DEF Lists
  <2>2. n - i + 1 \in 1..n /\ n - (n - i + 1) + 1 = i
    BY <1>1
  <2>. QED  BY <1>3, <2>1, <2>2
<1>7. Lists(u, R)
  BY <1>4, <1>5, <1>6 DEF Lists
<1>. QED  BY <1>4, <1>7 DEF u

\* A sequence of such sequences, whose sets have nothing in common.
\* Parts that list sets without an element in common, and what they list together:
\* names the provers keep closed.
EachLists(p, Rs) ==
  /\ \A i \in 1..Len(p) : Lists(p[i], Rs[i])
  /\ \A i, j \in 1..Len(p) : \A x : x \in Rs[i] /\ x \in Rs[j] => i = j
AllList(p, Rs) == Lists(FlattenSeq(p), UNION {Rs[i] : i \in 1..Len(p)})

\* Such parts, flattened.
LEMMA AllListed ==
  ASSUME NEW S, NEW p \in Seq(Seq(S)), NEW Rs, EachLists(p, Rs)
  PROVE  AllList(p, Rs)
<1>. SUFFICES ASSUME \A i \in 1..Len(p) : Lists(p[i], Rs[i]),
                     \A i, j \in 1..Len(p) : \A x : x \in Rs[i] /\ x \in Rs[j] => i = j
              PROVE  Lists(FlattenSeq(p), UNION {Rs[i] : i \in 1..Len(p)})
  BY DEF EachLists, AllList
<1>. DEFINE n == Len(p)
            U(m) == UNION {Rs[i] : i \in 1..m}
            Fails == {m \in Nat : m <= n /\ ~Lists(FlattenSeq(First(p, m)), U(m))}
<1>1. n \in Nat
  OBVIOUS
<1>2. Fails = {}
  <2>. SUFFICES ASSUME Fails # {} PROVE FALSE
    OBVIOUS
  <2>1. PICK m \in Fails : \A k \in Fails : m <= k
    <3>1. Fails \in SUBSET Nat
      OBVIOUS
    <3>. HIDE DEF Fails
    <3>. QED  BY <3>1, LeastExists
  <2>2. m \in Nat /\ m <= n /\ ~Lists(FlattenSeq(First(p, m)), U(m))
    BY <2>1
  <2>3. m # 0
    <3>1. U(0) = {}
      OBVIOUS
    <3>2. FlattenSeq(First(p, 0)) = <<>>
      BY FirstIs, FlattenEmpty
    <3>. HIDE DEF U
    <3>. QED  BY <2>2, <3>1, <3>2, ListsNothing
  <2>4. m \in 1..n /\ m - 1 \in Nat /\ m - 1 <= n /\ ~(m <= m - 1) /\ m - 1 \in 0..n
    BY <1>1, <2>2, <2>3
  <2>5. Lists(FlattenSeq(First(p, m - 1)), U(m - 1))
    BY <2>1, <2>4
  <2>6. Lists(p[m], Rs[m])
    BY <2>4
  <2>7. FlattenSeq(First(p, m)) = FlattenSeq(First(p, m - 1)) \o p[m]
    <3>1. First(p, m) = Append(First(p, m - 1), p[m]) /\ First(p, m - 1) \in Seq(Seq(S))
      BY <2>4, FirstIs
    <3>2. p[m] \in Seq(S)
      BY <2>4, ElementOfSeq
    <3>. QED  BY <3>1, <3>2, FlattenAppend
  <2>8. U(m - 1) \cap Rs[m] = {}
    <3>. SUFFICES ASSUME NEW x \in U(m - 1), x \in Rs[m] PROVE FALSE
      OBVIOUS
    <3>1. PICK i \in 1..(m - 1) : x \in Rs[i]
      OBVIOUS
    <3>2. i \in 1..n /\ i # m
      BY <2>4
    <3>. QED  BY <2>4, <3>1, <3>2
  <2>9. U(m) = U(m - 1) \cup Rs[m]
    <3>1. \A i : i \in 1..m <=> (i \in 1..(m - 1) \/ i = m)
      BY <2>4
    <3>2. \A x : x \in U(m) <=> x \in U(m - 1) \/ x \in Rs[m]
      BY <3>1
    <3>. HIDE DEF U
    <3>. QED  BY <3>2
  <2>. HIDE DEF U
  <2>10. Lists(FlattenSeq(First(p, m - 1)) \o p[m], U(m - 1) \cup Rs[m])
    <3>. DEFINE a == FlattenSeq(First(p, m - 1))
                b == p[m]
                A == U(m - 1)
                B == Rs[m]
    <3>1. Lists(a, A) /\ Lists(b, B) /\ A \cap B = {}
      BY <2>5, <2>6, <2>8
    <3>. HIDE DEF a, b, A, B
    <3>2. Lists(a \o b, A \cup B)
      BY <3>1, ListsBoth
    <3>. QED  BY <3>2 DEF a, b, A, B
  <2>. QED  BY <2>2, <2>7, <2>9, <2>10
<1>3. First(p, n) = p
  BY FirstIs
<1>4. Lists(FlattenSeq(First(p, n)), U(n))
  BY <1>1, <1>2
<1>. QED  BY <1>3, <1>4

\* What a filter leaves.
Kept(s, T) == FlattenSeq([i \in DOMAIN s |-> IF s[i] \in T THEN <<s[i]>> ELSE <<>>])

\* What List.filter keeps of a listing lists what passes the test.
LEMMA ListsKept ==
  ASSUME NEW s, NEW R, NEW T, Lists(s, R)
  PROVE  Lists(Kept(s, T), R \cap T)
<1>. DEFINE n == Len(s)
            p == [i \in DOMAIN s |-> IF s[i] \in T THEN <<s[i]>> ELSE <<>>]
            Rs == [i \in 1..n |-> {s[i]} \cap T]
<1>1. s \in Seq(R) /\ n \in Nat /\ DOMAIN s = 1..n /\ \A i \in 1..n : s[i] \in R
  BY ElementOfSeq DEF Lists
<1>2. \A i \in 1..n : p[i] = IF s[i] \in T THEN <<s[i]>> ELSE <<>>
  BY <1>1
<1>3. \A i \in 1..n : p[i] \in Seq(R) /\ Lists(p[i], Rs[i])
  <2>. TAKE i \in 1..n
  <2>1. CASE s[i] \in T
    <3>1. p[i] = <<s[i]>> /\ Rs[i] = {s[i]} /\ s[i] \in R
      BY <1>1, <1>2, <2>1
    <3>2. <<s[i]>> \in Seq(R)
      BY <3>1
    <3>. QED  BY <3>1, <3>2, ListsOne
  <2>2. CASE s[i] \notin T
    <3>1. p[i] = <<>> /\ Rs[i] = {} /\ <<>> \in Seq(R)
      BY <1>2, <2>2
    <3>. QED  BY <3>1, ListsNothing
  <2>. QED  BY <2>1, <2>2
<1>4. p \in Seq(Seq(R)) /\ Len(p) = n
  <2>1. p \in [1..n -> Seq(R)]
    BY <1>1, <1>3
  <2>. QED  BY <1>1, <2>1
<1>5. \A i, j \in 1..n : \A x : x \in Rs[i] /\ x \in Rs[j] => i = j
  <2>1. \A i, j \in 1..n : s[i] = s[j] => i = j
    BY DEF Lists
  <2>2. \A i \in 1..n : Rs[i] \subseteq {s[i]}
    OBVIOUS
  <2>. HIDE DEF Rs
  <2>. QED  BY <2>1, <2>2
<1>6. UNION {Rs[i] : i \in 1..n} = R \cap T
  <2>1. \A x : (\E i \in 1..n : x \in Rs[i]) <=> x \in R \cap T
    <3>. TAKE x
    <3>1. ASSUME NEW i \in 1..n, x \in Rs[i] PROVE x \in R \cap T
      BY <1>1, <3>1
    <3>2. ASSUME x \in R \cap T PROVE \E i \in 1..n : x \in Rs[i]
      <4>1. PICK i \in 1..n : s[i] = x
        BY <3>2 DEF Lists
      <4>. QED  BY <3>2, <4>1
    <3>. QED  BY <3>1, <3>2
  <2>. HIDE DEF Rs
  <2>. QED  BY <2>1
<1>. HIDE DEF p, Rs
<1>7. Lists(FlattenSeq(p), UNION {Rs[i] : i \in 1..n})
  <2>1. \A i \in 1..Len(p) : Lists(p[i], Rs[i])
    BY <1>3, <1>4
  <2>2. \A i, j \in 1..Len(p) : \A x : x \in Rs[i] /\ x \in Rs[j] => i = j
    BY <1>4, <1>5
  <2>3. Lists(FlattenSeq(p), UNION {Rs[i] : i \in 1..Len(p)})
    <3>1. EachLists(p, Rs)
      BY <2>1, <2>2 DEF EachLists
    <3>2. AllList(p, Rs)
      BY <1>4, <3>1, AllListed
    <3>. QED  BY <3>2 DEF AllList
  <2>. QED  BY <1>4, <2>3
<1>. QED  BY <1>6, <1>7 DEF Kept, p

--------------------------------------------------------------------------------
(***************************************************************************)
(* The sort of the enclosers.                                              *)
(***************************************************************************)
\* Where a transformation goes in a sorted sequence.
PlaceIn(s, t) == 1 + Cardinality({i \in DOMAIN s : s[i].given.name <= t.given.name})

\* How many elements go before one that is inserted.
LEMMA PlaceOf ==
  ASSUME NEW S, NEW s \in Seq(S), NEW t
  PROVE  LET before == {i \in DOMAIN s : s[i].given.name <= t.given.name}
         IN  IsFiniteSet(before) /\ Cardinality(before) \in 0..Len(s)
<1>. DEFINE before == {i \in DOMAIN s : s[i].given.name <= t.given.name}
<1>1. DOMAIN s = 1..Len(s) /\ Len(s) \in Nat
  OBVIOUS
<1>2. IsFiniteSet(1..Len(s)) /\ Cardinality(1..Len(s)) = Len(s)
  BY <1>1, FS_Interval
<1>3. before \subseteq 1..Len(s)
  BY <1>1
<1>. HIDE DEF before
<1>4. IsFiniteSet(before) /\ Cardinality(before) <= Len(s)
  BY <1>2, <1>3, FS_Subset
<1>5. Cardinality(before) \in Nat
  BY <1>4, FS_CardinalityType
<1>6. IsFiniteSet(before) /\ Cardinality(before) \in 0..Len(s)
  BY <1>1, <1>4, <1>5
<1>. QED  BY <1>6 DEF before

\* What Insert returns: t at its place, the others moved by at most one.
LEMMA InsertIs ==
  ASSUME NEW S, NEW s \in Seq(S), NEW t \in S
  PROVE  /\ Insert(s, t) \in Seq(S) /\ Len(Insert(s, t)) = Len(s) + 1
         /\ PlaceIn(s, t) \in 1..(Len(s) + 1)
         /\ \A i \in 1..(Len(s) + 1) :
              Insert(s, t)[i] = IF i < PlaceIn(s, t) THEN s[i]
                                ELSE IF i = PlaceIn(s, t) THEN t ELSE s[i - 1]
<1>. DEFINE n == Len(s)
            p == PlaceIn(s, t)
            u == Insert(s, t)
<1>1. n \in Nat /\ \A i \in 1..n : s[i] \in S
  BY ElementOfSeq
<1>2. p \in 1..(n + 1)
  <2>1. Cardinality({i \in DOMAIN s : s[i].given.name <= t.given.name}) \in 0..n
    BY PlaceOf
  <2>. QED  BY <1>1, <2>1 DEF PlaceIn
<1>3. u = [i \in 1..(n + 1) |-> IF i < p THEN s[i] ELSE IF i = p THEN t ELSE s[i - 1]]
  BY DEF Insert, PlaceIn
<1>. HIDE DEF p, u
<1>4. \A i \in 1..(n + 1) : u[i] = IF i < p THEN s[i] ELSE IF i = p THEN t ELSE s[i - 1]
  BY <1>3
<1>5. \A i \in 1..(n + 1) : u[i] \in S
  <2>. TAKE i \in 1..(n + 1)
  <2>1. CASE i < p
    <3>1. i \in 1..n
      BY <1>1, <1>2, <2>1
    <3>. QED  BY <1>1, <1>4, <2>1, <3>1
  <2>2. CASE i = p
    BY <1>2, <1>4, <2>2
  <2>3. CASE ~(i < p) /\ i # p
    <3>1. i - 1 \in 1..n
      BY <1>1, <1>2, <2>3
    <3>. QED  BY <1>1, <1>4, <2>3, <3>1
  <2>. QED  BY <2>1, <2>2, <2>3
<1>6. u \in [1..(n + 1) -> S]
  BY <1>3, <1>4, <1>5
<1>7. u \in Seq(S) /\ Len(u) = n + 1
  BY <1>1, <1>6
<1>. QED  BY <1>2, <1>4, <1>7 DEF p, u

\* Insert adds its element.
LEMMA ListsInserted ==
  ASSUME NEW s, NEW R, Lists(s, R), NEW t, t \notin R
  PROVE  Lists(Insert(s, t), R \cup {t})
<1>. DEFINE n == Len(s)
            A == R \cup {t}
            u == Insert(s, t)
<1>1. s \in Seq(R) /\ n \in Nat /\ \A i \in 1..n : s[i] \in R
  BY ElementOfSeq DEF Lists
<1>2. s \in Seq(A) /\ t \in A
  BY <1>1
<1>3. u \in Seq(A) /\ Len(u) = n + 1
  BY <1>2, InsertIs
<1>4. PICK p \in 1..(n + 1) :
        \A i \in 1..(n + 1) : u[i] = IF i < p THEN s[i] ELSE IF i = p THEN t ELSE s[i - 1]
  <2>. HIDE DEF A
  <2>1. /\ PlaceIn(s, t) \in 1..(n + 1)
        /\ \A i \in 1..(n + 1) :
             u[i] = IF i < PlaceIn(s, t) THEN s[i]
                    ELSE IF i = PlaceIn(s, t) THEN t ELSE s[i - 1]
    BY <1>2, InsertIs
  <2>. QED  BY <2>1
<1>. HIDE DEF u
<1>5. \A i \in 1..(n + 1) : (i < p => i \in 1..n /\ u[i] = s[i])
                            /\ (i = p => u[i] = t)
                            /\ (i > p => i - 1 \in 1..n /\ u[i] = s[i - 1])
  BY <1>1, <1>4
<1>6. \A i, j \in 1..n : s[i] = s[j] => i = j
  BY DEF Lists
<1>7. \A i, j \in 1..(n + 1) : u[i] = u[j] => i = j
  <2>. TAKE i, j \in 1..(n + 1)
  <2>. HAVE u[i] = u[j]
  <2>1. CASE i = p \/ j = p
    <3>1. u[i] = t /\ u[j] = t
      BY <1>5, <2>1
    <3>2. ~(i < p) /\ ~(i > p) /\ ~(j < p) /\ ~(j > p)
      BY <1>1, <1>5, <3>1
    <3>. QED  BY <1>1, <3>2
  <2>2. CASE i < p /\ j < p
    BY <1>5, <1>6, <2>2
  <2>3. CASE i > p /\ j > p
    <3>1. i - 1 \in 1..n /\ j - 1 \in 1..n /\ s[i - 1] = s[j - 1]
      BY <1>5, <2>3
    <3>2. i - 1 = j - 1
      BY <1>6, <3>1
    <3>. QED  BY <1>1, <3>2
  <2>4. CASE i < p /\ j > p
    <3>1. i \in 1..n /\ j - 1 \in 1..n /\ s[i] = s[j - 1]
      BY <1>5, <2>4
    <3>2. i = j - 1
      BY <1>6, <3>1
    <3>. QED  BY <1>1, <2>4, <3>2
  <2>5. CASE i > p /\ j < p
    <3>1. j \in 1..n /\ i - 1 \in 1..n /\ s[j] = s[i - 1]
      BY <1>5, <2>5
    <3>2. j = i - 1
      BY <1>6, <3>1
    <3>. QED  BY <1>1, <2>5, <3>2
  <2>. QED  BY <1>1, <2>1, <2>2, <2>3, <2>4, <2>5
<1>8. \A r \in A : \E i \in 1..(n + 1) : u[i] = r
  <2>. TAKE r \in A
  <2>1. CASE r = t
    BY <1>5, <2>1
  <2>2. CASE r \in R
    <3>1. PICK i \in 1..n : s[i] = r
      BY <2>2 DEF Lists
    <3>2. CASE i < p
      <4>1. i \in 1..(n + 1)
        BY <1>1
      <4>. QED  BY <1>5, <3>1, <3>2, <4>1
    <3>3. CASE ~(i < p)
      <4>1. i + 1 \in 1..(n + 1) /\ i + 1 > p /\ (i + 1) - 1 = i
        BY <1>1, <3>3
      <4>. QED  BY <1>5, <3>1, <4>1
    <3>. QED  BY <3>2, <3>3
  <2>. QED  BY <2>1, <2>2
<1>9. Lists(u, A)
  BY <1>3, <1>7, <1>8 DEF Lists
<1>. QED  BY <1>9 DEF u

IsSorting(f, ts, n) ==
  f = [m \in 0..n |-> IF m = 0 THEN <<>> ELSE Insert(f[m - 1], ts[m])]

\* If the function did not exist for some length, there would be a least one.
LEMMA SortingExists ==
  ASSUME NEW ts, NEW n \in Nat
  PROVE  \E f : IsSorting(f, ts, n)
<1>. DEFINE Without == {m \in Nat : ~\E f : IsSorting(f, ts, m)}
<1>. SUFFICES ASSUME Without # {} PROVE FALSE
  OBVIOUS
<1>1. PICK m \in Without : \A k \in Without : m <= k
  <2>1. Without \in SUBSET Nat
    OBVIOUS
  <2>. HIDE DEF Without
  <2>. QED  BY <2>1, LeastExists
<1>2. CASE m = 0
  <2>1. IsSorting([i \in 0..0 |-> <<>>], ts, 0)
    BY DEF IsSorting
  <2>. QED  BY <1>2, <2>1
<1>3. CASE m # 0
  <2>1. m - 1 \in Nat /\ m - 1 \notin Without
    BY <1>1, <1>3
  <2>2. PICK f : IsSorting(f, ts, m - 1)
    BY <2>1
  <2>. DEFINE g == [i \in 0..m |-> IF i < m THEN f[i] ELSE Insert(f[i - 1], ts[i])]
  <2>3. ASSUME NEW i \in 0..m PROVE g[i] = IF i = 0 THEN <<>> ELSE Insert(g[i - 1], ts[i])
    <3>1. i # 0 => g[i - 1] = f[i - 1]
      BY <1>1
    <3>2. g[i] = IF i = 0 THEN <<>> ELSE Insert(f[i - 1], ts[i])
      <4>1. CASE i < m
        <5>1. g[i] = f[i] /\ i \in 0..(m - 1)
          BY <1>1, <4>1
        <5>. QED  BY <2>2, <5>1 DEF IsSorting
      <4>2. CASE ~(i < m)
        <5>1. i = m /\ i # 0
          BY <1>1, <1>3, <4>2
        <5>2. g[i] = Insert(f[i - 1], ts[i])
          BY <4>2
        <5>. QED  BY <5>1, <5>2
      <4>. QED  BY <4>1, <4>2
    <3>. HIDE DEF g
    <3>3. CASE i = 0
      BY <3>2, <3>3
    <3>4. CASE i # 0
      BY <3>1, <3>2, <3>4
    <3>. QED  BY <3>3, <3>4
  <2>4. g = [i \in 0..m |-> g[i]]
    OBVIOUS
  <2>. HIDE DEF g
  <2>5. IsSorting(g, ts, m)
    BY <2>3, <2>4 DEF IsSorting
  <2>. QED  BY <2>5
<1>. QED  BY <1>2, <1>3

\* The sort is a function that satisfies its recursive equation.
LEMMA SortIs ==
  ASSUME NEW ts, Len(ts) \in Nat
  PROVE  \E f : IsSorting(f, ts, Len(ts)) /\ SortByName(ts) = f[Len(ts)]
<1>. DEFINE sorted == CHOOSE f : IsSorting(f, ts, Len(ts))
<1>1. IsSorting(sorted, ts, Len(ts))
  BY SortingExists
<1>2. SortByName(ts) = sorted[Len(ts)]
  BY DEF SortByName, IsSorting
<1>. QED  BY <1>1, <1>2

\* The elements of the sorted sequence are those of the sequence.
LEMMA ListsSorted ==
  ASSUME NEW ts, NEW R, Lists(ts, R)
  PROVE  Lists(SortByName(ts), R)
<1>. DEFINE n == Len(ts)
            B(m) == {ts[i] : i \in 1..m}
<1>1. ts \in Seq(R) /\ n \in Nat /\ n \in 0..n /\ \A i \in 1..n : ts[i] \in R
  BY ElementOfSeq DEF Lists
<1>2. PICK f : IsSorting(f, ts, n) /\ SortByName(ts) = f[n]
  BY <1>1, SortIs
<1>3. /\ f[0] = <<>>
      /\ \A m \in 1..n : f[m] = Insert(f[m - 1], ts[m])
  <2>1. 0 \in 0..n /\ \A m \in 1..n : m \in 0..n /\ m # 0
    BY <1>1
  <2>2. \A m \in 0..n : f[m] = IF m = 0 THEN <<>> ELSE Insert(f[m - 1], ts[m])
    BY <1>2 DEF IsSorting
  <2>. QED  BY <2>1, <2>2
<1>. DEFINE Fails == {m \in Nat : m <= n /\ ~Lists(f[m], B(m))}
<1>4. Fails = {}
  <2>. SUFFICES ASSUME Fails # {} PROVE FALSE
    OBVIOUS
  <2>1. PICK m \in Fails : \A k \in Fails : m <= k
    <3>1. Fails \in SUBSET Nat
      OBVIOUS
    <3>. HIDE DEF Fails
    <3>. QED  BY <3>1, LeastExists
  <2>2. m \in Nat /\ m <= n /\ ~Lists(f[m], B(m))
    BY <2>1
  <2>3. m # 0
    <3>1. B(0) = {}
      OBVIOUS
    <3>. HIDE DEF B
    <3>. QED  BY <1>3, <2>2, <3>1, ListsNothing
  <2>4. m \in 1..n /\ m - 1 \in Nat /\ m - 1 <= n /\ ~(m <= m - 1)
    BY <1>1, <2>2, <2>3
  <2>5. Lists(f[m - 1], B(m - 1))
    BY <2>1, <2>4
  <2>6. ts[m] \notin B(m - 1)
    <3>1. \A i, j \in 1..n : ts[i] = ts[j] => i = j
      BY DEF Lists
    <3>2. \A i \in 1..(m - 1) : i \in 1..n /\ i # m
      BY <2>4
    <3>. QED  BY <2>4, <3>1, <3>2
  <2>7. B(m) = B(m - 1) \cup {ts[m]}
    <3>1. \A i : i \in 1..m <=> (i \in 1..(m - 1) \/ i = m)
      BY <2>4
    <3>. QED  BY <3>1
  <2>8. f[m] = Insert(f[m - 1], ts[m])
    BY <1>3, <2>4
  <2>. HIDE DEF B
  <2>. QED  BY <2>2, <2>5, <2>6, <2>7, <2>8, ListsInserted
<1>5. B(n) = R
  <2>1. \A x : x \in R <=> \E i \in 1..n : x = ts[i]
    BY <1>1 DEF Lists
  <2>. QED  BY <2>1
<1>6. Lists(f[n], B(n))
  <2>1. n \in Nat /\ n <= n /\ n \notin Fails
    <3>. HIDE DEF Fails
    <3>. QED  BY <1>1, <1>4
  <2>. HIDE DEF B
  <2>. QED  BY <2>1
<1>. QED  BY <1>2, <1>5, <1>6

--------------------------------------------------------------------------------
(***************************************************************************)
(* What a list of passes calls on a file of one kind.                      *)
(***************************************************************************)
Call == Functions \X Nat
Pass == [Kind -> Seq(Call)]
Run(s, k) == FlattenSeq([i \in DOMAIN s |-> s[i][k]])

\* On a file of kind k all the calls of the passes s are in X.
OnlyCalls(s, k, X) == s \in Seq(Pass) /\ \A i \in 1..Len(s) : s[i][k] \in Seq(X)

\* The calls of passes are those the passes are made of.
LEMMA RunTyped ==
  ASSUME NEW X, NEW k \in Kind, NEW s, OnlyCalls(s, k, X)
  PROVE  /\ [i \in DOMAIN s |-> s[i][k]] \in Seq(Seq(X))
         /\ Len([i \in DOMAIN s |-> s[i][k]]) = Len(s)
         /\ Run(s, k) \in Seq(X)
<1>. DEFINE n == Len(s)
            p == [i \in DOMAIN s |-> s[i][k]]
<1>1. n \in Nat /\ DOMAIN s = 1..n /\ \A i \in 1..n : s[i][k] \in Seq(X)
  BY DEF OnlyCalls
<1>2. p \in [1..n -> Seq(X)]
  BY <1>1
<1>. HIDE DEF p
<1>3. p \in Seq(Seq(X)) /\ Len(p) = n
  BY <1>1, <1>2
<1>4. FlattenSeq(p) \in Seq(X)
  BY <1>3, FlattenTyped
<1>. QED  BY <1>3, <1>4 DEF p, Run

\* No passes, no calls.
LEMMA RunNothing ==
  ASSUME NEW k PROVE Run(<<>>, k) = <<>>
<1>1. [i \in DOMAIN <<>> |-> <<>>[i][k]] = <<>>
  OBVIOUS
<1>. QED  BY <1>1, FlattenEmpty DEF Run

\* What the passes a and then b call.
RunsBoth(a, b, k, X) ==
  Run(a \o b, k) = Run(a, k) \o Run(b, k) /\ OnlyCalls(a \o b, k, X)

\* Passes run one list after the other.
LEMMA RunConcat ==
  ASSUME NEW X, NEW k \in Kind, NEW a, NEW b, OnlyCalls(a, k, X), OnlyCalls(b, k, X)
  PROVE  RunsBoth(a, b, k, X)
<1>. DEFINE n == Len(a)
            m == Len(b)
            c == a \o b
            pa == [i \in DOMAIN a |-> a[i][k]]
            pb == [i \in DOMAIN b |-> b[i][k]]
            pc == [i \in DOMAIN c |-> c[i][k]]
            ab == pa \o pb
<1>1. /\ n \in Nat /\ m \in Nat /\ DOMAIN a = 1..n /\ DOMAIN b = 1..m
      /\ a \in Seq(Pass) /\ b \in Seq(Pass)
      /\ \A i \in 1..n : a[i][k] \in Seq(X)
      /\ \A i \in 1..m : b[i][k] \in Seq(X)
  BY DEF OnlyCalls
<1>2. /\ c \in Seq(Pass) /\ Len(c) = n + m /\ DOMAIN c = 1..(n + m)
      /\ \A i \in 1..(n + m) : c[i] = IF i <= n THEN a[i] ELSE b[i - n]
  <2>1. c \in Seq(Pass) /\ Len(c) = n + m
    BY <1>1, ConcatProperties
  <2>2. \A i \in 1..(n + m) : c[i] = IF i <= n THEN a[i] ELSE b[i - n]
    BY <1>1, ConcatProperties
  <2>. HIDE DEF c
  <2>. QED  BY <1>1, <2>1, <2>2
<1>. HIDE DEF c
<1>3. pa \in Seq(Seq(X)) /\ Len(pa) = n /\ \A i \in 1..n : pa[i] = a[i][k]
  BY <1>1, RunTyped
<1>4. pb \in Seq(Seq(X)) /\ Len(pb) = m /\ \A i \in 1..m : pb[i] = b[i][k]
  BY <1>1, RunTyped
<1>5. pc = [i \in 1..(n + m) |-> c[i][k]]
  BY <1>2
<1>. HIDE DEF pa, pb, pc
<1>6. /\ ab \in Seq(Seq(X)) /\ Len(ab) = n + m
      /\ \A i \in 1..(n + m) : ab[i] = IF i <= n THEN pa[i] ELSE pb[i - n]
  <2>. DEFINE Q == Seq(X)
  <2>. HIDE DEF Q, n, m
  <2>1. pa \in Seq(Q) /\ pb \in Seq(Q)
    BY <1>3, <1>4 DEF Q
  <2>2. /\ ab \in Seq(Q) /\ Len(ab) = Len(pa) + Len(pb)
        /\ \A i \in 1..(Len(pa) + Len(pb)) :
             ab[i] = IF i <= Len(pa) THEN pa[i] ELSE pb[i - Len(pa)]
    BY <2>1, ConcatProperties
  <2>. QED  BY <1>3, <1>4, <2>2 DEF Q
<1>. HIDE DEF ab
<1>7. \A i \in 1..(n + m) : pc[i] = ab[i]
  <2>. TAKE i \in 1..(n + m)
  <2>1. CASE i <= n
    <3>1. i \in 1..n
      BY <1>1, <2>1
    <3>. QED  BY <1>2, <1>3, <1>5, <1>6, <2>1, <3>1
  <2>2. CASE ~(i <= n)
    <3>1. i - n \in 1..m
      BY <1>1, <2>2
    <3>. QED  BY <1>2, <1>4, <1>5, <1>6, <2>2, <3>1
  <2>. QED  BY <2>1, <2>2
<1>8. pc = ab
  <2>1. ab = [i \in 1..(n + m) |-> ab[i]]
    BY <1>1, <1>6
  <2>. QED  BY <1>5, <1>7, <2>1
<1>9. FlattenSeq(ab) = FlattenSeq(pa) \o FlattenSeq(pb)
  BY <1>3, <1>4, FlattenConcat DEF ab
<1>10. OnlyCalls(c, k, X)
  <2>. SUFFICES ASSUME NEW i \in 1..(n + m) PROVE c[i][k] \in Seq(X)
    BY <1>2 DEF OnlyCalls
  <2>1. pc[i] \in Seq(X)
    <3>1. ab[i] \in Seq(X)
      BY <1>1, <1>6, ElementOfSeq
    <3>. QED  BY <1>7, <3>1
  <2>. QED  BY <1>5, <2>1
<1>. QED  BY <1>8, <1>9, <1>10 DEF Run, RunsBoth, pa, pb, pc, c

\* One pass makes its own calls.
LEMMA RunOne ==
  ASSUME NEW X, NEW k \in Kind, NEW x, x[k] \in Seq(X)
  PROVE  Run(<<x>>, k) = x[k]
<1>. DEFINE p == [i \in DOMAIN <<x>> |-> <<x>>[i][k]]
<1>1. p = <<x[k]>>
  OBVIOUS
<1>2. Append(<<>>, x[k]) = <<x[k]>> /\ <<>> \in Seq(Seq(X)) /\ <<>> \o x[k] = x[k]
  OBVIOUS
<1>3. FlattenSeq(<<x[k]>>) = x[k]
  BY <1>2, FlattenAppend, FlattenEmpty
<1>. HIDE DEF p
<1>. QED  BY <1>1, <1>3 DEF Run, p

\* The first pass makes its calls before the others, as RunPass does.
LEMMA RunHead ==
  ASSUME NEW X, NEW k \in Kind, NEW s, s # <<>>, OnlyCalls(s, k, X)
  PROVE  /\ Run(s, k) = Head(s)[k] \o Run(Tail(s), k)
         /\ OnlyCalls(Tail(s), k, X) /\ Head(s)[k] \in Seq(X)
<1>. DEFINE h == Head(s)
            t == Tail(s)
            n == Len(s)
<1>0. s \in Seq(Pass) /\ \A i \in 1..n : s[i][k] \in Seq(X)
  BY DEF OnlyCalls
<1>1. n \in Nat /\ n > 0 /\ h \in Pass /\ h = s[1] /\ 1 \in 1..n
  <2>1. n \in Nat /\ n # 0
    BY <1>0, EmptySeq
  <2>2. n > 0 /\ 1 \in 1..n
    BY <2>1
  <2>3. s[1] \in Pass
    BY <1>0, <2>2, ElementOfSeq
  <2>. QED  BY <2>1, <2>2, <2>3
<1>2. t \in Seq(Pass) /\ Len(t) = n - 1 /\ \A i \in 1..(n - 1) : t[i] = s[i + 1]
  BY <1>0, HeadTailProperties
<1>3. s = <<h>> \o t
  <2>. DEFINE c == <<h>> \o t
  <2>1. c \in Seq(Pass) /\ Len(c) = n /\ \A i \in 1..n : c[i] = s[i]
    <3>1. <<h>> \in Seq(Pass) /\ Len(<<h>>) = 1 /\ <<h>>[1] = h
      BY <1>1
    <3>2. c \in Seq(Pass) /\ Len(c) = 1 + (n - 1)
      BY <1>2, <3>1
    <3>3. ASSUME NEW i \in 1..n PROVE c[i] = s[i]
      <4>1. CASE i = 1
        <5>1. c[1] = <<h>>[1]
          BY <1>2, <3>1
        <5>. QED  BY <1>1, <3>1, <4>1, <5>1
      <4>2. CASE i # 1
        <5>1. i - 1 \in 1..(n - 1) /\ (i - 1) + 1 = i
          BY <1>1, <4>2
        <5>2. c[i] = t[i - 1]
          BY <1>1, <1>2, <3>1, <4>2, <5>1
        <5>. QED  BY <1>2, <5>1, <5>2
      <4>. QED  BY <4>1, <4>2
    <3>. HIDE DEF c
    <3>. QED  BY <1>1, <3>2, <3>3
  <2>. HIDE DEF c
  <2>2. s = c
    BY <1>0, <2>1, SeqEqual
  <2>. QED  BY <2>2 DEF c
<1>4. OnlyCalls(t, k, X)
  <2>1. \A i \in 1..Len(t) : t[i][k] \in Seq(X)
    BY <1>0, <1>1, <1>2
  <2>. QED  BY <1>2, <2>1 DEF OnlyCalls
<1>5. h[k] \in Seq(X)
  BY <1>0, <1>1
<1>. DEFINE g == <<h>>
<1>6. OnlyCalls(g, k, X)
  <2>1. g \in Seq(Pass) /\ Len(g) = 1 /\ g[1] = h
    BY <1>1
  <2>. HIDE DEF g
  <2>. QED  BY <1>5, <2>1 DEF OnlyCalls
<1>7. Run(g, k) = h[k]
  BY <1>5, RunOne
<1>. HIDE DEF h, t, g
<1>8. Run(g \o t, k) = Run(g, k) \o Run(t, k)
  <2>1. OnlyCalls(g, k, X)
    BY <1>6
  <2>2. OnlyCalls(t, k, X)
    BY <1>4
  <2>3. RunsBoth(g, t, k, X)
    BY <2>1, <2>2, RunConcat
  <2>. QED  BY <2>3 DEF RunsBoth
<1>. QED  BY <1>3, <1>4, <1>5, <1>7, <1>8 DEF h, t, g

\* Leaving out the passes without a function leaves out no call.
Filtered(q) == FlattenSeq([i \in DOMAIN q |-> IF HasFunction(q[i]) THEN <<q[i]>> ELSE <<>>])

\* Dropping the passes without a function changes no run (make_generic).
LEMMA FilteredRun ==
  ASSUME NEW X, NEW k \in Kind, NEW q, OnlyCalls(q, k, X)
  PROVE  Run(Filtered(q), k) = Run(q, k) /\ OnlyCalls(Filtered(q), k, X)
<1>. DEFINE n == Len(q)
            w == [i \in DOMAIN q |-> IF HasFunction(q[i]) THEN <<q[i]>> ELSE <<>>]
            F(m) == FlattenSeq(First(w, m))
            Good(m) == OnlyCalls(F(m), k, X) /\ Run(F(m), k) = Run(First(q, m), k)
            Fails == {m \in Nat : m <= n /\ ~Good(m)}
<1>1. /\ q \in Seq(Pass) /\ n \in Nat /\ DOMAIN q = 1..n
      /\ \A i \in 1..n : q[i] \in Pass /\ q[i][k] \in Seq(X)
  BY ElementOfSeq DEF OnlyCalls
<1>2. /\ \A i \in 1..n : w[i] = IF HasFunction(q[i]) THEN <<q[i]>> ELSE <<>>
      /\ w \in Seq(Seq(Pass)) /\ Len(w) = n
  <2>1. \A i \in 1..n : w[i] = IF HasFunction(q[i]) THEN <<q[i]>> ELSE <<>>
    BY <1>1
  <2>2. ASSUME NEW i \in 1..n PROVE w[i] \in Seq(Pass)
    <3>1. q[i] \in Pass
      BY <1>1
    <3>2. <<q[i]>> \in Seq(Pass) /\ <<>> \in Seq(Pass)
      BY <3>1
    <3>. HIDE DEF w
    <3>. QED  BY <2>1, <3>2
  <2>3. w \in [1..n -> Seq(Pass)]
    BY <1>1, <2>2
  <2>. HIDE DEF w
  <2>. QED  BY <1>1, <2>1, <2>3
<1>. HIDE DEF w
<1>3. Fails = {}
  <2>. SUFFICES ASSUME Fails # {} PROVE FALSE
    OBVIOUS
  <2>1. PICK m \in Fails : \A j \in Fails : m <= j
    <3>1. Fails \in SUBSET Nat
      OBVIOUS
    <3>. HIDE DEF Fails
    <3>. QED  BY <3>1, LeastExists
  <2>2. m \in Nat /\ m <= n /\ ~Good(m)
    BY <2>1
  <2>3. m # 0
    <3>1. First(w, 0) = <<>> /\ First(q, 0) = <<>>
      BY <1>1, <1>2, FirstIs
    <3>2. OnlyCalls(<<>>, k, X)
      BY DEF OnlyCalls
    <3>3. Good(0)
      BY <3>1, <3>2, FlattenEmpty
    <3>. HIDE DEF Good
    <3>. QED  BY <2>2, <3>3
  <2>4. m \in 1..n /\ m \in 0..n /\ m - 1 \in 0..n /\ m - 1 \in Nat /\ m - 1 <= n /\ ~(m <= m - 1)
    BY <1>1, <2>2, <2>3
  <2>5. Good(m - 1)
    <3>. HIDE DEF Good
    <3>. QED  BY <2>1, <2>4
  <2>. DEFINE a == F(m - 1)
              b == w[m]
              c == First(q, m - 1)
              d == <<q[m]>>
  <2>6. F(m) = a \o b
    <3>. DEFINE Q == Seq(Pass)
    <3>. HIDE DEF Q
    <3>1. w \in Seq(Q)
      BY <1>2 DEF Q
    <3>2. First(w, m) = Append(First(w, m - 1), w[m])
      BY <1>2, <2>4, <3>1, FirstIs
    <3>3. First(w, m - 1) \in Seq(Q) /\ w[m] \in Q
      BY <1>2, <2>4, <3>1, FirstIs, ElementOfSeq
    <3>. QED  BY <3>2, <3>3, FlattenAppend DEF Q
  <2>7. First(q, m) = c \o d
    <3>1. First(q, m) = Append(First(q, m - 1), q[m]) /\ First(q, m - 1) \in Seq(Pass)
      BY <1>1, <2>4, FirstIs
    <3>2. q[m] \in Pass
      BY <1>1, <2>4
    <3>. QED  BY <3>1, <3>2, AppendIsConcat
  <2>8. OnlyCalls(a, k, X) /\ Run(a, k) = Run(c, k)
    BY <2>5
  <2>9. /\ OnlyCalls(d, k, X) /\ Run(d, k) = q[m][k]
    <3>1. q[m] \in Pass /\ q[m][k] \in Seq(X)
      BY <1>1, <2>4
    <3>2. d \in Seq(Pass) /\ Len(d) = 1 /\ d[1] = q[m]
      BY <3>1
    <3>3. Run(d, k) = q[m][k]
      BY <3>1, RunOne
    <3>. HIDE DEF d
    <3>. QED  BY <3>1, <3>2, <3>3 DEF OnlyCalls
  <2>10. /\ OnlyCalls(b, k, X) /\ Run(b, k) = q[m][k]
    <3>1. CASE HasFunction(q[m])
      BY <1>2, <2>4, <2>9, <3>1
    <3>2. CASE ~HasFunction(q[m])
      <4>1. b = <<>>
        BY <1>2, <2>4, <3>2
      <4>2. q[m][k] = <<>>
        BY <3>2 DEF HasFunction
      <4>3. OnlyCalls(<<>>, k, X)
        BY DEF OnlyCalls
      <4>. QED  BY <4>1, <4>2, <4>3, RunNothing
    <3>. QED  BY <3>1, <3>2
  <2>11. OnlyCalls(c, k, X)
    <3>1. c \in Seq(Pass) /\ Len(c) = m - 1
      BY <1>1, <2>4, FirstIs
    <3>2. \A i \in 1..(m - 1) : c[i] = q[i] /\ i \in 1..n
      BY <1>1, <2>4 DEF First
    <3>. HIDE DEF c
    <3>. QED  BY <1>1, <3>1, <3>2 DEF OnlyCalls
  <2>. HIDE DEF a, b, c, d
  <2>12. RunsBoth(a, b, k, X)
    BY <2>8, <2>10, RunConcat
  <2>13. RunsBoth(c, d, k, X)
    BY <2>9, <2>11, RunConcat
  <2>14. OnlyCalls(a \o b, k, X) /\ Run(a \o b, k) = Run(c \o d, k)
    BY <2>8, <2>9, <2>10, <2>12, <2>13 DEF RunsBoth
  <2>. QED  BY <2>2, <2>6, <2>7, <2>14
<1>4. Good(n)
  <2>1. n \in Nat /\ n <= n /\ n \notin Fails
    <3>. HIDE DEF Fails
    <3>. QED  BY <1>1, <1>3
  <2>. HIDE DEF Good
  <2>. QED  BY <2>1
<1>5. First(w, n) = w /\ First(q, n) = q
  <2>. DEFINE Q == Seq(Pass)
  <2>. HIDE DEF Q
  <2>1. w \in Seq(Q)
    BY <1>2 DEF Q
  <2>. QED  BY <1>1, <1>2, <2>1, FirstIs
<1>. QED  BY <1>4, <1>5 DEF Filtered, w

\* What a filter keeps passes the test.
LEMMA KeptTyped ==
  ASSUME NEW R, NEW s \in Seq(R), NEW T
  PROVE  Kept(s, T) \in Seq(R \cap T)
<1>. DEFINE n == Len(s)
            A == R \cap T
            p == [i \in DOMAIN s |-> IF s[i] \in T THEN <<s[i]>> ELSE <<>>]
<1>1. n \in Nat /\ DOMAIN s = 1..n /\ \A i \in 1..n : s[i] \in R
  BY ElementOfSeq
<1>2. ASSUME NEW i \in 1..n PROVE p[i] \in Seq(A)
  <2>1. CASE s[i] \in T
    <3>1. s[i] \in A
      BY <1>1, <2>1
    <3>. HIDE DEF A
    <3>2. <<s[i]>> \in Seq(A)
      BY <3>1
    <3>. QED  BY <1>1, <2>1, <3>2
  <2>2. CASE s[i] \notin T
    BY <1>1, <2>2
  <2>. QED  BY <2>1, <2>2
<1>3. p \in [1..n -> Seq(A)]
  BY <1>1, <1>2
<1>. HIDE DEF p, A
<1>4. p \in Seq(Seq(A))
  BY <1>1, <1>3
<1>. QED  BY <1>4, FlattenTyped DEF Kept, p, A

\* The sort keeps the type.
LEMMA SortTyped ==
  ASSUME NEW S, NEW ts \in Seq(S)
  PROVE  SortByName(ts) \in Seq(S)
<1>. DEFINE n == Len(ts)
<1>1. n \in Nat /\ n \in 0..n /\ \A i \in 1..n : ts[i] \in S
  BY ElementOfSeq
<1>2. PICK f : IsSorting(f, ts, n) /\ SortByName(ts) = f[n]
  BY <1>1, SortIs
<1>3. /\ f[0] = <<>>
      /\ \A m \in 1..n : f[m] = Insert(f[m - 1], ts[m])
  <2>1. 0 \in 0..n /\ \A m \in 1..n : m \in 0..n /\ m # 0
    BY <1>1
  <2>2. \A m \in 0..n : f[m] = IF m = 0 THEN <<>> ELSE Insert(f[m - 1], ts[m])
    BY <1>2 DEF IsSorting
  <2>. QED  BY <2>1, <2>2
<1>. DEFINE Fails == {m \in Nat : m <= n /\ f[m] \notin Seq(S)}
<1>4. Fails = {}
  <2>. SUFFICES ASSUME Fails # {} PROVE FALSE
    OBVIOUS
  <2>1. PICK m \in Fails : \A k \in Fails : m <= k
    <3>1. Fails \in SUBSET Nat
      OBVIOUS
    <3>. HIDE DEF Fails
    <3>. QED  BY <3>1, LeastExists
  <2>2. m \in Nat /\ m <= n /\ f[m] \notin Seq(S)
    BY <2>1
  <2>3. m # 0
    <3>1. f[0] \in Seq(S)
      BY <1>3
    <3>. QED  BY <2>2, <3>1
  <2>4. m \in 1..n /\ m - 1 \in Nat /\ m - 1 <= n /\ ~(m <= m - 1)
    BY <1>1, <2>2, <2>3
  <2>5. f[m - 1] \in Seq(S)
    BY <2>1, <2>4
  <2>6. f[m] = Insert(f[m - 1], ts[m]) /\ ts[m] \in S
    BY <1>1, <1>3, <2>4
  <2>. DEFINE g == f[m - 1]
              t == ts[m]
  <2>7. g \in Seq(S) /\ t \in S
    BY <2>5, <2>6
  <2>. HIDE DEF g, t
  <2>8. Insert(g, t) \in Seq(S)
    BY <2>7, InsertIs
  <2>. QED  BY <2>2, <2>6, <2>8 DEF g, t
<1>5. n \in Nat /\ n <= n /\ n \notin Fails
  <2>. HIDE DEF Fails
  <2>. QED  BY <1>1, <1>4
<1>. QED  BY <1>2, <1>5

--------------------------------------------------------------------------------
(***************************************************************************)
(* One pass for every transformation of a sequence.                        *)
(***************************************************************************)
PassesFor(w, f) == [i \in DOMAIN w |-> f[w[i]]]

\* One pass per transformation makes only calls of theirs.
LEMMA PassesOnly ==
  ASSUME NEW X, NEW k \in Kind, NEW Q, NEW w \in Seq(Q), NEW f,
         \A t \in Q : f[t] \in Pass /\ f[t][k] \in Seq(X)
  PROVE  OnlyCalls(PassesFor(w, f), k, X)
<1>. DEFINE n == Len(w)
            p == PassesFor(w, f)
<1>1. n \in Nat /\ DOMAIN w = 1..n /\ \A i \in 1..n : w[i] \in Q
  BY ElementOfSeq
<1>2. \A i \in 1..n : p[i] \in Pass /\ p[i][k] \in Seq(X)
  BY <1>1 DEF PassesFor
<1>3. p \in [1..n -> Pass]
  BY <1>1, <1>2 DEF PassesFor
<1>. HIDE DEF p
<1>4. p \in Seq(Pass) /\ Len(p) = n
  BY <1>1, <1>3
<1>. QED  BY <1>2, <1>4 DEF OnlyCalls, p

\* The calls of the passes are those made for each transformation, when those
\* made for different ones differ.
LEMMA PassesList ==
  ASSUME NEW k \in Kind, NEW Q, NEW w, Lists(w, Q), NEW f, NEW G,
         \A t \in Q : f[t] \in Pass /\ Lists(f[t][k], G[t]),
         \A t, u \in Q : \A x : x \in G[t] /\ x \in G[u] => t = u
  PROVE  Lists(Run(PassesFor(w, f), k), UNION {G[t] : t \in Q})
<1>. DEFINE n == Len(w)
            p == [i \in DOMAIN PassesFor(w, f) |-> PassesFor(w, f)[i][k]]
            Rs == [i \in 1..n |-> G[w[i]]]
<1>1. /\ w \in Seq(Q) /\ n \in Nat /\ DOMAIN w = 1..n /\ \A i \in 1..n : w[i] \in Q
      /\ DOMAIN PassesFor(w, f) = 1..n
  BY ElementOfSeq DEF Lists, PassesFor
<1>2. \A i \in 1..n : p[i] = f[w[i]][k]
  BY <1>1 DEF PassesFor
<1>3. \A i \in 1..n : Lists(p[i], Rs[i])
  BY <1>1, <1>2
<1>4. \A i \in 1..n : p[i] \in Seq(Call)
  BY <1>1, <1>2 DEF Pass
<1>5. p \in [1..n -> Seq(Call)]
  BY <1>1, <1>4
<1>6. \A i, j \in 1..n : \A x : x \in Rs[i] /\ x \in Rs[j] => i = j
  <2>1. \A i, j \in 1..n : w[i] = w[j] => i = j
    BY DEF Lists
  <2>. QED  BY <1>1, <2>1
<1>7. UNION {Rs[i] : i \in 1..n} = UNION {G[t] : t \in Q}
  <2>1. \A i \in 1..n : w[i] \in Q /\ Rs[i] = G[w[i]]
    BY <1>1
  <2>2. \A t \in Q : \E i \in 1..n : Rs[i] = G[t]
    <3>. TAKE t \in Q
    <3>1. PICK i \in 1..n : w[i] = t
      BY DEF Lists
    <3>. QED  BY <3>1
  <2>. HIDE DEF Rs, n
  <2>. QED  BY <2>1, <2>2
<1>. HIDE DEF p, Rs
<1>8. p \in Seq(Seq(Call)) /\ Len(p) = n
  BY <1>1, <1>5
<1>9. Lists(FlattenSeq(p), UNION {Rs[i] : i \in 1..Len(p)})
  <2>1. \A i \in 1..Len(p) : Lists(p[i], Rs[i])
    BY <1>3, <1>8
  <2>2. \A i, j \in 1..Len(p) : \A x : x \in Rs[i] /\ x \in Rs[j] => i = j
    BY <1>6, <1>8
  <2>3. p \in Seq(Seq(Call))
    BY <1>8
  <2>4. EachLists(p, Rs)
    BY <2>1, <2>2 DEF EachLists
  <2>5. AllList(p, Rs)
    BY <2>3, <2>4, AllListed
  <2>. QED  BY <2>5 DEF AllList
<1>. QED  BY <1>7, <1>8, <1>9 DEF Run, p

--------------------------------------------------------------------------------
(***************************************************************************)
(* The passes made for one transformation.                                 *)
(***************************************************************************)
LintPass == [t \in Transform |-> [k \in Kind |-> Calls(t, k, "lint", t.given.lint)]]
PreprocessPass ==
  [t \in Transform |-> [k \in Kind |-> Calls(t, k, "preprocess", t.given.preprocess)]]
InstrumentPass(position) ==
  [t \in Transform |-> [k \in Kind |-> IF k = "impl" THEN Calls(t, k, position, Kind)
                                       ELSE Calls(t, k, "whole", t.given.whole)]]
WholePass == [t \in Transform |-> [k \in Kind |-> Calls(t, k, "whole", t.given.whole)]]
RulesPass == [t \in Transform |-> [k \in Kind |-> Rules(t)]]
UnmergedPass == [t \in Transform |-> Unmerged(t)]

\* A function given for a kind of file is called once on it, another not at all.
LEMMA CallsAre ==
  ASSUME NEW t \in Transform, NEW k, NEW fn \in Functions, NEW kinds
  PROVE  /\ Calls(t, k, fn, kinds) \in Seq({fn} \X Nat)
         /\ k \in kinds => Lists(Calls(t, k, fn, kinds), {<<fn, t.id>>})
         /\ k \notin kinds => Lists(Calls(t, k, fn, kinds), {})
<1>1. t.id \in Nat
  BY CandidatesAssumption DEF Transform
<1>. DEFINE c == <<fn, t.id>>
            s == Calls(t, k, fn, kinds)
<1>2. /\ k \in kinds => s = <<c>>
      /\ k \notin kinds => s = <<>>
  BY DEF Calls
<1>3. <<c>> \in Seq({fn} \X Nat) /\ <<>> \in Seq({fn} \X Nat)
  BY <1>1
<1>. HIDE DEF c, s
<1>4. Lists(<<c>>, {c}) /\ Lists(<<>>, {})
  BY ListsOne, ListsNothing
<1>5. /\ s \in Seq({fn} \X Nat)
      /\ k \in kinds => Lists(s, {c})
      /\ k \notin kinds => Lists(s, {})
  <2>1. CASE k \in kinds
    BY <1>2, <1>3, <1>4, <2>1, Zenon
  <2>2. CASE k \notin kinds
    BY <1>2, <1>3, <1>4, <2>2, Zenon
  <2>. QED  BY <2>1, <2>2
<1>. QED  BY <1>5 DEF c, s

\* The rules of a transformation are one call.
LEMMA RulesAre ==
  ASSUME NEW t \in Transform
  PROVE  /\ Rules(t) \in Seq({"rules"} \X Nat)
         /\ t.given.rules => Lists(Rules(t), {<<"rules", t.id>>})
         /\ ~t.given.rules => Lists(Rules(t), {})
<1>1. t.id \in Nat /\ t.given.rules \in BOOLEAN
  BY CandidatesAssumption DEF Transform, Candidate
<1>. DEFINE c == <<"rules", t.id>>
            s == Rules(t)
<1>2. /\ t.given.rules => s = <<c>>
      /\ ~t.given.rules => s = <<>>
  BY <1>1 DEF Rules
<1>3. <<c>> \in Seq({"rules"} \X Nat) /\ <<>> \in Seq({"rules"} \X Nat)
  BY <1>1
<1>. HIDE DEF c, s
<1>4. Lists(<<c>>, {c}) /\ Lists(<<>>, {})
  BY ListsOne, ListsNothing
<1>5. /\ s \in Seq({"rules"} \X Nat)
      /\ t.given.rules => Lists(s, {c})
      /\ ~t.given.rules => Lists(s, {})
  <2>1. CASE t.given.rules
    BY <1>2, <1>3, <1>4, <2>1, Zenon
  <2>2. CASE ~t.given.rules
    BY <1>2, <1>3, <1>4, <2>2, Zenon
  <2>. QED  BY <2>1, <2>2
<1>. QED  BY <1>5 DEF c, s

\* Calls of a function are calls.
LEMMA CallsInCall ==
  ASSUME NEW fn \in Functions, NEW s \in Seq({fn} \X Nat)
  PROVE  s \in Seq(Call)
<1>1. {fn} \X Nat \subseteq Call
  BY DEF Call
<1>. QED  BY <1>1

\* The names of the functions.
LEMMA FunctionNames ==
  /\ "lint" \in Functions /\ "preprocess" \in Functions /\ "before" \in Functions
  /\ "after" \in Functions /\ "enclose" \in Functions /\ "rules" \in Functions
  /\ "whole" \in Functions
BY DEF Functions

\* A transformation without any other function than fn on a file of kind k.
OnePass(f, k, fn) == \A t \in Transform : f[t] \in Pass /\ f[t][k] \in Seq({fn} \X Nat)

\* The passes of the partition have one function each.
LEMMA OnePasses ==
  ASSUME NEW k \in Kind
  PROVE  /\ OnePass(LintPass, k, "lint")
         /\ OnePass(PreprocessPass, k, "preprocess")
         /\ OnePass(WholePass, k, "whole")
         /\ OnePass(RulesPass, k, "rules")
<1>1. ASSUME NEW t \in Transform, NEW j \in Kind
      PROVE  /\ Calls(t, j, "lint", t.given.lint) \in Seq({"lint"} \X Nat) \cap Seq(Call)
             /\ Calls(t, j, "preprocess", t.given.preprocess)
                  \in Seq({"preprocess"} \X Nat) \cap Seq(Call)
             /\ Calls(t, j, "whole", t.given.whole) \in Seq({"whole"} \X Nat) \cap Seq(Call)
             /\ Rules(t) \in Seq({"rules"} \X Nat) \cap Seq(Call)
  <2>1. Calls(t, j, "lint", t.given.lint) \in Seq({"lint"} \X Nat)
    BY CallsAre, FunctionNames
  <2>2. Calls(t, j, "preprocess", t.given.preprocess) \in Seq({"preprocess"} \X Nat)
    BY CallsAre, FunctionNames
  <2>3. Calls(t, j, "whole", t.given.whole) \in Seq({"whole"} \X Nat)
    BY CallsAre, FunctionNames
  <2>4. Rules(t) \in Seq({"rules"} \X Nat)
    BY RulesAre
  <2>. QED  BY <2>1, <2>2, <2>3, <2>4, CallsInCall, FunctionNames
<1>2. OnePass(LintPass, k, "lint")
  BY <1>1 DEF OnePass, LintPass, Pass
<1>3. OnePass(PreprocessPass, k, "preprocess")
  BY <1>1 DEF OnePass, PreprocessPass, Pass
<1>4. OnePass(WholePass, k, "whole")
  BY <1>1 DEF OnePass, WholePass, Pass
<1>5. OnePass(RulesPass, k, "rules")
  BY <1>1 DEF OnePass, RulesPass, Pass
<1>. QED  BY <1>2, <1>3, <1>4, <1>5

\* So has an instrumentation, on an implementation.
LEMMA InstrumentOnePass ==
  ASSUME NEW position \in {"before", "after"}
  PROVE  /\ OnePass(InstrumentPass(position), "impl", position)
         /\ \A t \in Transform : InstrumentPass(position)[t] \in Pass
<1>1. position \in Functions /\ "impl" \in Kind
  BY DEF Functions, Kind
<1>2. ASSUME NEW t \in Transform, NEW j \in Kind
      PROVE  /\ Calls(t, j, position, Kind) \in Seq({position} \X Nat) \cap Seq(Call)
             /\ Calls(t, j, "whole", t.given.whole) \in Seq(Call)
  <2>1. Calls(t, j, position, Kind) \in Seq({position} \X Nat)
    BY <1>1, CallsAre
  <2>2. Calls(t, j, "whole", t.given.whole) \in Seq({"whole"} \X Nat)
    BY CallsAre, FunctionNames
  <2>. QED  BY <1>1, <2>1, <2>2, CallsInCall, FunctionNames
<1>3. ASSUME NEW t \in Transform
      PROVE  /\ InstrumentPass(position)[t] \in Pass
             /\ InstrumentPass(position)[t]["impl"] \in Seq({position} \X Nat)
  <2>. DEFINE p == InstrumentPass(position)[t]
  <2>1. p = [j \in Kind |-> IF j = "impl" THEN Calls(t, j, position, Kind)
                            ELSE Calls(t, j, "whole", t.given.whole)]
    BY DEF InstrumentPass
  <2>. HIDE DEF p
  <2>2. \A j \in Kind : p[j] \in Seq(Call)
    BY <1>2, <2>1
  <2>3. p["impl"] = Calls(t, "impl", position, Kind)
    BY <1>1, <2>1
  <2>4. p \in Pass
    BY <2>1, <2>2 DEF Pass
  <2>. QED  BY <1>1, <1>2, <2>3, <2>4 DEF p
<1>. QED  BY <1>3 DEF OnePass

--------------------------------------------------------------------------------
(***************************************************************************)
(* The parts of the list of passes as passes of single transformations.    *)
(***************************************************************************)
Linters == {t \in Transform : t.given.lint # {}}
Preprocessors == {t \in Transform : t.given.preprocess # {}}
Instrumentations(position) == {t \in Transform : t.given.instrument = position}
Enclosing(k) == {t \in Transform : k \in t.given.enclose}

\* The parts of partition_transformations as passes for the ones a test keeps.
LEMMA PartsAre ==
  ASSUME NEW ts \in Seq(Transform)
  PROVE  /\ LinterPasses(ts) = PassesFor(Kept(ts, Linters), LintPass)
         /\ PreprocessPasses(ts) = PassesFor(Kept(ts, Preprocessors), PreprocessPass)
         /\ \A position \in {"before", "after"} :
              InstrumentPasses(ts, position)
                = PassesFor(Reverse(Kept(ts, Instrumentations(position))), InstrumentPass(position))
         /\ Map(Whole, ts) = PassesFor(ts, WholePass)
         /\ Map(Unmerged, ts) = PassesFor(ts, UnmergedPass)
<1>. DEFINE n == Len(ts)
<1>1. n \in Nat /\ DOMAIN ts = 1..n /\ \A i \in 1..n : ts[i] \in Transform
  BY ElementOfSeq
<1>2. /\ Kept(ts, Linters) \in Seq(Transform)
      /\ Kept(ts, Preprocessors) \in Seq(Transform)
      /\ \A position \in {"before", "after"} : Kept(ts, Instrumentations(position)) \in Seq(Transform)
  <2>1. ASSUME NEW T PROVE Kept(ts, T) \in Seq(Transform)
    <3>1. Kept(ts, T) \in Seq(Transform \cap T)
      BY KeptTyped
    <3>. QED  BY <3>1
  <2>. QED  BY <2>1
<1>3. LinterPasses(ts) = PassesFor(Kept(ts, Linters), LintPass)
  <2>. DEFINE w == Kept(ts, Linters)
  <2>1. w = Where(LAMBDA t : t.given.lint # {}, ts)
    BY <1>1 DEF Kept, Where, Linters
  <2>2. DOMAIN w = 1..Len(w) /\ \A i \in DOMAIN w : w[i] \in Transform
    BY <1>2, ElementOfSeq
  <2>. HIDE DEF w
  <2>3. LinterPasses(ts) = [i \in DOMAIN w |-> [k \in Kind |-> Calls(w[i], k, "lint", w[i].given.lint)]]
    BY <2>1 DEF LinterPasses, Map
  <2>4. PassesFor(w, LintPass) = [i \in DOMAIN w |-> [k \in Kind |-> Calls(w[i], k, "lint", w[i].given.lint)]]
    BY <2>2 DEF PassesFor, LintPass
  <2>. QED  BY <2>3, <2>4 DEF w
<1>4. PreprocessPasses(ts) = PassesFor(Kept(ts, Preprocessors), PreprocessPass)
  <2>. DEFINE w == Kept(ts, Preprocessors)
  <2>1. w = Where(LAMBDA t : t.given.preprocess # {}, ts)
    BY <1>1 DEF Kept, Where, Preprocessors
  <2>2. DOMAIN w = 1..Len(w) /\ \A i \in DOMAIN w : w[i] \in Transform
    BY <1>2, ElementOfSeq
  <2>. HIDE DEF w
  <2>3. PreprocessPasses(ts)
          = [i \in DOMAIN w |-> [k \in Kind |-> Calls(w[i], k, "preprocess", w[i].given.preprocess)]]
    BY <2>1 DEF PreprocessPasses, Map
  <2>4. PassesFor(w, PreprocessPass)
          = [i \in DOMAIN w |-> [k \in Kind |-> Calls(w[i], k, "preprocess", w[i].given.preprocess)]]
    BY <2>2 DEF PassesFor, PreprocessPass
  <2>. QED  BY <2>3, <2>4 DEF w
<1>5. ASSUME NEW position \in {"before", "after"}
      PROVE  InstrumentPasses(ts, position)
               = PassesFor(Reverse(Kept(ts, Instrumentations(position))), InstrumentPass(position))
  <2>. DEFINE v == Kept(ts, Instrumentations(position))
              w == Reverse(v)
              F(t) == [k \in Kind |-> IF k = "impl" THEN Calls(t, k, position, Kind)
                                      ELSE Calls(t, k, "whole", t.given.whole)]
  <2>1. v = Where(LAMBDA t : t.given.instrument = position, ts)
    BY <1>1 DEF Kept, Where, Instrumentations
  <2>2. v \in Seq(Transform)
    BY <1>2
  <2>. HIDE DEF v
  <2>3. Len(v) \in Nat /\ \A i \in 1..Len(v) : Len(v) - i + 1 \in 1..Len(v) /\ v[Len(v) - i + 1] \in Transform
    <3>1. Len(v) \in Nat /\ \A i \in 1..Len(v) : v[i] \in Transform
      BY <2>2, ElementOfSeq
    <3>2. \A i \in 1..Len(v) : Len(v) - i + 1 \in 1..Len(v)
      BY <3>1
    <3>. QED  BY <3>1, <3>2
  <2>4. \A i \in DOMAIN w : w[i] \in Transform
    BY <2>3 DEF Reverse
  <2>. HIDE DEF w
  <2>5. InstrumentPasses(ts, position) = [i \in DOMAIN w |-> F(w[i])]
    BY <2>1 DEF InstrumentPasses, Map, w
  <2>6. \A t \in Transform : InstrumentPass(position)[t] = F(t)
    BY DEF InstrumentPass
  <2>. HIDE DEF F
  <2>7. PassesFor(w, InstrumentPass(position)) = [i \in DOMAIN w |-> F(w[i])]
    BY <2>4, <2>6 DEF PassesFor
  <2>. QED  BY <2>5, <2>7 DEF v, w
<1>6. Map(Whole, ts) = PassesFor(ts, WholePass)
  BY <1>1 DEF Map, PassesFor, Whole, WholePass
<1>7. Map(Unmerged, ts) = PassesFor(ts, UnmergedPass)
  BY <1>1 DEF Map, PassesFor, UnmergedPass
<1>. QED  BY <1>3, <1>4, <1>5, <1>6, <1>7

--------------------------------------------------------------------------------
(***************************************************************************)
(* What each part calls: every function it stands for, once.               *)
(***************************************************************************)
Distinct(R) == R \subseteq Transform /\ \A t, u \in R : t.id = u.id => t = u

\* The calls on an implementation of fn of the transformations R.
Users(R, fn) == {<<fn, t.id>> : t \in {u \in R : fn \in FunctionsOf(u)}}

\* The passes f of the transformations Q call fn for those that have it, and
\* nothing else.
Alone(f, fn, Q) ==
  \A t \in Q : /\ f[t] \in Pass
               /\ fn \in FunctionsOf(t) => Lists(f[t]["impl"], {<<fn, t.id>>})
               /\ fn \notin FunctionsOf(t) => Lists(f[t]["impl"], {})

\* Passes for a listing, each with the same function: it is called once for each.
LEMMA OneEach ==
  ASSUME NEW R, Distinct(R), NEW Q \in SUBSET R, NEW w, Lists(w, Q),
         NEW fn, NEW f, Alone(f, fn, Q)
  PROVE  Lists(Run(PassesFor(w, f), "impl"), Users(Q, fn))
<1>. DEFINE G == [t \in Q |-> IF fn \in FunctionsOf(t) THEN {<<fn, t.id>>} ELSE {}]
<1>1. \A t \in Q : f[t] \in Pass /\ Lists(f[t]["impl"], G[t])
  <2>. TAKE t \in Q
  <2>1. CASE fn \in FunctionsOf(t)
    BY <2>1 DEF Alone
  <2>2. CASE fn \notin FunctionsOf(t)
    BY <2>2 DEF Alone
  <2>. QED  BY <2>1, <2>2
<1>2. \A t, u \in Q : \A x : x \in G[t] /\ x \in G[u] => t = u
  <2>1. \A t, u \in Q : t.id = u.id => t = u
    BY DEF Distinct
  <2>2. \A t \in Q : \A x \in G[t] : x = <<fn, t.id>>
    OBVIOUS
  <2>3. \A i, j : <<fn, i>> = <<fn, j>> => i = j
    OBVIOUS
  <2>. HIDE DEF G
  <2>. QED  BY <2>1, <2>2, <2>3
<1>3. UNION {G[t] : t \in Q} = Users(Q, fn)
  <2>1. \A t \in Q : \A x : x \in G[t] <=> fn \in FunctionsOf(t) /\ x = <<fn, t.id>>
    OBVIOUS
  <2>. HIDE DEF G
  <2>. QED  BY <2>1 DEF Users
<1>. HIDE DEF G
<1>4. "impl" \in Kind
  BY DEF Kind
<1>5. Lists(Run(PassesFor(w, f), "impl"), UNION {G[t] : t \in Q})
  BY <1>1, <1>2, <1>4, PassesList
<1>. QED  BY <1>3, <1>5

\* FunctionsOf, function by function.
LEMMA FunctionsAre ==
  ASSUME kind = "impl", NEW t \in Transform
  PROVE  /\ "lint" \in FunctionsOf(t) <=> "impl" \in t.given.lint
         /\ "preprocess" \in FunctionsOf(t) <=> "impl" \in t.given.preprocess
         /\ "enclose" \in FunctionsOf(t) <=> "impl" \in t.given.enclose
         /\ "whole" \in FunctionsOf(t) <=> "impl" \in t.given.whole
         /\ "rules" \in FunctionsOf(t) <=> t.given.rules
         /\ "before" \in FunctionsOf(t) <=> t.given.instrument = "before"
         /\ "after" \in FunctionsOf(t) <=> t.given.instrument = "after"
<1>1. t.given.rules \in BOOLEAN /\ t.given.instrument \in {"none", "before", "after"}
  BY CandidatesAssumption DEF Transform, Candidate
<1>. DEFINE A == {fn \in {"lint", "preprocess", "enclose", "whole"} :
                    kind \in CASE fn = "lint" -> t.given.lint
                               [] fn = "preprocess" -> t.given.preprocess
                               [] fn = "enclose" -> t.given.enclose
                               [] fn = "whole" -> t.given.whole}
            B == IF t.given.rules THEN {"rules"} ELSE {}
            C == IF kind = "impl" /\ t.given.instrument # "none" THEN {t.given.instrument} ELSE {}
<1>2. FunctionsOf(t) = A \cup B \cup C
  BY DEF FunctionsOf
<1>3. /\ "lint" \in A <=> "impl" \in t.given.lint
      /\ "preprocess" \in A <=> "impl" \in t.given.preprocess
      /\ "enclose" \in A <=> "impl" \in t.given.enclose
      /\ "whole" \in A <=> "impl" \in t.given.whole
      /\ "rules" \notin A /\ "before" \notin A /\ "after" \notin A
  OBVIOUS
<1>4. \A fn : fn \in B <=> t.given.rules /\ fn = "rules"
  BY <1>1
<1>5. \A fn : fn \in C <=> t.given.instrument # "none" /\ fn = t.given.instrument
  BY <1>1
<1>. HIDE DEF A, B, C
<1>. QED  BY <1>1, <1>2, <1>3, <1>4, <1>5

\* The passes of the partition call the function they are named for.
LEMMA LintAlone ==
  ASSUME kind = "impl"
  PROVE  /\ Alone(LintPass, "lint", Transform)
         /\ Alone(PreprocessPass, "preprocess", Transform)
         /\ Alone(WholePass, "whole", Transform)
         /\ Alone(RulesPass, "rules", Transform)
<1>1. ASSUME NEW t \in Transform
      PROVE  /\ LintPass[t] \in Pass /\ PreprocessPass[t] \in Pass
             /\ WholePass[t] \in Pass /\ RulesPass[t] \in Pass
             /\ LintPass[t]["impl"] = Calls(t, "impl", "lint", t.given.lint)
             /\ PreprocessPass[t]["impl"] = Calls(t, "impl", "preprocess", t.given.preprocess)
             /\ WholePass[t]["impl"] = Calls(t, "impl", "whole", t.given.whole)
             /\ RulesPass[t]["impl"] = Rules(t)
  <2>1. "impl" \in Kind
    BY DEF Kind
  <2>2. /\ LintPass[t] \in Pass /\ PreprocessPass[t] \in Pass
        /\ WholePass[t] \in Pass /\ RulesPass[t] \in Pass
    BY <2>1, OnePasses DEF OnePass
  <2>. QED  BY <2>1, <2>2 DEF LintPass, PreprocessPass, WholePass, RulesPass
<1>2. Alone(LintPass, "lint", Transform)
  <2>1. ASSUME NEW t \in Transform
        PROVE  /\ "impl" \in t.given.lint => Lists(LintPass[t]["impl"], {<<"lint", t.id>>})
               /\ "impl" \notin t.given.lint => Lists(LintPass[t]["impl"], {})
    <3>1. \A kinds : /\ "impl" \in kinds => Lists(Calls(t, "impl", "lint", kinds), {<<"lint", t.id>>})
                     /\ "impl" \notin kinds => Lists(Calls(t, "impl", "lint", kinds), {})
      BY CallsAre, FunctionNames
    <3>. QED  BY <1>1, <3>1, Zenon
  <2>. QED  BY <1>1, <2>1, FunctionsAre DEF Alone
<1>3. Alone(PreprocessPass, "preprocess", Transform)
  <2>1. ASSUME NEW t \in Transform
        PROVE  /\ "impl" \in t.given.preprocess => Lists(PreprocessPass[t]["impl"], {<<"preprocess", t.id>>})
               /\ "impl" \notin t.given.preprocess => Lists(PreprocessPass[t]["impl"], {})
    <3>1. \A kinds : /\ "impl" \in kinds => Lists(Calls(t, "impl", "preprocess", kinds), {<<"preprocess", t.id>>})
                     /\ "impl" \notin kinds => Lists(Calls(t, "impl", "preprocess", kinds), {})
      BY CallsAre, FunctionNames
    <3>. QED  BY <1>1, <3>1, Zenon
  <2>. QED  BY <1>1, <2>1, FunctionsAre DEF Alone
<1>4. Alone(WholePass, "whole", Transform)
  <2>1. ASSUME NEW t \in Transform
        PROVE  /\ "impl" \in t.given.whole => Lists(WholePass[t]["impl"], {<<"whole", t.id>>})
               /\ "impl" \notin t.given.whole => Lists(WholePass[t]["impl"], {})
    <3>1. \A kinds : /\ "impl" \in kinds => Lists(Calls(t, "impl", "whole", kinds), {<<"whole", t.id>>})
                     /\ "impl" \notin kinds => Lists(Calls(t, "impl", "whole", kinds), {})
      BY CallsAre, FunctionNames
    <3>. QED  BY <1>1, <3>1, Zenon
  <2>. QED  BY <1>1, <2>1, FunctionsAre DEF Alone
<1>5. Alone(RulesPass, "rules", Transform)
  <2>1. ASSUME NEW t \in Transform
        PROVE  /\ t.given.rules => Lists(RulesPass[t]["impl"], {<<"rules", t.id>>})
               /\ ~t.given.rules => Lists(RulesPass[t]["impl"], {})
    BY <1>1, RulesAre
  <2>. QED  BY <1>1, <2>1, FunctionsAre DEF Alone
<1>. QED  BY <1>2, <1>3, <1>4, <1>5

\* The linters' part calls every linter once.
LEMMA LintersList ==
  ASSUME kind = "impl", NEW R, Distinct(R), NEW ts, Lists(ts, R)
  PROVE  Lists(Run(LinterPasses(ts), "impl"), Users(R, "lint"))
<1>. DEFINE Q == R \cap Linters
            w == Kept(ts, Linters)
<1>1. R \subseteq Transform /\ ts \in Seq(Transform)
  BY DEF Distinct, Lists
<1>2. Lists(w, Q) /\ Q \in SUBSET R
  BY ListsKept
<1>3. Alone(LintPass, "lint", Q)
  BY <1>1, LintAlone DEF Alone
<1>4. Users(Q, "lint") = Users(R, "lint")
  <2>1. \A t : t \in {u \in Q : "lint" \in FunctionsOf(u)} <=> t \in {u \in R : "lint" \in FunctionsOf(u)}
    BY <1>1, FunctionsAre DEF Linters
  <2>. HIDE DEF Q
  <2>. QED  BY <2>1 DEF Users
<1>. HIDE DEF Q, w
<1>5. Lists(Run(PassesFor(w, LintPass), "impl"), Users(Q, "lint"))
  BY <1>2, <1>3, OneEach
<1>6. LinterPasses(ts) = PassesFor(w, LintPass)
  BY <1>1, PartsAre DEF w
<1>. QED  BY <1>4, <1>5, <1>6

\* The preprocessors' part calls every preprocessor once.
LEMMA PreprocessorsList ==
  ASSUME kind = "impl", NEW R, Distinct(R), NEW ts, Lists(ts, R)
  PROVE  Lists(Run(PreprocessPasses(ts), "impl"), Users(R, "preprocess"))
<1>. DEFINE Q == R \cap Preprocessors
            w == Kept(ts, Preprocessors)
<1>1. R \subseteq Transform /\ ts \in Seq(Transform)
  BY DEF Distinct, Lists
<1>2. Lists(w, Q) /\ Q \in SUBSET R
  BY ListsKept
<1>3. Alone(PreprocessPass, "preprocess", Q)
  BY <1>1, LintAlone DEF Alone
<1>4. Users(Q, "preprocess") = Users(R, "preprocess")
  <2>1. \A t : t \in {u \in Q : "preprocess" \in FunctionsOf(u)} <=> t \in {u \in R : "preprocess" \in FunctionsOf(u)}
    BY <1>1, FunctionsAre DEF Preprocessors
  <2>. HIDE DEF Q
  <2>. QED  BY <2>1 DEF Users
<1>. HIDE DEF Q, w
<1>5. Lists(Run(PassesFor(w, PreprocessPass), "impl"), Users(Q, "preprocess"))
  BY <1>2, <1>3, OneEach
<1>6. PreprocessPasses(ts) = PassesFor(w, PreprocessPass)
  BY <1>1, PartsAre DEF w
<1>. QED  BY <1>4, <1>5, <1>6

\* An instrumentations' part calls every one of its position once.
LEMMA InstrumentsList ==
  ASSUME kind = "impl", NEW R, Distinct(R), NEW ts, Lists(ts, R), NEW position \in {"before", "after"}
  PROVE  Lists(Run(InstrumentPasses(ts, position), "impl"), Users(R, position))
<1>. DEFINE Q == R \cap Instrumentations(position)
            f == InstrumentPass(position)
            w == Reverse(Kept(ts, Instrumentations(position)))
<1>1. R \subseteq Transform /\ ts \in Seq(Transform) /\ "impl" \in Kind /\ position \in Functions
  BY DEF Distinct, Lists, Kind, Functions
<1>2. Lists(w, Q) /\ Q \in SUBSET R
  BY ListsKept, ListsReversed
<1>3. \A t \in Transform : position \in FunctionsOf(t) <=> t \in Instrumentations(position)
  <2>1. CASE position = "before"
    BY <2>1, FunctionsAre DEF Instrumentations
  <2>2. CASE position = "after"
    BY <2>2, FunctionsAre DEF Instrumentations
  <2>. QED  BY <2>1, <2>2
<1>4. Alone(f, position, Q)
  <2>1. \A t \in Q : t \in Transform /\ position \in FunctionsOf(t)
    BY <1>1, <1>3
  <2>2. \A t \in Transform : f[t] \in Pass
    BY InstrumentOnePass
  <2>3. \A t \in Transform : Lists(f[t]["impl"], {<<position, t.id>>})
    <3>. TAKE t \in Transform
    <3>1. f[t]["impl"] = Calls(t, "impl", position, Kind)
      BY <1>1 DEF InstrumentPass
    <3>. HIDE DEF f
    <3>. QED  BY <1>1, <3>1, CallsAre
  <2>. HIDE DEF f, Q
  <2>. QED  BY <2>1, <2>2, <2>3 DEF Alone
<1>5. Users(Q, position) = Users(R, position)
  <2>1. \A t : t \in {u \in Q : position \in FunctionsOf(u)} <=> t \in {u \in R : position \in FunctionsOf(u)}
    BY <1>1, <1>3
  <2>. HIDE DEF Q
  <2>. QED  BY <2>1 DEF Users
<1>. HIDE DEF Q, w, f
<1>6. Lists(Run(PassesFor(w, f), "impl"), Users(Q, position))
  BY <1>2, <1>4, OneEach
<1>7. InstrumentPasses(ts, position) = PassesFor(w, f)
  BY <1>1, PartsAre DEF w, f
<1>. QED  BY <1>5, <1>6, <1>7

--------------------------------------------------------------------------------
(***************************************************************************)
(* Which functions each part calls.                                        *)
(***************************************************************************)
CallsOf(fns) == fns \X Nat

\* Calls in a set are calls in a larger one.
LEMMA OnlyMore ==
  ASSUME NEW s, NEW k, NEW X, NEW Y, X \subseteq Y, OnlyCalls(s, k, X)
  PROVE  OnlyCalls(s, k, Y)
<1>1. \A t \in Seq(X) : t \in Seq(Y)
  OBVIOUS
<1>. QED  BY <1>1 DEF OnlyCalls

\* The calls of a part of the partition have its function.
LEMMA OnePassOnly ==
  ASSUME NEW k \in Kind, NEW fn, NEW f, OnePass(f, k, fn), NEW w \in Seq(Transform)
  PROVE  OnlyCalls(PassesFor(w, f), k, CallsOf({fn}))
<1>1. \A t \in Transform : f[t] \in Pass /\ f[t][k] \in Seq(CallsOf({fn}))
  BY DEF OnePass, CallsOf
<1>. HIDE DEF CallsOf
<1>. QED  BY <1>1, PassesOnly

\* The reverse keeps type and length.
LEMMA ReverseTyped ==
  ASSUME NEW S, NEW s \in Seq(S)
  PROVE  Reverse(s) \in Seq(S) /\ Len(Reverse(s)) = Len(s)
<1>. DEFINE n == Len(s)
            u == Reverse(s)
<1>1. n \in Nat /\ \A i \in 1..n : s[i] \in S
  BY ElementOfSeq
<1>2. \A i \in 1..n : n - i + 1 \in 1..n
  BY <1>1
<1>3. u \in [1..n -> S]
  BY <1>1, <1>2 DEF Reverse
<1>. HIDE DEF u
<1>4. u \in Seq(S) /\ Len(u) = n
  BY <1>1, <1>3
<1>. QED  BY <1>4 DEF u

\* What a filter keeps is of the same type.
LEMMA KeptWithin ==
  ASSUME NEW S, NEW s \in Seq(S), NEW T
  PROVE  Kept(s, T) \in Seq(S)
<1>1. Kept(s, T) \in Seq(S \cap T)
  BY KeptTyped
<1>. QED  BY <1>1

\* The function of each part of the partition.
LEMMA PartsOnly ==
  ASSUME NEW ts \in Seq(Transform)
  PROVE  /\ \A k \in Kind :
              /\ OnlyCalls(LinterPasses(ts), k, CallsOf({"lint"}))
              /\ OnlyCalls(PreprocessPasses(ts), k, CallsOf({"preprocess"}))
              /\ OnlyCalls(Map(Whole, ts), k, CallsOf({"whole"}))
         /\ \A position \in {"before", "after"} :
              OnlyCalls(InstrumentPasses(ts, position), "impl", CallsOf({position}))
<1>1. \A T : Kept(ts, T) \in Seq(Transform)
  BY KeptWithin
<1>2. ASSUME NEW k \in Kind
      PROVE  /\ OnlyCalls(LinterPasses(ts), k, CallsOf({"lint"}))
             /\ OnlyCalls(PreprocessPasses(ts), k, CallsOf({"preprocess"}))
             /\ OnlyCalls(Map(Whole, ts), k, CallsOf({"whole"}))
  <2>1. /\ OnePass(LintPass, k, "lint") /\ OnePass(PreprocessPass, k, "preprocess")
        /\ OnePass(WholePass, k, "whole")
    BY OnePasses
  <2>2. OnlyCalls(PassesFor(Kept(ts, Linters), LintPass), k, CallsOf({"lint"}))
    BY <1>1, <2>1, OnePassOnly
  <2>3. OnlyCalls(PassesFor(Kept(ts, Preprocessors), PreprocessPass), k, CallsOf({"preprocess"}))
    BY <1>1, <2>1, OnePassOnly
  <2>4. OnlyCalls(PassesFor(ts, WholePass), k, CallsOf({"whole"}))
    BY <2>1, OnePassOnly
  <2>. QED  BY <2>2, <2>3, <2>4, PartsAre
<1>3. ASSUME NEW position \in {"before", "after"}
      PROVE  OnlyCalls(InstrumentPasses(ts, position), "impl", CallsOf({position}))
  <2>. DEFINE w == Reverse(Kept(ts, Instrumentations(position)))
  <2>1. OnePass(InstrumentPass(position), "impl", position) /\ "impl" \in Kind
    BY InstrumentOnePass DEF Kind
  <2>2. w \in Seq(Transform)
    BY <1>1, ReverseTyped
  <2>. HIDE DEF w
  <2>3. OnlyCalls(PassesFor(w, InstrumentPass(position)), "impl", CallsOf({position}))
    BY <2>1, <2>2, OnePassOnly
  <2>. QED  BY <2>3, PartsAre DEF w
<1>. QED  BY <1>2, <1>3

\* What a pass calls are calls.
LEMMA PassTyped ==
  ASSUME NEW p \in Pass, NEW k \in Kind
  PROVE  p[k] \in Seq(Call)
BY DEF Pass

\* So is what passes call.
LEMMA ManyTyped ==
  ASSUME NEW s \in Seq(Pass), NEW k \in Kind
  PROVE  OnlyCalls(s, k, Call)
<1>1. \A i \in 1..Len(s) : s[i][k] \in Seq(Call)
  BY PassTyped, ElementOfSeq
<1>. QED  BY <1>1 DEF OnlyCalls

\* The pass of one transformation with -no-merge is a pass.
LEMMA UnmergedTyped ==
  ASSUME NEW t \in Transform
  PROVE  Unmerged(t) \in Pass
<1>1. ASSUME NEW k \in Kind
      PROVE  Calls(t, k, "enclose", t.given.enclose) \o Rules(t)
             \o Calls(t, k, "whole", t.given.whole) \in Seq(Call)
  <2>. DEFINE a == Calls(t, k, "enclose", t.given.enclose)
              b == Rules(t)
              c == Calls(t, k, "whole", t.given.whole)
  <2>1. a \in Seq({"enclose"} \X Nat) /\ b \in Seq({"rules"} \X Nat) /\ c \in Seq({"whole"} \X Nat)
    BY CallsAre, RulesAre, FunctionNames
  <2>. HIDE DEF a, b, c
  <2>2. a \in Seq(Call) /\ b \in Seq(Call) /\ c \in Seq(Call)
    BY <2>1, CallsInCall, FunctionNames
  <2>3. (a \o b) \o c \in Seq(Call)
    BY <2>2
  <2>. QED  BY <2>3 DEF a, b, c
<1>. QED  BY <1>1 DEF Unmerged, Pass

--------------------------------------------------------------------------------
(***************************************************************************)
(* The context-free pass.                                                  *)
(***************************************************************************)
AllRules(ts) == FlattenSeq(Map(Rules, ts))

\* All rules in a row are the run of the passes that apply the rules.
LEMMA RulesRun ==
  ASSUME NEW ts \in Seq(Transform), NEW k \in Kind
  PROVE  /\ AllRules(ts) = Run(PassesFor(ts, RulesPass), k)
         /\ AllRules(ts) \in Seq(CallsOf({"rules"}))
<1>. DEFINE p == PassesFor(ts, RulesPass)
            q == [i \in DOMAIN p |-> p[i][k]]
<1>1. \A i \in DOMAIN ts : ts[i] \in Transform
  BY ElementOfSeq
<1>2. p = [i \in DOMAIN ts |-> RulesPass[ts[i]]]
  BY DEF PassesFor
<1>3. \A t \in Transform : RulesPass[t][k] = Rules(t)
  BY DEF RulesPass
<1>4. q = [i \in DOMAIN ts |-> Rules(ts[i])]
  BY <1>1, <1>2, <1>3
<1>5. AllRules(ts) = Run(p, k)
  BY <1>4 DEF AllRules, Map, Run
<1>6. OnlyCalls(p, k, CallsOf({"rules"}))
  BY OnePasses, OnePassOnly
<1>. HIDE DEF p, q
<1>7. Run(p, k) \in Seq(CallsOf({"rules"}))
  BY <1>6, RunTyped
<1>. QED  BY <1>5, <1>7 DEF p

\* The transformations with an encloser for a kind, sorted.
SortedEnclosers(ts, k) == SortByName(Kept(ts, Enclosing(k)))

\* The enclosers of a kind are those of the sorted transformations.
LEMMA EnclosersAre ==
  ASSUME NEW ts \in Seq(Transform), NEW k \in Kind
  PROVE  /\ Enclosers(ts, k) = [i \in DOMAIN SortedEnclosers(ts, k) |->
                                  <<"enclose", SortedEnclosers(ts, k)[i].id>>]
         /\ SortedEnclosers(ts, k) \in Seq(Transform)
         /\ Enclosers(ts, k) \in Seq(CallsOf({"enclose"}))
<1>. DEFINE w == Kept(ts, Enclosing(k))
            v == SortedEnclosers(ts, k)
            e == Enclosers(ts, k)
<1>1. \A i \in DOMAIN ts : ts[i] \in Transform
  BY ElementOfSeq
<1>2. w = Where(LAMBDA t : k \in t.given.enclose, ts)
  BY <1>1 DEF Kept, Where, Enclosing
<1>3. v = SortByName(Where(LAMBDA t : k \in t.given.enclose, ts))
  BY <1>2 DEF SortedEnclosers
<1>4. w \in Seq(Transform)
  BY KeptWithin
<1>5. v \in Seq(Transform)
  BY <1>4, SortTyped DEF SortedEnclosers
<1>. HIDE DEF w, v
<1>6. e = [i \in DOMAIN v |-> <<"enclose", v[i].id>>]
  BY <1>3 DEF Enclosers, Map
<1>7. Len(v) \in Nat /\ DOMAIN v = 1..Len(v) /\ \A i \in 1..Len(v) : v[i].id \in Nat
  <2>1. \A t \in Transform : t.id \in Nat
    BY CandidatesAssumption DEF Transform
  <2>2. \A i \in 1..Len(v) : v[i] \in Transform
    BY <1>5, ElementOfSeq
  <2>. QED  BY <1>5, <2>1, <2>2
<1>8. e \in [1..Len(v) -> CallsOf({"enclose"})]
  BY <1>6, <1>7 DEF CallsOf
<1>. HIDE DEF e
<1>9. e \in Seq(CallsOf({"enclose"}))
  BY <1>7, <1>8
<1>. QED  BY <1>5, <1>6, <1>9 DEF v, e

\* The merged context-free pass: enclosers, then rules.
LEMMA ContextFreeTyped ==
  ASSUME NEW ts \in Seq(Transform)
  PROVE  /\ \A k \in Kind :
              /\ ContextFree(ts)[k] = Enclosers(ts, k) \o AllRules(ts)
              /\ ContextFree(ts)[k] \in Seq(CallsOf({"enclose", "rules"}))
         /\ ContextFree(ts) \in Pass
<1>1. ASSUME NEW k \in Kind
      PROVE  /\ Enclosers(ts, k) \o AllRules(ts) \in Seq(CallsOf({"enclose", "rules"}))
             /\ Enclosers(ts, k) \o AllRules(ts) \in Seq(Call)
  <2>. DEFINE a == Enclosers(ts, k)
              b == AllRules(ts)
  <2>1. a \in Seq(CallsOf({"enclose"})) /\ b \in Seq(CallsOf({"rules"}))
    BY EnclosersAre, RulesRun
  <2>2. /\ CallsOf({"enclose"}) \subseteq CallsOf({"enclose", "rules"})
        /\ CallsOf({"rules"}) \subseteq CallsOf({"enclose", "rules"})
        /\ CallsOf({"enclose", "rules"}) \subseteq Call
    BY FunctionNames DEF CallsOf, Call
  <2>. HIDE DEF a, b, CallsOf
  <2>3. a \in Seq(CallsOf({"enclose", "rules"})) /\ b \in Seq(CallsOf({"enclose", "rules"}))
    BY <2>1, <2>2
  <2>4. a \o b \in Seq(CallsOf({"enclose", "rules"}))
    BY <2>3
  <2>5. a \o b \in Seq(Call)
    BY <2>2, <2>4
  <2>. QED  BY <2>4, <2>5 DEF a, b
<1>2. ContextFree(ts) = [k \in Kind |-> Enclosers(ts, k) \o AllRules(ts)]
  BY DEF ContextFree, AllRules
<1>. QED  BY <1>1, <1>2 DEF Pass

\* The rules and the whole-file functions of a listing, once each.
LEMMA RulesList ==
  ASSUME kind = "impl", NEW R, Distinct(R), NEW ts, Lists(ts, R)
  PROVE  /\ Lists(AllRules(ts), Users(R, "rules"))
         /\ Lists(Run(Map(Whole, ts), "impl"), Users(R, "whole"))
<1>1. R \subseteq Transform /\ ts \in Seq(Transform) /\ "impl" \in Kind
  BY DEF Distinct, Lists, Kind
<1>2. Alone(RulesPass, "rules", R) /\ Alone(WholePass, "whole", R)
  BY <1>1, LintAlone DEF Alone
<1>3. Lists(Run(PassesFor(ts, RulesPass), "impl"), Users(R, "rules"))
  BY <1>2, OneEach
<1>4. Lists(Run(PassesFor(ts, WholePass), "impl"), Users(R, "whole"))
  BY <1>2, OneEach
<1>. QED  BY <1>1, <1>3, <1>4, RulesRun, PartsAre

\* The enclosers of a listing, once each, sorted or not.
LEMMA EnclosersList ==
  ASSUME kind = "impl", NEW R, Distinct(R), NEW ts, Lists(ts, R)
  PROVE  Lists(Enclosers(ts, "impl"), Users(R, "enclose"))
<1>. DEFINE Q == R \cap Enclosing("impl")
            v == SortedEnclosers(ts, "impl")
            e == Enclosers(ts, "impl")
            n == Len(v)
            U == Users(R, "enclose")
<1>1. R \subseteq Transform /\ ts \in Seq(Transform) /\ "impl" \in Kind
  BY DEF Distinct, Lists, Kind
<1>2. Lists(v, Q)
  BY ListsKept, ListsSorted DEF SortedEnclosers
<1>3. e = [i \in DOMAIN v |-> <<"enclose", v[i].id>>]
  BY <1>1, EnclosersAre
<1>4. \A c : c \in U <=> \E t \in Q : c = <<"enclose", t.id>>
  <2>1. \A t : t \in Q <=> t \in {u \in R : "enclose" \in FunctionsOf(u)}
    BY <1>1, FunctionsAre DEF Enclosing
  <2>. HIDE DEF Q
  <2>. QED  BY <2>1 DEF Users
<1>5. \A t, u \in Q : t.id = u.id => t = u
  BY DEF Distinct
<1>. HIDE DEF Q, v, e, U
<1>6. /\ n \in Nat /\ DOMAIN v = 1..n /\ \A i \in 1..n : v[i] \in Q
      /\ \A i, j \in 1..n : v[i] = v[j] => i = j
      /\ \A t \in Q : \E i \in 1..n : v[i] = t
  BY <1>2, ElementOfSeq DEF Lists
<1>7. \A i \in 1..n : e[i] = <<"enclose", v[i].id>> /\ e[i] \in U
  BY <1>3, <1>4, <1>6
<1>8. e \in [1..n -> U]
  BY <1>3, <1>6, <1>7
<1>9. e \in Seq(U) /\ Len(e) = n
  BY <1>6, <1>8
<1>10. \A i, j \in 1..n : e[i] = e[j] => i = j
  <2>. TAKE i, j \in 1..n
  <2>. HAVE e[i] = e[j]
  <2>1. v[i].id = v[j].id
    BY <1>7
  <2>. QED  BY <1>5, <1>6, <2>1
<1>11. \A c \in U : \E i \in 1..n : e[i] = c
  BY <1>4, <1>6, <1>7
<1>12. Lists(e, U)
  BY <1>9, <1>10, <1>11 DEF Lists
<1>. QED  BY <1>12 DEF e, U

\* Calls of two functions differ.
LEMMA UsersDiffer ==
  ASSUME NEW R, NEW Q, NEW fn, NEW gn, fn # gn
  PROVE  Users(R, fn) \cap Users(Q, gn) = {}
BY DEF Users

\* The calls the rules, enclosers and whole-file functions of R stand for.
Generic(R) == (Users(R, "enclose") \cup Users(R, "rules")) \cup Users(R, "whole")

\* What make_generic runs: enclosers and rules, then whole-file functions.
LEMMA MergedRun ==
  ASSUME ~noMerge, NEW ts \in Seq(Transform), NEW k \in Kind
  PROVE  /\ Run(MakeGeneric(ts), k) = (Enclosers(ts, k) \o AllRules(ts)) \o Run(Map(Whole, ts), k)
         /\ OnlyCalls(MakeGeneric(ts), k, CallsOf({"enclose", "rules", "whole"}))
<1>. DEFINE a == <<ContextFree(ts)>>
            b == Map(Whole, ts)
            X == CallsOf({"enclose", "rules", "whole"})
            c == ContextFree(ts)
<1>1. MakeGeneric(ts) = Filtered(a \o b)
  BY DEF MakeGeneric, Where, Filtered
<1>2. c[k] = Enclosers(ts, k) \o AllRules(ts) /\ c \in Pass /\ c[k] \in Seq(CallsOf({"enclose", "rules"}))
  BY ContextFreeTyped
<1>3. CallsOf({"enclose", "rules"}) \subseteq X /\ CallsOf({"whole"}) \subseteq X
  BY DEF CallsOf
<1>4. OnlyCalls(b, k, CallsOf({"whole"}))
  BY PartsOnly
<1>. HIDE DEF c, b, X
<1>5. c[k] \in Seq(X)
  BY <1>2, <1>3
<1>6. OnlyCalls(a, k, X)
  <2>1. a \in Seq(Pass) /\ Len(a) = 1 /\ a[1] = c
    BY <1>2 DEF c
  <2>. HIDE DEF a
  <2>. QED  BY <1>5, <2>1 DEF OnlyCalls
<1>7. Run(a, k) = c[k]
  <2>1. Run(<<c>>, k) = c[k]
    BY <1>5, RunOne
  <2>. QED  BY <2>1 DEF c
<1>8. OnlyCalls(b, k, X)
  BY <1>3, <1>4, OnlyMore
<1>. HIDE DEF a
<1>9. RunsBoth(a, b, k, X)
  BY <1>6, <1>8, RunConcat
<1>10. OnlyCalls(a \o b, k, X) /\ Run(a \o b, k) = Run(a, k) \o Run(b, k)
  BY <1>9 DEF RunsBoth
<1>. DEFINE q == a \o b
<1>. HIDE DEF q
<1>11. OnlyCalls(q, k, X) /\ Run(q, k) = Run(a, k) \o Run(b, k) /\ MakeGeneric(ts) = Filtered(q)
  BY <1>1, <1>10 DEF q
<1>12. Run(Filtered(q), k) = Run(q, k) /\ OnlyCalls(Filtered(q), k, X)
  BY <1>11, FilteredRun
<1>. QED  BY <1>2, <1>7, <1>11, <1>12 DEF b, X

\* With the merged pass, every rule, encloser and whole-file function runs once.
LEMMA MergedList ==
  ASSUME kind = "impl", ~noMerge, NEW R, Distinct(R), NEW ts, Lists(ts, R)
  PROVE  Lists(Run(MakeGeneric(ts), "impl"), Generic(R))
<1>. DEFINE a == Enclosers(ts, "impl")
            b == AllRules(ts)
            c == Run(Map(Whole, ts), "impl")
<1>1. ts \in Seq(Transform) /\ "impl" \in Kind
  BY DEF Distinct, Lists, Kind
<1>2. Run(MakeGeneric(ts), "impl") = (a \o b) \o c
  BY <1>1, MergedRun
<1>3. /\ Lists(a, Users(R, "enclose")) /\ Lists(b, Users(R, "rules"))
      /\ Lists(c, Users(R, "whole"))
  BY EnclosersList, RulesList
<1>4. /\ Users(R, "enclose") \cap Users(R, "rules") = {}
      /\ Users(R, "enclose") \cap Users(R, "whole") = {}
      /\ Users(R, "rules") \cap Users(R, "whole") = {}
  BY UsersDiffer
<1>. HIDE DEF a, b, c
<1>5. Lists(a \o b, Users(R, "enclose") \cup Users(R, "rules"))
  BY <1>3, <1>4, ListsBoth
<1>6. (Users(R, "enclose") \cup Users(R, "rules")) \cap Users(R, "whole") = {}
  BY <1>4
<1>. DEFINE d == a \o b
            D == Users(R, "enclose") \cup Users(R, "rules")
            E == Users(R, "whole")
<1>7. Lists(d, D) /\ Lists(c, E) /\ D \cap E = {}
  BY <1>3, <1>5, <1>6
<1>. HIDE DEF d, D, E
<1>8. Lists(d \o c, D \cup E)
  BY <1>7, ListsBoth
<1>. QED  BY <1>2, <1>8 DEF Generic, d, D, E

\* Without the merge each transformation makes its calls in a pass of its own.
LEMMA UnmergedList ==
  ASSUME kind = "impl", noMerge, NEW R, Distinct(R), NEW ts, Lists(ts, R)
  PROVE  Lists(Run(MakeGeneric(ts), "impl"), Generic(R))
<1>. DEFINE One(t, fn) == {c \in {<<fn, t.id>>} : fn \in FunctionsOf(t)}
            G == [t \in R |-> (One(t, "enclose") \cup One(t, "rules")) \cup One(t, "whole")]
<1>1. R \subseteq Transform /\ ts \in Seq(Transform) /\ "impl" \in Kind
  BY DEF Distinct, Lists, Kind
<1>2. MakeGeneric(ts) = PassesFor(ts, UnmergedPass)
  BY <1>1, PartsAre DEF MakeGeneric
<1>3. ASSUME NEW t \in R
      PROVE  UnmergedPass[t] \in Pass /\ Lists(UnmergedPass[t]["impl"], G[t])
  <2>. DEFINE a == Calls(t, "impl", "enclose", t.given.enclose)
              b == Rules(t)
              c == Calls(t, "impl", "whole", t.given.whole)
              A == One(t, "enclose")
              B == One(t, "rules")
              C == One(t, "whole")
  <2>1. t \in Transform
    BY <1>1
  <2>2. UnmergedPass[t]["impl"] = (a \o b) \o c /\ UnmergedPass[t] \in Pass
    BY <1>1, <2>1, UnmergedTyped DEF UnmergedPass, Unmerged
  <2>3. /\ "impl" \in t.given.enclose <=> "enclose" \in FunctionsOf(t)
        /\ t.given.rules <=> "rules" \in FunctionsOf(t)
        /\ "impl" \in t.given.whole <=> "whole" \in FunctionsOf(t)
    BY <2>1, FunctionsAre
  <2>4. Lists(a, A)
    <3>1. \A kinds : /\ "impl" \in kinds => Lists(Calls(t, "impl", "enclose", kinds), {<<"enclose", t.id>>})
                     /\ "impl" \notin kinds => Lists(Calls(t, "impl", "enclose", kinds), {})
      BY <2>1, CallsAre, FunctionNames
    <3>2. A = IF "impl" \in t.given.enclose THEN {<<"enclose", t.id>>} ELSE {}
      BY <2>3
    <3>. HIDE DEF A
    <3>. QED  BY <3>1, <3>2, Zenon
  <2>5. Lists(b, B)
    <3>1. B = IF t.given.rules THEN {<<"rules", t.id>>} ELSE {}
      BY <2>3
    <3>2. /\ t.given.rules => Lists(b, {<<"rules", t.id>>})
          /\ ~t.given.rules => Lists(b, {})
      BY <2>1, RulesAre
    <3>. HIDE DEF B, b
    <3>. QED  BY <3>1, <3>2, Zenon
  <2>6. Lists(c, C)
    <3>1. \A kinds : /\ "impl" \in kinds => Lists(Calls(t, "impl", "whole", kinds), {<<"whole", t.id>>})
                     /\ "impl" \notin kinds => Lists(Calls(t, "impl", "whole", kinds), {})
      BY <2>1, CallsAre, FunctionNames
    <3>2. C = IF "impl" \in t.given.whole THEN {<<"whole", t.id>>} ELSE {}
      BY <2>3
    <3>. HIDE DEF C
    <3>. QED  BY <3>1, <3>2, Zenon
  <2>7. A \cap B = {} /\ (A \cup B) \cap C = {} /\ G[t] = (A \cup B) \cup C
    OBVIOUS
  <2>. HIDE DEF a, b, c, A, B, C, G
  <2>8. Lists(a \o b, A \cup B)
    BY <2>4, <2>5, <2>7, ListsBoth
  <2>. DEFINE d == a \o b
              D == A \cup B
  <2>9. Lists(d, D) /\ D \cap C = {}
    BY <2>7, <2>8
  <2>. HIDE DEF d, D
  <2>10. Lists(d \o c, D \cup C)
    BY <2>6, <2>9, ListsBoth
  <2>. QED  BY <2>2, <2>7, <2>10 DEF d, D
<1>4. ASSUME NEW t \in R, NEW x PROVE x \in G[t] <=> /\ x[2] = t.id /\ x = <<x[1], x[2]>>
                                                   /\ x[1] \in FunctionsOf(t) \cap {"enclose", "rules", "whole"}
  OBVIOUS
<1>5. \A t, u \in R : \A x : x \in G[t] /\ x \in G[u] => t = u
  <2>1. \A t, u \in R : t.id = u.id => t = u
    BY DEF Distinct
  <2>. HIDE DEF G
  <2>. QED  BY <1>4, <2>1
<1>6. UNION {G[t] : t \in R} = Generic(R)
  <2>1. \A t \in R : G[t] = (One(t, "enclose") \cup One(t, "rules")) \cup One(t, "whole")
    OBVIOUS
  <2>2. \A fn, x : x \in Users(R, fn) <=> \E t \in R : x \in One(t, fn)
    BY DEF Users
  <2>. HIDE DEF One, G
  <2>. QED  BY <2>1, <2>2 DEF Generic
<1>. HIDE DEF G
<1>7. Lists(Run(PassesFor(ts, UnmergedPass), "impl"), UNION {G[t] : t \in R})
  <2>1. \A t \in R : UnmergedPass[t] \in Pass /\ Lists(UnmergedPass[t]["impl"], G[t])
    BY <1>3
  <2>. QED  BY <1>1, <1>5, <2>1, PassesList
<1>. QED  BY <1>2, <1>6, <1>7

--------------------------------------------------------------------------------
(***************************************************************************)
(* All the passes together.                                                *)
(***************************************************************************)
\* make_generic returns passes.
LEMMA GenericTyped ==
  ASSUME NEW ts \in Seq(Transform)
  PROVE  MakeGeneric(ts) \in Seq(Pass)
<1>1. "impl" \in Kind
  BY DEF Kind
<1>2. CASE noMerge
  <2>1. MakeGeneric(ts) = PassesFor(ts, UnmergedPass)
    BY <1>2, PartsAre DEF MakeGeneric
  <2>2. \A t \in Transform : UnmergedPass[t] \in Pass /\ UnmergedPass[t]["impl"] \in Seq(Call)
    BY <1>1, UnmergedTyped, PassTyped DEF UnmergedPass
  <2>3. OnlyCalls(PassesFor(ts, UnmergedPass), "impl", Call)
    BY <1>1, <2>2, PassesOnly
  <2>. QED  BY <2>1, <2>3 DEF OnlyCalls
<1>3. CASE ~noMerge
  <2>1. OnlyCalls(MakeGeneric(ts), "impl", CallsOf({"enclose", "rules", "whole"}))
    BY <1>1, <1>3, MergedRun
  <2>. QED  BY <2>1 DEF OnlyCalls
<1>. QED  BY <1>2, <1>3

\* So do the other parts.
LEMMA PartsTyped ==
  ASSUME NEW ts \in Seq(Transform)
  PROVE  /\ LinterPasses(ts) \in Seq(Pass) /\ PreprocessPasses(ts) \in Seq(Pass)
         /\ InstrumentPasses(ts, "before") \in Seq(Pass)
         /\ InstrumentPasses(ts, "after") \in Seq(Pass)
         /\ Rest(ts) \in Seq(Transform) /\ MakeGeneric(Rest(ts)) \in Seq(Pass)
<1>1. Rest(ts) \in Seq(Transform)
  BY ReverseTyped DEF Rest
<1>2. /\ OnlyCalls(LinterPasses(ts), "impl", CallsOf({"lint"}))
      /\ OnlyCalls(PreprocessPasses(ts), "impl", CallsOf({"preprocess"}))
      /\ OnlyCalls(InstrumentPasses(ts, "before"), "impl", CallsOf({"before"}))
      /\ OnlyCalls(InstrumentPasses(ts, "after"), "impl", CallsOf({"after"}))
  <2>1. "impl" \in Kind
    BY DEF Kind
  <2>. QED  BY <2>1, PartsOnly
<1>. QED  BY <1>1, <1>2, GenericTyped DEF OnlyCalls

\* get_whole_ast_passes returns passes.
LEMMA WholeTyped ==
  ASSUME NEW ts \in Seq(Transform)
  PROVE  WholeAstPasses(ts) \in Seq(Pass)
<1>. DEFINE a == LinterPasses(ts)
            b == PreprocessPasses(ts)
            c == InstrumentPasses(ts, "before")
            d == MakeGeneric(Rest(ts))
            e == InstrumentPasses(ts, "after")
<1>1. /\ a \in Seq(Pass) /\ b \in Seq(Pass) /\ c \in Seq(Pass)
      /\ d \in Seq(Pass) /\ e \in Seq(Pass)
  BY PartsTyped
<1>2. WholeAstPasses(ts) = a \o b \o c \o d \o e
  BY DEF WholeAstPasses
<1>. HIDE DEF a, b, c, d, e
<1>. QED  BY <1>1, <1>2

Joined(a, b, c, d, e) == (((a \o b) \o c) \o d) \o e

\* Five lists of passes run one after the other.
LEMMA JoinedRun ==
  ASSUME NEW a \in Seq(Pass), NEW b \in Seq(Pass), NEW c \in Seq(Pass), NEW d \in Seq(Pass),
         NEW e \in Seq(Pass), NEW k \in Kind
  PROVE  Run(Joined(a, b, c, d, e), k)
           = Joined(Run(a, k), Run(b, k), Run(c, k), Run(d, k), Run(e, k))
<1>1. \A s \in Seq(Pass) : OnlyCalls(s, k, Call)
  BY ManyTyped
<1>2. \A s, t \in Seq(Pass) : RunsBoth(s, t, k, Call)
  BY <1>1, RunConcat
<1>. DEFINE ab == a \o b
            abc == ab \o c
            abcd == abc \o d
<1>3. RunsBoth(a, b, k, Call)
  BY <1>2
<1>4. ab \in Seq(Pass) /\ Run(ab, k) = Run(a, k) \o Run(b, k)
  BY <1>3 DEF RunsBoth
<1>. HIDE DEF ab
<1>5. RunsBoth(ab, c, k, Call)
  BY <1>2, <1>4
<1>6. abc \in Seq(Pass) /\ Run(abc, k) = Run(ab, k) \o Run(c, k)
  BY <1>4, <1>5 DEF RunsBoth
<1>. HIDE DEF abc
<1>7. RunsBoth(abc, d, k, Call)
  BY <1>2, <1>6
<1>8. abcd \in Seq(Pass) /\ Run(abcd, k) = Run(abc, k) \o Run(d, k)
  BY <1>6, <1>7 DEF RunsBoth
<1>. HIDE DEF abcd
<1>9. RunsBoth(abcd, e, k, Call)
  BY <1>2, <1>8
<1>10. Run(abcd \o e, k) = Run(abcd, k) \o Run(e, k)
  BY <1>9 DEF RunsBoth
<1>. QED  BY <1>4, <1>6, <1>8, <1>10 DEF Joined, ab, abc, abcd

\* Five listings without an element in common.
LEMMA JoinedLists ==
  ASSUME NEW a, NEW A, Lists(a, A), NEW b, NEW B, Lists(b, B), NEW c, NEW C, Lists(c, C),
         NEW d, NEW D, Lists(d, D), NEW e, NEW E, Lists(e, E),
         A \cap B = {}, (A \cup B) \cap C = {}, (A \cup B \cup C) \cap D = {},
         (A \cup B \cup C \cup D) \cap E = {}
  PROVE  Lists(Joined(a, b, c, d, e), A \cup B \cup C \cup D \cup E)
<1>. DEFINE ab == a \o b
            AB == A \cup B
            abc == ab \o c
            ABC == AB \cup C
            abcd == abc \o d
            ABCD == ABC \cup D
<1>1. Lists(ab, AB) /\ AB \cap C = {}
  BY ListsBoth
<1>2. ABC \cap D = {} /\ ABCD \cap E = {}
  OBVIOUS
<1>. HIDE DEF ab, AB
<1>3. Lists(abc, ABC)
  BY <1>1, ListsBoth
<1>. HIDE DEF abc, ABC
<1>4. Lists(abcd, ABCD)
  BY <1>2, <1>3, ListsBoth
<1>. HIDE DEF abcd, ABCD
<1>5. Lists(abcd \o e, ABCD \cup E)
  BY <1>2, <1>4, ListsBoth
<1>. QED  BY <1>5 DEF Joined, ab, abc, abcd, AB, ABC, ABCD

\* The calls all the functions of R stand for.
AllUsers(R) ==
  Users(R, "lint") \cup Users(R, "preprocess") \cup Users(R, "before")
  \cup Generic(R) \cup Users(R, "after")

\* What get_whole_ast_passes runs, part by part.
LEMMA WholeRun ==
  ASSUME NEW ts \in Seq(Transform), NEW k \in Kind
  PROVE  Run(WholeAstPasses(ts), k)
           = Joined(Run(LinterPasses(ts), k), Run(PreprocessPasses(ts), k),
                    Run(InstrumentPasses(ts, "before"), k), Run(MakeGeneric(Rest(ts)), k),
                    Run(InstrumentPasses(ts, "after"), k))
<1>1. WholeAstPasses(ts)
        = Joined(LinterPasses(ts), PreprocessPasses(ts), InstrumentPasses(ts, "before"),
                 MakeGeneric(Rest(ts)), InstrumentPasses(ts, "after"))
  BY DEF WholeAstPasses, Joined
<1>. QED  BY <1>1, PartsTyped, JoinedRun

\* On an implementation it calls every function of a listing once.
LEMMA WholeList ==
  ASSUME kind = "impl", NEW R, Distinct(R), NEW ts, Lists(ts, R)
  PROVE  Lists(Run(WholeAstPasses(ts), "impl"), AllUsers(R))
<1>1. ts \in Seq(Transform) /\ "impl" \in Kind /\ noMerge \in {noMerge}
  BY DEF Distinct, Lists, Kind
<1>2. Lists(Rest(ts), R)
  BY ListsReversed DEF Rest
<1>3. Lists(Run(MakeGeneric(Rest(ts)), "impl"), Generic(R))
  <2>1. CASE noMerge
    BY <1>2, <2>1, UnmergedList
  <2>2. CASE ~noMerge
    BY <1>2, <2>2, MergedList
  <2>. QED  BY <2>1, <2>2
<1>4. /\ Lists(Run(LinterPasses(ts), "impl"), Users(R, "lint"))
      /\ Lists(Run(PreprocessPasses(ts), "impl"), Users(R, "preprocess"))
      /\ Lists(Run(InstrumentPasses(ts, "before"), "impl"), Users(R, "before"))
      /\ Lists(Run(InstrumentPasses(ts, "after"), "impl"), Users(R, "after"))
  BY LintersList, PreprocessorsList, InstrumentsList
<1>. DEFINE A == Users(R, "lint")
            B == Users(R, "preprocess")
            C == Users(R, "before")
            D == Generic(R)
            E == Users(R, "after")
<1>5. /\ A \cap B = {} /\ (A \cup B) \cap C = {} /\ (A \cup B \cup C) \cap D = {}
      /\ (A \cup B \cup C \cup D) \cap E = {}
  <2>1. /\ \A x \in A : x[1] = "lint"
        /\ \A x \in B : x[1] = "preprocess"
        /\ \A x \in C : x[1] = "before"
        /\ \A x \in D : x[1] \in {"enclose", "rules", "whole"}
        /\ \A x \in E : x[1] = "after"
    BY DEF Users, Generic
  <2>. HIDE DEF A, B, C, D, E
  <2>. QED  BY <2>1
<1>. HIDE DEF A, B, C, D, E
<1>6. Lists(Joined(Run(LinterPasses(ts), "impl"), Run(PreprocessPasses(ts), "impl"),
                   Run(InstrumentPasses(ts, "before"), "impl"), Run(MakeGeneric(Rest(ts)), "impl"),
                   Run(InstrumentPasses(ts, "after"), "impl")), A \cup B \cup C \cup D \cup E)
  BY <1>3, <1>4, <1>5, JoinedLists DEF A, B, C, D, E
<1>. QED  BY <1>1, <1>6, WholeRun DEF AllUsers, A, B, C, D, E

--------------------------------------------------------------------------------
(***************************************************************************)
(* The documented order of the stages.                                     *)
(***************************************************************************)
Staged(s, n) ==
  /\ s \in Seq(Call)
  /\ \A i \in 1..Len(s) : Stage(s[i]) \in 1..n
  /\ \A i, j \in 1..Len(s) : i < j => Stage(s[i]) <= Stage(s[j])

\* The stage of the calls of each part.
LEMMA StageOf ==
  /\ \A x \in CallsOf({"lint"}) : Stage(x) = 1
  /\ \A x \in CallsOf({"preprocess"}) : Stage(x) = 2
  /\ \A x \in CallsOf({"before"}) : Stage(x) = 3
  /\ \A x \in CallsOf({"enclose", "rules"}) : Stage(x) = 4
  /\ \A x \in CallsOf({"whole"}) : Stage(x) = 5
  /\ \A x \in CallsOf({"after"}) : Stage(x) = 6
BY DEF CallsOf, Stage

\* A part of a later stage, or of the same, may follow.
LEMMA StagedThen ==
  ASSUME NEW n \in Nat, NEW m \in Nat, n <= m, m > 0, NEW s, Staged(s, n),
         NEW X, X \subseteq Call, NEW t \in Seq(X), \A x \in X : Stage(x) = m
  PROVE  Staged(s \o t, m)
<1>. DEFINE a == Len(s)
            b == Len(t)
            u == s \o t
<1>1. s \in Seq(Call) /\ t \in Seq(Call) /\ a \in Nat /\ b \in Nat
  BY DEF Staged
<1>2. \A i \in 1..b : t[i] \in X
  BY ElementOfSeq
<1>3. /\ u \in Seq(Call) /\ Len(u) = a + b
      /\ \A i \in 1..(a + b) : u[i] = IF i <= a THEN s[i] ELSE t[i - a]
  BY <1>1, ConcatProperties
<1>4. /\ \A i \in 1..a : Stage(s[i]) \in 1..n
      /\ \A i, j \in 1..a : i < j => Stage(s[i]) <= Stage(s[j])
  BY DEF Staged
<1>. HIDE DEF u, a, b
<1>5. \A i \in 1..(a + b) : /\ i <= a => i \in 1..a /\ u[i] = s[i] /\ Stage(u[i]) \in 1..n
                            /\ ~(i <= a) => Stage(u[i]) = m
  <2>. TAKE i \in 1..(a + b)
  <2>1. CASE i <= a
    <3>1. i \in 1..a
      BY <1>1, <2>1
    <3>. QED  BY <1>3, <1>4, <2>1, <3>1
  <2>2. CASE ~(i <= a)
    <3>1. i - a \in 1..b
      BY <1>1, <2>2
    <3>. QED  BY <1>2, <1>3, <2>2, <3>1
  <2>. QED  BY <2>1, <2>2
<1>6. \A i \in 1..(a + b) : Stage(u[i]) \in 1..m
  <2>. TAKE i \in 1..(a + b)
  <2>1. CASE i <= a
    BY <1>5, <2>1
  <2>2. CASE ~(i <= a)
    BY <1>5, <2>2
  <2>. QED  BY <2>1, <2>2
<1>7. \A i, j \in 1..(a + b) : i < j => Stage(u[i]) <= Stage(u[j])
  <2>. TAKE i, j \in 1..(a + b)
  <2>. HAVE i < j
  <2>1. CASE j <= a
    <3>1. i \in 1..a /\ j \in 1..a /\ u[i] = s[i] /\ u[j] = s[j]
      BY <1>1, <1>5, <2>1
    <3>. QED  BY <1>4, <3>1
  <2>2. CASE ~(j <= a)
    <3>1. Stage(u[j]) = m
      BY <1>5, <2>2
    <3>2. Stage(u[i]) \in 1..m
      BY <1>6
    <3>. QED  BY <3>1, <3>2
  <2>. QED  BY <2>1, <2>2
<1>. QED  BY <1>3, <1>6, <1>7 DEF Staged, u

AtStage(t, m) == t \in Seq(Call) /\ \A i \in 1..Len(t) : Stage(t[i]) = m

\* Calls that all belong to one stage.
LEMMA AtStages ==
  ASSUME NEW X, X \subseteq Call, NEW m, \A x \in X : Stage(x) = m, NEW t \in Seq(X)
  PROVE  AtStage(t, m)
<1>1. \A i \in 1..Len(t) : t[i] \in X
  BY ElementOfSeq
<1>2. t \in Seq(Call)
  OBVIOUS
<1>. QED  BY <1>1, <1>2 DEF AtStage

StagedBoth(s, t, n) == Staged(s \o t, n)

\* The next stage may follow.
LEMMA StagedNext ==
  ASSUME NEW n \in Nat, NEW s, Staged(s, n), NEW t, AtStage(t, n + 1)
  PROVE  StagedBoth(s, t, n + 1)
<1>. DEFINE X == {x \in Call : Stage(x) = n + 1}
<1>1. t \in Seq(Call) /\ \A i \in 1..Len(t) : t[i] \in X
  BY ElementOfSeq DEF AtStage
<1>2. X \subseteq Call /\ \A x \in X : Stage(x) = n + 1
  OBVIOUS
<1>3. n + 1 \in Nat /\ n <= n + 1 /\ n + 1 > 0
  OBVIOUS
<1>. HIDE DEF X
<1>4. t \in Seq(X)
  <2>1. Len(t) \in Nat /\ t \in [1..Len(t) -> X]
    BY <1>1
  <2>. QED  BY <2>1
<1>. DEFINE m == n + 1
<1>5. m \in Nat /\ n <= m /\ m > 0 /\ \A x \in X : Stage(x) = m
  BY <1>2, <1>3
<1>. HIDE DEF m
<1>6. Staged(s \o t, m)
  BY <1>2, <1>4, <1>5, StagedThen
<1>. QED  BY <1>6 DEF StagedBoth, m

\* With the merged pass, an implementation goes through the stages in order.
LEMMA WholeStaged ==
  ASSUME ~noMerge, NEW ts \in Seq(Transform)
  PROVE  Staged(Run(WholeAstPasses(ts), "impl"), 6)
<1>. DEFINE rs == Rest(ts)
            a == Run(LinterPasses(ts), "impl")
            b == Run(PreprocessPasses(ts), "impl")
            c == Run(InstrumentPasses(ts, "before"), "impl")
            d == Enclosers(rs, "impl") \o AllRules(rs)
            e == Run(Map(Whole, rs), "impl")
            f == Run(InstrumentPasses(ts, "after"), "impl")
<1>1. "impl" \in Kind /\ rs \in Seq(Transform)
  BY PartsTyped DEF Kind
<1>2. Run(MakeGeneric(rs), "impl") = d \o e
  BY <1>1, MergedRun
<1>3. Run(WholeAstPasses(ts), "impl") = (((a \o b) \o c) \o (d \o e)) \o f
  BY <1>1, <1>2, WholeRun DEF Joined
<1>4. /\ a \in Seq(CallsOf({"lint"})) /\ b \in Seq(CallsOf({"preprocess"}))
      /\ c \in Seq(CallsOf({"before"})) /\ d \in Seq(CallsOf({"enclose", "rules"}))
      /\ e \in Seq(CallsOf({"whole"})) /\ f \in Seq(CallsOf({"after"}))
  <2>1. a \in Seq(CallsOf({"lint"})) /\ b \in Seq(CallsOf({"preprocess"}))
    BY <1>1, PartsOnly, RunTyped
  <2>2. c \in Seq(CallsOf({"before"})) /\ f \in Seq(CallsOf({"after"}))
    BY <1>1, PartsOnly, RunTyped
  <2>3. e \in Seq(CallsOf({"whole"}))
    BY <1>1, PartsOnly, RunTyped
  <2>4. d \in Seq(CallsOf({"enclose", "rules"}))
    BY <1>1, ContextFreeTyped
  <2>. QED  BY <2>1, <2>2, <2>3, <2>4
<1>5. /\ CallsOf({"lint"}) \subseteq Call /\ CallsOf({"preprocess"}) \subseteq Call
      /\ CallsOf({"before"}) \subseteq Call /\ CallsOf({"enclose", "rules"}) \subseteq Call
      /\ CallsOf({"whole"}) \subseteq Call /\ CallsOf({"after"}) \subseteq Call
  BY FunctionNames DEF CallsOf, Call
<1>. HIDE DEF rs, a, b, c, d, e, f, CallsOf
<1>6. /\ AtStage(a, 0 + 1) /\ AtStage(b, 1 + 1) /\ AtStage(c, 2 + 1)
      /\ AtStage(d, 3 + 1) /\ AtStage(e, 4 + 1) /\ AtStage(f, 5 + 1)
  <2>1. AtStage(a, 1) /\ AtStage(b, 2) /\ AtStage(c, 3)
    BY <1>4, <1>5, StageOf, AtStages
  <2>2. AtStage(d, 4) /\ AtStage(e, 5) /\ AtStage(f, 6)
    BY <1>4, <1>5, StageOf, AtStages
  <2>. QED  BY <2>1, <2>2
<1>. DEFINE ab == a \o b
            abc == ab \o c
            abcd == abc \o d
            abcde == abcd \o e
<1>7. Staged(a, 1)
  BY <1>6 DEF AtStage, Staged
<1>8. StagedBoth(a, b, 1 + 1)
  BY <1>6, <1>7, StagedNext
<1>9. Staged(ab, 2)
  BY <1>8 DEF StagedBoth
<1>. HIDE DEF ab
<1>10. StagedBoth(ab, c, 2 + 1)
  BY <1>6, <1>9, StagedNext
<1>11. Staged(abc, 3)
  BY <1>10 DEF StagedBoth
<1>. HIDE DEF abc
<1>12. StagedBoth(abc, d, 3 + 1)
  BY <1>6, <1>11, StagedNext
<1>13. Staged(abcd, 4)
  BY <1>12 DEF StagedBoth
<1>. HIDE DEF abcd
<1>14. StagedBoth(abcd, e, 4 + 1)
  BY <1>6, <1>13, StagedNext
<1>15. Staged(abcde, 5)
  BY <1>14 DEF StagedBoth
<1>. HIDE DEF abcde
<1>16. StagedBoth(abcde, f, 5 + 1)
  BY <1>6, <1>15, StagedNext
<1>17. Staged(abcde \o f, 6)
  BY <1>16 DEF StagedBoth
<1>18. abcde = abc \o (d \o e)
  <2>1. abc \in Seq(Call) /\ d \in Seq(Call) /\ e \in Seq(Call)
    BY <1>4, <1>5, <1>11 DEF Staged
  <2>2. Associates(abc, d, e)
    BY <2>1, Associative
  <2>. QED  BY <2>2 DEF Associates, abcde, abcd
<1>. QED  BY <1>3, <1>17, <1>18 DEF rs, abc, ab

--------------------------------------------------------------------------------
(***************************************************************************)
(* The inductive invariant.                                                *)
(***************************************************************************)
Phases == {"linking", "arguments", "bad_argument", "ready", "failed", "running", "done"}

\* The registrations, newest first; the numbers tell them apart.
Linked ==
  /\ all \in Seq(Transform) /\ Len(all) <= MaxTransforms
  /\ \A i \in 1..Len(all) : all[i].id = Len(all) - i + 1

\* What interpret_mask makes of the options.
Masked == mask.apply # NoList \/ mask.dontApply # NoList
NamesOf(w) == [i \in DOMAIN w |-> w[i].given.name]
Selected == Kept(all, {t \in Transform : IsSelected(t)})

\* The passes still to run make the calls still missing from the trace.
Planned == trace \o Run(passes, kind) = Run(WholeAstPasses(Applied), kind)

PassesInv ==
  /\ phase \in Phases /\ kind \in Kind
  /\ Linked
  /\ trace \in Seq(Call) /\ passes \in Seq(Pass)
  /\ phase \in {"linking", "arguments"} => applyList = NoList
  /\ phase \in {"linking", "arguments", "ready"} => passes = <<>> /\ trace = <<>>
  /\ phase \in {"ready", "running", "done"} =>
       applyList = IF Masked THEN NamesOf(Selected) ELSE NoList
  /\ phase \in {"running", "done"} => Planned
  /\ phase = "done" => passes = <<>>

--------------------------------------------------------------------------------
(***************************************************************************)
(* The transformations applied.                                            *)
(***************************************************************************)
\* Transform.all lists the registrations, and numbers tell them apart.
LEMMA RegisteredLists ==
  ASSUME Linked
  PROVE  Lists(all, Registered) /\ Distinct(Registered) /\ all \in Seq(Transform)
<1>. DEFINE n == Len(all)
            R == Registered
<1>1. /\ all \in Seq(Transform) /\ n \in Nat /\ DOMAIN all = 1..n
      /\ \A i \in 1..n : all[i] \in Transform /\ all[i].id = n - i + 1
  BY ElementOfSeq DEF Linked
<1>2. R = {all[i] : i \in 1..n}
  BY <1>1 DEF Registered
<1>3. /\ \A i \in 1..n : all[i] \in R
      /\ \A t \in R : \E i \in 1..n : all[i] = t
  BY <1>2
<1>4. all \in [1..n -> R]
  BY <1>1, <1>3
<1>. HIDE DEF R
<1>5. all \in Seq(R)
  BY <1>1, <1>4
<1>6. \A i, j \in 1..n : all[i].id = all[j].id => i = j
  BY <1>1
<1>7. Lists(all, R)
  BY <1>3, <1>5, <1>6 DEF Lists
<1>8. \A t, u \in R : t.id = u.id => t = u
  BY <1>3, <1>6
<1>9. R \subseteq Transform
  BY <1>1, <1>3
<1>. QED  BY <1>1, <1>7, <1>8, <1>9 DEF Distinct, R

\* List.find by a registered name finds a transformation of that name.
LEMMA FindIs ==
  ASSUME Linked, NEW t \in Registered
  PROVE  Find(t.given.name) \in Registered /\ HasName(Find(t.given.name), t.given.name)
<1>. DEFINE n == t.given.name
            S == {i \in DOMAIN all : HasName(all[i], n)}
<1>1. DOMAIN all = 1..Len(all) /\ Len(all) \in Nat
  BY DEF Linked
<1>2. S # {} /\ S \in SUBSET Nat
  <2>1. PICK i \in DOMAIN all : all[i] = t
    BY DEF Registered
  <2>2. HasName(t, n)
    BY DEF HasName
  <2>. QED  BY <1>1, <2>1, <2>2
<1>3. PICK i \in S : \A j \in S : i <= j
  <2>. HIDE DEF S
  <2>. QED  BY <1>2, LeastExists
<1>4. /\ i \in DOMAIN all /\ HasName(all[i], n) /\ \A j \in 1..(i - 1) : ~HasName(all[j], n)
  <2>1. \A j \in 1..(i - 1) : j \in DOMAIN all /\ ~(i <= j)
    BY <1>1, <1>3
  <2>. QED  BY <1>3, <2>1
<1>. DEFINE c == CHOOSE k \in DOMAIN all : HasName(all[k], n) /\ \A j \in 1..(k - 1) : ~HasName(all[j], n)
<1>5. c \in DOMAIN all /\ HasName(all[c], n)
  BY <1>4
<1>6. Find(n) = all[c]
  BY DEF Find
<1>. QED  BY <1>5, <1>6 DEF Registered

\* interpret_mask keeps the transformations the options select.
LEMMA SelectedIs ==
  ASSUME Linked
  PROVE  /\ Lists(Selected, {t \in Registered : IsSelected(t)})
         /\ Selected \in Seq(Registered) /\ Selected \in Seq(Transform)
         /\ Selected = Where(IsSelected, all)
         /\ Map(LAMBDA t : t.given.name, Where(IsSelected, all)) = NamesOf(Selected)
         /\ NamesOf(Selected) # NoList /\ DOMAIN NamesOf(Selected) = DOMAIN Selected
<1>. DEFINE T == {t \in Transform : IsSelected(t)}
            w == Kept(all, T)
<1>1. Lists(all, Registered) /\ Registered \subseteq Transform /\ all \in Seq(Transform)
  BY RegisteredLists DEF Distinct
<1>2. Lists(w, Registered \cap T)
  BY <1>1, ListsKept
<1>3. Registered \cap T = {t \in Registered : IsSelected(t)}
  BY <1>1
<1>4. \A i \in DOMAIN all : all[i] \in Transform
  BY <1>1, ElementOfSeq
<1>5. w = Where(IsSelected, all)
  BY <1>4 DEF Kept, Where
<1>6. w \in Seq(Registered \cap T)
  BY <1>2 DEF Lists
<1>7. w \in Seq(Registered) /\ w \in Seq(Transform)
  BY <1>1, <1>6
<1>. HIDE DEF w
<1>8. NamesOf(w) \in Seq(Names) /\ DOMAIN NamesOf(w) = DOMAIN w
  <2>1. \A t \in Transform : t.given.name \in Names
    BY DEF Transform, Candidate
  <2>2. Len(w) \in Nat /\ DOMAIN w = 1..Len(w) /\ \A i \in 1..Len(w) : w[i] \in Transform
    BY <1>7, ElementOfSeq
  <2>3. NamesOf(w) \in [1..Len(w) -> Names]
    BY <2>1, <2>2 DEF NamesOf
  <2>. QED  BY <2>2, <2>3 DEF NamesOf
<1>9. NamesOf(w) # NoList
  BY <1>8, CandidatesAssumption
<1>10. Map(LAMBDA t : t.given.name, Where(IsSelected, all)) = NamesOf(w)
  BY <1>5 DEF Map, NamesOf
<1>. QED  BY <1>2, <1>3, <1>5, <1>7, <1>8, <1>9, <1>10 DEF Selected, w

Chosen == {t \in Registered : IsSelected(t)}

\* Looking the names up again gives them back, unless names clash.
LEMMA AppliedIs ==
  ASSUME Linked, applyList = IF Masked THEN NamesOf(Selected) ELSE NoList
  PROVE  /\ Applied \in Seq(Transform)
         /\ NoClash => Lists(Applied, Chosen)
<1>. DEFINE w == Selected
<1>1. Lists(all, Registered) /\ Registered \subseteq Transform /\ all \in Seq(Transform)
  BY RegisteredLists DEF Distinct
<1>2. CASE ~Masked
  <2>1. Applied = Reverse(all)
    BY <1>2 DEF Applied
  <2>2. Chosen = Registered
    BY <1>2 DEF Chosen, Masked, IsSelected
  <2>. QED  BY <1>1, <2>1, <2>2, ListsReversed, ReverseTyped
<1>3. CASE Masked
  <2>1. /\ w \in Seq(Registered) /\ Lists(w, Chosen) /\ NamesOf(w) # NoList
        /\ DOMAIN NamesOf(w) = DOMAIN w
    BY SelectedIs DEF Chosen
  <2>. HIDE DEF w
  <2>2. Applied = [i \in DOMAIN w |-> Find(w[i].given.name)]
    <3>1. Applied = Map(Find, NamesOf(w))
      BY <1>3, <2>1 DEF Applied, w
    <3>. QED  BY <2>1, <3>1 DEF Map, NamesOf
  <2>3. Len(w) \in Nat /\ DOMAIN w = 1..Len(w) /\ \A i \in 1..Len(w) : w[i] \in Registered
    BY <2>1, ElementOfSeq
  <2>4. \A i \in 1..Len(w) : Find(w[i].given.name) \in Registered
    BY <2>3, FindIs
  <2>5. Applied \in [1..Len(w) -> Transform]
    BY <1>1, <2>2, <2>3, <2>4
  <2>6. Applied \in Seq(Transform)
    BY <2>3, <2>5
  <2>7. ASSUME NoClash PROVE Lists(Applied, Chosen)
    <3>1. \A t \in Registered : Find(t.given.name) = t
      BY <2>7, FindIs DEF NoClash
    <3>2. Applied = [i \in DOMAIN w |-> w[i]]
      BY <2>2, <2>3, <3>1
    <3>3. Applied = w
      BY <2>1, <3>2
    <3>. QED  BY <2>1, <3>3
  <2>. QED  BY <2>6, <2>7
<1>. QED  BY <1>2, <1>3

--------------------------------------------------------------------------------
(***************************************************************************)
(* The invariant is kept.                                                  *)
(***************************************************************************)
\* The invariant holds of a driver that has linked nothing.
LEMMA PassesInit ==
  Init => PassesInv
<1>. SUFFICES ASSUME Init PROVE PassesInv
  OBVIOUS
<1>1. Linked
  <2>1. all = <<>> /\ <<>> \in Seq(Transform) /\ Len(<<>>) = 0
    BY DEF Init
  <2>. QED  BY <2>1, CandidatesAssumption DEF Linked
<1>. QED  BY <1>1 DEF Init, PassesInv, Phases

\* Transform.register gives the next number and keeps the rest.
LEMMA PassesRegister ==
  ASSUME PassesInv, NEW c \in Candidates, Register(c)
  PROVE  PassesInv'
<1>. DEFINE n == Len(all)
            new == [id |-> n + 1, given |-> c]
            one == <<new>>
<1>1. /\ all \in Seq(Transform) /\ n \in Nat /\ n < MaxTransforms /\ MaxTransforms \in Nat
      /\ \A i \in 1..n : all[i].id = n - i + 1
  BY CandidatesAssumption DEF PassesInv, Linked, Register
<1>2. new \in Transform /\ new.id = n + 1
  BY <1>1, CandidatesAssumption DEF Transform
<1>3. all' = one \o all
  BY DEF Register
<1>4. one \in Seq(Transform) /\ Len(one) = 1 /\ one[1] = new
  BY <1>2
<1>. HIDE DEF one, new
<1>. DEFINE u == one \o all
<1>5. /\ u \in Seq(Transform) /\ Len(u) = 1 + n
      /\ \A i \in 1..(1 + n) : u[i] = IF i <= 1 THEN one[i] ELSE all[i - 1]
  <2>1. /\ u \in Seq(Transform) /\ Len(u) = Len(one) + Len(all)
        /\ \A i \in 1..(Len(one) + Len(all)) :
             u[i] = IF i <= Len(one) THEN one[i] ELSE all[i - Len(one)]
    BY <1>1, <1>4, ConcatProperties
  <2>. HIDE DEF u
  <2>. QED  BY <1>4, <2>1
<1>. HIDE DEF u
<1>6. \A i \in 1..(n + 1) : u[i].id = (n + 1) - i + 1
  <2>. TAKE i \in 1..(n + 1)
  <2>1. CASE i = 1
    BY <1>1, <1>2, <1>4, <1>5, <2>1
  <2>2. CASE i # 1
    <3>1. i - 1 \in 1..n /\ ~(i <= 1) /\ i \in 1..(1 + n) /\ n - (i - 1) + 1 = (n + 1) - i + 1
      BY <1>1, <2>2
    <3>2. u[i] = all[i - 1]
      BY <1>5, <3>1
    <3>. QED  BY <1>1, <3>1, <3>2
  <2>. QED  BY <2>1, <2>2
<1>7. Linked'
  <2>1. all' = u /\ Len(u) = n + 1 /\ n + 1 <= MaxTransforms
    BY <1>1, <1>3, <1>5 DEF u
  <2>. QED  BY <1>5, <1>6, <2>1 DEF Linked
<1>. QED  BY <1>7 DEF PassesInv, Register, Phases

\* What an action that leaves the transformations and the options alone keeps.
LEMMA Unchosen ==
  ASSUME UNCHANGED <<all, mask>>
  PROVE  /\ Linked' = Linked /\ Masked' = Masked /\ Selected' = Selected
         /\ Registered' = Registered
<1>1. \A t : IsSelected(t)' = IsSelected(t)
  BY DEF IsSelected
<1>. QED  BY <1>1 DEF Linked, Masked, Selected, Registered

\* The plan is made from the list, the selection and -no-merge.
LEMMA Unplanned ==
  ASSUME UNCHANGED <<all, applyList, noMerge>>, NEW ts
  PROVE  WholeAstPasses(ts)' = WholeAstPasses(ts) /\ Applied' = Applied
<1>1. WholeAstPasses(ts)' = WholeAstPasses(ts)
  BY DEF WholeAstPasses, MakeGeneric
<1>2. Applied' = Applied
  BY DEF Applied, Map, Find
<1>. QED  BY <1>1, <1>2

\* Parsing of options touches no plan.
LEMMA PassesOptions ==
  ASSUME PassesInv, EndLinking \/ SetNoMerge
                    \/ \E names \in NameLists : HandleApply(names) \/ HandleDontApply(names)
  PROVE  PassesInv'
<1>1. /\ phase \in {"linking", "arguments"}
      /\ phase' \in {"arguments", "bad_argument"}
      /\ UNCHANGED <<all, applyList, kind, passes, trace>>
  BY DEF EndLinking, SetNoMerge, HandleApply, HandleDontApply
<1>2. Linked'
  BY <1>1 DEF PassesInv, Linked
<1>. QED  BY <1>1, <1>2 DEF PassesInv, Phases

\* interpret_mask selects what the options say.
LEMMA PassesInterpretMask ==
  ASSUME PassesInv, InterpretMask
  PROVE  PassesInv'
<1>1. /\ Linked /\ applyList = NoList /\ phase' = "ready" /\ passes = <<>> /\ trace = <<>>
      /\ UNCHANGED <<all, mask, noMerge, kind, passes, trace>>
      /\ applyList' = IF Masked THEN Map(LAMBDA t : t.given.name, Where(IsSelected, all)) ELSE applyList
  BY DEF PassesInv, InterpretMask, Masked
<1>2. applyList' = IF Masked THEN NamesOf(Selected) ELSE NoList
  BY <1>1, SelectedIs
<1>3. Linked' = Linked /\ Masked' = Masked /\ Selected' = Selected
  BY <1>1, Unchosen
<1>4. NamesOf(Selected)' = NamesOf(Selected)
  BY <1>3 DEF NamesOf
<1>5. applyList' = IF Masked' THEN NamesOf(Selected)' ELSE NoList
  BY <1>2, <1>3, <1>4
<1>. QED  BY <1>1, <1>3, <1>5 DEF PassesInv, Phases

\* The plan is what is to be run, and nothing has run yet.
LEMMA PassesPlan ==
  ASSUME PassesInv, PlanPasses
  PROVE  PassesInv'
<1>1. /\ Linked /\ applyList = IF Masked THEN NamesOf(Selected) ELSE NoList
      /\ kind \in Kind /\ passes = <<>> /\ trace = <<>>
      /\ UNCHANGED <<all, mask, applyList, noMerge, kind, trace>>
  BY DEF PassesInv, PlanPasses
<1>2. Linked' /\ Masked' = Masked /\ Selected' = Selected
  BY <1>1, Unchosen
<1>3. applyList' = IF Masked' THEN NamesOf(Selected)' ELSE NoList
  BY <1>1, <1>2 DEF NamesOf
<1>4. CASE phase' = "failed" /\ UNCHANGED passes
  BY <1>1, <1>2, <1>4 DEF PassesInv, Phases
<1>5. CASE phase' = "running" /\ passes' = WholeAstPasses(Applied)
  <2>1. Applied \in Seq(Transform)
    BY <1>1, AppliedIs
  <2>2. WholeAstPasses(Applied) \in Seq(Pass)
    BY <2>1, WholeTyped
  <2>3. WholeAstPasses(Applied)' = WholeAstPasses(Applied)
    <3>1. Applied' = Applied
      BY <1>1, Unplanned
    <3>2. WholeAstPasses(Applied') = WholeAstPasses(Applied)
      BY <3>1
    <3>. QED  BY <1>1, <3>1 DEF WholeAstPasses, MakeGeneric
  <2>4. Run(WholeAstPasses(Applied), kind) \in Seq(Call)
    BY <1>1, <2>2, ManyTyped, RunTyped
  <2>5. Planned'
    <3>. DEFINE p == WholeAstPasses(Applied)
    <3>1. p' = p /\ passes' = p /\ kind' = kind /\ trace' = <<>>
      BY <1>1, <1>5, <2>3
    <3>2. Planned' <=> trace' \o Run(passes', kind') = Run(p', kind')
      BY DEF Planned, Run
    <3>. HIDE DEF p
    <3>3. Run(p, kind) \in Seq(Call)
      BY <2>4 DEF p
    <3>4. <<>> \o Run(p, kind) = Run(p, kind)
      BY <3>3, ConcatEmptySeq
    <3>. QED  BY <3>1, <3>2, <3>4
  <2>. QED  BY <1>1, <1>2, <1>3, <1>5, <2>2, <2>5 DEF PassesInv, Phases
<1>. QED  BY <1>4, <1>5 DEF PlanPasses

\* A step of the fold moves the calls of a pass to the trace.
LEMMA PassesRun ==
  ASSUME PassesInv, RunPass
  PROVE  PassesInv'
<1>1. /\ Linked /\ applyList = IF Masked THEN NamesOf(Selected) ELSE NoList
      /\ kind \in Kind /\ phase = "running" /\ passes # <<>> /\ passes \in Seq(Pass)
      /\ trace \in Seq(Call) /\ Planned
      /\ trace' = trace \o Head(passes)[kind] /\ passes' = Tail(passes)
      /\ UNCHANGED <<phase, all, mask, applyList, noMerge, kind>>
  BY DEF PassesInv, RunPass
<1>2. Linked' /\ Masked' = Masked /\ Selected' = Selected
  BY <1>1, Unchosen
<1>3. applyList' = IF Masked' THEN NamesOf(Selected)' ELSE NoList
  BY <1>1, <1>2 DEF NamesOf
<1>. DEFINE h == Head(passes)[kind]
            r == Run(Tail(passes), kind)
            p == WholeAstPasses(Applied)
<1>4. /\ Run(passes, kind) = h \o r
      /\ OnlyCalls(Tail(passes), kind, Call) /\ h \in Seq(Call)
  BY <1>1, ManyTyped, RunHead
<1>5. r \in Seq(Call)
  BY <1>1, <1>4, RunTyped
<1>6. Tail(passes) \in Seq(Pass)
  BY <1>4 DEF OnlyCalls
<1>7. p' = p
  <2>1. Applied' = Applied
    BY <1>1, Unplanned
  <2>. QED  BY <1>1, <2>1 DEF WholeAstPasses, MakeGeneric
<1>. HIDE DEF h, r, p
<1>8. Associates(trace, h, r)
  BY <1>1, <1>4, <1>5, Associative
<1>9. (trace \o h) \o r = Run(p, kind)
  BY <1>1, <1>4, <1>8 DEF Associates, Planned, p
<1>10. Planned'
  <2>1. Planned' <=> trace' \o Run(passes', kind') = Run(p', kind')
    BY DEF Planned, Run, p
  <2>2. Run(passes', kind') = r /\ trace' = trace \o h /\ kind' = kind
    BY <1>1 DEF r, h
  <2>. QED  BY <1>7, <1>9, <2>1, <2>2
<1>11. trace \o h \in Seq(Call)
  BY <1>1, <1>4
<1>12. trace' \in Seq(Call) /\ passes' \in Seq(Pass)
  BY <1>1, <1>6, <1>11 DEF h
<1>. QED  BY <1>1, <1>2, <1>3, <1>10, <1>12 DEF PassesInv, Phases

\* The end, and a step that changes nothing.
LEMMA PassesFinish ==
  ASSUME PassesInv, Finish \/ UNCHANGED vars
  PROVE  PassesInv'
<1>1. UNCHANGED <<all, mask, applyList, noMerge, kind, passes, trace>>
  BY DEF Finish, vars
<1>2. /\ Linked' = Linked /\ Masked' = Masked /\ Selected' = Selected
  BY <1>1, Unchosen
<1>3. NamesOf(Selected)' = NamesOf(Selected)
  BY <1>2 DEF NamesOf
<1>. DEFINE p == WholeAstPasses(Applied)
<1>4. p' = p
  <2>1. Applied' = Applied
    BY <1>1, Unplanned
  <2>. QED  BY <1>1, <2>1 DEF WholeAstPasses, MakeGeneric
<1>. HIDE DEF p
<1>5. Planned' = Planned
  <2>1. Planned' <=> trace' \o Run(passes', kind') = Run(p', kind')
    BY DEF Planned, Run, p
  <2>2. Planned <=> trace \o Run(passes, kind) = Run(p, kind)
    BY DEF Planned, p
  <2>. QED  BY <1>1, <1>4, <2>1, <2>2
<1>6. \/ phase = "running" /\ phase' = "done" /\ passes = <<>>
      \/ phase' = phase
  BY DEF Finish, vars
<1>. QED  BY <1>1, <1>2, <1>3, <1>5, <1>6 DEF PassesInv, Phases

\* Every step keeps the invariant.
LEMMA PassesStep ==
  PassesInv /\ [Next]_vars => PassesInv'
<1>. SUFFICES ASSUME PassesInv, [Next]_vars PROVE PassesInv'
  OBVIOUS
<1>1. CASE \E c \in Candidates : Register(c)
  BY <1>1, PassesRegister
<1>2. CASE EndLinking \/ SetNoMerge
           \/ \E names \in NameLists : HandleApply(names) \/ HandleDontApply(names)
  BY <1>2, PassesOptions
<1>3. CASE InterpretMask
  BY <1>3, PassesInterpretMask
<1>4. CASE PlanPasses
  BY <1>4, PassesPlan
<1>5. CASE RunPass
  BY <1>5, PassesRun
<1>6. CASE Finish \/ UNCHANGED vars
  BY <1>6, PassesFinish
<1>. QED  BY <1>1, <1>2, <1>3, <1>4, <1>5, <1>6 DEF Next

\* What is still to run and what has run are together the run of the plan, from the
\* selection interpret_mask made of Transform.all, for any transformations, options
\* and file (get_whole_ast_passes, the fold of apply_transforms).
THEOREM PassesPlanned == Spec => []PassesInv
BY PassesInit, PassesStep, PTL DEF Spec

--------------------------------------------------------------------------------
(***************************************************************************)
(* What the invariant says of a file that is done.                         *)
(***************************************************************************)
\* When done the trace is the run of all passes.
LEMMA DoneTrace ==
  ASSUME PassesInv, phase = "done"
  PROVE  /\ Linked /\ Applied \in Seq(Transform)
         /\ NoClash => Lists(Applied, Chosen)
         /\ trace = Run(WholeAstPasses(Applied), kind)
<1>1. /\ Linked /\ applyList = IF Masked THEN NamesOf(Selected) ELSE NoList
      /\ trace \in Seq(Call) /\ passes = <<>> /\ Planned
  BY DEF PassesInv
<1>2. Applied \in Seq(Transform) /\ (NoClash => Lists(Applied, Chosen))
  BY <1>1, AppliedIs
<1>3. Run(passes, kind) = <<>>
  BY <1>1, RunNothing
<1>4. trace \o <<>> = trace
  BY <1>1, ConcatEmptySeq
<1>. QED  BY <1>1, <1>2, <1>3, <1>4 DEF Planned

\* The functions a listing calls are those of its transformations.
LEMMA UsedByAll ==
  ASSUME NEW R, NEW fn \in Functions, NEW i
  PROVE  <<fn, i>> \in AllUsers(R) <=> \E t \in R : t.id = i /\ fn \in FunctionsOf(t)
<1>1. \A gn : <<fn, i>> \in Users(R, gn) <=> fn = gn /\ \E t \in R : t.id = i /\ fn \in FunctionsOf(t)
  BY DEF Users
<1>2. <<fn, i>> \in AllUsers(R) <=> \E gn \in Functions : <<fn, i>> \in Users(R, gn)
  BY DEF AllUsers, Generic, Functions
<1>. QED  BY <1>1, <1>2

\* A call in a trace that lists a set occurs once or never.
LEMMA CountIs ==
  ASSUME NEW A, Lists(trace, A), NEW c
  PROVE  Count(c) = IF c \in A THEN 1 ELSE 0
<1>. DEFINE P == {i \in DOMAIN trace : trace[i] = c}
<1>1. /\ DOMAIN trace = 1..Len(trace)
      /\ \A i \in 1..Len(trace) : trace[i] \in A
      /\ \A i, j \in 1..Len(trace) : trace[i] = trace[j] => i = j
      /\ \A r \in A : \E i \in 1..Len(trace) : trace[i] = r
  BY ElementOfSeq DEF Lists
<1>2. CASE c \in A
  <2>1. PICK i \in 1..Len(trace) : trace[i] = c
    BY <1>1, <1>2
  <2>2. P = {i}
    BY <1>1, <2>1
  <2>. HIDE DEF P
  <2>3. Cardinality(P) = 1
    BY <2>2, FS_Singleton
  <2>. QED  BY <1>2, <2>3 DEF Count, P
<1>3. CASE c \notin A
  <2>1. P = {}
    BY <1>1, <1>3
  <2>. HIDE DEF P
  <2>2. Cardinality(P) = 0
    BY <2>1, FS_EmptySet
  <2>. QED  BY <1>3, <2>2 DEF Count, P
<1>. QED  BY <1>2, <1>3

\* Every function selected was called once, and no other.
LEMMA DoneOnce ==
  PassesInv => EachOnce
<1>. SUFFICES ASSUME PassesInv, phase = "done", kind = "impl", NoClash,
                     NEW t \in Registered, NEW fn \in Functions
              PROVE  Count(<<fn, t.id>>) = IF IsSelected(t) /\ fn \in FunctionsOf(t) THEN 1 ELSE 0
  BY DEF EachOnce
<1>1. /\ Linked /\ Lists(Applied, Chosen)
      /\ trace = Run(WholeAstPasses(Applied), "impl")
  BY DoneTrace
<1>2. Distinct(Registered)
  BY <1>1, RegisteredLists
<1>3. Distinct(Chosen)
  BY <1>2 DEF Chosen, Distinct
<1>4. Lists(trace, AllUsers(Chosen))
  BY <1>1, <1>3, WholeList
<1>5. <<fn, t.id>> \in AllUsers(Chosen) <=> \E u \in Chosen : u.id = t.id /\ fn \in FunctionsOf(u)
  BY UsedByAll
<1>6. (\E u \in Chosen : u.id = t.id /\ fn \in FunctionsOf(u)) <=> IsSelected(t) /\ fn \in FunctionsOf(t)
  BY <1>2 DEF Chosen, Distinct
<1>7. Count(<<fn, t.id>>) = IF <<fn, t.id>> \in AllUsers(Chosen) THEN 1 ELSE 0
  BY <1>4, CountIs
<1>. QED  BY <1>5, <1>6, <1>7

\* The calls are in the documented stages.
LEMMA DoneInOrder ==
  PassesInv => ImplInStageOrder
<1>. SUFFICES ASSUME PassesInv, phase = "done", kind = "impl", ~noMerge
              PROVE  InStageOrder
  BY DEF ImplInStageOrder
<1>1. Applied \in Seq(Transform) /\ trace = Run(WholeAstPasses(Applied), "impl")
  BY DoneTrace
<1>2. Staged(trace, 6)
  BY <1>1, WholeStaged
<1>3. DOMAIN trace = 1..Len(trace)
  BY <1>2 DEF Staged
<1>. QED  BY <1>2, <1>3 DEF Staged, InStageOrder

\* An implementation meets every selected function once, and with the merged pass in
\* the order driver.mli documents, whatever transformations are linked and selected
\* (partition_transformations, make_generic, interpret_mask).
THEOREM FunctionsCalledOnceInOrder == Spec => []EachOnceInStageOrder
<1>1. PassesInv => EachOnceInStageOrder
  BY DoneOnce, DoneInOrder DEF EachOnceInStageOrder
<1>. QED  BY <1>1, PassesPlanned, PTL

--------------------------------------------------------------------------------
(***************************************************************************)
(* The sort leaves a sequence in order, and there is one such sequence.    *)
(***************************************************************************)
NameOf(t) == t.given.name
Sorted(s) == \A i, j \in 1..Len(s) : i < j => NameOf(s[i]) <= NameOf(s[j])

\* Names are numbers.
LEMMA NameTyped ==
  \A t \in Transform : NameOf(t) \in Nat
BY CandidatesAssumption DEF NameOf, Transform, Candidate

\* In a sorted sequence the transformations whose name is not greater come first.
LEMMA PlaceInSorted ==
  ASSUME NEW s \in Seq(Transform), Sorted(s), NEW t \in Transform
  PROVE  /\ PlaceIn(s, t) \in 1..(Len(s) + 1)
         /\ \A i \in 1..Len(s) : i < PlaceIn(s, t) <=> NameOf(s[i]) <= NameOf(t)
<1>. DEFINE n == Len(s)
            B == {i \in DOMAIN s : s[i].given.name <= t.given.name}
<1>1. n \in Nat /\ DOMAIN s = 1..n /\ \A i \in 1..n : s[i] \in Transform
  BY ElementOfSeq
<1>2. B = {i \in 1..n : NameOf(s[i]) <= NameOf(t)}
  BY <1>1 DEF NameOf
<1>3. PlaceIn(s, t) = 1 + Cardinality(B)
  BY DEF PlaceIn
<1>4. \A i \in 1..n : NameOf(s[i]) \in Nat /\ NameOf(t) \in Nat
  BY <1>1, NameTyped
<1>5. \A i, j \in 1..n : i < j /\ j \in B => i \in B
  BY <1>2, <1>4 DEF Sorted
<1>6. \E m \in 0..n : B = 1..m
  <2>. DEFINE Out == {i \in Nat : i # 0 /\ i \notin B}
  <2>1. n + 1 \in Out /\ Out \in SUBSET Nat
    BY <1>1, <1>2
  <2>2. PICK k \in Out : \A j \in Out : k <= j
    <3>. HIDE DEF Out
    <3>1. Out # {} /\ Out \in SUBSET Nat
      BY <2>1
    <3>. QED  BY <3>1, LeastExists
  <2>3. k \in Nat /\ k # 0 /\ k \notin B /\ k <= n + 1
    BY <2>1, <2>2
  <2>. DEFINE m == k - 1
  <2>4. m \in 0..n
    BY <1>1, <2>3
  <2>5. \A i \in 1..m : i \in B
    <3>. TAKE i \in 1..m
    <3>1. i \in Nat /\ i # 0 /\ ~(k <= i)
      BY <2>3
    <3>2. i \notin Out
      BY <2>2, <3>1
    <3>. QED  BY <3>1, <3>2
  <2>6. \A i \in B : i \in 1..m
    <3>. TAKE i \in B
    <3>1. i \in 1..n
      BY <1>2
    <3>2. ~(k <= i)
      <4>1. k # i
        BY <2>3
      <4>2. ~(k < i)
        BY <1>1, <1>5, <2>3, <3>1
      <4>. QED  BY <2>3, <3>1, <4>1, <4>2
    <3>. QED  BY <2>3, <3>1, <3>2
  <2>. HIDE DEF m, B
  <2>7. B = 1..m
    BY <2>5, <2>6
  <2>. QED  BY <2>4, <2>7
<1>7. PICK m \in 0..n : B = 1..m
  BY <1>6
<1>. HIDE DEF B
<1>8. Cardinality(B) = m
  <2>1. Cardinality(1..m) = m
    BY <1>1, FS_Interval
  <2>. QED  BY <1>7, <2>1
<1>9. \A i \in 1..n : i < 1 + m <=> i \in B
  BY <1>1, <1>7
<1>10. PlaceIn(s, t) = 1 + m /\ 1 + m \in 1..(n + 1)
  BY <1>1, <1>3, <1>7, <1>8
<1>. QED  BY <1>2, <1>9, <1>10

Inserted(s, t) ==
  /\ Len(Insert(s, t)) = Len(s) + 1 /\ PlaceIn(s, t) \in 1..(Len(s) + 1)
  /\ \A i \in 1..(Len(s) + 1) :
       Insert(s, t)[i] = IF i < PlaceIn(s, t) THEN s[i]
                         ELSE IF i = PlaceIn(s, t) THEN t ELSE s[i - 1]

\* The lemma on Insert, under a name the provers keep closed.
LEMMA InsertedIs ==
  ASSUME NEW S, NEW s \in Seq(S), NEW t \in S
  PROVE  Inserted(s, t)
BY InsertIs DEF Inserted

\* Insert keeps a sequence sorted.
LEMMA InsertSorted ==
  ASSUME NEW s \in Seq(Transform), Sorted(s), NEW t \in Transform
  PROVE  Sorted(Insert(s, t))
<1>. DEFINE n == Len(s)
            p == PlaceIn(s, t)
            u == Insert(s, t)
<1>1. n \in Nat /\ \A i \in 1..n : s[i] \in Transform
  BY ElementOfSeq
<1>2. /\ Len(u) = n + 1 /\ p \in 1..(n + 1)
      /\ \A i \in 1..(n + 1) : u[i] = IF i < p THEN s[i] ELSE IF i = p THEN t ELSE s[i - 1]
  <2>1. Inserted(s, t)
    BY InsertedIs
  <2>. QED  BY <2>1 DEF Inserted
<1>3. \A i \in 1..n : i < p <=> NameOf(s[i]) <= NameOf(t)
  BY PlaceInSorted
<1>. DEFINE N == [i \in 1..n |-> NameOf(s[i])]
            M == [i \in 1..(n + 1) |-> NameOf(u[i])]
            c == NameOf(t)
<1>4. /\ c \in Nat /\ \A i \in 1..n : N[i] \in Nat
      /\ \A i \in 1..n : i < p <=> N[i] <= c
      /\ \A i, j \in 1..n : i < j => N[i] <= N[j]
  BY <1>1, <1>3, NameTyped DEF Sorted
<1>5. \A i \in 1..(n + 1) : /\ i < p => i \in 1..n /\ M[i] = N[i]
                            /\ i = p => M[i] = c
                            /\ i > p => i - 1 \in 1..n /\ M[i] = N[i - 1]
  <2>. TAKE i \in 1..(n + 1)
  <2>1. CASE i < p
    BY <1>1, <1>2, <2>1
  <2>2. CASE i = p
    BY <1>1, <1>2, <2>2
  <2>3. CASE i > p
    <3>1. i - 1 \in 1..n /\ ~(i < p) /\ i # p
      BY <1>1, <1>2, <2>3
    <3>. QED  BY <1>2, <2>3, <3>1
  <2>. QED  BY <1>2, <2>1, <2>2, <2>3
<1>. HIDE DEF N, M, c, u, p
<1>6. \A i, j \in 1..(n + 1) : i < j => M[i] <= M[j]
  <2>. TAKE i, j \in 1..(n + 1)
  <2>. HAVE i < j
  <2>1. CASE j < p
    <3>1. i < p
      BY <1>1, <1>2, <2>1
    <3>. QED  BY <1>4, <1>5, <2>1, <3>1
  <2>2. CASE j = p
    <3>1. i < p
      BY <2>2
    <3>. QED  BY <1>4, <1>5, <2>2, <3>1
  <2>3. CASE j > p /\ i < p
    <3>1. M[i] = N[i] /\ i \in 1..n /\ M[j] = N[j - 1] /\ j - 1 \in 1..n
      BY <1>5, <2>3
    <3>2. i < j - 1 \/ i = j - 1
      BY <1>1, <1>2, <2>3
    <3>. QED  BY <1>4, <3>1, <3>2
  <2>4. CASE j > p /\ i = p
    <3>1. M[i] = c /\ M[j] = N[j - 1] /\ j - 1 \in 1..n
      BY <1>5, <2>4
    <3>2. ~(j - 1 < p)
      BY <1>1, <1>2, <2>4
    <3>3. ~(N[j - 1] <= c) /\ N[j - 1] \in Nat /\ c \in Nat
      BY <1>4, <3>1, <3>2
    <3>4. c <= N[j - 1]
      BY <3>3
    <3>. QED  BY <3>1, <3>4
  <2>5. CASE j > p /\ i > p
    <3>1. M[i] = N[i - 1] /\ i - 1 \in 1..n /\ M[j] = N[j - 1] /\ j - 1 \in 1..n
      BY <1>5, <2>5
    <3>2. i - 1 < j - 1
      OBVIOUS
    <3>. QED  BY <1>4, <3>1, <3>2
  <2>. QED  BY <1>1, <1>2, <2>1, <2>2, <2>3, <2>4, <2>5
<1>. QED  BY <1>2, <1>6 DEF Sorted, M, u

\* The sort sorts.
LEMMA SortSorted ==
  ASSUME NEW ts \in Seq(Transform)
  PROVE  Sorted(SortByName(ts))
<1>. DEFINE n == Len(ts)
<1>1. n \in Nat /\ n \in 0..n /\ \A i \in 1..n : ts[i] \in Transform
  BY ElementOfSeq
<1>2. PICK f : IsSorting(f, ts, n) /\ SortByName(ts) = f[n]
  BY <1>1, SortIs
<1>3. /\ f[0] = <<>>
      /\ \A m \in 1..n : f[m] = Insert(f[m - 1], ts[m])
  <2>1. 0 \in 0..n /\ \A m \in 1..n : m \in 0..n /\ m # 0
    BY <1>1
  <2>2. \A m \in 0..n : f[m] = IF m = 0 THEN <<>> ELSE Insert(f[m - 1], ts[m])
    BY <1>2 DEF IsSorting
  <2>. QED  BY <2>1, <2>2
<1>. DEFINE Good(s) == s \in Seq(Transform) /\ Sorted(s)
            Fails == {m \in Nat : m <= n /\ ~Good(f[m])}
<1>4. Fails = {}
  <2>. SUFFICES ASSUME Fails # {} PROVE FALSE
    OBVIOUS
  <2>1. PICK m \in Fails : \A k \in Fails : m <= k
    <3>1. Fails \in SUBSET Nat
      OBVIOUS
    <3>. HIDE DEF Fails
    <3>. QED  BY <3>1, LeastExists
  <2>2. m \in Nat /\ m <= n /\ ~Good(f[m])
    BY <2>1
  <2>3. m # 0
    <3>1. Good(<<>>)
      BY DEF Sorted
    <3>. HIDE DEF Good
    <3>. QED  BY <1>3, <2>2, <3>1
  <2>4. m \in 1..n /\ m - 1 \in Nat /\ m - 1 <= n /\ ~(m <= m - 1)
    BY <1>1, <2>2, <2>3
  <2>. DEFINE g == f[m - 1]
              t == ts[m]
  <2>5. Good(g)
    <3>. HIDE DEF Good
    <3>. QED  BY <2>1, <2>4
  <2>6. f[m] = Insert(g, t) /\ t \in Transform
    BY <1>1, <1>3, <2>4
  <2>. HIDE DEF g, t
  <2>7. Insert(g, t) \in Seq(Transform)
    BY <2>5, <2>6, InsertIs
  <2>8. Sorted(Insert(g, t))
    BY <2>5, <2>6, InsertSorted
  <2>. QED  BY <2>2, <2>6, <2>7, <2>8
<1>5. n \in Nat /\ n <= n /\ n \notin Fails
  <2>. HIDE DEF Fails
  <2>. QED  BY <1>1, <1>4
<1>. QED  BY <1>2, <1>5

\* Two sorted sequences of the same transformations are the same, when the names
\* differ.
LEMMA SortedOnce ==
  ASSUME NEW Q, Q \subseteq Transform, \A t, u \in Q : NameOf(t) = NameOf(u) => t = u,
         NEW v, Lists(v, Q), Sorted(v), NEW w, Lists(w, Q), Sorted(w)
  PROVE  \A m \in Nat : m \in 1..Len(v) => m \in 1..Len(w) /\ v[m] = w[m]
<1>. DEFINE Fails == {m \in Nat : m \in 1..Len(v) /\ ~(m \in 1..Len(w) /\ v[m] = w[m])}
<1>. SUFFICES ASSUME Fails # {} PROVE FALSE
  OBVIOUS
<1>1. PICK m \in Fails : \A k \in Fails : m <= k
  <2>1. Fails \in SUBSET Nat
    OBVIOUS
  <2>. HIDE DEF Fails
  <2>. QED  BY <2>1, LeastExists
<1>2. m \in 1..Len(v) /\ ~(m \in 1..Len(w) /\ v[m] = w[m])
  BY <1>1
<1>3. /\ Len(v) \in Nat /\ Len(w) \in Nat
      /\ \A i \in 1..Len(v) : v[i] \in Q /\ NameOf(v[i]) \in Nat
      /\ \A i \in 1..Len(w) : w[i] \in Q /\ NameOf(w[i]) \in Nat
      /\ \A i, j \in 1..Len(v) : v[i] = v[j] => i = j
      /\ \A i, j \in 1..Len(w) : w[i] = w[j] => i = j
      /\ \A t \in Q : \E i \in 1..Len(v) : v[i] = t
      /\ \A t \in Q : \E i \in 1..Len(w) : w[i] = t
  <2>1. v \in Seq(Q) /\ w \in Seq(Q)
    BY DEF Lists
  <2>2. /\ Len(v) \in Nat /\ \A i \in 1..Len(v) : v[i] \in Q
        /\ Len(w) \in Nat /\ \A i \in 1..Len(w) : w[i] \in Q
    BY <2>1, ElementOfSeq
  <2>3. \A t \in Q : NameOf(t) \in Nat
    BY NameTyped
  <2>4. /\ \A i, j \in 1..Len(v) : v[i] = v[j] => i = j
        /\ \A t \in Q : \E i \in 1..Len(v) : v[i] = t
    BY DEF Lists
  <2>5. /\ \A i, j \in 1..Len(w) : w[i] = w[j] => i = j
        /\ \A t \in Q : \E i \in 1..Len(w) : w[i] = t
    BY DEF Lists
  <2>. QED  BY <2>2, <2>3, <2>4, <2>5
<1>4. \A k \in 1..(m - 1) : k \in 1..Len(v) /\ k \in 1..Len(w) /\ v[k] = w[k]
  <2>. TAKE k \in 1..(m - 1)
  <2>1. k \in Nat /\ k \in 1..Len(v) /\ ~(m <= k)
    BY <1>2, <1>3
  <2>. QED  BY <1>1, <2>1
<1>5. PICK j \in 1..Len(w) : w[j] = v[m]
  BY <1>2, <1>3
<1>6. ~(j < m)
  <2>. SUFFICES ASSUME j < m PROVE FALSE
    OBVIOUS
  <2>1. j \in 1..(m - 1)
    BY <1>2, <1>3
  <2>2. v[j] = v[m] /\ j \in 1..Len(v)
    BY <1>4, <1>5, <2>1
  <2>3. j = m
    BY <1>2, <1>3, <2>2
  <2>. QED  BY <2>3
<1>7. m \in 1..Len(w) /\ m < j
  <2>1. j # m
    BY <1>2, <1>5
  <2>. QED  BY <1>2, <1>3, <1>6, <2>1
<1>8. PICK i \in 1..Len(v) : v[i] = w[m]
  BY <1>3, <1>7
<1>9. ~(i < m)
  <2>. SUFFICES ASSUME i < m PROVE FALSE
    OBVIOUS
  <2>1. i \in 1..(m - 1)
    BY <1>2, <1>3
  <2>2. w[i] = w[m] /\ i \in 1..Len(w)
    BY <1>4, <1>8, <2>1
  <2>3. i = m
    BY <1>3, <1>7, <2>2
  <2>. QED  BY <2>3
<1>10. m < i
  <2>1. i # m
    BY <1>2, <1>7, <1>8
  <2>. QED  BY <1>2, <1>3, <1>9, <2>1
<1>11. NameOf(v[m]) <= NameOf(w[m]) /\ NameOf(w[m]) <= NameOf(v[m])
  <2>1. NameOf(v[m]) <= NameOf(v[i])
    BY <1>2, <1>10 DEF Sorted
  <2>2. NameOf(w[m]) <= NameOf(w[j])
    BY <1>7 DEF Sorted
  <2>. QED  BY <1>5, <1>8, <2>1, <2>2
<1>12. NameOf(v[m]) = NameOf(w[m])
  <2>1. NameOf(v[m]) \in Nat /\ NameOf(w[m]) \in Nat
    BY <1>2, <1>3, <1>7
  <2>. QED  BY <2>1, <1>11
<1>13. v[m] = w[m]
  BY <1>2, <1>3, <1>7, <1>12
<1>. QED  BY <1>2, <1>7, <1>13

--------------------------------------------------------------------------------
(***************************************************************************)
(* What a part is when there is nothing, or one thing, to list.            *)
(***************************************************************************)
\* A listing of nothing is empty.
LEMMA NothingListed ==
  ASSUME NEW v, Lists(v, {})
  PROVE  v = <<>>
<1>1. Len(v) \in Nat /\ v \in Seq({}) /\ \A i \in 1..Len(v) : v[i] \in {}
  BY ElementOfSeq DEF Lists
<1>2. Len(v) = 0
  BY <1>1
<1>. QED  BY <1>1, <1>2, EmptySeq

\* A set of at most one element has one listing.
LEMMA OneListing ==
  ASSUME NEW Q, NEW v, Lists(v, Q), Len(v) <= 1, NEW w, Lists(w, Q)
  PROVE  v = w
<1>1. /\ v \in Seq(Q) /\ Len(v) \in Nat /\ \A i \in 1..Len(v) : v[i] \in Q
      /\ w \in Seq(Q) /\ Len(w) \in Nat /\ \A i \in 1..Len(w) : w[i] \in Q
  BY ElementOfSeq DEF Lists
<1>2. /\ \A i, j \in 1..Len(v) : v[i] = v[j] => i = j
      /\ \A t \in Q : \E i \in 1..Len(v) : v[i] = t
  BY DEF Lists
<1>3. /\ \A i, j \in 1..Len(w) : w[i] = w[j] => i = j
      /\ \A t \in Q : \E i \in 1..Len(w) : w[i] = t
  BY DEF Lists
<1>4. CASE Len(v) = 0
  <2>1. \A t \in Q : FALSE
    BY <1>2, <1>4
  <2>2. Q = {}
    BY <2>1
  <2>3. Lists(v, {}) /\ Lists(w, {})
    BY <2>2
  <2>. QED  BY <2>3, NothingListed
<1>5. CASE Len(v) = 1
  <2>1. 1 \in 1..Len(v) /\ \A i \in 1..Len(v) : i = 1
    BY <1>5
  <2>2. v[1] \in Q /\ \A t \in Q : t = v[1]
    BY <1>1, <1>2, <2>1
  <2>3. PICK i \in 1..Len(w) : w[i] = v[1]
    BY <1>3, <2>2
  <2>4. \A j \in 1..Len(w) : w[j] = v[1] /\ j = i
    <3>. TAKE j \in 1..Len(w)
    <3>1. w[j] \in Q
      BY <1>1
    <3>2. w[j] = v[1]
      BY <2>2, <3>1
    <3>3. w[j] = w[i]
      BY <2>3, <3>2
    <3>4. j = i
      BY <1>3, <3>3
    <3>. QED  BY <3>2, <3>4
  <2>5. 1 \in 1..Len(w) /\ Len(w) \in 1..Len(w)
    BY <1>1, <2>3
  <2>6. 1 = i
    BY <2>4, <2>5
  <2>7. Len(w) = i
    BY <2>4, <2>5
  <2>8. Len(w) = 1 /\ w[1] = v[1]
    BY <2>3, <2>6, <2>7
  <2>9. Len(v) = Len(w) /\ \A j \in 1..Len(v) : v[j] = w[j]
    BY <1>5, <2>1, <2>8
  <2>10. v \in Seq(Q) /\ w \in Seq(Q)
    BY <1>1
  <2>. QED  BY <2>9, <2>10, SeqEqual
<1>6. Len(v) = 0 \/ Len(v) = 1
  <2>1. Len(v) \in Nat /\ Len(v) <= 1
    BY <1>1
  <2>. QED  BY <2>1
<1>. QED  BY <1>4, <1>5, <1>6

\* A sequence of sorted transformations is the only one with its names.
LEMMA SortedSame ==
  ASSUME NEW Q, Q \subseteq Transform, \A t, u \in Q : NameOf(t) = NameOf(u) => t = u,
         NEW v, Lists(v, Q), Sorted(v), NEW w, Lists(w, Q), Sorted(w)
  PROVE  v = w
<1>1. v \in Seq(Q) /\ Len(v) \in Nat /\ w \in Seq(Q) /\ Len(w) \in Nat
  BY ElementOfSeq DEF Lists
<1>2. \A m \in Nat : m \in 1..Len(v) => m \in 1..Len(w) /\ v[m] = w[m]
  BY SortedOnce
<1>3. \A m \in Nat : m \in 1..Len(w) => m \in 1..Len(v) /\ w[m] = v[m]
  BY SortedOnce
<1>4. Len(v) <= Len(w)
  BY <1>1, <1>2
<1>5. Len(w) <= Len(v)
  BY <1>1, <1>3
<1>6. Len(v) = Len(w)
  BY <1>1, <1>4, <1>5
<1>7. \A i \in 1..Len(v) : v[i] = w[i]
  BY <1>1, <1>2
<1>. QED  BY <1>1, <1>6, <1>7, SeqEqual

\* Passes that call nothing on a file run as nothing.
LEMMA IdleRun ==
  ASSUME NEW k \in Kind, NEW w \in Seq(Transform), NEW f,
         \A t \in Transform : f[t] \in Pass,
         \A i \in 1..Len(w) : f[w[i]][k] = <<>>
  PROVE  Run(PassesFor(w, f), k) = <<>>
<1>. DEFINE p == PassesFor(w, f)
            q == [i \in DOMAIN p |-> p[i][k]]
<1>1. Len(w) \in Nat /\ DOMAIN w = 1..Len(w) /\ \A i \in 1..Len(w) : w[i] \in Transform
  BY ElementOfSeq
<1>2. DOMAIN p = 1..Len(w) /\ \A i \in 1..Len(w) : p[i] = f[w[i]]
  BY <1>1 DEF PassesFor
<1>3. q = [i \in 1..Len(w) |-> <<>>]
  BY <1>2
<1>4. \A n \in Nat : /\ [i \in 1..n |-> <<>>] \in Seq(Seq(Call))
                     /\ Len([i \in 1..n |-> <<>>]) = n
                     /\ \A j \in 1..n : [i \in 1..n |-> <<>>][j] = <<>>
  <2>. TAKE n \in Nat
  <2>1. \A i \in 1..n : <<>> \in Seq(Call)
    BY EmptySeq
  <2>. QED  BY <2>1, IsASeq
<1>. HIDE DEF p, q
<1>5. q \in Seq(Seq(Call)) /\ \A i \in 1..Len(q) : q[i] = <<>>
  BY <1>1, <1>3, <1>4
<1>6. FlattenSeq(q) = <<>>
  BY <1>5, FlattenNothing
<1>. QED  BY <1>6 DEF Run, p, q

\* What is kept of a sequence that follows another.
KeepsBoth(s, t, T) == Kept(s \o t, T) = Kept(s, T) \o Kept(t, T)

\* A filter distributes over concatenation.
LEMMA KeptConcat ==
  ASSUME NEW S, NEW s \in Seq(S), NEW t \in Seq(S), NEW T
  PROVE  KeepsBoth(s, t, T)
<1>. DEFINE n == Len(s)
            m == Len(t)
            u == s \o t
            F(x) == IF x \in T THEN <<x>> ELSE <<>>
            p == [i \in 1..n |-> F(s[i])]
            q == [i \in 1..m |-> F(t[i])]
            r == [i \in 1..(n + m) |-> F(u[i])]
<1>1. /\ n \in Nat /\ DOMAIN s = 1..n /\ \A i \in 1..n : s[i] \in S
      /\ m \in Nat /\ DOMAIN t = 1..m /\ \A i \in 1..m : t[i] \in S
  BY ElementOfSeq
<1>2. /\ Len(u) = Len(s) + Len(t) /\ u \in Seq(S)
      /\ \A i \in 1..(Len(s) + Len(t)) : u[i] = IF i <= Len(s) THEN s[i] ELSE t[i - Len(s)]
  BY ConcatProperties
<1>3. DOMAIN u = 1..(n + m) /\ \A i \in 1..(n + m) : u[i] = IF i <= n THEN s[i] ELSE t[i - n]
  <2>1. DOMAIN u = 1..Len(u)
    BY <1>2, ElementOfSeq
  <2>. QED  BY <1>2, <2>1
<1>4. \A x \in S : F(x) \in Seq(S)
  <2>1. <<>> \in Seq(S) /\ \A x \in S : <<x>> \in Seq(S)
    OBVIOUS
  <2>. QED  BY <2>1
<1>5. /\ Kept(s, T) = FlattenSeq(p) /\ Kept(t, T) = FlattenSeq(q)
      /\ Kept(u, T) = FlattenSeq(r)
  BY <1>1, <1>3 DEF Kept
<1>. HIDE DEF u, F
<1>6. p \in Seq(Seq(S)) /\ Len(p) = n /\ \A i \in 1..n : p[i] = F(s[i])
  BY <1>1, <1>4
<1>7. q \in Seq(Seq(S)) /\ Len(q) = m /\ \A i \in 1..m : q[i] = F(t[i])
  BY <1>1, <1>4
<1>8. r \in Seq(Seq(S)) /\ Len(r) = n + m /\ \A i \in 1..(n + m) : r[i] = F(u[i])
  <2>1. n + m \in Nat /\ \A i \in 1..(n + m) : u[i] \in S
    BY <1>1, <1>2, ElementOfSeq
  <2>. QED  BY <1>4, <2>1
<1>. DEFINE pq == p \o q
<1>9. /\ Len(pq) = Len(p) + Len(q) /\ pq \in Seq(Seq(S))
      /\ \A i \in 1..(Len(p) + Len(q)) : pq[i] = IF i <= Len(p) THEN p[i] ELSE q[i - Len(p)]
  <2>1. p \in Seq(Seq(S)) /\ q \in Seq(Seq(S))
    BY <1>6, <1>7
  <2>. HIDE DEF p, q
  <2>. QED  BY <2>1, ConcatProperties
<1>. HIDE DEF p, q, r, pq, n, m
<1>10. pq = r
  <2>1. Len(pq) = n + m /\ \A i \in 1..(n + m) : pq[i] = IF i <= n THEN p[i] ELSE q[i - n]
    BY <1>6, <1>7, <1>9
  <2>2. \A i \in 1..Len(pq) : pq[i] = r[i]
    <3>. TAKE i \in 1..Len(pq)
    <3>1. i \in 1..(n + m)
      BY <2>1
    <3>2. CASE i <= n
      <4>1. i \in 1..n
        BY <1>1, <3>1, <3>2
      <4>. QED  BY <1>3, <1>6, <1>8, <2>1, <3>1, <3>2, <4>1
    <3>3. CASE ~(i <= n)
      <4>1. i - n \in 1..m
        BY <1>1, <3>1, <3>3
      <4>. QED  BY <1>3, <1>7, <1>8, <2>1, <3>1, <3>3, <4>1
    <3>. QED  BY <3>2, <3>3
  <2>3. Len(pq) = Len(r)
    BY <1>8, <2>1
  <2>. QED  BY <1>8, <1>9, <2>2, <2>3, SeqEqual
<1>11. FlattenSeq(pq) = FlattenSeq(p) \o FlattenSeq(q)
  BY <1>6, <1>7, FlattenConcat DEF pq
<1>. QED  BY <1>5, <1>10, <1>11 DEF KeepsBoth, u

\* A filter nothing passes leaves nothing.
LEMMA KeptNothing ==
  ASSUME NEW S, NEW s \in Seq(S), NEW T, S \cap T = {}
  PROVE  Kept(s, T) = <<>>
<1>1. Kept(s, T) \in Seq({})
  BY KeptTyped
<1>2. \A v \in Seq({}) : v = <<>>
  <2>. TAKE v \in Seq({})
  <2>1. Len(v) \in Nat /\ \A i \in 1..Len(v) : v[i] \in {}
    BY ElementOfSeq
  <2>2. Len(v) = 0
    BY <2>1
  <2>. QED  BY <2>2, EmptySeq
<1>. QED  BY <1>1, <1>2

\* The elements of a sequence.
Among(s) == {s[i] : i \in DOMAIN s}
AmongBoth(s, t) == Among(s \o t) = Among(s) \cup Among(t)

\* The elements of two sequences, one after the other.
LEMMA AmongConcat ==
  ASSUME NEW S, NEW s \in Seq(S), NEW t \in Seq(S)
  PROVE  AmongBoth(s, t)
<1>. DEFINE n == Len(s)
            m == Len(t)
            u == s \o t
<1>1. n \in Nat /\ DOMAIN s = 1..n /\ m \in Nat /\ DOMAIN t = 1..m
  BY ElementOfSeq
<1>2. /\ Len(u) = Len(s) + Len(t) /\ u \in Seq(S)
      /\ \A i \in 1..(Len(s) + Len(t)) : u[i] = IF i <= Len(s) THEN s[i] ELSE t[i - Len(s)]
  BY ConcatProperties
<1>3. DOMAIN u = 1..(n + m) /\ \A i \in 1..(n + m) : u[i] = IF i <= n THEN s[i] ELSE t[i - n]
  <2>1. DOMAIN u = 1..Len(u)
    BY <1>2, ElementOfSeq
  <2>. QED  BY <1>2, <2>1
<1>. HIDE DEF u, n, m
<1>4. \A x \in Among(u) : x \in Among(s) \cup Among(t)
  <2>. TAKE x \in Among(u)
  <2>1. PICK i \in 1..(n + m) : x = u[i]
    BY <1>3 DEF Among
  <2>2. CASE i <= n
    <3>1. i \in 1..n /\ x = s[i]
      BY <1>1, <1>3, <2>1, <2>2
    <3>. QED  BY <1>1, <3>1 DEF Among
  <2>3. CASE ~(i <= n)
    <3>1. i - n \in 1..m /\ x = t[i - n]
      BY <1>1, <1>3, <2>1, <2>3
    <3>. QED  BY <1>1, <3>1 DEF Among
  <2>. QED  BY <2>2, <2>3
<1>5. \A x \in Among(s) : x \in Among(u)
  <2>. TAKE x \in Among(s)
  <2>1. PICK i \in 1..n : x = s[i]
    BY <1>1 DEF Among
  <2>2. i \in 1..(n + m) /\ u[i] = x
    BY <1>1, <1>3, <2>1
  <2>. QED  BY <1>3, <2>2 DEF Among
<1>6. \A x \in Among(t) : x \in Among(u)
  <2>. TAKE x \in Among(t)
  <2>1. PICK i \in 1..m : x = t[i]
    BY <1>1 DEF Among
  <2>2. i + n \in 1..(n + m) /\ ~(i + n <= n) /\ (i + n) - n = i
    BY <1>1
  <2>3. u[i + n] = x
    BY <1>3, <2>1, <2>2
  <2>. QED  BY <1>3, <2>2, <2>3 DEF Among
<1>7. Among(u) = Among(s) \cup Among(t)
  BY <1>4, <1>5, <1>6
<1>. QED  BY <1>7 DEF AmongBoth, u

\* The elements of a listing.
LEMMA AmongListed ==
  ASSUME NEW v, NEW Q, Lists(v, Q)
  PROVE  Among(v) = Q
<1>1. DOMAIN v = 1..Len(v) /\ \A i \in 1..Len(v) : v[i] \in Q
  BY ElementOfSeq DEF Lists
<1>2. \A t \in Q : \E i \in 1..Len(v) : v[i] = t
  BY DEF Lists
<1>. QED  BY <1>1, <1>2 DEF Among

--------------------------------------------------------------------------------
(***************************************************************************)
(* Transformations that use rules, enclosers and preprocessors only.       *)
(***************************************************************************)
Plain(R) ==
  \A t \in R : t.given.whole = {} /\ t.given.lint = {} /\ t.given.instrument = "none"
Unclashing(R) == \A t, u \in R : NameOf(t) = NameOf(u) => t = u

\* The rules of R, in no order.
RulesOf(R) == {<<"rules", t.id>> : t \in {u \in R : u.given.rules}}

\* The rules of a listing, on a file of either kind.
LEMMA RulesAnyKind ==
  ASSUME NEW k \in Kind, NEW R, Distinct(R), NEW ts, Lists(ts, R)
  PROVE  Lists(AllRules(ts), RulesOf(R))
<1>. DEFINE G == [t \in R |-> IF t.given.rules THEN {<<"rules", t.id>>} ELSE {}]
<1>1. R \subseteq Transform /\ ts \in Seq(R) /\ ts \in Seq(Transform)
  BY DEF Distinct, Lists
<1>2. \A t \in R : RulesPass[t] \in Pass /\ RulesPass[t][k] = Rules(t)
  BY <1>1, OnePasses DEF OnePass, RulesPass
<1>3. \A t \in R : RulesPass[t] \in Pass /\ Lists(RulesPass[t][k], G[t])
  <2>. TAKE t \in R
  <2>1. CASE t.given.rules
    BY <1>1, <1>2, <2>1, RulesAre
  <2>2. CASE ~t.given.rules
    BY <1>1, <1>2, <2>2, RulesAre
  <2>. QED  BY <2>1, <2>2
<1>4. \A t, u \in R : \A x : x \in G[t] /\ x \in G[u] => t = u
  <2>1. \A t, u \in R : t.id = u.id => t = u
    BY DEF Distinct
  <2>2. \A t \in R : \A x \in G[t] : x = <<"rules", t.id>>
    OBVIOUS
  <2>3. \A i, j : <<"rules", i>> = <<"rules", j>> => i = j
    OBVIOUS
  <2>. HIDE DEF G
  <2>. QED  BY <2>1, <2>2, <2>3
<1>5. UNION {G[t] : t \in R} = RulesOf(R)
  <2>1. \A t \in R : \A x : x \in G[t] <=> t.given.rules /\ x = <<"rules", t.id>>
    OBVIOUS
  <2>. HIDE DEF G
  <2>. QED  BY <2>1 DEF RulesOf
<1>. HIDE DEF G
<1>6. Lists(Run(PassesFor(ts, RulesPass), k), UNION {G[t] : t \in R})
  BY <1>3, <1>4, PassesList
<1>. QED  BY <1>1, <1>5, <1>6, RulesRun

\* Without linters, instrumentations and whole-file functions these passes call
\* nothing.
LEMMA PlainParts ==
  ASSUME NEW k \in Kind, NEW R, Distinct(R), Plain(R), NEW ts, Lists(ts, R)
  PROVE  /\ Run(LinterPasses(ts), k) = <<>>
         /\ \A position \in {"before", "after"} : Run(InstrumentPasses(ts, position), k) = <<>>
         /\ Run(Map(Whole, ts), k) = <<>>
<1>1. R \subseteq Transform /\ ts \in Seq(R) /\ ts \in Seq(Transform)
  BY DEF Distinct, Lists
<1>2. R \cap Linters = {}
  BY DEF Plain, Linters
<1>3. \A position \in {"before", "after"} : R \cap Instrumentations(position) = {}
  BY DEF Plain, Instrumentations
<1>4. Run(LinterPasses(ts), k) = <<>>
  <2>1. Lists(Kept(ts, Linters), {})
    BY <1>2, ListsKept
  <2>2. Kept(ts, Linters) = <<>>
    BY <2>1, NothingListed
  <2>3. PassesFor(<<>>, LintPass) = <<>>
    BY DEF PassesFor
  <2>. QED  BY <1>1, <2>2, <2>3, PartsAre, RunNothing
<1>5. \A position \in {"before", "after"} : Run(InstrumentPasses(ts, position), k) = <<>>
  <2>. TAKE position \in {"before", "after"}
  <2>. DEFINE w == Kept(ts, Instrumentations(position))
  <2>1. Lists(w, {})
    BY <1>3, ListsKept
  <2>2. Lists(Reverse(w), {})
    <3>. HIDE DEF w
    <3>. QED  BY <2>1, ListsReversed
  <2>3. Reverse(w) = <<>>
    <3>. HIDE DEF w
    <3>. QED  BY <2>2, NothingListed
  <2>4. PassesFor(<<>>, InstrumentPass(position)) = <<>>
    BY DEF PassesFor
  <2>5. InstrumentPasses(ts, position) = PassesFor(Reverse(w), InstrumentPass(position))
    BY <1>1, PartsAre
  <2>. QED  BY <2>3, <2>4, <2>5, RunNothing
<1>6. Run(Map(Whole, ts), k) = <<>>
  <2>1. \A t \in Transform : WholePass[t] \in Pass
    BY OnePasses DEF OnePass
  <2>2. \A i \in 1..Len(ts) : WholePass[ts[i]][k] = <<>>
    <3>. TAKE i \in 1..Len(ts)
    <3>1. ts[i] \in R /\ ts[i] \in Transform
      BY <1>1, ElementOfSeq
    <3>2. ts[i].given.whole = {}
      BY <3>1 DEF Plain
    <3>3. WholePass[ts[i]][k] = Calls(ts[i], k, "whole", ts[i].given.whole)
      BY <3>1 DEF WholePass
    <3>. QED  BY <3>2, <3>3 DEF Calls
  <2>3. Run(PassesFor(ts, WholePass), k) = <<>>
    BY <1>1, <2>1, <2>2, IdleRun
  <2>. QED  BY <1>1, <2>3, PartsAre
<1>. QED  BY <1>4, <1>5, <1>6

\* What is left: the preprocessor, the enclosers in order of names, the rules.
LEMMA PlainSeen ==
  ASSUME ~noMerge, NEW k \in Kind, NEW R, Distinct(R), Plain(R), NEW ts, Lists(ts, R)
  PROVE  /\ Run(WholeAstPasses(ts), k)
              = Run(PreprocessPasses(ts), k)
                \o (Enclosers(Reverse(ts), k) \o AllRules(Reverse(ts)))
         /\ Run(PreprocessPasses(ts), k) \in Seq(Call)
         /\ Enclosers(Reverse(ts), k) \in Seq(Call)
         /\ AllRules(Reverse(ts)) \in Seq(CallsOf({"rules"}))
         /\ AllRules(Reverse(ts)) \in Seq(Call)
<1>. DEFINE rs == Reverse(ts)
            b == Run(PreprocessPasses(ts), k)
            e == Enclosers(rs, k)
            r == AllRules(rs)
<1>1. R \subseteq Transform /\ ts \in Seq(R) /\ ts \in Seq(Transform)
  BY DEF Distinct, Lists
<1>2. Lists(rs, R) /\ rs \in Seq(Transform) /\ Rest(ts) = rs
  BY <1>1, ListsReversed, ReverseTyped DEF Rest
<1>3. CallsOf({"rules"}) \subseteq Call /\ CallsOf({"enclose"}) \subseteq Call
      /\ CallsOf({"preprocess"}) \subseteq Call
  BY FunctionNames DEF CallsOf, Call
<1>4. /\ Run(LinterPasses(ts), k) = <<>>
      /\ Run(InstrumentPasses(ts, "before"), k) = <<>>
      /\ Run(InstrumentPasses(ts, "after"), k) = <<>>
  BY PlainParts
<1>. HIDE DEF rs
<1>5. Run(Map(Whole, rs), k) = <<>>
  BY <1>2, PlainParts
<1>6. Run(MakeGeneric(rs), k) = (e \o r) \o Run(Map(Whole, rs), k)
  BY <1>2, MergedRun
<1>7. e \in Seq(CallsOf({"enclose"})) /\ r \in Seq(CallsOf({"rules"}))
  BY <1>2, EnclosersAre, RulesRun
<1>8. e \in Seq(Call) /\ r \in Seq(Call)
  BY <1>3, <1>7
<1>9. b \in Seq(Call)
  <2>1. OnlyCalls(PreprocessPasses(ts), k, CallsOf({"preprocess"}))
    BY <1>1, PartsOnly
  <2>2. b \in Seq(CallsOf({"preprocess"}))
    BY <2>1, RunTyped
  <2>. QED  BY <1>3, <2>2
<1>10. Run(WholeAstPasses(ts), k)
         = Joined(Run(LinterPasses(ts), k), b, Run(InstrumentPasses(ts, "before"), k),
                  Run(MakeGeneric(rs), k), Run(InstrumentPasses(ts, "after"), k))
  BY <1>1, <1>2, WholeRun
<1>. HIDE DEF b, e, r
<1>. DEFINE er == e \o r
<1>11. er \in Seq(Call)
  BY <1>8
<1>. HIDE DEF er
<1>12. Joined(<<>>, b, <<>>, er \o <<>>, <<>>) = b \o er
  <2>1. er \o <<>> = er /\ <<>> \o b = b /\ b \o <<>> = b
    BY <1>9, <1>11, ConcatEmptySeq
  <2>2. b \o er \in Seq(Call)
    BY <1>9, <1>11
  <2>. DEFINE x == b \o er
  <2>3. x \o <<>> = x
    <3>1. x \in Seq(Call)
      BY <2>2
    <3>. HIDE DEF x
    <3>. QED  BY <3>1, ConcatEmptySeq
  <2>. QED  BY <2>1, <2>3 DEF Joined
<1>13. Run(WholeAstPasses(ts), k) = b \o er
  BY <1>4, <1>5, <1>6, <1>10, <1>12 DEF er
<1>. QED  BY <1>7, <1>8, <1>9, <1>13 DEF b, e, r, er, rs

\* Listings of the same transformations, one of which has at most one
\* preprocessor, call the same preprocessors and enclosers.
LEMMA SamePreprocessors ==
  ASSUME NEW k \in Kind, NEW R, Distinct(R), NEW ts, Lists(ts, R), NEW us, Lists(us, R),
         ~(Len(PreprocessPasses(us)) > 1)
  PROVE  Run(PreprocessPasses(ts), k) = Run(PreprocessPasses(us), k)
<1>. DEFINE v == Kept(us, Preprocessors)
            w == Kept(ts, Preprocessors)
<1>1. ts \in Seq(Transform) /\ us \in Seq(Transform)
  BY DEF Distinct, Lists
<1>2. Lists(v, R \cap Preprocessors) /\ Lists(w, R \cap Preprocessors)
  BY ListsKept
<1>3. /\ PreprocessPasses(us) = PassesFor(v, PreprocessPass)
      /\ PreprocessPasses(ts) = PassesFor(w, PreprocessPass)
  BY <1>1, PartsAre
<1>. HIDE DEF v, w
<1>4. Len(v) \in Nat /\ DOMAIN v = 1..Len(v)
  BY <1>2, ElementOfSeq DEF Lists
<1>5. Len(PassesFor(v, PreprocessPass)) = Len(v)
  BY <1>4 DEF PassesFor
<1>6. Len(v) <= 1
  BY <1>3, <1>4, <1>5
<1>7. v = w
  BY <1>2, <1>6, OneListing
<1>. QED  BY <1>3, <1>7

\* Two listings have the same enclosers: they are sorted, and names differ.
LEMMA SameEnclosers ==
  ASSUME NEW k \in Kind, NEW R, Distinct(R), Unclashing(R),
         NEW ts, Lists(ts, R), NEW us, Lists(us, R)
  PROVE  Enclosers(ts, k) = Enclosers(us, k)
<1>. DEFINE v == Kept(us, Enclosing(k))
            w == Kept(ts, Enclosing(k))
            Q == R \cap Enclosing(k)
<1>1. ts \in Seq(Transform) /\ us \in Seq(Transform)
  BY DEF Distinct, Lists
<1>2. Lists(v, Q) /\ Lists(w, Q)
  BY ListsKept
<1>3. v \in Seq(Transform) /\ w \in Seq(Transform)
  BY <1>1, KeptWithin
<1>4. Q \subseteq Transform /\ \A t, u \in Q : NameOf(t) = NameOf(u) => t = u
  BY DEF Distinct, Unclashing
<1>5. SortedEnclosers(us, k) = SortByName(v) /\ SortedEnclosers(ts, k) = SortByName(w)
  BY DEF SortedEnclosers
<1>. HIDE DEF v, w, Q
<1>6. Lists(SortByName(v), Q) /\ Lists(SortByName(w), Q)
  BY <1>2, ListsSorted
<1>7. Sorted(SortByName(v)) /\ Sorted(SortByName(w))
  BY <1>3, SortSorted
<1>8. SortByName(v) = SortByName(w)
  BY <1>4, <1>6, <1>7, SortedSame
<1>9. SortedEnclosers(us, k) = SortedEnclosers(ts, k)
  BY <1>5, <1>8
<1>. DEFINE E(x) == [i \in DOMAIN x |-> <<"enclose", x[i].id>>]
<1>10. /\ Enclosers(ts, k) = E(SortedEnclosers(ts, k))
       /\ Enclosers(us, k) = E(SortedEnclosers(us, k))
  BY <1>1, EnclosersAre
<1>. HIDE DEF E
<1>. QED  BY <1>9, <1>10

\* What View tells apart of the calls.
Unruly == {c \in Call : c[1] # "rules"}
ViewOf(ordered, seen) ==
  [ordered |-> [i \in DOMAIN ordered |-> <<ordered[i][1], ById(ordered[i][2]).given.name>>],
   rules |-> {ById(c[2]).given.name : c \in seen \cap ({"rules"} \X (1..MaxTransforms))}]

\* View looks at the elements of a run, and at the order of all but rules.
LEMMA ViewIs ==
  ASSUME NEW ts \in Seq(Transform), NEW k \in Kind
  PROVE  View(ts, k) = ViewOf(Kept(Run(WholeAstPasses(ts), k), Unruly),
                              Among(Run(WholeAstPasses(ts), k)))
<1>. DEFINE W == WholeAstPasses(ts)
            s == Run(W, k)
            seen == FlattenSeq(Map(LAMBDA p : p[k], W))
            f == Where(LAMBDA c : c[1] # "rules", seen)
<1>1. W \in Seq(Pass)
  BY WholeTyped
<1>2. seen = s
  BY DEF Map, Run
<1>3. s \in Seq(Call)
  <2>1. OnlyCalls(W, k, Call)
    <3>. HIDE DEF W
    <3>. QED  BY <1>1, ManyTyped
  <2>. HIDE DEF W
  <2>. QED  BY <2>1, RunTyped
<1>4. f = Kept(s, Unruly)
  <2>1. \A i \in DOMAIN s : s[i] \in Call
    <3>. HIDE DEF s
    <3>. QED  BY <1>3, ElementOfSeq
  <2>2. \A i \in DOMAIN s : s[i][1] # "rules" <=> s[i] \in Unruly
    <3>. HIDE DEF s
    <3>. QED  BY <2>1 DEF Unruly
  <2>3. f = FlattenSeq([i \in DOMAIN s |-> IF s[i][1] # "rules" THEN <<s[i]>> ELSE <<>>])
    BY <1>2 DEF Where
  <2>. HIDE DEF s, f
  <2>4. [i \in DOMAIN s |-> IF s[i][1] # "rules" THEN <<s[i]>> ELSE <<>>]
          = [i \in DOMAIN s |-> IF s[i] \in Unruly THEN <<s[i]>> ELSE <<>>]
    BY <2>2
  <2>. QED  BY <2>3, <2>4 DEF Kept
<1>5. View(ts, k) = ViewOf(f, {seen[i] : i \in DOMAIN seen})
  BY DEF View, ViewOf
<1>6. {seen[i] : i \in DOMAIN seen} = Among(s)
  BY <1>2 DEF Among
<1>. QED  BY <1>4, <1>5, <1>6

\* The order of the list tells on the order of the rules only.
LEMMA PlainView ==
  ASSUME ~noMerge, NEW k \in Kind, NEW R, Distinct(R), Plain(R), Unclashing(R),
         NEW ts, Lists(ts, R), NEW us, Lists(us, R), ~(Len(PreprocessPasses(us)) > 1)
  PROVE  View(ts, k) = View(us, k)
<1>. DEFINE b == Run(PreprocessPasses(us), k)
            e == Enclosers(Reverse(us), k)
            r == AllRules(Reverse(us))
            q == AllRules(Reverse(ts))
            er == e \o r
            eq == e \o q
<1>1. ts \in Seq(Transform) /\ us \in Seq(Transform)
  BY DEF Distinct, Lists
<1>2. Lists(Reverse(ts), R) /\ Lists(Reverse(us), R)
  BY ListsReversed
<1>3. Run(PreprocessPasses(ts), k) = b
  BY SamePreprocessors
<1>4. Enclosers(Reverse(ts), k) = e
  BY <1>2, SameEnclosers
<1>5. /\ Run(WholeAstPasses(us), k) = b \o er
      /\ b \in Seq(Call) /\ e \in Seq(Call) /\ r \in Seq(CallsOf({"rules"})) /\ r \in Seq(Call)
  BY PlainSeen
<1>6. /\ Run(WholeAstPasses(ts), k) = b \o eq
      /\ q \in Seq(CallsOf({"rules"})) /\ q \in Seq(Call)
  BY <1>3, <1>4, PlainSeen
<1>7. Among(r) = RulesOf(R) /\ Among(q) = RulesOf(R)
  BY <1>2, RulesAnyKind, AmongListed
<1>8. CallsOf({"rules"}) \cap Unruly = {}
  BY DEF CallsOf, Unruly
<1>. HIDE DEF b, e, r, q
<1>9. Kept(r, Unruly) = <<>> /\ Kept(q, Unruly) = <<>>
  BY <1>5, <1>6, <1>8, KeptNothing
<1>10. er \in Seq(Call) /\ eq \in Seq(Call)
  BY <1>5, <1>6
<1>11. Kept(er, Unruly) = Kept(eq, Unruly) /\ Among(er) = Among(eq)
  <2>1. KeepsBoth(e, r, Unruly) /\ KeepsBoth(e, q, Unruly) /\ AmongBoth(e, r) /\ AmongBoth(e, q)
    BY <1>5, <1>6, KeptConcat, AmongConcat
  <2>. QED  BY <1>7, <1>9, <2>1 DEF KeepsBoth, AmongBoth
<1>. HIDE DEF er, eq
<1>12. Kept(b \o er, Unruly) = Kept(b \o eq, Unruly) /\ Among(b \o er) = Among(b \o eq)
  <2>1. KeepsBoth(b, er, Unruly) /\ KeepsBoth(b, eq, Unruly) /\ AmongBoth(b, er) /\ AmongBoth(b, eq)
    BY <1>5, <1>10, KeptConcat, AmongConcat
  <2>. QED  BY <1>11, <2>1 DEF KeepsBoth, AmongBoth
<1>. QED  BY <1>1, <1>5, <1>6, <1>12, ViewIs

\* A reordering of the registrations lists them all.
LEMMA ReorderingLists ==
  ASSUME Linked, NEW ts \in Reorderings
  PROVE  Lists(ts, Registered)
<1>. DEFINE n == Len(all)
            R == Registered
<1>1. Lists(all, R)
  BY RegisteredLists
<1>2. /\ n \in Nat /\ all \in Seq(R) /\ DOMAIN all = 1..n /\ all \in [1..n -> R]
      /\ \A i, j \in 1..n : all[i] = all[j] => i = j
      /\ \A t \in R : \E i \in 1..n : all[i] = t
  <2>. HIDE DEF R
  <2>1. n \in Nat /\ all \in Seq(R) /\ DOMAIN all = 1..n /\ \A i \in 1..n : all[i] \in R
    BY <1>1, ElementOfSeq DEF Lists
  <2>2. /\ \A i, j \in 1..n : all[i] = all[j] => i = j
        /\ \A t \in R : \E i \in 1..n : all[i] = t
    BY <1>1 DEF Lists
  <2>3. all = [i \in 1..n |-> all[i]]
    BY <2>1
  <2>4. all \in [1..n -> R]
    BY <2>1, <2>3
  <2>. QED  BY <2>1, <2>2, <2>4
<1>3. ts \in [1..n -> R] /\ IsInjective(ts)
  BY <1>2 DEF Reorderings
<1>. HIDE DEF R, n
<1>4. IsFiniteSet(1..n)
  BY <1>2, FS_Interval
<1>5. all \in Injection(1..n, R) /\ all \in Surjection(1..n, R)
  BY <1>2 DEF Injection, Surjection, IsInjective
<1>6. IsFiniteSet(R) /\ Cardinality(R) = Cardinality(1..n)
  BY <1>4, <1>5, FS_Surjection
<1>7. ts \in Injection(1..n, R)
  BY <1>3 DEF Injection
<1>8. ts \in Surjection(1..n, R)
  BY <1>6, <1>7, FS_Injection
<1>9. \A t \in R : \E i \in 1..n : ts[i] = t
  BY <1>8 DEF Surjection
<1>10. \A i, j \in 1..n : ts[i] = ts[j] => i = j
  BY <1>3 DEF IsInjective
<1>11. ts \in Seq(R) /\ Len(ts) = n
  BY <1>2, <1>3
<1>. QED  BY <1>9, <1>10, <1>11 DEF Lists, R

\* At most one preprocessor runs.
OnePreprocessor ==
  phase \in {"running", "done"} => ~(Len(PreprocessPasses(Applied)) > 1)

\* get_whole_ast_passes fails on a second preprocessor, and the list stays.
LEMMA OnePreprocessorStep ==
  OnePreprocessor /\ [Next]_vars => OnePreprocessor'
<1>. SUFFICES ASSUME OnePreprocessor, [Next]_vars, phase' \in {"running", "done"}
              PROVE  ~(Len(PreprocessPasses(Applied))' > 1)
  BY DEF OnePreprocessor
<1>1. PlanPasses \/ RunPass \/ Finish \/ UNCHANGED vars
  BY DEF Next, Register, EndLinking, HandleApply, HandleDontApply, SetNoMerge, InterpretMask, vars
<1>2. UNCHANGED <<all, applyList, noMerge>>
  BY <1>1 DEF PlanPasses, RunPass, Finish, vars
<1>3. Applied' = Applied
  BY <1>2, Unplanned
<1>4. PreprocessPasses(Applied)' = PreprocessPasses(Applied)
  BY <1>3
<1>5. ~(Len(PreprocessPasses(Applied)) > 1)
  BY <1>1 DEF PlanPasses, RunPass, Finish, vars, OnePreprocessor
<1>. QED  BY <1>4, <1>5

\* No file is rewritten with two preprocessors (the failure of
\* get_whole_ast_passes on a second one).
THEOREM OnePreprocessorRuns == Spec => []OnePreprocessor
<1>1. Init => OnePreprocessor
  BY DEF Init, OnePreprocessor
<1>. QED  BY <1>1, OnePreprocessorStep, PTL DEF Spec

\* Any order of the registrations gives the same view.
LEMMA DoneInAnyOrder ==
  PassesInv /\ OnePreprocessor => RulesIgnoreLinkOrder
<1>. SUFFICES ASSUME PassesInv, OnePreprocessor, phase = "done", ~noMerge, NoClash,
                     applyList = NoList,
                     \A t \in Registered : /\ t.given.whole = {} /\ t.given.lint = {}
                                           /\ t.given.instrument = "none",
                     NEW ts \in Reorderings
              PROVE  View(ts, kind) = View(all, kind)
  BY DEF RulesIgnoreLinkOrder, SameInAnyOrder
<1>1. Linked /\ kind \in Kind
  BY DEF PassesInv
<1>2. Lists(all, Registered) /\ Distinct(Registered)
  BY <1>1, RegisteredLists
<1>3. Lists(ts, Registered)
  BY <1>1, ReorderingLists
<1>4. Applied = Reverse(all)
  BY DEF Applied
<1>5. Lists(Reverse(all), Registered) /\ ~(Len(PreprocessPasses(Reverse(all))) > 1)
  BY <1>2, <1>4, ListsReversed DEF OnePreprocessor
<1>6. Plain(Registered)
  BY DEF Plain
<1>7. Unclashing(Registered)
  BY DEF Unclashing, NoClash, NameOf, HasName
<1>8. View(ts, kind) = View(Reverse(all), kind)
  BY <1>1, <1>2, <1>3, <1>5, <1>6, <1>7, PlainView
<1>9. View(all, kind) = View(Reverse(all), kind)
  BY <1>1, <1>2, <1>5, <1>6, <1>7, PlainView
<1>. QED  BY <1>8, <1>9

\* Rewriters with rules, enclosers and preprocessors only give the same in whatever
\* order they were linked: get_enclosers sorts, and a name has one transformation.
THEOREM RulesInAnyLinkOrder == Spec => []RulesIgnoreLinkOrder
BY DoneInAnyOrder, PassesPlanned, OnePreprocessorRuns, PTL
================================================================================
