---------------------------- MODULE Reconcile_proofs ---------------------------
(***************************************************************************)
(* Reconciliation with the source, for every source and every list of      *)
(* replacements.  What filter keeps is in order and disjoint whatever the  *)
(* sort before it did; replacements that are separate or were reported     *)
(* before one that encloses them leave the outermost ones and no error;    *)
(* the position that is kept is that of its offset; every line directive   *)
(* is true of the text around it; and the text that is printed is the      *)
(* source around the generated code, each in its place and once.           *)
(***************************************************************************)
EXTENDS Reconcile, SequenceTheorems, FiniteSetTheorems, NaturalsInduction,
        WellFoundedInduction, TLAPS

\* The sequences of replacements hold replacements.
SequencesOK == todo \in Seq(Repl) /\ kept \in Seq(Repl)

\* Nothing is kept before the sort begins, and KeptInOrder after it.
IInv ==
  /\ SequencesOK
  /\ phase = "collecting" => kept = <<>>
  /\ KeptInOrder

\* A replacement ends no earlier than it starts.
LEMMA ReplBounds ==
  ASSUME NEW r \in Repl
  PROVE  r.start \in Int /\ r.stop \in Int /\ r.start <= r.stop
<1>1. Length \in Nat
  BY ContentsAssumption DEF Length
<1>. QED  BY <1>1 DEF Repl

\* A replacement is inserted into a sequence of replacements.
LEMMA InsertedAtTyped ==
  ASSUME NEW s \in Seq(Repl), NEW r \in Repl, NEW p \in 1..(Len(s) + 1)
  PROVE  InsertedAt(p, s, r) \in Seq(Repl)
<1>1. \A i \in 1..(Len(s) + 1) : InsertedAt(p, s, r)[i] \in Repl
  <2>. TAKE i \in 1..(Len(s) + 1)
  <2>1. CASE i < p
    BY <2>1 DEF InsertedAt
  <2>2. CASE i = p
    BY <2>2 DEF InsertedAt
  <2>3. CASE i > p
    <3>1. i - 1 \in 1..Len(s)
      BY <2>3
    <3>. QED  BY <2>3, <3>1 DEF InsertedAt
  <2>. QED  BY <2>1, <2>2, <2>3
<1>. QED  BY <1>1 DEF InsertedAt

\* Keep appends a replacement that starts where prev ends or later; with the
\* order of what was kept before, it comes after all of them.
LEMMA AppendKeepsOrder ==
  ASSUME SequencesOK, NEW r \in Repl, ~Overlap(r),
         \A i, j \in DOMAIN kept : i < j => kept[i].stop <= kept[j].start
  PROVE  \A i, j \in DOMAIN Append(kept, r) :
           i < j => Append(kept, r)[i].stop <= Append(kept, r)[j].start
<1>. DEFINE n == Len(kept)
<1>. SUFFICES ASSUME NEW i \in DOMAIN Append(kept, r), NEW j \in DOMAIN Append(kept, r), i < j
              PROVE  Append(kept, r)[i].stop <= Append(kept, r)[j].start
  OBVIOUS
<1>1. n \in Nat /\ i \in 1..n /\ j \in 1..(n + 1)
  BY DEF SequencesOK
<1>2. CASE j \in 1..n
  BY <1>1, <1>2 DEF SequencesOK
<1>3. CASE j = n + 1
  <2>1. Append(kept, r)[j] = r /\ Append(kept, r)[i] = kept[i]
    BY <1>1, <1>3 DEF SequencesOK
  <2>2. kept # <<>> /\ Prev = kept[n] /\ n \in 1..n
    BY <1>1 DEF SequencesOK, Prev, Last
  <2>3. Prev.stop <= r.start
    <3>1. Prev \in Repl
      BY <2>2 DEF SequencesOK
    <3>. QED  BY <2>2, <3>1, ReplBounds DEF Overlap
  <2>4. CASE i = n
    BY <2>1, <2>2, <2>3, <2>4
  <2>5. CASE i < n
    <3>1. kept[i] \in Repl /\ kept[n] \in Repl
      BY <1>1, <2>2 DEF SequencesOK
    <3>2. kept[i].stop <= kept[n].start
      BY <1>1, <2>2, <2>5 DEF SequencesOK
    <3>. QED  BY <2>1, <2>2, <2>3, <3>1, <3>2, ReplBounds
  <2>. QED  BY <1>1, <2>4, <2>5
<1>. QED  BY <1>1, <1>2, <1>3

\* The invariant holds before anything is reported.
LEMMA InitIInv == Init => IInv
BY DEF Init, IInv, SequencesOK, KeptInOrder

\* Every step keeps the invariant: only Keep adds to what is kept after the sort.
LEMMA NextIInv == IInv /\ [Next]_vars => IInv'
<1>. SUFFICES ASSUME IInv, [Next]_vars PROVE IInv'
  OBVIOUS
<1>. USE DEF IInv, SequencesOK, KeptInOrder
<1>h. todo # <<>> => Head(todo) \in Repl /\ Tail(todo) \in Seq(Repl)
  OBVIOUS
<1>1. ASSUME NEW r \in Repl, Report(r) PROVE IInv'
  BY <1>1 DEF Report
<1>2. CASE OtherFile
  BY <1>2 DEF OtherFile
<1>3. CASE CheckAndSort
  BY <1>3 DEF CheckAndSort
<1>4. CASE Insert
  BY <1>4, <1>h, InsertedAtTyped DEF Insert
<1>5. CASE EndSort
  BY <1>5 DEF EndSort
<1>6. CASE Keep
  <2>1. kept' = Append(kept, Head(todo)) /\ kept' \in Seq(Repl) /\ todo' \in Seq(Repl)
    BY <1>6, <1>h DEF Keep
  <2>2. KeptInOrder'
    BY <1>6, <1>h, <2>1, AppendKeepsOrder DEF Keep
  <2>. QED  BY <1>6, <2>1, <2>2 DEF Keep
<1>7. CASE Skip
  BY <1>7, <1>h DEF Skip
<1>8. CASE RaiseOverlapping
  BY <1>8 DEF RaiseOverlapping
<1>9. CASE EndFilter
  BY <1>9 DEF EndFilter
<1>10. CASE CopyAndReplace
  BY <1>10, <1>h DEF CopyAndReplace
<1>11. CASE ReplaceNext
  BY <1>11, <1>h DEF ReplaceNext
<1>12. CASE EndConsecutive
  BY <1>12 DEF EndConsecutive
<1>13. CASE CopyRest
  BY <1>13 DEF CopyRest
<1>14. CASE UNCHANGED vars
  BY <1>14 DEF vars
<1>. QED  BY <1>1, <1>2, <1>3, <1>4, <1>5, <1>6, <1>7, <1>8, <1>9, <1>10, <1>11, <1>12,
             <1>13, <1>14 DEF Next

\* What filter keeps is in the order of the file and disjoint, for every source
\* and every list of replacements (check_and_sort).
THEOREM ReplacementsInOrder == Spec => []KeptInOrder
<1>1. IInv => KeptInOrder
  BY DEF IInv
<1>. QED  BY InitIInv, NextIInv, <1>1, PTL DEF Spec

--------------------------------------------------------------------------------
(***************************************************************************)
(* Replacements that are separate, or reported before one that encloses    *)
(* them: the outermost ones are kept and there is no error.                *)
(***************************************************************************)

Elements(s) == {s[i] : i \in DOMAIN s}
Nested == \A a, b \in reported : a.id < b.id => Separate(a, b) \/ Inner(a, b)
Outermost == {a \in reported : \A b \in reported : ~Inner(a, b)}

\* How two of them are sorted: what encloses comes first.
Before(a, b) == a.stop < b.start \/ Inner(b, a)
Sorted(s) == \A i, j \in DOMAIN s : i < j => Before(s[i], s[j])
Decreasing(s) == \A i, j \in DOMAIN s : i < j => s[j].id < s[i].id

\* What remains to be inserted was reported before what is sorted.
SortInv ==
  /\ reported = Elements(todo) \cup Elements(kept)
  /\ Decreasing(todo)
  /\ \A t \in Elements(todo), k \in Elements(kept) : t.id < k.id
  /\ Nested => Sorted(kept)

\* Whatever filter has dropped is inside of something that it kept.
FilterInv ==
  Nested =>
    /\ Sorted(todo)
    /\ \A k \in Elements(kept), t \in Elements(todo) : Before(k, t)
    /\ Elements(kept) \subseteq Outermost /\ Elements(todo) \subseteq reported
    /\ \A a \in reported : \/ a \in Elements(kept) \cup Elements(todo)
                           \/ \E k \in Elements(kept) : Inner(a, k)

OutermostInv ==
  /\ IInv /\ reported \subseteq Repl
  /\ phase = "collecting" =>
       /\ reported = Elements(todo)
       /\ \A i \in DOMAIN todo : todo[i].id = Len(todo) + 1 - i
  /\ phase = "sorting" => SortInv
  /\ phase = "filtering" => FilterInv
  /\ phase = "overlapping" => ~Nested
  /\ phase \in {"emitting", "done"} => (Nested => Elements(kept) = Outermost)

LEMMA ReplFields ==
  ASSUME NEW r \in Repl
  PROVE  r.id \in Nat /\ r.start \in Nat /\ r.stop \in Nat /\ r.start <= r.stop
<1>1. Length \in Nat /\ MaxRepls \in Nat
  BY ContentsAssumption, MaxReplsAssumption DEF Length
<1>. QED  BY <1>1 DEF Repl

\* Compare puts an older replacement before the others that come after it in the
\* file, and behind what comes before it or encloses it.
LEMMA CompareNested ==
  ASSUME NEW k \in Repl, NEW r \in Repl, Separate(r, k) \/ Inner(r, k)
  PROVE  /\ Compare(k, r) = "more" => r.stop < k.start
         /\ Compare(k, r) # "more" => Before(k, r)
BY ReplFields DEF Compare, Separate, Inner, Encloses, Before

\* What is before what is before is before.
LEMMA BeforeNotAfter ==
  ASSUME NEW a \in Repl, NEW b \in Repl, NEW c \in Repl, Before(a, b), Before(b, c),
         Separate(c, a) \/ Inner(c, a)
  PROVE  Before(a, c)
BY ReplFields DEF Separate, Inner, Encloses, Before

\* Inside of what is inside is inside.
LEMMA InnerTransitive ==
  ASSUME NEW a \in Repl, NEW b \in Repl, NEW c \in Repl, Inner(a, b), Inner(b, c)
  PROVE  Inner(a, c)
BY ReplFields DEF Inner, Encloses

LEMMA ElementsTyped ==
  ASSUME NEW s \in Seq(Repl)
  PROVE  /\ Elements(s) \subseteq Repl
         /\ s # <<>> => /\ Elements(s) = {Head(s)} \cup Elements(Tail(s))
                        /\ \A i \in DOMAIN Tail(s) : i + 1 \in DOMAIN s /\ Tail(s)[i] = s[i + 1]
                        /\ Head(s) = s[1] /\ 1 \in DOMAIN s
<1>1. Elements(s) \subseteq Repl
  BY DEF Elements
<1>2. ASSUME s # <<>>
      PROVE  /\ Elements(s) = {Head(s)} \cup Elements(Tail(s))
             /\ \A i \in DOMAIN Tail(s) : i + 1 \in DOMAIN s /\ Tail(s)[i] = s[i + 1]
             /\ Head(s) = s[1] /\ 1 \in DOMAIN s
  <2>1. /\ Head(s) = s[1] /\ DOMAIN s = 1..Len(s) /\ Len(s) \in Nat /\ Len(s) > 0
        /\ DOMAIN Tail(s) = 1..(Len(s) - 1)
        /\ \A i \in 1..(Len(s) - 1) : Tail(s)[i] = s[i + 1]
    BY <1>2
  <2>2. \A i \in DOMAIN s : i = 1 \/ (i - 1 \in DOMAIN Tail(s) /\ s[i] = Tail(s)[i - 1])
    <3>. TAKE i \in DOMAIN s
    <3>1. i # 1 => i - 1 \in 1..(Len(s) - 1) /\ i - 1 + 1 = i
      BY <2>1
    <3>. QED  BY <2>1, <3>1
  <2>3. \A i \in DOMAIN Tail(s) : i + 1 \in DOMAIN s /\ Tail(s)[i] = s[i + 1]
    BY <2>1
  <2>4. \A e : (\E i \in DOMAIN s : e = s[i])
               <=> e = Head(s) \/ \E i \in DOMAIN Tail(s) : e = Tail(s)[i]
    <3>1. 1 \in DOMAIN s
      BY <2>1
    <3>. QED  BY <2>1, <2>2, <2>3, <3>1, Zenon
  <2>5. Elements(s) = {Head(s)} \cup Elements(Tail(s))
    BY <2>4, Zenon DEF Elements
  <2>. QED  BY <2>1, <2>3, <2>5
<1>. QED  BY <1>1, <1>2

\* What is inserted is added to the elements.
LEMMA InsertedElements ==
  ASSUME NEW s \in Seq(Repl), NEW r \in Repl, NEW p \in 1..(Len(s) + 1)
  PROVE  /\ Elements(InsertedAt(p, s, r)) = Elements(s) \cup {r}
         /\ DOMAIN InsertedAt(p, s, r) = 1..(Len(s) + 1)
         /\ \A i \in 1..(Len(s) + 1) :
              /\ i < p => i \in DOMAIN s /\ InsertedAt(p, s, r)[i] = s[i]
              /\ i = p => InsertedAt(p, s, r)[i] = r
              /\ i > p => i - 1 \in DOMAIN s /\ InsertedAt(p, s, r)[i] = s[i - 1]
<1>. DEFINE new == InsertedAt(p, s, r)
<1>1. Len(s) \in Nat /\ DOMAIN s = 1..Len(s) /\ p \in Nat
  OBVIOUS
<1>2. DOMAIN new = 1..(Len(s) + 1)
  BY DEF InsertedAt
<1>3. \A i \in 1..(Len(s) + 1) :
        /\ i < p => i \in DOMAIN s /\ new[i] = s[i]
        /\ i = p => new[i] = r
        /\ i > p => i - 1 \in DOMAIN s /\ new[i] = s[i - 1]
  <2>. TAKE i \in 1..(Len(s) + 1)
  <2>1. new[i] = IF i < p THEN s[i] ELSE IF i = p THEN r ELSE s[i - 1]
    BY DEF InsertedAt
  <2>. QED  BY <1>1, <2>1
<1>. HIDE DEF new
<1>4. \A i \in DOMAIN s : \E j \in DOMAIN new : new[j] = s[i]
  <2>. TAKE i \in DOMAIN s
  <2>1. CASE i < p
    BY <1>1, <1>2, <1>3, <2>1
  <2>2. CASE i >= p
    <3>1. i + 1 \in 1..(Len(s) + 1) /\ i + 1 > p /\ i + 1 - 1 = i
      BY <1>1, <2>2
    <3>2. new[i + 1] = s[i]
      BY <1>3, <3>1
    <3>. QED  BY <1>2, <3>1, <3>2
  <2>. QED  BY <1>1, <2>1, <2>2
<1>5. \A i \in DOMAIN new : new[i] = r \/ \E j \in DOMAIN s : new[i] = s[j]
  <2>. TAKE i \in DOMAIN new
  <2>1. i < p \/ i = p \/ i > p
    BY <1>1, <1>2
  <2>. QED  BY <1>2, <1>3, <2>1
<1>6. p \in DOMAIN new /\ new[p] = r
  BY <1>2, <1>3
<1>7. Elements(new) = Elements(s) \cup {r}
  BY <1>4, <1>5, <1>6 DEF Elements
<1>. QED  BY <1>2, <1>3, <1>7 DEF new

\* Inserting the next one where Compare sends it keeps the order.
LEMMA InsertSorted ==
  ASSUME NEW s \in Seq(Repl), NEW r \in Repl, NEW p \in 1..(Len(s) + 1), GoesTo(p, s, r),
         Sorted(s), \A k \in Elements(s) : Separate(r, k) \/ Inner(r, k)
  PROVE  Sorted(InsertedAt(p, s, r))
<1>. DEFINE new == InsertedAt(p, s, r)
<1>1. Len(s) \in Nat /\ DOMAIN s = 1..Len(s) /\ p \in Nat
      /\ \A i \in DOMAIN s : s[i] \in Repl /\ s[i] \in Elements(s)
  BY DEF Elements
<1>2. /\ DOMAIN new = 1..(Len(s) + 1)
      /\ \A i \in 1..(Len(s) + 1) :
           /\ i < p => i \in DOMAIN s /\ new[i] = s[i]
           /\ i = p => new[i] = r
           /\ i > p => i - 1 \in DOMAIN s /\ new[i] = s[i - 1]
  BY InsertedElements
<1>. HIDE DEF new
<1>3. \A i \in DOMAIN s : i >= p => Before(r, s[i])
  <2>. SUFFICES ASSUME NEW i \in DOMAIN s, i >= p PROVE Before(r, s[i])
    OBVIOUS
  <2>1. Compare(s[i], r) = "more"
    BY <1>1 DEF GoesTo
  <2>2. r.stop < s[i].start
    BY <1>1, <2>1, CompareNested
  <2>. QED  BY <2>2 DEF Before
<1>4. \A i \in DOMAIN s : i < p => Before(s[i], r)
  <2>. SUFFICES ASSUME NEW i \in DOMAIN s, i < p PROVE Before(s[i], r)
    OBVIOUS
  <2>1. p - 1 \in DOMAIN s /\ p > 1
    BY <1>1
  <2>2. Compare(s[p - 1], r) # "more"
    BY <2>1 DEF GoesTo
  <2>3. Before(s[p - 1], r)
    BY <1>1, <2>1, <2>2, CompareNested
  <2>4. CASE i = p - 1
    BY <2>3, <2>4
  <2>5. CASE i < p - 1
    <3>1. Before(s[i], s[p - 1])
      BY <2>1, <2>5 DEF Sorted
    <3>. QED  BY <1>1, <2>1, <2>3, <3>1, BeforeNotAfter
  <2>. QED  BY <1>1, <2>4, <2>5
<1>5. ASSUME NEW i \in DOMAIN new, NEW j \in DOMAIN new, i < j PROVE Before(new[i], new[j])
  <2>1. i \in 1..(Len(s) + 1) /\ j \in 1..(Len(s) + 1)
    BY <1>2
  <2>2. CASE j < p
    BY <1>1, <1>2, <1>5, <2>1, <2>2 DEF Sorted
  <2>3. CASE j = p
    BY <1>1, <1>2, <1>4, <1>5, <2>1, <2>3
  <2>4. CASE j > p /\ i < p
    <3>1. i \in DOMAIN s /\ j - 1 \in DOMAIN s /\ i < j - 1 /\ new[i] = s[i] /\ new[j] = s[j - 1]
      BY <1>1, <1>2, <2>1, <2>4
    <3>. QED  BY <3>1 DEF Sorted
  <2>5. CASE j > p /\ i = p
    <3>1. j - 1 \in DOMAIN s /\ j - 1 >= p /\ new[i] = r /\ new[j] = s[j - 1]
      BY <1>1, <1>2, <2>1, <2>5
    <3>. QED  BY <1>3, <3>1
  <2>6. CASE j > p /\ i > p
    <3>1. i - 1 \in DOMAIN s /\ j - 1 \in DOMAIN s /\ i - 1 < j - 1
          /\ new[i] = s[i - 1] /\ new[j] = s[j - 1]
      BY <1>1, <1>2, <1>5, <2>1, <2>6
    <3>. QED  BY <3>1 DEF Sorted
  <2>. QED  BY <1>1, <2>1, <2>2, <2>3, <2>4, <2>5, <2>6
<1>. QED  BY <1>5 DEF Sorted, new

\* A replacement reported is put before the others.
LEMMA ReportElements ==
  ASSUME NEW s \in Seq(Repl), NEW r \in Repl
  PROVE  /\ Elements(<<r>> \o s) = {r} \cup Elements(s)
         /\ DOMAIN (<<r>> \o s) = 1..(Len(s) + 1) /\ (<<r>> \o s)[1] = r
         /\ \A i \in 2..(Len(s) + 1) : i - 1 \in DOMAIN s /\ (<<r>> \o s)[i] = s[i - 1]
<1>. DEFINE new == <<r>> \o s
<1>1. Len(s) \in Nat /\ DOMAIN s = 1..Len(s)
  OBVIOUS
<1>. DEFINE one == <<r>>
<1>2. one \in Seq(Repl) /\ Len(one) = 1 /\ one[1] = r
  OBVIOUS
<1>. HIDE DEF one
<1>3. /\ one \o s \in Seq(Repl) /\ Len(one \o s) = Len(one) + Len(s)
      /\ \A i \in 1..(Len(one) + Len(s)) :
           (one \o s)[i] = IF i <= Len(one) THEN one[i] ELSE s[i - Len(one)]
  BY <1>2, ConcatProperties
<1>. DEFINE joined == one \o s
<1>. HIDE DEF joined
<1>4. /\ DOMAIN joined = 1..(Len(s) + 1)
      /\ \A i \in 1..(Len(s) + 1) : joined[i] = IF i <= 1 THEN one[i] ELSE s[i - 1]
  <2>1. joined \in Seq(Repl) /\ Len(joined) = Len(s) + 1
    BY <1>3, <1>1, <1>2 DEF joined
  <2>2. \A i \in 1..(Len(s) + 1) : joined[i] = IF i <= 1 THEN one[i] ELSE s[i - 1]
    BY <1>3, <1>1, <1>2 DEF joined
  <2>. QED  BY <2>1, <2>2
<1>5. DOMAIN joined = 1..(Len(s) + 1) /\ joined[1] = r
  BY <1>1, <1>2, <1>4
<1>6. \A i \in 2..(Len(s) + 1) : i - 1 \in DOMAIN s /\ joined[i] = s[i - 1]
  <2>. SUFFICES ASSUME NEW i \in 2..(Len(s) + 1) PROVE i - 1 \in DOMAIN s /\ joined[i] = s[i - 1]
    OBVIOUS
  <2>1. i - 1 \in DOMAIN s /\ i \in 1..(Len(s) + 1) /\ ~(i <= 1)
    BY <1>1
  <2>. QED  BY <1>4, <2>1
<1>7. /\ DOMAIN new = 1..(Len(s) + 1) /\ new[1] = r
      /\ \A i \in 2..(Len(s) + 1) : i - 1 \in DOMAIN s /\ new[i] = s[i - 1]
  BY <1>5, <1>6 DEF joined, one
<1>. HIDE DEF new
<1>8. \A e : (\E i \in DOMAIN new : e = new[i]) <=> e = r \/ \E i \in DOMAIN s : e = s[i]
  <2>1. \A i \in DOMAIN new : i = 1 \/ i \in 2..(Len(s) + 1)
    BY <1>1, <1>7
  <2>2. \A i \in DOMAIN s : i + 1 \in DOMAIN new /\ new[i + 1] = s[i]
    <3>. TAKE i \in DOMAIN s
    <3>1. i + 1 \in 2..(Len(s) + 1) /\ i + 1 - 1 = i
      BY <1>1
    <3>. QED  BY <1>1, <1>7, <3>1
  <2>3. 1 \in DOMAIN new
    BY <1>1, <1>7
  <2>. QED  BY <1>7, <2>1, <2>2, <2>3, Zenon
<1>9. Elements(new) = {r} \cup Elements(s)
  BY <1>8, Zenon DEF Elements
<1>. QED  BY <1>7, <1>9 DEF new

LEMMA InitOutermost == Init => OutermostInv
<1>. SUFFICES ASSUME Init PROVE OutermostInv
  OBVIOUS
<1>1. IInv /\ todo = <<>> /\ reported = {} /\ phase = "collecting"
  BY InitIInv DEF Init
<1>2. Elements(todo) = {} /\ DOMAIN todo = {}
  BY <1>1 DEF Elements
<1>. QED  BY <1>1, <1>2 DEF OutermostInv

\* Among those reported before, Nested says less.
LEMMA ReportStep == ASSUME OutermostInv, NEW r \in Repl, Report(r) PROVE OutermostInv'
<1>1. IInv'
  BY NextIInv DEF OutermostInv, Next
<1>2. /\ todo \in Seq(Repl) /\ phase = "collecting" /\ phase' = "collecting"
      /\ todo' = <<r>> \o todo /\ reported' = reported \cup {r} /\ r.id = Len(todo) + 1
      /\ reported = Elements(todo) /\ \A i \in DOMAIN todo : todo[i].id = Len(todo) + 1 - i
  BY DEF Report, OutermostInv, IInv, SequencesOK
<1>3. reported' = Elements(todo') /\ reported' \subseteq Repl
  BY <1>2, ReportElements DEF OutermostInv
<1>4. \A i \in DOMAIN todo' : todo'[i].id = Len(todo') + 1 - i
  <2>1. Len(todo) \in Nat /\ Len(todo') = Len(todo) + 1 /\ DOMAIN todo' = 1..(Len(todo) + 1)
    <3>1. todo' \in Seq(Repl) /\ DOMAIN todo' = 1..(Len(todo) + 1) /\ Len(todo) \in Nat
      BY <1>1, <1>2, ReportElements DEF IInv, SequencesOK
    <3>. QED  BY <3>1
  <2>2. todo'[1] = r /\ \A i \in 2..(Len(todo) + 1) : i - 1 \in DOMAIN todo /\ todo'[i] = todo[i - 1]
    BY <1>2, ReportElements
  <2>. TAKE i \in DOMAIN todo'
  <2>3. CASE i = 1
    BY <1>2, <2>1, <2>2, <2>3
  <2>4. CASE i # 1
    <3>1. i \in 2..(Len(todo) + 1)
      BY <2>1, <2>4
    <3>2. todo'[i].id = Len(todo) + 1 - (i - 1)
      BY <1>2, <2>2, <3>1
    <3>. QED  BY <2>1, <3>1, <3>2
  <2>. QED  BY <2>3, <2>4
<1>. QED  BY <1>1, <1>2, <1>3, <1>4 DEF OutermostInv

LEMMA CheckAndSortStep == ASSUME OutermostInv, CheckAndSort PROVE OutermostInv'
<1>1. IInv'
  BY NextIInv DEF OutermostInv, Next
<1>2. /\ todo \in Seq(Repl) /\ kept = <<>> /\ phase' = "sorting"
      /\ reported = Elements(todo) /\ \A i \in DOMAIN todo : todo[i].id = Len(todo) + 1 - i
      /\ UNCHANGED <<todo, kept, reported>> /\ reported \subseteq Repl
  BY DEF CheckAndSort, OutermostInv, IInv, SequencesOK
<1>3. Elements(kept) = {} /\ DOMAIN kept = {}
  BY <1>2 DEF Elements
<1>4. Decreasing(todo)
  BY <1>2 DEF Decreasing
<1>5. SortInv'
  BY <1>2, <1>3, <1>4 DEF SortInv, Sorted, Nested
<1>. QED  BY <1>1, <1>2, <1>5 DEF OutermostInv

LEMMA InsertStep == ASSUME OutermostInv, Insert PROVE OutermostInv'
<1>1. IInv'
  BY NextIInv DEF OutermostInv, Next
<1>. DEFINE r == Head(todo)
<1>2. /\ todo \in Seq(Repl) /\ kept \in Seq(Repl) /\ todo # <<>> /\ phase = "sorting"
      /\ phase' = "sorting" /\ todo' = Tail(todo) /\ reported' = reported /\ SortInv
      /\ reported \subseteq Repl
  BY DEF Insert, OutermostInv, IInv, SequencesOK
<1>3. PICK p \in 1..(Len(kept) + 1) : GoesTo(p, kept, r) /\ kept' = InsertedAt(p, kept, r)
  BY DEF Insert
<1>4. /\ r \in Repl /\ Elements(todo) = {r} \cup Elements(Tail(todo))
      /\ \A i \in DOMAIN Tail(todo) : i + 1 \in DOMAIN todo /\ Tail(todo)[i] = todo[i + 1]
      /\ r = todo[1] /\ 1 \in DOMAIN todo /\ Elements(kept) \subseteq Repl
      /\ Tail(todo) \in Seq(Repl) /\ Elements(Tail(todo)) \subseteq Repl
  <2>1. r \in Repl /\ Tail(todo) \in Seq(Repl)
    BY <1>2
  <2>. QED  BY <1>2, <2>1, ElementsTyped
<1>. HIDE DEF r
<1>5. Elements(kept') = Elements(kept) \cup {r}
  BY <1>2, <1>3, <1>4, InsertedElements
<1>6. reported' = Elements(todo') \cup Elements(kept')
  BY <1>2, <1>4, <1>5 DEF SortInv
<1>7. Decreasing(todo') /\ \A t \in Elements(todo') : t.id < r.id
  <2>1. \A i \in DOMAIN Tail(todo) : i \in Nat /\ i + 1 \in Nat /\ 1 < i + 1
    BY <1>4
  <2>2. ASSUME NEW i \in DOMAIN Tail(todo), NEW j \in DOMAIN Tail(todo), i < j
        PROVE  Tail(todo)[j].id < Tail(todo)[i].id
    <3>1. i + 1 < j + 1
      BY <2>1, <2>2
    <3>. QED  BY <1>2, <1>4, <3>1 DEF SortInv, Decreasing
  <2>3. ASSUME NEW i \in DOMAIN Tail(todo) PROVE Tail(todo)[i].id < r.id
    BY <1>2, <1>4, <2>1 DEF SortInv, Decreasing
  <2>. QED  BY <1>2, <2>2, <2>3 DEF Decreasing, Elements
<1>8. \A t \in Elements(todo'), k \in Elements(kept') : t.id < k.id
  BY <1>2, <1>4, <1>5, <1>7 DEF SortInv
<1>9. Nested => Sorted(kept')
  <2>. SUFFICES ASSUME Nested PROVE Sorted(kept')
    OBVIOUS
  <2>1. \A k \in Elements(kept) : Separate(r, k) \/ Inner(r, k)
    BY <1>2, <1>4 DEF SortInv, Nested
  <2>2. Sorted(kept)
    BY <1>2 DEF SortInv
  <2>. QED  BY <1>2, <1>3, <1>4, <2>1, <2>2, InsertSorted
<1>10. SortInv'
  BY <1>2, <1>6, <1>7, <1>8, <1>9 DEF SortInv, Nested
<1>. QED  BY <1>1, <1>2, <1>10 DEF OutermostInv

LEMMA EndSortStep == ASSUME OutermostInv, EndSort PROVE OutermostInv'
<1>1. IInv'
  BY NextIInv DEF OutermostInv, Next
<1>2. /\ todo = <<>> /\ phase' = "filtering" /\ todo' = kept /\ kept' = <<>>
      /\ reported' = reported /\ SortInv /\ reported \subseteq Repl
  BY DEF EndSort, OutermostInv
<1>3. Elements(todo) = {} /\ Elements(kept') = {}
  BY <1>2 DEF Elements
<1>4. reported = Elements(kept)
  BY <1>2, <1>3 DEF SortInv
<1>5. FilterInv'
  BY <1>2, <1>3, <1>4 DEF FilterInv, SortInv, Nested, Sorted, Elements
<1>. QED  BY <1>1, <1>2, <1>5 DEF OutermostInv

\* The steps of filter, where Nested is assumed.
LEMMA FilterFacts ==
  ASSUME OutermostInv, phase = "filtering", todo # <<>>
  PROVE  /\ todo \in Seq(Repl) /\ kept \in Seq(Repl) /\ reported \subseteq Repl
         /\ Head(todo) \in Repl /\ Tail(todo) \in Seq(Repl)
         /\ Elements(todo) = {Head(todo)} \cup Elements(Tail(todo))
         /\ \A i \in DOMAIN Tail(todo) : i + 1 \in DOMAIN todo /\ Tail(todo)[i] = todo[i + 1]
         /\ Elements(kept) \subseteq Repl /\ Elements(todo) \subseteq Repl
         /\ kept # <<>> => Prev \in Elements(kept)
         /\ \A k \in Elements(kept) : k = Prev \/ k.stop <= Prev.start
         /\ Nested => /\ Sorted(Tail(todo))
                      /\ \A t \in Elements(Tail(todo)) : Before(Head(todo), t)
<1>1. /\ todo \in Seq(Repl) /\ kept \in Seq(Repl) /\ reported \subseteq Repl
      /\ KeptInOrder /\ FilterInv
  BY DEF OutermostInv, IInv, SequencesOK
<1>2. Head(todo) \in Repl /\ Tail(todo) \in Seq(Repl)
  BY <1>1
<1>3. /\ Elements(todo) = {Head(todo)} \cup Elements(Tail(todo))
      /\ \A i \in DOMAIN Tail(todo) : i + 1 \in DOMAIN todo /\ Tail(todo)[i] = todo[i + 1]
      /\ Head(todo) = todo[1] /\ 1 \in DOMAIN todo
      /\ Elements(kept) \subseteq Repl /\ Elements(todo) \subseteq Repl
  BY <1>1, ElementsTyped
<1>4. kept # <<>> => Prev = kept[Len(kept)] /\ Len(kept) \in DOMAIN kept
  BY <1>1 DEF Prev, Last
<1>5. kept # <<>> => Prev \in Elements(kept)
  BY <1>4 DEF Elements
<1>6. \A k \in Elements(kept) : k = Prev \/ k.stop <= Prev.start
  <2>. SUFFICES ASSUME NEW i \in DOMAIN kept PROVE kept[i] = Prev \/ kept[i].stop <= Prev.start
    BY DEF Elements
  <2>1. kept # <<>> /\ i \in Nat /\ i <= Len(kept) /\ Len(kept) \in Nat
    BY <1>1
  <2>. QED  BY <1>1, <1>4, <2>1 DEF KeptInOrder
<1>7. ASSUME Nested
      PROVE  /\ Sorted(Tail(todo))
             /\ \A t \in Elements(Tail(todo)) : Before(Head(todo), t)
  <2>1. \A i \in DOMAIN Tail(todo) : i \in Nat /\ i + 1 \in Nat /\ 1 < i + 1
    BY <1>2
  <2>2. Sorted(todo)
    BY <1>1, <1>7 DEF FilterInv
  <2>3. ASSUME NEW i \in DOMAIN Tail(todo), NEW j \in DOMAIN Tail(todo), i < j
        PROVE  Before(Tail(todo)[i], Tail(todo)[j])
    <3>1. i + 1 < j + 1
      BY <2>1, <2>3
    <3>. QED  BY <1>3, <2>2, <3>1 DEF Sorted
  <2>4. ASSUME NEW i \in DOMAIN Tail(todo) PROVE Before(Head(todo), Tail(todo)[i])
    BY <1>3, <2>1, <2>2 DEF Sorted
  <2>. QED  BY <2>3, <2>4 DEF Sorted, Elements
<1>. QED  BY <1>1, <1>2, <1>3, <1>5, <1>6, <1>7

\* What overlaps prev is inside of it.
LEMMA OverlapInner ==
  ASSUME OutermostInv, phase = "filtering", todo # <<>>, Nested, Overlap(Head(todo))
  PROVE  Prev \in Elements(kept) /\ Inner(Head(todo), Prev) /\ Prev.stop >= Head(todo).stop
<1>1. Prev \in Elements(kept) /\ Head(todo) \in Elements(todo)
      /\ Prev \in Repl /\ Head(todo) \in Repl /\ Prev.stop > Head(todo).start
  BY FilterFacts DEF Overlap
<1>2. Before(Prev, Head(todo))
  BY <1>1 DEF OutermostInv, FilterInv
<1>. QED  BY <1>1, <1>2, ReplFields DEF Before, Inner, Encloses

LEMMA SkipStep == ASSUME OutermostInv, Skip PROVE OutermostInv'
<1>1. IInv'
  BY NextIInv DEF OutermostInv, Next
<1>2. /\ phase = "filtering" /\ phase' = "filtering" /\ todo # <<>> /\ Overlap(Head(todo))
      /\ todo' = Tail(todo) /\ UNCHANGED <<kept, reported>>
  BY DEF Skip
<1>3. FilterInv /\ reported \subseteq Repl
  BY <1>2 DEF OutermostInv
<1>4. ASSUME Nested
      PROVE  /\ Sorted(todo')
             /\ \A k \in Elements(kept), t \in Elements(todo') : Before(k, t)
             /\ Elements(kept) \subseteq Outermost /\ Elements(todo') \subseteq reported
             /\ \A a \in reported : \/ a \in Elements(kept) \cup Elements(todo')
                                    \/ \E k \in Elements(kept) : Inner(a, k)
  BY <1>2, <1>3, <1>4, FilterFacts, OverlapInner DEF FilterInv
<1>5. FilterInv'
  BY <1>2, <1>4 DEF FilterInv, Nested, Outermost
<1>. QED  BY <1>1, <1>2, <1>3, <1>5 DEF OutermostInv

LEMMA RaiseStep == ASSUME OutermostInv, RaiseOverlapping PROVE OutermostInv'
<1>1. IInv'
  BY NextIInv DEF OutermostInv, Next
<1>2. /\ phase = "filtering" /\ phase' = "overlapping" /\ todo # <<>> /\ Overlap(Head(todo))
      /\ Prev.stop < Head(todo).stop /\ reported' = reported /\ reported \subseteq Repl
  BY DEF RaiseOverlapping, OutermostInv
<1>3. ~Nested
  <2>. SUFFICES ASSUME Nested PROVE FALSE
    OBVIOUS
  <2>1. Prev \in Repl /\ Head(todo) \in Repl /\ Prev.stop >= Head(todo).stop
    BY <1>2, FilterFacts, OverlapInner
  <2>. QED  BY <1>2, <2>1, ReplFields
<1>. QED  BY <1>1, <1>2, <1>3 DEF OutermostInv, Nested

\* What does not overlap prev is inside of nothing: what encloses it would come
\* before it, and either be kept or be inside of something that is.
LEMMA KeepStep == ASSUME OutermostInv, Keep PROVE OutermostInv'
<1>1. IInv'
  BY NextIInv DEF OutermostInv, Next
<1>. DEFINE h == Head(todo)
<1>2. /\ phase = "filtering" /\ phase' = "filtering" /\ todo # <<>> /\ ~Overlap(h)
      /\ todo' = Tail(todo) /\ kept' = Append(kept, h) /\ reported' = reported
  BY DEF Keep
<1>3. FilterInv /\ reported \subseteq Repl
  BY <1>2 DEF OutermostInv
<1>4. /\ kept \in Seq(Repl) /\ h \in Repl /\ h \in Elements(todo)
      /\ Elements(todo) = {h} \cup Elements(Tail(todo))
      /\ Elements(kept) \subseteq Repl /\ Elements(todo) \subseteq Repl
      /\ kept # <<>> => Prev \in Elements(kept)
      /\ \A k \in Elements(kept) : k = Prev \/ k.stop <= Prev.start
      /\ Nested => /\ Sorted(Tail(todo))
                   /\ \A t \in Elements(Tail(todo)) : Before(h, t)
  BY <1>2, FilterFacts
<1>. HIDE DEF h
<1>5. Elements(kept') = Elements(kept) \cup {h}
  <2>1. /\ Len(kept) \in Nat /\ DOMAIN kept = 1..Len(kept)
        /\ DOMAIN kept' = 1..(Len(kept) + 1) /\ kept'[Len(kept) + 1] = h
        /\ \A i \in 1..Len(kept) : kept'[i] = kept[i]
    BY <1>2, <1>4
  <2>2. \A i \in DOMAIN kept' : i \in 1..Len(kept) \/ i = Len(kept) + 1
    BY <2>1
  <2>3. \A i \in DOMAIN kept : i \in DOMAIN kept'
    BY <2>1
  <2>4. Len(kept) + 1 \in DOMAIN kept'
    BY <2>1
  <2>5. \A e : (\E i \in DOMAIN kept' : e = kept'[i]) <=> e = h \/ \E i \in DOMAIN kept : e = kept[i]
    BY <2>1, <2>2, <2>3, <2>4, Zenon
  <2>. QED  BY <2>5, Zenon DEF Elements
<1>6. \A k \in Elements(kept) : ~Inner(h, k)
  <2>. SUFFICES ASSUME NEW k \in Elements(kept), Inner(h, k) PROVE FALSE
    OBVIOUS
  <2>1. kept # <<>> /\ Prev \in Repl /\ k \in Repl
    BY <1>4 DEF Elements
  <2>2. Prev.stop <= h.start
    BY <1>2, <1>4, <2>1, ReplFields DEF Overlap
  <2>. QED  BY <1>4, <2>1, <2>2, ReplFields DEF Inner, Encloses
<1>7. ASSUME Nested PROVE h \in Outermost
  <2>. SUFFICES ASSUME NEW b \in reported, Inner(h, b) PROVE FALSE
    BY <1>3, <1>4, <1>7 DEF Outermost, FilterInv
  <2>1. b \in Repl
    BY <1>3
  <2>2. CASE b \in Elements(kept)
    BY <1>6, <2>2
  <2>3. CASE b \in Elements(Tail(todo))
    <3>1. Before(h, b)
      BY <1>4, <1>7, <2>3
    <3>. QED  BY <1>4, <2>1, <3>1, ReplFields DEF Before, Inner, Encloses
  <2>4. CASE b = h
    BY <1>4, <2>4, ReplFields DEF Inner
  <2>5. CASE \E k \in Elements(kept) : Inner(b, k)
    BY <1>4, <1>6, <2>1, <2>5, InnerTransitive
  <2>. QED  BY <1>3, <1>4, <1>7, <2>2, <2>3, <2>4, <2>5 DEF FilterInv
<1>8. ASSUME Nested
      PROVE  /\ Sorted(todo')
             /\ \A k \in Elements(kept'), t \in Elements(todo') : Before(k, t)
             /\ Elements(kept') \subseteq Outermost /\ Elements(todo') \subseteq reported
             /\ \A a \in reported : \/ a \in Elements(kept') \cup Elements(todo')
                                    \/ \E k \in Elements(kept') : Inner(a, k)
  BY <1>2, <1>3, <1>4, <1>5, <1>7, <1>8 DEF FilterInv
<1>9. FilterInv'
  BY <1>2, <1>8 DEF FilterInv, Nested, Outermost
<1>. QED  BY <1>1, <1>2, <1>3, <1>9 DEF OutermostInv

LEMMA EndFilterStep == ASSUME OutermostInv, EndFilter PROVE OutermostInv'
<1>1. IInv'
  BY NextIInv DEF OutermostInv, Next
<1>2. /\ phase' = "emitting" /\ todo = <<>> /\ UNCHANGED <<kept, reported>> /\ FilterInv
      /\ reported \subseteq Repl
  BY DEF EndFilter, OutermostInv
<1>3. Elements(todo) = {}
  BY <1>2 DEF Elements
<1>4. Nested => Elements(kept) = Outermost
  <2>. SUFFICES ASSUME Nested PROVE Outermost \subseteq Elements(kept)
    BY <1>2 DEF FilterInv
  <2>1. Elements(kept) \subseteq reported
    BY <1>2 DEF FilterInv, Outermost
  <2>. QED  BY <1>2, <1>3, <2>1 DEF FilterInv, Outermost
<1>. QED  BY <1>1, <1>2, <1>4 DEF OutermostInv, Nested, Outermost

LEMMA NextOutermost == OutermostInv /\ [Next]_vars => OutermostInv'
<1>. SUFFICES ASSUME OutermostInv, [Next]_vars PROVE OutermostInv'
  OBVIOUS
<1>1. IInv'
  BY NextIInv DEF OutermostInv
<1>2. CASE OtherFile
  BY <1>1, <1>2 DEF OtherFile, OutermostInv
<1>3. CASE CopyAndReplace \/ ReplaceNext \/ EndConsecutive
  <2>1. phase = "emitting" /\ phase' = "emitting" /\ UNCHANGED <<kept, reported>>
    BY <1>3 DEF CopyAndReplace, ReplaceNext, EndConsecutive
  <2>. QED  BY <1>1, <2>1 DEF OutermostInv, Nested, Outermost
<1>4. CASE CopyRest
  <2>1. phase = "emitting" /\ phase' = "done" /\ UNCHANGED <<kept, reported>>
    BY <1>4 DEF CopyRest
  <2>. QED  BY <1>1, <2>1 DEF OutermostInv, Nested, Outermost
<1>5. CASE UNCHANGED vars
  BY <1>1, <1>5 DEF vars, OutermostInv, SortInv, FilterInv, Nested, Outermost
<1>. QED  BY <1>2, <1>3, <1>4, <1>5, ReportStep, CheckAndSortStep, InsertStep, EndSortStep,
             SkipStep, RaiseStep, KeepStep, EndFilterStep DEF Next

\* Replacements that are separate, or were reported before one that encloses them,
\* are reconciled without an error, and the outermost ones are kept: the sort may
\* compare with what is no order (repl_compare), check_and_sort still does what it
\* should.
THEOREM OutermostAreKept == Spec => []OutermostKept
<1>1. OutermostInv => OutermostKept
  BY DEF OutermostInv, OutermostKept, Nested, Outermost, Elements
<1>. QED  BY InitOutermost, NextOutermost, <1>1, PTL DEF Spec

--------------------------------------------------------------------------------
(***************************************************************************)
(* Types, and where the source has been copied to: the position that the   *)
(* loops of reconcile keep is that of an offset, its line and column are   *)
(* those of the source.                                                    *)
(***************************************************************************)

\* A set of natural numbers that is not empty has a least element.
LEMMA LeastExists ==
  ASSUME NEW S \in SUBSET Nat, S # {}
  PROVE  \E x \in S : \A y \in S : x <= y
<1>1. PICK x \in S : \A y \in S : ~(<<y, x>> \in OpToRel(<, Nat))
  BY NatLessThanWellFounded, WFMin, Zenon
<1>2. \A y \in S : x <= y
  <2>. TAKE y \in S
  <2>1. <<y, x>> \in OpToRel(<, Nat) <=> y < x
    BY DEF OpToRel
  <2>2. ~(y < x)
    BY <1>1, <2>1, Zenon
  <2>. QED  BY <2>2
<1>. QED  BY <1>2

LEMMA MinTyped ==
  ASSUME NEW S \in SUBSET Nat, S # {}
  PROVE  Min(S) \in S /\ \A y \in S : Min(S) <= y
BY LeastExists DEF Min

\* One that is bounded has a greatest element.
LEMMA MaxTyped ==
  ASSUME NEW n \in Nat, NEW S \in SUBSET 0..n, S # {}
  PROVE  Max(S) \in S /\ \A y \in S : Max(S) >= y
<1>. DEFINE T == {x \in 0..n : n - x \in S}
<1>1. T \in SUBSET Nat /\ T # {}
  <2>1. PICK y \in S : TRUE
    OBVIOUS
  <2>2. y \in 0..n /\ n - y \in 0..n /\ n - (n - y) = y
    BY <2>1
  <2>3. n - y \in T
    BY <2>1, <2>2
  <2>4. T \in SUBSET Nat
    OBVIOUS
  <2>. HIDE DEF T
  <2>. QED  BY <2>3, <2>4
<1>2. PICK t \in T : \A y \in T : t <= y
  <2>. HIDE DEF T
  <2>. QED  BY <1>1, LeastExists
<1>3. t \in 0..n /\ n - t \in S
  BY <1>2
<1>4. \A y \in S : n - t >= y
  <2>. TAKE y \in S
  <2>1. y \in 0..n /\ n - y \in 0..n /\ n - (n - y) = y
    OBVIOUS
  <2>2. t <= n - y
    BY <1>2, <2>1
  <2>. QED  BY <1>3, <2>1, <2>2
<1>. QED  BY <1>3, <1>4 DEF Max

LEMMA LengthTyped == Length \in Nat /\ DOMAIN Contents = 1..Length
BY ContentsAssumption DEF Length

LEMMA NewlinesFinite ==
  ASSUME NEW c \in 0..Length
  PROVE  /\ IsFiniteSet(NewlinesBefore(c)) /\ NewlinesBefore(c) \subseteq 1..c
         /\ Cardinality(NewlinesBefore(c)) \in 0..c
<1>1. c \in Nat /\ NewlinesBefore(c) \in SUBSET (1..c)
  BY LengthTyped DEF NewlinesBefore
<1>2. IsFiniteSet(1..c) /\ Cardinality(1..c) = c
  <2>1. IsFiniteSet(1..c) /\ Cardinality(1..c) = IF 1 > c THEN 0 ELSE c - 1 + 1
    BY <1>1, FS_Interval
  <2>. QED  BY <1>1, <2>1
<1>3. IsFiniteSet(NewlinesBefore(c)) /\ Cardinality(NewlinesBefore(c)) <= c
  BY <1>1, <1>2, FS_Subset
<1>4. Cardinality(NewlinesBefore(c)) \in Nat
  BY <1>3, FS_CardinalityType
<1>. QED  BY <1>1, <1>3, <1>4

LEMMA AtTyped ==
  ASSUME NEW c \in 0..Length
  PROVE  /\ At(c) \in Position /\ At(c).cnum = c /\ At(c).bol <= c
         /\ At(c).lnum = 1 + Cardinality(NewlinesBefore(c))
         /\ At(c).bol = Max({0} \cup NewlinesBefore(c))
<1>1. c \in Nat /\ Length \in Nat
  BY LengthTyped
<1>2. /\ NewlinesBefore(c) \subseteq 1..c /\ Cardinality(NewlinesBefore(c)) \in 0..c
  BY NewlinesFinite
<1>. DEFINE S == {0} \cup NewlinesBefore(c)
<1>3. S \in SUBSET (0..c) /\ S # {}
  BY <1>1, <1>2
<1>. HIDE DEF S
<1>4. Max(S) \in 0..c
  BY <1>1, <1>3, MaxTyped
<1>. QED  BY <1>1, <1>2, <1>4 DEF At, Position, S

\* The blanks that are skipped, and the newline after them, are counted right.
LEMMA SkippedAt ==
  ASSUME NEW c \in 0..Length
  PROVE  \E d \in c..Length : SkipBlankEol(At(c)) = At(d)
<1>. DEFINE p == At(c)
           Ends == {i \in p.cnum..Length : i = Length \/ Contents[i + 1] # "blank"}
           e == Min(Ends)
<1>0. p.cnum = c
  BY AtTyped
<1>1. p.cnum = c /\ Length \in Nat /\ c \in Nat
  BY <1>0, LengthTyped
<1>2. e \in Ends /\ \A i \in Ends : e <= i
  <2>1. Ends \in SUBSET Nat /\ Length \in Ends
    BY <1>1
  <2>. HIDE DEF Ends
  <2>. QED  BY <2>1, MinTyped
<1>3. SkipBlankEol(p) = IF e = Length THEN [p EXCEPT !.cnum = e]
                        ELSE IF Contents[e + 1] = "newline"
                        THEN [cnum |-> e + 1, lnum |-> p.lnum + 1, bol |-> e + 1]
                        ELSE p
  BY DEF SkipBlankEol
<1>4. e \in c..Length /\ e \in Nat
  BY <1>1, <1>2
<1>5. NewlinesBefore(e) = NewlinesBefore(c)
  <2>1. \A i \in c + 1..e : Contents[i] # "newline"
    <3>. SUFFICES ASSUME NEW i \in c + 1..e PROVE Contents[i] # "newline"
      OBVIOUS
    <3>1. i - 1 \in c..Length /\ i - 1 # Length /\ ~(e <= i - 1) /\ i - 1 + 1 = i
      BY <1>1, <1>4
    <3>2. i - 1 \notin Ends
      BY <1>2, <3>1
    <3>. QED  BY <1>1, <3>1, <3>2
  <2>. HIDE DEF e, Ends
  <2>2. \A i \in 1..e : i \in 1..c \/ i \in c + 1..e
    BY <1>1, <1>4
  <2>3. \A i \in 1..c : i \in 1..e
    BY <1>1, <1>4
  <2>. QED  BY <2>1, <2>2, <2>3 DEF NewlinesBefore
<1>. HIDE DEF e, Ends
<1>6. CASE e = Length
  <2>1. [p EXCEPT !.cnum = e] = At(e)
    BY <1>5 DEF At
  <2>2. SkipBlankEol(p) = At(e)
    BY <1>3, <1>6, <2>1
  <2>. QED  BY <1>4, <2>2
<1>7. CASE e # Length /\ Contents[e + 1] = "newline"
  <2>1. e + 1 \in c..Length /\ e + 1 \in 0..Length /\ e \in 0..Length
    BY <1>1, <1>4, <1>7
  <2>2. NewlinesBefore(e + 1) = NewlinesBefore(e) \cup {e + 1} /\ e + 1 \notin NewlinesBefore(e)
    <3>1. \A i : i \in 1..(e + 1) <=> i \in 1..e \/ i = e + 1
      BY <1>4
    <3>2. e + 1 \notin 1..e
      BY <1>4
    <3>. QED  BY <1>7, <3>1, <3>2 DEF NewlinesBefore
  <2>3. Cardinality(NewlinesBefore(e + 1)) = Cardinality(NewlinesBefore(e)) + 1
    BY <2>1, <2>2, NewlinesFinite, FS_AddElement
  <2>4. Max({0} \cup NewlinesBefore(e + 1)) = e + 1
    <3>. DEFINE S == {0} \cup NewlinesBefore(e + 1)
    <3>1. S \in SUBSET (0..(e + 1)) /\ e + 1 \in S /\ e + 1 \in Nat
      BY <1>4, <2>1, <2>2, NewlinesFinite
    <3>. HIDE DEF S
    <3>2. Max(S) \in 0..(e + 1) /\ Max(S) >= e + 1
      BY <3>1, MaxTyped
    <3>3. Max(S) = e + 1
      BY <3>1, <3>2
    <3>. QED  BY <3>3 DEF S
  <2>5. p.lnum + 1 = 1 + Cardinality(NewlinesBefore(e + 1))
    <3>1. Cardinality(NewlinesBefore(e)) \in Nat /\ p.lnum = 1 + Cardinality(NewlinesBefore(c))
      <4>1. Cardinality(NewlinesBefore(e)) \in 0..e
        BY <2>1, NewlinesFinite
      <4>2. p.lnum = 1 + Cardinality(NewlinesBefore(c))
        BY AtTyped
      <4>. QED  BY <1>4, <4>1, <4>2
    <3>. QED  BY <1>5, <2>3, <3>1
  <2>6. SkipBlankEol(p) = At(e + 1)
    BY <1>3, <1>7, <2>4, <2>5 DEF At
  <2>. QED  BY <2>1, <2>6
<1>8. CASE e # Length /\ Contents[e + 1] # "newline"
  <2>1. SkipBlankEol(p) = At(c) /\ c \in c..Length
    BY <1>1, <1>3, <1>4, <1>8
  <2>. QED  BY <2>1
<1>. QED  BY <1>6, <1>7, <1>8

\* After the blanks, the position is still that of an offset of the source.
PositionInv ==
  /\ OutermostInv /\ TypeOK
  /\ pos = At(pos.cnum)

LEMMA AfterTyped ==
  ASSUME pos \in Position, pos = At(pos.cnum)
  PROVE  /\ \E d \in pos.cnum..Length : After(pos) = At(d) /\ After(pos).cnum = d
         /\ After(pos) \in Position /\ After(pos) = At(After(pos).cnum)
         /\ After(pos).cnum - After(pos).bol \in Nat /\ After(pos).lnum \in Nat
<1>1. Length \in Nat /\ pos.cnum \in 0..Length
  BY LengthTyped DEF Position
<1>2. PICK d \in pos.cnum..Length : After(pos) = At(d)
  <2>1. CASE lastIsText
    BY <1>1, <2>1 DEF After
  <2>2. CASE ~lastIsText
    <3>1. After(pos) = SkipBlankEol(At(pos.cnum))
      BY <2>2 DEF After
    <3>. QED  BY <1>1, <3>1, SkippedAt
  <2>. QED  BY <2>1, <2>2
<1>3. d \in 0..Length
  BY <1>1
<1>4. At(d) \in Position /\ At(d).cnum = d /\ At(d).bol <= d
  BY <1>3, AtTyped
<1>5. At(d).bol \in Nat /\ At(d).lnum \in Nat /\ d - At(d).bol \in Nat
  BY <1>1, <1>3, <1>4 DEF Position
<1>. QED  BY <1>2, <1>4, <1>5

LEMMA TokensTyped ==
  /\ \A n, m \in Nat, kind \in Kinds : <<<<kind, n, m>>>> \in Seq(Token)
  /\ <<>> \in Seq(Token)
<1>1. \A n, m \in Nat, kind \in Kinds : <<kind, n, m>> \in Token
  BY DEF Token
<1>. QED  BY <1>1

LEMMA CopyTyped ==
  ASSUME pos \in Position, pos = At(pos.cnum), line \in Nat, NEW upTo \in 0..Length,
         NEW isText
  PROVE  CopyInput(upTo, isText).out \in Seq(Token) /\ CopyInput(upTo, isText).line \in Nat
<1>. DEFINE p == After(pos)
            copied == [i \in 1..(upTo - p.cnum) |-> <<"source", p.cnum + i, 0>>]
            added == ~isText /\ Contents[upTo] # "newline"
            newlines == Cardinality(NewlinesBefore(upTo)) - Cardinality(NewlinesBefore(p.cnum))
            directive == IF target = "line_directives"
                         THEN <<<<"to_source", p.lnum, p.cnum - p.bol>>>> ELSE <<>>
            newline == IF added THEN <<<<"newline", 0, 0>>>> ELSE <<>>
            one == IF added THEN 1 ELSE 0
<1>1. CopyInput(upTo, isText) =
        IF p.cnum >= upTo THEN [out |-> <<>>, line |-> line]
        ELSE [out |-> directive \o copied \o newline, line |-> line + 1 + newlines + one]
  BY DEF CopyInput
<1>2. p.cnum \in Nat /\ p.cnum \in 0..Length /\ p.lnum \in Nat /\ p.cnum - p.bol \in Nat /\ upTo \in Nat
  BY AfterTyped, LengthTyped DEF Position
<1>3. directive \in Seq(Token) /\ newline \in Seq(Token) /\ one \in Nat
  <2>1. /\ <<<<"to_source", p.lnum, p.cnum - p.bol>>>> \in Seq(Token)
        /\ <<<<"newline", 0, 0>>>> \in Seq(Token)
    BY <1>2, TokensTyped DEF Kinds
  <2>2. <<>> \in Seq(Token)
    BY TokensTyped
  <2>3. directive \in Seq(Token)
    BY <2>1, <2>2
  <2>4. newline \in Seq(Token)
    BY <2>1, <2>2
  <2>. QED  BY <2>3, <2>4
<1>4. CASE p.cnum >= upTo
  <2>1. CopyInput(upTo, isText) = [out |-> <<>>, line |-> line]
    BY <1>1, <1>4
  <2>. QED  BY <2>1, TokensTyped
<1>5. CASE ~(p.cnum >= upTo)
  <2>1. copied \in Seq(Token)
    <3>1. \A i \in 1..(upTo - p.cnum) : <<"source", p.cnum + i, 0>> \in Token
      BY <1>2 DEF Token, Kinds
    <3>2. copied \in [1..(upTo - p.cnum) -> Token] /\ upTo - p.cnum \in Nat
      BY <1>2, <1>5, <3>1
    <3>. QED  BY <3>2, SeqDef
  <2>2. newlines \in Nat
    <3>1. NewlinesBefore(p.cnum) \subseteq NewlinesBefore(upTo)
      BY <1>2, <1>5 DEF NewlinesBefore
    <3>2. IsFiniteSet(NewlinesBefore(upTo)) /\ Cardinality(NewlinesBefore(upTo)) \in Nat
          /\ Cardinality(NewlinesBefore(p.cnum)) \in Nat
      BY <1>2, NewlinesFinite
    <3>3. Cardinality(NewlinesBefore(p.cnum)) <= Cardinality(NewlinesBefore(upTo))
      BY <3>1, <3>2, FS_Subset
    <3>. QED  BY <3>2, <3>3
  <2>. HIDE DEF p, copied, newlines, directive, newline, one
  <2>3. CopyInput(upTo, isText) =
          [out |-> directive \o copied \o newline, line |-> line + 1 + newlines + one]
    BY <1>1, <1>5
  <2>4. directive \o copied \in Seq(Token)
    BY <1>3, <2>1, ConcatProperties
  <2>5. directive \o copied \o newline \in Seq(Token)
    BY <1>3, <2>4, ConcatProperties
  <2>. QED  BY <1>3, <2>2, <2>3, <2>5
<1>. QED  BY <1>4, <1>5

LEMMA InitPosition == Init => PositionInv
<1>. SUFFICES ASSUME Init PROVE PositionInv
  OBVIOUS
<1>1. At(0) \in Position /\ At(0).cnum = 0
  <2>1. 0 \in 0..Length
    BY LengthTyped
  <2>. QED  BY <2>1, AtTyped
<1>2. TypeOK
  <2>1. <<>> \in Seq(Repl) /\ <<>> \in Seq(Token)
    OBVIOUS
  <2>. QED  BY <1>1, <2>1 DEF Init, TypeOK
<1>. QED  BY <1>1, <1>2, InitOutermost DEF Init, PositionInv

LEMMA NextPosition == PositionInv /\ [Next]_vars => PositionInv'
<1>. SUFFICES ASSUME PositionInv, [Next]_vars PROVE PositionInv'
  OBVIOUS
<1>1. OutermostInv' /\ todo' \in Seq(Repl) /\ kept' \in Seq(Repl) /\ reported' \subseteq Repl
  BY NextOutermost DEF PositionInv, OutermostInv, IInv, SequencesOK
<1>2. /\ TypeOK /\ pos = At(pos.cnum) /\ pos \in Position /\ line \in Nat /\ out \in Seq(Token)
      /\ target \in Target
  BY DEF PositionInv, TypeOK
<1>3. ASSUME UNCHANGED <<target, loop, pos, lastIsText, line, out>>,
             phase' \in {"collecting", "sorting", "filtering", "emitting", "done",
                         "other_file", "overlapping"}
      PROVE  PositionInv'
  BY <1>1, <1>2, <1>3 DEF PositionInv, TypeOK
<1>4. CASE \/ \E r \in Repl : Report(r)
           \/ OtherFile \/ CheckAndSort \/ Insert \/ EndSort \/ Keep \/ Skip \/ RaiseOverlapping
           \/ UNCHANGED vars
  BY <1>2, <1>3, <1>4 DEF Report, OtherFile, CheckAndSort, Insert, EndSort, Keep, Skip,
     RaiseOverlapping, vars, TypeOK
<1>5. CASE EndFilter
  <2>1. <<<<"begin", 0, 0>>>> \in Seq(Token) /\ <<>> \in Seq(Token)
    BY TokensTyped DEF Kinds
  <2>2. out' \in Seq(Token) /\ loop' \in {"copying", "consecutive"}
    BY <1>2, <1>5, <2>1 DEF EndFilter, TypeOK
  <2>. QED  BY <1>1, <1>2, <1>5, <2>2 DEF EndFilter, PositionInv, TypeOK
<1>. DEFINE r == Head(todo)
<1>6. ASSUME todo # <<>>
      PROVE  /\ r.start \in 0..Length /\ r.stop \in 0..Length /\ r.text \in BOOLEAN
             /\ r.newlines \in Nat /\ r.id \in Nat /\ Generated(r) \in Seq(Token)
             /\ At(r.stop) \in Position /\ At(r.stop) = At(At(r.stop).cnum)
  <2>1. r \in Repl
    BY <1>2, <1>6 DEF TypeOK
  <2>. HIDE DEF r
  <2>2. /\ r.start \in 0..Length /\ r.stop \in 0..Length /\ r.text \in BOOLEAN
        /\ r.newlines \in Nat
    BY <2>1 DEF Repl
  <2>3. r.id \in Nat
    BY <2>1, ReplFields
  <2>4. Generated(r) \in Seq(Token)
    BY <2>2, <2>3, TokensTyped DEF Generated, Kinds
  <2>. QED  BY <2>2, <2>3, <2>4, AtTyped
<1>7. CASE CopyAndReplace
  <2>. DEFINE copy == CopyInput(r.start, r.text)
              intro == CASE target = "line_directives" -> <<<<"to_output", copy.line + 1, 0>>>>
                         [] target = "delimited" -> <<<<"begin", 0, 0>>>>
                         [] target = "corrected" -> <<>>
  <2>1. /\ todo # <<>> /\ phase' = phase /\ target' = target /\ loop' = "consecutive"
        /\ out' = out \o copy.out \o intro \o Generated(r)
        /\ line' = copy.line + Len(intro) + r.newlines
        /\ pos' = At(r.stop) /\ lastIsText' = r.text
    BY <1>7 DEF CopyAndReplace
  <2>2. copy.out \in Seq(Token) /\ copy.line \in Nat
    BY <1>2, <1>6, <2>1, CopyTyped
  <2>. HIDE DEF copy, r
  <2>3. intro \in Seq(Token)
    <3>1. /\ <<<<"to_output", copy.line + 1, 0>>>> \in Seq(Token)
          /\ <<<<"begin", 0, 0>>>> \in Seq(Token) /\ <<>> \in Seq(Token)
      <4>1. copy.line + 1 \in Nat /\ 0 \in Nat /\ "to_output" \in Kinds /\ "begin" \in Kinds
        BY <2>2 DEF Kinds
      <4>. QED  BY <4>1, TokensTyped
    <3>2. CASE target = "line_directives"
      BY <3>1, <3>2
    <3>3. CASE target = "delimited"
      BY <3>1, <3>3
    <3>4. CASE target = "corrected"
      BY <3>1, <3>4
    <3>. QED  BY <1>2, <3>2, <3>3, <3>4 DEF Target
  <2>. HIDE DEF intro
  <2>4. out \o copy.out \in Seq(Token)
    BY <1>2, <2>2, ConcatProperties
  <2>5. out \o copy.out \o intro \in Seq(Token)
    BY <2>3, <2>4, ConcatProperties
  <2>6. out' \in Seq(Token)
    BY <1>6, <2>1, <2>5, ConcatProperties
  <2>7. line' \in Nat
    BY <1>6, <2>1, <2>2, <2>3
  <2>. QED  BY <1>1, <1>2, <1>6, <2>1, <2>6, <2>7 DEF PositionInv, TypeOK
<1>8. CASE ReplaceNext
  <2>1. /\ todo # <<>> /\ phase' = phase /\ target' = target /\ loop' = loop
        /\ out' = out \o Generated(r) /\ line' = line + r.newlines
        /\ pos' = At(r.stop) /\ lastIsText' = r.text
    BY <1>8 DEF ReplaceNext
  <2>. HIDE DEF r
  <2>2. out' \in Seq(Token) /\ line' \in Nat
    BY <1>2, <1>6, <2>1, ConcatProperties
  <2>. QED  BY <1>1, <1>2, <1>6, <2>1, <2>2 DEF PositionInv, TypeOK
<1>9. CASE EndConsecutive
  <2>1. <<"end", 0, 0>> \in Token
    BY DEF Token, Kinds
  <2>2. out' \in Seq(Token)
    BY <1>2, <1>9, <2>1 DEF EndConsecutive
  <2>3. pos' \in Position /\ pos' = At(pos'.cnum)
    BY <1>2, <1>9, AfterTyped DEF EndConsecutive
  <2>. QED  BY <1>1, <1>2, <1>9, <2>2, <2>3 DEF EndConsecutive, PositionInv, TypeOK
<1>10. CASE CopyRest
  <2>1. CopyInput(Length, FALSE).out \in Seq(Token)
    <3>1. Length \in 0..Length
      BY LengthTyped
    <3>. QED  BY <1>2, <3>1, CopyTyped
  <2>2. out' \in Seq(Token)
    BY <1>2, <1>10, <2>1, ConcatProperties DEF CopyRest
  <2>. QED  BY <1>1, <1>2, <1>10, <2>2 DEF CopyRest, PositionInv, TypeOK
<1>. QED  BY <1>4, <1>5, <1>7, <1>8, <1>9, <1>10 DEF Next

\* The state keeps its types, the position of the source among them: its line and
\* the offset of its beginning never leave the source.
THEOREM ReconcileTyped == Spec => []TypeOK
<1>1. PositionInv => TypeOK
  BY DEF PositionInv
<1>. QED  BY InitPosition, NextPosition, <1>1, PTL DEF Spec

\* The position that skip_blank_eol and copy_input keep is that of its offset in
\* the source, line and column included (reconcile.ml).
THEOREM PositionTrue == Spec => [](pos = At(pos.cnum))
<1>1. PositionInv => pos = At(pos.cnum)
  BY DEF PositionInv
<1>. QED  BY InitPosition, NextPosition, <1>1, PTL DEF Spec

--------------------------------------------------------------------------------
(***************************************************************************)
(* Line directives tell the truth: the count of lines that the loops pass  *)
(* on is that of the output, whatever is copied and generated.             *)
(***************************************************************************)

\* Counting up to a place, and from there.
CountUpTo(P, n) == Cardinality({j \in 1..n : j \in P})
CountFrom(P, a, n) == Cardinality({j \in 1..n : a + j \in P})

LEMMA CountSplit ==
  ASSUME NEW P, NEW a \in Nat, NEW i \in Nat
  PROVE  /\ CountUpTo(P, a) \in Nat /\ CountFrom(P, a, i) \in Nat
         /\ CountUpTo(P, a + i) = CountUpTo(P, a) + CountFrom(P, a, i)
<1>. DEFINE A == {j \in 1..a : j \in P}
            B == {j \in 1..i : a + j \in P}
            C == {j \in a + 1..a + i : j \in P}
            f == [j \in B |-> a + j]
<1>1. IsFiniteSet(A) /\ IsFiniteSet(B) /\ IsFiniteSet(C)
  <2>1. IsFiniteSet(1..a) /\ IsFiniteSet(1..i) /\ IsFiniteSet(a + 1..a + i)
    BY FS_Interval
  <2>2. A \in SUBSET (1..a) /\ B \in SUBSET (1..i) /\ C \in SUBSET (a + 1..a + i)
    OBVIOUS
  <2>. HIDE DEF A, B, C
  <2>. QED  BY <2>1, <2>2, FS_Subset
<1>2. f \in Bijection(B, C)
  <2>1. f \in [B -> C]
    <3>1. \A j \in B : a + j \in C
      OBVIOUS
    <3>. QED  BY <3>1
  <2>2. \A x, y \in B : f[x] = f[y] => x = y
    OBVIOUS
  <2>3. \A y \in C : \E x \in B : f[x] = y
    <3>. TAKE y \in C
    <3>1. y - a \in B /\ a + (y - a) = y
      OBVIOUS
    <3>. QED  BY <3>1
  <2>. HIDE DEF f, B, C
  <2>. QED  BY <2>1, <2>2, <2>3 DEF Bijection, Injection, Surjection, IsInjective
<1>3. Cardinality(C) = Cardinality(B)
  <2>. HIDE DEF f, B, C
  <2>. QED  BY <1>1, <1>2, FS_Bijection DEF ExistsBijection
<1>4. {j \in 1..(a + i) : j \in P} = A \cup C /\ A \cap C = {}
  <2>1. \A j : j \in 1..(a + i) <=> j \in 1..a \/ j \in a + 1..a + i
    OBVIOUS
  <2>2. \A j : ~(j \in 1..a /\ j \in a + 1..a + i)
    OBVIOUS
  <2>. QED  BY <2>1, <2>2
<1>. DEFINE D == {j \in 1..(a + i) : j \in P}
<1>5. Cardinality(D) = Cardinality(A) + Cardinality(C)
  <2>. HIDE DEF A, C, D
  <2>1. Cardinality(A \cup C) = Cardinality(A) + Cardinality(C) - Cardinality(A \cap C)
    BY <1>1, FS_Union
  <2>2. Cardinality(A \cap C) = 0 /\ Cardinality(A) \in Nat /\ Cardinality(C) \in Nat
    BY <1>1, <1>4, FS_EmptySet, FS_CardinalityType
  <2>3. D = A \cup C
    BY <1>4 DEF D
  <2>. QED  BY <2>1, <2>2, <2>3
<1>6. Cardinality(A) \in Nat /\ Cardinality(B) \in Nat
  BY <1>1, FS_CardinalityType
<1>7. /\ CountUpTo(P, a) = Cardinality(A) /\ CountFrom(P, a, i) = Cardinality(B)
      /\ CountUpTo(P, a + i) = Cardinality(D)
  BY DEF CountUpTo, CountFrom
<1>. HIDE DEF A, B, C, D
<1>. QED  BY <1>3, <1>5, <1>6, <1>7

\* The lines of a part of the output, up to one of its tokens.
GeneratedLine(t) == t[1] = "generated" /\ t[3] = 1
LinesIn(s, i) == Cardinality({j \in 1..i : EndsLine(s[j])})
                 + Cardinality({j \in 1..i : GeneratedLine(s[j])})

LEMMA LinesTyped ==
  ASSUME NEW s, NEW i \in Nat PROVE LinesIn(s, i) \in Nat
<1>1. IsFiniteSet(1..i)
  BY FS_Interval
<1>. DEFINE A == {j \in 1..i : EndsLine(s[j])}
            B == {j \in 1..i : GeneratedLine(s[j])}
<1>2. A \in SUBSET (1..i) /\ B \in SUBSET (1..i)
  OBVIOUS
<1>. HIDE DEF A, B
<1>3. Cardinality(A) \in Nat /\ Cardinality(B) \in Nat
  BY <1>1, <1>2, FS_Subset, FS_CardinalityType
<1>. QED  BY <1>3 DEF LinesIn, A, B

LEMMA LinesJoined ==
  ASSUME NEW s \in Seq(Token), NEW t \in Seq(Token)
  PROVE  /\ \A i \in 0..Len(s) : LinesIn(s \o t, i) = LinesIn(s, i)
         /\ \A i \in 0..Len(t) : LinesIn(s \o t, Len(s) + i) = LinesIn(s, Len(s)) + LinesIn(t, i)
<1>. DEFINE n == Len(s)
            u == s \o t
<1>1. n \in Nat /\ Len(t) \in Nat
      /\ \A j \in 1..(n + Len(t)) : u[j] = IF j <= n THEN s[j] ELSE t[j - n]
  BY ConcatProperties
<1>. HIDE DEF u, n
<1>2. ASSUME NEW i \in 0..n PROVE LinesIn(u, i) = LinesIn(s, i)
  <2>1. \A j \in 1..i : u[j] = s[j]
    <3>. TAKE j \in 1..i
    <3>1. j \in 1..(n + Len(t)) /\ j <= n
      BY <1>1
    <3>. QED  BY <1>1, <3>1
  <2>2. {j \in 1..i : EndsLine(u[j])} = {j \in 1..i : EndsLine(s[j])}
    BY <2>1
  <2>3. {j \in 1..i : GeneratedLine(u[j])} = {j \in 1..i : GeneratedLine(s[j])}
    BY <2>1
  <2>. QED  BY <2>2, <2>3 DEF LinesIn
<1>3. ASSUME NEW i \in 0..Len(t) PROVE LinesIn(u, n + i) = LinesIn(s, n) + LinesIn(t, i)
  <2>. DEFINE P == {j \in 1..(n + i) : EndsLine(u[j])}
              Q == {j \in 1..(n + i) : GeneratedLine(u[j])}
  <2>1. \A j \in 1..i : n + j \in 1..(n + i) /\ u[n + j] = t[j]
    <3>. TAKE j \in 1..i
    <3>1. n + j \in 1..(n + i) /\ n + j \in 1..(n + Len(t)) /\ ~(n + j <= n) /\ n + j - n = j
      BY <1>1
    <3>. DEFINE k == n + j
    <3>. HIDE DEF k
    <3>2. k \in 1..(n + Len(t)) /\ ~(k <= n) /\ k - n = j
      BY <1>1, <3>1 DEF k
    <3>3. u[k] = t[k - n]
      BY <1>1, <3>2
    <3>4. u[k] = t[j]
      BY <3>2, <3>3
    <3>. QED  BY <3>1, <3>4 DEF k
  <2>2. i \in Nat /\ \A j \in 1..n : j \in 1..(n + i)
    BY <1>1
  <2>3. /\ {j \in 1..(n + i) : j \in P} = {j \in 1..(n + i) : EndsLine(u[j])}
        /\ {j \in 1..n : j \in P} = {j \in 1..n : EndsLine(u[j])}
        /\ {j \in 1..i : n + j \in P} = {j \in 1..i : EndsLine(t[j])}
    <3>1. {j \in 1..i : n + j \in P} = {j \in 1..i : EndsLine(t[j])}
      BY <2>1
    <3>2. {j \in 1..n : j \in P} = {j \in 1..n : EndsLine(u[j])}
      BY <2>2
    <3>. QED  BY <3>1, <3>2
  <2>4. /\ {j \in 1..(n + i) : j \in Q} = {j \in 1..(n + i) : GeneratedLine(u[j])}
        /\ {j \in 1..n : j \in Q} = {j \in 1..n : GeneratedLine(u[j])}
        /\ {j \in 1..i : n + j \in Q} = {j \in 1..i : GeneratedLine(t[j])}
    <3>1. {j \in 1..i : n + j \in Q} = {j \in 1..i : GeneratedLine(t[j])}
      BY <2>1
    <3>2. {j \in 1..n : j \in Q} = {j \in 1..n : GeneratedLine(u[j])}
      BY <2>2
    <3>. QED  BY <3>1, <3>2
  <2>. HIDE DEF P, Q
  <2>5. /\ Cardinality({j \in 1..n : EndsLine(u[j])}) \in Nat
        /\ Cardinality({j \in 1..i : EndsLine(t[j])}) \in Nat
        /\ Cardinality({j \in 1..(n + i) : EndsLine(u[j])})
             = Cardinality({j \in 1..n : EndsLine(u[j])}) + Cardinality({j \in 1..i : EndsLine(t[j])})
    <3>1. n \in Nat /\ i \in Nat
      BY <1>1, <2>2
    <3>2. /\ CountUpTo(P, n) \in Nat /\ CountFrom(P, n, i) \in Nat
          /\ CountUpTo(P, n + i) = CountUpTo(P, n) + CountFrom(P, n, i)
      BY <3>1, CountSplit
    <3>. QED  BY <2>3, <3>2, Zenon DEF CountUpTo, CountFrom
  <2>6. /\ Cardinality({j \in 1..n : GeneratedLine(u[j])}) \in Nat
        /\ Cardinality({j \in 1..i : GeneratedLine(t[j])}) \in Nat
        /\ Cardinality({j \in 1..(n + i) : GeneratedLine(u[j])})
             = Cardinality({j \in 1..n : GeneratedLine(u[j])}) + Cardinality({j \in 1..i : GeneratedLine(t[j])})
    <3>1. n \in Nat /\ i \in Nat
      BY <1>1, <2>2
    <3>2. /\ CountUpTo(Q, n) \in Nat /\ CountFrom(Q, n, i) \in Nat
          /\ CountUpTo(Q, n + i) = CountUpTo(Q, n) + CountFrom(Q, n, i)
      BY <3>1, CountSplit
    <3>. QED  BY <2>4, <3>2, Zenon DEF CountUpTo, CountFrom
  <2>7. LinesIn(u, n + i) = LinesIn(u, n) + LinesIn(t, i)
    <3>. DEFINE ea == Cardinality({j \in 1..(n + i) : EndsLine(u[j])})
                eb == Cardinality({j \in 1..n : EndsLine(u[j])})
                ec == Cardinality({j \in 1..i : EndsLine(t[j])})
                ga == Cardinality({j \in 1..(n + i) : GeneratedLine(u[j])})
                gb == Cardinality({j \in 1..n : GeneratedLine(u[j])})
                gc == Cardinality({j \in 1..i : GeneratedLine(t[j])})
    <3>1. LinesIn(u, n + i) = ea + ga /\ LinesIn(u, n) = eb + gb /\ LinesIn(t, i) = ec + gc
      BY DEF LinesIn
    <3>2. /\ eb \in Nat /\ ec \in Nat /\ gb \in Nat /\ gc \in Nat
          /\ ea = eb + ec /\ ga = gb + gc
      BY <2>5, <2>6
    <3>. HIDE DEF ea, eb, ec, ga, gb, gc
    <3>. QED  BY <3>1, <3>2
  <2>8. LinesIn(u, n) = LinesIn(s, n)
    BY <1>1, <1>2
  <2>. QED  BY <2>7, <2>8
<1>. QED  BY <1>2, <1>3 DEF u, n

\* The directives of a part of the output are true when it starts at a line, and
\* it has that many lines.
TrueFrom(s, first) ==
  \A i \in DOMAIN s :
    /\ s[i][1] = "to_output" => s[i][2] = first + LinesIn(s, i)
    /\ s[i][1] = "to_source" =>
         /\ i + 1 \in DOMAIN s /\ s[i + 1][1] = "source"
         /\ s[i][2] = At(s[i + 1][2] - 1).lnum
         /\ s[i][3] = At(s[i + 1][2] - 1).cnum - At(s[i + 1][2] - 1).bol
Part(s, first, lines) == s \in Seq(Token) /\ TrueFrom(s, first) /\ LinesIn(s, Len(s)) = lines
NoDirectives(s) == \A i \in DOMAIN s : s[i][1] \notin {"to_output", "to_source"}

\* Where the parts of a concatenation are.
LEMMA Joined ==
  ASSUME NEW s \in Seq(Token), NEW t \in Seq(Token)
  PROVE  /\ s \o t \in Seq(Token) /\ Len(s \o t) = Len(s) + Len(t)
         /\ DOMAIN (s \o t) = 1..(Len(s) + Len(t))
         /\ \A i \in 1..Len(s) : (s \o t)[i] = s[i]
         /\ \A i \in 1..Len(t) : (s \o t)[Len(s) + i] = t[i]
         /\ \A i \in 1..(Len(s) + Len(t)) :
              i \in 1..Len(s) \/ \E j \in 1..Len(t) : i = Len(s) + j
<1>. DEFINE u == s \o t
            n == Len(s)
            m == Len(t)
<1>1. n \in Nat /\ m \in Nat
  OBVIOUS
<1>2. /\ u \in Seq(Token) /\ Len(u) = n + m
      /\ \A i \in 1..(n + m) : u[i] = IF i <= n THEN s[i] ELSE t[i - n]
  BY ConcatProperties
<1>. HIDE DEF u, n, m
<1>3. \A i \in 1..n : u[i] = s[i]
  BY <1>1, <1>2
<1>4. \A i \in 1..m : u[n + i] = t[i]
  <2>. TAKE i \in 1..m
  <2>. DEFINE k == n + i
  <2>1. k \in 1..(n + m) /\ ~(k <= n) /\ k - n = i
    BY <1>1
  <2>. HIDE DEF k
  <2>2. u[k] = t[k - n]
    BY <1>2, <2>1
  <2>3. u[k] = t[i]
    BY <2>1, <2>2
  <2>. QED  BY <2>3 DEF k
<1>5. \A i \in 1..(n + m) : i \in 1..n \/ \E j \in 1..m : i = n + j
  <2>. TAKE i \in 1..(n + m)
  <2>1. CASE i <= n
    BY <1>1, <2>1
  <2>2. CASE i > n
    <3>1. i - n \in 1..m /\ i = n + (i - n)
      BY <1>1, <2>2
    <3>. QED  BY <3>1
  <2>. QED  BY <1>1, <2>1, <2>2
<1>6. DOMAIN u = 1..(n + m)
  BY <1>2
<1>. QED  BY <1>2, <1>3, <1>4, <1>5, <1>6 DEF u, n, m

LEMMA PartsJoined ==
  ASSUME NEW s, NEW t, NEW first \in Nat, NEW n \in Nat, NEW m \in Nat,
         Part(s, first, n), Part(t, first + n, m)
  PROVE  Part(s \o t, first, n + m)
<1>. DEFINE u == s \o t
<1>1. s \in Seq(Token) /\ t \in Seq(Token) /\ LinesIn(s, Len(s)) = n /\ LinesIn(t, Len(t)) = m
      /\ Len(s) \in Nat /\ Len(t) \in Nat /\ DOMAIN s = 1..Len(s) /\ DOMAIN t = 1..Len(t)
  BY DEF Part
<1>2. /\ u \in Seq(Token) /\ Len(u) = Len(s) + Len(t) /\ DOMAIN u = 1..(Len(s) + Len(t))
      /\ \A i \in 1..Len(s) : u[i] = s[i]
      /\ \A i \in 1..Len(t) : u[Len(s) + i] = t[i]
      /\ \A i \in 1..(Len(s) + Len(t)) : i \in 1..Len(s) \/ \E j \in 1..Len(t) : i = Len(s) + j
  BY <1>1, Joined
<1>3. /\ \A i \in 0..Len(s) : LinesIn(u, i) = LinesIn(s, i)
      /\ \A i \in 0..Len(t) : LinesIn(u, Len(s) + i) = n + LinesIn(t, i)
  BY <1>1, LinesJoined
<1>. HIDE DEF u
<1>4. LinesIn(u, Len(u)) = n + m
  <2>1. Len(t) \in 0..Len(t)
    BY <1>1
  <2>. QED  BY <1>1, <1>2, <1>3, <2>1
<1>5. ASSUME NEW i \in 1..Len(s)
      PROVE  /\ u[i][1] = "to_output" => u[i][2] = first + LinesIn(u, i)
             /\ u[i][1] = "to_source" =>
                  /\ i + 1 \in DOMAIN u /\ u[i + 1][1] = "source"
                  /\ u[i][2] = At(u[i + 1][2] - 1).lnum
                  /\ u[i][3] = At(u[i + 1][2] - 1).cnum - At(u[i + 1][2] - 1).bol
  <2>1. u[i] = s[i] /\ LinesIn(u, i) = LinesIn(s, i)
    BY <1>1, <1>2, <1>3
  <2>2. u[i][1] = "to_output" => u[i][2] = first + LinesIn(u, i)
    BY <1>1, <2>1 DEF Part, TrueFrom
  <2>3. ASSUME u[i][1] = "to_source"
        PROVE  /\ i + 1 \in DOMAIN u /\ u[i + 1][1] = "source"
               /\ u[i][2] = At(u[i + 1][2] - 1).lnum
               /\ u[i][3] = At(u[i + 1][2] - 1).cnum - At(u[i + 1][2] - 1).bol
    <3>1. /\ i + 1 \in DOMAIN s /\ s[i + 1][1] = "source"
          /\ s[i][2] = At(s[i + 1][2] - 1).lnum
          /\ s[i][3] = At(s[i + 1][2] - 1).cnum - At(s[i + 1][2] - 1).bol
      BY <1>1, <2>1, <2>3 DEF Part, TrueFrom
    <3>2. u[i + 1] = s[i + 1] /\ i + 1 \in DOMAIN u
      BY <1>1, <1>2, <3>1
    <3>. QED  BY <2>1, <3>1, <3>2
  <2>. QED  BY <2>2, <2>3
<1>6. ASSUME NEW j \in 1..Len(t)
      PROVE  LET i == Len(s) + j
             IN /\ u[i][1] = "to_output" => u[i][2] = first + LinesIn(u, i)
                /\ u[i][1] = "to_source" =>
                     /\ i + 1 \in DOMAIN u /\ u[i + 1][1] = "source"
                     /\ u[i][2] = At(u[i + 1][2] - 1).lnum
                     /\ u[i][3] = At(u[i + 1][2] - 1).cnum - At(u[i + 1][2] - 1).bol
  <2>. DEFINE i == Len(s) + j
  <2>0. j \in 0..Len(t) /\ j \in Nat
    BY <1>1
  <2>1. u[i] = t[j] /\ LinesIn(u, i) = n + LinesIn(t, j) /\ LinesIn(t, j) \in Nat
    BY <1>2, <1>3, <2>0, LinesTyped
  <2>2. ASSUME u[i][1] = "to_output" PROVE u[i][2] = first + LinesIn(u, i)
    <3>1. t[j][2] = first + n + LinesIn(t, j)
      BY <1>1, <2>1, <2>2 DEF Part, TrueFrom
    <3>. HIDE DEF i
    <3>. QED  BY <2>1, <3>1
  <2>3. ASSUME u[i][1] = "to_source"
        PROVE  /\ i + 1 \in DOMAIN u /\ u[i + 1][1] = "source"
               /\ u[i][2] = At(u[i + 1][2] - 1).lnum
               /\ u[i][3] = At(u[i + 1][2] - 1).cnum - At(u[i + 1][2] - 1).bol
    <3>1. /\ j + 1 \in DOMAIN t /\ t[j + 1][1] = "source"
          /\ t[j][2] = At(t[j + 1][2] - 1).lnum
          /\ t[j][3] = At(t[j + 1][2] - 1).cnum - At(t[j + 1][2] - 1).bol
      BY <1>1, <2>1, <2>3 DEF Part, TrueFrom
    <3>2. j + 1 \in 1..Len(t) /\ i + 1 = Len(s) + (j + 1) /\ i + 1 \in 1..(Len(s) + Len(t))
      BY <1>1, <3>1
    <3>3. u[i + 1] = t[j + 1] /\ i + 1 \in DOMAIN u
      BY <1>2, <3>2
    <3>. HIDE DEF i
    <3>. QED  BY <2>1, <3>1, <3>3
  <2>. QED  BY <2>2, <2>3
<1>7. TrueFrom(u, first)
  <2>. SUFFICES ASSUME NEW i \in DOMAIN u
                PROVE  /\ u[i][1] = "to_output" => u[i][2] = first + LinesIn(u, i)
                       /\ u[i][1] = "to_source" =>
                            /\ i + 1 \in DOMAIN u /\ u[i + 1][1] = "source"
                            /\ u[i][2] = At(u[i + 1][2] - 1).lnum
                            /\ u[i][3] = At(u[i + 1][2] - 1).cnum - At(u[i + 1][2] - 1).bol
    BY DEF TrueFrom
  <2>1. CASE i \in 1..Len(s)
    BY <1>5, <2>1
  <2>2. CASE \E j \in 1..Len(t) : i = Len(s) + j
    BY <1>6, <2>2
  <2>. QED  BY <1>2, <2>1, <2>2
<1>. QED  BY <1>2, <1>4, <1>7 DEF Part, u

\* A token ends a line or does not, and generated code may have a newline.
LEMMA TokenLines ==
  ASSUME NEW t \in Token
  PROVE  LinesIn(<<t>>, 1) = IF EndsLine(t) \/ GeneratedLine(t) THEN 1 ELSE 0
<1>. DEFINE s == <<t>>
            A == {j \in 1..1 : EndsLine(s[j])}
            B == {j \in 1..1 : GeneratedLine(s[j])}
<1>1. s[1] = t
  OBVIOUS
<1>. HIDE DEF s
<1>2. ~(EndsLine(t) /\ GeneratedLine(t))
  BY DEF EndsLine, GeneratedLine
<1>3. A = (IF EndsLine(t) THEN {1} ELSE {}) /\ B = (IF GeneratedLine(t) THEN {1} ELSE {})
  BY <1>1
<1>4. LinesIn(s, 1) = Cardinality(A) + Cardinality(B)
  BY DEF LinesIn
<1>. HIDE DEF A, B
<1>5. Cardinality({1}) = 1 /\ Cardinality({}) = 0
  BY FS_Singleton, FS_EmptySet
<1>6. Cardinality(A) = (IF EndsLine(t) THEN 1 ELSE 0)
  BY <1>3, <1>5
<1>7. Cardinality(B) = (IF GeneratedLine(t) THEN 1 ELSE 0)
  BY <1>3, <1>5
<1>8. LinesIn(s, 1) = IF EndsLine(t) \/ GeneratedLine(t) THEN 1 ELSE 0
  BY <1>2, <1>4, <1>6, <1>7
<1>. QED  BY <1>8 DEF s

\* A token that is no line directive for the source.
LEMMA TokenPart ==
  ASSUME NEW t \in Token, t[1] # "to_source", NEW first \in Nat, NEW n \in 0..1,
         n = 1 <=> EndsLine(t) \/ GeneratedLine(t), t[1] = "to_output" => t[2] = first + n
  PROVE  Part(<<t>>, first, n)
<1>. DEFINE s == <<t>>
<1>1. s \in Seq(Token) /\ Len(s) = 1 /\ s[1] = t /\ DOMAIN s = {1}
  OBVIOUS
<1>2. LinesIn(s, 1) = n
  BY TokenLines
<1>. HIDE DEF s
<1>3. TrueFrom(s, first)
  BY <1>1, <1>2 DEF TrueFrom
<1>. QED  BY <1>1, <1>2, <1>3 DEF Part, s

LEMMA EmptyPart == \A first \in Nat : Part(<<>>, first, 0)
<1>1. <<>> \in Seq(Token) /\ Len(<<>>) = 0 /\ DOMAIN <<>> = {}
  OBVIOUS
<1>2. LinesIn(<<>>, 0) = 0
  <2>1. {j \in 1..0 : EndsLine(<<>>[j])} = {} /\ {j \in 1..0 : GeneratedLine(<<>>[j])} = {}
    OBVIOUS
  <2>. QED  BY <2>1, FS_EmptySet DEF LinesIn
<1>. QED  BY <1>1, <1>2 DEF Part, TrueFrom

\* The source that is copied, from one offset to another.
Source(a, b) == [i \in 1..(b - a) |-> <<"source", a + i, 0>>]
Newlines(a, b) == Cardinality(NewlinesBefore(b)) - Cardinality(NewlinesBefore(a))

LEMMA SourceLines ==
  ASSUME NEW a \in 0..Length, NEW b \in 0..Length, a < b
  PROVE  /\ Source(a, b) \in Seq(Token) /\ Len(Source(a, b)) = b - a
         /\ \A i \in 1..(b - a) : Source(a, b)[i] = <<"source", a + i, 0>>
         /\ Newlines(a, b) \in Nat /\ LinesIn(Source(a, b), b - a) = Newlines(a, b)
<1>. DEFINE s == Source(a, b)
            n == b - a
            P == {i \in 1..Length : Contents[i] = "newline"}
<1>1. a \in Nat /\ b \in Nat /\ Length \in Nat /\ n \in Nat /\ a + n = b
  BY LengthTyped
<1>2. s \in Seq(Token) /\ Len(s) = n /\ \A i \in 1..n : s[i] = <<"source", a + i, 0>>
  <2>1. \A i \in 1..n : <<"source", a + i, 0>> \in Token
    BY <1>1 DEF Token, Kinds
  <2>2. s \in [1..n -> Token]
    BY <2>1 DEF Source
  <2>3. s \in Seq(Token) /\ DOMAIN s = 1..n
    BY <1>1, <2>2, SeqDef
  <2>4. Len(s) = n
    BY <1>1, <2>3
  <2>. QED  BY <2>3, <2>4 DEF Source
<1>. HIDE DEF s
<1>3. /\ NewlinesBefore(a) = {j \in 1..a : j \in P}
      /\ NewlinesBefore(b) = {j \in 1..b : j \in P}
  <2>1. \A c \in 0..Length : \A j \in 1..c : j \in 1..Length
    BY <1>1
  <2>2. \A c \in 0..Length : NewlinesBefore(c) = {j \in 1..c : j \in P}
    BY <2>1 DEF NewlinesBefore
  <2>. QED  BY <2>2
<1>4. {j \in 1..n : EndsLine(s[j])} = {j \in 1..n : a + j \in P}
  <2>1. \A j \in 1..n : EndsLine(s[j]) <=> Contents[a + j] = "newline"
    BY <1>2 DEF EndsLine
  <2>2. \A j \in 1..n : a + j \in 1..Length
    BY <1>1
  <2>. QED  BY <2>1, <2>2
<1>5. {j \in 1..n : GeneratedLine(s[j])} = {}
  BY <1>2 DEF GeneratedLine
<1>. HIDE DEF n, P
<1>6. /\ CountUpTo(P, a) \in Nat /\ CountFrom(P, a, n) \in Nat
      /\ CountUpTo(P, a + n) = CountUpTo(P, a) + CountFrom(P, a, n)
  BY <1>1, CountSplit
<1>7. /\ CountUpTo(P, a) = Cardinality(NewlinesBefore(a))
      /\ CountUpTo(P, a + n) = Cardinality(NewlinesBefore(b))
  BY <1>1, <1>3, Zenon DEF CountUpTo
<1>8. LinesIn(s, n) = CountFrom(P, a, n)
  <2>1. LinesIn(s, n) = CountFrom(P, a, n) + Cardinality({})
    BY <1>4, <1>5, Zenon DEF LinesIn, CountFrom
  <2>2. Cardinality({}) = 0
    BY FS_EmptySet
  <2>. QED  BY <1>6, <2>1, <2>2
<1>9. Newlines(a, b) \in Nat /\ LinesIn(s, n) = Newlines(a, b)
  BY <1>6, <1>7, <1>8 DEF Newlines
<1>. QED  BY <1>2, <1>9 DEF s, n

\* A line directive for the source, and the source that follows it.
LEMMA SourcePart ==
  ASSUME NEW a \in 0..Length, NEW b \in 0..Length, a < b, NEW first \in Nat
  PROVE  Part(<<<<"to_source", At(a).lnum, At(a).cnum - At(a).bol>>>> \o Source(a, b), first,
              1 + Newlines(a, b))
<1>. DEFINE t == <<"to_source", At(a).lnum, At(a).cnum - At(a).bol>>
            d == <<t>>
            s == Source(a, b)
            u == d \o s
            n == b - a
<1>1. t \in Token /\ d \in Seq(Token) /\ Len(d) = 1 /\ d[1] = t
  <2>1. At(a) \in Position /\ At(a).bol <= a /\ At(a).cnum = a /\ Length \in Nat
    BY AtTyped, LengthTyped
  <2>2. At(a).lnum \in Nat /\ At(a).cnum - At(a).bol \in Nat
    BY <2>1 DEF Position
  <2>3. t \in Token
    BY <2>2 DEF Token, Kinds
  <2>. QED  BY <2>3
<1>2. a \in Nat /\ n \in Nat /\ 1 \in 1..n
  BY LengthTyped
<1>3. /\ s \in Seq(Token) /\ Len(s) = n /\ \A i \in 1..n : s[i] = <<"source", a + i, 0>>
      /\ Newlines(a, b) \in Nat /\ LinesIn(s, n) = Newlines(a, b)
  BY SourceLines
<1>t. t[1] = "to_source" /\ t[2] = At(a).lnum /\ t[3] = At(a).cnum - At(a).bol
  OBVIOUS
<1>4. LinesIn(d, 1) = 1
  <2>1. EndsLine(t)
    BY <1>t DEF EndsLine
  <2>. HIDE DEF t
  <2>. QED  BY <1>1, <2>1, TokenLines
<1>. HIDE DEF t, d, s, n
<1>5. /\ u \in Seq(Token) /\ Len(u) = 1 + n /\ DOMAIN u = 1..(1 + n)
      /\ \A i \in 1..1 : u[i] = d[i]
      /\ \A i \in 1..n : u[1 + i] = s[i]
      /\ \A i \in 1..(1 + n) : i \in 1..1 \/ \E j \in 1..n : i = 1 + j
  <2>1. /\ u \in Seq(Token) /\ Len(u) = Len(d) + Len(s)
        /\ DOMAIN u = 1..(Len(d) + Len(s))
        /\ \A i \in 1..Len(d) : u[i] = d[i]
        /\ \A i \in 1..Len(s) : u[Len(d) + i] = s[i]
        /\ \A i \in 1..(Len(d) + Len(s)) :
             i \in 1..Len(d) \/ \E j \in 1..Len(s) : i = Len(d) + j
    BY <1>1, <1>3, Joined
  <2>. HIDE DEF u
  <2>. QED  BY <1>1, <1>3, <2>1
<1>6. LinesIn(u, 1 + n) = 1 + Newlines(a, b)
  <2>1. n \in 0..n
    BY <1>2
  <2>2. LinesIn(u, Len(d) + n) = LinesIn(d, Len(d)) + LinesIn(s, n)
    BY <1>1, <1>3, <2>1, LinesJoined
  <2>. QED  BY <1>1, <1>3, <1>4, <2>2
<1>. HIDE DEF u
<1>7. u[1] = t /\ 2 \in DOMAIN u /\ u[2] = <<"source", a + 1, 0>>
  <2>1. u[1] = t
    BY <1>1, <1>5
  <2>2. u[1 + 1] = s[1] /\ s[1] = <<"source", a + 1, 0>>
    BY <1>2, <1>3, <1>5
  <2>. QED  BY <1>2, <1>5, <2>1, <2>2
<1>8. \A i \in 1..n : u[1 + i][1] = "source"
  BY <1>3, <1>5
<1>9. TrueFrom(u, first)
  <2>. SUFFICES ASSUME NEW i \in DOMAIN u
                PROVE  /\ u[i][1] = "to_output" => u[i][2] = first + LinesIn(u, i)
                       /\ u[i][1] = "to_source" =>
                            /\ i + 1 \in DOMAIN u /\ u[i + 1][1] = "source"
                            /\ u[i][2] = At(u[i + 1][2] - 1).lnum
                            /\ u[i][3] = At(u[i + 1][2] - 1).cnum - At(u[i + 1][2] - 1).bol
    BY DEF TrueFrom
  <2>1. CASE i = 1
    <3>1. 1 + 1 = 2 /\ u[2][1] = "source" /\ u[2][2] - 1 = a
      BY <1>2, <1>7
    <3>. QED  BY <1>7, <1>t, <2>1, <3>1
  <2>2. CASE \E j \in 1..n : i = 1 + j
    BY <1>8, <2>2
  <2>. QED  BY <1>5, <2>1, <2>2
<1>. QED  BY <1>5, <1>6, <1>9 DEF Part, u, d, t, s

\* copy_input returns the line it has come to.
LEMMA CopyPart ==
  ASSUME PositionInv, target = "line_directives", NEW upTo \in 0..Length, NEW isText
  PROVE  \E n \in Nat : /\ CopyInput(upTo, isText).line = line + n
                        /\ Part(CopyInput(upTo, isText).out, line, n)
<1>. DEFINE p == After(pos)
            added == ~isText /\ Contents[upTo] # "newline"
            one == IF added THEN 1 ELSE 0
            directive == <<<<"to_source", p.lnum, p.cnum - p.bol>>>>
            newline == IF added THEN <<<<"newline", 0, 0>>>> ELSE <<>>
            source == Source(p.cnum, upTo)
            n == 1 + Newlines(p.cnum, upTo)
<1>1. line \in Nat /\ p \in Position /\ p = At(p.cnum) /\ p.cnum \in 0..Length
  <2>1. line \in Nat /\ pos \in Position /\ pos = At(pos.cnum)
    BY DEF PositionInv, TypeOK
  <2>2. p \in Position /\ p = At(p.cnum)
    BY <2>1, AfterTyped
  <2>. QED  BY <2>1, <2>2 DEF Position
<1>2. CASE p.cnum >= upTo
  <2>1. CopyInput(upTo, isText) = [out |-> <<>>, line |-> line]
    BY <1>2 DEF CopyInput
  <2>2. CopyInput(upTo, isText).out = <<>> /\ CopyInput(upTo, isText).line = line + 0
    BY <1>1, <2>1
  <2>3. 0 \in Nat /\ Part(<<>>, line, 0)
    BY <1>1, EmptyPart
  <2>. QED  BY <2>2, <2>3, Zenon
<1>3. CASE ~(p.cnum >= upTo)
  <2>1. /\ CopyInput(upTo, isText).out = directive \o source \o newline
        /\ CopyInput(upTo, isText).line = line + 1 + Newlines(p.cnum, upTo) + one
    BY <1>3 DEF CopyInput, Source, Newlines
  <2>2. p.cnum < upTo
    BY <1>1, <1>3, LengthTyped
  <2>3. Part(directive \o source, line, n)
    <3>1. directive = <<<<"to_source", At(p.cnum).lnum, At(p.cnum).cnum - At(p.cnum).bol>>>>
      BY <1>1
    <3>. HIDE DEF directive, p
    <3>. QED  BY <1>1, <2>2, <3>1, SourcePart
  <2>4. n \in Nat /\ one \in Nat
    <3>1. Newlines(p.cnum, upTo) \in Nat
      BY <1>1, <2>2, SourceLines
    <3>. QED  BY <3>1
  <2>5. Part(newline, line + n, one)
    <3>1. CASE ~added
      <4>1. newline = <<>> /\ one = 0 /\ line + n \in Nat
        BY <1>1, <2>4, <3>1
      <4>. HIDE DEF newline, one, n
      <4>. QED  BY <4>1, EmptyPart
    <3>2. CASE added
      <4>. DEFINE t == <<"newline", 0, 0>>
      <4>1. t \in Token /\ t[1] = "newline" /\ newline = <<t>> /\ one = 1 /\ line + n \in Nat
        BY <1>1, <2>4, <3>2 DEF Token, Kinds
      <4>2. EndsLine(t)
        BY <4>1 DEF EndsLine
      <4>. HIDE DEF t, newline, one, n
      <4>3. 1 \in 0..1
        OBVIOUS
      <4>4. Part(<<t>>, line + n, 1)
        BY <4>1, <4>2, <4>3, TokenPart
      <4>. QED  BY <4>1, <4>4
    <3>. QED  BY <3>1, <3>2
  <2>. HIDE DEF directive, source, newline, n, one, p
  <2>6. Part(directive \o source \o newline, line, n + one)
    BY <1>1, <2>3, <2>4, <2>5, PartsJoined
  <2>7. CopyInput(upTo, isText).line = line + (n + one)
    <3>1. Newlines(p.cnum, upTo) \in Nat
      BY <1>1, <2>2, SourceLines
    <3>. QED  BY <1>1, <2>1, <2>4, <3>1 DEF n
  <2>8. n + one \in Nat
    BY <2>4
  <2>. QED  BY <2>1, <2>6, <2>7, <2>8
<1>. QED  BY <1>2, <1>3

\* Without line directives in the parts there is none in the whole.
LEMMA NoneJoined ==
  ASSUME NEW s \in Seq(Token), NEW t \in Seq(Token), NoDirectives(s), NoDirectives(t)
  PROVE  NoDirectives(s \o t)
<1>. DEFINE u == s \o t
<1>1. /\ DOMAIN u = 1..(Len(s) + Len(t)) /\ DOMAIN s = 1..Len(s) /\ DOMAIN t = 1..Len(t)
      /\ \A i \in 1..Len(s) : u[i] = s[i]
      /\ \A i \in 1..Len(t) : u[Len(s) + i] = t[i]
      /\ \A i \in 1..(Len(s) + Len(t)) : i \in 1..Len(s) \/ \E j \in 1..Len(t) : i = Len(s) + j
  BY Joined
<1>. HIDE DEF u
<1>2. ASSUME NEW i \in DOMAIN u PROVE u[i][1] \notin {"to_output", "to_source"}
  <2>1. CASE i \in 1..Len(s)
    <3>1. u[i] = s[i] /\ i \in DOMAIN s
      BY <1>1, <2>1
    <3>. QED  BY <3>1 DEF NoDirectives
  <2>2. CASE \E j \in 1..Len(t) : i = Len(s) + j
    <3>1. PICK j \in 1..Len(t) : i = Len(s) + j
      BY <2>2
    <3>2. u[i] = t[j] /\ j \in DOMAIN t
      BY <1>1, <3>1
    <3>. QED  BY <3>2 DEF NoDirectives
  <2>. QED  BY <1>1, <2>1, <2>2
<1>. QED  BY <1>2 DEF NoDirectives, u

\* Outside of the mode for line directives, copy_input writes none.
LEMMA CopyNone ==
  ASSUME PositionInv, target # "line_directives", NEW upTo \in 0..Length, NEW isText
  PROVE  NoDirectives(CopyInput(upTo, isText).out)
<1>. DEFINE p == After(pos)
            added == ~isText /\ Contents[upTo] # "newline"
            newline == IF added THEN <<<<"newline", 0, 0>>>> ELSE <<>>
            source == Source(p.cnum, upTo)
<1>1. p.cnum \in 0..Length
  <2>1. pos \in Position /\ pos = At(pos.cnum)
    BY DEF PositionInv, TypeOK
  <2>2. p \in Position
    BY <2>1, AfterTyped
  <2>. QED  BY <2>2 DEF Position
<1>2. NoDirectives(<<>>)
  BY DEF NoDirectives
<1>3. CASE p.cnum >= upTo
  <2>1. CopyInput(upTo, isText).out = <<>>
    BY <1>3 DEF CopyInput
  <2>. QED  BY <1>2, <2>1
<1>4. CASE ~(p.cnum >= upTo)
  <2>1. CopyInput(upTo, isText).out = <<>> \o source \o newline
    BY <1>4 DEF CopyInput, Source
  <2>2. p.cnum < upTo
    BY <1>1, <1>4, LengthTyped
  <2>3. source \in Seq(Token) /\ NoDirectives(source)
    <3>1. /\ source \in Seq(Token) /\ Len(source) = upTo - p.cnum
          /\ \A i \in 1..(upTo - p.cnum) : source[i] = <<"source", p.cnum + i, 0>>
      BY <1>1, <2>2, SourceLines
    <3>. HIDE DEF source
    <3>2. DOMAIN source = 1..(upTo - p.cnum)
      BY <3>1
    <3>. QED  BY <3>1, <3>2 DEF NoDirectives
  <2>4. newline \in Seq(Token) /\ NoDirectives(newline)
    <3>1. <<<<"newline", 0, 0>>>> \in Seq(Token) /\ <<>> \in Seq(Token)
      BY TokensTyped DEF Kinds
    <3>2. NoDirectives(<<<<"newline", 0, 0>>>>)
      BY DEF NoDirectives
    <3>. QED  BY <1>2, <3>1, <3>2
  <2>. HIDE DEF source, newline
  <2>5. <<>> \o source = source
    BY <2>3
  <2>. QED  BY <2>1, <2>3, <2>4, <2>5, NoneJoined
<1>. QED  BY <1>3, <1>4

\* The output is empty until the loops run; then its directives are true, and the
\* line that the loops pass on is the one that it has come to.
DirectivesInv ==
  /\ PositionInv
  /\ phase \notin {"emitting", "done"} => out = <<>> /\ line = 1
  /\ target # "line_directives" => NoDirectives(out)
  /\ target = "line_directives" /\ phase # "done" => \E n \in Nat : line = 1 + n /\ Part(out, 1, n)
  /\ target = "line_directives" => TrueFrom(out, 1)

LEMMA InitDirectives == Init => DirectivesInv
<1>. SUFFICES ASSUME Init PROVE DirectivesInv
  OBVIOUS
<1>1. Part(<<>>, 1, 0) /\ 1 = 1 + 0 /\ 0 \in Nat
  BY EmptyPart
<1>2. out = <<>> /\ line = 1 /\ PositionInv
  BY InitPosition DEF Init
<1>. QED  BY <1>1, <1>2 DEF DirectivesInv, NoDirectives, Part

\* Joining a part to the output.
LEMMA OutputJoined ==
  ASSUME NEW n \in Nat, NEW m \in Nat, Part(out, 1, n), NEW s, Part(s, 1 + n, m), out' = out \o s,
         line = 1 + n, line' = line + m
  PROVE  /\ \E k \in Nat : line' = 1 + k /\ Part(out', 1, k)
         /\ TrueFrom(out', 1)
<1>1. Part(out \o s, 1, n + m)
  BY PartsJoined
<1>2. Part(out', 1, n + m) /\ line' = 1 + (n + m) /\ n + m \in Nat
  BY <1>1
<1>. QED  BY <1>2 DEF Part

LEMMA NextDirectives == DirectivesInv /\ [Next]_vars => DirectivesInv'
<1>. SUFFICES ASSUME DirectivesInv, [Next]_vars PROVE DirectivesInv'
  OBVIOUS
<1>1. PositionInv' /\ PositionInv
  BY NextPosition DEF DirectivesInv
<1>2. /\ out \in Seq(Token) /\ line \in Nat /\ target \in Target /\ todo \in Seq(Repl)
  BY <1>1 DEF PositionInv, TypeOK
<1>3. ASSUME UNCHANGED <<target, line, out>>, phase # "done",
             phase' \notin {"emitting", "done"} => phase \notin {"emitting", "done"}
      PROVE  DirectivesInv'
  BY <1>1, <1>3 DEF DirectivesInv
<1>4. CASE \/ \E r \in Repl : Report(r)
           \/ OtherFile \/ CheckAndSort \/ Insert \/ EndSort \/ Keep \/ Skip \/ RaiseOverlapping
  BY <1>3, <1>4 DEF Report, OtherFile, CheckAndSort, Insert, EndSort, Keep, Skip,
     RaiseOverlapping
<1>5. CASE UNCHANGED vars
  BY <1>1, <1>5 DEF vars, DirectivesInv
<1>b. <<<<"begin", 0, 0>>>> \in Seq(Token) /\ NoDirectives(<<<<"begin", 0, 0>>>>)
      /\ <<>> \in Seq(Token) /\ NoDirectives(<<>>)
  <2>1. <<<<"begin", 0, 0>>>> \in Seq(Token) /\ <<>> \in Seq(Token)
    BY TokensTyped DEF Kinds
  <2>. QED  BY <2>1 DEF NoDirectives
<1>6. CASE EndFilter
  <2>1. /\ phase = "filtering" /\ phase' = "emitting" /\ UNCHANGED <<target, line>>
        /\ out = <<>> /\ line = 1
    BY <1>6 DEF EndFilter, DirectivesInv
  <2>2. CASE target = "delimited"
    <3>1. out' = <<<<"begin", 0, 0>>>> \/ out' = <<>>
      BY <1>6, <2>1, <2>2 DEF EndFilter
    <3>. QED  BY <1>1, <1>b, <2>1, <2>2, <3>1 DEF DirectivesInv
  <2>3. CASE target # "delimited"
    <3>1. out' = out
      BY <1>6, <2>1, <2>3 DEF EndFilter
    <3>. QED  BY <1>1, <2>1, <3>1 DEF DirectivesInv
  <2>. QED  BY <2>2, <2>3
<1>. DEFINE r == Head(todo)
            generated == Generated(r)
<1>7. ASSUME todo # <<>>
      PROVE  /\ r.start \in 0..Length /\ r.newlines \in 0..1 /\ generated \in Seq(Token)
             /\ NoDirectives(generated)
             /\ \A first \in Nat : Part(generated, first, r.newlines)
  <2>1. r \in Repl
    BY <1>2, <1>7
  <2>. DEFINE t == <<"generated", r.id, r.newlines>>
  <2>2. r.start \in 0..Length /\ r.newlines \in 0..1 /\ r.id \in Nat
    <3>. HIDE DEF r
    <3>1. r.start \in 0..Length /\ r.newlines \in 0..1
      BY <2>1 DEF Repl
    <3>. QED  BY <2>1, <3>1, ReplFields
  <2>. HIDE DEF r
  <2>3. t \in Token /\ t[1] = "generated" /\ t[3] = r.newlines /\ generated = <<t>>
    BY <2>2 DEF Token, Kinds, Generated
  <2>. HIDE DEF t, generated
  <2>4. ~EndsLine(t) /\ (GeneratedLine(t) <=> r.newlines = 1)
    BY <2>3 DEF EndsLine, GeneratedLine
  <2>5. \A first \in Nat : Part(<<t>>, first, r.newlines)
    BY <2>2, <2>3, <2>4, TokenPart
  <2>6. NoDirectives(<<t>>) /\ <<t>> \in Seq(Token)
    BY <2>3 DEF NoDirectives
  <2>. QED  BY <2>2, <2>3, <2>5, <2>6
<1>8. CASE CopyAndReplace
  <2>. DEFINE copy == CopyInput(r.start, r.text)
              intro == CASE target = "line_directives" -> <<<<"to_output", copy.line + 1, 0>>>>
                         [] target = "delimited" -> <<<<"begin", 0, 0>>>>
                         [] target = "corrected" -> <<>>
  <2>1. /\ todo # <<>> /\ phase = "emitting" /\ phase' = "emitting" /\ target' = target
        /\ out' = out \o copy.out \o intro \o generated
        /\ line' = copy.line + Len(intro) + r.newlines
    BY <1>8 DEF CopyAndReplace
  <2>2. r.start \in 0..Length
    BY <1>7, <2>1
  <2>3. CASE target = "line_directives"
    <3>1. PICK n \in Nat : line = 1 + n /\ Part(out, 1, n)
      BY <2>1, <2>3 DEF DirectivesInv
    <3>2. PICK m \in Nat : copy.line = line + m /\ Part(copy.out, line, m)
      BY <1>1, <2>2, <2>3, CopyPart
    <3>. DEFINE t == <<"to_output", copy.line + 1, 0>>
    <3>3. t \in Token /\ t[1] = "to_output" /\ t[2] = copy.line + 1
      <4>1. copy.line + 1 \in Nat /\ 0 \in Nat
        BY <1>2, <3>2
      <4>. HIDE DEF copy
      <4>. QED  BY <4>1 DEF Token, Kinds
    <3>4. intro = <<t>>
      BY <2>3
    <3>. HIDE DEF t, copy, intro, r, generated
    <3>5. Part(intro, copy.line, 1)
      <4>1. EndsLine(t)
        BY <3>3 DEF EndsLine
      <4>2. copy.line \in Nat /\ 1 \in 0..1
        BY <1>2, <3>2
      <4>. QED  BY <3>3, <3>4, <4>1, <4>2, TokenPart
    <3>6. Part(generated, copy.line + 1, r.newlines) /\ r.newlines \in Nat
      <4>1. copy.line + 1 \in Nat /\ r.newlines \in 0..1
        BY <1>2, <1>7, <2>1, <3>2
      <4>. QED  BY <1>7, <2>1, <4>1
    <3>7. Part(out \o copy.out, 1, n + m)
      BY <3>1, <3>2, PartsJoined
    <3>8. Part(out \o copy.out \o intro, 1, n + m + 1)
      <4>1. 1 + (n + m) = copy.line /\ n + m \in Nat
        BY <3>1, <3>2
      <4>. QED  BY <3>5, <3>7, <4>1, PartsJoined
    <3>9. Part(out', 1, n + m + 1 + r.newlines)
      <4>1. 1 + (n + m + 1) = copy.line + 1 /\ n + m + 1 \in Nat
        BY <3>1, <3>2
      <4>. QED  BY <2>1, <3>6, <3>8, <4>1, PartsJoined
    <3>10. line' = 1 + (n + m + 1 + r.newlines) /\ n + m + 1 + r.newlines \in Nat
      <4>1. Len(intro) = 1
        BY <3>4
      <4>. QED  BY <2>1, <3>1, <3>2, <3>6, <4>1
    <3>11. \E k \in Nat : line' = 1 + k /\ Part(out', 1, k)
      BY <3>9, <3>10
    <3>. QED  BY <1>1, <2>1, <2>3, <3>9, <3>11 DEF DirectivesInv, Part
  <2>4. CASE target # "line_directives"
    <3>1. NoDirectives(out) /\ NoDirectives(copy.out) /\ copy.out \in Seq(Token)
      <4>1. NoDirectives(out)
        BY <2>4 DEF DirectivesInv
      <4>2. NoDirectives(copy.out)
        BY <1>1, <2>2, <2>4, CopyNone
      <4>3. copy.out \in Seq(Token)
        BY <1>1, <2>2, CopyTyped DEF PositionInv, TypeOK
      <4>. QED  BY <4>1, <4>2, <4>3
    <3>2. intro \in Seq(Token) /\ NoDirectives(intro)
      <4>1. CASE target = "delimited"
        BY <1>b, <4>1
      <4>2. CASE target = "corrected"
        BY <1>b, <4>2
      <4>. QED  BY <1>2, <2>4, <4>1, <4>2 DEF Target
    <3>3. generated \in Seq(Token) /\ NoDirectives(generated)
      BY <1>7, <2>1
    <3>. HIDE DEF copy, intro, r, generated
    <3>4. out \o copy.out \in Seq(Token) /\ NoDirectives(out \o copy.out)
      BY <1>2, <3>1, NoneJoined, Joined
    <3>5. out \o copy.out \o intro \in Seq(Token) /\ NoDirectives(out \o copy.out \o intro)
      BY <3>2, <3>4, NoneJoined, Joined
    <3>6. NoDirectives(out')
      BY <2>1, <3>3, <3>5, NoneJoined
    <3>. QED  BY <1>1, <2>1, <2>4, <3>6 DEF DirectivesInv
  <2>. QED  BY <2>3, <2>4
<1>9. CASE ReplaceNext
  <2>1. /\ todo # <<>> /\ phase = "emitting" /\ phase' = "emitting" /\ target' = target
        /\ out' = out \o generated /\ line' = line + r.newlines
    BY <1>9 DEF ReplaceNext
  <2>2. CASE target = "line_directives"
    <3>1. PICK n \in Nat : line = 1 + n /\ Part(out, 1, n)
      BY <2>1, <2>2 DEF DirectivesInv
    <3>. HIDE DEF r, generated
    <3>2. Part(generated, 1 + n, r.newlines) /\ r.newlines \in Nat
      BY <1>7, <2>1
    <3>3. /\ \E k \in Nat : line' = 1 + k /\ Part(out', 1, k)
          /\ TrueFrom(out', 1)
      BY <2>1, <3>1, <3>2, OutputJoined
    <3>. QED  BY <1>1, <2>1, <2>2, <3>3 DEF DirectivesInv
  <2>3. CASE target # "line_directives"
    <3>. HIDE DEF r, generated
    <3>1. NoDirectives(out) /\ NoDirectives(generated) /\ generated \in Seq(Token)
      BY <1>7, <2>1, <2>3 DEF DirectivesInv
    <3>2. NoDirectives(out')
      BY <1>2, <2>1, <3>1, NoneJoined
    <3>. QED  BY <1>1, <2>1, <2>3, <3>2 DEF DirectivesInv
  <2>. QED  BY <2>2, <2>3
<1>10. CASE EndConsecutive
  <2>1. phase = "emitting" /\ phase' = "emitting" /\ UNCHANGED <<target, line>>
    BY <1>10 DEF EndConsecutive
  <2>2. CASE target = "delimited"
    <3>. DEFINE t == <<"end", 0, 0>>
    <3>1. <<t>> \in Seq(Token) /\ NoDirectives(<<t>>)
      <4>1. <<t>> \in Seq(Token)
        BY TokensTyped DEF Kinds
      <4>. QED  BY <4>1 DEF NoDirectives
    <3>2. out' = Append(out, t) /\ t \in Token
      BY <1>10, <2>2 DEF EndConsecutive, Token, Kinds
    <3>. HIDE DEF t
    <3>3. out' = out \o <<t>>
      BY <1>2, <3>2
    <3>4. NoDirectives(out')
      <4>1. NoDirectives(out)
        BY <2>2 DEF DirectivesInv
      <4>. QED  BY <1>2, <3>1, <3>3, <4>1, NoneJoined
    <3>. QED  BY <1>1, <2>1, <2>2, <3>4 DEF DirectivesInv
  <2>3. CASE target # "delimited"
    <3>1. out' = out
      BY <1>10, <2>3 DEF EndConsecutive
    <3>. QED  BY <1>3, <2>1, <3>1
  <2>. QED  BY <2>2, <2>3
<1>11. CASE CopyRest
  <2>. DEFINE copied == CopyInput(Length, FALSE).out
  <2>1. phase = "emitting" /\ phase' = "done" /\ UNCHANGED <<target, line>> /\ out' = out \o copied
        /\ Length \in 0..Length
    BY <1>11, LengthTyped DEF CopyRest
  <2>2. CASE target = "line_directives"
    <3>1. PICK n \in Nat : line = 1 + n /\ Part(out, 1, n)
      BY <2>1, <2>2 DEF DirectivesInv
    <3>2. PICK m \in Nat : Part(copied, line, m)
      BY <1>1, <2>1, <2>2, CopyPart
    <3>. HIDE DEF copied
    <3>3. Part(out', 1, n + m)
      BY <2>1, <3>1, <3>2, PartsJoined
    <3>. QED  BY <1>1, <2>1, <2>2, <3>3 DEF DirectivesInv, Part
  <2>3. CASE target # "line_directives"
    <3>1. NoDirectives(out) /\ NoDirectives(copied)
      BY <1>1, <2>1, <2>3, CopyNone DEF DirectivesInv
    <3>2. copied \in Seq(Token)
      BY <1>1, <2>1, CopyTyped DEF PositionInv, TypeOK
    <3>. HIDE DEF copied
    <3>3. NoDirectives(out')
      BY <1>2, <2>1, <3>1, <3>2, NoneJoined
    <3>. QED  BY <1>1, <2>1, <2>3, <3>3 DEF DirectivesInv
  <2>. QED  BY <2>2, <2>3
<1>. QED  BY <1>4, <1>5, <1>6, <1>8, <1>9, <1>10, <1>11 DEF Next

\* Every line directive tells the truth, for every source and however many
\* replacements: the line that copy_input and the loops pass on is the line of the
\* output, the position of the source that of the character that is copied next.
THEOREM DirectivesAreTrue == Spec => []DirectivesTrue
<1>1. DirectivesInv => DirectivesTrue
  <2>. SUFFICES ASSUME DirectivesInv, NEW i \in DOMAIN out
                PROVE  /\ out[i][1] = "to_output" => out[i][2] = 1 + LinesUpTo(i)
                       /\ out[i][1] = "to_source" =>
                            /\ out[i + 1][1] = "source"
                            /\ out[i][2] = At(out[i + 1][2] - 1).lnum
                            /\ out[i][3] = At(out[i + 1][2] - 1).cnum - At(out[i + 1][2] - 1).bol
    BY DEF DirectivesTrue
  <2>1. LinesUpTo(i) = LinesIn(out, i)
    BY DEF LinesUpTo, LinesIn, GeneratedLine
  <2>2. CASE target = "line_directives"
    BY <2>1, <2>2 DEF DirectivesInv, TrueFrom
  <2>3. CASE target # "line_directives"
    BY <2>3 DEF DirectivesInv, NoDirectives
  <2>. QED  BY <2>2, <2>3
<1>. QED  BY InitDirectives, NextDirectives, <1>1, PTL DEF Spec

--------------------------------------------------------------------------------
(***************************************************************************)
(* Flattening a sequence of sequences: what FlattenSeq computes with a     *)
(* recursive function, by least counterexample.                            *)
(***************************************************************************)

IsFlatten(f, seqs, n) ==
  f = [i \in 1..n |-> IF i = 1 THEN seqs[i] ELSE f[i - 1] \o seqs[i]]

\* If the function did not exist for some length, there would be a least one; it
\* extends the function for the length before.
LEMMA FlattenExists ==
  ASSUME NEW seqs, NEW n \in Nat
  PROVE  \E f : IsFlatten(f, seqs, n)
<1>. DEFINE Without == {m \in Nat : ~\E f : IsFlatten(f, seqs, m)}
<1>. SUFFICES ASSUME Without # {} PROVE FALSE
  OBVIOUS
<1>1. PICK m \in Without : \A k \in Without : m <= k
  <2>1. Without \in SUBSET Nat
    OBVIOUS
  <2>. HIDE DEF Without
  <2>. QED  BY <2>1, LeastExists
<1>2. CASE m = 0
  <2>1. IsFlatten([i \in 1..0 |-> <<>>], seqs, 0)
    BY DEF IsFlatten
  <2>. QED  BY <1>2, <2>1
<1>3. CASE m # 0
  <2>1. m - 1 \in Nat /\ m - 1 \notin Without
    BY <1>1, <1>3
  <2>2. PICK f : IsFlatten(f, seqs, m - 1)
    BY <2>1
  <2>. DEFINE g == [i \in 1..m |-> IF i < m THEN f[i]
                                   ELSE IF i = 1 THEN seqs[i] ELSE f[i - 1] \o seqs[i]]
  <2>3. ASSUME NEW i \in 1..m PROVE g[i] = IF i = 1 THEN seqs[i] ELSE g[i - 1] \o seqs[i]
    <3>1. i # 1 => g[i - 1] = f[i - 1]
      BY <1>1
    <3>2. g[i] = IF i = 1 THEN seqs[i] ELSE f[i - 1] \o seqs[i]
      <4>1. CASE i < m
        <5>1. g[i] = f[i] /\ i \in 1..(m - 1)
          BY <1>1, <4>1
        <5>. QED  BY <2>2, <5>1 DEF IsFlatten
      <4>2. CASE ~(i < m)
        BY <4>2
      <4>. QED  BY <4>1, <4>2
    <3>. HIDE DEF g
    <3>3. CASE i = 1
      BY <3>2, <3>3
    <3>4. CASE i # 1
      BY <3>1, <3>2, <3>4
    <3>. QED  BY <3>3, <3>4
  <2>4. g = [i \in 1..m |-> g[i]]
    OBVIOUS
  <2>5. IsFlatten(g, seqs, m)
    BY <2>3, <2>4 DEF IsFlatten
  <2>. QED  BY <2>5
<1>. QED  BY <1>2, <1>3

\* It is the only one, so its last value is the result.
LEMMA FlattenIs ==
  ASSUME NEW seqs, NEW n \in Nat, n > 0, Len(seqs) = n, NEW f, IsFlatten(f, seqs, n)
  PROVE  FlattenSeq(seqs) = f[n]
<1>. DEFINE flat == CHOOSE g : IsFlatten(g, seqs, n)
            Differ == {i \in 1..n : flat[i] # f[i]}
<1>1. IsFlatten(flat, seqs, n)
  BY FlattenExists
<1>2. FlattenSeq(seqs) = flat[n]
  BY DEF FlattenSeq, IsFlatten
<1>. HIDE DEF flat
<1>3. Differ = {}
  <2>. SUFFICES ASSUME Differ # {} PROVE FALSE
    OBVIOUS
  <2>1. PICK m \in Differ : \A k \in Differ : m <= k
    <3>1. Differ \in SUBSET Nat
      OBVIOUS
    <3>. HIDE DEF Differ
    <3>. QED  BY <3>1, LeastExists
  <2>2. m \in 1..n /\ flat[m] # f[m]
    BY <2>1
  <2>3. /\ flat[m] = IF m = 1 THEN seqs[m] ELSE flat[m - 1] \o seqs[m]
        /\ f[m] = IF m = 1 THEN seqs[m] ELSE f[m - 1] \o seqs[m]
    BY <1>1, <2>2 DEF IsFlatten
  <2>4. m # 1
    BY <2>2, <2>3
  <2>5. m - 1 \in 1..n /\ ~(m <= m - 1)
    BY <2>2, <2>4
  <2>6. flat[m - 1] = f[m - 1]
    BY <2>1, <2>5
  <2>. QED  BY <2>2, <2>3, <2>4, <2>6
<1>4. n \in 1..n
  OBVIOUS
<1>. QED  BY <1>2, <1>3, <1>4

LEMMA FlattenEmpty == FlattenSeq(<<>>) = <<>>
BY DEF FlattenSeq

\* One sequence more, and the types.
LEMMA FlattenAppend ==
  ASSUME NEW S, NEW seqs \in Seq(Seq(S)), NEW x \in Seq(S)
  PROVE  FlattenSeq(Append(seqs, x)) = FlattenSeq(seqs) \o x
<1>. DEFINE n == Len(seqs)
            u == Append(seqs, x)
<1>1. /\ n \in Nat /\ n + 1 \in Nat /\ n + 1 > 0 /\ Len(u) = n + 1 /\ u[n + 1] = x
      /\ \A i \in 1..n : u[i] = seqs[i]
  OBVIOUS
<1>2. PICK f : IsFlatten(f, u, n + 1)
  BY <1>1, FlattenExists
<1>3. FlattenSeq(u) = f[n + 1]
  <2>. HIDE DEF u, n
  <2>. QED  BY <1>1, <1>2, FlattenIs
<1>4. f[n + 1] = IF n + 1 = 1 THEN x ELSE f[n] \o x
  <2>. DEFINE m == n + 1
  <2>1. m \in 1..m /\ m - 1 = n
    BY <1>1
  <2>2. f[m] = IF m = 1 THEN u[m] ELSE f[m - 1] \o u[m]
    <3>. HIDE DEF m, u
    <3>. QED  BY <1>2, <2>1 DEF IsFlatten, m
  <2>. QED  BY <1>1, <2>1, <2>2
<1>5. CASE n = 0
  <2>1. seqs = <<>>
    BY <1>5
  <2>2. FlattenSeq(seqs) = <<>> /\ <<>> \o x = x
    BY <2>1, FlattenEmpty, ConcatEmptySeq
  <2>. QED  BY <1>3, <1>4, <1>5, <2>2
<1>6. CASE n # 0
  <2>. DEFINE g == [i \in 1..n |-> f[i]]
  <2>1. ASSUME NEW i \in 1..n PROVE g[i] = IF i = 1 THEN seqs[i] ELSE g[i - 1] \o seqs[i]
    <3>1. i \in 1..(n + 1) /\ u[i] = seqs[i]
      BY <1>1
    <3>2. f[i] = IF i = 1 THEN u[i] ELSE f[i - 1] \o u[i]
      <4>. HIDE DEF u, n
      <4>. QED  BY <1>2, <3>1 DEF IsFlatten
    <3>3. g[i] = f[i] /\ (i # 1 => g[i - 1] = f[i - 1])
      BY <1>1
    <3>. HIDE DEF g, u
    <3>. QED  BY <3>1, <3>2, <3>3
  <2>2. g = [i \in 1..n |-> g[i]]
    OBVIOUS
  <2>3. IsFlatten(g, seqs, n)
    BY <2>1, <2>2 DEF IsFlatten
  <2>4. n > 0 /\ n \in 1..n
    BY <1>1, <1>6
  <2>5. FlattenSeq(seqs) = g[n]
    <3>. HIDE DEF g
    <3>. QED  BY <1>1, <2>3, <2>4, FlattenIs
  <2>6. g[n] = f[n]
    BY <2>4
  <2>7. n + 1 # 1
    BY <1>1, <1>6
  <2>. HIDE DEF g, n, u
  <2>8. FlattenSeq(u) = FlattenSeq(seqs) \o x
    BY <1>3, <1>4, <2>5, <2>6, <2>7
  <2>. QED  BY <2>8 DEF u
<1>. QED  BY <1>5, <1>6

\* A sequence that is not empty is what comes before its last element, and that.
LEMMA LastElement ==
  ASSUME NEW S, NEW s \in Seq(S), s # <<>>
  PROVE  \E t \in Seq(S), x \in S : s = Append(t, x) /\ Len(t) = Len(s) - 1
<1>. DEFINE n == Len(s)
            t == SubSeq(s, 1, n - 1)
<1>1. n \in Nat /\ n > 0 /\ n \in 1..n /\ \A i \in 1..n : s[i] \in S
  <2>1. n \in Nat /\ n # 0
    BY EmptySeq
  <2>. QED  BY <2>1, ElementOfSeq
<1>2. t \in Seq(S) /\ Len(t) = n - 1 /\ \A i \in 1..(n - 1) : t[i] = s[i]
  <2>1. \A i \in 1..(n - 1) : s[i] \in S
    BY <1>1
  <2>2. /\ t \in Seq(S) /\ Len(t) = IF 1 <= n - 1 THEN (n - 1) - 1 + 1 ELSE 0
        /\ \A i \in 1..((n - 1) - 1 + 1) : t[i] = s[1 + i - 1]
    <3>1. 1 \in Int /\ n - 1 \in Int
      BY <1>1
    <3>. QED  BY <2>1, <3>1, SubSeqProperties
  <2>. HIDE DEF t
  <2>3. \A i \in 1..(n - 1) : i \in 1..((n - 1) - 1 + 1) /\ 1 + i - 1 = i
    BY <1>1
  <2>4. \A i \in 1..(n - 1) : t[i] = s[i]
    <3>. TAKE i \in 1..(n - 1)
    <3>1. i \in 1..((n - 1) - 1 + 1) /\ 1 + i - 1 = i
      BY <2>3
    <3>2. t[i] = s[1 + i - 1]
      BY <2>2, <3>1
    <3>. HIDE DEF n
    <3>. QED  BY <3>1, <3>2
  <2>5. (IF 1 <= n - 1 THEN (n - 1) - 1 + 1 ELSE 0) = n - 1
    <3>. HIDE DEF n
    <3>. QED  BY <1>1
  <2>6. Len(t) = n - 1
    <3>. HIDE DEF n
    <3>. QED  BY <2>2, <2>5
  <2>. QED  BY <2>2, <2>4, <2>6
<1>3. s = Append(t, s[n])
  <2>. HIDE DEF t
  <2>1. Append(t, s[n]) \in Seq(S) /\ Len(Append(t, s[n])) = n
    BY <1>1, <1>2
  <2>2. \A i \in 1..n : s[i] = Append(t, s[n])[i]
    BY <1>1, <1>2
  <2>. QED  BY <2>1, <2>2, SeqEqual
<1>. QED  BY <1>1, <1>2, <1>3

LEMMA FlattenTyped ==
  ASSUME NEW S, NEW seqs \in Seq(Seq(S))
  PROVE  FlattenSeq(seqs) \in Seq(S)
<1>. DEFINE Untyped == {m \in Nat : \E t \in Seq(Seq(S)) : Len(t) = m /\ FlattenSeq(t) \notin Seq(S)}
<1>1. Untyped = {}
  <2>. SUFFICES ASSUME Untyped # {} PROVE FALSE
    OBVIOUS
  <2>1. PICK m \in Untyped : \A k \in Untyped : m <= k
    <3>1. Untyped \in SUBSET Nat
      OBVIOUS
    <3>. HIDE DEF Untyped
    <3>. QED  BY <3>1, LeastExists
  <2>2. PICK t \in Seq(Seq(S)) : Len(t) = m /\ FlattenSeq(t) \notin Seq(S)
    BY <2>1
  <2>3. t # <<>>
    <3>1. <<>> \in Seq(S)
      OBVIOUS
    <3>. QED  BY <2>2, <3>1, FlattenEmpty
  <2>4. PICK u \in Seq(Seq(S)), x \in Seq(S) : t = Append(u, x) /\ Len(u) = Len(t) - 1
    BY <2>3, LastElement
  <2>5. Len(u) \in Nat /\ ~(m <= Len(u))
    BY <2>2, <2>4
  <2>6. FlattenSeq(u) \in Seq(S)
    BY <2>1, <2>5
  <2>7. FlattenSeq(t) = FlattenSeq(u) \o x
    BY <2>4, FlattenAppend
  <2>. QED  BY <2>2, <2>4, <2>6, <2>7, ConcatProperties
<1>2. Len(seqs) \in Nat
  OBVIOUS
<1>. QED  BY <1>1, <1>2

Associates(a, b, c) == (a \o b) \o c = a \o (b \o c)

\* Concatenation is associative; the name keeps the provers from unfolding it.
LEMMA Associative ==
  \A S : \A a, b, c \in Seq(S) : Associates(a, b, c)
BY ConcatAssociative DEF Associates

LEMMA FlattenConcat ==
  ASSUME NEW S, NEW a \in Seq(Seq(S)), NEW b \in Seq(Seq(S))
  PROVE  FlattenSeq(a \o b) = FlattenSeq(a) \o FlattenSeq(b)
<1>. DEFINE Fails(t) == FlattenSeq(a \o t) # FlattenSeq(a) \o FlattenSeq(t)
            Failing == {m \in Nat : \E t \in Seq(Seq(S)) : Len(t) = m /\ Fails(t)}
<1>0. FlattenSeq(a) \in Seq(S)
  BY FlattenTyped
<1>1. Failing = {}
  <2>. SUFFICES ASSUME Failing # {} PROVE FALSE
    OBVIOUS
  <2>1. PICK m \in Failing : \A k \in Failing : m <= k
    <3>1. Failing \in SUBSET Nat
      OBVIOUS
    <3>. HIDE DEF Failing
    <3>. QED  BY <3>1, LeastExists
  <2>2. PICK t \in Seq(Seq(S)) : Len(t) = m /\ Fails(t)
    BY <2>1
  <2>3. t # <<>>
    <3>1. a \o <<>> = a /\ FlattenSeq(a) \o <<>> = FlattenSeq(a)
      BY <1>0, ConcatEmptySeq
    <3>. QED  BY <2>2, <3>1, FlattenEmpty
  <2>4. PICK u \in Seq(Seq(S)), x \in Seq(S) : t = Append(u, x) /\ Len(u) = Len(t) - 1
    BY <2>3, LastElement
  <2>5. Len(u) \in Nat /\ ~(m <= Len(u))
    <3>1. m \in Nat /\ Len(u) \in Nat
      OBVIOUS
    <3>2. Len(u) = m - 1
      BY <2>2, <2>4
    <3>. HIDE DEF Failing, Fails
    <3>. QED  BY <3>1, <3>2
  <2>6. FlattenSeq(a \o u) = FlattenSeq(a) \o FlattenSeq(u)
    BY <2>1, <2>5
  <2>7. a \o t = Append(a \o u, x) /\ a \o u \in Seq(Seq(S))
    <3>. HIDE DEF Failing, Fails
    <3>1. <<x>> \in Seq(Seq(S))
      BY <2>4
    <3>2. a \o u \in Seq(Seq(S))
      BY ConcatProperties
    <3>3. t = u \o <<x>>
      BY <2>4, AppendIsConcat
    <3>4. Associates(a, u, <<x>>)
      BY <3>1, Associative
    <3>5. (a \o u) \o <<x>> = a \o t
      BY <3>3, <3>4 DEF Associates
    <3>6. Append(a \o u, x) = (a \o u) \o <<x>>
      BY <2>4, <3>2, AppendIsConcat
    <3>. QED  BY <3>2, <3>5, <3>6
  <2>8. FlattenSeq(a \o t) = (FlattenSeq(a) \o FlattenSeq(u)) \o x
    BY <2>6, <2>7, FlattenAppend
  <2>9. FlattenSeq(t) = FlattenSeq(u) \o x /\ FlattenSeq(u) \in Seq(S)
    BY <2>4, FlattenAppend, FlattenTyped
  <2>10. (FlattenSeq(a) \o FlattenSeq(u)) \o x = FlattenSeq(a) \o (FlattenSeq(u) \o x)
    <3>. HIDE DEF Failing, Fails
    <3>1. Associates(FlattenSeq(a), FlattenSeq(u), x)
      BY <1>0, <2>4, <2>9, Associative
    <3>. QED  BY <3>1 DEF Associates
  <2>. QED  BY <2>2, <2>8, <2>9, <2>10
<1>2. Len(b) \in Nat
  OBVIOUS
<1>. QED  BY <1>1, <1>2

LEMMA FlattenNothing ==
  ASSUME NEW S, NEW seqs \in Seq(Seq(S)), \A i \in 1..Len(seqs) : seqs[i] = <<>>
  PROVE  FlattenSeq(seqs) = <<>>
<1>. DEFINE n == Len(seqs)
            f == [i \in 1..n |-> <<>>]
<1>1. n \in Nat
  OBVIOUS
<1>2. CASE n = 0
  <2>1. seqs = <<>>
    BY <1>2
  <2>. QED  BY <2>1, FlattenEmpty
<1>3. CASE n # 0
  <2>1. <<>> \o <<>> = <<>>
    <3>1. <<>> \in Seq(S)
      OBVIOUS
    <3>. QED  BY <3>1, ConcatEmptySeq
  <2>2. \A i \in 1..n : f[i] = IF i = 1 THEN seqs[i] ELSE f[i - 1] \o seqs[i]
    <3>. TAKE i \in 1..n
    <3>1. f[i] = <<>> /\ seqs[i] = <<>> /\ (i # 1 => f[i - 1] = <<>>)
      BY <1>1
    <3>. HIDE DEF f
    <3>. QED  BY <2>1, <3>1
  <2>3. f = [i \in 1..n |-> f[i]]
    OBVIOUS
  <2>4. IsFlatten(f, seqs, n)
    BY <2>2, <2>3 DEF IsFlatten
  <2>5. n > 0 /\ n \in 1..n /\ f[n] = <<>>
    BY <1>1, <1>3
  <2>. HIDE DEF f
  <2>. QED  BY <1>1, <2>4, <2>5, FlattenIs
<1>. QED  BY <1>2, <1>3

--------------------------------------------------------------------------------
(***************************************************************************)
(* The source around the generated code: what is shown of the output is    *)
(* what should be there, offset by offset, as far as the loops have come.  *)
(***************************************************************************)

\* What SourceAroundGenerated looks at in a part of the output.
Pieces(s) == [i \in DOMAIN s |-> IF Shown(s[i]) THEN <<s[i]>> ELSE <<>>]
ShownIn(s) == FlattenSeq(Pieces(s))

LEMMA PiecesTyped ==
  ASSUME NEW s \in Seq(Token)
  PROVE  /\ Pieces(s) \in Seq(Seq(Token)) /\ Len(Pieces(s)) = Len(s)
         /\ \A i \in 1..Len(s) : Pieces(s)[i] = IF Shown(s[i]) THEN <<s[i]>> ELSE <<>>
         /\ ShownIn(s) \in Seq(Token)
<1>. DEFINE n == Len(s)
<1>1. n \in Nat /\ DOMAIN s = 1..n /\ \A i \in 1..n : s[i] \in Token
  OBVIOUS
<1>2. \A i \in 1..n : (IF Shown(s[i]) THEN <<s[i]>> ELSE <<>>) \in Seq(Token)
  <2>. TAKE i \in 1..n
  <2>1. <<s[i]>> \in Seq(Token) /\ <<>> \in Seq(Token)
    BY <1>1
  <2>. QED  BY <2>1
<1>3. Pieces(s) \in [1..n -> Seq(Token)]
  BY <1>1, <1>2 DEF Pieces
<1>4. Pieces(s) \in Seq(Seq(Token)) /\ Len(Pieces(s)) = n
  BY <1>1, <1>3
<1>5. \A i \in 1..n : Pieces(s)[i] = IF Shown(s[i]) THEN <<s[i]>> ELSE <<>>
  BY <1>1 DEF Pieces
<1>. QED  BY <1>4, <1>5, FlattenTyped DEF ShownIn

LEMMA ShownJoined ==
  ASSUME NEW s \in Seq(Token), NEW t \in Seq(Token)
  PROVE  ShownIn(s \o t) = ShownIn(s) \o ShownIn(t)
<1>. DEFINE n == Len(s)
            m == Len(t)
            u == s \o t
            p == Pieces(s)
            q == Pieces(t)
            w == Pieces(u)
            v == p \o q
<1>1. n \in Nat /\ m \in Nat
  OBVIOUS
<1>2. /\ u \in Seq(Token) /\ Len(u) = n + m
      /\ \A i \in 1..(n + m) : u[i] = IF i <= n THEN s[i] ELSE t[i - n]
  BY ConcatProperties
<1>3. /\ p \in Seq(Seq(Token)) /\ Len(p) = n
      /\ \A i \in 1..n : p[i] = IF Shown(s[i]) THEN <<s[i]>> ELSE <<>>
  BY PiecesTyped
<1>4. /\ q \in Seq(Seq(Token)) /\ Len(q) = m
      /\ \A i \in 1..m : q[i] = IF Shown(t[i]) THEN <<t[i]>> ELSE <<>>
  BY PiecesTyped
<1>5. /\ w \in Seq(Seq(Token)) /\ Len(w) = n + m
      /\ \A i \in 1..(n + m) : w[i] = IF Shown(u[i]) THEN <<u[i]>> ELSE <<>>
  <2>. HIDE DEF u, n, m
  <2>. QED  BY <1>2, PiecesTyped
<1>6. /\ v \in Seq(Seq(Token)) /\ Len(v) = n + m
      /\ \A i \in 1..(n + m) : v[i] = IF i <= n THEN p[i] ELSE q[i - n]
  <2>. HIDE DEF p, q, n, m
  <2>. QED  BY <1>3, <1>4, ConcatProperties
<1>. HIDE DEF n, m, u, p, q, w, v
<1>7. \A i \in 1..(n + m) : w[i] = v[i]
  <2>. TAKE i \in 1..(n + m)
  <2>1. CASE i <= n
    <3>1. i \in 1..n
      BY <1>1, <2>1
    <3>. QED  BY <1>2, <1>3, <1>5, <1>6, <2>1, <3>1
  <2>2. CASE ~(i <= n)
    <3>1. i - n \in 1..m
      BY <1>1, <2>2
    <3>2. u[i] = t[i - n] /\ v[i] = q[i - n]
      BY <1>2, <1>6, <2>2
    <3>. QED  BY <1>4, <1>5, <3>1, <3>2
  <2>. QED  BY <2>1, <2>2
<1>8. w = v
  BY <1>1, <1>5, <1>6, <1>7, SeqEqual
<1>9. FlattenSeq(v) = FlattenSeq(p) \o FlattenSeq(q)
  BY <1>3, <1>4, FlattenConcat DEF v
<1>. QED  BY <1>8, <1>9 DEF ShownIn, u, p, q, w

LEMMA ShownNothing ==
  ASSUME NEW s \in Seq(Token), \A i \in 1..Len(s) : ~Shown(s[i])
  PROVE  ShownIn(s) = <<>>
<1>1. Pieces(s) \in Seq(Seq(Token)) /\ \A i \in 1..Len(Pieces(s)) : Pieces(s)[i] = <<>>
  BY PiecesTyped
<1>. QED  BY <1>1, FlattenNothing DEF ShownIn

LEMMA ShownToken ==
  ASSUME NEW t \in Token
  PROVE  ShownIn(<<t>>) = IF Shown(t) THEN <<t>> ELSE <<>>
<1>. DEFINE s == <<t>>
            x == IF Shown(t) THEN <<t>> ELSE <<>>
<1>1. s \in Seq(Token) /\ Len(s) = 1 /\ s[1] = t /\ 1 \in 1..1
  OBVIOUS
<1>. HIDE DEF s
<1>2. Pieces(s) \in Seq(Seq(Token)) /\ Len(Pieces(s)) = 1 /\ Pieces(s)[1] = x
  BY <1>1, PiecesTyped
<1>3. x \in Seq(Token)
  <2>1. <<t>> \in Seq(Token) /\ <<>> \in Seq(Token)
    OBVIOUS
  <2>. QED  BY <2>1
<1>. HIDE DEF x
<1>4. Pieces(s) = Append(<<>>, x)
  <2>1. Append(<<>>, x) \in Seq(Seq(Token)) /\ Len(Append(<<>>, x)) = 1 /\ Append(<<>>, x)[1] = x
    BY <1>3
  <2>2. \A i \in 1..1 : Pieces(s)[i] = Append(<<>>, x)[i]
    BY <1>2, <2>1
  <2>. QED  BY <1>2, <2>1, <2>2, SeqEqual
<1>5. FlattenSeq(Append(<<>>, x)) = <<>> \o x
  <2>1. <<>> \in Seq(Seq(Token))
    OBVIOUS
  <2>. QED  BY <1>3, <2>1, FlattenAppend, FlattenEmpty
<1>6. <<>> \o x = x
  BY <1>3, ConcatEmptySeq
<1>. QED  BY <1>4, <1>5, <1>6 DEF ShownIn, s, x

\* No token shows nothing.
LEMMA EmptyShown == <<>> \in Seq(Token) /\ ShownIn(<<>>) = <<>>
<1>1. Pieces(<<>>) = <<>>
  BY DEF Pieces
<1>2. <<>> \in Seq(Token)
  OBVIOUS
<1>. QED  BY <1>1, <1>2, FlattenEmpty DEF ShownIn

\* A token that is not shown.
LEMMA Unshown ==
  ASSUME NEW kind \in Kinds \ {"source", "generated"}, NEW n \in Nat, NEW m \in Nat
  PROVE  <<<<kind, n, m>>>> \in Seq(Token) /\ ShownIn(<<<<kind, n, m>>>>) = <<>>
<1>. DEFINE t == <<kind, n, m>>
<1>1. t \in Token /\ t[1] = kind
  BY DEF Token
<1>. HIDE DEF t
<1>2. ~Shown(t)
  BY <1>1 DEF Shown
<1>3. <<t>> \in Seq(Token) /\ ShownIn(<<t>>) = <<>>
  BY <1>1, <1>2, ShownToken
<1>. QED  BY <1>3 DEF t

\* What should be there of the first k replacements and up to an offset: Around as
\* far as the loops have come.
InsideOf(ks, c) == \E i \in DOMAIN ks : ks[i].start < c /\ c <= ks[i].stop
Char(c) == IF Contents[c] = "x" THEN <<<<"source", c, 0>>>> ELSE <<>>
CharAt(ks, c) ==
  IF c > 0 /\ Contents[c] = "x" /\ ~InsideOf(ks, c) THEN <<<<"source", c, 0>>>> ELSE <<>>
StartsAt(ks, k, c) == [i \in 1..k |-> IF ks[i].start = c THEN Generated(ks[i]) ELSE <<>>]
Piece(ks, k, c) == CharAt(ks, c) \o FlattenSeq(StartsAt(ks, k, c))
UpTo(ks, k, n) == [i \in 1..n |-> Piece(ks, k, i - 1)]
Expected(ks, k, c) == FlattenSeq(UpTo(ks, k, c + 1))

LEMMA GeneratedTyped ==
  ASSUME NEW r \in Repl
  PROVE  Generated(r) \in Seq(Token) /\ ShownIn(Generated(r)) = Generated(r)
<1>. DEFINE t == <<"generated", r.id, r.newlines>>
<1>1. r.newlines \in Nat
  BY DEF Repl
<1>2. r.id \in Nat
  BY ReplFields
<1>3. t \in Token /\ t[1] = "generated"
  BY <1>1, <1>2 DEF Token, Kinds
<1>. HIDE DEF t
<1>4. <<t>> \in Seq(Token) /\ ShownIn(<<t>>) = <<t>>
  BY <1>3, ShownToken DEF Shown
<1>. QED  BY <1>4 DEF Generated, t

LEMMA CharTyped ==
  ASSUME NEW c \in Nat
  PROVE  /\ Char(c) \in Seq(Token)
         /\ \A ks : CharAt(ks, c) \in Seq(Token)
<1>1. <<<<"source", c, 0>>>> \in Seq(Token) /\ <<>> \in Seq(Token)
  BY TokensTyped DEF Kinds
<1>. QED  BY <1>1 DEF Char, CharAt

LEMMA PieceTyped ==
  ASSUME NEW ks \in Seq(Repl), NEW k \in 0..Len(ks), NEW c \in Nat
  PROVE  /\ StartsAt(ks, k, c) \in Seq(Seq(Token)) /\ Len(StartsAt(ks, k, c)) = k
         /\ \A i \in 1..k : StartsAt(ks, k, c)[i] = IF ks[i].start = c THEN Generated(ks[i]) ELSE <<>>
         /\ FlattenSeq(StartsAt(ks, k, c)) \in Seq(Token)
         /\ Piece(ks, k, c) \in Seq(Token)
<1>1. k \in Nat /\ \A i \in 1..k : ks[i] \in Repl
  OBVIOUS
<1>2. \A i \in 1..k : (IF ks[i].start = c THEN Generated(ks[i]) ELSE <<>>) \in Seq(Token)
  <2>. TAKE i \in 1..k
  <2>1. Generated(ks[i]) \in Seq(Token) /\ <<>> \in Seq(Token)
    BY <1>1, GeneratedTyped
  <2>. QED  BY <2>1
<1>. DEFINE s == StartsAt(ks, k, c)
<1>3. s \in [1..k -> Seq(Token)]
  BY <1>2 DEF StartsAt
<1>4. s \in Seq(Seq(Token)) /\ Len(s) = k
  <2>. HIDE DEF s
  <2>. QED  BY <1>1, <1>3
<1>5. FlattenSeq(s) \in Seq(Token)
  <2>. HIDE DEF s
  <2>. QED  BY <1>4, FlattenTyped
<1>6. Piece(ks, k, c) \in Seq(Token)
  BY <1>5, CharTyped, ConcatProperties DEF Piece
<1>7. \A i \in 1..k : s[i] = IF ks[i].start = c THEN Generated(ks[i]) ELSE <<>>
  BY DEF StartsAt
<1>. QED  BY <1>4, <1>5, <1>6, <1>7

LEMMA UpToTyped ==
  ASSUME NEW ks \in Seq(Repl), NEW k \in 0..Len(ks), NEW n \in Nat
  PROVE  /\ UpTo(ks, k, n) \in Seq(Seq(Token)) /\ Len(UpTo(ks, k, n)) = n
         /\ \A i \in 1..n : UpTo(ks, k, n)[i] = Piece(ks, k, i - 1)
         /\ FlattenSeq(UpTo(ks, k, n)) \in Seq(Token)
<1>1. \A i \in 1..n : Piece(ks, k, i - 1) \in Seq(Token)
  <2>. TAKE i \in 1..n
  <2>1. i - 1 \in Nat
    OBVIOUS
  <2>. QED  BY <2>1, PieceTyped
<1>2. UpTo(ks, k, n) \in [1..n -> Seq(Token)]
  BY <1>1 DEF UpTo
<1>3. UpTo(ks, k, n) \in Seq(Seq(Token)) /\ Len(UpTo(ks, k, n)) = n
  BY <1>2
<1>4. \A i \in 1..n : UpTo(ks, k, n)[i] = Piece(ks, k, i - 1)
  BY DEF UpTo
<1>. QED  BY <1>3, <1>4, FlattenTyped

\* From one offset to a later one.
LEMMA Extended ==
  ASSUME NEW ks \in Seq(Repl), NEW k \in 0..Len(ks), NEW a \in Nat, NEW b \in Nat, a <= b,
         NEW s \in Seq(Seq(Token)), Len(s) = b - a,
         \A j \in 1..(b - a) : s[j] = Piece(ks, k, a + j)
  PROVE  Expected(ks, k, b) = Expected(ks, k, a) \o FlattenSeq(s)
<1>. DEFINE u == UpTo(ks, k, a + 1)
            w == UpTo(ks, k, b + 1)
            v == u \o s
<1>1. /\ u \in Seq(Seq(Token)) /\ Len(u) = a + 1
      /\ \A i \in 1..(a + 1) : u[i] = Piece(ks, k, i - 1)
  <2>1. a + 1 \in Nat
    OBVIOUS
  <2>. QED  BY <2>1, UpToTyped
<1>2. /\ w \in Seq(Seq(Token)) /\ Len(w) = b + 1
      /\ \A i \in 1..(b + 1) : w[i] = Piece(ks, k, i - 1)
  <2>1. b + 1 \in Nat
    OBVIOUS
  <2>. QED  BY <2>1, UpToTyped
<1>. HIDE DEF u, w
<1>3. /\ v \in Seq(Seq(Token)) /\ Len(v) = b + 1
      /\ \A i \in 1..(b + 1) : v[i] = IF i <= a + 1 THEN u[i] ELSE s[i - (a + 1)]
  <2>1. /\ v \in Seq(Seq(Token)) /\ Len(v) = Len(u) + Len(s)
        /\ \A i \in 1..(Len(u) + Len(s)) : v[i] = IF i <= Len(u) THEN u[i] ELSE s[i - Len(u)]
    BY <1>1, ConcatProperties
  <2>2. Len(u) + Len(s) = b + 1
    BY <1>1
  <2>. HIDE DEF v
  <2>. QED  BY <1>1, <2>1, <2>2
<1>. HIDE DEF v
<1>4. \A i \in 1..(b + 1) : w[i] = v[i]
  <2>. TAKE i \in 1..(b + 1)
  <2>1. CASE i <= a + 1
    BY <1>1, <1>2, <1>3, <2>1
  <2>2. CASE ~(i <= a + 1)
    <3>. DEFINE j == i - (a + 1)
    <3>1. j \in 1..(b - a) /\ a + j = i - 1
      BY <2>2
    <3>2. v[i] = s[j]
      BY <1>3, <2>2
    <3>. HIDE DEF j
    <3>. QED  BY <1>2, <3>1, <3>2
  <2>. QED  BY <2>1, <2>2
<1>5. w = v
  BY <1>2, <1>3, <1>4, SeqEqual
<1>6. FlattenSeq(v) = FlattenSeq(u) \o FlattenSeq(s)
  BY <1>1, FlattenConcat DEF v
<1>. QED  BY <1>5, <1>6 DEF Expected, u, w

LEMMA ExpectedTyped ==
  ASSUME NEW ks \in Seq(Repl), NEW k \in 0..Len(ks), NEW c \in Nat
  PROVE  Expected(ks, k, c) \in Seq(Token)
<1>1. c + 1 \in Nat
  OBVIOUS
<1>. QED  BY <1>1, UpToTyped DEF Expected

\* Where there is nothing to show, nothing is expected.
LEMMA ExtendedByNothing ==
  ASSUME NEW ks \in Seq(Repl), NEW k \in 0..Len(ks), NEW a \in Nat, NEW b \in Nat, a <= b,
         \A c \in a + 1..b : Piece(ks, k, c) = <<>>
  PROVE  Expected(ks, k, b) = Expected(ks, k, a)
<1>. DEFINE s == [j \in 1..(b - a) |-> <<>>]
<1>1. b - a \in Nat
  OBVIOUS
<1>2. s \in Seq(Seq(Token)) /\ Len(s) = b - a /\ \A j \in 1..(b - a) : s[j] = <<>>
  <2>1. s \in [1..(b - a) -> Seq(Token)]
    BY EmptySeq
  <2>. QED  BY <1>1, <2>1
<1>. HIDE DEF s
<1>3. \A j \in 1..(b - a) : s[j] = Piece(ks, k, a + j)
  <2>. TAKE j \in 1..(b - a)
  <2>1. a + j \in a + 1..b
    OBVIOUS
  <2>. QED  BY <1>2, <2>1
<1>4. FlattenSeq(s) = <<>>
  BY <1>2, FlattenNothing
<1>5. Expected(ks, k, b) = Expected(ks, k, a) \o FlattenSeq(s)
  BY <1>2, <1>3, Extended
<1>. QED  BY <1>4, <1>5, ExpectedTyped, ConcatEmptySeq

\* Where every character is to be shown, the source that is copied is expected.
LEMMA ExtendedBySource ==
  ASSUME NEW ks \in Seq(Repl), NEW k \in 0..Len(ks), NEW a \in Nat, NEW b \in Nat, a <= b,
         Source(a, b) \in Seq(Token), Len(Source(a, b)) = b - a,
         \A c \in a + 1..b : Piece(ks, k, c) = Char(c)
  PROVE  Expected(ks, k, b) = Expected(ks, k, a) \o ShownIn(Source(a, b))
<1>. DEFINE s == Source(a, b)
            p == Pieces(s)
<1>1. /\ p \in Seq(Seq(Token)) /\ Len(p) = b - a
      /\ \A j \in 1..(b - a) : p[j] = IF Shown(s[j]) THEN <<s[j]>> ELSE <<>>
  <2>. HIDE DEF s
  <2>1. s \in Seq(Token) /\ Len(s) = b - a
    BY DEF s
  <2>. QED  BY <2>1, PiecesTyped
<1>2. \A j \in 1..(b - a) : p[j] = Piece(ks, k, a + j)
  <2>. TAKE j \in 1..(b - a)
  <2>. DEFINE c == a + j
  <2>1. c \in a + 1..b
    OBVIOUS
  <2>2. s[j] = <<"source", c, 0>>
    BY DEF Source
  <2>3. Shown(s[j]) <=> Contents[c] = "x"
    <3>. HIDE DEF s, c
    <3>. QED  BY <2>2 DEF Shown
  <2>. HIDE DEF s, p, c
  <2>4. p[j] = Char(c)
    BY <1>1, <2>2, <2>3 DEF Char
  <2>5. Piece(ks, k, c) = Char(c)
    BY <2>1
  <2>. QED  BY <2>4, <2>5 DEF c
<1>. HIDE DEF p, s
<1>3. Expected(ks, k, b) = Expected(ks, k, a) \o FlattenSeq(p)
  BY <1>1, <1>2, Extended
<1>. QED  BY <1>3 DEF ShownIn, p, s

\* One replacement more, from where it starts to where it stops.
LEMMA NextPiece ==
  ASSUME NEW ks \in Seq(Repl), NEW k \in Nat, k + 1 \in 1..Len(ks), NEW c \in Nat
  PROVE  /\ ks[k + 1].start = c => Piece(ks, k + 1, c) = Piece(ks, k, c) \o Generated(ks[k + 1])
         /\ ks[k + 1].start # c => Piece(ks, k + 1, c) = Piece(ks, k, c)
<1>. DEFINE s == StartsAt(ks, k, c)
            t == StartsAt(ks, k + 1, c)
            r == ks[k + 1]
            x == IF r.start = c THEN Generated(r) ELSE <<>>
            n == k + 1
            v == Append(s, x)
<1>0. k \in 0..Len(ks) /\ n \in 0..Len(ks) /\ n \in 1..n /\ r \in Repl
  OBVIOUS
<1>1. /\ s \in Seq(Seq(Token)) /\ Len(s) = k /\ FlattenSeq(s) \in Seq(Token)
      /\ \A i \in 1..k : s[i] = IF ks[i].start = c THEN Generated(ks[i]) ELSE <<>>
  BY <1>0, PieceTyped
<1>2. /\ t \in Seq(Seq(Token)) /\ Len(t) = n
      /\ \A i \in 1..n : t[i] = IF ks[i].start = c THEN Generated(ks[i]) ELSE <<>>
  <2>. HIDE DEF n
  <2>1. /\ StartsAt(ks, n, c) \in Seq(Seq(Token)) /\ Len(StartsAt(ks, n, c)) = n
        /\ \A i \in 1..n : StartsAt(ks, n, c)[i] = IF ks[i].start = c THEN Generated(ks[i]) ELSE <<>>
    BY <1>0, PieceTyped
  <2>. QED  BY <2>1 DEF n
<1>3. x \in Seq(Token)
  <2>1. Generated(r) \in Seq(Token) /\ <<>> \in Seq(Token)
    BY <1>0, GeneratedTyped
  <2>. QED  BY <2>1
<1>4. CharAt(ks, c) \in Seq(Token)
  BY CharTyped
<1>. HIDE DEF s, t
<1>5. v \in Seq(Seq(Token)) /\ Len(v) = n /\ v[n] = x /\ \A i \in 1..k : v[i] = s[i]
  <2>. HIDE DEF x
  <2>. QED  BY <1>1, <1>3
<1>6. t = v
  <2>1. t[n] = x
    <3>1. t[n] = IF ks[n].start = c THEN Generated(ks[n]) ELSE <<>>
      BY <1>0, <1>2
    <3>. QED  BY <3>1
  <2>2. \A i \in 1..n : t[i] = v[i]
    <3>. HIDE DEF v, x
    <3>. TAKE i \in 1..n
    <3>1. CASE i = n
      BY <1>5, <2>1, <3>1
    <3>2. CASE i # n
      <4>1. i \in 1..k
        BY <3>2
      <4>. QED  BY <1>1, <1>2, <1>5, <4>1
    <3>. QED  BY <3>1, <3>2
  <2>. HIDE DEF v, n
  <2>. QED  BY <1>2, <1>5, <2>2, SeqEqual
<1>7. FlattenSeq(t) = FlattenSeq(s) \o x
  <2>. HIDE DEF x
  <2>. QED  BY <1>1, <1>3, <1>6, FlattenAppend
<1>8. Piece(ks, k + 1, c) = Piece(ks, k, c) \o x
  <2>1. CharAt(ks, c) \o (FlattenSeq(s) \o x) = (CharAt(ks, c) \o FlattenSeq(s)) \o x
    <3>. HIDE DEF x
    <3>1. Associates(CharAt(ks, c), FlattenSeq(s), x)
      BY <1>1, <1>3, <1>4, Associative
    <3>. QED  BY <3>1 DEF Associates
  <2>. QED  BY <1>7, <2>1 DEF Piece, s, t
<1>9. Piece(ks, k, c) \in Seq(Token)
  BY <1>0, PieceTyped
<1>10. CASE r.start = c
  BY <1>8, <1>10
<1>11. CASE r.start # c
  <2>1. Piece(ks, k, c) \o <<>> = Piece(ks, k, c)
    BY <1>9, ConcatEmptySeq
  <2>. QED  BY <1>8, <1>11, <2>1
<1>. QED  BY <1>10, <1>11

LEMMA PieceWithout ==
  ASSUME NEW ks \in Seq(Repl), NEW k \in 0..Len(ks), NEW c \in Nat,
         \A i \in 1..k : ks[i].start # c
  PROVE  Piece(ks, k, c) = CharAt(ks, c)
<1>. DEFINE s == StartsAt(ks, k, c)
<1>1. s \in Seq(Seq(Token)) /\ \A i \in 1..Len(s) : s[i] = <<>>
  <2>1. /\ s \in Seq(Seq(Token)) /\ Len(s) = k
        /\ \A i \in 1..k : s[i] = IF ks[i].start = c THEN Generated(ks[i]) ELSE <<>>
    BY PieceTyped
  <2>. HIDE DEF s
  <2>2. \A i \in 1..k : s[i] = <<>>
    BY <2>1
  <2>. QED  BY <2>1, <2>2
<1>2. FlattenSeq(s) = <<>>
  <2>. HIDE DEF s
  <2>. QED  BY <1>1, FlattenNothing
<1>3. CharAt(ks, c) \o <<>> = CharAt(ks, c)
  BY CharTyped, ConcatEmptySeq
<1>. QED  BY <1>2, <1>3 DEF Piece

Ordered(ks) == \A i, j \in DOMAIN ks : i < j => ks[i].stop <= ks[j].start

LEMMA NextReplacement ==
  ASSUME NEW ks \in Seq(Repl), Ordered(ks), NEW k \in Nat, k + 1 \in 1..Len(ks)
  PROVE  Expected(ks, k + 1, ks[k + 1].stop) = Expected(ks, k, ks[k + 1].start) \o Generated(ks[k + 1])
<1>. DEFINE n == k + 1
            r == ks[n]
            a == r.start
            b == r.stop
<1>1. /\ k \in 0..Len(ks) /\ n \in 0..Len(ks) /\ n \in 1..n /\ r \in Repl /\ n \in DOMAIN ks
      /\ \A i \in 1..k : i \in DOMAIN ks /\ ks[i] \in Repl
  OBVIOUS
<1>2. a \in Nat /\ b \in Nat /\ a <= b
  <2>. HIDE DEF r
  <2>1. r.start \in Nat /\ r.stop \in Nat
    BY <1>1, LengthTyped DEF Repl
  <2>. QED  BY <1>1, <2>1, ReplBounds
<1>3. \A i \in 1..k : ks[i].start <= a /\ ks[i].start \in Int
  <2>. TAKE i \in 1..k
  <2>1. ks[i].start \in Int /\ ks[i].stop \in Int /\ ks[i].start <= ks[i].stop
    BY <1>1, ReplBounds
  <2>2. ks[i].stop <= a
    <3>1. i < n /\ i \in DOMAIN ks
      BY <1>1
    <3>. HIDE DEF n
    <3>. QED  BY <1>1, <3>1 DEF Ordered
  <2>. HIDE DEF a
  <2>. QED  BY <1>2, <2>1, <2>2
<1>. DEFINE u == UpTo(ks, k, a)
            w == UpTo(ks, k, a + 1)
            v == UpTo(ks, n, a + 1)
            P == Piece(ks, k, a)
            Q == Piece(ks, n, a)
<1>4. /\ u \in Seq(Seq(Token)) /\ Len(u) = a /\ FlattenSeq(u) \in Seq(Token)
      /\ \A i \in 1..a : u[i] = Piece(ks, k, i - 1)
  BY <1>1, <1>2, UpToTyped
<1>5. /\ w \in Seq(Seq(Token)) /\ Len(w) = a + 1
      /\ \A i \in 1..(a + 1) : w[i] = Piece(ks, k, i - 1)
  <2>1. a + 1 \in Nat
    BY <1>2
  <2>. HIDE DEF a
  <2>. QED  BY <1>1, <2>1, UpToTyped
<1>6. /\ v \in Seq(Seq(Token)) /\ Len(v) = a + 1
      /\ \A i \in 1..(a + 1) : v[i] = Piece(ks, n, i - 1)
  <2>1. a + 1 \in Nat
    BY <1>2
  <2>. HIDE DEF a, n
  <2>. QED  BY <1>1, <2>1, UpToTyped
<1>7. P \in Seq(Token) /\ Q \in Seq(Token) /\ Generated(r) \in Seq(Token)
  <2>. HIDE DEF n, a, r
  <2>. QED  BY <1>1, <1>2, PieceTyped, GeneratedTyped
<1>8. Q = P \o Generated(r) /\ \A c \in Nat : c # a => Piece(ks, n, c) = Piece(ks, k, c)
  BY <1>2, NextPiece
<1>. HIDE DEF u, v, w, P, Q
<1>9. w = Append(u, P) /\ v = Append(u, Q)
  <2>1. /\ Append(u, P) \in Seq(Seq(Token)) /\ Len(Append(u, P)) = a + 1 /\ Append(u, P)[a + 1] = P
        /\ Append(u, Q) \in Seq(Seq(Token)) /\ Len(Append(u, Q)) = a + 1 /\ Append(u, Q)[a + 1] = Q
        /\ \A i \in 1..a : Append(u, P)[i] = u[i] /\ Append(u, Q)[i] = u[i]
    <3>. HIDE DEF a
    <3>. QED  BY <1>2, <1>4, <1>7
  <2>2. \A i \in 1..(a + 1) : w[i] = Append(u, P)[i] /\ v[i] = Append(u, Q)[i]
    <3>. HIDE DEF a, n
    <3>. TAKE i \in 1..(a + 1)
    <3>1. CASE i = a + 1
      <4>1. i - 1 = a
        BY <1>2, <3>1
      <4>2. w[i] = P /\ v[i] = Q
        BY <1>5, <1>6, <4>1 DEF P, Q
      <4>. QED  BY <2>1, <3>1, <4>2
    <3>2. CASE i # a + 1
      <4>1. i \in 1..a /\ i - 1 \in Nat /\ i - 1 # a
        BY <1>2, <3>2
      <4>2. w[i] = u[i]
        BY <1>4, <1>5, <4>1
      <4>3. v[i] = u[i]
        BY <1>4, <1>6, <1>8, <4>1
      <4>. QED  BY <2>1, <4>1, <4>2, <4>3
    <3>. QED  BY <3>1, <3>2
  <2>. HIDE DEF a
  <2>. QED  BY <1>5, <1>6, <2>1, <2>2, SeqEqual
<1>10. Expected(ks, n, a) = Expected(ks, k, a) \o Generated(r)
  <2>1. FlattenSeq(w) = FlattenSeq(u) \o P /\ FlattenSeq(v) = FlattenSeq(u) \o Q
    BY <1>4, <1>7, <1>9, FlattenAppend
  <2>2. FlattenSeq(u) \o (P \o Generated(r)) = (FlattenSeq(u) \o P) \o Generated(r)
    <3>. HIDE DEF r
    <3>1. Associates(FlattenSeq(u), P, Generated(r))
      BY <1>4, <1>7, Associative
    <3>. QED  BY <3>1 DEF Associates
  <2>3. Expected(ks, k, a) = FlattenSeq(w) /\ Expected(ks, n, a) = FlattenSeq(v)
    BY DEF Expected, w, v
  <2>. HIDE DEF n, a, r
  <2>. QED  BY <1>8, <2>1, <2>2, <2>3
<1>11. Expected(ks, n, b) = Expected(ks, n, a)
  <2>1. ASSUME NEW c \in a + 1..b PROVE Piece(ks, n, c) = <<>>
    <3>1. c \in Nat /\ a < c /\ c <= b /\ c > 0
      BY <1>2
    <3>2. \A i \in 1..n : ks[i].start # c
      <4>. TAKE i \in 1..n
      <4>1. CASE i = n
        <5>1. ks[i].start = a
          BY <4>1
        <5>. HIDE DEF a
        <5>. QED  BY <1>2, <3>1, <5>1
      <4>2. CASE i # n
        <5>1. i \in 1..k
          BY <4>2
        <5>2. ks[i].start <= a /\ ks[i].start \in Int
          BY <1>3, <5>1
        <5>. HIDE DEF a
        <5>. QED  BY <1>2, <3>1, <5>2
      <4>. QED  BY <4>1, <4>2
    <3>3. InsideOf(ks, c)
      <4>1. n \in DOMAIN ks /\ ks[n].start < c /\ c <= ks[n].stop
        BY <1>1, <3>1
      <4>. QED  BY <4>1 DEF InsideOf
    <3>4. Piece(ks, n, c) = CharAt(ks, c)
      <4>. HIDE DEF n
      <4>. QED  BY <1>1, <3>1, <3>2, PieceWithout
    <3>. QED  BY <3>3, <3>4 DEF CharAt
  <2>. HIDE DEF n, a, b
  <2>. QED  BY <1>1, <1>2, <2>1, ExtendedByNothing
<1>. QED  BY <1>10, <1>11

\* Nothing is shown of the blanks that are skipped.
LEMMA SkippedBlank ==
  ASSUME NEW c \in 0..Length
  PROVE  \A i \in c + 1..SkipBlankEol(At(c)).cnum : Contents[i] # "x"
<1>. DEFINE p == At(c)
           Ends == {i \in p.cnum..Length : i = Length \/ Contents[i + 1] # "blank"}
           e == Min(Ends)
<1>0. p.cnum = c
  BY AtTyped
<1>1. p.cnum = c /\ Length \in Nat /\ c \in Nat
  BY <1>0, LengthTyped
<1>2. e \in Ends /\ \A i \in Ends : e <= i
  <2>1. Ends \in SUBSET Nat /\ Length \in Ends
    BY <1>1
  <2>. HIDE DEF Ends
  <2>. QED  BY <2>1, MinTyped
<1>3. SkipBlankEol(p) = IF e = Length THEN [p EXCEPT !.cnum = e]
                        ELSE IF Contents[e + 1] = "newline"
                        THEN [cnum |-> e + 1, lnum |-> p.lnum + 1, bol |-> e + 1]
                        ELSE p
  BY DEF SkipBlankEol
<1>4. e \in c..Length /\ e \in Nat
  BY <1>1, <1>2
<1>5. \A i \in c + 1..e : Contents[i] = "blank"
  <2>. TAKE i \in c + 1..e
  <2>1. i - 1 \in c..Length /\ i - 1 # Length /\ ~(e <= i - 1) /\ i - 1 + 1 = i
    BY <1>1, <1>4
  <2>2. i - 1 \notin Ends
    BY <1>2, <2>1
  <2>. QED  BY <1>1, <2>1, <2>2
<1>6. [p EXCEPT !.cnum = e].cnum = e
  BY DEF At
<1>. HIDE DEF e, Ends, p
<1>7. CASE e = Length
  <2>1. SkipBlankEol(p).cnum = e
    BY <1>3, <1>6, <1>7
  <2>. QED  BY <1>5, <2>1 DEF p
<1>8. CASE e # Length /\ Contents[e + 1] = "newline"
  <2>1. SkipBlankEol(p).cnum = e + 1
    BY <1>3, <1>8
  <2>2. \A i \in c + 1..(e + 1) : i \in c + 1..e \/ i = e + 1
    BY <1>1, <1>4
  <2>. QED  BY <1>5, <1>8, <2>1, <2>2 DEF p
<1>9. CASE e # Length /\ Contents[e + 1] # "newline"
  <2>1. SkipBlankEol(p).cnum = c
    BY <1>1, <1>3, <1>9
  <2>2. \A i \in c + 1..c : FALSE
    BY <1>1
  <2>. QED  BY <2>1, <2>2 DEF p
<1>. QED  BY <1>7, <1>8, <1>9

LEMMA AfterBlank ==
  ASSUME pos \in Position, pos = At(pos.cnum)
  PROVE  \A i \in pos.cnum + 1..After(pos).cnum : Contents[i] # "x"
<1>1. pos.cnum \in 0..Length
  BY DEF Position
<1>2. CASE lastIsText
  <2>1. After(pos) = pos /\ \A i \in pos.cnum + 1..pos.cnum : FALSE
    BY <1>1, <1>2, LengthTyped DEF After
  <2>. QED  BY <2>1
<1>3. CASE ~lastIsText
  <2>1. After(pos) = SkipBlankEol(At(pos.cnum))
    BY <1>3 DEF After
  <2>. QED  BY <1>1, <2>1, SkippedBlank
<1>. QED  BY <1>2, <1>3

--------------------------------------------------------------------------------
\* What the loops have dealt with.
Emitted == Len(kept) - Len(todo)
LoopInv ==
  /\ Emitted \in Nat
  /\ \A i \in 1..Len(todo) : todo[i] = kept[Emitted + i]
  /\ \A i \in 1..Emitted : kept[i].stop <= pos.cnum
  /\ todo # <<>> => pos.cnum <= Head(todo).start
  /\ ShownIn(out) = Expected(kept, Emitted, pos.cnum)

TextInv ==
  /\ DirectivesInv
  /\ phase \notin {"emitting", "done"} => pos.cnum = 0
  /\ phase = "emitting" => LoopInv
  /\ phase = "done" => ShownIn(out) = Expected(kept, Len(kept), Length)

\* The facts of a state in which the loops run.
LEMMA LoopFacts ==
  ASSUME TextInv, phase = "emitting"
  PROVE  /\ kept \in Seq(Repl) /\ todo \in Seq(Repl) /\ out \in Seq(Token) /\ Ordered(kept)
         /\ Emitted \in Nat /\ Emitted \in 0..Len(kept) /\ Len(todo) = Len(kept) - Emitted
         /\ pos \in Position /\ pos = At(pos.cnum) /\ pos.cnum \in Nat /\ pos.cnum \in 0..Length
         /\ After(pos).cnum \in pos.cnum..Length
         /\ \A i \in 1..Len(kept) :
              /\ kept[i] \in Repl /\ kept[i].start \in Int /\ kept[i].stop \in Int
              /\ kept[i].start <= kept[i].stop
<1>1. TypeOK /\ pos = At(pos.cnum) /\ KeptInOrder
  BY DEF TextInv, DirectivesInv, PositionInv, OutermostInv, IInv
<1>2. kept \in Seq(Repl) /\ todo \in Seq(Repl) /\ out \in Seq(Token) /\ pos \in Position
  BY <1>1 DEF TypeOK
<1>3. pos.cnum \in 0..Length /\ Length \in Nat
  BY <1>2, LengthTyped DEF Position
<1>4. After(pos).cnum \in pos.cnum..Length
  BY <1>1, <1>2, AfterTyped
<1>5. Emitted \in Nat
  BY DEF TextInv, LoopInv
<1>6. Emitted \in 0..Len(kept) /\ Len(todo) = Len(kept) - Emitted
  BY <1>2, <1>5 DEF Emitted
<1>7. Ordered(kept)
  BY <1>1 DEF KeptInOrder, Ordered
<1>8. \A i \in 1..Len(kept) : kept[i] \in Repl
  BY <1>2
<1>9. \A i \in 1..Len(kept) :
        kept[i].start \in Int /\ kept[i].stop \in Int /\ kept[i].start <= kept[i].stop
  BY <1>8, ReplBounds
<1>. QED  BY <1>1, <1>2, <1>3, <1>4, <1>5, <1>6, <1>7, <1>8, <1>9

\* No replacement that is done starts after the position.
LEMMA NoneStarts ==
  ASSUME TextInv, phase = "emitting", NEW c \in Nat, c > pos.cnum
  PROVE  Piece(kept, Emitted, c) = CharAt(kept, c)
<1>1. \A i \in 1..Emitted : kept[i].start # c
  <2>. TAKE i \in 1..Emitted
  <2>1. i \in 1..Len(kept)
    BY LoopFacts
  <2>2. kept[i].stop <= pos.cnum /\ pos.cnum \in Nat
    BY LoopFacts DEF TextInv, LoopInv
  <2>3. kept[i].start \in Int /\ kept[i].stop \in Int /\ kept[i].start <= kept[i].stop
    BY <2>1, LoopFacts
  <2>. QED  BY <2>2, <2>3
<1>. QED  BY <1>1, LoopFacts, PieceWithout

\* Up to where blanks are skipped nothing is expected.
LEMMA SkippedExpected ==
  ASSUME TextInv, phase = "emitting", NEW b \in pos.cnum..After(pos).cnum
  PROVE  ShownIn(out) = Expected(kept, Emitted, b)
<1>1. /\ pos.cnum \in Nat /\ After(pos).cnum \in Nat /\ b \in Nat /\ pos.cnum <= b
      /\ kept \in Seq(Repl) /\ Emitted \in 0..Len(kept)
  BY LoopFacts, LengthTyped
<1>2. ASSUME NEW c \in pos.cnum + 1..b PROVE Piece(kept, Emitted, c) = <<>>
  <2>1. c \in Nat /\ c > pos.cnum /\ c \in pos.cnum + 1..After(pos).cnum
    BY <1>1
  <2>2. Contents[c] # "x"
    BY <2>1, LoopFacts, AfterBlank
  <2>. QED  BY <2>1, <2>2, NoneStarts DEF CharAt
<1>3. Expected(kept, Emitted, b) = Expected(kept, Emitted, pos.cnum)
  BY <1>1, <1>2, ExtendedByNothing
<1>. QED  BY <1>3 DEF TextInv, LoopInv

\* copy_input shows what is expected up to where it copies.
LEMMA CopyShown ==
  ASSUME TextInv, phase = "emitting", NEW b \in 0..Length, pos.cnum <= b, NEW isText,
         \A c \in pos.cnum + 1..b : ~InsideOf(kept, c)
  PROVE  /\ CopyInput(b, isText).out \in Seq(Token)
         /\ ShownIn(out) \o ShownIn(CopyInput(b, isText).out) = Expected(kept, Emitted, b)
<1>. DEFINE p == After(pos)
            added == ~isText /\ Contents[b] # "newline"
            directive == IF target = "line_directives"
                         THEN <<<<"to_source", p.lnum, p.cnum - p.bol>>>> ELSE <<>>
            newline == IF added THEN <<<<"newline", 0, 0>>>> ELSE <<>>
            source == Source(p.cnum, b)
            copied == CopyInput(b, isText).out
<1>1. /\ pos.cnum \in Nat /\ p.cnum \in Nat /\ b \in Nat /\ p.cnum \in 0..Length /\ pos.cnum <= p.cnum
      /\ kept \in Seq(Repl) /\ Emitted \in 0..Len(kept) /\ out \in Seq(Token)
  BY LoopFacts, LengthTyped
<1>2. ShownIn(out) \in Seq(Token)
  BY <1>1, PiecesTyped
<1>3. copied \in Seq(Token)
  BY LoopFacts, CopyTyped DEF TextInv, DirectivesInv, PositionInv, TypeOK
<1>4. CASE p.cnum >= b
  <2>1. copied = <<>>
    BY <1>4 DEF CopyInput
  <2>2. ShownIn(copied) = <<>>
    <3>. HIDE DEF copied
    <3>. QED  BY <2>1, EmptyShown
  <2>3. ShownIn(out) \o <<>> = ShownIn(out)
    BY <1>2, ConcatEmptySeq
  <2>4. ShownIn(out) = Expected(kept, Emitted, b)
    <3>1. b \in pos.cnum..p.cnum
      BY <1>1, <1>4
    <3>. QED  BY <3>1, SkippedExpected
  <2>. QED  BY <1>3, <2>2, <2>3, <2>4
<1>5. CASE ~(p.cnum >= b)
  <2>1. copied = directive \o source \o newline
    BY <1>5 DEF CopyInput, Source
  <2>2. p.cnum < b
    BY <1>1, <1>5
  <2>3. source \in Seq(Token) /\ Len(source) = b - p.cnum
    BY <1>1, <2>2, SourceLines
  <2>4. directive \in Seq(Token) /\ ShownIn(directive) = <<>>
    <3>1. p.lnum \in Nat /\ p.cnum - p.bol \in Nat
      BY LoopFacts, AfterTyped
    <3>. DEFINE t == <<"to_source", p.lnum, p.cnum - p.bol>>
    <3>2. t \in Token /\ t[1] = "to_source"
      BY <3>1 DEF Token, Kinds
    <3>. HIDE DEF t
    <3>3. <<t>> \in Seq(Token) /\ ShownIn(<<t>>) = <<>>
      BY <3>2, ShownToken DEF Shown
    <3>4. <<>> \in Seq(Token) /\ ShownIn(<<>>) = <<>>
      BY EmptyShown
    <3>5. directive = <<t>> \/ directive = <<>>
      BY DEF t
    <3>. HIDE DEF directive
    <3>. QED  BY <3>3, <3>4, <3>5
  <2>5. newline \in Seq(Token) /\ ShownIn(newline) = <<>>
    <3>. DEFINE t == <<"newline", 0, 0>>
    <3>2. t \in Token /\ t[1] = "newline"
      BY DEF Token, Kinds
    <3>. HIDE DEF t
    <3>3. <<t>> \in Seq(Token) /\ ShownIn(<<t>>) = <<>>
      BY <3>2, ShownToken DEF Shown
    <3>4. <<>> \in Seq(Token) /\ ShownIn(<<>>) = <<>>
      BY EmptyShown
    <3>5. newline = <<t>> \/ newline = <<>>
      BY DEF t
    <3>. HIDE DEF newline
    <3>. QED  BY <3>3, <3>4, <3>5
  <2>. HIDE DEF directive, source, newline
  <2>6. ShownIn(copied) = ShownIn(source)
    <3>1. directive \o source \in Seq(Token) /\ ShownIn(directive \o source) = <<>> \o ShownIn(source)
      BY <2>3, <2>4, ShownJoined, ConcatProperties
    <3>2. ShownIn(directive \o source \o newline) = (<<>> \o ShownIn(source)) \o <<>>
      BY <2>5, <3>1, ShownJoined
    <3>3. ShownIn(source) \in Seq(Token)
      BY <2>3, PiecesTyped
    <3>4. (<<>> \o ShownIn(source)) \o <<>> = ShownIn(source)
      BY <3>3, ConcatEmptySeq
    <3>. HIDE DEF copied
    <3>. QED  BY <2>1, <3>2, <3>4
  <2>7. ShownIn(out) = Expected(kept, Emitted, p.cnum)
    <3>1. p.cnum \in pos.cnum..p.cnum
      BY <1>1
    <3>. QED  BY <3>1, SkippedExpected
  <2>8. Expected(kept, Emitted, b) = Expected(kept, Emitted, p.cnum) \o ShownIn(source)
    <3>1. ASSUME NEW c \in p.cnum + 1..b PROVE Piece(kept, Emitted, c) = Char(c)
      <4>1. c \in Nat /\ c > pos.cnum /\ c > 0 /\ c \in pos.cnum + 1..b
        BY <1>1
      <4>2. Piece(kept, Emitted, c) = CharAt(kept, c)
        BY <4>1, NoneStarts
      <4>3. ~InsideOf(kept, c)
        BY <4>1
      <4>. QED  BY <4>1, <4>2, <4>3 DEF CharAt, Char
    <3>2. /\ p.cnum <= b /\ Source(p.cnum, b) \in Seq(Token) /\ Len(Source(p.cnum, b)) = b - p.cnum
          /\ \A c \in p.cnum + 1..b : Piece(kept, Emitted, c) = Char(c)
      BY <1>1, <2>2, <2>3, <3>1 DEF source
    <3>. HIDE DEF p
    <3>3. Expected(kept, Emitted, b) = Expected(kept, Emitted, p.cnum) \o ShownIn(Source(p.cnum, b))
      BY <1>1, <3>2, ExtendedBySource
    <3>. QED  BY <3>3 DEF source
  <2>. QED  BY <1>3, <2>6, <2>7, <2>8
<1>. QED  BY <1>4, <1>5

\* What comes next is the first that is left, and nothing is inside of it before.
LEMMA NextFacts ==
  ASSUME TextInv, phase = "emitting", todo # <<>>
  PROVE  /\ Emitted + 1 \in 1..Len(kept) /\ Head(todo) = kept[Emitted + 1] /\ Head(todo) \in Repl
         /\ Head(todo).start \in 0..Length /\ Head(todo).stop \in 0..Length
         /\ Head(todo).start <= Head(todo).stop
         /\ pos.cnum <= Head(todo).start
         /\ \A c \in pos.cnum + 1..Head(todo).start : ~InsideOf(kept, c)
<1>1. Len(todo) \in Nat /\ Len(todo) # 0 /\ 1 \in 1..Len(todo) /\ Head(todo) = todo[1]
  <2>1. todo \in Seq(Repl)
    BY LoopFacts
  <2>2. Len(todo) \in Nat \ {0}
    BY <2>1, EmptySeq
  <2>. QED  BY <2>1, <2>2
<1>2. /\ Emitted \in Nat /\ Len(todo) = Len(kept) - Emitted /\ Len(kept) \in Nat /\ kept \in Seq(Repl)
      /\ pos.cnum \in Nat /\ Ordered(kept) /\ DOMAIN kept = 1..Len(kept)
      /\ \A i \in 1..Len(kept) :
           /\ kept[i] \in Repl /\ kept[i].start \in Int /\ kept[i].stop \in Int
           /\ kept[i].start <= kept[i].stop
  BY LoopFacts
<1>. DEFINE r == Head(todo)
            n == Emitted + 1
<1>3. n \in 1..Len(kept) /\ r = kept[n]
  <2>1. r = kept[n]
    BY <1>1 DEF TextInv, LoopInv
  <2>. QED  BY <1>1, <1>2, <2>1
<1>4. pos.cnum <= r.start /\ \A i \in 1..Emitted : kept[i].stop <= pos.cnum
  BY DEF TextInv, LoopInv
<1>5. r \in Repl /\ r.start \in Int /\ r.stop \in Int /\ r.start <= r.stop
  BY <1>2, <1>3
<1>. HIDE DEF r
<1>6. r.start \in 0..Length /\ r.stop \in 0..Length
  BY <1>5 DEF Repl
<1>7. ASSUME NEW c \in pos.cnum + 1..r.start PROVE ~InsideOf(kept, c)
  <2>1. c \in Nat /\ c > pos.cnum /\ c <= r.start
    BY <1>2, <1>5
  <2>2. ASSUME NEW i \in 1..Len(kept) PROVE ~(kept[i].start < c /\ c <= kept[i].stop)
    <3>1. kept[i].start \in Int /\ kept[i].stop \in Int /\ kept[i].start <= kept[i].stop
      BY <1>2
    <3>2. CASE i <= Emitted
      <4>1. i \in 1..Emitted
        BY <1>2, <3>2
      <4>2. kept[i].stop <= pos.cnum
        BY <1>4, <4>1
      <4>. QED  BY <1>2, <2>1, <3>1, <4>2
    <3>3. CASE i = n
      <4>1. kept[i].start = r.start
        BY <1>3, <3>3
      <4>. HIDE DEF n
      <4>. QED  BY <1>5, <2>1, <4>1
    <3>4. CASE i > n
      <4>1. kept[n].stop <= kept[i].start
        <5>1. n \in DOMAIN kept /\ i \in DOMAIN kept /\ n < i
          BY <1>2, <1>3, <3>4
        <5>. HIDE DEF n
        <5>. QED  BY <1>2, <5>1 DEF Ordered
      <4>2. r.stop <= kept[i].start
        BY <1>3, <4>1
      <4>. QED  BY <1>5, <2>1, <3>1, <4>2
    <3>. QED  BY <1>2, <3>2, <3>3, <3>4
  <2>. QED  BY <1>2, <2>2 DEF InsideOf
<1>. HIDE DEF n
<1>8. /\ n \in 1..Len(kept) /\ r = kept[n] /\ r \in Repl /\ r.start \in 0..Length /\ r.stop \in 0..Length
      /\ r.start <= r.stop /\ pos.cnum <= r.start
      /\ \A c \in pos.cnum + 1..r.start : ~InsideOf(kept, c)
  BY <1>3, <1>4, <1>5, <1>6, <1>7
<1>. QED  BY <1>8 DEF r, n

\* The next replacement has been dealt with.
LEMMA ReplacedStep ==
  ASSUME TextInv, phase = "emitting", todo # <<>>,
         kept' = kept, todo' = Tail(todo), pos' = At(Head(todo).stop),
         ShownIn(out') = Expected(kept, Emitted, Head(todo).start) \o Generated(Head(todo))
  PROVE  LoopInv'
<1>1. /\ Emitted \in Nat /\ Len(todo) = Len(kept) - Emitted /\ Len(kept) \in Nat /\ kept \in Seq(Repl)
      /\ pos.cnum \in Nat /\ Ordered(kept) /\ todo \in Seq(Repl)
      /\ \A i \in 1..Len(kept) :
           /\ kept[i] \in Repl /\ kept[i].start \in Int /\ kept[i].stop \in Int
           /\ kept[i].start <= kept[i].stop
  BY LoopFacts
<1>2. /\ Emitted + 1 \in 1..Len(kept) /\ Head(todo) = kept[Emitted + 1]
      /\ Head(todo).stop \in 0..Length
      /\ pos.cnum <= Head(todo).start
  BY NextFacts
<1>3. pos'.cnum = Head(todo).stop
  BY <1>2, AtTyped
<1>4. /\ Len(todo') = Len(todo) - 1 /\ \A i \in 1..Len(todo') : todo'[i] = todo[i + 1]
  BY <1>1, HeadTailProperties
<1>5. Emitted' = Emitted + 1
  BY <1>1, <1>4 DEF Emitted
<1>. DEFINE n == Emitted + 1
<1>6. \A i \in 1..Len(todo') : todo'[i] = kept'[n + i]
  <2>. TAKE i \in 1..Len(todo')
  <2>1. i + 1 \in 1..Len(todo) /\ i \in Nat /\ Emitted + (i + 1) = n + i
    BY <1>1, <1>4
  <2>2. todo[i + 1] = kept[Emitted + (i + 1)]
    BY <2>1 DEF TextInv, LoopInv
  <2>. HIDE DEF n
  <2>. QED  BY <1>4, <2>1, <2>2
<1>7. \A i \in 1..n : kept[i].stop <= Head(todo).stop
  <2>. TAKE i \in 1..n
  <2>1. n \in DOMAIN kept /\ i \in DOMAIN kept /\ Head(todo) = kept[n] /\ n \in 1..Len(kept) /\ i \in 1..Len(kept)
    BY <1>1, <1>2
  <2>2. CASE i = n
    <3>. HIDE DEF n
    <3>. QED  BY <1>1, <2>1, <2>2
  <2>3. CASE i # n
    <3>1. i < n
      BY <1>1, <2>3
    <3>. HIDE DEF n
    <3>2. kept[i].stop <= kept[n].start
      BY <1>1, <2>1, <3>1 DEF Ordered
    <3>3. /\ kept[i].stop \in Int /\ kept[n].start \in Int /\ kept[n].stop \in Int
          /\ kept[n].start <= kept[n].stop
      BY <1>1, <2>1
    <3>. QED  BY <2>1, <3>2, <3>3
  <2>. QED  BY <2>2, <2>3
<1>8. todo' # <<>> => Head(todo).stop <= Head(todo').start
  <2>. HAVE todo' # <<>>
  <2>1. todo' \in Seq(Repl)
    BY <1>1, HeadTailProperties
  <2>2. Len(todo') \in Nat \ {0}
    BY <2>1, EmptySeq
  <2>3. 1 \in 1..Len(todo') /\ Head(todo') = todo'[1]
    BY <2>1, <2>2
  <2>4. Head(todo') = kept[n + 1]
    <3>. HIDE DEF n
    <3>. QED  BY <1>6, <2>3
  <2>5. n + 1 \in DOMAIN kept /\ n \in DOMAIN kept /\ n < n + 1 /\ Head(todo) = kept[n]
    BY <1>1, <1>2, <1>4, <2>2
  <2>. HIDE DEF n
  <2>6. kept[n].stop <= kept[n + 1].start
    BY <1>1, <2>5 DEF Ordered
  <2>. QED  BY <2>4, <2>5, <2>6
<1>9. Expected(kept, n, Head(todo).stop) = Expected(kept, Emitted, Head(todo).start) \o Generated(Head(todo))
  <2>1. /\ kept \in Seq(Repl) /\ Ordered(kept) /\ Emitted \in Nat /\ Emitted + 1 \in 1..Len(kept)
        /\ Head(todo) = kept[Emitted + 1]
    BY <1>1, <1>2
  <2>. HIDE DEF Emitted
  <2>. QED  BY <2>1, NextReplacement
<1>10. ShownIn(out') = Expected(kept', Emitted', pos'.cnum)
  BY <1>3, <1>5, <1>9
<1>11. Emitted' \in Nat
  BY <1>1, <1>5
<1>. HIDE DEF Emitted
<1>12. /\ \A i \in 1..Len(todo') : todo'[i] = kept'[Emitted' + i]
       /\ \A i \in 1..Emitted' : kept'[i].stop <= pos'.cnum
       /\ todo' # <<>> => pos'.cnum <= Head(todo').start
  BY <1>3, <1>5, <1>6, <1>7, <1>8
<1>. QED  BY <1>10, <1>11, <1>12 DEF LoopInv

\* Nothing has been dealt with and nothing is shown at the beginning.
LEMMA NothingExpected ==
  ASSUME NEW ks \in Seq(Repl)
  PROVE  Expected(ks, 0, 0) = <<>>
<1>1. 0 \in 0..Len(ks) /\ 0 \in Nat /\ 0 + 1 = 1 /\ 1 \in Nat
  OBVIOUS
<1>2. Piece(ks, 0, 0) = CharAt(ks, 0)
  <2>1. \A i \in 1..0 : ks[i].start # 0
    OBVIOUS
  <2>. QED  BY <1>1, <2>1, PieceWithout
<1>3. CharAt(ks, 0) = <<>>
  BY DEF CharAt
<1>. DEFINE u == UpTo(ks, 0, 1)
<1>4. u \in Seq(Seq(Token)) /\ Len(u) = 1 /\ \A i \in 1..1 : u[i] = Piece(ks, 0, i - 1)
  BY <1>1, UpToTyped
<1>. HIDE DEF u
<1>5. \A i \in 1..Len(u) : u[i] = <<>>
  <2>. TAKE i \in 1..Len(u)
  <2>1. i \in 1..1 /\ i - 1 = 0
    BY <1>4
  <2>. QED  BY <1>2, <1>3, <1>4, <2>1
<1>6. FlattenSeq(u) = <<>>
  BY <1>4, <1>5, FlattenNothing
<1>. QED  BY <1>1, <1>6 DEF Expected, u

LEMMA InitText == Init => TextInv
<1>. SUFFICES ASSUME Init PROVE TextInv
  OBVIOUS
<1>1. 0 \in 0..Length
  BY LengthTyped
<1>2. pos.cnum = 0 /\ phase = "collecting"
  BY <1>1, AtTyped DEF Init
<1>. QED  BY <1>2, InitDirectives DEF TextInv

LEMMA EndFilterText == ASSUME TextInv, EndFilter PROVE LoopInv'
<1>1. /\ phase = "filtering" /\ todo' = kept /\ kept' = kept /\ pos' = pos
  BY DEF EndFilter
<1>2. kept \in Seq(Repl) /\ pos.cnum = 0 /\ out = <<>>
  BY <1>1 DEF TextInv, DirectivesInv, PositionInv, TypeOK
<1>3. Emitted' = 0 /\ Len(kept) \in Nat
  <2>1. Len(kept) \in Nat
    BY <1>2
  <2>. QED  BY <1>1, <2>1 DEF Emitted
<1>4. \A i \in 1..Len(todo') : todo'[i] = kept'[Emitted' + i]
  <2>. TAKE i \in 1..Len(todo')
  <2>1. Emitted' + i = i
    BY <1>3
  <2>. QED  BY <1>1, <2>1
<1>5. todo' # <<>> => pos'.cnum <= Head(todo').start
  <2>. HAVE todo' # <<>>
  <2>1. Head(kept) \in Repl
    BY <1>1, <1>2, HeadTailProperties
  <2>2. Head(kept).start \in Nat
    BY <2>1, LengthTyped DEF Repl
  <2>. QED  BY <1>1, <1>2, <2>2
<1>6. ShownIn(out') = <<>>
  <2>1. out' = <<<<"begin", 0, 0>>>> \/ out' = <<>>
    BY <1>2 DEF EndFilter
  <2>2. ShownIn(<<<<"begin", 0, 0>>>>) = <<>>
    <3>1. "begin" \in Kinds \ {"source", "generated"} /\ 0 \in Nat
      BY DEF Kinds
    <3>. QED  BY <3>1, Unshown
  <2>. QED  BY <2>1, <2>2, EmptyShown
<1>7. Expected(kept, 0, 0) = <<>>
  BY <1>2, NothingExpected
<1>8. /\ Emitted' \in Nat
      /\ \A i \in 1..Emitted' : kept'[i].stop <= pos'.cnum
      /\ ShownIn(out') = Expected(kept', Emitted', pos'.cnum)
  BY <1>1, <1>2, <1>3, <1>6, <1>7
<1>. HIDE DEF Emitted
<1>. QED  BY <1>4, <1>5, <1>8 DEF LoopInv

LEMMA CopyAndReplaceText == ASSUME TextInv, CopyAndReplace PROVE LoopInv'
<1>. DEFINE r == Head(todo)
            copy == CopyInput(r.start, r.text)
            intro == CASE target = "line_directives" -> <<<<"to_output", copy.line + 1, 0>>>>
                       [] target = "delimited" -> <<<<"begin", 0, 0>>>>
                       [] target = "corrected" -> <<>>
            E == Expected(kept, Emitted, r.start)
<1>1. /\ phase = "emitting" /\ todo # <<>> /\ todo' = Tail(todo) /\ kept' = kept
      /\ out' = out \o copy.out \o intro \o Generated(r) /\ pos' = At(r.stop)
  BY DEF CopyAndReplace
<1>2. /\ r \in Repl /\ r.start \in 0..Length /\ pos.cnum <= r.start
      /\ \A c \in pos.cnum + 1..r.start : ~InsideOf(kept, c)
  BY <1>1, NextFacts
<1>3. copy.out \in Seq(Token) /\ ShownIn(out) \o ShownIn(copy.out) = E
  BY <1>1, <1>2, CopyShown
<1>4. /\ target \in Target /\ line \in Nat /\ pos \in Position /\ pos = At(pos.cnum)
      /\ out \in Seq(Token)
  BY DEF TextInv, DirectivesInv, PositionInv, TypeOK
<1>5. copy.line + 1 \in Nat
  <2>1. copy.line \in Nat
    BY <1>2, <1>4, CopyTyped
  <2>. QED  BY <2>1
<1>. HIDE DEF copy, r
<1>6. intro \in Seq(Token) /\ ShownIn(intro) = <<>>
  <2>1. /\ <<<<"to_output", copy.line + 1, 0>>>> \in Seq(Token)
        /\ ShownIn(<<<<"to_output", copy.line + 1, 0>>>>) = <<>>
    <3>1. "to_output" \in Kinds \ {"source", "generated"} /\ 0 \in Nat
      BY DEF Kinds
    <3>. QED  BY <1>5, <3>1, Unshown
  <2>2. <<<<"begin", 0, 0>>>> \in Seq(Token) /\ ShownIn(<<<<"begin", 0, 0>>>>) = <<>>
    <3>1. "begin" \in Kinds \ {"source", "generated"} /\ 0 \in Nat
      BY DEF Kinds
    <3>. QED  BY <3>1, Unshown
  <2>3. \/ intro = <<<<"to_output", copy.line + 1, 0>>>>
        \/ intro = <<<<"begin", 0, 0>>>> \/ intro = <<>>
    BY <1>4 DEF Target
  <2>. HIDE DEF intro
  <2>. QED  BY <2>1, <2>2, <2>3, EmptyShown
<1>7. Generated(r) \in Seq(Token) /\ ShownIn(Generated(r)) = Generated(r)
  BY <1>2, GeneratedTyped
<1>. HIDE DEF intro
<1>8. ShownIn(out') = (E \o <<>>) \o Generated(r)
  <2>1. out \o copy.out \in Seq(Token) /\ ShownIn(out \o copy.out) = E
    BY <1>3, <1>4, ShownJoined, ConcatProperties
  <2>2. /\ out \o copy.out \o intro \in Seq(Token)
        /\ ShownIn(out \o copy.out \o intro) = E \o <<>>
    BY <1>6, <2>1, ShownJoined, ConcatProperties
  <2>. HIDE DEF E
  <2>. QED  BY <1>1, <1>7, <2>2, ShownJoined
<1>9. E \in Seq(Token)
  <2>1. ShownIn(out) \in Seq(Token) /\ ShownIn(copy.out) \in Seq(Token)
    BY <1>3, <1>4, PiecesTyped
  <2>. HIDE DEF E
  <2>. QED  BY <1>3, <2>1, ConcatProperties
<1>10. ShownIn(out') = E \o Generated(r)
  <2>. HIDE DEF E
  <2>. QED  BY <1>8, <1>9, ConcatEmptySeq
<1>. QED  BY <1>1, <1>10, ReplacedStep DEF r

LEMMA ReplaceNextText == ASSUME TextInv, ReplaceNext PROVE LoopInv'
<1>. DEFINE r == Head(todo)
<1>1. /\ phase = "emitting" /\ todo # <<>> /\ todo' = Tail(todo) /\ kept' = kept
      /\ out' = out \o Generated(r) /\ pos' = At(r.stop) /\ After(pos).cnum >= r.start
  BY DEF ReplaceNext
<1>2. r \in Repl /\ r.start \in 0..Length /\ pos.cnum <= r.start
  BY <1>1, NextFacts
<1>3. ShownIn(out) = Expected(kept, Emitted, r.start)
  <2>1. pos.cnum \in Nat /\ r.start \in Nat /\ After(pos).cnum \in Nat
    BY <1>1, <1>2, LoopFacts, LengthTyped
  <2>2. r.start \in pos.cnum..After(pos).cnum
    <3>. HIDE DEF r
    <3>. QED  BY <1>1, <1>2, <2>1
  <2>. QED  BY <1>1, <2>2, SkippedExpected
<1>4. Generated(r) \in Seq(Token) /\ ShownIn(Generated(r)) = Generated(r)
  BY <1>2, GeneratedTyped
<1>5. out \in Seq(Token)
  BY DEF TextInv, DirectivesInv, PositionInv, TypeOK
<1>. HIDE DEF r
<1>6. ShownIn(out') = Expected(kept, Emitted, r.start) \o Generated(r)
  BY <1>1, <1>3, <1>4, <1>5, ShownJoined
<1>. QED  BY <1>1, <1>6, ReplacedStep DEF r

LEMMA EndConsecutiveText == ASSUME TextInv, EndConsecutive PROVE LoopInv'
<1>1. /\ phase = "emitting" /\ todo' = todo /\ kept' = kept
      /\ todo # <<>> => After(pos).cnum < Head(todo).start
      /\ pos' = IF todo = <<>> THEN pos ELSE After(pos)
      /\ out' = IF target = "delimited" THEN Append(out, <<"end", 0, 0>>) ELSE out
  BY DEF EndConsecutive
<1>2. /\ pos.cnum \in Nat /\ After(pos).cnum \in Nat /\ pos.cnum <= After(pos).cnum
      /\ out \in Seq(Token) /\ Emitted \in Nat
      /\ \A i \in 1..Emitted : kept[i].stop \in Int /\ kept[i].stop <= pos.cnum
  <2>1. \A i \in 1..Emitted : i \in 1..Len(kept)
    BY <1>1, LoopFacts
  <2>. QED  BY <1>1, <2>1, LoopFacts, LengthTyped DEF TextInv, LoopInv
<1>3. ShownIn(out') = ShownIn(out)
  <2>1. CASE target = "delimited"
    <3>. DEFINE t == <<"end", 0, 0>>
    <3>1. <<t>> \in Seq(Token) /\ ShownIn(<<t>>) = <<>>
      <4>1. "end" \in Kinds \ {"source", "generated"} /\ 0 \in Nat
        BY DEF Kinds
      <4>. QED  BY <4>1, Unshown
    <3>2. out' = Append(out, t) /\ t \in Token
      BY <1>1, <2>1 DEF Token, Kinds
    <3>. HIDE DEF t
    <3>3. out' = out \o <<t>>
      BY <1>2, <3>2
    <3>4. ShownIn(out') = ShownIn(out) \o <<>>
      BY <1>2, <3>1, <3>3, ShownJoined
    <3>. QED  BY <1>2, <3>4, PiecesTyped, ConcatEmptySeq
  <2>2. CASE target # "delimited"
    BY <1>1, <2>2
  <2>. QED  BY <2>1, <2>2
<1>4. Emitted' = Emitted
  BY <1>1 DEF Emitted
<1>5. /\ pos'.cnum \in Nat /\ pos.cnum <= pos'.cnum
      /\ todo # <<>> => pos'.cnum <= Head(todo).start
      /\ ShownIn(out) = Expected(kept, Emitted, pos'.cnum)
  <2>1. CASE todo = <<>>
    <3>1. pos' = pos
      BY <1>1, <2>1
    <3>. QED  BY <1>1, <1>2, <2>1, <3>1 DEF TextInv, LoopInv
  <2>2. CASE todo # <<>>
    <3>1. pos' = After(pos)
      BY <1>1, <2>2
    <3>2. After(pos).cnum \in pos.cnum..After(pos).cnum
      BY <1>2
    <3>3. ShownIn(out) = Expected(kept, Emitted, After(pos).cnum)
      BY <1>1, <3>2, SkippedExpected
    <3>4. After(pos).cnum <= Head(todo).start
      <4>1. Head(todo).start \in Nat
        BY <1>1, <2>2, NextFacts, LengthTyped
      <4>. QED  BY <1>1, <1>2, <2>2, <4>1
    <3>. QED  BY <1>2, <3>1, <3>3, <3>4
  <2>. QED  BY <2>1, <2>2
<1>6. \A i \in 1..Len(todo) : todo[i] = kept[Emitted + i]
  BY <1>1 DEF TextInv, LoopInv
<1>. HIDE DEF Emitted
<1>7. \A i \in 1..Emitted : kept[i].stop <= pos'.cnum
  BY <1>2, <1>5
<1>. QED  BY <1>1, <1>2, <1>3, <1>4, <1>5, <1>6, <1>7 DEF LoopInv

LEMMA CopyRestText == ASSUME TextInv, CopyRest PROVE ShownIn(out') = Expected(kept', Len(kept'), Length)
<1>. DEFINE copied == CopyInput(Length, FALSE).out
<1>1. phase = "emitting" /\ todo = <<>> /\ out' = out \o copied /\ kept' = kept
  BY DEF CopyRest
<1>2. /\ Length \in 0..Length /\ pos.cnum <= Length /\ pos.cnum \in Nat /\ kept \in Seq(Repl)
      /\ out \in Seq(Token) /\ Len(kept) \in Nat
      /\ \A i \in 1..Len(kept) : kept[i].start \in Int /\ kept[i].stop \in Int
  BY <1>1, LoopFacts, LengthTyped
<1>3. Emitted = Len(kept)
  <2>1. Len(todo) = 0
    BY <1>1
  <2>. QED  BY <1>2, <2>1 DEF Emitted
<1>4. ASSUME NEW c \in pos.cnum + 1..Length PROVE ~InsideOf(kept, c)
  <2>1. c \in Nat /\ c > pos.cnum
    BY <1>2
  <2>2. \A i \in DOMAIN kept : ~(c <= kept[i].stop)
    <3>. TAKE i \in DOMAIN kept
    <3>1. i \in 1..Len(kept)
      BY <1>2
    <3>2. kept[i].stop <= pos.cnum /\ kept[i].stop \in Int
      BY <1>1, <1>2, <1>3, <3>1 DEF TextInv, LoopInv
    <3>. QED  BY <1>2, <2>1, <3>2
  <2>. QED  BY <2>2 DEF InsideOf
<1>5. copied \in Seq(Token) /\ ShownIn(out) \o ShownIn(copied) = Expected(kept, Emitted, Length)
  BY <1>1, <1>2, <1>4, CopyShown
<1>. HIDE DEF copied, Emitted
<1>6. ShownIn(out') = ShownIn(out) \o ShownIn(copied)
  BY <1>1, <1>2, <1>5, ShownJoined
<1>. QED  BY <1>1, <1>3, <1>5, <1>6

LEMMA NextText == TextInv /\ [Next]_vars => TextInv'
<1>. SUFFICES ASSUME TextInv, [Next]_vars PROVE TextInv'
  OBVIOUS
<1>1. DirectivesInv'
  BY NextDirectives DEF TextInv
<1>2. CASE \/ \E r \in Repl : Report(r)
           \/ OtherFile \/ CheckAndSort \/ Insert \/ EndSort \/ Keep \/ Skip \/ RaiseOverlapping
  <2>1. pos' = pos /\ phase \notin {"emitting", "done"} /\ phase' \notin {"emitting", "done"}
    BY <1>2 DEF Report, OtherFile, CheckAndSort, Insert, EndSort, Keep, Skip, RaiseOverlapping
  <2>. QED  BY <1>1, <2>1 DEF TextInv
<1>3. CASE UNCHANGED vars
  BY <1>1, <1>3 DEF vars, TextInv, LoopInv, Emitted
<1>4. CASE EndFilter
  <2>1. phase' = "emitting"
    BY <1>4 DEF EndFilter
  <2>. QED  BY <1>1, <1>4, <2>1, EndFilterText DEF TextInv
<1>5. CASE CopyAndReplace
  <2>1. phase' = "emitting"
    BY <1>5 DEF CopyAndReplace
  <2>. QED  BY <1>1, <1>5, <2>1, CopyAndReplaceText DEF TextInv
<1>6. CASE ReplaceNext
  <2>1. phase' = "emitting"
    BY <1>6 DEF ReplaceNext
  <2>. QED  BY <1>1, <1>6, <2>1, ReplaceNextText DEF TextInv
<1>7. CASE EndConsecutive
  <2>1. phase' = "emitting"
    BY <1>7 DEF EndConsecutive
  <2>. QED  BY <1>1, <1>7, <2>1, EndConsecutiveText DEF TextInv
<1>8. CASE CopyRest
  <2>1. phase' = "done"
    BY <1>8 DEF CopyRest
  <2>. QED  BY <1>1, <1>8, <2>1, CopyRestText DEF TextInv
<1>. QED  BY <1>2, <1>3, <1>4, <1>5, <1>6, <1>7, <1>8 DEF Next

\* What is printed is the source once and in order, with the generated code in the
\* place of what it replaces, and its directives are true: for every source and any
\* replacements that the filter keeps.
THEOREM PrintedTextIsTrue == Spec => []TextTrue
<1>1. TextInv => SourceAroundGenerated
  <2>. SUFFICES ASSUME TextInv, phase = "done"
                PROVE  Body = FlattenSeq([i \in 1..(Length + 1) |-> Around(i - 1)])
    BY DEF SourceAroundGenerated
  <2>1. kept \in Seq(Repl)
    BY DEF TextInv, DirectivesInv, PositionInv, TypeOK
  <2>2. DOMAIN kept = 1..Len(kept)
    BY <2>1
  <2>3. ASSUME NEW c \in Nat PROVE Around(c) = Piece(kept, Len(kept), c)
    BY <2>2 DEF Around, Inside, InsideOf, Piece, CharAt, StartsAt
  <2>4. [i \in 1..(Length + 1) |-> Around(i - 1)] = UpTo(kept, Len(kept), Length + 1)
    <3>1. \A i \in 1..(Length + 1) : Around(i - 1) = Piece(kept, Len(kept), i - 1)
      <4>. TAKE i \in 1..(Length + 1)
      <4>1. i - 1 \in Nat
        BY LengthTyped
      <4>. QED  BY <2>3, <4>1
    <3>. QED  BY <3>1 DEF UpTo
  <2>5. Body = ShownIn(out)
    BY DEF Body, ShownIn, Pieces
  <2>. QED  BY <2>4, <2>5 DEF TextInv, Expected
<1>2. Spec => []TextInv
  BY InitText, NextText, PTL DEF Spec
<1>3. Spec => []SourceAroundGenerated
  BY <1>1, <1>2, PTL
<1>4. SourceAroundGenerated /\ DirectivesTrue => TextTrue
  BY DEF TextTrue
<1>. QED  BY <1>3, <1>4, DirectivesAreTrue, PTL
================================================================================
