------------------------- MODULE ContextFree_proofs -------------------------
(***************************************************************************)
(* Proofs about ContextFree, for any rules, programs and nesting.          *)
(***************************************************************************)
EXTENDS ContextFree, SequenceTheorems, NaturalsInduction, WellFoundedInduction, TLAPS

-----------------------------------------------------------------------------
(* Sequences.                                                              *)

(* A set of natural numbers that is not empty has a least element.         *)
LEMMA LeastExists ==
  ASSUME NEW S \in SUBSET Nat, S # {}
  PROVE  \E x \in S : \A y \in S : x <= y
<1>1. PICK x \in S : \A y \in S : ~ (<<y, x>> \in OpToRel(<, Nat))
  BY NatLessThanWellFounded, WFMin, Zenon
<1>2. \A y \in S : x <= y
  <2> TAKE y \in S
  <2>2. <<y, x>> \in OpToRel(<, Nat) <=> y < x
    BY DEF OpToRel
  <2>3. ~ (y < x)
    BY <1>1, <2>2, Zenon
  <2> QED
    BY <2>3
<1> QED
  BY <1>2

(* The function that flattens the first sequences of a list exists: if it  *)
(* did not, there would be a first length for which it does not.           *)
IsFlatten(f, seqs, n) ==
  f = [i \in 1 .. n |-> IF i = 1 THEN seqs[i] ELSE f[i - 1] \o seqs[i]]

LEMMA FlattenExists ==
  ASSUME NEW seqs, NEW n \in Nat
  PROVE  \E f : IsFlatten(f, seqs, n)
<1> DEFINE Bad == {m \in Nat : ~ \E f : IsFlatten(f, seqs, m)}
<1> SUFFICES ASSUME Bad # {} PROVE FALSE
  OBVIOUS
<1>1. PICK m \in Bad : \A k \in Bad : m <= k
  <2>1. Bad \in SUBSET Nat
    OBVIOUS
  <2> HIDE DEF Bad
  <2> QED
    BY <2>1, LeastExists
<1>2. CASE m = 0
  <2>1. IsFlatten([i \in 1 .. 0 |-> << >>], seqs, 0)
    BY DEF IsFlatten
  <2> QED
    BY <1>2, <2>1
<1>3. CASE m # 0
  <2>1. m - 1 \in Nat /\ m - 1 \notin Bad
    BY <1>1, <1>3
  <2>2. PICK f : IsFlatten(f, seqs, m - 1)
    BY <2>1
  <2> DEFINE g == [i \in 1 .. m |->
                     IF i < m THEN f[i]
                     ELSE IF i = 1 THEN seqs[i] ELSE f[i - 1] \o seqs[i]]
  <2>3. \A i \in 1 .. m : g[i] = IF i = 1 THEN seqs[i] ELSE g[i - 1] \o seqs[i]
    <3> TAKE i \in 1 .. m
    <3>1. CASE i = m
      <4>1. CASE i = 1
        BY <3>1, <4>1
      <4>2. CASE i # 1
        <5>1. i - 1 \in 1 .. m /\ i - 1 < m
          BY <3>1, <4>2
        <5>2. g[i - 1] = f[i - 1]
          BY <5>1
        <5>3. g[i] = f[i - 1] \o seqs[i]
          <6>1. ~ (i < m)
            BY <3>1
          <6> QED
            BY <4>2, <6>1
        <5> HIDE DEF g
        <5> QED
          BY <4>2, <5>2, <5>3
      <4> QED
        BY <4>1, <4>2
    <3>2. CASE i # m
      <4>1. i \in 1 .. m - 1 /\ i < m /\ m \in Nat
        BY <3>2
      <4>2. f[i] = IF i = 1 THEN seqs[i] ELSE f[i - 1] \o seqs[i]
        BY <2>2, <4>1 DEF IsFlatten
      <4>3. g[i] = f[i]
        BY <4>1
      <4>4. i # 1 => g[i - 1] = f[i - 1]
        BY <4>1
      <4> HIDE DEF g
      <4>5. CASE i = 1
        BY <4>2, <4>3, <4>5
      <4>6. CASE i # 1
        BY <4>2, <4>3, <4>4, <4>6
      <4> QED
        BY <4>5, <4>6
    <3> QED
      BY <3>1, <3>2
  <2>4. g = [i \in 1 .. m |-> g[i]]
    OBVIOUS
  <2>5. IsFlatten(g, seqs, m)
    BY <2>3, <2>4 DEF IsFlatten
  <2> QED
    BY <2>5
<1> QED
  BY <1>2, <1>3

LEMMA FlattenTyped ==
  ASSUME NEW S, NEW seqs \in Seq(Seq(S))
  PROVE  FlattenSeq(seqs) \in Seq(S)
<1> DEFINE n == Len(seqs)
           flat == CHOOSE f : IsFlatten(f, seqs, n)
<1>1. n \in Nat
  OBVIOUS
<1>2. IsFlatten(flat, seqs, n)
  BY <1>1, FlattenExists
<1>3. FlattenSeq(seqs) = IF n = 0 THEN seqs ELSE flat[n]
  BY DEF FlattenSeq, IsFlatten
<1>4. \A i \in 1 .. n : flat[i] \in Seq(S)
  <2> DEFINE Bad == {i \in 1 .. n : flat[i] \notin Seq(S)}
  <2> SUFFICES ASSUME Bad # {} PROVE FALSE
    OBVIOUS
  <2>1. PICK m \in Bad : \A k \in Bad : m <= k
    <3>1. Bad \in SUBSET Nat
      BY <1>1
    <3> HIDE DEF Bad
    <3> QED
      BY <3>1, LeastExists
  <2>2. m \in 1 .. n /\ n \in Nat /\ flat[m] = IF m = 1 THEN seqs[m] ELSE flat[m - 1] \o seqs[m]
    BY <1>1, <1>2 DEF IsFlatten
  <2>3. seqs[m] \in Seq(S)
    BY <2>2
  <2>4. m # 1 => flat[m - 1] \in Seq(S)
    <3> HAVE m # 1
    <3>1. m - 1 \in 1 .. n /\ ~ (m <= m - 1)
      BY <2>2
    <3> QED
      BY <2>1, <3>1
  <2>5. flat[m] \in Seq(S)
    <3> HIDE DEF flat
    <3>1. CASE m = 1
      BY <2>2, <2>3, <3>1
    <3>2. CASE m # 1
      <4>1. flat[m] = flat[m - 1] \o seqs[m]
        BY <2>2, <3>2
      <4> QED
        BY <2>3, <2>4, <3>2, <4>1, ConcatProperties
    <3> QED
      BY <3>1, <3>2
  <2> QED
    BY <2>5
<1> QED
  BY <1>1, <1>3, <1>4

(* A location is a prefix of itself and of what is inside it.              *)
LEMMA PrefixPointwise ==
  ASSUME NEW s \in Seq(Nat), NEW t \in Seq(Nat)
  PROVE  IsPrefix(s, t) <=> Len(s) <= Len(t) /\ \A i \in 1 .. Len(s) : s[i] = t[i]
<1>1. ASSUME Len(s) <= Len(t)
      PROVE  /\ SubSeq(s, 1, Len(s)) = s
             /\ SubSeq(t, 1, Len(s)) \in Seq(Nat) /\ Len(SubSeq(t, 1, Len(s))) = Len(s)
             /\ \A i \in 1 .. Len(s) : SubSeq(t, 1, Len(s))[i] = t[i]
  BY <1>1
<1> DEFINE u == SubSeq(t, 1, Len(s))
<1>2. ASSUME Len(s) <= Len(t) PROVE s = u <=> \A i \in 1 .. Len(s) : s[i] = t[i]
  <2>1. u \in Seq(Nat) /\ Len(u) = Len(s) /\ \A i \in 1 .. Len(s) : u[i] = t[i]
    BY <1>1, <1>2
  <2> HIDE DEF u
  <2>2. (\A i \in 1 .. Len(s) : s[i] = t[i]) => s = u
    BY <2>1, SeqEqual
  <2>3. s = u => \A i \in 1 .. Len(s) : s[i] = t[i]
    BY <2>1
  <2> QED
    BY <2>2, <2>3
<1> QED
  BY <1>1, <1>2 DEF IsPrefix

LEMMA PrefixReflexive == \A s \in Seq(Nat) : IsPrefix(s, s)
BY PrefixPointwise

LEMMA PrefixTransitive ==
  ASSUME NEW s \in Seq(Nat), NEW t \in Seq(Nat), NEW u \in Seq(Nat), IsPrefix(s, t), IsPrefix(t, u)
  PROVE  IsPrefix(s, u)
<1>1. /\ Len(s) <= Len(t) /\ \A i \in 1 .. Len(s) : s[i] = t[i]
      /\ Len(t) <= Len(u) /\ \A i \in 1 .. Len(t) : t[i] = u[i]
  BY PrefixPointwise
<1>2. Len(s) <= Len(u) /\ \A i \in 1 .. Len(s) : s[i] = u[i]
  BY <1>1
<1> QED
  BY <1>2, PrefixPointwise

LEMMA PrefixAppend ==
  ASSUME NEW s \in Seq(Nat), NEW i \in Nat
  PROVE  Append(s, i) \in Seq(Nat) /\ IsPrefix(s, Append(s, i))
<1>1. Append(s, i) \in Seq(Nat) /\ Len(Append(s, i)) = Len(s) + 1
      /\ \A j \in 1 .. Len(s) : Append(s, i)[j] = s[j]
  BY AppendProperties
<1>2. Len(s) <= Len(Append(s, i))
  BY <1>1
<1> QED
  BY <1>1, <1>2, PrefixPointwise

-----------------------------------------------------------------------------
(* Nodes.                                                                  *)

(* What is inside a node, and what a rule makes of it, lies where the node *)
(* does.  What is inside is generated only if the node is.                 *)
LEMMA InsideTyped ==
  ASSUME NEW n \in Node
  PROVE  /\ Inside(n) \in Seq(Node)
         /\ \A i \in DOMAIN Inside(n) :
              /\ IsPrefix(n.loc, Inside(n)[i].loc)
              /\ Inside(n)[i].from = n.from
<1> DEFINE names == Children[n.name].names
<1>1. names \in Seq(Names) /\ n.loc \in Seq(Nat) /\ DOMAIN names = 1 .. Len(names) /\ Len(names) \in Nat
  BY RulesAssumption DEF Node
<1>2. ASSUME NEW i \in DOMAIN names
      PROVE  /\ Inside(n)[i] \in Node
             /\ IsPrefix(n.loc, Inside(n)[i].loc) /\ Inside(n)[i].from = n.from
  <2>1. names[i] \in Names /\ i \in Nat
    BY <1>1
  <2>2. Inside(n)[i] = [name |-> names[i], from |-> n.from,
                        loc |-> IF n.from = "source" THEN Append(n.loc, i) ELSE n.loc]
    BY DEF Inside
  <2>3. Append(n.loc, i) \in Seq(Nat) /\ IsPrefix(n.loc, Append(n.loc, i)) /\ IsPrefix(n.loc, n.loc)
    BY <1>1, <2>1, PrefixAppend, PrefixReflexive
  <2> HIDE DEF names
  <2> QED
    BY <1>1, <2>1, <2>2, <2>3 DEF Node
<1>3. DOMAIN Inside(n) = 1 .. Len(names)
  BY <1>1 DEF Inside
<1>4. Inside(n) = [i \in 1 .. Len(names) |-> Inside(n)[i]]
  BY <1>1 DEF Inside
<1> HIDE DEF names
<1>5. Inside(n) \in Seq(Node)
  <2>1. Inside(n) \in [1 .. Len(names) -> Node]
    BY <1>1, <1>2, <1>3, <1>4
  <2> QED
    BY <1>1, <2>1, SeqDef
<1> QED
  BY <1>1, <1>2, <1>3, <1>5

LEMMA MadeTyped ==
  ASSUME NEW n \in Node, NEW names \in Seq(Names), NEW how \in {"generated", "rewritten"}
  PROVE  /\ Made(n, names, how) \in Seq(Node)
         /\ \A k \in DOMAIN Made(n, names, how) :
              /\ IsPrefix(n.loc, Made(n, names, how)[k].loc)
              /\ Made(n, names, how)[k].from \in {how, n.from}
<1> DEFINE m == Made(n, names, how)
<1>1. n.loc \in Seq(Nat) /\ DOMAIN names = 1 .. Len(names) /\ Len(names) \in Nat
  BY DEF Node
<1>2. ASSUME NEW k \in DOMAIN names
      PROVE  m[k] \in Node /\ IsPrefix(n.loc, m[k].loc) /\ m[k].from \in {how, n.from}
  <2>1. names[k] \in Names
    BY <1>1
  <2>2. CASE \E i \in DOMAIN Inside(n) : Inside(n)[i].name = names[k]
    <3>1. PICK i \in DOMAIN Inside(n) : m[k] = Inside(n)[i]
      BY <2>2 DEF Made
    <3>2. Inside(n)[i] \in Node
      BY InsideTyped
    <3> QED
      BY <3>1, <3>2, InsideTyped
  <2>3. CASE ~ \E i \in DOMAIN Inside(n) : Inside(n)[i].name = names[k]
    <3>1. m[k] = [name |-> names[k], loc |-> n.loc, from |-> how]
      BY <2>3 DEF Made
    <3> HIDE DEF m
    <3> QED
      BY <1>1, <2>1, <3>1, PrefixReflexive DEF Node
  <2> QED
    BY <2>2, <2>3
<1>3. DOMAIN m = 1 .. Len(names) /\ m = [k \in 1 .. Len(names) |-> m[k]]
  BY <1>1 DEF Made
<1> HIDE DEF m
<1>4. m \in Seq(Node)
  <2>1. m \in [1 .. Len(names) -> Node]
    BY <1>1, <1>2, <1>3
  <2> QED
    BY <1>1, <2>1, SeqDef
<1>5. /\ m \in Seq(Node)
      /\ \A k \in DOMAIN m : IsPrefix(n.loc, m[k].loc) /\ m[k].from \in {how, n.from}
  BY <1>1, <1>2, <1>3, <1>4
<1> QED
  BY <1>5 DEF m

-----------------------------------------------------------------------------
(* The invariant.                                                          *)

HookCall == [kind : {"replace", "insert"}, loc : Seq(Nat)]
Recursive == {"rec nodes", "rec expressions"}

(* The hook has been told of a place, or will be when the calls in         *)
(* progress return.                                                        *)
Pending(task) == task.do \in {"replace", "insert"} \cup Recursive
Covered(rep, st, loc) ==
  \/ \E k \in DOMAIN rep : IsPrefix(rep[k].loc, loc)
  \/ \E i \in DOMAIN st : Pending(st[i]) /\ IsPrefix(st[i].at.loc, loc)

(* That is so of what was generated, and of everything in a list that is   *)
(* traversed as generated code, for which the hook will not be called.     *)
NodeCovered(rep, st, n, gen) == gen \/ n.from = "generated" => Covered(rep, st, n.loc)

TaskCovered(rep, st, task) ==
  /\ \A j \in DOMAIN task.nodes : NodeCovered(rep, st, task.nodes[j], task.gen)
  /\ task.do = "derive" => NodeCovered(rep, st, task.at, task.gen)
  /\ task.do \in Recursive =>
       \A j \in DOMAIN task.nodes : IsPrefix(task.at.loc, task.nodes[j].loc)
  /\ task.do \notin List => task.at \in Node

StackCovered == \A i \in DOMAIN stack : TaskCovered(reported, stack, stack[i])
OutCovered == \A i \in DOMAIN out : NodeCovered(reported, stack, out[i].node, FALSE)

IInv == TypeOK /\ StackCovered /\ OutCovered

-----------------------------------------------------------------------------
(* What a step does to the stack.                                          *)

LEMMA TaskFields ==
  ASSUME NEW task \in Task
  PROVE  /\ task.nodes \in Seq(Node) /\ task.gen \in BOOLEAN /\ task.depth \in Nat
         /\ task.at \in Node \cup {NoNode} /\ task.at.loc \in Seq(Nat)
         /\ \A j \in DOMAIN task.nodes : task.nodes[j] \in Node /\ task.nodes[j].loc \in Seq(Nat)
         /\ task.nodes # << >> => Head(task.nodes) \in Node /\ Tail(task.nodes) \in Seq(Node)
<1>1. /\ task.nodes \in Seq(Node) /\ task.gen \in BOOLEAN /\ task.depth \in Nat
      /\ task.at \in Node \cup {NoNode}
  BY DEF Task
<1>2. \A n \in Node \cup {NoNode} : n.loc \in Seq(Nat)
  <2>1. \A n \in Node : n.loc \in Seq(Nat)
    BY DEF Node
  <2>2. NoNode.loc = << >> /\ << >> \in Seq(Nat)
    BY EmptySeq DEF NoNode
  <2> QED
    BY <2>1, <2>2
<1>3. \A j \in DOMAIN task.nodes : task.nodes[j] \in Node /\ task.nodes[j].loc \in Seq(Nat)
  BY <1>1, <1>2, ElementOfSeq
<1>4. task.nodes # << >> => Head(task.nodes) \in Node /\ Tail(task.nodes) \in Seq(Node)
  BY <1>1, HeadTailProperties
<1> QED
  BY <1>1, <1>2, <1>3, <1>4

(* What is covered is covered inside, too.                                 *)
LEMMA CoveredInside ==
  ASSUME NEW rep \in Seq(HookCall), NEW st \in Seq(Task), NEW outer \in Seq(Nat),
         NEW inner \in Seq(Nat), IsPrefix(outer, inner), Covered(rep, st, outer)
  PROVE  Covered(rep, st, inner)
<1>1. CASE \E k \in DOMAIN rep : IsPrefix(rep[k].loc, outer)
  <2>1. PICK k \in DOMAIN rep : IsPrefix(rep[k].loc, outer)
    BY <1>1
  <2>2. rep[k] \in HookCall
    OBVIOUS
  <2>3. rep[k].loc \in Seq(Nat)
    BY <2>2 DEF HookCall
  <2> QED
    BY <2>1, <2>3, PrefixTransitive DEF Covered
<1>2. CASE \E i \in DOMAIN st : Pending(st[i]) /\ IsPrefix(st[i].at.loc, outer)
  <2>1. PICK i \in DOMAIN st : Pending(st[i]) /\ IsPrefix(st[i].at.loc, outer)
    BY <1>2
  <2>2. st[i] \in Task
    OBVIOUS
  <2>3. st[i].at.loc \in Seq(Nat)
    BY <2>2, TaskFields
  <2> QED
    BY <2>1, <2>3, PrefixTransitive DEF Covered
<1> QED
  BY <1>1, <1>2 DEF Covered

(* The stack with tasks in the place of its top holds them and what it     *)
(* held.                                                                   *)
LEMMA PushedStack ==
  ASSUME NEW st \in Seq(Task), st # << >>, NEW tasks \in Seq(Task)
  PROVE  LET new == tasks \o Tail(st)
         IN /\ new \in Seq(Task)
            /\ \A i \in DOMAIN new : \/ \E j \in DOMAIN tasks : new[i] = tasks[j]
                                     \/ \E j \in DOMAIN st : new[i] = st[j]
            /\ \A j \in DOMAIN tasks : j \in DOMAIN new /\ new[j] = tasks[j]
            /\ \A j \in DOMAIN st : j # 1 => \E i \in DOMAIN new : new[i] = st[j]
<1> DEFINE new == tasks \o Tail(st)
           m == Len(tasks)
           n == Len(st)
<1>1. /\ Tail(st) \in Seq(Task) /\ Len(Tail(st)) = n - 1
      /\ \A i \in 1 .. n - 1 : Tail(st)[i] = st[i + 1]
  OBVIOUS
<1>2. m \in Nat /\ n \in Nat /\ DOMAIN tasks = 1 .. m /\ DOMAIN st = 1 .. n
  OBVIOUS
<1>3. /\ new \in Seq(Task) /\ Len(new) = m + n - 1 /\ DOMAIN new = 1 .. m + n - 1
      /\ \A i \in 1 .. m + n - 1 : new[i] = IF i <= m THEN tasks[i] ELSE Tail(st)[i - m]
  BY <1>1, ConcatProperties
<1> HIDE DEF new, m, n
<1>4. ASSUME NEW i \in DOMAIN new
      PROVE  \/ \E j \in DOMAIN tasks : new[i] = tasks[j]
             \/ \E j \in DOMAIN st : new[i] = st[j]
  <2>1. CASE i <= m
    BY <1>2, <1>3, <2>1
  <2>2. CASE i > m
    <3>1. i - m \in 1 .. n - 1 /\ i - m + 1 \in 1 .. n
      BY <1>2, <1>3, <2>2
    <3>2. new[i] = st[i - m + 1]
      BY <1>1, <1>2, <1>3, <2>2, <3>1
    <3> QED
      BY <1>2, <3>1, <3>2
  <2> QED
    BY <1>2, <1>3, <2>1, <2>2
<1>5. ASSUME NEW j \in DOMAIN st, j # 1 PROVE \E i \in DOMAIN new : new[i] = st[j]
  <2>1. m + (j - 1) \in 1 .. m + n - 1 /\ j - 1 \in 1 .. n - 1 /\ ~ (m + (j - 1) <= m)
    BY <1>2, <1>5
  <2>2. m + (j - 1) - m = j - 1 /\ j - 1 + 1 = j
    BY <1>2
  <2>3. new[m + (j - 1)] = st[j]
    <3>1. new[m + (j - 1)] = Tail(st)[j - 1]
      <4> DEFINE i == m + (j - 1)
      <4>1. i \in 1 .. m + n - 1 /\ ~ (i <= m) /\ i - m = j - 1
        BY <1>2, <2>1, <2>2
      <4> HIDE DEF i
      <4>2. new[i] = Tail(st)[i - m]
        BY <1>3, <4>1
      <4>3. new[i] = Tail(st)[j - 1]
        BY <4>1, <4>2
      <4> QED
        BY <4>3 DEF i
    <3>2. Tail(st)[j - 1] = st[j - 1 + 1]
      BY <1>1, <2>1
    <3> QED
      BY <2>2, <3>1, <3>2, Zenon
  <2> QED
    BY <1>3, <2>1, <2>3
<1>6. \A j \in DOMAIN tasks : j \in DOMAIN new /\ new[j] = tasks[j]
  BY <1>2, <1>3
<1> QED
  BY <1>3, <1>4, <1>5, <1>6 DEF new

(* Nothing is uncovered when the top of the stack, if the hook is to be    *)
(* called for it, leaves a task that will call it, or a call.              *)
LEMMA CoveredKept ==
  ASSUME NEW rep \in Seq(HookCall), NEW rep2 \in Seq(HookCall),
         \A k \in DOMAIN rep : k \in DOMAIN rep2 /\ rep2[k] = rep[k],
         NEW st \in Seq(Task), st # << >>, NEW tasks \in Seq(Task),
         Pending(Head(st)) =>
           \/ \E j \in DOMAIN tasks : Pending(tasks[j]) /\ tasks[j].at = Head(st).at
           \/ \E k \in DOMAIN rep2 : rep2[k].loc = Head(st).at.loc,
         NEW loc, Covered(rep, st, loc)
  PROVE  Covered(rep2, tasks \o Tail(st), loc)
<1> DEFINE new == tasks \o Tail(st)
<1>1. /\ \A j \in DOMAIN tasks : j \in DOMAIN new /\ new[j] = tasks[j]
      /\ \A j \in DOMAIN st : j # 1 => \E i \in DOMAIN new : new[i] = st[j]
  BY PushedStack
<1> HIDE DEF new
<1>2. Covered(rep2, new, loc)
  <2>1. CASE \E k \in DOMAIN rep : IsPrefix(rep[k].loc, loc)
    BY <2>1 DEF Covered
  <2>2. CASE \E i \in DOMAIN st : Pending(st[i]) /\ IsPrefix(st[i].at.loc, loc)
    <3>1. PICK i \in DOMAIN st : Pending(st[i]) /\ IsPrefix(st[i].at.loc, loc)
      BY <2>2
    <3>2. CASE i # 1
      BY <1>1, <3>1, <3>2 DEF Covered
    <3>3. CASE i = 1
      <4>1. st[i] = Head(st)
        BY <3>3
      <4>2. CASE \E j \in DOMAIN tasks : Pending(tasks[j]) /\ tasks[j].at = Head(st).at
        BY <1>1, <3>1, <4>1, <4>2 DEF Covered
      <4>3. CASE \E k \in DOMAIN rep2 : rep2[k].loc = Head(st).at.loc
        BY <3>1, <4>1, <4>3 DEF Covered
      <4> QED
        BY <3>1, <4>1, <4>2, <4>3
    <3> QED
      BY <3>2, <3>3
  <2> QED
    BY <2>1, <2>2 DEF Covered
<1> QED
  BY <1>2 DEF new

LEMMA TaskKept ==
  ASSUME NEW rep, NEW rep2, NEW st, NEW new,
         \A loc : Covered(rep, st, loc) => Covered(rep2, new, loc)
  PROVE  /\ \A n, gen : NodeCovered(rep, st, n, gen) => NodeCovered(rep2, new, n, gen)
         /\ \A task : TaskCovered(rep, st, task) => TaskCovered(rep2, new, task)
<1>1. \A n, gen : NodeCovered(rep, st, n, gen) => NodeCovered(rep2, new, n, gen)
  BY DEF NodeCovered
<1>2. \A task : TaskCovered(rep, st, task) => TaskCovered(rep2, new, task)
  BY <1>1 DEF TaskCovered
<1> QED
  BY <1>1, <1>2

(* A list of tasks that are covered.                                       *)
TasksCovered(rep, st, tasks) ==
  tasks \in Seq(Task) /\ \A j \in DOMAIN tasks : TaskCovered(rep, st, tasks[j])

LEMMA TasksJoined ==
  ASSUME NEW rep, NEW st
  PROVE  /\ TasksCovered(rep, st, << >>)
         /\ \A task \in Task : TaskCovered(rep, st, task) => TasksCovered(rep, st, << task >>)
         /\ \A s, t : TasksCovered(rep, st, s) /\ TasksCovered(rep, st, t)
                        => TasksCovered(rep, st, s \o t)
<1>1. TasksCovered(rep, st, << >>)
  BY EmptySeq DEF TasksCovered
<1>2. ASSUME NEW task \in Task, TaskCovered(rep, st, task) PROVE TasksCovered(rep, st, << task >>)
  <2>1. << task >> \in Seq(Task) /\ DOMAIN << task >> = {1} /\ << task >>[1] = task
    OBVIOUS
  <2> QED
    BY <1>2, <2>1 DEF TasksCovered
<1>3. ASSUME NEW s, NEW t, TasksCovered(rep, st, s), TasksCovered(rep, st, t)
      PROVE  TasksCovered(rep, st, s \o t)
  <2>1. s \in Seq(Task) /\ t \in Seq(Task) /\ Len(s) \in Nat /\ Len(t) \in Nat
        /\ DOMAIN s = 1 .. Len(s) /\ DOMAIN t = 1 .. Len(t)
    BY <1>3 DEF TasksCovered
  <2>2. /\ s \o t \in Seq(Task) /\ DOMAIN (s \o t) = 1 .. Len(s) + Len(t)
        /\ \A i \in 1 .. Len(s) + Len(t) :
             (s \o t)[i] = IF i <= Len(s) THEN s[i] ELSE t[i - Len(s)]
    BY <2>1, ConcatProperties
  <2>3. ASSUME NEW i \in DOMAIN (s \o t) PROVE TaskCovered(rep, st, (s \o t)[i])
    <3>1. CASE i <= Len(s)
      <4>1. i \in DOMAIN s /\ (s \o t)[i] = s[i]
        BY <2>1, <2>2, <3>1
      <4> QED
        BY <1>3, <4>1 DEF TasksCovered
    <3>2. CASE ~ (i <= Len(s))
      <4>1. i - Len(s) \in DOMAIN t /\ (s \o t)[i] = t[i - Len(s)]
        BY <2>1, <2>2, <3>2
      <4> QED
        BY <1>3, <4>1 DEF TasksCovered
    <3> QED
      BY <3>1, <3>2
  <2> QED
    BY <2>2, <2>3 DEF TasksCovered
<1> QED
  BY <1>1, <1>2, <1>3

(* A step that puts tasks in the place of the top of the stack keeps the   *)
(* invariant when they are covered, before it or after it, and when what   *)
(* it emits is covered.                                                    *)
Emitted == [node : {n \in Node : Kind[n.name] \notin {"extension", "special"}}, depth : Nat]

LEMMA PushStep ==
  ASSUME IInv, stack # << >>, NEW tasks \in Seq(Task), Push(tasks),
         reported' \in Seq(HookCall),
         \A k \in DOMAIN reported : k \in DOMAIN reported' /\ reported'[k] = reported[k],
         Pending(Top) =>
           \/ \E j \in DOMAIN tasks : Pending(tasks[j]) /\ tasks[j].at = Top.at
           \/ \E k \in DOMAIN reported' : reported'[k].loc = Top.at.loc,
         \A j \in DOMAIN tasks : \/ TaskCovered(reported, stack, tasks[j])
                                 \/ TaskCovered(reported', stack', tasks[j]),
         \/ out' = out
         \/ \E n \in Node : /\ Kind[n.name] \notin {"extension", "special"}
                            /\ Emit(n) /\ NodeCovered(reported, stack, n, FALSE),
         corrections' \in Seq(Correction), UNCHANGED << program, error >>
  PROVE  IInv'
<1>1. /\ program \in Programs /\ stack \in Seq(Task) /\ out \in Seq(Emitted)
      /\ reported \in Seq(HookCall) /\ error \in Error
  BY DEF IInv, TypeOK, HookCall, Emitted
<1>2. /\ stack' \in Seq(Task)
      /\ \A i \in DOMAIN stack' : \/ \E j \in DOMAIN tasks : stack'[i] = tasks[j]
                                  \/ \E j \in DOMAIN stack : stack'[i] = stack[j]
  <2>1. stack' = tasks \o Tail(stack)
    BY DEF Push
  <2>2. /\ tasks \o Tail(stack) \in Seq(Task)
        /\ \A i \in DOMAIN (tasks \o Tail(stack)) :
             \/ \E j \in DOMAIN tasks : (tasks \o Tail(stack))[i] = tasks[j]
             \/ \E j \in DOMAIN stack : (tasks \o Tail(stack))[i] = stack[j]
    BY <1>1, PushedStack
  <2> QED
    BY <2>1, <2>2
<1>3. \A loc : Covered(reported, stack, loc) => Covered(reported', stack', loc)
  BY <1>1, CoveredKept DEF Push, Top
<1>4. /\ \A n, gen : NodeCovered(reported, stack, n, gen) => NodeCovered(reported', stack', n, gen)
      /\ \A task : TaskCovered(reported, stack, task) => TaskCovered(reported', stack', task)
  BY <1>3, TaskKept
<1>5. StackCovered'
  BY <1>2, <1>4 DEF IInv, StackCovered
<1>6. Top \in Task /\ Top.depth \in Nat
  <2>1. Top \in Task
    BY <1>1, HeadTailProperties DEF Top
  <2> QED
    BY <2>1, TaskFields
<1>7. out' \in Seq(Emitted) /\ OutCovered'
  <2>1. CASE out' = out
    <3>1. OutCovered'
      BY <1>4, <2>1 DEF IInv, OutCovered
    <3> QED
      BY <1>1, <2>1, <3>1
  <2>2. CASE out' # out
    <3>1. PICK n \in Node : /\ Kind[n.name] \notin {"extension", "special"}
                            /\ Emit(n) /\ NodeCovered(reported, stack, n, FALSE)
      BY <2>2
    <3> DEFINE e == [node |-> n, depth |-> Top.depth]
    <3>2. e \in Emitted /\ e.node = n
      BY <1>6, <3>1 DEF Emitted
    <3> HIDE DEF e
    <3>3. out' = Append(out, e)
      BY <3>1 DEF Emit, e
    <3>4. /\ out' \in Seq(Emitted) /\ Len(out) \in Nat /\ DOMAIN out' = 1 .. Len(out) + 1
          /\ \A i \in 1 .. Len(out) : out'[i] = out[i]
          /\ out'[Len(out) + 1] = e /\ DOMAIN out = 1 .. Len(out)
      BY <1>1, <3>2, <3>3, AppendProperties
    <3>5. ASSUME NEW i \in DOMAIN out' PROVE NodeCovered(reported', stack', out'[i].node, FALSE)
      <4>1. CASE i \in 1 .. Len(out)
        BY <1>4, <3>4, <4>1 DEF IInv, OutCovered
      <4>2. CASE i \notin 1 .. Len(out)
        <5>1. i = Len(out) + 1
          BY <3>4, <4>2
        <5> QED
          BY <1>4, <3>1, <3>2, <3>4, <5>1
      <4> QED
        BY <4>1, <4>2
    <3> QED
      BY <3>4, <3>5 DEF OutCovered
  <2> QED
    BY <2>1, <2>2
<1>8. TypeOK'
  BY <1>1, <1>2, <1>7 DEF TypeOK, HookCall, Emitted
<1> QED
  BY <1>5, <1>7, <1>8 DEF IInv

-----------------------------------------------------------------------------
(* The tasks that steps push.                                              *)

(* What is inside a node that is covered.                                  *)
LEMMA InsideCovered ==
  ASSUME NEW rep \in Seq(HookCall), NEW st \in Seq(Task), NEW n \in Node, NEW depth \in Nat,
         NodeCovered(rep, st, n, FALSE)
  PROVE  TasksCovered(rep, st, << InsideOf(n, depth) >>)
<1> DEFINE task == InsideOf(n, depth)
<1>1. task = [do |-> Children[n.name].by, nodes |-> Inside(n), gen |-> FALSE,
              depth |-> depth + 1, at |-> NoNode]
  BY DEF InsideOf, ListOf
<1>2. Children[n.name].by \in List /\ n.loc \in Seq(Nat) /\ depth + 1 \in Nat
  BY RulesAssumption DEF Node
<1>3. /\ Inside(n) \in Seq(Node)
      /\ \A i \in DOMAIN Inside(n) : /\ IsPrefix(n.loc, Inside(n)[i].loc)
                                     /\ Inside(n)[i].from = n.from
  BY InsideTyped
<1> HIDE DEF task
<1>4. task \in Task /\ task.do \in List /\ task.gen = FALSE /\ task.nodes = Inside(n)
  <2> DEFINE by == Children[n.name].by
             nodes == Inside(n)
             deeper == depth + 1
  <2>1. by \in List /\ nodes \in Seq(Node) /\ deeper \in Nat
    BY <1>2, <1>3
  <2>2. task = [do |-> by, nodes |-> nodes, gen |-> FALSE, depth |-> deeper, at |-> NoNode]
    BY <1>1
  <2> HIDE DEF by, nodes, deeper
  <2>3. task \in Task /\ task.do = by /\ task.gen = FALSE /\ task.nodes = nodes
    BY <2>1, <2>2 DEF Task
  <2> QED
    BY <2>1, <2>3 DEF nodes
<1>5. ASSUME NEW j \in DOMAIN task.nodes
      PROVE  NodeCovered(rep, st, task.nodes[j], task.gen)
  <2>1. task.nodes[j].loc \in Seq(Nat)
    BY <1>4, TaskFields
  <2>2. n.from = "generated" => Covered(rep, st, task.nodes[j].loc)
    BY <1>2, <1>3, <1>4, <2>1, CoveredInside DEF NodeCovered
  <2> QED
    BY <1>3, <1>4, <2>2 DEF NodeCovered
<1>6. task.do \notin Recursive /\ task.do # "derive"
  BY <1>4 DEF List, Recursive
<1>7. TaskCovered(rep, st, task)
  BY <1>4, <1>5, <1>6 DEF TaskCovered
<1> QED
  BY <1>4, <1>7, TasksJoined DEF task

(* What a rule makes of a node, in a place that is covered.                *)
LEMMA MadeCovered ==
  ASSUME NEW rep \in Seq(HookCall), NEW st \in Seq(Task), NEW n \in Node,
         NEW names \in Seq(Names), NEW by \in List, NEW gen \in BOOLEAN, NEW depth \in Nat,
         names = << >> \/ Covered(rep, st, n.loc)
  PROVE  TasksCovered(rep, st, << ListOf(by, Made(n, names, "generated"), gen, depth) >>)
<1> DEFINE made == Made(n, names, "generated")
           task == ListOf(by, made, gen, depth)
<1>1. /\ made \in Seq(Node) /\ \A k \in DOMAIN made : IsPrefix(n.loc, made[k].loc)
      /\ names = << >> => DOMAIN made = {}
  <2>1. names = << >> => DOMAIN made = {}
    BY DEF Made
  <2> QED
    BY <2>1, MadeTyped
<1> HIDE DEF made
<1>2. /\ task \in Task /\ task.do \in List /\ task.nodes = made
  BY <1>1 DEF Task, ListOf
<1> HIDE DEF task
<1>3. ASSUME NEW j \in DOMAIN task.nodes
      PROVE  NodeCovered(rep, st, task.nodes[j], task.gen)
  <2>1. task.nodes[j].loc \in Seq(Nat) /\ n.loc \in Seq(Nat)
    BY <1>2, TaskFields DEF Node
  <2>2. Covered(rep, st, n.loc)
    BY <1>1, <1>2
  <2> QED
    BY <1>1, <1>2, <2>1, <2>2, CoveredInside DEF NodeCovered
<1>4. task.do \notin Recursive /\ task.do # "derive"
  BY <1>2 DEF List, Recursive
<1>5. TaskCovered(rep, st, task)
  BY <1>2, <1>3, <1>4 DEF TaskCovered
<1>6. TasksCovered(rep, st, << task >>)
  BY <1>2, <1>5, TasksJoined
<1> QED
  BY <1>6 DEF task, made

(* The rest of a list.                                                     *)
LEMMA RestCovered ==
  ASSUME NEW rep, NEW st, NEW top \in Task, top.do \in List, top.nodes # << >>,
         TaskCovered(rep, st, top), NEW gen \in BOOLEAN, gen => top.gen
  PROVE  TasksCovered(rep, st, << [top EXCEPT !.nodes = Tail(@), !.gen = gen] >>)
<1> DEFINE task == [top EXCEPT !.nodes = Tail(@), !.gen = gen]
<1>1. /\ task \in Task /\ task.do = top.do /\ task.nodes = Tail(top.nodes) /\ task.gen = gen
  <2>1. Tail(top.nodes) \in Seq(Node)
    BY TaskFields
  <2> QED
    BY <2>1 DEF Task
<1> HIDE DEF task
<1>2. ASSUME NEW j \in DOMAIN task.nodes
      PROVE  NodeCovered(rep, st, task.nodes[j], task.gen)
  <2>1. /\ top.nodes \in Seq(Node) /\ Len(top.nodes) \in Nat /\ DOMAIN top.nodes = 1 .. Len(top.nodes)
    BY TaskFields
  <2>2. j + 1 \in DOMAIN top.nodes /\ task.nodes[j] = top.nodes[j + 1]
    BY <1>1, <2>1
  <2>3. NodeCovered(rep, st, top.nodes[j + 1], top.gen)
    BY <2>2 DEF TaskCovered
  <2> QED
    BY <1>1, <2>2, <2>3 DEF NodeCovered
<1>3. task.do \in List /\ task.do \notin Recursive /\ task.do # "derive"
  BY <1>1 DEF List, Recursive
<1>4. TaskCovered(rep, st, task)
  BY <1>2, <1>3 DEF TaskCovered
<1> QED
  BY <1>1, <1>4, TasksJoined DEF task

(* The call of the hook.                                                   *)
LEMMA ReportCovered ==
  ASSUME NEW rep, NEW st, stack \in Seq(Task), stack # << >>, NEW n \in Node,
         NEW kind \in {"replace", "insert"}, NEW gen \in BOOLEAN
  PROVE  /\ TasksCovered(rep, st, Report(kind, n, gen))
         /\ ~ gen => /\ Report(kind, n, gen) \in Seq(Task) /\ Len(Report(kind, n, gen)) = 1
                     /\ Pending(Report(kind, n, gen)[1]) /\ Report(kind, n, gen)[1].at = n
<1> DEFINE task == [Top EXCEPT !.do = kind, !.nodes = << >>, !.at = n]
<1>1. Top \in Task
  BY HeadTailProperties DEF Top
<1>2. /\ task \in Task /\ task.nodes = << >> /\ task.do = kind /\ task.at = n
  BY <1>1, EmptySeq DEF Task
<1>3. Report(kind, n, gen) = IF gen THEN << >> ELSE << task >>
  BY DEF Report
<1> HIDE DEF task
<1>4. task.do \notin Recursive /\ task.do # "derive" /\ Pending(task)
  BY <1>2 DEF Recursive, Pending
<1>5. TaskCovered(rep, st, task)
  BY <1>2, <1>4 DEF TaskCovered
<1>6. CASE gen
  BY <1>3, <1>6, TasksJoined
<1>7. CASE ~ gen
  <2>1. Report(kind, n, gen) = << task >>
    BY <1>3, <1>7
  <2>2. TasksCovered(rep, st, << task >>)
    BY <1>2, <1>5, TasksJoined
  <2>3. << task >> \in Seq(Task) /\ Len(<< task >>) = 1 /\ << task >>[1] = task
    BY <1>2
  <2> QED
    BY <1>2, <1>4, <2>1, <2>2, <2>3, Zenon
<1> QED
  BY <1>6, <1>7

-----------------------------------------------------------------------------
(* Each action keeps the invariant.                                        *)

LEMMA TopFacts ==
  ASSUME IInv, stack # << >>
  PROVE  /\ stack \in Seq(Task) /\ reported \in Seq(HookCall) /\ corrections \in Seq(Correction)
         /\ Top \in Task /\ TaskCovered(reported, stack, Top)
         /\ Top.nodes \in Seq(Node) /\ Top.gen \in BOOLEAN /\ Top.depth \in Nat
         /\ Top.at.loc \in Seq(Nat)
         /\ Top.do \notin List => Top.at \in Node
         /\ \E i \in DOMAIN stack : stack[i] = Top
         /\ Top.nodes # << >> =>
              /\ Current \in Node /\ Current.name \in Names /\ Current.loc \in Seq(Nat)
              /\ Tail(Top.nodes) \in Seq(Node)
              /\ NodeCovered(reported, stack, Current, Top.gen)
              /\ NodeCovered(reported, stack, Current, FALSE)
              /\ Top.do \in Recursive => IsPrefix(Top.at.loc, Current.loc)
<1>1. stack \in Seq(Task) /\ reported \in Seq(HookCall) /\ corrections \in Seq(Correction)
  BY DEF IInv, TypeOK, HookCall
<1>2. Top \in Task /\ 1 \in DOMAIN stack /\ stack[1] = Top
  BY <1>1 DEF Top
<1>3. TaskCovered(reported, stack, Top)
  BY <1>2 DEF IInv, StackCovered
<1>4. /\ Top.nodes \in Seq(Node) /\ Top.gen \in BOOLEAN /\ Top.depth \in Nat
      /\ Top.at.loc \in Seq(Nat)
  BY <1>2, TaskFields
<1>5. ASSUME Top.nodes # << >>
      PROVE  /\ Current \in Node /\ Current.name \in Names /\ Current.loc \in Seq(Nat)
             /\ Tail(Top.nodes) \in Seq(Node)
             /\ NodeCovered(reported, stack, Current, Top.gen)
             /\ NodeCovered(reported, stack, Current, FALSE)
             /\ Top.do \in Recursive => IsPrefix(Top.at.loc, Current.loc)
  <2>1. Current \in Node /\ Tail(Top.nodes) \in Seq(Node)
    BY <1>4, <1>5, HeadTailProperties DEF Current
  <2>2. 1 \in DOMAIN Top.nodes /\ Current = Top.nodes[1]
    BY <1>4, <1>5 DEF Current
  <2>3. NodeCovered(reported, stack, Current, Top.gen)
    BY <1>3, <2>2 DEF TaskCovered
  <2>4. NodeCovered(reported, stack, Current, FALSE)
    BY <2>3 DEF NodeCovered
  <2>5. Top.do \in Recursive => IsPrefix(Top.at.loc, Current.loc)
    BY <1>3, <2>2 DEF TaskCovered
  <2> QED
    BY <2>1, <2>3, <2>4, <2>5 DEF Node
<1> QED
  BY <1>1, <1>2, <1>3, <1>4, <1>5 DEF TaskCovered

(* The tasks of a step that neither calls the hook nor matches.            *)
LEMMA TasksPushed ==
  ASSUME IInv, stack # << >>, NEW tasks, Push(tasks),
         \/ TasksCovered(reported, stack, tasks)
         \/ TasksCovered(reported, stack', tasks),
         Pending(Top) => \E j \in DOMAIN tasks : Pending(tasks[j]) /\ tasks[j].at = Top.at,
         \/ out' = out
         \/ /\ Top.nodes # << >> /\ Kind[Current.name] \notin {"extension", "special"}
            /\ Emit(Current),
         UNCHANGED << program, reported, corrections, error >>
  PROVE  IInv'
<1>1. tasks \in Seq(Task)
  BY DEF TasksCovered
<1>2. \A j \in DOMAIN tasks : \/ TaskCovered(reported, stack, tasks[j])
                              \/ TaskCovered(reported', stack', tasks[j])
  BY DEF TasksCovered
<1>3. \/ out' = out
      \/ \E n \in Node : /\ Kind[n.name] \notin {"extension", "special"}
                         /\ Emit(n) /\ NodeCovered(reported, stack, n, FALSE)
  BY TopFacts
<1>4. /\ reported' \in Seq(HookCall) /\ corrections' \in Seq(Correction)
      /\ \A k \in DOMAIN reported : k \in DOMAIN reported' /\ reported'[k] = reported[k]
  BY TopFacts
<1> QED
  BY <1>1, <1>2, <1>3, <1>4, PushStep

(* What is covered is covered after the step.                              *)
LEMMA KeptByPush ==
  ASSUME IInv, stack # << >>, NEW tasks \in Seq(Task), Push(tasks), ~ Pending(Top)
  PROVE  \A loc : Covered(reported, stack, loc) => Covered(reported, stack', loc)
<1>1. stack \in Seq(Task) /\ reported \in Seq(HookCall)
  BY TopFacts
<1>2. \A loc : Covered(reported, stack, loc) => Covered(reported, tasks \o Tail(stack), loc)
  BY <1>1, CoveredKept DEF Top
<1> QED
  BY <1>2 DEF Push

LEMMA KeptCovered ==
  ASSUME NEW rep, NEW st, NEW new, NEW tasks, TasksCovered(rep, st, tasks),
         \A loc : Covered(rep, st, loc) => Covered(rep, new, loc)
  PROVE  TasksCovered(rep, new, tasks)
BY TaskKept DEF TasksCovered

(* The parts of the list pushed are in the stack.                          *)
LEMMA JoinedTasks ==
  ASSUME NEW first \in Seq(Task), NEW mid \in Seq(Task), NEW last \in Seq(Task),
         NEW i \in DOMAIN mid
  PROVE  \E j \in DOMAIN (first \o mid \o last) : (first \o mid \o last)[j] = mid[i]
<1> DEFINE both == first \o mid
           j == Len(first) + i
<1>1. /\ Len(first) \in Nat /\ Len(mid) \in Nat /\ Len(last) \in Nat /\ i \in 1 .. Len(mid)
      /\ both \in Seq(Task) /\ Len(both) = Len(first) + Len(mid)
      /\ \A k \in 1 .. Len(first) + Len(mid) :
           both[k] = IF k <= Len(first) THEN first[k] ELSE mid[k - Len(first)]
  BY ConcatProperties
<1>2. /\ j \in 1 .. Len(first) + Len(mid) /\ ~ (j <= Len(first)) /\ j - Len(first) = i
      /\ j \in 1 .. Len(first) + Len(mid) + Len(last) /\ j <= Len(first) + Len(mid)
  BY <1>1
<1> HIDE DEF both, j
<1>3. both[j] = mid[i]
  BY <1>1, <1>2
<1>4. /\ both \o last \in Seq(Task) /\ Len(both \o last) = Len(both) + Len(last)
      /\ \A k \in 1 .. Len(both) + Len(last) :
           (both \o last)[k] = IF k <= Len(both) THEN both[k] ELSE last[k - Len(both)]
  <2>1. both \in Seq(Task)
    BY <1>1
  <2> QED
    BY <2>1, ConcatProperties, Zenon
<1>5. j \in DOMAIN (both \o last) /\ (both \o last)[j] = mid[i]
  BY <1>1, <1>2, <1>3, <1>4
<1> QED
  BY <1>5 DEF both

LEMMA PushTyped ==
  ASSUME IInv, stack # << >>, NEW tasks \in Seq(Task), Push(tasks)
  PROVE  /\ stack' \in Seq(Task)
         /\ \A j \in DOMAIN tasks : j \in DOMAIN stack' /\ stack'[j] = tasks[j]
<1>1. /\ tasks \o Tail(stack) \in Seq(Task)
      /\ \A j \in DOMAIN tasks : /\ j \in DOMAIN (tasks \o Tail(stack))
                                /\ (tasks \o Tail(stack))[j] = tasks[j]
  <2>1. stack \in Seq(Task)
    BY TopFacts
  <2> QED
    BY <2>1, PushedStack
<1>2. stack' = tasks \o Tail(stack)
  BY DEF Push
<1> QED
  BY <1>1, <1>2

(* A call of the hook that is pushed covers its node.                      *)
LEMMA HookWillBeCalled ==
  ASSUME IInv, stack # << >>, NEW tasks \in Seq(Task), Push(tasks),
         NEW j \in DOMAIN tasks, NEW n \in Node, Pending(tasks[j]), tasks[j].at = n
  PROVE  Covered(reported, stack', n.loc)
<1>1. j \in DOMAIN stack' /\ stack'[j] = tasks[j]
  BY PushTyped
<1>2. IsPrefix(n.loc, n.loc)
  BY PrefixReflexive DEF Node
<1> QED
  BY <1>1, <1>2 DEF Covered

LEMMA ListTyped ==
  ASSUME NEW by \in List, NEW nodes \in Seq(Node), NEW gen \in BOOLEAN, NEW depth \in Nat
  PROVE  << ListOf(by, nodes, gen, depth) >> \in Seq(Task)
<1>1. ListOf(by, nodes, gen, depth) \in Task
  BY DEF ListOf, Task
<1> QED
  BY <1>1

(* A list is not a call of the hook.                                       *)
LEMMA ListNotPending ==
  ASSUME Top.do \in List \cup {"derive", "match"} PROVE ~ Pending(Top)
BY DEF List, Pending, Recursive

LEMMA EndListKeeps == ASSUME IInv, EndList PROVE IInv'
<1>1. stack # << >> /\ Top.do \in List /\ Push(<< >>)
      /\ UNCHANGED << program, out, reported, corrections, error >>
  BY DEF EndList, Doing, Running
<1>2. TasksCovered(reported, stack, << >>)
  BY TasksJoined
<1> QED
  BY <1>1, <1>2, ListNotPending, TasksPushed

(* The steps that emit a node and go inside of it.                         *)
LEMMA TraverseKeeps ==
  ASSUME IInv, stack # << >>, Top.do \in List, Top.nodes # << >>,
         Kind[Current.name] \notin {"extension", "special"},
         Emit(Current), NEW gen \in BOOLEAN, gen => Top.gen,
         Push(<< InsideOf(Current, Top.depth), RestWith(gen) >>),
         UNCHANGED << program, reported, corrections, error >>
  PROVE  IInv'
<1>1. TasksCovered(reported, stack, << InsideOf(Current, Top.depth) >>)
  BY TopFacts, InsideCovered
<1>2. TasksCovered(reported, stack, << RestWith(gen) >>)
  BY TopFacts, RestCovered DEF RestWith
<1>3. << InsideOf(Current, Top.depth), RestWith(gen) >>
        = << InsideOf(Current, Top.depth) >> \o << RestWith(gen) >>
  OBVIOUS
<1>4. TasksCovered(reported, stack, << InsideOf(Current, Top.depth), RestWith(gen) >>)
  BY <1>1, <1>2, <1>3, TasksJoined
<1> QED
  BY <1>4, ListNotPending, TasksPushed

LEMMA TraverseItemKeeps == ASSUME IInv, TraverseItem PROVE IInv'
<1>1. /\ stack # << >> /\ Top.do \in List /\ Top.nodes # << >>
      /\ Kind[Current.name] \notin {"extension", "special"}
      /\ Emit(Current) /\ Push(<< InsideOf(Current, Top.depth), RestWith(FALSE) >>)
      /\ UNCHANGED << program, reported, corrections, error >>
  BY DEF TraverseItem, Doing, Running, At, List
<1> QED
  BY <1>1, TraverseKeeps

LEMMA TraverseFieldKeeps == ASSUME IInv, TraverseField PROVE IInv'
<1>1. /\ stack # << >> /\ Top.do \in List /\ Top.nodes # << >>
      /\ Kind[Current.name] \notin {"extension", "special"}
      /\ Emit(Current) /\ Push(<< InsideOf(Current, Top.depth), RestWith(Top.gen) >>)
      /\ UNCHANGED << program, reported, corrections, error >>
  BY DEF TraverseField, Doing, Running, At, List
<1> QED
  BY <1>1, TopFacts, TraverseKeeps

LEMMA TraverseNodeKeeps == ASSUME IInv, TraverseNode PROVE IInv'
<1>1. /\ stack # << >> /\ Top.do \in List /\ Top.nodes # << >>
      /\ Kind[Current.name] \notin {"extension", "special"}
      /\ Emit(Current) /\ Push(<< InsideOf(Current, Top.depth), RestWith(Top.gen) >>)
      /\ UNCHANGED << program, reported, corrections, error >>
  BY DEF TraverseNode, Doing, Running, At, List
<1> QED
  BY <1>1, TopFacts, TraverseKeeps

LEMMA ExpandInlineKeeps == ASSUME IInv, ExpandInline PROVE IInv'
<1> DEFINE made == << ListOf(Top.do, Made(Current, Yields[Current.name], "generated"),
                             TRUE, Top.depth) >>
           report == Report("replace", Current, Top.gen)
           rest == << RestWith(Top.gen) >>
<1>1. /\ stack # << >> /\ Top.do \in List /\ Top.nodes # << >> /\ Push(made \o report \o rest)
      /\ UNCHANGED << program, out, reported, corrections, error >>
  BY DEF ExpandInline, Doing, Running, At, List
<1> DEFINE tasks == made \o report \o rest
<1>2. /\ stack \in Seq(Task) /\ reported \in Seq(HookCall) /\ Current \in Node
      /\ Yields[Current.name] \in Seq(Names) /\ Top.gen \in BOOLEAN /\ Top.depth \in Nat
      /\ Top \in Task /\ TaskCovered(reported, stack, Top) /\ Current.loc \in Seq(Nat)
      /\ NodeCovered(reported, stack, Current, Top.gen)
  BY <1>1, TopFacts, RulesAssumption
<1>3. /\ TasksCovered(reported, stack, report)
      /\ ~ Top.gen => /\ report \in Seq(Task) /\ Len(report) = 1
                      /\ Pending(report[1]) /\ report[1].at = Current
  BY <1>1, <1>2, ReportCovered
<1>4. TasksCovered(reported, stack, rest)
  BY <1>1, <1>2, RestCovered DEF RestWith
<1>5. made \in Seq(Task)
  <2>1. Made(Current, Yields[Current.name], "generated") \in Seq(Node)
    BY <1>2, MadeTyped
  <2> QED
    BY <1>1, <1>2, <2>1, ListTyped
<1>6. /\ report \in Seq(Task) /\ rest \in Seq(Task) /\ tasks \in Seq(Task)
  BY <1>3, <1>4, <1>5, ConcatProperties DEF TasksCovered
<1> HIDE DEF report, rest, tasks
<1>7. \A loc : Covered(reported, stack, loc) => Covered(reported, stack', loc)
  BY <1>1, <1>6, ListNotPending, KeptByPush DEF tasks
<1>8. stack' \in Seq(Task)
  BY <1>1, <1>6, PushTyped DEF tasks
<1>9. Covered(reported, stack', Current.loc)
  <2>1. CASE Top.gen
    BY <1>2, <1>7, <2>1 DEF NodeCovered
  <2>2. CASE ~ Top.gen
    <3>1. PICK j \in DOMAIN tasks : tasks[j] = report[1]
      <4>1. report \in Seq(Task) /\ 1 \in DOMAIN report
        BY <1>3, <2>2
      <4> QED
        BY <1>5, <1>6, <4>1, JoinedTasks DEF tasks
    <3>2. Pending(tasks[j]) /\ tasks[j].at = Current
      BY <1>3, <2>2, <3>1
    <3> QED
      BY <1>1, <1>2, <1>6, <3>2, HookWillBeCalled DEF tasks
  <2> QED
    BY <2>1, <2>2
<1>10. TasksCovered(reported, stack', made)
  BY <1>1, <1>2, <1>8, <1>9, MadeCovered
<1>11. TasksCovered(reported, stack', report) /\ TasksCovered(reported, stack', rest)
  BY <1>3, <1>4, <1>7, KeptCovered
<1>12. TasksCovered(reported, stack', tasks)
  BY <1>10, <1>11, TasksJoined DEF tasks
<1> QED
  BY <1>1, <1>12, ListNotPending, TasksPushed DEF tasks

LEMMA TraverseTypeKeeps == ASSUME IInv, TraverseType PROVE IInv'
<1> DEFINE inside == << InsideOf(Current, Top.depth) >>
           task == [Top EXCEPT !.do = "derive", !.at = Current, !.nodes = Tail(@)]
<1>1. /\ stack # << >> /\ Top.do \in List /\ Top.nodes # << >>
      /\ Kind[Current.name] \notin {"extension", "special"}
      /\ Emit(Current) /\ Push(<< InsideOf(Current, Top.depth), task >>)
      /\ UNCHANGED << program, reported, corrections, error >>
  BY DEF TraverseType, Doing, Running, At, List
<1>2. TasksCovered(reported, stack, inside)
  BY <1>1, TopFacts, InsideCovered
<1> DEFINE rest == RestWith(Top.gen)
<1>3. TaskCovered(reported, stack, rest) /\ rest \in Task
  <2>1. TasksCovered(reported, stack, << rest >>)
    BY <1>1, TopFacts, RestCovered DEF RestWith
  <2>2. 1 \in DOMAIN << rest >> /\ << rest >>[1] = rest
    OBVIOUS
  <2>3. << rest >>[1] \in Task
    BY <2>1, <2>2, ElementOfSeq DEF TasksCovered
  <2> HIDE DEF rest
  <2> QED
    BY <2>1, <2>2, <2>3 DEF TasksCovered
<1>4. Top \in Task /\ Current \in Node /\ Tail(Top.nodes) \in Seq(Node)
      /\ NodeCovered(reported, stack, Current, Top.gen)
  BY <1>1, TopFacts
<1>5. /\ task \in Task /\ task.do = "derive" /\ task.at = Current /\ task.nodes = rest.nodes
      /\ task.gen = Top.gen /\ rest.gen = Top.gen
  BY <1>4 DEF Task, RestWith
<1> HIDE DEF task, rest
<1>6. TaskCovered(reported, stack, task)
  BY <1>3, <1>4, <1>5 DEF TaskCovered, Recursive
<1>7. << InsideOf(Current, Top.depth), task >> = inside \o << task >>
  OBVIOUS
<1>8. TasksCovered(reported, stack, << InsideOf(Current, Top.depth), task >>)
  BY <1>2, <1>5, <1>6, <1>7, TasksJoined
<1> QED
  BY <1>1, <1>8, ListNotPending, TasksPushed

LEMMA DeriveKeeps == ASSUME IInv, Derive PROVE IInv'
<1> DEFINE n == Top.at
           names == Derived[n.name]
           made == << ListOf("items", Made(n, names, "generated"), TRUE, Top.depth) >>
           report == IF names = << >> THEN << >> ELSE Report("insert", n, Top.gen)
           rest == << [Top EXCEPT !.do = "items"] >>
           match == IF Expected[n.name] = << >> THEN << >> ELSE << [Top EXCEPT !.do = "match"] >>
           tasks == made \o report \o rest \o match
<1>1. /\ stack # << >> /\ Top.do = "derive" /\ Push(tasks)
      /\ UNCHANGED << program, out, reported, corrections, error >>
  BY DEF Derive, Doing, Running
<1>2. ~ Pending(Top)
  BY <1>1, ListNotPending
<1>3. /\ stack \in Seq(Task) /\ reported \in Seq(HookCall)
      /\ Top \in Task /\ TaskCovered(reported, stack, Top) /\ Top.gen \in BOOLEAN
      /\ n \in Node /\ n.loc \in Seq(Nat) /\ Top.depth \in Nat /\ Top.nodes \in Seq(Node)
  BY <1>1, TopFacts DEF List
<1>4. names \in Seq(Names) /\ NodeCovered(reported, stack, n, Top.gen)
  BY <1>1, <1>3, RulesAssumption DEF Node, TaskCovered
<1>5. /\ TasksCovered(reported, stack, report)
      /\ names # << >> /\ ~ Top.gen => /\ 1 \in DOMAIN report
                                       /\ Pending(report[1]) /\ report[1].at = n
  <2>1. /\ TasksCovered(reported, stack, Report("insert", n, Top.gen))
        /\ ~ Top.gen => /\ Report("insert", n, Top.gen) \in Seq(Task)
                        /\ Len(Report("insert", n, Top.gen)) = 1
                        /\ Pending(Report("insert", n, Top.gen)[1])
                        /\ Report("insert", n, Top.gen)[1].at = n
    BY <1>1, <1>3, ReportCovered
  <2>2. CASE names = << >>
    BY <2>2, TasksJoined
  <2>3. CASE names # << >>
    <3>1. report = Report("insert", n, Top.gen)
      BY <2>3
    <3>2. ~ Top.gen => 1 \in DOMAIN Report("insert", n, Top.gen)
      BY <2>1
    <3> QED
      BY <2>1, <3>1, <3>2
  <2> QED
    BY <2>2, <2>3
<1>6. ASSUME NEW do \in {"items", "match"}
      PROVE  TasksCovered(reported, stack, << [Top EXCEPT !.do = do] >>)
  <2> DEFINE task == [Top EXCEPT !.do = do]
  <2>1. /\ task \in Task /\ task.do = do /\ task.nodes = Top.nodes
        /\ task.gen = Top.gen /\ task.at = n
    BY <1>3 DEF Task, List
  <2> HIDE DEF task
  <2>2. TaskCovered(reported, stack, task)
    BY <1>3, <2>1 DEF TaskCovered, Recursive
  <2> QED
    BY <2>1, <2>2, TasksJoined DEF task
<1>7. TasksCovered(reported, stack, rest)
  BY <1>6
<1>8. TasksCovered(reported, stack, match)
  BY <1>6, TasksJoined
<1>9. made \in Seq(Task)
  <2>1. Made(n, names, "generated") \in Seq(Node)
    BY <1>3, <1>4, MadeTyped
  <2> QED
    BY <1>3, <2>1, ListTyped DEF List
<1> HIDE DEF made, report, rest, match
<1>10. /\ report \in Seq(Task) /\ rest \in Seq(Task) /\ match \in Seq(Task)
  BY <1>5, <1>7, <1>8 DEF TasksCovered
<1>11. rest \o match \in Seq(Task) /\ made \o report \in Seq(Task)
  BY <1>9, <1>10, ConcatProperties
<1>12. tasks = made \o report \o (rest \o match)
  <2> DEFINE a == made \o report
  <2>1. a \in Seq(Task) /\ tasks = (a \o rest) \o match
    BY <1>11
  <2> HIDE DEF a, tasks
  <2>2. (a \o rest) \o match = a \o (rest \o match)
    BY <1>10, <2>1, ConcatAssociative
  <2> QED
    BY <2>1, <2>2 DEF a
<1>13. tasks \in Seq(Task)
  <2> DEFINE a == made \o report
             b == rest \o match
  <2> HIDE DEF tasks, a, b
  <2>1. a \in Seq(Task) /\ b \in Seq(Task) /\ tasks = a \o b
    BY <1>11, <1>12 DEF a, b
  <2>2. a \o b \in Seq(Task)
    BY <2>1, ConcatProperties
  <2> QED
    BY <2>1, <2>2
<1> HIDE DEF tasks
<1>14. \A loc : Covered(reported, stack, loc) => Covered(reported, stack', loc)
  BY <1>1, <1>2, <1>13, KeptByPush
<1>15. stack' \in Seq(Task)
  BY <1>1, <1>13, PushTyped
<1>16. names = << >> \/ Covered(reported, stack', n.loc)
  <2>1. CASE Top.gen
    BY <1>4, <1>14, <2>1 DEF NodeCovered
  <2>2. CASE ~ Top.gen /\ names # << >>
    <3>1. PICK j \in DOMAIN tasks : tasks[j] = report[1]
      <4>1. 1 \in DOMAIN report
        BY <1>5, <2>2
      <4> DEFINE last == rest \o match
      <4> HIDE DEF last
      <4>2. last \in Seq(Task) /\ tasks = made \o report \o last
        BY <1>11, <1>12 DEF last
      <4>3. \E j \in DOMAIN (made \o report \o last) : (made \o report \o last)[j] = report[1]
        <5>1. made \in Seq(Task) /\ report \in Seq(Task)
          BY <1>9, <1>10
        <5> QED
          BY <4>1, <4>2, <5>1, JoinedTasks, Zenon
      <4> QED
        BY <4>2, <4>3
    <3>2. Pending(tasks[j]) /\ tasks[j].at = n
      BY <1>5, <2>2, <3>1
    <3> QED
      BY <1>1, <1>3, <1>13, <3>2, HookWillBeCalled
  <2> QED
    BY <2>1, <2>2
<1>17. TasksCovered(reported, stack', made)
  BY <1>3, <1>4, <1>15, <1>16, MadeCovered DEF made, List
<1>18. /\ TasksCovered(reported, stack', report) /\ TasksCovered(reported, stack', rest)
       /\ TasksCovered(reported, stack', match)
  BY <1>5, <1>7, <1>8, <1>14, KeptCovered
<1>19. TasksCovered(reported, stack', tasks)
  BY <1>12, <1>17, <1>18, TasksJoined
<1> QED
  BY <1>1, <1>2, <1>19, TasksPushed

LEMMA CallHookKeeps == ASSUME IInv, CallHook PROVE IInv'
<1> DEFINE call == [kind |-> Top.do, loc |-> Top.at.loc]
<1>1. /\ stack # << >> /\ Top.do \in {"replace", "insert"} /\ Push(<< >>)
      /\ reported' = Append(reported, call)
      /\ UNCHANGED << program, out, corrections, error >>
  BY DEF CallHook, Doing, Running
<1>2. /\ reported \in Seq(HookCall) /\ corrections \in Seq(Correction) /\ Top.at.loc \in Seq(Nat)
  BY <1>1, TopFacts
<1>3. call \in HookCall /\ call.loc = Top.at.loc
  BY <1>1, <1>2 DEF HookCall
<1> HIDE DEF call
<1>4. /\ reported' \in Seq(HookCall) /\ Len(reported) \in Nat
      /\ DOMAIN reported = 1 .. Len(reported) /\ DOMAIN reported' = 1 .. Len(reported) + 1
      /\ \A k \in 1 .. Len(reported) : reported'[k] = reported[k]
      /\ reported'[Len(reported) + 1] = call
  BY <1>1, <1>2, <1>3, AppendProperties
<1>5. \A k \in DOMAIN reported : k \in DOMAIN reported' /\ reported'[k] = reported[k]
  BY <1>4
<1>6. \E k \in DOMAIN reported' : reported'[k].loc = Top.at.loc
  <2>1. Len(reported) + 1 \in DOMAIN reported'
    BY <1>4
  <2> QED
    BY <1>3, <1>4, <2>1
<1>7. << >> \in Seq(Task) /\ DOMAIN << >> = {}
  BY EmptySeq
<1> QED
  BY <1>1, <1>2, <1>4, <1>5, <1>6, <1>7, PushStep

LEMMA PrependedTask ==
  ASSUME NEW task \in Task, NEW rest \in Seq(Task)
  PROVE  LET tasks == << task >> \o rest
         IN /\ tasks \in Seq(Task) /\ 1 \in DOMAIN tasks /\ tasks[1] = task
            /\ \A j \in DOMAIN tasks : \/ tasks[j] = task
                                       \/ \E i \in DOMAIN rest : tasks[j] = rest[i]
<1> DEFINE first == << task >>
           tasks == first \o rest
<1>1. first \in Seq(Task) /\ Len(first) = 1 /\ first[1] = task
  OBVIOUS
<1> HIDE DEF first
<1>2. /\ tasks \in Seq(Task) /\ Len(tasks) = Len(first) + Len(rest)
      /\ \A j \in 1 .. Len(first) + Len(rest) :
           tasks[j] = IF j <= Len(first) THEN first[j] ELSE rest[j - Len(first)]
  BY <1>1, ConcatProperties
<1>3. Len(rest) \in Nat /\ DOMAIN rest = 1 .. Len(rest)
  OBVIOUS
<1> HIDE DEF tasks
<1>4. DOMAIN tasks = 1 .. 1 + Len(rest)
  BY <1>1, <1>2
<1>5. 1 \in DOMAIN tasks /\ tasks[1] = task
  BY <1>1, <1>2, <1>3, <1>4
<1>6. ASSUME NEW j \in DOMAIN tasks
      PROVE  tasks[j] = task \/ \E i \in DOMAIN rest : tasks[j] = rest[i]
  <2>1. CASE j = 1
    BY <1>5, <2>1
  <2>2. CASE j # 1
    <3>1. j - 1 \in DOMAIN rest /\ ~ (j <= 1) /\ j \in 1 .. 1 + Len(rest)
      BY <1>3, <1>4, <2>2
    <3>2. tasks[j] = rest[j - 1]
      BY <1>1, <1>2, <3>1
    <3> QED
      BY <3>1, <3>2
  <2> QED
    BY <2>1, <2>2
<1> QED
  BY <1>2, <1>5, <1>6 DEF first, tasks

(* A task that remains to be done covers what it makes of a node that is   *)
(* itself inside of the node it is to report.                              *)
LEMMA RecursiveStep ==
  ASSUME IInv, stack # << >>, NEW do \in Recursive, NEW at \in Node,
         Top.nodes # << >>, IsPrefix(at.loc, Current.loc), NEW rest \in Seq(Task),
         TasksCovered(reported, stack, rest), Pending(Top) => Top.at = at,
         LET made == Made(Current, Yields[Current.name], "generated")
         IN Push(<< [Top EXCEPT !.do = do, !.at = at, !.nodes = made] >> \o rest),
         UNCHANGED << program, out, reported, corrections, error >>
  PROVE  IInv'
<1> DEFINE made == Made(Current, Yields[Current.name], "generated")
           task == [Top EXCEPT !.do = do, !.at = at, !.nodes = made]
           tasks == << task >> \o rest
<1>1. /\ stack \in Seq(Task) /\ reported \in Seq(HookCall) /\ Top \in Task
      /\ Current \in Node /\ Current.loc \in Seq(Nat) /\ Current.name \in Names
      /\ corrections \in Seq(Correction)
  BY TopFacts
<1>2. /\ made \in Seq(Node)
      /\ \A k \in DOMAIN made : IsPrefix(Current.loc, made[k].loc) /\ made[k].loc \in Seq(Nat)
  <2>1. Yields[Current.name] \in Seq(Names)
    BY <1>1, RulesAssumption
  <2>2. /\ made \in Seq(Node) /\ \A k \in DOMAIN made : IsPrefix(Current.loc, made[k].loc)
    BY <1>1, <2>1, MadeTyped
  <2> HIDE DEF made
  <2>3. \A k \in DOMAIN made : made[k] \in Node
    BY <2>2
  <2> QED
    BY <2>2, <2>3 DEF Node
<1> HIDE DEF made
<1>3. \A k \in DOMAIN made : IsPrefix(at.loc, made[k].loc)
  BY <1>1, <1>2, PrefixTransitive DEF Node
<1>4. task \in Task /\ task.do = do /\ task.at = at /\ task.nodes = made
  BY <1>1, <1>2 DEF Task, Recursive
<1> HIDE DEF task
<1>5. Pending(task)
  BY <1>4 DEF Pending
<1>6. /\ tasks \in Seq(Task) /\ 1 \in DOMAIN tasks /\ tasks[1] = task
      /\ \A j \in DOMAIN tasks : tasks[j] = task \/ \E i \in DOMAIN rest : tasks[j] = rest[i]
  BY <1>4, PrependedTask
<1>7. Push(tasks)
  BY DEF task, made
<1> HIDE DEF tasks
<1>9. 1 \in DOMAIN stack' /\ stack'[1] = task /\ stack' \in Seq(Task)
  BY <1>6, <1>7, PushTyped
<1>10. TaskCovered(reported', stack', task)
  <2>1. \A j \in DOMAIN made : Covered(reported', stack', made[j].loc)
    BY <1>3, <1>4, <1>5, <1>9 DEF Covered
  <2>2. task.do # "derive"
    BY <1>4 DEF Recursive
  <2> QED
    BY <1>3, <1>4, <2>1, <2>2 DEF TaskCovered, NodeCovered
<1>11. \A j \in DOMAIN tasks : \/ TaskCovered(reported, stack, tasks[j])
                               \/ TaskCovered(reported', stack', tasks[j])
  BY <1>6, <1>10 DEF TasksCovered
<1>12. /\ reported' \in Seq(HookCall) /\ corrections' \in Seq(Correction)
       /\ \A k \in DOMAIN reported : k \in DOMAIN reported' /\ reported'[k] = reported[k]
  BY <1>1
<1>13. Pending(Top) => \E j \in DOMAIN tasks : Pending(tasks[j]) /\ tasks[j].at = Top.at
  BY <1>4, <1>5, <1>6
<1> QED
  BY <1>6, <1>7, <1>11, <1>12, <1>13, PushStep

LEMMA ExpandNodeKeeps == ASSUME IInv, ExpandNode PROVE IInv'
<1> DEFINE do == Again(Top.do)
           made == Made(Current, Yields[Current.name], "generated")
           task == [Top EXCEPT !.do = do, !.at = Current, !.nodes = made]
           rest == << RestWith(Top.gen) >>
<1>1. /\ stack # << >> /\ Top.do \in {"nodes", "expressions"} /\ Top.nodes # << >>
      /\ Push(<< task, RestWith(Top.gen) >>)
      /\ UNCHANGED << program, out, reported, corrections, error >>
  BY DEF ExpandNode, Doing, Running, At
<1>2. do \in Recursive /\ Top.do \in List
  BY <1>1 DEF Again, Recursive, List
<1>3. TasksCovered(reported, stack, rest)
  BY <1>1, <1>2, TopFacts, RestCovered DEF RestWith
<1>4. Push(<< task >> \o rest)
  <2>1. << task, RestWith(Top.gen) >> = << task >> \o rest
    OBVIOUS
  <2> QED
    BY <1>1, <2>1
<1>5. Current \in Node /\ IsPrefix(Current.loc, Current.loc) /\ ~ Pending(Top)
      /\ rest \in Seq(Task)
  BY <1>1, <1>2, <1>3, TopFacts, PrefixReflexive, ListNotPending DEF TasksCovered
<1> HIDE DEF do, rest
<1> QED
  BY <1>1, <1>2, <1>3, <1>4, <1>5, RecursiveStep

LEMMA ExpandAgainKeeps == ASSUME IInv, ExpandAgain PROVE IInv'
<1> DEFINE made == Made(Current, Yields[Current.name], "generated")
           task == [Top EXCEPT !.do = Top.do, !.at = Top.at, !.nodes = made]
<1>1. /\ stack # << >> /\ Top.do \in Recursive /\ Top.nodes # << >>
      /\ Push(<< [Top EXCEPT !.nodes = made] >>)
      /\ UNCHANGED << program, out, reported, corrections, error >>
  BY DEF ExpandAgain, Doing, Running, At, Recursive
<1>2. Top \in Task /\ Top.at \in Node /\ IsPrefix(Top.at.loc, Current.loc)
  BY <1>1, TopFacts DEF List, Recursive
<1>3. [Top EXCEPT !.nodes = made] = task
  BY <1>2 DEF Task
<1>4. << task >> = << task >> \o << >>
  OBVIOUS
<1>5. Push(<< task >> \o << >>)
  BY <1>1, <1>3, <1>4
<1>6. << >> \in Seq(Task) /\ TasksCovered(reported, stack, << >>)
  BY TasksJoined, EmptySeq
<1> QED
  BY <1>1, <1>2, <1>5, <1>6, RecursiveStep

(* The report of a node that was expanded, and what is inside the result.  *)
LEMMA EndNodeKeeps == ASSUME IInv, EndNode PROVE IInv'
<1> DEFINE inside == << InsideOf(Current, Top.depth) >>
           report == Report("replace", Top.at, FALSE)
           tasks == inside \o report
<1>1. /\ stack # << >> /\ Top.do = "rec nodes" /\ Top.nodes # << >>
      /\ Kind[Current.name] \notin {"extension", "special"}
      /\ Emit(Current) /\ Push(tasks)
      /\ UNCHANGED << program, reported, corrections, error >>
  BY DEF EndNode, Doing, Running, At
<1>2. /\ stack \in Seq(Task) /\ Top.at \in Node
  BY <1>1, TopFacts DEF List
<1>3. TasksCovered(reported, stack, inside)
  BY <1>1, TopFacts, InsideCovered
<1>4. /\ TasksCovered(reported, stack, report)
      /\ report \in Seq(Task) /\ Len(report) = 1 /\ Pending(report[1]) /\ report[1].at = Top.at
  BY <1>1, <1>2, ReportCovered
<1> HIDE DEF inside, report
<1>5. TasksCovered(reported, stack, tasks)
  BY <1>3, <1>4, TasksJoined
<1>6. \E j \in DOMAIN tasks : tasks[j] = report[1]
  <2>1. << >> \in Seq(Task) /\ inside \in Seq(Task) /\ 1 \in DOMAIN report
    BY <1>3, <1>4, EmptySeq DEF TasksCovered
  <2>2. \E j \in DOMAIN (inside \o report \o << >>) : (inside \o report \o << >>)[j] = report[1]
    BY <1>4, <2>1, JoinedTasks, Zenon
  <2>3. inside \o report \in Seq(Task)
    BY <1>4, <2>1, ConcatProperties
  <2>4. tasks \o << >> = tasks
    BY <2>3, ConcatEmptySeq
  <2> QED
    BY <2>2, <2>4
<1> QED
  BY <1>1, <1>4, <1>5, <1>6, TasksPushed

LEMMA EndExpressionKeeps == ASSUME IInv, EndExpression PROVE IInv'
<1> DEFINE report == Report("replace", Top.at, FALSE)
           task == [Top EXCEPT !.do = "expressions", !.at = NoNode]
           tasks == report \o << task >>
<1>1. /\ stack # << >> /\ Top.do = "rec expressions" /\ Push(tasks)
      /\ UNCHANGED << program, out, reported, corrections, error >>
  BY DEF EndExpression, Doing, Running
<1>2. /\ stack \in Seq(Task) /\ Top \in Task /\ Top.at \in Node
      /\ TaskCovered(reported, stack, Top)
  BY <1>1, TopFacts DEF List
<1>3. /\ TasksCovered(reported, stack, report)
      /\ report \in Seq(Task) /\ Len(report) = 1 /\ Pending(report[1]) /\ report[1].at = Top.at
  BY <1>1, <1>2, ReportCovered
<1>4. /\ task \in Task /\ task.do = "expressions" /\ task.nodes = Top.nodes /\ task.gen = Top.gen
  BY <1>2 DEF Task, List
<1> HIDE DEF task, report
<1>5. TaskCovered(reported, stack, task)
  BY <1>2, <1>4 DEF TaskCovered, Recursive, List
<1>6. TasksCovered(reported, stack, << task >>) /\ << task >> \in Seq(Task)
  <2>1. TasksCovered(reported, stack, << task >>)
    BY <1>4, <1>5, TasksJoined
  <2> QED
    BY <1>4, <2>1
<1>7. TasksCovered(reported, stack, tasks)
  BY <1>3, <1>6, TasksJoined
<1>8. \E j \in DOMAIN tasks : tasks[j] = report[1]
  <2> DEFINE last == << task >>
  <2>1. last \in Seq(Task) /\ Len(last) = 1
    BY <1>6
  <2> HIDE DEF last
  <2>2. 1 \in DOMAIN (report \o last) /\ (report \o last)[1] = report[1]
    BY <1>3, <2>1, ConcatProperties
  <2> QED
    BY <2>2 DEF last
<1> QED
  BY <1>1, <1>3, <1>7, <1>8, TasksPushed

LEMMA RewriteKeeps == ASSUME IInv, Rewrite PROVE IInv'
<1> DEFINE made == Made(Current, Yields[Current.name], "rewritten")
           task == [Top EXCEPT !.nodes = made]
           rest == << RestWith(Top.gen) >>
<1>1. /\ stack # << >> /\ Top.do \in List /\ Top.nodes # << >> /\ Push(<< task, RestWith(Top.gen) >>)
      /\ UNCHANGED << program, out, reported, corrections, error >>
  BY DEF Rewrite, Doing, Running, At, List
<1>2. /\ stack \in Seq(Task) /\ reported \in Seq(HookCall) /\ Top \in Task
      /\ Current \in Node /\ Current.loc \in Seq(Nat) /\ Current.name \in Names
      /\ NodeCovered(reported, stack, Current, Top.gen)
  BY <1>1, TopFacts
<1>3. /\ made \in Seq(Node)
      /\ \A k \in DOMAIN made : /\ IsPrefix(Current.loc, made[k].loc)
                                /\ made[k].from \in {"rewritten", Current.from}
  <2>1. Yields[Current.name] \in Seq(Names)
    BY <1>2, RulesAssumption
  <2> QED
    BY <1>2, <2>1, MadeTyped
<1> HIDE DEF made
<1>4. task \in Task /\ task.do = Top.do /\ task.nodes = made /\ task.gen = Top.gen
  BY <1>2, <1>3 DEF Task
<1> HIDE DEF task
<1>5. ASSUME NEW k \in DOMAIN task.nodes
      PROVE  NodeCovered(reported, stack, task.nodes[k], task.gen)
  <2>1. made[k].loc \in Seq(Nat)
    BY <1>4, TaskFields
  <2>2. Top.gen \/ made[k].from = "generated" => Covered(reported, stack, Current.loc)
    BY <1>2, <1>3, <1>4 DEF NodeCovered
  <2>3. IsPrefix(Current.loc, made[k].loc)
    BY <1>3, <1>4
  <2>4. Covered(reported, stack, Current.loc) => Covered(reported, stack, made[k].loc)
    BY <1>2, <2>1, <2>3, CoveredInside
  <2> QED
    BY <1>4, <2>2, <2>4 DEF NodeCovered
<1>6. TaskCovered(reported, stack, task)
  BY <1>1, <1>4, <1>5 DEF TaskCovered, List, Recursive
<1>7. TasksCovered(reported, stack, rest)
  BY <1>1, TopFacts, RestCovered DEF RestWith
<1>8. << task, RestWith(Top.gen) >> = << task >> \o rest
  OBVIOUS
<1>9. TasksCovered(reported, stack, << task, RestWith(Top.gen) >>)
  BY <1>4, <1>6, <1>7, <1>8, TasksJoined
<1> QED
  BY <1>1, <1>9, ListNotPending, TasksPushed

(* The marker is a place in the list, and the corrections are typed.       *)
LEMMA MarkerFound ==
  ASSUME NEW nodes \in Seq(Node), Markers(nodes) # {}
  PROVE  EndMarker(nodes) \in 1 .. Len(nodes)
<1>1. Markers(nodes) \in SUBSET Nat /\ Markers(nodes) \subseteq 1 .. Len(nodes)
  BY DEF Markers
<1>2. \E i \in Markers(nodes) : \A j \in Markers(nodes) : i <= j
  BY <1>1, LeastExists
<1> QED
  BY <1>1, <1>2 DEF EndMarker

LEMMA MatchTyped ==
  ASSUME NEW expected \in Seq(Names), NEW source \in Seq(Node), NEW end \in Seq(Nat)
  PROVE  MatchLoop(expected, source, end) \in Seq(Correction)
<1> DEFINE different == {i \in DOMAIN expected : i <= Len(source) /\ source[i].name # expected[i]}
           replaced == [i \in DOMAIN expected |->
                          IF i \in different
                          THEN << Replaced(source[i].loc, source[i].loc, << expected[i] >>) >>
                          ELSE << >>]
           missing == << [Replaced(end, end, SubSeq(expected, Len(source) + 1, Len(expected)))
                            EXCEPT !.before = TRUE] >>
           left == << Replaced(source[Len(expected) + 1].loc, source[Len(source)].loc, << >>) >>
<1>1. /\ Len(expected) \in Nat /\ DOMAIN expected = 1 .. Len(expected)
      /\ Len(source) \in Nat /\ DOMAIN source = 1 .. Len(source)
      /\ \A i \in 1 .. Len(expected) : expected[i] \in Names
      /\ \A i \in 1 .. Len(source) : source[i] \in Node /\ source[i].loc \in Seq(Nat)
  <2>1. \A n \in Node : n.loc \in Seq(Nat)
    BY DEF Node
  <2>2. \A i \in 1 .. Len(source) : source[i] \in Node
    BY ElementOfSeq
  <2>3. \A i \in 1 .. Len(expected) : expected[i] \in Names
    BY ElementOfSeq
  <2> QED
    BY <2>1, <2>2, <2>3
<1>2. ASSUME NEW first \in Seq(Nat), NEW last \in Seq(Nat), NEW code \in Seq(Names)
      PROVE  /\ << Replaced(first, last, code) >> \in Seq(Correction)
             /\ << [Replaced(first, last, code) EXCEPT !.before = TRUE] >> \in Seq(Correction)
  <2> DEFINE c == Replaced(first, last, code)
             d == [c EXCEPT !.before = TRUE]
  <2>1. c \in Correction /\ d \in Correction
    BY DEF Replaced, Correction
  <2> HIDE DEF c, d
  <2>2. << c >> \in Seq(Correction) /\ << d >> \in Seq(Correction)
    BY <2>1
  <2> QED
    BY <2>2 DEF c, d
<1>3. replaced \in Seq(Seq(Correction))
  <2>1. ASSUME NEW i \in 1 .. Len(expected) PROVE replaced[i] \in Seq(Correction)
    <3>1. CASE i \in different
      <4>1. source[i].loc \in Seq(Nat) /\ << expected[i] >> \in Seq(Names)
        BY <1>1, <3>1
      <4>2. << Replaced(source[i].loc, source[i].loc, << expected[i] >>) >> \in Seq(Correction)
        BY <1>2, <4>1
      <4>3. replaced[i] = << Replaced(source[i].loc, source[i].loc, << expected[i] >>) >>
        BY <1>1, <3>1
      <4> HIDE DEF replaced
      <4> QED
        BY <4>2, <4>3
    <3>2. CASE i \notin different
      <4>1. replaced[i] = << >>
        BY <1>1, <3>2
      <4> QED
        BY <4>1, EmptySeq
    <3> QED
      BY <3>1, <3>2
  <2>2. replaced = [i \in 1 .. Len(expected) |-> replaced[i]]
    BY <1>1
  <2> HIDE DEF replaced
  <2>3. replaced \in [1 .. Len(expected) -> Seq(Correction)]
    BY <2>1, <2>2
  <2>4. replaced \in UNION {[1 .. n -> Seq(Correction)] : n \in Nat}
    BY <1>1, <2>3
  <2> QED
    BY <2>4, SeqDef, Zenon
<1>4. FlattenSeq(replaced) \in Seq(Correction)
  BY <1>3, FlattenTyped
<1>5. Len(source) < Len(expected) => missing \in Seq(Correction)
  <2>1. ASSUME Len(source) < Len(expected)
        PROVE  SubSeq(expected, Len(source) + 1, Len(expected)) \in Seq(Names)
    BY <1>1, <2>1, SubSeqProperties
  <2> QED
    BY <1>2, <2>1
<1>6. Len(source) > Len(expected) => left \in Seq(Correction)
  <2> SUFFICES ASSUME Len(source) > Len(expected) PROVE left \in Seq(Correction)
    OBVIOUS
  <2>1. << >> \in Seq(Names)
    BY EmptySeq
  <2>2. source[Len(expected) + 1].loc \in Seq(Nat) /\ source[Len(source)].loc \in Seq(Nat)
    BY <1>1
  <2> QED
    BY <1>2, <2>1, <2>2
<1>7. << >> \in Seq(Correction)
  BY EmptySeq
<1> DEFINE flat == FlattenSeq(replaced)
           more == IF Len(source) < Len(expected) THEN missing
                   ELSE IF Len(source) > Len(expected) THEN left ELSE << >>
<1>8. more \in Seq(Correction)
  <2> HIDE DEF missing, left
  <2> QED
    BY <1>5, <1>6, <1>7
<1>9. MatchLoop(expected, source, end) = flat \o more
  BY DEF MatchLoop
<1> HIDE DEF flat, more
<1>10. flat \o more \in Seq(Correction)
  BY <1>4, <1>8, ConcatProperties DEF flat
<1> QED
  BY <1>9, <1>10

LEMMA MatchExpectedKeeps == ASSUME IInv, MatchExpected PROVE IInv'
<1> DEFINE end == EndMarker(Top.nodes)
           added == MatchLoop(Expected[Top.at.name], SubSeq(Top.nodes, 1, end - 1),
                              Top.nodes[end].loc)
<1>1. /\ stack # << >> /\ Top.do = "match" /\ Markers(Top.nodes) # {}
      /\ corrections' = corrections \o added /\ Push(<< >>)
      /\ UNCHANGED << program, out, reported, error >>
  BY DEF MatchExpected, Doing, Running
<1>2. /\ Top.nodes \in Seq(Node) /\ Top.at \in Node /\ corrections \in Seq(Correction)
      /\ reported \in Seq(HookCall)
  BY <1>1, TopFacts DEF List
<1>3. end \in 1 .. Len(Top.nodes)
  BY <1>1, <1>2, MarkerFound
<1> HIDE DEF end
<1>4. /\ SubSeq(Top.nodes, 1, end - 1) \in Seq(Node) /\ Top.nodes[end] \in Node
  <2>1. end - 1 \in 0 .. Len(Top.nodes) /\ 1 \in 1 .. Len(Top.nodes) + 1
    BY <1>2, <1>3
  <2> QED
    BY <1>2, <1>3, <2>1, SubSeqProperties, ElementOfSeq
<1>5. Expected[Top.at.name] \in Seq(Names) /\ Top.nodes[end].loc \in Seq(Nat)
  BY <1>2, <1>4, RulesAssumption DEF Node
<1>6. added \in Seq(Correction)
  BY <1>4, <1>5, MatchTyped
<1> HIDE DEF added
<1>7. corrections' \in Seq(Correction)
  BY <1>1, <1>2, <1>6, ConcatProperties
<1>8. << >> \in Seq(Task) /\ DOMAIN << >> = {}
  BY EmptySeq
<1> QED
  BY <1>1, <1>2, <1>7, <1>8, ListNotPending, PushStep

(* An error leaves everything else as it is.                               *)
LEMMA RaiseKeeps ==
  ASSUME IInv, NEW kind \in {"expansion", "altered", "marker"}, NEW loc \in Seq(Nat),
         Raise(kind, loc)
  PROVE  IInv'
<1>1. error' \in Error
  BY DEF Raise, Error
<1>2. UNCHANGED << program, stack, out, reported, corrections >>
  BY DEF Raise
<1> QED
  BY <1>1, <1>2 DEF IInv, TypeOK, StackCovered, OutCovered

LEMMA FailureKeeps ==
  ASSUME IInv, MarkerMissing \/ ExpanderFails \/ AttributesAltered \/ DeriverFails PROVE IInv'
<1>1. \/ stack # << >> /\ \E kind \in {"expansion", "altered", "marker"} : Raise(kind, Top.at.loc)
      \/ stack # << >> /\ Top.nodes # << >> /\ Raise("expansion", Current.loc)
  BY DEF MarkerMissing, ExpanderFails, AttributesAltered, DeriverFails, Doing, Running, At
<1>2. stack # << >> => Top.at.loc \in Seq(Nat) /\ (Top.nodes # << >> => Current.loc \in Seq(Nat))
  BY TopFacts
<1> QED
  BY <1>1, <1>2, RaiseKeeps

-----------------------------------------------------------------------------
LEMMA InitHolds == ASSUME Init PROVE IInv
<1> DEFINE task == ListOf("items", Source, FALSE, 0)
<1>1. /\ program \in Seq(Names) /\ program \in Programs /\ stack = << task >>
      /\ out = << >> /\ reported = << >> /\ corrections = << >>
      /\ error = [kind |-> "none", loc |-> << >>]
  BY RulesAssumption DEF Init
<1>2. /\ Source \in Seq(Node) /\ \A i \in DOMAIN Source : Source[i].from = "source"
  <2>1. DOMAIN program = 1 .. Len(program) /\ Len(program) \in Nat
    BY <1>1
  <2>2. ASSUME NEW i \in 1 .. Len(program)
        PROVE  Source[i] \in Node /\ Source[i].from = "source"
    <3>1. Source[i] = [name |-> program[i], loc |-> << i >>, from |-> "source"]
      BY <2>1 DEF Source
    <3>2. program[i] \in Names /\ << i >> \in Seq(Nat)
      BY <1>1
    <3> DEFINE name == program[i]
               loc == << i >>
    <3> HIDE DEF name, loc
    <3>3. Source[i] = [name |-> name, loc |-> loc, from |-> "source"]
          /\ name \in Names /\ loc \in Seq(Nat)
      BY <3>1, <3>2 DEF name, loc
    <3> QED
      BY <3>3 DEF Node
  <2>3. Source = [i \in 1 .. Len(program) |-> Source[i]]
    BY <2>1 DEF Source
  <2>4. Source \in [1 .. Len(program) -> Node] /\ DOMAIN Source = 1 .. Len(program)
    BY <2>2, <2>3
  <2> QED
    BY <2>1, <2>2, <2>4, SeqDef
<1>3. task \in Task /\ task.do = "items" /\ task.nodes = Source /\ task.gen = FALSE
  BY <1>2 DEF Task, ListOf, List
<1> HIDE DEF task
<1>4. TaskCovered(reported, stack, task)
  BY <1>2, <1>3 DEF TaskCovered, NodeCovered, Recursive, List
<1>5. TasksCovered(reported, stack, << task >>)
  BY <1>3, <1>4, TasksJoined
<1>6. error \in Error
  BY <1>1, EmptySeq DEF Error
<1> QED
  BY <1>1, <1>5, <1>6, EmptySeq DEF IInv, TypeOK, StackCovered, OutCovered, TasksCovered

LEMMA NextKeeps == ASSUME IInv, [Next]_vars PROVE IInv'
<1>1. CASE UNCHANGED vars
  BY <1>1 DEF vars, IInv, TypeOK, StackCovered, OutCovered
<1>2. CASE Next
  BY <1>2, EndListKeeps, TraverseItemKeeps, TraverseFieldKeeps, ExpandInlineKeeps,
     TraverseTypeKeeps, DeriveKeeps, CallHookKeeps, ExpandNodeKeeps, ExpandAgainKeeps,
     EndNodeKeeps, EndExpressionKeeps, TraverseNodeKeeps, RewriteKeeps, MatchExpectedKeeps,
     FailureKeeps DEF Next
<1> QED
  BY <1>1, <1>2

(* The pass keeps its types: in particular no extension for which there is *)
(* a rule is left in the result.                                           *)
THEOREM PassTyped == Spec => []TypeOK
<1>1. IInv => TypeOK
  BY DEF IInv
<1> QED
  BY <1>1, InitHolds, NextKeeps, PTL DEF Spec

(* Whatever was generated lies where the hook was told of generated code,  *)
(* also what was generated inside of generated code (context_free.ml,      *)
(* in_generated_code), for any rules and any nesting.                      *)
THEOREM PassReports == Spec => []HookCoversRules
<1>1. ASSUME IInv, Done, NEW i \in DOMAIN out, out[i].node.from = "generated"
      PROVE  \E k \in DOMAIN reported : IsPrefix(reported[k].loc, out[i].node.loc)
  <2>1. Covered(reported, stack, out[i].node.loc)
    BY <1>1 DEF IInv, OutCovered, NodeCovered
  <2>2. DOMAIN stack = {}
    BY <1>1 DEF Done
  <2> QED
    BY <2>1, <2>2 DEF Covered
<1>2. IInv => HookCoversRules
  BY <1>1 DEF HookCoversRules
<1> QED
  BY <1>2, InitHolds, NextKeeps, PTL DEF Spec
=============================================================================
