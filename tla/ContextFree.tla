------------------------------- MODULE ContextFree -----------------------------
(***************************************************************************)
(* The context-free pass (context_free.ml, class map_top_down): one        *)
(* traversal that expands extensions, derives from type declarations and   *)
(* compares inline derived code with the source (code_matcher.ml).  The    *)
(* recursive methods are a stack of what remains to be done.               *)
(***************************************************************************)
EXTENDS Naturals, Sequences, SequencesExt

CONSTANTS
  Names,      \* what a node is, its location aside
  Kind,       \* "plain"; "extension": a rule of its context matches; "special":
              \* a constant or special function that is rewritten; "type": an item
              \* that rules on attributes look at; "end": [@@@deriving.end]
  Children,   \* [by, names]: the nodes inside, and how they are traversed
  Yields,     \* what an extension or a special function expands to
  Derived,    \* items derived from a type declaration, in the order of the derivers
  Expected,   \* items an inline deriver expects in the source after it
  Failing,    \* those whose expander or deriver raises
  Altered,    \* types that lose or gain an attribute when what is inside is expanded
  Programs    \* bound: the structures given to the pass

List == {"items", "fields", "nodes", "expressions"}

ASSUME RulesAssumption ==
  /\ Kind \in [Names -> {"plain", "extension", "special", "type", "end"}]
  /\ Children \in [Names -> [by : List, names : Seq(Names)]]
  /\ Yields \in [Names -> Seq(Names)]
  /\ Derived \in [Names -> Seq(Names)] /\ Expected \in [Names -> Seq(Names)]
  /\ Failing \subseteq Names /\ Altered \subseteq Names
  /\ Programs \subseteq Seq(Names)

VARIABLES
  program,      \* the structure given
  stack,        \* what remains to be done, the innermost call first
  out,          \* the result: nodes in prefix order with their depths
  reported,     \* calls of the generated code hook
  corrections,  \* calls of the expect mismatch handler
  error         \* what was raised

vars == <<program, stack, out, reported, corrections, error>>

\* Where a node comes from: the source, a rule the hook is told of, or a rewriting.
\* The location is a path in the source; generated nodes have that of the node
\* they replace or are derived from.
Node == [name : Names, loc : Seq(Nat), from : {"source", "generated", "rewritten"}]
NoNode == [name |-> "none", loc |-> <<>>, from |-> "none"]
Task == [do : List \cup {"derive", "rec nodes", "rec expressions", "replace", "insert", "match"},
         nodes : Seq(Node), gen : BOOLEAN, depth : Nat, at : Node \cup {NoNode}]
Error == [kind : {"none", "expansion", "altered", "marker"}, loc : Seq(Nat)]
Correction == [first : Seq(Nat), last : Seq(Nat), before : BOOLEAN, code : Seq(Names)]

TypeOK ==
  /\ program \in Programs
  /\ stack \in Seq(Task)
  /\ out \in Seq([node : {n \in Node : Kind[n.name] \notin {"extension", "special"}}, depth : Nat])
  /\ reported \in Seq([kind : {"replace", "insert"}, loc : Seq(Nat)])
  /\ corrections \in Seq(Correction)
  /\ error \in Error

--------------------------------------------------------------------------------
Inside(n) ==
  [i \in DOMAIN Children[n.name].names |->
     [name |-> Children[n.name].names[i], from |-> n.from,
      loc |-> IF n.from = "source" THEN Append(n.loc, i) ELSE n.loc]]

\* what a rule makes out of a node; it may keep nodes of the payload
Made(n, names, how) ==
  [k \in DOMAIN names |->
     IF \E i \in DOMAIN Inside(n) : Inside(n)[i].name = names[k]
     THEN Inside(n)[CHOOSE i \in DOMAIN Inside(n) : Inside(n)[i].name = names[k]]
     ELSE [name |-> names[k], loc |-> n.loc, from |-> how]]

\* "items" are those of a structure or a signature: one method is made out of the
\* other (str_to_sig)
ListOf(by, nodes, gen, depth) ==
  [do |-> by, nodes |-> nodes, gen |-> gen, depth |-> depth, at |-> NoNode]
InsideOf(n, depth) == ListOf(Children[n.name].by, Inside(n), FALSE, depth + 1)

Source == [i \in DOMAIN program |-> [name |-> program[i], loc |-> <<i>>, from |-> "source"]]

Init ==
  /\ program \in Programs
  /\ stack = <<ListOf("items", Source, FALSE, 0)>>
  /\ out = <<>> /\ reported = <<>> /\ corrections = <<>>
  /\ error = [kind |-> "none", loc |-> <<>>]

Running == error.kind = "none" /\ stack # <<>>
Top == Head(stack)
Doing(tasks) == Running /\ Top.do \in tasks
Current == Head(Top.nodes)
At(kinds) == Top.nodes # <<>> /\ Kind[Current.name] \in kinds
Push(tasks) == stack' = tasks \o Tail(stack)
Emit(n) == out' = Append(out, [node |-> n, depth |-> Top.depth])
RestWith(gen) == [Top EXCEPT !.nodes = Tail(@), !.gen = gen]

EndList ==
  /\ Doing(List) /\ Top.nodes = <<>>
  /\ Push(<<>>)
  /\ UNCHANGED <<program, out, reported, corrections, error>>

\* mutant: the rest of generated items counts as generated even at the top
TraverseItemGenerated ==
  /\ Doing({"items"}) /\ At({"plain", "end"})
  /\ Emit(Current)
  /\ Push(<<InsideOf(Current, Top.depth), RestWith(TRUE)>>)
  /\ UNCHANGED <<program, reported, corrections, error>>

\* any other item: the rest is given to self#structure, which starts outside of
\* generated code again
TraverseItem ==
  /\ Doing({"items"}) /\ At({"plain", "end"})
  /\ Emit(Current)
  /\ Push(<<InsideOf(Current, Top.depth), RestWith(FALSE)>>)
  /\ UNCHANGED <<program, reported, corrections, error>>

TraverseField ==
  /\ Doing({"fields"}) /\ At({"plain"})
  /\ Emit(Current)
  /\ Push(<<InsideOf(Current, Top.depth), RestWith(Top.gen)>>)
  /\ UNCHANGED <<program, reported, corrections, error>>

Report(kind, n, gen) ==
  IF gen THEN <<>> ELSE <<[Top EXCEPT !.do = kind, !.nodes = <<>>, !.at = n]>>

\* extensions among items and class fields: convert_inline, then the result is
\* expanded in its turn
ExpandInline ==
  /\ Doing({"items", "fields"}) /\ At({"extension"}) /\ Current.name \notin Failing
  /\ Push(<<ListOf(Top.do, Made(Current, Yields[Current.name], "generated"), TRUE, Top.depth)>>
          \o Report("replace", Current, Top.gen) \o <<RestWith(Top.gen)>>)
  /\ UNCHANGED <<program, out, reported, corrections, error>>

\* a type declaration: what is inside first, then the derivers
TraverseType ==
  /\ Doing({"items"}) /\ At({"type"})
  /\ Emit(Current)
  /\ Push(<<InsideOf(Current, Top.depth),
            [Top EXCEPT !.do = "derive", !.at = Current, !.nodes = Tail(@)]>>)
  /\ UNCHANGED <<program, reported, corrections, error>>

\* mutant: the rest is traversed before the derived items
DeriveLast ==
  /\ Doing({"derive"}) /\ Top.at.name \notin Failing \cup Altered
  /\ LET n == Top.at
     IN  Push(<<[Top EXCEPT !.do = "items"]>>
              \o <<ListOf("items", Made(n, Derived[n.name], "generated"), TRUE, Top.depth)>>
              \o (IF Derived[n.name] = <<>> THEN <<>> ELSE Report("insert", n, Top.gen))
              \o (IF Expected[n.name] = <<>> THEN <<>> ELSE <<[Top EXCEPT !.do = "match"]>>))
  /\ UNCHANGED <<program, out, reported, corrections, error>>

\* with_extra_items: expand what is derived, then the rest, then match the
\* source of the rest
Derive ==
  /\ Doing({"derive"}) /\ Top.at.name \notin Failing \cup Altered
  /\ LET n == Top.at
     IN  Push(<<ListOf("items", Made(n, Derived[n.name], "generated"), TRUE, Top.depth)>>
              \o (IF Derived[n.name] = <<>> THEN <<>> ELSE Report("insert", n, Top.gen))
              \o <<[Top EXCEPT !.do = "items"]>>
              \o (IF Expected[n.name] = <<>> THEN <<>> ELSE <<[Top EXCEPT !.do = "match"]>>))
  /\ UNCHANGED <<program, out, reported, corrections, error>>

CallHook ==
  /\ Doing({"replace", "insert"})
  /\ reported' = Append(reported, [kind |-> Top.do, loc |-> Top.at.loc])
  /\ Push(<<>>)
  /\ UNCHANGED <<program, out, corrections, error>>

--------------------------------------------------------------------------------
(* map_node, for contexts that hold one node, and the method expression *)

Again(list) == IF list = "nodes" THEN "rec nodes" ELSE "rec expressions"

ExpandNode ==
  /\ Doing({"nodes", "expressions"}) /\ At({"extension"}) /\ Current.name \notin Failing
  /\ Push(<<[Top EXCEPT !.do = Again(Top.do), !.at = Current,
               !.nodes = Made(Current, Yields[Current.name], "generated")],
            RestWith(Top.gen)>>)
  /\ UNCHANGED <<program, out, reported, corrections, error>>

\* mutant: the result is not expanded again
ExpandOnce ==
  /\ Doing({"rec nodes", "rec expressions"}) /\ At({"extension"}) /\ Current.name \notin Failing
  /\ Emit(Current) /\ Push(<<>>)
  /\ UNCHANGED <<program, reported, corrections, error>>

\* mutant: the node given is expanded again instead of the result
ExpandFirstAgain ==
  /\ Doing({"rec nodes", "rec expressions"}) /\ At({"extension"}) /\ Current.name \notin Failing
  /\ Push(<<[Top EXCEPT !.nodes = Made(Top.at, Yields[Top.at.name], "generated")]>>)
  /\ UNCHANGED <<program, out, reported, corrections, error>>

\* map_node_rec: as long as the result is itself an extension
ExpandAgain ==
  /\ Doing({"rec nodes", "rec expressions"}) /\ At({"extension"}) /\ Current.name \notin Failing
  /\ Push(<<[Top EXCEPT !.nodes = Made(Current, Yields[Current.name], "generated")]>>)
  /\ UNCHANGED <<program, out, reported, corrections, error>>

\* what is inside the result is expanded before the hook is called...
EndNode ==
  /\ Doing({"rec nodes"}) /\ At({"plain"})
  /\ Emit(Current)
  /\ Push(<<InsideOf(Current, Top.depth)>> \o Report("replace", Top.at, FALSE))
  /\ UNCHANGED <<program, reported, corrections, error>>

\* ... but after it for an expression, which may still be rewritten
EndExpression ==
  /\ Doing({"rec expressions"}) /\ At({"plain", "special"})
  /\ Push(Report("replace", Top.at, FALSE)
          \o <<[Top EXCEPT !.do = "expressions", !.at = NoNode]>>)
  /\ UNCHANGED <<program, out, reported, corrections, error>>

TraverseNode ==
  /\ Doing({"nodes", "expressions"}) /\ At({"plain"})
  /\ Emit(Current)
  /\ Push(<<InsideOf(Current, Top.depth), RestWith(Top.gen)>>)
  /\ UNCHANGED <<program, reported, corrections, error>>

\* constants and special functions: the hook is not called
Rewrite ==
  /\ Doing({"expressions"}) /\ At({"special"}) /\ Current.name \notin Failing
  /\ Push(<<[Top EXCEPT !.nodes = Made(Current, Yields[Current.name], "rewritten")],
            RestWith(Top.gen)>>)
  /\ UNCHANGED <<program, out, reported, corrections, error>>

--------------------------------------------------------------------------------
(* Code_matcher.do_match *)

Markers(nodes) == {i \in DOMAIN nodes : Kind[nodes[i].name] = "end"}
EndMarker(nodes) == CHOOSE i \in Markers(nodes) : \A j \in Markers(nodes) : i <= j

Replaced(first, last, code) == [first |-> first, last |-> last, before |-> FALSE, code |-> code]

\* mutant: items left in the source are not removed
MatchLoopKeepingRest(expected, source, end) ==
  LET different == {i \in DOMAIN expected : i <= Len(source) /\ source[i].name # expected[i]}
  IN  FlattenSeq([i \in DOMAIN expected |->
        IF i \in different THEN <<Replaced(source[i].loc, source[i].loc, <<expected[i]>>)>> ELSE <<>>])
      \o (IF Len(source) < Len(expected)
          THEN <<[Replaced(end, end, SubSeq(expected, Len(source) + 1, Len(expected)))
                    EXCEPT !.before = TRUE]>>
          ELSE <<>>)

\* match_loop: item by item, then what is missing or what is left
MatchLoop(expected, source, end) ==
  LET different == {i \in DOMAIN expected : i <= Len(source) /\ source[i].name # expected[i]}
  IN  FlattenSeq([i \in DOMAIN expected |->
        IF i \in different THEN <<Replaced(source[i].loc, source[i].loc, <<expected[i]>>)>> ELSE <<>>])
      \o (IF Len(source) < Len(expected)
          THEN <<[Replaced(end, end, SubSeq(expected, Len(source) + 1, Len(expected)))
                    EXCEPT !.before = TRUE]>>
          ELSE IF Len(source) > Len(expected)
          THEN <<Replaced(source[Len(expected) + 1].loc, source[Len(source)].loc, <<>>)>>
          ELSE <<>>)

MatchExpected ==
  /\ Doing({"match"}) /\ Markers(Top.nodes) # {}
  /\ LET end == EndMarker(Top.nodes)
     IN  corrections' = corrections \o MatchLoop(Expected[Top.at.name],
                                         SubSeq(Top.nodes, 1, end - 1), Top.nodes[end].loc)
  /\ Push(<<>>)
  /\ UNCHANGED <<program, out, reported, error>>

Raise(kind, loc) ==
  /\ error' = [kind |-> kind, loc |-> loc]
  /\ UNCHANGED <<program, stack, out, reported, corrections>>

MarkerMissing ==
  /\ Doing({"match"}) /\ Markers(Top.nodes) = {}
  /\ Raise("marker", Top.at.loc)

ExpanderFails ==
  /\ Doing(List \cup {"rec nodes", "rec expressions"}) /\ At({"extension", "special"})
  /\ Current.name \in Failing
  /\ Raise("expansion", Current.loc)

AttributesAltered ==
  /\ Doing({"derive"}) /\ Top.at.name \in Altered
  /\ Raise("altered", Top.at.loc)

DeriverFails ==
  /\ Doing({"derive"}) /\ Top.at.name \in Failing \ Altered
  /\ Raise("expansion", Top.at.loc)

Next ==
  \/ EndList \/ TraverseItem \/ TraverseField \/ ExpandInline \/ TraverseType \/ Derive \/ CallHook
  \/ ExpandNode \/ ExpandAgain \/ EndNode \/ EndExpression \/ TraverseNode \/ Rewrite
  \/ MatchExpected \/ MarkerMissing \/ ExpanderFails \/ AttributesAltered \/ DeriverFails

Spec == Init /\ [][Next]_vars
\* the pass is one call, which runs on
FairSpec == Spec /\ WF_vars(Next)

--------------------------------------------------------------------------------
(* Properties *)

Done == stack = <<>> /\ error.kind = "none"

\* Whatever an extension or a deriver generated lies where the hook was told of
\* generated code, also what is generated inside of generated code, for which the
\* hook need not be called (in_generated_code).
HookCoversRules ==
  Done => \A i \in DOMAIN out : out[i].node.from = "generated" =>
            \E k \in DOMAIN reported : IsPrefix(reported[k].loc, out[i].node.loc)

\* The corrections converge: where every inline deriver has a marker of its own,
\* applying them gives a program that starts after each type with what is
\* expected, as code_matcher.mli says.
Inline == {i \in DOMAIN program : Kind[program[i]] = "type" /\ Expected[program[i]] # <<>>}
WellDelimited ==
  \A i \in Inline : \E j \in DOMAIN program :
    i < j /\ Kind[program[j]] = "end" /\ \A k \in i + 1..j - 1 : k \notin Inline
Corrected ==
  FlattenSeq([k \in DOMAIN program |->
    FlattenSeq([c \in DOMAIN corrections |->
      IF corrections[c].before /\ corrections[c].first = <<k>> THEN corrections[c].code ELSE <<>>])
    \o IF \E c \in DOMAIN corrections :
            ~corrections[c].before /\ corrections[c].first[1] <= k /\ k <= corrections[c].last[1]
       THEN FlattenSeq([c \in DOMAIN corrections |->
              IF ~corrections[c].before /\ corrections[c].first = <<k>>
              THEN corrections[c].code ELSE <<>>])
       ELSE <<program[k]>>])
CorrectionsConverge ==
  Done /\ WellDelimited =>
    \A i \in DOMAIN Corrected :
      Kind[Corrected[i]] = "type" /\ Expected[Corrected[i]] # <<>> =>
        \E j \in DOMAIN Corrected :
          /\ Kind[Corrected[j]] = "end"
          /\ SubSeq(Corrected, i + 1, j - 1) = Expected[Corrected[i]]

\* The pass ends when no rule makes an extension out of what it expands.
PassEnds == <>(stack = <<>> \/ error.kind # "none")
================================================================================
