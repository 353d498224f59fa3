------------------------------ MODULE MCContextFree ----------------------------
(***************************************************************************)
(* A small set of rules for ContextFree, every kind of node once, and what *)
(* the pass computes as a recursive definition.                            *)
(***************************************************************************)
EXTENDS ContextFree, TLC

\* "g" and "h" are class fields, "p" and "q" patterns, the "e"s expressions
MCKind ==
  [let |-> "plain", module |-> "plain", class |-> "plain", fun |-> "plain", eval |-> "plain",
   x |-> "extension", y |-> "extension", failing |-> "extension",
   t |-> "type", u |-> "type", v |-> "type", w |-> "type",
   end |-> "end", field |-> "plain", g |-> "extension", h |-> "extension",
   var |-> "plain", p |-> "extension", q |-> "extension",
   id |-> "plain", app |-> "plain", e |-> "extension", f |-> "extension",
   k |-> "extension", s |-> "special"]
MCNames == DOMAIN MCKind
None == [n \in MCNames |-> <<>>]
MCChildren ==
  [n \in MCNames |->
     CASE n = "module" -> [by |-> "items", names |-> <<"x", "t">>]
       [] n = "class" -> [by |-> "fields", names |-> <<"g", "field", "h">>]
       [] n = "fun" -> [by |-> "nodes", names |-> <<"p", "var">>]
       [] n = "eval" -> [by |-> "expressions", names |-> <<"s", "e", "k">>]
       [] n = "k" -> [by |-> "expressions", names |-> <<"s", "id">>]
       [] n = "app" -> [by |-> "expressions", names |-> <<"id", "s">>]
       [] OTHER -> [by |-> "items", names |-> <<>>]]
MCYields ==
  [None EXCEPT !["x"] = <<"let", "t">>, !["y"] = <<"let">>, !["g"] = <<"field", "h">>, !["h"] = <<"field">>,
               !["p"] = <<"q">>, !["q"] = <<"var">>,
               !["e"] = <<"f">>, !["f"] = <<"app">>, !["s"] = <<"id">>, !["k"] = <<"s">>]
MCDerived == [None EXCEPT !["t"] = <<"let", "fun">>, !["v"] = <<"let">>]
MCExpected == [None EXCEPT !["u"] = <<"let">>]
MCFailing == {"failing", "w"}
MCAltered == {"v"}
MCItems == {"let", "module", "class", "fun", "eval", "x", "y", "failing", "t", "u", "v", "w", "end"}
MCPrograms == UNION {[1..n -> MCItems] : n \in 0..3} \cup [1..4 -> {"let", "module", "x", "t", "u", "end"}]

\* Reference: what the rules make of a list of nodes, or the error that comes first.
Ok(nodes) == [out |-> nodes, error |-> [kind |-> "none", loc |-> <<>>]]
Fail(kind, n) == [out |-> <<>>, error |-> [kind |-> kind, loc |-> n.loc]]
Then(a, b) == IF a.error.kind # "none" THEN a ELSE [out |-> a.out \o b.out, error |-> b.error]

RECURSIVE Expansion(_, _, _)
Expansion(by, nodes, depth) ==
  IF nodes = <<>> THEN Ok(<<>>)
  ELSE LET n == Head(nodes)
           rest == Expansion(by, Tail(nodes), depth)
           kept == Then(Ok(<<[node |-> n, depth |-> depth]>>),
                        Expansion(Children[n.name].by, Inside(n), depth + 1))
           how == IF Kind[n.name] = "special" THEN "rewritten" ELSE "generated"
           derived ==
             CASE n.name \in Altered -> Fail("altered", n)
               [] n.name \in Failing \ Altered -> Fail("expansion", n)
               [] OTHER -> Expansion("items", Made(n, Derived[n.name], "generated"), depth)
           matched == IF Expected[n.name] # <<>> /\ Markers(Tail(nodes)) = {}
                      THEN Fail("marker", n) ELSE Ok(<<>>)
       IN  CASE Kind[n.name] \in {"extension", "special"} ->
                  IF n.name \in Failing THEN Fail("expansion", n)
                  ELSE Then(Expansion(by, Made(n, Yields[n.name], how), depth), rest)
             [] Kind[n.name] = "type" -> Then(kept, Then(derived, Then(rest, matched)))
             [] OTHER -> Then(kept, rest)

\* The pass computes the expansion: everything the rules yield or derive is expanded
\* in its turn and put in its place, the rest of the source is kept, and the error
\* raised is the first in the order of the source (context_free.ml:236), but for a
\* missing marker, which is found after everything else in its list.
OutputIsExpansion ==
  LET expansion == Expansion("items", Source, 0)
  IN  /\ Done => out = expansion.out /\ error = expansion.error
      /\ error.kind # "none" => error = expansion.error
================================================================================
