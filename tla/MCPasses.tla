------------------------------- MODULE MCPasses --------------------------------
(* Transformations that between them use every argument of register. *)
EXTENDS Passes

MCNames == 1..4
Plain(n) == [name |-> n, aliases |-> {}, whole |-> {}, lint |-> {}, preprocess |-> {},
             enclose |-> {}, rules |-> FALSE, instrument |-> "none"]

MCCandidates ==
  {[Plain(1) EXCEPT !.rules = TRUE, !.enclose = Kind],
   [Plain(2) EXCEPT !.rules = TRUE, !.enclose = {"impl"}, !.aliases = {4}],
   [Plain(3) EXCEPT !.whole = Kind, !.lint = {"impl"}],
   [Plain(2) EXCEPT !.whole = Kind, !.instrument = "before"],
   [Plain(1) EXCEPT !.instrument = "after", !.preprocess = Kind, !.rules = TRUE],
   [Plain(4) EXCEPT !.instrument = "before", !.preprocess = {"intf"}, !.whole = {"impl"}],
   [Plain(3) EXCEPT !.instrument = "after"]}

MCNameLists == {<<>>, <<1>>, <<2>>, <<4>>, <<2, 3>>, <<3, 2>>}
================================================================================
