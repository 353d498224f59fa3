--------------------------------- MODULE Passes --------------------------------
(***************************************************************************)
(* Which transformations a driver applies to a file, and in which order:   *)
(* Transform.register at link time, -apply and -dont-apply on the command  *)
(* line, interpret_mask, partition_transformations and                     *)
(* get_whole_ast_passes, and the fold of apply_transforms over the passes. *)
(***************************************************************************)
EXTENDS Naturals, FiniteSets, Sequences, SequencesExt

CONSTANTS
  Candidates,    \* what linked rewriters may register, see Candidate below
  Names,         \* names of transformations, compared by String.compare as numbers
  NameLists,     \* the lists given to -apply and -dont-apply
  NoList,        \* the option -apply or -dont-apply was not given
  MaxTransforms  \* bound: transformations linked into the driver

Kind == {"impl", "intf"}

(***************************************************************************)
(* The arguments of Transform.register; a set of kinds says for which of   *)
(* the pair x_impl, x_intf a function was given.                           *)
(***************************************************************************)
Candidate ==
  [name : Names, aliases : SUBSET Names, whole : SUBSET Kind, lint : SUBSET Kind,
   preprocess : SUBSET Kind, enclose : SUBSET Kind, rules : BOOLEAN,
   instrument : {"none", "before", "after"}]
Transform == [id : 1..MaxTransforms, given : Candidate]

ASSUME CandidatesAssumption ==
  /\ Candidates \subseteq Candidate
  /\ Names \subseteq Nat
  /\ NameLists \subseteq Seq(Names) /\ NoList \notin Seq(Names)
  /\ MaxTransforms \in Nat

VARIABLES
  phase,      \* linking, parsing arguments, ready, running, done or an error
  all,        \* Transform.all: the newest registration first
  mask,       \* mask.apply and mask.dont_apply
  applyList,  \* apply_list: names of the transformations selected
  noMerge,    \* -no-merge
  kind,       \* what the file is
  passes,     \* passes apply_transforms has not applied yet
  trace       \* functions of the transformations called on the file, in order

vars == <<phase, all, mask, applyList, noMerge, kind, passes, trace>>

Functions == {"lint", "preprocess", "before", "after", "enclose", "rules", "whole"}

--------------------------------------------------------------------------------
HasName(t, n) == n = t.given.name \/ n \in t.given.aliases
Named(t, names) == \E i \in DOMAIN names : HasName(t, names[i])

\* List.find: the first, newest, transformation of that name
Find(n) == all[CHOOSE i \in DOMAIN all :
                 HasName(all[i], n) /\ \A j \in 1..(i - 1) : ~HasName(all[j], n)]

Map(Op(_), s) == [i \in DOMAIN s |-> Op(s[i])]

\* List.filter, and the filter of List.filter_map
Where(Test(_), s) == FlattenSeq([i \in DOMAIN s |-> IF Test(s[i]) THEN <<s[i]>> ELSE <<>>])

(***************************************************************************)
(* partition_transformations.  The fold conses onto its accumulators, so   *)
(* instrumentations and the rest come out in the reverse order of ts, the  *)
(* linters and preprocessors in the order of ts.  The copy made for an     *)
(* instrumentation replaces impl and drops the rules but keeps intf.       *)
(***************************************************************************)
Calls(t, k, fn, kinds) == IF k \in kinds THEN <<<<fn, t.id>>>> ELSE <<>>

LinterPasses(ts) ==
  LET Linter(t) == [k \in Kind |-> Calls(t, k, "lint", t.given.lint)]
  IN  Map(Linter, Where(LAMBDA t : t.given.lint # {}, ts))

PreprocessPasses(ts) ==
  LET Preprocessor(t) == [k \in Kind |-> Calls(t, k, "preprocess", t.given.preprocess)]
  IN  Map(Preprocessor, Where(LAMBDA t : t.given.preprocess # {}, ts))

InstrumentPasses(ts, position) ==
  LET Instrument(t) == [k \in Kind |-> IF k = "impl"
                                       THEN Calls(t, k, position, Kind)
                                       ELSE Calls(t, k, "whole", t.given.whole)]
  IN  Map(Instrument, Reverse(Where(LAMBDA t : t.given.instrument = position, ts)))

\* mutant: an instrumentation takes its transformation out of the rest

Rest(ts) == Reverse(ts)

--------------------------------------------------------------------------------
(***************************************************************************)
(* make_generic: one context-free pass for the rules and enclosers of all  *)
(* transformations, or with -no-merge one per transformation with its own  *)
(* impl or intf at the end.                                                *)
(***************************************************************************)
Whole(t) == [k \in Kind |-> Calls(t, k, "whole", t.given.whole)]
Rules(t) == IF t.given.rules THEN <<<<"rules", t.id>>>> ELSE <<>>

\* mutant: the enclosers are not sorted
UnsortedEnclosers(ts, k) ==
  Map(LAMBDA t : <<"enclose", t.id>>, Where(LAMBDA t : k \in t.given.enclose, ts))

\* get_enclosers: sorted by name with List.sort, which is stable
Insert(sorted, t) ==
  LET place == 1 + Cardinality({i \in DOMAIN sorted : sorted[i].given.name <= t.given.name})
  IN  [i \in 1..(Len(sorted) + 1) |->
         IF i < place THEN sorted[i] ELSE IF i = place THEN t ELSE sorted[i - 1]]
SortByName(ts) ==
  LET sorted[n \in 0..Len(ts)] == IF n = 0 THEN <<>> ELSE Insert(sorted[n - 1], ts[n])
  IN  sorted[Len(ts)]

Enclosers(ts, k) ==
  Map(LAMBDA t : <<"enclose", t.id>>, SortByName(Where(LAMBDA t : k \in t.given.enclose, ts)))

ContextFree(ts) == [k \in Kind |-> Enclosers(ts, k) \o FlattenSeq(Map(Rules, ts))]

Unmerged(t) ==
  [k \in Kind |-> Calls(t, k, "enclose", t.given.enclose) \o Rules(t)
                  \o Calls(t, k, "whole", t.given.whole)]

HasFunction(pass) == \E k \in Kind : pass[k] # <<>>

MakeGeneric(ts) ==
  IF noMerge THEN Map(Unmerged, ts)
  ELSE Where(HasFunction, <<ContextFree(ts)>> \o Map(Whole, ts))

Applied ==
  IF applyList = NoList THEN Reverse(all) ELSE Map(Find, applyList)

\* mutant: linters see the preprocessed source
LintAfterPreprocess(ts) ==
  PreprocessPasses(ts) \o LinterPasses(ts) \o InstrumentPasses(ts, "before")
  \o MakeGeneric(Rest(ts)) \o InstrumentPasses(ts, "after")

WholeAstPasses(ts) ==
  LinterPasses(ts) \o PreprocessPasses(ts) \o InstrumentPasses(ts, "before")
  \o MakeGeneric(Rest(ts)) \o InstrumentPasses(ts, "after")

--------------------------------------------------------------------------------
Init ==
  /\ phase = "linking"
  /\ all = <<>>
  /\ mask = [apply |-> NoList, dontApply |-> NoList]
  /\ applyList = NoList
  /\ noMerge = FALSE
  /\ kind \in Kind
  /\ passes = <<>>
  /\ trace = <<>>

\* mutant: room for one transformation more than there is

\* Transform.register: a second registration of a name draws a warning only
Register(c) ==
  /\ phase = "linking"
  /\ Len(all) < MaxTransforms
  /\ all' = <<[id |-> Len(all) + 1, given |-> c]>> \o all
  /\ UNCHANGED <<phase, mask, applyList, noMerge, kind, passes, trace>>

EndLinking ==
  /\ phase = "linking"
  /\ phase' = "arguments"
  /\ UNCHANGED <<all, mask, applyList, noMerge, kind, passes, trace>>

\* parse_apply_list: every name must be that of a transformation
Exist(names) == \A i \in DOMAIN names : \E j \in DOMAIN all : HasName(all[j], names[i])

HandleApply(names) ==
  /\ phase = "arguments"
  /\ IF mask.apply = NoList /\ mask.dontApply = NoList /\ Exist(names)
     THEN mask' = [mask EXCEPT !.apply = names] /\ UNCHANGED phase
     ELSE phase' = "bad_argument" /\ UNCHANGED mask
  /\ UNCHANGED <<all, applyList, noMerge, kind, passes, trace>>

HandleDontApply(names) ==
  /\ phase = "arguments"
  /\ IF mask.dontApply = NoList /\ Exist(names)
     THEN mask' = [mask EXCEPT !.dontApply = names] /\ UNCHANGED phase
     ELSE phase' = "bad_argument" /\ UNCHANGED mask
  /\ UNCHANGED <<all, applyList, noMerge, kind, passes, trace>>

SetNoMerge ==
  /\ phase = "arguments"
  /\ noMerge' = TRUE
  /\ UNCHANGED <<phase, all, mask, applyList, kind, passes, trace>>

\* the transformations the options select
IsSelected(t) ==
  /\ mask.apply = NoList \/ Named(t, mask.apply)
  /\ mask.dontApply = NoList \/ ~Named(t, mask.dontApply)

\* filters Transform.all, so the list keeps its order, not that of the options
InterpretMask ==
  /\ phase = "arguments"
  /\ phase' = "ready"
  /\ applyList' = IF mask.apply # NoList \/ mask.dontApply # NoList
                  THEN Map(LAMBDA t : t.given.name, Where(IsSelected, all))
                  ELSE applyList
  /\ UNCHANGED <<all, mask, noMerge, kind, passes, trace>>

\* get_whole_ast_passes, or its failure on a second preprocessor
PlanPasses ==
  /\ phase = "ready"
  /\ IF Len(PreprocessPasses(Applied)) > 1
     THEN phase' = "failed" /\ UNCHANGED passes
     ELSE phase' = "running" /\ passes' = WholeAstPasses(Applied)
  /\ UNCHANGED <<all, mask, applyList, noMerge, kind, trace>>

\* one step of the fold of apply_transforms
RunPass ==
  /\ phase = "running" /\ passes # <<>>
  /\ trace' = trace \o Head(passes)[kind]
  /\ passes' = Tail(passes)
  /\ UNCHANGED <<phase, all, mask, applyList, noMerge, kind>>

Finish ==
  /\ phase = "running" /\ passes = <<>>
  /\ phase' = "done"
  /\ UNCHANGED <<all, mask, applyList, noMerge, kind, passes, trace>>

Next ==
  \/ \E c \in Candidates : Register(c)
  \/ EndLinking
  \/ \E names \in NameLists : HandleApply(names) \/ HandleDontApply(names)
  \/ SetNoMerge \/ InterpretMask \/ PlanPasses \/ RunPass \/ Finish

Spec == Init /\ [][Next]_vars

--------------------------------------------------------------------------------
(* Properties *)

Registered == {all[i] : i \in DOMAIN all}
NoClash == \A t, u \in Registered : HasName(u, t.given.name) => t = u
ById(id) == CHOOSE t \in Registered : t.id = id
Count(call) == Cardinality({i \in DOMAIN trace : trace[i] = call})

\* The functions t was registered with for this kind of file.
FunctionsOf(t) ==
  {fn \in {"lint", "preprocess", "enclose", "whole"} :
     kind \in CASE fn = "lint" -> t.given.lint
                [] fn = "preprocess" -> t.given.preprocess
                [] fn = "enclose" -> t.given.enclose
                [] fn = "whole" -> t.given.whole}
  \cup (IF t.given.rules THEN {"rules"} ELSE {})
  \cup (IF kind = "impl" /\ t.given.instrument # "none" THEN {t.given.instrument} ELSE {})

\* Every function of every selected transformation was called on the
\* implementation once, and no function of another one: through the partition,
\* the copies for instrumentations, the merge and the lookup by name.
EachOnce ==
  phase = "done" /\ kind = "impl" /\ NoClash =>
    \A t \in Registered : \A fn \in Functions :
      Count(<<fn, t.id>>) = IF IsSelected(t) /\ fn \in FunctionsOf(t) THEN 1 ELSE 0

\* the stages driver.mli lists; enclosers, which it lists with the whole-file
\* transformations, are part of the context-free pass that calls them
Stage(call) ==
  CASE call[1] = "lint" -> 1
    [] call[1] = "preprocess" -> 2
    [] call[1] = "before" -> 3
    [] call[1] \in {"rules", "enclose"} -> 4
    [] call[1] = "whole" -> 5
    [] call[1] = "after" -> 6

InStageOrder == \A i, j \in DOMAIN trace : i < j => Stage(trace[i]) <= Stage(trace[j])

\* driver.mli, "Rewritings are applied in the following order", for a whole
\* implementation and the merged context-free pass.
ImplInStageOrder == phase = "done" /\ kind = "impl" /\ ~noMerge => InStageOrder

\* Through the partition of the transformations, the copies made for
\* instrumentations, the merge and the lookup by name, an implementation meets
\* each selected function once and in the documented stages.
EachOnceInStageOrder == EachOnce /\ ImplInStageOrder

\* What a trace says up to the order of rules, which are applied all at once.
View(ts, k) ==
  LET seen == FlattenSeq(Map(LAMBDA p : p[k], WholeAstPasses(ts)))
      name(id) == ById(id).given.name
      named(calls) == [i \in DOMAIN calls |-> <<calls[i][1], name(calls[i][2])>>]
  IN  [ordered |-> named(Where(LAMBDA c : c[1] # "rules", seen)),
       rules |-> {name(c[2]) : c \in {seen[i] : i \in DOMAIN seen} \cap ({"rules"} \X (1..MaxTransforms))}]

Reorderings == {ts \in [DOMAIN all -> Registered] : IsInjective(ts)}
SameInAnyOrder == \A ts \in Reorderings : View(ts, kind) = View(all, kind)

\* Rewriters that use rules and enclosers only are applied alike in whatever
\* order they were linked (the sort of get_enclosers by name).
RulesIgnoreLinkOrder ==
  phase = "done" /\ ~noMerge /\ NoClash /\ applyList = NoList
  /\ (\A t \in Registered : /\ t.given.whole = {} /\ t.given.lint = {}
                            /\ t.given.instrument = "none")
    => SameInAnyOrder
================================================================================
