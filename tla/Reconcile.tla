-------------------------------- MODULE Reconcile ------------------------------
(***************************************************************************)
(* Putting generated code back into the source text (reconcile.ml): the    *)
(* driver's -reconcile modes hand it what the generated code hook reported, *)
(* the corrected file is made from the corrections.  check_and_sort puts   *)
(* the replacements in order and drops those inside another one, the loops *)
(* of reconcile copy the source around the rest.                           *)
(***************************************************************************)
EXTENDS Naturals, Sequences, SequencesExt, FiniteSetsExt

CONSTANTS
  Contents,  \* the source: "x" for a character, "blank" and "newline"
  MaxRepls   \* bound: replacements reported, up to 3 (see GoesTo)

ASSUME ContentsAssumption == Contents \in Seq({"x", "blank", "newline"})
ASSUME MaxReplsAssumption == MaxRepls \in 0..3

VARIABLES
  phase,       \* collecting, filtering, emitting, done or an error
  target,      \* Output of a mode, or Corrected
  todo,        \* replacements: as reported, newest first; then in order
  kept,        \* sorted so far; then the accumulator of filter, prev at its end
  loop,        \* which of the loops of reconcile is running
  pos,         \* how far the source has been dealt with
  lastIsText,  \* the last replacement was a Text
  line,        \* lines of the output so far, as reconcile counts them
  out,         \* the output
  reported     \* history: every replacement reported

vars == <<phase, target, todo, kept, loop, pos, lastIsText, line, out, reported>>

Target == {"line_directives", "delimited", "corrected"}
Length == Len(Contents)

\* newlines: how many the printed code has
Repl == {r \in [id : 1..MaxRepls, start : 0..Length, stop : 0..Length,
                text : BOOLEAN, newlines : 0..1] :
           r.start <= r.stop /\ (r.text => r.newlines = 0)}

\* Lexing.position: offset, line and offset of its beginning
Position == [cnum : 0..Length, lnum : 1..(Length + 1), bol : 0..Length]
NewlinesBefore(c) == {i \in 1..c : Contents[i] = "newline"}

\* mutant: lines are counted from 0
AtFromZero(c) == [cnum |-> c, lnum |-> Cardinality(NewlinesBefore(c)),
                  bol |-> Max({0} \cup NewlinesBefore(c))]

At(c) == [cnum |-> c, lnum |-> 1 + Cardinality(NewlinesBefore(c)),
          bol |-> Max({0} \cup NewlinesBefore(c))]

\* what is written: a character of the source, generated code, an added newline,
\* a line directive for the source (line, column) or for the output, a delimiter
Kinds == {"source", "generated", "newline", "to_source", "to_output", "begin", "end"}
Token == Kinds \X Nat \X Nat

TypeOK ==
  /\ phase \in {"collecting", "sorting", "filtering", "emitting", "done", "other_file", "overlapping"}
  /\ target \in Target
  /\ todo \in Seq(Repl) /\ kept \in Seq(Repl) /\ reported \subseteq Repl
  /\ loop \in {"copying", "consecutive"}
  /\ pos \in Position
  /\ lastIsText \in BOOLEAN
  /\ line \in Nat
  /\ out \in Seq(Token)

--------------------------------------------------------------------------------
(* check_and_sort *)

\* mutant: without the rule for equal starts
CompareStarts(a, b) == IF a.start < b.stop THEN "less" ELSE "more"

\* the start of one with the stop of the other; the largest first if they meet
Compare(a, b) ==
  IF a.start # b.stop THEN (IF a.start < b.stop THEN "less" ELSE "more")
  ELSE IF a.stop < b.stop THEN "more" ELSE IF a.stop > b.stop THEN "less" ELSE "equal"

\* List.sort on three elements or less inserts them one by one, comparing from
\* the end of the sorted part; that matters, Compare being no order
GoesTo(p, sorted, r) ==
  /\ p > 1 => Compare(sorted[p - 1], r) # "more"
  /\ \A i \in p..Len(sorted) : Compare(sorted[i], r) = "more"
InsertedAt(p, sorted, r) ==
  [i \in 1..(Len(sorted) + 1) |-> IF i < p THEN sorted[i] ELSE IF i = p THEN r ELSE sorted[i - 1]]

Init ==
  /\ phase = "collecting" /\ target \in Target
  /\ todo = <<>> /\ kept = <<>> /\ reported = {}
  /\ loop = "copying" /\ pos = At(0) /\ lastIsText = FALSE
  /\ line = 1 /\ out = <<>>

\* the hook reports generated code in the order of the traversal, what is inside
\* an expanded node before the node, or after it in expressions; corrections come
\* in any order
Encloses(a, b) == a.start <= b.start /\ b.stop <= a.stop
HookOrder(r) == \A q \in reported : q.stop <= r.start \/ Encloses(r, q) \/ Encloses(q, r)

Report(r) ==
  /\ phase = "collecting" /\ r.id = Len(todo) + 1
  /\ target # "corrected" => ~r.text /\ HookOrder(r)
  /\ todo' = <<r>> \o todo
  /\ reported' = reported \cup {r}
  /\ UNCHANGED <<phase, target, kept, loop, pos, lastIsText, line, out>>

\* some replacement is located in another file than the input
OtherFile ==
  /\ phase = "collecting" /\ todo # <<>>
  /\ phase' = "other_file"
  /\ UNCHANGED <<target, todo, kept, loop, pos, lastIsText, line, out, reported>>

CheckAndSort ==
  /\ phase = "collecting"
  /\ phase' = "sorting"
  /\ UNCHANGED <<target, todo, kept, loop, pos, lastIsText, line, out, reported>>

Insert ==
  /\ phase = "sorting" /\ todo # <<>>
  /\ \E p \in 1..(Len(kept) + 1) :
       /\ GoesTo(p, kept, Head(todo))
       /\ kept' = InsertedAt(p, kept, Head(todo))
  /\ todo' = Tail(todo)
  /\ UNCHANGED <<phase, target, loop, pos, lastIsText, line, out, reported>>

EndSort ==
  /\ phase = "sorting" /\ todo = <<>>
  /\ phase' = "filtering"
  /\ todo' = kept /\ kept' = <<>>
  /\ UNCHANGED <<target, loop, pos, lastIsText, line, out, reported>>

Prev == Last(kept)
Overlap(r) == kept # <<>> /\ Prev.stop > r.start

\* mutant: kept whether it overlaps or not
KeepAnyway ==
  /\ phase = "filtering" /\ todo # <<>>
  /\ kept' = Append(kept, Head(todo))
  /\ todo' = Tail(todo)
  /\ UNCHANGED <<phase, target, loop, pos, lastIsText, line, out, reported>>

Keep ==
  /\ phase = "filtering" /\ todo # <<>>
  /\ ~Overlap(Head(todo))
  /\ kept' = Append(kept, Head(todo))
  /\ todo' = Tail(todo)
  /\ UNCHANGED <<phase, target, loop, pos, lastIsText, line, out, reported>>

Skip ==
  /\ phase = "filtering" /\ todo # <<>>
  /\ Overlap(Head(todo)) /\ Prev.stop >= Head(todo).stop
  /\ todo' = Tail(todo)
  /\ UNCHANGED <<phase, target, kept, loop, pos, lastIsText, line, out, reported>>

RaiseOverlapping ==
  /\ phase = "filtering" /\ todo # <<>>
  /\ Overlap(Head(todo)) /\ Prev.stop < Head(todo).stop
  /\ phase' = "overlapping"
  /\ UNCHANGED <<target, todo, kept, loop, pos, lastIsText, line, out, reported>>

\* the first loop depends on whether there is anything to copy before
EndFilter ==
  /\ phase = "filtering" /\ todo = <<>>
  /\ phase' = "emitting"
  /\ todo' = kept
  /\ IF kept # <<>> /\ Head(kept).start = 0
     THEN /\ loop' = "consecutive"
          /\ out' = IF target = "delimited" THEN <<<<"begin", 0, 0>>>> ELSE <<>>
     ELSE UNCHANGED <<loop, out>>
  /\ UNCHANGED <<target, kept, pos, lastIsText, line, reported>>

--------------------------------------------------------------------------------
(* the loops of reconcile *)

\* blanks up to the end of the line are skipped, others are not
SkipBlankEol(p) ==
  LET c == Min({i \in p.cnum..Length : i = Length \/ Contents[i + 1] # "blank"})
  IN  IF c = Length THEN [p EXCEPT !.cnum = c]
      ELSE IF Contents[c + 1] = "newline"
      THEN [cnum |-> c + 1, lnum |-> p.lnum + 1, bol |-> c + 1]
      ELSE p

After(p) == IF lastIsText THEN p ELSE SkipBlankEol(p)

\* copy_input: what it writes, and the line it returns
CopyInput(upTo, isText) ==
  LET p == After(pos)
      copied == [i \in 1..(upTo - p.cnum) |-> <<"source", p.cnum + i, 0>>]
      added == ~isText /\ Contents[upTo] # "newline"
      newlines == Cardinality(NewlinesBefore(upTo)) - Cardinality(NewlinesBefore(p.cnum))
  IN  IF p.cnum >= upTo THEN [out |-> <<>>, line |-> line]
      ELSE [out |-> (IF target = "line_directives"
                     THEN <<<<"to_source", p.lnum, p.cnum - p.bol>>>> ELSE <<>>)
                    \o copied \o (IF added THEN <<<<"newline", 0, 0>>>> ELSE <<>>),
            line |-> line + 1 + newlines + (IF added THEN 1 ELSE 0)]

Generated(r) == <<<<"generated", r.id, r.newlines>>>>

\* mutant: the line the directive is on is not counted
CopyAndReplaceUncounted ==
  /\ phase = "emitting" /\ loop = "copying" /\ todo # <<>>
  /\ LET r == Head(todo)
         copy == CopyInput(r.start, r.text)
         intro == CASE target = "line_directives" -> <<<<"to_output", copy.line, 0>>>>
                    [] target = "delimited" -> <<<<"begin", 0, 0>>>>
                    [] target = "corrected" -> <<>>
     IN  /\ out' = out \o copy.out \o intro \o Generated(r)
         /\ line' = copy.line + r.newlines
         /\ pos' = At(r.stop) /\ lastIsText' = r.text
  /\ todo' = Tail(todo) /\ loop' = "consecutive"
  /\ UNCHANGED <<phase, target, kept, reported>>

\* loop: the source up to the replacement, a directive or delimiter, its code
CopyAndReplace ==
  /\ phase = "emitting" /\ loop = "copying" /\ todo # <<>>
  /\ LET r == Head(todo)
         copy == CopyInput(r.start, r.text)
         intro == CASE target = "line_directives" -> <<<<"to_output", copy.line + 1, 0>>>>
                    [] target = "delimited" -> <<<<"begin", 0, 0>>>>
                    [] target = "corrected" -> <<>>
     IN  /\ out' = out \o copy.out \o intro \o Generated(r)
         /\ line' = copy.line + Len(intro) + r.newlines
         /\ pos' = At(r.stop) /\ lastIsText' = r.text
  /\ todo' = Tail(todo) /\ loop' = "consecutive"
  /\ UNCHANGED <<phase, target, kept, reported>>

\* loop_consecutive_repls: nothing but blanks before the next one
ReplaceNext ==
  /\ phase = "emitting" /\ loop = "consecutive" /\ todo # <<>>
  /\ After(pos).cnum >= Head(todo).start
  /\ LET r == Head(todo)
     IN  /\ out' = out \o Generated(r)
         /\ line' = line + r.newlines
         /\ pos' = At(r.stop) /\ lastIsText' = r.text
  /\ todo' = Tail(todo)
  /\ UNCHANGED <<phase, target, kept, loop, reported>>

EndConsecutive ==
  /\ phase = "emitting" /\ loop = "consecutive"
  /\ todo # <<>> => After(pos).cnum < Head(todo).start
  /\ pos' = IF todo = <<>> THEN pos ELSE After(pos)
  /\ out' = IF target = "delimited" THEN Append(out, <<"end", 0, 0>>) ELSE out
  /\ loop' = "copying"
  /\ UNCHANGED <<phase, target, todo, kept, lastIsText, line, reported>>

CopyRest ==
  /\ phase = "emitting" /\ loop = "copying" /\ todo = <<>>
  /\ out' = out \o CopyInput(Length, FALSE).out
  /\ phase' = "done"
  /\ UNCHANGED <<target, todo, kept, loop, pos, lastIsText, line, reported>>

Next ==
  \/ \E r \in Repl : Report(r)
  \/ OtherFile \/ CheckAndSort \/ Insert \/ EndSort \/ Keep \/ Skip \/ RaiseOverlapping \/ EndFilter
  \/ CopyAndReplace \/ ReplaceNext \/ EndConsecutive \/ CopyRest

Spec == Init /\ [][Next]_vars

--------------------------------------------------------------------------------
(* Properties *)

\* What is kept is in the order of the file and disjoint, however it was sorted.
KeptInOrder ==
  phase # "sorting" => \A i, j \in DOMAIN kept : i < j => kept[i].stop <= kept[j].start

Separate(a, b) == a.stop < b.start \/ b.stop < a.start
Inner(a, b) == a.id < b.id /\ Encloses(b, a) /\ a.start < b.stop

\* Replacements that do not touch one another, or were reported before one that
\* encloses them, are reconciled without an error; the outermost ones are kept.
OutermostKept ==
  (\A a, b \in reported : a.id < b.id => Separate(a, b) \/ Inner(a, b)) =>
    /\ phase # "overlapping"
    /\ phase \in {"emitting", "done"} =>
         {kept[i] : i \in DOMAIN kept} =
           {a \in reported : \A b \in reported : ~Inner(a, b)}

\* The source is copied around the generated code: every character outside of
\* the replaced ranges comes once and in order, blanks excepted, and every
\* replacement at its place.
Shown(t) == t[1] = "generated" \/ (t[1] = "source" /\ Contents[t[2]] = "x")
Body == FlattenSeq([i \in DOMAIN out |-> IF Shown(out[i]) THEN <<out[i]>> ELSE <<>>])
Inside(c) == \E i \in DOMAIN kept : kept[i].start < c /\ c <= kept[i].stop
Around(c) ==
  (IF c > 0 /\ Contents[c] = "x" /\ ~Inside(c) THEN <<<<"source", c, 0>>>> ELSE <<>>)
  \o FlattenSeq([i \in DOMAIN kept |-> IF kept[i].start = c THEN Generated(kept[i]) ELSE <<>>])
SourceAroundGenerated ==
  phase = "done" => Body = FlattenSeq([i \in 1..(Length + 1) |-> Around(i - 1)])

\* Every line directive tells the truth: one for the output the number of the
\* line that follows, one for the source the line and column of what follows.
EndsLine(t) == t[1] \notin {"source", "generated"} \/ (t[1] = "source" /\ Contents[t[2]] = "newline")
LinesUpTo(i) == Cardinality({j \in 1..i : EndsLine(out[j])})
                + Cardinality({j \in 1..i : out[j][1] = "generated" /\ out[j][3] = 1})
DirectivesTrue ==
  \A i \in DOMAIN out :
    /\ out[i][1] = "to_output" => out[i][2] = 1 + LinesUpTo(i)
    /\ out[i][1] = "to_source" =>
         LET next == At(out[i + 1][2] - 1)
         IN  out[i + 1][1] = "source" /\ out[i][2] = next.lnum /\ out[i][3] = next.cnum - next.bol

\* The text that is printed: the source once, generated code in its place, and
\* directives that are true of both.
TextTrue == SourceAroundGenerated /\ DirectivesTrue
================================================================================
