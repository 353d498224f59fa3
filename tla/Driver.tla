--------------------------------- MODULE Driver --------------------------------
(***************************************************************************)
(* The life of a driver process that rewrites one file (driver.ml): the    *)
(* command line, process_file of the standalone driver,                    *)
(* rewrite_binary_ast_file of -as-ppx, where an exception of each step     *)
(* goes, and the files the process leaves behind.  Several runs of the     *)
(* driver on the same source file follow each other; the files persist.    *)
(***************************************************************************)
EXTENDS Naturals, FiniteSets

CONSTANTS
  MaxPasses,  \* bound: whole-AST passes get_whole_ast_passes returns
  MaxRuns     \* bound: runs of the driver on the file

ASSUME BoundAssumption == MaxPasses \in Nat /\ MaxRuns \in Nat \ {0}

VARIABLES
  pc,             \* the step the process is at
  run,            \* the number of this run
  entry,          \* standalone_main or run_as_ppx_rewriter_main
  mode,           \* output_mode
  embed,          \* embed_errors
  options,        \* -pp, -check, -output-metadata, and a -diff-cmd other than "-"
  temp,           \* the file made for the external preprocessor exists
  tree,           \* the AST: its embedded errors, and what is below them
  corrections,    \* passes that left something in the list corrections
  code,           \* exit code
  stderr,         \* errors reported on stderr
  output,         \* the output file: the run that wrote it and the AST in it
  corrected,      \* the run that wrote the corrected file, 0 if there is none
  metadata,       \* the run that wrote the metadata file, 0 if there is none
  raised,         \* history: the steps of this run that raised
  checked         \* history: the checks that were asked for were made and passed

process == <<entry, mode, embed, options>>
files == <<output, corrected, metadata>>
history == <<raised, checked>>
vars == <<pc, run, process, temp, tree, corrections, code, stderr, files, history>>

Mode == {"pretty", "dump", "dparsetree", "reconcile", "null"}
Options == [pp : BOOLEAN, checks : BOOLEAN, metadata : BOOLEAN, diff : BOOLEAN]

\* where an exception comes from: a step of the driver, or the n-th pass
Pass(n) == <<"pass", n>>
Origin == {<<w, 0>> : w \in {"arguments", "hook", "preprocessor", "load", "handler", "plan",
                             "post_handler", "check", "metadata", "corrections", "write"}}
          \cup {Pass(n) : n \in 1..MaxPasses}
At(w) == <<w, 0>>

\* the error extension nodes in front; whether the file's own items follow;
\* and how many passes those went through
Tree == [errors : SUBSET Origin, body : BOOLEAN, applied : 0..MaxPasses]
NoTree == [errors |-> {}, body |-> FALSE, applied |-> 0]
JustError(o) == [errors |-> {o}, body |-> FALSE, applied |-> 0]
Parsed == [errors |-> {}, body |-> TRUE, applied |-> 0]

Steps == {"hooks", "preprocess", "load", "handlers", "plan", "passes", "post_handlers",
          "checks", "metadata", "corrected", "write", "compare"}

TypeOK ==
  /\ pc \in {"arguments", "exited"} \cup Steps
  /\ run \in 1..MaxRuns
  /\ entry \in {"standalone", "as_ppx"}
  /\ mode \in Mode /\ embed \in BOOLEAN /\ options \in Options
  /\ temp \in BOOLEAN
  /\ tree \in Tree
  /\ corrections \subseteq 1..MaxPasses
  /\ code \in {"none", "0", "1", "2"}
  /\ stderr \subseteq Origin
  /\ output \in [run : 0..MaxRuns, tree : Tree]
  /\ corrected \in 0..MaxRuns /\ metadata \in 0..MaxRuns
  /\ raised \subseteq Origin
  /\ checked \in BOOLEAN

--------------------------------------------------------------------------------
\* the globals of driver.ml when a process starts
FreshProcess ==
  /\ pc' = "arguments" /\ entry' \in {"standalone", "as_ppx"}
  /\ mode' = "pretty" /\ embed' = FALSE /\ options' \in Options
  /\ temp' = FALSE /\ tree' = NoTree /\ corrections' = {}
  /\ code' = "none" /\ stderr' = {}
  /\ raised' = {} /\ checked' = FALSE

Init ==
  /\ pc = "arguments" /\ run = 1 /\ entry \in {"standalone", "as_ppx"}
  /\ mode = "pretty" /\ embed = FALSE /\ options \in Options
  /\ temp = FALSE /\ tree = NoTree /\ corrections = {}
  /\ code = "none" /\ stderr = {}
  /\ output = [run |-> 0, tree |-> NoTree] /\ corrected = 0 /\ metadata = 0
  /\ raised = {} /\ checked = FALSE

NextRun ==
  /\ pc = "exited" /\ run < MaxRuns
  /\ run' = run + 1
  /\ FreshProcess
  /\ UNCHANGED files

--------------------------------------------------------------------------------
(* The command line *)

\* Arg.Bad, a missing input file, a file neither .ml nor .mli: usage, exit 2
BadArguments ==
  /\ pc = "arguments" /\ pc' = "exited" /\ code' = "2"
  /\ stderr' = {At("arguments")} /\ raised' = {At("arguments")}
  /\ UNCHANGED <<run, process, temp, tree, corrections, files, checked>>

Parsing == /\ pc = "arguments" /\ entry = "standalone"
           /\ UNCHANGED <<pc, run, entry, options, temp, tree, corrections, code, stderr,
                          files, history>>

\* set_output_mode: the same mode twice is accepted, save -null; anything else
\* on top of a mode is Arg.Bad
Compatible(m) == mode = "pretty" \/ (mode = m /\ m # "null")
SetOutputMode(m) == Parsing /\ Compatible(m) /\ mode' = m

DumpAst == SetOutputMode("dump") /\ UNCHANGED embed
OtherMode == \E m \in {"dparsetree", "reconcile", "null"} : SetOutputMode(m) /\ UNCHANGED embed
AsPp == SetOutputMode("dump") /\ embed' = TRUE
EmbedErrors == Parsing /\ embed' = TRUE /\ UNCHANGED mode

\* -as-ppx ignores the standalone arguments and has its own loading
EndArguments ==
  /\ pc = "arguments"
  /\ pc' = IF entry = "standalone" THEN "hooks" ELSE "load"
  /\ UNCHANGED <<run, process, temp, tree, corrections, code, stderr, files, history>>

--------------------------------------------------------------------------------
(* Where exceptions go *)

Embeds == embed \/ entry = "as_ppx"
Delivery == IF entry = "standalone" THEN "metadata" ELSE "write"

\* standalone: report_exception prints what has a location and exits with 1;
\* what has none it raises again, and the runtime exits with 2
Abort(o, located) ==
  /\ pc' = "exited"
  /\ code' = IF located THEN "1" ELSE "2"
  /\ stderr' = stderr \cup {o}
  /\ raised' = raised \cup {o}
  /\ UNCHANGED tree

\* mutant: the handler around process_ast swallows what it catches
SwallowInProcessAst(o, located) ==
  IF Embeds /\ located
  THEN /\ tree' = tree
       /\ raised' = raised \cup {o}
       /\ pc' = Delivery
       /\ UNCHANGED <<code, stderr>>
  ELSE Abort(o, located)

\* with embed_errors the handler around extract_cookies and process_ast turns
\* a located exception into an AST of its own
RaiseInProcessAst(o, located) ==
  IF Embeds /\ located
  THEN /\ tree' = JustError(o)
       /\ raised' = raised \cup {o}
       /\ pc' = Delivery
       /\ UNCHANGED <<code, stderr>>
  ELSE Abort(o, located)

\* an Error result of with_preprocessed_file or load_input
LoadError(o) ==
  IF entry = "standalone" THEN RaiseInProcessAst(o, TRUE) ELSE Abort(o, TRUE)

Move(from, to) ==
  /\ pc = from /\ pc' = to
  /\ UNCHANGED <<run, process, code, stderr, raised>>

Raising(from) ==
  /\ pc = from
  /\ UNCHANGED <<run, process, checked>>

--------------------------------------------------------------------------------
(* process_file and rewrite_binary_ast_file *)

CallHooks ==
  /\ Move("hooks", "preprocess")
  /\ UNCHANGED <<temp, tree, corrections, files, checked>>

HookRaises == \E located \in BOOLEAN :
  Raising("hooks") /\ Abort(At("hook"), located) /\ UNCHANGED <<temp, corrections, files>>

Preprocess ==
  /\ Move("preprocess", "load")
  /\ temp' = options.pp
  /\ UNCHANGED <<tree, corrections, files, checked>>

\* protectx removes the file whatever happens
PreprocessorFails ==
  /\ Raising("preprocess") /\ options.pp
  /\ LoadError(At("preprocessor"))
  /\ UNCHANGED <<temp, corrections, files>>

Load ==
  /\ Move("load", "handlers")
  /\ temp' = FALSE /\ tree' = Parsed
  /\ UNCHANGED <<corrections, files, checked>>

LoadFails ==
  /\ Raising("load")
  /\ LoadError(At("load")) \/ Abort(At("load"), FALSE)
  /\ temp' = FALSE
  /\ UNCHANGED <<corrections, files>>

\* extract_cookies, acknowledge_cookies
CallHandlers ==
  Move("handlers", "plan") /\ UNCHANGED <<temp, tree, corrections, files, checked>>
HandlerRaises == \E located \in BOOLEAN :
  /\ Raising("handlers") /\ RaiseInProcessAst(At("handler"), located)
  /\ UNCHANGED <<temp, corrections, files>>

\* get_whole_ast_passes, with its failwith on a second preprocessor
PlanPasses ==
  Move("plan", "passes") /\ UNCHANGED <<temp, tree, corrections, files, checked>>
PlanRaises ==
  /\ Raising("plan") /\ RaiseInProcessAst(At("plan"), FALSE)
  /\ UNCHANGED <<temp, corrections, files>>

\* a pass may call register_correction; the expect-mismatch handler does too
Correct(n) == corrections' \in {corrections, corrections \cup {n}}

\* mutant: a pass too many
RunPassTooMany ==
  /\ tree.applied <= MaxPasses
  /\ Move("passes", "passes")
  /\ tree' = [tree EXCEPT !.applied = @ + 1]
  /\ Correct(tree.applied + 1)
  /\ UNCHANGED <<temp, files, checked>>

RunPass ==
  /\ tree.applied < MaxPasses
  /\ Move("passes", "passes")
  /\ tree' = [tree EXCEPT !.applied = @ + 1]
  /\ Correct(tree.applied + 1)
  /\ UNCHANGED <<temp, files, checked>>

\* Wrapper keeps the AST the pass was given, and the error goes in front of it;
\* neither post handlers nor checks follow
PassRaises ==
  /\ Raising("passes") /\ tree.applied < MaxPasses
  /\ LET o == Pass(tree.applied + 1)
     IN  \/ /\ Embeds
            /\ tree' = [tree EXCEPT !.errors = @ \cup {o}]
            /\ raised' = raised \cup {o}
            /\ pc' = Delivery
            /\ UNCHANGED <<code, stderr>>
         \/ ~Embeds /\ RaiseInProcessAst(o, TRUE)
         \/ RaiseInProcessAst(o, FALSE)
  /\ Correct(tree.applied + 1)
  /\ UNCHANGED <<temp, files>>

EndPasses ==
  /\ tree.applied = MaxPasses
  /\ Move("passes", "post_handlers")
  /\ UNCHANGED <<temp, tree, corrections, files, checked>>

CallPostHandlers ==
  Move("post_handlers", "checks") /\ UNCHANGED <<temp, tree, corrections, files, checked>>
PostHandlerRaises == \E located \in BOOLEAN :
  /\ Raising("post_handlers") /\ RaiseInProcessAst(At("post_handler"), located)
  /\ UNCHANGED <<temp, corrections, files>>

\* check_unused of attributes and extensions, check_all_seen, locations
ChecksPass ==
  /\ Move("checks", Delivery)
  /\ checked' = TRUE
  /\ UNCHANGED <<temp, tree, corrections, files>>

\* mutant: a failed check is ignored
CheckFailsUnnoticed ==
  /\ Move("checks", Delivery) /\ options.checks
  /\ UNCHANGED <<temp, tree, corrections, files, checked>>

CheckFails ==
  /\ Raising("checks") /\ options.checks
  /\ RaiseInProcessAst(At("check"), TRUE)
  /\ UNCHANGED <<temp, corrections, files>>

\* after with_file has created the file, or before
MetadataRaises == \E located \in BOOLEAN :
  /\ Raising("metadata") /\ options.metadata
  /\ Abort(At("metadata"), located)
  /\ metadata' \in {metadata, run}
  /\ UNCHANGED <<temp, corrections, output, corrected>>

WriteMetadata ==
  /\ Move("metadata", "corrected")
  /\ metadata' = IF options.metadata THEN run ELSE metadata
  /\ UNCHANGED <<temp, tree, corrections, output, corrected, checked>>

\* mutant: a corrected file is written, never removed
KeepCorrected ==
  /\ Move("corrected", "write")
  /\ corrected' = IF corrections = {} THEN corrected ELSE run
  /\ UNCHANGED <<temp, tree, corrections, output, metadata, checked>>

\* a corrected file of an earlier run goes when there is nothing to correct
WriteCorrected ==
  /\ Move("corrected", "write")
  /\ corrected' = IF corrections = {} THEN 0 ELSE run
  /\ UNCHANGED <<temp, tree, corrections, output, metadata, checked>>

\* Reconcile.reconcile, or reading the source for it, raises before it writes
CorrectedRaises == \E located \in BOOLEAN :
  /\ Raising("corrected") /\ corrections # {}
  /\ Abort(At("corrections"), located)
  /\ UNCHANGED <<temp, corrections, files>>

\* -reconcile prints the source with the replacements, not the AST
Write ==
  /\ Move("write", "compare")
  /\ output' = IF entry = "standalone" /\ mode = "null" THEN output
               ELSE IF entry = "standalone" /\ mode = "reconcile"
               THEN [run |-> run, tree |-> [Parsed EXCEPT !.applied = tree.applied]]
               ELSE [run |-> run, tree |-> tree]
  /\ UNCHANGED <<temp, tree, corrections, corrected, metadata, checked>>

\* the output cannot be opened, or what writes to it raises half-way
WriteRaises == \E located \in BOOLEAN :
  /\ Raising("write") /\ (entry = "as_ppx" \/ mode # "null")
  /\ Abort(At("write"), located)
  /\ output' \in {output, [run |-> run, tree |-> NoTree]}
  /\ UNCHANGED <<temp, corrections, corrected, metadata>>

\* exit 1 after the diff, which -as-ppx does not make; otherwise exit 0
Compare ==
  /\ pc = "compare" /\ pc' = "exited"
  /\ code' = IF entry = "standalone" /\ corrections # {} /\ options.diff THEN "1" ELSE "0"
  /\ UNCHANGED <<run, process, temp, tree, corrections, stderr, files, history>>

Arguments == DumpAst \/ OtherMode \/ AsPp \/ EmbedErrors \/ BadArguments

Step ==
  \/ EndArguments
  \/ CallHooks \/ HookRaises \/ Preprocess \/ PreprocessorFails \/ Load \/ LoadFails
  \/ CallHandlers \/ HandlerRaises \/ PlanPasses \/ PlanRaises
  \/ RunPass \/ PassRaises \/ EndPasses
  \/ CallPostHandlers \/ PostHandlerRaises \/ ChecksPass \/ CheckFails
  \/ WriteMetadata \/ MetadataRaises \/ WriteCorrected \/ CorrectedRaises
  \/ Write \/ WriteRaises \/ Compare

Next == Arguments \/ Step \/ NextRun

Spec == Init /\ [][Next]_vars

--------------------------------------------------------------------------------
(* Properties *)

Exited == pc = "exited"
\* what can fail before the first of the files is written
BeforeFiles == {o \in Origin : o \notin {At("metadata"), At("corrections"), At("write")}}
WritesTree == entry = "as_ppx" \/ mode \in {"pretty", "dump", "dparsetree"}

\* A driver that exits with 0 has delivered every error it met in the AST it
\* wrote; one that fails has said why, on stderr or by the diff of a correction.
ErrorsReachTheUser ==
  Exited =>
    IF code = "0"
    THEN WritesTree => raised \subseteq output.tree.errors /\ output.run = run
    ELSE stderr # {} \/ (corrections # {} /\ corrected = run)

\* An AST delivered without an error has been through every pass and, when they
\* were asked for, the checks; an error skips both only by being delivered.
CleanMeansComplete ==
  Exited /\ code = "0" /\ WritesTree /\ output.tree.errors = {} =>
    output.tree.body /\ output.tree.applied = MaxPasses /\ checked

\* test/driver/error_embedding/test.t/run.t: the exception of a rewriter is
\* "prepended to the last valid AST", the one that rewriter was given.
PassErrorKeepsTree ==
  \A n \in 1..MaxPasses :
    Exited /\ code = "0" /\ WritesTree /\ Pass(n) \in raised =>
      output.tree = [errors |-> {Pass(n)}, body |-> TRUE, applied |-> n - 1]

\* The tree a run delivers accounts for what happened: nothing was left out of a
\* clean one, and one with the error of a pass is the tree that pass was given.
TreesAccount == CleanMeansComplete /\ PassErrorKeepsTree

\* After a run that succeeds the corrected file is the one of this run or is
\* gone, whatever the runs before left; so with the metadata asked for.
FilesAreOfThisRun ==
  Exited /\ code = "0" /\ entry = "standalone" =>
    /\ corrected = IF corrections = {} THEN 0 ELSE run
    /\ options.metadata => metadata = run

\* A run that fails writes nothing after what failed: metadata, corrected and output
\* file are written in this order, and one not come to is not of this run: what the
\* runs before left there stays.  A run that fails by the diff of a correction has
\* written them all.
FailureStopsWriting ==
  Exited /\ code # "0" =>
    /\ stderr \cap BeforeFiles # {} => run \notin {metadata, corrected, output.run}
    /\ At("metadata") \in stderr => run \notin {corrected, output.run}
    /\ At("corrections") \in stderr =>
         /\ run \notin {corrected, output.run}
         /\ options.metadata => metadata = run
    /\ At("write") \in stderr /\ entry = "standalone" =>
         /\ corrected = IF corrections = {} THEN 0 ELSE run
         /\ options.metadata => metadata = run
    /\ stderr = {} =>
         /\ corrected = run
         /\ options.metadata => metadata = run
         /\ mode # "null" => output.run = run

\* The file made for the external preprocessor is removed on every path.
NoTempLeft == pc # "load" => ~temp

\* What a run leaves on disk: its own files when it succeeds, and of those it had
\* yet to write none of its own when it fails; never the temporary file.
FilesSettled == FilesAreOfThisRun /\ FailureStopsWriting /\ NoTempLeft
================================================================================
