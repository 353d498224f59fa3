------------------------------ MODULE Driver_proofs ----------------------------
(***************************************************************************)
(* Proofs about Driver, for any number of passes and runs: type            *)
(* correctness, and the inductive invariant behind the properties of a     *)
(* process that has exited.                                                *)
(***************************************************************************)
EXTENDS Driver, TLAPS

\* steps before the tree is settled
Before == {"arguments", "hooks", "preprocess", "load", "handlers", "plan", "passes",
           "post_handlers", "checks"}
\* the process has written its output, or could not but will say so
Written == pc = "compare" \/ (pc = "exited" /\ code = "0")

\* What a tree must be like when it is delivered.
Accounts(t) ==
  /\ raised \subseteq t.errors
  /\ t.errors = {} => t.body /\ t.applied = MaxPasses /\ checked
  /\ \A n \in 1..MaxPasses :
       Pass(n) \in raised => t = [errors |-> {Pass(n)}, body |-> TRUE, applied |-> n - 1]

TempInv == temp => pc = "load"
RaisedInv == pc \in Before => raised = {}
TreeInv ==
  /\ pc \in {"handlers", "plan"} => tree = Parsed
  /\ pc \in {"passes", "post_handlers", "checks"} => tree.errors = {} /\ tree.body
  /\ pc \in {"post_handlers", "checks"} => tree.applied = MaxPasses
  /\ pc \in {"metadata", "corrected", "write"} => Accounts(tree)
OutputInv == Written /\ WritesTree => output.run = run /\ Accounts(output.tree)
FilesInv ==
  entry = "standalone" =>
    /\ pc = "write" \/ Written => corrected = IF corrections = {} THEN 0 ELSE run
    /\ pc \in {"corrected", "write"} \/ Written => (options.metadata => metadata = run)
ExitInv ==
  pc = "exited" /\ code # "0" => stderr # {} \/ (corrections # {} /\ corrected = run)
\* No file is of this run before the step that writes it, and nothing is reported
\* before the exit.
NotYetInv ==
  /\ output.run <= run /\ corrected <= run /\ metadata <= run
  /\ pc \in Before \cup {"metadata"} => metadata < run
  /\ pc \in Before \cup {"metadata", "corrected"} => corrected < run
  /\ pc \in Before \cup {"metadata", "corrected", "write"} => output.run < run
  /\ pc = "compare" /\ (entry = "as_ppx" \/ mode # "null") => output.run = run
  /\ pc # "exited" => stderr = {}
  /\ pc \in {"metadata", "corrected"} => entry = "standalone"

IInv == TempInv /\ RaisedInv /\ TreeInv /\ OutputInv /\ FilesInv /\ ExitInv

--------------------------------------------------------------------------------
\* Each step keeps the types of the variables.
LEMMA NextTyped == TypeOK /\ [Next]_vars => TypeOK'
<1> SUFFICES ASSUME TypeOK, [Next]_vars PROVE TypeOK'
  OBVIOUS
<1> USE DEF TypeOK
<1>a. /\ \A o \in Origin, l \in BOOLEAN : Abort(o, l) => (pc' = "exited" /\ code' \in {"1", "2"}
            /\ stderr' \subseteq Origin /\ raised' \subseteq Origin /\ tree' \in Tree)
  BY DEF Abort
<1>b. \A o \in Origin : JustError(o) \in Tree
  BY BoundAssumption DEF JustError, Tree
<1>c. \A o \in Origin, l \in BOOLEAN : RaiseInProcessAst(o, l) =>
         (pc' \in {"exited", "metadata", "write"} /\ code' \in {"none", "0", "1", "2"}
            /\ stderr' \subseteq Origin /\ raised' \subseteq Origin /\ tree' \in Tree)
  BY <1>a, <1>b DEF RaiseInProcessAst, Delivery
<1>d. \A o \in Origin : LoadError(o) =>
         (pc' \in {"exited", "metadata", "write"} /\ code' \in {"none", "0", "1", "2"}
            /\ stderr' \subseteq Origin /\ raised' \subseteq Origin /\ tree' \in Tree)
  BY <1>a, <1>c DEF LoadError
<1>e. \A w \in {"arguments", "hook", "preprocessor", "load", "handler", "plan",
                "post_handler", "check", "metadata", "corrections", "write"} : At(w) \in Origin
  BY DEF Origin, At
<1>f. \A n \in 1..MaxPasses : Pass(n) \in Origin
  BY DEF Origin
<1>g. Parsed \in Tree /\ NoTree \in Tree
  BY BoundAssumption DEF Tree, Parsed, NoTree
<1>1. CASE UNCHANGED vars
  BY <1>1 DEF vars, process, files, history
<1>2. CASE NextRun
  <2>1. run' \in 1..MaxRuns
    BY <1>2, BoundAssumption DEF NextRun
  <2>2. UNCHANGED <<output, corrected, metadata>>
    BY <1>2 DEF NextRun, files
  <2> QED
    BY <1>2, <1>g, <2>1, <2>2 DEF NextRun, FreshProcess, Mode
<1>3. CASE Arguments
  <2>1. CASE BadArguments
    BY <2>1, <1>e DEF BadArguments, process, files
  <2>2. CASE DumpAst \/ OtherMode \/ AsPp \/ EmbedErrors
    BY <2>2 DEF DumpAst, OtherMode, AsPp, EmbedErrors, SetOutputMode, Parsing, Mode, files, history
  <2> QED
    BY <1>3, <2>1, <2>2 DEF Arguments
<1>4. CASE EndArguments \/ CallHooks \/ Preprocess \/ CallHandlers \/ PlanPasses \/ EndPasses
           \/ CallPostHandlers \/ ChecksPass
  BY <1>4 DEF EndArguments, CallHooks, Preprocess, CallHandlers, PlanPasses, EndPasses,
              CallPostHandlers, ChecksPass, Move, Delivery, Options, Steps, process, files, history
<1>5. CASE HookRaises
  BY <1>5, <1>a, <1>e DEF HookRaises, Raising, process, files
<1>6. CASE PreprocessorFails
  BY <1>6, <1>d, <1>e DEF PreprocessorFails, Raising, Steps, process, files
<1>7. CASE Load
  BY <1>7, <1>g DEF Load, Move, Steps, process, files
<1>8. CASE LoadFails
  BY <1>8, <1>a, <1>d, <1>e DEF LoadFails, Raising, Steps, process, files
<1>9. CASE HandlerRaises
  BY <1>9, <1>c, <1>e DEF HandlerRaises, Raising, Steps, process, files
<1>10. CASE PlanRaises
  BY <1>10, <1>c, <1>e DEF PlanRaises, Raising, Steps, process, files
<1>11. CASE RunPass
  BY <1>11, BoundAssumption DEF RunPass, Move, Correct, Tree, Steps, process, files
<1>12. CASE PassRaises
  <2>1. Pass(tree.applied + 1) \in Origin /\ tree.applied + 1 \in 1..MaxPasses
    BY <1>12, <1>f, BoundAssumption DEF PassRaises, Tree
  <2>2. corrections' \subseteq 1..MaxPasses
    BY <1>12, <2>1 DEF PassRaises, Correct
  <2>3. [tree EXCEPT !.errors = @ \cup {Pass(tree.applied + 1)}] \in Tree
    BY <2>1 DEF Tree
  <2> QED
    BY <1>12, <2>1, <2>2, <2>3, <1>c DEF PassRaises, Raising, Delivery, Steps, process, files
<1>13. CASE PostHandlerRaises
  BY <1>13, <1>c, <1>e DEF PostHandlerRaises, Raising, Steps, process, files
<1>14. CASE CheckFails
  BY <1>14, <1>c, <1>e DEF CheckFails, Raising, Steps, process, files
<1>15. CASE MetadataRaises
  BY <1>15, <1>a, <1>e DEF MetadataRaises, Raising, process
<1>16. CASE WriteMetadata \/ WriteCorrected
  <2>1. run \in 0..MaxRuns /\ 0 \in 0..MaxRuns
    BY BoundAssumption
  <2>2. corrected' \in 0..MaxRuns /\ metadata' \in 0..MaxRuns
    BY <1>16, <2>1 DEF WriteMetadata, WriteCorrected
  <2> QED
    BY <1>16, <2>2 DEF WriteMetadata, WriteCorrected, Move, Steps, process
<1>17. CASE CorrectedRaises
  BY <1>17, <1>a, <1>e DEF CorrectedRaises, Raising, process, files
<1>18. CASE Write
  <2>1. [Parsed EXCEPT !.applied = tree.applied] \in Tree
    BY <1>g DEF Tree, Parsed
  <2> QED
    BY <1>18, <2>1 DEF Write, Move, Steps, process
<1>19. CASE WriteRaises
  BY <1>19, <1>a, <1>e, <1>g DEF WriteRaises, Raising, process
<1>20. CASE Compare
  BY <1>20 DEF Compare, process, files, history
<1> QED
  BY <1>1, <1>2, <1>3, <1>4, <1>5, <1>6, <1>7, <1>8, <1>9, <1>10, <1>11, <1>12, <1>13, <1>14,
     <1>15, <1>16, <1>17, <1>18, <1>19, <1>20 DEF Next, Step

\* Every variable of the driver keeps its type.
THEOREM TypeCorrect == Spec => []TypeOK
<1>1. Init => TypeOK
  <2>1. NoTree \in Tree /\ 0 \in 0..MaxRuns /\ 1 \in 1..MaxRuns
    BY BoundAssumption DEF Tree, NoTree
  <2>2. [run |-> 0, tree |-> NoTree] \in [run : 0..MaxRuns, tree : Tree]
    BY <2>1
  <2>3. "pretty" \in Mode
    BY DEF Mode
  <2> QED
    BY <2>1, <2>2, <2>3 DEF Init, TypeOK
<1> QED
  BY <1>1, NextTyped, PTL DEF Spec

--------------------------------------------------------------------------------
\* An exception while nothing had been raised: the process exits with an error it
\* reports, or delivers a tree that has the error and nothing else.
LEMMA AbortAccounts ==
  ASSUME TypeOK, NEW o \in Origin, NEW l \in BOOLEAN, Abort(o, l)
  PROVE  pc' = "exited" /\ code' # "0" /\ stderr' # {}
  BY DEF Abort

LEMMA RaiseAccounts ==
  ASSUME TypeOK, raised = {}, NEW w, NEW l \in BOOLEAN, w # "pass",
         RaiseInProcessAst(At(w), l), UNCHANGED checked
  PROVE  \/ pc' = "exited" /\ code' # "0" /\ stderr' # {}
         \/ pc' = Delivery /\ Accounts(tree)'
<1>1. \A n \in 1..MaxPasses : Pass(n) # At(w)
  BY DEF Pass, At
<1> QED
  BY <1>1 DEF RaiseInProcessAst, Abort, Accounts, JustError

\* The same for the preprocessor and the parser.
LEMMA LoadAccounts ==
  ASSUME TypeOK, raised = {}, NEW w, w # "pass", LoadError(At(w)), UNCHANGED checked
  PROVE  \/ pc' = "exited" /\ code' # "0" /\ stderr' # {}
         \/ pc' = Delivery /\ Accounts(tree)'
  BY RaiseAccounts DEF LoadError, Abort

\* A step that leaves the files alone and comes to one of these two ends keeps the
\* invariant.
LEMMA EndKeepsIInv ==
  ASSUME TypeOK, pc # "load" => ~temp, temp' => temp /\ pc # "load",
         UNCHANGED <<run, entry, mode, options>>, pc \in Before,
         \/ pc' = "exited" /\ code' # "0" /\ stderr' # {}
         \/ pc' = Delivery /\ Accounts(tree)'
  PROVE  IInv'
  BY DEF IInv, TempInv, RaisedInv, TreeInv, OutputInv, FilesInv, ExitInv, Written, WritesTree,
         Before, Delivery

\* The initial state satisfies the invariant.
LEMMA InitIInv == Init => IInv
  BY DEF Init, IInv, TempInv, RaisedInv, TreeInv, OutputInv, FilesInv, ExitInv, Written, Before

\* Each step keeps the invariant.
LEMMA NextIInv == TypeOK /\ TypeOK' /\ IInv /\ [Next]_vars => IInv'
<1> SUFFICES ASSUME TypeOK, TypeOK', IInv, [Next]_vars PROVE IInv'
  OBVIOUS
<1> DEFINE Ends == \/ pc' = "exited" /\ code' # "0" /\ stderr' # {}
                   \/ pc' = Delivery /\ Accounts(tree)'
<1>t. pc # "load" => ~temp
  BY DEF IInv, TempInv
<1>r. pc \in Before => raised = {}
  BY DEF IInv, RaisedInv
<1>1. CASE UNCHANGED vars
  BY <1>1 DEF vars, process, files, history, IInv, TempInv, RaisedInv, TreeInv, OutputInv, FilesInv,
              ExitInv, Accounts, Written, WritesTree
<1>2. CASE NextRun
  BY <1>2 DEF NextRun, FreshProcess, IInv, TempInv, RaisedInv, TreeInv, OutputInv, FilesInv,
              ExitInv, Written, Before
<1>3. CASE BadArguments
  BY <1>3, <1>t DEF BadArguments, process, IInv, TempInv, RaisedInv, TreeInv, OutputInv, FilesInv,
              ExitInv, Written, Before
<1>4. CASE DumpAst \/ OtherMode \/ AsPp \/ EmbedErrors
  <2>1. pc = "arguments" /\ UNCHANGED <<pc, temp, raised>>
    BY <1>4 DEF DumpAst, OtherMode, AsPp, EmbedErrors, SetOutputMode, Parsing, history
  <2> QED
    BY <2>1 DEF IInv, TempInv, RaisedInv, TreeInv, OutputInv, FilesInv, ExitInv, Written, Before
<1>5. CASE EndArguments \/ CallHooks \/ Preprocess \/ PlanPasses
  BY <1>5 DEF EndArguments, CallHooks, Preprocess, PlanPasses, Move, history, Parsed,
              IInv, TempInv, RaisedInv, TreeInv, OutputInv, FilesInv, ExitInv, Written, Before
<1>6. CASE Load \/ CallHandlers \/ CallPostHandlers \/ EndPasses
  BY <1>6 DEF Load, CallHandlers, CallPostHandlers, EndPasses, Move, Parsed,
              IInv, TempInv, RaisedInv, TreeInv, OutputInv, FilesInv, ExitInv, Written, Before
<1>7. CASE RunPass
  BY <1>7 DEF RunPass, Move, TypeOK, Tree,
              IInv, TempInv, RaisedInv, TreeInv, OutputInv, FilesInv, ExitInv, Written, Before
<1>8. CASE ChecksPass
  <2>1. Accounts(tree)'
    BY <1>8, <1>r DEF ChecksPass, Move, Accounts, IInv, TreeInv, Before
  <2>2. pc \in Before /\ pc' = Delivery /\ UNCHANGED <<run, entry, mode, options, temp>>
    BY <1>8 DEF ChecksPass, Move, process, Before
  <2> QED
    BY <1>8, <2>1, <2>2, <1>t, EndKeepsIInv DEF ChecksPass, Move
<1>9. CASE HookRaises
  <2>1. Ends /\ pc \in Before /\ UNCHANGED <<run, entry, mode, options, temp>> /\ pc # "load"
    BY <1>9 DEF HookRaises, Raising, Abort, process, Before
  <2> QED
    BY <2>1, <1>t, EndKeepsIInv
<1>10. CASE PreprocessorFails
  <2>1. pc \in Before /\ UNCHANGED <<run, entry, mode, options, temp, checked>> /\ pc # "load"
    BY <1>10 DEF PreprocessorFails, Raising, process, Before
  <2>2. Ends
    BY <1>10, <2>1, <1>r, LoadAccounts DEF PreprocessorFails
  <2> QED
    BY <2>1, <2>2, <1>t, EndKeepsIInv
<1>11. CASE LoadFails
  <2>1. pc \in Before /\ UNCHANGED <<run, entry, mode, options, checked>> /\ ~temp'
    BY <1>11 DEF LoadFails, Raising, process, Before, TypeOK
  <2>2. Ends
    BY <1>11, <2>1, <1>r, LoadAccounts DEF LoadFails, Abort
  <2> QED
    BY <2>1, <2>2, <1>t, EndKeepsIInv
<1>12. CASE HandlerRaises \/ PlanRaises \/ PostHandlerRaises \/ CheckFails
  <2>1. pc \in Before /\ UNCHANGED <<run, entry, mode, options, temp, checked>> /\ pc # "load"
    BY <1>12 DEF HandlerRaises, PlanRaises, PostHandlerRaises, CheckFails, Raising, process, Before
  <2>2. Ends
    BY <1>12, <2>1, <1>r, RaiseAccounts DEF HandlerRaises, PlanRaises, PostHandlerRaises, CheckFails
  <2> QED
    BY <2>1, <2>2, <1>t, EndKeepsIInv
<1>13. CASE PassRaises
  <2>1. pc = "passes" /\ pc \in Before /\ raised = {} /\ tree.errors = {} /\ tree.body
    BY <1>13, <1>r DEF PassRaises, Raising, IInv, TreeInv, Before
  <2>2. UNCHANGED <<run, entry, mode, options, temp, checked>>
    BY <1>13 DEF PassRaises, Raising, process
  <2> DEFINE o == Pass(tree.applied + 1)
  <2>3. tree.applied \in Nat /\ tree = [errors |-> {}, body |-> TRUE, applied |-> tree.applied]
    BY <2>1, BoundAssumption DEF TypeOK, Tree
  <2>4. CASE /\ tree' = [tree EXCEPT !.errors = @ \cup {o}]
             /\ raised' = raised \cup {o}
             /\ pc' = Delivery
    <3>1. tree' = [errors |-> {o}, body |-> TRUE, applied |-> tree.applied] /\ raised' = {o}
      BY <2>1, <2>3, <2>4
    <3>2. \A n \in 1..MaxPasses : Pass(n) = o => n - 1 = tree.applied
      BY <2>3 DEF Pass
    <3>3. Accounts(tree)'
      BY <3>1, <3>2 DEF Accounts
    <3> QED
      BY <2>1, <2>2, <2>4, <3>3, <1>t, EndKeepsIInv
  <2>5. CASE \E l \in BOOLEAN : RaiseInProcessAst(o, l) /\ (Embeds => ~l)
    <3>1. pc' = "exited" /\ code' # "0" /\ stderr' # {}
      BY <2>5 DEF RaiseInProcessAst, Abort
    <3> QED
      BY <2>1, <2>2, <3>1, <1>t, EndKeepsIInv
  <2> QED
    BY <1>13, <2>4, <2>5 DEF PassRaises
<1>14. CASE WriteMetadata
  BY <1>14, <1>t DEF WriteMetadata, Move, process, Accounts,
              IInv, TempInv, RaisedInv, TreeInv, OutputInv, FilesInv, ExitInv, Written, Before
<1>15. CASE WriteCorrected
  BY <1>15, <1>t DEF WriteCorrected, Move, process, Accounts,
              IInv, TempInv, RaisedInv, TreeInv, OutputInv, FilesInv, ExitInv, Written, Before
<1>16. CASE MetadataRaises \/ CorrectedRaises \/ WriteRaises
  <2>1. ~temp' /\ pc' = "exited" /\ code' # "0" /\ stderr' # {}
    BY <1>16, <1>t DEF MetadataRaises, CorrectedRaises, WriteRaises, Raising, Abort, TypeOK
  <2> QED
    BY <2>1 DEF IInv, TempInv, RaisedInv, TreeInv, OutputInv, FilesInv, ExitInv, Written, Before
<1>17. CASE Write
  <2>1. WritesTree => output' = [run |-> run, tree |-> tree]
    BY <1>17 DEF Write, WritesTree
  <2> QED
    BY <1>17, <2>1, <1>t DEF Write, Move, process, Accounts, WritesTree,
              IInv, TempInv, RaisedInv, TreeInv, OutputInv, FilesInv, ExitInv, Written, Before
<1>18. CASE Compare
  BY <1>18, <1>t DEF Compare, process, files, history, Accounts, WritesTree,
              IInv, TempInv, RaisedInv, TreeInv, OutputInv, FilesInv, ExitInv, Written, Before
<1> QED
  BY <1>1, <1>2, <1>3, <1>4, <1>5, <1>6, <1>7, <1>8, <1>9, <1>10, <1>11, <1>12, <1>13, <1>14,
     <1>15, <1>16, <1>17, <1>18 DEF Next, Step, Arguments

\* The inductive invariant holds.
LEMMA Inductive == Spec => [](TypeOK /\ IInv)
  BY TypeCorrect, InitIInv, NextIInv, PTL DEF Spec

--------------------------------------------------------------------------------
\* The files a run wrote before it failed.  NotYetInv and FailureStopsWriting are
\* inductive with what is above.
FailInv == NotYetInv /\ FailureStopsWriting

LEMMA InitFailInv == Init => FailInv
  BY DEF Init, FailInv, NotYetInv, FailureStopsWriting, Exited, Before

\* An exception of a step before the first file leaves the process on its way to the
\* first file, or exited with the reason.
LEMMA EarlyKeepsFailInv ==
  ASSUME TypeOK, TypeOK', FailInv, pc \in Before, UNCHANGED <<run, entry, files>>,
         NEW o \in BeforeFiles,
         \/ pc' = Delivery /\ stderr' = stderr
         \/ pc' = "exited" /\ stderr' = stderr \cup {o}
  PROVE  FailInv'
<1>1. stderr = {} /\ metadata < run /\ corrected < run /\ output.run < run
  BY DEF FailInv, NotYetInv, Before
<1>2. metadata' < run' /\ corrected' < run' /\ output'.run < run'
  BY <1>1 DEF files
<1>3. run \in Nat /\ metadata \in Nat /\ corrected \in Nat /\ output.run \in Nat
  BY BoundAssumption DEF TypeOK
<1>4. run' \notin {metadata', corrected', output'.run}
  BY <1>1, <1>3 DEF files
<1>5. NotYetInv'
  BY <1>1, <1>2, <1>3 DEF NotYetInv, Before, files, Delivery
<1>6. FailureStopsWriting'
  BY <1>1, <1>4 DEF FailureStopsWriting, Exited, BeforeFiles, Delivery, At
<1> QED
  BY <1>5, <1>6 DEF FailInv

\* Where the exception of a step before the files goes.
LEMMA RaiseIsEarly ==
  ASSUME NEW o, NEW l \in BOOLEAN, RaiseInProcessAst(o, l) \/ LoadError(o) \/ Abort(o, l)
  PROVE  \/ pc' = Delivery /\ stderr' = stderr
         \/ pc' = "exited" /\ stderr' = stderr \cup {o}
  BY DEF RaiseInProcessAst, LoadError, Abort

\* Each step keeps it.
LEMMA NextFailInv == TypeOK /\ TypeOK' /\ IInv /\ FailInv /\ [Next]_vars => FailInv'
<1> SUFFICES ASSUME TypeOK, TypeOK', IInv, FailInv, [Next]_vars PROVE FailInv'
  OBVIOUS
<1>n. run \in Nat /\ metadata \in Nat /\ corrected \in Nat /\ output.run \in Nat
  BY BoundAssumption DEF TypeOK
<1>e. \A w \in {"arguments", "hook", "preprocessor", "load", "handler", "plan", "post_handler",
                "check"} : At(w) \in BeforeFiles
  BY DEF BeforeFiles, Origin, At
<1>p. \A n \in 1..MaxPasses : Pass(n) \in BeforeFiles
  BY DEF BeforeFiles, Origin, At, Pass
<1>1. CASE UNCHANGED vars
  BY <1>1 DEF vars, process, files, history, FailInv, NotYetInv, FailureStopsWriting, Exited
<1>2. CASE NextRun
  BY <1>2, <1>n DEF NextRun, FreshProcess, files, FailInv, NotYetInv, FailureStopsWriting, Exited, Before
<1>3. CASE BadArguments
  <2>1. pc \in Before /\ pc' = "exited" /\ stderr' = stderr \cup {At("arguments")}
        /\ UNCHANGED <<run, entry, files>>
    BY <1>3 DEF BadArguments, process, FailInv, NotYetInv, Before
  <2> QED
    BY <1>3, <2>1, <1>e, EarlyKeepsFailInv DEF BadArguments
<1>4. CASE DumpAst \/ OtherMode \/ AsPp \/ EmbedErrors
  <2>1. pc = "arguments" /\ UNCHANGED <<pc, run, entry, stderr, files>>
    BY <1>4 DEF DumpAst, OtherMode, AsPp, EmbedErrors, SetOutputMode, Parsing, history
  <2> QED
    BY <2>1 DEF FailInv, NotYetInv, FailureStopsWriting, Exited, files, Before
<1>5. CASE EndArguments \/ CallHooks \/ Preprocess \/ Load \/ CallHandlers \/ PlanPasses \/ RunPass
           \/ EndPasses \/ CallPostHandlers \/ ChecksPass
  <2>1. pc \in Before /\ pc' \in Before \cup {"metadata", "write"} /\ UNCHANGED <<run, entry, stderr, files>>
        /\ (pc' = "metadata" => entry = "standalone")
    BY <1>5 DEF EndArguments, CallHooks, Preprocess, Load, CallHandlers, PlanPasses, RunPass,
                EndPasses, CallPostHandlers, ChecksPass, Move, Delivery, process, Before
  <2> QED
    BY <2>1 DEF FailInv, NotYetInv, FailureStopsWriting, Exited, files, Before
<1>6. CASE HookRaises \/ PreprocessorFails \/ LoadFails \/ HandlerRaises \/ PlanRaises
           \/ PostHandlerRaises \/ CheckFails
  <2>1. pc \in Before /\ UNCHANGED <<run, entry, files>>
    BY <1>6 DEF HookRaises, PreprocessorFails, LoadFails, HandlerRaises, PlanRaises,
                PostHandlerRaises, CheckFails, Raising, process, Before
  <2>2. \E o \in BeforeFiles, l \in BOOLEAN :
          RaiseInProcessAst(o, l) \/ LoadError(o) \/ Abort(o, l)
    BY <1>6, <1>e DEF HookRaises, PreprocessorFails, LoadFails, HandlerRaises, PlanRaises,
                PostHandlerRaises, CheckFails
  <2> QED
    BY <2>1, <2>2, RaiseIsEarly, EarlyKeepsFailInv
<1>7. CASE PassRaises
  <2>1. pc \in Before /\ UNCHANGED <<run, entry, files>>
    BY <1>7 DEF PassRaises, Raising, process, Before
  <2>2. Pass(tree.applied + 1) \in BeforeFiles
    BY <1>7, <1>p, BoundAssumption DEF PassRaises, TypeOK, Tree
  <2>3. \/ pc' = Delivery /\ stderr' = stderr
        \/ pc' = "exited" /\ stderr' = stderr \cup {Pass(tree.applied + 1)}
    BY <1>7, RaiseIsEarly DEF PassRaises
  <2> QED
    BY <2>1, <2>2, <2>3, EarlyKeepsFailInv
<1>8. CASE WriteMetadata
  BY <1>8, <1>n DEF WriteMetadata, Move, process, FailInv, NotYetInv, FailureStopsWriting, Exited, Before
<1>9. CASE MetadataRaises
  <2>1. pc' = "exited" /\ stderr' = {At("metadata")}
    BY <1>9 DEF MetadataRaises, Raising, Abort, FailInv, NotYetInv
  <2>2. stderr' \cap BeforeFiles = {} /\ At("corrections") \notin stderr' /\ At("write") \notin stderr'
    BY <2>1 DEF BeforeFiles, At
  <2> QED
    BY <1>9, <2>1, <2>2, <1>n DEF MetadataRaises, Raising, process, FailInv, NotYetInv,
                 FailureStopsWriting, Exited, BeforeFiles, Before
<1>10. CASE WriteCorrected
  BY <1>10, <1>n DEF WriteCorrected, Move, process, FailInv, NotYetInv, FailureStopsWriting, Exited, Before
<1>11. CASE CorrectedRaises
  <2>1. pc' = "exited" /\ stderr' = {At("corrections")}
    BY <1>11 DEF CorrectedRaises, Raising, Abort, FailInv, NotYetInv
  <2>2. stderr' \cap BeforeFiles = {} /\ At("metadata") \notin stderr' /\ At("write") \notin stderr'
    BY <2>1 DEF BeforeFiles, At
  <2>3. options.metadata => metadata = run
    BY <1>11 DEF CorrectedRaises, Raising, IInv, FilesInv, FailInv, NotYetInv
  <2> QED
    BY <1>11, <2>1, <2>2, <2>3, <1>n DEF CorrectedRaises, Raising, process, files, FailInv, NotYetInv,
                 FailureStopsWriting, Exited, BeforeFiles, Before
<1>12. CASE Write
  BY <1>12, <1>n DEF Write, Move, process, FailInv, NotYetInv, FailureStopsWriting, Exited, Before
<1>13. CASE WriteRaises
  <2>1. pc' = "exited" /\ stderr' = {At("write")}
    BY <1>13 DEF WriteRaises, Raising, Abort, FailInv, NotYetInv
  <2>2. /\ stderr' \cap BeforeFiles = {} /\ At("metadata") \notin stderr'
        /\ At("corrections") \notin stderr'
    BY <2>1 DEF BeforeFiles, At
  <2>3. entry = "standalone" => /\ corrected = IF corrections = {} THEN 0 ELSE run
                                /\ options.metadata => metadata = run
    BY <1>13 DEF WriteRaises, Raising, IInv, FilesInv
  <2>4. UNCHANGED <<run, entry, options, corrections, corrected, metadata>>
    BY <1>13 DEF WriteRaises, Raising, process
  <2>5. output'.run = output.run \/ output'.run = run
    BY <1>13 DEF WriteRaises
  <2>6. NotYetInv'
    BY <2>1, <2>4, <2>5, <1>n DEF FailInv, NotYetInv, Before
  <2>7. FailureStopsWriting'
    BY <2>1, <2>2, <2>3, <2>4 DEF FailureStopsWriting
  <2> QED
    BY <2>6, <2>7 DEF FailInv
<1>14. CASE Compare
  <2>1. entry = "standalone" => /\ corrected = IF corrections = {} THEN 0 ELSE run
                                /\ options.metadata => metadata = run
    BY <1>14 DEF Compare, IInv, FilesInv, Written
  <2>2. stderr' = {} /\ (code' # "0" => entry = "standalone" /\ corrections # {})
    BY <1>14 DEF Compare, FailInv, NotYetInv
  <2>3. mode # "null" \/ entry = "as_ppx" => output.run = run
    BY <1>14 DEF Compare, FailInv, NotYetInv
  <2>4. pc' = "exited" /\ UNCHANGED <<run, entry, mode, options, corrections, output, corrected, metadata>>
    BY <1>14 DEF Compare, process, files
  <2>5. NotYetInv'
    BY <2>4, <1>n DEF FailInv, NotYetInv, Before
  <2>6. FailureStopsWriting'
    BY <2>1, <2>2, <2>3, <2>4 DEF FailureStopsWriting
  <2> QED
    BY <2>5, <2>6 DEF FailInv
<1> QED
  BY <1>1, <1>2, <1>3, <1>4, <1>5, <1>6, <1>7, <1>8, <1>9, <1>10, <1>11, <1>12, <1>13, <1>14
     DEF Next, Step, Arguments

--------------------------------------------------------------------------------
\* A driver that exits with 0 has delivered every error, one that fails has said why.
THEOREM ErrorsDelivered == Spec => []ErrorsReachTheUser
<1>1. TypeOK /\ IInv => ErrorsReachTheUser
  BY DEF IInv, OutputInv, ExitInv, Accounts, ErrorsReachTheUser, Exited, Written
<1> QED
  BY <1>1, Inductive, PTL

\* An AST delivered without an error went through every pass and the checks.
THEOREM CleanComplete == Spec => []CleanMeansComplete
<1>1. TypeOK /\ IInv => CleanMeansComplete
  BY DEF IInv, OutputInv, Accounts, CleanMeansComplete, Exited, Written
<1> QED
  BY <1>1, Inductive, PTL

\* The error of a pass is prepended to the AST that pass was given.
THEOREM PassErrorKept == Spec => []PassErrorKeepsTree
<1>1. TypeOK /\ IInv => PassErrorKeepsTree
  BY DEF IInv, OutputInv, Accounts, PassErrorKeepsTree, Exited, Written
<1> QED
  BY <1>1, Inductive, PTL

\* After a successful run, corrected and metadata file are of this run.
THEOREM FilesOfThisRun == Spec => []FilesAreOfThisRun
<1>1. TypeOK /\ IInv => FilesAreOfThisRun
  BY DEF IInv, FilesInv, FilesAreOfThisRun, Exited, Written
<1> QED
  BY <1>1, Inductive, PTL

\* The file made for the preprocessor never outlives the loading.
THEOREM TempRemoved == Spec => []NoTempLeft
<1>1. IInv => NoTempLeft
  BY DEF IInv, TempInv, NoTempLeft
<1> QED
  BY <1>1, Inductive, PTL

\* The tree a run delivers accounts for what happened.
THEOREM TreesAccounted == Spec => []TreesAccount
BY CleanComplete, PassErrorKept, PTL DEF TreesAccount

\* A run that fails writes nothing after what failed.
THEOREM NothingAfterFailure == Spec => []FailureStopsWriting
<1>1. TypeOK /\ FailInv => FailureStopsWriting
  BY DEF FailInv
<1> QED
  BY <1>1, Inductive, InitFailInv, NextFailInv, PTL DEF Spec

\* What a run leaves on disk: its files when it succeeds, none of those it had yet to
\* write when it fails, and never the temporary file.
THEOREM FilesAreSettled == Spec => []FilesSettled
BY FilesOfThisRun, NothingAfterFailure, TempRemoved, PTL DEF FilesSettled
================================================================================
