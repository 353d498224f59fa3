# Verification of ppxlib and of the C components of the universe

TLA+ models, TLC runs and TLAPS proofs for `src/ppxlib`, the library with which
OCaml syntax extensions are written and the driver that runs them on a file, and
for the C code under `src/duniverse` that does more than hand its arguments to
the system: the integers of Zarith, the natural numbers of num, the creation of
processes of spawn and the bigstring input and output of core.

Run a model with `tlc -config X.cfg M.tla`, a proof with `tlapm M_proofs.tla`.
Paths without a directory are in `src/ppxlib/src`, or in the package named.

## 1. The system

The repository puts together ppxlib, the rewriters written with it, and what
these depend on. A *rewriter* links with ppxlib and registers transformations,
extension points, derivers and attributes when it starts. The *driver* parses its
command line, reads a file, passes the AST through the registered transformations
and writes the result. It is a sequential program; what makes it hard is that
it calls unknown code (the rewriters) at many points, that the registries and
tables are global to the process, that any step can raise, and that several
mechanisms have to agree on what a place in the source means.

The C components are libraries that the programs of the universe link. Zarith and
num compute in machine words and have many paths for the same operation; spawn
and core's bigstrings release the lock of the OCaml runtime around system
calls, so that other threads run in the middle of a call.

### ppxlib

| component | state | operations | correct when |
|---|---|---|---|
| attribute checks (`attribute.ml`) | table `not_seen`, whose bindings are attributes by name and location | collect, get, consume, explicitly_drop, remove_seen, check_unused, check_all_seen | an attribute nobody interpreted is reported, an interpreted one never |
| transformation registry and passes (`driver.ml`) | list of registered transformations, selection options | register, -apply, -dont-apply, partition into stages, merge of the context-free parts, fold over the passes | each selected function runs once, in the documented stage, whatever the link order |
| driver process (`driver.ml`, `utils.ml`) | options, AST, corrections, files written, exit code | option parsing, preprocessing, loading, hooks, cookies, passes, checks, writing of metadata, corrections and output | an error reaches the user; a run that succeeds leaves its own files, one that fails writes none after what failed; no temporary file stays |
| context-free rewriting (`context_free.ml`) | the recursion | one traversal that applies rules to extensions, attributes, constants and special functions; calls of the generated code hook and of the mismatch handler | the result is the expansion, the error is the first one, hook and handler are told what they have to know |
| code matcher (`code_matcher.ml`) | none | compare derived code with the source up to `[@@@deriving.end]` | applying the corrections gives the expected code |
| reconciliation (`reconcile.ml`) | position in the source, line of the output | sort and filter the replacements, copy the source around them | the source comes once and in order, directives are right |
| name registry (`name.ml`, `spellcheck.ml`) | registered names, reserved namespaces, white list | register, reserve, match, spell-check | no two rewriters answer to the same written name |
| extension points (`extension.ml`) | registry of extensions | lookup by name, conversion, check for extensions left over | exactly one rule answers |
| derivers (`deriving.ml`) | registered derivers and aliases | resolve aliases, dependencies and arguments, apply | each deriver once, after what it needs |
| location check (`location_check.ml`) | disjoint ranges per node | insert, union, covered_by over a fold | a tree passes if siblings are disjoint and inside their parent |
| code paths, contexts, builders, patterns, traversals, migrations, metaquot, runners, shims | none, or counters of fresh names | | see `PROJECT.json` for why each is not modelled |

Interactions. The driver calls the passes; one of them is the context-free pass,
built from the rules of all transformations. While passes run, rewriters call
`Attribute.get` and its relatives, which write `not_seen`; the driver resets and
fills that table before the passes and checks it after them. The context-free
pass calls the generated code hook, whose calls the driver collects for
`-reconcile`, and the mismatch handler, whose calls become corrections;
rewriters add corrections of their own. `Reconcile` turns both lists into text.
An exception of a pass is wrapped with the AST the pass was given.

What is hard to test: an exception at each of these steps; two files, or two
runs, after each other with state left by the first; attributes that are copied,
moved, generated and equal to one another; replacements that touch, nest or are
empty; the order of link lines; generated code that needs expansion again.

### The C components

| component | state | operations | correct when |
|---|---|---|---|
| Zarith (`duniverse/Zarith/caml_z.c`, `z.mlp`) | none; a number is an OCaml integer or a block of limbs | arithmetic, divisions in four roundings, gcd, roots, powers, logical operations and shifts on infinite strings of bits, conversions, text, bytes, marshalling | a result is exact and reduced, whatever the path and however the arguments are held |
| num (`duniverse/num/src/bng*.c`, `nat_stubs.c`, `nat.ml`) | none; a nat is an array of digits, and calls work in place on ranges of several | add, subtract, shift, multiply, square, divide, compare, hash, marshal, gcd, square root; C and assembly variants chosen at the start | carries are exact and written digits are those of the range |
| spawn (`duniverse/spawn/src/spawn_stubs.c`) | descriptors of the process, the mutex of safe_pipe, signal mask; per call an error pipe and a sub-process | pipe, fork or vfork, set up the child, exec, report a failure through the pipe, reap; Windows in one call | programs get the streams they were given and nothing else, a failure raises, nothing is left behind, every call answers |
| bigstring I/O (`duniverse/core/bigstring_unix/src/bigstring_unix_stubs.c`, `recvmmsg.c`) | buffers, locks and positions of the runtime's channels | input and output through channels, reads, writes, sends and receives, in loops or once | every byte goes over once and in order, counts and positions are true |

Interactions. A thread of spawn interacts with the others through the table of
descriptors, which the sub-processes copy at any moment, and with its
sub-process through the error pipe; a thread in bigstring I/O with the others through
the channel's lock and with the other end of the connection. Zarith and num share
nothing between calls but the numbers themselves, which may have been computed by
other paths, or marshalled by other machines.

What is hard to test: boundaries of a word in combination (a least integer, a limb
that is all ones, a divisor whose top digit is the greatest); descriptors 0 to 2
used by something else; a fork of another thread between two system calls; a
signal between fork and exec; a call that moves a part, then fails.

`PROJECT.json` lists the hazards of both parts with their lines and the
properties that cover them.

## 2. Modules

**AttributeChecks** — `node` holds the attributes of the current tree (each on
the tree or in the payload of another one), `notSeen` the number of bindings
per key. `Get`, `Consume`, `ExplicitlyDrop`, `RemoveSeen` are the library's
operations, `Drop` and `Generate` what rewriters do without telling; `Start`
and `EndPasses` are the frame in `map_structure_gen`; `CheckFails`, `CheckPasses`,
`SilentlyDropped`, `CheckAllSeen` are the two checks. The walk of
`check_unused` visits payloads before their hosts and siblings in any order.
The bag of bindings is abstracted to a count per key, as `Hashtbl.remove`
takes away one binding of a key.

**Passes** — `Register` in any order, then `HandleApply`, `HandleDontApply`,
`SetNoMerge`, `InterpretMask`, `PlanPasses`, `RunPass`. `WholeAstPasses`
is `get_whole_ast_passes` with its partition, its lookup by name and the merge
into generic mappers; `trace` records which function of which transformation was
called. `Where` is `List.filter`, `SortByName` the stable sort of `get_enclosers`, as
an insertion into what is sorted already.

**Driver** — `pc` goes through the steps of `process_file` or
`rewrite_binary_ast_file`; each has an action for its success and one for an
exception, located (printed, exit 1, or embedded) or not. `NextRun` starts
another process on the same file: the files persist, the globals do not. An AST
is abstracted to its embedded errors, whether the file's items follow, and how
many passes those went through.

**ContextFree** — the recursive methods of `map_top_down` as a stack of tasks.
Lists of items (`structure`, `signature`) and of class fields (`map_nodes`) have
different rules for `in_generated_code`; nodes (`map_node`) and expressions call
the hook at different times. A node is a name, its path in the source and
where it comes from; what the rules make of each name is a constant. The result is a
sequence of nodes with depths. `MatchLoop` and `MatchExpected` are the code
matcher. Mapped to `structure`; `signature` is the same text (`str_to_sig`).

**Reconcile** — `Report` collects replacements as the hook or a rewriter may
report them, `Insert` is `List.sort`, done as the insertion it is for at most
three elements because `Compare` is no order and the result depends on it;
`Keep`, `Skip`, `RaiseOverlapping` are `filter`; the rest are the two loops
with `copy_input`. The output is a sequence of tokens: a character of the source,
generated code, an added newline, a directive or delimiter.

**ZRepr, ZOps, ZBits, ZConv, Zarith** — `ZRepr` has the two representations,
`Long` and `Block`, for words of `W` bits, machine arithmetic on tagged integers
(`Wrap`), and the functions that look at the representation: reduction, comparison,
equality, hash, fits and conversions. `ZOps`, `ZBits` and `ZConv` are the
primitives: the fast path as it computes on tagged words, the slow path on
magnitudes with `Reduce` at its end. Limbs are not kept as arrays: a
magnitude is the number, and what mpn_ functions promise of it is taken from GMP
(external). What the C code does with limbs itself is modelled limb by limb
only where a decision depends on it: the two's complement of the logical operations
(`LowPred`), the bits lost by a shift, sizes and buffers. `Zarith` is a program that
enters, unmarshals and keeps numbers and calls one primitive at a time.

**BngDigit, Bng, Nat** — `BngDigit` is the arithmetic of one digit with its tests of
overflow, and the division by halves; `Bng` the operations on arrays in a memory,
in three variants (`generic` C, `flags` for the assembly that keeps the
carry in the flag, `sse2` for the one that computes in double digits); `Nat` the
stubs over a memory with three nats, with gcd and square root of `nat.ml`. A loop
over digits is a fold; a carry that ripples is a set of addresses.

**Spawn, SpawnCalls** — `fds` is the table of the process, `thread[t]` the place of
a call and its error pipe's ends, `child[t]` its sub-process with its own copy of the
table. Steps of threads and sub-processes interleave, a vforked one suspends its
parent's thread. A failure is possible for the copy of the arguments, pipe, fcntl
(`MarkFails`, which closes both ends as `safe_pipe` does), fork, setpgid, chdir, dup
and exec, and on Windows for the call; which system calls do not fail in the model is
in section 6. `Killed` takes a sub-process at any time before its exec. The `Platforms` are Linux (pipe2), Apple (pipe, fcntl,
mutex) and Windows (one step while the lock is held). `SpawnCalls` is what
`spawn.mli` promises of a call: it answers once, with a pid when the program was
started on its streams or lost to a signal, with an error when it never was. The
refinement maps a call's program to what its sub-process runs on, and its answer to
what the thread returns when done; everything between is a stutter.

**BigstringIO** — a connection with writers at one end and readers at the other;
a byte is <<writer, index>>. `out` and `in` are the channels' buffers with the lock
and offset, `w` and `r` the calls. `WriteV`, `ReadV`, `ReallyWrite`, `ReadFd`... move
any part of what they were given, fail when the connection is reset, or would block
when it is nonblocking and the wire is full or empty. `SendOnce`, for send, sendto and
sendmsg, passes MSG_DONTWAIT and so never waits, on a blocking descriptor either:
what does not fit is answered with an error number or an error. `OneByte` is the retry with
a single byte. System calls that are interrupted are called again and leave no
trace, so they are not steps.

**Composition.** AttributeChecks contains the frame of one file, Driver the frame of
one process; Passes and ContextFree refine what Driver calls a pass, Reconcile
what it calls writing. Zarith composes its four modules of primitives, Nat composes
Bng and BngDigit. Spawn implements SpawnCalls.

## 3. Runs

| run | question | bounds |
|---|---|---|
| attributes | no attribute lost, no false accusation, no leak between files, remove_seen | 3 keys (ordinary, white-listed, ignored), 2 attributes alive, 2 marks per key, 2 files |
| passes | each function once, stages in order, link order irrelevant to rules | 3 of 7 transformations that together use every argument of register, both kinds of file |
| driver | errors, completeness, files after success and failure, temporaries | 2 passes, 2 runs; an exception at every step |
| context_free | result, first error, hook, corrections, termination | all programs of up to 3 of 12 items and of 4 of 6, over rules with every kind of node once |
| reconcile | order, choice, source around it, directives | source of 4 characters with a blank and a newline, 3 replacements |
| zarith | every primitive exact, reduced, blind to the representation, text reads back | words of 6 bits, 39 numbers at all boundaries up to two limbs, in each representation, in pairs |
| zarith_shift | z.mlip on shift_right_trunc | violated by the least integer |
| nat | every operation exact in the three variants, in its range | digits of 4 bits, nats of 4, 2 and 1 digits, 180 memories; wholes of up to 3 digits for hash, marshalling, gcd and root |
| spawn | what programs inherit, signals, what is left, answers, refinement of SpawnCalls | 2 spawning threads (fork and vfork, streams that permute 0 to 2 and one that is shared) and one safe_pipe, 10 descriptors so that two pipes fit and three do not, 3 platforms |
| spawn_errors | spawn.mli: "In case of errors, it raises" | violated when descriptors 0 and 1 were closed |
| bigstring_io | the stream, counts, positions, order, answers | 2 writers with 3 bytes and 1, 1 reader, buffers, wire and requests of 2, blocking and not, channels and descriptors |
| bigstring_buffer | the comment "Buffer empty now" | violated by two readers of a channel |

What the properties say. Where several facts make one promise they are conjuncts of
one property, each with a name and a comment in its module: `EachOnceInStageOrder`
(each selected function once, stages in order), `TreesAccount` and `FilesSettled` of
Driver (the files of a run that succeeds, those a failing one has not come to, the
temporary one), `TextTrue` of Reconcile, `ResultsExact` of Zarith (arithmetic, divisions,
divisibility, bits, shifts) and of Nat (sums, shifts, products, divisions,
algorithms), `ValueDecides` of Nat (order, hash and marshalled form), `StreamIntact`
(no byte lost or doubled, calls unbroken) and `ToldTrue` (answers, positions) of
BigstringIO.

Why these bounds are enough. The attribute hazards need two equal
attributes, or one in the payload of the other, and a second file; the safety
part is proved for any number. A pass can interact with one before and one after it, so two
passes suffice for the driver, and two runs for what a run leaves to the next;
again all is proved. Transformations interact in pairs through merge
and lookup; three show an order that pairs cannot, and what is checked of them is
proved for any number. In ContextFree a list item
interacts with its predecessor (the flag), with what it expands to (nesting) and,
for inline derivers, with the rest of the list up to the marker; four items hold a
type, a correct or wrong item, one too many and the marker. Three
replacements give two kept ones and one inside or between; sorting more than
three would use another algorithm, which no property speaks about.
The code of Zarith and num uses the width of a word only through the constants the
modules derive from it, so a word of 6 bits has every boundary a word of
64 has: least and greatest integer, half a word for products, one limb and two, all
ones, a power of two and its neighbours. Digits of 4 bits are the shortest whose
halves have two bits, with four digits over two a quotient has two digits and every
estimate can fall short. A sub-process is disturbed by the ends of
another thread's pipe, which one other thread provides, and a third brings the table
to its limit. In BigstringIO a call is longer than the buffer and than the wire, and
another writer waits for the lock meanwhile.

Deadlock is not checked, except in zarith, which never stops: the other models stop
when their file, process, calls or bytes are done. That calls do not wait for each other for ever is
stated by EveryCallAnswers and EveryOutputAnswers.

Fairness. ppxlib has one thread. PassEnds assumes weak fairness of the steps of the
traversal only: such code does not stop by itself. It also needs rules that are not circular, as those
of the run are; circular ones do make the library loop. In Spawn, EveryCallAnswers
and the liveness of SpawnCalls assume only that while some thread or sub-process can
go on, one does (weak fairness of `Progress` as a whole): each goes through its
steps once, so the system as a whole must come to rest, and at rest every call
has answered. Kills are not assumed. In BigstringIO, EveryOutputAnswers assumes that a
call that can go on does (the operating system schedules threads) and that readers
go on asking for bytes: strongly, because a reader is only able to ask while it
is idle. Without a reader a writer on a full pipe waits for ever, by design.

Mutants. Each property of a passing run has a mutant, a plausible slip in the
definition it names, that breaks it; the mutated forms stand before the
definitions in the modules and are not part of the specification.

## 4. What TLC refuted

Each is a run that expects a violation:

- `shift_right_trunc` of the least integer of OCaml: the fast path computes `2 - arg` on
  the tagged word, which overflows (Zarith/caml_z.c:2294 against z.mlip:232).
- In a process that has closed some of its descriptors 0 to 2, the error pipe takes
  them, the sub-process puts its streams there, and a failed exec is answered
  with a pid (spawn_stubs.c:260 against spawn.mli:52).
- bigstring input goes by a count of buffered bytes from before it waited for the
  lock: two threads that input from a channel get bytes twice, or garbage
  (bigstring_unix_stubs.c:290 against its comment at 307).

While writing the modules these disagreements of ppxlib with its documents were met
too; the modules contain the behaviour, no run states it:

- `explicitly_drop` does not mark attributes inside payloads of attributes
  (attribute.ml:305 against attribute.mli:174).
- `intf` of an instrumented transformation runs twice on an interface, once
  among the instrumentations (driver.ml:294 against driver.mli:130).
- `-apply` does not apply "in order" (driver.ml:1189 against driver.ml:1231).
- `-dump-ast` does not embed errors by default (driver.ml:1266 against
  driver.ml:1277).
- corrections registered under `-as-ppx` are forgotten (driver.ml:1374 against
  driver.mli:172).
- the code of constants and special functions is not given to the hook
  (context_free.ml:476 against context_free.mli:123).
- reconcile drops a replacement another one starts at the end of
  (reconcile.ml:106 against the comment at reconcile.ml:119).

What the exact results leave out, because the code does otherwise (`DivisibilityExact`
of Zarith names each):

- of zero and a number, `gcd` answers the number (or, on the fast path, its
  magnitude) and `lcm` answers zero; only `lcm` of zero and zero raises. z.mlip:414-416
  and 428-432 have both raise `Division_by_zero` "is either argument is null" and the
  result be "always positive".
- the gcd of the least integer with itself is negative.
- `pow` is to refuse a result whose size exceeds an int, lest GMP abort
  (caml_z.c:2719-2724). The size is computed in machine words (2731-2734): where the
  number of bits times the exponent does not fit one, the test may pass and GMP
  aborts. Below that the property is exact: refused, or the power.
- `mult_digit_nat` of num returns a carry that is a full digit when both lengths are
  equal, as an OCaml integer, which has a bit less (nat_stubs.c:183-192): the top bit is
  lost, and `ProductsExact` of Nat speaks of the others. No caller in num uses it
  (nat.ml:125: "Fortunately, the carry is never used").

And `ml_z_reduce` leaves the least integer in a block
(`ResultsReduced`), and the hamming distance of two negative numbers depends on how
they are held (`BitsExact`).

## 5. Proofs

**AttributeChecks_proofs**: TypeCorrect, NoAttributeLost, ErrorsJust, FreshTable and
RemovedMarked (an action property), for any keys and bounds. TableIsOfThisFile is inductive while rewriters run;
the checks themselves take bindings away, so NothingLost needs the *ledger*: for
every key, bindings left plus visited copies account for the attributes collected
less those marked. With it an accepted file has no binding left unaccounted, and
an error names a key that really had one left. Assumed: KeyAssumption (white-listed
and ignored keys are keys), BoundAssumption.

**Driver_proofs**: TypeCorrect, ErrorsDelivered, TreesAccounted (with its
conjuncts CleanComplete and PassErrorKept), FilesAreSettled (with FilesOfThisRun,
NothingAfterFailure and TempRemoved), for any number of passes and runs. The properties
speak about an exited process; the invariant says what each earlier step has
settled: nothing was raised before the tree is settled (RaisedInv), the tree
between the steps (TreeInv), that a tree on its way out accounts for everything
raised (`Accounts`), the files once they are written (FilesInv), the exit code
(ExitInv). RaiseAccounts and LoadAccounts treat an exception once for all steps.
For a run that fails, NotYetInv says that before the step that writes a file that file
is of an earlier run; EarlyKeepsFailInv treats all failures before the first file.
Assumed: BoundAssumption.

**Passes_proofs**: PassesPlanned, FunctionsCalledOnceInOrder (EachOnceInStageOrder),
OnePreprocessorRuns and RulesInAnyLinkOrder (RulesIgnoreLinkOrder), for any
transformations, names, lists of options and number of registrations. The invariant,
`PassesInv`, says that what has been called and what the passes left will call are
together the run of the plan (`Planned`), and that the selection is what
`interpret_mask` made of Transform.all. The rest is about the plan as a value.
`Lists(s, R)` says that a sequence has every element of a set once: filter, reverse,
sort and concatenation keep it (ListsKept, ListsReversed, ListsSorted, ListsBoth), so
each part of the partition calls its function once per transformation (OneEach) and
the parts together all of them (WholeList), with and without the merge. Looking the
selected names up again gives the same transformations because names do not clash
(AppliedIs). Parts of one stage each, one after the other, are in order (WholeStaged).
For the order of linking: a sequence sorted by distinct names is the only one
(SortedOnce), there is at most one preprocessor, and what the rules are does not depend
on the order (PlainView). The recursions of FlattenSeq and of the sort are shown
to have a solution by least counterexample over the length. Assumed:
CandidatesAssumption.

**Reconcile_proofs**, for any source and the order the sort leaves.
ReplacementsInOrder: the sort is no help; what is kept is disjoint and in order, and
Keep compares with the last one only, which is enough because a replacement ends no
earlier than it starts. OutermostAreKept, for replacements that are separate or come
before what encloses them: there `Compare`, no order in general, agrees with
"encloses or is before" (CompareNested), so the insertion sorts (SortInv) and what
`filter` drops is inside of something it kept (FilterInv). ReconcileTyped rests
on PositionTrue, that the position the loops pass along is that of its character in the
file (PositionInv), skipped newlines and blanks included. DirectivesAreTrue is one half
of TextTrue: every directive names the line that follows it. Its
invariant, DirectivesInv, says that the output so far is a `Part`: its directives are
true if it starts on line 1, and it has as many lines as the loops believe; PartsJoined
composes parts, so that each step is treated alone. PrintedTextIsTrue adds the other
half, SourceAroundGenerated. Its invariant, TextInv, says that what is shown of the
output is at any time what should be there of the first `Emitted` replacements and up
to the position (`Expected`): a copy extends it by the source of its range
(CopyShown, where nothing that is blank was skipped over unseen: AfterBlank), a
replacement by its text and to its end (NextReplacement). What FlattenSeq does to
one element more, to a concatenation and to nothing is proved once, by least
counterexample over the length. Assumed: ContentsAssumption, MaxReplsAssumption.

**ContextFree_proofs**: PassTyped and PassReports (HookCoversRules: whatever a rule
made or changed was reported), for any rules and programs. The hook may still be due
when a node is in the output, so the invariant `IInv` says of every task on the
stack and of every item of the output that it is inside of a reported location or that a
task that will report one is on the stack (StackCovered, OutCovered). Pushing tasks
keeps what is covered (CoveredKept), and a `...Keeps` lemma per action treats what it
puts on the stack. The library's flattening of a sequence is a recursive function; that
it exists, and has the elements of its parts, is shown by least counterexample
(LeastExists, FlattenExists), without an induction theorem. Assumed: RulesAssumption.

**Spawn_proofs**: SpawnTypeCorrect, SignalsSettled, InheritanceIsChosen,
NothingIsLeft, AnswersAreTrue, for any threads, requests, open descriptors and limit
on them. The first four are consequences of one invariant, `IInv`: the ends of a pipe
are open as long as a call holds them (EndsOpen) and marked, but between a pipe and
its fcntl (EndsMarked); what else is in the table is what the process had
(RestKept); on Apple whoever is between pipe and fork has the mutex (MutexHeld), which
is why no fork copies an end that is not marked yet; how a call stands with its
sub-process (Staged); what a sub-process has set (SignalsSoFar), and what its table
holds before and after it moved its streams (Tables). A `...Effect` lemma per action
says once what it changes. AnswersAreTrue adds `Told`: the channel, the answer and
the sub-process agree, which needs that the sub-process still has its write end
(`CanTell`). That is where StandardOpen comes in, the hypothesis of this theorem and
of the next: without standard streams the redirection overwrites that end, as the run
`spawn_errors` shows. CallsImplementPromise is the safety part of CallsKeepPromise:
the initial states map to initial states of SpawnCalls and every step to one of its steps
or to a stutter, by what one step does to the program and the answer of
one call (`Goes`: stays, starts, loses, returns, raises). Assumed: ThreadAssumption
(a thread is not 0, and makes one kind of call), FdAssumption (three descriptors at
least), OpenAssumption (the process starts with no end of these pipes),
RequestAssumption (calls are given open descriptors), PlatformAssumption.

**BigstringIO_proofs**: StreamIsIntact, AnswersAndPositions, StreamGrowsAtItsEnd (an
action property), StreamTyped, EmptyForOneReader, for any number of threads, sizes of
buffers and pipe, lengths and vectors. The hypothesis is OneReader: an input
channel is used by one thread. It is no convenience: with two, `input` reads the number of
buffered bytes before it waits for the lock, and the run `bigstring_buffer` shows
where that leads; EmptyForOneReader proves the code's comment for the users it
was written for. The invariant `Inv` joins to StreamIntact and ToldTrue what each call
knows (StateOK): what is between a writer's acknowledged and its sent bytes
(WriterOK, SendingOK), where a reader stands (ReaderOK), what the channels' locks
and offsets say (ChannelsOK). Two effects serve all actions: bytes that
join the stream at its end (PutsKeeps) and bytes that move along it (MoveKeeps).
Assumed: ThreadAssumption, TotalAssumption, SizeAssumption, IovecAssumption,
ViaAssumption.

**Arithmetic_proofs**, of Zarith for words of any width:
OppositeExact, AbsoluteExact, AddExact, SubExact, MulExact, SuccExact, PredExact,
CompareExact, EqualExact; and DivOfIntegers, FDivOfIntegers, CDivOfIntegers, the fast paths
of the divisions on machine words. A primitive applied to numbers in any
representation (`Held`) gives the number of mathematics, reduced (`Canonical`) unless it
is an argument passed on (`Gives`). The content is in the fast paths, which compute
on tagged words that wrap: a sum or product that does not fit is noticed before its
truncated value is used. Assumed: that half and quarter of a word are whole numbers
(QuarterAssumption, HintAssumption), which every even width satisfies and TLC
evaluates, and WordAssumption, IntMaxAssumption.

And the steps of num's loops, for digits of any width: a digit and a carry
are together the exact sum or difference (DigitsAdd, DigitsSub, DigitsAddCarry,
DigitsSubCarry), the product from halves is the exact double digit (ProductOfHalves), and
C, the carry-flag assembly and the double-digit one leave the same digit and
carry (AdditionsAgree, SubtractionsAgree, MultAddStepsAgree, MultSubStepsAgree), the
latter through its biased carry. Assumed: HalfAssumption.

Only model-checked:
- liveness (PassEnds, EveryCallAnswers, EveryOutputAnswers, the
  fairness of SpawnCalls): out of the prover's reach under fairness;
- OutputIsExpansion, which compares with a recursive definition;
- CorrectionsConverge, which is checked for the rules of the instance and does not hold
  for all constants: code that is expected may itself have an inline deriver without a
  marker, and corrections may fall inside of one another;
- ResultsExact, ResultsReduced, RepresentationHidden and TextRoundTrips of Zarith as
  wholes: beyond the theorems above they speak of divisions on limbs, gcd, roots,
  powers, bits and text, from recursive definitions and bit operations that no module
  with a theorem can use;
- ResultsExact, ValueDecides and WritesInRange of Nat: the theorems are about one step
  of each loop, the properties about folds over arrays and about the division.

## 6. Abstractions and limits

Names, payloads and locations are values of small sets. In ContextFree an expander
is a function of the node (one that keeps state is not covered), and an
item generated in place of another has its location, as `~loc` gives it. Reconcile
does not print code. Driver takes a pass as one step and does not look into
cookies. The registration-time failures of `context_free.ml` (a
special function twice), the printer check of `code_matcher.ml` and external
programs (-pp, styler, diff) are not modelled beyond their success or failure.

Zarith: GMP's functions do what their manual says; perfect powers and squares,
primality, to_float and the assembly of fast paths for some processors are left out.
num: of the assembly, the carry protocols of amd64 and ia32 (with and without SSE2)
are modelled, not the constraints on operands; ppc, sparc and arm64 are left out, as
is what is built on nats in OCaml. spawn: running out of memory is a
failure before the fork only. These do not fail in the model: the sub-process's write of
its failure to the pipe, close, waitpid, setting the mask and the mutex, sigaction
(whose result the code ignores), the dup2 of a descriptor that is open, and the read of
the error pipe by the parent. The code has a branch for the last one, failed or short
(spawn_stubs.c:462-474), and says that it is not clear it can happen: it raises and
waits for the sub-process, which may be running its program, so a call that took it
would answer when the program ends. The layout of the vectors of arguments and environment
and their lookup in PATH are left out, as are the handles of Windows beyond the three
streams. The duplicates safe_dup makes are above 2 and go before exec, so `Redirect`
does the three in one step: no other process sees the child's table. bigstring I/O:
positions of pread and pwrite, addresses of messages, and calls with a minimum above
the length, which the OCaml side refuses, are left out.

Not modelled: the stubs of core that are one system call each, byte copies, the
file watching of dune (Apple only), libyaml, and the other packages, which are OCaml
code with small stubs: `PROJECT.json` has a reason for each.

## 7. Plan

1. **NameRegistry**: Registrar, reserved namespaces, white list, matching; the
   property that two accepted names never match the same written name, and that
   acceptance does not depend on the order of registration. With it the lookup
   of `extension.ml`.
2. **Deriving**: resolution of aliases and dependencies against a reference;
   arguments; composition with ContextFree, whose Derived it produces.
3. **LocationCheck**: Non_intersecting_ranges as state of the fold; the check
   accepts exactly the well-nested trees; proof that the list stays disjoint and
   sorted.
4. **Composition** of ContextFree and Reconcile: what is printed is what the pass
   computed; the hook of expressions, called before what is inside is expanded, is
   known to break it (the inner replacement is reported after the outer one and
   reconcile raises).
5. An **abstract driver** (a file is rewritten, or an error is delivered, and
   nothing else changes) that Driver refines; Driver with AttributeChecks as its
   check step.
6. Proofs: sums and products of whole arrays in Bng from the steps, by least counterexample over the length, as FlattenExists does; the divisions
   of Zarith on limbs; the theorems of 3 and the refinement of 5.
