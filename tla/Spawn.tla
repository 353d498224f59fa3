------------------------------- MODULE Spawn -------------------------------
(***************************************************************************)
(* spawn_stubs.c: threads of one process that call Spawn.spawn or          *)
(* Spawn.safe_pipe, and the sub-processes between their fork and their     *)
(* execve.  The threads share one table of descriptors, and no lock of the *)
(* runtime while they are in the stub (caml_enter_blocking_section); each  *)
(* sub-process has a copy of the table from its fork.  A sub-process tells *)
(* an error by writing on a pipe that its execve closes.                   *)
(***************************************************************************)
EXTENDS Integers, FiniteSets, FiniteSetsExt, Sequences

CONSTANTS
  Spawners,   \* the threads that make a call of spawn, positive integers
  Pipers,     \* those that make one of safe_pipe
  FdLimit,    \* descriptors are less than this (RLIMIT_NOFILE)
  Requests,   \* the arguments each may give to spawn
  Open,       \* the descriptors of the process, [0 .. FdLimit - 1 -> Descriptor]
  Platforms   \* "linux" has pipe2, "apple" has not, "windows"

VARIABLES
  platform,
  fds,        \* the table of the process
  mutex,      \* safe_pipe_mutex: its holder, or 0
  thread,     \* the call of each thread
  child,      \* its sub-process
  channel     \* what is in its error pipe

vars == <<platform, fds, mutex, thread, child, channel>>

Threads == Spawners \cup Pipers

-----------------------------------------------------------------------------
(* Descriptors.  The objects behind them are pairs; the two ends of the    *)
(* error pipe of thread t are <<"read", t>> and <<"write", t>>.            *)

Fd == 0 .. FdLimit - 1
NoFd == -1
None == <<"none", 0>>
Objects == {<<o, 0>> : o \in {"none", "in", "out", "err", "file", "dir"}}
           \cup {"read", "write"} \X Threads
Descriptor == {d \in [obj : Objects, cloexec : BOOLEAN] : d.obj = None => ~d.cloexec}
Closed == [obj |-> None, cloexec |-> FALSE]

(* What a call is given: descriptors of the process that are open.         *)
Given == {f \in Fd : Open[f] # Closed}
Request == [std : [1 .. 3 -> Given], cwd : {"inherit", "path", "fd"}, cwdFd : Given,
            setpgid : BOOLEAN, vfork : BOOLEAN]

ASSUME ThreadAssumption == 0 \notin Threads /\ Spawners \cap Pipers = {}
ASSUME FdAssumption == FdLimit \in Nat /\ FdLimit >= 3
ASSUME OpenAssumption ==
  Open \in [Fd -> Descriptor] /\ \A f \in Fd : Open[f].obj \notin {"read", "write"} \X Threads
ASSUME RequestAssumption == \A t \in Spawners : Requests[t] \subseteq Request
ASSUME PlatformAssumption == Platforms \subseteq {"linux", "apple", "windows"}

Free(table) == {f \in Fd : table[f] = Closed}
Lowest(table) == Min(Free(table))
Close(table, f) == IF f \in Fd THEN [table EXCEPT ![f] = Closed] ELSE table

(* The lowest free descriptors of a pipe, the read end first.              *)
PipeAt(table) ==
  LET r == Lowest(table)
  IN <<r, Min(Free(table) \ {r})>>

WithPipe(table, p, t, cloexec) ==
  [table EXCEPT ![p[1]] = [obj |-> <<"read", t>>, cloexec |-> cloexec],
                ![p[2]] = [obj |-> <<"write", t>>, cloexec |-> cloexec]]

(* safe_dup holds the descriptors below 3 it is given until it gets one    *)
(* that is not, and then closes them: it takes the lowest one above.       *)
HighFree(table) == {f \in Free(table) : f >= 3}

CanMove(table, std) ==
  /\ \A i \in DOMAIN std : table[std[i]] # Closed
  /\ Cardinality(HighFree(table)) >= Len(std)

(* Duplicates of the three streams are made before any descriptor is       *)
(* closed or replaced, so a stream may be on another's descriptor; they    *)
(* are closed again once dup2 has put them in place.                       *)
RedirectInTurn(table, std) ==
  LET put(tb, i) == [tb EXCEPT ![i - 1] = [obj |-> tb[std[i]].obj, cloexec |-> FALSE]]
  IN put(put(put(table, 1), 2), 3)
Redirect(table, std) ==
  [f \in Fd |-> IF f < 3 THEN [obj |-> table[std[f + 1]].obj, cloexec |-> FALSE]
                ELSE IF \E i \in DOMAIN std : std[i] = f THEN Closed
                ELSE table[f]]

-----------------------------------------------------------------------------

Fresh(req) ==
  [pc |-> "call", req |-> req, ends |-> <<NoFd, NoFd>>, masked |-> FALSE,
   copies |-> FALSE, answer |-> "none"]

NoChild ==
  [pc |-> "none", fds |-> [f \in Fd |-> Closed],
   masked |-> FALSE, handlers |-> "parent", group |-> "parent", cwd |-> "parent"]

Init ==
  /\ platform \in Platforms
  /\ fds = Open
  /\ mutex = 0
  /\ \E req \in [Threads -> UNION {Requests[t] : t \in Spawners}] :
       /\ \A t \in Spawners : req[t] \in Requests[t]
       /\ \A t \in Pipers : req[t] = CHOOSE r \in UNION {Requests[u] : u \in Spawners} : TRUE
       /\ thread = [t \in Threads |-> Fresh(req[t])]
  /\ child = [t \in Threads |-> NoChild]
  /\ channel = [t \in Threads |-> "empty"]

At(t, pc) == thread[t].pc = pc /\ platform # "windows"
Goto(t, pc) == thread' = [thread EXCEPT ![t].pc = pc]
Spawning(t) == t \in Spawners
Ends(t) == {thread[t].ends[1], thread[t].ends[2]}

(* The arguments are copied before the runtime is released; running out of *)
(* memory raises and forgets the copies already made.                      *)
CopyArguments(t) ==
  /\ At(t, "call")
  /\ \/ thread' = [thread EXCEPT ![t].pc = IF platform = "apple" THEN "lock" ELSE "pipe",
                                 ![t].copies = Spawning(t)]
     \/ /\ Spawning(t)
        /\ \E left \in BOOLEAN :
             thread' = [thread EXCEPT ![t].pc = "done", ![t].answer = "no memory",
                                      ![t].copies = left]
  /\ UNCHANGED <<platform, fds, mutex, child, channel>>

(* enter_safe_pipe_section: only where there is no pipe2.                  *)
Lock(t) ==
  /\ At(t, "lock")
  /\ mutex = 0 /\ mutex' = t
  /\ Goto(t, "pipe")
  /\ UNCHANGED <<platform, fds, child, channel>>

Unlocked(t) == IF mutex = t THEN 0 ELSE mutex

(* pipe2 makes both ends close-on-exec at once.  pipe does not: fcntl      *)
(* marks one end, then the other.                                          *)
MakePipe(t) ==
  /\ At(t, "pipe")
  /\ Cardinality(Free(fds)) >= 2
  /\ LET p == PipeAt(fds)
     IN /\ fds' = WithPipe(fds, p, t, platform = "linux")
        /\ thread' = [thread EXCEPT ![t].ends = p,
             ![t].pc = IF platform = "apple" THEN "mark read"
                       ELSE IF Spawning(t) THEN "fork" ELSE "done",
             ![t].answer = IF Spawning(t) THEN @ ELSE "pipe"]
  /\ UNCHANGED <<platform, mutex, child, channel>>

PipeUnchecked(t) ==
  /\ At(t, "pipe")
  /\ Cardinality(Free(fds)) < 2
  /\ Goto(t, IF platform = "apple" THEN "mark read" ELSE IF Spawning(t) THEN "fork" ELSE "done")
  /\ UNCHANGED <<platform, fds, mutex, child, channel>>
NoPipe(t) ==
  /\ At(t, "pipe")
  /\ Cardinality(Free(fds)) < 2
  /\ mutex' = Unlocked(t)
  /\ thread' = [thread EXCEPT ![t].pc = "done", ![t].answer = "error", ![t].copies = FALSE]
  /\ UNCHANGED <<platform, fds, child, channel>>

MarkCloexec(t) ==
  \/ /\ At(t, "mark read")
     /\ fds' = [fds EXCEPT ![thread[t].ends[1]].cloexec = TRUE]
     /\ Goto(t, "mark write")
     /\ UNCHANGED <<platform, mutex, child, channel>>
  \/ /\ At(t, "mark write")
     /\ fds' = [fds EXCEPT ![thread[t].ends[2]].cloexec = TRUE]
     /\ Goto(t, IF Spawning(t) THEN "fork" ELSE "unlock")
     /\ UNCHANGED <<platform, mutex, child, channel>>

(* When fcntl fails on either end, both are closed, and the call raises.   *)
MarkFails(t) ==
  /\ At(t, "mark read") \/ At(t, "mark write")
  /\ fds' = Close(Close(fds, thread[t].ends[1]), thread[t].ends[2])
  /\ mutex' = Unlocked(t)
  /\ thread' = [thread EXCEPT ![t].pc = "done", ![t].answer = "error", ![t].copies = FALSE]
  /\ UNCHANGED <<platform, child, channel>>

(* All signals are blocked, then the process forks, or fails to.           *)
Forked == IF platform = "apple" THEN "unlock" ELSE "close"

Fork(t) ==
  /\ At(t, "fork")
  /\ \/ /\ child' = [child EXCEPT ![t] =
             [NoChild EXCEPT !.pc = "forked", !.fds = fds, !.masked = TRUE]]
        /\ thread' = [thread EXCEPT ![t].pc = Forked, ![t].masked = TRUE]
     \/ /\ thread' = [thread EXCEPT ![t].pc = Forked, ![t].masked = TRUE,
                                    ![t].answer = "error"]
        /\ UNCHANGED child
  /\ UNCHANGED <<platform, fds, mutex, channel>>

(* vfork suspends the thread until the sub-process execs or exits.         *)
InStub == {"forked", "pgid", "signals", "cwd", "streams", "unblock", "exec", "fail"}
Suspended(t) == Spawning(t) /\ thread[t].req.vfork /\ child[t].pc \in InStub

Unlock(t) ==
  /\ At(t, "unlock") /\ ~Suspended(t)
  /\ mutex' = 0
  /\ Goto(t, IF Spawning(t) THEN "close" ELSE "done")
  /\ UNCHANGED <<platform, fds, child, channel>>

KeepWriteEnd(t) ==
  /\ At(t, "close") /\ ~Suspended(t)
  /\ thread' = [thread EXCEPT ![t].pc = IF thread[t].answer = "error" THEN "clean" ELSE "read",
                              ![t].copies = FALSE]
  /\ UNCHANGED <<platform, fds, mutex, child, channel>>
CloseUnchecked(t) ==
  /\ At(t, "close") /\ ~Suspended(t)
  /\ fds' = Close(fds, thread[t].ends[2])
  /\ thread' = [thread EXCEPT ![t].pc = "read", ![t].copies = FALSE]
  /\ UNCHANGED <<platform, mutex, child, channel>>
CloseWriteEnd(t) ==
  /\ At(t, "close") /\ ~Suspended(t)
  /\ fds' = Close(fds, thread[t].ends[2])
  /\ thread' = [thread EXCEPT ![t].pc = IF thread[t].answer = "error" THEN "clean" ELSE "read",
                              ![t].copies = FALSE]
  /\ UNCHANGED <<platform, mutex, child, channel>>

(* read waits for something to read or for the last write end to go.  Left *)
(* out is a read that fails or is short, of which the source says that it  *)
(* is not clear that it can happen: the descriptor is open, signals are    *)
(* blocked, and what the sub-process writes at once comes in one piece.    *)
Holds(table, t) == \E f \in Fd : table[f].obj = <<"write", t>>
Written(t) == Holds(fds, t) \/ \E u \in Threads : Holds(child[u].fds, t)

ReadAndForget(t) ==
  /\ At(t, "read")
  /\ channel[t] = "failure" \/ ~Written(t)
  /\ thread' = [thread EXCEPT ![t].pc = "clean",
                              ![t].answer = IF channel[t] = "failure" THEN "error" ELSE "pid"]
  /\ channel' = [channel EXCEPT ![t] = "empty"]
  /\ UNCHANGED <<platform, fds, mutex, child>>
ReadChannel(t) ==
  /\ At(t, "read")
  /\ \/ /\ channel[t] = "failure"
        /\ channel' = [channel EXCEPT ![t] = "empty"]
        /\ thread' = [thread EXCEPT ![t].pc = "reap", ![t].answer = "error"]
     \/ /\ channel[t] = "empty" /\ ~Written(t)
        /\ thread' = [thread EXCEPT ![t].pc = "clean", ![t].answer = "pid"]
        /\ UNCHANGED channel
  /\ UNCHANGED <<platform, fds, mutex, child>>

Reap(t) ==
  /\ At(t, "reap")
  /\ child[t].pc = "dead"
  /\ child' = [child EXCEPT ![t].pc = "reaped"]
  /\ Goto(t, "clean")
  /\ UNCHANGED <<platform, fds, mutex, channel>>

CloseReadEnd(t) ==
  /\ At(t, "clean")
  /\ fds' = Close(fds, thread[t].ends[1])
  /\ thread' = [thread EXCEPT ![t].pc = "done", ![t].masked = FALSE]
  /\ UNCHANGED <<platform, mutex, child, channel>>

-----------------------------------------------------------------------------
(* The sub-process.                                                        *)

ChildAt(t, pc) == child[t].pc = pc
Step(t, c) == child' = [child EXCEPT ![t] = c] /\ UNCHANGED <<platform, fds, mutex, thread>>
Silent(t, c) == Step(t, c) /\ UNCHANGED channel
Fail(t) == Silent(t, [child[t] EXCEPT !.pc = "fail", !.masked = TRUE])

CloseOwnReadEnd(t) ==
  /\ ChildAt(t, "forked")
  /\ Silent(t, [child[t] EXCEPT !.pc = IF thread[t].req.setpgid THEN "pgid" ELSE "signals",
                                !.fds = Close(@, thread[t].ends[1])])

SetPgid(t) ==
  /\ ChildAt(t, "pgid")
  /\ \/ Silent(t, [child[t] EXCEPT !.pc = "signals", !.group = "asked"])
     \/ Fail(t)

ResetOwnHandlers(t) ==
  /\ ChildAt(t, "signals")
  /\ Silent(t, [child[t] EXCEPT !.pc = IF thread[t].req.cwd = "inherit" THEN "streams" ELSE "cwd",
                                !.handlers = IF thread[t].req.vfork THEN @ ELSE "default"])
ResetHandlers(t) ==
  /\ ChildAt(t, "signals")
  /\ Silent(t, [child[t] EXCEPT !.pc = IF thread[t].req.cwd = "inherit" THEN "streams" ELSE "cwd",
                                !.handlers = "default"])

(* fchdir, unlike chdir, is followed by the close of its descriptor.       *)
ChangeDirectory(t) ==
  /\ ChildAt(t, "cwd")
  /\ \/ Silent(t, [child[t] EXCEPT !.pc = "streams", !.cwd = "asked",
                     !.fds = IF thread[t].req.cwd = "fd" THEN Close(@, thread[t].req.cwdFd)
                             ELSE @])
     \/ Fail(t)

Std(t) == thread[t].req.std

MoveStreams(t) ==
  /\ ChildAt(t, "streams")
  /\ \/ /\ CanMove(child[t].fds, Std(t))
        /\ Silent(t, [child[t] EXCEPT !.pc = "unblock", !.fds = Redirect(@, Std(t))])
     \/ /\ ~CanMove(child[t].fds, Std(t))
        /\ Fail(t)

Unblock(t) ==
  /\ ChildAt(t, "unblock")
  /\ Silent(t, [child[t] EXCEPT !.pc = "exec", !.masked = FALSE])

AfterExec(table) == [f \in Fd |-> IF table[f].cloexec THEN Closed ELSE table[f]]

Exec(t) ==
  /\ ChildAt(t, "exec")
  /\ \/ Silent(t, [child[t] EXCEPT !.pc = "program", !.fds = AfterExec(@)])
     \/ Fail(t)

Gone(t, pc) == [child[t] EXCEPT !.pc = pc, !.fds = [f \in Fd |-> Closed]]

(* The failure is written in one piece on descriptor failure_fd, whatever  *)
(* that now is, and the sub-process exits.                                 *)
ExitSilently(t) == ChildAt(t, "fail") /\ Silent(t, Gone(t, "dead"))
WriteFailure(t) ==
  /\ ChildAt(t, "fail")
  /\ channel' = IF child[t].fds[thread[t].ends[2]].obj = <<"write", t>>
                THEN [channel EXCEPT ![t] = "failure"] ELSE channel
  /\ Step(t, Gone(t, "dead"))

(* SIGKILL, or a signal that was pending when the signals are unblocked.   *)
Killed(t) ==
  /\ child[t].pc \in InStub
  /\ Silent(t, Gone(t, "killed"))

-----------------------------------------------------------------------------
(* On Windows the stub keeps the runtime's lock: it duplicates the three   *)
(* handles so that they are inherited, creates the process, and closes     *)
(* them; what fails raises after the duplicates made so far are closed.    *)
(* No working directory can be a descriptor.                               *)
Windows(t, pc) == thread[t].pc = pc /\ platform = "windows"

SpawnWindows(t) ==
  \/ /\ Windows(t, "call")
     /\ Spawning(t) /\ thread[t].req.cwd # "fd"
     /\ Goto(t, "created")
     /\ child' = [child EXCEPT ![t] =
          [NoChild EXCEPT !.pc = "program",
             !.cwd = IF thread[t].req.cwd = "path" THEN "asked" ELSE "parent",
             !.fds = [f \in Fd |-> IF f < 3 THEN fds[Std(t)[f + 1]] ELSE AfterExec(fds)[f]]]]
     /\ UNCHANGED <<platform, fds, mutex, channel>>
  \/ /\ Windows(t, "created")
     /\ thread' = [thread EXCEPT ![t].pc = "done", ![t].answer = "pid"]
     /\ UNCHANGED <<platform, fds, mutex, child, channel>>
  \/ /\ Windows(t, "call")
     /\ thread' = [thread EXCEPT ![t].pc = "done", ![t].answer = "error"]
     /\ UNCHANGED <<platform, fds, mutex, child, channel>>

ThreadStep(t) ==
  \/ CopyArguments(t) \/ Lock(t) \/ MakePipe(t) \/ NoPipe(t) \/ MarkCloexec(t)
  \/ MarkFails(t) \/ Fork(t) \/ Unlock(t) \/ CloseWriteEnd(t) \/ ReadChannel(t) \/ Reap(t)
  \/ CloseReadEnd(t) \/ SpawnWindows(t)

ChildStep(t) ==
  \/ CloseOwnReadEnd(t) \/ SetPgid(t) \/ ResetHandlers(t) \/ ChangeDirectory(t)
  \/ MoveStreams(t) \/ Unblock(t) \/ Exec(t) \/ WriteFailure(t)

Progress == \E t \in Threads : ThreadStep(t) \/ ChildStep(t)
Next == Progress \/ \E t \in Threads : Killed(t)

Spec == Init /\ [][Next]_vars /\ WF_vars(Progress)

-----------------------------------------------------------------------------
(* The type of the state.  A call that goes on to fork has two ends.       *)
TypeOK ==
  /\ platform \in Platforms
  /\ fds \in [Fd -> Descriptor]
  /\ mutex \in Threads \cup {0}
  /\ \A t \in Threads :
       /\ thread[t].answer \in {"none", "pid", "pipe", "error", "no memory"}
       /\ thread[t].masked \in BOOLEAN
       /\ thread[t].pc \in {"mark read", "mark write", "fork", "unlock", "close"} =>
            thread[t].ends \in Fd \X Fd /\ thread[t].ends[1] # thread[t].ends[2]
       /\ child[t].fds \in [Fd -> Descriptor]
       /\ channel[t] \in {"empty", "failure"}

Done(t) == thread[t].pc = "done"
Running(t) == child[t].pc = "program"

(* The streams a call asks for, at the time it is made.                    *)
Wanted(t) == [i \in 1 .. 3 |-> Open[Std(t)[i]].obj]
StreamsOf(t) == [i \in 1 .. 3 |-> child[t].fds[i - 1].obj]

(* A program runs on the streams it was given, in whatever order their     *)
(* descriptors overlap the standard ones, and with no other descriptor     *)
(* than those its parent lets it inherit: no end of an error pipe or of a  *)
(* safe_pipe, its own or another thread's, and no temporary                *)
(* (spawn_stubs.c:186-263, spawn.mli on safe_pipe).                        *)
ProgramsInheritOnlyTheirs ==
  \A t \in Threads : Running(t) =>
    /\ StreamsOf(t) = Wanted(t)
    /\ \A f \in Fd : f >= 3 /\ child[t].fds[f] # Closed =>
         child[t].fds[f] = Open[f] /\ ~Open[f].cloexec

(* A handler of the parent, which after vfork would run in the parent's    *)
(* memory, cannot run in a sub-process: until its handlers are reset all   *)
(* signals are blocked.  The program starts with none blocked, in the      *)
(* group and the directory asked for (spawn_stubs.c:221-266).              *)
SignalsAndGroup ==
  \A t \in Threads :
    /\ child[t].pc \in InStub /\ ~child[t].masked => child[t].handlers = "default"
    /\ Running(t) =>
         /\ ~child[t].masked
         /\ thread[t].req.setpgid /\ platform # "windows" => child[t].group = "asked"
         /\ thread[t].req.cwd # "inherit" => child[t].cwd = "asked"

(* Whichever call fails - pipe, fcntl, fork, or one in the sub-process -   *)
(* when the calls are over the process has the descriptors it had and the  *)
(* pipes it asked for, its signals, its mutex, its memory (but when it ran *)
(* out of it) and no sub-process that waits to be reaped but those whose   *)
(* pid was returned (spawn_stubs.c:47-63, 376-496).  The read of the error *)
(* pipe does not fail here, see ReadChannel.                               *)
NothingLeftBehind ==
  (\A t \in Threads : Done(t)) =>
    /\ mutex = 0
    /\ \A t \in Threads :
         /\ ~thread[t].masked
         /\ thread[t].answer # "no memory" => ~thread[t].copies
         /\ thread[t].answer = "error" => child[t].pc \in {"none", "reaped"}
    /\ \A f \in Fd :
         LET pipes == UNION {Ends(t) : t \in {u \in Threads : thread[u].answer = "pipe"}}
         IN IF f \in pipes THEN fds[f].cloexec ELSE fds[f] = Open[f]

(* A call that raises started no program, and one that returns a pid did,  *)
(* unless the sub-process was killed; the answer comes after the fact.     *)
ErrorsRaise ==
  \A t \in Threads : Done(t) /\ Spawning(t) =>
    /\ thread[t].answer = "pid" => child[t].pc \in {"program", "killed"}
    /\ thread[t].answer # "pid" => child[t].pc \notin {"program"} \cup InStub

-----------------------------------------------------------------------------
(* Every call answers: the read on the error pipe ends, because every      *)
(* sub-process that holds a copy of its write end, other threads' too,     *)
(* gets to its execve or exits, as long as something that can go on does.  *)
(* A call that is over stays so: there comes a time when all are.          *)
EveryCallAnswers == <>(\A t \in Threads : Done(t))

(* The calls of spawn, seen from their programs and their answers.         *)
Calls == INSTANCE SpawnCalls WITH
  Calls <- Spawners,
  Streams <- {[i \in 1 .. 3 |-> Open[r.std[i]].obj] : r \in UNION {Requests[t] : t \in Spawners}},
  asked <- [t \in Spawners |-> Wanted(t)],
  program <- [t \in Spawners |->
    CASE Running(t) -> StreamsOf(t)
      [] child[t].pc = "killed" -> <<"lost">>
      [] OTHER -> << >>],
  answer <- [t \in Spawners |->
    IF ~Done(t) THEN "none" ELSE IF thread[t].answer = "pid" THEN "pid" ELSE "error"]

(* Calls and sub-processes implement what spawn.mli promises of a call.    *)
CallsKeepPromise == Calls!Spec
=============================================================================
