---------------------------- MODULE Spawn_proofs ----------------------------
(***************************************************************************)
(* Proofs about Spawn, for any threads, requests, table of descriptors and *)
(* limit on them.                                                          *)
(***************************************************************************)
EXTENDS Spawn, FiniteSetTheorems, WellFoundedInduction, TLAPS

-----------------------------------------------------------------------------
(* Descriptors.                                                            *)

(* A set of natural numbers that is not empty holds its least element.     *)
LEMMA MinIsIn ==
  ASSUME NEW S \in SUBSET Nat, S # {}
  PROVE  Min(S) \in S
<1>1. PICK x \in S : \A y \in S : ~ (<<y, x>> \in OpToRel(<, Nat))
  BY NatLessThanWellFounded, WFMin, Zenon
<1>2. \A y \in S : x <= y
  <2> TAKE y \in S
  <2>2. <<y, x>> \in OpToRel(<, Nat) <=> y < x
    BY DEF OpToRel
  <2>3. ~ (y < x)
    BY <1>1, <2>2, Zenon
  <2> QED
    BY <2>3
<1> QED
  BY <1>2 DEF Min

(* Two descriptors are free: a pipe takes two different ones of them.      *)
LEMMA PipeTakesFree ==
  ASSUME NEW table \in [Fd -> Descriptor], Cardinality(Free(table)) >= 2
  PROVE  LET p == PipeAt(table)
         IN p \in Free(table) \X Free(table) /\ p[1] # p[2]
<1> DEFINE F == Free(table)
<1>1. F \in SUBSET Fd /\ Fd \in SUBSET Nat /\ IsFiniteSet(Fd)
  BY FdAssumption, FS_Interval DEF Free, Fd
<1>2. IsFiniteSet(F)
  BY <1>1, FS_Subset
<1>3. F # {}
  BY <1>2, FS_EmptySet
<1>4. Min(F) \in F
  BY <1>1, <1>3, MinIsIn
<1>5. F \ {Min(F)} # {}
  <2>1. Cardinality(F \ {Min(F)}) = Cardinality(F) - 1 /\ IsFiniteSet(F \ {Min(F)})
    BY <1>2, <1>4, FS_RemoveElement
  <2> QED
    BY <2>1, <1>2, FS_EmptySet, FS_CardinalityType
<1>6. Min(F \ {Min(F)}) \in F \ {Min(F)}
  BY <1>1, <1>5, MinIsIn
<1> QED
  BY <1>4, <1>6 DEF PipeAt, Lowest

(* The objects of the error pipes are no others', and not closed.          *)
LEMMA PipeObjects ==
  \A t, u \in Threads :
    /\ <<"read", t>> \in Objects /\ <<"write", t>> \in Objects
    /\ <<"read", t>> # <<"write", u>>
    /\ <<"read", t>> # None /\ <<"write", t>> # None
    /\ <<"read", t>> = <<"read", u>> => t = u
    /\ <<"write", t>> = <<"write", u>> => t = u
    /\ \A f \in Fd : Open[f].obj # <<"read", t>> /\ Open[f].obj # <<"write", t>>
BY OpenAssumption DEF Objects, None

LEMMA ClosedIsDescriptor == Closed \in Descriptor
BY DEF Closed, Descriptor, Objects, None

(* What the operations on tables make of a table.                          *)
LEMMA TableTypes ==
  ASSUME NEW table \in [Fd -> Descriptor]
  PROVE  /\ \A f : Close(table, f) \in [Fd -> Descriptor]
         /\ AfterExec(table) \in [Fd -> Descriptor]
         /\ \A std \in [1 .. 3 -> Fd] : Redirect(table, std) \in [Fd -> Descriptor]
         /\ \A t \in Threads, p \in Fd \X Fd, c \in BOOLEAN :
              WithPipe(table, p, t, c) \in [Fd -> Descriptor]
<1>1. \A f : Close(table, f) \in [Fd -> Descriptor]
  BY ClosedIsDescriptor DEF Close
<1>2. AfterExec(table) \in [Fd -> Descriptor]
  BY ClosedIsDescriptor DEF AfterExec
<1>3. \A f \in Fd : [obj |-> table[f].obj, cloexec |-> FALSE] \in Descriptor
  BY DEF Descriptor
<1>4. ASSUME NEW std \in [1 .. 3 -> Fd] PROVE Redirect(table, std) \in [Fd -> Descriptor]
  BY <1>3, ClosedIsDescriptor, FdAssumption DEF Redirect, Fd
<1>5. ASSUME NEW t \in Threads, NEW p \in Fd \X Fd, NEW c \in BOOLEAN
      PROVE  WithPipe(table, p, t, c) \in [Fd -> Descriptor]
  <2>1. \A o \in {<<"read", t>>, <<"write", t>>} : [obj |-> o, cloexec |-> c] \in Descriptor
    BY PipeObjects DEF Descriptor
  <2>2. p[1] \in Fd /\ p[2] \in Fd
    OBVIOUS
  <2> QED
    BY <2>1, <2>2 DEF WithPipe
<1> QED
  BY <1>1, <1>2, <1>4, <1>5

-----------------------------------------------------------------------------
(* The type of the state, in full.                                         *)

ThreadPc ==
  {"call", "lock", "pipe", "mark read", "mark write", "fork", "unlock", "close", "read", "reap",
   "clean", "created", "done"}
ChildPc == InStub \cup {"none", "program", "dead", "killed", "reaped"}

Answer == {"none", "pid", "pipe", "error", "no memory"}
Ends2 == (Fd \cup {NoFd}) \X (Fd \cup {NoFd})

ThreadState ==
  [pc : ThreadPc, req : Request, ends : Ends2,
   masked : BOOLEAN, copies : BOOLEAN,
   answer : Answer]
ChildState ==
  [pc : ChildPc, fds : [Fd -> Descriptor], masked : BOOLEAN,
   handlers : {"parent", "default"}, group : {"parent", "asked"}, cwd : {"parent", "asked"}]

Typed ==
  /\ platform \in Platforms
  /\ fds \in [Fd -> Descriptor]
  /\ mutex \in Threads \cup {0}
  /\ thread \in [Threads -> ThreadState]
  /\ child \in [Threads -> ChildState]
  /\ channel \in [Threads -> {"empty", "failure"}]

LEMMA RequestsOfThreads ==
  ASSUME Init
  PROVE  \E req \in [Threads -> Request] : thread = [t \in Threads |-> Fresh(req[t])]
<1> DEFINE All == UNION {Requests[t] : t \in Spawners}
<1>1. PICK req \in [Threads -> All] :
        /\ \A t \in Spawners : req[t] \in Requests[t]
        /\ thread = [t \in Threads |-> Fresh(req[t])]
  BY DEF Init
<1>2. All \subseteq Request
  BY RequestAssumption
<1> QED
  BY <1>1, <1>2

LEMMA InitTyped == Init => Typed
<1> SUFFICES ASSUME Init PROVE Typed
  OBVIOUS
<1>1. PICK req \in [Threads -> Request] : thread = [t \in Threads |-> Fresh(req[t])]
  BY RequestsOfThreads
<1>2. thread \in [Threads -> ThreadState]
  BY <1>1 DEF Fresh, ThreadState, ThreadPc, Answer, Ends2
<1>3. NoChild \in ChildState
  BY ClosedIsDescriptor DEF NoChild, ChildState, ChildPc, InStub
<1> QED
  BY <1>2, <1>3, OpenAssumption DEF Init, Typed

-----------------------------------------------------------------------------
(* The invariant.                                                          *)

(* The ends of a pipe that a call holds, from when it makes the pipe until *)
(* it closes the end, or for ever when it returns the pipe.                *)
WriteHeld == {"mark read", "mark write", "fork", "unlock", "close"}
ReadHeld == WriteHeld \cup {"read", "reap", "clean"}
HoldsRead(t) == thread[t].pc \in ReadHeld \/ thread[t].answer = "pipe"
HoldsWrite(t) == thread[t].pc \in WriteHeld \/ thread[t].answer = "pipe"

EndsOpen ==
  \A t \in Threads :
    /\ HoldsRead(t) =>
         thread[t].ends[1] \in Fd /\ fds[thread[t].ends[1]].obj = <<"read", t>>
    /\ HoldsWrite(t) =>
         thread[t].ends[2] \in Fd /\ fds[thread[t].ends[2]].obj = <<"write", t>>

(* They are closed on exec, but between a pipe and its fcntl.              *)
EndsMarked ==
  \A t \in Threads :
    /\ HoldsRead(t) /\ (platform = "apple" => thread[t].pc # "mark read") =>
         fds[thread[t].ends[1]].cloexec
    /\ HoldsWrite(t) /\ (platform = "apple" => thread[t].pc \notin {"mark read", "mark write"}) =>
         fds[thread[t].ends[2]].cloexec

(* The process has, besides, the descriptors it had.                       *)
RestKept ==
  \A f \in Fd :
    \/ fds[f] = Open[f]
    \/ /\ Open[f] = Closed
       /\ \E t \in Threads : \/ HoldsRead(t) /\ f = thread[t].ends[1]
                             \/ HoldsWrite(t) /\ f = thread[t].ends[2]

InSection == {"pipe", "mark read", "mark write", "fork", "unlock"}

MutexHeld ==
  /\ mutex # 0 => platform = "apple" /\ thread[mutex].pc \in InSection
  /\ \A t \in Threads :
       /\ thread[t].pc = "lock" => platform = "apple"
       /\ platform = "apple" /\ thread[t].pc \in InSection => mutex = t

(* What a call has done so far, and how it stands with its sub-process.    *)
StagedCall(t) ==
  /\ thread[t].masked =>
       thread[t].pc \in {"unlock", "close", "read", "reap", "clean"} /\ Spawning(t)
  /\ thread[t].copies /\ thread[t].answer # "no memory" =>
       thread[t].pc \in {"lock", "pipe"} \cup WriteHeld /\ Spawning(t)
  /\ thread[t].pc \in {"call", "lock", "pipe", "mark read", "mark write", "fork"} =>
       child[t].pc = "none"
  /\ thread[t].pc \in {"fork", "close", "read", "reap", "clean"} => Spawning(t)
  /\ thread[t].pc \in {"mark read", "mark write", "unlock"} /\ ~Spawning(t) =>
       thread[t].answer = "pipe"
  /\ thread[t].answer = "no memory" => thread[t].pc = "done"
  /\ thread[t].answer = "pipe" => ~Spawning(t) /\ thread[t].pc \in WriteHeld \cup {"done"}
  /\ thread[t].answer = "error" =>
       /\ thread[t].pc \in {"unlock", "close", "reap", "clean", "done"}
       /\ thread[t].pc = "reap" \/ child[t].pc \in {"none", "reaped"}
Staged == \A t \in Threads : StagedCall(t)

(* How far a sub-process has set its signals, its group and its directory. *)
SignalsOf(t, c) ==
  LET req == thread[t].req
  IN /\ c.pc \in InStub => (c.masked <=> c.pc # "exec")
     /\ c.pc \in {"cwd", "streams", "unblock", "exec"} => c.handlers = "default"
     /\ c.pc = "program" => ~c.masked
     /\ c.pc \in {"signals", "cwd", "streams", "unblock", "exec", "program"}
        /\ req.setpgid /\ platform # "windows" => c.group = "asked"
     /\ c.pc \in {"streams", "unblock", "exec", "program"} /\ req.cwd # "inherit" =>
          c.cwd = "asked"
SignalsSoFar == \A t \in Threads : SignalsOf(t, child[t])

(* What a sub-process may find behind a descriptor.                        *)
Inherited(f, o) ==
  \/ o \in {Open[f], Closed}
  \/ Open[f] = Closed /\ o.cloexec

(* How far it has moved its streams.                                       *)
TableOf(t, c) ==
  /\ c.pc \in {"forked", "pgid", "signals", "cwd", "streams"} =>
       \A f \in Fd : Inherited(f, c.fds[f])
  /\ c.pc \in {"unblock", "exec"} =>
       \A f \in Fd : IF f < 3 THEN ~c.fds[f].cloexec ELSE Inherited(f, c.fds[f])
  /\ c.pc \in {"unblock", "exec", "program"} =>
       \A f \in 0 .. 2 : c.fds[f].obj = Open[Std(t)[f + 1]].obj
  /\ c.pc = "program" =>
       \A f \in Fd : f >= 3 /\ c.fds[f] # Closed => c.fds[f] = Open[f] /\ ~Open[f].cloexec
Tables == \A t \in Threads : TableOf(t, child[t])

IInv ==
  /\ Typed /\ EndsOpen /\ EndsMarked /\ RestKept /\ MutexHeld /\ Staged
  /\ SignalsSoFar /\ Tables

(* A thread's call is still one when some of its fields are replaced.      *)
LEMMA SetPc ==
  ASSUME NEW th \in [Threads -> ThreadState], NEW t \in Threads, NEW pc \in ThreadPc
  PROVE  [th EXCEPT ![t].pc = pc] \in [Threads -> ThreadState]
BY DEF ThreadState

LEMMA SetPcCopies ==
  ASSUME NEW th \in [Threads -> ThreadState], NEW t \in Threads, NEW pc \in ThreadPc, NEW copies \in BOOLEAN
  PROVE  [th EXCEPT ![t].pc = pc, ![t].copies = copies] \in [Threads -> ThreadState]
BY DEF ThreadState

LEMMA SetPcMasked ==
  ASSUME NEW th \in [Threads -> ThreadState], NEW t \in Threads, NEW pc \in ThreadPc, NEW masked \in BOOLEAN
  PROVE  [th EXCEPT ![t].pc = pc, ![t].masked = masked] \in [Threads -> ThreadState]
BY DEF ThreadState

LEMMA SetPcAnswer ==
  ASSUME NEW th \in [Threads -> ThreadState], NEW t \in Threads, NEW pc \in ThreadPc, NEW answer \in Answer
  PROVE  [th EXCEPT ![t].pc = pc, ![t].answer = answer] \in [Threads -> ThreadState]
BY DEF ThreadState

LEMMA SetPcAnswerCopies ==
  ASSUME NEW th \in [Threads -> ThreadState], NEW t \in Threads, NEW pc \in ThreadPc, NEW answer \in Answer, NEW copies \in BOOLEAN
  PROVE  [th EXCEPT ![t].pc = pc, ![t].answer = answer, ![t].copies = copies] \in [Threads -> ThreadState]
BY DEF ThreadState

LEMMA SetPcMaskedAnswer ==
  ASSUME NEW th \in [Threads -> ThreadState], NEW t \in Threads, NEW pc \in ThreadPc, NEW masked \in BOOLEAN, NEW answer \in Answer
  PROVE  [th EXCEPT ![t].pc = pc, ![t].masked = masked, ![t].answer = answer] \in [Threads -> ThreadState]
BY DEF ThreadState

LEMMA SetEndsPcAnswer ==
  ASSUME NEW th \in [Threads -> ThreadState], NEW t \in Threads, NEW ends \in Ends2, NEW pc \in ThreadPc, NEW answer \in Answer
  PROVE  [th EXCEPT ![t].ends = ends, ![t].pc = pc, ![t].answer = answer] \in [Threads -> ThreadState]
BY DEF ThreadState

LEMMA PcValues ==
  /\ {"call", "lock", "pipe", "mark read", "mark write", "fork", "unlock", "close", "read", "reap",
      "clean", "created", "done"} \subseteq ThreadPc
  /\ {"none", "pid", "pipe", "error", "no memory"} \subseteq Answer
BY DEF ThreadPc, Answer

LEMMA ThreadStepThread ==
  ASSUME Typed, NEW t \in Threads, ThreadStep(t)
  PROVE  thread' \in [Threads -> ThreadState]
<1>0. thread \in [Threads -> ThreadState] /\ thread[t].answer \in Answer
  BY DEF Typed, ThreadState
<1>1. CASE CopyArguments(t)
  <2> DEFINE next == IF platform = "apple" THEN "lock" ELSE "pipe"
  <2>1. next \in ThreadPc
    BY PcValues
  <2>2. CASE thread' = [thread EXCEPT ![t].pc = next, ![t].copies = Spawning(t)]
    <3> HIDE DEF next
    <3>1. CASE t \in Spawners
      <4>1. thread' = [thread EXCEPT ![t].pc = next, ![t].copies = TRUE]
        BY <2>2, <3>1 DEF Spawning
      <4> QED
        BY <1>0, <2>1, <4>1, SetPcCopies
    <3>2. CASE t \notin Spawners
      <4>0. Spawning(t) = FALSE
        BY <3>2 DEF Spawning
      <4>1. thread' = [thread EXCEPT ![t].pc = next, ![t].copies = FALSE]
        BY <2>2, <4>0, Zenon
      <4> QED
        BY <1>0, <2>1, <4>1, SetPcCopies
    <3> QED
      BY <3>1, <3>2
  <2>3. ASSUME NEW left \in BOOLEAN,
               thread' = [thread EXCEPT ![t].pc = "done", ![t].answer = "no memory",
                                        ![t].copies = left]
        PROVE  thread' \in [Threads -> ThreadState]
    <3>1. "done" \in ThreadPc /\ "no memory" \in Answer
      BY PcValues
    <3> QED
      BY <1>0, <2>3, <3>1, SetPcAnswerCopies, Zenon
  <2> QED
    BY <1>1, <2>2, <2>3 DEF CopyArguments
<1>2. CASE Lock(t)
  BY <1>0, <1>2, SetPc, PcValues DEF Lock, Goto
<1>3. CASE MakePipe(t)
  <2> DEFINE p == PipeAt(fds)
             next == IF platform = "apple" THEN "mark read"
                     ELSE IF Spawning(t) THEN "fork" ELSE "done"
             ans == IF Spawning(t) THEN thread[t].answer ELSE "pipe"
  <2>1. p \in Ends2
    BY <1>3, PipeTakesFree DEF MakePipe, Free, Typed, Ends2
  <2>2. next \in ThreadPc /\ ans \in Answer
    BY <1>0, PcValues
  <2>3. thread' = [thread EXCEPT ![t].ends = p, ![t].pc = next, ![t].answer = ans]
    BY <1>0, <1>3 DEF MakePipe
  <2> HIDE DEF p, next, ans
  <2> QED
    BY <1>0, <2>1, <2>2, <2>3, SetEndsPcAnswer, Zenon
<1>4. CASE NoPipe(t)
  <2>1. "done" \in ThreadPc /\ "error" \in Answer
    BY PcValues
  <2>2. thread' = [thread EXCEPT ![t].pc = "done", ![t].answer = "error", ![t].copies = FALSE]
    BY <1>4 DEF NoPipe
  <2> QED
    BY <1>0, <2>1, <2>2, SetPcAnswerCopies
<1>5. CASE MarkCloexec(t)
  <2>1. PICK pc \in ThreadPc : Goto(t, pc)
    BY <1>5, PcValues DEF MarkCloexec
  <2> QED
    BY <1>0, <2>1, SetPc DEF Goto
<1>6. CASE Fork(t)
  <2>1. Forked \in ThreadPc /\ "error" \in Answer
    BY PcValues DEF Forked
  <2>2. \/ thread' = [thread EXCEPT ![t].pc = Forked, ![t].masked = TRUE]
        \/ thread' = [thread EXCEPT ![t].pc = Forked, ![t].masked = TRUE, ![t].answer = "error"]
    BY <1>6 DEF Fork
  <2>3. CASE thread' = [thread EXCEPT ![t].pc = Forked, ![t].masked = TRUE]
    BY <1>0, <2>1, <2>3, SetPcMasked
  <2>4. CASE thread' = [thread EXCEPT ![t].pc = Forked, ![t].masked = TRUE, ![t].answer = "error"]
    BY <1>0, <2>1, <2>4, SetPcMaskedAnswer
  <2> QED
    BY <2>2, <2>3, <2>4
<1>7. CASE Unlock(t)
  <2>1. PICK pc \in ThreadPc : Goto(t, pc)
    BY <1>7, PcValues DEF Unlock
  <2> QED
    BY <1>0, <2>1, SetPc DEF Goto
<1>8. CASE CloseWriteEnd(t)
  <2>1. PICK pc \in ThreadPc : thread' = [thread EXCEPT ![t].pc = pc, ![t].copies = FALSE]
    BY <1>8, PcValues DEF CloseWriteEnd
  <2> QED
    BY <1>0, <2>1, SetPcCopies
<1>9. CASE ReadChannel(t)
  <2>1. PICK pc \in ThreadPc, a \in Answer :
          thread' = [thread EXCEPT ![t].pc = pc, ![t].answer = a]
    BY <1>9, PcValues DEF ReadChannel
  <2> QED
    BY <1>0, <2>1, SetPcAnswer
<1>10. CASE Reap(t)
  BY <1>0, <1>10, SetPc, PcValues DEF Reap, Goto
<1>11. CASE CloseReadEnd(t)
  BY <1>0, <1>11, SetPcMasked, PcValues DEF CloseReadEnd
<1>12. CASE SpawnWindows(t)
  <2>1. "done" \in ThreadPc /\ "created" \in ThreadPc /\ "pid" \in Answer /\ "error" \in Answer
    BY PcValues
  <2>2. \/ thread' = [thread EXCEPT ![t].pc = "created"]
        \/ thread' = [thread EXCEPT ![t].pc = "done", ![t].answer = "pid"]
        \/ thread' = [thread EXCEPT ![t].pc = "done", ![t].answer = "error"]
    BY <1>12, Zenon DEF SpawnWindows, Goto
  <2>3. CASE thread' = [thread EXCEPT ![t].pc = "created"]
    BY <1>0, <2>1, <2>3, SetPc
  <2>4. CASE thread' = [thread EXCEPT ![t].pc = "done", ![t].answer = "pid"]
    BY <1>0, <2>1, <2>4, SetPcAnswer
  <2>5. CASE thread' = [thread EXCEPT ![t].pc = "done", ![t].answer = "error"]
    BY <1>0, <2>1, <2>5, SetPcAnswer
  <2> QED
    BY <2>2, <2>3, <2>4, <2>5
<1>13. CASE MarkFails(t)
  <2>1. "done" \in ThreadPc /\ "error" \in Answer
    BY PcValues
  <2>2. thread' = [thread EXCEPT ![t].pc = "done", ![t].answer = "error", ![t].copies = FALSE]
    BY <1>13 DEF MarkFails
  <2> QED
    BY <1>0, <2>1, <2>2, SetPcAnswerCopies
<1> QED
  BY <1>1, <1>2, <1>3, <1>4, <1>5, <1>6, <1>7, <1>8, <1>9, <1>10, <1>11, <1>12, <1>13 DEF ThreadStep

(* A step of a call changes no other call and no other sub-process.        *)
LEMMA ThreadFrame ==
  ASSUME Typed, NEW t \in Threads, ThreadStep(t)
  PROVE  /\ platform' = platform
         /\ \A u \in Threads \ {t} : thread'[u] = thread[u] /\ child'[u] = child[u]
         /\ thread'[t].req = thread[t].req
<1> USE DEF Typed, ThreadState, Goto
<1>1. CASE CopyArguments(t)
  <2>1. \E pc, copies, answer :
          thread' = [thread EXCEPT ![t].pc = pc, ![t].answer = answer, ![t].copies = copies]
    <3>1. CASE \E pc, copies : thread' = [thread EXCEPT ![t].pc = pc, ![t].copies = copies]
      <4>1. PICK pc, copies : thread' = [thread EXCEPT ![t].pc = pc, ![t].copies = copies]
        BY <3>1
      <4>2. thread' = [thread EXCEPT ![t].pc = pc, ![t].answer = thread[t].answer, ![t].copies = copies]
        BY <4>1
      <4> QED
        BY <4>2
    <3>2. CASE \E answer, copies :
             thread' = [thread EXCEPT ![t].pc = "done", ![t].answer = answer, ![t].copies = copies]
      BY <3>2, Zenon
    <3> QED
      BY <1>1, <3>1, <3>2, Zenon DEF CopyArguments
  <2>2. platform' = platform /\ child' = child
    BY <1>1, Zenon DEF CopyArguments
  <2> QED
    BY <2>1, <2>2
<1>2. CASE Lock(t)
  BY <1>2 DEF Lock
<1>3. CASE MakePipe(t)
  BY <1>3 DEF MakePipe
<1>4. CASE NoPipe(t)
  BY <1>4 DEF NoPipe
<1>5. CASE MarkCloexec(t)
  <2>1. platform' = platform /\ child' = child /\ \E pc : thread' = [thread EXCEPT ![t].pc = pc]
    BY <1>5 DEF MarkCloexec
  <2> QED
    BY <2>1
<1>6. CASE Fork(t)
  BY <1>6 DEF Fork
<1>7. CASE Unlock(t)
  BY <1>7 DEF Unlock
<1>8. CASE CloseWriteEnd(t)
  BY <1>8 DEF CloseWriteEnd
<1>9. CASE ReadChannel(t)
  BY <1>9 DEF ReadChannel
<1>10. CASE Reap(t)
  BY <1>10 DEF Reap
<1>11. CASE CloseReadEnd(t)
  BY <1>11 DEF CloseReadEnd
<1>12. CASE SpawnWindows(t)
  BY <1>12 DEF SpawnWindows
<1>13. CASE MarkFails(t)
  BY <1>13 DEF MarkFails
<1> QED
  BY <1>1, <1>2, <1>3, <1>4, <1>5, <1>6, <1>7, <1>8, <1>9, <1>10, <1>11, <1>12, <1>13 DEF ThreadStep

(* What each step of a call changes.                                       *)
LEMMA CopyEffect ==
  ASSUME Typed, NEW t \in Threads, CopyArguments(t)
  PROVE  LET c == thread[t]  d == thread'[t]
         IN /\ c.pc = "call"
            /\ d.ends = c.ends /\ d.masked = c.masked
            /\ \/ /\ d.pc \in {"lock", "pipe"} /\ (d.pc = "lock" <=> platform = "apple")
                  /\ d.answer = c.answer /\ (d.copies => Spawning(t))
               \/ d.pc = "done" /\ d.answer = "no memory" /\ Spawning(t)
            /\ UNCHANGED <<platform, fds, mutex, child, channel>>
<1>1. thread[t].pc = "call" /\ UNCHANGED <<platform, fds, mutex, child, channel>>
  BY Zenon DEF CopyArguments, At
<1>2. CASE \E copies : \E pc \in {"lock", "pipe"} :
             /\ pc = "lock" <=> platform = "apple"
             /\ thread' = [thread EXCEPT ![t].pc = pc, ![t].copies = copies]
             /\ copies = Spawning(t)
  <2>1. PICK copies : \E pc \in {"lock", "pipe"} :
          /\ pc = "lock" <=> platform = "apple"
          /\ thread' = [thread EXCEPT ![t].pc = pc, ![t].copies = copies]
          /\ copies = Spawning(t)
    BY <1>2
  <2>1b. PICK pc \in {"lock", "pipe"} :
          /\ pc = "lock" <=> platform = "apple"
          /\ thread' = [thread EXCEPT ![t].pc = pc, ![t].copies = copies]
          /\ copies = Spawning(t)
    BY <2>1
  <2>2. LET c == thread[t]  d == thread'[t]
        IN d.pc = pc /\ d.copies = copies /\ d.answer = c.answer /\ d.ends = c.ends /\ d.masked = c.masked
    BY <2>1b DEF Typed, ThreadState
  <2> QED
    BY <1>1, <2>1b, <2>2
<1>3. CASE /\ Spawning(t)
           /\ \E left \in BOOLEAN :
                thread' = [thread EXCEPT ![t].pc = "done", ![t].answer = "no memory",
                                         ![t].copies = left]
  <2>1. LET c == thread[t]  d == thread'[t]
        IN d.pc = "done" /\ d.answer = "no memory" /\ d.ends = c.ends /\ d.masked = c.masked
    <3>1. PICK left : thread' = [thread EXCEPT ![t].pc = "done", ![t].answer = "no memory",
                                               ![t].copies = left]
      BY <1>3, Zenon
    <3> QED
      BY <3>1 DEF Typed, ThreadState
  <2> QED
    BY <1>1, <1>3, <2>1, Zenon
<1>4. LET pc == IF platform = "apple" THEN "lock" ELSE "pipe"
      IN pc \in {"lock", "pipe"} /\ (pc = "lock" <=> platform = "apple")
  OBVIOUS
<1> QED
  BY <1>2, <1>3, <1>4, Zenon DEF CopyArguments

LEMMA MarkEffect ==
  ASSUME Typed, NEW t \in Threads, MarkCloexec(t)
  PROVE  LET c == thread[t]  d == thread'[t]
         IN /\ \/ c.pc = "mark read" /\ d.pc = "mark write"
                  /\ fds' = [fds EXCEPT ![c.ends[1]].cloexec = TRUE]
               \/ c.pc = "mark write" /\ d.pc = (IF Spawning(t) THEN "fork" ELSE "unlock")
                  /\ fds' = [fds EXCEPT ![c.ends[2]].cloexec = TRUE]
            /\ d.answer = c.answer /\ d.ends = c.ends /\ d.masked = c.masked /\ d.copies = c.copies
            /\ UNCHANGED <<platform, mutex, child, channel>>
<1>1. ASSUME NEW pc, Goto(t, pc)
      PROVE  LET c == thread[t]  d == thread'[t]
             IN /\ d.pc = pc /\ d.answer = c.answer /\ d.ends = c.ends
                /\ d.masked = c.masked /\ d.copies = c.copies
  BY <1>1 DEF Goto, Typed, ThreadState
<1>2. CASE At(t, "mark read") /\ Goto(t, "mark write")
           /\ fds' = [fds EXCEPT ![thread[t].ends[1]].cloexec = TRUE]
           /\ UNCHANGED <<platform, mutex, child, channel>>
  BY <1>1, <1>2 DEF At
<1>3. CASE At(t, "mark write") /\ Goto(t, IF Spawning(t) THEN "fork" ELSE "unlock")
           /\ fds' = [fds EXCEPT ![thread[t].ends[2]].cloexec = TRUE]
           /\ UNCHANGED <<platform, mutex, child, channel>>
  BY <1>1, <1>3 DEF At
<1> QED
  BY <1>2, <1>3, Zenon DEF MarkCloexec

LEMMA MarkFailsEffect ==
  ASSUME Typed, NEW t \in Threads, MarkFails(t)
  PROVE  LET c == thread[t]  d == thread'[t]
         IN /\ c.pc \in {"mark read", "mark write"} /\ d.pc = "done" /\ platform # "windows"
            /\ d.answer = "error" /\ ~d.copies /\ d.ends = c.ends /\ d.masked = c.masked
            /\ fds' = Close(Close(fds, c.ends[1]), c.ends[2])
            /\ mutex' = IF mutex = t THEN 0 ELSE mutex
            /\ UNCHANGED <<platform, child, channel>>
BY DEF Typed, ThreadState, MarkFails, Unlocked, At

LEMMA WindowsEffect ==
  ASSUME Typed, NEW t \in Threads, SpawnWindows(t)
  PROVE  LET c == thread[t]  d == thread'[t]
         IN /\ platform = "windows"
            /\ \/ /\ c.pc = "call" /\ d.pc = "created" /\ d.answer = c.answer
                  /\ Spawning(t) /\ c.req.cwd # "fd"
                  /\ \E table :
                       child' = [child EXCEPT ![t] =
                         [NoChild EXCEPT !.pc = "program",
                            !.cwd = IF c.req.cwd = "path" THEN "asked" ELSE "parent",
                            !.fds = table]]
               \/ c.pc = "created" /\ d.pc = "done" /\ d.answer = "pid" /\ child' = child
               \/ c.pc = "call" /\ d.pc = "done" /\ d.answer = "error" /\ child' = child
            /\ d.ends = c.ends /\ d.masked = c.masked /\ d.copies = c.copies
            /\ UNCHANGED <<platform, fds, mutex, channel>>
<1>1. \/ Goto(t, "created")
      \/ \E a : thread' = [thread EXCEPT ![t].pc = "done", ![t].answer = a]
  BY Zenon DEF SpawnWindows
<1>2. LET c == thread[t]  d == thread'[t]
      IN d.ends = c.ends /\ d.masked = c.masked /\ d.copies = c.copies
  BY <1>1 DEF Goto, Typed, ThreadState
<1>3. platform = "windows" /\ UNCHANGED <<platform, fds, mutex, channel>>
  BY DEF SpawnWindows, Windows
<1>4. CASE Windows(t, "call") /\ Goto(t, "created") /\ Spawning(t) /\ thread[t].req.cwd # "fd"
           /\ \E table : child' = [child EXCEPT ![t] =
                [NoChild EXCEPT !.pc = "program",
                   !.cwd = IF thread[t].req.cwd = "path" THEN "asked" ELSE "parent",
                   !.fds = table]]
  <2>1. thread'[t].pc = "created" /\ thread'[t].answer = thread[t].answer
    BY <1>4 DEF Goto, Typed, ThreadState
  <2> QED
    BY <1>2, <1>3, <1>4, <2>1, Zenon DEF Windows
<1>5. CASE Windows(t, "created") /\ child' = child
           /\ thread' = [thread EXCEPT ![t].pc = "done", ![t].answer = "pid"]
  <2>1. thread'[t].pc = "done" /\ thread'[t].answer = "pid"
    BY <1>5 DEF Typed, ThreadState
  <2> QED
    BY <1>2, <1>3, <1>5, <2>1, Zenon DEF Windows
<1>6. CASE Windows(t, "call") /\ child' = child
           /\ thread' = [thread EXCEPT ![t].pc = "done", ![t].answer = "error"]
  <2>1. thread'[t].pc = "done" /\ thread'[t].answer = "error"
    BY <1>6 DEF Typed, ThreadState
  <2> QED
    BY <1>2, <1>3, <1>6, <2>1, Zenon DEF Windows
<1> QED
  BY <1>4, <1>5, <1>6, Zenon DEF SpawnWindows

LEMMA LockEffect ==
  ASSUME Typed, NEW t \in Threads, Lock(t)
  PROVE  LET c == thread[t]  d == thread'[t]
         IN /\ c.pc = "lock" /\ d.pc = "pipe" /\ mutex' = t /\ platform # "windows"
            /\ d.answer = c.answer /\ d.ends = c.ends /\ d.masked = c.masked /\ d.copies = c.copies
            /\ UNCHANGED <<platform, fds, child, channel>>
BY DEF Typed, ThreadState, Lock, Goto, At

LEMMA MakePipeEffect ==
  ASSUME Typed, NEW t \in Threads, MakePipe(t)
  PROVE  LET c == thread[t]  d == thread'[t]
         IN /\ c.pc = "pipe" /\ platform # "windows"
            /\ d.pc = IF platform = "apple" THEN "mark read" ELSE IF Spawning(t) THEN "fork" ELSE "done"
            /\ d.answer = IF Spawning(t) THEN c.answer ELSE "pipe"
            /\ d.ends = PipeAt(fds)
            /\ fds' = WithPipe(fds, PipeAt(fds), t, platform = "linux")
            /\ PipeAt(fds) \in Free(fds) \X Free(fds) /\ PipeAt(fds)[1] # PipeAt(fds)[2]
            /\ d.masked = c.masked /\ d.copies = c.copies
            /\ UNCHANGED <<platform, mutex, child, channel>>
<1>1. PipeAt(fds) \in Free(fds) \X Free(fds) /\ PipeAt(fds)[1] # PipeAt(fds)[2]
  BY PipeTakesFree DEF MakePipe, Typed
<1>2. thread[t].pc = "pipe" /\ platform # "windows" /\ UNCHANGED <<platform, mutex, child, channel>>
  BY DEF MakePipe, At
<1>3. fds' = WithPipe(fds, PipeAt(fds), t, platform = "linux")
  BY Zenon DEF MakePipe
<1> DEFINE next == IF platform = "apple" THEN "mark read"
                   ELSE IF Spawning(t) THEN "fork" ELSE "done"
           ans == IF Spawning(t) THEN thread[t].answer ELSE "pipe"
<1>4. thread' = [thread EXCEPT ![t].ends = PipeAt(fds), ![t].pc = next, ![t].answer = ans]
  BY DEF MakePipe, Typed, ThreadState
<1> HIDE DEF next, ans
<1>5. LET c == thread[t]  d == thread'[t]
      IN d.pc = next /\ d.answer = ans /\ d.ends = PipeAt(fds) /\ d.masked = c.masked /\ d.copies = c.copies
  BY <1>4 DEF Typed, ThreadState
<1> QED
  BY <1>1, <1>2, <1>3, <1>5 DEF next, ans

LEMMA NoPipeEffect ==
  ASSUME Typed, NEW t \in Threads, NoPipe(t)
  PROVE  LET c == thread[t]  d == thread'[t]
         IN /\ c.pc = "pipe" /\ d.pc = "done" /\ d.answer = "error" /\ ~d.copies /\ mutex' \in {0, mutex}
            /\ d.ends = c.ends /\ d.masked = c.masked
            /\ UNCHANGED <<platform, fds, child, channel>>
BY DEF Typed, ThreadState, NoPipe, Unlocked, At

LEMMA ForkEffect ==
  ASSUME Typed, NEW t \in Threads, Fork(t)
  PROVE  LET c == thread[t]  d == thread'[t]
         IN /\ c.pc = "fork" /\ d.masked /\ platform # "windows"
            /\ d.pc = IF platform = "apple" THEN "unlock" ELSE "close"
            /\ \/ /\ d.answer = c.answer
                  /\ child' = [child EXCEPT ![t] =
                       [NoChild EXCEPT !.pc = "forked", !.fds = fds, !.masked = TRUE]]
               \/ d.answer = "error" /\ child' = child
            /\ d.ends = c.ends /\ d.copies = c.copies
            /\ UNCHANGED <<platform, fds, mutex, channel>>
BY DEF Typed, ThreadState, Fork, Forked, At

LEMMA UnlockEffect ==
  ASSUME Typed, NEW t \in Threads, Unlock(t)
  PROVE  LET c == thread[t]  d == thread'[t]
         IN /\ c.pc = "unlock" /\ d.pc = (IF Spawning(t) THEN "close" ELSE "done") /\ mutex' = 0
            /\ d.answer = c.answer /\ d.ends = c.ends /\ d.masked = c.masked /\ d.copies = c.copies
            /\ UNCHANGED <<platform, fds, child, channel>>
BY DEF Typed, ThreadState, Unlock, Goto, At

LEMMA CloseWriteEffect ==
  ASSUME Typed, NEW t \in Threads, CloseWriteEnd(t)
  PROVE  LET c == thread[t]  d == thread'[t]
         IN /\ c.pc = "close" /\ d.pc = (IF c.answer = "error" THEN "clean" ELSE "read") /\ ~d.copies
            /\ fds' = Close(fds, c.ends[2])
            /\ d.answer = c.answer /\ d.ends = c.ends /\ d.masked = c.masked
            /\ UNCHANGED <<platform, mutex, child, channel>>
BY DEF Typed, ThreadState, CloseWriteEnd, At

LEMMA ReadEffect ==
  ASSUME Typed, NEW t \in Threads, ReadChannel(t)
  PROVE  LET c == thread[t]  d == thread'[t]
         IN /\ c.pc = "read"
            /\ \/ d.pc = "reap" /\ d.answer = "error"
               \/ d.pc = "clean" /\ d.answer = "pid"
            /\ d.ends = c.ends /\ d.masked = c.masked /\ d.copies = c.copies
            /\ UNCHANGED <<platform, fds, mutex, child>>
BY DEF Typed, ThreadState, ReadChannel, At

LEMMA ReapEffect ==
  ASSUME Typed, NEW t \in Threads, Reap(t)
  PROVE  LET c == thread[t]  d == thread'[t]
         IN /\ c.pc = "reap" /\ d.pc = "clean"
            /\ child' = [child EXCEPT ![t].pc = "reaped"]
            /\ d.answer = c.answer /\ d.ends = c.ends /\ d.masked = c.masked /\ d.copies = c.copies
            /\ UNCHANGED <<platform, fds, mutex, channel>>
BY DEF Typed, ThreadState, Reap, Goto, At

LEMMA CloseReadEffect ==
  ASSUME Typed, NEW t \in Threads, CloseReadEnd(t)
  PROVE  LET c == thread[t]  d == thread'[t]
         IN /\ c.pc = "clean" /\ d.pc = "done" /\ ~d.masked /\ fds' = Close(fds, c.ends[1])
            /\ d.answer = c.answer /\ d.ends = c.ends /\ d.copies = c.copies
            /\ UNCHANGED <<platform, mutex, child, channel>>
BY DEF Typed, ThreadState, CloseReadEnd, At

(* A new sub-process, from any table.                                      *)
LEMMA NewChild ==
  ASSUME NEW table \in [Fd -> Descriptor], NEW c \in {"parent", "asked"}
  PROVE  /\ [NoChild EXCEPT !.pc = "forked", !.fds = table, !.masked = TRUE] \in ChildState
         /\ [NoChild EXCEPT !.pc = "program", !.cwd = c, !.fds = table] \in ChildState
BY DEF NoChild, ChildState, ChildPc, InStub

LEMMA SetChildPc ==
  ASSUME NEW ch \in [Threads -> ChildState], NEW t \in Threads
  PROVE  [ch EXCEPT ![t].pc = "reaped"] \in [Threads -> ChildState]
BY DEF ChildState, ChildPc

LEMMA ThreadStepTyped ==
  ASSUME Typed, EndsOpen, NEW t \in Threads, ThreadStep(t)
  PROVE  Typed'
<1>0. thread' \in [Threads -> ThreadState]
  BY ThreadStepThread
<1>1. CASE CopyArguments(t)
  BY <1>0, <1>1 DEF CopyArguments, Typed
<1>2. CASE Lock(t)
  BY <1>0, <1>2 DEF Lock, Typed
<1>3. CASE MakePipe(t)
  <2>1. PipeAt(fds) \in Fd \X Fd
    BY <1>3, PipeTakesFree DEF MakePipe, Free, Typed
  <2>2. fds' \in [Fd -> Descriptor]
    BY <1>3, <2>1, TableTypes DEF MakePipe, Typed
  <2> QED
    BY <1>0, <1>3, <2>2 DEF MakePipe, Typed
<1>4. CASE NoPipe(t)
  BY <1>0, <1>4 DEF NoPipe, Unlocked, Typed
<1>5. CASE MarkCloexec(t)
  <2>1. \A f \in Fd : fds[f].obj # None => [fds EXCEPT ![f].cloexec = TRUE] \in [Fd -> Descriptor]
    BY DEF Typed, Descriptor
  <2>2. PICK f \in Fd : fds[f].obj # None /\ fds' = [fds EXCEPT ![f].cloexec = TRUE]
    BY <1>5, PipeObjects DEF MarkCloexec, At, EndsOpen, HoldsRead, HoldsWrite, ReadHeld, WriteHeld
  <2>3. fds' \in [Fd -> Descriptor]
    BY <2>1, <2>2
  <2> QED
    BY <1>0, <1>5, <2>3 DEF MarkCloexec, Typed
<1>6. CASE Fork(t)
  BY <1>0, <1>6, NewChild DEF Fork, Typed
<1>7. CASE Unlock(t)
  BY <1>0, <1>7 DEF Unlock, Typed
<1>8. CASE CloseWriteEnd(t)
  BY <1>0, <1>8, TableTypes DEF CloseWriteEnd, Typed
<1>9. CASE ReadChannel(t)
  BY <1>0, <1>9 DEF ReadChannel, Typed
<1>10. CASE Reap(t)
  <2>1. child' \in [Threads -> ChildState]
    BY <1>10, SetChildPc DEF Reap, Typed
  <2> QED
    BY <1>0, <1>10, <2>1 DEF Reap, Typed
<1>11. CASE CloseReadEnd(t)
  BY <1>0, <1>11, TableTypes DEF CloseReadEnd, Typed
<1>12. CASE SpawnWindows(t)
  <2> DEFINE table == [f \in Fd |-> IF f < 3 THEN fds[Std(t)[f + 1]] ELSE AfterExec(fds)[f]]
             dir == IF thread[t].req.cwd = "path" THEN "asked" ELSE "parent"
  <2>1. Std(t) \in [1 .. 3 -> Fd]
    BY DEF Std, Typed, ThreadState, Request, Given
  <2>2. table \in [Fd -> Descriptor] /\ dir \in {"parent", "asked"}
    <3>1. AfterExec(fds) \in [Fd -> Descriptor] /\ fds \in [Fd -> Descriptor]
      BY TableTypes DEF Typed
    <3>2. \A f \in Fd : f < 3 => f + 1 \in 1 .. 3
      BY DEF Fd
    <3>3. \A f \in Fd : f < 3 => fds[Std(t)[f + 1]] \in Descriptor
      BY <2>1, <3>1, <3>2
    <3> QED
      BY <3>1, <3>3
  <2>3. \/ child' = child
        \/ child' = [child EXCEPT ![t] = [NoChild EXCEPT !.pc = "program", !.cwd = dir, !.fds = table]]
    BY <1>12 DEF SpawnWindows
  <2> HIDE DEF table, dir
  <2>4. [NoChild EXCEPT !.pc = "program", !.cwd = dir, !.fds = table] \in ChildState
    BY <2>2, NewChild
  <2>5. child' \in [Threads -> ChildState]
    BY <2>3, <2>4 DEF Typed
  <2> QED
    BY <1>0, <1>12, <2>5 DEF SpawnWindows, Typed
<1>13. CASE MarkFails(t)
  <2>1. /\ fds' = Close(Close(fds, thread[t].ends[1]), thread[t].ends[2])
        /\ mutex' \in {0, mutex} /\ UNCHANGED <<platform, child, channel>>
    BY <1>13, MarkFailsEffect
  <2>2. fds' \in [Fd -> Descriptor]
    <3>1. Close(fds, thread[t].ends[1]) \in [Fd -> Descriptor]
      BY TableTypes DEF Typed
    <3> QED
      BY <2>1, <3>1, TableTypes
  <2> QED
    BY <1>0, <2>1, <2>2 DEF Typed
<1> QED
  BY <1>1, <1>2, <1>3, <1>4, <1>5, <1>6, <1>7, <1>8, <1>9, <1>10, <1>11, <1>12, <1>13 DEF ThreadStep

-----------------------------------------------------------------------------
(* The ends of the pipes.                                                  *)

LEMMA OtherEndsKept ==
  ASSUME Typed, EndsOpen, NEW t \in Threads, ThreadStep(t), NEW u \in Threads \ {t},
         NEW f \in Fd, fds[f].obj = <<"read", u>> \/ fds[f].obj = <<"write", u>>
  PROVE  fds'[f] = fds[f]
<1> USE DEF Typed, HoldsRead, HoldsWrite, ReadHeld, WriteHeld
<1>0. fds[f].obj # None /\ fds[f].obj # <<"read", t>> /\ fds[f].obj # <<"write", t>>
  BY PipeObjects
<1>1. CASE UNCHANGED fds
  BY <1>1
<1>2. CASE MakePipe(t)
  <2>1. PipeAt(fds) \in Free(fds) \X Free(fds)
    BY <1>2, PipeTakesFree DEF MakePipe
  <2>2. f \notin Free(fds)
    BY <1>0 DEF Free, Closed
  <2>3. f # PipeAt(fds)[1] /\ f # PipeAt(fds)[2]
    BY <2>1, <2>2
  <2> QED
    BY <1>2, <2>3 DEF MakePipe, WithPipe
<1>3. CASE MarkCloexec(t)
  BY <1>0, <1>3 DEF MarkCloexec, At, EndsOpen
<1>4. CASE CloseWriteEnd(t)
  BY <1>0, <1>4 DEF CloseWriteEnd, At, EndsOpen, Close
<1>5. CASE CloseReadEnd(t)
  BY <1>0, <1>5 DEF CloseReadEnd, At, EndsOpen, Close
<1>6. CASE MarkFails(t)
  <2>1. thread[t].pc \in {"mark read", "mark write"}
    BY <1>6 DEF MarkFails, At
  <2>2. f # thread[t].ends[1] /\ f # thread[t].ends[2]
    BY <1>0, <2>1 DEF EndsOpen
  <2> QED
    BY <1>6, <2>2 DEF MarkFails, Close
<1> QED
  BY <1>1, <1>2, <1>3, <1>4, <1>5, <1>6
     DEF ThreadStep, CopyArguments, Lock, NoPipe, Fork, Unlock, ReadChannel, Reap, SpawnWindows

LEMMA ThreadStepEnds ==
  ASSUME IInv, NEW t \in Threads, ThreadStep(t)
  PROVE  EndsOpen' /\ EndsMarked'
<1> DEFINE Kept(u) ==
      /\ HoldsRead(u) => thread[u].ends[1] \in Fd /\ fds[thread[u].ends[1]].obj = <<"read", u>>
      /\ HoldsWrite(u) => thread[u].ends[2] \in Fd /\ fds[thread[u].ends[2]].obj = <<"write", u>>
      /\ HoldsRead(u) /\ (platform = "apple" => thread[u].pc # "mark read") =>
           fds[thread[u].ends[1]].cloexec
      /\ HoldsWrite(u) /\ (platform = "apple" => thread[u].pc \notin {"mark read", "mark write"}) =>
           fds[thread[u].ends[2]].cloexec
<1>0. \A u \in Threads : Kept(u)
  BY DEF IInv, EndsOpen, EndsMarked
<1>1. ASSUME NEW u \in Threads \ {t} PROVE Kept(u)'
  <2>1. thread'[u] = thread[u] /\ platform' = platform
    BY ThreadFrame DEF IInv
  <2>2. HoldsRead(u) => fds'[thread[u].ends[1]] = fds[thread[u].ends[1]]
    BY <1>0, OtherEndsKept DEF IInv
  <2>3. HoldsWrite(u) => fds'[thread[u].ends[2]] = fds[thread[u].ends[2]]
    BY <1>0, OtherEndsKept DEF IInv
  <2> QED
    BY <1>0, <2>1, <2>2, <2>3 DEF HoldsRead, HoldsWrite
<1>2. Kept(t)'
  <2> USE DEF HoldsRead, HoldsWrite, ReadHeld, WriteHeld
  <2>0. Typed /\ thread[t] \in ThreadState /\ fds \in [Fd -> Descriptor]
    BY DEF IInv, Typed
  <2>1. CASE CopyArguments(t)
    BY <1>0, <2>0, <2>1, CopyEffect
  <2>2. CASE Lock(t)
    BY <1>0, <2>0, <2>2, LockEffect
  <2>3. CASE MakePipe(t)
    <3> DEFINE p == PipeAt(fds)
    <3>1. p[1] \in Fd /\ p[2] \in Fd /\ p[1] # p[2]
      BY <2>0, <2>3, MakePipeEffect DEF Free
    <3>2. /\ fds'[p[1]] = [obj |-> <<"read", t>>, cloexec |-> platform = "linux"]
          /\ fds'[p[2]] = [obj |-> <<"write", t>>, cloexec |-> platform = "linux"]
      <4>1. fds' = WithPipe(fds, p, t, platform = "linux")
        BY <2>0, <2>3, MakePipeEffect
      <4> HIDE DEF p
      <4> QED
        BY <2>0, <3>1, <4>1 DEF WithPipe
    <3>3. platform' = platform /\ (platform # "apple" => platform = "linux")
      BY <2>0, <2>3, MakePipeEffect, PlatformAssumption DEF Typed
    <3>4. /\ thread'[t].ends = p
          /\ platform = "apple" => thread'[t].pc = "mark read"
      BY <2>0, <2>3, MakePipeEffect
    <3>5. fds'[p[1]].obj = <<"read", t>> /\ fds'[p[2]].obj = <<"write", t>>
      BY <3>2
    <3>6. platform # "apple" => fds'[p[1]].cloexec /\ fds'[p[2]].cloexec
      <4>1. CASE platform = "linux"
        <5>1. (platform = "linux") = TRUE
          BY <4>1
        <5>2. fds' = WithPipe(fds, p, t, platform = "linux")
          BY <2>0, <2>3, MakePipeEffect
        <5>3. fds' = WithPipe(fds, p, t, TRUE)
          BY <5>1, <5>2, Zenon
        <5> HIDE DEF p
        <5> QED
          BY <2>0, <3>1, <5>3 DEF WithPipe
      <4> QED
        BY <3>3, <4>1
    <3> HIDE DEF p
    <3> QED
      BY <3>1, <3>3, <3>4, <3>5, <3>6
  <2>4. CASE NoPipe(t)
    BY <1>0, <2>0, <2>4, NoPipeEffect
  <2>5. CASE MarkCloexec(t)
    <3> DEFINE r == thread[t].ends[1]
               w == thread[t].ends[2]
    <3>0. HoldsRead(t) /\ HoldsWrite(t)
      BY <2>0, <2>5, MarkEffect
    <3>1. r \in Fd /\ w \in Fd /\ fds[r].obj = <<"read", t>> /\ fds[w].obj = <<"write", t>> /\ r # w
      <4>1. r \in Fd /\ w \in Fd /\ fds[r].obj = <<"read", t>> /\ fds[w].obj = <<"write", t>>
        BY <1>0, <3>0, Zenon
      <4>2. <<"read", t>> # <<"write", t>>
        OBVIOUS
      <4> QED
        BY <4>1, <4>2
    <3>2. CASE thread[t].pc = "mark read" /\ fds' = [fds EXCEPT ![r].cloexec = TRUE]
      <4>1. fds'[r].obj = fds[r].obj /\ fds'[w] = fds[w] /\ fds'[r].cloexec
        BY <2>0, <3>1, <3>2 DEF Descriptor
      <4>2. thread'[t].pc = "mark write" /\ thread'[t].ends = thread[t].ends /\ platform' = platform
        BY <2>0, <2>5, <3>2, MarkEffect
      <4> QED
        BY <1>0, <3>1, <3>2, <4>1, <4>2
    <3>3. CASE thread[t].pc = "mark write" /\ fds' = [fds EXCEPT ![w].cloexec = TRUE]
      <4>1. fds'[w].obj = fds[w].obj /\ fds'[r] = fds[r] /\ fds'[w].cloexec
        BY <2>0, <3>1, <3>3 DEF Descriptor
      <4>2. /\ thread'[t].pc \notin {"mark read", "mark write"}
            /\ thread'[t].ends = thread[t].ends /\ platform' = platform
        BY <2>0, <2>5, <3>3, MarkEffect
      <4> QED
        BY <1>0, <3>1, <3>3, <4>1, <4>2
    <3> QED
      BY <2>0, <2>5, <3>2, <3>3, MarkEffect
  <2>6. CASE Fork(t)
    BY <1>0, <2>0, <2>6, ForkEffect
  <2>7. CASE Unlock(t)
    BY <1>0, <2>0, <2>7, UnlockEffect
  <2>8. CASE CloseWriteEnd(t)
    <3>1. thread[t].answer # "pipe"
      BY <2>0, <2>8, CloseWriteEffect DEF IInv, Staged, StagedCall
    <3>2. HoldsRead(t) /\ HoldsWrite(t) /\ thread[t].pc = "close"
      BY <2>0, <2>8, CloseWriteEffect
    <3>3. /\ thread[t].ends[1] \in Fd /\ thread[t].ends[2] \in Fd
          /\ fds[thread[t].ends[1]].obj = <<"read", t>> /\ fds[thread[t].ends[2]].obj = <<"write", t>>
      BY <1>0, <3>2, Zenon
    <3>4. fds'[thread[t].ends[1]] = fds[thread[t].ends[1]]
      BY <2>0, <2>8, <3>3, CloseWriteEffect DEF Close
    <3>5. /\ thread'[t].pc \in {"clean", "read"} /\ thread'[t].answer = thread[t].answer
          /\ thread'[t].ends = thread[t].ends
      BY <2>0, <2>8, CloseWriteEffect
    <3> QED
      BY <1>0, <3>1, <3>2, <3>3, <3>4, <3>5
  <2>9. CASE ReadChannel(t)
    BY <1>0, <2>0, <2>9, ReadEffect
  <2>10. CASE Reap(t)
    BY <1>0, <2>0, <2>10, ReapEffect
  <2>11. CASE CloseReadEnd(t)
    <3>1. thread[t].answer # "pipe"
      BY <2>0, <2>11, CloseReadEffect DEF IInv, Staged, StagedCall
    <3> QED
      BY <2>0, <2>11, <3>1, CloseReadEffect
  <2>12. CASE SpawnWindows(t)
    BY <1>0, <2>0, <2>12, WindowsEffect
  <2>13. CASE MarkFails(t)
    BY <2>0, <2>13, MarkFailsEffect
  <2> QED
    BY <2>1, <2>2, <2>3, <2>4, <2>5, <2>6, <2>7, <2>8, <2>9, <2>10, <2>11, <2>12, <2>13 DEF ThreadStep
<1> QED
  BY <1>1, <1>2 DEF EndsOpen, EndsMarked

(* A call that closes nothing keeps the ends it holds.                     *)
LEMMA HoldsOn ==
  ASSUME IInv, NEW t \in Threads, ThreadStep(t),
         ~ CloseWriteEnd(t), ~ CloseReadEnd(t), ~ MarkFails(t)
  PROVE  /\ HoldsRead(t) => HoldsRead(t)' /\ thread'[t].ends = thread[t].ends
         /\ HoldsWrite(t) => HoldsWrite(t)' /\ thread'[t].ends = thread[t].ends
<1> USE DEF HoldsRead, HoldsWrite, ReadHeld, WriteHeld
<1>0. Typed /\ StagedCall(t)
  BY DEF IInv, Staged
<1>1. CASE CopyArguments(t)
  BY <1>0, <1>1, CopyEffect DEF StagedCall
<1>2. CASE Lock(t)
  BY <1>0, <1>2, LockEffect
<1>3. CASE MakePipe(t)
  BY <1>0, <1>3, MakePipeEffect DEF StagedCall
<1>4. CASE NoPipe(t)
  BY <1>0, <1>4, NoPipeEffect DEF StagedCall
<1>5. CASE MarkCloexec(t)
  BY <1>0, <1>5, MarkEffect
<1>6. CASE Fork(t)
  BY <1>0, <1>6, ForkEffect
<1>7. CASE Unlock(t)
  BY <1>0, <1>7, UnlockEffect DEF StagedCall
<1>8. CASE ReadChannel(t)
  BY <1>0, <1>8, ReadEffect DEF StagedCall
<1>9. CASE Reap(t)
  BY <1>0, <1>9, ReapEffect DEF StagedCall
<1>10. CASE SpawnWindows(t)
  BY <1>0, <1>10, WindowsEffect DEF StagedCall
<1> QED
  BY <1>1, <1>2, <1>3, <1>4, <1>5, <1>6, <1>7, <1>8, <1>9, <1>10 DEF ThreadStep

LEMMA ThreadStepRest ==
  ASSUME IInv, NEW t \in Threads, ThreadStep(t)
  PROVE  RestKept'
<1> DEFINE Holds2(u, g) == \/ HoldsRead(u) /\ g = thread[u].ends[1]
                           \/ HoldsWrite(u) /\ g = thread[u].ends[2]
           Rest(g) == \/ fds[g] = Open[g]
                      \/ Open[g] = Closed /\ \E u \in Threads : Holds2(u, g)
<1> SUFFICES ASSUME NEW f \in Fd PROVE Rest(f)'
  BY DEF RestKept
<1>0. Typed /\ Rest(f) /\ fds \in [Fd -> Descriptor]
  BY DEF IInv, Typed, RestKept
<1>1. \A u \in Threads \ {t} : Holds2(u, f) => Holds2(u, f)'
  BY <1>0, ThreadFrame DEF HoldsRead, HoldsWrite
<1>2. \A u \in Threads : Holds2(u, f) => fds[f].obj = <<"read", u>> \/ fds[f].obj = <<"write", u>>
  BY DEF IInv, EndsOpen
<1>3. (\E u \in Threads : Holds2(u, f)) => Open[f] = Closed
  BY <1>0, <1>2, PipeObjects
<1>4. CASE ~ CloseWriteEnd(t) /\ ~ CloseReadEnd(t) /\ ~ MarkFails(t)
  <2>1. Holds2(t, f) => Holds2(t, f)'
    BY <1>4, HoldsOn
  <2>2. (\E u \in Threads : Holds2(u, f)) => (\E u \in Threads : Holds2(u, f)')
    BY <1>1, <2>1
  <2>3. fds'[f] = fds[f] => Rest(f)'
    BY <1>0, <2>2
  <2>4. CASE MakePipe(t)
    <3> DEFINE p == PipeAt(fds)
    <3>1. /\ fds' = WithPipe(fds, p, t, platform = "linux")
          /\ p[1] \in Free(fds) /\ p[2] \in Free(fds)
          /\ thread'[t].ends = p
          /\ thread'[t].pc \in {"mark read", "fork"} \/ thread'[t].answer = "pipe"
      BY <1>0, <2>4, MakePipeEffect
    <3> HIDE DEF p
    <3>2. CASE f \notin {p[1], p[2]}
      BY <1>0, <2>3, <3>1, <3>2 DEF WithPipe
    <3>3. CASE f \in {p[1], p[2]}
      <4>1. fds[f] = Closed
        BY <3>1, <3>3 DEF Free
      <4>2. Open[f] = Closed
        BY <1>0, <4>1
      <4>3. Holds2(t, f)'
        BY <3>1, <3>3 DEF HoldsRead, HoldsWrite, ReadHeld, WriteHeld
      <4> QED
        BY <4>2, <4>3
    <3> QED
      BY <3>2, <3>3
  <2>5. CASE MarkCloexec(t)
    <3>1. PICK i \in {1, 2} : fds' = [fds EXCEPT ![thread[t].ends[i]].cloexec = TRUE]
      BY <1>0, <2>5, MarkEffect
    <3>2. CASE f # thread[t].ends[i]
      BY <1>0, <2>3, <3>1, <3>2
    <3>3. CASE f = thread[t].ends[i]
      <4>1. Holds2(t, f)
        BY <1>0, <2>5, <3>3, MarkEffect DEF HoldsRead, HoldsWrite, ReadHeld, WriteHeld
      <4> QED
        BY <1>3, <2>2, <4>1
    <3> QED
      BY <3>2, <3>3
  <2>6. CASE fds' = fds
    BY <2>3, <2>6
  <2> QED
    BY <1>4, <2>4, <2>5, <2>6
       DEF ThreadStep, CopyArguments, Lock, NoPipe, Fork, Unlock, ReadChannel, Reap, SpawnWindows
<1>5. CASE CloseWriteEnd(t) \/ CloseReadEnd(t)
  <2>1. PICK i \in {1, 2} :
          /\ fds' = Close(fds, thread[t].ends[i])
          /\ f # thread[t].ends[i] /\ Holds2(t, f) => Holds2(t, f)'
          /\ Holds2(t, thread[t].ends[i]) /\ thread[t].ends[i] \in Fd
    <3>1. CASE CloseWriteEnd(t)
      <4>1. /\ fds' = Close(fds, thread[t].ends[2])
            /\ f # thread[t].ends[2] /\ Holds2(t, f) => Holds2(t, f)'
            /\ Holds2(t, thread[t].ends[2])
        BY <1>0, <3>1, CloseWriteEffect DEF HoldsRead, HoldsWrite, ReadHeld, WriteHeld
      <4>2. thread[t].ends[2] \in Fd
        BY <1>0, <3>1, CloseWriteEffect DEF IInv, EndsOpen, HoldsWrite, WriteHeld
      <4> QED
        BY <4>1, <4>2
    <3>2. CASE CloseReadEnd(t)
      <4>1. fds' = Close(fds, thread[t].ends[1]) /\ Holds2(t, thread[t].ends[1])
        BY <1>0, <3>2, CloseReadEffect DEF HoldsRead, ReadHeld
      <4>2. ~ HoldsWrite(t)
        BY <1>0, <3>2, CloseReadEffect DEF IInv, Staged, StagedCall, HoldsWrite, WriteHeld
      <4>3. thread[t].ends[1] \in Fd
        BY <1>0, <3>2, CloseReadEffect DEF IInv, EndsOpen, HoldsRead, ReadHeld
      <4> QED
        BY <4>1, <4>2, <4>3
    <3> QED
      BY <1>5, <3>1, <3>2
  <2>2. CASE f = thread[t].ends[i]
    <3>1. Open[f] = Closed
      BY <1>3, <2>1, <2>2
    <3>2. fds'[f] = Closed
      BY <1>0, <2>1, <2>2 DEF Close
    <3> QED
      BY <3>1, <3>2
  <2>3. CASE f # thread[t].ends[i]
    <3>1. fds'[f] = fds[f]
      BY <1>0, <2>1, <2>3 DEF Close
    <3>2. (\E u \in Threads : Holds2(u, f)) => (\E u \in Threads : Holds2(u, f)')
      BY <1>1, <2>1, <2>3
    <3> QED
      BY <1>0, <3>1, <3>2
  <2> QED
    BY <2>2, <2>3
<1>6. CASE MarkFails(t)
  <2>1. /\ fds' = Close(Close(fds, thread[t].ends[1]), thread[t].ends[2])
        /\ HoldsRead(t) /\ HoldsWrite(t)
    BY <1>0, <1>6, MarkFailsEffect DEF HoldsRead, HoldsWrite, ReadHeld, WriteHeld
  <2>2. CASE f \in {thread[t].ends[1], thread[t].ends[2]}
    <3>1. Open[f] = Closed
      BY <1>3, <2>1, <2>2
    <3>2. fds'[f] = Closed
      BY <1>0, <2>1, <2>2 DEF Close
    <3> QED
      BY <3>1, <3>2
  <2>3. CASE f \notin {thread[t].ends[1], thread[t].ends[2]}
    <3>1. fds'[f] = fds[f]
      BY <1>0, <2>1, <2>3 DEF Close
    <3>2. (\E u \in Threads : Holds2(u, f)) => (\E u \in Threads : Holds2(u, f)')
      BY <1>1, <2>3
    <3> QED
      BY <1>0, <3>1, <3>2
  <2> QED
    BY <2>2, <2>3
<1> QED
  BY <1>4, <1>5, <1>6

-----------------------------------------------------------------------------
(* Mutex, calls and their sub-processes.                                   *)

LEMMA ThreadStepMutex ==
  ASSUME IInv, NEW t \in Threads, ThreadStep(t)
  PROVE  MutexHeld'
<1>0. Typed /\ MutexHeld /\ 0 \notin Threads /\ mutex \in Threads \cup {0}
  BY ThreadAssumption DEF IInv, Typed
<1>1. platform' = platform /\ \A u \in Threads \ {t} : thread'[u] = thread[u]
  BY <1>0, ThreadFrame
<1> DEFINE Stays == /\ mutex' = mutex
                    /\ mutex = t => thread'[t].pc \in InSection
                    /\ thread'[t].pc = "lock" => platform = "apple"
                    /\ platform = "apple" /\ thread'[t].pc \in InSection => mutex = t
<1>2. Stays => MutexHeld'
  BY <1>0, <1>1 DEF MutexHeld, InSection
<1>3. CASE CopyArguments(t)
  <2>1. /\ mutex' = mutex /\ thread[t].pc = "call"
        /\ \/ thread'[t].pc = "lock" /\ platform = "apple"
           \/ thread'[t].pc = "pipe" /\ platform # "apple"
           \/ thread'[t].pc = "done"
    BY <1>0, <1>3, CopyEffect
  <2> QED
    BY <1>0, <1>2, <2>1 DEF MutexHeld, InSection
<1>4. CASE Lock(t)
  <2>1. mutex = 0 /\ mutex' = t /\ thread[t].pc = "lock" /\ thread'[t].pc = "pipe"
    BY <1>0, <1>4, LockEffect DEF Lock
  <2>2. platform = "apple" /\ \A u \in Threads : thread[u].pc \notin InSection
    BY <1>0, <2>1 DEF MutexHeld
  <2> QED
    BY <1>0, <1>1, <2>1, <2>2 DEF MutexHeld, InSection
<1>5. CASE MakePipe(t)
  BY <1>0, <1>2, <1>5, MakePipeEffect DEF MutexHeld, InSection
<1>6. CASE NoPipe(t)
  <2>1. mutex' = IF mutex = t THEN 0 ELSE mutex
    BY <1>6 DEF NoPipe, Unlocked
  <2> QED
    BY <1>0, <1>1, <1>2, <1>6, <2>1, NoPipeEffect DEF MutexHeld, InSection
<1>7. CASE MarkCloexec(t)
  BY <1>0, <1>2, <1>7, MarkEffect DEF MutexHeld, InSection
<1>8. CASE Fork(t)
  <2>1. thread[t].pc = "fork" /\ thread'[t].pc = (IF platform = "apple" THEN "unlock" ELSE "close")
    BY <1>0, <1>8, ForkEffect
  <2>2. mutex' = mutex
    BY <1>0, <1>8, ForkEffect
  <2>3. mutex = t => platform = "apple"
    BY <1>0 DEF MutexHeld, InSection
  <2>4. platform = "apple" => mutex = t
    BY <1>0, <2>1 DEF MutexHeld, InSection
  <2> QED
    BY <1>2, <2>1, <2>2, <2>3, <2>4 DEF InSection
<1>9. CASE Unlock(t)
  <2>1. mutex' = 0 /\ thread[t].pc = "unlock" /\ thread'[t].pc \in {"close", "done"}
    BY <1>0, <1>9, UnlockEffect
  <2> QED
    BY <1>0, <1>1, <2>1 DEF MutexHeld, InSection
<1>10. CASE CloseWriteEnd(t)
  BY <1>0, <1>2, <1>10, CloseWriteEffect DEF MutexHeld, InSection
<1>11. CASE ReadChannel(t)
  BY <1>0, <1>2, <1>11, ReadEffect DEF MutexHeld, InSection
<1>12. CASE Reap(t)
  BY <1>0, <1>2, <1>12, ReapEffect DEF MutexHeld, InSection
<1>13. CASE CloseReadEnd(t)
  BY <1>0, <1>2, <1>13, CloseReadEffect DEF MutexHeld, InSection
<1>14. CASE SpawnWindows(t)
  BY <1>0, <1>2, <1>14, WindowsEffect DEF MutexHeld, InSection
<1>15. CASE MarkFails(t)
  BY <1>0, <1>1, <1>2, <1>15, MarkFailsEffect DEF MutexHeld, InSection
<1> QED
  BY <1>3, <1>4, <1>5, <1>6, <1>7, <1>8, <1>9, <1>10, <1>11, <1>12, <1>13, <1>14, <1>15 DEF ThreadStep

LEMMA ThreadStepStaged ==
  ASSUME IInv, NEW t \in Threads, ThreadStep(t)
  PROVE  Staged'
<1>0. Typed /\ StagedCall(t) /\ thread[t] \in ThreadState /\ child \in [Threads -> ChildState]
  BY DEF IInv, Typed, Staged
<1>1. ASSUME NEW u \in Threads \ {t} PROVE StagedCall(u)'
  <2>1. thread'[u] = thread[u] /\ child'[u] = child[u] /\ StagedCall(u)
    BY <1>0, ThreadFrame DEF IInv, Staged
  <2> QED
    BY <2>1 DEF StagedCall
<1>2. StagedCall(t)'
  <2> USE DEF StagedCall, WriteHeld
  <2>1. CASE CopyArguments(t)
    BY <1>0, <2>1, CopyEffect
  <2>2. CASE Lock(t)
    BY <1>0, <2>2, LockEffect
  <2>3. CASE MakePipe(t)
    <3>1. LET c == thread[t]  d == thread'[t]
          IN /\ c.pc = "pipe" /\ d.copies = c.copies /\ d.masked = c.masked /\ child' = child
             /\ d.pc = IF platform = "apple" THEN "mark read" ELSE IF Spawning(t) THEN "fork" ELSE "done"
             /\ d.answer = IF Spawning(t) THEN c.answer ELSE "pipe"
      BY <1>0, <2>3, MakePipeEffect
    <3>2. CASE Spawning(t)
      BY <1>0, <3>1, <3>2
    <3>3. CASE ~Spawning(t)
      BY <1>0, <3>1, <3>3
    <3> QED
      BY <3>2, <3>3
  <2>4. CASE NoPipe(t)
    BY <1>0, <2>4, NoPipeEffect
  <2>5. CASE MarkCloexec(t)
    BY <1>0, <2>5, MarkEffect
  <2>6. CASE Fork(t)
    <3>1. LET c == thread[t]  d == thread'[t]
          IN c.pc = "fork" /\ d.masked /\ d.pc \in {"unlock", "close"} /\ d.copies = c.copies
      BY <1>0, <2>6, ForkEffect
    <3>2. \/ thread'[t].answer = thread[t].answer
          \/ thread'[t].answer = "error" /\ child' = child
      BY <1>0, <2>6, ForkEffect
    <3> QED
      BY <1>0, <3>1, <3>2
  <2>7. CASE Unlock(t)
    BY <1>0, <2>7, UnlockEffect
  <2>8. CASE CloseWriteEnd(t)
    BY <1>0, <2>8, CloseWriteEffect
  <2>9. CASE ReadChannel(t)
    BY <1>0, <2>9, ReadEffect
  <2>10. CASE Reap(t)
    <3>1. child' = [child EXCEPT ![t].pc = "reaped"]
      BY <1>0, <2>10, ReapEffect
    <3>2. child'[t].pc = "reaped"
      BY <1>0, <3>1 DEF ChildState
    <3> QED
      BY <1>0, <2>10, <3>2, ReapEffect
  <2>11. CASE CloseReadEnd(t)
    BY <1>0, <2>11, CloseReadEffect
  <2>12. CASE SpawnWindows(t)
    BY <1>0, <2>12, WindowsEffect
  <2>13. CASE MarkFails(t)
    BY <1>0, <2>13, MarkFailsEffect
  <2> QED
    BY <2>1, <2>2, <2>3, <2>4, <2>5, <2>6, <2>7, <2>8, <2>9, <2>10, <2>11, <2>12, <2>13 DEF ThreadStep
<1> QED
  BY <1>1, <1>2 DEF Staged

LEMMA ThreadStepSignals ==
  ASSUME IInv, NEW t \in Threads, ThreadStep(t)
  PROVE  SignalsSoFar'
<1> DEFINE Sig(u) == SignalsOf(u, child[u])
<1> USE DEF SignalsOf
<1>0. Typed /\ child \in [Threads -> ChildState] /\ \A u \in Threads : Sig(u)
  BY DEF IInv, Typed, SignalsSoFar
<1>1. /\ platform' = platform /\ thread'[t].req = thread[t].req
      /\ \A u \in Threads \ {t} : thread'[u] = thread[u] /\ child'[u] = child[u]
  BY <1>0, ThreadFrame
<1>2. \A u \in Threads \ {t} : Sig(u)'
  BY <1>0, <1>1
<1>3. CASE child'[t] = child[t]
  <2>1. Sig(t)'
    BY <1>0, <1>1, <1>3
  <2> QED
    BY <1>2, <2>1 DEF SignalsSoFar
<1>4. CASE Fork(t)
  <2>1. \/ child' = child
        \/ child' = [child EXCEPT ![t] =
             [NoChild EXCEPT !.pc = "forked", !.fds = fds, !.masked = TRUE]]
    BY <1>0, <1>4, ForkEffect
  <2>2. \/ child' = child
        \/ child'[t].pc = "forked" /\ child'[t].masked
    BY <1>0, <2>1 DEF NoChild
  <2>3. Sig(t)'
    BY <1>0, <1>1, <2>2 DEF InStub
  <2> QED
    BY <1>2, <2>3 DEF SignalsSoFar
<1>5. CASE Reap(t)
  <2>1. child' = [child EXCEPT ![t].pc = "reaped"]
    BY <1>0, <1>5, ReapEffect
  <2>2. child'[t].pc = "reaped"
    BY <1>0, <2>1 DEF ChildState
  <2> QED
    BY <1>2, <2>2 DEF SignalsSoFar, InStub
<1>6. CASE SpawnWindows(t)
  <2>1. platform = "windows"
    BY <1>0, <1>6, WindowsEffect
  <2>2. CASE child' = child
    BY <1>3, <2>2
  <2>3. CASE thread[t].req.cwd # "fd" /\ \E table :
               child' = [child EXCEPT ![t] =
                 [NoChild EXCEPT !.pc = "program",
                    !.cwd = IF thread[t].req.cwd = "path" THEN "asked" ELSE "parent",
                    !.fds = table]]
    <3>1. /\ child'[t].pc = "program" /\ ~child'[t].masked
          /\ child'[t].cwd = IF thread[t].req.cwd = "path" THEN "asked" ELSE "parent"
      BY <1>0, <2>3 DEF NoChild
    <3>2. thread[t].req.cwd \in {"inherit", "path", "fd"}
      BY <1>0 DEF Typed, ThreadState, Request
    <3>3. Sig(t)'
      BY <1>1, <2>1, <2>3, <3>1, <3>2 DEF InStub
    <3> QED
      BY <1>2, <3>3 DEF SignalsSoFar
  <2> QED
    BY <1>0, <1>6, <2>2, <2>3, WindowsEffect
<1> QED
  BY <1>3, <1>4, <1>5, <1>6
     DEF ThreadStep, CopyArguments, Lock, MakePipe, NoPipe, MarkCloexec, MarkFails, Unlock, CloseWriteEnd,
         ReadChannel, CloseReadEnd

LEMMA ThreadStepTables ==
  ASSUME IInv, NEW t \in Threads, ThreadStep(t)
  PROVE  Tables'
<1>0. /\ Typed /\ child \in [Threads -> ChildState] /\ \A u \in Threads : TableOf(u, child[u])
      /\ Std(t) \in [1 .. 3 -> Given]
  BY DEF IInv, Typed, Tables, Std, ThreadState, Request
<1>1. /\ platform' = platform /\ thread'[t].req = thread[t].req
      /\ \A u \in Threads \ {t} : thread'[u] = thread[u] /\ child'[u] = child[u]
  BY <1>0, ThreadFrame
<1>2. \A u \in Threads \ {t} : TableOf(u, child[u])'
  BY <1>0, <1>1 DEF TableOf, Std
<1>3. TableOf(t, child'[t]) => Tables'
  <2>1. TableOf(t, child'[t]) => TableOf(t, child[t])'
    BY <1>1 DEF TableOf, Std
  <2> QED
    BY <1>2, <2>1 DEF Tables
<1>4. CASE child'[t] = child[t]
  BY <1>0, <1>3, <1>4
<1>5. CASE Fork(t)
  <2>1. thread[t].pc = "fork" /\ platform # "windows"
    BY <1>0, <1>5, ForkEffect
  <2>2. ASSUME NEW f \in Fd PROVE Inherited(f, fds[f])
    <3>1. CASE fds[f] = Open[f]
      BY <3>1 DEF Inherited
    <3>2. ASSUME NEW u \in Threads, HoldsRead(u), f = thread[u].ends[1], Open[f] = Closed
          PROVE  Inherited(f, fds[f])
      <4>1. platform = "apple" => thread[u].pc # "mark read"
        BY <2>1 DEF IInv, MutexHeld, InSection
      <4> QED
        BY <3>2, <4>1 DEF IInv, EndsMarked, Inherited
    <3>3. ASSUME NEW u \in Threads, HoldsWrite(u), f = thread[u].ends[2], Open[f] = Closed
          PROVE  Inherited(f, fds[f])
      <4>1. platform = "apple" => thread[u].pc \notin {"mark read", "mark write"}
        BY <2>1 DEF IInv, MutexHeld, InSection
      <4> QED
        BY <3>3, <4>1 DEF IInv, EndsMarked, Inherited
    <3> QED
      BY <3>1, <3>2, <3>3 DEF IInv, RestKept
  <2>3. \/ child' = child
        \/ child' = [child EXCEPT ![t] =
             [NoChild EXCEPT !.pc = "forked", !.fds = fds, !.masked = TRUE]]
    BY <1>0, <1>5, ForkEffect
  <2>4. CASE child' = [child EXCEPT ![t] =
               [NoChild EXCEPT !.pc = "forked", !.fds = fds, !.masked = TRUE]]
    <3>1. child'[t].pc = "forked" /\ child'[t].fds = fds
      BY <1>0, <2>4 DEF NoChild
    <3> QED
      BY <1>3, <2>2, <3>1 DEF TableOf
  <2> QED
    BY <1>4, <2>3, <2>4
<1>6. CASE Reap(t)
  <2>1. child' = [child EXCEPT ![t].pc = "reaped"]
    BY <1>0, <1>6, ReapEffect
  <2>2. child'[t].pc = "reaped"
    BY <1>0, <2>1 DEF ChildState
  <2> QED
    BY <1>3, <2>2 DEF TableOf
<1>7. CASE SpawnWindows(t)
  <2> DEFINE table == [f \in Fd |-> IF f < 3 THEN fds[Std(t)[f + 1]] ELSE AfterExec(fds)[f]]
             dir == IF thread[t].req.cwd = "path" THEN "asked" ELSE "parent"
  <2>1. \/ child' = child
        \/ child' = [child EXCEPT ![t] = [NoChild EXCEPT !.pc = "program", !.cwd = dir, !.fds = table]]
    BY <1>7 DEF SpawnWindows
  <2>2. platform = "windows"
    BY <1>0, <1>7, WindowsEffect
  <2>3. ASSUME NEW f \in Fd
        PROVE  \/ fds[f] = Open[f]
               \/ Open[f] = Closed /\ fds[f].cloexec
    BY <2>2 DEF IInv, RestKept, EndsMarked
  <2>4. ASSUME NEW f \in 0 .. 2 PROVE table[f] = Open[Std(t)[f + 1]]
    <3>1. f \in Fd /\ Std(t)[f + 1] \in Given
      BY <1>0, FdAssumption DEF Fd
    <3>2. table[f] = fds[Std(t)[f + 1]]
      BY <3>1
    <3> QED
      BY <2>3, <3>1, <3>2 DEF Given
  <2>5. ASSUME NEW f \in Fd, f >= 3, table[f] # Closed
        PROVE  table[f] = Open[f] /\ ~Open[f].cloexec
    <3>1. table[f] = IF fds[f].cloexec THEN Closed ELSE fds[f]
      BY <2>5 DEF AfterExec, Fd
    <3> QED
      BY <2>3, <2>5, <3>1
  <2> HIDE DEF table, dir
  <2>6. CASE child' = [child EXCEPT ![t] = [NoChild EXCEPT !.pc = "program", !.cwd = dir, !.fds = table]]
    <3>1. child'[t].pc = "program" /\ child'[t].fds = table
      BY <1>0, <2>6 DEF NoChild
    <3>2. TableOf(t, child'[t])
      BY <2>4, <2>5, <3>1 DEF TableOf
    <3> QED
      BY <1>3, <3>2
  <2> QED
    BY <1>4, <2>1, <2>6
<1> QED
  BY <1>4, <1>5, <1>6, <1>7
     DEF ThreadStep, CopyArguments, Lock, MakePipe, NoPipe, MarkCloexec, MarkFails, Unlock, CloseWriteEnd,
         ReadChannel, CloseReadEnd

-----------------------------------------------------------------------------
(* The steps of the sub-processes.                                         *)

(* A step of a sub-process changes nothing but its state, and goes along   *)
(* with what its signals, its group and its directory should be.           *)
ChildGoes(t, d) ==
  /\ child[t].pc \in InStub
  /\ child' = [child EXCEPT ![t] = d]
  /\ d \in ChildState
  /\ SignalsOf(t, child[t]) => SignalsOf(t, d)

LEMMA FailGoes ==
  ASSUME Typed, NEW t \in Threads, child[t].pc \in InStub, Fail(t)
  PROVE  \E d : ChildGoes(t, d)
<1> DEFINE d == [child[t] EXCEPT !.pc = "fail", !.masked = TRUE]
<1>1. child[t] \in ChildState
  BY DEF Typed
<1>2. d \in ChildState /\ (SignalsOf(t, child[t]) => SignalsOf(t, d))
  BY <1>1 DEF ChildState, ChildPc, InStub, SignalsOf
<1>3. child' = [child EXCEPT ![t] = d]
  BY DEF Fail, Silent, Step
<1> QED
  BY <1>2, <1>3 DEF ChildGoes

LEMMA ChildStepGoes ==
  ASSUME Typed, NEW t \in Threads, ChildStep(t) \/ Killed(t)
  PROVE  \E d : ChildGoes(t, d)
<1>0. child[t] \in ChildState /\ child[t].fds \in [Fd -> Descriptor] /\ Std(t) \in [1 .. 3 -> Fd]
  BY DEF Typed, ChildState, ThreadState, Request, Given, Std
<1> USE DEF ChildAt
<1>1. CASE CloseOwnReadEnd(t)
  <2> DEFINE table == Close(child[t].fds, thread[t].ends[1])
             next == IF thread[t].req.setpgid THEN "pgid" ELSE "signals"
             d == [child[t] EXCEPT !.pc = next, !.fds = table]
  <2>1. table \in [Fd -> Descriptor]
    BY <1>0, TableTypes
  <2>2. child' = [child EXCEPT ![t] = d] /\ child[t].pc = "forked"
    BY <1>1 DEF CloseOwnReadEnd, Silent, Step
  <2> HIDE DEF table
  <2>3. d \in ChildState /\ (SignalsOf(t, child[t]) => SignalsOf(t, d))
    <3>1. d \in ChildState
      BY <1>0, <2>1, <2>2 DEF ChildState, ChildPc, InStub
    <3>2. /\ d.pc = next /\ d.masked = child[t].masked /\ d.handlers = child[t].handlers
          /\ d.group = child[t].group /\ d.cwd = child[t].cwd
      BY <1>0 DEF ChildState
    <3> HIDE DEF d
    <3> QED
      BY <2>2, <3>1, <3>2 DEF SignalsOf, InStub
  <2> HIDE DEF d
  <2>9. ChildGoes(t, d)
    BY <2>2, <2>3 DEF ChildGoes, InStub
  <2> QED
    BY <2>9
<1>2. CASE SetPgid(t)
  <2> DEFINE d == [child[t] EXCEPT !.pc = "signals", !.group = "asked"]
  <2>1. child[t].pc = "pgid"
    BY <1>2 DEF SetPgid
  <2>2. CASE Silent(t, d)
    <3>1. d \in ChildState /\ (SignalsOf(t, child[t]) => SignalsOf(t, d))
      <4>1. d \in ChildState
        BY <1>0, <2>1 DEF ChildState, ChildPc, InStub
      <4>2. /\ d.pc = "signals" /\ d.masked = child[t].masked /\ d.handlers = child[t].handlers
            /\ d.group = "asked" /\ d.cwd = child[t].cwd
        BY <1>0 DEF ChildState
      <4> HIDE DEF d
      <4> QED
        BY <2>1, <4>1, <4>2 DEF SignalsOf, InStub
    <3> HIDE DEF d
    <3>9. ChildGoes(t, d)
      BY <2>1, <2>2, <3>1 DEF ChildGoes, InStub, Silent, Step
    <3> QED
      BY <3>9
  <2>3. CASE Fail(t)
    BY <2>1, <2>3, FailGoes DEF InStub
  <2> QED
    BY <1>2, <2>2, <2>3 DEF SetPgid
<1>3. CASE ResetHandlers(t)
  <2> DEFINE next == IF thread[t].req.cwd = "inherit" THEN "streams" ELSE "cwd"
             d == [child[t] EXCEPT !.pc = next, !.handlers = "default"]
  <2>1. child' = [child EXCEPT ![t] = d] /\ child[t].pc = "signals"
    BY <1>3 DEF ResetHandlers, Silent, Step
  <2>2. d \in ChildState /\ (SignalsOf(t, child[t]) => SignalsOf(t, d))
    <3>1. d \in ChildState
      BY <1>0, <2>1 DEF ChildState, ChildPc, InStub
    <3>2. /\ d.pc = next /\ d.masked = child[t].masked /\ d.handlers = "default"
          /\ d.group = child[t].group /\ d.cwd = child[t].cwd
      BY <1>0 DEF ChildState
    <3> HIDE DEF d
    <3> QED
      BY <2>1, <3>1, <3>2 DEF SignalsOf, InStub
  <2> HIDE DEF d
  <2>9. ChildGoes(t, d)
    BY <2>1, <2>2 DEF ChildGoes, InStub
  <2> QED
    BY <2>9
<1>4. CASE ChangeDirectory(t)
  <2> DEFINE table == IF thread[t].req.cwd = "fd" THEN Close(child[t].fds, thread[t].req.cwdFd)
                      ELSE child[t].fds
             d == [child[t] EXCEPT !.pc = "streams", !.cwd = "asked", !.fds = table]
  <2>1. table \in [Fd -> Descriptor]
    BY <1>0, TableTypes
  <2>2. child[t].pc = "cwd"
    BY <1>4 DEF ChangeDirectory
  <2>3. CASE child' = [child EXCEPT ![t] = d]
    <3> HIDE DEF table
    <3>1. d \in ChildState /\ (SignalsOf(t, child[t]) => SignalsOf(t, d))
      <4>1. d \in ChildState
        BY <1>0, <2>1, <2>2 DEF ChildState, ChildPc, InStub
      <4>2. /\ d.pc = "streams" /\ d.masked = child[t].masked /\ d.handlers = child[t].handlers
            /\ d.group = child[t].group /\ d.cwd = "asked"
        BY <1>0 DEF ChildState
      <4> HIDE DEF d
      <4> QED
        BY <2>2, <4>1, <4>2 DEF SignalsOf, InStub
    <3> HIDE DEF d
    <3>9. ChildGoes(t, d)
      BY <2>2, <2>3, <3>1 DEF ChildGoes, InStub
    <3> QED
      BY <3>9
  <2>4. CASE Fail(t)
    BY <2>2, <2>4, FailGoes DEF InStub
  <2> QED
    BY <1>4, <2>3, <2>4 DEF ChangeDirectory, Silent, Step
<1>5. CASE MoveStreams(t)
  <2> DEFINE table == Redirect(child[t].fds, Std(t))
             d == [child[t] EXCEPT !.pc = "unblock", !.fds = table]
  <2>1. table \in [Fd -> Descriptor]
    BY <1>0, TableTypes
  <2>2. child[t].pc = "streams"
    BY <1>5 DEF MoveStreams
  <2>3. CASE child' = [child EXCEPT ![t] = d]
    <3> HIDE DEF table
    <3>1. d \in ChildState /\ (SignalsOf(t, child[t]) => SignalsOf(t, d))
      <4>1. d \in ChildState
        BY <1>0, <2>1, <2>2 DEF ChildState, ChildPc, InStub
      <4>2. /\ d.pc = "unblock" /\ d.masked = child[t].masked /\ d.handlers = child[t].handlers
            /\ d.group = child[t].group /\ d.cwd = child[t].cwd
        BY <1>0 DEF ChildState
      <4> HIDE DEF d
      <4> QED
        BY <2>2, <4>1, <4>2 DEF SignalsOf, InStub
    <3> HIDE DEF d
    <3>9. ChildGoes(t, d)
      BY <2>2, <2>3, <3>1 DEF ChildGoes, InStub
    <3> QED
      BY <3>9
  <2>4. CASE Fail(t)
    BY <2>2, <2>4, FailGoes DEF InStub
  <2> QED
    BY <1>5, <2>3, <2>4 DEF MoveStreams, Silent, Step
<1>6. CASE Unblock(t)
  <2> DEFINE d == [child[t] EXCEPT !.pc = "exec", !.masked = FALSE]
  <2>1. child' = [child EXCEPT ![t] = d] /\ child[t].pc = "unblock"
    BY <1>6 DEF Unblock, Silent, Step
  <2>2. d \in ChildState /\ (SignalsOf(t, child[t]) => SignalsOf(t, d))
    <3>1. d \in ChildState
      BY <1>0, <2>1 DEF ChildState, ChildPc, InStub
    <3>2. /\ d.pc = "exec" /\ d.masked = FALSE /\ d.handlers = child[t].handlers
          /\ d.group = child[t].group /\ d.cwd = child[t].cwd
      BY <1>0 DEF ChildState
    <3> HIDE DEF d
    <3> QED
      BY <2>1, <3>1, <3>2 DEF SignalsOf, InStub
  <2> HIDE DEF d
  <2>9. ChildGoes(t, d)
    BY <2>1, <2>2 DEF ChildGoes, InStub
  <2> QED
    BY <2>9
<1>7. CASE Exec(t)
  <2> DEFINE table == AfterExec(child[t].fds)
             d == [child[t] EXCEPT !.pc = "program", !.fds = table]
  <2>1. table \in [Fd -> Descriptor]
    BY <1>0, TableTypes
  <2>2. child[t].pc = "exec"
    BY <1>7 DEF Exec
  <2>3. CASE child' = [child EXCEPT ![t] = d]
    <3> HIDE DEF table
    <3>1. d \in ChildState /\ (SignalsOf(t, child[t]) => SignalsOf(t, d))
      <4>1. d \in ChildState
        BY <1>0, <2>1, <2>2 DEF ChildState, ChildPc, InStub
      <4>2. /\ d.pc = "program" /\ d.masked = child[t].masked /\ d.handlers = child[t].handlers
            /\ d.group = child[t].group /\ d.cwd = child[t].cwd
        BY <1>0 DEF ChildState
      <4> HIDE DEF d
      <4> QED
        BY <2>2, <4>1, <4>2 DEF SignalsOf, InStub
    <3> HIDE DEF d
    <3>9. ChildGoes(t, d)
      BY <2>2, <2>3, <3>1 DEF ChildGoes, InStub
    <3> QED
      BY <3>9
  <2>4. CASE Fail(t)
    BY <2>2, <2>4, FailGoes DEF InStub
  <2> QED
    BY <1>7, <2>3, <2>4 DEF Exec, Silent, Step
<1>8. CASE WriteFailure(t) \/ Killed(t)
  <2> DEFINE table == [f \in Fd |-> Closed]
             d(pc) == [child[t] EXCEPT !.pc = pc, !.fds = table]
  <2>1. table \in [Fd -> Descriptor]
    BY ClosedIsDescriptor
  <2>2. PICK pc \in {"dead", "killed"} : child' = [child EXCEPT ![t] = d(pc)]
    BY <1>8 DEF WriteFailure, Killed, Gone, Silent, Step
  <2>3. child[t].pc \in InStub
    BY <1>8 DEF WriteFailure, Killed, InStub
  <2> HIDE DEF table
  <2>4. d(pc) \in ChildState /\ SignalsOf(t, d(pc))
    BY <1>0, <2>1 DEF ChildState, ChildPc, InStub, SignalsOf
  <2> QED
    BY <2>2, <2>3, <2>4 DEF ChildGoes
<1> QED
  BY <1>1, <1>2, <1>3, <1>4, <1>5, <1>6, <1>7, <1>8 DEF ChildStep

(* Nor does a descriptor reach it that it may not find.                    *)
LEMMA FailTable ==
  ASSUME Typed, NEW t \in Threads, Fail(t)
  PROVE  TableOf(t, child'[t])
<1>1. child[t] \in ChildState /\ child' = [child EXCEPT ![t] =
                                   [child[t] EXCEPT !.pc = "fail", !.masked = TRUE]]
  BY DEF Typed, Fail, Silent, Step
<1>2. child'[t].pc = "fail"
  BY <1>1 DEF Typed, ChildState
<1> QED
  BY <1>2 DEF TableOf

LEMMA ChildStepTable ==
  ASSUME Typed, NEW t \in Threads, ChildStep(t) \/ Killed(t), TableOf(t, child[t])
  PROVE  TableOf(t, child'[t])
<1> DEFINE c == child[t]
           d == child'[t]
<1>0. /\ child \in [Threads -> ChildState] /\ c \in ChildState /\ c.fds \in [Fd -> Descriptor]
      /\ Std(t) \in [1 .. 3 -> Given]
  BY DEF Typed, ChildState, ThreadState, Request, Std
<1>1. \A f, g \in Fd : Inherited(g, c.fds[g]) => Inherited(g, Close(c.fds, f)[g])
  BY <1>0 DEF Close, Inherited
<1>2. \A f : f \notin Fd => Close(c.fds, f) = c.fds
  BY DEF Close
<1>3. \A f, g : g \in Fd /\ Inherited(g, c.fds[g]) => Inherited(g, Close(c.fds, f)[g])
  BY <1>1, <1>2
<1> USE DEF ChildAt, Silent, Step
<1>4. CASE CloseOwnReadEnd(t)
  <2>1. /\ c.pc = "forked"
        /\ d = [c EXCEPT !.pc = IF thread[t].req.setpgid THEN "pgid" ELSE "signals",
                         !.fds = Close(@, thread[t].ends[1])]
    BY <1>0, <1>4 DEF CloseOwnReadEnd
  <2>2. d.pc \in {"pgid", "signals"} /\ d.fds = Close(c.fds, thread[t].ends[1])
    BY <1>0, <2>1 DEF ChildState
  <2> HIDE DEF c, d
  <2> QED
    BY <1>3, <2>1, <2>2 DEF TableOf, c, d
<1>5. CASE SetPgid(t)
  <2>1. c.pc = "pgid"
    BY <1>5 DEF SetPgid
  <2>2. CASE d = [c EXCEPT !.pc = "signals", !.group = "asked"]
    <3>1. d.pc = "signals" /\ d.fds = c.fds
      BY <1>0, <2>2 DEF ChildState
    <3> QED
      BY <2>1, <3>1 DEF TableOf
  <2> QED
    BY <1>0, <1>5, <2>2, FailTable DEF SetPgid
<1>6. CASE ResetHandlers(t)
  <2>1. /\ c.pc = "signals"
        /\ d = [c EXCEPT !.pc = IF thread[t].req.cwd = "inherit" THEN "streams" ELSE "cwd",
                         !.handlers = "default"]
    BY <1>0, <1>6 DEF ResetHandlers
  <2>2. d.pc \in {"streams", "cwd"} /\ d.fds = c.fds
    BY <1>0, <2>1 DEF ChildState
  <2> QED
    BY <2>1, <2>2 DEF TableOf
<1>7. CASE ChangeDirectory(t)
  <2>1. c.pc = "cwd"
    BY <1>7 DEF ChangeDirectory
  <2>2. CASE d = [c EXCEPT !.pc = "streams", !.cwd = "asked",
                    !.fds = IF thread[t].req.cwd = "fd" THEN Close(@, thread[t].req.cwdFd) ELSE @]
    <3>1. d.pc = "streams" /\ d.fds \in {c.fds, Close(c.fds, thread[t].req.cwdFd)}
      BY <1>0, <2>2 DEF ChildState
    <3> HIDE DEF c, d
    <3> QED
      BY <1>3, <2>1, <3>1 DEF TableOf, c, d
  <2> QED
    BY <1>0, <1>7, <2>2, FailTable DEF ChangeDirectory
<1>8. CASE MoveStreams(t)
  <2>1. c.pc = "streams" /\ \A f \in Fd : Inherited(f, c.fds[f])
    BY <1>8 DEF MoveStreams, TableOf
  <2>2. CASE CanMove(c.fds, Std(t)) /\ d = [c EXCEPT !.pc = "unblock", !.fds = Redirect(@, Std(t))]
    <3>1. d.pc = "unblock" /\ d.fds = Redirect(c.fds, Std(t))
      BY <1>0, <2>2 DEF ChildState
    <3>2. \A i \in 1 .. 3 : Std(t)[i] \in Fd /\ c.fds[Std(t)[i]] = Open[Std(t)[i]]
      BY <1>0, <2>1, <2>2 DEF CanMove, Given, Inherited
    <3>3. ASSUME NEW f \in 0 .. 2
          PROVE  d.fds[f].obj = Open[Std(t)[f + 1]].obj /\ d.fds[f].cloexec = FALSE
      <4>1. f \in Fd /\ f + 1 \in 1 .. 3
        BY FdAssumption DEF Fd
      <4> HIDE DEF c, d
      <4> QED
        BY <3>1, <3>2, <4>1 DEF Redirect
    <3>4. ASSUME NEW f \in Fd, ~ (f < 3)
          PROVE  Inherited(f, d.fds[f])
      <4>1. d.fds[f] \in {Closed, c.fds[f]}
        BY <3>1, <3>4 DEF Redirect
      <4> QED
        BY <2>1, <4>1 DEF Inherited
    <3>5. \A f \in Fd : f < 3 => f \in 0 .. 2
      BY DEF Fd
    <3> QED
      BY <3>1, <3>3, <3>4, <3>5 DEF TableOf
  <2> QED
    BY <1>0, <1>8, <2>2, FailTable DEF MoveStreams
<1>9. CASE Unblock(t)
  <2>1. c.pc = "unblock" /\ d = [c EXCEPT !.pc = "exec", !.masked = FALSE]
    BY <1>0, <1>9 DEF Unblock
  <2>2. d.pc = "exec" /\ d.fds = c.fds
    BY <1>0, <2>1 DEF ChildState
  <2> QED
    BY <2>1, <2>2 DEF TableOf
<1>10. CASE Exec(t)
  <2>1. c.pc = "exec"
    BY <1>10 DEF Exec
  <2>2. CASE d = [c EXCEPT !.pc = "program", !.fds = AfterExec(@)]
    <3>1. d.pc = "program" /\ d.fds = AfterExec(c.fds)
      BY <1>0, <2>2 DEF ChildState
    <3>2. ASSUME NEW f \in 0 .. 2 PROVE d.fds[f].obj = Open[Std(t)[f + 1]].obj
      <4>1. f \in Fd /\ f < 3
        BY FdAssumption DEF Fd
      <4>2. ~c.fds[f].cloexec /\ c.fds[f].obj = Open[Std(t)[f + 1]].obj
        BY <2>1, <4>1 DEF TableOf
      <4> QED
        BY <3>1, <4>1, <4>2 DEF AfterExec
    <3>3. ASSUME NEW f \in Fd, f >= 3, d.fds[f] # Closed
          PROVE  d.fds[f] = Open[f] /\ ~Open[f].cloexec
      <4>1. Inherited(f, c.fds[f])
        BY <2>1, <3>3 DEF TableOf, Fd
      <4>2. ~c.fds[f].cloexec /\ d.fds[f] = c.fds[f]
        BY <3>1, <3>3 DEF AfterExec
      <4> QED
        BY <3>3, <4>1, <4>2 DEF Inherited
    <3> QED
      BY <3>1, <3>2, <3>3 DEF TableOf
  <2> QED
    BY <1>0, <1>10, <2>2, FailTable DEF Exec
<1>11. CASE WriteFailure(t) \/ Killed(t)
  <2>1. PICK pc \in {"dead", "killed"} : d = [c EXCEPT !.pc = pc, !.fds = [f \in Fd |-> Closed]]
    BY <1>0, <1>11 DEF WriteFailure, Killed, Gone
  <2>2. d.pc = pc
    BY <1>0, <2>1 DEF ChildState
  <2> QED
    BY <2>2 DEF TableOf
<1> QED
  BY <1>4, <1>5, <1>6, <1>7, <1>8, <1>9, <1>10, <1>11 DEF ChildStep

LEMMA ChildStepKeeps ==
  ASSUME IInv, NEW t \in Threads, ChildStep(t) \/ Killed(t)
  PROVE  IInv'
<1>1. PICK d : ChildGoes(t, d)
  BY ChildStepGoes DEF IInv
<1>2. UNCHANGED <<platform, fds, mutex, thread>> /\ channel' \in [Threads -> {"empty", "failure"}]
  BY DEF IInv, Typed, ChildStep, Killed, CloseOwnReadEnd, SetPgid, ResetHandlers, ChangeDirectory,
         MoveStreams, Unblock, Exec, WriteFailure, Fail, Silent, Step
<1>3. /\ child \in [Threads -> ChildState] /\ child' = [child EXCEPT ![t] = d]
      /\ d \in ChildState /\ child[t].pc \in InStub
  BY <1>1 DEF ChildGoes, IInv, Typed
<1>4. child' \in [Threads -> ChildState] /\ \A u \in Threads \ {t} : child'[u] = child[u]
  BY <1>3
<1>5. Typed'
  BY <1>2, <1>4 DEF IInv, Typed
<1>9. Tables'
  <2>1. TableOf(t, child'[t])
    BY ChildStepTable DEF IInv, Tables
  <2>2. \A u \in Threads : TableOf(u, child'[u])
    BY <1>4, <2>1 DEF IInv, Tables
  <2> QED
    BY <1>2, <2>2 DEF Tables, TableOf, Std
<1>6. EndsOpen' /\ EndsMarked' /\ RestKept' /\ MutexHeld'
  <2>1. EndsOpen' /\ EndsMarked'
    BY <1>2 DEF IInv, EndsOpen, EndsMarked, HoldsRead, HoldsWrite
  <2>2. RestKept'
    BY <1>2 DEF IInv, RestKept, HoldsRead, HoldsWrite
  <2>3. MutexHeld'
    BY <1>2 DEF IInv, MutexHeld
  <2> QED
    BY <2>1, <2>2, <2>3
<1>7. Staged'
  <2>1. StagedCall(t)'
    BY <1>2, <1>3 DEF IInv, Staged, StagedCall, InStub
  <2>2. \A u \in Threads \ {t} : StagedCall(u)'
    BY <1>2, <1>4 DEF IInv, Staged, StagedCall
  <2> QED
    BY <2>1, <2>2 DEF Staged
<1>8. SignalsSoFar'
  <2>1. child'[t] = d
    BY <1>3
  <2>2. SignalsOf(t, d)
    BY <1>1 DEF ChildGoes, IInv, SignalsSoFar
  <2> QED
    BY <1>2, <1>4, <2>1, <2>2 DEF IInv, SignalsSoFar, SignalsOf
<1> QED
  BY <1>5, <1>6, <1>7, <1>8, <1>9 DEF IInv

-----------------------------------------------------------------------------

LEMMA InitIInv == Init => IInv
<1> SUFFICES ASSUME Init PROVE IInv
  OBVIOUS
<1>1. PICK req \in [Threads -> Request] : thread = [t \in Threads |-> Fresh(req[t])]
  BY RequestsOfThreads
<1>2. \A t \in Threads :
        /\ thread[t].pc = "call" /\ thread[t].answer = "none"
        /\ ~thread[t].masked /\ ~thread[t].copies
  BY <1>1 DEF Fresh
<1>3. \A t \in Threads : child[t].pc = "none"
  BY DEF Init, NoChild
<1>4. fds = Open /\ mutex = 0
  BY DEF Init
<1>5. Staged
  BY <1>2, <1>3 DEF Staged, StagedCall
<1>6. SignalsSoFar
  BY <1>3 DEF SignalsSoFar, SignalsOf, InStub
<1>7. Tables
  BY <1>3 DEF Tables, TableOf
<1> QED
  BY InitTyped, <1>2, <1>4, <1>5, <1>6, <1>7
     DEF IInv, EndsOpen, EndsMarked, RestKept, MutexHeld, HoldsRead, HoldsWrite, ReadHeld, WriteHeld,
         InSection

LEMMA NextIInv == IInv /\ [Next]_vars => IInv'
<1> SUFFICES ASSUME IInv, [Next]_vars PROVE IInv'
  OBVIOUS
<1>1. CASE UNCHANGED vars
  <2>1. Typed' /\ EndsOpen' /\ EndsMarked'
    BY <1>1 DEF vars, IInv, Typed, EndsOpen, EndsMarked, HoldsRead, HoldsWrite
  <2>2. RestKept' /\ MutexHeld'
    BY <1>1 DEF vars, IInv, RestKept, MutexHeld, HoldsRead, HoldsWrite
  <2>3. Staged'
    BY <1>1 DEF vars, IInv, Staged, StagedCall
  <2>4. SignalsSoFar' /\ Tables'
    BY <1>1 DEF vars, IInv, SignalsSoFar, SignalsOf, Tables, TableOf, Std
  <2> QED
    BY <2>1, <2>2, <2>3, <2>4 DEF IInv
<1>2. ASSUME NEW t \in Threads, ThreadStep(t) PROVE IInv'
  BY <1>2, ThreadStepTyped, ThreadStepEnds, ThreadStepRest, ThreadStepMutex, ThreadStepStaged,
     ThreadStepSignals, ThreadStepTables DEF IInv
<1>3. ASSUME NEW t \in Threads, ChildStep(t) \/ Killed(t) PROVE IInv'
  BY <1>3, ChildStepKeeps
<1> QED
  BY <1>1, <1>2, <1>3 DEF Next, Progress

(* The invariant.                                                          *)
THEOREM SpawnInvariant == Spec => []IInv
<1>1. Init => IInv
  BY InitIInv
<1>2. IInv /\ [Next]_vars => IInv'
  BY NextIInv
<1> QED
  BY <1>1, <1>2, PTL DEF Spec

(* The state of the calls, their sub-processes and the tables of           *)
(* descriptors keeps its type.                                             *)
THEOREM SpawnTypeCorrect == Spec => []TypeOK
<1>1. IInv => TypeOK
  <2> SUFFICES ASSUME IInv PROVE TypeOK
    OBVIOUS
  <2>1. ASSUME NEW t \in Threads,
               thread[t].pc \in {"mark read", "mark write", "fork", "unlock", "close"}
        PROVE  thread[t].ends \in Fd \X Fd /\ thread[t].ends[1] # thread[t].ends[2]
    <3>1. HoldsRead(t) /\ HoldsWrite(t)
      BY <2>1 DEF HoldsRead, HoldsWrite, ReadHeld, WriteHeld
    <3>2. /\ thread[t].ends[1] \in Fd /\ fds[thread[t].ends[1]].obj = <<"read", t>>
          /\ thread[t].ends[2] \in Fd /\ fds[thread[t].ends[2]].obj = <<"write", t>>
      BY <3>1 DEF IInv, EndsOpen
    <3>3. thread[t].ends[1] # thread[t].ends[2]
      BY <3>2, PipeObjects
    <3>4. thread[t].ends \in Ends2
      BY DEF IInv, Typed, ThreadState
    <3> QED
      BY <3>2, <3>3, <3>4 DEF Ends2
  <2> QED
    BY <2>1 DEF IInv, Typed, TypeOK, ThreadState, ChildState, Answer
<1> QED
  BY <1>1, SpawnInvariant, PTL

(* No handler of the parent ever runs in a sub-process, after fork or      *)
(* vfork, and a program starts with its signals, its group and its         *)
(* directory as asked (spawn_stubs.c:221-266).                             *)
THEOREM SignalsSettled == Spec => []SignalsAndGroup
<1>1. IInv => SignalsAndGroup
  BY DEF IInv, SignalsSoFar, SignalsOf, SignalsAndGroup, Running, InStub
<1> QED
  BY <1>1, SpawnInvariant, PTL

(* A program runs on the streams asked for, and with no other descriptor   *)
(* than those its parent lets it inherit (spawn_stubs.c:186-263).          *)
THEOREM InheritanceIsChosen == Spec => []ProgramsInheritOnlyTheirs
<1>1. IInv => ProgramsInheritOnlyTheirs
  <2> SUFFICES ASSUME IInv, NEW t \in Threads, Running(t)
               PROVE  /\ StreamsOf(t) = Wanted(t)
                      /\ \A f \in Fd : f >= 3 /\ child[t].fds[f] # Closed =>
                           child[t].fds[f] = Open[f] /\ ~Open[f].cloexec
    BY DEF ProgramsInheritOnlyTheirs
  <2>1. /\ \A f \in 0 .. 2 : child[t].fds[f].obj = Open[Std(t)[f + 1]].obj
        /\ \A f \in Fd : f >= 3 /\ child[t].fds[f] # Closed =>
             child[t].fds[f] = Open[f] /\ ~Open[f].cloexec
    BY DEF IInv, Tables, TableOf, Running
  <2>2. ASSUME NEW i \in 1 .. 3 PROVE child[t].fds[i - 1].obj = Open[Std(t)[i]].obj
    <3>1. i - 1 \in 0 .. 2 /\ (i - 1) + 1 = i
      OBVIOUS
    <3> QED
      BY <2>1, <3>1
  <2> QED
    BY <2>1, <2>2 DEF StreamsOf, Wanted
<1> QED
  BY <1>1, SpawnInvariant, PTL

(* When all calls are over, failures of pipe, fcntl and fork included, the *)
(* process has the descriptors it had and the                              *)
(* pipes it asked for, close-on-exec; no lock is held, no signal blocked,  *)
(* no copy of an argument is left and no failed sub-process waits to be    *)
(* reaped (spawn_stubs.c:376-496).                                         *)
THEOREM NothingIsLeft == Spec => []NothingLeftBehind
<1>1. IInv => NothingLeftBehind
  <2> SUFFICES ASSUME IInv, \A t \in Threads : Done(t)
               PROVE  /\ mutex = 0
                      /\ \A t \in Threads :
                           /\ ~thread[t].masked
                           /\ thread[t].answer # "no memory" => ~thread[t].copies
                           /\ thread[t].answer = "error" => child[t].pc \in {"none", "reaped"}
                      /\ \A f \in Fd :
                           LET pipes == UNION {Ends(t) : t \in {u \in Threads : thread[u].answer = "pipe"}}
                           IN IF f \in pipes THEN fds[f].cloexec ELSE fds[f] = Open[f]
    BY DEF NothingLeftBehind
  <2>1. \A t \in Threads : thread[t].pc = "done"
    BY DEF Done
  <2>2. mutex = 0
    BY <2>1 DEF IInv, Typed, MutexHeld, InSection
  <2>3. ASSUME NEW t \in Threads
        PROVE  /\ ~thread[t].masked
               /\ thread[t].answer # "no memory" => ~thread[t].copies
               /\ thread[t].answer = "error" => child[t].pc \in {"none", "reaped"}
    BY <2>1 DEF IInv, Staged, StagedCall, WriteHeld
  <2>4. ASSUME NEW f \in Fd
        PROVE  LET pipes == UNION {Ends(t) : t \in {u \in Threads : thread[u].answer = "pipe"}}
               IN IF f \in pipes THEN fds[f].cloexec ELSE fds[f] = Open[f]
    <3> DEFINE pipes == UNION {Ends(t) : t \in {u \in Threads : thread[u].answer = "pipe"}}
    <3>1. f \in pipes <=> \E t \in Threads : /\ thread[t].answer = "pipe"
                                             /\ f = thread[t].ends[1] \/ f = thread[t].ends[2]
      BY DEF Ends
    <3>2. CASE f \in pipes
      <4>1. PICK t \in Threads : /\ thread[t].answer = "pipe"
                                 /\ f = thread[t].ends[1] \/ f = thread[t].ends[2]
        BY <3>1, <3>2
      <4>2. fds[f].cloexec
        BY <2>1, <4>1 DEF IInv, EndsMarked, HoldsRead, HoldsWrite
      <4> QED
        BY <3>2, <4>2
    <3>3. CASE f \notin pipes
      <4>1. \A t \in Threads : ~ (\/ HoldsRead(t) /\ f = thread[t].ends[1]
                                  \/ HoldsWrite(t) /\ f = thread[t].ends[2])
        BY <2>1, <3>1, <3>3 DEF HoldsRead, HoldsWrite, ReadHeld, WriteHeld
      <4>2. fds[f] = Open[f]
        BY <4>1 DEF IInv, RestKept
      <4> QED
        BY <3>3, <4>2
    <3> QED
      BY <3>2, <3>3
  <2> QED
    BY <2>2, <2>3, <2>4
<1> QED
  BY <1>1, SpawnInvariant, PTL

-----------------------------------------------------------------------------
(* The answers.                                                            *)

(* The process has its standard streams: no end of an error pipe is on one *)
(* of their descriptors.                                                   *)
StandardOpen == \A f \in 0 .. 2 : Open[f] # Closed

(* A sub-process can tell that it fails as long as it may fail.            *)
CanTell(t, c) ==
  c.pc \in InStub =>
    /\ thread[t].ends \in Fd \X Fd /\ thread[t].ends[1] # thread[t].ends[2]
    /\ thread[t].ends[2] >= 3 /\ Open[thread[t].ends[2]] = Closed
    /\ c.fds[thread[t].ends[2]].obj = <<"write", t>>

(* What the error pipe and the answer say is what happened.                *)
Told(t) ==
  /\ CanTell(t, child[t])
  /\ channel[t] = "failure" => child[t].pc = "dead" /\ thread[t].pc # "reap"
  /\ child[t].pc = "dead" => channel[t] = "failure" \/ thread[t].pc = "reap"
  /\ thread[t].pc \in {"unlock", "close", "read"} /\ Spawning(t) /\ thread[t].answer # "error" =>
       child[t].pc # "none"
  /\ child[t].pc = "reaped" => thread[t].answer = "error"
  /\ thread[t].answer = "pid" => child[t].pc \in {"program", "killed"}
  /\ thread[t].answer = "no memory" => child[t].pc = "none"
  /\ thread[t].pc = "created" => child[t].pc = "program"
  /\ thread[t].pc \in {"clean", "done"} /\ Spawning(t) =>
       thread[t].answer \in {"error", "pid", "no memory"}
  /\ thread[t].pc = "reap" => thread[t].answer = "error" /\ child[t].pc = "dead"

TInv == IInv /\ \A t \in Threads : Told(t)

LEMMA ForkTold ==
  ASSUME StandardOpen, TInv, NEW t \in Threads, Fork(t)
  PROVE  CanTell(t, child[t])'
<1> DEFINE r == thread[t].ends[1]
           w == thread[t].ends[2]
<1>0. Typed /\ child \in [Threads -> ChildState] /\ thread[t] \in ThreadState
  BY DEF TInv, IInv, Typed
<1>1. thread[t].pc = "fork" /\ thread'[t].ends = thread[t].ends
  BY <1>0, ForkEffect
<1>2. r \in Fd /\ w \in Fd /\ fds[r].obj = <<"read", t>> /\ fds[w].obj = <<"write", t>>
  BY <1>1 DEF TInv, IInv, EndsOpen, HoldsRead, HoldsWrite, ReadHeld, WriteHeld
<1>3. r # w /\ Open[w] = Closed
  BY <1>2, PipeObjects DEF TInv, IInv, RestKept
<1>4. w >= 3
  BY <1>2, <1>3 DEF StandardOpen, Fd
<1>5. thread[t].ends \in Fd \X Fd
  BY <1>0, <1>2 DEF ThreadState, Ends2
<1>6. child[t].pc = "none"
  BY <1>1 DEF TInv, IInv, Staged, StagedCall
<1>7. \/ child' = child
      \/ child' = [child EXCEPT ![t] = [NoChild EXCEPT !.pc = "forked", !.fds = fds, !.masked = TRUE]]
  BY <1>0, ForkEffect
<1>8. child'[t].pc = "none" \/ child'[t].fds = fds
  BY <1>0, <1>6, <1>7 DEF NoChild
<1> HIDE DEF r, w
<1>9. CASE child'[t].pc = "none"
  BY <1>9 DEF CanTell, InStub
<1>10. CASE child'[t].fds = fds
  BY <1>1, <1>2, <1>3, <1>4, <1>5, <1>10 DEF CanTell, r, w
<1> QED
  BY <1>8, <1>9, <1>10

LEMMA ThreadStepTold ==
  ASSUME StandardOpen, TInv, NEW t \in Threads, ThreadStep(t)
  PROVE  \A u \in Threads : Told(u)'
<1>0. /\ Typed /\ child \in [Threads -> ChildState] /\ channel \in [Threads -> {"empty", "failure"}]
      /\ Told(t) /\ StagedCall(t) /\ IInv
  BY DEF TInv, IInv, Typed, Staged
<1>1. /\ thread'[t].req = thread[t].req
      /\ \A u \in Threads \ {t} : thread'[u] = thread[u] /\ child'[u] = child[u]
  BY <1>0, ThreadFrame
<1>2. \A u \in Threads \ {t} : channel'[u] = channel[u]
  BY <1>0 DEF ThreadStep, CopyArguments, Lock, MakePipe, NoPipe, MarkCloexec, MarkFails, Fork, Unlock,
              CloseWriteEnd, ReadChannel, Reap, CloseReadEnd, SpawnWindows
<1>3. ASSUME NEW u \in Threads \ {t} PROVE Told(u)'
  <2>1. Told(u) /\ thread'[u] = thread[u] /\ child'[u] = child[u] /\ channel'[u] = channel[u]
    BY <1>1, <1>2 DEF TInv
  <2> QED
    BY <2>1 DEF Told, CanTell
<1>4. Told(t)'
  <2>0. child'[t] = child[t] /\ thread'[t].ends = thread[t].ends => CanTell(t, child[t])'
    BY <1>0 DEF Told, CanTell
  <2> USE DEF Told, StagedCall
  <2>1. CASE CopyArguments(t)
    BY <1>0, <2>0, <2>1, CopyEffect
  <2>2. CASE Lock(t)
    BY <1>0, <2>0, <2>2, LockEffect
  <2>3. CASE MakePipe(t)
    <3>1. /\ thread[t].pc = "pipe" /\ child' = child /\ channel' = channel
          /\ thread'[t].pc \in {"mark read", "fork", "done"}
          /\ Spawning(t) => thread'[t].pc # "done" /\ thread'[t].answer = thread[t].answer
          /\ ~Spawning(t) => thread'[t].answer = "pipe"
      BY <1>0, <2>3, MakePipeEffect
    <3>2. CanTell(t, child[t])'
      BY <1>0, <3>1 DEF CanTell, InStub
    <3> QED
      BY <1>0, <3>1, <3>2
  <2>4. CASE NoPipe(t)
    BY <1>0, <2>0, <2>4, NoPipeEffect
  <2>5. CASE MarkCloexec(t)
    BY <1>0, <2>0, <2>5, MarkEffect
  <2>6. CASE Fork(t)
    <3>1. thread[t].pc = "fork" /\ channel' = channel /\ thread'[t].pc \in {"unlock", "close"}
      BY <1>0, <2>6, ForkEffect
    <3>2. CanTell(t, child[t])'
      BY <2>6, ForkTold
    <3>3. CASE /\ thread'[t].answer = thread[t].answer
               /\ child' = [child EXCEPT ![t] =
                    [NoChild EXCEPT !.pc = "forked", !.fds = fds, !.masked = TRUE]]
      <4>1. child'[t].pc = "forked"
        BY <1>0, <3>3 DEF NoChild
      <4>2. thread[t].answer \notin {"pid", "no memory", "error"}
        BY <1>0, <3>1
      <4> QED
        BY <1>0, <3>1, <3>2, <3>3, <4>1, <4>2
    <3>4. CASE thread'[t].answer = "error" /\ child' = child
      BY <1>0, <3>1, <3>2, <3>4
    <3> QED
      BY <1>0, <2>6, <3>3, <3>4, ForkEffect
  <2>7. CASE Unlock(t)
    <3>1. /\ thread[t].pc = "unlock" /\ thread'[t].pc = (IF Spawning(t) THEN "close" ELSE "done")
          /\ thread'[t].answer = thread[t].answer /\ child' = child /\ channel' = channel
          /\ thread'[t].ends = thread[t].ends
      BY <1>0, <2>7, UnlockEffect
    <3>2. CASE Spawning(t)
      BY <1>0, <2>0, <3>1, <3>2
    <3>3. CASE ~Spawning(t)
      BY <1>0, <2>0, <3>1, <3>3
    <3> QED
      BY <3>2, <3>3
  <2>8. CASE CloseWriteEnd(t)
    <3>1. /\ thread[t].pc = "close" /\ child' = child /\ channel' = channel
          /\ thread'[t].pc = (IF thread[t].answer = "error" THEN "clean" ELSE "read")
          /\ thread'[t].answer = thread[t].answer /\ thread'[t].ends = thread[t].ends
      BY <1>0, <2>8, CloseWriteEffect
    <3>2. CASE thread[t].answer = "error"
      BY <1>0, <2>0, <3>1, <3>2
    <3>3. CASE thread[t].answer # "error"
      BY <1>0, <2>0, <3>1, <3>3
    <3> QED
      BY <3>2, <3>3
  <2>9. CASE ReadChannel(t)
    <3>1. thread[t].pc = "read" /\ child' = child /\ thread'[t].ends = thread[t].ends
      BY <1>0, <2>9, ReadEffect
    <3>2. CASE channel[t] = "failure"
      <4>0. /\ channel' = [channel EXCEPT ![t] = "empty"]
            /\ thread' = [thread EXCEPT ![t].pc = "reap", ![t].answer = "error"]
        BY <2>9, <3>2 DEF ReadChannel
      <4>1. thread'[t].pc = "reap" /\ thread'[t].answer = "error" /\ channel'[t] = "empty"
        BY <1>0, <4>0 DEF Typed, ThreadState
      <4> QED
        BY <1>0, <2>0, <3>1, <3>2, <4>1
    <3>3. CASE channel[t] = "empty"
      <4>1. thread'[t].pc = "clean" /\ thread'[t].answer = "pid" /\ channel' = channel /\ ~Written(t)
        BY <1>0, <2>9, <3>3, ReadEffect DEF ReadChannel, Typed, ThreadState
      <4>2. child[t].pc \notin InStub
        BY <1>0, <4>1 DEF CanTell, Written, Holds
      <4>3. child[t].pc \in {"program", "killed"}
        BY <1>0, <3>1, <3>3, <4>2 DEF ChildState, ChildPc
      <4> QED
        BY <1>0, <2>0, <3>1, <3>3, <4>1, <4>3
    <3> QED
      BY <1>0, <3>2, <3>3
  <2>10. CASE Reap(t)
    <3>1. child' = [child EXCEPT ![t].pc = "reaped"]
      BY <1>0, <2>10, ReapEffect
    <3>2. child'[t].pc = "reaped"
      BY <1>0, <3>1 DEF ChildState
    <3> QED
      BY <1>0, <2>10, <3>2, ReapEffect DEF CanTell, InStub
  <2>11. CASE CloseReadEnd(t)
    BY <1>0, <2>0, <2>11, CloseReadEffect
  <2>12. CASE SpawnWindows(t)
    <3>1. channel' = channel /\ thread'[t].ends = thread[t].ends
      BY <1>0, <2>12, WindowsEffect
    <3>2. CASE thread[t].pc = "created" /\ thread'[t].pc = "done" /\ thread'[t].answer = "pid"
               /\ child' = child
      BY <1>0, <2>0, <3>1, <3>2
    <3>3. CASE thread[t].pc = "call" /\ thread'[t].pc = "done" /\ thread'[t].answer = "error"
               /\ child' = child
      BY <1>0, <2>0, <3>1, <3>3
    <3>4. CASE /\ thread[t].pc = "call" /\ thread'[t].pc = "created"
               /\ thread'[t].answer = thread[t].answer
               /\ \E table : child' = [child EXCEPT ![t] =
                    [NoChild EXCEPT !.pc = "program",
                       !.cwd = IF thread[t].req.cwd = "path" THEN "asked" ELSE "parent",
                       !.fds = table]]
      <4>1. child'[t].pc = "program"
        BY <1>0, <3>4 DEF NoChild
      <4>2. CanTell(t, child[t])'
        BY <4>1 DEF CanTell, InStub
      <4>3. thread[t].answer \notin {"pid", "no memory", "error"}
        BY <1>0, <3>4
      <4> QED
        BY <1>0, <3>1, <3>4, <4>1, <4>2, <4>3
    <3> QED
      BY <1>0, <2>12, <3>2, <3>3, <3>4, WindowsEffect
  <2>13. CASE MarkFails(t)
    BY <1>0, <2>0, <2>13, MarkFailsEffect
  <2> QED
    BY <2>1, <2>2, <2>3, <2>4, <2>5, <2>6, <2>7, <2>8, <2>9, <2>10, <2>11, <2>12, <2>13 DEF ThreadStep
<1> QED
  BY <1>3, <1>4

LEMMA CloseElsewhere ==
  ASSUME NEW table \in [Fd -> Descriptor], NEW f, NEW g \in Fd, f # g
  PROVE  Close(table, f)[g] = table[g]
BY DEF Close

(* A step of a sub-process leaves its end of the pipe where it was.        *)
LEMMA FailTells ==
  ASSUME Typed, NEW t \in Threads, Fail(t), CanTell(t, child[t]), child[t].pc \in InStub
  PROVE  CanTell(t, child'[t])
<1>1. child[t] \in ChildState /\ child' = [child EXCEPT ![t] =
                                   [child[t] EXCEPT !.pc = "fail", !.masked = TRUE]]
  BY DEF Typed, Fail, Silent, Step
<1>2. child'[t].fds = child[t].fds
  BY <1>1 DEF Typed, ChildState
<1> QED
  BY <1>2 DEF CanTell

LEMMA ChildStepCanTell ==
  ASSUME Typed, NEW t \in Threads, ChildStep(t) \/ Killed(t), CanTell(t, child[t])
  PROVE  CanTell(t, child'[t])
<1> DEFINE c == child[t]
           d == child'[t]
           w == thread[t].ends[2]
<1>0. /\ child \in [Threads -> ChildState] /\ c \in ChildState /\ c.fds \in [Fd -> Descriptor]
      /\ Std(t) \in [1 .. 3 -> Given] /\ thread[t].req.cwdFd \in Given
  BY DEF Typed, ChildState, ThreadState, Request, Std
<1>1. /\ c.pc \in InStub
      /\ thread[t].ends[1] # w /\ w >= 3 /\ w \in Fd /\ w \notin Given
      /\ c.fds[w].obj = <<"write", t>>
  <2>1. c.pc \in InStub
    BY DEF ChildStep, Killed, ChildAt, CloseOwnReadEnd, SetPgid, ResetHandlers, ChangeDirectory,
           MoveStreams, Unblock, Exec, WriteFailure, InStub
  <2> QED
    BY <2>1 DEF CanTell, Given
<1>2. d.pc \notin InStub \/ d.fds[w] = c.fds[w] => CanTell(t, d)
  BY <1>1 DEF CanTell
<1> USE DEF ChildAt, Silent, Step
<1>4. CASE CloseOwnReadEnd(t)
  <2>1. d = [c EXCEPT !.pc = IF thread[t].req.setpgid THEN "pgid" ELSE "signals",
                      !.fds = Close(@, thread[t].ends[1])]
    BY <1>0, <1>4 DEF CloseOwnReadEnd
  <2>2. d.fds = Close(c.fds, thread[t].ends[1])
    BY <1>0, <2>1 DEF ChildState
  <2> QED
    BY <1>0, <1>1, <1>2, <2>2, CloseElsewhere
<1>5. CASE SetPgid(t)
  <2>1. CASE d = [c EXCEPT !.pc = "signals", !.group = "asked"]
    <3>1. d.fds = c.fds
      BY <1>0, <2>1 DEF ChildState
    <3> QED
      BY <1>2, <3>1
  <2> QED
    BY <1>0, <1>1, <1>5, <2>1, FailTells DEF SetPgid
<1>6. CASE ResetHandlers(t)
  <2>1. d = [c EXCEPT !.pc = IF thread[t].req.cwd = "inherit" THEN "streams" ELSE "cwd",
                      !.handlers = "default"]
    BY <1>0, <1>6 DEF ResetHandlers
  <2>2. d.fds = c.fds
    BY <1>0, <2>1 DEF ChildState
  <2> QED
    BY <1>2, <2>2
<1>7. CASE ChangeDirectory(t)
  <2>1. CASE d = [c EXCEPT !.pc = "streams", !.cwd = "asked",
                    !.fds = IF thread[t].req.cwd = "fd" THEN Close(@, thread[t].req.cwdFd) ELSE @]
    <3>1. d.fds \in {c.fds, Close(c.fds, thread[t].req.cwdFd)}
      BY <1>0, <2>1 DEF ChildState
    <3>2. thread[t].req.cwdFd # w
      BY <1>0, <1>1
    <3> QED
      BY <1>0, <1>1, <1>2, <3>1, <3>2, CloseElsewhere
  <2> QED
    BY <1>0, <1>1, <1>7, <2>1, FailTells DEF ChangeDirectory
<1>8. CASE MoveStreams(t)
  <2>1. CASE d = [c EXCEPT !.pc = "unblock", !.fds = Redirect(@, Std(t))]
    <3>1. d.fds = Redirect(c.fds, Std(t))
      BY <1>0, <2>1 DEF ChildState
    <3>2. \A i \in DOMAIN Std(t) : Std(t)[i] # w
      BY <1>0, <1>1
    <3>3. d.fds[w] = c.fds[w]
      <4> HIDE DEF c, d, w
      <4> QED
        BY <1>1, <3>1, <3>2 DEF Redirect, Fd
    <3> QED
      BY <1>2, <3>3
  <2> QED
    BY <1>0, <1>1, <1>8, <2>1, FailTells DEF MoveStreams
<1>9. CASE Unblock(t)
  <2>1. d = [c EXCEPT !.pc = "exec", !.masked = FALSE]
    BY <1>0, <1>9 DEF Unblock
  <2>2. d.fds = c.fds
    BY <1>0, <2>1 DEF ChildState
  <2> QED
    BY <1>2, <2>2
<1>10. CASE Exec(t)
  <2>1. CASE d = [c EXCEPT !.pc = "program", !.fds = AfterExec(@)]
    <3>1. d.pc = "program"
      BY <1>0, <2>1 DEF ChildState
    <3> QED
      BY <3>1 DEF CanTell, InStub
  <2> QED
    BY <1>0, <1>1, <1>10, <2>1, FailTells DEF Exec
<1>11. CASE WriteFailure(t) \/ Killed(t)
  <2>1. PICK pc \in {"dead", "killed"} : d = [c EXCEPT !.pc = pc, !.fds = [f \in Fd |-> Closed]]
    BY <1>0, <1>11 DEF WriteFailure, Killed, Gone
  <2>2. d.pc = pc
    BY <1>0, <2>1 DEF ChildState
  <2> QED
    BY <2>2 DEF CanTell, InStub
<1> QED
  BY <1>4, <1>5, <1>6, <1>7, <1>8, <1>9, <1>10, <1>11 DEF ChildStep

(* It dies when it has written its failure, and only then.                 *)
LEMMA ChildStepDies ==
  ASSUME Typed, NEW t \in Threads, ChildStep(t) \/ Killed(t), CanTell(t, child[t])
  PROVE  \/ child'[t].pc \in InStub \cup {"program", "killed"} /\ channel' = channel
         \/ child'[t].pc = "dead" /\ channel' = [channel EXCEPT ![t] = "failure"]
<1> DEFINE c == child[t]
           d == child'[t]
<1>0. child \in [Threads -> ChildState] /\ c \in ChildState
  BY DEF Typed
<1>1. CASE WriteFailure(t)
  <2>1. c.fds[thread[t].ends[2]].obj = <<"write", t>>
    BY <1>1 DEF WriteFailure, ChildAt, CanTell, InStub
  <2>2. channel' = [channel EXCEPT ![t] = "failure"]
    BY <1>1, <2>1 DEF WriteFailure
  <2>3. d = [c EXCEPT !.pc = "dead", !.fds = [f \in Fd |-> Closed]]
    BY <1>0, <1>1 DEF WriteFailure, Gone, Step
  <2>4. d.pc = "dead"
    BY <1>0, <2>3 DEF ChildState
  <2> QED
    BY <2>2, <2>4
<1>2. CASE Killed(t)
  <2>1. d = [c EXCEPT !.pc = "killed", !.fds = [f \in Fd |-> Closed]] /\ channel' = channel
    BY <1>0, <1>2 DEF Killed, Gone, Silent, Step
  <2>2. d.pc = "killed"
    BY <1>0, <2>1 DEF ChildState
  <2> QED
    BY <2>1, <2>2
<1>3. CASE ChildStep(t) /\ ~WriteFailure(t)
  <2>1. channel' = channel
    BY <1>3 DEF ChildStep, CloseOwnReadEnd, SetPgid, ResetHandlers, ChangeDirectory, MoveStreams,
                Unblock, Exec, Fail, Silent
  <2>2. ChildState = [pc : ChildPc, fds : [Fd -> Descriptor], masked : BOOLEAN,
                      handlers : {"parent", "default"}, group : {"parent", "asked"},
                      cwd : {"parent", "asked"}]
    BY DEF ChildState
  <2>3. d.pc \in {"fail", "pgid", "signals", "streams", "cwd", "unblock", "exec", "program"}
    <3> USE DEF Silent, Step
    <3>1. CASE Fail(t)
      BY <1>0, <2>2, <3>1 DEF Fail
    <3>2. CASE CloseOwnReadEnd(t)
      BY <1>0, <2>2, <3>2 DEF CloseOwnReadEnd
    <3>3. CASE SetPgid(t)
      BY <1>0, <2>2, <3>1, <3>3 DEF SetPgid
    <3>4. CASE ResetHandlers(t)
      BY <1>0, <2>2, <3>4 DEF ResetHandlers
    <3>5. CASE ChangeDirectory(t)
      BY <1>0, <2>2, <3>1, <3>5 DEF ChangeDirectory
    <3>6. CASE MoveStreams(t)
      BY <1>0, <2>2, <3>1, <3>6 DEF MoveStreams
    <3>7. CASE Unblock(t)
      BY <1>0, <2>2, <3>7 DEF Unblock
    <3>8. CASE Exec(t)
      BY <1>0, <2>2, <3>1, <3>8 DEF Exec
    <3> QED
      BY <1>3, <3>2, <3>3, <3>4, <3>5, <3>6, <3>7, <3>8 DEF ChildStep
  <2> QED
    BY <2>1, <2>3 DEF InStub
<1> QED
  BY <1>1, <1>2, <1>3

LEMMA ChildStepTold ==
  ASSUME TInv, NEW t \in Threads, ChildStep(t) \/ Killed(t)
  PROVE  \A u \in Threads : Told(u)'
<1>0. Typed /\ IInv /\ Told(t) /\ channel \in [Threads -> {"empty", "failure"}]
  BY DEF TInv, IInv, Typed
<1>1. PICK d : ChildGoes(t, d)
  BY <1>0, ChildStepGoes
<1>9. thread' = thread
  BY DEF ChildStep, Killed, CloseOwnReadEnd, SetPgid, ResetHandlers, ChangeDirectory, MoveStreams,
         Unblock, Exec, WriteFailure, Fail, Silent, Step
<1>2. /\ thread' = thread /\ child[t].pc \in InStub
      /\ \A u \in Threads \ {t} : child'[u] = child[u]
  BY <1>0, <1>1, <1>9 DEF ChildGoes, Typed
<1>3. CanTell(t, child'[t])
  BY <1>0, ChildStepCanTell DEF Told
<1>4. \/ child'[t].pc \in InStub \cup {"program", "killed"} /\ channel' = channel
      \/ child'[t].pc = "dead" /\ channel' = [channel EXCEPT ![t] = "failure"]
  BY <1>0, ChildStepDies DEF Told
<1>5. Told(t)'
  <2>1. CanTell(t, child[t])'
    BY <1>2, <1>3 DEF CanTell
  <2>2. /\ thread[t].answer \notin {"pid", "no memory"} /\ thread[t].pc # "created"
        /\ channel[t] # "failure" /\ child[t].pc \notin {"program", "killed", "none", "reaped", "dead"}
    BY <1>0, <1>2 DEF Told, InStub
  <2>3. thread[t].pc # "reap"
    BY <1>0, <2>2 DEF Told
  <2> QED
    BY <1>0, <1>2, <1>4, <2>1, <2>2, <2>3 DEF Told, InStub
<1>6. ASSUME NEW u \in Threads \ {t} PROVE Told(u)'
  <2>1. channel'[u] = channel[u] /\ Told(u)
    BY <1>0, <1>4 DEF TInv
  <2> QED
    BY <1>2, <2>1 DEF Told, CanTell
<1> QED
  BY <1>5, <1>6

LEMMA InitTold == ASSUME Init PROVE \A t \in Threads : Told(t)
<1> TAKE t \in Threads
<1>1. PICK req \in [Threads -> Request] : thread = [u \in Threads |-> Fresh(req[u])]
  BY RequestsOfThreads
<1>2. thread[t].pc = "call" /\ thread[t].answer = "none"
  BY <1>1 DEF Fresh
<1>3. child[t].pc = "none" /\ channel[t] = "empty"
  BY DEF Init, NoChild
<1> QED
  BY <1>2, <1>3 DEF Told, CanTell, InStub

LEMMA NextTInv ==
  ASSUME StandardOpen PROVE TInv /\ [Next]_vars => TInv'
<1> SUFFICES ASSUME TInv, [Next]_vars PROVE \A t \in Threads : Told(t)'
  BY NextIInv DEF TInv
<1>1. CASE Next
  BY <1>1, ThreadStepTold, ChildStepTold DEF Next, Progress
<1>2. CASE UNCHANGED vars
  BY <1>2 DEF vars, TInv, Told, CanTell
<1> QED
  BY <1>1, <1>2

(* Where the process has its standard streams, a call that returns a pid   *)
(* started a program and one that raises did not, by whatever way it       *)
(* fails: the error is written on the pipe it made, its sub-process keeps  *)
(* the end it writes on to its end, and the call reads before it answers   *)
(* (spawn_stubs.c:149-183, 430-496).                                       *)
THEOREM AnswersAreTrue == ASSUME StandardOpen PROVE Spec => []ErrorsRaise
<1>1. Init => TInv
  BY InitTold, InitIInv DEF TInv
<1>2. TInv /\ [Next]_vars => TInv'
  BY NextTInv
<1>3. TInv => ErrorsRaise
  <2> SUFFICES ASSUME TInv, NEW t \in Threads, Done(t), Spawning(t)
               PROVE  /\ thread[t].answer = "pid" => child[t].pc \in {"program", "killed"}
                      /\ thread[t].answer # "pid" => child[t].pc \notin {"program"} \cup InStub
    BY DEF ErrorsRaise
  <2>1. Told(t) /\ StagedCall(t)
    BY DEF TInv, IInv, Staged
  <2> QED
    BY <2>1 DEF Told, StagedCall, Done, InStub
<1> QED
  BY <1>1, <1>2, <1>3, PTL DEF Spec


-----------------------------------------------------------------------------
(* What spawn.mli promises of a call, step by step.                        *)

ProgramOf(t) ==
  CASE Running(t) -> StreamsOf(t)
    [] child[t].pc = "killed" -> <<"lost">>
    [] OTHER -> << >>
AnswerOf(t) == IF ~Done(t) THEN "none" ELSE IF thread[t].answer = "pid" THEN "pid" ELSE "error"

(* What a call asks for, its program and its answer go together as they    *)
(* may in SpawnCalls.                                                      *)
Stays(t) == UNCHANGED <<ProgramOf(t), AnswerOf(t)>>
Starts(t) == ProgramOf(t) = << >> /\ AnswerOf(t) = "none" /\ ProgramOf(t)' = Wanted(t) /\ AnswerOf(t)' = "none"
Loses(t) == ProgramOf(t) = << >> /\ AnswerOf(t) = "none" /\ ProgramOf(t)' = <<"lost">> /\ AnswerOf(t)' = "none"
Returns(t) == ProgramOf(t) # << >> /\ AnswerOf(t) = "none" /\ ProgramOf(t)' = ProgramOf(t) /\ AnswerOf(t)' = "pid"
Raises(t) == ProgramOf(t) = << >> /\ AnswerOf(t) = "none" /\ ProgramOf(t)' = << >> /\ AnswerOf(t)' = "error"
Goes(t) ==
  /\ Wanted(t)' = Wanted(t)
  /\ Stays(t) \/ Starts(t) \/ Loses(t) \/ Returns(t) \/ Raises(t)

LEMMA StreamsAsked ==
  ASSUME IInv, NEW t \in Threads, Running(t) PROVE StreamsOf(t) = Wanted(t)
<1>1. \A f \in 0 .. 2 : child[t].fds[f].obj = Open[Std(t)[f + 1]].obj
  BY DEF IInv, Tables, TableOf, Running
<1>2. ASSUME NEW i \in 1 .. 3 PROVE child[t].fds[i - 1].obj = Open[Std(t)[i]].obj
  <2>1. i - 1 \in 0 .. 2 /\ (i - 1) + 1 = i
    OBVIOUS
  <2> QED
    BY <1>1, <2>1
<1> QED
  BY <1>2 DEF StreamsOf, Wanted

(* Streams, a program that is lost and none at all are told apart.         *)
LEMMA ProgramValues ==
  ASSUME IInv, NEW t \in Threads
  PROVE  /\ ProgramOf(t) = << >> <=> child[t].pc \notin {"program", "killed"}
         /\ child[t].pc = "program" => ProgramOf(t) = Wanted(t)
         /\ child[t].pc = "killed" => ProgramOf(t) = <<"lost">>
<1>1. Wanted(t) # << >>
  <2>1. DOMAIN Wanted(t) = 1 .. 3 /\ DOMAIN << >> = {} /\ 1 \in 1 .. 3
    BY DEF Wanted
  <2> QED
    BY <2>1, Zenon
<1>2. <<"lost">> # << >>
  OBVIOUS
<1>3. CASE child[t].pc = "program"
  <2>1. Running(t) /\ ProgramOf(t) = StreamsOf(t)
    BY <1>3 DEF ProgramOf, Running
  <2>2. ProgramOf(t) = Wanted(t)
    BY <2>1, StreamsAsked
  <2> QED
    BY <1>1, <1>3, <2>2
<1>4. CASE child[t].pc = "killed"
  <2>1. ProgramOf(t) = <<"lost">>
    BY <1>4 DEF ProgramOf, Running
  <2> QED
    BY <1>2, <1>4, <2>1
<1>5. CASE child[t].pc \notin {"program", "killed"}
  <2>1. ProgramOf(t) = << >>
    BY <1>5 DEF ProgramOf, Running
  <2> QED
    BY <1>5, <2>1
<1> QED
  BY <1>3, <1>4, <1>5

(* What a call's answer says of its sub-process when it is over.           *)
LEMMA AnswerMeans ==
  ASSUME TInv, NEW t \in Spawners, Done(t)
  PROVE  /\ thread[t].answer = "pid" => child[t].pc \in {"program", "killed"}
         /\ thread[t].answer # "pid" => child[t].pc \in {"none", "reaped"}
<1>1. t \in Threads /\ Spawning(t)
  BY DEF Threads, Spawning
<1>2. Told(t) /\ StagedCall(t)
  BY <1>1 DEF TInv, IInv, Staged
<1> QED
  BY <1>1, <1>2 DEF Told, StagedCall, Done

(* A step of a call that is not over: its program does not change, unless  *)
(* it is the one that makes the process on Windows.                        *)
LEMMA CallStep ==
  ASSUME TInv, NEW t \in Threads, ThreadStep(t)
  PROVE  /\ thread[t].pc # "done"
         /\ \/ child'[t] = child[t]
            \/ thread'[t].pc # "done" /\ child[t].pc \in {"none", "dead"} /\ child'[t].pc \in {"forked", "reaped"}
            \/ thread'[t].pc # "done" /\ child[t].pc = "none" /\ child'[t].pc = "program"
<1>0. /\ Typed /\ child \in [Threads -> ChildState] /\ Told(t) /\ StagedCall(t)
  BY DEF TInv, IInv, Typed, Staged
<1>1. CASE CopyArguments(t)
  BY <1>0, <1>1, CopyEffect
<1>2. CASE Lock(t)
  BY <1>0, <1>2, LockEffect
<1>3. CASE MakePipe(t)
  BY <1>0, <1>3, MakePipeEffect
<1>4. CASE NoPipe(t)
  BY <1>0, <1>4, NoPipeEffect
<1>5. CASE MarkCloexec(t)
  BY <1>0, <1>5, MarkEffect
<1>6. CASE Fork(t)
  <2>1. /\ thread[t].pc = "fork" /\ thread'[t].pc # "done" /\ child[t].pc = "none"
        /\ \/ child' = [child EXCEPT ![t] =
                 [NoChild EXCEPT !.pc = "forked", !.fds = fds, !.masked = TRUE]]
           \/ child' = child
    BY <1>0, <1>6, ForkEffect DEF StagedCall
  <2>2. child' = child \/ child'[t].pc = "forked"
    BY <1>0, <2>1 DEF NoChild
  <2> QED
    BY <2>1, <2>2
<1>7. CASE Unlock(t)
  BY <1>0, <1>7, UnlockEffect
<1>8. CASE CloseWriteEnd(t)
  BY <1>0, <1>8, CloseWriteEffect
<1>9. CASE ReadChannel(t)
  BY <1>0, <1>9, ReadEffect
<1>10. CASE Reap(t)
  <2>1. /\ thread[t].pc = "reap" /\ thread'[t].pc = "clean"
        /\ child' = [child EXCEPT ![t].pc = "reaped"]
    BY <1>0, <1>10, ReapEffect
  <2>2. child'[t].pc = "reaped" /\ child[t].pc = "dead"
    BY <1>0, <2>1 DEF ChildState, Told
  <2> QED
    BY <2>1, <2>2
<1>11. CASE CloseReadEnd(t)
  BY <1>0, <1>11, CloseReadEffect
<1>12. CASE SpawnWindows(t)
  <2>1. CASE child' = child
    BY <1>0, <1>12, <2>1, WindowsEffect
  <2>2. CASE child' # child
    <3>1. /\ thread[t].pc = "call" /\ thread'[t].pc = "created"
          /\ \E table :
               child' = [child EXCEPT ![t] =
                 [NoChild EXCEPT !.pc = "program",
                    !.cwd = IF thread[t].req.cwd = "path" THEN "asked" ELSE "parent",
                    !.fds = table]]
      BY <1>0, <1>12, <2>2, WindowsEffect
    <3>2. child'[t].pc = "program" /\ child[t].pc = "none"
      BY <1>0, <3>1 DEF NoChild, StagedCall
    <3> QED
      BY <3>1, <3>2
  <2> QED
    BY <2>1, <2>2
<1>13. CASE MarkFails(t)
  BY <1>0, <1>13, MarkFailsEffect
<1> QED
  BY <1>1, <1>2, <1>3, <1>4, <1>5, <1>6, <1>7, <1>8, <1>9, <1>10, <1>11, <1>12, <1>13 DEF ThreadStep

ProgramsValued ==
  \A t \in Threads :
    /\ ProgramOf(t) = << >> <=> child[t].pc \notin {"program", "killed"}
    /\ child[t].pc = "program" => ProgramOf(t) = Wanted(t)
    /\ child[t].pc = "killed" => ProgramOf(t) = <<"lost">>

LEMMA ProgramsAreValued == IInv => ProgramsValued
BY ProgramValues DEF ProgramsValued

LEMMA ProgramValuesNext ==
  ASSUME IInv', NEW t \in Threads
  PROVE  /\ ProgramOf(t)' = << >> <=> child'[t].pc \notin {"program", "killed"}
         /\ child'[t].pc = "program" => ProgramOf(t)' = Wanted(t)'
         /\ child'[t].pc = "killed" => ProgramOf(t)' = <<"lost">>
<1>1. ProgramsValued'
  BY ProgramsAreValued, PTL
<1> QED
  BY <1>1 DEF ProgramsValued

LEMMA WantedKept ==
  ASSUME NEW t \in Threads, thread'[t].req = thread[t].req
  PROVE  Wanted(t)' = Wanted(t)
BY DEF Wanted, Std

(* A call that answers: returns when its program was started or lost, and  *)
(* raises when it was not; before that it starts its program at most.      *)
LEMMA ThreadStepCall ==
  ASSUME TInv, TInv', NEW t \in Spawners, ThreadStep(t)
  PROVE  Goes(t)
<1>0. t \in Threads /\ Typed /\ IInv /\ IInv'
  BY DEF Threads, TInv, IInv
<1>1. Wanted(t)' = Wanted(t)
  BY <1>0, ThreadFrame, WantedKept
<1>2. /\ ProgramOf(t) = << >> <=> child[t].pc \notin {"program", "killed"}
      /\ child[t].pc = "program" => ProgramOf(t) = Wanted(t)
      /\ child[t].pc = "killed" => ProgramOf(t) = <<"lost">>
  BY <1>0, ProgramValues
<1>3. /\ ProgramOf(t)' = << >> <=> child'[t].pc \notin {"program", "killed"}
      /\ child'[t].pc = "program" => ProgramOf(t)' = Wanted(t)'
      /\ child'[t].pc = "killed" => ProgramOf(t)' = <<"lost">>
  BY <1>0, ProgramValuesNext
<1>4. AnswerOf(t) = "none"
  BY <1>0, CallStep DEF AnswerOf, Done
<1>5. CASE thread'[t].pc = "done"
  <2>1. child'[t] = child[t]
    BY <1>0, <1>5, CallStep
  <2>2. /\ thread'[t].answer = "pid" => child'[t].pc \in {"program", "killed"}
        /\ thread'[t].answer # "pid" => child'[t].pc \in {"none", "reaped"}
    <3>1. Told(t)' /\ StagedCall(t)' /\ Spawning(t)'
      BY <1>0 DEF TInv, IInv, Staged, Spawning
    <3> QED
      BY <1>5, <3>1 DEF Told, StagedCall
  <2>3. ProgramOf(t)' = ProgramOf(t)
    BY <1>1, <1>2, <1>3, <2>1, <2>2
  <2>4. AnswerOf(t)' = IF thread'[t].answer = "pid" THEN "pid" ELSE "error"
    BY <1>5 DEF AnswerOf, Done
  <2>5. CASE thread'[t].answer = "pid"
    BY <1>1, <1>2, <1>4, <2>1, <2>2, <2>3, <2>4, <2>5 DEF Goes, Returns
  <2>6. CASE thread'[t].answer # "pid"
    BY <1>1, <1>2, <1>3, <1>4, <2>1, <2>2, <2>3, <2>4, <2>6 DEF Goes, Raises
  <2> QED
    BY <2>5, <2>6
<1>6. CASE thread'[t].pc # "done"
  <2>1. AnswerOf(t)' = "none"
    BY <1>6 DEF AnswerOf, Done
  <2>2. CASE child'[t] = child[t]
    <3>1. ProgramOf(t)' = ProgramOf(t)
      BY <1>1, <1>2, <1>3, <2>2
    <3> QED
      BY <1>1, <1>4, <2>1, <3>1 DEF Goes, Stays
  <2>3. CASE child[t].pc \in {"none", "dead"} /\ child'[t].pc \in {"forked", "reaped"}
    <3>1. ProgramOf(t) = << >> /\ ProgramOf(t)' = << >>
      BY <1>2, <1>3, <2>3
    <3> QED
      BY <1>1, <1>4, <2>1, <3>1 DEF Goes, Stays
  <2>4. CASE child[t].pc = "none" /\ child'[t].pc = "program"
    <3>1. ProgramOf(t) = << >> /\ ProgramOf(t)' = Wanted(t)
      BY <1>1, <1>2, <1>3, <2>4
    <3> QED
      BY <1>1, <1>4, <2>1, <3>1 DEF Goes, Starts
  <2> QED
    BY <1>0, <2>2, <2>3, <2>4, CallStep
<1> QED
  BY <1>5, <1>6

(* A sub-process starts the program of its call, or is lost, before the    *)
(* call has answered.                                                      *)
LEMMA ChildStepCall ==
  ASSUME TInv, TInv', NEW t \in Spawners, ChildStep(t) \/ Killed(t)
  PROVE  Goes(t)
<1>0. t \in Threads /\ Typed /\ IInv /\ IInv'
  BY DEF Threads, TInv, IInv
<1>1. PICK d : ChildGoes(t, d)
  BY <1>0, ChildStepGoes
<1>2. thread' = thread
  BY DEF ChildStep, Killed, CloseOwnReadEnd, SetPgid, ResetHandlers, ChangeDirectory, MoveStreams,
         Unblock, Exec, WriteFailure, Fail, Silent, Step
<1>3. child[t].pc \in InStub
  BY <1>1 DEF ChildGoes
<1>4. Wanted(t)' = Wanted(t)
  BY <1>0, <1>2, WantedKept
<1>5. thread[t].pc # "done"
  BY <1>3, AnswerMeans DEF Done, InStub
<1>6. AnswerOf(t) = "none" /\ AnswerOf(t)' = "none"
  BY <1>2, <1>5 DEF AnswerOf, Done
<1>7. ProgramOf(t) = << >>
  BY <1>0, <1>3, ProgramValues DEF InStub
<1>8. /\ ProgramOf(t)' = << >> <=> child'[t].pc \notin {"program", "killed"}
      /\ child'[t].pc = "program" => ProgramOf(t)' = Wanted(t)'
      /\ child'[t].pc = "killed" => ProgramOf(t)' = <<"lost">>
  BY <1>0, ProgramValuesNext
<1>9. CASE child'[t].pc = "program"
  BY <1>4, <1>6, <1>7, <1>8, <1>9 DEF Goes, Starts
<1>10. CASE child'[t].pc = "killed"
  BY <1>4, <1>6, <1>7, <1>8, <1>10 DEF Goes, Loses
<1>11. CASE child'[t].pc \notin {"program", "killed"}
  BY <1>4, <1>6, <1>7, <1>8, <1>11 DEF Goes, Stays
<1> QED
  BY <1>9, <1>10, <1>11

LEMMA Others ==
  ASSUME NEW t, NEW u \in Threads, thread'[u] = thread[u], child'[u] = child[u]
  PROVE  Wanted(u)' = Wanted(u) /\ Stays(u)
BY DEF Wanted, Std, Stays, ProgramOf, AnswerOf, Running, StreamsOf, Done

(* Every step is one of one call, as seen from outside, or of none.        *)
LEMMA StepOfOne ==
  ASSUME TInv, TInv', Next
  PROVE  /\ \A u \in Spawners : Wanted(u)' = Wanted(u)
         /\ \/ \A u \in Spawners : Stays(u)
            \/ \E t \in Spawners : Goes(t) /\ \A u \in Spawners \ {t} : Stays(u)
<1>0. Typed /\ Spawners \subseteq Threads
  BY DEF TInv, IInv, Threads
<1>1. PICK t \in Threads : ThreadStep(t) \/ ChildStep(t) \/ Killed(t)
  BY DEF Next, Progress
<1>2. \A u \in Threads \ {t} : thread'[u] = thread[u] /\ child'[u] = child[u]
  <2>1. CASE ThreadStep(t)
    BY <1>0, <2>1, ThreadFrame
  <2>2. CASE ChildStep(t) \/ Killed(t)
    <3>1. thread' = thread
      BY <2>2 DEF ChildStep, Killed, CloseOwnReadEnd, SetPgid, ResetHandlers, ChangeDirectory,
                  MoveStreams, Unblock, Exec, WriteFailure, Fail, Silent, Step
    <3>2. PICK d : ChildGoes(t, d)
      BY <1>0, <2>2, ChildStepGoes
    <3> QED
      BY <1>0, <3>1, <3>2 DEF ChildGoes, Typed
  <2> QED
    BY <1>1, <2>1, <2>2
<1>3. \A u \in Threads \ {t} : Wanted(u)' = Wanted(u) /\ Stays(u)
  BY <1>2, Others
<1>4. CASE t \in Spawners
  <2>1. Goes(t)
    BY <1>1, <1>4, ThreadStepCall, ChildStepCall
  <2> QED
    BY <1>0, <1>3, <1>4, <2>1 DEF Goes
<1>5. CASE t \notin Spawners
  BY <1>0, <1>3, <1>5
<1> QED
  BY <1>4, <1>5

(* The state that SpawnCalls sees.                                         *)
Asked == [t \in Spawners |-> Wanted(t)]
Programs == [t \in Spawners |-> ProgramOf(t)]
Answers == [t \in Spawners |-> AnswerOf(t)]

LEMMA StepImplements ==
  ASSUME TInv, TInv', Next PROVE [Calls!Next]_(Calls!vars)
<1>1. Asked' = Asked
  BY StepOfOne DEF Asked
<1>2. CASE \A u \in Spawners : Stays(u)
  <2>1. Programs' = Programs /\ Answers' = Answers
    BY <1>2 DEF Stays, Programs, Answers
  <2> QED
    BY <1>1, <2>1 DEF Calls!vars, Asked, Programs, Answers, ProgramOf, AnswerOf
<1>3. ASSUME NEW t \in Spawners, Goes(t), \A u \in Spawners \ {t} : Stays(u)
      PROVE  [Calls!Next]_(Calls!vars)
  <2>1. /\ Programs' = [Programs EXCEPT ![t] = ProgramOf(t)']
        /\ Answers' = [Answers EXCEPT ![t] = AnswerOf(t)']
    BY <1>3 DEF Stays, Programs, Answers
  <2>2. Programs[t] = ProgramOf(t) /\ Answers[t] = AnswerOf(t) /\ Asked[t] = Wanted(t)
    BY DEF Programs, Answers, Asked
  <2>3. Stays(t) => Programs' = Programs /\ Answers' = Answers
    BY <2>1, <2>2 DEF Stays, Programs, Answers
  <2>4. Starts(t) => Programs[t] = << >> /\ Answers[t] = "none"
                     /\ Programs' = [Programs EXCEPT ![t] = Asked[t]] /\ Answers' = Answers
    BY <2>1, <2>2 DEF Starts, Programs, Answers
  <2>5. Loses(t) => Programs[t] = << >> /\ Answers[t] = "none"
                    /\ Programs' = [Programs EXCEPT ![t] = <<"lost">>] /\ Answers' = Answers
    BY <2>1, <2>2 DEF Loses, Programs, Answers
  <2>6. Returns(t) => Programs[t] # << >> /\ Answers[t] = "none"
                      /\ Programs' = Programs /\ Answers' = [Answers EXCEPT ![t] = "pid"]
    BY <2>1, <2>2 DEF Returns, Programs, Answers
  <2>7. Raises(t) => Programs[t] = << >> /\ Answers[t] = "none"
                     /\ Programs' = Programs /\ Answers' = [Answers EXCEPT ![t] = "error"]
    BY <2>1, <2>2 DEF Raises, Programs, Answers
  <2>8. Calls!vars = <<Asked, Programs, Answers>>
    BY DEF Calls!vars, Asked, Programs, Answers, ProgramOf, AnswerOf
  <2> QED
    BY <1>1, <1>3, <2>3, <2>4, <2>5, <2>6, <2>7
    DEF Goes, Calls!vars, Calls!Next, Calls!Start, Calls!Lose, Calls!Return, Calls!Raise, Calls!Answer,
        Calls!Nothing, Calls!Lost, Asked, Programs, Answers, ProgramOf, AnswerOf
<1> QED
  BY <1>2, <1>3, StepOfOne

LEMMA InitImplements == ASSUME Init PROVE Calls!Init
<1> DEFINE All == UNION {Requests[t] : t \in Spawners}
           Streams == {[i \in 1 .. 3 |-> Open[r.std[i]].obj] : r \in All}
<1>1. PICK req \in [Threads -> All] :
        /\ \A t \in Spawners : req[t] \in Requests[t]
        /\ thread = [t \in Threads |-> Fresh(req[t])]
  BY DEF Init
<1>2. \A t \in Spawners : t \in Threads
  BY DEF Threads
<1>3. ASSUME NEW t \in Spawners
      PROVE  Wanted(t) \in Streams /\ ProgramOf(t) = << >> /\ AnswerOf(t) = "none"
  <2>1. thread[t] = Fresh(req[t])
    BY <1>1, <1>2
  <2>2. thread[t].req = req[t] /\ thread[t].pc = "call"
    BY <2>1 DEF Fresh
  <2>3. child[t].pc = "none"
    BY <1>2 DEF Init, NoChild
  <2>4. ProgramOf(t) = << >>
    BY <2>3 DEF ProgramOf, Running
  <2>5. Wanted(t) = [i \in 1 .. 3 |-> Open[req[t].std[i]].obj] /\ req[t] \in All
    BY <1>1, <1>2, <2>2 DEF Wanted, Std
  <2> QED
    BY <2>2, <2>4, <2>5 DEF AnswerOf, Done
<1> HIDE DEF All, Streams
<1>4. /\ Asked \in [Spawners -> Streams]
      /\ Programs = [t \in Spawners |-> << >>] /\ Answers = [t \in Spawners |-> "none"]
  BY <1>3 DEF Asked, Programs, Answers
<1> QED
  BY <1>4 DEF Calls!Init, Calls!Nothing, Asked, Programs, Answers, ProgramOf, AnswerOf, Streams, All

(* Where the process has its standard streams, the calls and their         *)
(* sub-processes implement what spawn.mli promises of a call, as to        *)
(* safety: every step is a step of one call of SpawnCalls, or none.  A     *)
(* program is started once, on the streams asked for and before the        *)
(* answer; an answer is given once, and never a program after an error.    *)
THEOREM CallsImplementPromise ==
  ASSUME StandardOpen PROVE Spec => Calls!Init /\ [][Calls!Next]_(Calls!vars)
<1>1. Init => TInv /\ Calls!Init
  BY InitTold, InitIInv, InitImplements DEF TInv
<1>2. TInv /\ [Next]_vars => TInv'
  BY NextTInv
<1>3. TInv /\ TInv' /\ [Next]_vars => [Calls!Next]_(Calls!vars)
  <2>1. ASSUME TInv, TInv', Next PROVE [Calls!Next]_(Calls!vars)
    BY <2>1, StepImplements
  <2>2. ASSUME UNCHANGED vars PROVE [Calls!Next]_(Calls!vars)
    BY <2>2 DEF vars, Calls!vars, Wanted, Std, Running, StreamsOf, Done
  <2> QED
    BY <2>1, <2>2
<1> QED
  BY <1>1, <1>2, <1>3, PTL DEF Spec
=============================================================================
