----------------------------- MODULE SpawnCalls -----------------------------
(***************************************************************************)
(* What Spawn.spawn promises (spawn.mli): a call answers once; it answers  *)
(* with a pid when the program was started on the standard streams asked   *)
(* for, and raises when it was not, in which case it never is.  A          *)
(* sub-process that is killed before it becomes the program is all the     *)
(* same answered with its pid.                                             *)
(***************************************************************************)
CONSTANTS Calls, Streams

VARIABLES
  asked,    \* the streams each call asks for
  program,  \* what became of each call's program: nothing, lost, its streams
  answer    \* the answer of each call

vars == <<asked, program, answer>>

Nothing == << >>
Lost == <<"lost">>

Init ==
  /\ asked \in [Calls -> Streams]
  /\ program = [c \in Calls |-> Nothing]
  /\ answer = [c \in Calls |-> "none"]

Start(c) ==
  /\ program[c] = Nothing /\ answer[c] = "none"
  /\ program' = [program EXCEPT ![c] = asked[c]]
  /\ UNCHANGED <<asked, answer>>

Lose(c) ==
  /\ program[c] = Nothing /\ answer[c] = "none"
  /\ program' = [program EXCEPT ![c] = Lost]
  /\ UNCHANGED <<asked, answer>>

Return(c) ==
  /\ program[c] # Nothing /\ answer[c] = "none"
  /\ answer' = [answer EXCEPT ![c] = "pid"]
  /\ UNCHANGED <<asked, program>>

Raise(c) ==
  /\ program[c] = Nothing /\ answer[c] = "none"
  /\ answer' = [answer EXCEPT ![c] = "error"]
  /\ UNCHANGED <<asked, program>>

Answer(c) == Return(c) \/ Raise(c)
Next == \E c \in Calls : Start(c) \/ Lose(c) \/ Answer(c)

Spec == Init /\ [][Next]_vars /\ WF_vars(\E c \in Calls : Answer(c))
=============================================================================
