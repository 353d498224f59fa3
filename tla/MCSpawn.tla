------------------------------ MODULE MCSpawn ------------------------------
(* Two calls of spawn and one of safe_pipe, in a process that has a file   *)
(* its children inherit and a directory they do not, and five descriptors  *)
(* left: enough for two pipes, not for three.                              *)
EXTENDS Spawn

MCRequest(std, cwd, pgid, vfork) ==
  [std |-> std, cwd |-> cwd, cwdFd |-> 4, setpgid |-> pgid, vfork |-> vfork]

MCRequests ==
  << { MCRequest(<<2, 0, 1>>, "path", TRUE, FALSE) }, { MCRequest(<<3, 3, 1>>, "fd", FALSE, TRUE) } >>

MCObject(o) == [obj |-> <<o, 0>>, cloexec |-> FALSE]

MCOpen == [f \in Fd |->
  CASE f = 0 -> MCObject("in") [] f = 1 -> MCObject("out") [] f = 2 -> MCObject("err")
    [] f = 3 -> MCObject("file") [] f = 4 -> [MCObject("dir") EXCEPT !.cloexec = TRUE]
    [] OTHER -> Closed]

(* A process that closed its standard input and output.                    *)
MCDaemon == [MCOpen EXCEPT ![0] = Closed, ![1] = Closed]
MCDaemonRequests == << { MCRequest(<<3, 3, 3>>, "inherit", FALSE, TRUE) } >>
=============================================================================
