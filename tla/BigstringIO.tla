---------------------------- MODULE BigstringIO ----------------------------
(***************************************************************************)
(* bigstring_unix_stubs.c: threads that output bigstrings to one end of a  *)
(* pipe or a connection and a thread that inputs them from the other end,  *)
(* through channels of the runtime or with calls on the descriptors.  The  *)
(* runtime's lock is released around the system calls, so threads          *)
(* interleave there and wherever a channel's lock is waited for.  A system *)
(* call may move fewer bytes than it was given; when it is interrupted the *)
(* code only calls again, a step that changes nothing and is left out.     *)
(* A byte is <<t, i>>: the i-th that thread t has to send.                 *)
(***************************************************************************)
EXTENDS Integers, Sequences, SequencesExt

CONSTANTS
  Writers, Readers,  \* threads
  Total,             \* bytes each writer has to send, [Writers -> Nat]
  MaxLen,            \* bytes a reader asks for at most
  BufferSize,        \* IO_BUFFER_SIZE
  WireSize,          \* bytes the pipe holds
  Iovecs,            \* vectors given to recvmmsg, sequences of lengths
  Vias               \* <<the writers' interface, the readers'>>, "channel" or "fd"

VARIABLES
  via,
  nonblocking,  \* O_NONBLOCK is set on both ends
  reset,        \* the connection is broken: system calls fail
  wire,         \* what the pipe holds
  out,          \* the output channel
  in,           \* the input channel
  w,            \* the writers' calls
  acked,        \* how many bytes each writer has been told are written
  r,            \* the readers' calls
  got,          \* the bytes put in the readers' bigstrings, in order
  answer        \* what a call answers, in the state it ends in

vars == <<via, nonblocking, reset, wire, out, in, w, acked, r, got, answer>>

ASSUME ThreadAssumption == 0 \notin Writers /\ 0 \notin Readers
ASSUME TotalAssumption == Total \in [Writers -> Nat]
ASSUME SizeAssumption == MaxLen \in Nat /\ BufferSize \in Nat /\ WireSize \in Nat
ASSUME IovecAssumption == Iovecs \subseteq Seq(Nat)
ASSUME ViaAssumption == Vias \subseteq {"channel", "fd"} \X {"channel", "fd"}

Least(a, b) == IF a < b THEN a ELSE b
Room == WireSize - Len(wire)
Garbage == <<0, 0>>

-----------------------------------------------------------------------------
NoOutput ==
  [pc |-> "idle", len |-> 0, min |-> 0, done |-> 0, buffLen |-> 0, buffIov |-> 0, bstrIov |-> 0]
NoInput == [pc |-> "idle", len |-> 0, min |-> 0, done |-> 0, avail |-> 0]
NoAnswer == [op |-> "none", kind |-> "none", n |-> 0, len |-> 0, min |-> 0]

Init ==
  /\ via \in Vias
  /\ nonblocking \in BOOLEAN
  /\ reset = FALSE
  /\ wire = << >>
  /\ out = [buff |-> << >>, lock |-> 0, offset |-> 0]
  /\ in = [buff |-> << >>, curr |-> 0, max |-> 0, lock |-> 0, offset |-> 0]
  /\ w = [t \in Writers |-> NoOutput]
  /\ acked = [t \in Writers |-> 0]
  /\ r = [t \in Readers |-> NoInput]
  /\ got = << >>
  /\ answer = NoAnswer

-----------------------------------------------------------------------------
(* Writers.                                                                *)

ChannelOut == via[1] = "channel"
Data(t, from, n) == [i \in 1 .. n |-> <<t, acked[t] + from + i>>]

(* The call of t goes on as c, or ends and says that n bytes are written.  *)
Going(t, c) == w' = [w EXCEPT ![t] = c] /\ answer' = NoAnswer /\ UNCHANGED acked
Written(t, kind, op, n) ==
  /\ w' = [w EXCEPT ![t] = NoOutput]
  /\ acked' = [acked EXCEPT ![t] = @ + n]
  /\ answer' = [op |-> op, kind |-> kind, n |-> n, len |-> w[t].len, min |-> w[t].min]

(* With a least number of bytes to write, or all of them.                  *)
StartOutput(t, pc, all) ==
  /\ w[t].pc = "idle" /\ ~reset
  /\ \E len \in 1 .. Total[t] - acked[t] : \E min \in IF all THEN {len} ELSE 0 .. len :
       Going(t, [NoOutput EXCEPT !.pc = pc, !.len = len, !.min = min])
  /\ UNCHANGED <<via, nonblocking, reset, wire, out, in, r, got>>

OutputCall(t) == ChannelOut /\ StartOutput(t, "lock", FALSE)

(* What fits in the channel's buffer goes there.                           *)
LockOutput(t) ==
  /\ w[t].pc = "lock" /\ out.lock = 0
  /\ IF w[t].len <= BufferSize - Len(out.buff)
     THEN /\ out' = [out EXCEPT !.buff = @ \o Data(t, 0, w[t].len)]
          /\ Written(t, "ok", "output", w[t].len)
     ELSE /\ out' = [out EXCEPT !.lock = t]
          /\ Going(t, [w[t] EXCEPT !.pc = "writev", !.buffLen = Len(out.buff),
                                   !.buffIov = Len(out.buff), !.bstrIov = w[t].len])
  /\ UNCHANGED <<via, nonblocking, reset, wire, in, r, got>>

(* What is left of the buffer, and then of the bigstring.                  *)
Unsent(t) == SubSeq(out.buff, Len(out.buff) - w[t].buffLen + 1, Len(out.buff))
VectorsSwapped(t) == Data(t, w[t].done, w[t].bstrIov) \o SubSeq(Unsent(t), 1, w[t].buffIov)
Vectors(t) == SubSeq(Unsent(t), 1, w[t].buffIov) \o Data(t, w[t].done, w[t].bstrIov)

(* The channel when the bigstring has to go on: it stays locked.           *)
NotYetDone(n) == [out EXCEPT !.offset = @ + n]

WriteV(t) ==
  /\ w[t].pc = "writev" /\ ~reset
  /\ \E n \in 1 .. Least(Room, w[t].buffIov + w[t].bstrIov) :
       LET left == w[t].buffLen - n
           done == w[t].done - left
       IN /\ wire' = wire \o SubSeq(Vectors(t), 1, n)
          /\ IF left > 0
             THEN /\ out' = [out EXCEPT !.offset = @ + n]
                  /\ Going(t, [w[t] EXCEPT !.buffLen = left, !.buffIov = left])
             ELSE IF done >= w[t].min
             THEN /\ out' = [out EXCEPT !.offset = @ + n, !.buff = << >>, !.lock = 0]
                  /\ Written(t, "ok", "output", done)
             ELSE /\ out' = NotYetDone(n)
                  /\ Going(t, [w[t] EXCEPT !.done = done, !.buffLen = 0,
                                           !.buffIov = 0, !.bstrIov = w[t].len - done])
  /\ UNCHANGED <<via, nonblocking, reset, in, r, got>>

(* A write that might block is tried again with a single byte.             *)
WouldBlock(n) == nonblocking /\ ~reset /\ n > Room

OneByte(t) ==
  /\ w[t].pc = "writev" /\ WouldBlock(w[t].buffIov + w[t].bstrIov)
  /\ w[t].buffIov + w[t].bstrIov > 1
  /\ Going(t, IF w[t].buffLen > 0 THEN [w[t] EXCEPT !.buffIov = 1, !.bstrIov = 0]
              ELSE [w[t] EXCEPT !.bstrIov = 1])
  /\ UNCHANGED <<via, nonblocking, reset, wire, out, in, r, got>>

(* The unsent part of the buffer moves to its front.                       *)
WholeBuffer(t) == [out EXCEPT !.lock = 0]
LockKept(t) == [out EXCEPT !.buff = Unsent(t)]
AfterFailure(t) == [out EXCEPT !.buff = Unsent(t), !.lock = 0]

OutputFails(t) ==
  /\ w[t].pc = "writev"
  /\ reset \/ (w[t].buffIov + w[t].bstrIov = 1 /\ WouldBlock(1))
  /\ out' = AfterFailure(t)
  /\ Written(t, "error", "output", w[t].done)
  /\ UNCHANGED <<via, nonblocking, reset, wire, in, r, got>>

(* The runtime flushes the channel, one write at a time.                   *)
Flush ==
  /\ out.lock = 0 /\ ~reset
  /\ \E n \in 1 .. Least(Len(out.buff), Room) :
       /\ wire' = wire \o SubSeq(out.buff, 1, n)
       /\ out' = [out EXCEPT !.buff = SubSeq(@, n + 1, Len(@)), !.offset = @ + n]
  /\ answer' = NoAnswer
  /\ UNCHANGED <<via, nonblocking, reset, in, w, acked, r, got>>

(* really_write and really_send_no_sigpipe.                                *)
ReallyWriteCall(t) == ~ChannelOut /\ StartOutput(t, "write", TRUE)

ReallyWrite(t) ==
  /\ w[t].pc = "write"
  /\ \/ /\ ~reset
        /\ \E n \in 1 .. Least(Room, w[t].len - w[t].done) :
             /\ wire' = wire \o Data(t, w[t].done, n)
             /\ IF w[t].done + n = w[t].len THEN Written(t, "ok", "really_write", w[t].len)
                ELSE Going(t, [w[t] EXCEPT !.done = @ + n])
     \/ /\ reset \/ WouldBlock(w[t].len - w[t].done)
        /\ Written(t, "error", "really_write", w[t].done)
        /\ UNCHANGED wire
  /\ UNCHANGED <<via, nonblocking, reset, out, in, r, got>>

(* One system call, write or writev: an error raises.                      *)
WriteOnce(t) ==
  /\ ~ChannelOut /\ w[t].pc = "idle" /\ acked[t] < Total[t]
  /\ \/ /\ ~reset
        /\ \E n \in 1 .. Least(Room, Total[t] - acked[t]) :
             wire' = wire \o Data(t, 0, n) /\ Written(t, "ok", "write", n)
     \/ /\ reset \/ WouldBlock(Total[t] - acked[t])
        /\ Written(t, "error", "write", 0)
        /\ UNCHANGED wire
  /\ UNCHANGED <<via, nonblocking, reset, out, in, r, got>>

(* send, sendto and sendmsg never wait, on a blocking descriptor neither   *)
(* (MSG_DONTWAIT).  An error is answered with its number by the first two; *)
(* sendmsg raises it, but answers nothing when it would block.             *)
ErrorKind(op) ==
  CASE op = "send" -> "errno"
    [] op = "sendmsg" /\ ~reset -> "nothing"
    [] OTHER -> "error"

SendOnce(t, op) ==
  /\ ~ChannelOut /\ w[t].pc = "idle" /\ acked[t] < Total[t]
  /\ \/ /\ ~reset
        /\ \E n \in 1 .. Least(Room, Total[t] - acked[t]) :
             wire' = wire \o Data(t, 0, n) /\ Written(t, "ok", op, n)
     \/ /\ reset \/ Total[t] - acked[t] > Room
        /\ Written(t, ErrorKind(op), op, 0)
        /\ UNCHANGED wire
  /\ UNCHANGED <<via, nonblocking, reset, out, in, r, got>>

-----------------------------------------------------------------------------
(* Readers.  The writing end is closed once everything is flushed.         *)

ChannelIn == via[2] = "channel"
Closed ==
  /\ \A t \in Writers : w[t].pc = "idle" /\ acked[t] = Total[t]
  /\ out.buff = << >>
AtEnd == wire = << >> /\ Closed /\ ~reset
Fails == reset \/ (nonblocking /\ wire = << >> /\ ~Closed)

(* The call of t goes on as c, or ends; a reader stops at the end.         *)
Gets(t, c) == r' = [r EXCEPT ![t] = c] /\ answer' = NoAnswer
Read(t, kind, op, n) ==
  /\ r' = [r EXCEPT ![t] = [NoInput EXCEPT !.pc = IF kind = "eof" \/ reset THEN "stopped" ELSE "idle"]]
  /\ answer' = [op |-> op, kind |-> kind, n |-> n, len |-> r[t].len, min |-> r[t].min]

StartInput(t, pc, all) ==
  /\ r[t].pc = "idle"
  /\ \E len \in 0 .. MaxLen : \E min \in IF all THEN {len} ELSE 0 .. len :
       Gets(t, [pc |-> pc, len |-> len, min |-> min, done |-> 0, avail |-> in.max - in.curr])
  /\ UNCHANGED <<via, nonblocking, reset, wire, out, in, w, acked, got>>

(* input reads how much the buffer holds before it takes the lock.         *)
InputCall(t) == ChannelIn /\ StartInput(t, "lock", FALSE)

(* n bytes from the buffer's current position, whatever is there.          *)
Buffered(n) ==
  [i \in 1 .. n |-> IF in.curr + i \in DOMAIN in.buff THEN in.buff[in.curr + i] ELSE Garbage]

LockInput(t) ==
  /\ r[t].pc = "lock" /\ in.lock = 0
  /\ LET avail == r[t].avail
         n == Least(avail, r[t].len)
     IN /\ got' = got \o Buffered(n)
        /\ IF avail > 0 /\ r[t].len <= avail
           THEN /\ in' = [in EXCEPT !.curr = @ + n]
                /\ Read(t, "ok", "input", n)
           ELSE /\ in' = [in EXCEPT !.lock = t]
                /\ Gets(t, [r[t] EXCEPT !.pc = "readv", !.done = n])
  /\ UNCHANGED <<via, nonblocking, reset, wire, out, w, acked>>

(* readv fills the bigstring first, then the channel's buffer, which the   *)
(* code takes for empty.                                                   *)
FilledFromCurr(extra, n) ==
  [in EXCEPT !.lock = 0, !.offset = @ + n, !.buff = extra \o SubSeq(@, Len(extra) + 1, Len(@)),
             !.max = IF extra = << >> THEN @ ELSE Len(extra),
             !.curr = IF extra = << >> THEN in.max ELSE @]
Filled(extra, n) ==
  [in EXCEPT !.lock = 0, !.offset = @ + n, !.buff = extra \o SubSeq(@, Len(extra) + 1, Len(@)),
             !.max = IF extra = << >> THEN @ ELSE Len(extra),
             !.curr = IF extra = << >> THEN in.max ELSE 0]

ReadV(t) ==
  /\ r[t].pc = "readv" /\ ~reset
  /\ LET room == r[t].len - r[t].done
     IN \E n \in 1 .. Least(Len(wire), room + BufferSize) :
          /\ got' = got \o SubSeq(wire, 1, Least(n, room))
          /\ wire' = SubSeq(wire, n + 1, Len(wire))
          /\ IF r[t].done + n >= r[t].min
             THEN /\ in' = Filled(SubSeq(wire, room + 1, n), n)
                  /\ Read(t, "ok", "input", Least(r[t].done + n, r[t].len))
             ELSE /\ in' = [in EXCEPT !.offset = @ + n]
                  /\ Gets(t, [r[t] EXCEPT !.done = @ + n])
  /\ UNCHANGED <<via, nonblocking, reset, out, w, acked>>

InputStops(t) ==
  /\ r[t].pc = "readv" /\ (AtEnd \/ Fails)
  /\ in' = [in EXCEPT !.lock = 0, !.curr = in.max]
  /\ Read(t, IF ~AtEnd THEN "error" ELSE IF r[t].len = 0 THEN "ok" ELSE "eof", "input", r[t].done)
  /\ UNCHANGED <<via, nonblocking, reset, wire, out, w, acked, got>>

(* read until min_len bytes are there.                                     *)
ReadCall(t) == ~ChannelIn /\ StartInput(t, "read", FALSE)

ReadFd(t) ==
  /\ r[t].pc = "read"
  /\ \/ /\ r[t].len = 0 /\ ~reset
        /\ Read(t, "ok", "read", 0)
        /\ UNCHANGED <<wire, got>>
     \/ /\ ~reset
        /\ \E n \in 1 .. Least(Len(wire), r[t].len - r[t].done) :
             /\ got' = got \o SubSeq(wire, 1, n)
             /\ wire' = SubSeq(wire, n + 1, Len(wire))
             /\ IF r[t].done + n >= r[t].min THEN Read(t, "ok", "read", r[t].done + n)
                ELSE Gets(t, [r[t] EXCEPT !.done = @ + n])
     \/ /\ (AtEnd /\ r[t].len > 0) \/ Fails
        /\ Read(t, IF Fails THEN "error" ELSE "eof", "read", r[t].done)
        /\ UNCHANGED <<wire, got>>
  /\ UNCHANGED <<via, nonblocking, reset, out, in, w, acked>>

(* really_recv: nothing at all for no bytes, or all of them.               *)
RecvCall(t) == ~ChannelIn /\ StartInput(t, "recv", TRUE)

RecvOnce(t) ==
  /\ r[t].pc = "recv" /\ ~reset
  /\ \E n \in 0 .. Least(Len(wire), r[t].len) :
       /\ got' = got \o SubSeq(wire, 1, n)
       /\ wire' = SubSeq(wire, n + 1, Len(wire))
       /\ Read(t, "ok", "really_recv", n)
  /\ UNCHANGED <<via, nonblocking, reset, out, in, w, acked>>
ReallyRecv(t) ==
  /\ r[t].pc = "recv"
  /\ \/ /\ r[t].len = r[t].done
        /\ Read(t, "ok", "really_recv", r[t].len)
        /\ UNCHANGED <<wire, got>>
     \/ /\ r[t].done < r[t].len /\ ~reset
        /\ \E n \in 1 .. Least(Len(wire), r[t].len - r[t].done) :
             /\ got' = got \o SubSeq(wire, 1, n)
             /\ wire' = SubSeq(wire, n + 1, Len(wire))
             /\ Gets(t, [r[t] EXCEPT !.done = @ + n])
     \/ /\ r[t].done < r[t].len /\ (AtEnd \/ Fails)
        /\ Read(t, IF AtEnd THEN "eof" ELSE "error", "really_recv", r[t].done)
        /\ UNCHANGED <<wire, got>>
  /\ UNCHANGED <<via, nonblocking, reset, out, in, w, acked>>

(* One system call: read, which returns the number of an error, and        *)
(* recvfrom, which raises it.  Zero is the end.                            *)
ReadOnce(t, op) ==
  /\ ~ChannelIn /\ r[t].pc = "idle"
  /\ \/ /\ ~reset
        /\ \E n \in 1 .. Least(Len(wire), MaxLen) :
             /\ got' = got \o SubSeq(wire, 1, n)
             /\ wire' = SubSeq(wire, n + 1, Len(wire))
             /\ Read(t, "ok", op, n)
     \/ /\ AtEnd \/ Fails
        /\ Read(t, IF AtEnd THEN "eof" ELSE IF op = "recvfrom" THEN "error" ELSE "errno", op, 0)
        /\ UNCHANGED <<wire, got>>
  /\ UNCHANGED <<via, nonblocking, reset, out, in, w, acked>>

(* recvmmsg fills the vectors one message after the other, up to where     *)
(* each is cut from the wire.  Any error is returned as its number.        *)
Cuts(lens) ==
  {cut \in [0 .. Len(lens) -> 0 .. Len(wire)] :
     cut[0] = 0 /\ \A i \in 1 .. Len(lens) : cut[i] = Least(cut[i - 1] + lens[i], Len(wire))}

RecvMmsg(t) ==
  /\ ~ChannelIn /\ r[t].pc = "idle"
  /\ \E lens \in Iovecs :
       \/ /\ wire # << >> /\ ~reset
          /\ \E cut \in Cuts(lens) :
               LET n == cut[Len(lens)]
               IN /\ got' = got \o SubSeq(wire, 1, n)
                  /\ wire' = SubSeq(wire, n + 1, Len(wire))
                  /\ Read(t, "ok", "recvmmsg", n)
       \/ /\ AtEnd \/ Fails
          /\ Read(t, IF AtEnd THEN "eof" ELSE "errno", "recvmmsg", 0)
          /\ UNCHANGED <<wire, got>>
  /\ UNCHANGED <<via, nonblocking, reset, out, in, w, acked>>

-----------------------------------------------------------------------------
Break ==
  /\ ~reset /\ reset' = TRUE
  /\ answer' = NoAnswer
  /\ UNCHANGED <<via, nonblocking, wire, out, in, w, acked, r, got>>

(* A call that was made goes on.                                           *)
Output(t) == LockOutput(t) \/ WriteV(t) \/ OneByte(t) \/ OutputFails(t) \/ ReallyWrite(t)
Input(t) == LockInput(t) \/ ReadV(t) \/ InputStops(t) \/ ReadFd(t) \/ ReallyRecv(t)

(* A new call is made.                                                     *)
CallOutput(t) ==
  OutputCall(t) \/ ReallyWriteCall(t) \/ WriteOnce(t)
    \/ \E op \in {"send", "sendmsg"} : SendOnce(t, op)
CallInput(t) ==
  InputCall(t) \/ ReadCall(t) \/ RecvCall(t) \/ RecvMmsg(t)
    \/ \E op \in {"read_nonblocking", "recvfrom"} : ReadOnce(t, op)

Next ==
  \/ \E t \in Writers : Output(t) \/ CallOutput(t)
  \/ \E t \in Readers : Input(t) \/ CallInput(t)
  \/ Flush \/ Break

(* A reader goes on asking for bytes, whatever else it calls meanwhile.    *)
AskForBytes(t) == CallInput(t) /\ r'[t].len > 0

Fairness ==
  /\ \A t \in Writers : WF_vars(Output(t))
  /\ \A t \in Readers : WF_vars(Input(t)) /\ SF_vars(AskForBytes(t))

Spec == Init /\ [][Next]_vars /\ Fairness

-----------------------------------------------------------------------------
(* The type of the state.                                                  *)
TypeOK ==
  /\ Len(wire) <= WireSize
  /\ Len(out.buff) <= BufferSize /\ Len(in.buff) <= BufferSize
  /\ 0 <= in.curr /\ in.curr <= in.max /\ in.max <= Len(in.buff)
  /\ out.lock \in Writers \cup {0} /\ in.lock \in Readers \cup {0}
  /\ \A t \in Writers :
       /\ acked[t] \in 0 .. Total[t]
       /\ w[t].buffIov <= w[t].buffLen /\ w[t].done + w[t].bstrIov <= w[t].len
       /\ w[t].pc = "writev" => w[t].buffIov + w[t].bstrIov > 0
  /\ \A t \in Readers : r[t].done \in 0 .. r[t].len

(* Every byte that was taken from a writer is in one place: a reader's     *)
(* bigstring, the input channel's buffer, the pipe, or the output          *)
(* channel's buffer, of which a call in progress may have sent a part.     *)
InBuffer == IF in.lock # 0 THEN << >> ELSE SubSeq(in.buff, in.curr + 1, in.max)
OutBuffer == IF out.lock # 0 THEN Unsent(out.lock) ELSE out.buff
Taken == got \o InBuffer \o wire \o OutBuffer

(* Of each writer it is what its calls answered for, and what the call in  *)
(* progress has sent, in order and without a gap or a double, and there is *)
(* nothing else: through partial writes, single byte retries, errors with  *)
(* bytes already sent, and reads that end inside the buffer                *)
(* (bigstring_unix_stubs.c:280-498).                                       *)
Sent(t) == acked[t] + w[t].done
NothingLostOrDoubled ==
  /\ \A i \in DOMAIN Taken : \E t \in Writers : \E k \in 1 .. Sent(t) : Taken[i] = <<t, k>>
  /\ \A t \in Writers : \A k \in 1 .. Sent(t) : \E i \in DOMAIN Taken : Taken[i] = <<t, k>>
  /\ \A i, j \in DOMAIN Taken : i < j /\ Taken[i][1] = Taken[j][1] => Taken[i][2] < Taken[j][2]

(* What one call outputs to the channel is not mixed with what others do,  *)
(* although the call waits in the system with the runtime's lock released: *)
(* the bytes it has sent are the last ones (bigstring_unix_stubs.c:384-464)*)
CallsUnbroken ==
  ChannelOut =>
    \A t \in Writers :
      \A i \in DOMAIN Taken : i > Len(Taken) - w[t].done => Taken[i][1] = t

(* The stream of bytes is intact at every moment.                          *)
StreamIntact == NothingLostOrDoubled /\ CallsUnbroken

(* Why a call may fail on a connection that is not broken: the descriptor  *)
(* does not block, or the call never waits, and what is left to write does *)
(* not fit, or nothing is there to read.                                   *)
MayFail(op) ==
  /\ nonblocking \/ op \in {"send", "sendmsg"}
  /\ op \in {"really_write", "write", "send", "sendmsg"} =>
       \E t \in Writers : Total[t] - acked[t] > Room
  /\ op = "output" => Room = 0
  /\ op \in {"input", "read", "really_recv", "read_nonblocking", "recvfrom", "recvmmsg"} =>
       wire = << >>

(* A call that succeeds moved as many bytes as it had to and no more than  *)
(* it was given; it meets the end, fails, or says that it would block only *)
(* when that is so (bigstring_unix_stubs.c:121-245, 280-733).              *)
AnswersTrue ==
  LET a == answer
      whole == {"really_write", "really_recv"}
      looping == whole \cup {"output", "input", "read"}
  IN /\ a.op \in looping => a.n <= a.len
     /\ a.op \in looping /\ a.kind = "ok" => a.n >= a.min
     /\ a.op \in whole /\ a.kind = "ok" => a.n = a.len
     /\ a.kind = "eof" => Closed /\ wire = << >>
     /\ a.kind \in {"error", "errno", "nothing"} => reset \/ MayFail(a.op)
     /\ a.kind = "nothing" => ~reset

(* The channels know their position in the stream (bigstring_unix_stubs.c: *)
(* 356, 436): In_channel.pos and Out_channel.pos are computed from it.     *)
PositionsTrue ==
  /\ ChannelIn => in.offset = Len(got) + Len(InBuffer)
  /\ ChannelOut => out.offset = Len(got) + Len(InBuffer) + Len(wire)

(* What callers are told of the transfer, now or later, is so.             *)
ToldTrue == AnswersTrue /\ PositionsTrue

(* The order of the stream is settled once: it only grows at its end.      *)
StreamOnlyGrows == [][IsPrefix(Taken, Taken')]_vars

(* A call ends: no writer waits for ever for a channel's lock or for room, *)
(* as long as the readers go on reading.                                   *)
EveryOutputAnswers == \A t \in Writers : w[t].pc # "idle" ~> w[t].pc = "idle"

(* "Buffer empty now", where input is about to read past the buffer        *)
(* (bigstring_unix_stubs.c:307): what it held was copied by this call.     *)
BufferEmptyNow ==
  \A t \in Readers : r[t].pc = "readv" => r[t].avail = in.max - in.curr
=============================================================================
