------------------------- MODULE BigstringIO_proofs -------------------------
(***************************************************************************)
(* Proofs about BigstringIO, for any threads, sizes and numbers of bytes.  *)
(* An input channel is used by one thread: with two, the count of buffered *)
(* bytes that a call has read before it waits for the lock is stale, and   *)
(* the stream is not intact.                                               *)
(***************************************************************************)
EXTENDS BigstringIO, SequenceTheorems, TLAPS

-----------------------------------------------------------------------------
(* Sequences.                                                              *)

(* A sequence is its first n elements and the others.                      *)
LEMMA Split ==
  ASSUME NEW S, NEW s \in Seq(S), NEW n \in 0 .. Len(s)
  PROVE  /\ SubSeq(s, 1, n) \in Seq(S) /\ Len(SubSeq(s, 1, n)) = n
         /\ SubSeq(s, n + 1, Len(s)) \in Seq(S) /\ Len(SubSeq(s, n + 1, Len(s))) = Len(s) - n
         /\ SubSeq(s, 1, n) \o SubSeq(s, n + 1, Len(s)) = s
<1>1. Len(s) \in Nat /\ n \in Nat /\ \A i \in 1 .. Len(s) : s[i] \in S
  BY ElementOfSeq
<1>2. SubSeq(s, 1, n) \in Seq(S) /\ Len(SubSeq(s, 1, n)) = n
  <2>1. \A i \in 1 .. n : s[i] \in S
    BY <1>1
  <2>2. SubSeq(s, 1, n) \in Seq(S) /\ Len(SubSeq(s, 1, n)) = IF 1 <= n THEN n - 1 + 1 ELSE 0
    BY <1>1, <2>1, SubSeqProperties
  <2> QED
    BY <1>1, <2>2
<1>3. SubSeq(s, n + 1, Len(s)) \in Seq(S) /\ Len(SubSeq(s, n + 1, Len(s))) = Len(s) - n
  <2>1. \A i \in n + 1 .. Len(s) : s[i] \in S
    BY <1>1
  <2>2. /\ SubSeq(s, n + 1, Len(s)) \in Seq(S)
        /\ Len(SubSeq(s, n + 1, Len(s))) = IF n + 1 <= Len(s) THEN Len(s) - (n + 1) + 1 ELSE 0
    BY <1>1, <2>1, SubSeqProperties
  <2> QED
    BY <1>1, <2>2
<1>4. SubSeq(s, 1, n) \o SubSeq(s, n + 1, Len(s)) = s
  <2>1. 1 \in 1 .. Len(s) + 1 /\ n \in 1 - 1 .. Len(s) /\ Len(s) \in n .. Len(s)
    BY <1>1
  <2>2. SubSeq(s, 1, n) \o SubSeq(s, n + 1, Len(s)) = SubSeq(s, 1, Len(s))
    BY <2>1, ConcatAdjacentSubSeq
  <2> QED
    BY <2>2, SubSeqFull
<1> QED
  BY <1>2, <1>3, <1>4

(* The first elements of the first elements.                               *)
LEMMA PrefixOfPrefix ==
  ASSUME NEW S, NEW s \in Seq(S), NEW m \in 0 .. Len(s), NEW n \in 0 .. m
  PROVE  SubSeq(SubSeq(s, 1, m), 1, n) = SubSeq(s, 1, n)
<1>1. CASE n = 0
  BY <1>1, SubSeqEmpty
<1>2. CASE n > 0
  <2>1. /\ 1 \in 1 .. Len(s) /\ m \in 1 .. Len(s) /\ 1 \in 1 .. m - 1 + 1 /\ n \in 1 .. m - 1 + 1
        /\ 1 + 1 - 1 = 1 /\ 1 + n - 1 = n
    BY <1>2
  <2>2. SubSeq(SubSeq(s, 1, m), 1, n) = SubSeq(s, 1 + 1 - 1, 1 + n - 1)
    BY <2>1, SubSeqOfSubSeq
  <2> QED
    BY <2>1, <2>2
<1> QED
  BY <1>1, <1>2

(* The first elements of a concatenation.                                  *)
LEMMA PrefixOfConcat ==
  ASSUME NEW S, NEW s \in Seq(S), NEW t \in Seq(S), NEW n \in 0 .. Len(s) + Len(t)
  PROVE  /\ n <= Len(s) => SubSeq(s \o t, 1, n) = SubSeq(s, 1, n)
         /\ n >= Len(s) => SubSeq(s \o t, 1, n) = s \o SubSeq(t, 1, n - Len(s))
<1>1. Len(s) \in Nat /\ Len(t) \in Nat /\ n \in Nat
  OBVIOUS
<1>2. s \o t \in Seq(S) /\ Len(s \o t) = Len(s) + Len(t)
  BY ConcatProperties
<1>3. ASSUME n <= Len(s) PROVE SubSeq(s \o t, 1, n) = SubSeq(s, 1, n)
  <2>1. CASE n = 0
    BY <2>1, SubSeqEmpty
  <2>2. CASE n > 0
    <3>1. 1 \in 1 .. Len(s) /\ n \in 1 .. Len(s)
      BY <1>1, <1>3, <2>2
    <3> QED
      BY <3>1, SubSeqOfConcat1
  <2> QED
    BY <1>1, <2>1, <2>2
<1>4. ASSUME n >= Len(s) PROVE SubSeq(s \o t, 1, n) = s \o SubSeq(t, 1, n - Len(s))
  <2> DEFINE k == n - Len(s)
             u == s \o t
  <2>0. k \in 0 .. Len(t) /\ n = Len(s) + k
    BY <1>1, <1>4
  <2>1. SubSeq(t, 1, k) \in Seq(S) /\ Len(SubSeq(t, 1, k)) = k
        /\ \A i \in 1 .. k : SubSeq(t, 1, k)[i] = t[i]
    <3>1. \A i \in 1 .. k : t[i] \in S
      BY <1>1, <2>0, ElementOfSeq
    <3> HIDE DEF k
    <3>2. 1 \in Int /\ k \in Int
      BY <1>1, <2>0
    <3>3. /\ SubSeq(t, 1, k) \in Seq(S) /\ Len(SubSeq(t, 1, k)) = IF 1 <= k THEN k - 1 + 1 ELSE 0
          /\ \A i \in 1 .. k - 1 + 1 : SubSeq(t, 1, k)[i] = t[1 + i - 1]
      BY <3>1, <3>2, SubSeqProperties
    <3> QED
      BY <1>1, <2>0, <3>3
  <2> DEFINE v == SubSeq(t, 1, k)
  <2>2. u \in Seq(S) /\ Len(u) = Len(s) + Len(t)
        /\ \A i \in 1 .. Len(s) + Len(t) : u[i] = IF i <= Len(s) THEN s[i] ELSE t[i - Len(s)]
    BY ConcatProperties
  <2> HIDE DEF v, k, u
  <2>3. s \o v \in Seq(S) /\ Len(s \o v) = Len(s) + k
        /\ \A i \in 1 .. Len(s) + k : (s \o v)[i] = IF i <= Len(s) THEN s[i] ELSE v[i - Len(s)]
    <3>1. v \in Seq(S) /\ Len(v) = k
      BY <2>1 DEF v
    <3> QED
      BY <3>1, ConcatProperties
  <2>4. /\ SubSeq(u, 1, n) \in Seq(S) /\ Len(SubSeq(u, 1, n)) = n
        /\ \A i \in 1 .. n : SubSeq(u, 1, n)[i] = u[i]
    <3>1. \A i \in 1 .. n : u[i] \in S
      BY <1>1, <2>0, <2>2, ElementOfSeq
    <3>2. 1 \in Int /\ n \in Int
      BY <1>1
    <3>3. /\ SubSeq(u, 1, n) \in Seq(S) /\ Len(SubSeq(u, 1, n)) = IF 1 <= n THEN n - 1 + 1 ELSE 0
          /\ \A i \in 1 .. n - 1 + 1 : SubSeq(u, 1, n)[i] = u[1 + i - 1]
      BY <3>1, <3>2, SubSeqProperties
    <3> QED
      BY <1>1, <3>3
  <2>5. ASSUME NEW i \in 1 .. n PROVE SubSeq(u, 1, n)[i] = (s \o v)[i]
    <3>1. i \in 1 .. Len(s) + Len(t) /\ i \in 1 .. Len(s) + k
      BY <1>1, <2>0
    <3>2. u[i] = IF i <= Len(s) THEN s[i] ELSE t[i - Len(s)]
      BY <2>2, <3>1
    <3>3. (s \o v)[i] = IF i <= Len(s) THEN s[i] ELSE v[i - Len(s)]
      BY <2>3, <3>1
    <3>4. ~(i <= Len(s)) => v[i - Len(s)] = t[i - Len(s)]
      <4>1. ~(i <= Len(s)) => i - Len(s) \in 1 .. k
        BY <1>1, <2>0
      <4> QED
        BY <2>1, <4>1 DEF v
    <3> QED
      BY <2>4, <3>2, <3>3, <3>4
  <2>6. SubSeq(u, 1, n) = s \o v
    BY <2>0, <2>3, <2>4, <2>5, SeqEqual
  <2> QED
    BY <2>6 DEF u, v, k
<1> QED
  BY <1>3, <1>4

(* The type and the length of a concatenation.                             *)
LEMMA JoinedLength ==
  ASSUME NEW S, NEW a \in Seq(S), NEW b \in Seq(S)
  PROVE  a \o b \in Seq(S) /\ Len(a \o b) = Len(a) + Len(b) /\ Len(a) \in Nat /\ Len(b) \in Nat
BY ConcatProperties, LenProperties

Associates(a, b, c) == (a \o b) \o c = a \o (b \o c)

(* Concatenation is associative; the name keeps the provers from unfolding it. *)
LEMMA Associative ==
  \A S : \A a, b, c \in Seq(S) : Associates(a, b, c)
BY ConcatAssociative DEF Associates

Regrouped(a, b, c, d) ==
  /\ (a \o b) \o (c \o d) = a \o ((b \o c) \o d)
  /\ ((a \o b) \o c) \o d = a \o (b \o (c \o d))

(* The same for four sequences.                                            *)
LEMMA FourParts ==
  \A S : \A a, b, c, d \in Seq(S) : Regrouped(a, b, c, d)
<1> TAKE S
<1> TAKE a, b, c, d \in Seq(S)
<1>1. c \o d \in Seq(S) /\ b \o c \in Seq(S) /\ a \o b \in Seq(S)
  BY JoinedLength
<1>2. (a \o b) \o (c \o d) = a \o (b \o (c \o d))
  BY <1>1, Associative DEF Associates
<1>3. b \o (c \o d) = (b \o c) \o d
  BY Associative DEF Associates
<1>4. ((a \o b) \o c) \o d = (a \o b) \o (c \o d)
  BY <1>1, Associative DEF Associates
<1> QED
  BY <1>2, <1>3, <1>4 DEF Regrouped

(* A part of a part is a part.                                             *)
LEMMA PartOfPart ==
  \A S : \A s \in Seq(S) : \A i, j \in 1 .. Len(s) : \A m, n \in 1 .. j - i + 1 :
    SubSeq(SubSeq(s, i, j), m, n) = SubSeq(s, i + m - 1, i + n - 1)
BY SubSeqOfSubSeq

(* The first elements, those after them, and the others.                   *)
LEMMA SplitInThree ==
  ASSUME NEW S, NEW s \in Seq(S), NEW n \in 0 .. Len(s), NEW m \in 0 .. n
  PROVE  /\ SubSeq(s, m + 1, n) \in Seq(S) /\ Len(SubSeq(s, m + 1, n)) = n - m
         /\ SubSeq(s, 1, m) \o SubSeq(s, m + 1, n) = SubSeq(s, 1, n)
<1>1. Len(s) \in Nat /\ n \in Nat /\ m \in Nat /\ \A i \in m + 1 .. n : s[i] \in S
  BY ElementOfSeq
<1>2. /\ SubSeq(s, m + 1, n) \in Seq(S)
      /\ Len(SubSeq(s, m + 1, n)) = IF m + 1 <= n THEN n - (m + 1) + 1 ELSE 0
  BY <1>1, SubSeqProperties
<1>3. 1 \in 1 .. Len(s) + 1 /\ m \in 1 - 1 .. Len(s) /\ n \in m .. Len(s)
  BY <1>1
<1>4. SubSeq(s, 1, m) \o SubSeq(s, m + 1, n) = SubSeq(s, 1, n)
  BY <1>3, ConcatAdjacentSubSeq
<1> QED
  BY <1>1, <1>2, <1>4

(* What is left of the last elements, without the first of them.           *)
LEMMA RestOfLast ==
  ASSUME NEW S, NEW s \in Seq(S), NEW n \in 0 .. Len(s), NEW m \in 0 .. n
  PROVE  /\ SubSeq(SubSeq(s, Len(s) - n + 1, Len(s)), 1, m) \in Seq(S)
         /\ Len(SubSeq(SubSeq(s, Len(s) - n + 1, Len(s)), 1, m)) = m
         /\ SubSeq(SubSeq(s, Len(s) - n + 1, Len(s)), 1, m)
              \o SubSeq(s, Len(s) - (n - m) + 1, Len(s))
            = SubSeq(s, Len(s) - n + 1, Len(s))
<1> DEFINE k == Len(s) - n
           u == SubSeq(s, k + 1, Len(s))
<1>1. Len(s) \in Nat /\ n \in Nat /\ m \in Nat /\ k \in 0 .. Len(s)
  OBVIOUS
<1>2. u \in Seq(S) /\ Len(u) = n
  <2> HIDE DEF u, k
  <2>1. u \in Seq(S) /\ Len(u) = Len(s) - k
    BY <1>1, Split DEF u
  <2> QED
    BY <1>1, <2>1 DEF k
<1>3. /\ SubSeq(u, 1, m) \in Seq(S) /\ Len(SubSeq(u, 1, m)) = m
      /\ SubSeq(u, 1, m) \o SubSeq(u, m + 1, Len(u)) = u
  <2> HIDE DEF u, k
  <2> QED
    BY <1>1, <1>2, Split
<1>4. SubSeq(u, m + 1, Len(u)) = SubSeq(s, Len(s) - (n - m) + 1, Len(s))
  <2>1. CASE m = n
    <3>1. SubSeq(u, m + 1, Len(u)) = << >>
      BY <1>1, <1>2, <2>1, SubSeqEmpty
    <3>2. SubSeq(s, Len(s) - (n - m) + 1, Len(s)) = << >>
      BY <1>1, <2>1, SubSeqEmpty
    <3> QED
      BY <3>1, <3>2
  <2>2. CASE m < n
    <3>1. /\ k + 1 \in 1 .. Len(s) /\ Len(s) \in 1 .. Len(s)
          /\ m + 1 \in 1 .. Len(s) - (k + 1) + 1 /\ n \in 1 .. Len(s) - (k + 1) + 1
      BY <1>1, <2>2
    <3>2. SubSeq(SubSeq(s, k + 1, Len(s)), m + 1, n)
          = SubSeq(s, (k + 1) + (m + 1) - 1, (k + 1) + n - 1)
      <4>1. ASSUME NEW i \in 1 .. Len(s), NEW j \in 1 .. Len(s),
                   NEW p \in 1 .. j - i + 1, NEW q \in 1 .. j - i + 1
            PROVE  SubSeq(SubSeq(s, i, j), p, q) = SubSeq(s, i + p - 1, i + q - 1)
        BY PartOfPart
      <4> HIDE DEF k, u
      <4> QED
        BY <3>1, <4>1, Zenon
    <3>3. (k + 1) + (m + 1) - 1 = Len(s) - (n - m) + 1 /\ (k + 1) + n - 1 = Len(s)
      BY <1>1
    <3> QED
      BY <1>2, <3>2, <3>3
  <2> QED
    BY <1>1, <2>1, <2>2
<1> QED
  BY <1>1, <1>3, <1>4

-----------------------------------------------------------------------------
(* The state, in full.                                                     *)

Byte == (Writers \cup {0}) \X Nat

OutPc == {"idle", "lock", "writev", "write"}
InPc == {"idle", "lock", "readv", "read", "recv", "stopped"}
OutCall ==
  [pc : OutPc, len : Nat, min : Nat, done : Nat, buffLen : Nat, buffIov : Nat, bstrIov : Nat]
InCall == [pc : InPc, len : Nat, min : Nat, done : Nat, avail : Nat]

Typed ==
  /\ via \in Vias
  /\ nonblocking \in BOOLEAN /\ reset \in BOOLEAN
  /\ wire \in Seq(Byte)
  /\ out \in [buff : Seq(Byte), lock : Writers \cup {0}, offset : Nat]
  /\ in \in [buff : Seq(Byte), curr : Nat, max : Nat, lock : Readers \cup {0}, offset : Nat]
  /\ w \in [Writers -> OutCall]
  /\ acked \in [Writers -> Nat]
  /\ r \in [Readers -> InCall]
  /\ got \in Seq(Byte)

(* A channel that is not used is as it was made, and buffers have a size.  *)
ChannelsOK ==
  /\ Len(wire) <= WireSize
  /\ Len(out.buff) <= BufferSize /\ Len(in.buff) <= BufferSize
  /\ in.curr <= in.max /\ in.max <= Len(in.buff)
  /\ ~ChannelOut => out.buff = << >> /\ out.lock = 0
  /\ ~ChannelIn => in.buff = << >> /\ in.lock = 0

(* A call that is writing to the descriptor of the channel: what is left   *)
(* of the buffer comes first, and the bigstring only after all of it.      *)
SendingOK(t) ==
  /\ w[t].buffLen <= Len(out.buff)
  /\ w[t].buffIov <= w[t].buffLen
  /\ w[t].buffIov < w[t].buffLen => w[t].bstrIov = 0
  /\ w[t].buffLen > 0 => w[t].done = 0
  /\ w[t].buffIov + w[t].bstrIov > 0
  /\ w[t].done + w[t].bstrIov <= w[t].len

(* A call of a writer: the one that sends from the channel has its lock.   *)
WriterOK(t) ==
  /\ acked[t] + w[t].len <= Total[t]
  /\ w[t].min <= w[t].len /\ w[t].done <= w[t].len
  /\ w[t].pc \in {"idle", "lock"} => w[t].done = 0
  /\ w[t].pc \in {"lock", "writev"} => ChannelOut
  /\ w[t].pc = "write" => ~ChannelOut /\ w[t].min = w[t].len
  /\ w[t].pc # "writev" => w[t].buffLen = 0 /\ w[t].buffIov = 0 /\ w[t].bstrIov = 0
  /\ w[t].pc = "writev" <=> out.lock = t
  /\ w[t].pc = "writev" => SendingOK(t)

(* A call of a reader: the number of buffered bytes it has read is right.  *)
ReaderOK(t) ==
  /\ r[t].min <= r[t].len /\ r[t].done <= r[t].len
  /\ r[t].pc \in {"idle", "stopped", "lock"} => r[t].done = 0
  /\ r[t].pc \in {"lock", "readv"} => ChannelIn /\ r[t].avail = in.max - in.curr
  /\ r[t].pc \in {"read", "recv"} => ~ChannelIn
  /\ r[t].pc = "readv" <=> in.lock = t
  /\ r[t].pc = "recv" => r[t].min = r[t].len

StateOK ==
  /\ Typed /\ ChannelsOK
  /\ \A t \in Writers : WriterOK(t)
  /\ \A t \in Readers : ReaderOK(t)

Inv == StateOK /\ StreamIntact /\ ToldTrue

(* An input channel belongs to one reader.                                 *)
OneReader == \A v \in Vias : v[2] = "channel" => \A a, b \in Readers : a = b


(* What the assumptions say of the constants, for use without them.        *)
LEMMA Constants ==
  /\ Total \in [Writers -> Nat]
  /\ MaxLen \in Nat /\ BufferSize \in Nat /\ WireSize \in Nat
  /\ 0 \notin Writers /\ 0 \notin Readers
BY ThreadAssumption, TotalAssumption, SizeAssumption

(* The bytes that a writer gives.                                          *)
LEMMA DataIs ==
  ASSUME Typed, NEW t \in Writers, NEW from \in Nat, NEW n \in Nat
  PROVE  /\ Data(t, from, n) \in Seq(Byte) /\ Len(Data(t, from, n)) = n
         /\ \A i \in 1 .. n : Data(t, from, n)[i] = <<t, acked[t] + from + i>>
<1>1. acked[t] \in Nat
  BY DEF Typed
<1>2. \A i \in 1 .. n : <<t, acked[t] + from + i>> \in Byte
  BY <1>1 DEF Byte
<1>3. Data(t, from, n) \in [1 .. n -> Byte]
  BY <1>2 DEF Data
<1>4. Data(t, from, n) \in Seq(Byte)
  BY <1>3
<1>5. \A i \in 1 .. n : Data(t, from, n)[i] = <<t, acked[t] + from + i>>
  BY DEF Data
<1>6. Len(Data(t, from, n)) = n
  <2>1. DOMAIN Data(t, from, n) = 1 .. n
    BY DEF Data
  <2> QED
    BY <1>4, <2>1, LenProperties
<1> QED
  BY <1>4, <1>5, <1>6

(* The first bytes that a writer gives are those it gives when it gives fewer. *)
LEMMA DataPrefix ==
  ASSUME Typed, NEW t \in Writers, NEW from \in Nat, NEW n \in Nat, NEW k \in 0 .. n
  PROVE  SubSeq(Data(t, from, n), 1, k) = Data(t, from, k)
<1> DEFINE d == Data(t, from, n)
           e == Data(t, from, k)
<1>1. d \in Seq(Byte) /\ Len(d) = n /\ \A i \in 1 .. n : d[i] = <<t, acked[t] + from + i>>
  BY DataIs
<1>2. e \in Seq(Byte) /\ Len(e) = k /\ \A i \in 1 .. k : e[i] = <<t, acked[t] + from + i>>
  <2>1. k \in Nat
    OBVIOUS
  <2> QED
    BY <2>1, DataIs
<1> HIDE DEF d, e
<1>3. \A i \in 1 .. k : d[i] \in Byte
  BY <1>1, ElementOfSeq
<1>4. /\ SubSeq(d, 1, k) \in Seq(Byte) /\ Len(SubSeq(d, 1, k)) = IF 1 <= k THEN k - 1 + 1 ELSE 0
      /\ \A i \in 1 .. k - 1 + 1 : SubSeq(d, 1, k)[i] = d[1 + i - 1]
  <2>1. 1 \in Int /\ k \in Int
    OBVIOUS
  <2> QED
    BY <1>3, <2>1, SubSeqProperties
<1>5. Len(SubSeq(d, 1, k)) = Len(e)
  BY <1>2, <1>4
<1>6. ASSUME NEW i \in 1 .. Len(SubSeq(d, 1, k)) PROVE SubSeq(d, 1, k)[i] = e[i]
  <2>1. i \in 1 .. k /\ i \in 1 .. n /\ i \in 1 .. k - 1 + 1 /\ 1 + i - 1 = i
    BY <1>2, <1>5
  <2> QED
    BY <1>1, <1>2, <1>4, <2>1
<1>7. SubSeq(d, 1, k) = e
  BY <1>2, <1>4, <1>5, <1>6, SeqEqual
<1> QED
  BY <1>7 DEF d, e

(* What the streams hold: the parts are sequences of bytes.                *)
LEMMA UnsentIs ==
  ASSUME Typed, NEW t \in Writers, SendingOK(t)
  PROVE  Unsent(t) \in Seq(Byte) /\ Len(Unsent(t)) = w[t].buffLen
<1>1. out.buff \in Seq(Byte) /\ w[t].buffLen \in 0 .. Len(out.buff) /\ Len(out.buff) \in Nat
  BY DEF Typed, SendingOK, OutCall
<1>2. Len(out.buff) - w[t].buffLen \in 0 .. Len(out.buff)
  BY <1>1
<1>3. /\ SubSeq(out.buff, (Len(out.buff) - w[t].buffLen) + 1, Len(out.buff)) \in Seq(Byte)
      /\ Len(SubSeq(out.buff, (Len(out.buff) - w[t].buffLen) + 1, Len(out.buff)))
         = Len(out.buff) - (Len(out.buff) - w[t].buffLen)
  BY <1>1, <1>2, Split
<1> QED
  BY <1>1, <1>3 DEF Unsent

(* What the input channel holds is a sequence of bytes.                    *)
LEMMA InBufferIs ==
  ASSUME Typed, ChannelsOK
  PROVE  /\ InBuffer \in Seq(Byte)
         /\ Len(InBuffer) = IF in.lock # 0 THEN 0 ELSE in.max - in.curr
<1>1. /\ in.buff \in Seq(Byte) /\ in.max \in 0 .. Len(in.buff) /\ in.curr \in 0 .. in.max
      /\ Len(in.buff) \in Nat
  BY DEF Typed, ChannelsOK
<1>2. /\ SubSeq(in.buff, in.curr + 1, in.max) \in Seq(Byte)
      /\ Len(SubSeq(in.buff, in.curr + 1, in.max)) = in.max - in.curr
  BY <1>1, SplitInThree
<1> QED
  BY <1>2, EmptySeq DEF InBuffer

(* So is what the output channel has not sent.                             *)
LEMMA OutBufferIs ==
  ASSUME Typed, ChannelsOK, \A t \in Writers : WriterOK(t)
  PROVE  OutBuffer \in Seq(Byte)
<1>1. CASE out.lock = 0
  BY <1>1 DEF OutBuffer, Typed
<1>2. CASE out.lock # 0
  <2>1. out.lock \in Writers
    BY <1>2 DEF Typed
  <2>2. SendingOK(out.lock)
    BY <2>1 DEF WriterOK
  <2> QED
    BY <1>2, <2>1, <2>2, UnsentIs DEF OutBuffer
<1> QED
  BY <1>1, <1>2

(* The parts of the stream are grouped to the right in what follows.       *)
Parts ==
  /\ got \in Seq(Byte) /\ InBuffer \in Seq(Byte) /\ wire \in Seq(Byte)
  /\ OutBuffer \in Seq(Byte)
  /\ Taken \in Seq(Byte)
  /\ Taken = got \o (InBuffer \o (wire \o OutBuffer))

(* The stream is a sequence of bytes.                                      *)
LEMMA TakenIs == StateOK => Parts
<1> SUFFICES ASSUME StateOK PROVE Parts
  OBVIOUS
<1>1. /\ got \in Seq(Byte) /\ InBuffer \in Seq(Byte) /\ wire \in Seq(Byte)
      /\ OutBuffer \in Seq(Byte)
  BY InBufferIs, OutBufferIs DEF StateOK, Typed
<1>2. got \o InBuffer \in Seq(Byte) /\ wire \o OutBuffer \in Seq(Byte)
      /\ (got \o InBuffer) \o wire \in Seq(Byte)
  BY <1>1, JoinedLength
<1>3. Regrouped(got, InBuffer, wire, OutBuffer)
  BY <1>1, FourParts
<1>4. Taken \in Seq(Byte)
  BY <1>1, <1>2, JoinedLength DEF Taken
<1> QED
  BY <1>1, <1>3, <1>4 DEF Taken, Regrouped, Parts

-----------------------------------------------------------------------------
(* What a step does to the stream.  A step of writer t puts k more of its  *)
(* bytes at the end, where no other call is writing.                       *)

Puts(t, k) ==
  /\ Taken' = Taken \o Data(t, w[t].done, k)
  /\ Sent(t)' = Sent(t) + k
  /\ w'[t].done \in {0, w[t].done + k}
  /\ \A u \in Writers \ {t} : w'[u].done = w[u].done /\ acked'[u] = acked[u]
  /\ k > 0 /\ ChannelOut => out.lock \in {0, t}
  /\ via' = via

(* Every position of the stream after the step: the old ones, and then k bytes of t. *)
LEMMA PutsAtEnd ==
  ASSUME StateOK, NEW t \in Writers, NEW k \in Nat, Puts(t, k)
  PROVE  /\ Taken \in Seq(Byte) /\ Len(Taken) \in Nat /\ DOMAIN Taken = 1 .. Len(Taken)
         /\ Taken' \in Seq(Byte) /\ Len(Taken') = Len(Taken) + k
         /\ DOMAIN Taken' = 1 .. Len(Taken) + k
         /\ \A i \in 1 .. Len(Taken) : Taken'[i] = Taken[i]
         /\ \A i \in 1 .. k : Taken'[Len(Taken) + i] = <<t, Sent(t) + i>>
         /\ \A u \in Writers : Sent(u) \in Nat
         /\ \A u \in Writers : Sent(u)' = IF u = t THEN Sent(t) + k ELSE Sent(u)
<1> DEFINE s == Taken
           d == Data(t, w[t].done, k)
<1>1. s \in Seq(Byte) /\ Len(s) \in Nat /\ DOMAIN s = 1 .. Len(s)
  BY TakenIs, LenProperties DEF Parts
<1>2. \A u \in Writers : acked[u] \in Nat /\ w[u].done \in Nat /\ Sent(u) = acked[u] + w[u].done
  BY DEF StateOK, Typed, OutCall, Sent
<1>3. d \in Seq(Byte) /\ Len(d) = k /\ \A i \in 1 .. k : d[i] = <<t, Sent(t) + i>>
  <2>1. Typed /\ w[t].done \in Nat /\ Sent(t) = acked[t] + w[t].done
    BY <1>2 DEF StateOK
  <2>2. d \in Seq(Byte) /\ Len(d) = k /\ \A i \in 1 .. k : d[i] = <<t, acked[t] + w[t].done + i>>
    BY <2>1, DataIs
  <2> QED
    BY <2>1, <2>2
<1>4. Taken' = s \o d
  BY DEF Puts
<1> HIDE DEF s, d
<1>5. /\ s \o d \in Seq(Byte) /\ Len(s \o d) = Len(s) + k
      /\ \A i \in 1 .. Len(s) + k : (s \o d)[i] = IF i <= Len(s) THEN s[i] ELSE d[i - Len(s)]
  BY <1>1, <1>3, ConcatProperties
<1> DEFINE c == s \o d
<1>6. c \in Seq(Byte) /\ Len(c) = Len(s) + k /\ DOMAIN c = 1 .. Len(s) + k
  BY <1>5, LenProperties
<1>7. \A i \in 1 .. Len(s) + k : c[i] = IF i <= Len(s) THEN s[i] ELSE d[i - Len(s)]
  BY <1>5
<1> HIDE DEF c
<1>8. \A i \in 1 .. Len(s) : c[i] = s[i]
  BY <1>1, <1>7
<1>9. ASSUME NEW i \in 1 .. k PROVE c[Len(s) + i] = <<t, Sent(t) + i>>
  <2>1. Len(s) + i \in 1 .. Len(s) + k /\ ~(Len(s) + i <= Len(s)) /\ (Len(s) + i) - Len(s) = i
    BY <1>1
  <2> QED
    BY <1>3, <1>7, <2>1
<1>10. \A u \in Writers : Sent(u)' = IF u = t THEN Sent(t) + k ELSE Sent(u)
  <2>1. \A u \in Writers \ {t} : acked'[u] + w'[u].done = acked[u] + w[u].done
    BY DEF Puts
  <2>2. \A u \in Writers \ {t} : Sent(u)' = Sent(u)
    BY <2>1 DEF Sent
  <2> QED
    BY <2>2 DEF Puts
<1>11. Taken' = c
  BY <1>4 DEF c
<1>12. \A u \in Writers : Sent(u) \in Nat
  BY <1>2
<1> QED
  BY <1>1, <1>6, <1>8, <1>9, <1>10, <1>11, <1>12, Zenon DEF s

(* The stream stays intact, and what was there stays where it was.         *)
LEMMA PutsKeeps ==
  ASSUME StateOK, StreamIntact, NEW t \in Writers, NEW k \in Nat, Puts(t, k)
  PROVE  StreamIntact' /\ IsPrefix(Taken, Taken')
<1> DEFINE n == Len(Taken)
           s == Taken
           c == Taken'
<1>1. /\ s \in Seq(Byte) /\ n \in Nat /\ DOMAIN s = 1 .. n
      /\ c \in Seq(Byte) /\ Len(c) = n + k /\ DOMAIN c = 1 .. n + k
      /\ \A i \in 1 .. n : c[i] = s[i]
      /\ \A i \in 1 .. k : c[n + i] = <<t, Sent(t) + i>>
  BY PutsAtEnd
<1>2. /\ \A u \in Writers : Sent(u) \in Nat
      /\ \A u \in Writers : Sent(u)' = IF u = t THEN Sent(t) + k ELSE Sent(u)
  BY PutsAtEnd
<1>3. /\ \A i \in DOMAIN s : \E u \in Writers : \E j \in 1 .. Sent(u) : s[i] = <<u, j>>
      /\ \A u \in Writers : \A j \in 1 .. Sent(u) : \E i \in DOMAIN s : s[i] = <<u, j>>
      /\ \A i, j \in DOMAIN s : i < j /\ s[i][1] = s[j][1] => s[i][2] < s[j][2]
  BY DEF StreamIntact, NothingLostOrDoubled
<1>4. ChannelOut => \A u \in Writers : \A i \in DOMAIN s : i > n - w[u].done => s[i][1] = u
  BY DEF StreamIntact, CallsUnbroken
<1>5. (ChannelOut' <=> ChannelOut) /\ \A u \in Writers : w[u].done \in Nat
  BY DEF Puts, ChannelOut, StateOK, Typed, OutCall
<1>6. k > 0 /\ ChannelOut => \A u \in Writers \ {t} : w[u].done = 0
  <2>1. SUFFICES ASSUME k > 0, ChannelOut, NEW u \in Writers \ {t} PROVE w[u].done = 0
    OBVIOUS
  <2>2. out.lock # u
    BY <2>1, Constants DEF Puts
  <2>3. WriterOK(u) /\ w[u].pc \in OutPc
    BY DEF StateOK, Typed, OutCall
  <2> QED
    BY <2>1, <2>2, <2>3 DEF WriterOK, OutPc
<1>7. w'[t].done \in {0, w[t].done + k} /\ \A u \in Writers \ {t} : w'[u].done = w[u].done
  BY DEF Puts
<1>8. IsPrefix(s, c)
  <2>1. /\ \A i \in 1 .. n : c[i] \in Byte
        /\ 1 \in Int /\ n \in Int
    BY <1>1, ElementOfSeq
  <2> HIDE DEF n, s, c
  <2>2. /\ SubSeq(c, 1, n) \in Seq(Byte) /\ Len(SubSeq(c, 1, n)) = IF 1 <= n THEN n - 1 + 1 ELSE 0
        /\ \A i \in 1 .. n - 1 + 1 : SubSeq(c, 1, n)[i] = c[1 + i - 1]
    BY <2>1, SubSeqProperties
  <2>3. Len(SubSeq(c, 1, n)) = n /\ \A i \in 1 .. n : SubSeq(c, 1, n)[i] = c[i]
    BY <1>1, <2>2
  <2>4. Len(s) = n
    BY DEF n, s
  <2>5. SubSeq(c, 1, n) = s
    BY <1>1, <2>2, <2>3, <2>4, SeqEqual
  <2>6. SubSeq(s, 1, Len(s)) = s
    BY <1>1, SubSeqFull
  <2> QED
    BY <1>1, <2>4, <2>5, <2>6 DEF IsPrefix
<1> HIDE DEF n, s, c
<1>9. \A i \in DOMAIN c : \E u \in Writers : \E j \in 1 .. Sent(u)' : c[i] = <<u, j>>
  <2> TAKE i \in DOMAIN c
  <2>1. CASE i <= n
    <3>1. i \in DOMAIN s /\ c[i] = s[i]
      BY <1>1, <2>1
    <3>2. PICK u \in Writers : \E j \in 1 .. Sent(u) : s[i] = <<u, j>>
      BY <1>3, <3>1
    <3>3. PICK j \in 1 .. Sent(u) : s[i] = <<u, j>>
      BY <3>2
    <3>4. j \in 1 .. Sent(u)'
      BY <1>2
    <3> QED
      BY <3>1, <3>3, <3>4
  <2>2. CASE ~(i <= n)
    <3>1. i - n \in 1 .. k /\ n + (i - n) = i
      BY <1>1, <2>2
    <3>2. c[i] = <<t, Sent(t) + (i - n)>>
      BY <1>1, <3>1
    <3>3. Sent(t) + (i - n) \in 1 .. Sent(t)'
      BY <1>2, <3>1
    <3> QED
      BY <3>2, <3>3
  <2> QED
    BY <2>1, <2>2
<1>10. \A u \in Writers : \A j \in 1 .. Sent(u)' : \E i \in DOMAIN c : c[i] = <<u, j>>
  <2> TAKE u \in Writers
  <2> TAKE j \in 1 .. Sent(u)'
  <2>1. CASE j \in 1 .. Sent(u)
    <3>1. PICK i \in DOMAIN s : s[i] = <<u, j>>
      BY <1>3, <2>1
    <3>2. i \in DOMAIN c /\ c[i] = s[i]
      BY <1>1
    <3> QED
      BY <3>1, <3>2
  <2>2. CASE ~(j \in 1 .. Sent(u))
    <3>1. u = t /\ j - Sent(t) \in 1 .. k /\ Sent(t) + (j - Sent(t)) = j
      BY <1>2, <2>2
    <3>2. c[n + (j - Sent(t))] = <<t, j>> /\ n + (j - Sent(t)) \in DOMAIN c
      BY <1>1, <3>1
    <3> QED
      BY <3>1, <3>2
  <2> QED
    BY <2>1, <2>2
<1>11. ASSUME NEW i \in DOMAIN c, NEW j \in DOMAIN c, i < j, c[i][1] = c[j][1]
       PROVE  c[i][2] < c[j][2]
  <2>1. CASE j <= n
    <3>1. i \in DOMAIN s /\ j \in DOMAIN s /\ c[i] = s[i] /\ c[j] = s[j]
      BY <1>1, <1>11, <2>1
    <3> QED
      BY <1>3, <1>11, <3>1
  <2>2. CASE ~(j <= n)
    <3>1. j - n \in 1 .. k /\ n + (j - n) = j
      BY <1>1, <2>2
    <3>2. c[j] = <<t, Sent(t) + (j - n)>>
      BY <1>1, <3>1
    <3>3. CASE i <= n
      <4>1. i \in DOMAIN s /\ c[i] = s[i]
        BY <1>1, <3>3
      <4>2. PICK u \in Writers : \E m \in 1 .. Sent(u) : s[i] = <<u, m>>
        BY <1>3, <4>1
      <4>3. PICK m \in 1 .. Sent(u) : s[i] = <<u, m>>
        BY <4>2
      <4>4. u = t /\ m <= Sent(t)
        BY <1>2, <1>11, <3>2, <4>1, <4>3
      <4> QED
        BY <1>2, <3>1, <3>2, <4>1, <4>3, <4>4
    <3>4. CASE ~(i <= n)
      <4>1. i - n \in 1 .. k /\ n + (i - n) = i
        BY <1>1, <3>4
      <4>2. c[i] = <<t, Sent(t) + (i - n)>>
        BY <1>1, <4>1
      <4> QED
        BY <1>1, <1>2, <1>11, <3>1, <3>2, <4>1, <4>2
    <3> QED
      BY <3>3, <3>4
  <2> QED
    BY <2>1, <2>2
<1>12. ASSUME ChannelOut, NEW u \in Writers, NEW i \in DOMAIN c, i > (n + k) - w'[u].done
       PROVE  c[i][1] = u
  <2>1. CASE i <= n
    <3>1. i \in DOMAIN s /\ i > n - w[u].done /\ c[i] = s[i]
      BY <1>1, <1>5, <1>6, <1>7, <1>12, <2>1
    <3> QED
      BY <1>4, <1>12, <3>1
  <2>2. CASE ~(i <= n)
    <3>1. i - n \in 1 .. k /\ n + (i - n) = i
      BY <1>1, <2>2
    <3>2. c[i] = <<t, Sent(t) + (i - n)>>
      BY <1>1, <3>1
    <3>3. u = t
      <4>1. k > 0
        BY <3>1
      <4>2. u # t => w'[u].done = 0
        BY <1>6, <1>7, <1>12, <4>1
      <4>3. i <= n + k
        BY <1>1
      <4> QED
        BY <1>1, <1>12, <4>2, <4>3
    <3> QED
      BY <3>2, <3>3
  <2> QED
    BY <2>1, <2>2
<1>13. NothingLostOrDoubled'
  BY <1>9, <1>10, <1>11 DEF NothingLostOrDoubled, c
<1>14. CallsUnbroken'
  BY <1>1, <1>5, <1>12 DEF CallsUnbroken, c
<1> QED
  BY <1>8, <1>13, <1>14 DEF StreamIntact, s, c

(* The stream is what it was, with what the pipe and the output channel's  *)
(* buffer have got.                                                        *)
LEMMA WriterPuts ==
  ASSUME StateOK, StateOK', NEW t \in Writers, NEW k \in Nat,
         got' = got, in' = in,
         wire' \o OutBuffer' = (wire \o OutBuffer) \o Data(t, w[t].done, k)
  PROVE  Taken' = Taken \o Data(t, w[t].done, k)
<1> DEFINE d == Data(t, w[t].done, k)
           s == Taken
           s1 == Taken'
           b == InBuffer
           x == wire \o OutBuffer
           x1 == wire' \o OutBuffer'
<1>1. d \in Seq(Byte)
  BY DataIs DEF StateOK, Typed, OutCall
<1>2. Parts /\ Parts'
  BY TakenIs, PTL
<1>3. got \in Seq(Byte) /\ b \in Seq(Byte) /\ x \in Seq(Byte) /\ s = got \o (b \o x)
  BY <1>2, JoinedLength DEF Parts
<1>4. InBuffer' = InBuffer
  BY DEF InBuffer
<1>5. s1 = got \o (b \o x1) /\ x1 = x \o d
  BY <1>2, <1>4 DEF Parts
<1> HIDE DEF d, s, s1, b, x, x1
<1>6. b \o x \in Seq(Byte)
  BY <1>3, JoinedLength
<1>7. Associates(b, x, d) /\ Associates(got, b \o x, d)
  BY <1>1, <1>3, <1>6, Associative
<1>8. s1 = s \o d
  BY <1>3, <1>5, <1>7 DEF Associates
<1> QED
  BY <1>8 DEF s, s1, d

(* No bytes add nothing.                                                   *)
LEMMA NoData ==
  ASSUME StateOK, NEW t \in Writers, NEW s \in Seq(Byte)
  PROVE  s \o Data(t, w[t].done, 0) = s
<1>1. Data(t, w[t].done, 0) \in Seq(Byte) /\ Len(Data(t, w[t].done, 0)) = 0
  <2>1. Typed /\ w[t].done \in Nat /\ 0 \in Nat
    BY DEF StateOK, Typed, OutCall
  <2> QED
    BY <2>1, DataIs
<1>2. Data(t, w[t].done, 0) = << >>
  BY <1>1, EmptySeq
<1> QED
  BY <1>2, ConcatEmptySeq

-----------------------------------------------------------------------------
(* What a step leaves as it is.                                            *)

(* A writer's call that the step does not touch.                           *)
LEMMA OtherWriter ==
  ASSUME NEW u \in Writers, WriterOK(u), via' = via, w'[u] = w[u], acked'[u] = acked[u],
         out'.lock = u <=> out.lock = u, out.lock = u => out'.buff = out.buff
  PROVE  WriterOK(u)'
<1>1. (ChannelOut' <=> ChannelOut)
  BY DEF ChannelOut
<1>2. CASE out.lock = u
  BY <1>1, <1>2 DEF WriterOK, SendingOK
<1>3. CASE out.lock # u
  BY <1>1, <1>3 DEF WriterOK
<1> QED
  BY <1>2, <1>3

(* A reader's call that the step does not touch.                           *)
LEMMA OtherReader ==
  ASSUME NEW u \in Readers, ReaderOK(u), via' = via, r'[u] = r[u], in' = in
  PROVE  ReaderOK(u)'
BY DEF ReaderOK, ChannelIn

(* A step of writer t.                                                     *)
LEMMA WriterStep ==
  ASSUME StateOK, NEW t \in Writers,
         UNCHANGED <<via, nonblocking, reset, in, r, got>>,
         wire' \in Seq(Byte), Len(wire') <= WireSize,
         out' \in [buff : Seq(Byte), lock : Writers \cup {0}, offset : Nat],
         Len(out'.buff) <= BufferSize,
         out' = out \/ (ChannelOut /\ out.lock \in {0, t} /\ out'.lock \in {0, t}),
         w' \in [Writers -> OutCall], acked' \in [Writers -> Nat],
         \A u \in Writers \ {t} : w'[u] = w[u] /\ acked'[u] = acked[u],
         WriterOK(t)'
  PROVE  StateOK'
<1>1. Typed'
  BY DEF StateOK, Typed
<1>2. ChannelsOK'
  <2>1. (ChannelOut' <=> ChannelOut) /\ (ChannelIn' <=> ChannelIn)
    BY DEF ChannelOut, ChannelIn
  <2> QED
    BY <2>1 DEF StateOK, ChannelsOK
<1>3. ASSUME NEW u \in Writers PROVE WriterOK(u)'
  <2>1. CASE u = t
    BY <2>1
  <2>2. CASE u # t
    <3>1. WriterOK(u) /\ via' = via /\ w'[u] = w[u] /\ acked'[u] = acked[u]
      BY <2>2 DEF StateOK
    <3>2. (out'.lock = u <=> out.lock = u) /\ (out.lock = u => out'.buff = out.buff)
      BY <2>2, Constants
    <3> QED
      BY <3>1, <3>2, OtherWriter
  <2> QED
    BY <2>1, <2>2
<1>4. ASSUME NEW u \in Readers PROVE ReaderOK(u)'
  BY OtherReader DEF StateOK
<1> QED
  BY <1>1, <1>2, <1>3, <1>4 DEF StateOK

-----------------------------------------------------------------------------
(* What callers are told.                                                  *)

Looping == {"really_write", "really_recv", "output", "input", "read"}

(* A step that answers nothing tells nothing false.                        *)
LEMMA NoAnswerTrue ==
  ASSUME answer' = NoAnswer
  PROVE  AnswersTrue'
BY DEF AnswersTrue, NoAnswer

(* What is to be shown of a step that ends a call: by success or the end,  *)
(* and by a failure.                                                       *)
LEMMA AnswerTrue ==
  ASSUME NEW op, NEW kind \in {"ok", "eof"}, NEW n, NEW len, NEW min,
         answer' = [op |-> op, kind |-> kind, n |-> n, len |-> len, min |-> min],
         op \in Looping => n <= len /\ (kind = "ok" => n >= min),
         op \in {"really_write", "really_recv"} /\ kind = "ok" => n = len,
         kind = "eof" => Closed' /\ wire' = << >>
  PROVE  AnswersTrue'
BY DEF AnswersTrue, Looping

LEMMA FailureTrue ==
  ASSUME NEW op, NEW kind \in {"error", "errno", "nothing"}, NEW n, NEW len, NEW min,
         answer' = [op |-> op, kind |-> kind, n |-> n, len |-> len, min |-> min],
         op \in Looping => n <= len,
         reset' \/ MayFail(answer.op)',
         kind = "nothing" => reset' = FALSE
  PROVE  AnswersTrue'
BY DEF AnswersTrue, Looping

(* A step that leaves the input side alone: the output channel's position  *)
(* goes on by what it has sent.                                            *)
LEMMA SentPosition ==
  ASSUME PositionsTrue, StateOK, StateOK', NEW m \in Nat,
         via' = via, in' = in, got' = got,
         ChannelOut => out'.offset = out.offset + m,
         Len(wire') = Len(wire) + m
  PROVE  PositionsTrue'
<1>1. InBuffer' = InBuffer
  BY DEF InBuffer
<1>2. Len(got) \in Nat /\ Len(InBuffer) \in Nat /\ Len(wire) \in Nat
  BY TakenIs, LenProperties DEF Parts
<1>3. (ChannelOut' <=> ChannelOut) /\ (ChannelIn' <=> ChannelIn)
  BY DEF ChannelOut, ChannelIn
<1> QED
  BY <1>1, <1>2, <1>3 DEF PositionsTrue

-----------------------------------------------------------------------------
(* The steps of the writers.                                               *)

OutputEffect(t) ==
  /\ StateOK'
  /\ \E k \in Nat : Puts(t, k)
  /\ AnswersTrue'
  /\ PositionsTrue'

(* The other writers' calls are not touched, and t goes on or ends.        *)
OnlyCall(t) ==
  /\ via' = via
  /\ \A u \in Writers \ {t} : w'[u] = w[u] /\ acked'[u] = acked[u]

(* A step that adds k bytes of t to the pipe and the output buffer puts them. *)
LEMMA PutsData ==
  ASSUME StateOK, StateOK', NEW t \in Writers, NEW k \in Nat, OnlyCall(t),
         got' = got, in' = in,
         wire' \o OutBuffer' = (wire \o OutBuffer) \o Data(t, w[t].done, k),
         acked'[t] + w'[t].done = acked[t] + w[t].done + k,
         w'[t].done \in {0, w[t].done + k},
         k > 0 /\ ChannelOut => out.lock \in {0, t}
  PROVE  Puts(t, k)
<1>1. Taken' = Taken \o Data(t, w[t].done, k)
  BY WriterPuts
<1>2. Sent(t)' = Sent(t) + k
  BY DEF Sent
<1> QED
  BY <1>1, <1>2 DEF Puts, OnlyCall

(* A step that only moves them puts none.                                  *)
LEMMA PutsNothing ==
  ASSUME StateOK, StateOK', NEW t \in Writers, OnlyCall(t), got' = got, in' = in,
         wire' \o OutBuffer' = wire \o OutBuffer,
         acked'[t] + w'[t].done = acked[t] + w[t].done,
         w'[t].done \in {0, w[t].done}
  PROVE  Puts(t, 0)
<1>1. wire \o OutBuffer \in Seq(Byte)
  BY TakenIs, JoinedLength DEF Parts
<1>2. wire' \o OutBuffer' = (wire \o OutBuffer) \o Data(t, w[t].done, 0)
  BY <1>1, NoData
<1>3. acked[t] \in Nat /\ w[t].done \in Nat
  BY DEF StateOK, Typed, OutCall
<1> QED
  BY <1>2, <1>3, PutsData

(* The output buffer under a step that leaves the channel and the calls alone. *)
LEMMA SameOutBuffer ==
  ASSUME out' = out, out.lock = 0 \/ w'[out.lock] = w[out.lock]
  PROVE  OutBuffer' = OutBuffer
BY DEF OutBuffer, Unsent

(* A new call of a writer has sent nothing.                                *)
LEMMA StartOutputStep ==
  ASSUME StateOK, PositionsTrue, NEW t \in Writers, NEW pc, NEW all, StartOutput(t, pc, all),
         (pc = "lock" /\ ChannelOut) \/ (pc = "write" /\ ~ChannelOut /\ all)
  PROVE  OutputEffect(t)
<1>0. PICK len \in 1 .. Total[t] - acked[t] : \E min \in IF all THEN {len} ELSE 0 .. len :
        Going(t, [NoOutput EXCEPT !.pc = pc, !.len = len, !.min = min])
  BY DEF StartOutput
<1>1. PICK min \in IF all THEN {len} ELSE 0 .. len :
        Going(t, [NoOutput EXCEPT !.pc = pc, !.len = len, !.min = min])
  BY <1>0
<1> DEFINE c == [NoOutput EXCEPT !.pc = pc, !.len = len, !.min = min]
<1>3. /\ w' = [w EXCEPT ![t] = c] /\ answer' = NoAnswer /\ acked' = acked
      /\ UNCHANGED <<via, nonblocking, reset, wire, out, in, r, got>> /\ w[t].pc = "idle"
  BY <1>1 DEF Going, StartOutput
<1>4. /\ w \in [Writers -> OutCall] /\ acked \in [Writers -> Nat] /\ WriterOK(t)
      /\ Total[t] \in Nat /\ acked[t] \in Nat
  BY Constants DEF StateOK, Typed
<1>5. len \in Nat /\ min \in Nat /\ min <= len /\ acked[t] + len <= Total[t] /\ (all => min = len)
  BY <1>4
<1>6. /\ c \in OutCall
      /\ c.pc = pc /\ c.len = len /\ c.min = min /\ c.done = 0
      /\ c.buffLen = 0 /\ c.buffIov = 0 /\ c.bstrIov = 0
  BY <1>5 DEF OutCall, OutPc, NoOutput
<1> HIDE DEF c
<1>7. w' \in [Writers -> OutCall] /\ w'[t] = c /\ \A u \in Writers \ {t} : w'[u] = w[u]
  BY <1>3, <1>4, <1>6
<1>8. out.lock # t /\ w[t].done = 0
  BY <1>3, <1>4 DEF WriterOK
<1>9. WriterOK(t)'
  <2>1. (ChannelOut' <=> ChannelOut)
    BY <1>3 DEF ChannelOut
  <2>2. c.pc # "writev" /\ out'.lock # t
    BY <1>3, <1>6, <1>8
  <2> QED
    BY <1>3, <1>5, <1>6, <1>7, <2>1, <2>2 DEF WriterOK
<1>10. StateOK'
  <2>1. /\ wire' \in Seq(Byte) /\ Len(wire') <= WireSize
        /\ out' \in [buff : Seq(Byte), lock : Writers \cup {0}, offset : Nat]
        /\ Len(out'.buff) <= BufferSize
    BY <1>3 DEF StateOK, Typed, ChannelsOK
  <2> QED
    BY <1>3, <1>4, <1>7, <1>9, <2>1, WriterStep
<1>11. OutBuffer' = OutBuffer
  <2>1. out.lock \in Writers \cup {0}
    BY DEF StateOK, Typed
  <2> QED
    BY <1>3, <1>7, <1>8, <2>1, SameOutBuffer
<1>12. Puts(t, 0)
  <2>1. w'[t].done = 0
    BY <1>6, <1>7
  <2>2. OnlyCall(t)
    BY <1>3, <1>7 DEF OnlyCall
  <2> QED
    BY <1>3, <1>8, <1>10, <1>11, <2>1, <2>2, PutsNothing
<1>13. PositionsTrue'
  <2>1. Len(wire) \in Nat /\ out.offset \in Nat
    BY LenProperties DEF StateOK, Typed
  <2> QED
    BY <1>3, <1>10, <2>1, SentPosition
<1> QED
  BY <1>3, <1>10, <1>12, <1>13, NoAnswerTrue DEF OutputEffect

(* For both interfaces.                                                    *)
LEMMA OutputCallStep ==
  ASSUME StateOK, PositionsTrue, NEW t \in Writers, OutputCall(t) \/ ReallyWriteCall(t)
  PROVE  OutputEffect(t)
BY StartOutputStep DEF OutputCall, ReallyWriteCall

(* A call that ends leaves its thread idle, and its answer is added.       *)
LEMMA WrittenIs ==
  ASSUME StateOK, NEW t \in Writers, NEW kind, NEW op, NEW n \in Nat,
         acked[t] + n <= Total[t], Written(t, kind, op, n), via' = via
  PROVE  /\ w' \in [Writers -> OutCall] /\ acked' \in [Writers -> Nat]
         /\ w'[t] = NoOutput /\ acked'[t] = acked[t] + n /\ w'[t].done = 0
         /\ OnlyCall(t)
         /\ out'.lock # t => WriterOK(t)'
<1>1. /\ w \in [Writers -> OutCall] /\ acked \in [Writers -> Nat]
      /\ NoOutput \in OutCall /\ NoOutput.done = 0
  BY DEF StateOK, Typed, NoOutput, OutCall, OutPc
<1>2. /\ w' = [w EXCEPT ![t] = NoOutput]
      /\ acked' = [acked EXCEPT ![t] = acked[t] + n]
  BY DEF Written
<1>3. /\ w' \in [Writers -> OutCall] /\ acked' \in [Writers -> Nat]
      /\ w'[t] = NoOutput /\ acked'[t] = acked[t] + n
      /\ \A u \in Writers \ {t} : w'[u] = w[u] /\ acked'[u] = acked[u]
  BY <1>1, <1>2
<1>4. out'.lock # t => WriterOK(t)'
  <2>1. Total[t] \in Nat /\ acked[t] \in Nat
    BY <1>1, Constants
  <2> QED
    BY <1>3, <2>1 DEF WriterOK, NoOutput
<1> QED
  BY <1>1, <1>3, <1>4 DEF OnlyCall

(* What fits is copied to the buffer behind what is there, or the call takes the lock. *)
LEMMA LockOutputStep ==
  ASSUME StateOK, PositionsTrue, NEW t \in Writers, LockOutput(t)
  PROVE  OutputEffect(t)
<1> DEFINE buff == out.buff
           len == w[t].len
<1>1. /\ w[t].pc = "lock" /\ out.lock = 0
      /\ UNCHANGED <<via, nonblocking, reset, wire, in, r, got>>
  BY DEF LockOutput
<1>2. /\ out \in [buff : Seq(Byte), lock : Writers \cup {0}, offset : Nat]
      /\ buff \in Seq(Byte) /\ Len(buff) \in Nat /\ Len(buff) <= BufferSize /\ BufferSize \in Nat
      /\ wire \in Seq(Byte) /\ Len(wire) \in Nat /\ Len(wire) <= WireSize
      /\ w \in [Writers -> OutCall] /\ acked \in [Writers -> Nat]
      /\ acked[t] \in Nat /\ len \in Nat /\ WriterOK(t) /\ Typed
  BY LenProperties, Constants DEF StateOK, Typed, ChannelsOK, OutCall
<1>3. /\ ChannelOut /\ w[t].done = 0 /\ w[t].min \in Nat /\ w[t].min <= len
      /\ acked[t] + len <= Total[t] /\ w[t].buffLen = 0 /\ t # 0
  BY <1>1, <1>2, Constants DEF WriterOK, OutCall
<1>4. OutBuffer = buff
  BY <1>1 DEF OutBuffer
<1>5. CASE len <= BufferSize - Len(buff)
  <2> DEFINE d == Data(t, 0, len)
  <2>1. out' = [out EXCEPT !.buff = buff \o d] /\ Written(t, "ok", "output", len)
    BY <1>5 DEF LockOutput
  <2>2. d \in Seq(Byte) /\ Len(d) = len
    BY <1>2, DataIs
  <2> HIDE DEF d
  <2>3. buff \o d \in Seq(Byte) /\ Len(buff \o d) = Len(buff) + len
    BY <1>2, <2>2, JoinedLength
  <2> DEFINE e == buff \o d
  <2>4. e \in Seq(Byte) /\ Len(e) <= BufferSize
    BY <1>2, <1>5, <2>3
  <2> HIDE DEF e
  <2>5. /\ out' \in [buff : Seq(Byte), lock : Writers \cup {0}, offset : Nat]
        /\ out'.buff = e /\ out'.lock = 0 /\ out'.offset = out.offset
    BY <1>1, <1>2, <2>1, <2>4 DEF e
  <2>6. /\ w' \in [Writers -> OutCall] /\ acked' \in [Writers -> Nat]
        /\ acked'[t] = acked[t] + len /\ w'[t].done = 0
        /\ OnlyCall(t) /\ WriterOK(t)'
    BY <1>1, <1>2, <1>3, <2>1, <2>5, WrittenIs
  <2>7. StateOK'
    BY <1>1, <1>2, <1>3, <2>4, <2>5, <2>6, WriterStep DEF OnlyCall
  <2>8. OutBuffer' = e
    BY <2>5 DEF OutBuffer
  <2>9. wire' \o OutBuffer' = (wire \o OutBuffer) \o Data(t, w[t].done, len)
    <3>1. Associates(wire, buff, d)
      BY <1>2, <2>2, Associative
    <3> QED
      BY <1>1, <1>3, <1>4, <2>8, <3>1 DEF Associates, d, e
  <2>10. Puts(t, len)
    <3>1. /\ acked'[t] + w'[t].done = acked[t] + w[t].done + len
          /\ w'[t].done \in {0, w[t].done + len} /\ len \in Nat
      BY <1>2, <1>3, <2>6
    <3> HIDE DEF len
    <3> QED
      BY <1>1, <2>6, <2>7, <2>9, <3>1, PutsData
  <2>11. PositionsTrue'
    BY <1>1, <1>2, <2>5, <2>7, SentPosition DEF Typed
  <2>12. answer' = [op |-> "output", kind |-> "ok", n |-> len, len |-> len, min |-> w[t].min]
    BY <2>1 DEF Written
  <2>13. AnswersTrue'
    <3> DEFINE min == w[t].min
    <3>1. len <= len /\ len >= min
      BY <1>2, <1>3
    <3> HIDE DEF len, min
    <3> QED
      BY <2>12, <3>1, AnswerTrue DEF min
  <2> QED
    BY <1>2, <2>7, <2>10, <2>11, <2>13 DEF OutputEffect
<1>6. CASE ~(len <= BufferSize - Len(buff))
  <2> DEFINE c == [w[t] EXCEPT !.pc = "writev", !.buffLen = Len(buff), !.buffIov = Len(buff),
                               !.bstrIov = len]
  <2>1. /\ out' = [out EXCEPT !.lock = t] /\ w' = [w EXCEPT ![t] = c]
        /\ answer' = NoAnswer /\ acked' = acked
    BY <1>6 DEF LockOutput, Going
  <2>2. c \in OutCall
    BY <1>2 DEF OutCall, OutPc
  <2>3. /\ c.pc = "writev" /\ c.len = len /\ c.min = w[t].min /\ c.done = 0
        /\ c.buffLen = Len(buff) /\ c.buffIov = Len(buff) /\ c.bstrIov = len
    BY <1>2, <1>3 DEF OutCall
  <2> HIDE DEF c
  <2>4. w' \in [Writers -> OutCall] /\ w'[t] = c /\ \A u \in Writers \ {t} : w'[u] = w[u]
    BY <1>2, <2>1, <2>2
  <2>5. /\ out' \in [buff : Seq(Byte), lock : Writers \cup {0}, offset : Nat]
        /\ out'.buff = buff /\ out'.lock = t /\ out'.offset = out.offset
    BY <1>2, <2>1
  <2>6. (ChannelOut' <=> ChannelOut)
    BY <1>1 DEF ChannelOut
  <2>7. SendingOK(t)'
    BY <1>2, <1>3, <1>6, <2>3, <2>4, <2>5 DEF SendingOK
  <2>8. WriterOK(t)'
    BY <1>2, <1>3, <2>1, <2>3, <2>4, <2>5, <2>6, <2>7 DEF WriterOK
  <2>9. StateOK'
    BY <1>1, <1>2, <1>3, <2>1, <2>4, <2>5, <2>8, WriterStep
  <2>10. OutBuffer' = buff
    <3>1. OutBuffer' = SubSeq(buff, Len(buff) - Len(buff) + 1, Len(buff))
      BY <1>3, <2>3, <2>4, <2>5 DEF OutBuffer, Unsent
    <3>2. Len(buff) - Len(buff) + 1 = 1
      BY <1>2
    <3> QED
      BY <1>2, <3>1, <3>2, SubSeqFull
  <2>11. Puts(t, 0)
    <3>1. OnlyCall(t) /\ w'[t].done = 0 /\ acked' = acked
      BY <1>1, <2>1, <2>3, <2>4 DEF OnlyCall
    <3> QED
      BY <1>1, <1>3, <1>4, <2>9, <2>10, <3>1, PutsNothing
  <2>12. PositionsTrue'
    <3>1. /\ 0 \in Nat /\ out'.offset = out.offset + 0 /\ Len(wire') = Len(wire) + 0
          /\ UNCHANGED <<via, in, got>>
      BY <1>1, <1>2, <2>5, LenProperties DEF Typed
    <3> QED
      BY <2>9, <3>1, SentPosition
  <2> QED
    BY <2>1, <2>9, <2>11, <2>12, NoAnswerTrue DEF OutputEffect
<1> QED
  BY <1>5, <1>6

(* What a write to the descriptor of a channel takes.                      *)
LEMMA SentPart ==
  ASSUME Typed, NEW t \in Writers, SendingOK(t), NEW n \in 0 .. w[t].buffIov + w[t].bstrIov
  PROVE  /\ SubSeq(Vectors(t), 1, n) \in Seq(Byte) /\ Len(SubSeq(Vectors(t), 1, n)) = n
         /\ n < w[t].buffLen => SubSeq(Vectors(t), 1, n) = SubSeq(Unsent(t), 1, n)
         /\ n >= w[t].buffLen =>
              SubSeq(Vectors(t), 1, n) = Unsent(t) \o Data(t, w[t].done, n - w[t].buffLen)
<1> DEFINE u == Unsent(t)
           bl == w[t].buffLen
           bi == w[t].buffIov
           v == SubSeq(u, 1, bi)
           d == Data(t, w[t].done, w[t].bstrIov)
<1>1. /\ bl \in Nat /\ bi \in Nat /\ w[t].bstrIov \in Nat /\ w[t].done \in Nat
      /\ bi <= bl /\ (bi < bl => w[t].bstrIov = 0)
  BY DEF Typed, OutCall, SendingOK
<1>2. u \in Seq(Byte) /\ Len(u) = bl
  BY UnsentIs
<1>3. d \in Seq(Byte) /\ Len(d) = w[t].bstrIov
  BY <1>1, DataIs
<1>4. v \in Seq(Byte) /\ Len(v) = bi
  <2> HIDE DEF u, bl, bi
  <2> QED
    BY <1>1, <1>2, Split
<1>5. Vectors(t) = v \o d
  BY DEF Vectors
<1> HIDE DEF v, d
<1>6. v \o d \in Seq(Byte) /\ Len(v \o d) = bi + w[t].bstrIov
  BY <1>3, <1>4, JoinedLength
<1>7. SubSeq(v \o d, 1, n) \in Seq(Byte) /\ Len(SubSeq(v \o d, 1, n)) = n
  <2> DEFINE c == v \o d
  <2>1. c \in Seq(Byte) /\ n \in 0 .. Len(c)
    BY <1>6
  <2> HIDE DEF c
  <2>2. SubSeq(c, 1, n) \in Seq(Byte) /\ Len(SubSeq(c, 1, n)) = n
    BY <2>1, Split
  <2> QED
    BY <2>2 DEF c
<1>8. /\ n <= bi => SubSeq(v \o d, 1, n) = SubSeq(v, 1, n)
      /\ n >= bi => SubSeq(v \o d, 1, n) = v \o SubSeq(d, 1, n - bi)
  <2>1. n \in 0 .. Len(v) + Len(d)
    BY <1>3, <1>4
  <2>2. /\ n <= Len(v) => SubSeq(v \o d, 1, n) = SubSeq(v, 1, n)
        /\ n >= Len(v) => SubSeq(v \o d, 1, n) = v \o SubSeq(d, 1, n - Len(v))
    BY <1>3, <1>4, <2>1, PrefixOfConcat
  <2> QED
    BY <1>4, <2>2
<1>9. ASSUME n < bl PROVE SubSeq(v \o d, 1, n) = SubSeq(u, 1, n)
  <2>1. n <= bi /\ n \in 0 .. bi /\ bi \in 0 .. Len(u)
    BY <1>1, <1>2, <1>9
  <2> HIDE DEF u, bi
  <2>2. SubSeq(SubSeq(u, 1, bi), 1, n) = SubSeq(u, 1, n)
    BY <1>2, <2>1, PrefixOfPrefix
  <2> QED
    BY <1>8, <2>1, <2>2 DEF v
<1>10. ASSUME n >= bl PROVE SubSeq(v \o d, 1, n) = u \o Data(t, w[t].done, n - bl)
  <2>1. bi = bl /\ n >= bi /\ n - bl \in 0 .. w[t].bstrIov
    BY <1>1, <1>10
  <2>2. v = u
    <3>1. SubSeq(u, 1, Len(u)) = u
      <4> HIDE DEF u
      <4> QED
        BY <1>2, SubSeqFull
    <3> QED
      BY <1>2, <2>1, <3>1 DEF v
  <2>3. SubSeq(d, 1, n - bl) = Data(t, w[t].done, n - bl)
    <3> DEFINE k == n - bl
    <3>1. k \in 0 .. w[t].bstrIov
      BY <2>1
    <3> HIDE DEF k
    <3>2. SubSeq(d, 1, k) = Data(t, w[t].done, k)
      BY <1>1, <3>1, DataPrefix DEF d
    <3> QED
      BY <3>2 DEF k
  <2> QED
    BY <1>8, <2>1, <2>2, <2>3
<1> QED
  BY <1>5, <1>7, <1>9, <1>10

(* The bounds of a number of bytes that a system call may move.            *)
LEMMA LeastIs ==
  \A a, b \in Int : \A n \in 1 .. Least(a, b) : n \in Nat /\ n >= 1 /\ n <= a /\ n <= b
BY DEF Least

(* A step of writev, with the number of bytes that the call has moved.     *)
WritesV(t, n) ==
  LET left == w[t].buffLen - n
      done == w[t].done - left
  IN /\ wire' = wire \o SubSeq(Vectors(t), 1, n)
     /\ IF left > 0
        THEN /\ out' = [out EXCEPT !.offset = @ + n]
             /\ Going(t, [w[t] EXCEPT !.buffLen = left, !.buffIov = left])
        ELSE IF done >= w[t].min
        THEN /\ out' = [out EXCEPT !.offset = @ + n, !.buff = << >>, !.lock = 0]
             /\ Written(t, "ok", "output", done)
        ELSE /\ out' = NotYetDone(n)
             /\ Going(t, [w[t] EXCEPT !.done = done, !.buffLen = 0,
                                      !.buffIov = 0, !.bstrIov = w[t].len - done])

(* Such a step sends from the buffer first and then from the bigstring.    *)
LEMMA WritesVStep ==
  ASSUME StateOK, PositionsTrue, NEW t \in Writers, NEW n \in Nat,
         n >= 1, n <= Room, n <= w[t].buffIov + w[t].bstrIov,
         w[t].pc = "writev", UNCHANGED <<via, nonblocking, reset, in, r, got>>,
         WritesV(t, n)
  PROVE  OutputEffect(t)
<1>1. /\ WriterOK(t) /\ Typed /\ w[t] \in OutCall
      /\ out \in [buff : Seq(Byte), lock : Writers \cup {0}, offset : Nat]
      /\ wire \in Seq(Byte) /\ Len(wire) \in Nat /\ Len(wire) <= WireSize /\ WireSize \in Nat
      /\ w \in [Writers -> OutCall] /\ acked \in [Writers -> Nat]
      /\ acked[t] \in Nat /\ Total[t] \in Nat /\ BufferSize \in Nat /\ Len(out.buff) <= BufferSize
  BY LenProperties, Constants DEF StateOK, Typed, ChannelsOK
<1>2. /\ ChannelOut /\ out.lock = t /\ SendingOK(t) /\ t # 0
  BY <1>1, Constants DEF WriterOK
<1>3. PICK len \in Nat, min \in Nat, done \in Nat, bl \in Nat, bi \in Nat, bs \in Nat :
        /\ w[t].len = len /\ w[t].min = min /\ w[t].done = done
        /\ w[t].buffLen = bl /\ w[t].buffIov = bi /\ w[t].bstrIov = bs
  BY <1>1 DEF OutCall
<1>4. PICK buff \in Seq(Byte), pos \in Nat : out.buff = buff /\ out.offset = pos
  BY <1>1
<1>5. /\ min <= len /\ done <= len /\ acked[t] + len <= Total[t]
      /\ bl <= Len(buff) /\ bi <= bl /\ (bi < bl => bs = 0)
      /\ (bl > 0 => done = 0) /\ done + bs <= len
  BY <1>1, <1>2, <1>3, <1>4 DEF WriterOK, SendingOK
<1>6. n <= bi + bs /\ Len(wire) + n <= WireSize /\ Len(buff) \in Nat /\ Len(buff) <= BufferSize
  BY <1>1, <1>3, <1>4, LenProperties DEF Room
<1>7. /\ wire' = wire \o SubSeq(Vectors(t), 1, n)
      /\ bl - n > 0 => /\ out' = [out EXCEPT !.offset = pos + n]
                       /\ Going(t, [w[t] EXCEPT !.buffLen = bl - n, !.buffIov = bl - n])
      /\ bl - n <= 0 /\ done - (bl - n) >= min =>
           /\ out' = [out EXCEPT !.offset = pos + n, !.buff = << >>, !.lock = 0]
           /\ Written(t, "ok", "output", done - (bl - n))
      /\ bl - n <= 0 /\ done - (bl - n) < min =>
           /\ out' = [out EXCEPT !.offset = pos + n]
           /\ Going(t, [w[t] EXCEPT !.done = done - (bl - n), !.buffLen = 0, !.buffIov = 0,
                                    !.bstrIov = len - (done - (bl - n))])
  BY <1>3, <1>4 DEF WritesV, NotYetDone
<1> DEFINE u == Unsent(t)
           x == SubSeq(Vectors(t), 1, n)
<1>8. OutBuffer = u /\ u \in Seq(Byte) /\ Len(u) = bl
  BY <1>1, <1>2, <1>3, UnsentIs DEF OutBuffer
<1>9. /\ x \in Seq(Byte) /\ Len(x) = n
      /\ n < bl => x = SubSeq(u, 1, n)
      /\ n >= bl => x = u \o Data(t, w[t].done, n - bl)
  <2>1. n \in 0 .. w[t].buffIov + w[t].bstrIov
    BY <1>3, <1>6
  <2> QED
    BY <1>1, <1>2, <1>3, <2>1, SentPart
<1>10. wire' = wire \o x
  BY <1>7
<1> HIDE DEF x, u
<1>11. wire' \in Seq(Byte) /\ Len(wire') = Len(wire) + n
  BY <1>1, <1>9, <1>10, JoinedLength
<1>12. (ChannelOut' <=> ChannelOut)
  BY DEF ChannelOut
<1>13. CASE bl - n > 0
  <2> DEFINE c == [w[t] EXCEPT !.buffLen = bl - n, !.buffIov = bl - n]
  <2>1. /\ out' = [out EXCEPT !.offset = pos + n] /\ w' = [w EXCEPT ![t] = c]
        /\ answer' = NoAnswer /\ acked' = acked
    BY <1>7, <1>13 DEF Going
  <2>2. PICK left \in Nat : left = bl - n /\ left > 0 /\ left <= bl
    BY <1>13
  <2>3. /\ c \in OutCall /\ c.pc = "writev" /\ c.len = len /\ c.min = min
        /\ c.done = done /\ c.buffLen = left /\ c.buffIov = left /\ c.bstrIov = bs
    BY <1>1, <1>3, <2>2 DEF OutCall
  <2> HIDE DEF c
  <2>4. w' \in [Writers -> OutCall] /\ w'[t] = c /\ \A z \in Writers \ {t} : w'[z] = w[z]
    BY <1>1, <2>1, <2>3
  <2>5. /\ out' \in [buff : Seq(Byte), lock : Writers \cup {0}, offset : Nat]
        /\ out'.buff = buff /\ out'.lock = t /\ out'.offset = pos + n
    <3>1. pos + n \in Nat
      OBVIOUS
    <3> QED
      BY <1>1, <1>2, <1>4, <2>1, <3>1
  <2>6. SendingOK(t)'
    BY <1>5, <1>6, <2>2, <2>3, <2>4, <2>5 DEF SendingOK
  <2>7. WriterOK(t)'
    BY <1>2, <1>5, <1>12, <2>1, <2>2, <2>3, <2>4, <2>5, <2>6 DEF WriterOK
  <2>8. StateOK'
    <3>1. Len(out'.buff) <= BufferSize /\ Len(wire') <= WireSize
      BY <1>6, <1>11, <2>5
    <3>2. acked' \in [Writers -> Nat] /\ \A z \in Writers \ {t} : acked'[z] = acked[z]
      BY <1>1, <2>1
    <3>3. out.lock \in {0, t} /\ out'.lock \in {0, t}
      BY <1>2, <2>5
    <3> QED
      BY <1>2, <1>11, <2>4, <2>5, <2>7, <3>1, <3>2, <3>3, WriterStep
  <2>9. wire' \o OutBuffer' = wire \o OutBuffer
    <3> DEFINE y == SubSeq(buff, Len(buff) - left + 1, Len(buff))
    <3>1. OutBuffer' = y
      BY <1>2, <2>3, <2>4, <2>5 DEF OutBuffer, Unsent
    <3>2. u = SubSeq(buff, Len(buff) - bl + 1, Len(buff))
      BY <1>3, <1>4 DEF u, Unsent
    <3>3. x = SubSeq(u, 1, n)
      BY <1>9, <1>13
    <3>4. bl \in 0 .. Len(buff) /\ n \in 0 .. bl /\ left = bl - n
      BY <1>5, <1>6, <1>13, <2>2
    <3>5. x \o y = u
      BY <3>2, <3>3, <3>4, RestOfLast
    <3>6. y \in Seq(Byte)
      <4> DEFINE k == Len(buff) - left
      <4>1. k \in 0 .. Len(buff)
        BY <1>5, <1>6, <2>2
      <4> HIDE DEF k
      <4>2. SubSeq(buff, k + 1, Len(buff)) \in Seq(Byte)
        BY <4>1, Split
      <4> QED
        BY <4>2 DEF k
    <3> HIDE DEF y
    <3>7. Associates(wire, x, y)
      BY <1>1, <1>9, <3>6, Associative
    <3> QED
      BY <1>8, <1>10, <3>1, <3>5, <3>7 DEF Associates
  <2>10. Puts(t, 0)
    <3>1. OnlyCall(t) /\ w'[t].done = w[t].done /\ acked' = acked
      BY <1>3, <2>1, <2>3, <2>4 DEF OnlyCall
    <3> QED
      BY <2>8, <2>9, <3>1, PutsNothing
  <2>11. PositionsTrue'
    BY <1>4, <1>11, <2>5, <2>8, SentPosition
  <2> QED
    BY <2>1, <2>8, <2>10, <2>11, NoAnswerTrue DEF OutputEffect
<1>14. CASE bl - n <= 0
  <2>1. PICK k \in Nat : k = n - bl
    BY <1>14
  <2>2. PICK m \in Nat : m = done + k
    OBVIOUS
  <2>3. done - (bl - n) = m /\ m <= len /\ n >= bl
    <3>1. k <= bs
      BY <1>5, <1>6, <1>14, <2>1
    <3> QED
      BY <1>5, <1>14, <2>1, <2>2, <3>1
  <2> DEFINE d == Data(t, w[t].done, k)
  <2>4. d \in Seq(Byte)
    BY <1>1, <1>3, DataIs
  <2>5. x = u \o d
    BY <1>9, <2>1, <2>3
  <2> HIDE DEF d
  <2>6. Associates(wire, u, d)
    BY <1>1, <1>8, <2>4, Associative
  <2>7. wire' \o << >> = (wire \o OutBuffer) \o d
    <3>1. wire' \o << >> = wire'
      BY <1>11, ConcatEmptySeq
    <3> QED
      BY <1>8, <1>10, <2>5, <2>6, <3>1 DEF Associates
  <2>8. CASE m >= min
    <3>1. /\ out' = [out EXCEPT !.offset = pos + n, !.buff = << >>, !.lock = 0]
          /\ Written(t, "ok", "output", m)
      BY <1>7, <1>14, <2>3, <2>8
    <3>2. << >> \in Seq(Byte) /\ Len(<< >>) = 0 /\ pos + n \in Nat
      BY EmptySeq
    <3>3. /\ out' \in [buff : Seq(Byte), lock : Writers \cup {0}, offset : Nat]
          /\ out'.buff = << >> /\ out'.lock = 0 /\ out'.offset = pos + n
      BY <1>1, <3>1, <3>2
    <3>4. /\ w' \in [Writers -> OutCall] /\ acked' \in [Writers -> Nat]
          /\ acked'[t] = acked[t] + m /\ w'[t].done = 0
          /\ OnlyCall(t) /\ WriterOK(t)'
      <4>1. acked[t] + m <= Total[t] /\ out'.lock # t
        BY <1>1, <1>2, <1>5, <2>3, <3>3
      <4> QED
        BY <3>1, <4>1, WrittenIs
    <3>5. StateOK'
      <4>1. Len(out'.buff) <= BufferSize /\ Len(wire') <= WireSize
        BY <1>1, <1>6, <1>11, <3>2, <3>3
      <4>2. out.lock \in {0, t} /\ out'.lock \in {0, t}
        BY <1>2, <3>3
      <4>3. \A z \in Writers \ {t} : w'[z] = w[z] /\ acked'[z] = acked[z]
        BY <3>4 DEF OnlyCall
      <4> QED
        BY <1>2, <1>11, <3>3, <3>4, <4>1, <4>2, <4>3, WriterStep
    <3>6. OutBuffer' = << >>
      BY <3>3 DEF OutBuffer
    <3>7. Puts(t, k)
      <4>1. acked'[t] + w'[t].done = acked[t] + w[t].done + k /\ w'[t].done \in {0, w[t].done + k}
        BY <1>1, <1>3, <2>2, <3>4
      <4>2. wire' \o OutBuffer' = (wire \o OutBuffer) \o Data(t, w[t].done, k)
        BY <2>7, <3>6 DEF d
      <4>3. k > 0 /\ ChannelOut => out.lock \in {0, t}
        BY <1>2
      <4> QED
        BY <3>4, <3>5, <4>1, <4>2, <4>3, PutsData
    <3>8. PositionsTrue'
      BY <1>4, <1>11, <3>3, <3>5, SentPosition
    <3>9. AnswersTrue'
      <4>1. answer' = [op |-> "output", kind |-> "ok", n |-> m, len |-> len, min |-> min]
        BY <1>3, <3>1 DEF Written
      <4> QED
        BY <2>3, <2>8, <4>1, AnswerTrue
    <3> QED
      BY <3>5, <3>7, <3>8, <3>9 DEF OutputEffect
  <2>9. CASE m < min
    <3> DEFINE c == [w[t] EXCEPT !.done = m, !.buffLen = 0, !.buffIov = 0, !.bstrIov = len - m]
    <3>1. /\ out' = [out EXCEPT !.offset = pos + n] /\ w' = [w EXCEPT ![t] = c]
          /\ answer' = NoAnswer /\ acked' = acked
      BY <1>7, <1>14, <2>3, <2>9 DEF Going
    <3>2. PICK more \in Nat : more = len - m /\ more > 0
      BY <1>5, <2>9
    <3>3. /\ c \in OutCall /\ c.pc = "writev" /\ c.len = len /\ c.min = min
          /\ c.done = m /\ c.buffLen = 0 /\ c.buffIov = 0 /\ c.bstrIov = more
      BY <1>1, <1>3, <3>2 DEF OutCall
    <3> HIDE DEF c
    <3>4. w' \in [Writers -> OutCall] /\ w'[t] = c /\ \A z \in Writers \ {t} : w'[z] = w[z]
      BY <1>1, <3>1, <3>3
    <3>5. /\ out' \in [buff : Seq(Byte), lock : Writers \cup {0}, offset : Nat]
          /\ out'.buff = buff /\ out'.lock = t /\ out'.offset = pos + n
      <4>1. pos + n \in Nat
        OBVIOUS
      <4> QED
        BY <1>1, <1>2, <1>4, <3>1, <4>1
    <3>6. SendingOK(t)'
      BY <1>5, <1>6, <2>3, <3>2, <3>3, <3>4, <3>5 DEF SendingOK
    <3>7. WriterOK(t)'
      BY <1>2, <1>5, <1>12, <2>3, <3>1, <3>2, <3>3, <3>4, <3>5, <3>6 DEF WriterOK
    <3>8. StateOK'
      <4>1. Len(out'.buff) <= BufferSize /\ Len(wire') <= WireSize
        BY <1>6, <1>11, <3>5
      <4>2. acked' \in [Writers -> Nat] /\ \A z \in Writers \ {t} : acked'[z] = acked[z]
        BY <1>1, <3>1
      <4>3. out.lock \in {0, t} /\ out'.lock \in {0, t}
        BY <1>2, <3>5
      <4> QED
        BY <1>2, <1>11, <3>4, <3>5, <3>7, <4>1, <4>2, <4>3, WriterStep
    <3>9. OutBuffer' = << >>
      <4>1. OutBuffer' = SubSeq(buff, Len(buff) - 0 + 1, Len(buff))
        BY <1>2, <3>3, <3>4, <3>5 DEF OutBuffer, Unsent
      <4> QED
        BY <1>6, <4>1, SubSeqEmpty
    <3>10. Puts(t, k)
      <4>1. /\ OnlyCall(t) /\ w'[t].done = w[t].done + k
            /\ acked'[t] + w'[t].done = acked[t] + w[t].done + k
        <5>1. OnlyCall(t)
          BY <3>1, <3>4 DEF OnlyCall
        <5>2. w'[t].done = m /\ w[t].done = done /\ acked'[t] = acked[t]
          BY <1>3, <3>1, <3>3, <3>4
        <5> QED
          BY <1>1, <2>2, <5>1, <5>2
      <4>2. wire' \o OutBuffer' = (wire \o OutBuffer) \o Data(t, w[t].done, k)
        BY <2>7, <3>9 DEF d
      <4>3. k > 0 /\ ChannelOut => out.lock \in {0, t}
        BY <1>2
      <4> QED
        BY <3>8, <4>1, <4>2, <4>3, PutsData
    <3>11. PositionsTrue'
      BY <1>4, <1>11, <3>5, <3>8, SentPosition
    <3> QED
      BY <3>1, <3>8, <3>10, <3>11, NoAnswerTrue DEF OutputEffect
  <2> QED
    BY <2>8, <2>9
<1> QED
  BY <1>13, <1>14

(* For any number of bytes that the system moves.                          *)
LEMMA WriteVStep ==
  ASSUME StateOK, PositionsTrue, NEW t \in Writers, WriteV(t)
  PROVE  OutputEffect(t)
<1>1. PICK n \in 1 .. Least(Room, w[t].buffIov + w[t].bstrIov) : WritesV(t, n)
  BY DEF WriteV, WritesV
<1>2. w[t].pc = "writev" /\ UNCHANGED <<via, nonblocking, reset, in, r, got>>
  BY DEF WriteV
<1>3. n \in Nat /\ n >= 1 /\ n <= Room /\ n <= w[t].buffIov + w[t].bstrIov
  <2>1. Room \in Int /\ w[t].buffIov + w[t].bstrIov \in Int
    <3>1. wire \in Seq(Byte) /\ w[t] \in OutCall
      BY DEF StateOK, Typed
    <3>2. Len(wire) \in Nat /\ WireSize \in Nat
      BY <3>1, LenProperties, Constants
    <3>3. w[t].buffIov \in Nat /\ w[t].bstrIov \in Nat
      BY <3>1 DEF OutCall
    <3> QED
      BY <3>2, <3>3 DEF Room
  <2> QED
    BY <1>1, <2>1, LeastIs
<1> QED
  BY <1>1, <1>2, <1>3, WritesVStep

(* The retry with a single byte changes only what is given to the system.  *)
LEMMA OneByteStep ==
  ASSUME StateOK, PositionsTrue, NEW t \in Writers, OneByte(t)
  PROVE  OutputEffect(t)
<1>1. /\ WriterOK(t) /\ Typed /\ w[t] \in OutCall
      /\ out \in [buff : Seq(Byte), lock : Writers \cup {0}, offset : Nat]
      /\ wire \in Seq(Byte) /\ Len(wire) \in Nat /\ Len(wire) <= WireSize
      /\ w \in [Writers -> OutCall] /\ acked \in [Writers -> Nat]
      /\ acked[t] \in Nat /\ Len(out.buff) <= BufferSize
  BY LenProperties, Constants DEF StateOK, Typed, ChannelsOK
<1>2. /\ w[t].pc = "writev" /\ w[t].buffIov + w[t].bstrIov > 1
      /\ UNCHANGED <<via, nonblocking, reset, wire, out, in, r, got>>
      /\ Going(t, IF w[t].buffLen > 0 THEN [w[t] EXCEPT !.buffIov = 1, !.bstrIov = 0]
                  ELSE [w[t] EXCEPT !.bstrIov = 1])
  BY DEF OneByte
<1>3. /\ ChannelOut /\ out.lock = t /\ SendingOK(t) /\ t # 0
  BY <1>1, <1>2, Constants DEF WriterOK
<1>4. PICK len \in Nat, min \in Nat, done \in Nat, bl \in Nat, bi \in Nat, bs \in Nat :
        /\ w[t].len = len /\ w[t].min = min /\ w[t].done = done
        /\ w[t].buffLen = bl /\ w[t].buffIov = bi /\ w[t].bstrIov = bs
  BY <1>1 DEF OutCall
<1>5. PICK bi1 \in Nat, bs1 \in Nat :
        \/ bl > 0 /\ bi1 = 1 /\ bs1 = 0
        \/ bl = 0 /\ bi1 = bi /\ bs1 = 1
  OBVIOUS
<1>6. answer' = NoAnswer /\ acked' = acked
  BY <1>2 DEF Going
<1>7. PICK c \in OutCall :
        /\ w' = [w EXCEPT ![t] = c] /\ c.pc = "writev" /\ c.len = len /\ c.min = min
        /\ c.done = done /\ c.buffLen = bl /\ c.buffIov = bi1 /\ c.bstrIov = bs1
  <2>1. CASE bl > 0
    <3> DEFINE e == [w[t] EXCEPT !.buffIov = 1, !.bstrIov = 0]
    <3>1. w' = [w EXCEPT ![t] = e]
      BY <1>2, <1>4, <2>1 DEF Going
    <3>2. /\ e \in OutCall /\ e.pc = "writev" /\ e.len = len /\ e.min = min
          /\ e.done = done /\ e.buffLen = bl /\ e.buffIov = 1 /\ e.bstrIov = 0
      BY <1>1, <1>2, <1>4 DEF OutCall
    <3> HIDE DEF e
    <3>3. bi1 = 1 /\ bs1 = 0
      BY <1>5, <2>1
    <3> QED
      BY <3>1, <3>2, <3>3
  <2>2. CASE bl = 0
    <3> DEFINE e == [w[t] EXCEPT !.bstrIov = 1]
    <3>1. w' = [w EXCEPT ![t] = e]
      BY <1>2, <1>4, <2>2 DEF Going
    <3>2. /\ e \in OutCall /\ e.pc = "writev" /\ e.len = len /\ e.min = min
          /\ e.done = done /\ e.buffLen = bl /\ e.buffIov = bi /\ e.bstrIov = 1
      BY <1>1, <1>2, <1>4 DEF OutCall
    <3> HIDE DEF e
    <3>3. bi1 = bi /\ bs1 = 1
      BY <1>5, <2>2
    <3> QED
      BY <3>1, <3>2, <3>3
  <2> QED
    BY <2>1, <2>2
<1>8. w' \in [Writers -> OutCall] /\ w'[t] = c /\ \A z \in Writers \ {t} : w'[z] = w[z]
  BY <1>1, <1>7
<1>9. /\ min <= len /\ done <= len /\ acked[t] + len <= Total[t]
      /\ bl <= Len(out.buff) /\ bi <= bl /\ (bi < bl => bs = 0)
      /\ (bl > 0 => done = 0) /\ done + bs <= len /\ bi + bs > 1
  BY <1>1, <1>2, <1>3, <1>4 DEF WriterOK, SendingOK
<1>10. SendingOK(t)'
  <2>1. bi1 <= bl /\ (bi1 < bl => bs1 = 0) /\ bi1 + bs1 > 0 /\ done + bs1 <= len
    BY <1>5, <1>9
  <2> QED
    BY <1>2, <1>7, <1>8, <1>9, <2>1 DEF SendingOK
<1>11. WriterOK(t)'
  <2>1. (ChannelOut' <=> ChannelOut)
    BY <1>2 DEF ChannelOut
  <2> QED
    BY <1>2, <1>3, <1>6, <1>7, <1>8, <1>9, <1>10, <2>1 DEF WriterOK
<1>12. StateOK'
  BY <1>1, <1>2, <1>6, <1>8, <1>11, WriterStep
<1>13. OutBuffer' = OutBuffer
  BY <1>2, <1>3, <1>4, <1>7, <1>8 DEF OutBuffer, Unsent
<1>14. Puts(t, 0)
  <2>1. OnlyCall(t) /\ w'[t].done = w[t].done /\ acked' = acked
    BY <1>2, <1>4, <1>6, <1>7, <1>8 DEF OnlyCall
  <2> QED
    BY <1>2, <1>12, <1>13, <2>1, PutsNothing
<1>15. PositionsTrue'
  <2>1. 0 \in Nat /\ out'.offset = out.offset + 0 /\ Len(wire') = Len(wire) + 0
    BY <1>1, <1>2
  <2> QED
    BY <1>2, <1>12, <2>1, SentPosition
<1> QED
  BY <1>6, <1>12, <1>14, <1>15, NoAnswerTrue DEF OutputEffect

(* When it fails, what the buffer has left and what was sent stay in the stream. *)
LEMMA OutputFailsStep ==
  ASSUME StateOK, PositionsTrue, NEW t \in Writers, OutputFails(t)
  PROVE  OutputEffect(t)
<1>1. /\ WriterOK(t) /\ Typed /\ w[t] \in OutCall
      /\ out \in [buff : Seq(Byte), lock : Writers \cup {0}, offset : Nat]
      /\ wire \in Seq(Byte) /\ Len(wire) \in Nat /\ Len(wire) <= WireSize
      /\ acked[t] \in Nat /\ Len(out.buff) <= BufferSize /\ Len(out.buff) \in Nat
      /\ BufferSize \in Nat /\ Total[t] \in Nat
  BY LenProperties, Constants DEF StateOK, Typed, ChannelsOK
<1>2. /\ w[t].pc = "writev" /\ UNCHANGED <<via, nonblocking, reset, wire, in, r, got>>
      /\ out' = [out EXCEPT !.buff = Unsent(t), !.lock = 0]
      /\ Written(t, "error", "output", w[t].done)
      /\ reset \/ (nonblocking /\ 1 > Room)
  BY DEF OutputFails, AfterFailure, WouldBlock
<1>3. /\ ChannelOut /\ out.lock = t /\ SendingOK(t) /\ t # 0
  BY <1>1, <1>2, Constants DEF WriterOK
<1>4. PICK len \in Nat, min \in Nat, done \in Nat, bl \in Nat :
        w[t].len = len /\ w[t].min = min /\ w[t].done = done /\ w[t].buffLen = bl
  BY <1>1 DEF OutCall
<1>5. /\ done <= len /\ acked[t] + len <= Total[t] /\ bl <= Len(out.buff)
  BY <1>1, <1>3, <1>4 DEF WriterOK, SendingOK
<1> DEFINE u == Unsent(t)
<1>6. OutBuffer = u /\ u \in Seq(Byte) /\ Len(u) = bl
  BY <1>1, <1>3, <1>4, UnsentIs DEF OutBuffer
<1> HIDE DEF u
<1>7. /\ out' \in [buff : Seq(Byte), lock : Writers \cup {0}, offset : Nat]
      /\ out'.buff = u /\ out'.lock = 0 /\ out'.offset = out.offset
  BY <1>1, <1>2, <1>6 DEF u
<1>8. /\ w' \in [Writers -> OutCall] /\ acked' \in [Writers -> Nat]
      /\ acked'[t] = acked[t] + done /\ w'[t].done = 0
      /\ OnlyCall(t) /\ WriterOK(t)'
  <2>1. acked[t] + done <= Total[t] /\ out'.lock # t /\ Written(t, "error", "output", done)
    BY <1>1, <1>2, <1>3, <1>4, <1>5, <1>7
  <2> QED
    BY <1>2, <2>1, WrittenIs
<1>9. StateOK'
  <2>1. Len(out'.buff) <= BufferSize /\ Len(wire') <= WireSize /\ wire' \in Seq(Byte)
    BY <1>1, <1>2, <1>5, <1>6, <1>7
  <2>2. out.lock \in {0, t} /\ out'.lock \in {0, t}
    BY <1>3, <1>7
  <2> QED
    BY <1>2, <1>3, <1>7, <1>8, <2>1, <2>2, WriterStep DEF OnlyCall
<1>10. OutBuffer' = OutBuffer
  BY <1>6, <1>7 DEF OutBuffer
<1>11. Puts(t, 0)
  <2>1. /\ acked'[t] + w'[t].done = acked[t] + w[t].done /\ w'[t].done \in {0, w[t].done}
    BY <1>1, <1>4, <1>8
  <2> QED
    BY <1>2, <1>8, <1>9, <1>10, <2>1, PutsNothing
<1>12. PositionsTrue'
  <2>1. 0 \in Nat /\ out'.offset = out.offset + 0 /\ Len(wire') = Len(wire) + 0
    BY <1>1, <1>2, <1>7
  <2> QED
    BY <1>2, <1>9, <2>1, SentPosition
<1>13. AnswersTrue'
  <2>1. answer' = [op |-> "output", kind |-> "error", n |-> done, len |-> len, min |-> min]
    BY <1>2, <1>4 DEF Written
  <2>2. reset' \/ MayFail(answer.op)'
    <3>1. Room \in Nat /\ Room' = Room
      BY <1>1, <1>2, Constants DEF Room
    <3> QED
      BY <1>2, <2>1, <3>1 DEF MayFail
  <2> QED
    BY <1>5, <2>1, <2>2, FailureTrue
<1> QED
  BY <1>9, <1>11, <1>12, <1>13 DEF OutputEffect

(* A call on the descriptor: nothing is in the channel's buffer.           *)
LEMMA DirectlyPuts ==
  ASSUME StateOK, StateOK', NEW t \in Writers, NEW n \in Nat, ~ChannelOut,
         UNCHANGED <<nonblocking, reset, out, in, r, got>>, OnlyCall(t),
         wire' = wire \o Data(t, w[t].done, n),
         acked'[t] + w'[t].done = acked[t] + w[t].done + n,
         w'[t].done \in {0, w[t].done + n}
  PROVE  Puts(t, n)
<1>1. out.buff = << >> /\ out.lock = 0 /\ wire \in Seq(Byte) /\ wire' \in Seq(Byte)
  BY DEF StateOK, ChannelsOK, Typed
<1>2. OutBuffer = << >> /\ OutBuffer' = << >>
  BY <1>1 DEF OutBuffer
<1>3. wire' \o << >> = wire' /\ wire \o << >> = wire
  BY <1>1, ConcatEmptySeq
<1>4. wire' \o OutBuffer' = (wire \o OutBuffer) \o Data(t, w[t].done, n)
  BY <1>2, <1>3
<1> QED
  BY <1>4, PutsData

(* Such a call that goes on or ends, having moved n bytes.                 *)
LEMMA DirectStep ==
  ASSUME StateOK, PositionsTrue, NEW t \in Writers, NEW n \in Nat, ~ChannelOut,
         UNCHANGED <<via, nonblocking, reset, out, in, r, got>>, OnlyCall(t),
         wire' = wire \o Data(t, w[t].done, n), n <= Room,
         w' \in [Writers -> OutCall], acked' \in [Writers -> Nat], WriterOK(t)',
         acked'[t] + w'[t].done = acked[t] + w[t].done + n,
         w'[t].done \in {0, w[t].done + n}
  PROVE  StateOK' /\ (\E k \in Nat : Puts(t, k)) /\ PositionsTrue'
<1>1. /\ wire \in Seq(Byte) /\ Len(wire) \in Nat /\ WireSize \in Nat /\ Typed /\ w[t].done \in Nat
  BY LenProperties, Constants DEF StateOK, Typed, OutCall
<1>2. Data(t, w[t].done, n) \in Seq(Byte) /\ Len(Data(t, w[t].done, n)) = n
  BY <1>1, DataIs
<1>3. wire' \in Seq(Byte) /\ Len(wire') = Len(wire) + n
  BY <1>1, <1>2, JoinedLength
<1>4. StateOK'
  <2>1. Len(wire') <= WireSize
    BY <1>1, <1>3 DEF Room
  <2>2. /\ out' \in [buff : Seq(Byte), lock : Writers \cup {0}, offset : Nat]
        /\ Len(out'.buff) <= BufferSize
    BY DEF StateOK, Typed, ChannelsOK
  <2>3. \A u \in Writers \ {t} : w'[u] = w[u] /\ acked'[u] = acked[u]
    BY DEF OnlyCall
  <2> QED
    BY <1>3, <2>1, <2>2, <2>3, WriterStep
<1>5. Puts(t, n)
  BY <1>4, DirectlyPuts
<1>6. PositionsTrue'
  BY <1>3, <1>4, SentPosition
<1> QED
  BY <1>4, <1>5, <1>6

(* Without a byte: the data is empty.                                      *)
LEMMA UnchangedWire ==
  ASSUME StateOK, NEW t \in Writers, wire' = wire
  PROVE  wire' = wire \o Data(t, w[t].done, 0)
<1>1. wire \in Seq(Byte)
  BY DEF StateOK, Typed
<1> QED
  BY <1>1, NoData

(* The pipe never holds more than its size.                                *)
LEMMA RoomIs == StateOK => Room \in Nat /\ \A t \in Writers : 0 <= Room
BY Constants, LenProperties DEF StateOK, Typed, ChannelsOK, Room

(* really_write moves on, ends, or fails with what it has written.         *)
LEMMA ReallyWriteStep ==
  ASSUME StateOK, PositionsTrue, NEW t \in Writers, ReallyWrite(t)
  PROVE  OutputEffect(t)
<1>1. /\ WriterOK(t) /\ Typed /\ w[t] \in OutCall /\ Room \in Nat
      /\ w \in [Writers -> OutCall] /\ acked \in [Writers -> Nat]
      /\ acked[t] \in Nat /\ Total[t] \in Nat
  BY RoomIs, Constants DEF StateOK, Typed
<1>2. /\ w[t].pc = "write" /\ UNCHANGED <<via, nonblocking, reset, out, in, r, got>>
  BY DEF ReallyWrite
<1>3. PICK len \in Nat, done \in Nat : w[t].len = len /\ w[t].done = done
  BY <1>1 DEF OutCall
<1>4. /\ ~ChannelOut /\ w[t].min = len /\ done <= len /\ acked[t] + len <= Total[t]
      /\ w[t].buffLen = 0 /\ w[t].buffIov = 0 /\ w[t].bstrIov = 0 /\ out.lock # t
  BY <1>1, <1>2, <1>3 DEF WriterOK
<1>5. ASSUME NEW n \in Nat, n >= 1, n <= Room, n <= len - done,
             wire' = wire \o Data(t, w[t].done, n),
             IF done + n = len THEN Written(t, "ok", "really_write", len)
             ELSE Going(t, [w[t] EXCEPT !.done = done + n])
      PROVE  OutputEffect(t)
  <2>1. CASE done + n = len
    <3>1. Written(t, "ok", "really_write", len)
      BY <1>5, <2>1
    <3>2. /\ w' \in [Writers -> OutCall] /\ acked' \in [Writers -> Nat]
          /\ acked'[t] = acked[t] + len /\ w'[t].done = 0
          /\ OnlyCall(t) /\ WriterOK(t)'
      BY <1>2, <1>4, <3>1, WrittenIs
    <3>3. StateOK' /\ (\E k \in Nat : Puts(t, k)) /\ PositionsTrue'
      <4>1. /\ acked'[t] + w'[t].done = acked[t] + w[t].done + n
            /\ w'[t].done \in {0, w[t].done + n}
        BY <1>1, <1>3, <2>1, <3>2
      <4> QED
        BY <1>2, <1>4, <1>5, <3>2, <4>1, DirectStep
    <3>4. answer' = [op |-> "really_write", kind |-> "ok", n |-> len, len |-> len, min |-> len]
      BY <1>3, <1>4, <3>1 DEF Written
    <3>5. AnswersTrue'
      BY <3>4, AnswerTrue
    <3> QED
      BY <3>3, <3>5 DEF OutputEffect
  <2>2. CASE done + n # len
    <3> DEFINE c == [w[t] EXCEPT !.done = done + n]
    <3>1. w' = [w EXCEPT ![t] = c] /\ answer' = NoAnswer /\ acked' = acked
      BY <1>5, <2>2 DEF Going
    <3>2. /\ c \in OutCall /\ c.pc = "write" /\ c.len = len /\ c.min = len /\ c.done = done + n
          /\ c.buffLen = 0 /\ c.buffIov = 0 /\ c.bstrIov = 0
      BY <1>1, <1>2, <1>3, <1>4 DEF OutCall
    <3> HIDE DEF c
    <3>3. w' \in [Writers -> OutCall] /\ w'[t] = c /\ \A z \in Writers \ {t} : w'[z] = w[z]
      BY <1>1, <3>1, <3>2
    <3>4. WriterOK(t)'
      <4>1. (ChannelOut' <=> ChannelOut) /\ done + n <= len
        BY <1>2, <1>5 DEF ChannelOut
      <4> QED
        BY <1>2, <1>4, <3>1, <3>2, <3>3, <4>1 DEF WriterOK
    <3>5. OnlyCall(t)
      BY <1>2, <3>1, <3>3 DEF OnlyCall
    <3>6. StateOK' /\ (\E k \in Nat : Puts(t, k)) /\ PositionsTrue'
      <4>1. /\ acked'[t] + w'[t].done = acked[t] + w[t].done + n
            /\ w'[t].done \in {0, w[t].done + n}
        BY <1>1, <1>3, <3>1, <3>2, <3>3
      <4> QED
        BY <1>1, <1>2, <1>4, <1>5, <3>1, <3>3, <3>4, <3>5, <4>1, DirectStep
    <3> QED
      BY <3>1, <3>6, NoAnswerTrue DEF OutputEffect
  <2> QED
    BY <2>1, <2>2
<1>6. ASSUME reset \/ WouldBlock(len - done),
             Written(t, "error", "really_write", done), wire' = wire
      PROVE  OutputEffect(t)
  <2>1. /\ w' \in [Writers -> OutCall] /\ acked' \in [Writers -> Nat]
        /\ acked'[t] = acked[t] + done /\ w'[t].done = 0
        /\ OnlyCall(t) /\ WriterOK(t)'
    <3>1. acked[t] + done <= Total[t]
      BY <1>1, <1>4
    <3> QED
      BY <1>2, <1>4, <1>6, <3>1, WrittenIs
  <2>2. StateOK' /\ (\E k \in Nat : Puts(t, k)) /\ PositionsTrue'
    <3>1. /\ acked'[t] + w'[t].done = acked[t] + w[t].done + 0
          /\ w'[t].done \in {0, w[t].done + 0} /\ 0 <= Room /\ 0 \in Nat
      BY <1>1, <1>3, <2>1
    <3>2. wire' = wire \o Data(t, w[t].done, 0)
      BY <1>6, UnchangedWire
    <3> QED
      BY <1>2, <1>4, <2>1, <3>1, <3>2, DirectStep
  <2>3. AnswersTrue'
    <3>1. answer' = [op |-> "really_write", kind |-> "error", n |-> done, len |-> len, min |-> len]
      BY <1>3, <1>4, <1>6 DEF Written
    <3>2. reset' \/ MayFail(answer.op)'
      <4>1. Room' = Room
        BY <1>6 DEF Room
      <4>2. len - done > Room => Total[t] - acked'[t] > Room'
        BY <1>1, <1>4, <2>1, <4>1
      <4> QED
        BY <1>2, <1>6, <3>1, <4>2 DEF MayFail, WouldBlock
    <3> QED
      BY <1>4, <3>1, <3>2, FailureTrue
  <2> QED
    BY <2>2, <2>3 DEF OutputEffect
<1>7. CASE \E n \in 1 .. Least(Room, w[t].len - w[t].done) :
             /\ wire' = wire \o Data(t, w[t].done, n)
             /\ IF w[t].done + n = w[t].len THEN Written(t, "ok", "really_write", w[t].len)
                ELSE Going(t, [w[t] EXCEPT !.done = @ + n])
  <2>1. PICK n \in 1 .. Least(Room, len - done) :
             /\ wire' = wire \o Data(t, w[t].done, n)
             /\ IF done + n = len THEN Written(t, "ok", "really_write", len)
                ELSE Going(t, [w[t] EXCEPT !.done = done + n])
    BY <1>3, <1>7
  <2>2. n \in Nat /\ n >= 1 /\ n <= Room /\ n <= len - done
    <3>1. Room \in Int /\ len - done \in Int
      BY <1>1
    <3> QED
      BY <3>1, LeastIs
  <2> QED
    BY <1>5, <2>1, <2>2
<1>8. CASE /\ reset \/ WouldBlock(w[t].len - w[t].done)
           /\ Written(t, "error", "really_write", w[t].done)
           /\ UNCHANGED wire
  BY <1>3, <1>6, <1>8
<1> QED
  BY <1>7, <1>8 DEF ReallyWrite

(* A single system call writes some bytes or fails without any.            *)
LEMMA OneCallStep ==
  ASSUME StateOK, PositionsTrue, NEW t \in Writers, NEW op \in {"write", "send", "sendmsg"},
         ~ChannelOut, w[t].pc = "idle", acked[t] < Total[t],
         UNCHANGED <<via, nonblocking, reset, out, in, r, got>>,
         NEW kind \in {"ok", "error", "errno", "nothing"}, NEW n \in Nat,
         Written(t, kind, op, n), wire' = wire \o Data(t, 0, n),
         n <= Room, n <= Total[t] - acked[t],
         kind # "ok" => reset \/ MayFail(answer.op)',
         kind = "nothing" => reset = FALSE
  PROVE  OutputEffect(t)
<1>1. /\ WriterOK(t) /\ Typed /\ w[t] \in OutCall /\ Room \in Nat
      /\ acked[t] \in Nat /\ Total[t] \in Nat /\ w[t].len \in Nat /\ w[t].min \in Nat
  BY RoomIs, Constants DEF StateOK, Typed, OutCall
<1>2. w[t].done = 0 /\ out.lock # t /\ wire' = wire \o Data(t, w[t].done, n)
  BY <1>1 DEF WriterOK
<1>3. /\ w' \in [Writers -> OutCall] /\ acked' \in [Writers -> Nat]
      /\ acked'[t] = acked[t] + n /\ w'[t].done = 0
      /\ OnlyCall(t) /\ WriterOK(t)'
  <2>1. acked[t] + n <= Total[t]
    BY <1>1
  <2> QED
    BY <1>2, <2>1, WrittenIs
<1>4. StateOK' /\ (\E k \in Nat : Puts(t, k)) /\ PositionsTrue'
  <2>1. /\ acked'[t] + w'[t].done = acked[t] + w[t].done + n
        /\ w'[t].done \in {0, w[t].done + n}
    BY <1>1, <1>2, <1>3
  <2> QED
    BY <1>2, <1>3, <2>1, DirectStep
<1>5. AnswersTrue'
  <2> DEFINE len == w[t].len
             min == w[t].min
  <2>1. answer' = [op |-> op, kind |-> kind, n |-> n, len |-> len, min |-> min]
    BY DEF Written
  <2> HIDE DEF len, min
  <2>2. op \notin Looping /\ op \notin {"really_write", "really_recv"}
    BY DEF Looping
  <2>3. CASE kind = "ok"
    BY <2>1, <2>2, <2>3, AnswerTrue
  <2>4. CASE kind # "ok"
    BY <2>1, <2>2, <2>4, FailureTrue
  <2> QED
    BY <2>3, <2>4
<1> QED
  BY <1>4, <1>5 DEF OutputEffect

(* What a failing call left does not fit after it either.                  *)
LEMMA DoesNotFit ==
  ASSUME StateOK, NEW t \in Writers, NEW op \in {"write", "send", "sendmsg"},
         NEW kind, Written(t, kind, op, 0), wire' = wire, nonblocking' = nonblocking,
         Total[t] - acked[t] > Room, nonblocking \/ op \in {"send", "sendmsg"}
  PROVE  MayFail(answer.op)'
<1>1. acked \in [Writers -> Nat] /\ acked[t] \in Nat /\ Room' = Room
  BY DEF StateOK, Typed, Room
<1>2. acked'[t] = acked[t] /\ answer'.op = op
  <2>1. acked[t] + 0 = acked[t]
    BY <1>1
  <2> QED
    BY <1>1, <2>1 DEF Written
<1> QED
  BY <1>1, <1>2 DEF MayFail

LEMMA WriteOnceStep ==
  ASSUME StateOK, PositionsTrue, NEW t \in Writers, WriteOnce(t)
  PROVE  OutputEffect(t)
<1>1. Room \in Nat /\ acked[t] \in Nat /\ Total[t] \in Nat
  BY RoomIs, Constants DEF StateOK, Typed
<1>2. /\ w[t].pc = "idle" /\ UNCHANGED <<via, nonblocking, reset, out, in, r, got>>
      /\ ~ChannelOut /\ acked[t] < Total[t]
  BY DEF WriteOnce
<1>3. CASE \E n \in 1 .. Least(Room, Total[t] - acked[t]) :
             wire' = wire \o Data(t, 0, n) /\ Written(t, "ok", "write", n)
  <2>1. PICK n \in 1 .. Least(Room, Total[t] - acked[t]) :
             wire' = wire \o Data(t, 0, n) /\ Written(t, "ok", "write", n)
    BY <1>3
  <2>2. n \in Nat /\ n <= Room /\ n <= Total[t] - acked[t]
    <3>1. Room \in Int /\ Total[t] - acked[t] \in Int
      BY <1>1
    <3> QED
      BY <3>1, LeastIs
  <2> QED
    BY <1>2, <2>1, <2>2, OneCallStep
<1>4. CASE /\ reset \/ WouldBlock(Total[t] - acked[t])
           /\ Written(t, "error", "write", 0)
           /\ UNCHANGED wire
  <2>1. reset \/ MayFail(answer.op)'
    BY <1>2, <1>4, DoesNotFit DEF WouldBlock
  <2>2. wire' = wire \o Data(t, 0, 0)
    <3>1. w[t].done = 0
      BY <1>2 DEF StateOK, WriterOK
    <3> QED
      BY <1>4, <3>1, UnchangedWire
  <2>3. 0 \in Nat /\ 0 <= Room /\ 0 <= Total[t] - acked[t]
    BY <1>1, <1>2
  <2> QED
    BY <1>2, <1>4, <2>1, <2>2, <2>3, OneCallStep
<1> QED
  BY <1>3, <1>4 DEF WriteOnce

LEMMA SendOnceStep ==
  ASSUME StateOK, PositionsTrue, NEW t \in Writers, NEW op \in {"send", "sendmsg"}, SendOnce(t, op)
  PROVE  OutputEffect(t)
<1>1. Room \in Nat /\ acked[t] \in Nat /\ Total[t] \in Nat
  BY RoomIs, Constants DEF StateOK, Typed
<1>2. /\ w[t].pc = "idle" /\ UNCHANGED <<via, nonblocking, reset, out, in, r, got>>
      /\ ~ChannelOut /\ acked[t] < Total[t]
  BY DEF SendOnce
<1>3. CASE \E n \in 1 .. Least(Room, Total[t] - acked[t]) :
             wire' = wire \o Data(t, 0, n) /\ Written(t, "ok", op, n)
  <2>1. PICK n \in 1 .. Least(Room, Total[t] - acked[t]) :
             wire' = wire \o Data(t, 0, n) /\ Written(t, "ok", op, n)
    BY <1>3
  <2>2. n \in Nat /\ n <= Room /\ n <= Total[t] - acked[t]
    <3>1. Room \in Int /\ Total[t] - acked[t] \in Int
      BY <1>1
    <3> QED
      BY <3>1, LeastIs
  <2> QED
    BY <1>2, <2>1, <2>2, OneCallStep
<1>4. CASE /\ reset \/ Total[t] - acked[t] > Room
           /\ Written(t, ErrorKind(op), op, 0)
           /\ UNCHANGED wire
  <2>1. reset \/ MayFail(answer.op)'
    BY <1>2, <1>4, DoesNotFit
  <2>2. wire' = wire \o Data(t, 0, 0)
    <3>1. w[t].done = 0
      BY <1>2 DEF StateOK, WriterOK
    <3> QED
      BY <1>4, <3>1, UnchangedWire
  <2>3. 0 \in Nat /\ 0 <= Room /\ 0 <= Total[t] - acked[t]
    BY <1>1, <1>2
  <2>4. /\ ErrorKind(op) \in {"ok", "error", "errno", "nothing"}
        /\ ErrorKind(op) = "nothing" => reset = FALSE
    BY DEF ErrorKind, StateOK, Typed
  <2> QED
    BY <1>2, <1>4, <2>1, <2>2, <2>3, <2>4, OneCallStep
<1> QED
  BY <1>3, <1>4 DEF SendOnce

(* Every step of a writer puts more of its bytes at the end of the stream. *)
LEMMA WriterSteps ==
  ASSUME StateOK, PositionsTrue, NEW t \in Writers, Output(t) \/ CallOutput(t)
  PROVE  OutputEffect(t)
BY LockOutputStep, WriteVStep, OneByteStep, OutputFailsStep, ReallyWriteStep, OutputCallStep,
   WriteOnceStep, SendOnceStep DEF Output, CallOutput

-----------------------------------------------------------------------------
(* The steps that move bytes on.                                           *)

MoveEffect ==
  /\ StateOK'
  /\ Taken' = Taken /\ w' = w /\ acked' = acked /\ via' = via
  /\ AnswersTrue'
  /\ PositionsTrue'

(* They keep the stream as it is.                                          *)
LEMMA MoveKeeps ==
  ASSUME StreamIntact, StateOK, MoveEffect
  PROVE  StreamIntact' /\ IsPrefix(Taken, Taken')
<1>1. Taken \in Seq(Byte)
  BY TakenIs DEF Parts
<1>2. Taken' = Taken /\ w' = w /\ acked' = acked /\ via' = via
  BY DEF MoveEffect
<1>3. StreamIntact'
  BY <1>2 DEF StreamIntact, NothingLostOrDoubled, CallsUnbroken, Sent, ChannelOut
<1>4. IsPrefix(Taken, Taken')
  <2> DEFINE s == Taken
  <2>1. Len(s) \in Nat /\ Taken' = s
    BY <1>1, <1>2, LenProperties
  <2> HIDE DEF s
  <2>2. IsPrefix(s, s)
    BY <2>1 DEF IsPrefix
  <2> QED
    BY <2>1, <2>2 DEF s
<1> QED
  BY <1>3, <1>4

(* A flush moves the front of the output buffer to the pipe.               *)
LEMMA FlushStep ==
  ASSUME StateOK, PositionsTrue, Flush
  PROVE  MoveEffect
<1>1. /\ Typed /\ ChannelsOK
      /\ out \in [buff : Seq(Byte), lock : Writers \cup {0}, offset : Nat]
      /\ out.buff \in Seq(Byte) /\ Len(out.buff) \in Nat /\ Len(out.buff) <= BufferSize
      /\ wire \in Seq(Byte) /\ Len(wire) \in Nat /\ Room \in Nat /\ WireSize \in Nat
      /\ BufferSize \in Nat
  BY RoomIs, LenProperties, Constants DEF StateOK, Typed, ChannelsOK
<1>2. /\ out.lock = 0 /\ answer' = NoAnswer
      /\ UNCHANGED <<via, nonblocking, reset, in, w, acked, r, got>>
  BY DEF Flush
<1>3. PICK buff \in Seq(Byte), pos \in Nat : out.buff = buff /\ out.offset = pos
  BY <1>1
<1>4. PICK n \in 1 .. Least(Len(buff), Room) :
        /\ wire' = wire \o SubSeq(buff, 1, n)
        /\ out' = [out EXCEPT !.buff = SubSeq(buff, n + 1, Len(buff)), !.offset = pos + n]
  BY <1>3 DEF Flush
<1>5. n \in Nat /\ n >= 1 /\ n <= Len(buff) /\ n <= Room
  BY <1>1, <1>3, LeastIs
<1> DEFINE x == SubSeq(buff, 1, n)
           y == SubSeq(buff, n + 1, Len(buff))
<1>6. x \in Seq(Byte) /\ Len(x) = n /\ y \in Seq(Byte) /\ Len(y) = Len(buff) - n /\ x \o y = buff
  <2>1. n \in 0 .. Len(buff)
    BY <1>1, <1>3, <1>5
  <2> QED
    BY <2>1, Split
<1>7. wire' = wire \o x /\ out' = [out EXCEPT !.buff = y, !.offset = pos + n]
  BY <1>4
<1> HIDE DEF x, y
<1>8. wire' \in Seq(Byte) /\ Len(wire') = Len(wire) + n
  BY <1>1, <1>6, <1>7, JoinedLength
<1>9. /\ out' \in [buff : Seq(Byte), lock : Writers \cup {0}, offset : Nat]
      /\ out'.buff = y /\ out'.lock = 0 /\ out'.offset = pos + n
  <2>1. pos + n \in Nat
    BY <1>5
  <2> QED
    BY <1>1, <1>2, <1>6, <1>7, <2>1
<1>10. (ChannelOut' <=> ChannelOut) /\ (ChannelIn' <=> ChannelIn)
  BY <1>2 DEF ChannelOut, ChannelIn
<1>11. ChannelOut
  <2>1. buff = << >> => Len(buff) = 0
    BY EmptySeq
  <2> QED
    BY <1>1, <1>3, <1>5, <2>1 DEF ChannelsOK
<1>12. StateOK'
  <2>1. Typed'
    BY <1>1, <1>2, <1>8, <1>9 DEF Typed
  <2>2. ChannelsOK'
    <3>1. Len(wire') <= WireSize /\ Len(out'.buff) <= BufferSize
      BY <1>1, <1>3, <1>5, <1>6, <1>8, <1>9 DEF Room
    <3> QED
      BY <1>1, <1>2, <1>10, <1>11, <3>1 DEF ChannelsOK
  <2>3. ASSUME NEW u \in Writers PROVE WriterOK(u)'
    <3>1. WriterOK(u) /\ out.lock # u /\ out'.lock # u
      BY <1>2, <1>9, Constants DEF StateOK
    <3> QED
      BY <1>2, <3>1, OtherWriter
  <2>4. ASSUME NEW u \in Readers PROVE ReaderOK(u)'
    <3>1. ReaderOK(u)
      BY DEF StateOK
    <3> QED
      BY <1>2, <3>1, OtherReader
  <2> QED
    BY <2>1, <2>2, <2>3, <2>4 DEF StateOK
<1>13. OutBuffer = buff /\ OutBuffer' = y
  BY <1>2, <1>3, <1>9 DEF OutBuffer
<1>14. wire' \o OutBuffer' = wire \o OutBuffer
  <2>1. Associates(wire, x, y)
    BY <1>1, <1>6, Associative
  <2> QED
    BY <1>6, <1>7, <1>13, <2>1 DEF Associates
<1>15. Taken' = Taken
  <2>1. Parts /\ Parts'
    BY <1>12, TakenIs, PTL
  <2>2. InBuffer' = InBuffer
    BY <1>2 DEF InBuffer
  <2> QED
    BY <1>2, <1>14, <2>1, <2>2 DEF Parts
<1>16. PositionsTrue'
  BY <1>2, <1>3, <1>5, <1>8, <1>9, <1>12, SentPosition
<1> QED
  BY <1>2, <1>12, <1>15, <1>16, NoAnswerTrue DEF MoveEffect

(* A break of the connection moves nothing.                                *)
LEMMA BreakStep ==
  ASSUME StateOK, PositionsTrue, Break
  PROVE  MoveEffect
<1>1. /\ UNCHANGED <<via, nonblocking, wire, out, in, w, acked, r, got>>
      /\ reset' = TRUE /\ answer' = NoAnswer
  BY DEF Break
<1>2. StateOK'
  <2>1. Typed'
    BY <1>1 DEF StateOK, Typed
  <2>2. ChannelsOK'
    BY <1>1 DEF StateOK, ChannelsOK, ChannelOut, ChannelIn
  <2>3. ASSUME NEW u \in Writers PROVE WriterOK(u)'
    BY <1>1, OtherWriter DEF StateOK
  <2>4. ASSUME NEW u \in Readers PROVE ReaderOK(u)'
    BY <1>1, OtherReader DEF StateOK
  <2> QED
    BY <2>1, <2>2, <2>3, <2>4 DEF StateOK
<1>3. Taken' = Taken
  BY <1>1 DEF Taken, InBuffer, OutBuffer, Unsent
<1>4. PositionsTrue'
  BY <1>1 DEF PositionsTrue, ChannelIn, ChannelOut, InBuffer
<1> QED
  BY <1>1, <1>2, <1>3, <1>4, NoAnswerTrue DEF MoveEffect

-----------------------------------------------------------------------------
(* The steps of the readers.                                               *)

(* A step of reader t keeps the state, when its own call is right after it. *)
LEMMA ReaderStep ==
  ASSUME OneReader, StateOK, NEW t \in Readers,
         UNCHANGED <<via, nonblocking, reset, out, w, acked>>,
         wire' \in Seq(Byte), Len(wire') <= WireSize,
         in' \in [buff : Seq(Byte), curr : Nat, max : Nat, lock : Readers \cup {0}, offset : Nat],
         Len(in'.buff) <= BufferSize, in'.curr <= in'.max, in'.max <= Len(in'.buff),
         in' = in \/ ChannelIn,
         got' \in Seq(Byte), r' \in [Readers -> InCall],
         \A u \in Readers \ {t} : r'[u] = r[u],
         ReaderOK(t)'
  PROVE  StateOK'
<1>1. Typed'
  BY DEF StateOK, Typed
<1>2. ChannelsOK'
  <2>1. (ChannelOut' <=> ChannelOut) /\ (ChannelIn' <=> ChannelIn)
    BY DEF ChannelOut, ChannelIn
  <2> QED
    BY <2>1 DEF StateOK, ChannelsOK
<1>3. ASSUME NEW u \in Writers PROVE WriterOK(u)'
  BY OtherWriter DEF StateOK
<1>4. ASSUME NEW u \in Readers PROVE ReaderOK(u)'
  <2>1. CASE u = t
    BY <2>1
  <2>2. CASE u # t
    <3>1. in' = in
      BY <2>2 DEF OneReader, ChannelIn, StateOK, Typed
    <3>2. ReaderOK(u) /\ r'[u] = r[u]
      BY <2>2 DEF StateOK
    <3> QED
      BY <3>1, <3>2, OtherReader
  <2> QED
    BY <2>1, <2>2
<1> QED
  BY <1>1, <1>2, <1>3, <1>4 DEF StateOK

(* Bytes move from the pipe to the reader's side, m of them, in order.     *)
LEMMA Moved ==
  ASSUME StateOK, StateOK', PositionsTrue, NEW m \in Nat,
         via' = via, out' = out, w' = w,
         Len(wire') = Len(wire) - m,
         ChannelIn => in'.offset = in.offset + m,
         got' \o (InBuffer' \o wire') = got \o (InBuffer \o wire)
  PROVE  Taken' = Taken /\ PositionsTrue'
<1> DEFINE g == got
           b == InBuffer
           x == wire
           g1 == got'
           b1 == InBuffer'
           x1 == wire'
<1>1. /\ g \in Seq(Byte) /\ b \in Seq(Byte) /\ x \in Seq(Byte)
      /\ g1 \in Seq(Byte) /\ b1 \in Seq(Byte) /\ x1 \in Seq(Byte)
  <2>1. Parts /\ Parts'
    BY TakenIs, PTL
  <2> QED
    BY <2>1 DEF Parts
<1>2. OutBuffer' = OutBuffer
  BY DEF OutBuffer, Unsent
<1>3. Taken = ((g \o b) \o x) \o OutBuffer /\ Taken' = ((g1 \o b1) \o x1) \o OutBuffer
  BY <1>2 DEF Taken
<1>4. g1 \o (b1 \o x1) = g \o (b \o x) /\ Len(x1) = Len(x) - m
  OBVIOUS
<1>5. /\ ChannelIn => in.offset = Len(g) + Len(b)
      /\ ChannelOut => out.offset = Len(g) + Len(b) + Len(x)
  BY DEF PositionsTrue
<1>6. (ChannelOut' <=> ChannelOut) /\ (ChannelIn' <=> ChannelIn)
  BY DEF ChannelOut, ChannelIn
<1>7. /\ ChannelIn' => in'.offset = Len(g1) + Len(b1)
      /\ ChannelOut' => out'.offset = Len(g1) + Len(b1) + Len(x1)
  <2> HIDE DEF g, b, x, g1, b1, x1
  <2>1. b \o x \in Seq(Byte) /\ Len(b \o x) = Len(b) + Len(x)
    BY <1>1, JoinedLength
  <2>2. b1 \o x1 \in Seq(Byte) /\ Len(b1 \o x1) = Len(b1) + Len(x1)
    BY <1>1, JoinedLength
  <2>3. Len(g \o (b \o x)) = Len(g) + (Len(b) + Len(x))
    <3> DEFINE y == b \o x
    <3>1. y \in Seq(Byte) /\ Len(y) = Len(b) + Len(x)
      BY <2>1
    <3> HIDE DEF y
    <3>2. Len(g \o y) = Len(g) + Len(y)
      BY <1>1, <3>1, JoinedLength
    <3> QED
      BY <3>1, <3>2 DEF y
  <2>4. Len(g1 \o (b1 \o x1)) = Len(g1) + (Len(b1) + Len(x1))
    <3> DEFINE y == b1 \o x1
    <3>1. y \in Seq(Byte) /\ Len(y) = Len(b1) + Len(x1)
      BY <2>2
    <3> HIDE DEF y
    <3>2. Len(g1 \o y) = Len(g1) + Len(y)
      BY <1>1, <3>1, JoinedLength
    <3> QED
      BY <3>1, <3>2 DEF y
  <2>5. /\ Len(g) \in Nat /\ Len(b) \in Nat /\ Len(x) \in Nat
        /\ Len(g1) \in Nat /\ Len(b1) \in Nat /\ Len(x1) \in Nat
    BY <1>1, LenProperties
  <2>6. Len(g1) + (Len(b1) + Len(x1)) = Len(g) + (Len(b) + Len(x))
    BY <1>4, <2>3, <2>4
  <2>7. ASSUME ChannelIn PROVE in'.offset = Len(g1) + Len(b1)
    <3>1. in'.offset = in.offset + m /\ in.offset = Len(g) + Len(b)
      BY <1>5, <2>7
    <3>2. in'.offset = (Len(g) + Len(b)) + m
      BY <3>1
    <3>3. (Len(g) + Len(b)) + m = Len(g1) + Len(b1)
      <4>1. PICK lg \in Nat, lb \in Nat, lx \in Nat :
              Len(g) = lg /\ Len(b) = lb /\ Len(x) = lx
        BY <2>5
      <4>2. PICK lg1 \in Nat, lb1 \in Nat, lx1 \in Nat :
              Len(g1) = lg1 /\ Len(b1) = lb1 /\ Len(x1) = lx1
        BY <2>5
      <4>3. lx1 = lx - m
        BY <1>4, <4>1, <4>2
      <4>4. lg1 + (lb1 + lx1) = lg + (lb + lx)
        BY <2>6, <4>1, <4>2
      <4>5. (lg + lb) + m = lg1 + lb1
        BY <4>3, <4>4
      <4> QED
        BY <4>1, <4>2, <4>5
    <3> QED
      BY <3>2, <3>3
  <2>8. ASSUME ChannelOut PROVE out'.offset = Len(g1) + Len(b1) + Len(x1)
    <3>1. out'.offset = Len(g) + Len(b) + Len(x)
      BY <1>5, <2>8
    <3>2. Len(g) + Len(b) + Len(x) = Len(g1) + Len(b1) + Len(x1)
      BY <2>5, <2>6
    <3> QED
      BY <3>1, <3>2
  <2> QED
    BY <1>6, <2>7, <2>8
<1>8. Taken' = Taken
  <2> HIDE DEF g, b, x, g1, b1, x1
  <2>1. Associates(g, b, x) /\ Associates(g1, b1, x1)
    BY <1>1, Associative
  <2> QED
    BY <1>3, <1>4, <2>1 DEF Associates
<1>9. PositionsTrue'
  BY <1>7 DEF PositionsTrue
<1> QED
  BY <1>8, <1>9

(* Nothing is read.                                                        *)
LEMMA NothingRead ==
  ASSUME OneReader, StateOK, PositionsTrue, NEW t \in Readers,
         UNCHANGED <<via, nonblocking, reset, wire, out, in, w, acked, got>>,
         r' \in [Readers -> InCall], \A u \in Readers \ {t} : r'[u] = r[u], ReaderOK(t)'
  PROVE  StateOK' /\ Taken' = Taken /\ PositionsTrue'
<1>1. StateOK'
  <2>1. /\ wire \in Seq(Byte) /\ Len(wire) <= WireSize /\ got \in Seq(Byte)
        /\ in \in [buff : Seq(Byte), curr : Nat, max : Nat, lock : Readers \cup {0}, offset : Nat]
        /\ Len(in.buff) <= BufferSize /\ in.curr <= in.max /\ in.max <= Len(in.buff)
    BY DEF StateOK, Typed, ChannelsOK
  <2> QED
    BY <2>1, ReaderStep
<1>2. Taken' = Taken
  BY DEF Taken, InBuffer, OutBuffer, Unsent
<1>3. PositionsTrue'
  BY DEF PositionsTrue, ChannelIn, ChannelOut, InBuffer
<1> QED
  BY <1>1, <1>2, <1>3

(* A system call of a reader takes n bytes from the pipe.                  *)
LEMMA DirectlyRead ==
  ASSUME OneReader, StateOK, PositionsTrue, NEW t \in Readers, ~ChannelIn,
         UNCHANGED <<via, nonblocking, reset, out, in, w, acked>>,
         NEW n \in 0 .. Len(wire),
         got' = got \o SubSeq(wire, 1, n), wire' = SubSeq(wire, n + 1, Len(wire)),
         r' \in [Readers -> InCall], \A u \in Readers \ {t} : r'[u] = r[u], ReaderOK(t)'
  PROVE  StateOK' /\ Taken' = Taken /\ PositionsTrue'
<1>1. /\ wire \in Seq(Byte) /\ Len(wire) \in Nat /\ Len(wire) <= WireSize /\ WireSize \in Nat
      /\ got \in Seq(Byte) /\ n \in Nat /\ n <= Len(wire)
      /\ in \in [buff : Seq(Byte), curr : Nat, max : Nat, lock : Readers \cup {0}, offset : Nat]
      /\ Len(in.buff) <= BufferSize /\ in.curr <= in.max /\ in.max <= Len(in.buff)
      /\ in.buff = << >> /\ in.lock = 0
  BY LenProperties, Constants DEF StateOK, Typed, ChannelsOK
<1> DEFINE x == SubSeq(wire, 1, n)
           y == SubSeq(wire, n + 1, Len(wire))
<1>2. x \in Seq(Byte) /\ Len(x) = n /\ y \in Seq(Byte) /\ Len(y) = Len(wire) - n /\ x \o y = wire
  <2>1. wire \in Seq(Byte)
    BY <1>1
  <2> QED
    BY <2>1, Split
<1>3. got' = got \o x /\ wire' = y
  OBVIOUS
<1> HIDE DEF x, y
<1>4. got' \in Seq(Byte) /\ wire' \in Seq(Byte) /\ Len(wire') = Len(wire) - n
  <2>1. got \o x \in Seq(Byte)
    BY <1>1, <1>2, JoinedLength
  <2> QED
    BY <1>2, <1>3, <2>1
<1>5. StateOK'
  <2>1. Len(wire') <= WireSize
    BY <1>1, <1>4
  <2> QED
    BY <1>1, <1>4, <2>1, ReaderStep
<1>6. InBuffer = << >> /\ InBuffer' = << >>
  <2>1. in.curr = 0 /\ in.max = 0
    <3>1. Len(in.buff) = 0
      BY <1>1, EmptySeq
    <3> QED
      BY <1>1, <3>1
  <2>2. SubSeq(in.buff, in.curr + 1, in.max) = << >>
    BY <2>1, SubSeqEmpty
  <2> QED
    BY <2>2 DEF InBuffer
<1>7. got' \o (InBuffer' \o wire') = got \o (InBuffer \o wire)
  <2>1. << >> \o wire = wire /\ << >> \o y = y
    BY <1>1, <1>2, ConcatEmptySeq
  <2>2. Associates(got, x, y)
    BY <1>1, <1>2, Associative
  <2> QED
    BY <1>2, <1>3, <1>6, <2>1, <2>2 DEF Associates
<1>8. Taken' = Taken /\ PositionsTrue'
  BY <1>1, <1>4, <1>5, <1>7, Moved
<1> QED
  BY <1>5, <1>8

(* A call that ends leaves its thread idle or, at the end, stopped.        *)
LEMMA ReadIs ==
  ASSUME StateOK, NEW t \in Readers, NEW kind, NEW op, NEW n, Read(t, kind, op, n)
  PROVE  /\ r' \in [Readers -> InCall]
         /\ \A u \in Readers \ {t} : r'[u] = r[u]
         /\ in'.lock # t => ReaderOK(t)'
         /\ answer' = [op |-> op, kind |-> kind, n |-> n, len |-> r[t].len, min |-> r[t].min]
<1>1. PICK pc \in {"idle", "stopped"} : r' = [r EXCEPT ![t] = [NoInput EXCEPT !.pc = pc]]
  BY DEF Read
<1> DEFINE c == [NoInput EXCEPT !.pc = pc]
<1>2. /\ c \in InCall /\ c.pc \in {"idle", "stopped"} /\ c.len = 0 /\ c.min = 0 /\ c.done = 0
  BY DEF NoInput, InCall, InPc
<1> HIDE DEF c
<1>3. r \in [Readers -> InCall] /\ r' = [r EXCEPT ![t] = c]
  BY <1>1 DEF StateOK, Typed, c
<1>4. r' \in [Readers -> InCall] /\ r'[t] = c /\ \A u \in Readers \ {t} : r'[u] = r[u]
  BY <1>2, <1>3
<1>5. in'.lock # t => ReaderOK(t)'
  BY <1>2, <1>4 DEF ReaderOK
<1> QED
  BY <1>4, <1>5 DEF Read

(* A new call of a reader has read nothing.                                *)
LEMMA StartInputStep ==
  ASSUME OneReader, StateOK, PositionsTrue, NEW t \in Readers, NEW pc, NEW all,
         StartInput(t, pc, all),
         \/ pc = "lock" /\ ChannelIn
         \/ pc = "read" /\ ~ChannelIn
         \/ pc = "recv" /\ ~ChannelIn /\ all
  PROVE  MoveEffect
<1>0. PICK len \in 0 .. MaxLen : \E min \in IF all THEN {len} ELSE 0 .. len :
        Gets(t, [pc |-> pc, len |-> len, min |-> min, done |-> 0, avail |-> in.max - in.curr])
  BY DEF StartInput
<1>1. PICK min \in IF all THEN {len} ELSE 0 .. len :
        Gets(t, [pc |-> pc, len |-> len, min |-> min, done |-> 0, avail |-> in.max - in.curr])
  BY <1>0
<1>2. /\ r[t].pc = "idle" /\ UNCHANGED <<via, nonblocking, reset, wire, out, in, w, acked, got>>
  BY DEF StartInput
<1>3. /\ r \in [Readers -> InCall] /\ ReaderOK(t) /\ MaxLen \in Nat
      /\ in.max \in Nat /\ in.curr \in Nat /\ in.curr <= in.max
  BY Constants DEF StateOK, Typed, ChannelsOK
<1>4. len \in Nat /\ min \in Nat /\ min <= len /\ (all => min = len)
  BY <1>3
<1>5. PICK avail \in Nat : avail = in.max - in.curr
  BY <1>3
<1> DEFINE c == [pc |-> pc, len |-> len, min |-> min, done |-> 0, avail |-> avail]
<1>6. r' = [r EXCEPT ![t] = c] /\ answer' = NoAnswer
  BY <1>1, <1>5 DEF Gets
<1>7. /\ c \in InCall
      /\ c.pc = pc /\ c.len = len /\ c.min = min /\ c.done = 0 /\ c.avail = avail
  BY <1>4 DEF InCall, InPc
<1> HIDE DEF c
<1>8. r' \in [Readers -> InCall] /\ r'[t] = c /\ \A u \in Readers \ {t} : r'[u] = r[u]
  BY <1>3, <1>6, <1>7
<1>9. in.lock # t
  BY <1>2, <1>3 DEF ReaderOK
<1>10. ReaderOK(t)'
  <2>1. (ChannelIn' <=> ChannelIn)
    BY <1>2 DEF ChannelIn
  <2> QED
    BY <1>2, <1>4, <1>5, <1>7, <1>8, <1>9, <2>1 DEF ReaderOK
<1>11. StateOK' /\ Taken' = Taken /\ PositionsTrue'
  BY <1>2, <1>8, <1>10, NothingRead
<1> QED
  BY <1>2, <1>6, <1>11, NoAnswerTrue DEF MoveEffect

(* For both interfaces.                                                    *)
LEMMA InputCallStep ==
  ASSUME OneReader, StateOK, PositionsTrue, NEW t \in Readers,
         InputCall(t) \/ ReadCall(t) \/ RecvCall(t)
  PROVE  MoveEffect
BY StartInputStep DEF InputCall, ReadCall, RecvCall

(* What input takes from the buffer is what comes first there.             *)
LEMMA BufferedIs ==
  ASSUME Typed, ChannelsOK, NEW n \in 0 .. in.max - in.curr
  PROVE  Buffered(n) = SubSeq(in.buff, in.curr + 1, in.curr + n)
<1>1. PICK buff \in Seq(Byte), curr \in Nat, max \in Nat :
        in.buff = buff /\ in.curr = curr /\ in.max = max
  BY DEF Typed
<1>2. /\ curr <= max /\ max <= Len(buff) /\ Len(buff) \in Nat
      /\ n \in Nat /\ curr + n <= Len(buff) /\ curr + n \in 0 .. Len(buff) /\ curr \in 0 .. curr + n
  BY <1>1, LenProperties DEF ChannelsOK
<1> DEFINE s == SubSeq(buff, curr + 1, curr + n)
           b == Buffered(n)
<1>3. \A i \in 1 .. n : curr + i \in 1 .. Len(buff) /\ buff[curr + i] \in Byte
  BY <1>2, ElementOfSeq
<1>4. DOMAIN buff = 1 .. Len(buff)
  BY LenProperties
<1>5. b = [i \in 1 .. n |-> IF curr + i \in DOMAIN buff THEN buff[curr + i] ELSE Garbage]
  BY <1>1 DEF Buffered
<1>6. \A i \in 1 .. n : b[i] = buff[curr + i]
  BY <1>3, <1>4, <1>5
<1>7. b \in [1 .. n -> Byte]
  BY <1>3, <1>4, <1>5
<1>8. b \in Seq(Byte) /\ Len(b) = n
  <2>1. b \in Seq(Byte) /\ DOMAIN b = 1 .. n
    BY <1>2, <1>7
  <2> HIDE DEF b
  <2> QED
    BY <1>2, <2>1, LenProperties
<1>9. s \in Seq(Byte) /\ Len(s) = n /\ \A i \in 1 .. n : s[i] = buff[curr + i]
  <2>1. /\ curr + 1 \in Int /\ curr + n \in Int
        /\ \A i \in curr + 1 .. curr + n : buff[i] \in Byte
    BY <1>2, ElementOfSeq
  <2>2. /\ s \in Seq(Byte)
        /\ Len(s) = IF curr + 1 <= curr + n THEN (curr + n) - (curr + 1) + 1 ELSE 0
        /\ \A i \in 1 .. (curr + n) - (curr + 1) + 1 : s[i] = buff[(curr + 1) + i - 1]
    BY <2>1, SubSeqProperties
  <2> HIDE DEF s
  <2>3. Len(s) = n
    BY <1>2, <2>2
  <2>4. ASSUME NEW i \in 1 .. n PROVE s[i] = buff[curr + i]
    <3>1. i \in 1 .. (curr + n) - (curr + 1) + 1 /\ (curr + 1) + i - 1 = curr + i
      BY <1>2
    <3> QED
      BY <2>2, <3>1
  <2> QED
    BY <2>2, <2>3, <2>4
<1> HIDE DEF s, b
<1>10. b = s
  BY <1>6, <1>8, <1>9, SeqEqual
<1> QED
  BY <1>1, <1>10 DEF s, b

(* input copies what the buffer has, and goes on to readv when that is not enough. *)
LEMMA LockInputStep ==
  ASSUME OneReader, StateOK, PositionsTrue, NEW t \in Readers, LockInput(t)
  PROVE  MoveEffect
<1>1. /\ r[t].pc = "lock" /\ in.lock = 0
      /\ UNCHANGED <<via, nonblocking, reset, wire, out, w, acked>>
  BY DEF LockInput
<1>2. /\ Typed /\ ChannelsOK /\ r \in [Readers -> InCall] /\ r[t] \in InCall /\ ReaderOK(t)
      /\ in \in [buff : Seq(Byte), curr : Nat, max : Nat, lock : Readers \cup {0}, offset : Nat]
      /\ got \in Seq(Byte) /\ wire \in Seq(Byte) /\ Len(wire) \in Nat /\ Len(wire) <= WireSize
      /\ 0 \notin Readers
  BY LenProperties, Constants DEF StateOK, Typed, ChannelsOK
<1>3. PICK buff \in Seq(Byte), curr \in Nat, max \in Nat, pos \in Nat :
        in.buff = buff /\ in.curr = curr /\ in.max = max /\ in.offset = pos
  BY <1>2
<1>4. PICK len \in Nat, min \in Nat, avail \in Nat :
        r[t].len = len /\ r[t].min = min /\ r[t].avail = avail
  BY <1>2 DEF InCall
<1>5. /\ ChannelIn /\ avail = max - curr /\ min <= len
      /\ curr <= max /\ max <= Len(buff) /\ Len(buff) \in Nat /\ Len(buff) <= BufferSize
  BY <1>1, <1>2, <1>3, <1>4, LenProperties DEF ReaderOK, ChannelsOK
<1>6. PICK n \in Nat : n = Least(avail, len)
  BY DEF Least
<1>7. n <= avail /\ n <= len /\ n \in 0 .. in.max - in.curr /\ (n = avail \/ n = len)
  BY <1>3, <1>5, <1>6 DEF Least
<1>8. /\ got' = got \o Buffered(n)
      /\ avail > 0 /\ len <= avail =>
           in' = [in EXCEPT !.curr = curr + n] /\ Read(t, "ok", "input", n)
      /\ ~(avail > 0 /\ len <= avail) =>
           in' = [in EXCEPT !.lock = t] /\ Gets(t, [r[t] EXCEPT !.pc = "readv", !.done = n])
  BY <1>3, <1>4, <1>6 DEF LockInput
<1> DEFINE x == SubSeq(buff, curr + 1, curr + n)
           y == SubSeq(buff, curr + n + 1, max)
           b == SubSeq(buff, curr + 1, max)
<1>9. got' = got \o x /\ InBuffer = b
  <2>1. Buffered(n) = x
    BY <1>2, <1>3, <1>7, BufferedIs
  <2> QED
    BY <1>1, <1>3, <1>8, <2>1 DEF InBuffer
<1>10. x \in Seq(Byte) /\ y \in Seq(Byte) /\ b \in Seq(Byte) /\ x \o y = b
  <2> DEFINE p == curr + n
  <2>1. p \in 0 .. Len(buff) /\ curr \in 0 .. p /\ p \in 0 .. max /\ max \in 0 .. Len(buff)
        /\ curr \in 0 .. max
    BY <1>5, <1>7
  <2>2. /\ curr + 1 \in 1 .. Len(buff) + 1 /\ p \in (curr + 1) - 1 .. Len(buff)
        /\ max \in p .. Len(buff)
    BY <1>5, <2>1
  <2> HIDE DEF p
  <2>3. SubSeq(buff, curr + 1, p) \in Seq(Byte)
    BY <2>1, SplitInThree
  <2>4. SubSeq(buff, p + 1, max) \in Seq(Byte)
    BY <2>1, SplitInThree
  <2>5. SubSeq(buff, curr + 1, max) \in Seq(Byte)
    BY <2>1, SplitInThree
  <2>6. SubSeq(buff, curr + 1, p) \o SubSeq(buff, p + 1, max) = SubSeq(buff, curr + 1, max)
    BY <2>2, ConcatAdjacentSubSeq
  <2> QED
    BY <2>3, <2>4, <2>5, <2>6 DEF p
<1>11. got' \in Seq(Byte)
  <2> HIDE DEF x
  <2> QED
    BY <1>2, <1>9, <1>10, JoinedLength
<1>12. 0 \in Nat /\ Len(wire') = Len(wire) - 0
  BY <1>1, <1>2
<1>13. CASE avail > 0 /\ len <= avail
  <2>1. in' = [in EXCEPT !.curr = curr + n] /\ Read(t, "ok", "input", n) /\ n = len
    BY <1>6, <1>8, <1>13 DEF Least
  <2>2. /\ in' \in [buff : Seq(Byte), curr : Nat, max : Nat, lock : Readers \cup {0}, offset : Nat]
        /\ in'.buff = buff /\ in'.curr = curr + n /\ in'.max = max /\ in'.lock = 0
        /\ in'.offset = pos
    <3>1. curr + n \in Nat
      OBVIOUS
    <3> QED
      BY <1>1, <1>2, <1>3, <2>1, <3>1
  <2>3. /\ r' \in [Readers -> InCall] /\ \A u \in Readers \ {t} : r'[u] = r[u]
        /\ ReaderOK(t)'
        /\ answer' = [op |-> "input", kind |-> "ok", n |-> n, len |-> len, min |-> min]
    <3>1. in'.lock # t
      BY <1>2, <2>2
    <3> QED
      BY <1>4, <2>1, <3>1, ReadIs
  <2>4. StateOK'
    <3>1. Len(in'.buff) <= BufferSize /\ in'.curr <= in'.max /\ in'.max <= Len(in'.buff)
      BY <1>5, <1>7, <2>2
    <3> QED
      BY <1>1, <1>2, <1>5, <1>11, <2>2, <2>3, <3>1, ReaderStep
  <2>5. InBuffer' = y
    BY <2>2 DEF InBuffer
  <2>6. got' \o (InBuffer' \o wire') = got \o (InBuffer \o wire)
    <3> HIDE DEF x, y, b
    <3>1. Regrouped(got, x, y, wire)
      BY <1>2, <1>10, FourParts
    <3> QED
      BY <1>1, <1>9, <1>10, <2>5, <3>1 DEF Regrouped
  <2>7. Taken' = Taken /\ PositionsTrue'
    <3>1. in'.offset = in.offset + 0
      BY <1>3, <2>2
    <3> QED
      BY <1>1, <1>12, <2>4, <2>6, <3>1, Moved
  <2>8. AnswersTrue'
    BY <1>5, <2>1, <2>3, AnswerTrue
  <2> QED
    BY <1>1, <2>4, <2>7, <2>8 DEF MoveEffect
<1>14. CASE ~(avail > 0 /\ len <= avail)
  <2> DEFINE c == [r[t] EXCEPT !.pc = "readv", !.done = n]
  <2>1. in' = [in EXCEPT !.lock = t] /\ r' = [r EXCEPT ![t] = c] /\ answer' = NoAnswer
    BY <1>8, <1>14 DEF Gets
  <2>2. n = avail
    BY <1>6, <1>14 DEF Least
  <2>3. /\ c \in InCall /\ c.pc = "readv" /\ c.len = len /\ c.min = min /\ c.done = n
        /\ c.avail = avail
    BY <1>2, <1>4 DEF InCall, InPc
  <2> HIDE DEF c
  <2>4. r' \in [Readers -> InCall] /\ r'[t] = c /\ \A u \in Readers \ {t} : r'[u] = r[u]
    BY <1>2, <2>1, <2>3
  <2>5. /\ in' \in [buff : Seq(Byte), curr : Nat, max : Nat, lock : Readers \cup {0}, offset : Nat]
        /\ in'.buff = buff /\ in'.curr = curr /\ in'.max = max /\ in'.lock = t
        /\ in'.offset = pos
    BY <1>2, <1>3, <2>1
  <2>6. ReaderOK(t)'
    <3>1. (ChannelIn' <=> ChannelIn)
      BY <1>1 DEF ChannelIn
    <3> QED
      BY <1>5, <1>7, <2>3, <2>4, <2>5, <3>1 DEF ReaderOK
  <2>7. StateOK'
    <3>1. Len(in'.buff) <= BufferSize /\ in'.curr <= in'.max /\ in'.max <= Len(in'.buff)
      BY <1>5, <2>5
    <3> QED
      BY <1>1, <1>2, <1>5, <1>11, <2>4, <2>5, <2>6, <3>1, ReaderStep
  <2>8. InBuffer' = << >>
    BY <1>2, <2>5 DEF InBuffer
  <2>9. got' \o (InBuffer' \o wire') = got \o (InBuffer \o wire)
    <3>1. x = b
      BY <1>5, <2>2
    <3> HIDE DEF x, y, b
    <3>2. Associates(got, b, wire)
      BY <1>2, <1>10, Associative
    <3>3. << >> \o wire = wire
      BY <1>2, ConcatEmptySeq
    <3> QED
      BY <1>1, <1>9, <2>8, <3>1, <3>2, <3>3 DEF Associates
  <2>10. Taken' = Taken /\ PositionsTrue'
    <3>1. in'.offset = in.offset + 0
      BY <1>3, <2>5
    <3> QED
      BY <1>1, <1>12, <2>7, <2>9, <3>1, Moved
  <2> QED
    BY <1>1, <2>1, <2>7, <2>10, NoAnswerTrue DEF MoveEffect
<1> QED
  BY <1>13, <1>14

(* A reader's step leaves the stream ended.                                *)
LEMMA AtEndStays ==
  ASSUME AtEnd, UNCHANGED <<wire, out, w, acked>>
  PROVE  Closed' /\ wire' = << >>
BY DEF AtEnd, Closed

(* At the end or at an error the buffer, which this call has read, is dropped. *)
LEMMA InputStopsStep ==
  ASSUME OneReader, StateOK, PositionsTrue, NEW t \in Readers, InputStops(t)
  PROVE  MoveEffect
<1> DEFINE kind == IF ~AtEnd THEN "error" ELSE IF r[t].len = 0 THEN "ok" ELSE "eof"
<1>1. /\ r[t].pc = "readv" /\ (AtEnd \/ Fails)
      /\ UNCHANGED <<via, nonblocking, reset, wire, out, w, acked, got>>
      /\ in' = [in EXCEPT !.lock = 0, !.curr = in.max]
      /\ Read(t, kind, "input", r[t].done)
  BY DEF InputStops
<1>2. /\ ReaderOK(t) /\ r[t] \in InCall
      /\ in \in [buff : Seq(Byte), curr : Nat, max : Nat, lock : Readers \cup {0}, offset : Nat]
      /\ got \in Seq(Byte) /\ wire \in Seq(Byte) /\ Len(wire) \in Nat /\ Len(wire) <= WireSize
      /\ 0 \notin Readers /\ Len(in.buff) <= BufferSize /\ in.max <= Len(in.buff)
  BY LenProperties, Constants DEF StateOK, Typed, ChannelsOK
<1>3. in.lock = t /\ ChannelIn /\ in.lock # 0 /\ r[t].done <= r[t].len /\ r[t].min <= r[t].len
  BY <1>1, <1>2 DEF ReaderOK
<1>4. PICK len \in Nat, min \in Nat, done \in Nat :
        r[t].len = len /\ r[t].min = min /\ r[t].done = done
  BY <1>2 DEF InCall
<1>5. /\ in' \in [buff : Seq(Byte), curr : Nat, max : Nat, lock : Readers \cup {0}, offset : Nat]
      /\ in'.buff = in.buff /\ in'.curr = in.max /\ in'.max = in.max /\ in'.lock = 0
      /\ in'.offset = in.offset /\ in.max \in Nat /\ in.offset \in Nat
  BY <1>1, <1>2
<1>6. /\ r' \in [Readers -> InCall] /\ \A u \in Readers \ {t} : r'[u] = r[u]
      /\ ReaderOK(t)'
      /\ answer' = [op |-> "input", kind |-> kind, n |-> done, len |-> len, min |-> min]
  <2>1. in'.lock # t
    BY <1>2, <1>5
  <2> HIDE DEF kind
  <2> QED
    BY <1>1, <1>4, <2>1, ReadIs
<1>7. StateOK'
  <2>1. Len(in'.buff) <= BufferSize /\ in'.curr <= in'.max /\ in'.max <= Len(in'.buff)
    BY <1>2, <1>5
  <2> QED
    BY <1>1, <1>2, <1>3, <1>5, <1>6, <2>1, ReaderStep
<1>8. InBuffer = << >> /\ InBuffer' = << >>
  <2>1. SubSeq(in.buff, in.max + 1, in.max) = << >>
    BY <1>5, SubSeqEmpty
  <2> QED
    BY <1>3, <1>5, <2>1 DEF InBuffer
<1>9. Taken' = Taken /\ PositionsTrue'
  <2>1. 0 \in Nat /\ Len(wire') = Len(wire) - 0 /\ in'.offset = in.offset + 0
    BY <1>1, <1>2, <1>5
  <2>2. got' \o (InBuffer' \o wire') = got \o (InBuffer \o wire)
    BY <1>1, <1>8
  <2> QED
    BY <1>1, <1>7, <2>1, <2>2, Moved
<1>10. AnswersTrue'
  <2>1. done <= len /\ (kind = "ok" => done >= min)
    BY <1>3, <1>4
  <2>2. kind = "eof" => Closed' /\ wire' = << >>
    BY <1>1, AtEndStays
  <2>3. CASE AtEnd
    <3>1. kind \in {"ok", "eof"}
      BY <2>3
    <3> HIDE DEF kind
    <3> QED
      BY <1>6, <2>1, <2>2, <3>1, AnswerTrue
  <2>4. CASE ~AtEnd
    <3>1. kind = "error"
      BY <2>4
    <3>2. reset' \/ MayFail(answer.op)'
      BY <1>1, <1>6, <2>4 DEF Fails, MayFail
    <3> HIDE DEF kind
    <3> QED
      BY <1>6, <2>1, <3>1, <3>2, FailureTrue
  <2> QED
    BY <2>3, <2>4
<1> QED
  BY <1>1, <1>7, <1>9, <1>10 DEF MoveEffect

(* What readv leaves in the channel when the call ends: the bytes that did *)
(* not fit in the bigstring are what the buffer holds.                     *)
LEMMA FilledIs ==
  ASSUME Typed, ChannelsOK, NEW extra \in Seq(Byte), NEW n \in Nat,
         Len(extra) <= BufferSize
  PROVE  /\ Filled(extra, n) \in
              [buff : Seq(Byte), curr : Nat, max : Nat, lock : Readers \cup {0}, offset : Nat]
         /\ Len(Filled(extra, n).buff) <= BufferSize
         /\ Filled(extra, n).curr <= Filled(extra, n).max
         /\ Filled(extra, n).max <= Len(Filled(extra, n).buff)
         /\ Filled(extra, n).lock = 0 /\ Filled(extra, n).offset = in.offset + n
         /\ SubSeq(Filled(extra, n).buff, Filled(extra, n).curr + 1, Filled(extra, n).max) = extra
<1>1. PICK buff \in Seq(Byte), max \in Nat, pos \in Nat :
        in.buff = buff /\ in.max = max /\ in.offset = pos
  BY DEF Typed
<1>2. PICK e \in Nat : e = Len(extra)
  BY LenProperties
<1>3. PICK l \in Nat : l = Len(buff)
  BY LenProperties
<1>4. /\ in \in [buff : Seq(Byte), curr : Nat, max : Nat, lock : Readers \cup {0}, offset : Nat]
      /\ max <= l /\ l <= BufferSize /\ e <= BufferSize /\ BufferSize \in Nat
  BY <1>1, <1>2, <1>3, Constants DEF Typed, ChannelsOK
<1> DEFINE rest == SubSeq(buff, e + 1, l)
           f == Filled(extra, n)
<1>5. /\ rest \in Seq(Byte) /\ Len(rest) = IF e <= l THEN l - e ELSE 0
      /\ e = 0 => rest = buff
  <2>1. e + 1 \in Int /\ l \in Int /\ \A i \in e + 1 .. l : buff[i] \in Byte
    BY <1>3, ElementOfSeq
  <2>2. rest \in Seq(Byte) /\ Len(rest) = IF e + 1 <= l THEN l - (e + 1) + 1 ELSE 0
    BY <2>1, SubSeqProperties
  <2>3. e = 0 => rest = buff
    BY <1>3, SubSeqFull
  <2> HIDE DEF rest
  <2> QED
    BY <2>2, <2>3
<1>6. e = 0 <=> extra = << >>
  BY <1>2, EmptySeq
<1>7. f = [in EXCEPT !.lock = 0, !.offset = pos + n, !.buff = extra \o rest,
                     !.max = IF extra = << >> THEN max ELSE e,
                     !.curr = IF extra = << >> THEN max ELSE 0]
  BY <1>1, <1>2, <1>3 DEF Filled
<1> HIDE DEF rest
<1>8. /\ extra \o rest \in Seq(Byte)
      /\ Len(extra \o rest) = IF e <= l THEN l ELSE e
  <2>1. extra \o rest \in Seq(Byte) /\ Len(extra \o rest) = e + Len(rest)
    BY <1>2, <1>5, JoinedLength
  <2> QED
    BY <1>5, <2>1
<1> DEFINE b == extra \o rest
<1>9. /\ b \in Seq(Byte) /\ Len(b) <= BufferSize /\ e <= Len(b) /\ max <= Len(b)
      /\ extra = << >> => b = buff
  <2>1. extra = << >> => b = buff
    BY <1>5, <1>6, ConcatEmptySeq
  <2> QED
    BY <1>4, <1>8, <2>1
<1>10. SubSeq(b, 1, e) = extra
  <2>1. e \in 0 .. Len(extra) + Len(rest) /\ e <= Len(extra)
    BY <1>2, <1>5
  <2>2. SubSeq(extra \o rest, 1, e) = SubSeq(extra, 1, e)
    BY <1>5, <2>1, PrefixOfConcat
  <2>3. SubSeq(extra, 1, e) = extra
    BY <1>2, SubSeqFull
  <2> QED
    BY <2>2, <2>3
<1> HIDE DEF b
<1>11. f = [in EXCEPT !.lock = 0, !.offset = pos + n, !.buff = b,
                      !.max = IF extra = << >> THEN max ELSE e,
                      !.curr = IF extra = << >> THEN max ELSE 0]
  BY <1>7 DEF b
<1> HIDE DEF f
<1>12. pos + n \in Nat
  OBVIOUS
<1>13. CASE extra = << >>
  <2>1. f = [in EXCEPT !.lock = 0, !.offset = pos + n, !.buff = b, !.max = max, !.curr = max]
    BY <1>11, <1>13
  <2>2. /\ f \in [buff : Seq(Byte), curr : Nat, max : Nat, lock : Readers \cup {0}, offset : Nat]
        /\ f.buff = b /\ f.curr = max /\ f.max = max /\ f.lock = 0 /\ f.offset = pos + n
    BY <1>4, <1>9, <1>12, <2>1
  <2>3. SubSeq(b, max + 1, max) = extra
    BY <1>13, SubSeqEmpty
  <2> QED
    BY <1>1, <1>9, <2>2, <2>3 DEF f
<1>14. CASE extra # << >>
  <2>1. f = [in EXCEPT !.lock = 0, !.offset = pos + n, !.buff = b, !.max = e, !.curr = 0]
    BY <1>11, <1>14
  <2>2. /\ f \in [buff : Seq(Byte), curr : Nat, max : Nat, lock : Readers \cup {0}, offset : Nat]
        /\ f.buff = b /\ f.curr = 0 /\ f.max = e /\ f.lock = 0 /\ f.offset = pos + n
    BY <1>4, <1>9, <1>12, <2>1
  <2>3. SubSeq(b, 0 + 1, e) = extra
    BY <1>10
  <2> QED
    BY <1>1, <1>9, <2>2, <2>3 DEF f
<1> QED
  BY <1>13, <1>14

(* readv fills the bigstring and then the buffer, which this call has emptied. *)
LEMMA ReadVStep ==
  ASSUME OneReader, StateOK, PositionsTrue, NEW t \in Readers, ReadV(t)
  PROVE  MoveEffect
<1>1. /\ r[t].pc = "readv" /\ UNCHANGED <<via, nonblocking, reset, out, w, acked>>
  BY DEF ReadV
<1>2. /\ Typed /\ ChannelsOK /\ r \in [Readers -> InCall] /\ ReaderOK(t) /\ r[t] \in InCall
      /\ in \in [buff : Seq(Byte), curr : Nat, max : Nat, lock : Readers \cup {0}, offset : Nat]
      /\ got \in Seq(Byte) /\ wire \in Seq(Byte) /\ Len(wire) \in Nat /\ Len(wire) <= WireSize
      /\ 0 \notin Readers /\ WireSize \in Nat /\ BufferSize \in Nat
  BY LenProperties, Constants DEF StateOK, Typed, ChannelsOK
<1>3. PICK len \in Nat, min \in Nat, done \in Nat, avail \in Nat :
        r[t].len = len /\ r[t].min = min /\ r[t].done = done /\ r[t].avail = avail
  BY <1>2 DEF InCall
<1>4. in.lock = t /\ ChannelIn /\ done <= len /\ min <= len /\ avail = in.max - in.curr
  BY <1>1, <1>2, <1>3 DEF ReaderOK
<1>5. PICK room \in Nat : room = len - done
  BY <1>4
<1>6. PICK n \in 1 .. Least(Len(wire), room + BufferSize) :
          /\ got' = got \o SubSeq(wire, 1, Least(n, room))
          /\ wire' = SubSeq(wire, n + 1, Len(wire))
          /\ IF done + n >= min
             THEN /\ in' = Filled(SubSeq(wire, room + 1, n), n)
                  /\ Read(t, "ok", "input", Least(done + n, len))
             ELSE /\ in' = [in EXCEPT !.offset = @ + n]
                  /\ Gets(t, [r[t] EXCEPT !.done = done + n])
  BY <1>3, <1>5 DEF ReadV
<1>7. n \in Nat /\ n >= 1 /\ n <= Len(wire) /\ n <= room + BufferSize
  BY <1>2, LeastIs
<1>8. PICK k \in Nat : k = Least(n, room) /\ k <= n /\ k <= room /\ (k = n \/ k = room)
  BY <1>7 DEF Least
<1> DEFINE x == SubSeq(wire, 1, k)
           extra == SubSeq(wire, k + 1, n)
           rest == SubSeq(wire, n + 1, Len(wire))
<1>9. /\ x \in Seq(Byte) /\ extra \in Seq(Byte) /\ Len(extra) = n - k
      /\ rest \in Seq(Byte) /\ Len(rest) = Len(wire) - n
      /\ (x \o extra) \o rest = wire
  <2>1. n \in 0 .. Len(wire) /\ k \in 0 .. n /\ k \in 0 .. Len(wire)
    BY <1>2, <1>7, <1>8
  <2>2. extra \in Seq(Byte) /\ Len(extra) = n - k /\ x \o extra = SubSeq(wire, 1, n)
    BY <1>2, <2>1, SplitInThree
  <2>3. x \in Seq(Byte)
    BY <1>2, <2>1, Split
  <2>4. rest \in Seq(Byte) /\ Len(rest) = Len(wire) - n /\ SubSeq(wire, 1, n) \o rest = wire
    BY <1>2, <2>1, Split
  <2> HIDE DEF x, extra, rest
  <2> QED
    BY <2>2, <2>3, <2>4
<1>10. SubSeq(wire, room + 1, n) = extra
  <2>1. CASE k = room
    BY <2>1
  <2>2. CASE k = n
    <3>1. n < room + 1 /\ n < k + 1 /\ room + 1 \in Int /\ n \in Int /\ k + 1 \in Int
      BY <1>7, <1>8, <2>2
    <3>2. SubSeq(wire, room + 1, n) = << >> /\ SubSeq(wire, k + 1, n) = << >>
      BY <3>1, SubSeqEmpty
    <3> QED
      BY <3>2
  <2> QED
    BY <1>8, <2>1, <2>2
<1>11. got' = got \o x /\ wire' = rest
  BY <1>6, <1>8
<1>12. n = k \/ k = room
  BY <1>8
<1>13. done + n >= min => in' = Filled(extra, n) /\ Read(t, "ok", "input", Least(done + n, len))
  BY <1>6, <1>10
<1>14. done + n < min => /\ in' = [in EXCEPT !.offset = @ + n]
                         /\ Gets(t, [r[t] EXCEPT !.done = done + n])
  BY <1>6, <1>7
<1> HIDE DEF x, extra, rest
<1>15. got' \in Seq(Byte) /\ wire' \in Seq(Byte) /\ Len(wire') = Len(wire) - n
       /\ Len(wire') <= WireSize
  <2>1. got \o x \in Seq(Byte)
    BY <1>2, <1>9, JoinedLength
  <2> QED
    BY <1>2, <1>7, <1>9, <1>11, <2>1
<1>16. InBuffer = << >> /\ << >> \o wire = wire /\ << >> \o rest = rest
  BY <1>2, <1>4, <1>9, ConcatEmptySeq DEF InBuffer
<1>17. Regrouped(got, x, extra, rest) /\ Associates(got, x, rest)
  BY <1>2, <1>9, FourParts, Associative
<1>18. CASE done + n >= min
  <2>1. PICK m \in Nat : m = Least(done + n, len) /\ m <= len /\ m >= min
    BY <1>4, <1>7, <1>18 DEF Least
  <2>2. in' = Filled(extra, n) /\ Read(t, "ok", "input", m)
    BY <1>13, <1>18, <2>1
  <2>3. Len(extra) <= BufferSize
    BY <1>2, <1>7, <1>9, <1>12
  <2>4. /\ in' \in [buff : Seq(Byte), curr : Nat, max : Nat, lock : Readers \cup {0}, offset : Nat]
        /\ Len(in'.buff) <= BufferSize /\ in'.curr <= in'.max /\ in'.max <= Len(in'.buff)
        /\ in'.lock = 0 /\ in'.offset = in.offset + n
        /\ SubSeq(in'.buff, in'.curr + 1, in'.max) = extra
    BY <1>2, <1>7, <1>9, <2>2, <2>3, FilledIs
  <2>5. /\ r' \in [Readers -> InCall] /\ \A u \in Readers \ {t} : r'[u] = r[u]
        /\ ReaderOK(t)'
        /\ answer' = [op |-> "input", kind |-> "ok", n |-> m, len |-> len, min |-> min]
    <3>1. in'.lock # t
      BY <1>2, <2>4
    <3> QED
      BY <1>3, <2>2, <3>1, ReadIs
  <2>6. StateOK'
    BY <1>1, <1>4, <1>15, <2>4, <2>5, ReaderStep
  <2>7. InBuffer' = extra
    BY <2>4 DEF InBuffer
  <2>8. got' \o (InBuffer' \o wire') = got \o (InBuffer \o wire)
    BY <1>9, <1>11, <1>16, <1>17, <2>7 DEF Regrouped
  <2>9. Taken' = Taken /\ PositionsTrue'
    BY <1>1, <1>7, <1>15, <2>4, <2>6, <2>8, Moved
  <2>10. AnswersTrue'
    BY <2>1, <2>5, AnswerTrue
  <2> QED
    BY <1>1, <2>6, <2>9, <2>10 DEF MoveEffect
<1>19. CASE done + n < min
  <2> DEFINE c == [r[t] EXCEPT !.done = done + n]
  <2>1. in' = [in EXCEPT !.offset = in.offset + n] /\ r' = [r EXCEPT ![t] = c] /\ answer' = NoAnswer
    BY <1>14, <1>19 DEF Gets
  <2>2. PICK m \in Nat : m = done + n /\ m <= len
    BY <1>4, <1>7, <1>19
  <2>3. /\ c \in InCall /\ c.pc = "readv" /\ c.len = len /\ c.min = min /\ c.done = m
        /\ c.avail = avail
    BY <1>1, <1>2, <1>3, <2>2 DEF InCall
  <2> HIDE DEF c
  <2>4. r' \in [Readers -> InCall] /\ r'[t] = c /\ \A u \in Readers \ {t} : r'[u] = r[u]
    BY <1>2, <2>1, <2>3
  <2>5. /\ in' \in [buff : Seq(Byte), curr : Nat, max : Nat, lock : Readers \cup {0}, offset : Nat]
        /\ in'.buff = in.buff /\ in'.curr = in.curr /\ in'.max = in.max /\ in'.lock = t
        /\ in'.offset = in.offset + n
    <3>1. in.offset + n \in Nat
      BY <1>2, <1>7
    <3> QED
      BY <1>2, <1>4, <2>1, <3>1
  <2>6. ReaderOK(t)'
    <3>1. (ChannelIn' <=> ChannelIn)
      BY <1>1 DEF ChannelIn
    <3> QED
      BY <1>4, <2>2, <2>3, <2>4, <2>5, <3>1 DEF ReaderOK
  <2>7. StateOK'
    <3>1. Len(in'.buff) <= BufferSize /\ in'.curr <= in'.max /\ in'.max <= Len(in'.buff)
      BY <1>2, <2>5 DEF ChannelsOK
    <3> QED
      BY <1>1, <1>4, <1>15, <2>4, <2>5, <2>6, <3>1, ReaderStep
  <2>8. InBuffer' = << >>
    BY <1>2, <2>5 DEF InBuffer
  <2>9. extra = << >>
    <3>1. n - k = 0
      BY <1>4, <1>5, <1>7, <1>8, <1>19
    <3> QED
      BY <1>9, <3>1, EmptySeq
  <2>10. got' \o (InBuffer' \o wire') = got \o (InBuffer \o wire)
    <3>1. x \o << >> = x
      BY <1>9, ConcatEmptySeq
    <3> QED
      BY <1>9, <1>11, <1>16, <1>17, <2>8, <2>9, <3>1 DEF Associates
  <2>11. Taken' = Taken /\ PositionsTrue'
    BY <1>1, <1>7, <1>15, <2>5, <2>7, <2>10, Moved
  <2> QED
    BY <1>1, <2>1, <2>7, <2>11, NoAnswerTrue DEF MoveEffect
<1> QED
  BY <1>3, <1>7, <1>18, <1>19


(* A call that ends with the bytes of its last system call.                *)
LEMMA EndsReading ==
  ASSUME OneReader, StateOK, PositionsTrue, NEW t \in Readers, ~ChannelIn,
         UNCHANGED <<via, nonblocking, reset, out, in, w, acked>>,
         NEW n \in 0 .. Len(wire),
         got' = got \o SubSeq(wire, 1, n), wire' = SubSeq(wire, n + 1, Len(wire)),
         NEW op, NEW k, Read(t, "ok", op, k),
         op \in Looping => k <= r[t].len /\ k >= r[t].min,
         op \in {"really_write", "really_recv"} => k = r[t].len
  PROVE  MoveEffect
<1>1. in'.lock # t
  BY Constants DEF StateOK, ChannelsOK
<1>2. /\ r' \in [Readers -> InCall] /\ \A u \in Readers \ {t} : r'[u] = r[u]
      /\ ReaderOK(t)'
      /\ answer' = [op |-> op, kind |-> "ok", n |-> k, len |-> r[t].len, min |-> r[t].min]
  BY <1>1, ReadIs
<1>3. StateOK' /\ Taken' = Taken /\ PositionsTrue'
  BY <1>2, DirectlyRead
<1>4. AnswersTrue'
  BY <1>2, AnswerTrue
<1> QED
  BY <1>3, <1>4 DEF MoveEffect

(* A call that ends without more.                                          *)
LEMMA EndsAsIs ==
  ASSUME OneReader, StateOK, PositionsTrue, NEW t \in Readers, ~ChannelIn,
         UNCHANGED <<via, nonblocking, reset, wire, out, in, w, acked, got>>,
         NEW kind \in {"ok", "eof", "error", "errno"},
         NEW op \in {"read", "really_recv", "read_nonblocking", "recvfrom", "recvmmsg"},
         NEW k, Read(t, kind, op, k),
         op \in Looping => k <= r[t].len /\ (kind = "ok" => k >= r[t].min),
         op = "really_recv" /\ kind = "ok" => k = r[t].len,
         kind = "eof" => AtEnd,
         kind \in {"error", "errno"} => Fails
  PROVE  MoveEffect
<1>1. in'.lock # t
  BY Constants DEF StateOK, ChannelsOK
<1>2. /\ r' \in [Readers -> InCall] /\ \A u \in Readers \ {t} : r'[u] = r[u]
      /\ ReaderOK(t)'
      /\ answer' = [op |-> op, kind |-> kind, n |-> k, len |-> r[t].len, min |-> r[t].min]
  BY <1>1, ReadIs
<1>3. StateOK' /\ Taken' = Taken /\ PositionsTrue'
  BY <1>2, NothingRead
<1>4. AnswersTrue'
  <2>1. kind = "eof" => Closed' /\ wire' = << >>
    BY AtEndStays
  <2>2. CASE kind \in {"ok", "eof"}
    BY <1>2, <2>1, <2>2, AnswerTrue
  <2>3. CASE kind \in {"error", "errno"}
    <3>1. reset' \/ MayFail(answer.op)'
      BY <1>2, <2>3 DEF Fails, MayFail
    <3> QED
      BY <1>2, <2>3, <3>1, FailureTrue
  <2> QED
    BY <2>2, <2>3
<1> QED
  BY <1>3, <1>4 DEF MoveEffect

(* A call that goes on with n more bytes.                                  *)
LEMMA GoesOnReading ==
  ASSUME OneReader, StateOK, PositionsTrue, NEW t \in Readers,
         r[t].pc \in {"read", "recv"},
         UNCHANGED <<via, nonblocking, reset, out, in, w, acked>>,
         NEW n \in 0 .. Len(wire), r[t].done + n <= r[t].len,
         got' = got \o SubSeq(wire, 1, n), wire' = SubSeq(wire, n + 1, Len(wire)),
         Gets(t, [r[t] EXCEPT !.done = @ + n])
  PROVE  MoveEffect
<1>1. r \in [Readers -> InCall] /\ r[t] \in InCall /\ ReaderOK(t) /\ n \in Nat
  BY LenProperties DEF StateOK, Typed
<1>2. PICK len \in Nat, min \in Nat, done \in Nat :
        r[t].len = len /\ r[t].min = min /\ r[t].done = done
  BY <1>1 DEF InCall
<1>0. PICK m \in Nat : m = done + n
  BY <1>1
<1> DEFINE c == [r[t] EXCEPT !.done = m]
<1>3. r' = [r EXCEPT ![t] = c] /\ answer' = NoAnswer
  BY <1>0, <1>2 DEF Gets
<1>4. c \in InCall /\ c.pc = r[t].pc /\ c.len = len /\ c.min = min /\ c.done = m
  BY <1>1, <1>2 DEF InCall
<1> HIDE DEF c
<1>5. r' \in [Readers -> InCall] /\ r'[t] = c /\ \A u \in Readers \ {t} : r'[u] = r[u]
  BY <1>1, <1>3, <1>4
<1>6. ~ChannelIn
  BY <1>1 DEF ReaderOK
<1>7. ReaderOK(t)'
  <2>1. (ChannelIn' <=> ChannelIn) /\ m <= len
    BY <1>0, <1>2 DEF ChannelIn
  <2> QED
    BY <1>1, <1>2, <1>4, <1>5, <2>1 DEF ReaderOK
<1>8. StateOK' /\ Taken' = Taken /\ PositionsTrue'
  BY <1>5, <1>6, <1>7, DirectlyRead
<1> QED
  BY <1>3, <1>8, NoAnswerTrue DEF MoveEffect

(* read goes on, ends with enough bytes, or meets the end or an error.     *)
LEMMA ReadFdStep ==
  ASSUME OneReader, StateOK, PositionsTrue, NEW t \in Readers, ReadFd(t)
  PROVE  MoveEffect
<1>1. r[t].pc = "read" /\ UNCHANGED <<via, nonblocking, reset, out, in, w, acked>>
  BY DEF ReadFd
<1>2. r[t] \in InCall /\ ReaderOK(t) /\ Len(wire) \in Nat
  BY LenProperties DEF StateOK, Typed
<1>3. PICK len \in Nat, min \in Nat, done \in Nat :
        r[t].len = len /\ r[t].min = min /\ r[t].done = done
  BY <1>2 DEF InCall
<1>4. ~ChannelIn /\ min <= len /\ done <= len
  BY <1>1, <1>2, <1>3 DEF ReaderOK
<1>5. CASE len = 0 /\ Read(t, "ok", "read", 0) /\ UNCHANGED <<wire, got>>
  BY <1>1, <1>3, <1>4, <1>5, EndsAsIs
<1>6. ASSUME NEW n \in 1 .. Least(Len(wire), len - done),
             got' = got \o SubSeq(wire, 1, n), wire' = SubSeq(wire, n + 1, Len(wire)),
             IF done + n >= min THEN Read(t, "ok", "read", done + n)
             ELSE Gets(t, [r[t] EXCEPT !.done = @ + n])
      PROVE  MoveEffect
  <2>1. n \in Nat /\ n \in 0 .. Len(wire) /\ done + n <= len
    BY <1>2, LeastIs
  <2>2. CASE done + n >= min
    <3>1. Read(t, "ok", "read", done + n)
      BY <1>6, <2>2
    <3> QED
      BY <1>1, <1>3, <1>4, <1>6, <2>1, <2>2, <3>1, EndsReading
  <2>3. CASE ~(done + n >= min)
    <3>1. Gets(t, [r[t] EXCEPT !.done = @ + n])
      BY <1>6, <2>3
    <3> QED
      BY <1>1, <1>3, <1>6, <2>1, <3>1, GoesOnReading
  <2> QED
    BY <2>2, <2>3
<1>7. ASSUME AtEnd \/ Fails, Read(t, IF Fails THEN "error" ELSE "eof", "read", done),
             UNCHANGED <<wire, got>>
      PROVE  MoveEffect
  <2>1. CASE Fails
    BY <1>1, <1>3, <1>4, <1>7, <2>1, EndsAsIs
  <2>2. CASE ~Fails
    BY <1>1, <1>3, <1>4, <1>7, <2>2, EndsAsIs
  <2> QED
    BY <2>1, <2>2
<1> QED
  BY <1>3, <1>5, <1>6, <1>7 DEF ReadFd

(* really_recv goes on until it has all the bytes, or meets the end or an error. *)
LEMMA ReallyRecvStep ==
  ASSUME OneReader, StateOK, PositionsTrue, NEW t \in Readers, ReallyRecv(t)
  PROVE  MoveEffect
<1>1. r[t].pc = "recv" /\ UNCHANGED <<via, nonblocking, reset, out, in, w, acked>>
  BY DEF ReallyRecv
<1>2. r[t] \in InCall /\ ReaderOK(t) /\ Len(wire) \in Nat
  BY LenProperties DEF StateOK, Typed
<1>3. PICK len \in Nat, done \in Nat : r[t].len = len /\ r[t].done = done
  BY <1>2 DEF InCall
<1>4. ~ChannelIn /\ r[t].min = len /\ done <= len
  BY <1>1, <1>2, <1>3 DEF ReaderOK
<1>5. CASE Read(t, "ok", "really_recv", len) /\ UNCHANGED <<wire, got>>
  BY <1>1, <1>3, <1>4, <1>5, EndsAsIs
<1>6. ASSUME NEW n \in 1 .. Least(Len(wire), len - done),
             got' = got \o SubSeq(wire, 1, n), wire' = SubSeq(wire, n + 1, Len(wire)),
             Gets(t, [r[t] EXCEPT !.done = @ + n])
      PROVE  MoveEffect
  <2>1. n \in Nat /\ n \in 0 .. Len(wire) /\ done + n <= len
    BY <1>2, LeastIs
  <2> QED
    BY <1>1, <1>3, <1>6, <2>1, GoesOnReading
<1>7. ASSUME AtEnd \/ Fails, UNCHANGED <<wire, got>>,
             Read(t, IF AtEnd THEN "eof" ELSE "error", "really_recv", done)
      PROVE  MoveEffect
  <2>1. CASE AtEnd
    BY <1>1, <1>3, <1>4, <1>7, <2>1, EndsAsIs
  <2>2. CASE ~AtEnd
    BY <1>1, <1>3, <1>4, <1>7, <2>2, EndsAsIs
  <2> QED
    BY <2>1, <2>2
<1> QED
  BY <1>3, <1>5, <1>6, <1>7 DEF ReallyRecv

(* A single system call reads some bytes, or meets the end or an error.    *)
LEMMA ReadOnceStep ==
  ASSUME OneReader, StateOK, PositionsTrue, NEW t \in Readers,
         NEW op \in {"read_nonblocking", "recvfrom"}, ReadOnce(t, op)
  PROVE  MoveEffect
<1>1. ~ChannelIn /\ UNCHANGED <<via, nonblocking, reset, out, in, w, acked>>
  BY DEF ReadOnce
<1>2. Len(wire) \in Nat /\ MaxLen \in Nat
  BY LenProperties, Constants DEF StateOK, Typed
<1>3. op \notin Looping
  BY DEF Looping
<1>4. ASSUME NEW n \in 1 .. Least(Len(wire), MaxLen),
             got' = got \o SubSeq(wire, 1, n), wire' = SubSeq(wire, n + 1, Len(wire)),
             Read(t, "ok", op, n)
      PROVE  MoveEffect
  <2>1. n \in Nat /\ n <= Len(wire)
    <3>1. Len(wire) \in Int /\ MaxLen \in Int
      BY <1>2
    <3> QED
      BY <3>1, <1>4, LeastIs
  <2>2. n \in 0 .. Len(wire)
    BY <1>2, <2>1
  <2> QED
    BY <1>1, <1>3, <1>4, <2>2, EndsReading DEF Looping
<1>5. ASSUME AtEnd \/ Fails, UNCHANGED <<wire, got>>,
             Read(t, IF AtEnd THEN "eof" ELSE IF op = "recvfrom" THEN "error" ELSE "errno", op, 0)
      PROVE  MoveEffect
  <2>1. PICK kind \in {"eof", "error", "errno"} :
          Read(t, kind, op, 0) /\ (kind = "eof" => AtEnd) /\ (kind # "eof" => Fails)
    BY <1>5
  <2> QED
    BY <1>1, <1>3, <1>5, <2>1, EndsAsIs DEF Looping
<1> QED
  BY <1>4, <1>5 DEF ReadOnce

(* recvmmsg takes from the pipe what fits in all the vectors.              *)
LEMMA RecvMmsgStep ==
  ASSUME OneReader, StateOK, PositionsTrue, NEW t \in Readers, RecvMmsg(t)
  PROVE  MoveEffect
<1>1. ~ChannelIn /\ UNCHANGED <<via, nonblocking, reset, out, in, w, acked>>
  BY DEF RecvMmsg
<1>2. "recvmmsg" \notin Looping
  BY DEF Looping
<1>3. PICK lens \in Iovecs :
        \/ \E cut \in Cuts(lens) :
               /\ got' = got \o SubSeq(wire, 1, cut[Len(lens)])
               /\ wire' = SubSeq(wire, cut[Len(lens)] + 1, Len(wire))
               /\ Read(t, "ok", "recvmmsg", cut[Len(lens)])
        \/ /\ AtEnd \/ Fails
           /\ Read(t, IF AtEnd THEN "eof" ELSE "errno", "recvmmsg", 0)
           /\ UNCHANGED <<wire, got>>
  BY DEF RecvMmsg
<1>4. CASE \E cut \in Cuts(lens) :
             /\ got' = got \o SubSeq(wire, 1, cut[Len(lens)])
             /\ wire' = SubSeq(wire, cut[Len(lens)] + 1, Len(wire))
             /\ Read(t, "ok", "recvmmsg", cut[Len(lens)])
  <2>1. PICK cut \in Cuts(lens) :
             /\ got' = got \o SubSeq(wire, 1, cut[Len(lens)])
             /\ wire' = SubSeq(wire, cut[Len(lens)] + 1, Len(wire))
             /\ Read(t, "ok", "recvmmsg", cut[Len(lens)])
    BY <1>4
  <2>2. Len(lens) \in Nat
    BY IovecAssumption, LenProperties
  <2>3. cut \in [0 .. Len(lens) -> 0 .. Len(wire)]
    BY DEF Cuts
  <2>4. PICK n \in 0 .. Len(wire) : n = cut[Len(lens)]
    BY <2>2, <2>3
  <2> QED
    BY <1>1, <1>2, <2>1, <2>4, EndsReading DEF Looping
<1>5. CASE /\ AtEnd \/ Fails
           /\ Read(t, IF AtEnd THEN "eof" ELSE "errno", "recvmmsg", 0)
           /\ UNCHANGED <<wire, got>>
  <2>1. PICK kind \in {"eof", "errno"} :
          Read(t, kind, "recvmmsg", 0) /\ (kind = "eof" => AtEnd) /\ (kind # "eof" => Fails)
    BY <1>5
  <2> QED
    BY <1>1, <1>2, <1>5, <2>1, EndsAsIs DEF Looping
<1> QED
  BY <1>3, <1>4, <1>5

(* Every step of a reader moves bytes on.                                  *)
LEMMA ReaderSteps ==
  ASSUME OneReader, StateOK, PositionsTrue, NEW t \in Readers, Input(t) \/ CallInput(t)
  PROVE  MoveEffect
BY LockInputStep, ReadVStep, InputStopsStep, ReadFdStep, ReallyRecvStep, InputCallStep,
   RecvMmsgStep, ReadOnceStep DEF Input, CallInput

-----------------------------------------------------------------------------
(* The invariant, and what follows from it.                                *)

(* At the start nothing is taken from anybody.                            *)
LEMMA InitOK ==
  ASSUME Init
  PROVE  Inv
<1>1. << >> \in Seq(Byte) /\ Len(<< >>) = 0
  BY EmptySeq
<1>2. /\ via \in Vias /\ nonblocking \in BOOLEAN /\ reset = FALSE /\ wire = << >>
      /\ out = [buff |-> << >>, lock |-> 0, offset |-> 0]
      /\ in = [buff |-> << >>, curr |-> 0, max |-> 0, lock |-> 0, offset |-> 0]
      /\ w = [t \in Writers |-> NoOutput] /\ acked = [t \in Writers |-> 0]
      /\ r = [t \in Readers |-> NoInput] /\ got = << >> /\ answer = NoAnswer
  BY DEF Init
<1>3. Typed
  <2>1. NoOutput \in OutCall /\ NoInput \in InCall
    BY DEF NoOutput, NoInput, OutCall, InCall, OutPc, InPc
  <2> QED
    BY <1>1, <1>2, <2>1 DEF Typed
<1>4. ChannelsOK
  BY <1>1, <1>2, Constants DEF ChannelsOK
<1>5. ASSUME NEW t \in Writers PROVE WriterOK(t)
  <2>1. w[t] = NoOutput /\ acked[t] = 0 /\ Total[t] \in Nat /\ out.lock # t
    BY <1>2, Constants
  <2> QED
    BY <2>1 DEF WriterOK, NoOutput
<1>6. ASSUME NEW t \in Readers PROVE ReaderOK(t)
  <2>1. r[t] = NoInput /\ in.lock # t
    BY <1>2, Constants
  <2> QED
    BY <2>1 DEF ReaderOK, NoInput
<1>7. StateOK
  BY <1>3, <1>4, <1>5, <1>6 DEF StateOK
<1>8. InBuffer = << >> /\ OutBuffer = << >>
  <2>1. SubSeq(in.buff, in.curr + 1, in.max) = << >>
    BY <1>2, SubSeqEmpty
  <2> QED
    BY <1>2, <2>1 DEF InBuffer, OutBuffer
<1>9. Taken = << >>
  <2>1. << >> \o << >> = << >>
    BY <1>1, ConcatEmptySeq
  <2> QED
    BY <1>2, <1>8, <2>1 DEF Taken
<1>10. StreamIntact
  <2>1. DOMAIN Taken = {}
    BY <1>9
  <2>2. \A t \in Writers : Sent(t) = 0
    BY <1>2 DEF Sent, NoOutput
  <2>3. NothingLostOrDoubled
    BY <2>1, <2>2 DEF NothingLostOrDoubled
  <2>4. CallsUnbroken
    BY <2>1 DEF CallsUnbroken
  <2> QED
    BY <2>3, <2>4 DEF StreamIntact
<1>11. ToldTrue
  <2>1. AnswersTrue
    BY <1>2 DEF AnswersTrue, NoAnswer
  <2>2. PositionsTrue
    BY <1>1, <1>2, <1>8 DEF PositionsTrue
  <2> QED
    BY <2>1, <2>2 DEF ToldTrue
<1> QED
  BY <1>7, <1>10, <1>11 DEF Inv

(* A step that only moves bytes keeps the invariant.                       *)
LEMMA MoveStep ==
  ASSUME Inv, MoveEffect
  PROVE  Inv' /\ IsPrefix(Taken, Taken')
<1>1. StreamIntact' /\ IsPrefix(Taken, Taken')
  BY MoveKeeps DEF Inv
<1> QED
  BY <1>1 DEF Inv, MoveEffect, ToldTrue

(* So does every step, and the stream only grows.                          *)
LEMMA NextKeeps ==
  ASSUME OneReader, Inv, Next
  PROVE  Inv' /\ IsPrefix(Taken, Taken')
<1>1. StateOK /\ StreamIntact /\ PositionsTrue
  BY DEF Inv, ToldTrue
<1>2. ASSUME NEW t \in Writers, Output(t) \/ CallOutput(t)
      PROVE  Inv' /\ IsPrefix(Taken, Taken')
  <2>1. OutputEffect(t)
    BY <1>1, <1>2, WriterSteps
  <2>2. PICK k \in Nat : Puts(t, k)
    BY <2>1 DEF OutputEffect
  <2>3. StreamIntact' /\ IsPrefix(Taken, Taken')
    BY <1>1, <2>2, PutsKeeps
  <2> QED
    BY <2>1, <2>3 DEF OutputEffect, Inv, ToldTrue
<1>3. ASSUME NEW t \in Readers, Input(t) \/ CallInput(t)
      PROVE  Inv' /\ IsPrefix(Taken, Taken')
  BY <1>1, <1>3, ReaderSteps, MoveStep
<1>4. CASE Flush
  BY <1>1, <1>4, FlushStep, MoveStep
<1>5. CASE Break
  BY <1>1, <1>5, BreakStep, MoveStep
<1> QED
  BY <1>2, <1>3, <1>4, <1>5 DEF Next

(* The invariant speaks of the variables only.                             *)
LEMMA Stays ==
  ASSUME Inv, UNCHANGED vars
  PROVE  Inv'
<1>1. /\ UNCHANGED <<via, nonblocking, reset, wire, out, in, w, acked, r, got, answer>>
      /\ StateOK /\ StreamIntact /\ AnswersTrue /\ PositionsTrue
  BY DEF vars, Inv, ToldTrue
<1>2. StateOK'
  <2>1. Typed' /\ ChannelsOK'
    BY <1>1 DEF StateOK, Typed, ChannelsOK, ChannelOut, ChannelIn
  <2>2. ASSUME NEW u \in Writers PROVE WriterOK(u)'
    BY <1>1, OtherWriter DEF StateOK
  <2>3. ASSUME NEW u \in Readers PROVE ReaderOK(u)'
    BY <1>1, OtherReader DEF StateOK
  <2> QED
    BY <2>1, <2>2, <2>3 DEF StateOK
<1>3. Taken' = Taken
  BY <1>1 DEF Taken, InBuffer, OutBuffer, Unsent
<1>4. StreamIntact'
  BY <1>1, <1>3 DEF StreamIntact, NothingLostOrDoubled, CallsUnbroken, Sent, ChannelOut
<1>5. AnswersTrue'
  BY <1>1 DEF AnswersTrue, Closed, MayFail, Room
<1>6. PositionsTrue'
  BY <1>1 DEF PositionsTrue, ChannelIn, ChannelOut, InBuffer
<1> QED
  BY <1>2, <1>4, <1>5, <1>6 DEF Inv, ToldTrue

(* The invariant holds throughout.                                         *)
LEMMA Inductive ==
  ASSUME OneReader
  PROVE  Spec => []Inv
<1>1. Init => Inv
  BY InitOK
<1>2. Inv /\ [Next]_vars => Inv'
  BY NextKeeps, Stays
<1> QED
  BY <1>1, <1>2, PTL DEF Spec

(* Buffers and the pipe hold no more than their size, positions are inside *)
(* them, a lock is held by a thread that is there, and no call moves more  *)
(* than it was given, for any threads, lengths, totals and sizes.          *)
THEOREM StreamTyped ==
  ASSUME OneReader
  PROVE  Spec => []TypeOK
<1>1. Inv => TypeOK
  <2> SUFFICES ASSUME Inv PROVE TypeOK
    OBVIOUS
  <2>1. Typed /\ ChannelsOK
    BY DEF Inv, StateOK
  <2>2. ASSUME NEW t \in Writers
        PROVE  /\ acked[t] \in 0 .. Total[t]
               /\ w[t].buffIov <= w[t].buffLen /\ w[t].done + w[t].bstrIov <= w[t].len
               /\ w[t].pc = "writev" => w[t].buffIov + w[t].bstrIov > 0
    <3>1. WriterOK(t) /\ acked[t] \in Nat /\ w[t] \in OutCall /\ Total[t] \in Nat
      BY <2>1, Constants DEF Inv, StateOK, Typed
    <3>2. PICK len \in Nat, done \in Nat : w[t].len = len /\ w[t].done = done
      BY <3>1 DEF OutCall
    <3>3. CASE w[t].pc = "writev"
      BY <3>1, <3>2, <3>3 DEF WriterOK, SendingOK
    <3>4. CASE w[t].pc # "writev"
      BY <3>1, <3>2, <3>4 DEF WriterOK
    <3> QED
      BY <3>3, <3>4
  <2>3. ASSUME NEW t \in Readers PROVE r[t].done \in 0 .. r[t].len
    <3>1. ReaderOK(t) /\ r[t] \in InCall
      BY <2>1 DEF Inv, StateOK, Typed
    <3> QED
      BY <3>1 DEF ReaderOK, InCall
  <2>4. in.curr \in Nat /\ out.lock \in Writers \cup {0} /\ in.lock \in Readers \cup {0}
    BY <2>1 DEF Typed
  <2> QED
    BY <2>1, <2>2, <2>3, <2>4 DEF TypeOK, ChannelsOK
<1> QED
  BY <1>1, Inductive, PTL

(* No byte of any writer is lost, doubled or out of its order, nor mixed   *)
(* with what a call in progress outputs to the channel, whatever the       *)
(* system calls move and wherever they fail: for any number of threads.    *)
THEOREM StreamIsIntact ==
  ASSUME OneReader
  PROVE  Spec => []StreamIntact
<1>1. Inv => StreamIntact
  BY DEF Inv
<1> QED
  BY <1>1, Inductive, PTL

(* A call that succeeds has moved what it had to and no more than it was   *)
(* given, and the end is reported only when it is there.  A call fails, or *)
(* says that it would block, only where the connection is gone or, on a    *)
(* descriptor or by a call that does not wait (the sends), where the bytes *)
(* do not fit or none are there.  The channels' offsets count what went    *)
(* through them.                                                           *)
THEOREM AnswersAndPositions ==
  ASSUME OneReader
  PROVE  Spec => []ToldTrue
<1>1. Inv => ToldTrue
  BY DEF Inv
<1> QED
  BY <1>1, Inductive, PTL

(* No step changes what is already in the stream of bytes or its order:    *)
(* bytes move on from buffer to pipe to buffer, and new ones come last.    *)
THEOREM StreamGrowsAtItsEnd ==
  ASSUME OneReader
  PROVE  Spec => StreamOnlyGrows
<1>1. Inv /\ [Next]_vars => [IsPrefix(Taken, Taken')]_vars
  BY NextKeeps
<1> QED
  BY <1>1, Inductive, PTL DEF Spec, StreamOnlyGrows

(* With one reader, input meets an empty buffer where the code takes it    *)
(* for empty; a second reader of the same channel is what it takes for     *)
(* that not to be so.                                                      *)
THEOREM EmptyForOneReader ==
  ASSUME OneReader
  PROVE  Spec => []BufferEmptyNow
<1>1. Inv => BufferEmptyNow
  BY DEF Inv, StateOK, ReaderOK, BufferEmptyNow
<1> QED
  BY <1>1, Inductive, PTL
=============================================================================
