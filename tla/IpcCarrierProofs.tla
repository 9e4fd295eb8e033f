------------------------- MODULE IpcCarrierProofs -------------------------
(* Proofs about one direction of the IPC carrier, for every number of packets, *)
(* every capacity of the channels and the socket, every set of packets over a  *)
(* limit and any number of closes and dropped calls.  The invariant looks at   *)
(* the two pipes whole: what lies between write_packet and the socket are the  *)
(* packets queued and not yet written, and what lies between the socket and    *)
(* read_packet are the packets written, up to the first failed read.           *)
EXTENDS IpcCarrier, SequenceTheorems, TLAPS

\* The provers each step is tried with in turn, and the time they have.
USE SMTT(30), ZenonT(20), Z3T(30)

\* What the reading side holds, in the order in which its role will get it: the packets
\* it got, the channel, the result the read task is about to send, and the socket.
\* Nothing follows a read task that has ended.
Hand == IF readTask = "send" THEN <<held>> ELSE <<>>
Behind == IF readTask = "ended" THEN <<>> ELSE socket
Flow == (delivered \o packets) \o (Hand \o Behind)

\* What the write task will work on, and the command whose answer is awaited.
Pipe == (IF task = "write" THEN <<current>> ELSE <<>>) \o commands
Mine == IF call.phase = "ack" THEN call.p ELSE 0

\* Up to the first error the flow f is the first packets of q, and no more than w of them.
Match(f, q, w) ==
    \A i \in 1..Len(f) : (\A k \in 1..i : f[k] # 0) => i <= w /\ f[i] = q[i]

Clean(f) == \A k \in 1..Len(f) : f[k] # 0

\* The first w packets of q have been written.  Up to the first close the commands p
\* are the packets that follow them; without one they are all of them, and also when
\* the only close is the last command and the one whose answer is awaited (m).
Ahead(p, q, w, m) ==
    /\ \A j \in 1..Len(p) : (\A i \in 1..j : ~IsClose(p[i])) => w + j <= Len(q) /\ p[j] = q[w + j]
    /\ (\A i \in 1..Len(p) : ~IsClose(p[i])) => w + Len(p) = Len(q)
    /\ IsClose(m) /\ Len(p) > 0 /\ p[Len(p)] = m /\ (\A i \in 1..(Len(p) - 1) : ~IsClose(p[i]))
        => (w + Len(p)) - 1 = Len(q)
    /\ IsClose(m) => \A i \in 1..Len(p) : p[i] = m => i = Len(p)

RoleTypes ==
    /\ next \in Nat /\ next > 0 /\ closes \in Nat
    /\ call \in [p : Int, phase : {"idle", "send", "ack"}]

TaskTypes ==
    /\ task \in {"recv", "write", "ended"} /\ current \in Int /\ commands \in Seq(Int)
    /\ queued \in Seq(Nat \ {0}) /\ closed \in Int

ReadTypes ==
    /\ socket \in Seq(Nat) /\ shut \in BOOLEAN
    /\ readTask \in {"read", "send", "ended"} /\ held \in Int /\ packets \in Seq(Nat)
    /\ delivered \in Seq(Nat \ {0})

TypeOK == RoleTypes /\ TaskTypes /\ ReadTypes

\* The numbers of the closes, and that the queue ends with its task.
WriterOK ==
    /\ call.phase # "idle" => call.p # 0 /\ call.p >= -closes
    /\ \A i \in 1..Len(Pipe) : Pipe[i] >= -closes
    /\ call.phase = "send" /\ IsClose(call.p) => \A i \in 1..Len(Pipe) : Pipe[i] # call.p
    /\ task = "ended" => Pipe = <<>>
    /\ shut => task = "ended"

\* A failed read is the last result of the read task.
ReaderOK ==
    /\ readTask = "send" => held >= 0
    /\ \A j \in 1..Len(packets) : packets[j] = 0 => j = Len(packets) /\ readTask = "ended"

\* The first w packets have been written.
Written(w) ==
    /\ \A i \in 1..w : queued[i] \in acked
    /\ Match(Flow, queued, w)
    /\ task # "ended" => Ahead(Pipe, queued, w, Mine)
    /\ task # "ended" /\ readTask # "ended" /\ Clean(Flow) => Len(Flow) = w

ClosedOK == closed # -1 => closed \in 0..Len(queued) /\ \A k \in 1..closed : queued[k] \in acked

IInv == TypeOK /\ WriterOK /\ ReaderOK /\ ClosedOK /\ \E w \in 0..Len(queued) : Written(w)

-----------------------------------------------------------------------------
(* Sequences.                                                               *)

\* Joining sequences is associative.
LEMMA Joined ==
    \A a, b, c \in Seq(Int) : (a \o b) \o c = a \o (b \o c)
  <1> DEFINE S == Int
  <1>1. \A a, b, c \in Seq(S) : (a \o b) \o c = a \o (b \o c)
    <2> HIDE DEF S
    <2> QED BY ConcatAssociative
  <1> QED BY <1>1, ZenonT(30)

\* The first of b moves to the end of a.
LEMMA MovesOn ==
    ASSUME NEW a \in Seq(Int), NEW b \in Seq(Int), b # <<>>
    PROVE  /\ Head(b) = b[1] /\ Head(b) \in Int /\ Tail(b) \in Seq(Int)
           /\ <<Head(b)>> \o Tail(b) = b
           /\ Append(a, Head(b)) \o Tail(b) = a \o b
  <1>1. /\ Head(b) \in Int /\ Tail(b) \in Seq(Int) /\ <<Head(b)>> \in Seq(Int)
        /\ Head(b) = b[1]
    BY HeadTailProperties
  <1>2. Append(a, Head(b)) = a \o <<Head(b)>>
    BY <1>1, AppendIsConcat
  <1> DEFINE h == <<Head(b)>>
             t == Tail(b)
             s == h \o t
  <1>3. /\ Len(h) = 1 /\ h[1] = b[1] /\ Len(t) = Len(b) - 1
        /\ \A i \in 1..(Len(b) - 1) : t[i] = b[i + 1]
        /\ Len(b) \in Nat \ {0}
    BY <1>1, HeadTailProperties, EmptySeq
  <1>4. h \in Seq(Int) /\ t \in Seq(Int)
    BY <1>1
  <1> HIDE DEF h, t
  <1>5. /\ s \in Seq(Int) /\ Len(s) = Len(h) + Len(t)
        /\ \A i \in 1..(Len(h) + Len(t)) : s[i] = IF i <= Len(h) THEN h[i] ELSE t[i - Len(h)]
    BY <1>4, ConcatProperties
  <1> HIDE DEF s
  <1>6. Len(s) = Len(b)
    BY <1>3, <1>5
  <1>7. \A i \in 1..Len(s) : s[i] = b[i]
    <2> SUFFICES ASSUME NEW i \in 1..Len(s) PROVE s[i] = b[i]
      OBVIOUS
    <2>1. CASE i = 1
      BY <1>3, <1>5, <2>1
    <2>2. CASE i # 1
      <3>1. i - 1 \in 1..(Len(b) - 1) /\ (i - 1) + 1 = i
        BY <1>3, <1>6, <2>2
      <3>2. t[i - 1] = b[i]
        BY <1>3, <3>1
      <3> QED BY <1>3, <1>5, <2>2, <3>2
    <2> QED BY <2>1, <2>2
  <1>8. s = b
    BY <1>5, <1>6, <1>7, SeqEqual, ZenonT(30)
  <1>9. (a \o h) \o t = a \o b
    BY <1>4, <1>8, Joined, ZenonT(30) DEF s
  <1> QED BY <1>1, <1>2, <1>8, <1>9 DEF h, t, s

\* Appending to the second of two sequences, and as a join.
LEMMA Appended ==
    ASSUME NEW a \in Seq(Int), NEW b \in Seq(Int), NEW x \in Int
    PROVE  /\ a \o Append(b, x) = Append(a \o b, x)
           /\ Append(b, x) = b \o <<x>> /\ <<x>> \in Seq(Int)
           /\ a \o b \in Seq(Int) /\ Append(b, x) \in Seq(Int)
  <1> DEFINE o == <<x>>
  <1>1. o \in Seq(Int) /\ a \o b \in Seq(Int)
    BY ConcatProperties
  <1>2. Append(b, x) = b \o o /\ Append(a \o b, x) = (a \o b) \o o /\ Append(b, x) \in Seq(Int)
    BY <1>1, AppendIsConcat, AppendProperties, ZenonT(30)
  <1> HIDE DEF o
  <1>3. (a \o b) \o o = a \o (b \o o)
    BY <1>1, Joined, ZenonT(30)
  <1> QED BY <1>1, <1>2, <1>3, ZenonT(30) DEF o

\* The result in hand moves from the front of one part to the end of the part before it.
LEMMA SentOn ==
    \A d, p, s \in Seq(Int), x \in Nat :
        /\ (d \o p) \o (<<x>> \o s) = (d \o Append(p, x)) \o s
        /\ d \o Append(p, x) \in Seq(Int)
  <1> SUFFICES ASSUME NEW d \in Seq(Int), NEW p \in Seq(Int), NEW s \in Seq(Int), NEW x \in Nat
               PROVE  /\ (d \o p) \o (<<x>> \o s) = (d \o Append(p, x)) \o s
                      /\ d \o Append(p, x) \in Seq(Int)
    BY ZenonT(30)
  <1>1. x \in Int
    OBVIOUS
  <1>2. /\ d \o Append(p, x) = Append(d \o p, x) /\ Append(d \o p, x) = (d \o p) \o <<x>>
        /\ <<x>> \in Seq(Int) /\ d \o p \in Seq(Int) /\ Append(d \o p, x) \in Seq(Int)
    BY <1>1, Appended, ZenonT(30)
  <1>3. ((d \o p) \o <<x>>) \o s = (d \o p) \o (<<x>> \o s)
    BY <1>2, Joined, ZenonT(30)
  <1> QED BY <1>2, <1>3, ZenonT(30)

\* Appending to the last of three sequences.
LEMMA Longer ==
    \A d, h, s \in Seq(Int), x \in Int : d \o (h \o Append(s, x)) = Append(d \o (h \o s), x)
  <1> SUFFICES ASSUME NEW d \in Seq(Int), NEW h \in Seq(Int), NEW s \in Seq(Int), NEW x \in Int
               PROVE  d \o (h \o Append(s, x)) = Append(d \o (h \o s), x)
    BY ZenonT(30)
  <1>1. h \o Append(s, x) = Append(h \o s, x) /\ h \o s \in Seq(Int)
    BY Appended
  <1>2. d \o Append(h \o s, x) = Append(d \o (h \o s), x)
    BY <1>1, Appended, ZenonT(30)
  <1> QED BY <1>1, <1>2

\* The places of a sequence that is put together.
LEMMA Places ==
    ASSUME NEW a \in Seq(Int), NEW b \in Seq(Int)
    PROVE  /\ a \o b \in Seq(Int) /\ Len(a \o b) = Len(a) + Len(b)
           /\ Len(a) \in Nat /\ Len(b) \in Nat
           /\ \A i \in 1..Len(a) : i \in 1..Len(a \o b) /\ (a \o b)[i] = a[i]
           /\ \A i \in 1..Len(b) : Len(a) + i \in 1..Len(a \o b) /\ (a \o b)[Len(a) + i] = b[i]
  OBVIOUS

\* The elements of an appended sequence.
LEMMA OneMorePlace ==
    ASSUME NEW a \in Seq(Int), NEW x \in Int
    PROVE  /\ Append(a, x) \in Seq(Int) /\ Len(Append(a, x)) = Len(a) + 1 /\ Len(a) \in Nat
           /\ \A i \in 1..Len(a) : Append(a, x)[i] = a[i]
           /\ Append(a, x)[Len(a) + 1] = x
  OBVIOUS

-----------------------------------------------------------------------------
(* The flow to the reading role.                                            *)

\* What begins a flow matches with it.
LEMMA MatchPrefix ==
    ASSUME NEW f \in Seq(Int), NEW g \in Seq(Int), NEW q \in Seq(Int), NEW w \in Nat,
           Match(f \o g, q, w)
    PROVE  Match(f, q, w)
  <1> DEFINE h == f \o g
  <1>1. Match(h, q, w) /\ Len(f) \in Nat /\ \A i \in 1..Len(f) : i \in 1..Len(h) /\ h[i] = f[i]
    BY Places
  <1> HIDE DEF h
  <1>2. \A i \in 1..Len(f) : \A k \in 1..i : k \in 1..Len(f)
    BY <1>1
  <1> QED BY <1>1, <1>2, ZenonT(30) DEF Match

\* Behind an error anything may follow.
LEMMA MatchError ==
    ASSUME NEW f \in Seq(Int), NEW g \in Seq(Int), NEW q \in Seq(Int), NEW w \in Nat,
           Match(f, q, w), Len(g) > 0, g[1] = 0
    PROVE  Match(f \o g, q, w) /\ ~Clean(f \o g)
  <1> DEFINE h == f \o g
  <1>1. /\ Len(f) \in Nat /\ Len(g) \in Nat /\ Len(h) = Len(f) + Len(g)
        /\ \A i \in 1..Len(f) : h[i] = f[i]
        /\ \A i \in 1..Len(g) : h[Len(f) + i] = g[i]
    BY Places
  <1> HIDE DEF h
  <1>2. h[Len(f) + 1] = 0 /\ Len(f) + 1 \in 1..Len(h)
    BY <1>1
  <1>3. ASSUME NEW i \in 1..Len(h), \A k \in 1..i : h[k] # 0
        PROVE  i \in 1..Len(f) /\ \A k \in 1..i : k \in 1..Len(f)
    <2>1. Len(f) + 1 \notin 1..i
      BY <1>2, <1>3
    <2> QED BY <1>1, <2>1
  <1>4. Match(h, q, w)
    BY <1>1, <1>3, ZenonT(30) DEF Match
  <1>5. ~Clean(h)
    BY <1>2 DEF Clean
  <1> QED BY <1>4, <1>5 DEF h

\* The packet just written follows a flow that has all the packets before it.
LEMMA MatchAppend ==
    ASSUME NEW f \in Seq(Int), NEW q \in Seq(Int), NEW w \in Nat, Match(f, q, w),
           Clean(f) => Len(f) = w, w + 1 <= Len(q), NEW x \in Int, x = q[w + 1]
    PROVE  /\ Match(Append(f, x), q, w + 1)
           /\ Clean(Append(f, x)) => Len(Append(f, x)) = w + 1
  <1> DEFINE h == Append(f, x)
  <1>1. /\ Len(h) = Len(f) + 1 /\ Len(f) \in Nat
        /\ \A i \in 1..Len(f) : h[i] = f[i]
        /\ h[Len(f) + 1] = x
    BY OneMorePlace
  <1> HIDE DEF h
  <1>2. ASSUME \A k \in 1..Len(f) : h[k] # 0 PROVE Len(f) = w
    BY <1>1, <1>2 DEF Clean
  <1>3. Match(h, q, w + 1)
    <2> SUFFICES ASSUME NEW i \in 1..Len(h), \A k \in 1..i : h[k] # 0
                 PROVE  i <= w + 1 /\ h[i] = q[i]
      BY DEF Match
    <2>1. CASE i \in 1..Len(f)
      <3>1. \A k \in 1..i : k \in 1..Len(f)
        BY <1>1, <2>1
      <3>2. \A k \in 1..i : f[k] # 0
        BY <1>1, <3>1, ZenonT(30)
      <3>3. i <= w /\ f[i] = q[i]
        BY <2>1, <3>2 DEF Match
      <3> QED BY <1>1, <2>1, <3>3
    <2>2. CASE i = Len(f) + 1
      <3>1. \A k \in 1..Len(f) : k \in 1..i
        BY <1>1, <2>2
      <3>2. Len(f) = w
        BY <1>2, <3>1
      <3>3. i = w + 1
        BY <2>2, <3>2
      <3>4. h[i] = x /\ q[i] = x
        BY <1>1, <2>2, <3>3
      <3> QED BY <3>3, <3>4
    <2>3. i \in 1..Len(f) \/ i = Len(f) + 1
      BY <1>1
    <2> QED BY <2>1, <2>2, <2>3, ZenonT(30)
  <1>4. Clean(h) => Len(h) = w + 1
    <2>1. \A k \in 1..Len(f) : k \in 1..Len(h)
      BY <1>1
    <2> QED BY <1>1, <1>2, <2>1 DEF Clean
  <1> QED BY <1>3, <1>4 DEF h

\* What is queued later does not change what was queued.
LEMMA MatchQueued ==
    ASSUME NEW f \in Seq(Int), NEW q \in Seq(Int), NEW w \in Nat, Match(f, q, w), w <= Len(q),
           NEW x \in Int
    PROVE  Match(f, Append(q, x), w)
  <1> DEFINE r == Append(q, x)
  <1>1. Len(q) \in Nat /\ \A i \in 1..Len(q) : r[i] = q[i]
    BY OneMorePlace
  <1> HIDE DEF r
  <1>2. \A i \in 1..Len(f) : i <= w => i \in 1..Len(q)
    BY <1>1
  <1>3. Match(f, r, w)
    BY <1>1, <1>2 DEF Match
  <1> QED BY <1>3 DEF r

-----------------------------------------------------------------------------
(* The commands on their way to the write task.                             *)

\* A packet is queued.
LEMMA AheadPacket ==
    ASSUME NEW p \in Seq(Int), NEW q \in Seq(Int), NEW w \in Nat, NEW m \in Int,
           Ahead(p, q, w, m), NEW x \in Nat
    PROVE  Ahead(Append(p, x), Append(q, x), w, x)
  <1> DEFINE s == Append(p, x)
             r == Append(q, x)
  <1>1. /\ Len(s) = Len(p) + 1 /\ Len(p) \in Nat /\ \A i \in 1..Len(p) : s[i] = p[i]
        /\ s[Len(p) + 1] = x
        /\ Len(r) = Len(q) + 1 /\ Len(q) \in Nat /\ \A i \in 1..Len(q) : r[i] = q[i]
        /\ r[Len(q) + 1] = x
    BY OneMorePlace
  <1> HIDE DEF s, r
  <1>2. ~IsClose(x)
    BY DEF IsClose
  <1>3. ASSUME \A i \in 1..Len(p) : ~IsClose(s[i]) PROVE w + Len(p) = Len(q)
    BY <1>1, <1>3 DEF Ahead
  <1>4. ASSUME NEW j \in 1..Len(s), \A i \in 1..j : ~IsClose(s[i])
        PROVE  w + j <= Len(r) /\ s[j] = r[w + j]
    <2>1. CASE j \in 1..Len(p)
      <3>1. \A i \in 1..j : i \in 1..Len(p) /\ ~IsClose(p[i])
        BY <1>1, <1>4, <2>1
      <3>2. w + j <= Len(q) /\ p[j] = q[w + j]
        BY <2>1, <3>1 DEF Ahead
      <3>3. w + j \in 1..Len(q)
        BY <1>1, <2>1, <3>2
      <3> QED BY <1>1, <2>1, <3>2, <3>3
    <2>2. CASE j = Len(p) + 1
      <3>1. \A i \in 1..Len(p) : i \in 1..j
        BY <1>1, <2>2
      <3>2. w + Len(p) = Len(q)
        BY <1>3, <1>4, <3>1
      <3>3. w + j = Len(q) + 1
        BY <1>1, <2>2, <3>2
      <3>4. s[j] = x /\ r[w + j] = x
        BY <1>1, <2>2, <3>3
      <3> QED BY <1>1, <3>3, <3>4
    <2>3. j \in 1..Len(p) \/ j = Len(p) + 1
      BY <1>1
    <2> QED BY <2>1, <2>2, <2>3, ZenonT(30)
  <1>5. (\A i \in 1..Len(s) : ~IsClose(s[i])) => w + Len(s) = Len(r)
    <2>1. \A i \in 1..Len(p) : i \in 1..Len(s)
      BY <1>1
    <2> QED BY <1>1, <1>3, <2>1
  <1>6. Ahead(s, r, w, x)
    BY <1>2, <1>4, <1>5 DEF Ahead
  <1> QED BY <1>6 DEF s, r

\* A close is queued behind all packets.
LEMMA AheadClose ==
    ASSUME NEW p \in Seq(Int), NEW q \in Seq(Int), NEW w \in Nat, NEW m \in Int,
           Ahead(p, q, w, m), NEW x \in Int, IsClose(x), \A i \in 1..Len(p) : p[i] # x
    PROVE  Ahead(Append(p, x), q, w, x)
  <1> DEFINE s == Append(p, x)
  <1>1. /\ Len(s) = Len(p) + 1 /\ Len(p) \in Nat /\ \A i \in 1..Len(p) : s[i] = p[i]
        /\ s[Len(p) + 1] = x
    BY OneMorePlace
  <1> HIDE DEF s
  <1>2. Len(s) \in 1..Len(s) /\ IsClose(s[Len(s)])
    BY <1>1
  <1>3. ASSUME NEW j \in 1..Len(s), \A i \in 1..j : ~IsClose(s[i])
        PROVE  w + j <= Len(q) /\ s[j] = q[w + j]
    <2>1. j \in 1..Len(p)
      BY <1>1, <1>2, <1>3
    <2>2. \A i \in 1..j : i \in 1..Len(p) /\ ~IsClose(p[i])
      BY <1>1, <1>3, <2>1
    <2>3. w + j <= Len(q) /\ p[j] = q[w + j]
      BY <2>1, <2>2 DEF Ahead
    <2> QED BY <1>1, <2>1, <2>3
  <1>4. (\A i \in 1..(Len(s) - 1) : ~IsClose(s[i])) => (w + Len(s)) - 1 = Len(q)
    <2>1. Len(s) - 1 = Len(p) /\ (w + Len(s)) - 1 = w + Len(p)
      BY <1>1
    <2> QED BY <1>1, <2>1, ZenonT(30) DEF Ahead
  <1>5. \A i \in 1..Len(s) : s[i] = x => i = Len(s)
    <2>1. \A i \in 1..Len(s) : i \in 1..Len(p) \/ i = Len(s)
      BY <1>1
    <2> QED BY <1>1, <2>1
  <1>6. Ahead(s, q, w, x)
    BY <1>2, <1>3, <1>4, <1>5 DEF Ahead
  <1> QED BY <1>6 DEF s

\* Nobody awaits the answer any more, or it is that of a packet.
LEMMA AheadForgets ==
    ASSUME NEW p, NEW q, NEW w, NEW m, Ahead(p, q, w, m), NEW n, ~IsClose(n)
    PROVE  Ahead(p, q, w, n)
  BY DEF Ahead

\* The write task has written a packet.
LEMMA AheadWrites ==
    ASSUME NEW p \in Seq(Int), NEW q \in Seq(Int), NEW w \in Nat, NEW m \in Int,
           NEW x \in Int, Ahead(<<x>> \o p, q, w, m), ~IsClose(x)
    PROVE  Ahead(p, q, w + 1, m) /\ w + 1 <= Len(q) /\ x = q[w + 1]
  <1> DEFINE s == <<x>> \o p
  <1>1. /\ Len(s) = Len(p) + 1 /\ Len(p) \in Nat /\ s[1] = x
        /\ \A i \in 1..Len(p) : i + 1 \in 1..Len(s) /\ s[i + 1] = p[i]
    <2>1. <<x>> \in Seq(Int) /\ Len(<<x>>) = 1 /\ <<x>>[1] = x
      OBVIOUS
    <2> QED BY <2>1, Places
  <1>2. Ahead(s, q, w, m)
    OBVIOUS
  <1> HIDE DEF s
  <1>3. ASSUME NEW j \in 0..Len(p), \A i \in 1..j : ~IsClose(p[i])
        PROVE  \A i \in 1..(j + 1) : i \in 1..Len(s) /\ ~IsClose(s[i])
    <2> SUFFICES ASSUME NEW i \in 1..(j + 1) PROVE i \in 1..Len(s) /\ ~IsClose(s[i])
      OBVIOUS
    <2>1. CASE i = 1
      BY <1>1, <2>1
    <2>2. CASE i # 1
      <3>1. i - 1 \in 1..j /\ i - 1 \in 1..Len(p) /\ (i - 1) + 1 = i
        BY <1>1, <2>2
      <3>2. ~IsClose(p[i - 1]) /\ s[i] = p[i - 1] /\ i \in 1..Len(s)
        BY <1>1, <1>3, <3>1, ZenonT(30)
      <3> QED BY <3>2
    <2> QED BY <2>1, <2>2
  <1>4. w + 1 <= Len(q) /\ x = q[w + 1]
    <2>1. 1 \in 1..Len(s) /\ \A i \in 1..1 : ~IsClose(s[i])
      BY <1>1
    <2> QED BY <1>1, <1>2, <2>1 DEF Ahead
  <1>5. ASSUME NEW j \in 1..Len(p), \A i \in 1..j : ~IsClose(p[i])
        PROVE  (w + 1) + j <= Len(q) /\ p[j] = q[(w + 1) + j]
    <2>1. j + 1 \in 1..Len(s) /\ \A i \in 1..(j + 1) : ~IsClose(s[i])
      BY <1>1, <1>3, <1>5
    <2>2. w + (j + 1) <= Len(q) /\ s[j + 1] = q[w + (j + 1)]
      BY <1>2, <2>1 DEF Ahead
    <2>3. w + (j + 1) = (w + 1) + j
      BY <1>1
    <2> QED BY <1>1, <2>2, <2>3
  <1>6. (\A i \in 1..Len(p) : ~IsClose(p[i])) => (w + 1) + Len(p) = Len(q)
    <2> SUFFICES ASSUME \A i \in 1..Len(p) : ~IsClose(p[i]) PROVE (w + 1) + Len(p) = Len(q)
      OBVIOUS
    <2>1. Len(p) \in 0..Len(p) /\ 1..Len(s) = 1..(Len(p) + 1)
      BY <1>1
    <2>3. \A i \in 1..(Len(p) + 1) : ~IsClose(s[i])
      BY <1>3, <2>1
    <2>2. w + Len(s) = Len(q)
      BY <1>2, <2>1, <2>3 DEF Ahead
    <2> QED BY <1>1, <2>2
  <1>7. IsClose(m) /\ Len(p) > 0 /\ p[Len(p)] = m /\ (\A i \in 1..(Len(p) - 1) : ~IsClose(p[i]))
          => ((w + 1) + Len(p)) - 1 = Len(q)
    <2> SUFFICES ASSUME IsClose(m), Len(p) > 0, p[Len(p)] = m,
                        \A i \in 1..(Len(p) - 1) : ~IsClose(p[i])
                 PROVE  ((w + 1) + Len(p)) - 1 = Len(q)
      OBVIOUS
    <2>1. Len(p) - 1 \in 0..Len(p) /\ (Len(p) - 1) + 1 = Len(s) - 1
      BY <1>1
    <2>2. \A i \in 1..(Len(s) - 1) : ~IsClose(s[i])
      BY <1>3, <2>1, ZenonT(30)
    <2>3. Len(s) > 0 /\ s[Len(s)] = m
      BY <1>1
    <2>4. (w + Len(s)) - 1 = Len(q)
      BY <1>2, <2>2, <2>3 DEF Ahead
    <2> QED BY <1>1, <2>4
  <1>8. IsClose(m) => \A i \in 1..Len(p) : p[i] = m => i = Len(p)
    <2> SUFFICES ASSUME IsClose(m), NEW i \in 1..Len(p), p[i] = m PROVE i = Len(p)
      OBVIOUS
    <2>1. i + 1 \in 1..Len(s) /\ s[i + 1] = m
      BY <1>1
    <2>2. i + 1 = Len(s)
      BY <1>2, <2>1 DEF Ahead
    <2> QED BY <1>1, <2>2
  <1> QED BY <1>4, <1>5, <1>6, <1>7, <1>8 DEF Ahead

\* The write task has come to a close whose answer is awaited: nothing follows it, and
\* every packet has been written.
LEMMA AheadEnds ==
    ASSUME NEW p \in Seq(Int), NEW q \in Seq(Int), NEW w \in Nat, NEW x \in Int,
           Ahead(<<x>> \o p, q, w, x), IsClose(x)
    PROVE  w = Len(q)
  <1> DEFINE s == <<x>> \o p
  <1>1. /\ Len(s) = Len(p) + 1 /\ Len(p) \in Nat /\ s[1] = x /\ 1 \in 1..Len(s)
    <2>1. <<x>> \in Seq(Int) /\ Len(<<x>>) = 1 /\ <<x>>[1] = x
      OBVIOUS
    <2> QED BY <2>1, Places
  <1>2. Ahead(s, q, w, x)
    OBVIOUS
  <1> HIDE DEF s
  <1>3. Len(s) = 1
    BY <1>1, <1>2 DEF Ahead
  <1>4. s[Len(s)] = x /\ Len(s) > 0 /\ 1..(Len(s) - 1) = {}
    BY <1>1, <1>3
  <1>5. (w + Len(s)) - 1 = Len(q)
    BY <1>2, <1>4, ZenonT(30) DEF Ahead
  <1> QED BY <1>3, <1>5

-----------------------------------------------------------------------------
(* The calls of the writing role.                                           *)

\* The sequences the invariant speaks of.
LEMMA Types ==
    ASSUME TypeOK
    PROVE  /\ delivered \in Seq(Int) /\ packets \in Seq(Int) /\ socket \in Seq(Int)
           /\ commands \in Seq(Int) /\ queued \in Seq(Int)
           /\ Hand \in Seq(Int) /\ Behind \in Seq(Int)
           /\ Flow \in Seq(Int) /\ Pipe \in Seq(Int) /\ Mine \in Int /\ Len(queued) \in Nat
  <1>1. ASSUME NEW q, q \in Seq(Nat) \/ q \in Seq(Nat \ {0}) PROVE q \in Seq(Int)
    BY <1>1
  <1>2. /\ delivered \in Seq(Int) /\ packets \in Seq(Int) /\ socket \in Seq(Int)
        /\ commands \in Seq(Int) /\ queued \in Seq(Int)
    BY <1>1, ZenonT(30) DEF TypeOK, TaskTypes, ReadTypes
  <1>3. held \in Int /\ current \in Int /\ call.p \in Int
    BY DEF TypeOK, RoleTypes, TaskTypes, ReadTypes
  <1>4. <<held>> \in Seq(Int) /\ <<current>> \in Seq(Int) /\ <<>> \in Seq(Int)
    BY <1>3
  <1>5. /\ Hand \in Seq(Int) /\ Behind \in Seq(Int)
        /\ (IF task = "write" THEN <<current>> ELSE <<>>) \in Seq(Int)
    BY <1>2, <1>4, ZenonT(30) DEF Hand, Behind
  <1>6. Flow \in Seq(Int)
    <2>1. delivered \o packets \in Seq(Int) /\ Hand \o Behind \in Seq(Int)
      BY <1>2, <1>5, Places, ZenonT(30)
    <2> QED BY <2>1, Places, ZenonT(30) DEF Flow
  <1>7. Pipe \in Seq(Int)
    BY <1>2, <1>5, Places, ZenonT(30) DEF Pipe
  <1> QED BY <1>2, <1>3, <1>5, <1>6, <1>7 DEF Mine

\* An idle carrier with nothing in it.
LEMMA InitIInv == Init => IInv
  <1> SUFFICES ASSUME Init PROVE IInv
    OBVIOUS
  <1>1. RoleTypes
    BY DEF Init, RoleTypes, Quiet
  <1>2. /\ commands = <<>> /\ socket = <<>> /\ packets = <<>> /\ delivered = <<>> /\ queued = <<>>
        /\ task = "recv" /\ readTask = "read" /\ current = 0 /\ held = -1 /\ closed = -1
        /\ shut = FALSE /\ call = Quiet
    BY DEF Init
  <1>3. /\ <<>> \in Seq(Int) /\ <<>> \in Seq(Nat) /\ <<>> \in Seq(Nat \ {0})
        /\ Len(<<>>) = 0 /\ <<>> \o <<>> = <<>>
    OBVIOUS
  <1>4. -1 \in Int /\ 0 \in Int
    OBVIOUS
  <1>5. TaskTypes
    BY <1>2, <1>3, <1>4, ZenonT(30) DEF TaskTypes
  <1>6. ReadTypes
    BY <1>2, <1>3, <1>4, ZenonT(30) DEF ReadTypes
  <1>7. Flow = <<>> /\ Pipe = <<>>
    BY <1>2, <1>3 DEF Flow, Pipe, Hand, Behind
  <1>8. call.phase = "idle" /\ Mine = 0 /\ ~IsClose(0)
    BY <1>2 DEF Quiet, Mine, IsClose
  <1>9. WriterOK
    BY <1>2, <1>3, <1>7, <1>8 DEF WriterOK
  <1>10. ReaderOK /\ ClosedOK
    BY <1>2, <1>3 DEF ReaderOK, ClosedOK
  <1>11. Match(Flow, queued, 0)
    BY <1>3, <1>7 DEF Match
  <1>12. Ahead(Pipe, queued, 0, Mine)
    <2>1. Ahead(<<>>, <<>>, 0, 0)
      BY <1>3, <1>8 DEF Ahead
    <2> QED BY <1>2, <1>7, <1>8, <2>1
  <1>13. Written(0)
    BY <1>3, <1>7, <1>11, <1>12 DEF Written
  <1>14. 0 \in 0..Len(queued)
    BY <1>2, <1>3
  <1> QED BY <1>1, <1>5, <1>6, <1>9, <1>10, <1>13, <1>14 DEF IInv, TypeOK

\* The step leaves the flow, the queue and the socket as they are; the role's call may change.
LEMMA RoleStep ==
    ASSUME IInv, TypeOK', WriterOK', Pipe' = Pipe, ~IsClose(Mine') \/ Mine' = Mine,
           UNCHANGED <<task, queued, acked, closed, readTask, held, packets, delivered, socket>>
    PROVE  IInv'
  <1>1. PICK w \in 0..Len(queued) : Written(w)
    BY DEF IInv
  <1>2. Flow' = Flow
    BY DEF Flow, Hand, Behind
  <1>3. ReaderOK' /\ ClosedOK'
    BY DEF IInv, ReaderOK, ClosedOK
  <1>4. task # "ended" => Ahead(Pipe, queued, w, Mine')
    BY <1>1, AheadForgets DEF Written
  <1>5. Written(w)'
    BY <1>1, <1>2, <1>4 DEF Written
  <1> QED BY <1>1, <1>3, <1>5 DEF IInv

\* write_packet takes the next packet to the queue.
LEMMA WriteStep ==
    ASSUME IInv, write_packet
    PROVE  IInv'
  <1>1. TypeOK /\ WriterOK
    BY DEF IInv
  <1>2. /\ call' = [p |-> next, phase |-> "send"] /\ next' = next + 1
        /\ UNCHANGED <<closes, commands, task, current, queued, acked, closed, shut,
                       readTask, held, packets, delivered, socket>>
    BY DEF write_packet, readerVars
  <1>3. TypeOK'
    <2>1. RoleTypes'
      BY <1>1, <1>2 DEF TypeOK, RoleTypes
    <2>2. TaskTypes' /\ ReadTypes'
      BY <1>1, <1>2 DEF TypeOK, TaskTypes, ReadTypes
    <2> QED BY <2>1, <2>2 DEF TypeOK
  <1>4. Pipe' = Pipe
    BY <1>2 DEF Pipe
  <1>5. next # 0 /\ next >= -closes /\ ~IsClose(next) /\ ~IsClose(0)
    BY <1>1 DEF TypeOK, RoleTypes, IsClose
  <1>6. WriterOK'
    BY <1>1, <1>2, <1>4, <1>5 DEF WriterOK
  <1>7. ~IsClose(Mine')
    BY <1>2, <1>5 DEF Mine
  <1> QED BY <1>2, <1>3, <1>4, <1>6, <1>7, RoleStep

\* A close has a number no command on its way has.
LEMMA CloseStep ==
    ASSUME IInv, close
    PROVE  IInv'
  <1>1. TypeOK /\ WriterOK
    BY DEF IInv
  <1>2. /\ call' = [p |-> -closes', phase |-> "send"] /\ closes' = closes + 1
        /\ UNCHANGED <<next, commands, task, current, queued, acked, closed, shut,
                       readTask, held, packets, delivered, socket>>
    BY DEF close, readerVars
  <1>3. closes \in Nat /\ closes' \in Nat
    BY <1>1, <1>2 DEF TypeOK, RoleTypes
  <1>4. TypeOK'
    <2>1. -closes' \in Int
      BY <1>3
    <2>2. RoleTypes'
      BY <1>1, <1>2, <1>3, <2>1 DEF TypeOK, RoleTypes
    <2>3. TaskTypes' /\ ReadTypes'
      BY <1>1, <1>2 DEF TypeOK, TaskTypes, ReadTypes
    <2> QED BY <2>2, <2>3 DEF TypeOK
  <1>5. Pipe' = Pipe /\ Pipe \in Seq(Int)
    BY <1>1, <1>2, Types DEF Pipe
  <1>6. \A i \in 1..Len(Pipe) : Pipe[i] \in Int /\ Pipe[i] >= -closes
    BY <1>1, <1>5 DEF WriterOK
  <1>7. \A i \in 1..Len(Pipe) : Pipe[i] >= -closes' /\ Pipe[i] # -closes'
    BY <1>2, <1>3, <1>6
  <1>8. -closes' # 0 /\ call'.p = -closes' /\ call'.phase = "send" /\ ~IsClose(0) /\ -closes' >= -closes'
    BY <1>2, <1>3 DEF IsClose
  <1>9. WriterOK'
    <2>1. task' = "ended" => Pipe' = <<>>
      BY <1>1, <1>2, <1>5 DEF WriterOK
    <2>2. shut' => task' = "ended"
      BY <1>1, <1>2 DEF WriterOK
    <2> QED BY <1>5, <1>7, <1>8, <2>1, <2>2 DEF WriterOK
  <1>10. ~IsClose(Mine')
    BY <1>8 DEF Mine
  <1> QED BY <1>2, <1>4, <1>5, <1>9, <1>10, RoleStep

\* A call that ends or is dropped changes nothing on the way.
LEMMA AwaitStep ==
    ASSUME IInv, AwaitAck \/ CancelCall
    PROVE  IInv'
  <1>1. TypeOK /\ WriterOK
    BY DEF IInv
  <1>2. /\ call' = Quiet
        /\ UNCHANGED <<next, closes, commands, task, current, queued, acked, closed, shut,
                       readTask, held, packets, delivered, socket>>
    BY DEF AwaitAck, CancelCall, readerVars
  <1>3. TypeOK'
    <2>1. RoleTypes'
      BY <1>1, <1>2 DEF TypeOK, RoleTypes, Quiet
    <2>2. TaskTypes' /\ ReadTypes'
      BY <1>1, <1>2 DEF TypeOK, TaskTypes, ReadTypes
    <2> QED BY <2>1, <2>2 DEF TypeOK
  <1>4. Pipe' = Pipe
    BY <1>2 DEF Pipe
  <1>5. WriterOK' /\ ~IsClose(Mine')
    <2>1. call'.phase = "idle" /\ ~IsClose(0)
      BY <1>2 DEF Quiet, IsClose
    <2> QED BY <1>1, <1>2, <1>4, <2>1 DEF WriterOK, Mine
  <1> QED BY <1>2, <1>3, <1>4, <1>5, RoleStep

\* The command joins the queue behind all others, or finds the task gone.
LEMMA EnqueueStep ==
    ASSUME IInv, Enqueue
    PROVE  IInv'
  <1>1. TypeOK /\ WriterOK /\ ReaderOK /\ ClosedOK
    BY DEF IInv
  <1>2. CASE task = "ended" /\ call' = Quiet /\ UNCHANGED <<commands, queued>>
    <2>1. UNCHANGED <<next, closes, commands, task, current, queued, acked, closed, shut,
                      readTask, held, packets, delivered, socket>>
      BY <1>2 DEF Enqueue, readerVars
    <2>2. TypeOK'
      <3>1. RoleTypes'
        BY <1>1, <1>2, <2>1 DEF TypeOK, RoleTypes, Quiet
      <3>2. TaskTypes' /\ ReadTypes'
        BY <1>1, <2>1 DEF TypeOK, TaskTypes, ReadTypes
      <3> QED BY <3>1, <3>2 DEF TypeOK
    <2>3. Pipe' = Pipe
      BY <2>1 DEF Pipe
    <2>4. WriterOK' /\ ~IsClose(Mine')
      <3>1. call'.phase = "idle" /\ ~IsClose(0)
        BY <1>2 DEF Quiet, IsClose
      <3> QED BY <1>1, <2>1, <2>3, <3>1 DEF WriterOK, Mine
    <2> QED BY <2>1, <2>2, <2>3, <2>4, RoleStep
  <1>3. CASE /\ task # "ended"
             /\ call' = [call EXCEPT !.phase = "ack"]
             /\ commands' = SendCommand(call.p)
             /\ queued' = IF IsClose(call.p) THEN queued ELSE Append(queued, call.p)
    <2> DEFINE x == call.p
    <2>1. /\ UNCHANGED <<next, closes, task, current, acked, closed, shut,
                         readTask, held, packets, delivered, socket>>
          /\ call.phase = "send"
      BY <1>3 DEF Enqueue, readerVars
    <2>2. /\ x \in Int /\ x # 0 /\ x >= -closes /\ closes \in Nat
          /\ IsClose(x) => \A i \in 1..Len(Pipe) : Pipe[i] # x
          /\ \A i \in 1..Len(Pipe) : Pipe[i] >= -closes
      BY <1>1, <2>1 DEF TypeOK, RoleTypes, WriterOK
    <2>3. call'.phase = "ack" /\ call'.p = x /\ call' \in [p : Int, phase : {"idle", "send", "ack"}]
      BY <1>1, <1>3 DEF TypeOK, RoleTypes
    <2>4. /\ Pipe \in Seq(Int) /\ queued \in Seq(Int) /\ commands \in Seq(Int) /\ Len(queued) \in Nat
          /\ Flow \in Seq(Int) /\ Mine \in Int
      BY <1>1, Types
    <2>5. Pipe' = Append(Pipe, x) /\ Mine' = x
      <3> DEFINE front == IF task = "write" THEN <<current>> ELSE <<>>
      <3>1. front \in Seq(Int)
        BY <1>1 DEF TypeOK, TaskTypes
      <3>2. Pipe = front \o commands /\ Pipe' = front \o Append(commands, x)
        BY <1>3, <2>1 DEF Pipe, SendCommand
      <3> HIDE DEF front, x
      <3>3. Pipe' = Append(Pipe, x)
        BY <2>2, <2>4, <3>1, <3>2, Appended, ZenonT(30)
      <3> QED BY <2>3, <3>3 DEF Mine
    <2>6. Flow' = Flow
      BY <2>1 DEF Flow, Hand, Behind
    <2> HIDE DEF x
    <2>7. commands' \in Seq(Int)
      BY <1>3, <2>2, <2>4 DEF SendCommand, x
    <2>8. ~IsClose(x) => x \in Nat \ {0}
      BY <2>2 DEF IsClose
    <2>9. queued' \in Seq(Nat \ {0})
      BY <1>1, <1>3, <2>8 DEF TypeOK, TaskTypes, x
    <2>10. TypeOK'
      <3>1. RoleTypes'
        BY <1>1, <2>1, <2>3 DEF TypeOK, RoleTypes
      <3>2. TaskTypes'
        BY <1>1, <2>1, <2>7, <2>9 DEF TypeOK, TaskTypes
      <3>3. ReadTypes'
        BY <1>1, <2>1 DEF TypeOK, ReadTypes
      <3> QED BY <3>1, <3>2, <3>3 DEF TypeOK
    <2>11. /\ Len(Pipe') = Len(Pipe) + 1 /\ Len(Pipe) \in Nat
           /\ \A i \in 1..Len(Pipe) : Pipe'[i] = Pipe[i]
           /\ Pipe'[Len(Pipe) + 1] = x
      BY <2>2, <2>4, <2>5, OneMorePlace
    <2>12. WriterOK'
      <3>1. \A i \in 1..Len(Pipe') : i \in 1..Len(Pipe) \/ i = Len(Pipe) + 1
        BY <2>11
      <3>2. \A i \in 1..Len(Pipe') : Pipe'[i] >= -closes
        BY <2>2, <2>11, <3>1
      <3>3. ~shut /\ task' # "ended" /\ UNCHANGED <<shut, closes>>
        BY <1>1, <1>3, <2>1 DEF WriterOK
      <3>4. call'.p # 0 /\ call'.p >= -closes /\ call'.phase # "send"
        BY <2>2, <2>3
      <3> QED BY <3>2, <3>3, <3>4 DEF WriterOK
    <2>13. ReaderOK'
      BY <1>1, <2>1 DEF ReaderOK
    <2>14. PICK w \in 0..Len(queued) : Written(w)
      BY DEF IInv
    <2>15. w \in Nat /\ w <= Len(queued) /\ Match(Flow, queued, w) /\ Ahead(Pipe, queued, w, Mine)
      BY <1>3, <2>4, <2>14 DEF Written
    <2>16. /\ Len(queued') >= Len(queued) /\ Len(queued') \in Nat
           /\ \A i \in 1..Len(queued) : queued'[i] = queued[i]
           /\ Match(Flow, queued', w) /\ Ahead(Pipe', queued', w, x)
      <3>1. CASE IsClose(x)
        <4>1. queued' = queued
          BY <1>3, <3>1 DEF x
        <4>2. Ahead(Append(Pipe, x), queued, w, x)
          BY <2>2, <2>4, <2>15, <3>1, AheadClose
        <4> QED BY <2>4, <2>5, <2>15, <4>1, <4>2
      <3>2. CASE ~IsClose(x)
        <4>1. queued' = Append(queued, x)
          BY <1>3, <3>2 DEF x
        <4>2. x \in Nat
          BY <2>8, <3>2
        <4>3. Ahead(Append(Pipe, x), Append(queued, x), w, x)
          BY <2>4, <2>15, <4>2, AheadPacket
        <4>4. Match(Flow, Append(queued, x), w)
          BY <2>2, <2>4, <2>15, MatchQueued
        <4>5. /\ Len(queued') = Len(queued) + 1
              /\ \A i \in 1..Len(queued) : queued'[i] = queued[i]
          BY <2>2, <2>4, <4>1, OneMorePlace
        <4> QED BY <2>4, <2>5, <4>1, <4>3, <4>4, <4>5
      <3> QED BY <3>1, <3>2
    <2>17. ClosedOK'
      <3>1. closed' = closed /\ acked' = acked
        BY <2>1
      <3>2. \A k \in 1..closed : closed \in 0..Len(queued) => k \in 1..Len(queued)
        BY <2>4
      <3>3. closed \in 0..Len(queued) => closed \in 0..Len(queued')
        BY <2>4, <2>16
      <3> QED BY <1>1, <2>16, <3>1, <3>2, <3>3 DEF ClosedOK
    <2>18. Written(w)'
      <3>1. \A i \in 1..w : queued'[i] \in acked'
        <4>1. \A i \in 1..w : i \in 1..Len(queued) /\ queued[i] \in acked
          BY <2>4, <2>14, <2>15 DEF Written
        <4> QED BY <2>1, <2>16, <4>1
      <3>2. task # "ended" /\ readTask # "ended" /\ Clean(Flow) => Len(Flow) = w
        BY <2>14 DEF Written
      <3> QED BY <2>1, <2>5, <2>6, <2>16, <3>1, <3>2 DEF Written
    <2>19. w \in 0..Len(queued')
      BY <2>4, <2>15, <2>16
    <2> QED BY <2>10, <2>12, <2>13, <2>17, <2>18, <2>19 DEF IInv
  <1> QED BY <1>2, <1>3, ZenonT(30) DEF Enqueue

-----------------------------------------------------------------------------
(* The write task.                                                          *)

\* The task takes the first command in hand.
LEMMA RecvStep ==
    ASSUME IInv, TaskRecv
    PROVE  IInv'
  <1>1. TypeOK /\ WriterOK
    BY DEF IInv
  <1>2. /\ task = "recv" /\ commands # <<>>
        /\ task' = "write" /\ current' = Head(commands) /\ commands' = Tail(commands)
        /\ UNCHANGED <<next, closes, call, queued, acked, closed, shut,
                       readTask, held, packets, delivered, socket>>
    BY DEF TaskRecv, readerVars
  <1>3. commands \in Seq(Int)
    BY <1>1, Types
  <1>4. /\ Head(commands) \in Int /\ Tail(commands) \in Seq(Int)
        /\ commands = <<Head(commands)>> \o Tail(commands)
    BY <1>2, <1>3
  <1>5. Pipe' = Pipe
    <2>1. Pipe = <<>> \o commands /\ Pipe' = <<Head(commands)>> \o Tail(commands)
      BY <1>2 DEF Pipe
    <2>2. <<>> \o commands = commands
      BY <1>3
    <2> QED BY <1>4, <2>1, <2>2
  <1>6. TypeOK'
    <2>1. RoleTypes' /\ ReadTypes'
      BY <1>1, <1>2 DEF TypeOK, RoleTypes, ReadTypes
    <2>2. TaskTypes'
      BY <1>1, <1>2, <1>4 DEF TypeOK, TaskTypes
    <2> QED BY <2>1, <2>2 DEF TypeOK
  <1>7. WriterOK' /\ Mine' = Mine
    BY <1>1, <1>2, <1>5 DEF WriterOK, Mine
  <1>8. PICK w \in 0..Len(queued) : Written(w)
    BY DEF IInv
  <1>9. Flow' = Flow
    BY <1>2 DEF Flow, Hand, Behind
  <1>10. ReaderOK' /\ ClosedOK'
    BY <1>2 DEF IInv, ReaderOK, ClosedOK
  <1>11. Written(w)'
    BY <1>2, <1>5, <1>7, <1>8, <1>9 DEF Written
  <1>12. w \in 0..Len(queued')
    BY <1>2, <1>8
  <1> QED BY <1>6, <1>7, <1>10, <1>11, <1>12 DEF IInv

\* The write task ends with nothing more on its way than what reading it will show.
LEMMA TaskEnds ==
    ASSUME IInv, Stops, TypeOK', ReaderOK', ClosedOK',
           UNCHANGED <<closes, call, queued, acked>>,
           \A w \in 0..Len(queued) : Match(Flow, queued, w) => Match(Flow', queued, w)
    PROVE  IInv'
  <1>1. PICK w \in 0..Len(queued) : Written(w)
    BY DEF IInv
  <1>2. Pipe' = <<>>
    <2>1. <<>> \o <<>> = <<>>
      OBVIOUS
    <2> QED BY <2>1 DEF Stops, Pipe
  <1>3. WriterOK'
    <2>1. task' = "ended" /\ Len(<<>>) = 0
      BY DEF Stops
    <2>2. WriterOK /\ UNCHANGED <<closes, call>>
      BY DEF IInv
    <2> QED BY <1>2, <2>1, <2>2 DEF WriterOK
  <1>4. Written(w)'
    BY <1>1 DEF Written, Stops
  <1>5. w \in 0..Len(queued')
    BY <1>1
  <1> QED BY <1>3, <1>4, <1>5 DEF IInv

\* An ended task leaves the types as they are.
LEMMA StopTypes ==
    ASSUME IInv, Stops, socket' \in Seq(Nat), shut' \in BOOLEAN, closed' \in Int,
           UNCHANGED <<next, closes, call, queued, readTask, held, packets, delivered>>
    PROVE  TypeOK' /\ ReaderOK'
  <1>1. TypeOK /\ ReaderOK
    BY DEF IInv
  <1>2. RoleTypes'
    BY <1>1 DEF TypeOK, RoleTypes
  <1>3. <<>> \in Seq(Int)
    OBVIOUS
  <1>4. TaskTypes'
    BY <1>1, <1>3 DEF TypeOK, TaskTypes, Stops
  <1>5. ReadTypes'
    BY <1>1 DEF TypeOK, ReadTypes
  <1> QED BY <1>1, <1>2, <1>4, <1>5 DEF TypeOK, ReaderOK

\* A close that is answered was the last of the queue, and all packets before it are written.
LEMMA TaskCloseStep ==
    ASSUME IInv, TaskClose
    PROVE  IInv'
  <1>1. TypeOK /\ ClosedOK
    BY DEF IInv
  <1>2. /\ task = "write" /\ IsClose(current) /\ shut' = TRUE /\ Stops
        /\ closed' = IF call = [p |-> current, phase |-> "ack"] THEN Len(queued) ELSE closed
        /\ UNCHANGED <<next, closes, call, queued, acked, readTask, held, packets, delivered, socket>>
    BY DEF TaskClose, readerVars
  <1>3. socket \in Seq(Nat) /\ closed \in Int /\ current \in Int
    BY <1>1 DEF TypeOK, ReadTypes, TaskTypes
  <1>4. /\ Pipe \in Seq(Int) /\ queued \in Seq(Int) /\ commands \in Seq(Int)
        /\ Len(queued) \in Nat /\ Mine \in Int
    BY <1>1, Types
  <1>5. TypeOK' /\ ReaderOK'
    <2>1. closed' \in Int
      BY <1>2, <1>3, <1>4
    <2>2. socket' \in Seq(Nat) /\ shut' \in BOOLEAN
      BY <1>2, <1>3
    <2> QED BY <1>2, <2>1, <2>2, StopTypes
  <1>6. PICK w \in 0..Len(queued) : Written(w)
    BY DEF IInv
  <1>7. ClosedOK'
    <2>1. CASE call = [p |-> current, phase |-> "ack"]
      <3>1. closed' = Len(queued) /\ Mine = current
        BY <1>2, <2>1 DEF Mine
      <3>2. Ahead(Pipe, queued, w, Mine) /\ w \in Nat
        BY <1>2, <1>4, <1>6 DEF Written
      <3>3. Pipe = <<current>> \o commands
        BY <1>2 DEF Pipe
      <3>4. w = Len(queued)
        BY <1>2, <1>3, <1>4, <3>1, <3>2, <3>3, AheadEnds
      <3>5. \A k \in 1..Len(queued) : queued[k] \in acked
        BY <1>6, <3>4 DEF Written
      <3>6. Len(queued) \in 0..Len(queued)
        BY <1>4
      <3> QED BY <1>2, <3>1, <3>5, <3>6 DEF ClosedOK
    <2>2. CASE call # [p |-> current, phase |-> "ack"]
      <3>1. closed' = closed
        BY <1>2, <2>2
      <3> QED BY <1>1, <1>2, <3>1 DEF ClosedOK
    <2> QED BY <2>1, <2>2
  <1>8. Flow' = Flow
    BY <1>2 DEF Flow, Hand, Behind
  <1> QED BY <1>2, <1>5, <1>7, <1>8, TaskEnds

\* Nothing but an error may come to follow the flow.
LEMMA DropWriterStep ==
    ASSUME IInv, DropWriter
    PROVE  IInv'
  <1>1. TypeOK /\ ClosedOK
    BY DEF IInv
  <1>2. /\ Stops /\ shut' = TRUE /\ (socket' = socket \/ socket' = Append(socket, 0))
        /\ UNCHANGED <<next, closes, call, queued, acked, closed, readTask, held, packets, delivered>>
    BY DEF DropWriter, readerVars
  <1>3. socket \in Seq(Nat) /\ closed \in Int
    BY <1>1 DEF TypeOK, ReadTypes, TaskTypes
  <1>4. socket' \in Seq(Nat)
    BY <1>2, <1>3
  <1>5. TypeOK' /\ ReaderOK'
    <2>1. shut' \in BOOLEAN /\ closed' \in Int
      BY <1>2, <1>3
    <2> QED BY <1>2, <1>4, <2>1, StopTypes
  <1>6. ClosedOK'
    BY <1>1, <1>2 DEF ClosedOK
  <1>7. /\ Flow \in Seq(Int) /\ queued \in Seq(Int) /\ socket \in Seq(Int) /\ Hand \in Seq(Int)
        /\ delivered \in Seq(Int) /\ packets \in Seq(Int) /\ Len(queued) \in Nat
    BY <1>1, Types
  <1>8. Flow' = Flow \/ Flow' = Append(Flow, 0)
    <2>1. CASE Behind' = Behind
      BY <1>2, <2>1 DEF Flow, Hand
    <2>2. CASE readTask # "ended" /\ socket' = Append(socket, 0)
      <3>1. Behind = socket /\ Behind' = Append(socket, 0) /\ Hand' = Hand
        BY <1>2, <2>2 DEF Behind, Hand
      <3>2. delivered \o packets \in Seq(Int) /\ Hand \o socket \in Seq(Int)
        BY <1>7, Places, ZenonT(30)
      <3>3. 0 \in Int
        OBVIOUS
      <3>4. (delivered \o packets) \o (Hand \o Append(socket, 0))
              = Append((delivered \o packets) \o (Hand \o socket), 0)
        <4> DEFINE d == delivered \o packets
        <4>1. d \in Seq(Int) /\ Hand \in Seq(Int) /\ socket \in Seq(Int)
          BY <1>7, <3>2
        <4> HIDE DEF d
        <4>2. d \o (Hand \o Append(socket, 0)) = Append(d \o (Hand \o socket), 0)
          BY <3>3, <4>1, Longer, ZenonT(30)
        <4> QED BY <4>2, ZenonT(30) DEF d
      <3>5. Flow' = (delivered \o packets) \o (Hand \o Append(socket, 0))
        BY <1>2, <3>1 DEF Flow
      <3>6. Flow = (delivered \o packets) \o (Hand \o socket)
        BY <3>1 DEF Flow
      <3> QED BY <3>4, <3>5, <3>6, ZenonT(30)
    <2>3. Behind' = Behind \/ (readTask # "ended" /\ socket' = Append(socket, 0))
      BY <1>2 DEF Behind
    <2> QED BY <2>1, <2>2, <2>3
  <1>9. \A w \in 0..Len(queued) : Match(Flow, queued, w) => Match(Flow', queued, w)
    <2> SUFFICES ASSUME NEW w \in 0..Len(queued), Match(Flow, queued, w) PROVE Match(Flow', queued, w)
      OBVIOUS
    <2>1. CASE Flow' = Flow
      BY <2>1
    <2>2. CASE Flow' = Append(Flow, 0)
      <3>1. w \in Nat /\ <<0>> \in Seq(Int) /\ Len(<<0>>) > 0 /\ <<0>>[1] = 0
        BY <1>7
      <3>2. Append(Flow, 0) = Flow \o <<0>>
        BY <1>7, Appended
      <3>3. Match(Flow \o <<0>>, queued, w)
        BY <1>7, <3>1, MatchError, ZenonT(30)
      <3> QED BY <2>2, <3>2, <3>3, ZenonT(30)
    <2> QED BY <1>8, <2>1, <2>2
  <1> QED BY <1>2, <1>5, <1>6, <1>9, TaskEnds

\* The packet moves from the queue to the end of the socket, or the task ends.
LEMMA TaskPacketStep ==
    ASSUME IInv, TaskPacket
    PROVE  IInv'
  <1>1. TypeOK /\ WriterOK /\ ReaderOK /\ ClosedOK
    BY DEF IInv
  <1>2. /\ task = "write" /\ ~IsClose(current)
        /\ UNCHANGED <<next, closes, call, queued, closed, shut, readTask, held, packets, delivered>>
    BY DEF TaskPacket, readerVars
  <1>3. CASE Stops /\ UNCHANGED <<acked, socket>>
    <2>1. TypeOK' /\ ReaderOK'
      <3>1. socket' \in Seq(Nat) /\ shut' \in BOOLEAN /\ closed' \in Int
        BY <1>1, <1>2, <1>3 DEF TypeOK, ReadTypes, TaskTypes
      <3> QED BY <1>2, <1>3, <3>1, StopTypes
    <2>2. ClosedOK'
      BY <1>1, <1>2, <1>3 DEF ClosedOK
    <2>3. Flow' = Flow
      BY <1>2, <1>3 DEF Flow, Hand, Behind
    <2> QED BY <1>2, <1>3, <2>1, <2>2, <2>3, TaskEnds
  <1>4. CASE /\ socket' = Append(socket, current) /\ acked' = acked \cup {current}
             /\ task' = "recv" /\ current' = 0 /\ commands' = commands
    <2>1. /\ Flow \in Seq(Int) /\ queued \in Seq(Int) /\ socket \in Seq(Int) /\ Hand \in Seq(Int)
          /\ delivered \in Seq(Int) /\ packets \in Seq(Int) /\ commands \in Seq(Int)
          /\ Pipe \in Seq(Int) /\ Len(queued) \in Nat /\ Mine \in Int
      BY <1>1, Types
    <2>2. /\ current \in Int /\ socket \in Seq(Nat) /\ queued \in Seq(Nat \ {0})
      BY <1>1 DEF TypeOK, ReadTypes, TaskTypes
    <2>3. PICK w \in 0..Len(queued) : Written(w)
      BY DEF IInv
    <2>4. w \in Nat /\ Match(Flow, queued, w) /\ Ahead(Pipe, queued, w, Mine)
      BY <1>2, <2>1, <2>3 DEF Written
    <2>5. Pipe = <<current>> \o commands
      BY <1>2 DEF Pipe
    <2>6. Pipe' = commands
      <3>1. Pipe' = <<>> \o commands
        BY <1>4 DEF Pipe
      <3> QED BY <2>1, <3>1
    <2>7. Ahead(commands, queued, w + 1, Mine) /\ w + 1 <= Len(queued) /\ current = queued[w + 1]
      <3>1. Ahead(<<current>> \o commands, queued, w, Mine)
        BY <2>4, <2>5
      <3> QED BY <1>2, <2>1, <2>2, <2>4, <3>1, AheadWrites
    <2>8. w + 1 \in 1..Len(queued)
      BY <2>1, <2>4, <2>7
    <2>9. current \in Nat
      BY <2>2, <2>7, <2>8
    <2>10. TypeOK'
      <3>1. RoleTypes'
        BY <1>1, <1>2 DEF TypeOK, RoleTypes
      <3>2. TaskTypes'
        BY <1>1, <1>2, <1>4 DEF TypeOK, TaskTypes
      <3>3. Append(socket, current) \in Seq(Nat)
        BY <2>2, <2>9
      <3>4. ReadTypes'
        BY <1>1, <1>2, <1>4, <3>3 DEF TypeOK, ReadTypes
      <3> QED BY <3>1, <3>2, <3>4 DEF TypeOK
    <2>11. ReaderOK'
      BY <1>1, <1>2 DEF ReaderOK
    <2>12. ClosedOK'
      BY <1>1, <1>2, <1>4 DEF ClosedOK
    <2>13. WriterOK'
      <3>1. Len(<<current>>) = 1 /\ <<current>> \in Seq(Int)
        BY <2>2
      <3>2. /\ \A i \in 1..Len(commands) : 1 + i \in 1..Len(Pipe) /\ Pipe[1 + i] = commands[i]
        BY <2>1, <2>5, <3>1, Places
      <3>3. \A i \in 1..Len(commands) : commands[i] >= -closes
        BY <1>1, <3>2 DEF WriterOK
      <3>4. call.phase = "send" /\ IsClose(call.p) => \A i \in 1..Len(commands) : commands[i] # call.p
        BY <1>1, <3>2 DEF WriterOK
      <3>5. (call.phase # "idle" => call.p # 0 /\ call.p >= -closes) /\ ~shut
        BY <1>1, <1>2 DEF WriterOK
      <3>6. task' # "ended" /\ UNCHANGED <<closes, call, shut>>
        BY <1>2, <1>4
      <3> QED BY <2>6, <3>3, <3>4, <3>5, <3>6 DEF WriterOK
    <2>14. /\ Match(Flow', queued, w + 1)
           /\ readTask # "ended" /\ Clean(Flow') => Len(Flow') = w + 1
      <3>1. CASE readTask = "ended"
        <4>1. Flow' = Flow
          BY <1>2, <3>1 DEF Flow, Hand, Behind
        <4>2. Match(Flow, queued, w + 1)
          <5>1. \A i \in 1..Len(Flow) : i <= w => i <= w + 1
            BY <2>1, <2>4
          <5> QED BY <2>4, <5>1 DEF Match
        <4> QED BY <3>1, <4>1, <4>2
      <3>2. CASE readTask # "ended"
        <4>1. Flow' = Append(Flow, current)
          <5>1. Behind = socket /\ Behind' = Append(socket, current) /\ Hand' = Hand
            BY <1>2, <1>4, <3>2 DEF Behind, Hand
          <5>2. delivered \o packets \in Seq(Int) /\ Hand \o socket \in Seq(Int)
            BY <2>1, Places, ZenonT(30)
          <5>3. (delivered \o packets) \o (Hand \o Append(socket, current))
                  = Append((delivered \o packets) \o (Hand \o socket), current)
            <6> DEFINE d == delivered \o packets
            <6>1. d \in Seq(Int) /\ Hand \in Seq(Int) /\ socket \in Seq(Int) /\ current \in Int
              BY <2>1, <2>2, <5>2
            <6> HIDE DEF d
            <6>2. d \o (Hand \o Append(socket, current)) = Append(d \o (Hand \o socket), current)
              BY <6>1, Longer, ZenonT(30)
            <6> QED BY <6>2 DEF d
          <5>4. Flow' = (delivered \o packets) \o (Hand \o Append(socket, current))
            BY <1>2, <5>1 DEF Flow
          <5>5. Flow = (delivered \o packets) \o (Hand \o socket)
            BY <5>1 DEF Flow
          <5> QED BY <5>3, <5>4, <5>5, ZenonT(30)
        <4>2. Clean(Flow) => Len(Flow) = w
          BY <1>2, <2>3, <3>2 DEF Written
        <4>3. /\ Match(Append(Flow, current), queued, w + 1)
              /\ Clean(Append(Flow, current)) => Len(Append(Flow, current)) = w + 1
          BY <2>1, <2>2, <2>4, <2>7, <4>2, MatchAppend
        <4> QED BY <4>1, <4>3
      <3> QED BY <3>1, <3>2
    <2>15. \A i \in 1..(w + 1) : queued[i] \in acked'
      <3>1. \A i \in 1..(w + 1) : i \in 1..w \/ i = w + 1
        BY <2>4
      <3>2. \A i \in 1..w : queued[i] \in acked
        BY <2>3 DEF Written
      <3> QED BY <1>4, <2>7, <3>1, <3>2
    <2>16. Mine' = Mine
      BY <1>2 DEF Mine
    <2>17. Written(w + 1)'
      BY <1>2, <2>6, <2>7, <2>14, <2>15, <2>16 DEF Written
    <2>18. w + 1 \in 0..Len(queued')
      BY <1>2, <2>8
    <2> QED BY <2>10, <2>11, <2>12, <2>13, <2>17, <2>18 DEF IInv
  <1> QED BY <1>3, <1>4, ZenonT(30) DEF TaskPacket
-----------------------------------------------------------------------------
(* The reading side.                                                        *)

\* A step of the reading side leaves the writing side as it is, and what follows it in
\* the flow is no more than what was there.
LEMMA ReadStep ==
    ASSUME IInv, ReadTypes', ReaderOK',
           UNCHANGED <<next, closes, call, commands, task, current, queued, acked, closed, shut>>,
           \A w \in 0..Len(queued) :
               Match(Flow, queued, w) =>
                   /\ Match(Flow', queued, w)
                   /\ readTask' # "ended" /\ Clean(Flow')
                        => readTask # "ended" /\ Clean(Flow) /\ Len(Flow') = Len(Flow)
    PROVE  IInv'
  <1>1. TypeOK /\ WriterOK /\ ClosedOK
    BY DEF IInv
  <1>2. TypeOK'
    BY <1>1 DEF TypeOK, RoleTypes, TaskTypes
  <1>3. Pipe' = Pipe /\ Mine' = Mine
    BY DEF Pipe, Mine
  <1>4. WriterOK'
    BY <1>1, <1>3 DEF WriterOK
  <1>5. ClosedOK'
    BY <1>1 DEF ClosedOK
  <1>6. PICK w \in 0..Len(queued) : Written(w)
    BY DEF IInv
  <1>7. Written(w)'
    BY <1>3, <1>6 DEF Written
  <1>8. w \in 0..Len(queued')
    BY <1>6
  <1> QED BY <1>2, <1>4, <1>5, <1>7, <1>8 DEF IInv

\* The task takes the next packet of the socket in hand, or an error.
LEMMA TaskReadStep ==
    ASSUME IInv, TaskRead
    PROVE  IInv'
  <1> DEFINE d == delivered \o packets
  <1>1. TypeOK /\ ReaderOK
    BY DEF IInv
  <1>2. /\ readTask = "read" /\ readTask' = "send"
        /\ UNCHANGED <<next, closes, call, commands, task, current, queued, acked, closed, shut,
                       packets, delivered>>
    BY DEF TaskRead, writerVars
  <1>3. /\ queued \in Seq(Int) /\ socket \in Seq(Int) /\ d \in Seq(Int) /\ Len(queued) \in Nat
    BY <1>1, Types, Places, ZenonT(30)
  <1>4. socket \in Seq(Nat)
    BY <1>1 DEF TypeOK, ReadTypes
  <1>5. Flow = d \o socket
    <2>1. Flow = d \o (<<>> \o socket)
      BY <1>2 DEF Flow, Hand, Behind
    <2>2. <<>> \o socket = socket
      BY <1>3
    <2> QED BY <2>1, <2>2
  <1>6. Flow' = d \o (<<held'>> \o socket')
    BY <1>2 DEF Flow, Hand, Behind
  <1> HIDE DEF d
  <1>7. CASE socket # <<>> /\ socket' = Tail(socket) /\ held' = Head(socket)
    <2>1. Head(socket) \in Nat /\ Tail(socket) \in Seq(Nat)
      BY <1>4, <1>7
    <2>2. ReadTypes'
      BY <1>1, <1>2, <1>7, <2>1 DEF TypeOK, ReadTypes
    <2>3. ReaderOK'
      <3>1. held' >= 0
        BY <1>7, <2>1
      <3> QED BY <1>1, <1>2, <3>1 DEF ReaderOK
    <2>4. Flow' = Flow
      <3>1. <<Head(socket)>> \o Tail(socket) = socket
        BY <1>3, <1>7, MovesOn
      <3> QED BY <1>5, <1>6, <1>7, <3>1
    <2>5. readTask # "ended"
      BY <1>2
    <2> QED BY <1>2, <2>2, <2>3, <2>4, <2>5, ReadStep
  <1>8. CASE held' = 0 /\ ((socket' = Tail(socket) /\ socket # <<>>) \/ socket' = socket)
    <2>1. socket' \in Seq(Nat) /\ socket' \in Seq(Int)
      <3>1. socket # <<>> => Tail(socket) \in Seq(Nat)
        BY <1>4
      <3>2. socket' \in Seq(Nat)
        BY <1>4, <1>8, <3>1
      <3> QED BY <3>2
    <2>2. ReadTypes'
      BY <1>1, <1>2, <1>8, <2>1 DEF TypeOK, ReadTypes
    <2>3. ReaderOK'
      BY <1>1, <1>2, <1>8 DEF ReaderOK
    <2> DEFINE g == <<0>> \o socket'
    <2>4. g \in Seq(Int) /\ Len(g) > 0 /\ g[1] = 0
      BY <2>1
    <2>5. Flow' = d \o g
      BY <1>6, <1>8
    <2> HIDE DEF g
    <2>6. ASSUME NEW w \in 0..Len(queued), Match(Flow, queued, w)
          PROVE  Match(Flow', queued, w) /\ ~Clean(Flow')
      <3>1. w \in Nat
        BY <1>3
      <3>2. Match(d, queued, w)
        BY <1>3, <1>5, <2>6, <3>1, MatchPrefix
      <3>3. Match(d \o g, queued, w) /\ ~Clean(d \o g)
        BY <1>3, <2>4, <3>1, <3>2, MatchError
      <3> QED BY <2>5, <3>3
    <2> QED BY <1>2, <2>2, <2>3, <2>6, ReadStep
  <1>9. \/ socket # <<>> /\ socket' = Tail(socket) /\ held' = Head(socket)
        \/ held' = 0 /\ ((socket' = Tail(socket) /\ socket # <<>>) \/ socket' = socket)
    BY DEF TaskRead
  <1> QED BY <1>7, <1>8, <1>9

\* The result in hand joins the channel; nothing follows an error.
LEMMA TaskSendStep ==
    ASSUME IInv, TaskSend
    PROVE  IInv'
  <1>1. TypeOK /\ ReaderOK
    BY DEF IInv
  <1>2. /\ readTask = "send" /\ packets' = Append(packets, held) /\ held' = -1
        /\ readTask' = IF held = 0 THEN "ended" ELSE "read"
        /\ UNCHANGED <<next, closes, call, commands, task, current, queued, acked, closed, shut,
                       delivered, socket>>
    BY DEF TaskSend, writerVars
  <1>3. /\ delivered \in Seq(Int) /\ packets \in Seq(Int) /\ socket \in Seq(Int)
        /\ queued \in Seq(Int) /\ Len(queued) \in Nat
    BY <1>1, Types
  <1>4. held \in Nat /\ packets \in Seq(Nat)
    BY <1>1, <1>2 DEF TypeOK, ReadTypes, ReaderOK
  <1>5. ReadTypes'
    <2>1. Append(packets, held) \in Seq(Nat) /\ -1 \in Int
      BY <1>4
    <2> QED BY <1>1, <1>2, <2>1 DEF TypeOK, ReadTypes
  <1>6. ReaderOK'
    <2>1. \A j \in 1..Len(packets) : packets[j] # 0
      BY <1>1, <1>2 DEF ReaderOK
    <2>2. /\ Len(packets') = Len(packets) + 1 /\ Len(packets) \in Nat
          /\ \A j \in 1..Len(packets) : packets'[j] = packets[j]
          /\ packets'[Len(packets) + 1] = held
      <3>1. held \in Int
        BY <1>4
      <3> QED BY <1>2, <1>3, <3>1, OneMorePlace
    <2>3. \A j \in 1..Len(packets') : j \in 1..Len(packets) \/ j = Len(packets')
      BY <2>2
    <2>4. \A j \in 1..Len(packets') : packets'[j] = 0 => j = Len(packets') /\ held = 0
      BY <2>1, <2>2, <2>3
    <2>5. readTask' # "send" /\ (held = 0 => readTask' = "ended")
      BY <1>2
    <2> QED BY <2>4, <2>5 DEF ReaderOK
  <1>7. Flow = (delivered \o packets) \o (<<held>> \o socket)
    BY <1>2 DEF Flow, Hand, Behind
  <1>8. Flow' = (delivered \o Append(packets, held)) \o (<<>> \o (IF held = 0 THEN <<>> ELSE socket))
    BY <1>2, ZenonT(30) DEF Flow, Hand, Behind
  <1>9. /\ Flow = (delivered \o Append(packets, held)) \o socket
        /\ delivered \o Append(packets, held) \in Seq(Int)
    <2>1. delivered \in Seq(Int) /\ packets \in Seq(Int) /\ socket \in Seq(Int) /\ held \in Nat
      BY <1>3, <1>4
    <2>2. /\ (delivered \o packets) \o (<<held>> \o socket)
               = (delivered \o Append(packets, held)) \o socket
          /\ delivered \o Append(packets, held) \in Seq(Int)
      BY <2>1, SentOn, ZenonT(30)
    <2> QED BY <1>7, <2>2, ZenonT(30)
  <1>10. CASE held # 0
    <2>1. Flow' = Flow
      <3>1. <<>> \o socket = socket
        BY <1>3
      <3> QED BY <1>8, <1>9, <1>10, <3>1
    <2>2. readTask # "ended"
      BY <1>2
    <2> QED BY <1>2, <1>5, <1>6, <2>1, <2>2, ReadStep
  <1>11. CASE held = 0
    <2>1. Flow' = delivered \o Append(packets, held)
      <3> DEFINE e == delivered \o Append(packets, held)
      <3>1. Flow' = e \o (<<>> \o <<>>) /\ e \in Seq(Int)
        BY <1>8, <1>9, <1>11
      <3> HIDE DEF e
      <3>2. Flow' = e
        BY <3>1
      <3> QED BY <3>2 DEF e
    <2>2. readTask' = "ended"
      BY <1>2, <1>11
    <2>3. ASSUME NEW w \in 0..Len(queued), Match(Flow, queued, w)
          PROVE  Match(Flow', queued, w)
      <3> DEFINE e == delivered \o Append(packets, held)
      <3>1. w \in Nat /\ e \in Seq(Int) /\ Match(e \o socket, queued, w)
        BY <1>3, <1>9, <2>3
      <3>2. socket \in Seq(Int) /\ queued \in Seq(Int)
        BY <1>3
      <3> HIDE DEF e
      <3>3. Match(e, queued, w)
        BY <3>1, <3>2, MatchPrefix
      <3> QED BY <2>1, <3>3 DEF e
    <2> QED BY <1>2, <1>5, <1>6, <2>2, <2>3, ReadStep
  <1> QED BY <1>10, <1>11

\* The role takes the next packet of the channel, or its error.
LEMMA ReadPacketStep ==
    ASSUME IInv, read_packet
    PROVE  IInv'
  <1> DEFINE rest == Hand \o Behind
  <1>1. TypeOK /\ ReaderOK
    BY DEF IInv
  <1>2. UNCHANGED <<next, closes, call, commands, task, current, queued, acked, closed, shut,
                    readTask, held, socket>>
    BY DEF read_packet, writerVars
  <1>3. /\ delivered \in Seq(Int) /\ packets \in Seq(Int) /\ queued \in Seq(Int) /\ Len(queued) \in Nat
        /\ Hand \in Seq(Int) /\ Behind \in Seq(Int)
    BY <1>1, Types
  <1>4. packets \in Seq(Nat) /\ delivered \in Seq(Nat \ {0})
    BY <1>1 DEF TypeOK, ReadTypes
  <1>5. rest \in Seq(Int) /\ rest' = rest
    BY <1>2, <1>3, Places, ZenonT(30) DEF Hand, Behind
  <1>6. Flow = (delivered \o packets) \o rest
    BY DEF Flow
  <1>7. Flow' = (delivered' \o packets') \o rest
    BY <1>5 DEF Flow
  <1>8. CASE UNCHANGED <<packets, delivered>>
    <2>1. ReadTypes' /\ ReaderOK'
      BY <1>1, <1>2, <1>8 DEF TypeOK, ReadTypes, ReaderOK
    <2>2. Flow' = Flow
      BY <1>6, <1>7, <1>8
    <2> QED BY <1>2, <2>1, <2>2, ReadStep
  <1>9. CASE packets # <<>> /\ packets' = Tail(packets)
    <2>1. /\ Head(packets) = packets[1] /\ Head(packets) \in Nat /\ Tail(packets) \in Seq(Nat)
          /\ Len(packets) \in Nat /\ Len(packets) > 0 /\ Len(packets') = Len(packets) - 1
          /\ \A j \in 1..Len(packets') : j + 1 \in 1..Len(packets) /\ packets'[j] = packets[j + 1]
      BY <1>4, <1>9
    <2>2. ReaderOK'
      <3>1. \A j \in 1..Len(packets) : packets[j] = 0 => j = Len(packets) /\ readTask = "ended"
        BY <1>1 DEF ReaderOK
      <3>2. \A j \in 1..Len(packets') : packets'[j] = 0 => j + 1 = Len(packets) /\ readTask = "ended"
        BY <2>1, <3>1
      <3>3. \A j \in 1..Len(packets') : packets'[j] = 0 => j = Len(packets') /\ readTask = "ended"
        BY <2>1, <3>2
      <3> QED BY <1>1, <1>2, <3>3 DEF ReaderOK
    <2>3. CASE Head(packets) # 0 /\ delivered' = Append(delivered, Head(packets))
      <3>1. ReadTypes'
        <4>1. Append(delivered, Head(packets)) \in Seq(Nat \ {0})
          BY <1>4, <2>1, <2>3
        <4> QED BY <1>1, <1>2, <1>9, <2>1, <2>3, <4>1 DEF TypeOK, ReadTypes
      <3>2. Append(delivered, Head(packets)) \o Tail(packets) = delivered \o packets
        BY <1>3, <1>9, MovesOn, ZenonT(30)
      <3>3. Flow' = Flow
        BY <1>6, <1>7, <1>9, <2>3, <3>2, ZenonT(30)
      <3> QED BY <1>2, <2>2, <3>1, <3>3, ReadStep
    <2>4. CASE Head(packets) = 0 /\ delivered' = delivered
      <3>1. ReadTypes'
        BY <1>1, <1>2, <1>9, <2>1, <2>4 DEF TypeOK, ReadTypes
      <3>2. Len(packets) = 1 /\ readTask = "ended"
        <4>1. 1 \in 1..Len(packets)
          BY <2>1
        <4> QED BY <1>1, <2>1, <2>4, <4>1 DEF ReaderOK
      <3>3. packets' = <<>>
        BY <1>4, <1>9, <2>1, <3>2
      <3>4. rest = <<>>
        <4>1. <<>> \o <<>> = <<>>
          OBVIOUS
        <4> QED BY <3>2, <4>1 DEF Hand, Behind
      <3>5. Flow' = delivered
        <4>1. Flow' = (delivered \o <<>>) \o <<>>
          BY <1>7, <2>4, <3>3, <3>4
        <4> QED BY <1>3, <4>1
      <3>6. ASSUME NEW w \in 0..Len(queued), Match(Flow, queued, w)
            PROVE  Match(Flow', queued, w)
        <4> HIDE DEF rest
        <4>1. w \in Nat /\ delivered \o packets \in Seq(Int)
          BY <1>3
        <4>2. Match(delivered \o packets, queued, w)
          BY <1>3, <1>5, <1>6, <3>6, <4>1, MatchPrefix, ZenonT(30)
        <4>3. Match(delivered, queued, w)
          BY <1>3, <4>1, <4>2, MatchPrefix
        <4> QED BY <3>5, <4>3
      <3>7. readTask' = "ended"
        BY <1>2, <3>2
      <3> QED BY <1>2, <2>2, <3>1, <3>6, <3>7, ReadStep
    <2> QED BY <1>9, <2>3, <2>4 DEF read_packet
  <1> QED BY <1>8, <1>9 DEF read_packet

\* What was on its way to a dropped reader is lost.
LEMMA DropReaderStep ==
    ASSUME IInv, DropReader
    PROVE  IInv'
  <1>1. TypeOK /\ ReaderOK
    BY DEF IInv
  <1>2. /\ readTask' = "ended" /\ held' = -1 /\ packets' = <<>> /\ socket' = <<>>
        /\ UNCHANGED <<next, closes, call, commands, task, current, queued, acked, closed, shut,
                       delivered>>
    BY DEF DropReader, writerVars
  <1>3. /\ delivered \in Seq(Int) /\ packets \in Seq(Int) /\ queued \in Seq(Int) /\ Len(queued) \in Nat
        /\ Hand \in Seq(Int) /\ Behind \in Seq(Int)
    BY <1>1, Types
  <1>4. <<>> \in Seq(Nat) /\ -1 \in Int /\ Len(<<>>) = 0 /\ <<>> \o <<>> = <<>>
    OBVIOUS
  <1>5. ReadTypes'
    BY <1>1, <1>2, <1>4 DEF TypeOK, ReadTypes
  <1>6. ReaderOK'
    BY <1>2, <1>4 DEF ReaderOK
  <1>7. Flow' = delivered
    <2>1. Flow' = (delivered \o <<>>) \o (<<>> \o <<>>)
      BY <1>2 DEF Flow, Hand, Behind
    <2> QED BY <1>3, <2>1
  <1>8. ASSUME NEW w \in 0..Len(queued), Match(Flow, queued, w)
        PROVE  Match(Flow', queued, w)
    <2> DEFINE rest == Hand \o Behind
    <2>1. w \in Nat /\ delivered \o packets \in Seq(Int) /\ rest \in Seq(Int)
      BY <1>3
    <2>2. Match((delivered \o packets) \o rest, queued, w)
      BY <1>8 DEF Flow
    <2> HIDE DEF rest
    <2>3. Match(delivered \o packets, queued, w)
      BY <1>3, <2>1, <2>2, MatchPrefix, ZenonT(30)
    <2>4. Match(delivered, queued, w)
      BY <1>3, <2>1, <2>3, MatchPrefix
    <2> QED BY <1>7, <2>4
  <1> QED BY <1>2, <1>5, <1>6, <1>8, ReadStep
-----------------------------------------------------------------------------
\* The write queue, its task, the socket, the read task and its channel keep this.
THEOREM CarrierIsInductive == Spec => []IInv
  <1>1. IInv /\ [Next]_vars => IInv'
    <2> SUFFICES ASSUME IInv, [Next]_vars PROVE IInv'
      OBVIOUS
    <2>1. CASE UNCHANGED vars
      <3>1. UNCHANGED <<next, closes, call, commands, task, current, queued, acked, closed,
                        readTask, held, packets, delivered, socket, shut>>
        BY <2>1 DEF vars, writerVars, readerVars
      <3> QED BY <3>1, ZenonT(30) DEF IInv, TypeOK, RoleTypes, TaskTypes, ReadTypes, WriterOK, ReaderOK, ClosedOK,
                          Written, Flow, Hand, Behind, Pipe, Mine
    <2> QED BY <2>1, WriteStep, CloseStep, EnqueueStep, AwaitStep, RecvStep, TaskPacketStep,
               TaskCloseStep, DropWriterStep, TaskReadStep, TaskSendStep, ReadPacketStep,
               DropReaderStep DEF Next
  <1> QED BY <1>1, InitIInv, PTL DEF Spec

\* The reading role gets the packets in the order in which write_packet queued them, none
\* twice and none left out, whatever the capacity of the channels and however many calls
\* are dropped at their await.
THEOREM PacketsComeInOrder == Spec => []IpcInOrder
  <1>1. IInv => IpcInOrder
    <2> SUFFICES ASSUME IInv PROVE IpcInOrder
      OBVIOUS
    <2>1. TypeOK
      BY DEF IInv
    <2>2. /\ delivered \in Seq(Int) /\ packets \in Seq(Int) /\ queued \in Seq(Int) /\ Len(queued) \in Nat
          /\ Hand \in Seq(Int) /\ Behind \in Seq(Int)
      BY <2>1, Types
    <2>3. PICK w \in 0..Len(queued) : Written(w)
      BY DEF IInv
    <2>4. Match(delivered, queued, w)
      <3> DEFINE rest == Hand \o Behind
      <3>1. w \in Nat /\ delivered \o packets \in Seq(Int) /\ rest \in Seq(Int)
        BY <2>2
      <3>2. Match((delivered \o packets) \o rest, queued, w)
        BY <2>3 DEF Flow, Written
      <3> HIDE DEF rest
      <3>3. Match(delivered \o packets, queued, w)
        BY <2>2, <3>1, <3>2, MatchPrefix, ZenonT(30)
      <3> QED BY <2>2, <3>1, <3>3, MatchPrefix
    <2>5. \A i \in 1..Len(delivered) : delivered[i] # 0
      BY <2>1 DEF TypeOK, ReadTypes
    <2>6. \A i \in 1..Len(delivered) : i <= Len(queued) /\ delivered[i] = queued[i]
      <3>1. \A i \in 1..Len(delivered) : \A k \in 1..i : k \in 1..Len(delivered)
        BY <2>2
      <3>2. \A i \in 1..Len(delivered) : i <= w /\ delivered[i] = queued[i]
        BY <2>4, <2>5, <3>1 DEF Match
      <3>3. Len(queued) \in Nat /\ w \in 0..Len(queued)
        BY <2>2, <2>3
      <3> HIDE DEF IInv
      <3>4. \A i \in 1..Len(delivered) : i \in Int
        OBVIOUS
      <3> QED BY <3>2, <3>3, <3>4
    <2>7. Len(delivered) \in Nat /\ Len(delivered) <= Len(queued)
      BY <2>2, <2>6
    <2>8. delivered = SubSeq(queued, 1, Len(delivered))
      BY <2>2, <2>6, <2>7
    <2> QED BY <2>7, <2>8 DEF IpcInOrder
  <1> QED BY <1>1, CarrierIsInductive, PTL

\* A close that returned without an error comes after every packet queued before it.
THEOREM NothingFollowsAClose == Spec => []CloseComesLast
  <1>1. IInv => CloseComesLast
    BY DEF IInv, ClosedOK, CloseComesLast
  <1> QED BY <1>1, CarrierIsInductive, PTL

=============================================================================
