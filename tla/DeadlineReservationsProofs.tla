--------------------- MODULE DeadlineReservationsProofs ---------------------
(***************************************************************************)
(* Proofs about DeadlineReservations: the two maps of a table mirror each  *)
(* other and stay within the limit of their end, an expired reservation is *)
(* final, no submission is written twice, and every deadline reaches its   *)
(* operation and every submission is taken unless a reservation was        *)
(* refused or dropped.  First the inductive invariant and lemmas about the *)
(* tables and the channel.                                                 *)
(***************************************************************************)
EXTENDS DeadlineReservations, FiniteSetTheorems, TLAPS

\* The provers each step is tried with in turn, and the time they have.
USE SMTT(30), ZenonT(20), Z3T(30)

\* A packet of the type that names the operation and the frame is under way.
UnderWay(ty, o, f) ==
    \E i \in 1..Len(toServer) :
        toServer[i].type = ty /\ toServer[i].operation = o /\ toServer[i].frame = f

HeldAt(t, o, f) == o \in Held(t) /\ t.byOperation[o].frame = f

\* The client has submitted the operation in the frame, and the server has
\* registered it or will.
Sent(o, f) == UnderWay("FRAME_SUBMIT", o, f) \/ registered[o] = f

\* The client has bound the operation to the frame: by a reservation or by a
\* submission.
Bound(o, f) == HeldAt(table["client"], o, f) \/ Sent(o, f)

\* A reservation at the client is for an operation that was never submitted,
\* and for a frame that was never submitted either.
ReservedIsFresh ==
    \A o \in Operations, f \in Frames :
        HeldAt(table["client"], o, f) => o \notin seen /\ \A p \in Operations : ~Sent(p, f)

\* What was submitted is in seen_operation_ids and below next_frame_id.
SubmittedIsOld ==
    \A o \in Operations, f \in Frames : Sent(o, f) => o \in seen /\ f < nextFrame

\* An operation the server has not registered has no deadline there.
NoDeadlineYet == \A o \in Operations : registered[o] = None => deadline[o] = None

\* Nothing has gone wrong: no reservation refused, dropped or expired.
Healthy == spoiled = {} /\ ~Expired(table["server"], clock["server"])

\* While nothing has gone wrong, whatever names an operation and a frame
\* together names a pair that the client has bound.
PairsAreBound ==
    Healthy => \A o \in Operations, f \in Frames :
        /\ HeldAt(table["server"], o, f) => Bound(o, f)
        /\ UnderWay("DEADLINE", o, f) => Bound(o, f)
        /\ submitted[o] = f => Sent(o, f)

\* The deadline the server has for the operation.
ServerDeadline(o) ==
    IF registered[o] # None THEN deadline[o]
    ELSE IF o \in Held(table["server"]) THEN table["server"].byOperation[o].deadline
    ELSE None

DeadlineAt(i, o) == toServer[i].type = "DEADLINE" /\ toServer[i].operation = o

\* The last deadline under way for an operation is the promised one, and if
\* none is under way the server has the promised one.
PromiseIsKept ==
    \A o \in Operations \ spoiled :
        /\ \A i \in 1..Len(toServer) :
             DeadlineAt(i, o) /\ (\A j \in 1..Len(toServer) : j > i => ~DeadlineAt(j, o))
                 => toServer[i].deadline = promised[o]
        /\ (\A i \in 1..Len(toServer) : ~DeadlineAt(i, o)) => ServerDeadline(o) = promised[o]

IInv ==
    /\ TypeOK
    /\ MapsMirror
    /\ ReservedIsFresh
    /\ SubmittedIsOld
    /\ NoDuplicateSubmission
    /\ NoDeadlineYet
    /\ PairsAreBound
    /\ PromiseIsKept

-----------------------------------------------------------------------------
(***************************************************************************)
(* Tables.                                                                 *)
(***************************************************************************)

\* A frame id is not the mark of an absent one.
LEMMA FrameIsSome == \A f \in Frames : f # None
  BY ValuesAssumption DEF Frames

\* What reserve inserts.
LEMMA ReservedFacts ==
    ASSUME NEW t \in Tables, NEW f \in Frames, NEW o \in Operations, NEW d \in Instants
    PROVE  /\ Reserved(t, f, o, d) \in Tables
           /\ Held(Reserved(t, f, o, d)) = Held(t) \cup {o}
           /\ Reserved(t, f, o, d).byOperation[o] = [frame |-> f, deadline |-> d]
           /\ \A p \in Operations \ {o} :
                Reserved(t, f, o, d).byOperation[p] = t.byOperation[p]
           /\ Reserved(t, f, o, d).byFrame[f] = o
           /\ \A g \in Frames \ {f} : Reserved(t, f, o, d).byFrame[g] = t.byFrame[g]
  <1> DEFINE r == [frame |-> f, deadline |-> d]
  <1>1. r \in Reservations /\ r # None
    BY ValuesAssumption DEF Reservations, Frames
  <1> HIDE DEF r
  <1>2. /\ t.byOperation \in [Operations -> Reservations \cup {None}]
        /\ t.byFrame \in [Frames -> Operations \cup {None}]
    BY DEF Tables
  <1>3. Reserved(t, f, o, d) =
          [byOperation |-> [t.byOperation EXCEPT ![o] = r], byFrame |-> [t.byFrame EXCEPT ![f] = o]]
    BY DEF Reserved, r
  <1>4. Reserved(t, f, o, d) \in Tables
    BY <1>1, <1>2, <1>3 DEF Tables
  <1>5. /\ Reserved(t, f, o, d).byOperation[o] = r
        /\ \A p \in Operations \ {o} :
             Reserved(t, f, o, d).byOperation[p] = t.byOperation[p]
        /\ Reserved(t, f, o, d).byFrame[f] = o
        /\ \A g \in Frames \ {f} : Reserved(t, f, o, d).byFrame[g] = t.byFrame[g]
    BY <1>2, <1>3
  <1>6. Held(Reserved(t, f, o, d)) = Held(t) \cup {o}
    BY <1>1, <1>5 DEF Held
  <1> QED
    BY <1>4, <1>5, <1>6 DEF r

\* What remove_operation removes.
LEMMA RemoveFacts ==
    ASSUME NEW t \in Tables, NEW o \in Operations
    PROVE  /\ RemoveOperation(t, o) \in Tables
           /\ Held(RemoveOperation(t, o)) = Held(t) \ {o}
           /\ \A p \in Operations \ {o} :
                RemoveOperation(t, o).byOperation[p] = t.byOperation[p]
           /\ \A g \in Frames : RemoveOperation(t, o).byFrame[g] =
                IF o \in Held(t) /\ g = t.byOperation[o].frame THEN None ELSE t.byFrame[g]
  <1>1. /\ t.byOperation \in [Operations -> Reservations \cup {None}]
        /\ t.byFrame \in [Frames -> Operations \cup {None}]
    BY DEF Tables
  <1> DEFINE b == [g \in Frames |->
                     IF o \in Held(t) /\ g = t.byOperation[o].frame THEN None ELSE t.byFrame[g]]
  <1>2. b \in [Frames -> Operations \cup {None}]
    BY <1>1
  <1>3. \A g \in Frames :
          b[g] = IF o \in Held(t) /\ g = t.byOperation[o].frame THEN None ELSE t.byFrame[g]
    OBVIOUS
  <1>4. RemoveOperation(t, o) = [byOperation |-> [t.byOperation EXCEPT ![o] = None], byFrame |-> b]
    BY DEF RemoveOperation
  <1> HIDE DEF b
  <1>5. RemoveOperation(t, o) \in Tables
    BY <1>1, <1>2, <1>4 DEF Tables
  <1>6. /\ RemoveOperation(t, o).byOperation[o] = None
        /\ \A p \in Operations \ {o} :
             RemoveOperation(t, o).byOperation[p] = t.byOperation[p]
    BY <1>1, <1>4
  <1>7. Held(RemoveOperation(t, o)) = Held(t) \ {o}
    BY <1>6 DEF Held
  <1> QED
    BY <1>3, <1>4, <1>5, <1>6, <1>7

\* A reservation keeps the maps inverse to each other.
LEMMA ReservedMirror ==
    ASSUME NEW t \in Tables, NEW f \in Frames, NEW o \in Operations, NEW d \in Instants,
           Mirror(t), o \notin Held(t), t.byFrame[f] = None
    PROVE  Mirror(Reserved(t, f, o, d))
  <1> DEFINE r == Reserved(t, f, o, d)
  <1>1. /\ Held(r) = Held(t) \cup {o}
        /\ r.byOperation[o] = [frame |-> f, deadline |-> d]
        /\ \A p \in Operations \ {o} : r.byOperation[p] = t.byOperation[p]
        /\ r.byFrame[f] = o
        /\ \A g \in Frames \ {f} : r.byFrame[g] = t.byFrame[g]
    BY ReservedFacts
  <1> HIDE DEF r
  <1>2. \A p \in Operations : t.byFrame[f] # p
    BY ValuesAssumption
  <1> QED
    BY <1>1, <1>2 DEF Mirror, r

\* So does a removal.
LEMMA RemoveMirror ==
    ASSUME NEW t \in Tables, NEW o \in Operations, Mirror(t)
    PROVE  Mirror(RemoveOperation(t, o))
  <1> DEFINE r == RemoveOperation(t, o)
  <1>1. /\ Held(r) = Held(t) \ {o}
        /\ \A p \in Operations \ {o} : r.byOperation[p] = t.byOperation[p]
        /\ \A g \in Frames : r.byFrame[g] =
             IF o \in Held(t) /\ g = t.byOperation[o].frame THEN None ELSE t.byFrame[g]
    BY RemoveFacts
  <1> HIDE DEF r
  <1>2. None \notin Operations
    BY ValuesAssumption
  <1> QED
    BY <1>1, <1>2 DEF Mirror, r

\* take_for_submit removes at most one reservation, and when the ids match it
\* is the operation's own.
LEMMA TakenFacts ==
    ASSUME NEW t \in Tables, NEW o \in Operations, NEW f \in Frames, Mirror(t)
    PROVE  /\ Taken(t, o, f) \in Tables
           /\ Mirror(Taken(t, o, f))
           /\ Held(Taken(t, o, f)) \subseteq Held(t)
           /\ \A p \in Held(Taken(t, o, f)) : Taken(t, o, f).byOperation[p] = t.byOperation[p]
           /\ o \notin Held(Taken(t, o, f))
           /\ SubmitMatches(t, o, f) => Held(Taken(t, o, f)) = Held(t) \ {o}
           /\ Held(Taken(t, o, f)) = Held(t) => Taken(t, o, f) = t
  <1>1. CASE o \in Held(t)
    <2>1. Taken(t, o, f) = RemoveOperation(t, o)
      BY <1>1 DEF Taken
    <2>2. /\ RemoveOperation(t, o) \in Tables
          /\ Held(RemoveOperation(t, o)) = Held(t) \ {o}
          /\ \A p \in Operations \ {o} :
               RemoveOperation(t, o).byOperation[p] = t.byOperation[p]
      BY RemoveFacts
    <2>3. Mirror(RemoveOperation(t, o))
      BY RemoveMirror
    <2>4. Held(t) \subseteq Operations
      BY DEF Held
    <2> QED
      BY <1>1, <2>1, <2>2, <2>3, <2>4
  <1>2. CASE o \notin Held(t) /\ t.byFrame[f] # None
    <2> DEFINE q == t.byFrame[f]
    <2>1. q \in Operations
      BY <1>2 DEF Tables
    <2>2. q \in Held(t)
      BY <2>1 DEF Mirror
    <2>3. Taken(t, o, f) = RemoveOperation(t, q)
      BY <1>2 DEF Taken
    <2>4. /\ RemoveOperation(t, q) \in Tables
          /\ Held(RemoveOperation(t, q)) = Held(t) \ {q}
          /\ \A p \in Operations \ {q} :
               RemoveOperation(t, q).byOperation[p] = t.byOperation[p]
      BY <2>1, RemoveFacts
    <2>5. Mirror(RemoveOperation(t, q))
      BY <2>1, RemoveMirror
    <2>6. Held(t) \subseteq Operations
      BY DEF Held
    <2>7. ~SubmitMatches(t, o, f)
      BY <1>2 DEF SubmitMatches
    <2> HIDE DEF q
    <2> QED
      BY <1>2, <2>2, <2>3, <2>4, <2>5, <2>6, <2>7
  <1>3. CASE o \notin Held(t) /\ t.byFrame[f] = None
    BY <1>3 DEF Taken
  <1> QED
    BY <1>1, <1>2, <1>3

-----------------------------------------------------------------------------
(***************************************************************************)
(* The channel to the server.                                              *)
(***************************************************************************)

LEMMA AppendFacts ==
    ASSUME NEW s \in Seq(Packets), NEW p \in Packets
    PROVE  /\ Append(s, p) \in Seq(Packets)
           /\ Len(s) \in Nat
           /\ Len(Append(s, p)) = Len(s) + 1
           /\ \A i \in 1..Len(s) : Append(s, p)[i] = s[i]
           /\ Append(s, p)[Len(s) + 1] = p
  OBVIOUS

LEMMA TailFacts ==
    ASSUME NEW s \in Seq(Packets), s # << >>
    PROVE  /\ Head(s) \in Packets
           /\ Head(s) = s[1]
           /\ Len(s) \in Nat \ {0}
           /\ Tail(s) \in Seq(Packets)
           /\ Len(Tail(s)) = Len(s) - 1
           /\ \A i \in 1..(Len(s) - 1) : Tail(s)[i] = s[i + 1]
  OBVIOUS

LEMMA PacketFacts ==
    /\ \A o \in Operations, f \in Frames, d \in Instants : DeadlinePacket(o, f, d) \in Packets
    /\ \A o \in Operations, f \in Frames : SubmitPacket(o, f) \in Packets
    /\ \A p \in Packets : p.operation \in Operations /\ p.frame \in Frames
    /\ \A p \in Packets : p.type = "DEADLINE" => p.deadline \in Instants
  BY DEF Packets, DeadlinePacket, SubmitPacket

\* The packets under way after a packet is written.
LEMMA UnderWayAppend ==
    ASSUME toServer \in Seq(Packets), NEW p \in Packets, toServer' = Append(toServer, p),
           NEW ty, NEW o, NEW f
    PROVE  UnderWay(ty, o, f)' <=>
             UnderWay(ty, o, f) \/ (p.type = ty /\ p.operation = o /\ p.frame = f)
  <1>1. /\ Len(toServer) \in Nat
        /\ Len(toServer') = Len(toServer) + 1
        /\ \A i \in 1..Len(toServer) : toServer'[i] = toServer[i]
        /\ toServer'[Len(toServer) + 1] = p
    BY AppendFacts
  <1>2. 1..Len(toServer') = 1..Len(toServer) \cup {Len(toServer) + 1}
    BY <1>1
  <1> QED
    BY <1>1, <1>2 DEF UnderWay

\* The packets under way after a packet is read.
LEMMA UnderWayTail ==
    ASSUME toServer \in Seq(Packets), toServer # << >>, toServer' = Tail(toServer),
           NEW ty, NEW o, NEW f
    PROVE  UnderWay(ty, o, f) <=>
             \/ UnderWay(ty, o, f)'
             \/ /\ Head(toServer).type = ty
                /\ Head(toServer).operation = o
                /\ Head(toServer).frame = f
  <1>1. /\ Head(toServer) = toServer[1]
        /\ Len(toServer) \in Nat \ {0}
        /\ Len(toServer') = Len(toServer) - 1
        /\ \A i \in 1..(Len(toServer) - 1) : toServer'[i] = toServer[i + 1]
    BY TailFacts
  <1>2. ASSUME UnderWay(ty, o, f)' PROVE UnderWay(ty, o, f)
    <2>1. PICK i \in 1..Len(toServer') :
            toServer'[i].type = ty /\ toServer'[i].operation = o /\ toServer'[i].frame = f
      BY <1>2 DEF UnderWay
    <2>2. i + 1 \in 1..Len(toServer) /\ toServer'[i] = toServer[i + 1]
      BY <1>1, <2>1
    <2> QED
      BY <2>1, <2>2 DEF UnderWay
  <1>3. ASSUME UnderWay(ty, o, f),
               ~(Head(toServer).type = ty /\ Head(toServer).operation = o
                   /\ Head(toServer).frame = f)
        PROVE  UnderWay(ty, o, f)'
    <2>1. PICK i \in 1..Len(toServer) :
            toServer[i].type = ty /\ toServer[i].operation = o /\ toServer[i].frame = f
      BY <1>3 DEF UnderWay
    <2>2. i # 1
      BY <1>1, <1>3, <2>1
    <2>3. i - 1 \in 1..Len(toServer') /\ toServer'[i - 1] = toServer[i]
      <3>1. i - 1 \in 1..(Len(toServer) - 1) /\ (i - 1) + 1 = i
        BY <1>1, <2>2
      <3> QED
        BY <1>1, <3>1
    <2> QED
      BY <2>1, <2>3 DEF UnderWay
  <1>4. ASSUME Head(toServer).type = ty, Head(toServer).operation = o,
               Head(toServer).frame = f
        PROVE  UnderWay(ty, o, f)
    <2>1. 1 \in 1..Len(toServer)
      BY <1>1
    <2> QED
      BY <1>1, <1>4, <2>1 DEF UnderWay
  <1> QED
    BY <1>2, <1>3, <1>4

\* Reading a packet keeps the submissions distinct, and a submission that is
\* read shares neither id with one that is left.
LEMMA DistinctTail ==
    ASSUME TypeOK, NoDuplicateSubmission, toServer # << >>, toServer' = Tail(toServer)
    PROVE  /\ registered' = registered => NoDuplicateSubmission'
           /\ Head(toServer).type = "FRAME_SUBMIT" =>
                \A i \in 1..Len(toServer') : toServer'[i].type = "FRAME_SUBMIT" =>
                    /\ toServer'[i].operation # Head(toServer).operation
                    /\ toServer'[i].frame # Head(toServer).frame
  <1>1. /\ Head(toServer) = toServer[1]
        /\ Len(toServer) \in Nat \ {0}
        /\ Len(toServer') = Len(toServer) - 1
        /\ \A i \in 1..(Len(toServer) - 1) : toServer'[i] = toServer[i + 1]
    BY TailFacts DEF TypeOK
  <1>2. \A i \in 1..Len(toServer') :
          i + 1 \in 1..Len(toServer) /\ i + 1 # 1 /\ toServer'[i] = toServer[i + 1]
    BY <1>1
  <1>3. 1 \in 1..Len(toServer)
    BY <1>1
  <1>4. Head(toServer).type = "FRAME_SUBMIT" =>
          \A i \in 1..Len(toServer') : toServer'[i].type = "FRAME_SUBMIT" =>
              /\ toServer'[i].operation # Head(toServer).operation
              /\ toServer'[i].frame # Head(toServer).frame
    BY <1>1, <1>2, <1>3 DEF NoDuplicateSubmission
  <1>5. ASSUME registered' = registered PROVE NoDuplicateSubmission'
    <2> SUFFICES ASSUME NEW i \in 1..Len(toServer'), toServer'[i].type = "FRAME_SUBMIT"
                 PROVE  /\ registered'[toServer'[i].operation] = None
                        /\ \A q \in Operations : registered'[q] # toServer'[i].frame
                        /\ \A j \in 1..Len(toServer') :
                             toServer'[j].type = "FRAME_SUBMIT" /\ j # i =>
                                 /\ toServer'[j].operation # toServer'[i].operation
                                 /\ toServer'[j].frame # toServer'[i].frame
      BY DEF NoDuplicateSubmission, FrameInUse
    <2>1. i + 1 \in 1..Len(toServer) /\ toServer[i + 1].type = "FRAME_SUBMIT"
      BY <1>2
    <2>2. /\ registered[toServer[i + 1].operation] = None
          /\ ~FrameInUse(toServer[i + 1].frame)
      BY <2>1 DEF NoDuplicateSubmission
    <2>3. ASSUME NEW j \in 1..Len(toServer'), toServer'[j].type = "FRAME_SUBMIT", j # i
          PROVE  /\ toServer'[j].operation # toServer'[i].operation
                 /\ toServer'[j].frame # toServer'[i].frame
      <3>1. j + 1 \in 1..Len(toServer) /\ toServer[j + 1].type = "FRAME_SUBMIT" /\ j + 1 # i + 1
        BY <1>2, <2>3
      <3> QED
        BY <1>2, <2>1, <3>1 DEF NoDuplicateSubmission
    <2> QED
      BY <1>2, <1>5, <2>2, <2>3, ZenonT(30) DEF FrameInUse
  <1> QED
    BY <1>4, <1>5

\* Deadlines under way before and after a packet is written.
LEMMA DeadlineAppend ==
    ASSUME toServer \in Seq(Packets), NEW p \in Packets, toServer' = Append(toServer, p)
    PROVE  /\ \A i \in 1..Len(toServer), o \in Operations : DeadlineAt(i, o)' <=> DeadlineAt(i, o)
           /\ \A k \in Nat, o \in Operations : k = Len(toServer) + 1 =>
                (DeadlineAt(k, o)' <=> p.type = "DEADLINE" /\ p.operation = o)
  <1>1. /\ \A i \in 1..Len(toServer) : toServer'[i] = toServer[i]
        /\ toServer'[Len(toServer) + 1] = p
    BY AppendFacts
  <1> QED
    BY <1>1 DEF DeadlineAt

LEMMA DeadlineTail ==
    ASSUME toServer \in Seq(Packets), toServer # << >>, toServer' = Tail(toServer)
    PROVE  /\ \A i \in 1..(Len(toServer) - 1), o \in Operations : DeadlineAt(i, o)' <=> DeadlineAt(i + 1, o)
           /\ \A o \in Operations :
                DeadlineAt(1, o) <=> Head(toServer).type = "DEADLINE" /\ Head(toServer).operation = o
  <1>1. /\ Head(toServer) = toServer[1]
        /\ \A i \in 1..(Len(toServer) - 1) : toServer'[i] = toServer[i + 1]
    BY TailFacts
  <1> QED
    BY <1>1 DEF DeadlineAt

\* Writing a packet keeps the promise, if a DEADLINE renews it.
LEMMA PromiseAppend ==
    ASSUME toServer \in Seq(Packets), PromiseIsKept, NEW p \in Packets,
           toServer' = Append(toServer, p), spoiled' = spoiled,
           \A o \in Operations : ServerDeadline(o)' = ServerDeadline(o),
           \A o \in Operations : promised'[o] =
               IF p.type = "DEADLINE" /\ p.operation = o THEN p.deadline ELSE promised[o]
    PROVE  PromiseIsKept'
  <1>1. /\ Len(toServer) \in Nat
        /\ Len(toServer') = Len(toServer) + 1
        /\ \A i \in 1..Len(toServer) : toServer'[i] = toServer[i]
        /\ toServer'[Len(toServer) + 1] = p
    BY AppendFacts
  <1>2. /\ \A i \in 1..Len(toServer), o \in Operations : DeadlineAt(i, o)' <=> DeadlineAt(i, o)
        /\ \A k \in Nat, o \in Operations : k = Len(toServer) + 1 =>
             (DeadlineAt(k, o)' <=> p.type = "DEADLINE" /\ p.operation = o)
    BY DeadlineAppend
  <1>3. /\ \A i \in 1..Len(toServer') : i \in 1..Len(toServer) \/ i = Len(toServer) + 1
        /\ Len(toServer) + 1 \in 1..Len(toServer')
        /\ \A i \in 1..Len(toServer) : i \in 1..Len(toServer') /\ Len(toServer) + 1 > i
    BY <1>1
  <1> SUFFICES ASSUME NEW o \in Operations \ spoiled
               PROVE  /\ \A i \in 1..Len(toServer') :
                           DeadlineAt(i, o)' /\ (\A j \in 1..Len(toServer') : j > i => ~DeadlineAt(j, o)')
                               => toServer'[i].deadline = promised'[o]
                      /\ (\A i \in 1..Len(toServer') : ~DeadlineAt(i, o)') =>
                           ServerDeadline(o)' = promised'[o]
    BY DEF PromiseIsKept
  <1>4. CASE p.type = "DEADLINE" /\ p.operation = o
    BY <1>1, <1>2, <1>3, <1>4
  <1>5. CASE ~(p.type = "DEADLINE" /\ p.operation = o)
    <2>1. promised'[o] = promised[o] /\ ServerDeadline(o)' = ServerDeadline(o)
      BY <1>5
    <2>2. ASSUME NEW i \in 1..Len(toServer'), DeadlineAt(i, o)',
                 \A j \in 1..Len(toServer') : j > i => ~DeadlineAt(j, o)'
          PROVE  toServer'[i].deadline = promised'[o]
      <3>1. i \in 1..Len(toServer) /\ DeadlineAt(i, o)
        BY <1>2, <1>3, <1>5, <2>2
      <3>2. \A j \in 1..Len(toServer) : j > i => ~DeadlineAt(j, o)
        BY <1>2, <1>3, <2>2
      <3>3. toServer[i].deadline = promised[o]
        BY <3>1, <3>2 DEF PromiseIsKept
      <3> QED
        BY <1>1, <2>1, <3>1, <3>3
    <2>3. ASSUME \A i \in 1..Len(toServer') : ~DeadlineAt(i, o)'
          PROVE  ServerDeadline(o)' = promised'[o]
      <3>1. \A i \in 1..Len(toServer) : ~DeadlineAt(i, o)
        BY <1>2, <1>3, <2>3
      <3>2. ServerDeadline(o) = promised[o]
        BY <3>1 DEF PromiseIsKept
      <3> QED
        BY <2>1, <3>2
    <2> QED
      BY <2>2, <2>3
  <1> QED
    BY <1>4, <1>5

\* Reading a packet keeps the promise, if the server takes over a DEADLINE or
\* the operation counts as spoiled.
LEMMA PromiseTail ==
    ASSUME toServer \in Seq(Packets), PromiseIsKept, toServer # << >>,
           toServer' = Tail(toServer), promised' = promised, spoiled \subseteq spoiled',
           \A o \in Operations \ spoiled' : ServerDeadline(o)' =
               IF DeadlineAt(1, o) THEN Head(toServer).deadline ELSE ServerDeadline(o)
    PROVE  PromiseIsKept'
  <1>1. /\ Head(toServer) = toServer[1]
        /\ Len(toServer) \in Nat \ {0}
        /\ Len(toServer') = Len(toServer) - 1
        /\ \A i \in 1..(Len(toServer) - 1) : toServer'[i] = toServer[i + 1]
    BY TailFacts
  <1>2. \A i \in 1..(Len(toServer) - 1), o \in Operations : DeadlineAt(i, o)' <=> DeadlineAt(i + 1, o)
    BY DeadlineTail
  <1>3. /\ \A i \in 1..Len(toServer') : i \in 1..(Len(toServer) - 1) /\ i + 1 \in 1..Len(toServer)
        /\ \A j \in 1..Len(toServer) : j > 1 => j - 1 \in 1..Len(toServer') /\ (j - 1) + 1 = j
        /\ 1 \in 1..Len(toServer)
    BY <1>1
  <1> SUFFICES ASSUME NEW o \in Operations \ spoiled'
               PROVE  /\ \A i \in 1..Len(toServer') :
                           DeadlineAt(i, o)' /\ (\A j \in 1..Len(toServer') : j > i => ~DeadlineAt(j, o)')
                               => toServer'[i].deadline = promised[o]
                      /\ (\A i \in 1..Len(toServer') : ~DeadlineAt(i, o)') =>
                           ServerDeadline(o)' = promised[o]
    BY DEF PromiseIsKept
  <1>4. o \in Operations \ spoiled
    OBVIOUS
  <1>5. \A j \in 1..Len(toServer) : j > 1 => (DeadlineAt(j, o) <=> DeadlineAt(j - 1, o)')
    <2> TAKE j \in 1..Len(toServer)
    <2> HAVE j > 1
    <2>1. j - 1 \in 1..(Len(toServer) - 1) /\ (j - 1) + 1 = j
      BY <1>1
    <2> QED
      BY <1>2, <2>1
  <1>6. ASSUME NEW i \in 1..Len(toServer'), DeadlineAt(i, o)',
               \A j \in 1..Len(toServer') : j > i => ~DeadlineAt(j, o)'
        PROVE  toServer'[i].deadline = promised[o]
    <2>1. i + 1 \in 1..Len(toServer) /\ DeadlineAt(i + 1, o)
      BY <1>2, <1>3, <1>6
    <2>2. ASSUME NEW j \in 1..Len(toServer), j > i + 1 PROVE ~DeadlineAt(j, o)
      <3>1. j > 1 /\ j - 1 \in 1..Len(toServer') /\ j - 1 > i
        BY <1>1, <2>2
      <3> QED
        BY <1>5, <1>6, <3>1
    <2>3. toServer[i + 1].deadline = promised[o]
      BY <1>4, <2>1, <2>2 DEF PromiseIsKept
    <2> QED
      BY <1>1, <1>3, <2>3
  <1>7. ASSUME \A i \in 1..Len(toServer') : ~DeadlineAt(i, o)'
        PROVE  ServerDeadline(o)' = promised[o]
    <2>1. \A j \in 1..Len(toServer) : j > 1 => ~DeadlineAt(j, o)
      BY <1>3, <1>5, <1>7
    <2>2. CASE DeadlineAt(1, o)
      <3>1. toServer[1].deadline = promised[o]
        BY <1>3, <1>4, <2>1, <2>2 DEF PromiseIsKept
      <3> QED
        BY <1>1, <2>2, <3>1
    <2>3. CASE ~DeadlineAt(1, o)
      <3>1. \A j \in 1..Len(toServer) : ~DeadlineAt(j, o)
        BY <1>1, <2>1, <2>3
      <3>2. ServerDeadline(o) = promised[o]
        BY <1>4, <3>1 DEF PromiseIsKept
      <3> QED
        BY <2>3, <3>2
    <2> QED
      BY <2>2, <2>3
  <1> QED
    BY <1>6, <1>7

\* Writing a packet keeps the submissions distinct, if it is a DEADLINE or a
\* submission with two fresh ids.
LEMMA DistinctAppend ==
    ASSUME toServer \in Seq(Packets), NoDuplicateSubmission, NEW p \in Packets,
           toServer' = Append(toServer, p), registered' = registered,
           p.type = "FRAME_SUBMIT" =>
               \A q \in Operations, g \in Frames :
                   Sent(q, g) => q # p.operation /\ g # p.frame,
           registered \in [Operations -> Frames \cup {None}]
    PROVE  NoDuplicateSubmission'
  <1>1. /\ Len(toServer) \in Nat
        /\ Len(toServer') = Len(toServer) + 1
        /\ \A i \in 1..Len(toServer) : toServer'[i] = toServer[i]
        /\ toServer'[Len(toServer) + 1] = p
    BY AppendFacts
  <1>2. \A i \in 1..Len(toServer') : i \in 1..Len(toServer) \/ i = Len(toServer) + 1
    BY <1>1
  <1>3. \A i \in 1..Len(toServer) : toServer[i].operation \in Operations /\ toServer[i].frame \in Frames
    BY PacketFacts
  <1>4. p.operation \in Operations /\ p.frame \in Frames
    BY PacketFacts
  <1>5. ASSUME p.type = "FRAME_SUBMIT"
        PROVE  /\ registered[p.operation] = None
               /\ \A q \in Operations : registered[q] # p.frame
               /\ \A i \in 1..Len(toServer) : toServer[i].type = "FRAME_SUBMIT" =>
                    toServer[i].operation # p.operation /\ toServer[i].frame # p.frame
    <2>1. registered[p.operation] = None
      BY <1>4, <1>5 DEF Sent
    <2>2. \A q \in Operations : registered[q] # p.frame
      BY <1>4, <1>5 DEF Sent
    <2>3. ASSUME NEW i \in 1..Len(toServer), toServer[i].type = "FRAME_SUBMIT"
          PROVE  toServer[i].operation # p.operation /\ toServer[i].frame # p.frame
      <3>1. Sent(toServer[i].operation, toServer[i].frame)
        BY <2>3 DEF Sent, UnderWay
      <3> QED
        BY <1>3, <1>5, <3>1
    <2> QED
      BY <2>1, <2>2, <2>3
  <1> SUFFICES ASSUME NEW i \in 1..Len(toServer'), toServer'[i].type = "FRAME_SUBMIT"
               PROVE  /\ registered[toServer'[i].operation] = None
                      /\ \A q \in Operations : registered[q] # toServer'[i].frame
                      /\ \A j \in 1..Len(toServer') :
                           toServer'[j].type = "FRAME_SUBMIT" /\ j # i =>
                               /\ toServer'[j].operation # toServer'[i].operation
                               /\ toServer'[j].frame # toServer'[i].frame
    BY DEF NoDuplicateSubmission, FrameInUse
  <1>6. CASE i \in 1..Len(toServer)
    <2>1. /\ registered[toServer[i].operation] = None
          /\ \A q \in Operations : registered[q] # toServer[i].frame
          /\ \A j \in 1..Len(toServer) :
               toServer[j].type = "FRAME_SUBMIT" /\ j # i =>
                   /\ toServer[j].operation # toServer[i].operation
                   /\ toServer[j].frame # toServer[i].frame
      BY <1>1, <1>6 DEF NoDuplicateSubmission, FrameInUse
    <2> QED
      BY <1>1, <1>2, <1>5, <1>6, <2>1
  <1>7. CASE i = Len(toServer) + 1
    BY <1>1, <1>2, <1>5, <1>7
  <1> QED
    BY <1>2, <1>6, <1>7

-----------------------------------------------------------------------------
(***************************************************************************)
(* Every step keeps the inductive invariant.                               *)
(***************************************************************************)

\* The server takes the submission it reads while nothing has gone wrong: the
\* frame and the operation are unused, and a reservation for one of them is
\* for both, since the client binds neither twice.
LEMMA HealthyTakes ==
    ASSUME IInv, Healthy, toServer # << >>, Head(toServer).type = "FRAME_SUBMIT"
    PROVE  AcceptsSubmit(Head(toServer).operation, Head(toServer).frame)
  <1> DEFINE o == Head(toServer).operation
             f == Head(toServer).frame
             t == table["server"]
  <1>1. /\ Head(toServer) = toServer[1]
        /\ 1 \in 1..Len(toServer)
        /\ Head(toServer) \in Packets
    BY TailFacts DEF IInv, TypeOK
  <1>2. o \in Operations /\ f \in Frames
    BY <1>1, PacketFacts
  <1>3. UnderWay("FRAME_SUBMIT", o, f)
    BY <1>1 DEF UnderWay
  <1>4. registered[o] = None /\ ~FrameInUse(f)
    BY <1>1 DEF IInv, NoDuplicateSubmission
  <1>5. \A q \in Operations, g \in Frames :
          UnderWay("FRAME_SUBMIT", q, g) /\ (q = o \/ g = f) => q = o /\ g = f
    <2> TAKE q \in Operations, g \in Frames
    <2> HAVE UnderWay("FRAME_SUBMIT", q, g) /\ (q = o \/ g = f)
    <2>1. PICK i \in 1..Len(toServer) :
            toServer[i].type = "FRAME_SUBMIT" /\ toServer[i].operation = q /\ toServer[i].frame = g
      BY DEF UnderWay
    <2>2. i = 1
      BY <1>1, <2>1 DEF IInv, NoDuplicateSubmission
    <2> QED
      BY <1>1, <2>1, <2>2
  <1>6. \A q \in Operations, g \in Frames :
          HeldAt(t, q, g) /\ (q = o \/ g = f) => q = o /\ g = f
    <2> TAKE q \in Operations, g \in Frames
    <2> HAVE HeldAt(t, q, g) /\ (q = o \/ g = f)
    <2>1. Bound(q, g)
      BY DEF IInv, PairsAreBound
    <2>2. ~HeldAt(table["client"], q, g)
      <3>1. Sent(o, f)
        BY <1>3 DEF Sent
      <3>2. o \in seen
        BY <1>2, <3>1 DEF IInv, SubmittedIsOld
      <3> QED
        BY <1>2, <3>1, <3>2 DEF IInv, ReservedIsFresh
    <2>3. registered[q] # g
      <3>1. CASE q = o
        BY <1>4, <3>1, ValuesAssumption DEF Frames
      <3>2. CASE g = f
        BY <1>4, <3>2 DEF FrameInUse
      <3> QED
        BY <3>1, <3>2
    <2> QED
      BY <1>5, <2>1, <2>2, <2>3 DEF Bound, Sent
  <1>7. t \in Tables /\ Mirror(t)
    BY DEF IInv, TypeOK, MapsMirror, Ends
  <1>8. SubmitMatches(t, o, f)
    <2>1. CASE o \in Held(t)
      <3>1. t.byOperation[o].frame \in Frames
        BY <1>2, <1>7, <2>1 DEF Tables, Held, Reservations
      <3> QED
        BY <1>2, <1>6, <2>1, <3>1 DEF HeldAt, SubmitMatches
    <2>2. CASE o \notin Held(t)
      <3>1. ASSUME t.byFrame[f] # None PROVE FALSE
        <4>1. t.byFrame[f] \in Operations
          BY <1>2, <1>7, <3>1 DEF Tables
        <4>2. HeldAt(t, t.byFrame[f], f)
          BY <1>2, <1>7, <4>1 DEF Mirror, HeldAt
        <4> QED
          BY <1>2, <1>6, <2>2, <4>1, <4>2 DEF HeldAt
      <3> QED
        BY <2>2, <3>1 DEF SubmitMatches
    <2> QED
      BY <2>1, <2>2
  <1> QED
    BY <1>4, <1>8 DEF AcceptsSubmit, Healthy

LEMMA InitIInv == Init => IInv
  <1> SUFFICES ASSUME Init PROVE IInv
    OBVIOUS
  <1>1. Empty \in Tables /\ Held(Empty) = {} /\ \A f \in Frames : Empty.byFrame[f] = None
    BY DEF Empty, Tables, Held
  <1>2. Mirror(Empty)
    BY <1>1, ValuesAssumption DEF Mirror
  <1>3. TypeOK
    <2>1. 1 \in Frames /\ 0 \in 0..MaxTime
      BY LimitsAssumption DEF Frames
    <2>2. clock \in [Ends -> 0..MaxTime] /\ table \in [Ends -> Tables]
      BY <1>1, <2>1 DEF Init
    <2>3. toServer \in Seq(Packets) /\ toClient \in Seq(Frames)
      BY DEF Init
    <2>4. /\ submitted \in [Operations -> Frames \cup {None}]
          /\ registered \in [Operations -> Frames \cup {None}]
          /\ deadline \in [Operations -> Instants \cup {None}]
          /\ promised \in [Operations -> Instants \cup {None}]
      BY DEF Init
    <2> QED
      BY <2>1, <2>2, <2>3, <2>4, ZenonT(30) DEF Init, TypeOK
  <1>4. \A e \in Ends : table[e] = Empty
    BY DEF Init
  <1>5. MapsMirror
    BY <1>2, <1>4 DEF MapsMirror
  <1>6. \A ty, o, f : ~UnderWay(ty, o, f)
    BY DEF Init, UnderWay
  <1>7. \A o \in Operations, f \in Frames : ~Sent(o, f)
    BY <1>6, ValuesAssumption DEF Init, Sent, Frames
  <1>8. \A e \in Ends, o \in Operations, f \in Frames : ~HeldAt(table[e], o, f)
    BY <1>1, <1>4 DEF HeldAt
  <1>9. ReservedIsFresh /\ SubmittedIsOld
    BY <1>7, <1>8 DEF ReservedIsFresh, SubmittedIsOld, Ends
  <1>10. NoDuplicateSubmission
    BY DEF Init, NoDuplicateSubmission
  <1>11. NoDeadlineYet
    BY DEF Init, NoDeadlineYet
  <1>12. PairsAreBound
    BY <1>6, <1>8, ValuesAssumption DEF Init, PairsAreBound, Ends, Frames
  <1>13. PromiseIsKept
    <2>1. \A o \in Operations : ServerDeadline(o) = None
      BY <1>1, <1>4 DEF Init, ServerDeadline, Ends
    <2> QED
      BY <2>1 DEF Init, PromiseIsKept
  <1> QED
    BY <1>3, <1>5, <1>9, <1>10, <1>11, <1>12, <1>13 DEF IInv

\* A reservation that has expired stays expired as long as it is held.
LEMMA ExpiredLater ==
    ASSUME NEW t \in Tables, NEW m \in Nat, NEW n \in Nat, m <= n, Expired(t, m)
    PROVE  Expired(t, n)
  <1>1. \A o \in Held(t) : t.byOperation[o].deadline \in Nat
    BY ValuesAssumption, ZenonT(30) DEF Held, Tables, Reservations
  <1> QED
    BY <1>1 DEF Expired

\* Steps that only move a clock, end an operation or break the carrier.
LEMMA QuietStep ==
    ASSUME IInv, TypeOK',
           UNCHANGED <<table, nextFrame, seen, toServer, registered, deadline, promised, spoiled>>,
           \A o \in Operations : submitted'[o] = submitted[o] \/ submitted'[o] = None,
           clock["server"] <= clock'["server"]
    PROVE  IInv'
  <1>1. \A ty, o, f : UnderWay(ty, o, f)' <=> UnderWay(ty, o, f)
    BY DEF UnderWay
  <1>2. \A o, f : Sent(o, f)' <=> Sent(o, f)
    BY <1>1 DEF Sent
  <1>3. MapsMirror'
    BY DEF IInv, MapsMirror
  <1>4. ReservedIsFresh' /\ SubmittedIsOld'
    BY <1>2 DEF IInv, ReservedIsFresh, SubmittedIsOld
  <1>5. NoDuplicateSubmission'
    BY DEF IInv, NoDuplicateSubmission, FrameInUse
  <1>6. NoDeadlineYet'
    BY DEF IInv, NoDeadlineYet
  <1>7. Healthy' => Healthy
    <2>1. /\ table["server"] \in Tables
          /\ clock["server"] \in Nat /\ clock'["server"] \in Nat
      BY LimitsAssumption DEF IInv, TypeOK, Ends
    <2> QED
      BY <2>1, ExpiredLater DEF Healthy
  <1>8. PairsAreBound'
    <2>1. \A o \in Operations, f \in Frames : submitted'[o] = f => submitted[o] = f
      BY ValuesAssumption DEF Frames
    <2>2. \A o, f : Bound(o, f)' <=> Bound(o, f)
      BY <1>2 DEF Bound
    <2> QED
      BY <1>1, <1>2, <1>7, <2>1, <2>2 DEF IInv, PairsAreBound
  <1>9. PromiseIsKept'
    <2>1. \A i, o : DeadlineAt(i, o)' <=> DeadlineAt(i, o)
      BY DEF DeadlineAt
    <2>2. \A o : ServerDeadline(o)' = ServerDeadline(o)
      BY DEF ServerDeadline
    <2> QED
      BY <2>1, <2>2 DEF IInv, PromiseIsKept
  <1> QED
    BY <1>3, <1>4, <1>5, <1>6, <1>8, <1>9 DEF IInv

LEMMA SendDeadlineUpdateStep ==
    ASSUME IInv, NEW o \in Operations, NEW d \in Instants, SendDeadlineUpdate(o, d)
    PROVE  IInv'
  <1>f. PICK f : f = submitted[o]
    OBVIOUS
  <1>p. PICK p : p = DeadlinePacket(o, f, d)
    OBVIOUS
  <1>0. TypeOK /\ toServer \in Seq(Packets)
    BY DEF IInv, TypeOK
  <1>1. f \in Frames
    BY <1>f, <1>0 DEF SendDeadlineUpdate, TypeOK
  <1>2. /\ p \in Packets
        /\ p.type = "DEADLINE" /\ p.operation = o /\ p.frame = f /\ p.deadline = d
    BY <1>f, <1>p, <1>1, PacketFacts DEF DeadlinePacket
  <1>3. toServer' = Append(toServer, p)
    BY <1>f, <1>p, <1>p DEF SendDeadlineUpdate
  <1>4. UNCHANGED <<clock, table, nextFrame, seen, submitted, toClient, broken, registered, done,
                    deadline, spoiled>>
    BY DEF SendDeadlineUpdate, clientVars, serverVars
  <1>5. promised' = [promised EXCEPT ![o] = d]
    BY DEF SendDeadlineUpdate
  <1>6. TypeOK'
    BY <1>0, <1>2, <1>3, <1>4, <1>5, AppendFacts DEF TypeOK
  <1>7. \A ty, q, g : UnderWay(ty, q, g)' <=> UnderWay(ty, q, g) \/ (ty = "DEADLINE" /\ q = o /\ g = f)
    BY <1>0, <1>2, <1>3, UnderWayAppend
  <1>8. \A q, g : Sent(q, g)' <=> Sent(q, g)
    BY <1>4, <1>7 DEF Sent
  <1>9. MapsMirror' /\ ReservedIsFresh' /\ SubmittedIsOld' /\ NoDeadlineYet'
    BY <1>4, <1>8 DEF IInv, MapsMirror, ReservedIsFresh, SubmittedIsOld, NoDeadlineYet
  <1>10. NoDuplicateSubmission'
    BY <1>0, <1>2, <1>3, <1>4, DistinctAppend DEF IInv, TypeOK
  <1>11. PairsAreBound'
    <2>1. Healthy' => Healthy
      BY <1>4 DEF Healthy
    <2>2. \A q, g : Bound(q, g)' <=> Bound(q, g)
      BY <1>4, <1>8 DEF Bound
    <2>3. Healthy => Bound(o, f)
      BY <1>f, <1>1 DEF IInv, PairsAreBound, Bound
    <2> QED
      BY <1>4, <1>7, <1>8, <2>1, <2>2, <2>3, ZenonT(30) DEF IInv, PairsAreBound
  <1>12. PromiseIsKept'
    <2>1. \A q \in Operations : ServerDeadline(q)' = ServerDeadline(q)
      BY <1>4 DEF ServerDeadline
    <2>2. \A q \in Operations : promised'[q] =
            IF p.type = "DEADLINE" /\ p.operation = q THEN p.deadline ELSE promised[q]
      BY <1>0, <1>2, <1>5 DEF TypeOK
    <2> QED
      BY <1>0, <1>2, <1>3, <1>4, <2>1, <2>2, PromiseAppend DEF IInv
  <1> QED
    BY <1>6, <1>9, <1>10, <1>11, <1>12 DEF IInv

LEMMA SendReservationStep ==
    ASSUME IInv, NEW o \in Operations, NEW f \in Frames, NEW d \in Instants,
           SendReservation(o, f, d)
    PROVE  IInv'
  <1>p. PICK p : p = DeadlinePacket(o, f, d)
    OBVIOUS
  <1>t. PICK t : t = table["client"]
    OBVIOUS
  <1>u. PICK u : u = Reserved(t, f, o, d)
    OBVIOUS
  <1>0. TypeOK /\ toServer \in Seq(Packets) /\ t \in Tables /\ Mirror(t)
    BY <1>t DEF IInv, TypeOK, MapsMirror, Ends
  <1>1. o \notin Held(t) /\ t.byFrame[f] = None
    BY <1>t DEF SendReservation, CanReserve
  <1>2. /\ p \in Packets
        /\ p.type = "DEADLINE" /\ p.operation = o /\ p.frame = f /\ p.deadline = d
    BY <1>p, PacketFacts DEF DeadlinePacket
  <1>3. toServer' = Append(toServer, p)
    BY <1>p DEF SendReservation
  <1>4. UNCHANGED <<clock, nextFrame, seen, submitted, toClient, broken, registered, done,
                    deadline, spoiled>>
    BY DEF SendReservation, clientVars, serverVars
  <1>5. promised' = [promised EXCEPT ![o] = d] /\ o \notin seen /\ f >= nextFrame
    BY DEF SendReservation
  <1>6. table'["client"] = u /\ table'["server"] = table["server"]
    BY <1>p, <1>t, <1>u, <1>0 DEF SendReservation, TypeOK, Ends
  <1>7. u \in Tables /\ Mirror(u)
    BY <1>u, <1>0, <1>1, ReservedFacts, ReservedMirror, ZenonT(30)
  <1>8. /\ \A q \in Operations, g \in Frames :
             HeldAt(u, q, g) <=> HeldAt(t, q, g) \/ (q = o /\ g = f)
    <2>1. /\ Held(u) = Held(t) \cup {o}
          /\ u.byOperation[o] = [frame |-> f, deadline |-> d]
          /\ \A q \in Operations \ {o} : u.byOperation[q] = t.byOperation[q]
      BY <1>t, <1>u, <1>0, ReservedFacts
    <2>2. u.byOperation[o].frame = f
      BY <2>1
    <2> QED
      BY <1>1, <2>1, <2>2 DEF HeldAt
  <1>9. table' \in [Ends -> Tables]
    BY <1>p, <1>t, <1>u, <1>0, <1>7 DEF SendReservation, TypeOK, Ends
  <1>10. TypeOK'
    BY <1>0, <1>2, <1>3, <1>4, <1>5, <1>9, AppendFacts DEF TypeOK
  <1>11. \A ty, q, g : UnderWay(ty, q, g)' <=> UnderWay(ty, q, g) \/ (ty = "DEADLINE" /\ q = o /\ g = f)
    BY <1>0, <1>2, <1>3, UnderWayAppend
  <1>12. \A q, g : Sent(q, g)' <=> Sent(q, g)
    BY <1>4, <1>11 DEF Sent
  <1>13. MapsMirror'
    BY <1>6, <1>7 DEF IInv, MapsMirror, Ends
  <1>14. \A q \in Operations : ~Sent(q, f)
    <2>1. nextFrame \in Nat /\ f \in Nat
      BY <1>0, LimitsAssumption DEF TypeOK, Frames
    <2> QED
      BY <1>5, <2>1 DEF IInv, SubmittedIsOld
  <1>15. ReservedIsFresh' /\ SubmittedIsOld' /\ NoDeadlineYet'
    BY <1>p, <1>t, <1>u, <1>4, <1>5, <1>6, <1>8, <1>12, <1>14
      DEF IInv, ReservedIsFresh, SubmittedIsOld, NoDeadlineYet
  <1>16. NoDuplicateSubmission'
    BY <1>0, <1>2, <1>3, <1>4, DistinctAppend DEF IInv, TypeOK
  <1>17. PairsAreBound'
    <2>1. Healthy' => Healthy
      BY <1>4, <1>6 DEF Healthy
    <2>2. \A q \in Operations, g \in Frames : Bound(q, g)' <=> Bound(q, g) \/ (q = o /\ g = f)
      BY <1>p, <1>t, <1>u, <1>6, <1>8, <1>12 DEF Bound
    <2> QED
      BY <1>4, <1>6, <1>11, <1>12, <2>1, <2>2, ZenonT(30) DEF IInv, PairsAreBound
  <1>18. PromiseIsKept'
    <2>1. \A q \in Operations : ServerDeadline(q)' = ServerDeadline(q)
      BY <1>4, <1>6 DEF ServerDeadline
    <2>2. \A q \in Operations : promised'[q] =
            IF p.type = "DEADLINE" /\ p.operation = q THEN p.deadline ELSE promised[q]
      BY <1>0, <1>2, <1>5 DEF TypeOK
    <2> QED
      BY <1>0, <1>2, <1>3, <1>4, <2>1, <2>2, PromiseAppend DEF IInv
  <1> QED
    BY <1>10, <1>13, <1>15, <1>16, <1>17, <1>18 DEF IInv

LEMMA SubmitStep ==
    ASSUME IInv, NEW o \in Operations, NEW f \in Frames, Submit(o, f)
    PROVE  IInv'
  <1>p. PICK p : p = SubmitPacket(o, f)
    OBVIOUS
  <1>t. PICK t : t = table["client"]
    OBVIOUS
  <1>u. PICK u : u = Taken(t, o, f)
    OBVIOUS
  <1>0. TypeOK /\ toServer \in Seq(Packets) /\ t \in Tables /\ Mirror(t)
    BY <1>t DEF IInv, TypeOK, MapsMirror, Ends
  <1>1. SubmitMatches(t, o, f) /\ o \notin seen /\ f >= nextFrame /\ f < MaxFrame
    BY <1>t DEF Submit, CanSubmit
  <1>2. /\ p \in Packets
        /\ p.type = "FRAME_SUBMIT" /\ p.operation = o /\ p.frame = f
    BY <1>p, PacketFacts DEF SubmitPacket
  <1>3. toServer' = Append(toServer, p)
    BY <1>p DEF Submit
  <1>4. UNCHANGED <<clock, toClient, broken, registered, done, deadline, promised, spoiled>>
    BY DEF Submit, serverVars
  <1>5. nextFrame' = f + 1 /\ seen' = seen \cup {o} /\ submitted' = [submitted EXCEPT ![o] = f]
    BY DEF Submit
  <1>6. table'["client"] = u /\ table'["server"] = table["server"]
    BY <1>p, <1>t, <1>u, <1>0 DEF Submit, TypeOK, Ends
  <1>7. /\ u \in Tables /\ Mirror(u)
        /\ Held(u) = Held(t) \ {o}
        /\ \A q \in Held(u) : u.byOperation[q] = t.byOperation[q]
    BY <1>t, <1>u, <1>0, <1>1, TakenFacts
  <1>8. table' \in [Ends -> Tables]
    BY <1>p, <1>t, <1>u, <1>0, <1>7 DEF Submit, TypeOK, Ends
  <1>9. \A q \in Operations, g \in Frames : HeldAt(u, q, g) <=> HeldAt(t, q, g) /\ q # o
    BY <1>7 DEF HeldAt
  <1>10. \A q \in Operations, g \in Frames : HeldAt(t, q, g) /\ (q = o \/ g = f) => q = o /\ g = f
    <2> TAKE q \in Operations, g \in Frames
    <2> HAVE HeldAt(t, q, g) /\ (q = o \/ g = f)
    <2>1. t.byFrame[g] = q
      BY <1>0 DEF Mirror, HeldAt
    <2>2. CASE o \in Held(t)
      <3>1. t.byOperation[o].frame = f
        BY <1>1, <2>2 DEF SubmitMatches
      <3>2. t.byFrame[f] = o
        BY <1>0, <2>2, <3>1 DEF Mirror
      <3> QED
        BY <2>1, <3>1, <3>2 DEF HeldAt
    <2>3. CASE o \notin Held(t)
      <3>1. t.byFrame[f] = None
        BY <1>1, <2>3 DEF SubmitMatches
      <3> QED
        BY <2>1, <2>3, <3>1, ValuesAssumption DEF HeldAt
    <2> QED
      BY <2>2, <2>3
  <1>11. nextFrame \in Nat /\ f \in Nat /\ nextFrame' \in Frames
    BY <1>0, <1>1, <1>5, LimitsAssumption DEF TypeOK, Frames
  <1>12. TypeOK'
    BY <1>0, <1>2, <1>3, <1>4, <1>5, <1>8, <1>11, AppendFacts DEF TypeOK
  <1>13. \A ty, q, g : UnderWay(ty, q, g)' <=>
           UnderWay(ty, q, g) \/ (ty = "FRAME_SUBMIT" /\ q = o /\ g = f)
    BY <1>0, <1>2, <1>3, UnderWayAppend
  <1>14. \A q, g : Sent(q, g)' <=> Sent(q, g) \/ (q = o /\ g = f)
    BY <1>4, <1>13 DEF Sent
  <1>15. MapsMirror'
    BY <1>6, <1>7 DEF IInv, MapsMirror, Ends
  <1>16. \A q \in Operations, g \in Frames : Sent(q, g) => q # o /\ g # f
    BY <1>1, <1>11 DEF IInv, SubmittedIsOld, Frames
  <1>17. ReservedIsFresh'
    BY <1>p, <1>t, <1>u, <1>5, <1>6, <1>9, <1>10, <1>14 DEF IInv, ReservedIsFresh
  <1>18. SubmittedIsOld'
    <2>1. \A q \in Operations, g \in Frames : Sent(q, g) => q \in seen /\ g < nextFrame
      BY DEF IInv, SubmittedIsOld
    <2>2. \A g \in Frames : g \in Nat
      BY DEF Frames
    <2> QED
      BY <1>1, <1>5, <1>11, <1>14, <2>1, <2>2 DEF SubmittedIsOld
  <1>19. NoDeadlineYet'
    BY <1>4 DEF IInv, NoDeadlineYet
  <1>20. NoDuplicateSubmission'
    BY <1>0, <1>2, <1>3, <1>4, <1>16, DistinctAppend, ZenonT(30) DEF IInv, TypeOK
  <1>21. PairsAreBound'
    <2>1. Healthy' => Healthy
      BY <1>4, <1>6 DEF Healthy
    <2>2. \A q \in Operations, g \in Frames : Bound(q, g) => Bound(q, g)'
      BY <1>p, <1>t, <1>u, <1>6, <1>9, <1>10, <1>14, ZenonT(30) DEF Bound
    <2>3. \A q \in Operations : submitted'[q] = IF q = o THEN f ELSE submitted[q]
      BY <1>0, <1>5 DEF TypeOK
    <2> QED
      BY <1>6, <1>13, <1>14, <2>1, <2>2, <2>3, ZenonT(30) DEF IInv, PairsAreBound
  <1>22. PromiseIsKept'
    <2>1. \A q \in Operations : ServerDeadline(q)' = ServerDeadline(q)
      BY <1>4, <1>6 DEF ServerDeadline
    <2> QED
      BY <1>0, <1>2, <1>3, <1>4, <2>1, PromiseAppend DEF IInv
  <1> QED
    BY <1>12, <1>15, <1>17, <1>18, <1>19, <1>20, <1>21, <1>22 DEF IInv

LEMMA SubmitFailsStep ==
    ASSUME IInv, NEW o \in Operations, NEW f \in Frames, SubmitFails(o, f)
    PROVE  IInv'
  <1>t. PICK t : t = table["client"]
    OBVIOUS
  <1>u. PICK u : u = Taken(t, o, f)
    OBVIOUS
  <1>0. TypeOK /\ t \in Tables /\ Mirror(t)
    BY <1>t DEF IInv, TypeOK, MapsMirror, Ends
  <1>1. UNCHANGED <<clock, nextFrame, seen, submitted, toServer, toClient, broken, registered, done,
                    deadline, promised>>
    BY DEF SubmitFails, clientVars, serverVars
  <1>2. table'["client"] = u /\ table'["server"] = table["server"]
    BY <1>t, <1>u, <1>0 DEF SubmitFails, TypeOK, Ends
  <1>3. spoiled' = spoiled \cup (Held(t) \ Held(u))
    BY <1>t, <1>u, <1>2 DEF SubmitFails
  <1>4. /\ u \in Tables /\ Mirror(u)
        /\ Held(u) \subseteq Held(t)
        /\ \A q \in Held(u) : u.byOperation[q] = t.byOperation[q]
        /\ Held(u) = Held(t) => u = t
    BY <1>t, <1>u, <1>0, TakenFacts
  <1>5. table' \in [Ends -> Tables]
    BY <1>t, <1>u, <1>0, <1>4 DEF SubmitFails, TypeOK, Ends
  <1>6. TypeOK'
    BY <1>0, <1>1, <1>3, <1>5 DEF TypeOK, Held
  <1>7. \A q \in Operations, g \in Frames : HeldAt(u, q, g) => HeldAt(t, q, g)
    BY <1>4 DEF HeldAt
  <1>8. \A ty, q, g : UnderWay(ty, q, g)' <=> UnderWay(ty, q, g)
    BY <1>1 DEF UnderWay
  <1>9. \A q, g : Sent(q, g)' <=> Sent(q, g)
    BY <1>1, <1>8 DEF Sent
  <1>10. MapsMirror'
    BY <1>2, <1>4 DEF IInv, MapsMirror, Ends
  <1>11. ReservedIsFresh' /\ SubmittedIsOld' /\ NoDeadlineYet'
    BY <1>t, <1>u, <1>1, <1>2, <1>7, <1>9 DEF IInv, ReservedIsFresh, SubmittedIsOld, NoDeadlineYet
  <1>12. NoDuplicateSubmission'
    BY <1>1 DEF IInv, NoDuplicateSubmission, FrameInUse
  <1>13. PairsAreBound'
    <2> SUFFICES ASSUME Healthy' PROVE PairsAreBound'
      BY DEF PairsAreBound
    <2>1. spoiled = {} /\ Held(u) = Held(t)
      BY <1>3, <1>4 DEF Healthy
    <2>2. table'["client"] = t
      BY <1>2, <1>4, <2>1
    <2>3. Healthy
      BY <1>1, <1>2, <2>1 DEF Healthy
    <2>4. \A q, g : Bound(q, g)' <=> Bound(q, g)
      BY <1>t, <1>u, <1>9, <2>2 DEF Bound
    <2> QED
      BY <1>1, <1>2, <1>8, <1>9, <2>3, <2>4, ZenonT(30) DEF IInv, PairsAreBound
  <1>14. PromiseIsKept'
    <2>1. \A i, q : DeadlineAt(i, q)' <=> DeadlineAt(i, q)
      BY <1>1 DEF DeadlineAt
    <2>2. \A q : ServerDeadline(q)' = ServerDeadline(q)
      BY <1>1, <1>2 DEF ServerDeadline
    <2>3. \A q \in Operations \ spoiled' : q \in Operations \ spoiled
      BY <1>3
    <2> QED
      BY <1>1, <2>1, <2>2, <2>3 DEF IInv, PromiseIsKept
  <1> QED
    BY <1>6, <1>10, <1>11, <1>12, <1>13, <1>14 DEF IInv

LEMMA ServerReadsDeadlineStep ==
    ASSUME IInv, ServerReadsDeadline
    PROVE  IInv'
  <1>p. PICK p : p = Head(toServer)
    OBVIOUS
  <1>o. PICK o : o = p.operation
    OBVIOUS
  <1>f. PICK f : f = p.frame
    OBVIOUS
  <1>now. PICK now : now = clock["server"]
    OBVIOUS
  <1>t. PICK t : t = table["server"]
    OBVIOUS
  <1>u. PICK u : u = Reserved(t, f, o, p.deadline)
    OBVIOUS
  <1> DEFINE updates == registered[o] = f /\ o \notin done /\ ~Expired(t, now)
             reserves == /\ registered[o] = None /\ ~FrameInUse(f)
                         /\ CanReserve(t, ServerLimit, f, o, p.deadline, now)
  <1>0. TypeOK /\ toServer \in Seq(Packets) /\ t \in Tables /\ Mirror(t)
    BY <1>t DEF IInv, TypeOK, MapsMirror, Ends
  <1>1. toServer # << >> /\ p.type = "DEADLINE" /\ toServer' = Tail(toServer)
    BY <1>p, ZenonT(30) DEF ServerReadsDeadline
  <1>2. /\ deadline' = IF updates THEN [deadline EXCEPT ![o] = p.deadline] ELSE deadline
        /\ table' = IF reserves THEN [table EXCEPT !["server"] = u] ELSE table
        /\ spoiled' = IF updates \/ reserves THEN spoiled ELSE spoiled \cup {o}
    BY <1>f, <1>now, <1>t, <1>u, <1>p, <1>o, ZenonT(30) DEF ServerReadsDeadline
  <1>3. UNCHANGED <<clock, nextFrame, seen, submitted, toClient, broken, registered, done, promised>>
    BY ZenonT(30) DEF ServerReadsDeadline, clientVars
  <1>4. p \in Packets /\ Tail(toServer) \in Seq(Packets)
    BY <1>p, <1>0, <1>1, TailFacts
  <1>5. o \in Operations /\ f \in Frames /\ p.deadline \in Instants
    BY <1>p, <1>o, <1>f, <1>1, <1>4, PacketFacts
  <1>6. reserves => o \notin Held(t) /\ t.byFrame[f] = None /\ ~Expired(t, now) /\ registered[o] = None
    BY DEF CanReserve
  <1>7. updates => registered[o] # None /\ ~Expired(t, now)
    BY <1>5, ValuesAssumption DEF Frames
  <1>8. /\ u \in Tables
        /\ Held(u) = Held(t) \cup {o}
        /\ u.byOperation[o] = [frame |-> f, deadline |-> p.deadline]
        /\ \A q \in Operations \ {o} : u.byOperation[q] = t.byOperation[q]
    BY <1>p, <1>o, <1>f, <1>t, <1>u, <1>0, <1>5, ReservedFacts
  <1>9. reserves => Mirror(u)
    BY <1>u, <1>0, <1>5, <1>6, ReservedMirror, ZenonT(30)
  <1> HIDE DEF reserves, updates
  <1>10. /\ table'["client"] = table["client"]
         /\ table'["server"] = IF reserves THEN u ELSE t
         /\ table' \in [Ends -> Tables]
    BY <1>t, <1>u, <1>0, <1>2, <1>8 DEF TypeOK, Ends
  <1>11. deadline' \in [Operations -> Instants \cup {None}]
    BY <1>0, <1>2, <1>5 DEF TypeOK
  <1>12. /\ u.byOperation[o].frame = f
         /\ u.byOperation[o].deadline = p.deadline
    BY <1>8
  <1>13. /\ \A q \in Operations \ {o} : deadline'[q] = deadline[q]
         /\ updates => deadline'[o] = p.deadline
         /\ ~updates => deadline'[o] = deadline[o]
    BY <1>0, <1>2, <1>5 DEF TypeOK
  <1>14. spoiled \subseteq spoiled' /\ spoiled' \subseteq Operations /\ (~updates /\ ~reserves => o \in spoiled')
    BY <1>0, <1>2, <1>5 DEF TypeOK
  <1>15. \A ty, q, g : UnderWay(ty, q, g) <=>
           UnderWay(ty, q, g)' \/ (ty = "DEADLINE" /\ q = o /\ g = f)
    BY <1>p, <1>now, <1>t, <1>u, <1>o, <1>f, <1>0, <1>1, UnderWayTail
  <1>16. \A q \in Operations : DeadlineAt(1, q) <=> q = o
    BY <1>p, <1>f, <1>now, <1>t, <1>u, <1>o, <1>0, <1>1, DeadlineTail
  <1>17. NoDuplicateSubmission'
    BY <1>0, <1>1, <1>3, DistinctTail DEF IInv
  <1>18. TypeOK'
    BY <1>0, <1>1, <1>3, <1>4, <1>10, <1>11, <1>14 DEF TypeOK
  <1>19. \A q, g : Sent(q, g)' <=> Sent(q, g)
    BY <1>3, <1>15 DEF Sent
  <1>20. MapsMirror'
    <2>1. Mirror(table["client"])
      BY DEF IInv, MapsMirror, Ends
    <2>2. Mirror(table'["server"])
      BY <1>0, <1>9, <1>10
    <2> QED
      BY <1>10, <2>1, <2>2 DEF MapsMirror, Ends
  <1>21. ReservedIsFresh' /\ SubmittedIsOld'
    BY <1>3, <1>10, <1>19 DEF IInv, ReservedIsFresh, SubmittedIsOld
  <1>22. NoDeadlineYet'
    BY <1>3, <1>5, <1>7, <1>13 DEF IInv, NoDeadlineYet
  <1>23. PairsAreBound'
    <2> SUFFICES ASSUME Healthy' PROVE PairsAreBound'
      BY DEF PairsAreBound
    <2>1. updates \/ reserves
      BY <1>14 DEF Healthy
    <2>2. Healthy
      BY <1>p, <1>o, <1>f, <1>now, <1>t, <1>u, <1>6, <1>7, <1>14, <2>1 DEF Healthy
    <2>3. \A q, g : Bound(q, g)' <=> Bound(q, g)
      BY <1>10, <1>19 DEF Bound
    <2>4. Bound(o, f)
      BY <1>5, <1>15, <2>2 DEF IInv, PairsAreBound
    <2>5. \A q \in Operations, g \in Frames :
            HeldAt(table'["server"], q, g) => HeldAt(t, q, g) \/ (q = o /\ g = f)
      BY <1>8, <1>10, <1>12 DEF HeldAt
    <2> QED
      BY <1>p, <1>o, <1>f, <1>now, <1>t, <1>u, <1>3, <1>15, <1>19, <2>2, <2>3, <2>4, <2>5, ZenonT(30)
        DEF IInv, PairsAreBound
  <1>24. \A q \in Operations \ spoiled' : ServerDeadline(q)' =
           IF DeadlineAt(1, q) THEN p.deadline ELSE ServerDeadline(q)
    <2> TAKE q \in Operations \ spoiled'
    <2>1. CASE q = o
      <3>1. CASE updates
        BY <1>3, <1>7, <1>13, <1>16, <2>1, <3>1 DEF ServerDeadline
      <3>2. CASE reserves
        <4>1. registered'[q] = None /\ q \in Held(table'["server"]) /\ table'["server"] = u
          BY <1>3, <1>6, <1>8, <1>10, <2>1, <3>2
        <4>2. ServerDeadline(q)' = u.byOperation[q].deadline
          BY <4>1 DEF ServerDeadline
        <4> QED
          BY <1>12, <1>16, <2>1, <4>2
      <3> QED
        BY <1>14, <2>1, <3>1, <3>2
    <2>2. CASE q # o
      <3>1. q \in Held(table'["server"]) <=> q \in Held(t)
        BY <1>8, <1>10, <2>2
      <3>2. table'["server"].byOperation[q] = t.byOperation[q]
        BY <1>8, <1>10, <2>2
      <3> QED
        BY <1>p, <1>o, <1>f, <1>now, <1>t, <1>u, <1>3, <1>13, <1>16, <2>2, <3>1, <3>2
          DEF ServerDeadline
    <2> QED
      BY <2>1, <2>2
  <1>25. PromiseIsKept'
    BY <1>p, <1>o, <1>f, <1>now, <1>t, <1>u, <1>0, <1>1, <1>3, <1>14, <1>24, PromiseTail, ZenonT(30) DEF IInv
  <1> QED
    BY <1>17, <1>18, <1>20, <1>21, <1>22, <1>23, <1>25 DEF IInv

LEMMA ServerReadsSubmitStep ==
    ASSUME IInv, ServerReadsSubmit
    PROVE  IInv'
  <1>p. PICK p : p = Head(toServer)
    OBVIOUS
  <1>o. PICK o : o = p.operation
    OBVIOUS
  <1>f. PICK f : f = p.frame
    OBVIOUS
  <1>t. PICK t : t = table["server"]
    OBVIOUS
  <1>u. PICK u : u = Taken(t, o, f)
    OBVIOUS
  <1>0. TypeOK /\ toServer \in Seq(Packets) /\ t \in Tables /\ Mirror(t)
    BY <1>t DEF IInv, TypeOK, MapsMirror, Ends
  <1>1. toServer # << >> /\ p.type = "FRAME_SUBMIT" /\ toServer' = Tail(toServer)
    BY <1>p, ZenonT(30) DEF ServerReadsSubmit
  <1>2. AcceptsSubmit(o, f)
    BY <1>p, <1>f, <1>t, <1>u, <1>o, <1>f, ZenonT(30) DEF ServerReadsSubmit
  <1>3. /\ table' = [table EXCEPT !["server"] = u]
        /\ registered' = [registered EXCEPT ![o] = f]
        /\ deadline' = [deadline EXCEPT ![o] = IF o \in Held(t) THEN t.byOperation[o].deadline ELSE @]
    BY <1>p, <1>u, <1>o, <1>f, <1>t, <1>u DEF ServerReadsSubmit
  <1>4. UNCHANGED <<clock, nextFrame, seen, submitted, toClient, broken, done, promised, spoiled>>
    BY DEF ServerReadsSubmit, clientVars
  <1>5. p \in Packets /\ Tail(toServer) \in Seq(Packets)
    BY <1>p, <1>0, <1>1, TailFacts
  <1>6. o \in Operations /\ f \in Frames
    BY <1>o, <1>f, <1>5, PacketFacts
  <1>7. /\ ~Expired(t, clock["server"]) /\ registered[o] = None /\ SubmitMatches(t, o, f)
        /\ ~FrameInUse(f)
    BY <1>o, <1>f, <1>t, <1>2 DEF AcceptsSubmit
  <1>8. /\ u \in Tables /\ Mirror(u)
        /\ Held(u) = Held(t) \ {o}
        /\ \A q \in Held(u) : u.byOperation[q] = t.byOperation[q]
    <2>1. /\ Taken(t, o, f) \in Tables
          /\ Mirror(Taken(t, o, f))
          /\ \A q \in Held(Taken(t, o, f)) : Taken(t, o, f).byOperation[q] = t.byOperation[q]
          /\ SubmitMatches(t, o, f) => Held(Taken(t, o, f)) = Held(t) \ {o}
      BY <1>0, <1>6, TakenFacts, ZenonT(30)
    <2> QED
      BY <1>u, <1>7, <2>1, ZenonT(30)
  <1>9. /\ table'["client"] = table["client"]
        /\ table'["server"] = u
        /\ table' \in [Ends -> Tables]
    BY <1>0, <1>3, <1>8 DEF TypeOK, Ends
  <1>10. /\ registered' \in [Operations -> Frames \cup {None}]
         /\ \A q \in Operations : registered'[q] = IF q = o THEN f ELSE registered[q]
    BY <1>0, <1>3, <1>6 DEF TypeOK
  <1>11. o \in Held(t) => t.byOperation[o].deadline \in Instants
    BY <1>0, <1>6 DEF Tables, Held, Reservations
  <1>12. /\ deadline' \in [Operations -> Instants \cup {None}]
         /\ \A q \in Operations \ {o} : deadline'[q] = deadline[q]
         /\ deadline'[o] = IF o \in Held(t) THEN t.byOperation[o].deadline ELSE deadline[o]
    BY <1>0, <1>3, <1>6, <1>11 DEF TypeOK
  <1>13. \A ty, q, g : UnderWay(ty, q, g) <=>
           UnderWay(ty, q, g)' \/ (ty = "FRAME_SUBMIT" /\ q = o /\ g = f)
    BY <1>p, <1>t, <1>u, <1>o, <1>f, <1>0, <1>1, UnderWayTail
  <1>14. \A q \in Operations : ~DeadlineAt(1, q)
    BY <1>p, <1>o, <1>f, <1>t, <1>u, <1>0, <1>1, DeadlineTail
  <1>15. \A i \in 1..Len(toServer') : toServer'[i].type = "FRAME_SUBMIT" =>
           toServer'[i].operation # o /\ toServer'[i].frame # f
    BY <1>p, <1>t, <1>u, <1>o, <1>f, <1>0, <1>1, DistinctTail DEF IInv
  <1>16. TypeOK'
    BY <1>0, <1>1, <1>4, <1>5, <1>9, <1>10, <1>12 DEF TypeOK
  <1>17. \A q \in Operations, g \in Frames : Sent(q, g)' <=> Sent(q, g)
    <2> SUFFICES ASSUME NEW q \in Operations, NEW g \in Frames
                 PROVE  Sent(q, g)' <=> Sent(q, g)
      OBVIOUS
    <2>1. Sent(q, g)' <=> UnderWay("FRAME_SUBMIT", q, g)' \/ registered'[q] = g
      BY DEF Sent
    <2>2. UnderWay("FRAME_SUBMIT", q, g) <=> UnderWay("FRAME_SUBMIT", q, g)' \/ (q = o /\ g = f)
      BY <1>13, ZenonT(30)
    <2>3. CASE q = o
      <3>1. registered'[q] = f /\ registered[q] # g
        <4>1. registered'[q] = f
          BY <1>10, <2>3
        <4>2. registered[q] = None
          BY <1>7, <2>3
        <4>3. g # None
          BY FrameIsSome
        <4> QED
          BY <4>1, <4>2, <4>3
      <3> QED
        BY <2>1, <2>2, <2>3, <3>1 DEF Sent
    <2>4. CASE q # o
      <3>1. registered'[q] = registered[q]
        BY <1>10, <2>4
      <3> QED
        BY <2>1, <2>2, <2>4, <3>1 DEF Sent
    <2> QED
      BY <2>3, <2>4
  <1>18. MapsMirror'
    <2>1. Mirror(table["client"])
      BY DEF IInv, MapsMirror, Ends
    <2> QED
      BY <1>8, <1>9, <2>1 DEF MapsMirror, Ends
  <1>19. ReservedIsFresh' /\ SubmittedIsOld'
    BY <1>4, <1>9, <1>17 DEF IInv, ReservedIsFresh, SubmittedIsOld
  <1>20. NoDuplicateSubmission'
    <2>1. \A i \in 1..Len(toServer') :
            i + 1 \in 1..Len(toServer) /\ toServer'[i] = toServer[i + 1]
      BY <1>0, <1>1, TailFacts
    <2> SUFFICES ASSUME NEW i \in 1..Len(toServer'), toServer'[i].type = "FRAME_SUBMIT"
                 PROVE  /\ registered'[toServer'[i].operation] = None
                        /\ \A q \in Operations : registered'[q] # toServer'[i].frame
                        /\ \A j \in 1..Len(toServer') :
                             toServer'[j].type = "FRAME_SUBMIT" /\ j # i =>
                                 /\ toServer'[j].operation # toServer'[i].operation
                                 /\ toServer'[j].frame # toServer'[i].frame
      BY DEF NoDuplicateSubmission, FrameInUse
    <2>2. toServer'[i].operation \in Operations
      BY <1>16, PacketFacts DEF TypeOK
    <2>3. /\ registered[toServer'[i].operation] = None
          /\ \A q \in Operations : registered[q] # toServer'[i].frame
      BY <2>1 DEF IInv, NoDuplicateSubmission, FrameInUse
    <2>4. ASSUME NEW j \in 1..Len(toServer'), toServer'[j].type = "FRAME_SUBMIT", j # i
          PROVE  /\ toServer'[j].operation # toServer'[i].operation
                 /\ toServer'[j].frame # toServer'[i].frame
      <3>1. /\ i + 1 \in 1..Len(toServer) /\ toServer[i + 1].type = "FRAME_SUBMIT"
            /\ j + 1 \in 1..Len(toServer) /\ toServer[j + 1].type = "FRAME_SUBMIT"
            /\ j + 1 # i + 1
        BY <2>1, <2>4
      <3> QED
        BY <2>1, <3>1 DEF IInv, NoDuplicateSubmission
    <2> QED
      BY <1>10, <1>15, <2>2, <2>3, <2>4
  <1>21. NoDeadlineYet'
    <2>1. NoDeadlineYet /\ registered'[o] # None
      BY <1>6, <1>10, FrameIsSome, ZenonT(30) DEF IInv
    <2> QED
      BY <1>10, <1>12, <2>1, ZenonT(30) DEF NoDeadlineYet
  <1>22. PairsAreBound'
    <2> SUFFICES ASSUME Healthy' PROVE PairsAreBound'
      BY DEF PairsAreBound
    <2>1. Healthy
      BY <1>p, <1>o, <1>f, <1>t, <1>u, <1>4, <1>7, ZenonT(30) DEF Healthy
    <2>2. \A q \in Operations, g \in Frames : Bound(q, g)' <=> Bound(q, g)
      BY <1>9, <1>17 DEF Bound
    <2>3. \A q \in Operations, g \in Frames : HeldAt(table'["server"], q, g) => HeldAt(t, q, g)
      BY <1>8, <1>9 DEF HeldAt
    <2> QED
      BY <1>p, <1>o, <1>f, <1>t, <1>u, <1>4, <1>13, <1>17, <2>1, <2>2, <2>3, ZenonT(30) DEF IInv, PairsAreBound
  <1>23. \A q \in Operations : ServerDeadline(q)' = ServerDeadline(q)
    <2> TAKE q \in Operations
    <2>1. CASE q = o
      <3>1. registered'[o] # None /\ deadline[o] = None
        <4>1. NoDeadlineYet /\ registered'[o] # None
          BY <1>6, <1>10, FrameIsSome, ZenonT(30) DEF IInv
        <4> QED
          BY <1>6, <1>7, <4>1, ZenonT(30) DEF NoDeadlineYet
      <3> QED
        BY <1>p, <1>o, <1>f, <1>t, <1>u, <1>7, <1>12, <2>1, <3>1 DEF ServerDeadline
    <2>2. CASE q # o
      <3>1. /\ q \in Held(table'["server"]) <=> q \in Held(t)
            /\ q \in Held(t) => table'["server"].byOperation[q] = t.byOperation[q]
        BY <1>8, <1>9, <2>2
      <3> QED
        BY <1>p, <1>o, <1>f, <1>t, <1>u, <1>10, <1>12, <2>2, <3>1 DEF ServerDeadline
    <2> QED
      BY <2>1, <2>2
  <1>24. PromiseIsKept'
    BY <1>0, <1>1, <1>4, <1>14, <1>23, PromiseTail DEF IInv
  <1> QED
    BY <1>16, <1>18, <1>19, <1>20, <1>21, <1>22, <1>24 DEF IInv

LEMMA ServerRefusesSubmitStep ==
    ASSUME IInv, ServerRefusesSubmit
    PROVE  IInv'
  <1>p. PICK p : p = Head(toServer)
    OBVIOUS
  <1>o. PICK o : o = p.operation
    OBVIOUS
  <1>f. PICK f : f = p.frame
    OBVIOUS
  <1>t. PICK t : t = table["server"]
    OBVIOUS
  <1>u. PICK u : u = Taken(t, o, f)
    OBVIOUS
  <1> DEFINE untouched == Expired(t, clock["server"]) \/ FrameInUse(f)
  <1>0. TypeOK /\ toServer \in Seq(Packets) /\ t \in Tables /\ Mirror(t)
    BY <1>t DEF IInv, TypeOK, MapsMirror, Ends
  <1>1. toServer # << >> /\ p.type = "FRAME_SUBMIT" /\ toServer' = Tail(toServer)
    BY <1>p DEF ServerRefusesSubmit
  <1>2. ~AcceptsSubmit(o, f)
    BY <1>p, <1>f, <1>t, <1>u, <1>o, <1>f DEF ServerRefusesSubmit
  <1>3. /\ table' = IF untouched THEN table ELSE [table EXCEPT !["server"] = u]
        /\ spoiled' = spoiled \cup (Held(t) \ Held(table'["server"]))
    BY <1>p, <1>o, <1>f, <1>u, <1>t, <1>u DEF ServerRefusesSubmit
  <1>4. UNCHANGED <<clock, nextFrame, seen, submitted, toClient, broken, registered, done, deadline,
                    promised>>
    BY DEF ServerRefusesSubmit, clientVars, serverVars
  <1>5. p \in Packets /\ Tail(toServer) \in Seq(Packets)
    BY <1>p, <1>0, <1>1, TailFacts
  <1>6. o \in Operations /\ f \in Frames
    BY <1>o, <1>f, <1>5, PacketFacts
  <1>7. /\ u \in Tables /\ Mirror(u)
        /\ Held(u) \subseteq Held(t)
        /\ \A q \in Held(u) : u.byOperation[q] = t.byOperation[q]
        /\ Held(u) = Held(t) => u = t
    BY <1>t, <1>u, <1>0, <1>6, TakenFacts
  <1>8. ~Healthy
    BY <1>p, <1>o, <1>f, <1>t, <1>u, <1>1, <1>2, HealthyTakes, ZenonT(30)
  <1> HIDE DEF untouched
  <1>9. /\ table'["client"] = table["client"]
        /\ table'["server"] = IF untouched THEN t ELSE u
        /\ table' \in [Ends -> Tables]
    BY <1>t, <1>u, <1>0, <1>3, <1>7 DEF TypeOK, Ends
  <1>10. spoiled \subseteq spoiled' /\ spoiled' \subseteq Operations
    BY <1>0, <1>3 DEF TypeOK, Held
  <1>11. \A q \in Operations \ spoiled' :
           /\ q \in Held(table'["server"]) <=> q \in Held(t)
           /\ q \in Held(t) => table'["server"].byOperation[q] = t.byOperation[q]
    BY <1>3, <1>7, <1>9
  <1>12. \A ty, q, g : UnderWay(ty, q, g)' => UnderWay(ty, q, g)
    BY <1>0, <1>1, UnderWayTail
  <1>13. \A q \in Operations : ~DeadlineAt(1, q)
    BY <1>p, <1>o, <1>f, <1>t, <1>u, <1>0, <1>1, DeadlineTail
  <1>14. NoDuplicateSubmission'
    BY <1>0, <1>1, <1>4, DistinctTail DEF IInv
  <1>15. TypeOK'
    BY <1>0, <1>1, <1>4, <1>5, <1>9, <1>10 DEF TypeOK
  <1>16. \A q, g : Sent(q, g)' => Sent(q, g)
    BY <1>4, <1>12 DEF Sent
  <1>17. MapsMirror'
    <2>1. Mirror(table["client"])
      BY DEF IInv, MapsMirror, Ends
    <2> QED
      BY <1>0, <1>7, <1>9, <2>1 DEF MapsMirror, Ends
  <1>18. ReservedIsFresh' /\ SubmittedIsOld' /\ NoDeadlineYet'
    BY <1>4, <1>9, <1>16, ZenonT(30) DEF IInv, ReservedIsFresh, SubmittedIsOld, NoDeadlineYet
  <1>19. ~Healthy'
    <2>1. CASE spoiled # {}
      BY <1>10, <2>1 DEF Healthy
    <2>2. CASE Expired(t, clock["server"])
      <3>1. table'["server"] = t
        BY <1>9, <2>2 DEF untouched
      <3> QED
        BY <1>4, <2>2, <3>1 DEF Healthy
    <2> QED
      BY <1>p, <1>o, <1>f, <1>t, <1>u, <1>8, <2>1, <2>2 DEF Healthy
  <1>20. PairsAreBound'
    BY <1>19 DEF PairsAreBound
  <1>21. \A q \in Operations \ spoiled' : ServerDeadline(q)' = ServerDeadline(q)
    BY <1>p, <1>o, <1>f, <1>t, <1>u, <1>4, <1>11 DEF ServerDeadline
  <1>22. PromiseIsKept'
    BY <1>0, <1>1, <1>4, <1>10, <1>13, <1>21, PromiseTail DEF IInv
  <1> QED
    BY <1>14, <1>15, <1>17, <1>18, <1>20, <1>22 DEF IInv

LEMMA NextIInv == IInv /\ [Next]_vars => IInv'
  <1> SUFFICES ASSUME IInv, [Next]_vars PROVE IInv'
    OBVIOUS
  <1> USE DEF clientVars, serverVars
  <1>0. TypeOK /\ clock["server"] \in Nat
    BY LimitsAssumption DEF IInv, TypeOK, Ends
  <1>1. ASSUME NEW e \in Ends, Tick(e) PROVE IInv'
    <2>1. clock' \in [Ends -> 0..MaxTime] /\ clock["server"] <= clock'["server"]
      BY <1>0, <1>1, LimitsAssumption DEF Tick, TypeOK, Ends
    <2>2. TypeOK'
      BY <1>0, <1>1, <2>1 DEF Tick, TypeOK
    <2> QED
      BY <1>1, <2>1, <2>2, QuietStep DEF Tick
  <1>2. CASE Break
    <2>1. TypeOK'
      BY <1>0, <1>2 DEF Break, TypeOK
    <2> QED
      BY <1>0, <1>2, <2>1, QuietStep DEF Break
  <1>3. ASSUME NEW o \in Operations, NEW d \in Instants, SendDeadlineUpdate(o, d) PROVE IInv'
    BY <1>3, SendDeadlineUpdateStep
  <1>4. ASSUME NEW o \in Operations, NEW f \in Frames, NEW d \in Instants, SendReservation(o, f, d)
        PROVE  IInv'
    BY <1>4, SendReservationStep
  <1>5. ASSUME NEW o \in Operations, NEW f \in Frames, Submit(o, f) PROVE IInv'
    BY <1>5, SubmitStep
  <1>6. ASSUME NEW o \in Operations, NEW f \in Frames, SubmitFails(o, f) PROVE IInv'
    BY <1>6, SubmitFailsStep
  <1>7. CASE ClientReadsResult
    <2>1. /\ submitted' \in [Operations -> Frames \cup {None}]
          /\ \A o \in Operations : submitted'[o] = submitted[o] \/ submitted'[o] = None
      BY <1>0, <1>7 DEF ClientReadsResult, TypeOK
    <2>2. toClient' \in Seq(Frames)
      BY <1>0, <1>7 DEF ClientReadsResult, TypeOK
    <2>3. TypeOK'
      BY <1>0, <1>7, <2>1, <2>2 DEF ClientReadsResult, TypeOK
    <2> QED
      BY <1>0, <1>7, <2>1, <2>3, QuietStep DEF ClientReadsResult
  <1>8. CASE ServerReadsDeadline
    BY <1>8, ServerReadsDeadlineStep
  <1>9. CASE ServerReadsSubmit
    BY <1>9, ServerReadsSubmitStep
  <1>10. CASE ServerRefusesSubmit
    BY <1>10, ServerRefusesSubmitStep
  <1>11. ASSUME NEW o \in Operations, Complete(o) PROVE IInv'
    <2>1. registered[o] \in Frames
      BY <1>0, <1>11 DEF Complete, TypeOK
    <2>2. toClient' \in Seq(Frames)
      BY <1>0, <1>11, <2>1 DEF Complete, TypeOK
    <2>3. TypeOK'
      BY <1>0, <1>11, <2>2 DEF Complete, TypeOK
    <2> QED
      BY <1>0, <1>11, <2>3, QuietStep DEF Complete
  <1>12. CASE UNCHANGED vars
    <2>1. TypeOK'
      BY <1>0, <1>12 DEF vars, TypeOK
    <2> QED
      BY <1>0, <1>12, <2>1, QuietStep DEF vars
  <1> QED
    BY <1>1, <1>2, <1>3, <1>4, <1>5, <1>6, <1>7, <1>8, <1>9, <1>10, <1>11, <1>12
      DEF Next, ClientNext, ServerNext

LEMMA Inductive == Spec => []IInv
  BY InitIInv, NextIInv, PTL DEF Spec

-----------------------------------------------------------------------------

\* TypeOK, for any number of operations, frames and packets.
THEOREM TypeCorrect == Spec => []TypeOK
  <1>1. IInv => TypeOK
    BY DEF IInv
  <1> QED
    BY <1>1, Inductive, PTL

\* by_operation and by_frame stay inverse to each other through every reserve,
\* take_for_submit and discard at both ends.
THEOREM Mirrored == Spec => []MapsMirror
  <1>1. IInv => MapsMirror
    BY DEF IInv
  <1> QED
    BY <1>1, Inductive, PTL

\* The client writes no operation id and no frame id twice.
THEOREM Distinct == Spec => []NoDuplicateSubmission
  <1>1. IInv => NoDuplicateSubmission
    BY DEF IInv
  <1> QED
    BY <1>1, Inductive, PTL

\* The server has the deadline the client wrote last, once it has read
\* everything the client wrote about the operation.
THEOREM DeadlinesArrive == Spec => []DeadlineReachesOperation
  <1>1. IInv => DeadlineReachesOperation
    <2> SUFFICES ASSUME IInv, NEW o \in Operations, registered[o] # None, o \notin spoiled, Settled(o)
                 PROVE  deadline[o] = promised[o]
      BY DEF DeadlineReachesOperation
    <2>1. \A i \in 1..Len(toServer) : ~DeadlineAt(i, o)
      BY DEF Settled, DeadlineAt
    <2>2. ServerDeadline(o) = promised[o]
      BY <2>1 DEF IInv, PromiseIsKept
    <2> QED
      BY <2>2 DEF ServerDeadline
  <1> QED
    BY <1>1, Inductive, PTL

\* A submission is refused only after a reservation was refused, dropped or
\* has expired.
THEOREM SubmissionsTaken == Spec => []SubmissionsAreTaken
  <1>1. IInv => SubmissionsAreTaken
    BY HealthyTakes DEF SubmissionsAreTaken, Healthy
  <1> QED
    BY <1>1, Inductive, PTL

-----------------------------------------------------------------------------

\* A table that has expired refuses everything, whatever the step.
LEMMA ExpiredStep ==
    ASSUME TypeOK, Next, NEW e \in Ends, Expired(table[e], clock[e])
    PROVE  /\ table'[e] = table[e]
           /\ e = "client" => seen' = seen
           /\ e = "server" => registered' = registered
  <1> USE DEF clientVars, serverVars
  <1>1. CASE \E k \in Ends : Tick(k)
    BY <1>1 DEF Tick
  <1>2. CASE Break
    BY <1>2 DEF Break
  <1>3. ASSUME NEW o \in Operations, NEW d \in Instants, SendDeadlineUpdate(o, d)
        PROVE  UNCHANGED <<table, seen, registered>>
    BY <1>3 DEF SendDeadlineUpdate
  <1>4. ASSUME NEW o \in Operations, NEW f \in Frames, NEW d \in Instants, SendReservation(o, f, d)
        PROVE  e = "server" /\ table'["server"] = table["server"] /\ UNCHANGED registered
    BY <1>4 DEF SendReservation, CanReserve, TypeOK, Ends
  <1>5. ASSUME NEW o \in Operations, NEW f \in Frames, Submit(o, f) \/ SubmitFails(o, f)
        PROVE  e = "server" /\ table'["server"] = table["server"] /\ UNCHANGED registered
    BY <1>5 DEF Submit, SubmitFails, CanSubmit, TypeOK, Ends
  <1>6. CASE ClientReadsResult
    BY <1>6 DEF ClientReadsResult
  <1>7. CASE ServerReadsDeadline
    <2>1. table'["client"] = table["client"] /\ UNCHANGED <<seen, registered>>
      BY <1>7, ZenonT(30) DEF ServerReadsDeadline, TypeOK, Ends
    <2>2. e = "server" => table' = table
      BY <1>7, ZenonT(30) DEF ServerReadsDeadline, CanReserve
    <2> QED
      BY <2>1, <2>2 DEF Ends
  <1>8. CASE ServerReadsSubmit
    <2>1. e = "client"
      BY <1>8, ZenonT(30) DEF ServerReadsSubmit, AcceptsSubmit, Ends
    <2> QED
      BY <1>8, <2>1 DEF ServerReadsSubmit, TypeOK, Ends
  <1>9. CASE ServerRefusesSubmit
    <2>1. table'["client"] = table["client"] /\ UNCHANGED <<seen, registered>>
      BY <1>9 DEF ServerRefusesSubmit, TypeOK, Ends
    <2>2. e = "server" => table' = table
      BY <1>9 DEF ServerRefusesSubmit
    <2> QED
      BY <2>1, <2>2 DEF Ends
  <1>10. ASSUME NEW o \in Operations, Complete(o) PROVE UNCHANGED <<table, seen, registered>>
    BY <1>10 DEF Complete
  <1> QED
    BY <1>1, <1>2, <1>3, <1>4, <1>5, <1>6, <1>7, <1>8, <1>9, <1>10 DEF Next, ClientNext, ServerNext

\* An end that holds an expired reservation is stuck with it.
THEOREM ExpiryFinal == Spec => ExpiryIsFinal
  <1>1. TypeOK /\ [Next]_vars =>
          [\A e \in Ends : Expired(table[e], clock[e]) =>
             /\ table'[e] = table[e]
             /\ e = "client" => seen' = seen
             /\ e = "server" => registered' = registered]_vars
    BY ExpiredStep
  <1> QED
    BY <1>1, TypeCorrect, PTL DEF Spec, ExpiryIsFinal

-----------------------------------------------------------------------------
(***************************************************************************)
(* Each end holds at most as many reservations as its                      *)
(* max_in_flight_operations.                                               *)
(***************************************************************************)

\* The reservations an end holds are finitely many.
LEMMA HeldIsFinite ==
    ASSUME NEW t
    PROVE  IsFiniteSet(Held(t)) /\ Cardinality(Held(t)) \in Nat
  <1>1. IsFiniteSet(Held(t))
    BY LimitsAssumption, FS_Subset DEF Held
  <1> QED
    BY <1>1, FS_CardinalityType

LEMMA ReservedHeld ==
    ASSUME NEW t \in Tables, NEW f \in Frames, NEW o \in Operations, NEW d \in Instants
    PROVE  Held(Reserved(t, f, o, d)) = Held(t) \cup {o}
  <1> DEFINE u == Reserved(t, f, o, d)
  <1>1. /\ Held(u) = Held(t) \cup {o}
        /\ u.byOperation[o] = [frame |-> f, deadline |-> d]
        /\ \A p \in Operations \ {o} : u.byOperation[p] = t.byOperation[p]
    BY ReservedFacts
  <1> QED
    BY <1>1

LEMMA ReservedCount ==
    ASSUME NEW t \in Tables, NEW f \in Frames, NEW o \in Operations, NEW d \in Instants,
           NEW limit \in Nat, o \notin Held(t), Cardinality(Held(t)) < limit
    PROVE  Cardinality(Held(Reserved(t, f, o, d))) <= limit
  <1>1. Held(Reserved(t, f, o, d)) = Held(t) \cup {o}
    BY ReservedHeld
  <1>2. Cardinality(Held(t) \cup {o}) = Cardinality(Held(t)) + 1
    BY HeldIsFinite, FS_AddElement, ZenonT(30)
  <1> QED
    BY <1>1, <1>2, HeldIsFinite

LEMMA TakenCount ==
    ASSUME NEW t \in Tables, NEW o \in Operations, NEW f \in Frames, Mirror(t),
           NEW limit \in Nat, Cardinality(Held(t)) <= limit
    PROVE  Cardinality(Held(Taken(t, o, f))) <= limit
  <1>1. Held(Taken(t, o, f)) \subseteq Held(t)
    BY TakenFacts
  <1>2. Cardinality(Held(Taken(t, o, f))) <= Cardinality(Held(t))
    BY <1>1, HeldIsFinite, FS_Subset
  <1> QED
    BY <1>2, HeldIsFinite

LEMMA LimitStep == IInv /\ WithinLimit /\ [Next]_vars => WithinLimit'
  <1> SUFFICES ASSUME IInv, WithinLimit, [Next]_vars PROVE WithinLimit'
    OBVIOUS
  <1> DEFINE C(t, limit) == Cardinality(Held(t)) <= limit
  <1>0. /\ ClientLimit \in Nat /\ ServerLimit \in Nat
        /\ table["client"] \in Tables /\ table["server"] \in Tables
        /\ Mirror(table["client"]) /\ Mirror(table["server"])
        /\ table = [e \in Ends |-> table[e]]
    BY LimitsAssumption DEF IInv, TypeOK, MapsMirror, Ends
  <1>1. C(table["client"], ClientLimit) /\ C(table["server"], ServerLimit)
    BY DEF WithinLimit, Limit, Ends
  <1>2. ASSUME C(table'["client"], ClientLimit), C(table'["server"], ServerLimit)
        PROVE  WithinLimit'
    BY <1>2 DEF WithinLimit, Limit, Ends
  <1>3. ASSUME table' = table PROVE WithinLimit'
    BY <1>1, <1>2, <1>3
  <1>4. ASSUME NEW o \in Operations, NEW f \in Frames, NEW d \in Instants, SendReservation(o, f, d)
        PROVE  WithinLimit'
    <2>1. /\ table'["client"] = Reserved(table["client"], f, o, d)
          /\ table'["server"] = table["server"]
          /\ o \notin Held(table["client"]) /\ Cardinality(Held(table["client"])) < ClientLimit
      BY <1>0, <1>4 DEF SendReservation, CanReserve, Ends
    <2> QED
      BY <1>0, <1>1, <1>2, <2>1, ReservedCount
  <1>5. ASSUME NEW o \in Operations, NEW f \in Frames, Submit(o, f) \/ SubmitFails(o, f)
        PROVE  WithinLimit'
    <2>1. /\ table'["client"] = Taken(table["client"], o, f)
          /\ table'["server"] = table["server"]
      BY <1>0, <1>5 DEF Submit, SubmitFails, Ends
    <2> QED
      BY <1>0, <1>1, <1>2, <2>1, TakenCount
  <1>6. ASSUME toServer # << >>, NEW p, p = Head(toServer)
        PROVE  /\ p.operation \in Operations /\ p.frame \in Frames
               /\ p.type = "DEADLINE" => p.deadline \in Instants
    BY <1>6, TailFacts, PacketFacts DEF IInv, TypeOK
  <1>7. CASE ServerReadsDeadline
    <2> DEFINE p == Head(toServer)
    <2>1. CASE table' = table
      BY <1>3, <2>1
    <2>2. CASE table' # table
      <3>1. /\ table' = [table EXCEPT !["server"] = Reserved(@, p.frame, p.operation, p.deadline)]
            /\ p.operation \notin Held(table["server"])
            /\ Cardinality(Held(table["server"])) < ServerLimit
            /\ toServer # << >> /\ p.type = "DEADLINE"
        BY <1>7, <2>2, ZenonT(30) DEF ServerReadsDeadline, CanReserve
      <3>2. /\ table'["server"] = Reserved(table["server"], p.frame, p.operation, p.deadline)
            /\ table'["client"] = table["client"]
        BY <1>0, <3>1 DEF Ends
      <3>3. p.operation \in Operations /\ p.frame \in Frames /\ p.deadline \in Instants
        BY <1>6, <3>1
      <3> HIDE DEF p
      <3> QED
        BY <1>0, <1>1, <1>2, <3>1, <3>2, <3>3, ReservedCount
    <2> QED
      BY <2>1, <2>2
  <1>8. CASE ServerReadsSubmit \/ ServerRefusesSubmit
    <2> DEFINE p == Head(toServer)
    <2>1. CASE table' = table
      BY <1>3, <2>1
    <2>2. CASE table' # table
      <3>1. /\ table' = [table EXCEPT !["server"] = Taken(@, p.operation, p.frame)]
            /\ toServer # << >>
        BY <1>8, <2>2, ZenonT(30) DEF ServerReadsSubmit, ServerRefusesSubmit
      <3>2. /\ table'["server"] = Taken(table["server"], p.operation, p.frame)
            /\ table'["client"] = table["client"]
        BY <1>0, <3>1 DEF Ends
      <3>3. p.operation \in Operations /\ p.frame \in Frames
        BY <1>6, <3>1
      <3> HIDE DEF p
      <3> QED
        BY <1>0, <1>1, <1>2, <3>2, <3>3, TakenCount
    <2> QED
      BY <2>1, <2>2
  <1>9. CASE \/ \E e \in Ends : Tick(e)
             \/ Break
             \/ \E o \in Operations, d \in Instants : SendDeadlineUpdate(o, d)
             \/ ClientReadsResult
             \/ \E o \in Operations : Complete(o)
             \/ UNCHANGED vars
    <2>1. table' = table
      BY <1>9 DEF Tick, Break, SendDeadlineUpdate, ClientReadsResult, Complete, vars
    <2> QED
      BY <1>3, <2>1
  <1> QED
    BY <1>4, <1>5, <1>7, <1>8, <1>9 DEF Next, ClientNext, ServerNext

\* Neither end ever holds more reservations than its limit.
THEOREM Limited == Spec => []WithinLimit
  <1>1. Init => WithinLimit
    <2> SUFFICES ASSUME Init, NEW e \in Ends PROVE Cardinality(Held(table[e])) <= Limit(e)
      BY DEF WithinLimit
    <2>1. Held(table[e]) = {}
      BY DEF Init, Held, Empty
    <2>2. Cardinality({}) = 0
      BY FS_EmptySet
    <2>3. Limit(e) \in Nat
      BY LimitsAssumption DEF Limit
    <2> QED
      BY <2>1, <2>2, <2>3
  <1> QED
    BY <1>1, LimitStep, Inductive, PTL DEF Spec

=============================================================================
