-------------------------- MODULE MultiplexProofs ---------------------------
(***************************************************************************)
(* Proofs about the driver of Multiplex, for any session ids and any       *)
(* bounds: its maps are well typed, the failure of the carrier is the last *)
(* event of every session, packets are kept only for an id that awaits its *)
(* registration, every data packet that arrives for an open session        *)
(* reaches its transport once and in order, and, as long as an id is not   *)
(* registered while a transport of it is open, no Unregister takes a       *)
(* transport away that is in use.                                          *)
(***************************************************************************)
EXTENDS Multiplex, TLAPS

\* The provers each step is tried with in turn, and the time they have.
USE SMTT(30), ZenonT(20), Z3T(30)

\* Position i of the command channel holds a registration, or an Unregister, of s.
RegistersAt(i, s) ==
    commands[i].type = "Register" /\ handle[commands[i].transport].session = s

UnregistersAt(j, s) == commands[j].type = "Unregister" /\ commands[j].session = s

\* A queued registration is that of a transport in use.
QueuedIsUsed ==
    \A i \in 1..Len(commands) : commands[i].type = "Register" =>
        handle[commands[i].transport].phase # "unused"

\* The driver's map leads from an id to a transport of that id.
HeldIsUsed ==
    \A s \in SessionIds : sessions[s] # NoTransport =>
        handle[sessions[s]].phase # "unused" /\ handle[sessions[s]].session = s

\* While the carrier works nobody was told of a failure.
NoFailureYet ==
    driver = "running" =>
        \A t \in Transports : \A i \in 1..Len(events[t]) : events[t][i] # Failed

\* No Unregister is under way for the id of an open transport, and no packet
\* is about to be taken while a registration of the id is queued.
OpenIsSafe ==
    \A t \in Transports : handle[t].phase = "open" =>
        \A i \in 1..Len(commands) :
            /\ ~UnregistersAt(i, handle[t].session)
            /\ RegistersAt(i, handle[t].session) => ~polled

\* A registration that an Unregister of the same id follows in the channel will be
\* refused: the id is taken, and nothing frees it before the driver comes to it.
OvertakenIsRefused ==
    \A i, j \in 1..Len(commands) : \A s \in SessionIds :
        i < j /\ RegistersAt(i, s) /\ UnregistersAt(j, s) =>
            /\ sessions[s] # NoTransport
            /\ ~polled
            /\ \A k \in 1..(i - 1) : ~UnregistersAt(k, s)

MapInv == TypeOK /\ PendingIsAwaited /\ QueuedIsUsed /\ HeldIsUsed

FailureInv == MapInv /\ NoFailureYet /\ FailureIsLast

RegistrationInv == MapInv /\ OpenIsRegistered /\ OpenIsSafe /\ OvertakenIsRefused

-----------------------------------------------------------------------------
(***************************************************************************)
(* Facts about the channel and the types.                                  *)
(***************************************************************************)

LEMMA BoundsAreNat ==
    /\ MaxTransports \in Nat /\ MaxArrived \in Nat /\ MaxCommands \in Nat /\ MaxPending \in Nat
    /\ NoTransport \notin Transports
  BY BoundsAssumption DEF Transports, NoTransport

\* The commands of each kind.
LEMMA CommandFacts ==
    /\ \A t \in Transports : [type |-> "Register", transport |-> t] \in Commands
    /\ \A s \in SessionIds : [type |-> "Unregister", session |-> s] \in Commands
    /\ \A a \in SessionIds \cup {0} : [type |-> "Write", openAck |-> a] \in Commands
    /\ [type |-> "Close"] \in Commands
    /\ \A c \in Commands : /\ c.type = "Register" => c.transport \in Transports
                           /\ c.type = "Unregister" => c.session \in SessionIds
                           /\ c.type = "Write" => c.openAck \in SessionIds \cup {0}
  BY DEF Commands

\* Taking the head of the channel moves every other command one place forward.
LEMMA TailFacts ==
    ASSUME NEW S, NEW q \in Seq(S), q # <<>>
    PROVE  /\ Head(q) = q[1] /\ Head(q) \in S /\ 1 \in 1..Len(q)
           /\ Tail(q) \in Seq(S) /\ Len(Tail(q)) = Len(q) - 1
           /\ \A i \in 1..Len(Tail(q)) : i + 1 \in 1..Len(q) /\ Tail(q)[i] = q[i + 1]
  OBVIOUS

\* Appending leaves what is there in its place.
LEMMA AppendFacts ==
    ASSUME NEW S, NEW q \in Seq(S), NEW x \in S
    PROVE  /\ Append(q, x) \in Seq(S) /\ Len(Append(q, x)) = Len(q) + 1
           /\ \A i \in 1..Len(q) : Append(q, x)[i] = q[i]
           /\ Append(q, x)[Len(q) + 1] = x
           /\ Append(q, x) # <<>>
  OBVIOUS

\* A bound grows with what it bounds.
LEMMA StillWithin ==
    ASSUME NEW n \in Nat, NEW l \in Nat, n <= l
    PROVE  n <= l + 1
  OBVIOUS

\* What the end of the task leaves behind.
LEMMA StopFacts ==
    ASSUME TypeOK, Stop
    PROVE  /\ driver' = "stopped" /\ polled' = FALSE /\ commands' = <<>>
           /\ sessions' \in [SessionIds -> Transports \cup {NoTransport}]
           /\ \A s \in SessionIds : sessions'[s] = NoTransport /\ pending'[s] = <<>>
           /\ awaiting' \subseteq SessionIds
           /\ pending' \in [SessionIds -> Seq(1..MaxArrived)]
           /\ commands' \in Seq(Commands)
           /\ handle' \in [Transports -> Handles]
           /\ \A t \in Transports : handle'[t].phase \in {handle[t].phase, "gone"}
  BY DEF TypeOK, Stop, Handles, Phases

LEMMA BroadcastFacts ==
    ASSUME TypeOK, Broadcast
    PROVE  /\ events' \in [Transports -> Seq(0..MaxArrived)]
           /\ \A t \in Transports : events'[t] \in {events[t], Append(events[t], Failed)}
           /\ \A t \in Transports :
                (\E s \in SessionIds : sessions[s] = t) => events'[t] = Append(events[t], Failed)
  <1>1. Failed \in 0..MaxArrived
    BY BoundsAreNat DEF Failed
  <1>2. \A t \in Transports : Append(events[t], Failed) \in Seq(0..MaxArrived)
    BY <1>1 DEF TypeOK
  <1> QED
    BY <1>2, ZenonT(30) DEF TypeOK, Broadcast

LEMMA InitTyped == Init => MapInv
  <1> SUFFICES ASSUME Init PROVE MapInv
    OBVIOUS
  <1>1. TypeOK
    <2>1. /\ polled \in BOOLEAN /\ connection \in BOOLEAN
          /\ polled => driver = "running"
      BY ZenonT(30) DEF Init
    <2>2. opened \in [SessionIds -> 0..MaxArrived] /\ cause \in SessionIds \cup {0}
      BY BoundsAreNat DEF Init
    <2>3. /\ pending \in [SessionIds -> Seq(1..MaxArrived)]
          /\ events \in [Transports -> Seq(0..MaxArrived)]
          /\ commands \in Seq(Commands) /\ arrived \in Seq(Packets) /\ Len(arrived) = 0
      BY DEF Init
    <2>4. /\ driver \in {"running", "failed", "stopped"}
          /\ sessions \in [SessionIds -> Transports \cup {NoTransport}]
          /\ awaiting \subseteq SessionIds /\ closed \subseteq SessionIds
          /\ handle \in [Transports -> Handles]
      BY DEF Init, Handles, Phases
    <2> QED
      BY <2>1, <2>2, <2>3, <2>4, BoundsAreNat DEF TypeOK
  <1> QED
    BY <1>1, BoundsAreNat DEF Init, MapInv, PendingIsAwaited, QueuedIsUsed, HeldIsUsed

-----------------------------------------------------------------------------
(***************************************************************************)
(* The maps.                                                               *)
(***************************************************************************)

\* Where a new command goes.
LEMMA SendFacts ==
    ASSUME TypeOK, NEW c \in Commands, Send(c)
    PROVE  /\ driver # "stopped" /\ commands' \in Seq(Commands)
           /\ Len(commands') = Len(commands) + 1
           /\ \A i \in 1..Len(commands) : commands'[i] = commands[i]
           /\ commands'[Len(commands) + 1] = c
  <1>1. commands \in Seq(Commands) /\ commands' = Append(commands, c)
    BY DEF TypeOK, Send
  <1> QED
    BY <1>1, AppendFacts DEF Send

\* What a handle in use is.
LEMMA UsedFacts ==
    ASSUME NEW h \in Handles, h.phase # "unused"
    PROVE  h.session \in SessionIds /\ h.phase \in Phases \ {"unused"}
  BY DEF Handles

\* A transport that changes its phase keeps its session.
LEMMA BecomesFacts ==
    ASSUME TypeOK, NEW t \in Transports, handle[t].phase # "unused",
           NEW p \in Phases \ {"unused"}, Becomes(t, p)
    PROVE  /\ handle' \in [Transports -> Handles]
           /\ handle'[t].phase = p /\ handle'[t].session = handle[t].session
           /\ \A u \in Transports \ {t} : handle'[u] = handle[u]
           /\ handle[t].session \in SessionIds
  BY DEF TypeOK, Becomes, Handles

\* The calls of the handles keep the types.
LEMMA HandleTyped == TypeOK /\ HandleNext => TypeOK'
  <1> SUFFICES ASSUME TypeOK, HandleNext PROVE TypeOK'
    OBVIOUS
  <1> USE DEF driverVars
  <1>1. ASSUME NEW t \in Transports, NEW s \in SessionIds, RegisterSession(t, s)
        PROVE  TypeOK'
    <2>1. commands' \in Seq(Commands)
      BY <1>1, CommandFacts, SendFacts DEF RegisterSession
    <2>2. handle' \in [Transports -> Handles]
      BY <1>1 DEF RegisterSession, Handles, Phases, TypeOK
    <2> QED
      BY <1>1, <2>1, <2>2 DEF RegisterSession, TypeOK
  <1>2. ASSUME NEW t \in Transports, AbandonRegister(t)
        PROVE  TypeOK'
    <2>1. handle' \in [Transports -> Handles]
      BY <1>2, BecomesFacts DEF AbandonRegister, Phases
    <2> QED
      BY <1>2, <2>1 DEF AbandonRegister, TypeOK
  <1>3. ASSUME NEW t \in Transports, DropReceiver(t)
        PROVE  TypeOK'
    <2>1. handle' \in [Transports -> Handles]
      BY <1>3, BecomesFacts DEF DropReceiver, Phases
    <2> QED
      BY <1>3, <2>1 DEF DropReceiver, TypeOK
  <1>4. ASSUME NEW t \in Transports, Unregister(t)
        PROVE  TypeOK'
    <2>1. handle' \in [Transports -> Handles] /\ handle[t].session \in SessionIds
      BY <1>4, BecomesFacts DEF Unregister, Phases
    <2>2. commands' \in Seq(Commands)
      BY <1>4, <2>1, CommandFacts, SendFacts DEF Unregister, TypeOK
    <2> QED
      BY <1>4, <2>1, <2>2 DEF Unregister, TypeOK
  <1>5. ASSUME NEW a \in SessionIds \cup {0}, WritePacket(a)
        PROVE  TypeOK'
    <2>1. commands' \in Seq(Commands)
      BY <1>5, CommandFacts, SendFacts DEF WritePacket
    <2> QED
      BY <1>5, <2>1 DEF WritePacket, TypeOK
  <1>6. CASE CloseConnection
    <2>1. commands' \in Seq(Commands)
      BY <1>6, CommandFacts, SendFacts DEF CloseConnection
    <2> QED
      BY <1>6, <2>1 DEF CloseConnection, TypeOK
  <1>7. CASE DropConnection
    BY <1>7, ZenonT(30) DEF DropConnection, TypeOK
  <1> QED
    BY <1>1, <1>2, <1>3, <1>4, <1>5, <1>6, <1>7 DEF HandleNext

LEMMA OpensFacts ==
    ASSUME TypeOK, NEW s \in SessionIds, NEW n \in 0..MaxArrived, Opens(s, n)
    PROVE  opened' \in [SessionIds -> 0..MaxArrived]
  BY DEF TypeOK, Opens

LEMMA ArrivedFacts ==
    ASSUME TypeOK
    PROVE  /\ Len(arrived) \in 0..MaxArrived
           /\ Len(arrived) < MaxArrived => Len(arrived) + 1 \in 1..MaxArrived
  BY BoundsAreNat DEF TypeOK

\* The driver takes a command: the commands it can be, and what it leaves.
LEMMA TakenFacts ==
    ASSUME TypeOK, commands # <<>>
    PROVE  /\ Head(commands) = commands[1] /\ Head(commands) \in Commands
           /\ 1 \in 1..Len(commands)
           /\ Tail(commands) \in Seq(Commands) /\ Len(Tail(commands)) = Len(commands) - 1
           /\ \A i \in 1..Len(Tail(commands)) :
                i + 1 \in 1..Len(commands) /\ Tail(commands)[i] = commands[i + 1]
  BY TailFacts DEF TypeOK

LEMMA UnpendedFacts ==
    ASSUME TypeOK, NEW s \in SessionIds, Unpended(s)
    PROVE  /\ pending' \in [SessionIds -> Seq(1..MaxArrived)]
           /\ pending'[s] = <<>>
           /\ \A r \in SessionIds \ {s} : pending'[r] = pending[r]
  <1>1. <<>> \in Seq(1..MaxArrived)
    OBVIOUS
  <1> QED
    BY <1>1 DEF TypeOK, Unpended

LEMMA ForgetFacts ==
    ASSUME TypeOK, NEW s \in SessionIds, Forget(s)
    PROVE  /\ sessions' \in [SessionIds -> Transports \cup {NoTransport}]
           /\ sessions'[s] = NoTransport
           /\ \A r \in SessionIds \ {s} : sessions'[r] = sessions[r]
           /\ awaiting' = awaiting \ {s}
           /\ pending' \in [SessionIds -> Seq(1..MaxArrived)]
           /\ pending'[s] = <<>>
           /\ \A r \in SessionIds \ {s} : pending'[r] = pending[r]
  <1>1. Unpended(s)
    BY DEF Forget
  <1> QED
    BY <1>1, UnpendedFacts DEF TypeOK, Forget

\* What a new transport is given before it is put into the map.
LEMMA FlushedFacts ==
    ASSUME TypeOK, NEW s \in SessionIds
    PROVE  /\ Flushed(s) \in Seq(0..MaxArrived)
           /\ driver # "failed" => Flushed(s) = pending[s]
           /\ driver = "failed" => Flushed(s) = Append(pending[s], Failed)
           /\ \A i \in 1..Len(pending[s]) : pending[s][i] # Failed
  <1>1. pending[s] \in Seq(1..MaxArrived)
    BY DEF TypeOK
  <1>2. pending[s] \in Seq(0..MaxArrived) /\ \A i \in 1..Len(pending[s]) : pending[s][i] # Failed
    BY <1>1, BoundsAreNat DEF Failed
  <1>3. CASE driver = "failed"
    <2>1. Flushed(s) = pending[s] \o <<Failed>>
      BY <1>3 DEF Flushed
    <2>2. Failed \in 0..MaxArrived
      BY BoundsAreNat DEF Failed
    <2>3. pending[s] \o <<Failed>> = Append(pending[s], Failed)
      BY <1>2, <2>2
    <2> QED
      BY <1>2, <1>3, <2>1, <2>2, <2>3
  <1>4. CASE driver # "failed"
    <2>1. Flushed(s) = pending[s] \o <<>>
      BY <1>4 DEF Flushed
    <2> QED
      BY <1>2, <1>4, <2>1
  <1> QED
    BY <1>3, <1>4

\* The registration at the head of the channel is refused or accepted.
LEMMA RegisterFacts ==
    ASSUME TypeOK, QueuedIsUsed, commands # <<>>, Head(commands).type = "Register",
           DriverRegister(Head(commands).transport)
    PROVE  LET t == Head(commands).transport
               s == handle[t].session
           IN  /\ t \in Transports /\ s \in SessionIds /\ handle[t].phase # "unused"
               /\ commands' = Tail(commands)
               /\ UNCHANGED <<driver, connection, arrived, closed, cause>>
               /\ handle' \in [Transports -> Handles]
               /\ handle'[t].session = s
               /\ \A u \in Transports \ {t} : handle'[u] = handle[u]
               /\ \/ /\ sessions[s] # NoTransport
                     /\ handle'[t].phase = "gone"
                     /\ UNCHANGED <<sessions, awaiting, pending, events, opened>>
                  \/ /\ sessions[s] = NoTransport
                     /\ sessions' = [sessions EXCEPT ![s] = t]
                     /\ awaiting' = awaiting \ {s}
                     /\ Unpended(s)
                     /\ events' = [events EXCEPT ![t] = IF handle[t].phase = "gone" THEN @ ELSE Flushed(s)]
                     /\ handle'[t].phase = IF handle[t].phase = "registering" THEN "open" ELSE handle[t].phase
                     /\ Opens(s, Len(arrived))
  <1> DEFINE t == Head(commands).transport
             s == handle[t].session
  <1>1. t \in Transports /\ handle[t].phase # "unused"
    BY TakenFacts, CommandFacts DEF QueuedIsUsed
  <1>2. s \in SessionIds /\ handle[t].phase \in Phases \ {"unused"}
    BY <1>1, UsedFacts DEF TypeOK
  <1>3. "gone" \in Phases \ {"unused"} /\ "open" \in Phases \ {"unused"}
    BY DEF Phases
  <1>4. CASE sessions[s] # NoTransport /\ Becomes(t, "gone")
               /\ UNCHANGED <<sessions, awaiting, pending, events, opened>>
    BY <1>1, <1>2, <1>3, <1>4, BecomesFacts, ZenonT(30) DEF DriverRegister
  <1>5. CASE /\ sessions[s] = NoTransport
             /\ sessions' = [sessions EXCEPT ![s] = t]
             /\ awaiting' = awaiting \ {s}
             /\ Unpended(s)
             /\ events' = [events EXCEPT ![t] = IF handle[t].phase = "gone" THEN @ ELSE Flushed(s)]
             /\ Becomes(t, IF handle[t].phase = "registering" THEN "open" ELSE handle[t].phase)
             /\ Opens(s, Len(arrived))
    <2> DEFINE p == IF handle[t].phase = "registering" THEN "open" ELSE handle[t].phase
    <2>1. p \in Phases \ {"unused"}
      BY <1>2, <1>3
    <2>2. /\ handle' \in [Transports -> Handles]
          /\ handle'[t].phase = p /\ handle'[t].session = s
          /\ \A u \in Transports \ {t} : handle'[u] = handle[u]
      <3> HIDE DEF p
      <3> QED
        BY <1>1, <1>5, <2>1, BecomesFacts DEF p
    <2> QED
      BY <1>1, <1>2, <1>5, <2>2, ZenonT(30) DEF DriverRegister
  <1> QED
    BY <1>4, <1>5, ZenonT(30) DEF DriverRegister

\* Commands keep the types.
LEMMA CommandTyped == TypeOK /\ QueuedIsUsed /\ DriverCommand => TypeOK'
  <1> SUFFICES ASSUME TypeOK, QueuedIsUsed, DriverCommand PROVE TypeOK'
    OBVIOUS
  <1> DEFINE c == Head(commands)
  <1>1. /\ commands # <<>> /\ driver # "stopped" /\ polled' = FALSE
        /\ c \in Commands /\ Tail(commands) \in Seq(Commands)
    BY TakenFacts DEF DriverCommand
  <1>2. CASE c.type = "Write" /\ DriverWrite(c)
    <2>1. c.openAck \in SessionIds \cup {0}
      BY <1>1, <1>2, CommandFacts
    <2>2. UNCHANGED <<connection, arrived, closed, cause>>
      BY <1>2 DEF DriverWrite
    <2>3. CASE /\ commands' = Tail(commands)
               /\ UNCHANGED <<driver, sessions, awaiting, pending, events, handle, opened>>
      BY <1>1, <2>2, <2>3, ZenonT(30) DEF TypeOK
    <2>4. CASE /\ driver = "running"
               /\ awaiting' = IF c.openAck = 0 THEN awaiting ELSE awaiting \cup {c.openAck}
               /\ IF c.openAck = 0 THEN UNCHANGED opened ELSE Opens(c.openAck, Len(arrived))
               /\ commands' = Tail(commands)
               /\ UNCHANGED <<driver, sessions, pending, events, handle>>
      <3>1. opened' \in [SessionIds -> 0..MaxArrived]
        BY <2>1, <2>4, OpensFacts, ArrivedFacts DEF TypeOK
      <3>2. awaiting' \subseteq SessionIds
        BY <2>1, <2>4 DEF TypeOK
      <3> QED
        BY <1>1, <2>2, <2>4, <3>1, <3>2, ZenonT(30) DEF TypeOK
    <2>5. CASE Broadcast /\ Stop /\ UNCHANGED opened
      BY <2>2, <2>5, StopFacts, BroadcastFacts, ZenonT(30) DEF TypeOK
    <2> QED
      BY <1>2, <2>3, <2>4, <2>5 DEF DriverWrite
  <1>3. CASE c.type = "Register" /\ DriverRegister(c.transport)
    <2> DEFINE t == c.transport
               s == handle[t].session
    <2>1. /\ t \in Transports /\ s \in SessionIds
          /\ commands' = Tail(commands) /\ UNCHANGED <<driver, connection, arrived, closed, cause>>
          /\ handle' \in [Transports -> Handles]
      BY <1>1, <1>3, RegisterFacts
    <2>2. CASE UNCHANGED <<sessions, awaiting, pending, events, opened>>
      BY <1>1, <2>1, <2>2, ZenonT(30) DEF TypeOK
    <2>3. CASE /\ sessions' = [sessions EXCEPT ![s] = t]
               /\ awaiting' = awaiting \ {s}
               /\ Unpended(s)
               /\ events' = [events EXCEPT ![t] = IF handle[t].phase = "gone" THEN @ ELSE Flushed(s)]
               /\ Opens(s, Len(arrived))
      <3>1. opened' \in [SessionIds -> 0..MaxArrived]
        BY <2>1, <2>3, OpensFacts, ArrivedFacts
      <3>2. pending' \in [SessionIds -> Seq(1..MaxArrived)]
        BY <2>1, <2>3, UnpendedFacts
      <3>3. events' \in [Transports -> Seq(0..MaxArrived)]
        BY <2>1, <2>3, FlushedFacts DEF TypeOK
      <3>4. /\ sessions' \in [SessionIds -> Transports \cup {NoTransport}]
            /\ awaiting' \subseteq SessionIds
        BY <2>1, <2>3 DEF TypeOK
      <3> QED
        BY <1>1, <2>1, <3>1, <3>2, <3>3, <3>4, ZenonT(30) DEF TypeOK
    <2> QED
      BY <1>1, <1>3, <2>2, <2>3, RegisterFacts
  <1>4. CASE c.type = "Unregister" /\ DriverUnregister(c.session)
    <2>1. c.session \in SessionIds
      BY <1>1, <1>4, CommandFacts
    <2>2. /\ sessions' \in [SessionIds -> Transports \cup {NoTransport}]
          /\ awaiting' \subseteq SessionIds
          /\ pending' \in [SessionIds -> Seq(1..MaxArrived)]
      BY <1>4, <2>1, ForgetFacts DEF DriverUnregister, TypeOK
    <2> QED
      BY <1>1, <1>4, <2>2, ZenonT(30) DEF DriverUnregister, TypeOK
  <1>5. CASE c.type = "Close" /\ DriverClose
    BY <1>5, StopFacts, ZenonT(30) DEF DriverClose, TypeOK
  <1> QED
    BY <1>2, <1>3, <1>4, <1>5 DEF DriverCommand

\* The six things that can become of a packet.
Passed(s) ==
    /\ s \in SessionIds => awaiting' \subseteq awaiting \cup {s}
    /\ awaiting \subseteq awaiting' /\ awaiting' \subseteq SessionIds
    /\ UNCHANGED <<driver, sessions, pending, events, handle, commands, cause>>

Delivered(s) ==
    /\ s \in SessionIds /\ sessions[s] # NoTransport /\ ReceiverAlive(sessions[s])
    /\ Len(arrived) + 1 \in 1..MaxArrived
    /\ events' = [events EXCEPT ![sessions[s]] = Append(@, Len(arrived) + 1)]
    /\ awaiting \subseteq awaiting' /\ awaiting' \subseteq SessionIds
    /\ UNCHANGED <<driver, sessions, pending, handle, commands, cause>>

Orphaned(s) ==
    /\ s \in SessionIds /\ sessions[s] # NoTransport /\ ~ReceiverAlive(sessions[s])
    /\ Forget(s)
    /\ UNCHANGED <<driver, events, handle, commands, cause>>

Kept(s) ==
    /\ s \in SessionIds /\ sessions[s] = NoTransport /\ s \in awaiting /\ Buffered(s)
    /\ pending' = [pending EXCEPT ![s] = Append(@, Len(arrived) + 1)]
    /\ UNCHANGED <<driver, sessions, awaiting, events, handle, commands, cause>>

Refused ==
    /\ Broadcast /\ driver' = "failed"
    /\ UNCHANGED <<sessions, awaiting, pending, handle, commands>>

Ended == Stop /\ (Broadcast \/ UNCHANGED events) /\ UNCHANGED cause

LEMMA IncomingFacts ==
    ASSUME TypeOK, NEW packet \in Packets, DriverIncoming(packet)
    PROVE  /\ polled /\ driver = "running" /\ polled' = FALSE
           /\ Len(arrived) + 1 \in 1..MaxArrived
           /\ arrived' \in Seq(Packets) /\ Len(arrived') = Len(arrived) + 1
           /\ opened' \in [SessionIds -> 0..MaxArrived]
           /\ cause' \in SessionIds \cup {0}
           /\ UNCHANGED <<connection, closed>>
           /\ \/ Passed(packet.session) \/ Delivered(packet.session) \/ Orphaned(packet.session)
              \/ Kept(packet.session) \/ Refused \/ Ended
  <1> DEFINE s == packet.session
             n == Len(arrived) + 1
  <1>1. /\ polled /\ polled' = FALSE /\ Len(arrived) < MaxArrived
        /\ arrived' = Append(arrived, packet) /\ UNCHANGED <<connection, closed>>
    BY DEF DriverIncoming
  <1>2. driver = "running" /\ n \in 1..MaxArrived /\ n \in 0..MaxArrived
    BY <1>1, ArrivedFacts, BoundsAreNat DEF TypeOK
  <1>3. arrived' \in Seq(Packets) /\ Len(arrived') = Len(arrived) + 1
    BY <1>1 DEF TypeOK
  <1>4. s \in SessionIds \/ s = 0
    BY DEF Packets
  <1>5. ASSUME ToControl, NEW A, awaiting \subseteq A, A \subseteq SessionIds,
               s \in SessionIds => A \subseteq awaiting \cup {s},
               driver' # "stopped" => awaiting' = A, UNCHANGED cause
        PROVE  Passed(s) \/ Ended
    <2>1. CASE ~connection /\ \A r \in SessionIds : sessions[r] = NoTransport
      BY <1>5, <2>1 DEF ToControl, Ended
    <2>2. CASE ~(~connection /\ \A r \in SessionIds : sessions[r] = NoTransport)
      <3>1. UNCHANGED <<driver, sessions, pending, events, handle, commands>>
        BY <1>5, <2>2 DEF ToControl
      <3> QED
        BY <1>2, <1>5, <3>1 DEF Passed
    <2> QED
      BY <2>1, <2>2
  <1>6. CASE /\ s = 0
             /\ ToControl
             /\ driver' # "stopped" => UNCHANGED awaiting
             /\ UNCHANGED <<opened, cause>>
    <2>1. Passed(s) \/ Ended
      BY <1>5, <1>6, ZenonT(30) DEF TypeOK
    <2> QED
      BY <1>1, <1>2, <1>3, <1>6, <2>1 DEF TypeOK
  <1>7. CASE /\ s # 0
             /\ sessions[s] # NoTransport
             /\ IF ReceiverAlive(sessions[s])
                THEN /\ events' = [events EXCEPT ![sessions[s]] = Append(@, n)]
                     /\ awaiting' = IF packet.openAck THEN awaiting \cup {s} ELSE awaiting
                     /\ UNCHANGED <<sessions, pending>>
                ELSE Forget(s) /\ UNCHANGED events
             /\ UNCHANGED <<driver, handle, commands, opened, cause>>
    <2>1. Delivered(s) \/ Orphaned(s)
      BY <1>2, <1>4, <1>7 DEF Delivered, Orphaned, TypeOK
    <2> QED
      BY <1>1, <1>2, <1>3, <1>7, <2>1 DEF TypeOK
  <1>8. CASE /\ s # 0
             /\ ToControl
             /\ driver' # "stopped" => awaiting' = awaiting \cup {s}
             /\ Opens(s, n)
             /\ UNCHANGED cause
    <2>1. Passed(s) \/ Ended
      BY <1>4, <1>5, <1>8, ZenonT(30) DEF TypeOK
    <2>2. opened' \in [SessionIds -> 0..MaxArrived]
      BY <1>2, <1>4, <1>8, OpensFacts
    <2> QED
      BY <1>1, <1>2, <1>3, <1>8, <2>1, <2>2 DEF TypeOK
  <1>9. CASE /\ s # 0
             /\ sessions[s] = NoTransport
             /\ s \in awaiting
             /\ IF Buffered(s)
                THEN /\ pending' = [pending EXCEPT ![s] = Append(@, n)]
                     /\ UNCHANGED <<driver, sessions, awaiting, events, handle, commands>>
                ELSE Broadcast /\ Stop
             /\ UNCHANGED <<opened, cause>>
    <2>1. Kept(s) \/ Ended
      BY <1>4, <1>9 DEF Kept, Ended
    <2> QED
      BY <1>1, <1>2, <1>3, <1>9, <2>1 DEF TypeOK
  <1>10. CASE /\ s # 0
              /\ Broadcast
              /\ driver' = "failed"
              /\ cause' = s
              /\ UNCHANGED <<sessions, awaiting, pending, handle, commands, opened>>
    <2>1. Refused
      BY <1>10 DEF Refused
    <2> QED
      BY <1>1, <1>2, <1>3, <1>4, <1>10, <2>1 DEF TypeOK
  <1> QED
    BY <1>6, <1>7, <1>8, <1>9, <1>10, ZenonT(30) DEF DriverIncoming

\* Packets keep the types.
LEMMA IncomingTyped ==
    ASSUME TypeOK, NEW packet \in Packets, DriverIncoming(packet)
    PROVE  TypeOK'
  <1> DEFINE s == packet.session
             n == Len(arrived) + 1
  <1>1. /\ polled' = FALSE /\ driver = "running" /\ n \in 1..MaxArrived /\ n \in 0..MaxArrived
        /\ arrived' \in Seq(Packets) /\ Len(arrived') <= MaxArrived
        /\ opened' \in [SessionIds -> 0..MaxArrived]
        /\ cause' \in SessionIds \cup {0}
        /\ UNCHANGED <<connection, closed>>
    <2>1. /\ polled' = FALSE /\ driver = "running"
          /\ opened' \in [SessionIds -> 0..MaxArrived]
          /\ cause' \in SessionIds \cup {0}
          /\ UNCHANGED <<connection, closed>>
      BY IncomingFacts, ZenonT(30)
    <2>2. n \in 1..MaxArrived /\ arrived' \in Seq(Packets) /\ Len(arrived') = n
      BY IncomingFacts, ZenonT(30)
    <2>3. n \in 0..MaxArrived /\ n <= MaxArrived
      <3> HIDE DEF n
      <3> QED
        BY <2>2, BoundsAreNat
    <2> QED
      BY <2>1, <2>2, <2>3
  <1>2. CASE Passed(s)
    <2>1. /\ polled' \in BOOLEAN /\ (polled' => driver' = "running") /\ connection' \in BOOLEAN
      BY <1>1, ZenonT(30) DEF TypeOK
    <2>2. /\ awaiting' \subseteq SessionIds /\ closed' \subseteq SessionIds
          /\ UNCHANGED <<driver, sessions, pending, events, handle, commands>>
      BY <1>1, <1>2 DEF Passed, TypeOK
    <2> QED
      BY <1>1, <2>1, <2>2 DEF TypeOK
  <1>3. CASE Delivered(s)
    <2>1. events' \in [Transports -> Seq(0..MaxArrived)]
      <3>1. sessions[s] \in Transports
        BY <1>3 DEF Delivered, TypeOK
      <3>2. Append(events[sessions[s]], n) \in Seq(0..MaxArrived)
        BY <1>1, <3>1 DEF TypeOK
      <3> QED
        BY <1>3, <3>1, <3>2 DEF Delivered, TypeOK
    <2> QED
      BY <1>1, <1>3, <2>1, ZenonT(30) DEF Delivered, TypeOK
  <1>4. CASE Orphaned(s)
    <2>1. /\ sessions' \in [SessionIds -> Transports \cup {NoTransport}]
          /\ awaiting' \subseteq SessionIds
          /\ pending' \in [SessionIds -> Seq(1..MaxArrived)]
      BY <1>4, ForgetFacts DEF Orphaned, TypeOK
    <2> QED
      BY <1>1, <1>4, <2>1, ZenonT(30) DEF Orphaned, TypeOK
  <1>5. CASE Kept(s)
    <2>1. pending' \in [SessionIds -> Seq(1..MaxArrived)]
      <3>1. Append(pending[s], n) \in Seq(1..MaxArrived)
        BY <1>1, <1>5 DEF Kept, TypeOK
      <3> QED
        BY <1>5, <3>1 DEF Kept, TypeOK
    <2> QED
      BY <1>1, <1>5, <2>1, ZenonT(30) DEF Kept, TypeOK
  <1>6. CASE Refused
    <2>1. events' \in [Transports -> Seq(0..MaxArrived)]
      BY <1>6, BroadcastFacts DEF Refused
    <2> QED
      BY <1>1, <1>6, <2>1, ZenonT(30) DEF Refused, TypeOK
  <1>7. CASE Ended
    <2>1. events' \in [Transports -> Seq(0..MaxArrived)]
      BY <1>7, BroadcastFacts DEF Ended, TypeOK
    <2> QED
      BY <1>1, <1>7, <2>1, StopFacts, ZenonT(30) DEF Ended, TypeOK
  <1> QED
    BY <1>2, <1>3, <1>4, <1>5, <1>6, <1>7, IncomingFacts, ZenonT(30)

\* Whatever the handles do, the driver's maps stay as they are.
LEMMA HandleFrame ==
    ASSUME TypeOK, HandleNext
    PROVE  /\ UNCHANGED <<driver, polled, sessions, awaiting, pending, events>>
           /\ \A t \in Transports :
                /\ handle[t].phase # "unused" =>
                     handle'[t].phase # "unused" /\ handle'[t].session = handle[t].session
                /\ handle[t].phase # "unused" /\ ReceiverAlive(t)' => ReceiverAlive(t)
                /\ handle'[t].phase = "open" => handle[t] = handle'[t]
  <1> USE DEF ReceiverAlive, driverVars
  <1>1. ASSUME NEW t \in Transports, NEW s \in SessionIds, RegisterSession(t, s)
        PROVE  /\ UNCHANGED driverVars /\ UNCHANGED events
               /\ handle[t].phase = "unused" /\ handle'[t].phase = "registering"
               /\ \A u \in Transports \ {t} : handle'[u] = handle[u]
    BY <1>1 DEF RegisterSession, TypeOK
  <1>2. ASSUME NEW t \in Transports, AbandonRegister(t) \/ DropReceiver(t) \/ Unregister(t)
        PROVE  /\ UNCHANGED driverVars /\ UNCHANGED events
               /\ handle[t].phase \in {"registering", "open", "closed"}
               /\ handle'[t].phase \in {"closed", "gone"} /\ handle'[t].session = handle[t].session
               /\ \A u \in Transports \ {t} : handle'[u] = handle[u]
    <2>1. "closed" \in Phases \ {"unused"} /\ "gone" \in Phases \ {"unused"}
      BY DEF Phases
    <2> QED
      BY <1>2, <2>1, BecomesFacts DEF AbandonRegister, DropReceiver, Unregister
  <1>3. ASSUME NEW a, WritePacket(a) \/ CloseConnection \/ DropConnection
        PROVE  UNCHANGED <<driverVars, events, handle>>
    BY <1>3 DEF WritePacket, CloseConnection, DropConnection
  <1> QED
    BY <1>1, <1>2, <1>3 DEF HandleNext

\* A queued command is either an old one or that of a transport in use.
LEMMA HandleQueued ==
    ASSUME TypeOK, QueuedIsUsed, HandleNext
    PROVE  QueuedIsUsed'
  <1>1. \A t \in Transports : handle[t].phase # "unused" => handle'[t].phase # "unused"
    BY HandleFrame
  <1>2. \A i \in 1..Len(commands) : commands[i] \in Commands
    BY DEF TypeOK
  <1>3. ASSUME UNCHANGED commands PROVE QueuedIsUsed'
    BY <1>1, <1>2, <1>3, CommandFacts DEF QueuedIsUsed
  <1>4. ASSUME NEW c \in Commands, Send(c), c.type = "Register" => handle'[c.transport].phase # "unused"
        PROVE  QueuedIsUsed'
    <2>1. commands \in Seq(Commands) /\ Len(commands) \in Nat
      BY DEF TypeOK
    <2>2. \A i \in 1..Len(commands') : i \in 1..Len(commands) \/ i = Len(commands) + 1
      BY <1>4, <2>1, SendFacts
    <2>3. \A i \in 1..Len(commands) : commands'[i] = commands[i]
      BY <1>4, SendFacts
    <2>4. commands'[Len(commands) + 1] = c
      BY <1>4, SendFacts
    <2> QED
      BY <1>1, <1>2, <1>4, <2>2, <2>3, <2>4, CommandFacts DEF QueuedIsUsed
  <1>5. ASSUME NEW t \in Transports, NEW s \in SessionIds, RegisterSession(t, s)
        PROVE  QueuedIsUsed'
    <2> DEFINE c == [type |-> "Register", transport |-> t]
    <2>1. handle'[t].phase # "unused" /\ Send(c) /\ c \in Commands /\ c.transport = t
      BY <1>5, CommandFacts DEF RegisterSession, TypeOK
    <2> QED
      BY <1>4, <2>1
  <1>6. ASSUME NEW t \in Transports, Unregister(t)
        PROVE  QueuedIsUsed'
    <2> DEFINE c == [type |-> "Unregister", session |-> handle[t].session]
    <2>1. c.type # "Register" /\ c \in Commands
      BY <1>6, CommandFacts DEF Unregister, TypeOK, Handles
    <2>2. Send(c) \/ UNCHANGED commands
      BY <1>6 DEF Unregister
    <2> QED
      BY <1>3, <1>4, <2>1, <2>2
  <1>7. ASSUME NEW a \in SessionIds \cup {0}, WritePacket(a)
        PROVE  QueuedIsUsed'
    <2> DEFINE c == [type |-> "Write", openAck |-> a]
    <2>1. c.type # "Register" /\ c \in Commands /\ Send(c)
      BY <1>7, CommandFacts DEF WritePacket
    <2> QED
      BY <1>4, <2>1
  <1>8. CASE CloseConnection
    <2> DEFINE c == [type |-> "Close"]
    <2>1. c.type # "Register" /\ c \in Commands /\ Send(c)
      BY <1>8, CommandFacts DEF CloseConnection
    <2> QED
      BY <1>4, <2>1
  <1>9. ASSUME NEW t \in Transports, AbandonRegister(t) \/ DropReceiver(t) PROVE QueuedIsUsed'
    BY <1>3, <1>9 DEF AbandonRegister, DropReceiver
  <1>10. CASE DropConnection
    BY <1>3, <1>10 DEF DropConnection
  <1> QED
    BY <1>5, <1>6, <1>7, <1>8, <1>9, <1>10 DEF HandleNext

-----------------------------------------------------------------------------
(***************************************************************************)
(* The steps of the driver, by what they do to its maps.                   *)
(***************************************************************************)

Takes(type) == commands # <<>> /\ Head(commands).type = type /\ commands' = Tail(commands) /\ polled' = FALSE

\* It polls, writes, or passes a packet on to the control flow.
Stays ==
    /\ \/ Takes("Write")
       \/ commands = <<>> /\ UNCHANGED commands
       \/ UNCHANGED commands /\ polled' = FALSE
    /\ awaiting \subseteq awaiting'
    /\ UNCHANGED <<driver, sessions, pending, events, handle>>

\* The carrier failed, or the peer did.
Fails ==
    /\ driver = "running" /\ driver' = "failed" /\ polled' = FALSE
    /\ Broadcast
    /\ UNCHANGED <<sessions, awaiting, pending, handle, commands>>

\* The task ends.
Stops == Stop /\ ((driver = "running" /\ Broadcast) \/ UNCHANGED events)

\* It answers a registration.
Registers == driver # "stopped" /\ Takes("Register") /\ DriverRegister(Head(commands).transport)

\* It forgets an id, because it was told to or because nobody reads any more.
Forgets(s) ==
    /\ s \in SessionIds /\ Forget(s) /\ polled' = FALSE
    /\ \/ Takes("Unregister") /\ Head(commands).session = s
       \/ polled /\ sessions[s] # NoTransport /\ ~ReceiverAlive(sessions[s]) /\ UNCHANGED commands
    /\ UNCHANGED <<driver, events, handle>>

LEMMA DriverShapes ==
    ASSUME TypeOK, QueuedIsUsed, DriverNext
    PROVE  \/ Stays \/ Fails \/ Stops \/ Registers
           \/ \E s \in SessionIds : \/ Forgets(s)
                                    \/ Delivered(s) /\ driver = "running" /\ polled' = FALSE
                                    \/ Kept(s) /\ polled' = FALSE
  <1>1. CASE DriverPolls
    BY <1>1 DEF DriverPolls, Stays
  <1>2. CASE DriverAlone
    BY <1>2 DEF DriverAlone, Stops
  <1>3. CASE DriverReadFails
    BY <1>3 DEF DriverReadFails, Fails, TypeOK
  <1>4. CASE DriverCommand
    <2> DEFINE c == Head(commands)
    <2>1. commands # <<>> /\ c \in Commands /\ polled' = FALSE
      BY <1>4, TakenFacts DEF DriverCommand
    <2>2. CASE c.type = "Write" /\ DriverWrite(c)
      <3>1. Stays \/ Stops
        BY <2>1, <2>2 DEF DriverWrite, Stays, Stops, Takes
      <3> QED
        BY <3>1
    <2>3. CASE c.type = "Register" /\ DriverRegister(c.transport)
      BY <1>4, <2>1, <2>3, ZenonT(30) DEF Registers, Takes, DriverRegister, DriverCommand
    <2>4. CASE c.type = "Unregister" /\ DriverUnregister(c.session)
      <3>1. c.session \in SessionIds
        BY <2>1, <2>4, CommandFacts
      <3>2. Forgets(c.session)
        BY <2>1, <2>4, <3>1 DEF DriverUnregister, Forgets, Takes
      <3> QED
        BY <3>1, <3>2
    <2>5. CASE c.type = "Close" /\ DriverClose
      BY <2>5 DEF DriverClose, Stops
    <2> QED
      BY <1>4, <2>2, <2>3, <2>4, <2>5, ZenonT(30) DEF DriverCommand
  <1>5. ASSUME NEW packet \in Packets, DriverIncoming(packet)
        PROVE  \/ Stays \/ Fails \/ Stops
               \/ \E s \in SessionIds : \/ Forgets(s)
                                        \/ Delivered(s) /\ driver = "running" /\ polled' = FALSE
                                        \/ Kept(s) /\ polled' = FALSE
    <2> DEFINE s == packet.session
    <2>1. polled /\ driver = "running" /\ polled' = FALSE
      BY <1>5, IncomingFacts, ZenonT(30)
    <2>2. CASE Passed(s)
      BY <2>1, <2>2 DEF Passed, Stays
    <2>3. CASE Delivered(s)
      BY <2>1, <2>3, ZenonT(30) DEF Delivered
    <2>4. CASE Orphaned(s)
      <3>1. Forgets(s) /\ s \in SessionIds
        BY <2>1, <2>4 DEF Orphaned, Forgets
      <3> QED
        BY <3>1
    <2>5. CASE Kept(s)
      BY <2>1, <2>5, ZenonT(30) DEF Kept
    <2>6. CASE Refused
      BY <2>1, <2>6 DEF Refused, Fails
    <2>7. CASE Ended
      BY <2>1, <2>7 DEF Ended, Stops
    <2> QED
      BY <1>5, <2>2, <2>3, <2>4, <2>5, <2>6, <2>7, IncomingFacts, ZenonT(30)
  <1> QED
    BY <1>1, <1>2, <1>3, <1>4, <1>5, ZenonT(30) DEF DriverNext

LEMMA DriverTyped ==
    ASSUME TypeOK, QueuedIsUsed, DriverNext
    PROVE  TypeOK'
  <1>1. CASE DriverPolls
    BY <1>1 DEF DriverPolls, TypeOK
  <1>2. CASE DriverAlone
    BY <1>2, StopFacts, ZenonT(30) DEF DriverAlone, TypeOK
  <1>3. CASE DriverReadFails
    BY <1>3, BroadcastFacts, ZenonT(30) DEF DriverReadFails, TypeOK
  <1> QED
    BY <1>1, <1>2, <1>3, CommandTyped, IncomingTyped DEF DriverNext

\* The driver answers transports; it does not name or unname them.
LEMMA DriverFrame ==
    ASSUME TypeOK, QueuedIsUsed, DriverNext
    PROVE  /\ \A t \in Transports :
                /\ handle'[t].session = handle[t].session
                /\ handle[t].phase # "unused" => handle'[t].phase # "unused"
                /\ ReceiverAlive(t)' => ReceiverAlive(t)
           /\ \/ UNCHANGED commands
              \/ commands' = <<>>
              \/ commands # <<>> /\ commands' = Tail(commands)
  <1> USE DEF ReceiverAlive
  <1>1. CASE UNCHANGED handle /\ (UNCHANGED commands \/ (commands # <<>> /\ commands' = Tail(commands)))
    BY <1>1
  <1>2. CASE Stop
    BY <1>2 DEF Stop
  <1>3. CASE Registers
    BY <1>3, RegisterFacts DEF Registers, Takes
  <1> QED
    BY <1>1, <1>2, <1>3, DriverShapes, ZenonT(30) DEF Stays, Fails, Stops, Forgets, Delivered, Kept, Takes

LEMMA DriverQueued ==
    ASSUME TypeOK, QueuedIsUsed, DriverNext
    PROVE  QueuedIsUsed'
  <1>1. \A t \in Transports : handle[t].phase # "unused" => handle'[t].phase # "unused"
    BY DriverFrame
  <1>2. \A i \in 1..Len(commands) : commands[i] \in Commands
    BY DEF TypeOK
  <1>3. CASE UNCHANGED commands
    BY <1>1, <1>2, <1>3, CommandFacts DEF QueuedIsUsed
  <1>4. CASE commands' = <<>>
    BY <1>4 DEF QueuedIsUsed
  <1>5. CASE commands # <<>> /\ commands' = Tail(commands)
    BY <1>1, <1>2, <1>5, TakenFacts, CommandFacts DEF QueuedIsUsed
  <1> QED
    BY <1>3, <1>4, <1>5, DriverFrame

LEMMA DriverHeld ==
    ASSUME TypeOK, QueuedIsUsed, HeldIsUsed, DriverNext
    PROVE  HeldIsUsed'
  <1>1. \A t \in Transports :
          /\ handle'[t].session = handle[t].session
          /\ handle[t].phase # "unused" => handle'[t].phase # "unused"
    BY DriverFrame
  <1>2. \A s \in SessionIds : sessions[s] # NoTransport => sessions[s] \in Transports
    BY DEF TypeOK
  <1>3. ASSUME \A s \in SessionIds : sessions'[s] \in {sessions[s], NoTransport}
        PROVE  HeldIsUsed'
    BY <1>1, <1>2, <1>3 DEF HeldIsUsed
  <1>4. CASE UNCHANGED sessions
    BY <1>3, <1>4
  <1>5. CASE Stop
    BY <1>3, <1>5, StopFacts
  <1>6. ASSUME NEW s \in SessionIds, Forget(s) PROVE HeldIsUsed'
    BY <1>3, <1>6, ForgetFacts
  <1>7. CASE Registers
    <2> DEFINE t == Head(commands).transport
               s == handle[t].session
    <2>1. /\ t \in Transports /\ s \in SessionIds /\ handle'[t].session = s
          /\ handle[t].phase # "unused"
          /\ UNCHANGED sessions \/ sessions' = [sessions EXCEPT ![s] = t]
      BY <1>7, RegisterFacts DEF Registers, Takes
    <2>2. CASE sessions' = [sessions EXCEPT ![s] = t]
      <3>1. \A r \in SessionIds : sessions'[r] = IF r = s THEN t ELSE sessions[r]
        BY <2>1, <2>2 DEF TypeOK
      <3> HIDE DEF t, s
      <3> QED
        BY <1>1, <1>2, <2>1, <3>1 DEF HeldIsUsed
    <2> QED
      BY <1>4, <2>1, <2>2
  <1> QED
    BY <1>4, <1>5, <1>6, <1>7, DriverShapes, ZenonT(30) DEF Stays, Fails, Stops, Forgets, Delivered, Kept

LEMMA DriverPending ==
    ASSUME TypeOK, QueuedIsUsed, PendingIsAwaited, DriverNext
    PROVE  PendingIsAwaited'
  <1>1. CASE UNCHANGED <<pending, sessions>> /\ awaiting \subseteq awaiting'
    BY <1>1 DEF PendingIsAwaited
  <1>2. CASE Stop
    <2>1. \A s \in SessionIds : pending'[s] = <<>>
      BY <1>2, StopFacts
    <2> QED
      BY <2>1, BoundsAreNat DEF PendingIsAwaited
  <1>3. ASSUME NEW s \in SessionIds, pending'[s] = <<>>,
               \A r \in SessionIds \ {s} :
                 /\ pending'[r] = pending[r] /\ sessions'[r] = sessions[r]
                 /\ r \in awaiting => r \in awaiting'
        PROVE  PendingIsAwaited'
    BY <1>3, BoundsAreNat DEF PendingIsAwaited
  <1>4. ASSUME NEW s \in SessionIds, Forget(s) PROVE PendingIsAwaited'
    BY <1>3, <1>4, ForgetFacts
  <1>5. CASE Registers
    <2> DEFINE t == Head(commands).transport
               s == handle[t].session
    <2>1. t \in Transports /\ s \in SessionIds
      BY <1>5, RegisterFacts DEF Registers, Takes
    <2>2. CASE UNCHANGED <<sessions, awaiting, pending>>
      BY <1>1, <2>2
    <2>3. CASE sessions' = [sessions EXCEPT ![s] = t] /\ awaiting' = awaiting \ {s} /\ Unpended(s)
      <3>1. \A r \in SessionIds \ {s} : sessions'[r] = sessions[r]
        BY <2>1, <2>3 DEF TypeOK
      <3> QED
        BY <1>3, <2>1, <2>3, <3>1, UnpendedFacts
    <2> QED
      BY <1>5, <2>2, <2>3, RegisterFacts DEF Registers, Takes
  <1>6. ASSUME NEW s \in SessionIds, Kept(s) PROVE PendingIsAwaited'
    <2>1. Len(pending[s]) < MaxPending /\ sessions[s] = NoTransport /\ s \in awaiting
      BY <1>6 DEF Kept, Buffered
    <2>2. pending[s] \in Seq(1..MaxArrived)
      BY DEF TypeOK
    <2>3. /\ pending'[s] = Append(pending[s], Len(arrived) + 1)
          /\ \A r \in SessionIds \ {s} : pending'[r] = pending[r]
          /\ UNCHANGED <<sessions, awaiting>>
      BY <1>6 DEF Kept, TypeOK
    <2>4. Len(pending'[s]) = Len(pending[s]) + 1
      BY <2>2, <2>3
    <2>5. Len(pending'[s]) <= MaxPending
      BY <2>1, <2>2, <2>4, BoundsAreNat
    <2> QED
      BY <2>1, <2>3, <2>5 DEF PendingIsAwaited
  <1> QED
    BY <1>1, <1>2, <1>4, <1>5, <1>6, DriverShapes, ZenonT(30) DEF Stays, Fails, Stops, Forgets, Delivered

LEMMA MapStep == MapInv /\ [Next]_vars => MapInv'
  <1> SUFFICES ASSUME MapInv, [Next]_vars PROVE MapInv'
    OBVIOUS
  <1>1. CASE UNCHANGED vars
    <2>1. TypeOK' /\ PendingIsAwaited' /\ QueuedIsUsed' /\ HeldIsUsed'
      BY <1>1 DEF MapInv, TypeOK, PendingIsAwaited, QueuedIsUsed, HeldIsUsed, vars
    <2> QED
      BY <2>1 DEF MapInv
  <1>2. CASE HandleNext
    <2>1. TypeOK' /\ QueuedIsUsed'
      BY <1>2, HandleTyped, HandleQueued DEF MapInv
    <2>2. \A s \in SessionIds : sessions[s] # NoTransport => sessions[s] \in Transports
      BY DEF MapInv, TypeOK
    <2>3. /\ UNCHANGED <<sessions, awaiting, pending>>
          /\ \A t \in Transports : handle[t].phase # "unused" =>
               handle'[t].phase # "unused" /\ handle'[t].session = handle[t].session
      BY <1>2, HandleFrame DEF MapInv
    <2>4. PendingIsAwaited'
      BY <2>3 DEF MapInv, PendingIsAwaited
    <2>5. HeldIsUsed'
      BY <2>2, <2>3 DEF MapInv, HeldIsUsed
    <2> QED
      BY <2>1, <2>4, <2>5 DEF MapInv
  <1>3. CASE DriverNext
    BY <1>3, DriverTyped, DriverQueued, DriverHeld, DriverPending DEF MapInv
  <1> QED
    BY <1>1, <1>2, <1>3 DEF Next

LEMMA MapsHold == Spec => []MapInv
  BY InitTyped, MapStep, PTL DEF Spec

\* The driver's maps, the channels and the transports are well typed, however
\* many sessions, transports and packets there are (run_driver).
THEOREM TypeCorrect == Spec => []TypeOK
  <1>1. MapInv => TypeOK
    BY DEF MapInv
  <1> QED
    BY <1>1, MapsHold, PTL

\* Packets are kept only for an id that awaits its registration, and never more
\* than the limit (PendingSessionPackets::push, run_driver).
THEOREM PendingBelongs == Spec => []PendingIsAwaited
  <1>1. MapInv => PendingIsAwaited
    BY DEF MapInv
  <1> QED
    BY <1>1, MapsHold, PTL

-----------------------------------------------------------------------------
(***************************************************************************)
(* The failure of the carrier.                                             *)
(***************************************************************************)

\* A transport that heard nothing of a failure, or heard of it last.
EndsOnce(q) == \A i \in 1..Len(q) : q[i] = Failed => i = Len(q)
Unaware(q) == \A i \in 1..Len(q) : q[i] # Failed
Aware(q) == q # <<>> /\ q[Len(q)] = Failed

LEMMA AppendFailed ==
    ASSUME NEW q \in Seq(0..MaxArrived), Unaware(q)
    PROVE  EndsOnce(Append(q, Failed)) /\ Aware(Append(q, Failed))
  <1>1. Failed \in 0..MaxArrived
    BY BoundsAreNat DEF Failed
  <1> QED
    BY <1>1, AppendFacts DEF Unaware, EndsOnce, Aware

LEMMA AppendPacket ==
    ASSUME NEW q \in Seq(0..MaxArrived), Unaware(q), NEW n \in 1..MaxArrived
    PROVE  Unaware(Append(q, n))
  BY BoundsAreNat DEF Unaware, Failed

LEMMA InitFailure == Init => FailureInv
  <1> SUFFICES ASSUME Init PROVE FailureInv
    OBVIOUS
  <1>1. MapInv
    BY InitTyped
  <1>2. driver = "running" /\ \A t \in Transports : events[t] = <<>>
    BY DEF Init
  <1> QED
    BY <1>1, <1>2 DEF FailureInv, NoFailureYet, FailureIsLast

LEMMA FailureStep == FailureInv /\ [Next]_vars => FailureInv'
  <1> SUFFICES ASSUME FailureInv, [Next]_vars PROVE FailureInv'
    OBVIOUS
  <1>1. MapInv' /\ MapInv
    BY MapStep DEF FailureInv
  <1>2. /\ TypeOK /\ QueuedIsUsed /\ HeldIsUsed
        /\ \A t \in Transports : events[t] \in Seq(0..MaxArrived)
    BY <1>1 DEF MapInv, TypeOK
  <1>3. /\ driver = "running" => \A t \in Transports : Unaware(events[t])
        /\ \A t \in Transports : EndsOnce(events[t])
        /\ \A t \in Transports : \A s \in SessionIds :
             driver = "failed" /\ ReceiverAlive(t) /\ sessions[s] = t => Aware(events[t])
    BY DEF FailureInv, NoFailureYet, FailureIsLast, Unaware, EndsOnce, Aware
  <1>4. SUFFICES /\ driver' = "running" => \A t \in Transports : Unaware(events'[t])
                 /\ \A t \in Transports : EndsOnce(events'[t])
                 /\ \A t \in Transports : \A s \in SessionIds :
                      driver' = "failed" /\ ReceiverAlive(t)' /\ sessions'[s] = t => Aware(events'[t])
    BY <1>1, <1>4 DEF FailureInv, NoFailureYet, FailureIsLast, Unaware, EndsOnce, Aware
  <1>5. CASE UNCHANGED vars
    BY <1>3, <1>5 DEF vars, ReceiverAlive
  <1>6. CASE HandleNext
    <2>1. /\ UNCHANGED <<driver, sessions, events>>
          /\ \A t \in Transports : handle[t].phase # "unused" /\ ReceiverAlive(t)' => ReceiverAlive(t)
      BY <1>2, <1>6, HandleFrame
    <2> QED
      BY <1>2, <1>3, <2>1, BoundsAreNat DEF HeldIsUsed
  <1>7. CASE DriverNext
    <2>1. \A t \in Transports : ReceiverAlive(t)' => ReceiverAlive(t)
      BY <1>2, <1>7, DriverFrame
    <2>2. CASE Stays \/ \E s \in SessionIds : Kept(s)
      BY <1>3, <2>1, <2>2 DEF Stays, Kept
    <2>3. ASSUME driver = "running", Broadcast, driver' # "running" PROVE
              /\ \A t \in Transports : EndsOnce(events'[t])
              /\ \A t \in Transports : \A s \in SessionIds : sessions[s] = t => Aware(events'[t])
      BY <1>2, <1>3, <2>3, BroadcastFacts, AppendFailed, ZenonT(30)
    <2>4. CASE Fails
      BY <2>3, <2>4 DEF Fails
    <2>5. CASE Stops
      BY <1>2, <1>3, <2>3, <2>5, StopFacts DEF Stops
    <2>6. ASSUME NEW s \in SessionIds, Forgets(s) PROVE
              /\ UNCHANGED <<driver, events>>
              /\ \A r \in SessionIds : sessions'[r] \in {sessions[r], NoTransport}
      BY <1>2, <2>6, ForgetFacts DEF Forgets
    <2>7. CASE \E s \in SessionIds : Forgets(s)
      BY <1>3, <2>1, <2>6, <2>7, BoundsAreNat
    <2>8. CASE \E s \in SessionIds : Delivered(s) /\ driver = "running" /\ polled' = FALSE
      <3>1. PICK s \in SessionIds : Delivered(s) /\ driver = "running"
        BY <2>8
      <3> DEFINE n == Len(arrived) + 1
      <3>2. /\ sessions[s] \in Transports /\ driver' = "running"
            /\ events' = [events EXCEPT ![sessions[s]] = Append(@, n)]
        BY <1>2, <3>1 DEF Delivered, TypeOK
      <3>3. n \in 1..MaxArrived
        BY <3>1 DEF Delivered
      <3>4. \A t \in Transports : events'[t] = IF t = sessions[s] THEN Append(events[t], n) ELSE events[t]
        BY <1>2, <3>2 DEF TypeOK
      <3>5. \A t \in Transports : Unaware(events'[t])
        BY <1>2, <1>3, <3>1, <3>3, <3>4, AppendPacket
      <3> QED
        BY <3>2, <3>5 DEF Unaware, EndsOnce
    <2>9. CASE Registers
      <3>0. PICK t \in Transports, s \in SessionIds :
              t = Head(commands).transport /\ s = handle[t].session
        BY <1>2, <2>9, RegisterFacts DEF Registers, Takes
      <3>1. t \in Transports /\ s \in SessionIds /\ UNCHANGED driver
        BY <1>2, <2>9, RegisterFacts DEF Registers, Takes
      <3>2. CASE UNCHANGED <<sessions, events>>
        BY <1>3, <2>1, <3>1, <3>2
      <3>3. CASE /\ sessions' = [sessions EXCEPT ![s] = t]
                 /\ events' = [events EXCEPT ![t] = IF handle[t].phase = "gone" THEN @ ELSE Flushed(s)]
        <4>1. /\ \A r \in SessionIds : sessions'[r] = IF r = s THEN t ELSE sessions[r]
              /\ \A u \in Transports \ {t} : events'[u] = events[u]
              /\ events'[t] = IF handle[t].phase = "gone" THEN events[t] ELSE Flushed(s)
          BY <1>2, <3>1, <3>3 DEF TypeOK
        <4>2. ReceiverAlive(t)' => handle[t].phase # "gone"
          BY <2>1, <3>1 DEF ReceiverAlive
        <4>3. pending[s] \in Seq(0..MaxArrived) /\ Unaware(pending[s])
          BY <1>2, <3>1, FlushedFacts, BoundsAreNat DEF TypeOK, Unaware
        <4>4. /\ driver = "running" => Unaware(Flushed(s))
              /\ driver # "stopped" => EndsOnce(Flushed(s))
              /\ driver = "failed" => Aware(Flushed(s))
          BY <1>2, <3>1, <4>3, FlushedFacts, AppendFailed, ZenonT(30) DEF Unaware, EndsOnce, TypeOK
        <4>5. driver # "stopped" => EndsOnce(events'[t])
          BY <1>3, <3>1, <4>1, <4>4
        <4> QED
          BY <1>3, <2>1, <2>9, <3>1, <4>1, <4>2, <4>4, <4>5 DEF Registers
      <3> QED
        BY <1>2, <2>9, <3>0, <3>2, <3>3, RegisterFacts DEF Registers, Takes
    <2> QED
      BY <1>2, <1>7, <2>2, <2>4, <2>5, <2>7, <2>8, <2>9, DriverShapes, ZenonT(30)
  <1> QED
    BY <1>5, <1>6, <1>7 DEF Next

LEMMA FailuresHold == Spec => []FailureInv
  BY InitFailure, FailureStep, PTL DEF Spec

\* The failure of the carrier is the last event of every session, also of one
\* that is registered after it (broadcast_failure, terminal_failure).
THEOREM FailuresAreLast == Spec => []FailureIsLast
  <1>1. FailureInv => FailureIsLast
    BY DEF FailureInv
  <1> QED
    BY <1>1, FailuresHold, PTL

-----------------------------------------------------------------------------
(***************************************************************************)
(* Registration and Unregister.                                            *)
(***************************************************************************)

\* The commands the driver leaves in the channel are the old ones, d places on.
Moved(d) ==
    \A i \in 1..Len(commands') :
        /\ i + d \in 1..Len(commands)
        /\ \A s \in SessionIds : /\ RegistersAt(i, s)' = RegistersAt(i + d, s)
                                 /\ UnregistersAt(i, s)' = UnregistersAt(i + d, s)

LEMMA DriverMoves ==
    ASSUME TypeOK, QueuedIsUsed, DriverNext
    PROVE  /\ UNCHANGED commands => Moved(0)
           /\ commands # <<>> /\ commands' = Tail(commands) => Moved(1)
  <1>1. \A t \in Transports : handle'[t].session = handle[t].session
    BY DriverFrame
  <1>2. \A i \in 1..Len(commands) :
          /\ commands[i] \in Commands
          /\ commands[i].type = "Register" => commands[i].transport \in Transports
    BY CommandFacts DEF TypeOK
  <1>3. ASSUME UNCHANGED commands PROVE Moved(0)
    <2>1. \A i \in 1..Len(commands) : i + 0 = i
      BY DEF TypeOK
    <2> QED
      BY <1>1, <1>2, <1>3, <2>1, ZenonT(30) DEF Moved, RegistersAt, UnregistersAt
  <1>4. ASSUME commands # <<>>, commands' = Tail(commands) PROVE Moved(1)
    <2>1. \A i \in 1..Len(commands') : i + 1 \in 1..Len(commands) /\ commands'[i] = commands[i + 1]
      BY <1>4, TakenFacts
    <2> QED
      BY <1>1, <1>2, <2>1, ZenonT(30) DEF Moved, RegistersAt, UnregistersAt
  <1> QED
    BY <1>3, <1>4

\* An open transport has a session.
LEMMA OpenFacts ==
    ASSUME TypeOK, NEW t \in Transports, handle[t].phase = "open"
    PROVE  handle[t].session \in SessionIds /\ handle[t] = [session |-> handle[t].session, phase |-> "open"]
  BY DEF TypeOK, Handles

\* What holds of the commands before a driver's step holds of those that are left.
LEMMA DriverKeepsOrder ==
    ASSUME RegistrationInv, MapInv', NEW d \in {0, 1}, Moved(d),
           polled' = FALSE \/ commands' = <<>>,
           \A s \in SessionIds : sessions'[s] = NoTransport /\ sessions[s] # NoTransport =>
               polled \/ (d = 1 /\ commands # <<>> /\ UnregistersAt(1, s))
    PROVE  OvertakenIsRefused'
  <1> SUFFICES ASSUME NEW i \in 1..Len(commands'), NEW j \in 1..Len(commands'), NEW s \in SessionIds,
                      i < j, RegistersAt(i, s)', UnregistersAt(j, s)'
               PROVE  /\ sessions'[s] # NoTransport
                      /\ polled' = FALSE
                      /\ \A k \in 1..(i - 1) : UnregistersAt(k, s)' = FALSE
    BY ZenonT(30) DEF OvertakenIsRefused
  <1>1. Len(commands) \in Nat /\ Len(commands') \in Nat
    BY DEF RegistrationInv, MapInv, TypeOK
  <1>2. /\ i + d \in 1..Len(commands) /\ j + d \in 1..Len(commands) /\ i + d < j + d
        /\ RegistersAt(i + d, s) /\ UnregistersAt(j + d, s)
    BY <1>1 DEF Moved
  <1>3. /\ sessions[s] # NoTransport /\ ~polled
        /\ \A k \in 1..(i + d - 1) : ~UnregistersAt(k, s)
    BY <1>2 DEF RegistrationInv, OvertakenIsRefused
  <1>4. d = 1 => 1 \in 1..(i + d - 1)
    BY <1>1
  <1>5. \A k \in 1..(i - 1) : k + d \in 1..(i + d - 1) /\ k \in 1..Len(commands')
    BY <1>1
  <1>6. polled' = FALSE
    BY <1>1
  <1>7. sessions'[s] # NoTransport
    BY <1>3, <1>4
  <1>8. \A k \in 1..(i - 1) : UnregistersAt(k, s)' = FALSE
    BY <1>3, <1>5, ZenonT(30) DEF Moved, UnregistersAt
  <1> QED
    BY <1>6, <1>7, <1>8

\* A transport that stays open, or opens while no Unregister is queued, is safe.
LEMMA DriverKeepsSafe ==
    ASSUME RegistrationInv, MapInv', NEW d \in {0, 1}, Moved(d),
           polled' = FALSE \/ commands' = <<>>,
           \A t \in Transports, s \in SessionIds : handle'[t] = [session |-> s, phase |-> "open"] =>
               \/ handle'[t] = handle[t]
               \/ \A i \in 1..Len(commands') : ~UnregistersAt(i + d, s)
    PROVE  OpenIsSafe'
  <1> SUFFICES ASSUME NEW t \in Transports, handle'[t].phase = "open", NEW i \in 1..Len(commands')
               PROVE  ~UnregistersAt(i, handle[t].session)' /\ ~polled'
    BY DEF OpenIsSafe
  <1>0. PICK s \in SessionIds : handle'[t] = [session |-> s, phase |-> "open"]
    BY DEF MapInv, TypeOK, Handles
  <1>1. Len(commands') \in Nat /\ i + d \in 1..Len(commands)
    BY DEF MapInv, TypeOK, Moved
  <1>2. ~polled'
    BY <1>1
  <1>3. UnregistersAt(i, s)' = UnregistersAt(i + d, s)
    BY DEF Moved
  <1>4. ~UnregistersAt(i + d, s)
    <2>1. CASE handle'[t] = handle[t]
      <3>1. handle[t].phase = "open" /\ handle[t].session = s
        BY <1>0, <2>1
      <3> QED
        BY <1>1, <3>1 DEF RegistrationInv, OpenIsSafe
    <2> QED
      BY <1>0, <2>1
  <1>5. ~UnregistersAt(i, s)'
    BY <1>3, <1>4
  <1> QED
    BY <1>0, <1>2, <1>5 DEF UnregistersAt

LEMMA DriverRegistration ==
    ASSUME RegistrationInv, MapInv', DriverNext
    PROVE  OpenIsRegistered' /\ OpenIsSafe' /\ OvertakenIsRefused'
  <1>1. /\ TypeOK /\ QueuedIsUsed /\ HeldIsUsed /\ MapInv
        /\ \A t \in Transports : handle[t].phase = "open" =>
             /\ handle[t].session \in SessionIds
             /\ driver # "stopped" => sessions[handle[t].session] = t
    BY OpenFacts, ZenonT(30) DEF RegistrationInv, MapInv, OpenIsRegistered
  <1>2. ASSUME NEW d \in {0, 1}, Moved(d), polled' = FALSE \/ commands' = <<>>,
               driver' # "stopped" => driver # "stopped",
               UNCHANGED <<sessions, handle>>
        PROVE  OpenIsRegistered' /\ OpenIsSafe' /\ OvertakenIsRefused'
    <2>1. OpenIsRegistered'
      BY <1>1, <1>2 DEF OpenIsRegistered
    <2> QED
      BY <1>2, <2>1, DriverKeepsSafe, DriverKeepsOrder, ZenonT(30)
  <1>3. CASE Stays \/ Fails \/ \E s \in SessionIds : (Delivered(s) \/ Kept(s)) /\ polled' = FALSE
    <2>1. /\ UNCHANGED <<sessions, handle>> /\ (driver' # "stopped" => driver # "stopped")
          /\ polled' = FALSE \/ commands' = <<>>
          /\ UNCHANGED commands \/ (commands # <<>> /\ commands' = Tail(commands))
      <3>1. CASE Stays
        BY <3>1 DEF Stays, Takes
      <3>2. CASE Fails
        BY <3>2 DEF Fails
      <3>3. CASE \E s \in SessionIds : (Delivered(s) \/ Kept(s)) /\ polled' = FALSE
        BY <3>3 DEF Delivered, Kept
      <3> QED
        BY <1>3, <3>1, <3>2, <3>3, ZenonT(30)
    <2> QED
      BY <1>1, <1>2, <2>1, DriverMoves, ZenonT(30)
  <1>4. CASE Stops
    <2>1. driver' = "stopped" /\ commands' = <<>>
      BY <1>1, <1>4, StopFacts DEF Stops
    <2> QED
      BY <2>1 DEF OpenIsRegistered, OpenIsSafe, OvertakenIsRefused
  <1>5. ASSUME NEW s \in SessionIds, Forgets(s)
        PROVE  OpenIsRegistered' /\ OpenIsSafe' /\ OvertakenIsRefused'
    <2>1. /\ UNCHANGED <<driver, handle>> /\ polled' = FALSE
          /\ sessions'[s] = NoTransport /\ \A r \in SessionIds \ {s} : sessions'[r] = sessions[r]
      BY <1>1, <1>5, ForgetFacts DEF Forgets
    <2>2. CASE Takes("Unregister") /\ Head(commands).session = s
      <3>1. UnregistersAt(1, s) /\ 1 \in 1..Len(commands) /\ Moved(1) /\ commands # <<>>
        BY <1>1, <2>2, TakenFacts, DriverMoves, ZenonT(30) DEF Takes, UnregistersAt
      <3>2. \A t \in Transports : handle[t].phase = "open" => handle[t].session # s
        BY <3>1 DEF RegistrationInv, OpenIsSafe
      <3>3. OpenIsRegistered'
        BY <1>1, <2>1, <3>2 DEF OpenIsRegistered
      <3> QED
        BY <2>1, <3>1, <3>3, DriverKeepsSafe, DriverKeepsOrder, ZenonT(30)
    <2>3. CASE polled /\ sessions[s] # NoTransport /\ ~ReceiverAlive(sessions[s]) /\ UNCHANGED commands
      <3>1. driver # "stopped" /\ Moved(0)
        BY <1>1, <2>3, DriverMoves DEF TypeOK
      <3>2. \A t \in Transports : handle[t].phase = "open" => handle[t].session # s
        BY <1>1, <2>3, <3>1 DEF ReceiverAlive
      <3>3. OpenIsRegistered'
        BY <1>1, <2>1, <3>2 DEF OpenIsRegistered
      <3> QED
        BY <2>1, <2>3, <3>1, <3>3, DriverKeepsSafe, DriverKeepsOrder, ZenonT(30)
    <2> QED
      BY <1>5, <2>2, <2>3 DEF Forgets
  <1>6. CASE Registers
    <2>0. PICK t \in Transports, s \in SessionIds :
            t = Head(commands).transport /\ s = handle[t].session
      BY <1>1, <1>6, RegisterFacts DEF Registers, Takes
    <2>1. /\ driver # "stopped" /\ UNCHANGED driver /\ polled' = FALSE
          /\ commands # <<>> /\ 1 \in 1..Len(commands) /\ RegistersAt(1, s) /\ Moved(1)
          /\ handle'[t].session = s /\ \A u \in Transports \ {t} : handle'[u] = handle[u]
      BY <1>1, <1>6, <2>0, RegisterFacts, TakenFacts, DriverMoves, ZenonT(30) DEF Registers, Takes, RegistersAt
    <2>2. CASE handle'[t].phase = "gone" /\ UNCHANGED sessions
      <3>1. \A u \in Transports : handle'[u].phase = "open" => handle'[u] = handle[u]
        BY <2>1, <2>2
      <3>2. OpenIsRegistered'
        BY <1>1, <2>1, <2>2, <3>1 DEF OpenIsRegistered
      <3>3. OvertakenIsRefused'
        BY <2>1, <2>2, DriverKeepsOrder, ZenonT(30)
      <3>4. OpenIsSafe'
        <4>1. \A u \in Transports, r \in SessionIds :
                handle'[u] = [session |-> r, phase |-> "open"] => handle'[u] = handle[u]
          BY <3>1
        <4> QED
          BY <2>1, <4>1, DriverKeepsSafe, ZenonT(30)
      <3> QED
        BY <3>2, <3>3, <3>4
    <2>3. CASE sessions[s] = NoTransport /\ sessions' = [sessions EXCEPT ![s] = t]
      <3>1. \A r \in SessionIds : sessions'[r] = IF r = s THEN t ELSE sessions[r]
        BY <1>1, <2>3 DEF TypeOK
      <3>2. \A u \in Transports : handle[u].phase = "open" => handle[u].session # s
        BY <1>1, <2>1, <2>3, BoundsAreNat
      <3>3. OpenIsRegistered'
        BY <1>1, <2>1, <3>1, <3>2 DEF OpenIsRegistered
      <3>4. \A j \in 1..Len(commands) : 1 < j => ~UnregistersAt(j, s)
        BY <2>1, <2>3 DEF RegistrationInv, OvertakenIsRefused
      <3>5. \A i \in 1..Len(commands') : i + 1 \in 1..Len(commands) /\ 1 < i + 1
        BY <2>1 DEF Moved, MapInv, TypeOK
      <3>6. OpenIsSafe'
        <4>1. \A u \in Transports, r \in SessionIds :
                handle'[u] = [session |-> r, phase |-> "open"] =>
                  \/ handle'[u] = handle[u]
                  \/ \A i \in 1..Len(commands') : ~UnregistersAt(i + 1, r)
          <5> SUFFICES ASSUME NEW u \in Transports, NEW r \in SessionIds, u = t,
                              handle'[u] = [session |-> r, phase |-> "open"]
                       PROVE  \A i \in 1..Len(commands') : ~UnregistersAt(i + 1, r)
            BY <2>1
          <5>1. r = s
            BY <2>1
          <5> QED
            BY <3>4, <3>5, <5>1
        <4> QED
          BY <2>1, <4>1, DriverKeepsSafe, ZenonT(30)
      <3>7. OvertakenIsRefused'
        BY <2>1, <3>1, BoundsAreNat, DriverKeepsOrder, ZenonT(30)
      <3> QED
        BY <3>3, <3>6, <3>7
    <2> QED
      BY <1>1, <1>6, <2>0, <2>2, <2>3, RegisterFacts DEF Registers, Takes
  <1> QED
    BY <1>1, <1>3, <1>4, <1>5, <1>6, DriverShapes, ZenonT(30)

\* The commands that were queued before a handle's step are in their place.
LEMMA HandleMoves ==
    ASSUME TypeOK, QueuedIsUsed, HandleNext,
           \A i \in 1..Len(commands) : commands'[i] = commands[i]
    PROVE  \A i \in 1..Len(commands), s \in SessionIds :
             /\ RegistersAt(i, s)' = RegistersAt(i, s)
             /\ UnregistersAt(i, s)' = UnregistersAt(i, s)
  <1>1. \A i \in 1..Len(commands) : commands[i].type = "Register" =>
          commands[i].transport \in Transports /\ handle[commands[i].transport].phase # "unused"
    BY CommandFacts DEF TypeOK, QueuedIsUsed
  <1>2. \A t \in Transports : handle[t].phase # "unused" => handle'[t].session = handle[t].session
    BY HandleFrame
  <1> QED
    BY <1>1, <1>2 DEF RegistersAt, UnregistersAt

\* A handle that queues nothing, or a command about no session, keeps the order.
LEMMA HandleKeeps ==
    ASSUME RegistrationInv, MapInv', HandleNext,
           \/ UNCHANGED commands
           \/ \E c \in Commands : c.type \notin {"Register", "Unregister"} /\ Send(c)
    PROVE  OpenIsSafe' /\ OvertakenIsRefused'
  <1>1. TypeOK /\ QueuedIsUsed /\ Len(commands) \in Nat
    BY DEF RegistrationInv, MapInv, TypeOK
  <1>2. /\ \A i \in 1..Len(commands) : commands'[i] = commands[i]
        /\ \A i \in 1..Len(commands') : i \in 1..Len(commands) \/
             commands'[i].type \notin {"Register", "Unregister"}
    BY <1>1, SendFacts
  <1>3. \A i \in 1..Len(commands'), s \in SessionIds :
          /\ RegistersAt(i, s)' => i \in 1..Len(commands) /\ RegistersAt(i, s)
          /\ UnregistersAt(i, s)' => i \in 1..Len(commands) /\ UnregistersAt(i, s)
    BY <1>1, <1>2, HandleMoves, ZenonT(30) DEF RegistersAt, UnregistersAt
  <1>4. /\ UNCHANGED <<polled, sessions>>
        /\ \A t \in Transports : handle'[t].phase = "open" =>
             handle[t] = handle'[t] /\ handle[t].session \in SessionIds
    BY <1>1, HandleFrame, OpenFacts, ZenonT(30)
  <1>5. OpenIsSafe'
    <2> SUFFICES ASSUME NEW t \in Transports, handle'[t].phase = "open", NEW i \in 1..Len(commands')
                 PROVE  /\ ~UnregistersAt(i, handle[t].session)'
                        /\ RegistersAt(i, handle[t].session)' => ~polled'
      BY DEF OpenIsSafe
    <2>1. PICK s \in SessionIds : handle[t].session = s /\ handle'[t].session = s /\ handle[t].phase = "open"
      BY <1>4
    <2>2. ~UnregistersAt(i, s)' /\ (RegistersAt(i, s)' => ~polled')
      BY <1>3, <1>4, <2>1 DEF RegistrationInv, OpenIsSafe
    <2> QED
      BY <2>1, <2>2 DEF UnregistersAt, RegistersAt
  <1>6. OvertakenIsRefused'
    <2> SUFFICES ASSUME NEW i \in 1..Len(commands'), NEW j \in 1..Len(commands'), NEW s \in SessionIds,
                        i < j, RegistersAt(i, s)', UnregistersAt(j, s)'
                 PROVE  /\ sessions'[s] # NoTransport
                        /\ ~polled'
                        /\ \A k \in 1..(i - 1) : ~UnregistersAt(k, s)'
      BY DEF OvertakenIsRefused
    <2>1. /\ i \in 1..Len(commands) /\ j \in 1..Len(commands)
          /\ RegistersAt(i, s) /\ UnregistersAt(j, s)
      BY <1>3
    <2>2. /\ sessions[s] # NoTransport /\ ~polled
          /\ \A k \in 1..(i - 1) : ~UnregistersAt(k, s)
      BY <2>1 DEF RegistrationInv, OvertakenIsRefused
    <2>3. \A k \in 1..(i - 1) : k \in 1..Len(commands')
      BY DEF MapInv, TypeOK
    <2> QED
      BY <1>3, <1>4, <2>2, <2>3
  <1> QED
    BY <1>5, <1>6

LEMMA HandleRegistration ==
    ASSUME RegistrationInv, MapInv', HandleNext, Overlapping = FALSE
    PROVE  OpenIsRegistered' /\ OpenIsSafe' /\ OvertakenIsRefused'
  <1>1. TypeOK /\ QueuedIsUsed /\ commands \in Seq(Commands) /\ Len(commands) \in Nat
    BY DEF RegistrationInv, MapInv, TypeOK
  <1>2. /\ UNCHANGED <<driver, polled, sessions>>
        /\ \A t \in Transports : handle'[t].phase = "open" =>
             handle[t] = handle'[t] /\ handle[t].session \in SessionIds
    BY <1>1, HandleFrame, OpenFacts, ZenonT(30)
  <1>3. OpenIsRegistered'
    BY <1>2 DEF RegistrationInv, OpenIsRegistered
  <1>4. ASSUME NEW t \in Transports, NEW r \in SessionIds, RegisterSession(t, r)
        PROVE  OpenIsSafe' /\ OvertakenIsRefused'
    <2> DEFINE L == Len(commands)
    <2>1. /\ Len(commands') = L + 1
          /\ \A i \in 1..L : commands'[i] = commands[i]
          /\ commands'[L + 1].type = "Register" /\ commands'[L + 1].transport = t
          /\ handle'[t].session = r
      <3> DEFINE c == [type |-> "Register", transport |-> t]
      <3>1. /\ c \in Commands /\ c.type = "Register" /\ c.transport = t
            /\ Send(c)
        BY <1>4, CommandFacts DEF RegisterSession
      <3>2. handle'[t].session = r
        BY <1>1, <1>4 DEF RegisterSession, TypeOK
      <3> HIDE DEF c
      <3>3. driver # "stopped" /\ commands' = Append(commands, c)
        BY <1>4, <3>1 DEF RegisterSession, Send
      <3>4. /\ Len(commands') = L + 1 /\ commands'[L + 1] = c
            /\ \A i \in 1..L : commands'[i] = commands[i]
        BY <1>1, <3>1, <3>3
      <3> QED
        BY <3>1, <3>2, <3>4
    <2>2. \A i \in 1..Len(commands'), s \in SessionIds :
            /\ UnregistersAt(i, s)' => i \in 1..L /\ UnregistersAt(i, s)
            /\ RegistersAt(i, s)' => \/ i \in 1..L /\ RegistersAt(i, s)
                                     \/ i = L + 1 /\ s = r
      <3>1. \A i \in 1..Len(commands') : i \in 1..L \/ i = L + 1
        BY <1>1, <2>1
      <3> QED
        BY <1>1, <2>1, <3>1, HandleMoves DEF RegistersAt, UnregistersAt
    <2>3. \A u \in Transports : handle[u].phase = "open" => handle[u].session # r
      BY <1>1, <1>4, OpenFacts DEF RegisterSession
    <2>4. OpenIsSafe'
      <3> SUFFICES ASSUME NEW u \in Transports, handle'[u].phase = "open", NEW i \in 1..Len(commands')
                   PROVE  /\ ~UnregistersAt(i, handle[u].session)'
                          /\ RegistersAt(i, handle[u].session)' => ~polled'
        BY DEF OpenIsSafe
      <3>1. PICK s \in SessionIds : handle[u].session = s /\ handle'[u].session = s /\ handle[u].phase = "open"
        BY <1>2
      <3>2. ~UnregistersAt(i, s)' /\ (RegistersAt(i, s)' => ~polled')
        BY <1>2, <2>2, <2>3, <3>1 DEF RegistrationInv, OpenIsSafe
      <3> QED
        BY <3>1, <3>2 DEF UnregistersAt, RegistersAt
    <2>5. OvertakenIsRefused'
      <3> SUFFICES ASSUME NEW i \in 1..Len(commands'), NEW j \in 1..Len(commands'), NEW s \in SessionIds,
                          i < j, RegistersAt(i, s)', UnregistersAt(j, s)'
                   PROVE  /\ sessions'[s] # NoTransport
                          /\ ~polled'
                          /\ \A k \in 1..(i - 1) : ~UnregistersAt(k, s)'
        BY DEF OvertakenIsRefused
      <3>1. j \in 1..L /\ UnregistersAt(j, s)
        BY <2>2
      <3>2. i \in 1..L /\ RegistersAt(i, s)
        BY <1>1, <2>2, <3>1
      <3>3. /\ sessions[s] # NoTransport /\ ~polled
            /\ \A k \in 1..(i - 1) : ~UnregistersAt(k, s)
        BY <3>1, <3>2 DEF RegistrationInv, OvertakenIsRefused
      <3>4. \A k \in 1..(i - 1) : k \in 1..Len(commands')
        BY <1>1, <2>1, <3>2
      <3> QED
        BY <1>2, <2>2, <3>3, <3>4, ZenonT(30)
    <2> QED
      BY <2>4, <2>5
  <1>5. ASSUME NEW t \in Transports, Unregister(t), ~UNCHANGED commands
        PROVE  OpenIsSafe' /\ OvertakenIsRefused'
    <2> DEFINE L == Len(commands)
    <2>1. PICK r \in SessionIds : r = handle[t].session
      BY <1>1, <1>5, OpenFacts, ZenonT(30) DEF Unregister
    <2>2. /\ handle[t].phase = "open" /\ Send([type |-> "Unregister", session |-> r])
          /\ driver # "stopped" /\ sessions[r] = t
      BY <1>5, <2>1 DEF Unregister, Send, RegistrationInv, OpenIsRegistered
    <2>3. /\ Len(commands') = L + 1
          /\ \A i \in 1..L : commands'[i] = commands[i]
          /\ commands'[L + 1].type = "Unregister" /\ commands'[L + 1].session = r
      <3> DEFINE c == [type |-> "Unregister", session |-> r]
      <3>1. /\ c \in Commands /\ c.type = "Unregister" /\ c.session = r
            /\ Send(c)
        BY <2>2, CommandFacts, ZenonT(30)
      <3> HIDE DEF c
      <3>2. commands' = Append(commands, c)
        BY <2>2, <3>1 DEF Send
      <3>3. /\ Len(commands') = L + 1 /\ commands'[L + 1] = c
            /\ \A i \in 1..L : commands'[i] = commands[i]
        BY <1>1, <3>1, <3>2
      <3> QED
        BY <3>1, <3>3
    <2>4. \A i \in 1..Len(commands'), s \in SessionIds :
            /\ RegistersAt(i, s)' => i \in 1..L /\ RegistersAt(i, s)
            /\ UnregistersAt(i, s)' => \/ i \in 1..L /\ UnregistersAt(i, s)
                                       \/ i = L + 1 /\ s = r
      <3>1. \A i \in 1..Len(commands') : i \in 1..L \/ i = L + 1
        BY <1>1, <2>3
      <3> QED
        BY <1>1, <2>3, <3>1, HandleMoves, ZenonT(30) DEF RegistersAt, UnregistersAt
    <2>5. handle'[t].phase # "open"
      BY <1>5, ZenonT(30) DEF Unregister, Becomes, RegistrationInv, MapInv, TypeOK
    <2>6. \A u \in Transports : handle'[u].phase = "open" => handle[u].session # r
      BY <1>2, <2>2, <2>5 DEF RegistrationInv, OpenIsRegistered
    <2>7. OpenIsSafe'
      <3> SUFFICES ASSUME NEW u \in Transports, handle'[u].phase = "open", NEW i \in 1..Len(commands')
                   PROVE  /\ ~UnregistersAt(i, handle[u].session)'
                          /\ RegistersAt(i, handle[u].session)' => ~polled'
        BY DEF OpenIsSafe
      <3>1. PICK s \in SessionIds : handle[u].session = s /\ handle'[u].session = s /\ handle[u].phase = "open"
        BY <1>2
      <3>2. ~UnregistersAt(i, s)' /\ (RegistersAt(i, s)' => ~polled')
        BY <1>2, <2>4, <2>6, <3>1 DEF RegistrationInv, OpenIsSafe
      <3> QED
        BY <3>1, <3>2 DEF UnregistersAt, RegistersAt
    <2>8. OvertakenIsRefused'
      <3> SUFFICES ASSUME NEW i \in 1..Len(commands'), NEW j \in 1..Len(commands'), NEW s \in SessionIds,
                          i < j, RegistersAt(i, s)', UnregistersAt(j, s)'
                   PROVE  /\ sessions'[s] # NoTransport
                          /\ ~polled'
                          /\ \A k \in 1..(i - 1) : ~UnregistersAt(k, s)'
        BY DEF OvertakenIsRefused
      <3>1. i \in 1..L /\ RegistersAt(i, s)
        BY <2>4
      <3>2. /\ sessions[s] # NoTransport /\ ~polled
            /\ \A k \in 1..(i - 1) : ~UnregistersAt(k, s)
        <4>1. CASE j \in 1..L /\ UnregistersAt(j, s)
          BY <3>1, <4>1 DEF RegistrationInv, OvertakenIsRefused
        <4>2. CASE s = r
          <5>1. \A k \in 1..(i - 1) : k \in 1..L
            BY <1>1, <3>1
          <5> QED
            BY <2>1, <2>2, <3>1, <4>2, <5>1, BoundsAreNat DEF RegistrationInv, OpenIsSafe
        <4> QED
          BY <2>4, <4>1, <4>2
      <3>3. \A k \in 1..(i - 1) : k \in 1..Len(commands') /\ k # L + 1
        BY <1>1, <2>3, <3>1
      <3> QED
        BY <1>2, <2>4, <3>2, <3>3
    <2> QED
      BY <2>7, <2>8
  <1>6. ASSUME UNCHANGED commands
        PROVE  OpenIsSafe' /\ OvertakenIsRefused'
    BY <1>6, HandleKeeps
  <1>7. ASSUME NEW a \in SessionIds \cup {0}, WritePacket(a)
        PROVE  OpenIsSafe' /\ OvertakenIsRefused'
    <2> DEFINE c == [type |-> "Write", openAck |-> a]
    <2>1. c.type \notin {"Register", "Unregister"} /\ c \in Commands /\ Send(c)
      BY <1>7, CommandFacts DEF WritePacket
    <2> QED
      BY <2>1, HandleKeeps
  <1>8. ASSUME CloseConnection
        PROVE  OpenIsSafe' /\ OvertakenIsRefused'
    <2> DEFINE c == [type |-> "Close"]
    <2>1. c.type \notin {"Register", "Unregister"} /\ c \in Commands /\ Send(c)
      BY <1>8, CommandFacts DEF CloseConnection
    <2> HIDE DEF c
    <2> QED
      BY <2>1, HandleKeeps
  <1>9. ASSUME NEW t \in Transports, AbandonRegister(t) \/ DropReceiver(t) PROVE UNCHANGED commands
    BY <1>9 DEF AbandonRegister, DropReceiver
  <1>10. DropConnection => UNCHANGED commands
    BY DEF DropConnection
  <1>11. OpenIsSafe' /\ OvertakenIsRefused'
    BY <1>4, <1>5, <1>6, <1>7, <1>8, <1>9, <1>10 DEF HandleNext
  <1> QED
    BY <1>3, <1>11

LEMMA RegistrationStep ==
    ASSUME Overlapping = FALSE
    PROVE  RegistrationInv /\ [Next]_vars => RegistrationInv'
  <1> SUFFICES ASSUME RegistrationInv, [Next]_vars PROVE RegistrationInv'
    OBVIOUS
  <1>1. MapInv'
    BY MapStep DEF RegistrationInv
  <1>2. CASE UNCHANGED vars
    <2>1. UNCHANGED <<driver, sessions, polled, handle, commands>>
      BY <1>2 DEF vars
    <2>2. OpenIsRegistered'
      BY <2>1 DEF RegistrationInv, OpenIsRegistered
    <2>3. \A i, r : RegistersAt(i, r)' = RegistersAt(i, r) /\ UnregistersAt(i, r)' = UnregistersAt(i, r)
      BY <2>1 DEF RegistersAt, UnregistersAt
    <2>4. OpenIsSafe'
      BY <2>1, <2>3 DEF RegistrationInv, OpenIsSafe
    <2>5. OvertakenIsRefused'
      BY <2>1, <2>3 DEF RegistrationInv, OvertakenIsRefused
    <2> QED
      BY <1>1, <2>2, <2>4, <2>5 DEF RegistrationInv
  <1> QED
    BY <1>1, <1>2, HandleRegistration, DriverRegistration, ZenonT(30) DEF RegistrationInv, Next

LEMMA InitRegistration == Init => RegistrationInv
  <1> SUFFICES ASSUME Init PROVE RegistrationInv
    OBVIOUS
  <1>1. commands = <<>> /\ \A t \in Transports : handle[t].phase = "unused"
    BY DEF Init
  <1> QED
    BY <1>1, InitTyped DEF RegistrationInv, OpenIsRegistered, OpenIsSafe, OvertakenIsRefused

\* When no id is registered while a transport of it is open, the driver holds
\* every open transport: an Unregister never takes a newer one away, however the
\* commands and the packets interleave (DriverCommand::Unregister, run_driver).
THEOREM OpenTransportsAreRegistered ==
    ASSUME Overlapping = FALSE
    PROVE  Spec => []OpenIsRegistered
  <1>1. RegistrationInv /\ [Next]_vars => RegistrationInv'
    BY RegistrationStep, ZenonT(30)
  <1>2. RegistrationInv => OpenIsRegistered
    BY DEF RegistrationInv
  <1> QED
    BY <1>1, <1>2, InitRegistration, PTL DEF Spec

-----------------------------------------------------------------------------
(***************************************************************************)
(* Every data packet of an open session reaches its transport, in order.   *)
(***************************************************************************)

\* q lists the data packets for s after position p, in their order: what is kept
\* for an id that awaits its registration.
Waits(a, q, s, p) == Ascending(q) /\ Elements(q) = DataFor(a, s, p)

\* The data packets among the events q are those for s after position p, in
\* their order, and q holds nothing but packets that have arrived.
Gets(a, q, s, p) ==
    /\ Ascending(q)
    /\ \A i \in 1..Len(q) : q[i] \in 1..Len(a)
    /\ DataAmong(a, q) = DataFor(a, s, p)

SessionIsServed(s) ==
    /\ opened[s] <= Len(arrived)
    /\ s \in awaiting /\ sessions[s] = NoTransport => Waits(arrived, pending[s], s, opened[s])
    /\ sessions[s] # NoTransport /\ ReceiverAlive(sessions[s])
        => Gets(arrived, events[sessions[s]], s, opened[s])

DeliveryInv == MapInv /\ (driver = "running" => \A s \in SessionIds : SessionIsServed(s))

\* One more packet is the last one of its queue.
LEMMA OneMore ==
    ASSUME NEW q \in Seq(Nat), NEW n \in Nat, Ascending(q), \A i \in 1..Len(q) : q[i] < n
    PROVE  Ascending(Append(q, n)) /\ Elements(Append(q, n)) = Elements(q) \cup {n}
  <1>1. /\ Len(Append(q, n)) = Len(q) + 1 /\ Append(q, n)[Len(q) + 1] = n
        /\ \A i \in 1..Len(q) : Append(q, n)[i] = q[i]
        /\ Len(q) \in Nat
    OBVIOUS
  <1> DEFINE r == Append(q, n)
  <1>2. /\ Len(r) = Len(q) + 1 /\ r[Len(q) + 1] = n /\ \A i \in 1..Len(q) : r[i] = q[i]
    BY <1>1
  <1>3. \A i \in 1..Len(r) : i \in 1..Len(q) \/ i = Len(q) + 1
    BY <1>1, <1>2
  <1>4. \A i \in 1..Len(q) : i \in 1..Len(r) /\ Len(q) + 1 \in 1..Len(r)
    BY <1>1, <1>2
  <1>5. Len(q) + 1 \in 1..Len(r)
    BY <1>1, <1>2
  <1> HIDE DEF r
  <1>6. Ascending(r)
    <2> SUFFICES ASSUME NEW i \in 1..Len(r), NEW j \in 1..Len(r), i < j
                 PROVE  r[i] < r[j]
      BY DEF Ascending
    <2>1. i \in 1..Len(q)
      BY <1>1, <1>2
    <2>2. CASE j \in 1..Len(q)
      BY <1>2, <2>1, <2>2 DEF Ascending
    <2>3. CASE j = Len(q) + 1
      BY <1>2, <2>1, <2>3
    <2> QED
      BY <1>3, <2>2, <2>3
  <1>7. Elements(r) \subseteq Elements(q) \cup {n}
    BY <1>2, <1>3 DEF Elements
  <1>8. Elements(q) \cup {n} \subseteq Elements(r)
    BY <1>2, <1>4, <1>5 DEF Elements
  <1> QED
    BY <1>6, <1>7, <1>8 DEF r

\* A packet adds itself to the data of its session, unless it is a SESSION_OPEN_ACK.
LEMMA DataArrives ==
    ASSUME NEW a \in Seq(Packets), NEW packet \in Packets, NEW s, NEW p \in Nat, p <= Len(a)
    PROVE  /\ packet.session # s \/ packet.openAck =>
                DataFor(Append(a, packet), s, p) = DataFor(a, s, p)
           /\ packet.session = s /\ ~packet.openAck =>
                DataFor(Append(a, packet), s, p) = DataFor(a, s, p) \cup {Len(a) + 1}
  <1> DEFINE b == Append(a, packet)
  <1>1. /\ Len(b) = Len(a) + 1 /\ b[Len(a) + 1] = packet /\ \A i \in 1..Len(a) : b[i] = a[i]
        /\ Len(a) \in Nat
    OBVIOUS
  <1> HIDE DEF b
  <1>2. \A n \in p + 1..Len(b) : (n \in p + 1..Len(a) /\ n \in 1..Len(a)) \/ n = Len(a) + 1
    BY <1>1
  <1>3. \A n \in p + 1..Len(a) : n \in p + 1..Len(b) /\ n \in 1..Len(a)
    BY <1>1
  <1>4. Len(a) + 1 \in p + 1..Len(b)
    BY <1>1
  <1>5. packet.session # s \/ packet.openAck => DataFor(b, s, p) = DataFor(a, s, p)
    BY <1>1, <1>2, <1>3 DEF DataFor
  <1>6. packet.session = s /\ ~packet.openAck => DataFor(b, s, p) = DataFor(a, s, p) \cup {Len(a) + 1}
    BY <1>1, <1>2, <1>3, <1>4 DEF DataFor
  <1> QED
    BY <1>5, <1>6 DEF b

\* The kept packets after one more has arrived.
LEMMA WaitsOn ==
    ASSUME NEW a \in Seq(Packets), NEW packet \in Packets, NEW s, NEW p \in Nat, p <= Len(a),
           NEW q \in Seq(Nat), Waits(a, q, s, p)
    PROVE  /\ packet.session # s \/ packet.openAck => Waits(Append(a, packet), q, s, p)
           /\ packet.session = s /\ ~packet.openAck =>
                Waits(Append(a, packet), Append(q, Len(a) + 1), s, p)
  <1>1. Ascending(q) /\ Elements(q) = DataFor(a, s, p)
    BY DEF Waits
  <1>2. \A i \in 1..Len(q) : q[i] \in Elements(q)
    BY DEF Elements
  <1>3. \A n \in DataFor(a, s, p) : n < Len(a) + 1
    BY DEF DataFor
  <1>4. \A i \in 1..Len(q) : q[i] < Len(a) + 1
    BY <1>1, <1>2, <1>3
  <1>5. Len(a) + 1 \in Nat
    OBVIOUS
  <1>6. /\ Ascending(Append(q, Len(a) + 1))
        /\ Elements(Append(q, Len(a) + 1)) = Elements(q) \cup {Len(a) + 1}
    BY <1>1, <1>4, <1>5, OneMore
  <1>7. packet.session # s \/ packet.openAck =>
          DataFor(Append(a, packet), s, p) = DataFor(a, s, p)
    BY DataArrives
  <1>8. packet.session = s /\ ~packet.openAck =>
          DataFor(Append(a, packet), s, p) = DataFor(a, s, p) \cup {Len(a) + 1}
    BY DataArrives
  <1> QED
    BY <1>1, <1>6, <1>7, <1>8, ZenonT(30) DEF Waits

\* The data among events that had arrived does not depend on what arrives later.
LEMMA DataStays ==
    ASSUME NEW a \in Seq(Packets), NEW packet \in Packets, NEW q \in Seq(Nat),
           \A i \in 1..Len(q) : q[i] \in 1..Len(a)
    PROVE  DataAmong(Append(a, packet), q) = DataAmong(a, q)
  <1> DEFINE b == Append(a, packet)
  <1>1. \A i \in 1..Len(a) : b[i] = a[i]
    BY AppendFacts
  <1>2. \A n \in Elements(q) : n \in 1..Len(a)
    BY DEF Elements
  <1> HIDE DEF b
  <1>3. DataAmong(b, q) = DataAmong(a, q)
    BY <1>1, <1>2 DEF DataAmong
  <1> QED
    BY <1>3 DEF b

\* The events of a transport after one more packet has arrived.
LEMMA GetsOn ==
    ASSUME NEW a \in Seq(Packets), NEW packet \in Packets, NEW s, NEW p \in Nat, p <= Len(a),
           NEW q \in Seq(Nat), Gets(a, q, s, p)
    PROVE  /\ packet.session # s => Gets(Append(a, packet), q, s, p)
           /\ packet.session = s => Gets(Append(a, packet), Append(q, Len(a) + 1), s, p)
  <1> DEFINE b == Append(a, packet)
             n == Len(a) + 1
             r == Append(q, n)
  <1>1. /\ Ascending(q) /\ \A i \in 1..Len(q) : q[i] \in 1..Len(a)
        /\ DataAmong(a, q) = DataFor(a, s, p)
    BY DEF Gets
  <1>2. DataAmong(b, q) = DataFor(a, s, p)
    BY <1>1, DataStays
  <1>3. Len(b) = Len(a) + 1 /\ Len(a) \in Nat /\ b[n] = packet
    OBVIOUS
  <1>4. n \in Nat /\ \A i \in 1..Len(q) : q[i] < n
    BY <1>1, <1>3
  <1>5. Ascending(r) /\ Elements(r) = Elements(q) \cup {n}
    BY <1>1, <1>4, OneMore
  <1>6. \A i \in 1..Len(q) : q[i] \in 1..Len(b)
    BY <1>1, <1>3
  <1>7. packet.session # s \/ packet.openAck => DataFor(b, s, p) = DataFor(a, s, p)
    BY DataArrives
  <1>8. packet.session = s /\ ~packet.openAck => DataFor(b, s, p) = DataFor(a, s, p) \cup {n}
    BY DataArrives
  <1>9. \A i \in 1..Len(r) : r[i] \in 1..Len(b)
    <2>1. /\ Len(r) = Len(q) + 1 /\ r[Len(q) + 1] = n /\ \A i \in 1..Len(q) : r[i] = q[i]
          /\ Len(q) \in Nat
      BY <1>4
    <2>2. n \in 1..Len(b)
      BY <1>3
    <2> HIDE DEF r, n, b
    <2>3. \A i \in 1..Len(r) : i \in 1..Len(q) \/ i = Len(q) + 1
      BY <2>1
    <2> QED
      BY <1>6, <2>1, <2>2, <2>3
  <1> HIDE DEF b, n, r
  <1>10. n # Failed
    BY <1>3 DEF n, Failed
  <1>11. packet.openAck => DataAmong(b, r) = DataAmong(b, q)
    BY <1>3, <1>5 DEF DataAmong
  <1>12. ~packet.openAck => DataAmong(b, r) = DataAmong(b, q) \cup {n}
    BY <1>3, <1>5, <1>10 DEF DataAmong
  <1>13. packet.session # s => Gets(b, q, s, p)
    BY <1>1, <1>2, <1>6, <1>7 DEF Gets
  <1>14. packet.session = s => Gets(b, r, s, p)
    BY <1>2, <1>5, <1>7, <1>8, <1>9, <1>11, <1>12, ZenonT(30) DEF Gets
  <1> QED
    BY <1>13, <1>14 DEF b, n, r

\* What was kept for an id is what its transport gets first.
LEMMA KeptIsDelivered ==
    ASSUME NEW a \in Seq(Packets), NEW s, NEW p \in Nat, NEW q \in Seq(Nat), Waits(a, q, s, p)
    PROVE  Gets(a, q, s, p)
  <1>1. Ascending(q) /\ Elements(q) = DataFor(a, s, p)
    BY DEF Waits
  <1>2. \A n \in DataFor(a, s, p) : n \in 1..Len(a) /\ n # Failed /\ ~a[n].openAck
    BY DEF DataFor, Failed
  <1>3. \A i \in 1..Len(q) : q[i] \in 1..Len(a)
    BY <1>1, <1>2 DEF Elements
  <1>4. DataAmong(a, q) = DataFor(a, s, p)
    BY <1>1, <1>2 DEF DataAmong
  <1> QED
    BY <1>1, <1>3, <1>4 DEF Gets

\* An id that is opened now has nothing to wait for.
LEMMA NothingToWaitFor ==
    ASSUME NEW a \in Seq(Packets), NEW s
    PROVE  Waits(a, <<>>, s, Len(a))
  <1>1. Len(a) + 1..Len(a) = {}
    OBVIOUS
  <1>2. DataFor(a, s, Len(a)) = {}
    BY <1>1 DEF DataFor
  <1>3. Elements(<<>>) = {} /\ Ascending(<<>>)
    BY DEF Elements, Ascending
  <1> QED
    BY <1>2, <1>3 DEF Waits

\* A step that leaves a session as it is, though a packet of another one, or a
\* SESSION_OPEN_ACK that no transport takes, may arrive.
Untouched(s) ==
    /\ opened'[s] = opened[s] /\ sessions'[s] = sessions[s] /\ pending'[s] = pending[s]
    /\ s \in awaiting' => s \in awaiting \/ sessions[s] # NoTransport
    /\ sessions[s] # NoTransport => events'[sessions[s]] = events[sessions[s]]
    /\ sessions[s] # NoTransport /\ ReceiverAlive(sessions[s])' => ReceiverAlive(sessions[s])

Quiet(s) ==
    \/ UNCHANGED arrived
    \/ \E packet \in Packets :
        /\ arrived' = Append(arrived, packet)
        /\ packet.session # s \/ (packet.openAck /\ sessions[s] = NoTransport)

\* The types of what a session is served from.
LEMMA ServedTypes ==
    ASSUME TypeOK, NEW s \in SessionIds
    PROVE  /\ arrived \in Seq(Packets) /\ Len(arrived) \in Nat
           /\ opened[s] \in Nat /\ pending[s] \in Seq(Nat)
           /\ sessions[s] \in Transports \cup {NoTransport}
           /\ \A t \in Transports : events[t] \in Seq(Nat)
  <1>1. ASSUME NEW q, q \in Seq(1..MaxArrived) \/ q \in Seq(0..MaxArrived)
        PROVE  q \in Seq(Nat)
    BY <1>1, BoundsAreNat
  <1>2. /\ pending[s] \in Seq(1..MaxArrived) /\ \A t \in Transports : events[t] \in Seq(0..MaxArrived)
        /\ arrived \in Seq(Packets) /\ opened[s] \in 0..MaxArrived
        /\ sessions[s] \in Transports \cup {NoTransport}
    BY DEF TypeOK
  <1>3. pending[s] \in Seq(Nat) /\ \A t \in Transports : events[t] \in Seq(Nat)
    BY <1>1, <1>2, ZenonT(30)
  <1>4. Len(arrived) \in Nat /\ opened[s] \in Nat
    BY <1>2, BoundsAreNat
  <1> QED
    BY <1>2, <1>3, <1>4

LEMMA UntouchedIsServed ==
    ASSUME TypeOK, NEW s \in SessionIds, SessionIsServed(s), Untouched(s), Quiet(s)
    PROVE  SessionIsServed(s)'
  <1>1. /\ arrived \in Seq(Packets) /\ Len(arrived) \in Nat
        /\ opened[s] \in Nat /\ pending[s] \in Seq(Nat)
        /\ sessions[s] \in Transports \cup {NoTransport}
        /\ \A t \in Transports : events[t] \in Seq(Nat)
    BY ServedTypes
  <1> DEFINE alive == sessions[s] # NoTransport /\ ReceiverAlive(sessions[s])
             awaits == s \in awaiting /\ sessions[s] = NoTransport
  <1>2. /\ opened[s] <= Len(arrived)
        /\ awaits => Waits(arrived, pending[s], s, opened[s])
        /\ alive => Gets(arrived, events[sessions[s]], s, opened[s])
    BY DEF SessionIsServed
  <1>3. /\ opened'[s] = opened[s] /\ sessions'[s] = sessions[s] /\ pending'[s] = pending[s]
        /\ s \in awaiting' /\ sessions'[s] = NoTransport => awaits
        /\ sessions'[s] # NoTransport /\ ReceiverAlive(sessions[s])' => alive
        /\ sessions[s] # NoTransport => events'[sessions[s]] = events[sessions[s]]
    BY DEF Untouched
  <1>4. ReceiverAlive(sessions[s])' <=> handle'[sessions'[s]].phase \in {"registering", "open", "closed"}
    BY DEF ReceiverAlive
  <1> HIDE DEF alive, awaits
  <1>5. /\ opened[s] <= Len(arrived')
        /\ awaits => Waits(arrived', pending[s], s, opened[s])
        /\ alive => Gets(arrived', events[sessions[s]], s, opened[s])
    <2>1. CASE UNCHANGED arrived
      BY <1>2, <2>1
    <2>2. ASSUME NEW packet \in Packets, arrived' = Append(arrived, packet),
                 packet.session # s \/ (packet.openAck /\ sessions[s] = NoTransport)
          PROVE  /\ opened[s] <= Len(arrived')
                 /\ awaits => Waits(arrived', pending[s], s, opened[s])
                 /\ alive => Gets(arrived', events[sessions[s]], s, opened[s])
      <3>1. Len(arrived') = Len(arrived) + 1
        BY <1>1, <2>2, AppendFacts
      <3>2. opened[s] <= Len(arrived')
        BY <1>1, <1>2, <3>1, StillWithin, ZenonT(30)
      <3>3. awaits => Waits(arrived', pending[s], s, opened[s])
        BY <1>1, <1>2, <2>2, WaitsOn, ZenonT(30)
      <3>4. ASSUME alive PROVE Gets(arrived', events[sessions[s]], s, opened[s])
        <4>1. sessions[s] \in Transports /\ packet.session # s
          BY <1>1, <2>2, <3>4 DEF alive
        <4>2. events[sessions[s]] \in Seq(Nat)
          BY <1>1, <4>1
        <4>3. Gets(arrived, events[sessions[s]], s, opened[s])
          BY <1>2, <3>4
        <4> QED
          BY <1>1, <1>2, <2>2, <4>1, <4>2, <4>3, GetsOn, ZenonT(30)
      <3> QED
        BY <3>2, <3>3, <3>4
    <2> QED
      BY <2>1, <2>2, ZenonT(30) DEF Quiet
  <1>6. opened'[s] <= Len(arrived')
    BY <1>3, <1>5
  <1>7. s \in awaiting' /\ sessions'[s] = NoTransport => Waits(arrived', pending'[s], s, opened'[s])
    BY <1>3, <1>5
  <1>8. sessions'[s] # NoTransport /\ ReceiverAlive(sessions[s])'
          => Gets(arrived', events'[sessions'[s]], s, opened'[s])
    BY <1>3, <1>5, <1>2, ZenonT(30) DEF alive
  <1> QED
    BY <1>6, <1>7, <1>8, ZenonT(30) DEF SessionIsServed

\* The handles open nothing and read nothing.
LEMMA HandlesReadNothing ==
    ASSUME HandleNext
    PROVE  UNCHANGED <<arrived, opened>>
  BY ZenonT(30) DEF HandleNext, RegisterSession, AbandonRegister, Unregister, DropReceiver, WritePacket,
         CloseConnection, DropConnection

LEMMA HandleServed ==
    ASSUME MapInv, NEW s \in SessionIds, SessionIsServed(s), HandleNext
    PROVE  SessionIsServed(s)'
  <1>1. TypeOK /\ UNCHANGED <<arrived, opened, sessions, awaiting, pending, events>>
    BY HandlesReadNothing, HandleFrame, ZenonT(30) DEF MapInv
  <1>2. sessions[s] # NoTransport => sessions[s] \in Transports /\ handle[sessions[s]].phase # "unused"
    BY <1>1 DEF MapInv, HeldIsUsed, TypeOK
  <1>3. \A t \in Transports : handle[t].phase # "unused" /\ ReceiverAlive(t)' => ReceiverAlive(t)
    BY <1>1, HandleFrame
  <1>4. sessions[s] # NoTransport /\ ReceiverAlive(sessions[s])' => ReceiverAlive(sessions[s])
    <2>1. ReceiverAlive(sessions[s])' <=> handle'[sessions[s]].phase \in {"registering", "open", "closed"}
      BY <1>1, ZenonT(30) DEF ReceiverAlive
    <2> QED
      BY <1>2, <1>3, <2>1 DEF ReceiverAlive
  <1>5. Untouched(s)
    BY <1>1, <1>4, ZenonT(30) DEF Untouched
  <1>6. Quiet(s)
    BY <1>1, ZenonT(30) DEF Quiet
  <1> QED
    BY <1>1, <1>5, <1>6, UntouchedIsServed

\* A step of the driver that does not touch what it holds for s.
LEMMA DriverLeaves ==
    ASSUME MapInv, DriverNext, NEW s \in SessionIds, SessionIsServed(s), Quiet(s),
           opened'[s] = opened[s], sessions'[s] = sessions[s], pending'[s] = pending[s],
           s \in awaiting' => s \in awaiting \/ sessions[s] # NoTransport,
           sessions[s] # NoTransport => events'[sessions[s]] = events[sessions[s]]
    PROVE  SessionIsServed(s)'
  <1>1. \A t \in Transports : ReceiverAlive(t)' => ReceiverAlive(t)
    BY DriverFrame DEF MapInv
  <1>2. sessions[s] \in Transports \cup {NoTransport}
    BY DEF MapInv, TypeOK
  <1>3. sessions[s] # NoTransport /\ ReceiverAlive(sessions[s])' => ReceiverAlive(sessions[s])
    <2>1. ReceiverAlive(sessions[s])' <=> handle'[sessions[s]].phase \in {"registering", "open", "closed"}
      BY DEF ReceiverAlive
    <2> QED
      BY <1>1, <1>2, <2>1, ZenonT(30) DEF ReceiverAlive
  <1>4. Untouched(s)
    BY <1>3 DEF Untouched
  <1> QED
    BY <1>4, UntouchedIsServed DEF MapInv

\* What an opened id starts from.
LEMMA OpensMoves ==
    ASSUME TypeOK, NEW s \in SessionIds, NEW n \in Nat, Opens(s, n)
    PROVE  /\ \A r \in SessionIds \ {s} : opened'[r] = opened[r]
           /\ s \in awaiting \/ sessions[s] # NoTransport => opened'[s] = opened[s]
           /\ s \notin awaiting /\ sessions[s] = NoTransport => opened'[s] = n
  BY DEF TypeOK, Opens

\* An id that nobody waits for and nobody holds has no packet.
LEMMA NothingPending ==
    ASSUME MapInv, NEW s \in SessionIds, s \notin awaiting
    PROVE  pending[s] = <<>>
  BY DEF MapInv, PendingIsAwaited

LEMMA WriteServed ==
    ASSUME MapInv, \A s \in SessionIds : SessionIsServed(s), DriverNext, commands # <<>>,
           driver' = "running", Head(commands).type = "Write", DriverWrite(Head(commands)),
           NEW r \in SessionIds
    PROVE  SessionIsServed(r)'
  <1> DEFINE a == Head(commands).openAck
  <1>1. /\ UNCHANGED <<arrived, sessions, pending, events>>
        /\ awaiting' = IF a = 0 THEN awaiting ELSE awaiting \cup {a}
        /\ IF a = 0 THEN UNCHANGED opened ELSE Opens(a, Len(arrived))
    BY DEF DriverWrite, Stop
  <1>2. a \in SessionIds \cup {0} /\ TypeOK
    BY TakenFacts, CommandFacts DEF MapInv
  <1>3. Quiet(r)
    BY <1>1 DEF Quiet
  <1>4. arrived \in Seq(Packets) /\ Len(arrived) \in Nat
    BY <1>2 DEF TypeOK
  <1> HIDE DEF a
  <1>5. CASE a = 0 \/ r # a \/ r \in awaiting \/ sessions[r] # NoTransport
    <2>1. opened'[r] = opened[r]
      BY <1>1, <1>2, <1>4, <1>5, OpensMoves
    <2>2. r \in awaiting' => r \in awaiting \/ sessions[r] # NoTransport
      BY <1>1, <1>5
    <2> QED
      BY <1>1, <1>3, <2>1, <2>2, DriverLeaves
  <1>6. CASE a # 0 /\ r = a /\ r \notin awaiting /\ sessions[r] = NoTransport
    <2>1. opened'[r] = Len(arrived)
      BY <1>1, <1>2, <1>4, <1>6, OpensMoves
    <2>2. pending'[r] = <<>> /\ sessions'[r] = NoTransport /\ arrived' = arrived
      BY <1>1, <1>6, NothingPending
    <2>3. Waits(arrived', pending'[r], r, opened'[r])
      BY <1>4, <2>1, <2>2, NothingToWaitFor
    <2> QED
      BY <1>4, <2>1, <2>2, <2>3 DEF SessionIsServed
  <1> QED
    BY <1>5, <1>6

LEMMA ForgetServed ==
    ASSUME MapInv, \A s \in SessionIds : SessionIsServed(s), DriverNext,
           NEW s \in SessionIds, Forget(s), UNCHANGED <<events, opened>>,
           NEW r \in SessionIds, r # s => Quiet(r),
           r = s => Len(arrived') >= Len(arrived) /\ Len(arrived') \in Nat
    PROVE  SessionIsServed(r)'
  <1>1. /\ sessions'[s] = NoTransport /\ awaiting' = awaiting \ {s}
        /\ \A u \in SessionIds \ {s} : sessions'[u] = sessions[u] /\ pending'[u] = pending[u]
    BY ForgetFacts DEF MapInv
  <1>2. CASE r # s
    BY <1>1, <1>2, DriverLeaves
  <1>3. CASE r = s
    <2>1. opened[r] \in Nat /\ Len(arrived) \in Nat
      BY ServedTypes DEF MapInv
    <2>2. opened[r] <= Len(arrived)
      BY DEF SessionIsServed
    <2>3. opened'[r] <= Len(arrived')
      BY <1>3, <2>1, <2>2
    <2> QED
      BY <1>1, <1>3, <2>3 DEF SessionIsServed
  <1> QED
    BY <1>2, <1>3

\* The new transport gets what was kept for it; a dead one gets nothing.
LEMMA RegisterServed ==
    ASSUME MapInv, \A s \in SessionIds : SessionIsServed(s), DriverNext, commands # <<>>,
           driver = "running", Head(commands).type = "Register",
           DriverRegister(Head(commands).transport),
           NEW r \in SessionIds
    PROVE  SessionIsServed(r)'
  <1> DEFINE t == Head(commands).transport
             s == handle[t].session
  <1>1. TypeOK /\ QueuedIsUsed /\ HeldIsUsed
    BY DEF MapInv
  <1>2. t \in Transports /\ s \in SessionIds /\ UNCHANGED arrived
    BY <1>1, RegisterFacts
  <1>3. \/ UNCHANGED <<sessions, awaiting, pending, events, opened>>
        \/ /\ sessions[s] = NoTransport
           /\ sessions' = [sessions EXCEPT ![s] = t]
           /\ awaiting' = awaiting \ {s}
           /\ Unpended(s)
           /\ events' = [events EXCEPT ![t] = IF handle[t].phase = "gone" THEN @ ELSE Flushed(s)]
           /\ handle'[t].phase = IF handle[t].phase = "registering" THEN "open" ELSE handle[t].phase
           /\ Opens(s, Len(arrived))
    BY <1>1, RegisterFacts, ZenonT(30)
  <1>4. Quiet(r)
    BY <1>2 DEF Quiet
  <1>5. arrived \in Seq(Packets) /\ Len(arrived) \in Nat
    BY <1>1 DEF TypeOK
  <1> HIDE DEF t, s
  <1>6. CASE UNCHANGED <<sessions, awaiting, pending, events, opened>>
    BY <1>4, <1>6, DriverLeaves
  <1>7. CASE /\ sessions[s] = NoTransport
             /\ sessions' = [sessions EXCEPT ![s] = t]
             /\ awaiting' = awaiting \ {s}
             /\ Unpended(s)
             /\ events' = [events EXCEPT ![t] = IF handle[t].phase = "gone" THEN @ ELSE Flushed(s)]
             /\ handle'[t].phase = IF handle[t].phase = "registering" THEN "open" ELSE handle[t].phase
             /\ Opens(s, Len(arrived))
    <2>1. sessions'[s] = t /\ \A u \in SessionIds \ {s} : sessions'[u] = sessions[u]
      BY <1>1, <1>2, <1>7, ZenonT(30) DEF TypeOK
    <2>2. \A u \in SessionIds \ {s} : pending'[u] = pending[u]
      BY <1>1, <1>2, <1>7, UnpendedFacts
    <2>3. \A u \in Transports \ {t} : events'[u] = events[u]
      BY <1>1, <1>2, <1>7, ZenonT(30) DEF TypeOK
    <2>4. handle[t].phase # "gone" => events'[t] = pending[s]
      <3>1. Flushed(s) = pending[s]
        BY <1>1, <1>2, FlushedFacts
      <3> QED
        BY <1>1, <1>2, <1>7, <3>1 DEF TypeOK
    <2>5. /\ \A u \in SessionIds \ {s} : opened'[u] = opened[u]
          /\ s \in awaiting => opened'[s] = opened[s]
          /\ s \notin awaiting => opened'[s] = Len(arrived)
      BY <1>1, <1>2, <1>5, <1>7, OpensMoves
    <2>6. CASE r # s
      <3>1. sessions[r] # NoTransport => sessions[r] \in Transports \ {t}
        BY <1>1, <2>6 DEF HeldIsUsed, TypeOK, s
      <3>2. sessions[r] # NoTransport => events'[sessions[r]] = events[sessions[r]]
        BY <2>3, <3>1
      <3>3. r \in awaiting' => r \in awaiting
        BY <1>7
      <3> QED
        BY <1>4, <2>1, <2>2, <2>5, <2>6, <3>2, <3>3, DriverLeaves
    <2>7. CASE r = s
      <3>1. Waits(arrived, pending[s], s, opened'[s]) /\ opened'[s] <= Len(arrived) /\ opened'[s] \in Nat
        <4>1. CASE s \in awaiting
          <5>1. SessionIsServed(s) /\ opened[s] \in Nat
            BY <1>1, <1>2, ServedTypes
          <5> QED
            BY <1>7, <2>5, <4>1, <5>1 DEF SessionIsServed
        <4>2. CASE s \notin awaiting
          <5>1. pending[s] = <<>>
            BY <1>2, <4>2, NothingPending
          <5>2. opened'[s] = Len(arrived)
            BY <2>5, <4>2
          <5>3. Waits(arrived, <<>>, s, Len(arrived))
            BY <1>5, NothingToWaitFor, ZenonT(30)
          <5> QED
            BY <1>5, <5>1, <5>2, <5>3
        <4> QED
          BY <4>1, <4>2
      <3>2. pending[s] \in Seq(Nat)
        BY <1>1, <1>2, ServedTypes, ZenonT(30)
      <3>3. Gets(arrived, pending[s], s, opened'[s])
        BY <1>5, <3>1, <3>2, KeptIsDelivered
      <3>4. sessions'[r] = t /\ t # NoTransport
        BY <1>2, <2>1, <2>7, BoundsAreNat
      <3>5. ReceiverAlive(sessions[r])' => handle[t].phase # "gone"
        BY <1>7, <3>4 DEF ReceiverAlive
      <3>6. ReceiverAlive(sessions[r])' => Gets(arrived', events'[sessions'[r]], r, opened'[r])
        BY <1>2, <2>4, <2>7, <3>3, <3>4, <3>5
      <3>7. opened'[r] <= Len(arrived')
        BY <1>2, <2>7, <3>1
      <3> QED
        BY <3>4, <3>6, <3>7, ZenonT(30) DEF SessionIsServed
    <2> QED
      BY <2>6, <2>7
  <1> QED
    BY <1>3, <1>6, <1>7

\* What a packet that the driver survives does to the sessions: nothing to those it is
\* not for; and to its own session it is delivered, finds nobody, opens it, or is kept.
LEMMA IncomingOthers ==
    ASSUME MapInv, NEW packet \in Packets, DriverIncoming(packet), driver' = "running",
           NEW r \in SessionIds, r # packet.session
    PROVE  /\ opened'[r] = opened[r] /\ sessions'[r] = sessions[r] /\ pending'[r] = pending[r]
           /\ r \in awaiting' => r \in awaiting
           /\ sessions[r] # NoTransport => events'[sessions[r]] = events[sessions[r]]
  <1> DEFINE s == packet.session
  <1>1. TypeOK /\ HeldIsUsed
    BY DEF MapInv
  <1>2. driver' # "stopped" /\ driver' # "failed" /\ Len(arrived) + 1 \in Nat
    BY <1>1 DEF TypeOK
  <1>3. s \in SessionIds \/ s = 0
    BY DEF Packets
  <1>4. ToControl => UNCHANGED <<sessions, pending, events>>
    BY <1>2 DEF ToControl, Stop
  <1>5. CASE s = 0 /\ ToControl /\ UNCHANGED <<awaiting, opened>>
    BY <1>4, <1>5, ZenonT(30)
  <1>6. CASE /\ s # 0 /\ sessions[s] # NoTransport /\ UNCHANGED opened
             /\ IF ReceiverAlive(sessions[s])
                THEN /\ events' = [events EXCEPT ![sessions[s]] = Append(@, Len(arrived) + 1)]
                     /\ awaiting' = IF packet.openAck THEN awaiting \cup {s} ELSE awaiting
                     /\ UNCHANGED <<sessions, pending>>
                ELSE Forget(s) /\ UNCHANGED events
    <2>1. s \in SessionIds
      BY <1>3, <1>6
    <2>2. CASE ReceiverAlive(sessions[s])
      <3>1. sessions[r] # NoTransport => sessions[r] \in Transports /\ sessions[r] # sessions[s]
        BY <1>1, <1>6, <2>1, ZenonT(30) DEF HeldIsUsed, TypeOK
      <3>2. \A u \in Transports : u # sessions[s] => events'[u] = events[u]
        BY <1>1, <1>6, <2>2 DEF TypeOK
      <3>3. r \in awaiting' => r \in awaiting
        BY <1>6, <2>2
      <3> QED
        BY <1>6, <2>2, <3>1, <3>2, <3>3
    <2>3. CASE ~ReceiverAlive(sessions[s])
      BY <1>1, <1>6, <2>1, <2>3, ForgetFacts
    <2> QED
      BY <2>2, <2>3
  <1>7. CASE s # 0 /\ ToControl /\ awaiting' = awaiting \cup {s} /\ Opens(s, Len(arrived) + 1)
    <2>1. s \in SessionIds
      BY <1>3, <1>7
    <2>2. opened'[r] = opened[r]
      BY <1>1, <1>2, <1>7, <2>1, OpensMoves
    <2> QED
      BY <1>4, <1>7, <2>2
  <1>8. CASE /\ s # 0
             /\ pending' = [pending EXCEPT ![s] = Append(@, Len(arrived) + 1)]
             /\ UNCHANGED <<sessions, awaiting, events, opened>>
    <2>1. pending'[r] = pending[r]
      BY <1>1, <1>8 DEF TypeOK
    <2> QED
      BY <1>8, <2>1
  <1>9. ~Stop
    BY <1>2 DEF Stop
  <1> QED
    BY <1>2, <1>5, <1>6, <1>7, <1>8, <1>9, ZenonT(30) DEF DriverIncoming

LEMMA IncomingOwn ==
    ASSUME MapInv, NEW packet \in Packets, DriverIncoming(packet), driver' = "running",
           packet.session \in SessionIds
    PROVE  LET s == packet.session IN
           /\ arrived' = Append(arrived, packet)
           /\ \/ /\ sessions[s] # NoTransport /\ UNCHANGED <<sessions, opened>>
                 /\ ReceiverAlive(sessions[s])
                 /\ events'[sessions[s]] = Append(events[sessions[s]], Len(arrived) + 1)
              \/ Forget(s) /\ UNCHANGED <<events, opened>>
              \/ /\ sessions[s] = NoTransport /\ packet.openAck
                 /\ UNCHANGED <<sessions, pending, events>>
                 /\ Opens(s, Len(arrived) + 1)
              \/ /\ sessions[s] = NoTransport /\ ~packet.openAck /\ s \in awaiting
                 /\ pending'[s] = Append(pending[s], Len(arrived) + 1)
                 /\ UNCHANGED <<sessions, awaiting, opened>>
  <1> DEFINE s == packet.session
  <1>1. TypeOK /\ s # 0
    BY SessionIdsAssumption DEF MapInv
  <1>2. driver' # "stopped" /\ driver' # "failed"
    OBVIOUS
  <1>3. ToControl => UNCHANGED <<sessions, pending, events>>
    BY <1>2 DEF ToControl, Stop
  <1>4. ~Stop
    BY <1>2 DEF Stop
  <1>5. sessions[s] # NoTransport => sessions[s] \in Transports
    BY <1>1 DEF TypeOK
  <1>6. ASSUME sessions[s] # NoTransport, events' = [events EXCEPT ![sessions[s]] = Append(@, Len(arrived) + 1)]
        PROVE  events'[sessions[s]] = Append(events[sessions[s]], Len(arrived) + 1)
    BY <1>1, <1>5, <1>6 DEF TypeOK
  <1>7. ASSUME pending' = [pending EXCEPT ![s] = Append(@, Len(arrived) + 1)]
        PROVE  pending'[s] = Append(pending[s], Len(arrived) + 1)
    BY <1>1, <1>7 DEF TypeOK
  <1> QED
    BY <1>1, <1>2, <1>3, <1>4, <1>6, <1>7, ZenonT(30) DEF DriverIncoming

LEMMA IncomingServed ==
    ASSUME MapInv, \A s \in SessionIds : SessionIsServed(s), DriverNext,
           NEW packet \in Packets, DriverIncoming(packet), driver' = "running",
           NEW r \in SessionIds
    PROVE  SessionIsServed(r)'
  <1>1. TypeOK /\ arrived' = Append(arrived, packet)
    BY DEF MapInv, DriverIncoming
  <1>2. CASE r # packet.session
    <2>1. Quiet(r)
      BY <1>1, <1>2 DEF Quiet
    <2> QED
      BY <1>2, <2>1, IncomingOthers, DriverLeaves, ZenonT(30)
  <1>3. CASE r = packet.session
    <2>1. /\ arrived \in Seq(Packets) /\ Len(arrived) \in Nat
          /\ opened[r] \in Nat /\ pending[r] \in Seq(Nat)
          /\ sessions[r] \in Transports \cup {NoTransport}
          /\ \A t \in Transports : events[t] \in Seq(Nat)
      BY <1>1, ServedTypes, ZenonT(30)
    <2>2. /\ opened[r] <= Len(arrived)
          /\ r \in awaiting /\ sessions[r] = NoTransport => Waits(arrived, pending[r], r, opened[r])
          /\ sessions[r] # NoTransport /\ ReceiverAlive(sessions[r])
              => Gets(arrived, events[sessions[r]], r, opened[r])
      BY DEF SessionIsServed
    <2>3. arrived' \in Seq(Packets) /\ Len(arrived') = Len(arrived) + 1
      BY <1>1, <2>1
    <2>4. opened[r] <= Len(arrived')
      BY <2>1, <2>2, <2>3
    <2>5. CASE /\ sessions[r] # NoTransport /\ UNCHANGED <<sessions, opened>>
               /\ ReceiverAlive(sessions[r])
               /\ events'[sessions[r]] = Append(events[sessions[r]], Len(arrived) + 1)
      <3>1. events[sessions[r]] \in Seq(Nat)
        BY <2>1, <2>5
      <3>2. Gets(arrived', events'[sessions[r]], r, opened[r])
        BY <1>1, <1>3, <2>1, <2>2, <2>5, <3>1, GetsOn, ZenonT(30)
      <3> QED
        BY <2>4, <2>5, <3>2, ZenonT(30) DEF SessionIsServed
    <2>6. CASE Forget(r) /\ UNCHANGED <<events, opened>>
      <3>1. Len(arrived') >= Len(arrived) /\ Len(arrived') \in Nat
        BY <2>1, <2>3
      <3> QED
        BY <2>6, <3>1, ForgetServed, ZenonT(30)
    <2>7. CASE /\ sessions[r] = NoTransport /\ packet.openAck
               /\ UNCHANGED <<sessions, pending, events>>
               /\ Opens(r, Len(arrived) + 1)
      <3>1. /\ r \in awaiting => opened'[r] = opened[r]
            /\ r \notin awaiting => opened'[r] = Len(arrived')
        BY <1>1, <2>1, <2>3, <2>7, OpensMoves
      <3>2. CASE r \in awaiting
        <4>1. Quiet(r)
          BY <1>1, <2>7 DEF Quiet
        <4> QED
          BY <2>7, <3>1, <3>2, <4>1, DriverLeaves
      <3>3. CASE r \notin awaiting
        <4>1. pending'[r] = <<>> /\ sessions'[r] = NoTransport
          BY <2>7, <3>3, NothingPending
        <4>2. Waits(arrived', pending'[r], r, opened'[r])
          BY <2>3, <3>1, <3>3, <4>1, NothingToWaitFor
        <4>3. opened'[r] <= Len(arrived')
          BY <2>1, <2>3, <3>1, <3>3
        <4> QED
          BY <4>1, <4>2, <4>3, ZenonT(30) DEF SessionIsServed
      <3> QED
        BY <3>2, <3>3
    <2>8. CASE /\ sessions[r] = NoTransport /\ ~packet.openAck /\ r \in awaiting
               /\ pending'[r] = Append(pending[r], Len(arrived) + 1)
               /\ UNCHANGED <<sessions, awaiting, opened>>
      <3>1. Waits(arrived', pending'[r], r, opened[r])
        BY <1>1, <1>3, <2>1, <2>2, <2>8, WaitsOn, ZenonT(30)
      <3> QED
        BY <2>4, <2>8, <3>1, ZenonT(30) DEF SessionIsServed
    <2> QED
      BY <1>3, <2>5, <2>6, <2>7, <2>8, IncomingOwn, ZenonT(30)
  <1> QED
    BY <1>2, <1>3

LEMMA DriverServed ==
    ASSUME MapInv, driver = "running", \A s \in SessionIds : SessionIsServed(s), DriverNext,
           driver' = "running", NEW r \in SessionIds
    PROVE  SessionIsServed(r)'
  <1>1. CASE DriverPolls
    <2>1. Quiet(r)
      BY <1>1 DEF DriverPolls, Quiet
    <2> QED
      BY <1>1, <2>1, DriverLeaves DEF DriverPolls
  <1>2. CASE DriverAlone \/ DriverReadFails
    BY <1>2 DEF DriverAlone, DriverReadFails, Stop
  <1>3. CASE DriverCommand
    <2> DEFINE c == Head(commands)
    <2>1. commands # <<>> /\ c \in Commands
      BY <1>3, TakenFacts DEF DriverCommand, MapInv
    <2>2. CASE c.type = "Write" /\ DriverWrite(c)
      BY <2>1, <2>2, WriteServed
    <2>3. CASE c.type = "Register" /\ DriverRegister(c.transport)
      BY <2>1, <2>3, RegisterServed
    <2>4. CASE c.type = "Unregister" /\ DriverUnregister(c.session)
      <3>1. c.session \in SessionIds
        BY <2>1, <2>4, CommandFacts
      <3>2. Forget(c.session) /\ UNCHANGED <<events, opened, arrived>>
        BY <2>4 DEF DriverUnregister
      <3>3. Quiet(r) /\ Len(arrived) \in Nat
        BY <3>2 DEF Quiet, MapInv, TypeOK
      <3> HIDE DEF c
      <3> QED
        BY <3>1, <3>2, <3>3, ForgetServed
    <2>5. CASE c.type = "Close" /\ DriverClose
      BY <2>5, ZenonT(30) DEF DriverClose, Stop
    <2> QED
      BY <1>3, <2>2, <2>3, <2>4, <2>5, ZenonT(30) DEF DriverCommand
  <1> QED
    BY <1>1, <1>2, <1>3, IncomingServed, ZenonT(30) DEF DriverNext

LEMMA DeliveryStep == DeliveryInv /\ [Next]_vars => DeliveryInv'
  <1> SUFFICES ASSUME DeliveryInv, [Next]_vars PROVE DeliveryInv'
    OBVIOUS
  <1>1. MapInv /\ MapInv'
    BY MapStep DEF DeliveryInv
  <1>2. SUFFICES ASSUME driver' = "running", NEW r \in SessionIds
                 PROVE  SessionIsServed(r)'
    BY <1>1, ZenonT(30) DEF DeliveryInv
  <1>3. ASSUME driver = "running" PROVE \A s \in SessionIds : SessionIsServed(s)
    BY <1>3 DEF DeliveryInv
  <1>4. CASE UNCHANGED vars
    BY <1>2, <1>3, <1>4 DEF SessionIsServed, ReceiverAlive, vars
  <1>5. CASE HandleNext
    <2>1. driver = "running"
      BY <1>1, <1>2, <1>5, HandleFrame DEF MapInv
    <2> QED
      BY <1>1, <1>3, <1>5, <2>1, HandleServed
  <1>6. CASE DriverNext
    <2>1. driver = "running"
      <3>1. TypeOK /\ QueuedIsUsed
        BY <1>1 DEF MapInv
      <3>2. driver' # "stopped" /\ driver' # "failed"
        BY <1>2
      <3>3. ~Stop
        BY <3>2, ZenonT(30) DEF Stop
      <3>4. CASE Stays \/ \E s \in SessionIds : Forgets(s) \/ Kept(s)
        BY <1>2, <3>4 DEF Stays, Forgets, Kept
      <3>5. CASE Registers
        BY <1>2, <3>5 DEF Registers, DriverRegister
      <3> QED
        BY <1>6, <3>1, <3>2, <3>3, <3>4, <3>5, DriverShapes, ZenonT(30) DEF Fails, Stops
    <2> QED
      BY <1>1, <1>2, <1>3, <1>6, <2>1, DriverServed
  <1> QED
    BY <1>4, <1>5, <1>6 DEF Next

LEMMA InitDelivery == Init => DeliveryInv
  <1> SUFFICES ASSUME Init PROVE DeliveryInv
    OBVIOUS
  <1>1. Len(arrived) = 0
    BY DEF Init
  <1>2. \A s \in SessionIds : opened[s] = 0 /\ s \notin awaiting /\ sessions[s] = NoTransport
    BY ZenonT(30) DEF Init
  <1>3. ASSUME NEW s \in SessionIds PROVE SessionIsServed(s)
    <2>1. opened[s] <= Len(arrived)
      BY <1>1, <1>2
    <2> QED
      BY <1>2, <2>1, ZenonT(30) DEF SessionIsServed
  <1> QED
    BY <1>3, InitTyped DEF DeliveryInv

\* A session that its driver serves gets every data packet that arrived for it since
\* it was opened, once, in the order of the carrier, and those of no other session,
\* whether they came before its registration was processed or after; for any
\* sessions, transports and limits.
THEOREM PacketsAreDelivered == Spec => []DeliveredInOrder
  <1>1. DeliveryInv => DeliveredInOrder
    <2> SUFFICES ASSUME DeliveryInv, driver = "running", NEW s \in SessionIds
                 PROVE  /\ s \in awaiting /\ sessions[s] = NoTransport =>
                            /\ Ascending(pending[s])
                            /\ Elements(pending[s]) = DataFor(arrived, s, opened[s])
                        /\ \A t \in Transports :
                            sessions[s] = t /\ ReceiverAlive(t) =>
                                /\ Ascending(events[t])
                                /\ DataAmong(arrived, events[t]) = DataFor(arrived, s, opened[s])
      BY ZenonT(30) DEF DeliveredInOrder
    <2>1. SessionIsServed(s)
      BY DEF DeliveryInv
    <2> QED
      BY <2>1, BoundsAreNat, ZenonT(30) DEF SessionIsServed, Waits, Gets
  <1> QED
    BY <1>1, InitDelivery, DeliveryStep, PTL DEF Spec
=============================================================================
