----------------------------- MODULE Multiplex -----------------------------
(***************************************************************************)
(* The driver task that shares one carrier between the control flow and    *)
(* the sessions of one endpoint (crates/nnrp-runtime/src/multiplex.rs).    *)
(* Handles talk to the driver through one unbounded command channel; the   *)
(* driver talks to each session transport through an unbounded event       *)
(* channel.  A transport is identified by the number of its                *)
(* register_session call, so two transports of one session id are told     *)
(* apart.                                                                  *)
(*                                                                         *)
(* The event channel of a transport is kept as the sequence of everything  *)
(* ever sent into it: reading takes a prefix of it and decides nothing.    *)
(* A packet is its position in `arrived`, the packets the driver has read  *)
(* from the carrier.  The byte limit of the pre-registration buffer is the *)
(* packet limit MaxPending.                                                *)
(***************************************************************************)
EXTENDS Naturals, Sequences

CONSTANTS
    SessionIds,      \* the non-zero session ids
    MaxTransports,   \* bound: calls of register_session
    MaxArrived,      \* bound: packets read from the carrier
    MaxCommands,     \* bound: commands waiting in the channel
    MaxPending,      \* MAX_PRE_REGISTRATION_PACKETS
    Overlapping      \* whether an id may be registered while a transport of it is open

ASSUME BoundsAssumption ==
    /\ {MaxTransports, MaxArrived, MaxCommands, MaxPending} \subseteq Nat
    /\ Overlapping \in BOOLEAN
ASSUME SessionIdsAssumption == 0 \notin SessionIds

Transports == 1..MaxTransports
NoTransport == 0

\* DriverEvent::Failed; the packets are numbered from 1.
Failed == 0

\* Packets of a session, and those that carry session id 0.
Packets == [session : SessionIds, openAck : BOOLEAN] \cup {[session |-> 0, openAck |-> FALSE]}

VARIABLES
    polled,      \* the driver found no command and is about to take what the carrier has
    driver,      \* "running", "failed" (terminal_failure is set) or "stopped" (the task ended)
    sessions,    \* the transport whose sender the driver holds for each id
    awaiting,    \* awaiting_registration
    pending,     \* pending_sessions
    commands,    \* the command channel
    events,      \* the event channel of each transport
    handle,      \* each transport: [session, phase] (see Phases)
    connection,  \* whether a MultiplexedConnection, with the control receiver, is alive
    arrived,     \* the packets read so far
    opened,      \* the number of packets that had arrived when the id was last opened
    closed,      \* the ids some transport of which has been closed or dropped
    cause        \* the session whose packet set terminal_failure, or 0

driverVars == <<polled, driver, sessions, awaiting, pending>>
vars == <<polled, driver, sessions, awaiting, pending, commands, events,
          handle, connection, arrived, opened, closed, cause>>

(***************************************************************************)
(* A transport is unused until register_session sends its command, then    *)
(* registering until the driver completes it; it is open once the caller   *)
(* has it, closed after its only Unregister command was sent, and gone     *)
(* when its receiver was dropped or never handed out.                      *)
(***************************************************************************)
Phases == {"unused", "registering", "open", "closed", "gone"}

Handles == {[session |-> 0, phase |-> "unused"]} \cup [session : SessionIds, phase : Phases \ {"unused"}]

ReceiverAlive(t) == handle[t].phase \in {"registering", "open", "closed"}

Becomes(t, phase) ==
    handle' = [handle EXCEPT ![t] = [session |-> handle[t].session, phase |-> phase]]

Commands ==
    [type : {"Register"}, transport : Transports]
        \cup [type : {"Unregister"}, session : SessionIds]
        \cup [type : {"Write"}, openAck : SessionIds \cup {0}]
        \cup [type : {"Close"}]

Init ==
    /\ polled = FALSE
    /\ driver = "running"
    /\ sessions = [s \in SessionIds |-> NoTransport]
    /\ awaiting = {}
    /\ pending = [s \in SessionIds |-> <<>>]
    /\ commands = <<>>
    /\ events = [t \in Transports |-> <<>>]
    /\ handle = [t \in Transports |-> [session |-> 0, phase |-> "unused"]]
    /\ connection = TRUE
    /\ arrived = <<>>
    /\ opened = [s \in SessionIds |-> 0]
    /\ closed = {}
    /\ cause = 0

-----------------------------------------------------------------------------
\* The handles.

\* unbounded_send: the channel refuses a command once the driver has ended.
Send(command) ==
    /\ driver # "stopped"
    /\ Len(commands) < MaxCommands
    /\ commands' = Append(commands, command)

RegisterSession(t, s) ==
    /\ connection
    /\ handle[t].phase = "unused"
    /\ \A u \in 1..t-1 : handle[u].phase # "unused"
    /\ ~Overlapping => \A u \in Transports : handle[u] # [session |-> s, phase |-> "open"]
    /\ Send([type |-> "Register", transport |-> t])
    /\ handle' = [handle EXCEPT ![t] = [session |-> s, phase |-> "registering"]]
    /\ UNCHANGED <<driverVars, events, connection, arrived, opened, closed, cause>>

\* The future of register_session is dropped while it waits for its completion.
AbandonRegister(t) ==
    /\ handle[t].phase = "registering"
    /\ Becomes(t, "gone")
    /\ UNCHANGED <<driverVars, commands, events, connection, arrived, opened, closed, cause>>

\* close or drop of a session transport: the command is sent at most once.
Unregister(t) ==
    /\ handle[t].phase = "open"
    /\ \/ Send([type |-> "Unregister", session |-> handle[t].session])
       \/ driver = "stopped" /\ UNCHANGED commands
    /\ Becomes(t, "closed")
    /\ closed' = closed \cup {handle[t].session}
    /\ UNCHANGED <<driverVars, events, connection, arrived, opened, cause>>

\* Mutant of DropReceiver: the closed flag is forgotten, so that drop after close
\* sends a second Unregister.
DropReceiver_UnregisterAgain(t) ==
    /\ handle[t].phase = "closed"
    /\ Send([type |-> "Unregister", session |-> handle[t].session])
    /\ Becomes(t, "gone")
    /\ UNCHANGED <<driverVars, events, connection, arrived, opened, closed, cause>>

\* The receiver is a field of the transport: it goes after drop has run.
DropReceiver(t) ==
    /\ handle[t].phase = "closed"
    /\ Becomes(t, "gone")
    /\ UNCHANGED <<driverVars, commands, events, connection, arrived, opened, closed, cause>>

\* A session transport or the connection writes a packet; openAck is the session
\* of a SESSION_OPEN_ACK and 0 for any other packet.
WritePacket(openAck) ==
    /\ connection \/ \E t \in Transports : handle[t].phase = "open"
    /\ openAck # 0 => connection
    /\ Send([type |-> "Write", openAck |-> openAck])
    /\ UNCHANGED <<driverVars, events, handle, connection, arrived, opened, closed, cause>>

CloseConnection ==
    /\ connection
    /\ Send([type |-> "Close"])
    /\ UNCHANGED <<driverVars, events, handle, connection, arrived, opened, closed, cause>>

\* The last clone of the connection is dropped; register_session borrows one.
DropConnection ==
    /\ connection
    /\ \A t \in Transports : handle[t].phase # "registering"
    /\ connection' = FALSE
    /\ UNCHANGED <<driverVars, commands, events, handle, arrived, opened, closed, cause>>

-----------------------------------------------------------------------------
\* The driver.

\* Mutant of Broadcast: only one of the registered sessions is told.
Broadcast_OneSession ==
    events' = [t \in Transports |->
        IF t = sessions[CHOOSE s \in SessionIds : sessions[s] # NoTransport \/ \A r \in SessionIds : sessions[r] = NoTransport]
        THEN Append(events[t], Failed) ELSE events[t]]

\* broadcast_failure: every registered session learns of the failure.
Broadcast ==
    events' = [t \in Transports |->
        IF \E s \in SessionIds : sessions[s] = t THEN Append(events[t], Failed) ELSE events[t]]

\* The task ends: the commands still queued are dropped, and with them the
\* completions and receivers of the registrations among them; the senders go, so
\* every reader finds its channel closed behind what was sent before.
Stop ==
    /\ driver' = "stopped"
    /\ polled' = FALSE
    /\ sessions' = [s \in SessionIds |-> NoTransport]
    /\ awaiting' = {}
    /\ pending' = [s \in SessionIds |-> <<>>]
    /\ commands' = <<>>
    /\ handle' = [t \in Transports |->
                    [session |-> handle[t].session,
                     phase |-> IF handle[t].phase = "registering" THEN "gone" ELSE handle[t].phase]]

\* The id is about to be opened on this endpoint: packets that follow belong to
\* the session that will be registered for it.
Opens(s, position) ==
    opened' = IF s \in awaiting \/ sessions[s] # NoTransport THEN opened
              ELSE [opened EXCEPT ![s] = position]

DriverWrite(command) ==
    /\ \/ /\ driver = "failed"
          /\ commands' = Tail(commands)
          /\ UNCHANGED <<driver, sessions, awaiting, pending, events, handle, opened>>
       \/ /\ driver = "running"
          /\ awaiting' = IF command.openAck = 0 THEN awaiting ELSE awaiting \cup {command.openAck}
          /\ IF command.openAck = 0 THEN UNCHANGED opened ELSE Opens(command.openAck, Len(arrived))
          /\ commands' = Tail(commands)
          /\ UNCHANGED <<driver, sessions, pending, events, handle>>
       \/ driver = "running" /\ Broadcast /\ Stop /\ UNCHANGED opened
    /\ UNCHANGED <<connection, arrived, closed, cause>>

\* Mutant of Flushed: the packets are popped from the back.
Flushed_PopBack(s) ==
    [i \in 1..Len(pending[s]) |-> pending[s][Len(pending[s]) - i + 1]] \o (IF driver = "failed" THEN <<Failed>> ELSE <<>>)

\* What a new sender gets before it is put into the map.
Flushed(s) == pending[s] \o (IF driver = "failed" THEN <<Failed>> ELSE <<>>)

\* pending_sessions.remove
Unpended(s) == pending' = [pending EXCEPT ![s] = <<>>]

DriverRegister(t) ==
    LET s == handle[t].session IN
    /\ \/ /\ sessions[s] # NoTransport
          /\ Becomes(t, "gone")
          /\ UNCHANGED <<sessions, awaiting, pending, events, opened>>
       \/ /\ sessions[s] = NoTransport
          /\ sessions' = [sessions EXCEPT ![s] = t]
          /\ awaiting' = awaiting \ {s}
          /\ Unpended(s)
          /\ events' = [events EXCEPT ![t] = IF handle[t].phase = "gone" THEN @ ELSE Flushed(s)]
          /\ Becomes(t, IF handle[t].phase = "registering" THEN "open" ELSE handle[t].phase)
          /\ Opens(s, Len(arrived))
    /\ commands' = Tail(commands)
    /\ UNCHANGED <<driver, connection, arrived, closed, cause>>

\* The id is removed from the driver's three maps.
Forget(s) ==
    /\ sessions' = [sessions EXCEPT ![s] = NoTransport]
    /\ awaiting' = awaiting \ {s}
    /\ Unpended(s)

DriverUnregister(s) ==
    /\ Forget(s)
    /\ commands' = Tail(commands)
    /\ UNCHANGED <<driver, events, handle, connection, arrived, opened, closed, cause>>

DriverClose ==
    /\ Stop
    /\ UNCHANGED <<events, connection, arrived, opened, closed, cause>>

\* select polls the command channel before the carrier: a packet is taken only
\* after the channel was seen empty, though commands may come in between.
DriverPolls ==
    /\ driver = "running"
    /\ commands = <<>>
    /\ ~polled
    /\ polled' = TRUE
    /\ UNCHANGED <<driver, sessions, awaiting, pending, commands, events, handle,
                   connection, arrived, opened, closed, cause>>

DriverCommand ==
    /\ driver # "stopped"
    /\ commands # <<>>
    /\ polled' = FALSE
    /\ LET command == Head(commands) IN
        \/ command.type = "Write" /\ DriverWrite(command)
        \/ command.type = "Register" /\ DriverRegister(command.transport)
        \/ command.type = "Unregister" /\ DriverUnregister(command.session)
        \/ command.type = "Close" /\ DriverClose

\* Command(None): no connection and no session transport holds a sender.
DriverAlone ==
    /\ driver # "stopped"
    /\ commands = <<>>
    /\ ~connection
    /\ \A t \in Transports : handle[t].phase \in {"unused", "gone"}
    /\ Stop
    /\ UNCHANGED <<events, connection, arrived, opened, closed, cause>>

\* PendingSessionPackets::push accepts one more packet.
Buffered(s) == Len(pending[s]) < MaxPending

\* A packet that no session takes goes to the control flow; when nobody is left
\* to read anything the driver closes the carrier.
ToControl ==
    IF ~connection /\ \A s \in SessionIds : sessions[s] = NoTransport
    THEN Stop /\ UNCHANGED events
    ELSE UNCHANGED <<driver, sessions, pending, events, handle, commands>>

DriverIncoming(packet) ==
    LET s == packet.session
        n == Len(arrived) + 1
    IN
    /\ polled
    /\ polled' = FALSE
    /\ Len(arrived) < MaxArrived
    /\ arrived' = Append(arrived, packet)
    /\ \/ /\ s = 0
          /\ ToControl
          /\ driver' # "stopped" => UNCHANGED awaiting
          /\ UNCHANGED <<opened, cause>>
       \/ /\ s # 0
          /\ sessions[s] # NoTransport
          /\ IF ReceiverAlive(sessions[s])
             THEN /\ events' = [events EXCEPT ![sessions[s]] = Append(@, n)]
                  /\ awaiting' = IF packet.openAck THEN awaiting \cup {s} ELSE awaiting
                  /\ UNCHANGED <<sessions, pending>>
             ELSE Forget(s) /\ UNCHANGED events
          /\ UNCHANGED <<driver, handle, commands, opened, cause>>
       \/ /\ s # 0
          /\ sessions[s] = NoTransport
          /\ packet.openAck
          /\ ToControl
          /\ driver' # "stopped" => awaiting' = awaiting \cup {s}
          /\ Opens(s, n)
          /\ UNCHANGED cause
       \/ /\ s # 0
          /\ sessions[s] = NoTransport
          /\ ~packet.openAck
          /\ s \in awaiting
          /\ IF Buffered(s)
             THEN /\ pending' = [pending EXCEPT ![s] = Append(@, n)]
                  /\ UNCHANGED <<driver, sessions, awaiting, events, handle, commands>>
             ELSE Broadcast /\ Stop
          /\ UNCHANGED <<opened, cause>>
       \/ /\ s # 0
          /\ sessions[s] = NoTransport
          /\ ~packet.openAck
          /\ s \notin awaiting
          /\ Broadcast
          /\ driver' = "failed"
          /\ cause' = s
          /\ UNCHANGED <<sessions, awaiting, pending, handle, commands, opened>>
    /\ UNCHANGED <<connection, closed>>

DriverReadFails ==
    /\ polled
    /\ polled' = FALSE
    /\ Broadcast
    /\ driver' = "failed"
    /\ UNCHANGED <<sessions, awaiting, pending, commands, handle, connection, arrived, opened, closed, cause>>

HandleNext ==
    \/ \E t \in Transports, s \in SessionIds : RegisterSession(t, s)
    \/ \E t \in Transports : AbandonRegister(t)
    \/ \E t \in Transports : Unregister(t)
    \/ \E t \in Transports : DropReceiver(t)
    \/ \E openAck \in SessionIds \cup {0} : WritePacket(openAck)
    \/ CloseConnection
    \/ DropConnection

DriverNext ==
    \/ DriverPolls
    \/ DriverCommand
    \/ DriverAlone
    \/ \E packet \in Packets : DriverIncoming(packet)
    \/ DriverReadFails

Next == HandleNext \/ DriverNext

Spec == Init /\ [][Next]_vars

\* run_driver handles the commands it is sent: select polls the command channel
\* first on every turn, and every branch of the loop returns to it or ends.
FairSpec == Spec /\ WF_vars(DriverCommand)

-----------------------------------------------------------------------------
\* The maps of run_driver lead to transports, the queues hold what the channels
\* carry, and a packet is only in the driver's hands while it runs.
TypeOK ==
    /\ polled \in BOOLEAN
    /\ driver \in {"running", "failed", "stopped"}
    /\ polled => driver = "running"
    /\ sessions \in [SessionIds -> Transports \cup {NoTransport}]
    /\ awaiting \subseteq SessionIds
    /\ pending \in [SessionIds -> Seq(1..MaxArrived)]
    /\ commands \in Seq(Commands)
    /\ events \in [Transports -> Seq(0..MaxArrived)]
    /\ handle \in [Transports -> Handles]
    /\ connection \in BOOLEAN
    /\ arrived \in Seq(Packets) /\ Len(arrived) <= MaxArrived
    /\ opened \in [SessionIds -> 0..MaxArrived]
    /\ closed \subseteq SessionIds
    /\ cause \in SessionIds \cup {0}

\* A transport its holder has neither closed nor dropped is the one the driver
\* holds for its id: no Unregister of an earlier transport of the same id, sent
\* before it or processed after it, takes a later registration away.
OpenIsRegistered ==
    driver # "stopped" =>
        \A t \in Transports : handle[t].phase = "open" => sessions[handle[t].session] = t

Elements(q) == {q[i] : i \in 1..Len(q)}
Ascending(q) == \A i, j \in 1..Len(q) : i < j => q[i] < q[j]

\* The data packets for s among the packets after the given position.
DataFor(packets, s, position) ==
    {n \in position + 1..Len(packets) : packets[n].session = s /\ ~packets[n].openAck}

\* The data packets among the events of a transport.
DataAmong(packets, q) == {n \in Elements(q) : n # Failed /\ ~packets[n].openAck}

\* Every data packet that arrives for a session from the moment it is opened (its
\* SESSION_OPEN_ACK was read or is written, or it is registered) reaches its
\* transport exactly once and in the order of the carrier, whatever part of
\* them arrived before the registration was processed; and no packet of another
\* session does.
DeliveredInOrder ==
    driver = "running" =>
        \A s \in SessionIds :
            /\ s \in awaiting /\ sessions[s] = NoTransport =>
                Ascending(pending[s]) /\ Elements(pending[s]) = DataFor(arrived, s, opened[s])
            /\ \A t \in Transports :
                sessions[s] = t /\ ReceiverAlive(t) =>
                    /\ Ascending(events[t])
                    /\ DataAmong(arrived, events[t]) = DataFor(arrived, s, opened[s])

\* The failure of the carrier is the last event of every registered session,
\* including one that was registered after the failure; nothing follows it.
FailureIsLast ==
    \A t \in Transports :
        /\ \A i \in 1..Len(events[t]) : events[t][i] = Failed => i = Len(events[t])
        /\ driver = "failed" /\ ReceiverAlive(t) /\ (\E s \in SessionIds : sessions[s] = t)
            => events[t] # <<>> /\ events[t][Len(events[t])] = Failed

\* Packets are kept only for an id that awaits its registration, and never more
\* than the limit.
PendingIsAwaited ==
    \A s \in SessionIds :
        /\ Len(pending[s]) <= MaxPending
        /\ pending[s] # <<>> => s \in awaiting /\ sessions[s] = NoTransport

\* Every call of register_session returns.
RegistrationCompletes ==
    \A t \in Transports : []<>(handle[t].phase # "registering")

\* A packet that is still under way to a session when its transport is closed or
\* dropped does not take the connection, and with it the sibling sessions, down.
LatePacketKeepsConnection == cause \notin closed
=============================================================================
