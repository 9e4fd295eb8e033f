--------------------------- MODULE SessionPackets ---------------------------
(***************************************************************************)
(* The packets two session roles exchange, as far as the sessions look at  *)
(* them: the message type, whose session the header names, the operation   *)
(* of the metadata (0 for none), the header's frame id and whether the     *)
(* packet is well formed, that is, whether its metadata has the length of  *)
(* its type, parses, passes the type's semantic rules and gives the length *)
(* of the body.  Payloads are left out.                                    *)
(***************************************************************************)
EXTENDS Naturals, Sequences, Functions, TLC

\* The operations' ids are positive; 0 is the id of no operation.
Packet(type, op, frame) ==
    [type |-> type, session |-> "own", op |-> op, frame |-> frame, wellFormed |-> TRUE]

OwnPacket(p) == p.session = "own" /\ p.wellFormed

\* require_optional_session_packet: the header may also name no session.
SharedPacket(p) == p.session \in {"own", "none"} /\ p.wellFormed

SchedulingTypes == {"PriorityUpdate", "Deadline", "ExpireAt"}

PressureTypes == {"Backpressure", "CreditUpdate"}

\* Messages about the session that only inform the receiver.
SessionHintTypes ==
    {"CapabilityNegotiation", "DegradeProfile", "ErrorRecoverable", "RetryAfter", "ObjectDeclare",
     "ObjectPatch", "ObjectDelta", "CacheReference", "CacheMiss", "CacheInvalidate"}

\* is_dedicated_role_message: packets the server keeps for a method of their own.
DedicatedTypes == {"SessionPatch", "CachePut", "CacheAck", "SessionMigrate", "Ping", "Pong"}

ControlTypes == {"Cancel", "Abort"}

\* The state an operation enters when a message of the type ends it.
EndsAs(type) ==
    CASE type \in {"Cancel", "FrameCancel"} -> "Cancelled"
      [] type = "Abort"                     -> "Failed"
      [] type = "Supersede"                 -> "Superseded"

\* A lifecycle event (OperationLifecycleEvent) and a wire event (NnrpRuntimeEvent).
Lifecycle(op, state) == [kind |-> "lifecycle", op |-> op, state |-> state]
Wire(p) == [kind |-> "wire", type |-> p.type, op |-> p.op, frame |-> p.frame]

Nothing == [kind |-> "none"]

\* What a call returns: the verdict, the session afterwards, the packets written
\* and the event handed out.
Refused(session) == [ok |-> FALSE, next |-> session, out |-> <<>>, event |-> Nothing]
Delivered(session, event) == [ok |-> TRUE, next |-> session, out |-> <<>>, event |-> event]

\* What a call that reads returns: also the number of packets it took.
Reading(outcome, n) == outcome @@ [read |-> n]

\* write_packet, and the session once the packet is written.
Written(session, up, p, after) ==
    IF up THEN [ok |-> TRUE, next |-> after, out |-> <<p>>, event |-> Nothing]
    ELSE Refused(session)

\* A packet that only informs the application, if it passes its checks.
Inform(session, p, condition) ==
    IF condition THEN Delivered(session, Wire(p)) ELSE Refused(session)

\* RuntimePressureState: apply_inbound and apply_outbound take a window from
\* either message, and the level only from BACKPRESSURE.
NoPressure == [outbound |-> 0, remote |-> 0, inbound |-> 0, local |-> 0]

ApplyInbound(pressure, type, window, level) ==
    [pressure EXCEPT !.outbound = window,
                     !.remote = IF type = "Backpressure" THEN level ELSE @]

ApplyOutbound(pressure, type, window, level) ==
    [pressure EXCEPT !.inbound = window,
                     !.local = IF type = "Backpressure" THEN level ELSE @]

\* BTreeMap::insert and remove.
Put(map, key, value) == (key :> value) @@ map
Without(map, key) == Restrict(map, DOMAIN map \ {key})

-----------------------------------------------------------------------------
(* What a peer that is not the role of this library may send: every packet of *)
(* the types that names this session and is well formed, and every type in a  *)
(* packet that is not.                                                       *)

ServersPacket(type, op, frame) ==
    Packet(type, op, frame) @@ [window |-> 1, level |-> 1, status |-> "Closed"]

FromServer(types, ops, frames) ==
    {ServersPacket(type, op, frame) : type \in types, op \in ops \cup {0}, frame \in frames}
    \cup {[ServersPacket(type, 1, 1) EXCEPT !.session = "other"] : type \in types}
    \cup {[ServersPacket(type, 1, 1) EXCEPT !.wellFormed = FALSE] : type \in types}
    \cup {[ServersPacket("SessionCloseAck", 0, 0) EXCEPT !.status = status] :
             status \in {"Acknowledged", "Draining", "Rejected"}}

ClientsPacket(type, op, frame) ==
    Packet(type, op, frame) @@ [window |-> 0, level |-> 0, emit |-> FALSE, object |-> 1]

FromClient(types, ops, frames, objects) ==
    LET addressed == types \ (DedicatedTypes \cup SessionHintTypes)
    IN  {ClientsPacket(type, op, frame) : type \in addressed, op \in ops \cup {0}, frame \in frames}
        \cup {ClientsPacket(type, 0, 0) : type \in types \ addressed}
        \cup {[ClientsPacket(type, 0, 0) EXCEPT !.session = "other"] : type \in types \ DedicatedTypes}
        \cup {[ClientsPacket(type, 0, 0) EXCEPT !.wellFormed = FALSE] : type \in types}
        \cup {[ClientsPacket(type, 0, 0) EXCEPT !.object = object] :
                  type \in types \cap {"CachePut"}, object \in objects}

OfTypes(packets, types) == {p \in packets : p.type \in types}
=============================================================================
