--------------------------- MODULE SessionExchange ---------------------------
(***************************************************************************)
(* A client session and a server session joined by a carrier: two queues   *)
(* that keep the order, and that may fail.  Each application makes its     *)
(* calls in any order; the server's application reads with await_event and *)
(* takes a dedicated packet when one is in front.                          *)
(***************************************************************************)
EXTENDS ClientSession, ServerSession

CONSTANTS
    Operations,     \* the operation ids, positive
    MaxWire,        \* bound: packets under way in one direction
    ClientCalls,    \* the messages the client sends with send_runtime_frame and cancel_frame
    ServerCalls,    \* the messages the server sends
    Windows,        \* the windows of pressure messages
    Looping,        \* whether the client calls patch_session
    Closing,        \* whether the client calls close_with
    Failing         \* whether the carrier may fail

VARIABLES
    client, server,     \* the sessions
    toServer, toClient, \* the packets under way
    up,                 \* whether the carrier works
    call,               \* the client's call that waits: "none", "patch" or "close"
    told,               \* the types of results the client's application got for each operation
    refusal,            \* the last packet a decoder refused, and by whom
    failed,             \* whether a waiting call failed on an event it could not keep
    acked               \* the operations completed when SESSION_CLOSE was acknowledged
vars == <<client, server, toServer, toClient, up, call, told, refusal, failed, acked>>

NoRefusal == [side |-> "none"]

Init ==
    /\ client = NewClient /\ server = NewServer
    /\ toServer = <<>> /\ toClient = <<>>
    /\ up = TRUE /\ call = "none"
    /\ told = [op \in Operations |-> {}]
    /\ refusal = NoRefusal /\ failed = FALSE /\ acked = {}

-----------------------------------------------------------------------------
(* The client.                                                             *)

ClientSends(outcome) ==
    /\ call = "none"
    /\ client' = outcome.next
    /\ toServer' = toServer \o outcome.out
    /\ Len(toServer') <= MaxWire
    /\ UNCHANGED <<server, toClient, up, call, told, refusal, failed, acked>>

ClientSubmits(op) == ClientSends(submit_encoded(client, up, op))

\* A message of the type about operation op, or about none.
ClientCall(type, op) ==
    IF type = "FrameCancel" THEN CancelFrame(client, up, FrameOf(client, op))
    ELSE SendRuntimeFrame(client, up, type, op, FrameOf(client, op))

ClientTells ==
    \E outcome \in {ClientCall(type, op) : type \in ClientCalls \ PressureTypes,
                                          op \in DOMAIN client.opFrame \cup {0}} :
        ClientSends(outcome)

ClientPressures == \E type \in PressureTypes \cap ClientCalls, window \in Windows :
    ClientSends(SendPressure(client, up, type, window, window))

\* What the application learns from an event.
ToldOf(event) ==
    IF event.kind = "wire" /\ event.type \in ResultTypes
    THEN [told EXCEPT ![event.op] = @ \cup {event.type}] ELSE told

ClientReads ==
    /\ call = "none" /\ client.phase # "Closed"
    /\ HasEvent(client, toClient)
    /\ LET outcome == AwaitEvent(client, toClient)
       IN  /\ client' = outcome.next
           /\ told' = ToldOf(outcome.event)
           /\ refusal' = IF outcome.ok THEN refusal ELSE [side |-> "client", packet |-> Head(toClient)]
           /\ toClient' = SubSeq(toClient, 1 + outcome.read, Len(toClient))
    /\ UNCHANGED <<server, toServer, up, call, failed, acked>>

\* patch_session and close_with write their request and wait.
ClientBegins(outcome, waiting) ==
    /\ call = "none" /\ outcome.ok
    /\ Len(toServer) < MaxWire
    /\ client' = outcome.next
    /\ toServer' = toServer \o outcome.out
    /\ call' = waiting
    /\ UNCHANGED <<server, toClient, up, told, refusal, failed, acked>>

ClientPatches == Looping /\ ClientBegins(SendPatch(client, up), "patch")
ClientCloses == Closing /\ ClientBegins(BeginClose(client, up), "close")

ClientLoops ==
    /\ call # "none" /\ toClient # <<>>
    /\ LET p == Head(toClient)
           acknowledged == p.type = IF call = "patch" THEN "SessionPatchAck" ELSE "SessionCloseAck"
           outcome == IF ~ acknowledged THEN KeepEvent(client, p)
                      ELSE IF call = "patch" THEN OnPatchAck(client, p) ELSE OnCloseAck(client, p)
       IN  /\ client' = outcome.next
           /\ call' = IF outcome.ok /\ ~ acknowledged THEN call ELSE "none"
           /\ failed' = (failed \/ ~ outcome.ok)
           /\ refusal' = IF acknowledged \/ ClientDecode(client, p).ok THEN refusal
                         ELSE [side |-> "client", packet |-> p]
    /\ toClient' = Tail(toClient)
    /\ UNCHANGED <<server, toServer, up, told, acked>>

-----------------------------------------------------------------------------
(* The server.                                                             *)

ServerReceives(outcome) ==
    /\ server' = outcome.next
    /\ refusal' = IF outcome.read = 1 /\ ~ NextInput(server, Head(toServer)).ok
                  THEN [side |-> "server", packet |-> Head(toServer)] ELSE refusal
    /\ toServer' = SubSeq(toServer, 1 + outcome.read, Len(toServer))
    /\ UNCHANGED <<client, toClient, up, call, told, failed, acked>>

ServerReads ==
    /\ IF server.inputs # <<>> THEN Head(server.inputs).kind # "role" ELSE toServer # <<>>
    /\ ServerReceives(ServerAwaitEvent(server, toServer))

ServerSends(outcome) ==
    /\ server' = outcome.next
    /\ toClient' = toClient \o outcome.out
    /\ Len(toClient') <= MaxWire
    /\ UNCHANGED <<client, toServer, up, call, told, refusal, failed>>

\* receive_patch on the packet in front, and its acknowledgement.
ServerPatches ==
    /\ server.inputs # <<>> /\ Head(server.inputs).kind = "role"
    /\ LET taken == receive_patch(NextSpecialized(server, <<>>))
       IN  ServerSends(ServerSendPatchAck(taken.next, up))
    /\ UNCHANGED acked

ServerAnswers(op) ==
    /\ op \in DOMAIN server.opFrame
    /\ \/ \E outcome \in {SendResult(server, up, server.opFrame[op], late) : late \in BOOLEAN} :
              ServerSends(outcome)
       \/ server.ops[op] \notin {"Accepted", "Completed"} /\ ServerSends(SendResultDrop(server, up, op))
    /\ UNCHANGED acked

ServerTells ==
    /\ \E outcome \in {ServerCall(server, up, type, op) : type \in ServerCalls \ PressureTypes,
                                                         op \in DOMAIN server.opFrame \cup {0}} :
           ServerSends(outcome)
    /\ UNCHANGED acked

ServerPressures ==
    /\ \E type \in PressureTypes \cap ServerCalls, window \in Windows :
           ServerSends(ServerSendPressure(server, up, type, window, window))
    /\ UNCHANGED acked

ServerAcksClose ==
    /\ server.pendingClose
    /\ ServerSends(AckClose(server, up))
    /\ acked' = {op \in DOMAIN server.ops : server.ops[op] = "Completed"}

-----------------------------------------------------------------------------
\* The carrier fails; a part of what is under way is lost.
CarrierFails ==
    /\ Failing /\ up
    /\ up' = FALSE
    /\ \E n \in 0..Len(toServer) : toServer' = SubSeq(toServer, 1, n)
    /\ \E n \in 0..Len(toClient) : toClient' = SubSeq(toClient, 1, n)
    /\ UNCHANGED <<client, server, call, told, refusal, failed, acked>>

Next ==
    \/ \E op \in Operations : ClientSubmits(op) \/ ServerAnswers(op)
    \/ ClientTells \/ ClientPressures \/ ClientReads \/ ClientPatches \/ ClientCloses \/ ClientLoops
    \/ ServerReads \/ ServerPatches \/ ServerTells \/ ServerPressures \/ ServerAcksClose
    \/ CarrierFails

\* The server's application writes an answer for an operation it accepted.
AnswerIsWritten(op) == ServerAnswers(op) /\ toClient' # toClient

Spec == Init /\ [][Next]_vars

-----------------------------------------------------------------------------
\* The queues and the wires stay within their limits.
TypeOK ==
    /\ Len(client.events) <= ClientLimit /\ Len(client.roleEvents) <= ClientLimit
    /\ Len(server.inputs) <= ServerLimit
    /\ Len(toServer) <= MaxWire /\ Len(toClient) <= MaxWire

\* Both roles know an operation by the same frame.
FramesAgree ==
    \A op \in DOMAIN client.opFrame \cap DOMAIN server.opFrame : client.opFrame[op] = server.opFrame[op]

\* A submission that was written is accepted or still under way: the server
\* never refuses a FRAME_SUBMIT of this client.
SubmissionsArrive ==
    up => \A op \in client.seen :
        \/ op \in DOMAIN server.ops
        \/ \E i \in DOMAIN toServer : toServer[i].type = "FrameSubmit" /\ toServer[i].op = op

\* The operation a packet is about.
About(p) == IF p.op # 0 THEN p.op ELSE IF p.frame \in DOMAIN server.frameOp THEN server.frameOp[p.frame] ELSE 0

\* A decoder refuses a packet of its own peer only because the operation had ended
\* where the packet arrived, before it arrived: the two sides crossed.  The one
\* exception is a SUPERSEDE of operation 0, which the client writes before its own
\* call fails.
RefusalsAreCrossings ==
    LET op == About(refusal.packet)
    IN  /\ refusal.side = "client" => op # 0 /\ (op \notin DOMAIN client.opFrame \/ op \in DOMAIN client.local)
        /\ refusal.side = "server" => \/ op \in DOMAIN server.ops /\ ~ Active(server, op)
                                      \/ op = 0 /\ refusal.packet.type = "Supersede"

\* The client is told that an operation completed only if the server completed it,
\* and that its result was dropped only if the server ended it; never both.
ResultsAgree ==
    \A op \in Operations :
        /\ "ResultPush" \in told[op] => server.ops[op] = "Completed"
        /\ "ResultDropReason" \in told[op] => server.ops[op] \notin {"Accepted", "Completed"}

NonePending(wire) == \A i \in DOMAIN wire : wire[i].type \notin PressureTypes

\* Each side's view of the window and level the other one set is what it set, when
\* no pressure message is under way.
PressureAgrees ==
    up => /\ NonePending(toServer) => /\ server.pressure.outbound = client.pressure.inbound
                                      /\ server.pressure.remote = client.pressure.local
          /\ NonePending(toClient) => /\ client.pressure.outbound = server.pressure.inbound
                                      /\ client.pressure.remote = server.pressure.local

KeptResult(op, c) == \E i \in DOMAIN c.events :
                   c.events[i].kind = "wire" /\ c.events[i].type \in ResultTypes /\ c.events[i].op = op

\* A result that was decoded is handed out or queued, unless a waiting call failed.
ResultsAreKept ==
    ~ failed => \A op \in client.seen \ DOMAIN client.opFrame : told[op] # {} \/ KeptResult(op, client)

\* A close that succeeded has every result the server had sent before its
\* acknowledgement, and the server is closed too.
CloseKeepsResults ==
    client.phase = "Closed" =>
        /\ server.phase = "Closed"
        /\ ~ failed => \A op \in acked : told[op] # {} \/ KeptResult(op, client)
=============================================================================
