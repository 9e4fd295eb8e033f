---------------------------- MODULE SessionRoles ----------------------------
(***************************************************************************)
(* A client session whose application makes any call of ClientSession in   *)
(* any order, and whose peer sends any packet: of any type, for this       *)
(* session or another, with any operation and frame id, well formed or     *)
(* not.  The carrier may refuse a write.  And a server session in the same *)
(* situation (its windows and levels are in SessionExchange).  The two do  *)
(* not meet here.                                                          *)
(***************************************************************************)
EXTENDS ClientSession, ServerSession, SequencesExt

CONSTANTS
    Operations,       \* the operation ids, positive
    ServersPackets,   \* the packets the client's peer sends
    LoopPackets,      \* those it sends while a call waits for a packet of its own
    ClientCallTypes,  \* the types of messages the client's application sends
    ClientsPackets,   \* the packets the server's peer sends
    SelectPackets,    \* those it sends while a receive_* call waits
    RoleCallTypes,    \* the dedicated types the server's application waits for
    ServerCallTypes,  \* the types of messages the server's application sends
    MaxServerFrame,   \* bound: the frame ids in packets to the server and in its calls
    Selective         \* whether the server's application uses receive_submit

VARIABLES
    client,         \* the client's session
    call,           \* its call that is under way: "none", "patch" or "close"
    clientTold,     \* how often its application was told of the end of an operation, by kind
    clientRefused,  \* whether its last step was a packet that decode_event_packet refused
    server,         \* the server's session
    lost,           \* whether an input was lost or moved before an earlier one
    serverTold,     \* the lifecycle events handed out for each operation
    acks,           \* the SESSION_CLOSE_ACKs written
    serverRefused   \* whether its last step was a packet that decode_server_event refused

\* The frame ids of the two sessions.
Frames == 0..MaxFrame
ServerFrames == 0..MaxServerFrame

-----------------------------------------------------------------------------
(* The client.                                                             *)

Kinds == {"lifecycle", "result"}

ClientInit ==
    /\ client = NewClient
    /\ call = "none"
    /\ clientTold = [op \in Operations |-> [kind \in Kinds |-> 0]]
    /\ clientRefused = FALSE

\* The count of ends the application has seen, after it was handed an event.
Count(event) ==
    CASE event.kind = "lifecycle" -> [clientTold EXCEPT ![event.op].lifecycle = @ + 1]
      [] event.kind = "wire" /\ event.type \in ResultTypes -> [clientTold EXCEPT ![event.op].result = @ + 1]
      [] OTHER -> clientTold

\* A call that writes, by what it may come to.
ClientCalls(outcomes) ==
    /\ call = "none"
    /\ client' \in {outcome.next : outcome \in outcomes}
    /\ clientRefused' = FALSE
    /\ UNCHANGED <<call, clientTold>>

ClientSubmitCall ==
    ClientCalls({Submit(client, up, op, frame) : op \in Operations, up \in BOOLEAN, frame \in Frames})
ClientSendCall ==
    ClientCalls({SendRuntimeFrame(client, up, type, op, frame) :
                     type \in ClientCallTypes, op \in Operations \cup {0}, frame \in Frames, up \in BOOLEAN})
ClientShortCall == \E op \in Operations, up \in BOOLEAN :
    ClientCalls({submit_encoded(client, up, op), cancel_operation(client, up, op), abort_operation(client, up, op),
                 update_priority(client, up, op), update_deadline(client, up, op), expire_at(client, up, op)})
\* Messages that only inform the peer and leave the session alone.
ClientPlainCall ==
    \/ ClientCalls({SendPing(client, up, type) : type \in {"Ping", "Pong"} \cap ClientCallTypes, up \in BOOLEAN})
    \/ "SessionMigrate" \in ClientCallTypes /\ ClientCalls({SendMigrate(client, up) : up \in BOOLEAN})
ClientCancelFrameCall == ClientCalls({CancelFrame(client, up, frame) : frame \in Frames, up \in BOOLEAN})
ClientPressureCall == ClientCalls({SendPressure(client, up, type, 1, 1) :
                                       type \in PressureTypes \cap ClientCallTypes, up \in BOOLEAN})

\* await_event and await_result, with any packet as the next one of the carrier.
ClientReadCall(outcomes) ==
    /\ call = "none"
    /\ \E outcome \in outcomes :
           /\ client' = outcome.next
           /\ clientTold' = Count(outcome.event)
           /\ clientRefused' = (outcome.read = 1 /\ ~ outcome.ok)
    /\ UNCHANGED call

ClientAwaitEventCall == ClientReadCall({AwaitEvent(client, <<p>>) : p \in ServersPackets})

\* An event that is no result is lost: the step is not one the decoder refused.
ClientAwaitResultCall ==
    ClientReadCall({[AwaitResult(client, <<p>>) EXCEPT !.ok = TRUE] : p \in ServersPackets})

\* The calls that read one packet from the carrier, past the events that are kept,
\* and lose it when it is another one than they expect.
ClientExpectCall == \E p \in LoopPackets :
    ClientCalls({migrate_transport(client, p), client_receive_cache_put(client, p), client_receive_cache_ack(client, p),
                 receive_empty_role_message(client, p, "Ping"), receive_empty_role_message(client, p, "Pong")})

\* patch_session and close_with, up to the write.
ClientPatchCall == \E up \in BOOLEAN :
    /\ call = "none"
    /\ client' = SendPatch(client, up).next
    /\ call' = IF up THEN "patch" ELSE "none"
    /\ clientRefused' = FALSE
    /\ UNCHANGED clientTold

ClientCloseCall == \E up \in BOOLEAN :
    LET outcome == BeginClose(client, up)
    IN  /\ call = "none"
        /\ client' = outcome.next
        /\ call' = IF outcome.ok THEN "close" ELSE "none"
        /\ clientRefused' = FALSE
        /\ UNCHANGED clientTold

Awaited == IF call = "patch" THEN "SessionPatchAck" ELSE "SessionCloseAck"

\* A turn of their loops.
ClientLoopTurn == \E p \in LoopPackets :
    LET acked == p.type = Awaited
        outcome == IF ~ acked THEN KeepEvent(client, p)
                   ELSE IF call = "patch" THEN OnPatchAck(client, p) ELSE OnCloseAck(client, p)
    IN  /\ call # "none"
        /\ client' = outcome.next
        /\ call' = IF outcome.ok /\ (acked => call = "close" /\ outcome.next.phase = "Draining")
                   THEN call ELSE "none"
        /\ clientRefused' = (~ acked /\ ~ ClientDecode(client, p).ok)
        /\ UNCHANGED clientTold

\* The caller drops the future of the call, as a timeout does.
ClientDropCall ==
    /\ call # "none"
    /\ call' = "none"
    /\ clientRefused' = FALSE
    /\ UNCHANGED <<client, clientTold>>

ClientNext ==
    \/ ClientSubmitCall \/ ClientSendCall \/ ClientShortCall \/ ClientPlainCall
    \/ ClientCancelFrameCall \/ ClientPressureCall
    \/ ClientAwaitEventCall \/ ClientAwaitResultCall \/ ClientExpectCall
    \/ ClientPatchCall \/ ClientCloseCall \/ ClientLoopTurn \/ ClientDropCall

-----------------------------------------------------------------------------
(* The server.                                                             *)

Objects == 0..2

ServerInit ==
    /\ server = NewServer
    /\ lost = FALSE
    /\ serverTold = [op \in Operations |-> 0]
    /\ acks = 0
    /\ serverRefused = FALSE

-----------------------------------------------------------------------------
\* A call that reads came to the outcome: what was queued and the input that it
\* read is handed out (gone) or queued, in the order of arrival.
ServerReadCall(outcome, input, gone) ==
    LET queued == SelectSeq(server.inputs, Specialized)
        arrived == IF outcome.read = 1 /\ input.ok THEN Append(queued, input.event) ELSE queued
        left == IF gone.kind \in {"wire", "role"} THEN RemoveFirst(arrived, gone) ELSE arrived
    IN  /\ server' = outcome.next
        /\ lost' = (lost \/ SelectSeq(outcome.next.inputs, Specialized) # left)
        /\ serverTold' = IF outcome.event.kind = "lifecycle"
                   THEN [serverTold EXCEPT ![outcome.event.op] = @ + 1] ELSE serverTold
        /\ serverRefused' = (outcome.read = 1 /\ ~ input.ok)
        /\ UNCHANGED acks

ServerAwaitEventCall == \E p \in ClientsPackets :
    \E outcome \in {ServerAwaitEvent(server, <<p>>)} :
        ServerReadCall(outcome, NextInput(server, p), outcome.event)

ReceiveSubmitCall == Selective /\ \E p \in SelectPackets :
    \E outcome \in {ReceiveSubmit(server, <<p>>)} :
        ServerReadCall(outcome, NextInput(server, p), outcome.event)

\* The inputs that a receive_* call may get.
ReceivedInputs == {NextSpecialized(server, <<p>>) : p \in SelectPackets}

ReceiveEventCall == \E input \in ReceivedInputs :
    \E outcome \in {receive_cancel(input), receive_close(input)}
        \cup {ReceiveEvent(input, types) : types \in {ControlTypes, SchedulingTypes, PressureTypes}} :
        ServerReadCall(outcome, input, outcome.event)

\* A dedicated packet of the type that fails its checks is gone as well.
ReceiveRoleCall == \E input \in ReceivedInputs, type \in RoleCallTypes :
    LET mine == input.event.kind = "role" /\ input.event.type = type
        outcome == CASE type = "CachePut"       -> ServerReceiveCachePut(input)
                     [] type = "CacheAck"       -> receive_cache_ack(input)
                     [] type = "SessionPatch"   -> receive_patch(input)
                     [] type = "SessionMigrate" -> receive_migrate(input)
                     [] type = "Ping"           -> receive_ping(input)
                     [] type = "Pong"           -> receive_pong(input)
    IN  ServerReadCall(outcome, input, IF mine THEN input.event ELSE Nothing)

\* A call that writes, by what it may come to.
ServerCalls(outcomes) ==
    /\ \E outcome \in outcomes :
           /\ server' = outcome.next
           /\ acks' = acks + Len(SelectSeq(outcome.out, LAMBDA p : p.type = "SessionCloseAck"))
    /\ serverRefused' = FALSE
    /\ UNCHANGED <<lost, serverTold>>

SendResultCall ==
    ServerCalls({SendResult(server, up, frame, late) : frame \in ServerFrames, up \in BOOLEAN, late \in BOOLEAN})

\* An answer through a handle: of an operation of this session, or of another
\* session that may use the same ids.
Handles == [session : {"own", "other"}, op : Operations, frame : ServerFrames]
Held(h) == h.session = "other" \/ (h.op \in DOMAIN server.opFrame /\ server.opFrame[h.op] = h.frame)
ReplyTypes == {"ResultPush", "ResultDropReason", "Progress", "PartialResult"}
ReplyCall ==
    ServerCalls({OperationReply(server, up, h, type, op) :
                     h \in {g \in Handles : Held(g)}, type \in ReplyTypes, op \in Operations, up \in BOOLEAN})
SendDropCall == ServerCalls({SendResultDrop(server, up, op) : op \in Operations, up \in BOOLEAN})
SendControlCall ==
    ServerCalls({ServerSendControl(server, up, type, op) :
                     type \in ControlTypes, op \in Operations \cup {0}, up \in BOOLEAN})
SupersedeCall == ServerCalls({ServerSupersede(server, up, op) : op \in Operations, up \in BOOLEAN})
CachePutCall == ServerCalls({ServerSendCachePut(server, up, object) : object \in Objects, up \in BOOLEAN})
\* Messages that only inform the peer and leave the session alone.
ServerPlainCall == \E type \in ServerCallTypes :
    \/ type = "CacheAck" /\ ServerCalls({ServerSendCacheAck(server, up) : up \in BOOLEAN})
    \/ type \in {"Ping", "Pong"} /\ ServerCalls({ServerSendPing(server, up, type) : up \in BOOLEAN})
    \/ type = "SessionMigrateAck" /\ ServerCalls({ServerSendMigrateAck(server, up) : up \in BOOLEAN})
AckCloseCall == ServerCalls({AckClose(server, up) : up \in BOOLEAN})
ServerCloseCall == ServerCalls({ServerClose(server, up) : up \in BOOLEAN})

ServerNext ==
    \/ ServerAwaitEventCall \/ ReceiveSubmitCall \/ ReceiveEventCall \/ ReceiveRoleCall
    \/ ("ResultPush" \in ServerCallTypes /\ (SendResultCall \/ ReplyCall))
    \/ ("ResultDropReason" \in ServerCallTypes /\ SendDropCall)
    \/ ("Cancel" \in ServerCallTypes /\ SendControlCall)
    \/ ("Supersede" \in ServerCallTypes /\ SupersedeCall)
    \/ ("CachePut" \in ServerCallTypes /\ CachePutCall)
    \/ ServerPlainCall
    \/ ("SessionCloseAck" \in ServerCallTypes /\ (AckCloseCall \/ ServerCloseCall))

-----------------------------------------------------------------------------
(* What holds of a client.                                                 *)

\* The session is of its type, and no queue outgrows its limit.
ClientTypeOK ==
    /\ DOMAIN client.opFrame \subseteq Operations
    /\ client.seen \subseteq Operations
    /\ client.phase \in {"Open", "Closing", "Draining", "Closed"}
    /\ Len(client.events) <= ClientLimit
    /\ Len(client.roleEvents) <= ClientLimit
    /\ Cardinality(DOMAIN client.controls) <= ClientLimit
    /\ call \in {"none", "patch", "close"}

\* The two indexes of operations and frames are inverse to each other, whatever
\* the peer sends (complete_operation removes from both), frame ids stay below
\* the next one, and what is known of an operation's end belongs to an operation
\* that still has a frame (or to id 0, which a SUPERSEDE may have left behind).
ClientIndexesAgree ==
    /\ \A op \in DOMAIN client.opFrame :
           /\ client.opFrame[op] \in DOMAIN client.frameOp
           /\ client.frameOp[client.opFrame[op]] = op
           /\ client.opFrame[op] < client.nextFrame
    /\ \A frame \in DOMAIN client.frameOp : client.frameOp[frame] \in DOMAIN client.opFrame
    /\ DOMAIN client.local \cup DOMAIN client.controls \subseteq DOMAIN client.opFrame \cup {0}
    /\ DOMAIN client.opFrame \subseteq client.seen

\* Whatever the peer repeats, an application is told at most once that an
\* operation ended here and gets at most one result for it.
EndsOnce == \A op \in Operations, kind \in Kinds : clientTold[op][kind] <= 1

\* What a refused packet must not touch; a SUPERSEDE may have left operation 0.
Correlation(c) ==
    [opFrame |-> c.opFrame, frameOp |-> c.frameOp, controls |-> c.controls,
     local |-> Without(c.local, 0), queues |-> <<c.events, c.roleEvents>>, phase |-> c.phase,
     pressure |-> c.pressure]

\* A packet that decode_event_packet refuses leaves the correlation, the queues,
\* the phase and the pressure as they were.
ClientRefusesHarmlessly == clientRefused' => Correlation(client') = Correlation(client)

\* PROGRESS and PARTIAL_RESULT are never written for an operation that has ended
\* or whose cancel or abort is under way (the streaming boundary).
StreamsEndWithOperation ==
    \A op \in Operations, type \in {"Progress", "PartialResult"} :
        SendRuntimeFrame(client, TRUE, type, op, 0).out # <<>> =>
            /\ op \in DOMAIN client.opFrame
            /\ op \notin DOMAIN client.local \cup DOMAIN client.controls
            /\ clientTold[op] = [kind \in Kinds |-> 0]

\* A session is closed once: no call moves it out of Closing but the server's
\* answer, and nothing moves it out of Closed.
ClosesOnce ==
    /\ client.phase = "Closed" => client'.phase = "Closed"
    /\ client.phase \in {"Closing", "Draining"} /\ client'.phase # client.phase => call = "close"

-----------------------------------------------------------------------------
(* What holds of a server.                                                 *)

IsLifecycle(input) == input.kind = "lifecycle"
Queued(op) == Cardinality({i \in DOMAIN server.inputs :
                               IsLifecycle(server.inputs[i]) /\ server.inputs[i].op = op})

\* The session is of its type.  A receive_* call may put one input back when the
\* queue is full, and only one.
ServerTypeOK ==
    /\ DOMAIN server.ops \subseteq Operations
    /\ server.phase \in {"Open", "Closing", "Closed"}
    /\ Len(server.inputs) <= ServerLimit + 1

\* Both indexes are inverse to each other, bind each operation that was accepted,
\* and never change what they bind, so a late message cannot reach another
\* operation than the one its frame was submitted for.
ServerIndexesAgree ==
    /\ DOMAIN server.opFrame = DOMAIN server.ops
    /\ \A op \in DOMAIN server.opFrame :
           /\ server.opFrame[op] \in DOMAIN server.frameOp
           /\ server.frameOp[server.opFrame[op]] = op
    /\ \A frame \in DOMAIN server.frameOp : server.opFrame[server.frameOp[frame]] = frame

\* An operation that has ended never gets another state.
EndsAreFinal ==
    \A op \in DOMAIN server.ops :
        server.ops[op] # "Accepted" => server'.ops[op] = server.ops[op]

\* "Cancellation, abort, supersession, frame cancellation, successful completion,
\* and dropped-result paths emit local lifecycle evidence from the role whose
\* operation state changed": an operation has one lifecycle event, queued or
\* handed out, if it has ended, and none otherwise (operations without EXPIRE_AT:
\* a result that comes too late ends its operation before the queue is looked at).
EveryEndIsReported ==
    \A op \in Operations :
        serverTold[op] + Queued(op) = IF op \in DOMAIN server.ops /\ ~ Active(server, op) THEN 1 ELSE 0

\* What was decoded is handed out or still queued, in the order of its arrival,
\* whichever mixture of receiving calls the application uses (receive_submit apart,
\* which drops an event it skips when the queue is full).
NothingForgotten == ~ lost

\* A packet that decode_server_event refuses leaves the session as it was.
ServerRefusesHarmlessly == serverRefused' => server' = server

\* Whatever handles the application mixes up, an answer through one is written only
\* to the session and for the operation and frame of its submission, while a result
\* or a stream can still be accepted for it.
AnswersReachTheirSubmission ==
    \A h \in {g \in Handles : Held(g)}, type \in ReplyTypes, op \in Operations :
        LET out == OperationReply(server, TRUE, h, type, op).out
        IN  out # <<>> => /\ h.session = "own" /\ out[1].frame = h.frame /\ out[1].op \in {0, h.op}
                          /\ type # "ResultDropReason" => server.ops[h.op] = "Accepted"

\* The cache objects stay within the negotiated limit.
CacheBounded == CacheLimit # 0 => Cardinality(server.cache) <= CacheLimit

\* SESSION_CLOSE is acknowledged at most once, by ack_close or by close_in_place,
\* and a session whose acknowledgement was written takes no other SESSION_CLOSE.
AcknowledgesOnce == acks <= 1 /\ (acks = 1 => server.phase = "Closed")
=============================================================================
