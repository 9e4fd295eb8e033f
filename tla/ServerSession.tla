---------------------------- MODULE ServerSession ----------------------------
(***************************************************************************)
(* The server role of a session (crates/nnrp-runtime/src/server.rs,        *)
(* NnrpServerSession), in the form of ClientSession: every method is a     *)
(* function of the session s that returns [ok, next, out, event].  The     *)
(* inputs queue holds, in one order, events that were decoded and not yet  *)
(* handed out, lifecycle events and packets kept for a method of their     *)
(* own.  A server's operations are Accepted until they end.  DEADLINEs     *)
(* that precede their submission are in DeadlineReservations.              *)
(***************************************************************************)
EXTENDS SessionPackets, FiniteSets

CONSTANTS
    ServerLimit,    \* MAX_PENDING_SERVER_INPUTS
    CacheLimit      \* max_cache_objects, 0 for no limit

\* expires holds, for an operation that got an EXPIRE_AT, whether a drop reason
\* is wanted; pendingClose is a SESSION_CLOSE that was not acknowledged.
NewServer ==
    [opFrame |-> <<>>, frameOp |-> <<>>, ops |-> <<>>, expires |-> <<>>, pressure |-> NoPressure,
     cache |-> {}, pendingClose |-> FALSE, phase |-> "Open", inputs |-> <<>>]

-----------------------------------------------------------------------------
(* Correlation and the inputs queue.                                       *)

\* correlated_frame_id.
ServerKnows(s, op) == op = 0 \/ op \in DOMAIN s.opFrame
ServerFrame(s, op) == IF op = 0 THEN 0 ELSE s.opFrame[op]

\* require_operation_frame.
ServerOperationFrame(s, p) == ServerKnows(s, p.op) /\ ServerFrame(s, p.op) = p.frame

\* require_nonterminal_operation and require_operation_transition: every end can
\* be reached from Accepted.
Active(s, op) == op \in DOMAIN s.ops /\ s.ops[op] = "Accepted"

\* require_trace_context_frame.
ServerTraceFrame(s, frame) == frame = 0 \/ (frame \in DOMAIN s.frameOp /\ Active(s, s.frameOp[frame]))

\* ensure_pending_capacity.
HasCapacity(s) == Len(s.inputs) < ServerLimit

\* retain_pending_input.
Retain(s, input) ==
    IF HasCapacity(s)
    THEN Delivered([s EXCEPT !.inputs = Append(@, input)], Nothing) ELSE Refused(s)

\* Mutant of End: the end of an operation is not reported.
End_Silent(s, op, state) == [s EXCEPT !.ops[op] = state]

\* The registry's transition and queue_lifecycle.
End(s, op, state) ==
    [s EXCEPT !.ops[op] = state, !.inputs = Append(@, Lifecycle(op, state))]

-----------------------------------------------------------------------------
(* decode_server_event, an operator for each arm.                          *)

\* Mutant of OnFrameSubmit: a frame id may be bound again.
OnFrameSubmit_Rebinds(s, p) ==
    IF OwnPacket(p) /\ p.op # 0 /\ p.op \notin DOMAIN s.ops
    THEN Delivered([s EXCEPT !.ops = Put(@, p.op, "Accepted"), !.opFrame = Put(@, p.op, p.frame),
                             !.frameOp = Put(@, p.frame, p.op)], Wire(p))
    ELSE Refused(s)

\* handle_frame_submit_packet: both ids are new to the session.
OnFrameSubmit(s, p) ==
    IF OwnPacket(p) /\ p.op # 0 /\ p.frame \notin DOMAIN s.frameOp /\ p.op \notin DOMAIN s.ops
    THEN Delivered([s EXCEPT !.ops = Put(@, p.op, "Accepted"), !.opFrame = Put(@, p.op, p.frame),
                             !.frameOp = Put(@, p.frame, p.op)], Wire(p))
    ELSE Refused(s)

\* A FRAME_CANCEL of an operation that has ended is delivered and ends nothing.
OnFrameCancel(s, p) ==
    IF ~ (OwnPacket(p) /\ p.frame \in DOMAIN s.frameOp /\ HasCapacity(s)) THEN Refused(s)
    ELSE LET op == s.frameOp[p.frame]
         IN  Delivered(IF Active(s, op) THEN End(s, op, "Cancelled") ELSE s, Wire(p))

HearPartialResult(s, p) ==
    Inform(s, p, OwnPacket(p) /\ p.op # 0 /\ ServerOperationFrame(s, p) /\ Active(s, p.op))

HearProgress(s, p) ==
    Inform(s, p, OwnPacket(p) /\ p.op # 0 /\ ServerOperationFrame(s, p) /\ Active(s, p.op))

HearResultDropReason(s, p) ==
    Inform(s, p, OwnPacket(p) /\ p.op # 0 /\ ServerOperationFrame(s, p))

\* A CANCEL or ABORT of an operation that has ended is refused.
HearControl(s, p) ==
    IF OwnPacket(p) /\ ServerOperationFrame(s, p) /\ (p.op # 0 => HasCapacity(s) /\ Active(s, p.op))
    THEN Delivered(IF p.op = 0 THEN s ELSE End(s, p.op, EndsAs(p.type)), Wire(p))
    ELSE Refused(s)

HearScheduling(s, p) ==
    IF OwnPacket(p) /\ p.op # 0 /\ ServerOperationFrame(s, p) /\ Active(s, p.op)
    THEN Delivered(IF p.type = "ExpireAt"
                   THEN [s EXCEPT !.expires = Put(@, p.op, p.emit)] ELSE s, Wire(p))
    ELSE Refused(s)

HearSupersede(s, p) ==
    IF OwnPacket(p) /\ ServerOperationFrame(s, p) /\ HasCapacity(s) /\ Active(s, p.op)
    THEN Delivered(End(s, p.op, "Superseded"), Wire(p)) ELSE Refused(s)

HearBudgetUpdate(s, p) == Inform(s, p, OwnPacket(p) /\ ServerOperationFrame(s, p))

HearFlowUpdate(s, p) ==
    Inform(s, p, p.wellFormed /\ (p.session = "own" => s.phase \in {"Open", "Closing", "Draining"})
                 /\ p.session # "other")

HearPressure(s, p) ==
    IF SharedPacket(p)
    THEN Delivered([s EXCEPT !.pressure = ApplyInbound(@, p.type, p.window, p.level)], Wire(p))
    ELSE Refused(s)

HearCapability(s, p) == Inform(s, p, SharedPacket(p))
HearRouteHint(s, p) == Inform(s, p, SharedPacket(p) /\ ServerOperationFrame(s, p))
HearTraceContext(s, p) == Inform(s, p, SharedPacket(p) /\ ServerTraceFrame(s, p.frame))
HearRecoverableError(s, p) == Inform(s, p, SharedPacket(p))
HearRetryAfter(s, p) == Inform(s, p, SharedPacket(p))
HearObjectDeclare(s, p) == Inform(s, p, OwnPacket(p))
HearObjectRef(s, p) == Inform(s, p, OwnPacket(p) /\ ServerOperationFrame(s, p))
HearObjectRelease(s, p) == Inform(s, p, OwnPacket(p) /\ ServerOperationFrame(s, p))
HearObjectDelta(s, p) == Inform(s, p, OwnPacket(p))
HearCacheReference(s, p) == Inform(s, p, OwnPacket(p))
HearCacheMiss(s, p) == Inform(s, p, OwnPacket(p))
HearCacheInvalidate(s, p) == Inform(s, p, OwnPacket(p))

\* begin_session_close: one SESSION_CLOSE, and only while the session is open.
HearClose(s, p) ==
    IF OwnPacket(p) /\ s.phase = "Open"
    THEN Delivered([s EXCEPT !.phase = "Closing", !.pendingClose = TRUE], Wire(p)) ELSE Refused(s)

ServerDecode(s, p) ==
    CASE p.type = "FrameSubmit"                                -> OnFrameSubmit(s, p)
      [] p.type = "FrameCancel"                                -> OnFrameCancel(s, p)
      [] p.type = "PartialResult"                              -> HearPartialResult(s, p)
      [] p.type = "Progress"                                   -> HearProgress(s, p)
      [] p.type = "ResultDropReason"                           -> HearResultDropReason(s, p)
      [] p.type \in ControlTypes                               -> HearControl(s, p)
      [] p.type \in SchedulingTypes                            -> HearScheduling(s, p)
      [] p.type = "Supersede"                                  -> HearSupersede(s, p)
      [] p.type = "BudgetUpdate"                               -> HearBudgetUpdate(s, p)
      [] p.type = "FlowUpdate"                                 -> HearFlowUpdate(s, p)
      [] p.type \in PressureTypes                              -> HearPressure(s, p)
      [] p.type \in {"CapabilityNegotiation", "DegradeProfile"} -> HearCapability(s, p)
      [] p.type \in {"RouteHint", "ExecutionHint"}             -> HearRouteHint(s, p)
      [] p.type = "TraceContext"                               -> HearTraceContext(s, p)
      [] p.type = "ErrorRecoverable"                           -> HearRecoverableError(s, p)
      [] p.type = "RetryAfter"                                 -> HearRetryAfter(s, p)
      [] p.type = "ObjectDeclare"                              -> HearObjectDeclare(s, p)
      [] p.type = "ObjectRef"                                  -> HearObjectRef(s, p)
      [] p.type = "ObjectRelease"                              -> HearObjectRelease(s, p)
      [] p.type \in {"ObjectPatch", "ObjectDelta"}             -> HearObjectDelta(s, p)
      [] p.type = "CacheReference"                             -> HearCacheReference(s, p)
      [] p.type = "CacheMiss"                                  -> HearCacheMiss(s, p)
      [] p.type = "CacheInvalidate"                            -> HearCacheInvalidate(s, p)
      [] p.type = "SessionClose"                               -> HearClose(s, p)
      [] OTHER                                                 -> Refused(s)

-----------------------------------------------------------------------------
(* The calls that read.                                                    *)


RoleInput(p) == [kind |-> "role", type |-> p.type, packet |-> p]

\* read_next_input: a packet of a dedicated type is not decoded.
NextInput(s, p) ==
    IF p.type \in DedicatedTypes THEN Delivered(s, RoleInput(p)) ELSE ServerDecode(s, p)

\* An input that was read is kept for a later call, after what its decoding queued.
Kept(outcome) == IF outcome.ok THEN Retain(outcome.next, outcome.event) ELSE outcome

\* await_event: a dedicated packet at the front blocks it.
ServerAwaitEvent(s, inbox) ==
    IF s.inputs # <<>>
    THEN IF Head(s.inputs).kind = "role" THEN Reading(Refused(s), 0)
         ELSE Reading(Delivered([s EXCEPT !.inputs = Tail(@)], Head(s.inputs)), 0)
    ELSE LET input == NextInput(s, Head(inbox))
         IN  IF input.event.kind = "role" THEN Reading([Kept(input) EXCEPT !.ok = FALSE], 1)
             ELSE Reading(input, 1)

IsWire(input, types) == input.kind = "wire" /\ input.type \in types

\* The input at position i is taken out.
TakeAt(s, i) == [s EXCEPT !.inputs = SubSeq(@, 1, i - 1) \o SubSeq(@, i + 1, Len(@))]
FirstOf(s, Test(_)) == CHOOSE i \in DOMAIN s.inputs :
                           Test(s.inputs[i]) /\ \A j \in 1..(i - 1) : ~ Test(s.inputs[j])

\* A turn of receive_submit: a submission that is queued, or the next packet;
\* what is not a submission is kept.  A SESSION_CLOSE ends the call.
ReceiveSubmit(s, inbox) ==
    LET Wanted(input) == IsWire(input, {"FrameSubmit", "SessionClose"})
    IN  IF \E i \in DOMAIN s.inputs : Wanted(s.inputs[i])
        THEN LET i == FirstOf(s, Wanted)
             IN  IF s.inputs[i].type = "FrameSubmit"
                 THEN Reading(Delivered(TakeAt(s, i), s.inputs[i]), 0) ELSE Reading(Refused(s), 0)
        ELSE LET input == NextInput(s, Head(inbox))
             IN  IF ~ input.ok \/ IsWire(input.event, {"FrameSubmit"}) THEN Reading(input, 1)
                 ELSE Reading(Kept(input), 1)

\* take_pending_specialized_input: the first queued input that is no lifecycle
\* event, else the next packet.
Specialized(input) == input.kind # "lifecycle"
HasSpecialized(s) == \E i \in DOMAIN s.inputs : Specialized(s.inputs[i])
NextSpecialized(s, inbox) ==
    IF HasSpecialized(s)
    THEN LET i == FirstOf(s, Specialized) IN Reading(Delivered(TakeAt(s, i), s.inputs[i]), 0)
    ELSE Reading(NextInput(s, Head(inbox)), 1)

\* receive_runtime_event and the receive_* methods on events, on the input that
\* NextSpecialized gives: one of another type goes to the front of the queue,
\* whatever its length.
ReceiveEvent(input, types) ==
    IF ~ input.ok \/ IsWire(input.event, types) THEN input
    ELSE Reading(Refused([input.next EXCEPT !.inputs = <<input.event>> \o @]), input.read)

\* receive_role_packet, and the checks of the session and the length that follow it.
ReceiveRole(input, type) ==
    IF ~ input.ok THEN input
    ELSE IF input.event.kind = "role" /\ input.event.type = type
         THEN IF OwnPacket(input.event.packet) THEN input ELSE Reading(Refused(input.next), input.read)
         ELSE Reading(Refused([input.next EXCEPT !.inputs = <<input.event>> \o @]), input.read)

receive_patch(input) == ReceiveRole(input, "SessionPatch")
receive_migrate(input) == ReceiveRole(input, "SessionMigrate")
receive_cache_ack(input) == ReceiveRole(input, "CacheAck")
receive_ping(input) == ReceiveRole(input, "Ping")
receive_pong(input) == ReceiveRole(input, "Pong")
receive_cancel(input) == ReceiveEvent(input, {"FrameCancel"})
receive_close(input) == ReceiveEvent(input, {"SessionClose"})

-----------------------------------------------------------------------------
(* Cache objects.                                                          *)

\* track_cache_object.
CanTrack(s, object) == object \in s.cache \/ CacheLimit = 0 \/ Cardinality(s.cache) < CacheLimit

Track(s, object) == [s EXCEPT !.cache = @ \cup {object}]

\* validate_cache_put: the kind was negotiated and the size is within the limit.
\* Object 0 stands for one of another kind or size.
CanPut(object) == object # 0

\* send_cache_put: the object is tracked before the packet is written.
ServerSendCachePut(s, up, object) ==
    IF CanPut(object) /\ CanTrack(s, object)
    THEN Written(Track(s, object), up, Packet("CachePut", 0, 0) @@ [object |-> object],
                 Track(s, object))
    ELSE Refused(s)

ServerReceiveCachePut(input) ==
    LET taken == ReceiveRole(input, "CachePut")
    IN  IF ~ taken.ok THEN taken
        ELSE LET object == taken.event.packet.object
             IN  IF CanPut(object) /\ CanTrack(taken.next, object)
                 THEN [taken EXCEPT !.next = Track(@, object)]
                 ELSE Reading(Refused(taken.next), taken.read)

-----------------------------------------------------------------------------
(* The calls that write.                                                   *)

ServerTell(s, up, type, op) ==
    IF ServerKnows(s, op) THEN Written(s, up, Packet(type, op, ServerFrame(s, op)), s) ELSE Refused(s)

\* Mutant of SendResult: a result is written for an operation that has ended.
SendResult_AfterEnd(s, up, frame, late) ==
    IF frame \notin DOMAIN s.frameOp \/ ~ HasCapacity(s) THEN Refused(s)
    ELSE LET op == s.frameOp[frame]
         IN  Written(s, up, Packet("ResultPush", 0, frame),
                     IF Active(s, op) THEN End(s, op, "Completed") ELSE s)

\* send_operation_result: a result whose EXPIRE_AT has passed (late) ends the
\* operation as superseded, before the queue is looked at and with a drop reason
\* if one is wanted, and the call fails.
SendResult(s, up, frame, late) ==
    IF frame \notin DOMAIN s.frameOp THEN Refused(s)
    ELSE LET op == s.frameOp[frame]
             dropped == [s EXCEPT !.ops[op] = "Superseded"]
         IN  IF late /\ op \in DOMAIN s.expires /\ Active(s, op)
             THEN IF ~ HasCapacity(s) THEN Refused(dropped)
                  ELSE IF s.expires[op]
                       THEN [Written(dropped, up, Packet("ResultDropReason", op, frame),
                                     End(s, op, "Superseded")) EXCEPT !.ok = FALSE]
                       ELSE Refused(End(s, op, "Superseded"))
             ELSE IF HasCapacity(s) /\ Active(s, op)
                  THEN Written(s, up, Packet("ResultPush", 0, frame), End(s, op, "Completed"))
                  ELSE Refused(s)

ServerSendPartialResult(s, up, op) ==
    IF Active(s, op) THEN ServerTell(s, up, "PartialResult", op) ELSE Refused(s)

ServerSendProgress(s, up, op) ==
    IF Active(s, op) THEN ServerTell(s, up, "Progress", op) ELSE Refused(s)

\* Mutant of SendResultDrop: nothing is written for an operation that has ended.
SendResultDrop_OnlyActive(s, up, op) ==
    IF ~ Active(s, op) \/ ~ HasCapacity(s) THEN Refused(s)
    ELSE Written(s, up, Packet("ResultDropReason", op, ServerFrame(s, op)), End(s, op, "Superseded"))

\* send_operation_result_drop: allowed again for an operation that has ended.
SendResultDrop(s, up, op) ==
    IF op \notin DOMAIN s.ops \/ (Active(s, op) /\ ~ HasCapacity(s)) THEN Refused(s)
    ELSE Written(s, up, Packet("ResultDropReason", op, ServerFrame(s, op)),
                 IF Active(s, op) THEN End(s, op, "Superseded") ELSE s)

ServerSendControl(s, up, type, op) ==
    IF op = 0 THEN ServerTell(s, up, type, 0)
    ELSE IF Active(s, op) /\ HasCapacity(s)
         THEN Written(s, up, Packet(type, op, ServerFrame(s, op)), End(s, op, EndsAs(type)))
         ELSE Refused(s)

ServerSendScheduling(s, up, type, op) == ServerTell(s, up, type, op)

ServerSupersede(s, up, op) ==
    IF Active(s, op) /\ HasCapacity(s)
    THEN Written(s, up, Packet("Supersede", op, ServerFrame(s, op)), End(s, op, "Superseded"))
    ELSE Refused(s)

ServerUpdateBudget(s, up, op) == ServerTell(s, up, "BudgetUpdate", op)
ServerSendCapability(s, up, type) == ServerTell(s, up, type, 0)
ServerSendRouteHint(s, up, type, op) == ServerTell(s, up, type, op)
ServerSendObjectDeclare(s, up) == ServerTell(s, up, "ObjectDeclare", 0)
ServerSendObjectRef(s, up, op) == ServerTell(s, up, "ObjectRef", op)
ServerSendObjectRelease(s, up, op) == ServerTell(s, up, "ObjectRelease", op)
ServerSendObjectDelta(s, up, type) == ServerTell(s, up, type, 0)
ServerSendCacheAck(s, up) == ServerTell(s, up, "CacheAck", 0)
ServerSendPing(s, up, type) == ServerTell(s, up, type, 0)
ServerSendCacheReference(s, up) == ServerTell(s, up, "CacheReference", 0)
ServerSendCacheMiss(s, up) == ServerTell(s, up, "CacheMiss", 0)
ServerSendCacheInvalidate(s, up) == ServerTell(s, up, "CacheInvalidate", 0)

\* send_backpressure and send_credit_update: stored before the write.
ServerSendPressure(s, up, type, window, level) ==
    LET p == Packet(type, 0, 0) @@ [window |-> window, level |-> level]
        stored == [s EXCEPT !.pressure = ApplyOutbound(@, type, window, level)]
    IN  Written(stored, up, p, stored)

ServerSendTraceContext(s, up, frame) ==
    IF ServerTraceFrame(s, frame) THEN Written(s, up, Packet("TraceContext", 0, frame), s)
    ELSE Refused(s)

ServerSendRecoverableError(s, up, frame) == Written(s, up, Packet("ErrorRecoverable", 0, frame), s)
ServerSendRetryAfter(s, up) == ServerTell(s, up, "RetryAfter", 0)
ServerSendResultHint(s, up) == ServerTell(s, up, "ResultHint", 0)
ServerSendPatchAck(s, up) == ServerTell(s, up, "SessionPatchAck", 0)
ServerSendMigrateAck(s, up) == ServerTell(s, up, "SessionMigrateAck", 0)
ServerSendFlowUpdate(s, up, session) ==
    Written(s, up, [Packet("FlowUpdate", 0, 0) EXCEPT !.session = session], s)

\* ack_close: the phase changes before the write.
AckClose(s, up) ==
    IF s.phase = "Closed" THEN Refused(s)
    ELSE Written([s EXCEPT !.phase = "Closed"], up,
                 Packet("SessionCloseAck", 0, 0) @@ [status |-> "Closed"],
                 [s EXCEPT !.phase = "Closed", !.pendingClose = FALSE])

\* close_in_place: a close that is pending is taken and acknowledged first.
ServerClose(s, up) ==
    IF s.pendingClose THEN AckClose([s EXCEPT !.pendingClose = FALSE], up) ELSE Delivered(s, Nothing)

-----------------------------------------------------------------------------
(* The calls that answer through an NnrpServerOperation: h is the handle   *)
(* that receive_submit or await_event returned, with its session, its      *)
(* operation and its frame.                                                *)

\* Mutant of RequireSession: the operation is not compared.
RequireSession_FrameOnly(s, h) == h.frame \in DOMAIN s.frameOp

\* require_session: a handle of another session is refused.
RequireSession(s, h) ==
    h.session = "own" /\ h.frame \in DOMAIN s.frameOp /\ s.frameOp[h.frame] = h.op

\* require_operation_id.
RequireOperationId(h, op) == h.op = op

OperationSendResult(s, up, h, late) ==
    IF RequireSession(s, h) THEN SendResult(s, up, h.frame, late) ELSE Refused(s)
OperationSendResultDrop(s, up, h, op) ==
    IF RequireSession(s, h) /\ RequireOperationId(h, op) THEN SendResultDrop(s, up, op) ELSE Refused(s)
OperationSendProgress(s, up, h, op) ==
    IF RequireSession(s, h) /\ RequireOperationId(h, op) THEN ServerSendProgress(s, up, op) ELSE Refused(s)
OperationSendPartialResult(s, up, h, op) ==
    IF RequireSession(s, h) /\ RequireOperationId(h, op) THEN ServerSendPartialResult(s, up, op) ELSE Refused(s)

\* Any of them, with op as the operation of the metadata.
OperationReply(s, up, h, type, op) ==
    CASE type = "ResultPush"       -> OperationSendResult(s, up, h, FALSE)
      [] type = "ResultDropReason" -> OperationSendResultDrop(s, up, h, op)
      [] type = "Progress"         -> OperationSendProgress(s, up, h, op)
      [] type = "PartialResult"    -> OperationSendPartialResult(s, up, h, op)

\* Any call that sends a message about operation op, or about none.
ServerCall(s, up, type, op) ==
    CASE type = "Progress"         -> ServerSendProgress(s, up, op)
      [] type = "PartialResult"    -> ServerSendPartialResult(s, up, op)
      [] type \in ControlTypes     -> ServerSendControl(s, up, type, op)
      [] type \in SchedulingTypes  -> ServerSendScheduling(s, up, type, op)
      [] type = "Supersede"        -> ServerSupersede(s, up, op)
      [] type = "BudgetUpdate"     -> ServerUpdateBudget(s, up, op)
      [] type \in {"CapabilityNegotiation", "DegradeProfile"} -> ServerSendCapability(s, up, type)
      [] type \in {"RouteHint", "ExecutionHint"} -> ServerSendRouteHint(s, up, type, op)
      [] type = "ObjectDeclare"    -> ServerSendObjectDeclare(s, up)
      [] type = "ObjectRef"        -> ServerSendObjectRef(s, up, op)
      [] type = "ObjectRelease"    -> ServerSendObjectRelease(s, up, op)
      [] type \in {"ObjectPatch", "ObjectDelta"} -> ServerSendObjectDelta(s, up, type)
      [] type = "CacheReference"   -> ServerSendCacheReference(s, up)
      [] type = "CacheMiss"        -> ServerSendCacheMiss(s, up)
      [] type = "CacheInvalidate"  -> ServerSendCacheInvalidate(s, up)
      [] type = "TraceContext"     -> ServerSendTraceContext(s, up, ServerFrame(s, op))
      [] type = "ErrorRecoverable" -> ServerSendRecoverableError(s, up, ServerFrame(s, op))
      [] type = "RetryAfter"       -> ServerSendRetryAfter(s, up)
      [] type = "ResultHint"       -> ServerSendResultHint(s, up)
      [] type = "FlowUpdate"       -> ServerSendFlowUpdate(s, up, "own")
=============================================================================
