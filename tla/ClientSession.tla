---------------------------- MODULE ClientSession ----------------------------
(***************************************************************************)
(* The client role of a session (crates/nnrp-runtime/src/client.rs,        *)
(* NnrpClientSession): the state a session keeps, what each packet from    *)
(* the server does to it and what each call of the application does.       *)
(*                                                                         *)
(* Every method takes &mut self, so a call is one function of the session: *)
(* it returns [ok, next, out, event]: the verdict, the session afterwards, *)
(* the packets written and the event given to the application.  `up` says  *)
(* whether the carrier takes a write; a write that fails ends the call at  *)
(* that point.  A call whose arguments fail their own validation (lengths  *)
(* and semantic rules) does nothing and is left out.  Deadlines that are   *)
(* sent before their submission are in DeadlineReservations; here a        *)
(* scheduling update names an operation that has been submitted.           *)
(***************************************************************************)
EXTENDS SessionPackets, FiniteSets

CONSTANTS
    ClientLimit,    \* MAX_PENDING_CLIENT_EVENTS
    MaxFrame        \* u32::MAX, the frame id after which there is none

\* The session that open_session_inner returns.
NewClient ==
    [nextFrame |-> 1, opFrame |-> <<>>, frameOp |-> <<>>, local |-> <<>>, controls |-> <<>>,
     seen |-> {}, lastOp |-> 0, phase |-> "Open", pressure |-> NoPressure,
     events |-> <<>>, roleEvents |-> <<>>]

-----------------------------------------------------------------------------
(* Correlation of operations and frames.                                   *)

\* correlated_frame_id: the frame of an operation that is known, 0 for none.
KnownOperation(c, op) == op = 0 \/ op \in DOMAIN c.opFrame
FrameOf(c, op) == IF op = 0 THEN 0 ELSE c.opFrame[op]

\* require_operation_frame.
OperationFrame(c, p) == KnownOperation(c, p.op) /\ FrameOf(c, p.op) = p.frame

Nonterminal(c, op) == op \notin DOMAIN c.local

\* require_outbound_nonterminal_operation: a cancel that is under way counts.
OutboundNonterminal(c, op) == Nonterminal(c, op) /\ op \notin DOMAIN c.controls

TraceFrame(c, frame) ==
    frame = 0 \/ (frame \in DOMAIN c.frameOp /\ Nonterminal(c, c.frameOp[frame]))
OutboundTraceFrame(c, frame) ==
    frame = 0 \/ (frame \in DOMAIN c.frameOp /\ OutboundNonterminal(c, c.frameOp[frame]))

\* complete_operation: everything about an operation goes with its terminal event.
Forget(c, op) ==
    [c EXCEPT !.opFrame = Without(@, op), !.frameOp = Without(@, c.opFrame[op]),
              !.local = Without(@, op), !.controls = Without(@, op)]

RoleCapacity(c) == Len(c.roleEvents) < ClientLimit

\* complete_local_operation: it ends an operation once, and says so.
CanEndLocally(c, op) == op \in DOMAIN c.opFrame /\ op \notin DOMAIN c.local

EndLocally(c, op, state) ==
    [c EXCEPT !.local = Put(@, op, state), !.roleEvents = Append(@, Lifecycle(op, state))]

\* The same call for a SUPERSEDE that names operation 0: the state is recorded
\* before OperationLifecycleEvent::new refuses the id.
SupersededNothing(c) ==
    IF 0 \in DOMAIN c.local THEN c ELSE [c EXCEPT !.local = Put(@, 0, "Superseded")]

-----------------------------------------------------------------------------
(* decode_event_packet, an operator for each arm.                          *)

\* The result of an operation that is known by its frame; NnrpResult::from_runtime.
TerminalResult(c, p, op) == Delivered(Forget(c, op), [Wire(p) EXCEPT !.op = op])

OnResultPush(c, p) ==
    IF OwnPacket(p) /\ p.frame \in DOMAIN c.frameOp
    THEN TerminalResult(c, p, c.frameOp[p.frame]) ELSE Refused(c)

OnResultDrop(c, p) ==
    IF OwnPacket(p) /\ p.frame \in DOMAIN c.frameOp
    THEN TerminalResult(c, p, c.frameOp[p.frame]) ELSE Refused(c)

OnResultDropReason(c, p) ==
    IF OwnPacket(p) /\ p.op # 0 /\ OperationFrame(c, p)
    THEN TerminalResult(c, p, p.op) ELSE Refused(c)

OnPartialResult(c, p) ==
    Inform(c, p, OwnPacket(p) /\ p.op # 0 /\ OperationFrame(c, p) /\ Nonterminal(c, p.op))

OnProgress(c, p) ==
    Inform(c, p, OwnPacket(p) /\ p.op # 0 /\ OperationFrame(c, p) /\ Nonterminal(c, p.op))

\* Mutant of OnControl: the operation ends before the queue's limit is looked at.
OnControl_EndsFirst(c, p) ==
    IF OwnPacket(p) /\ OperationFrame(c, p) /\ (p.op # 0 => CanEndLocally(c, p.op))
    THEN IF p.op # 0 /\ ~ RoleCapacity(c)
         THEN Refused([c EXCEPT !.local = Put(@, p.op, EndsAs(p.type))])
         ELSE Delivered(IF p.op = 0 THEN c ELSE EndLocally(c, p.op, EndsAs(p.type)), Wire(p))
    ELSE Refused(c)

OnControl(c, p) ==
    IF OwnPacket(p) /\ OperationFrame(c, p) /\ (p.op # 0 => RoleCapacity(c) /\ CanEndLocally(c, p.op))
    THEN Delivered(IF p.op = 0 THEN c ELSE EndLocally(c, p.op, EndsAs(p.type)), Wire(p))
    ELSE Refused(c)

OnScheduling(c, p) == Inform(c, p, OwnPacket(p) /\ OperationFrame(c, p))

OnSupersede(c, p) ==
    CASE ~ (OwnPacket(p) /\ OperationFrame(c, p) /\ RoleCapacity(c)) -> Refused(c)
      [] OTHER -> IF CanEndLocally(c, p.op)
                  THEN Delivered(EndLocally(c, p.op, "Superseded"), Wire(p))
                  ELSE Refused(IF p.op = 0 THEN SupersededNothing(c) ELSE c)

OnBudgetUpdate(c, p) == Inform(c, p, OwnPacket(p) /\ OperationFrame(c, p))

\* FLOW_UPDATE of the connection, or of a session that still takes messages.
OnFlowUpdate(c, p) ==
    Inform(c, p, p.wellFormed /\ (p.session = "own" => c.phase \in {"Open", "Closing", "Draining"})
                 /\ p.session # "other")

OnPressure(c, p) ==
    IF SharedPacket(p)
    THEN Delivered([c EXCEPT !.pressure = ApplyInbound(@, p.type, p.window, p.level)], Wire(p))
    ELSE Refused(c)

OnCapability(c, p) == Inform(c, p, SharedPacket(p))
OnRouteHint(c, p) == Inform(c, p, SharedPacket(p) /\ OperationFrame(c, p))
OnObjectDeclare(c, p) == Inform(c, p, OwnPacket(p))
OnObjectRef(c, p) == Inform(c, p, OwnPacket(p) /\ OperationFrame(c, p))
OnObjectRelease(c, p) == Inform(c, p, OwnPacket(p) /\ OperationFrame(c, p))
OnObjectDelta(c, p) == Inform(c, p, OwnPacket(p))
OnCacheReference(c, p) == Inform(c, p, OwnPacket(p))
OnCacheMiss(c, p) == Inform(c, p, OwnPacket(p))
OnCacheInvalidate(c, p) == Inform(c, p, OwnPacket(p))
OnTraceContext(c, p) == Inform(c, p, SharedPacket(p) /\ TraceFrame(c, p.frame))
OnRecoverableError(c, p) == Inform(c, p, SharedPacket(p))
OnRetryAfter(c, p) == Inform(c, p, SharedPacket(p))
OnResultHint(c, p) == Inform(c, p, OwnPacket(p))

\* The arm of a type; any other type is refused.
ClientDecode(c, p) ==
    CASE p.type = "ResultPush"                                 -> OnResultPush(c, p)
      [] p.type = "ResultDrop"                                 -> OnResultDrop(c, p)
      [] p.type = "ResultDropReason"                           -> OnResultDropReason(c, p)
      [] p.type = "PartialResult"                              -> OnPartialResult(c, p)
      [] p.type = "Progress"                                   -> OnProgress(c, p)
      [] p.type \in ControlTypes                               -> OnControl(c, p)
      [] p.type \in SchedulingTypes                            -> OnScheduling(c, p)
      [] p.type = "Supersede"                                  -> OnSupersede(c, p)
      [] p.type = "BudgetUpdate"                               -> OnBudgetUpdate(c, p)
      [] p.type = "FlowUpdate"                                 -> OnFlowUpdate(c, p)
      [] p.type \in PressureTypes                              -> OnPressure(c, p)
      [] p.type \in {"CapabilityNegotiation", "DegradeProfile"} -> OnCapability(c, p)
      [] p.type \in {"RouteHint", "ExecutionHint"}             -> OnRouteHint(c, p)
      [] p.type = "ObjectDeclare"                              -> OnObjectDeclare(c, p)
      [] p.type = "ObjectRef"                                  -> OnObjectRef(c, p)
      [] p.type = "ObjectRelease"                              -> OnObjectRelease(c, p)
      [] p.type \in {"ObjectPatch", "ObjectDelta"}             -> OnObjectDelta(c, p)
      [] p.type = "CacheReference"                             -> OnCacheReference(c, p)
      [] p.type = "CacheMiss"                                  -> OnCacheMiss(c, p)
      [] p.type = "CacheInvalidate"                            -> OnCacheInvalidate(c, p)
      [] p.type = "TraceContext"                               -> OnTraceContext(c, p)
      [] p.type = "ErrorRecoverable"                           -> OnRecoverableError(c, p)
      [] p.type = "RetryAfter"                                 -> OnRetryAfter(c, p)
      [] p.type = "ResultHint"                                 -> OnResultHint(c, p)
      [] OTHER                                                 -> Refused(c)

-----------------------------------------------------------------------------
(* The calls that write.                                                   *)

\* A packet about an operation, or about none, that changes nothing here.
Tell(c, up, type, op) ==
    IF KnownOperation(c, op) THEN Written(c, up, Packet(type, op, FrameOf(c, op)), c) ELSE Refused(c)

\* submit_nowait: both ids are fresh, and nothing is recorded unless the frame
\* was written.
Submit(c, up, op, frame) ==
    IF frame = 0 \/ frame < c.nextFrame \/ op \in c.seen \/ frame = MaxFrame
    THEN Refused(c)
    ELSE Written(c, up, Packet("FrameSubmit", op, frame),
                 [c EXCEPT !.nextFrame = frame + 1, !.opFrame = Put(@, op, frame),
                           !.frameOp = Put(@, frame, op), !.seen = @ \cup {op},
                           !.lastOp = IF op > @ THEN op ELSE @])

\* submit_encoded and submit_encoded_nowait take the next frame id.
submit_encoded(c, up, op) == Submit(c, up, op, c.nextFrame)

\* The semantic rules of PROGRESS, PARTIAL_RESULT and RESULT_DROP_REASON ask for an
\* operation.
SendProgress(c, up, op) ==
    IF op # 0 /\ OutboundNonterminal(c, op) THEN Tell(c, up, "Progress", op) ELSE Refused(c)

SendPartialResult(c, up, op) ==
    IF op # 0 /\ OutboundNonterminal(c, op) THEN Tell(c, up, "PartialResult", op) ELSE Refused(c)

SendResultDropReason(c, up, op) ==
    IF op # 0 THEN Tell(c, up, "ResultDropReason", op) ELSE Refused(c)

\* send_backpressure, send_credit_update: the window is stored before the write.
SendPressure(c, up, type, window, level) ==
    LET p == Packet(type, 0, 0) @@ [window |-> window, level |-> level]
        stored == [c EXCEPT !.pressure = ApplyOutbound(@, type, window, level)]
    IN  Written(stored, up, p, stored)

SendFlowUpdate(c, up, session) ==
    Written(c, up, [Packet("FlowUpdate", 0, 0) EXCEPT !.session = session], c)

\* send_control_request_with_diagnostics: one control for an operation, and none
\* once it has ended here.
SendControl(c, up, type, op) ==
    IF op = 0 THEN Tell(c, up, type, 0)
    ELSE IF \/ op \notin DOMAIN c.opFrame
            \/ op \in DOMAIN c.controls \cup DOMAIN c.local
            \/ Cardinality(DOMAIN c.controls) >= ClientLimit
         THEN Refused(c)
         ELSE Written(c, up, Packet(type, op, c.opFrame[op]),
                      [c EXCEPT !.controls = Put(@, op, EndsAs(type))])

\* An EXPIRE_AT says whether the server is to send a drop reason.
SendScheduling(c, up, type, op, emit) ==
    IF KnownOperation(c, op)
    THEN Written(c, up, Packet(type, op, FrameOf(c, op)) @@ [emit |-> emit], c) ELSE Refused(c)

\* The calls that make up the metadata themselves.
cancel_operation(c, up, op) == SendControl(c, up, "Cancel", op)
abort_operation(c, up, op) == SendControl(c, up, "Abort", op)
update_priority(c, up, op) == SendScheduling(c, up, "PriorityUpdate", op, FALSE)
update_deadline(c, up, op) == SendScheduling(c, up, "Deadline", op, TRUE)
expire_at(c, up, op) == SendScheduling(c, up, "ExpireAt", op, TRUE)

\* send_scheduling_update_for_frame for an operation that was submitted: any
\* other frame id is refused.
SendSchedulingForFrame(c, up, type, op, frame, emit) ==
    IF op \in DOMAIN c.opFrame /\ c.opFrame[op] = frame
    THEN SendScheduling(c, up, type, op, emit) ELSE Refused(c)

\* The packet is written before complete_local_operation may refuse.
EndedAfterWrite(c, up, p, op) ==
    LET sent == Written(c, up, p, EndLocally(c, op, EndsAs(p.type)))
    IN  IF ~ up \/ CanEndLocally(c, op) THEN sent
        ELSE [sent EXCEPT !.ok = FALSE, !.next = IF op = 0 THEN SupersededNothing(c) ELSE c]

SupersedeOperation(c, up, op) ==
    IF RoleCapacity(c) /\ KnownOperation(c, op)
    THEN EndedAfterWrite(c, up, Packet("Supersede", op, FrameOf(c, op)), op) ELSE Refused(c)

CancelFrame(c, up, frame) ==
    IF RoleCapacity(c) /\ frame \in DOMAIN c.frameOp
    THEN EndedAfterWrite(c, up, Packet("FrameCancel", 0, frame), c.frameOp[frame]) ELSE Refused(c)

UpdateBudget(c, up, op) == Tell(c, up, "BudgetUpdate", op)
SendCapability(c, up, type) == Tell(c, up, type, 0)
SendRouteHint(c, up, type, op) == Tell(c, up, type, op)
SendTraceContext(c, up, frame) ==
    IF OutboundTraceFrame(c, frame) THEN Written(c, up, Packet("TraceContext", 0, frame), c)
    ELSE Refused(c)
SendRecoverableError(c, up, frame) == Written(c, up, Packet("ErrorRecoverable", 0, frame), c)
SendRetryAfter(c, up) == Tell(c, up, "RetryAfter", 0)
SendObjectDeclare(c, up) == Tell(c, up, "ObjectDeclare", 0)
SendObjectRef(c, up, op) == Tell(c, up, "ObjectRef", op)
SendObjectRelease(c, up, op) == Tell(c, up, "ObjectRelease", op)
SendObjectDelta(c, up, type) == Tell(c, up, type, 0)
SendCachePut(c, up) == Tell(c, up, "CachePut", 0)
SendCacheAck(c, up) == Tell(c, up, "CacheAck", 0)
SendPing(c, up, type) == Tell(c, up, type, 0)
SendCacheReference(c, up) == Tell(c, up, "CacheReference", 0)
SendCacheMiss(c, up) == Tell(c, up, "CacheMiss", 0)
SendCacheInvalidate(c, up) == Tell(c, up, "CacheInvalidate", 0)

\* send_runtime_frame: the call a message type stands for, on operation op and,
\* where the message names one, a frame.
SendRuntimeFrame(c, up, type, op, frame) ==
    CASE type = "Progress"             -> SendProgress(c, up, op)
      [] type = "PartialResult"        -> SendPartialResult(c, up, op)
      [] type = "ResultDropReason"     -> SendResultDropReason(c, up, op)
      [] type = "FlowUpdate"           -> SendFlowUpdate(c, up, "own")
      [] type \in ControlTypes         -> SendControl(c, up, type, op)
      [] type \in SchedulingTypes      -> SendSchedulingForFrame(c, up, type, op, frame, TRUE)
      [] type = "Supersede"            -> SupersedeOperation(c, up, op)
      [] type = "BudgetUpdate"         -> UpdateBudget(c, up, op)
      [] type \in {"CapabilityNegotiation", "DegradeProfile"} -> SendCapability(c, up, type)
      [] type \in {"RouteHint", "ExecutionHint"} -> SendRouteHint(c, up, type, op)
      [] type = "TraceContext"         -> SendTraceContext(c, up, frame)
      [] type = "ErrorRecoverable"     -> SendRecoverableError(c, up, frame)
      [] type = "RetryAfter"           -> SendRetryAfter(c, up)
      [] type = "ObjectDeclare"        -> SendObjectDeclare(c, up)
      [] type = "ObjectRef"            -> SendObjectRef(c, up, op)
      [] type = "ObjectRelease"        -> SendObjectRelease(c, up, op)
      [] type \in {"ObjectPatch", "ObjectDelta"} -> SendObjectDelta(c, up, type)
      [] type = "CachePut"             -> SendCachePut(c, up)
      [] type = "CacheAck"             -> SendCacheAck(c, up)
      [] type = "CacheReference"       -> SendCacheReference(c, up)
      [] type = "CacheMiss"            -> SendCacheMiss(c, up)
      [] type = "CacheInvalidate"      -> SendCacheInvalidate(c, up)
      [] OTHER                         -> Refused(c)

-----------------------------------------------------------------------------
(* The calls that read.  `read` is the number of packets the call takes.   *)

\* await_client_event_packet: an event kept by an earlier call, else a packet.
TakeEvent(c, inbox) ==
    IF c.events # <<>>
    THEN Reading(Delivered([c EXCEPT !.events = Tail(@)], Head(c.events)), 0)
    ELSE Reading(ClientDecode(c, Head(inbox)), 1)

HasEvent(c, inbox) == c.roleEvents # <<>> \/ c.events # <<>> \/ inbox # <<>>

\* await_event and poll_event: lifecycle events come first.
AwaitEvent(c, inbox) ==
    IF c.roleEvents # <<>>
    THEN Reading(Delivered([c EXCEPT !.roleEvents = Tail(@)], Head(c.roleEvents)), 0)
    ELSE TakeEvent(c, inbox)

ResultTypes == {"ResultPush", "ResultDrop", "ResultDropReason"}

\* await_result: an event that is no result is consumed and refused.
AwaitResult(c, inbox) ==
    LET taken == AwaitEvent(c, inbox)
    IN  IF taken.event.kind = "wire" /\ taken.event.type \notin ResultTypes
        THEN [taken EXCEPT !.ok = FALSE, !.event = Nothing] ELSE taken

\* One turn of the loops of patch_session and close_with on a packet that is not
\* the acknowledgement: it is decoded and kept, unless the queue is full.
KeepEvent(c, p) ==
    LET decoded == ClientDecode(c, p)
    IN  IF ~ decoded.ok \/ Len(c.events) >= ClientLimit
        THEN Refused(decoded.next)
        ELSE [decoded EXCEPT !.next.events = Append(@, decoded.event), !.event = Nothing]

SendPatch(c, up) == Tell(c, up, "SessionPatch", 0)
OnPatchAck(c, p) == IF OwnPacket(p) THEN Delivered(c, Wire(p)) ELSE Refused(c)

\* migrate_transport and the receive_* calls: one packet is read, and when it is
\* not the one expected it is dropped.
SendMigrate(c, up) == Tell(c, up, "SessionMigrate", 0)
ReceiveExpected(c, p, type) ==
    IF OwnPacket(p) /\ p.type = type THEN Delivered(c, Wire(p)) ELSE Refused(c)

migrate_transport(c, p) == ReceiveExpected(c, p, "SessionMigrateAck")
client_receive_cache_put(c, p) == ReceiveExpected(c, p, "CachePut")
client_receive_cache_ack(c, p) == ReceiveExpected(c, p, "CacheAck")
receive_empty_role_message(c, p, type) == ReceiveExpected(c, p, type)

\* close_with up to its loop: the phase changes before the write.
BeginClose(c, up) ==
    IF c.phase # "Open" THEN Refused(c)
    ELSE LET closing == [c EXCEPT !.phase = "Closing"]
         IN  Written(closing, up, Packet("SessionClose", c.lastOp, 0), closing)

\* A SESSION_CLOSE_ACK in the loop: Acknowledged and Draining keep it going.
OnCloseAck(c, p) ==
    IF ~ OwnPacket(p) \/ c.phase \notin {"Open", "Closing", "Draining"} THEN Refused(c)
    ELSE LET phase == CASE p.status = "Acknowledged" -> "Closing"
                        [] p.status = "Draining"     -> "Draining"
                        [] p.status = "Closed"       -> "Closed"
                        [] p.status = "Rejected"     -> "Open"
         IN  [Delivered([c EXCEPT !.phase = phase], Nothing) EXCEPT !.ok = p.status # "Rejected"]
=============================================================================
