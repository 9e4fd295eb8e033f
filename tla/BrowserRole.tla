----------------------------- MODULE BrowserRole -----------------------------
(***************************************************************************)
(* The browser client role (nnrp-wasm/src/browser_role.rs) after its         *)
(* handshake: one WebSocket carrier fed by the host, the connection driver   *)
(* of nnrp-runtime/src/multiplex.rs reading it, and the calls of several     *)
(* sessions (awaitEvent, awaitEventBatch, submitNoWait, sendRuntimeFrame,    *)
(* patchSession, close), all tasks of one thread.                            *)
(*                                                                           *)
(* A task runs from Resume until it yields; nothing else, the host included, *)
(* runs meanwhile.  The generation counter is abstracted to whether it       *)
(* moved since a receiver last looked (notified).  An event is its number    *)
(* within its session.                                                       *)
(***************************************************************************)
EXTENDS Naturals, Sequences, FiniteSets, SequencesExt

CONSTANTS Sessions, Receivers, Writers, Closers,   \* the tasks of the host's calls
          SessionOf,        \* the session of each task
          Batch,            \* the receivers that call awaitEventBatch
          Ops,              \* what a writer may do: subset of {"submit", "control", "patch"}
          MaxCalls,         \* bound: calls of each task
          MaxEvents,        \* bound: events the server sends per session
          SlowSend,         \* the host's send callback may take several host turns
          BadBatches,       \* the host may hand over a batch whose last packet is refused
          MayFail           \* the carrier may fail

None == "none"
Driver == "driver"
Callers == Receivers \cup Writers \cup Closers
Failed == [to |-> 0, kind |-> "failed", n |-> 0]
MaxBatch == 2               \* the maxEvents of awaitEventBatch

VARIABLES ready, running, pc, calls, op,
          pending, receive_error, packetWaiter, eventWaiters, notified,
          gate, receive_abort, aborted, lock, open,
          inbox, deferred, lifecycle, delivered,
          driver, commands, registered, terminal, completion,
          wire, sent, told

execVars == <<ready, running>>
callVars == <<calls, op>>
carrierVars == <<pending, receive_error, packetWaiter, eventWaiters, notified>>
gateVars == <<gate, receive_abort, aborted>>
sessionVars == <<lock, open, inbox, deferred, lifecycle, delivered>>
driverVars == <<driver, commands, registered, terminal, completion>>
serverVars == <<wire, sent, told>>
vars == <<execVars, pc, callVars, carrierVars, gateVars, sessionVars, driverVars, serverVars>>

Init ==
  /\ ready = <<>> /\ running = None
  /\ pc = [t \in Callers |-> "idle"] /\ calls = [t \in Callers |-> 0]
  /\ op = [t \in Writers |-> None]
  /\ pending = <<>> /\ receive_error = FALSE /\ packetWaiter = TRUE
  /\ eventWaiters = <<>> /\ notified = [r \in Receivers |-> FALSE]
  /\ gate = [s \in Sessions |-> None] /\ receive_abort = [s \in Sessions |-> None]
  /\ aborted = [r \in Receivers |-> FALSE]
  /\ lock = [s \in Sessions |-> None] /\ open = [s \in Sessions |-> TRUE]
  /\ inbox = [s \in Sessions |-> <<>>] /\ deferred = [s \in Sessions |-> <<>>]
  /\ lifecycle = [s \in Sessions |-> 0] /\ delivered = [s \in Sessions |-> 0]
  /\ driver = "loop" /\ commands = <<>> /\ registered = Sessions /\ terminal = FALSE
  /\ completion = [t \in Callers |-> None]
  /\ wire = <<>> /\ sent = [s \in Sessions |-> 0] /\ told = {}

-----------------------------------------------------------------------------
(* The executor of wasm-bindgen-futures: a FIFO queue of woken tasks.        *)
Woken(q, t) == IF Contains(q, t) THEN q ELSE Append(q, t)
WokenAll(q, ts) == FoldLeft(Woken, q, ts)

Resume ==
  /\ running = None /\ ready # <<>>
  /\ running' = Head(ready) /\ ready' = Tail(ready)
  /\ packetWaiter' = (packetWaiter /\ Head(ready) # Driver)   \* its read is dropped or done
  /\ UNCHANGED <<pc, callVars, pending, receive_error, eventWaiters, notified, gateVars,
                 sessionVars, driverVars, serverVars>>

(* A futures Mutex wakes one of its waiters when it is released.             *)
GateWaiters(s) == {t \in Receivers \cup Closers : SessionOf[t] = s /\ pc[t] = "gate"}
LockWaiters(s) == {t \in Callers : SessionOf[t] = s /\ pc[t] = "lock"}
WokenOne(q, ts) == IF ts = {} THEN {q} ELSE {Woken(q, t) : t \in ts}

(* notify_event_waiters: the generation moves and the waiters are taken.     *)
notify_event_waiters(q) ==
  /\ ready' = WokenAll(q, eventWaiters)
  /\ eventWaiters' = <<>>
  /\ notified' = [r \in Receivers |-> TRUE]

-----------------------------------------------------------------------------
(* The host: calls, and the WebSocket turns in which packets arrive.         *)
Call(t) ==
  /\ running = None /\ pc[t] = "idle" /\ calls[t] < MaxCalls[t]
  /\ pc' = [pc EXCEPT ![t] = "start"]
  /\ calls' = [calls EXCEPT ![t] = @ + 1]
  /\ IF t \in Writers THEN \E o \in Ops : op' = [op EXCEPT ![t] = o] ELSE op' = op
  /\ ready' = Append(ready, t)
  /\ UNCHANGED <<running, carrierVars, gateVars, sessionVars, driverVars, serverVars>>

HostTurn == running = None /\ ready = <<>> /\ (SlowSend \/ driver # "writing")

ensure_open == ~receive_error

(* ingest_receive_value: the batch is queued, then the driver and the        *)
(* receivers are woken.                                                      *)
Ingest_SkipsReceivers(k) ==
  /\ HostTurn /\ ensure_open /\ k <= Len(wire)
  /\ pending' = pending \o SubSeq(wire, 1, k)
  /\ wire' = SubSeq(wire, k + 1, Len(wire))
  /\ packetWaiter' = FALSE
  /\ ready' = IF packetWaiter THEN Woken(ready, Driver) ELSE ready
  /\ UNCHANGED <<running, pc, callVars, receive_error, eventWaiters, notified, gateVars,
                 sessionVars, driverVars, sent, told>>

Ingest(k) ==
  /\ HostTurn /\ ensure_open /\ k <= Len(wire)
  /\ pending' = pending \o SubSeq(wire, 1, k)
  /\ wire' = SubSeq(wire, k + 1, Len(wire))
  /\ packetWaiter' = FALSE
  /\ notify_event_waiters(IF packetWaiter THEN Woken(ready, Driver) ELSE ready)
  /\ UNCHANGED <<running, pc, callVars, receive_error, gateVars, sessionVars, driverVars,
                 sent, told>>

(* enqueue_receive_value refusing the second packet of a batch: the first is *)
(* queued, the error goes to the host and nobody is woken.                   *)
IngestRefused ==
  /\ BadBatches /\ HostTurn /\ ensure_open /\ wire # <<>>
  /\ pending' = Append(pending, Head(wire))
  /\ wire' = Tail(wire)
  /\ UNCHANGED <<execVars, pc, callVars, receive_error, packetWaiter, eventWaiters, notified,
                 gateVars, sessionVars, driverVars, sent, told>>

fail_receive ==
  /\ MayFail /\ HostTurn /\ ~receive_error
  /\ receive_error' = TRUE
  /\ packetWaiter' = FALSE
  /\ notify_event_waiters(IF packetWaiter THEN Woken(ready, Driver) ELSE ready)
  /\ UNCHANGED <<running, pc, callVars, pending, gateVars, sessionVars, driverVars, serverVars>>

SendResolved(result) ==
  /\ running = None /\ driver = "writing"
  /\ result = "error" => MayFail
  /\ driver' = result
  /\ ready' = Woken(ready, Driver)
  /\ UNCHANGED <<running, pc, callVars, carrierVars, gateVars, sessionVars, commands, registered,
                 terminal, completion, serverVars>>

ServerEvent(s) ==
  /\ running = None /\ s \notin told /\ sent[s] < MaxEvents
  /\ sent' = [sent EXCEPT ![s] = @ + 1]
  /\ wire' = Append(wire, [to |-> s, kind |-> "event", n |-> sent[s] + 1])
  /\ UNCHANGED <<execVars, pc, callVars, carrierVars, gateVars, sessionVars, driverVars, told>>

-----------------------------------------------------------------------------
(* The driver: commands before packets (run_driver).                         *)
InboxReaders(s) == {t \in Writers \cup Closers : SessionOf[t] = s /\ pc[t] = "reply"}

Complete(t, result, q) ==
  /\ completion' = [completion EXCEPT ![t] = result]
  /\ ready' = Woken(q, t)

broadcast_failure ==
  /\ inbox' = [s \in Sessions |-> IF s \in registered THEN Append(inbox[s], Failed) ELSE inbox[s]]
  /\ \E readers \in SetToSeqs({t \in Callers : \E s \in registered : t \in InboxReaders(s)}) :
       ready' = WokenAll(ready, readers)

Reply(t) == [to |-> SessionOf[t], kind |-> "reply", n |-> 0]
Answered(t) == t \in Closers \/ op[t] = "patch"

DriverWrite ==
  /\ running = Driver /\ driver = "loop" /\ commands # <<>> /\ Head(commands).kind = "write"
  /\ commands' = Tail(commands)
  /\ LET t == Head(commands).by IN
     IF terminal
     THEN /\ Complete(t, "error", ready)
          /\ UNCHANGED <<running, driver, serverVars>>
     ELSE /\ driver' = "writing" /\ running' = None
          /\ wire' = IF Answered(t) THEN Append(wire, Reply(t)) ELSE wire
          /\ told' = IF t \in Closers THEN told \cup {SessionOf[t]} ELSE told
          /\ completion' = [completion EXCEPT ![t] = "sending"]
          /\ UNCHANGED <<ready, sent>>
  /\ UNCHANGED <<pc, callVars, carrierVars, gateVars, sessionVars, registered, terminal>>

Sender == CHOOSE t \in Callers : completion[t] = "sending"

DriverSent ==
  /\ running = Driver /\ driver = "ok"
  /\ driver' = "loop" /\ Complete(Sender, "ok", ready)
  /\ UNCHANGED <<running, pc, callVars, carrierVars, gateVars, sessionVars, commands, registered,
                 terminal, serverVars>>

DriverSendFailed ==
  /\ running = Driver /\ driver = "error"
  /\ driver' = "stopped" /\ running' = None
  /\ inbox' = [s \in Sessions |-> IF s \in registered THEN Append(inbox[s], Failed) ELSE inbox[s]]
  /\ completion' = [t \in Callers |-> IF completion[t] = "sending" \/ pc[t] = "write" THEN "error"
                                      ELSE completion[t]]
  /\ \E woken \in SetToSeqs({t \in Callers : pc[t] \in {"write", "reply"}}) :
       ready' = WokenAll(ready, woken)
  /\ commands' = <<>>
  /\ UNCHANGED <<pc, callVars, carrierVars, gateVars, lock, open, deferred, lifecycle, delivered,
                 registered, terminal, serverVars>>

DriverUnregister ==
  /\ running = Driver /\ driver = "loop" /\ commands # <<>> /\ Head(commands).kind = "unregister"
  /\ commands' = Tail(commands)
  /\ registered' = registered \ {Head(commands).session}
  /\ UNCHANGED <<execVars, pc, callVars, carrierVars, gateVars, sessionVars, driver, terminal,
                 completion, serverVars>>

DriverRoute ==
  /\ running = Driver /\ driver = "loop" /\ commands = <<>> /\ ~terminal /\ pending # <<>>
  /\ pending' = Tail(pending)
  /\ LET p == Head(pending) IN
     IF p.to \in registered
     THEN /\ inbox' = [inbox EXCEPT ![p.to] = Append(@, p)]
          /\ \E readers \in SetToSeqs(InboxReaders(p.to)) : ready' = WokenAll(ready, readers)
          /\ UNCHANGED terminal
     ELSE terminal' = TRUE /\ broadcast_failure
  /\ UNCHANGED <<running, pc, callVars, receive_error, packetWaiter, eventWaiters, notified, gateVars,
                 lock, open, deferred, lifecycle, delivered, driver, commands, registered,
                 completion, serverVars>>

DriverReadFailed ==
  /\ running = Driver /\ driver = "loop" /\ commands = <<>> /\ ~terminal /\ pending = <<>>
  /\ receive_error
  /\ terminal' = TRUE /\ broadcast_failure
  /\ UNCHANGED <<running, pc, callVars, carrierVars, gateVars, lock, open, deferred, lifecycle,
                 delivered, driver, commands, registered, completion, serverVars>>

DriverYield ==
  /\ running = Driver
  /\ \/ driver \in {"writing", "stopped"}
     \/ driver = "loop" /\ commands = <<>> /\ (terminal \/ (pending = <<>> /\ ~receive_error))
  /\ packetWaiter' = (driver = "loop" /\ ~terminal)
  /\ running' = None
  /\ UNCHANGED <<ready, pc, callVars, pending, receive_error, eventWaiters, notified, gateVars,
                 sessionVars, driverVars, serverVars>>

-----------------------------------------------------------------------------
(* awaitEvent and awaitEventBatch.                                           *)
ReceiveGate(r) ==
  LET s == SessionOf[r] IN
  /\ running = r /\ r \in Receivers /\ pc[r] \in {"start", "gate"}
  /\ IF gate[s] = None
     THEN /\ gate' = [gate EXCEPT ![s] = r]
          /\ receive_abort' = [receive_abort EXCEPT ![s] = r]
          /\ aborted' = [aborted EXCEPT ![r] = FALSE]
          /\ pc' = [pc EXCEPT ![r] = "observe"]
          /\ UNCHANGED running
     ELSE /\ pc' = [pc EXCEPT ![r] = "gate"]
          /\ running' = None
          /\ UNCHANGED gateVars
  /\ UNCHANGED <<ready, callVars, carrierVars, sessionVars, driverVars, serverVars>>

(* The end of a receive: the abort handle and the gate are released.         *)
ReceiveEnds(r) ==
  LET s == SessionOf[r] IN
  /\ gate' = [gate EXCEPT ![s] = None]
  /\ receive_abort' = [receive_abort EXCEPT ![s] = None]
  /\ pc' = [pc EXCEPT ![r] = "idle"]
  /\ running' = None
  /\ eventWaiters' = Remove(eventWaiters, r)
  /\ ready' \in WokenOne(ready, GateWaiters(s))
  /\ UNCHANGED <<aborted, callVars, pending, receive_error, packetWaiter, notified, driverVars,
                 serverVars>>

ReceiveAborted(r) ==
  /\ running = r /\ r \in Receivers /\ pc[r] \in {"lock", "wait"} /\ aborted[r]
  /\ ReceiveEnds(r) /\ UNCHANGED sessionVars

ReceiveObserve(r) ==
  /\ running = r /\ r \in Receivers /\ pc[r] = "observe"
  /\ notified' = [notified EXCEPT ![r] = FALSE]
  /\ pc' = [pc EXCEPT ![r] = "poll"]
  /\ UNCHANGED <<execVars, callVars, pending, receive_error, packetWaiter, eventWaiters, gateVars,
                 sessionVars, driverVars, serverVars>>

Polling(r) == running = r /\ r \in Receivers /\ pc[r] \in {"poll", "lock"} /\ ~aborted[r]

ReceiveLocked(r) ==
  /\ Polling(r) /\ lock[SessionOf[r]] # None
  /\ pc' = [pc EXCEPT ![r] = "lock"] /\ running' = None
  /\ UNCHANGED <<ready, callVars, carrierVars, gateVars, sessionVars, driverVars, serverVars>>

(* poll_event: a local lifecycle event, then an event kept by an exchange,   *)
(* then the next packet of the session.  poll_event_packet_batch: up to      *)
(* MaxBatch of the kept and the arrived ones, none of them if the last is    *)
(* the failure of the connection.                                            *)
Arrived(s) == deferred[s] \o inbox[s]
Taken(r) ==
  LET s == SessionOf[r]
      k == IF r \in Batch THEN MaxBatch ELSE 1
  IN SubSeq(Arrived(s), 1, IF k < Len(Arrived(s)) THEN k ELSE Len(Arrived(s)))

Consume(s, k) ==
  /\ deferred' = [deferred EXCEPT ![s] = SubSeq(@, k + 1, Len(@))]
  /\ inbox' = [inbox EXCEPT ![s] = IF k > Len(deferred[s])
                                   THEN SubSeq(@, k - Len(deferred[s]) + 1, Len(@)) ELSE @]

ReceiveLifecycle(r) ==
  LET s == SessionOf[r] IN
  /\ Polling(r) /\ lock[s] = None /\ open[s] /\ r \notin Batch /\ lifecycle[s] > 0
  /\ lifecycle' = [lifecycle EXCEPT ![s] = @ - 1]
  /\ ReceiveEnds(r)
  /\ UNCHANGED <<lock, open, inbox, deferred, delivered>>

ReceiveEvents(r) ==
  LET s == SessionOf[r] IN
  /\ Polling(r) /\ lock[s] = None /\ open[s]
  /\ r \in Batch \/ lifecycle[s] = 0
  /\ Taken(r) # <<>> /\ Consume(s, Len(Taken(r)))
  /\ delivered' = IF Contains(Taken(r), Failed) THEN delivered
                  ELSE [delivered EXCEPT ![s] = Last(Taken(r)).n]
  /\ ReceiveEnds(r)
  /\ UNCHANGED <<lock, open, lifecycle>>

ReceiveClosed(r) ==
  LET s == SessionOf[r] IN
  /\ Polling(r) /\ lock[s] = None
  /\ \/ ~open[s]
     \/ Arrived(s) = <<>> /\ (r \in Batch \/ lifecycle[s] = 0) /\ driver = "stopped"
  /\ ReceiveEnds(r) /\ UNCHANGED sessionVars

ReceiveEmpty(r) ==
  LET s == SessionOf[r] IN
  /\ Polling(r) /\ lock[s] = None /\ open[s] /\ driver # "stopped"
  /\ r \in Batch \/ lifecycle[s] = 0
  /\ Arrived(s) = <<>>
  /\ pc' = [pc EXCEPT ![r] = "check"]
  /\ UNCHANGED <<execVars, callVars, carrierVars, gateVars, sessionVars, driverVars, serverVars>>

(* EventWaiter::poll: ready when packets are queued or the generation moved, *)
(* failed when the carrier failed, else registered.                          *)
Waiting(r) == running = r /\ r \in Receivers /\ (pc[r] = "check" \/ (pc[r] = "wait" /\ ~aborted[r]))

WaitReady(r) ==
  /\ Waiting(r)
  /\ pending # <<>> \/ (notified[r] /\ ~receive_error)
  /\ eventWaiters' = Remove(eventWaiters, r)
  /\ pc' = [pc EXCEPT ![r] = "observe"]
  /\ UNCHANGED <<execVars, callVars, pending, receive_error, packetWaiter, notified, gateVars,
                 sessionVars, driverVars, serverVars>>

WaitFailed(r) ==
  /\ Waiting(r) /\ pending = <<>> /\ receive_error
  /\ ReceiveEnds(r) /\ UNCHANGED sessionVars

WaitPending(r) ==
  /\ Waiting(r) /\ pending = <<>> /\ ~receive_error /\ ~notified[r]
  /\ eventWaiters' = IF Contains(eventWaiters, r) THEN eventWaiters ELSE Append(eventWaiters, r)
  /\ pc' = [pc EXCEPT ![r] = "wait"]
  /\ running' = None
  /\ UNCHANGED <<ready, callVars, pending, receive_error, packetWaiter, notified, gateVars,
                 sessionVars, driverVars, serverVars>>

-----------------------------------------------------------------------------
(* submitNoWait, sendRuntimeFrame and patchSession.                          *)
Send(t, q) ==
  /\ commands' = Append(commands, [kind |-> "write", by |-> t])
  /\ ready' = IF driver = "loop" THEN Woken(q, Driver) ELSE q

WriterStart(w) ==
  LET s == SessionOf[w] IN
  /\ running = w /\ w \in Writers /\ pc[w] \in {"start", "lock"}
  /\ running' = None
  /\ CASE lock[s] # None ->
            /\ pc' = [pc EXCEPT ![w] = "lock"]
            /\ UNCHANGED <<ready, lock, commands>>
       [] lock[s] = None /\ (~open[s] \/ driver = "stopped") ->
            /\ pc' = [pc EXCEPT ![w] = "idle"]
            /\ ready' \in WokenOne(ready, LockWaiters(s) \ {w})
            /\ UNCHANGED <<lock, commands>>
       [] OTHER ->
            /\ pc' = [pc EXCEPT ![w] = "write"]
            /\ lock' = [lock EXCEPT ![s] = w]
            /\ Send(w, ready)
  /\ UNCHANGED <<callVars, carrierVars, gateVars, open, inbox, deferred, lifecycle, delivered,
                 driver, registered, terminal, completion, serverVars>>

(* The end of a writer's call: the session is unlocked and, on success, the  *)
(* receivers are notified.                                                   *)
WriterEnds(w, result) ==
  LET s == SessionOf[w] IN
  /\ lock' = [lock EXCEPT ![s] = None]
  /\ pc' = [pc EXCEPT ![w] = "idle"]
  /\ running' = None
  /\ \E q \in WokenOne(ready, LockWaiters(s)) :
       IF result = "ok" THEN notify_event_waiters(q)
       ELSE ready' = q /\ UNCHANGED <<eventWaiters, notified>>

LocalEvents(w) == IF op[w] = "control" THEN 1 ELSE 0

WriterWritten(w) ==
  LET s == SessionOf[w] IN
  /\ running = w /\ w \in Writers /\ pc[w] = "write"
  /\ CASE completion[w] = "error" ->
            WriterEnds(w, "error") /\ completion' = [completion EXCEPT ![w] = None] /\ UNCHANGED lifecycle
       [] completion[w] = "ok" /\ op[w] = "patch" ->
            /\ pc' = [pc EXCEPT ![w] = "reply"] /\ completion' = [completion EXCEPT ![w] = None]
            /\ UNCHANGED <<execVars, eventWaiters, notified, lock, lifecycle>>
       [] completion[w] = "ok" /\ op[w] # "patch" ->
            /\ WriterEnds(w, "ok") /\ completion' = [completion EXCEPT ![w] = None]
            /\ lifecycle' = [lifecycle EXCEPT ![s] = @ + LocalEvents(w)]
       [] OTHER ->
            running' = None /\ UNCHANGED <<ready, pc, eventWaiters, notified, lock, completion, lifecycle>>
  /\ UNCHANGED <<callVars, pending, receive_error, packetWaiter, gateVars, open, inbox, deferred,
                 delivered, driver, commands, registered, terminal, serverVars>>

Kept_Front(kept, event) == <<event>> \o kept

Kept(kept, event) == Append(kept, event)

WriterReply(w) ==
  LET s == SessionOf[w] IN
  /\ running = w /\ w \in Writers /\ pc[w] = "reply"
  /\ CASE inbox[s] = <<>> /\ driver # "stopped" ->
            running' = None /\ UNCHANGED <<ready, pc, eventWaiters, notified, lock, inbox, deferred>>
       [] inbox[s] = <<>> /\ driver = "stopped" ->
            WriterEnds(w, "error") /\ UNCHANGED <<inbox, deferred>>
       [] inbox[s] # <<>> /\ Head(inbox[s]).kind = "event" ->
            /\ deferred' = [deferred EXCEPT ![s] = Kept(@, Head(inbox[s]))]
            /\ inbox' = [inbox EXCEPT ![s] = Tail(@)]
            /\ UNCHANGED <<execVars, pc, eventWaiters, notified, lock>>
       [] inbox[s] # <<>> /\ Head(inbox[s]).kind # "event" ->
            /\ inbox' = [inbox EXCEPT ![s] = Tail(@)]
            /\ WriterEnds(w, IF Head(inbox[s]) = Failed THEN "error" ELSE "ok")
            /\ UNCHANGED deferred
  /\ UNCHANGED <<callVars, pending, receive_error, packetWaiter, gateVars, open, lifecycle,
                 delivered, driverVars, serverVars>>

-----------------------------------------------------------------------------

CloseAborts(c) ==
  LET s == SessionOf[c]
      r == receive_abort[s]
  IN
  /\ running = c /\ c \in Closers /\ pc[c] = "start"
  /\ IF r = None
     THEN UNCHANGED <<ready, receive_abort, aborted>>
     ELSE /\ aborted' = [aborted EXCEPT ![r] = TRUE]
          /\ receive_abort' = [receive_abort EXCEPT ![s] = None]
          /\ ready' = Woken(ready, r)
  /\ pc' = [pc EXCEPT ![c] = "want"]
  /\ UNCHANGED <<running, callVars, carrierVars, gate, sessionVars, driverVars, serverVars>>

CloseGate(c) ==
  LET s == SessionOf[c] IN
  /\ running = c /\ c \in Closers /\ pc[c] \in {"want", "gate"}
  /\ IF gate[s] = None
     THEN /\ gate' = [gate EXCEPT ![s] = c] /\ pc' = [pc EXCEPT ![c] = "take"]
          /\ UNCHANGED running
     ELSE /\ pc' = [pc EXCEPT ![c] = "gate"] /\ running' = None
          /\ UNCHANGED gate
  /\ UNCHANGED <<ready, callVars, carrierVars, receive_abort, aborted, sessionVars, driverVars,
                 serverVars>>

CloseEnds(c) ==
  LET s == SessionOf[c] IN
  /\ lock' = [lock EXCEPT ![s] = None]
  /\ gate' = [gate EXCEPT ![s] = IF @ = c THEN None ELSE @]
  /\ pc' = [pc EXCEPT ![c] = "idle"]
  /\ running' = None

(* The session value is dropped with the call, which unregisters it.         *)
CloseDrops(c) ==
  LET s == SessionOf[c] IN
  /\ CloseEnds(c)
  /\ commands' = IF driver = "stopped" THEN <<>>
                 ELSE Append(commands, [kind |-> "unregister", session |-> s])
  /\ \E q1 \in WokenOne(ready, LockWaiters(s)) : \E q \in WokenOne(q1, GateWaiters(s)) :
         ready' = IF driver = "loop" THEN Woken(q, Driver) ELSE q

CloseTakes(c) ==
  LET s == SessionOf[c] IN
  /\ running = c /\ c \in Closers /\ pc[c] \in {"take", "lock"}
  /\ CASE lock[s] # None ->
            /\ pc' = [pc EXCEPT ![c] = "lock"] /\ running' = None
            /\ UNCHANGED <<ready, lock, gate, open, commands>>
       [] lock[s] = None /\ ~open[s] ->
            /\ CloseEnds(c)
            /\ \E q \in WokenOne(ready, LockWaiters(s) \ {c}) : ready' \in WokenOne(q, GateWaiters(s))
            /\ UNCHANGED <<open, commands>>
       [] lock[s] = None /\ open[s] /\ driver = "stopped" ->
            /\ open' = [open EXCEPT ![s] = FALSE] /\ CloseDrops(c)
       [] OTHER ->
            /\ open' = [open EXCEPT ![s] = FALSE]
            /\ lock' = [lock EXCEPT ![s] = c]
            /\ pc' = [pc EXCEPT ![c] = "write"] /\ running' = None
            /\ Send(c, ready)
            /\ UNCHANGED gate
  /\ UNCHANGED <<callVars, carrierVars, receive_abort, aborted, inbox, deferred, lifecycle,
                 delivered, driver, registered, terminal, completion, serverVars>>

CloseWritten(c) ==
  /\ running = c /\ c \in Closers /\ pc[c] = "write"
  /\ CASE completion[c] = "error" -> CloseDrops(c)
       [] completion[c] = "ok" ->
            pc' = [pc EXCEPT ![c] = "reply"] /\ UNCHANGED <<execVars, lock, gate, commands>>
       [] OTHER -> running' = None /\ UNCHANGED <<ready, pc, lock, gate, commands>>
  /\ completion' = [completion EXCEPT ![c] = IF @ \in {"ok", "error"} THEN None ELSE @]
  /\ UNCHANGED <<callVars, carrierVars, receive_abort, aborted, open, inbox, deferred, lifecycle,
                 delivered, driver, registered, terminal, serverVars>>

CloseReply(c) ==
  LET s == SessionOf[c] IN
  /\ running = c /\ c \in Closers /\ pc[c] = "reply"
  /\ CASE inbox[s] = <<>> /\ driver # "stopped" ->
            running' = None /\ UNCHANGED <<ready, pc, lock, gate, inbox, commands>>
       [] inbox[s] = <<>> /\ driver = "stopped" -> CloseDrops(c) /\ UNCHANGED inbox
       [] inbox[s] # <<>> /\ Head(inbox[s]).kind = "event" ->
            /\ inbox' = [inbox EXCEPT ![s] = Tail(@)]
            /\ UNCHANGED <<execVars, pc, lock, gate, commands>>
       [] inbox[s] # <<>> /\ Head(inbox[s]).kind # "event" ->
            inbox' = [inbox EXCEPT ![s] = Tail(@)] /\ CloseDrops(c)
  /\ UNCHANGED <<callVars, carrierVars, receive_abort, aborted, open, deferred, lifecycle,
                 delivered, driver, registered, terminal, completion, serverVars>>

-----------------------------------------------------------------------------
DriverStep == \/ DriverWrite \/ DriverSent \/ DriverSendFailed \/ DriverUnregister
              \/ DriverRoute \/ DriverReadFailed \/ DriverYield

ReceiverStep(r) == \/ ReceiveGate(r) \/ ReceiveAborted(r) \/ ReceiveObserve(r) \/ ReceiveLocked(r)
                   \/ ReceiveLifecycle(r) \/ ReceiveEvents(r) \/ ReceiveClosed(r) \/ ReceiveEmpty(r)
                   \/ WaitReady(r) \/ WaitFailed(r) \/ WaitPending(r)

WriterStep(w) == WriterStart(w) \/ WriterWritten(w) \/ WriterReply(w)

CloserStep(c) == CloseAborts(c) \/ CloseGate(c) \/ CloseTakes(c) \/ CloseWritten(c) \/ CloseReply(c)

(* A receiver or writer whose task is woken again after its call returned.   *)
Spurious == /\ running \in Callers /\ pc[running] = "idle" /\ running' = None
            /\ UNCHANGED <<ready, pc, callVars, carrierVars, gateVars, sessionVars, driverVars, serverVars>>

Step == \/ DriverStep \/ Spurious
        \/ \E r \in Receivers : ReceiverStep(r)
        \/ \E w \in Writers : WriterStep(w)
        \/ \E c \in Closers : CloserStep(c)

HostStep == \/ \E k \in 1..2 : Ingest(k)
            \/ \E result \in {"ok", "error"} : SendResolved(result)

Next == \/ Resume \/ Step \/ HostStep \/ IngestRefused \/ fail_receive
        \/ \E t \in Callers : Call(t)
        \/ \E s \in Sessions : ServerEvent(s)

Spec == Init /\ [][Next]_vars

(* A started task runs on, the queue is served, promises of the host are     *)
(* resolved and packets that arrived are handed over.                        *)
FairSpec == /\ Spec
            /\ WF_vars(Resume) /\ WF_vars(Step)
            /\ WF_vars(\E result \in {"ok", "error"} : SendResolved(result))
            /\ WF_vars(\E k \in 1..2 : Ingest(k))

-----------------------------------------------------------------------------
EventsFor(s, q) == SelectSeq(q, LAMBDA p : p.to = s /\ p.kind = "event")

(* While a session and its connection work, its events that are not yet      *)
(* returned to the host are the ones after the last returned one, in order:  *)
(* none is lost, doubled or overtaken, whatever calls run in between         *)
(* (awaitEvent, awaitEventBatch, patchSession keeping events, submits).      *)
EventsInOrder ==
  \A s \in Sessions :
    open[s] /\ ~terminal /\ driver # "stopped" =>
      LET q == deferred[s] \o EventsFor(s, inbox[s] \o pending \o wire) IN
      /\ Len(q) = sent[s] - delivered[s]
      /\ \A i \in DOMAIN q : q[i].n = delivered[s] + i

(* While close exchanges SESSION_CLOSE no receive of the session is in       *)
(* progress (it holds the receive gate).                                     *)
CloseExcludesReceives ==
  \A c \in Closers : pc[c] \in {"write", "reply"} =>
    \A r \in Receivers : SessionOf[r] = SessionOf[c] => pc[r] \in {"idle", "start", "gate"}

Due(r) ==
  LET s == SessionOf[r] IN
  \/ EventsFor(s, Arrived(s) \o pending) # <<>> \/ Contains(inbox[s], Failed)
  \/ r \notin Batch /\ lifecycle[s] > 0

Forgotten(r) == pc[r] \in {"wait", "lock"} /\ Due(r) /\ driver # "stopped"

(* Closing a role returns, receives in progress or not.                      *)
CloseConcludes == \A c \in Closers : []<>(pc[c] = "idle")
=============================================================================
