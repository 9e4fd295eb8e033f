---------------------------- MODULE NativeClient ----------------------------
(***************************************************************************)
(* The client calls of the native interface (nnrp-ffi/src/lib.rs) made by   *)
(* several host threads.  A call that awaits the runtime holds no lock       *)
(* while it does, so it is a step before the await, the runtime's step, and  *)
(* one or two steps after it.  The session runtime is external to this file  *)
(* (it is ClientSession): here it registers operations, refuses an           *)
(* operation identity it has seen, and yields events in order.               *)
(***************************************************************************)
EXTENDS HandleStore, SequencesExt

CONSTANTS Threads,
          SessionIds,  \* session handle ids the host chooses from
          OpIds,       \* operation ids it chooses from
          MaxSessions, \* sessions opened
          MaxOpens,    \* calls that open a session with one handle id
          MaxSubmits,  \* calls that submit
          Batch        \* max_events of an await

Idle == [op |-> "idle"]
NoEvent == [type |-> "none", op |-> 0]
connection == Handle("Connection", 1, 1)

VARIABLES store, calls,
          runtime,  \* session number -> [ops, partial, inbox, open]
          uses,     \* session handle id -> times the host has used it
          ticket,   \* the host holds a recovery ticket
          given,    \* <<session number, operation>> -> the handle of its submit
          failed,   \* <<session number, operation>> sent by a submit that failed
          got,      \* events handed to the host: [n, type, op, handle]
          lost,     \* events taken and not handed over: [n, op, closed]
          raced     \* session handles of opens that a close of the connection overtook

vars == <<store, calls, runtime, uses, ticket, given, failed, got, lost, raced>>
hist == <<given, failed, got, lost>>

Call(t, c) == calls' = [calls EXCEPT ![t] = c]
Return(t) == Call(t, Idle)
IsIn(t, op) == calls[t].op = op

Init ==
  /\ store = [EmptyStore EXCEPT !.entries =
       [k \in {Key(connection)} |-> [gen |-> 1, res |-> [type |-> "Connection", role |-> "Client"]]]]
  /\ calls = [t \in Threads |-> Idle]
  /\ runtime = <<>>
  /\ uses = [i \in SessionIds |-> 0]
  /\ ticket = FALSE
  /\ given = <<>>
  /\ failed = {}
  /\ got = {}
  /\ lost = {}
  /\ raced = {}

-----------------------------------------------------------------------------
(* Opening and resuming a session.                                         *)
OpenCall(t, id) ==
  /\ IsIn(t, "idle")
  /\ Has(store, connection, "Connection")
  /\ uses[id] < MaxOpens
  /\ uses' = [uses EXCEPT ![id] = @ + 1]
  /\ Call(t, [op |-> "open", handle |-> Handle("Session", id, uses'[id])])
  /\ UNCHANGED <<store, runtime, ticket, hist, raced>>

client_open_session_begin(t) == \E id \in SessionIds : OpenCall(t, id)
client_resume_session_begin(t) == ticket /\ \E id \in SessionIds : OpenCall(t, id)

SessionRes(n) == [type |-> "Session", connection |-> connection, n |-> n]

\* The session is negotiated and its handle goes into the store, if the id is free.
Opened(t) ==
  /\ IsIn(t, "open")
  /\ Len(runtime) < MaxSessions
  /\ runtime' = Append(runtime, [ops |-> {}, partial |-> {}, inbox |-> <<>>, open |-> TRUE])
  /\ store' = IF CanInsert(store, calls[t].handle)
              THEN insert(store, calls[t].handle, SessionRes(Len(runtime) + 1)) ELSE store
  /\ Return(t)
  /\ UNCHANGED <<uses, ticket, hist, raced>>

OpenFails(t) ==
  /\ IsIn(t, "open")
  /\ Return(t)
  /\ UNCHANGED <<store, runtime, uses, ticket, hist, raced>>

\* A ticket outlives the session it was taken from.
client_session_recovery_ticket(t) ==
  /\ IsIn(t, "idle")
  /\ \E s \in OfType(store, "Session") : runtime[get(store, s, "Session").n].open
  /\ ticket' = TRUE
  /\ UNCHANGED <<store, calls, runtime, uses, hist, raced>>

-----------------------------------------------------------------------------
(* Submitting.                                                             *)
OperationRes(s, op) == [type |-> "Operation", session |-> s, operation_id |-> op]
IssueOperation(s, op) ==
  LET h == Handle("Operation", next_handle_id(store, "Operation"), s.gen)
  IN insert([store EXCEPT !.next["Operation"] = h.id], h, OperationRes(s, op))
NewOperation(s) == Handle("Operation", next_handle_id(store, "Operation"), s.gen)

Submits(t, s, op, h) ==
  Call(t, [op |-> "submit", n |-> get(store, s, "Session").n, id |-> op, handle |-> h])

\* Mutant of client_submit_begin: an operation id in use is not looked for.
client_submit_begin_Twice(t) == \E s \in OfType(store, "Session"), op \in OpIds :
  /\ IsIn(t, "idle") /\ store.next["Operation"] < MaxSubmits
  /\ store' = IssueOperation(s, op)
  /\ Submits(t, s, op, NewOperation(s))
  /\ UNCHANGED <<runtime, uses, ticket, hist, raced>>

\* Under one lock: the session, the operation id not in use, the handle inserted.
client_submit_begin(t) == \E s \in OfType(store, "Session"), op \in OpIds :
  /\ IsIn(t, "idle") /\ store.next["Operation"] < MaxSubmits
  /\ find_operation_handle(store, s, op) = invalid
  /\ store' = IssueOperation(s, op)
  /\ Submits(t, s, op, NewOperation(s))
  /\ UNCHANGED <<runtime, uses, ticket, hist, raced>>

\* The runtime accepts the submit: the packet is on its way.
Accepted(t) ==
  LET c == calls[t] IN
  /\ IsIn(t, "submit")
  /\ runtime[c.n].open
  /\ c.id \notin runtime[c.n].ops
  /\ runtime' = [runtime EXCEPT ![c.n].ops = @ \cup {c.id}]
  /\ given' = [k \in DOMAIN given \cup {<<c.n, c.id>>} |->
                 IF k = <<c.n, c.id>> THEN c.handle ELSE given[k]]

SubmitAccepted(t) ==
  /\ Accepted(t)
  /\ Return(t)
  /\ UNCHANGED <<store, uses, ticket, failed, got, lost, raced>>

\* The packet went out, but the call ran into its time limit.
SubmitTimesOut(t) ==
  /\ Accepted(t)
  /\ failed' = failed \cup {<<calls[t].n, calls[t].id>>}
  /\ Call(t, [op |-> "undo", handle |-> calls[t].handle])
  /\ UNCHANGED <<store, uses, ticket, got, lost, raced>>

\* The runtime refuses it, or the transport fails before anything is sent.
SubmitRefused(t) ==
  /\ IsIn(t, "submit")
  /\ Call(t, [op |-> "undo", handle |-> calls[t].handle])
  /\ UNCHANGED <<store, runtime, uses, ticket, hist, raced>>

\* The failed call takes its handle back, unless a close already has.
SubmitUndone(t) ==
  /\ IsIn(t, "undo")
  /\ store' = IF Has(store, calls[t].handle, "Operation") THEN remove(store, calls[t].handle)
              ELSE store
  /\ Return(t)
  /\ UNCHANGED <<runtime, uses, ticket, hist, raced>>

-----------------------------------------------------------------------------
(* What the peer makes the runtime of a session yield (external).           *)
Peer(n, op) ==
  /\ op \in runtime[n].ops
  /\ ~\E e \in ToSet(runtime[n].inbox) \cup {[type |-> g.type, op |-> g.op] : g \in {f \in got : f.n = n}}
               \cup {[type |-> l.type, op |-> l.op] : l \in {f \in lost : f.n = n}}
               \cup {calls[t].ev : t \in {u \in Threads : IsIn(u, "await") /\ calls[u].n = n}} :
       e = [type |-> "result", op |-> op]
  /\ \/ /\ op \notin runtime[n].partial
        /\ runtime' = [runtime EXCEPT ![n].partial = @ \cup {op},
                         ![n].inbox = Append(@, [type |-> "partial", op |-> op])]
     \/ runtime' = [runtime EXCEPT ![n].inbox =
                      @ \o <<[type |-> "result", op |-> op], [type |-> "lifecycle", op |-> op]>>]
  /\ UNCHANGED <<store, calls, uses, ticket, hist, raced>>

-----------------------------------------------------------------------------
(* Awaiting a batch of events.                                             *)
\* One thread at a time receives from a session, as the checklist for hosts asks
\* ("Serialize or reject concurrent receive calls so two consumers cannot race one
\* native event source").
role_client_await_events_begin(t) == \E s \in OfType(store, "Session") :
  /\ IsIn(t, "idle")
  /\ \A u \in Threads : ~(IsIn(u, "await") /\ calls[u].session = s)
  /\ Call(t, [op |-> "await", session |-> s, n |-> get(store, s, "Session").n,
              left |-> Batch, ev |-> NoEvent, scoped |-> FALSE])
  /\ UNCHANGED <<store, runtime, uses, ticket, hist, raced>>

AwaitTakes(t) ==
  LET c == calls[t] IN
  /\ IsIn(t, "await")
  /\ c.ev = NoEvent /\ c.left > 0
  /\ runtime[c.n].open /\ runtime[c.n].inbox # <<>>
  /\ Call(t, [c EXCEPT !.ev = Head(runtime[c.n].inbox)])
  /\ runtime' = [runtime EXCEPT ![c.n].inbox = Tail(@)]
  /\ UNCHANGED <<store, uses, ticket, hist, raced>>

\* The batch is full, the time is up or the session has failed.
AwaitReturns(t) ==
  /\ IsIn(t, "await")
  /\ calls[t].ev = NoEvent
  /\ Return(t)
  /\ UNCHANGED <<store, runtime, uses, ticket, hist, raced>>

Scope(c) == role_session_connection(store, c.session)

\* The call fails with the event in its hands.
Loses(t) ==
  LET c == calls[t] IN
  /\ lost' = lost \cup {[n |-> c.n, type |-> c.ev.type, op |-> c.ev.op, closed |-> Scope(c) = invalid]}
  /\ Return(t)
  /\ UNCHANGED <<store, runtime, uses, ticket, given, failed, got, raced>>

\* First lock: the session and its connection are looked up.
client_role_event_scope(t) ==
  LET c == calls[t] IN
  /\ IsIn(t, "await")
  /\ c.ev # NoEvent /\ ~c.scoped
  /\ \/ /\ Scope(c) = invalid
        /\ Loses(t)
     \/ /\ Scope(c) # invalid
        /\ Call(t, [c EXCEPT !.scoped = TRUE])
        /\ UNCHANGED <<store, runtime, uses, ticket, hist, raced>>

Payload == [type |-> "Buffer", bytes |-> "payload"]

Delivers(t, h, st) ==
  LET c == calls[t] IN
  /\ store' = Issue(st, "Buffer", Payload)
  /\ got' = got \cup {[n |-> c.n, type |-> c.ev.type, op |-> c.ev.op, handle |-> h]}
  /\ Call(t, [c EXCEPT !.ev = NoEvent, !.scoped = FALSE, !.left = @ - 1])
  /\ UNCHANGED <<runtime, uses, ticket, given, failed, lost, raced>>

\* Second lock: the operation's handle is found, and removed with a terminal event.
client_role_event(t) ==
  LET c == calls[t]
      h == find_operation_handle(store, c.session, c.ev.op)
  IN /\ IsIn(t, "await")
     /\ c.ev # NoEvent /\ c.scoped /\ c.ev.type # "lifecycle"
     /\ IF h = invalid THEN Loses(t)
        ELSE Delivers(t, h, IF c.ev.type = "result" THEN remove(store, h) ELSE store)

role_lifecycle_event(t) ==
  LET c == calls[t] IN
  /\ IsIn(t, "await")
  /\ c.ev # NoEvent /\ c.scoped /\ c.ev.type = "lifecycle"
  /\ IF Has(store, c.session, "Session")
     THEN Delivers(t, find_operation_handle(store, c.session, c.ev.op), store)
     ELSE Loses(t)

-----------------------------------------------------------------------------
(* Closing.                                                                *)
client_close_begin(t) == \E s \in OfType(store, "Session") :
  /\ IsIn(t, "idle")
  /\ Call(t, [op |-> "close", session |-> s, n |-> get(store, s, "Session").n, done |-> FALSE])
  /\ UNCHANGED <<store, runtime, uses, ticket, hist, raced>>

CloseRuns(t) ==
  /\ IsIn(t, "close") /\ ~calls[t].done
  /\ \/ /\ runtime' = [runtime EXCEPT ![calls[t].n].open = FALSE]
        /\ Call(t, [calls[t] EXCEPT !.done = TRUE])
     \/ Return(t) /\ UNCHANGED runtime
  /\ UNCHANGED <<store, uses, ticket, hist, raced>>

client_close(t) ==
  LET s == calls[t].session IN
  /\ IsIn(t, "close") /\ calls[t].done
  /\ store' = IF Has(store, s, "Session") THEN close_session(store, s) ELSE store
  /\ Return(t)
  /\ UNCHANGED <<runtime, uses, ticket, hist, raced>>

client_close_connection(t) ==
  /\ IsIn(t, "idle")
  /\ Has(store, connection, "Connection")
  /\ store' = close_connection(store, connection)
  /\ raced' = {calls[u].handle : u \in {v \in Threads : IsIn(v, "open")}}
  /\ UNCHANGED <<calls, runtime, uses, ticket, hist>>

Next ==
  \/ \E t \in Threads :
       \/ client_open_session_begin(t) \/ client_resume_session_begin(t) \/ Opened(t) \/ OpenFails(t)
       \/ client_session_recovery_ticket(t)
       \/ client_submit_begin(t) \/ SubmitAccepted(t) \/ SubmitTimesOut(t) \/ SubmitRefused(t)
       \/ SubmitUndone(t)
       \/ role_client_await_events_begin(t) \/ AwaitTakes(t) \/ AwaitReturns(t)
       \/ client_role_event_scope(t) \/ client_role_event(t) \/ role_lifecycle_event(t)
       \/ client_close_begin(t) \/ CloseRuns(t) \/ client_close(t) \/ client_close_connection(t)
  \/ \E n \in DOMAIN runtime, op \in OpIds : Peer(n, op)

Spec == Init /\ [][Next]_vars

-----------------------------------------------------------------------------
(* An event is taken from the runtime and not handed to the host only when   *)
(* the session or its connection was closed meanwhile, or when the submit of *)
(* its operation reported a failure: a result that overtakes the end of its  *)
(* submit still finds the operation's handle.                                *)
EventsAreLostOnlyByClosing == \A l \in lost : l.closed \/ <<l.n, l.op>> \in failed

(* A partial result or a result carries the handle of the submit the runtime *)
(* accepted for that operation, also when two threads submit one operation   *)
(* id at the same time and one of them is refused.  Excepted are operations  *)
(* sent by a submit that reported failure: a retry's handle may be found.    *)
ResultsNameTheirSubmit ==
  \A g \in got : g.type # "lifecycle" /\ <<g.n, g.op>> \notin failed => g.handle = given[<<g.n, g.op>>]

(* An operation handle always has its session, and a session handle its      *)
(* connection, unless the connection was closed while the call that opened   *)
(* the session was waiting for its acknowledgement.                          *)
OwnersAreOpen ==
  /\ \A h \in OfType(store, "Operation") : Has(store, get(store, h, "Operation").session, "Session")
  /\ \A s \in OfType(store, "Session") : Has(store, connection, "Connection") \/ s \in raced
=============================================================================
