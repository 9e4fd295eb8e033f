---------------------------- MODULE NativeServer ----------------------------
(***************************************************************************)
(* The server calls of the native interface (nnrp-ffi/src/lib.rs): accept    *)
(* tickets, the blocking accept, events that create operation handles,       *)
(* replies, and closing, made by several host threads.  The session runtime  *)
(* is external to this file (it is ServerSession).                           *)
(***************************************************************************)
EXTENDS HandleStore, SequencesExt

CONSTANTS Threads,
          OpIds,        \* operations the peer submits
          MaxSessions,  \* sessions the peers open
          MaxCalls,     \* tickets and accepts the host asks for
          Direct        \* whether the host also accepts without a ticket

Idle == [op |-> "idle"]
NoEvent == [type |-> "none", op |-> 0]
server == Handle("Connection", 1, 1)

VARIABLES store, calls,
          accepts,   \* ticket number -> [state, n, task]
          runtime,   \* session number -> [ops, inbox, open]
          asked,     \* tickets and accepts asked for; numbers their handles
          made,      \* operation handle -> [session, n, op] of the event that made it
          replied,   \* handles whose terminal reply was recorded
          ended,     \* handles whose lifecycle event was handed over
          raced      \* what a close overtook: session handles to come, sessions being awaited

vars == <<store, calls, accepts, runtime, asked, made, replied, ended, raced>>
hist == <<made, replied, ended>>

Call(t, c) == calls' = [calls EXCEPT ![t] = c]
Return(t) == Call(t, Idle)
IsIn(t, op) == calls[t].op = op

NewRuntime == [ops |-> <<>>, inbox |-> <<>>, open |-> TRUE]
NewSession == Len(runtime) + 1
SessionRes(n) == [type |-> "Session", connection |-> server, n |-> n]

Init ==
  /\ store = [EmptyStore EXCEPT !.entries =
       [k \in {Key(server)} |-> [gen |-> 1, res |-> [type |-> "Connection", role |-> "Server"]]]]
  /\ calls = [t \in Threads |-> Idle]
  /\ accepts = <<>>
  /\ runtime = <<>>
  /\ asked = 0
  /\ made = <<>>
  /\ replied = {}
  /\ ended = {}
  /\ raced = {}

-----------------------------------------------------------------------------
(* Accept tickets.  A ticket's task accepts in the background and publishes  *)
(* what it got; the host waits for it, claims it or releases it.             *)
server_accept_begin(t) ==
  /\ IsIn(t, "idle")
  /\ Has(store, server, "Connection")
  /\ Accepts(store, server) = {}
  /\ asked < MaxCalls
  /\ asked' = asked + 1
  /\ accepts' = Append(accepts, [state |-> "Pending", n |-> 0, task |-> "running"])
  /\ store' = insert(store, Handle("ServerAccept", asked', 1),
                     [type |-> "ServerAccept", server |-> server, a |-> Len(accepts) + 1])
  /\ UNCHANGED <<calls, runtime, hist, raced>>

\* The task's accept yields a session; an error of one peer is tried again.
TaskAccepts(a) ==
  /\ accepts[a].task = "running"
  /\ NewSession <= MaxSessions
  /\ runtime' = Append(runtime, NewRuntime)
  /\ accepts' = [accepts EXCEPT ![a].task = "publishing", ![a].n = NewSession]
  /\ UNCHANGED <<store, calls, asked, hist, raced>>

TaskFails(a) ==
  /\ accepts[a].task = "running"
  /\ accepts' = [accepts EXCEPT ![a].task = "publishing"]
  /\ UNCHANGED <<store, calls, runtime, asked, hist, raced>>

\* What the task got is kept only while the ticket is pending.
TaskPublishes(a) ==
  /\ accepts[a].task = "publishing"
  /\ accepts' = [accepts EXCEPT ![a].task = "done",
                   ![a].state = IF @ = "Pending" THEN "Ready" ELSE @]
  /\ UNCHANGED <<store, calls, runtime, asked, hist, raced>>

server_accept_wait_begin(t) == \E h \in OfType(store, "ServerAccept") :
  /\ IsIn(t, "idle")
  /\ Call(t, [op |-> "wait", a |-> get(store, h, "ServerAccept").a])
  /\ UNCHANGED <<store, accepts, runtime, asked, hist, raced>>

\* The waiter is woken when the state changes, or gives up.
server_accept_wait(t) ==
  /\ IsIn(t, "wait")
  /\ Return(t)
  /\ UNCHANGED <<store, accepts, runtime, asked, hist, raced>>

\* Mutant of server_accept_claim: the ticket survives the claim.
server_accept_claim_Again(t) == \E h \in OfType(store, "ServerAccept") :
  LET a == get(store, h, "ServerAccept").a
      s == Handle("Session", asked + 1, 1)
  IN /\ IsIn(t, "idle")
     /\ asked < MaxCalls
     /\ asked' = asked + 1
     /\ accepts[a].state = "Ready" /\ accepts[a].n # 0
     /\ store' = insert(store, s, SessionRes(accepts[a].n))
     /\ UNCHANGED <<calls, accepts, runtime, hist, raced>>

\* One lock: the session is claimed, its handle inserted and the ticket removed.
server_accept_claim(t) == \E h \in OfType(store, "ServerAccept") :
  LET a == get(store, h, "ServerAccept").a
      s == Handle("Session", asked + 1, 1)
  IN /\ IsIn(t, "idle")
     /\ asked < MaxCalls
     /\ asked' = asked + 1
     /\ accepts[a].state = "Ready" /\ accepts[a].n # 0
     /\ accepts' = [accepts EXCEPT ![a].state = "Claimed"]
     /\ store' = remove(insert(store, s, SessionRes(accepts[a].n)), h)
     /\ UNCHANGED <<calls, runtime, hist, raced>>

\* release: a claimed ticket stays claimed; the task is aborted where it awaits.
Released(as) ==
  [a \in DOMAIN accepts |->
     IF a \notin as THEN accepts[a]
     ELSE [accepts[a] EXCEPT !.state = IF @ = "Claimed" THEN @ ELSE "Released",
                             !.task = IF @ = "running" THEN "done" ELSE @]]

server_accept_release(t) == \E h \in OfType(store, "ServerAccept") :
  /\ IsIn(t, "idle")
  /\ accepts' = Released({get(store, h, "ServerAccept").a})
  /\ store' = remove(store, h)
  /\ UNCHANGED <<calls, runtime, asked, hist, raced>>

-----------------------------------------------------------------------------
(* The blocking accept.                                                    *)
server_accept_direct(t) ==
  /\ Direct
  /\ IsIn(t, "idle")
  /\ Has(store, server, "Connection")
  /\ asked < MaxCalls
  /\ asked' = asked + 1
  /\ Call(t, [op |-> "accept", handle |-> Handle("Session", asked', 1)])
  /\ UNCHANGED <<store, accepts, runtime, hist, raced>>

server_accept(t) ==
  /\ IsIn(t, "accept")
  /\ \/ /\ NewSession <= MaxSessions
        /\ runtime' = Append(runtime, NewRuntime)
        /\ store' = IF CanInsert(store, calls[t].handle)
                    THEN insert(store, calls[t].handle, SessionRes(NewSession)) ELSE store
     \/ UNCHANGED <<store, runtime>>
  /\ Return(t)
  /\ UNCHANGED <<accepts, asked, hist, raced>>

-----------------------------------------------------------------------------
(* What the peer makes the runtime of a session yield (external).           *)
Event(type, op) == [type |-> type, op |-> op]
Ends(r, op, events) ==
  [r EXCEPT !.ops = [@ EXCEPT ![op] = "ended"], !.inbox = @ \o events]

Peer(n, op) ==
  /\ runtime[n].open
  /\ \/ /\ op \notin DOMAIN runtime[n].ops
        /\ runtime' = [runtime EXCEPT
             ![n].ops = [o \in DOMAIN @ \cup {op} |-> IF o = op THEN "live" ELSE @[o]],
             ![n].inbox = Append(@, Event("submit", op))]
     \/ /\ op \in DOMAIN runtime[n].ops
        /\ runtime[n].ops[op] = "live"
        /\ \/ runtime' = [runtime EXCEPT ![n] =
                Ends(@, op, <<Event("cancel", op), Event("lifecycle", op)>>)]
           \/ runtime' = [runtime EXCEPT ![n] =
                Ends(@, op, <<Event("lifecycle", op), Event("cancel", op)>>)]
  /\ UNCHANGED <<store, calls, accepts, asked, hist, raced>>

-----------------------------------------------------------------------------
(* Events.  The session is looked up once, when the call begins.            *)
role_server_await_events_begin(t) == \E s \in OfType(store, "Session") :
  /\ IsIn(t, "idle")
  /\ role_session_connection(store, s) # invalid
  /\ \A u \in Threads : ~(IsIn(u, "await") /\ calls[u].session = s)
  /\ Call(t, [op |-> "await", session |-> s, n |-> get(store, s, "Session").n, ev |-> NoEvent])
  /\ UNCHANGED <<store, accepts, runtime, asked, hist, raced>>

AwaitTakes(t) ==
  LET c == calls[t] IN
  /\ IsIn(t, "await")
  /\ c.ev = NoEvent
  /\ runtime[c.n].open /\ runtime[c.n].inbox # <<>>
  /\ Call(t, [c EXCEPT !.ev = Head(runtime[c.n].inbox)])
  /\ runtime' = [runtime EXCEPT ![c.n].inbox = Tail(@)]
  /\ UNCHANGED <<store, accepts, asked, hist, raced>>

AwaitReturns(t) ==
  /\ IsIn(t, "await")
  /\ calls[t].ev = NoEvent
  /\ Return(t)
  /\ UNCHANGED <<store, accepts, runtime, asked, hist, raced>>

Taken(t, types) == IsIn(t, "await") /\ calls[t].ev.type \in types
Next1(t) == Call(t, [calls[t] EXCEPT !.ev = NoEvent])
Payload == [type |-> "Buffer", bytes |-> "payload"]

\* A submit creates the operation's handle; the session is not looked at again.
server_role_event_submit(t) ==
  LET c == calls[t]
      h == Handle("Operation", next_handle_id(store, "Operation"), c.session.gen)
      res == [type |-> "Operation", session |-> c.session, operation_id |-> c.ev.op]
  IN /\ Taken(t, {"submit"})
     /\ store' = Issue(insert([store EXCEPT !.next["Operation"] = h.id], h, res), "Buffer", Payload)
     /\ made' = [g \in DOMAIN made \cup {h} |->
                   IF g = h THEN [session |-> c.session, n |-> c.n, op |-> c.ev.op] ELSE made[g]]
     /\ Next1(t)
     /\ UNCHANGED <<accepts, runtime, asked, replied, ended, raced>>

\* Another event of an operation needs its handle; without it the call fails.
server_role_event(t) ==
  LET c == calls[t]
      h == find_operation_handle(store, c.session, c.ev.op)
  IN /\ Taken(t, {"cancel"})
     /\ IF h = invalid THEN Return(t) /\ UNCHANGED store
        ELSE Next1(t) /\ store' = Issue(store, "Buffer", Payload)
     /\ UNCHANGED <<accepts, runtime, asked, hist, raced>>

\* The handle goes with the event if the reply has been sent; else the event is noted.
AfterLifecycle(st, session, op) ==
  CASE op = invalid -> st
    [] op \in st.replies -> remove(st, op)
    [] OTHER -> mark_operation_lifecycle_delivered(st, session, op)

role_lifecycle_event(t) ==
  LET c == calls[t]
      h == find_operation_handle(store, c.session, c.ev.op)
  IN /\ Taken(t, {"lifecycle"})
     /\ IF ~Has(store, c.session, "Session") THEN Return(t) /\ UNCHANGED <<store, ended>>
        ELSE /\ store' = Issue(AfterLifecycle(store, c.session, h), "Buffer", Payload)
             /\ ended' = ended \cup ({h} \ {invalid})
             /\ Next1(t)
     /\ UNCHANGED <<accepts, runtime, asked, made, replied, raced>>

-----------------------------------------------------------------------------
(* Replies: nnrp_server_send_result, RESULT_DROP_REASON by                  *)
(* nnrp_runtime_frame_send, and nnrp_server_drop_stale_result.              *)
ReplyKinds == {"result", "drop_frame", "drop_stale"}

server_operation_runtime(t) == \E h \in OfType(store, "Operation"), kind \in ReplyKinds :
  LET r == get(store, h, "Operation") IN
  /\ IsIn(t, "idle")
  /\ role_session_connection(store, r.session) # invalid
  /\ Call(t, [op |-> "reply", kind |-> kind, handle |-> h, session |-> r.session,
              n |-> get(store, r.session, "Session").n, id |-> r.operation_id, sent |-> FALSE])
  /\ UNCHANGED <<store, accepts, runtime, asked, hist, raced>>

\* A result needs a live operation; a drop is also sent for one that has ended.
ReplySent(t) ==
  LET c == calls[t] IN
  /\ IsIn(t, "reply") /\ ~c.sent
  /\ runtime[c.n].open
  /\ runtime[c.n].ops[c.id] = "live" \/ c.kind # "result"
  /\ runtime' = IF runtime[c.n].ops[c.id] = "live"
                THEN [runtime EXCEPT ![c.n] = Ends(@, c.id, <<Event("lifecycle", c.id)>>)]
                ELSE runtime
  /\ IF c.kind = "drop_stale"
     THEN Return(t)
     ELSE Call(t, [c EXCEPT !.sent = TRUE])
  /\ UNCHANGED <<store, accepts, asked, made, replied, ended, raced>>

ReplyFails(t) ==
  /\ IsIn(t, "reply") /\ ~calls[t].sent
  /\ Return(t)
  /\ UNCHANGED <<store, accepts, runtime, asked, hist, raced>>

ReplyRecorded(t) ==
  LET c == calls[t] IN
  /\ IsIn(t, "reply") /\ c.sent
  /\ IF Has(store, c.handle, "Operation")
     THEN /\ store' = record_terminal_operation_reply(store, c.session, c.handle)
          /\ replied' = replied \cup {c.handle}
     ELSE UNCHANGED <<store, replied>>
  /\ Return(t)
  /\ UNCHANGED <<accepts, runtime, asked, made, ended, raced>>

-----------------------------------------------------------------------------
(* Closing.                                                                *)
Awaited(sessions) ==
  {calls[u].session : u \in {v \in Threads : IsIn(v, "await") /\ calls[v].session \in sessions}}

server_close_begin(t) == \E s \in OfType(store, "Session") :
  /\ IsIn(t, "idle")
  /\ Call(t, [op |-> "close", session |-> s, n |-> get(store, s, "Session").n, done |-> FALSE])
  /\ UNCHANGED <<store, accepts, runtime, asked, hist, raced>>

CloseRuns(t) ==
  /\ IsIn(t, "close") /\ ~calls[t].done
  /\ \/ /\ runtime' = [runtime EXCEPT ![calls[t].n].open = FALSE]
        /\ Call(t, [calls[t] EXCEPT !.done = TRUE])
     \/ Return(t) /\ UNCHANGED runtime
  /\ UNCHANGED <<store, accepts, asked, hist, raced>>

server_close(t) ==
  LET s == calls[t].session IN
  /\ IsIn(t, "close") /\ calls[t].done
  /\ store' = IF Has(store, s, "Session") THEN close_session(store, s) ELSE store
  /\ raced' = raced \cup Awaited({s})
  /\ Return(t)
  /\ UNCHANGED <<accepts, runtime, asked, hist>>

server_close_connection(t) ==
  /\ IsIn(t, "idle")
  /\ Has(store, server, "Connection")
  /\ store' = close_connection(store, server)
  /\ accepts' = Released({get(store, h, "ServerAccept").a : h \in Accepts(store, server)})
  /\ raced' = raced \cup Awaited(Sessions(store, server))
                \cup {calls[u].handle : u \in {v \in Threads : IsIn(v, "accept")}}
  /\ UNCHANGED <<calls, runtime, asked, hist>>

Next ==
  \/ \E t \in Threads :
       \/ server_accept_begin(t) \/ server_accept_wait_begin(t) \/ server_accept_wait(t)
       \/ server_accept_claim(t) \/ server_accept_release(t)
       \/ server_accept_direct(t) \/ server_accept(t)
       \/ role_server_await_events_begin(t) \/ AwaitTakes(t) \/ AwaitReturns(t)
       \/ server_role_event_submit(t) \/ server_role_event(t) \/ role_lifecycle_event(t)
       \/ server_operation_runtime(t) \/ ReplySent(t) \/ ReplyFails(t) \/ ReplyRecorded(t)
       \/ server_close_begin(t) \/ CloseRuns(t) \/ server_close(t) \/ server_close_connection(t)
  \/ \E a \in DOMAIN accepts : TaskAccepts(a) \/ TaskFails(a) \/ TaskPublishes(a)
  \/ \E n \in DOMAIN runtime, op \in OpIds : Peer(n, op)

Spec == Init /\ [][Next]_vars

-----------------------------------------------------------------------------
(* The handle of a server operation lasts until the host has both sent its   *)
(* terminal reply and received its lifecycle event, in whichever order and   *)
(* from whichever threads, and goes with the second of the two; only closing *)
(* the session takes it earlier.                                             *)
HandleLastsUntilAnsweredAndEnded ==
  \A h \in DOMAIN made :
    LET s == made[h].session
        both == h \in replied /\ h \in ended
    IN /\ both => ~Has(store, h, "Operation")
       /\ Has(store, s, "Session") /\ ~both => Has(store, h, "Operation")

(* A session a peer opened gets at most one handle, whatever tickets are     *)
(* waited for, claimed and released by two threads.                          *)
SessionsHaveOneHandle ==
  \A s, r \in OfType(store, "Session") :
    get(store, s, "Session").n = get(store, r, "Session").n => s = r

(* A session handle has its server and an operation handle its session,      *)
(* unless the owner was closed while an accept or an await on it was in      *)
(* progress; a claimed ticket never leaves such a handle.                    *)
OrphansWereOvertaken ==
  /\ \A s \in OfType(store, "Session") : Has(store, server, "Connection") \/ s \in raced
  /\ \A h \in OfType(store, "Operation") :
       LET s == get(store, h, "Operation").session IN Has(store, s, "Session") \/ s \in raced

(* A ticket's task runs only while the ticket can be claimed or released: a  *)
(* ticket the host no longer holds, because it released it or closed its     *)
(* server, accepts no further peer.                                          *)
OnlyHeldTicketsAccept ==
  \A a \in DOMAIN accepts :
    accepts[a].task = "running" =>
      \E h \in OfType(store, "ServerAccept") : get(store, h, "ServerAccept").a = a
=============================================================================
