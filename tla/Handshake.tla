------------------------------ MODULE Handshake ------------------------------
(***************************************************************************)
(* Opening sessions over a connection: the client's open calls               *)
(* (nnrp-runtime/src/client.rs), the server's connection task (server.rs),   *)
(* CLIENT_HELLO, SESSION_OPEN, their acknowledgements, recovery tickets and  *)
(* the validation of both in nnrp-core (control.rs, recovery.rs).  The       *)
(* server's answer to one SESSION_OPEN is one step here; SessionRegistry     *)
(* takes it apart for several connections.                                   *)
(***************************************************************************)
EXTENDS Integers, FiniteSets, Sequences, FiniteSetsExt

CONSTANTS Tasks,        \* client tasks that open sessions
          Configs,      \* NnrpClientConfig of the opens
          Servers,      \* NnrpServerConfig of the server
          MaxOpens, MaxLost, MaxCancels, MaxTime, MaxOp

NoTask == "none"
NoTicket == [id |-> 0, token |-> 0, cursor |-> 0]
NoHello == [version |-> 0]

VARIABLES server,      \* configuration of the server
          now,
          conn,        \* connection number; a lost one is replaced
          up,          \* phase of the connection's server task
          toServer, toClient,
          hello,       \* the client's established hello
          lock,        \* holder of open_lock
          tasks,
          opened,      \* ids in the connection's lifecycle
          sessions,    \* NnrpClientSession values
          ticket,      \* what the host kept of a lost session
          registry,    \* session id -> record
          tokens,      \* last token issued
          opens, cancels,
          refused,     \* why the client refused acknowledgements of this connection
          tainted      \* an open of this connection was cancelled

vars == <<server, now, conn, up, toServer, toClient, hello, lock, tasks, opened, sessions,
          ticket, registry, tokens, opens, cancels, refused, tainted>>
serverVars == <<server, registry, tokens, up>>
clientVars == <<hello, lock, tasks, opened, sessions, ticket, opens, refused>>
envVars == <<now, conn, cancels, tainted>>

Idle == [pc |-> "idle"]

-----------------------------------------------------------------------------
(* Capabilities, as sets of the bits of their bitmaps.                       *)
Capabilities == {"profile", "payload_kind", "codec", "compression", "dtype", "layout",
                 "cache_digest", "cache_object"}

profile_bitmap(profiles) == profiles
profiles_fit(profiles) == profiles \subseteq 1..32
cache_object_bitmap(kinds) == kinds
cache_objects_fit(kinds) == kinds \subseteq 1..16

ClientHello(config) ==
  [version |-> 1, wires |-> {1},
   bits |-> [c \in Capabilities |->
               CASE c = "profile" -> {1, 2}
                 [] c = "payload_kind" -> 1..5
                 [] c = "cache_object" -> cache_object_bitmap(config.cache)
                 [] OTHER -> {}]]

validate_against_client_hello(ack, h) ==
  /\ ack.version = h.version
  /\ ack.wire \in h.wires
  /\ \A c \in Capabilities : ack.bits[c] \subseteq h.bits[c]

ServerHelloAck(h) ==
  [type |-> "hello_ack", version |-> 1, wire |-> 1,
   bits |-> [h.bits EXCEPT !["profile"] = @ \cap profile_bitmap(server.profiles),
                           !["cache_object"] = @ \cap cache_object_bitmap(server.cache)]]

-----------------------------------------------------------------------------
(* Recovery tickets, and what travels as their bytes.                       *)
ticket_to_bytes(t) ==
  [magic |-> "NRTK", version |-> 1, flags |-> IF t.cursor = 0 THEN {} ELSE {"cursor"},
   id |-> t.id, token |-> t.token, cursor |-> t.cursor]

ticket_from_bytes(b) ==
  IF /\ b.magic = "NRTK" /\ b.version = 1 /\ b.flags \subseteq {"cursor"}
     /\ b.id # 0 /\ b.token # 0
  THEN [id |-> b.id, token |-> b.token, cursor |-> IF "cursor" \in b.flags THEN b.cursor ELSE 0]
  ELSE NoTicket

\* recovery_ticket: the cursor is the newest operation of this and of earlier lives.
recovery_ticket(s) ==
  IF s.token = 0 THEN NoTicket
  ELSE [id |-> s.id, token |-> s.token, cursor |-> Max({s.cursor, s.last})]

-----------------------------------------------------------------------------
(* SESSION_OPEN and its acknowledgement.                                     *)
session_open_metadata(config, t) ==
  [type |-> "open", req |-> config.req, profile |-> config.profile, schema |-> config.schema,
   inflight |-> config.inflight, allow_resume |-> config.resume, token |-> t.token]

validate_session_recovery_request(open) ==
  open.token # 0 => open.allow_resume /\ open.req # 0

validate_session_recovery_ack(open, ack) ==
  /\ ack.resume_enabled => ack.window # 0 /\ ack.token # 0
  /\ ack.status = "Resumed" => open.token # 0 /\ ack.error = "none" /\ ack.resume_enabled

validate_client_open(open, policy) ==
  CASE open.profile \notin server.profiles -> "profile_unsupported"
    [] open.schema \notin server.schemas -> "schema_unsupported"
    [] open.inflight > server.inflight -> "limit_reached"
    [] ~policy -> "policy"
    [] OTHER -> "none"

Retained == {id \in DOMAIN registry : registry[id].active \/ registry[id].expires >= now}
first_available_session_id(ids) == Min(1..(Cardinality(ids) + 1) \ ids)

MayResume(open) ==
  /\ open.req \in Retained
  /\ LET r == registry[open.req] IN
     r.resume /\ ~r.active /\ r.expires >= now /\ r.token = open.token

\* The id an open is given, 0 when it cannot be served.
ChosenId(open) ==
  CASE open.token # 0 -> IF MayResume(open) THEN open.req ELSE 0
    [] open.token = 0 /\ open.req # 0 -> IF open.req \in Retained THEN 0 ELSE open.req
    [] OTHER -> first_available_session_id(Retained)

OpenAck(open, policy) ==
  LET id == ChosenId(open)
      invalid == validate_client_open(open, policy)
      accepted == invalid = "none" /\ id # 0
      enabled == accepted /\ open.allow_resume /\ server.token > 0
  IN [type |-> "open_ack", id |-> IF accepted THEN id ELSE 0,
      profile |-> open.profile, schema |-> open.schema,
      status |-> CASE ~accepted -> "Rejected" [] accepted /\ open.token # 0 -> "Resumed" [] OTHER -> "Opened",
      error |-> CASE invalid # "none" -> invalid
                  [] invalid = "none" /\ id = 0 /\ open.token # 0 -> "resume_rejected"
                  [] invalid = "none" /\ id = 0 /\ open.token = 0 -> "limit_reached"
                  [] OTHER -> "none",
      resume_enabled |-> enabled, window |-> server.window,
      token |-> IF enabled THEN tokens + 1 ELSE 0,
      bytes |-> IF enabled THEN server.token ELSE 0]

\* Mutant of Record: a resumed session keeps the token it was resumed with.
Record_OldToken(open, ack) ==
  [resume |-> ack.resume_enabled, token |-> IF open.token # 0 THEN open.token ELSE ack.token,
   expires |-> now + server.window, active |-> TRUE, conn |-> conn,
   last |-> IF open.token # 0 THEN registry[ack.id].last ELSE 0]

Record(open, ack) ==
  [resume |-> ack.resume_enabled, token |-> ack.token,
   expires |-> now + server.window, active |-> TRUE, conn |-> conn,
   last |-> IF open.token # 0 THEN registry[ack.id].last ELSE 0]

-----------------------------------------------------------------------------
Start(config) ==
  /\ server = config
  /\ now = 0 /\ conn = 1 /\ up = "hello"
  /\ toServer = <<>> /\ toClient = <<>>
  /\ hello = NoHello /\ lock = NoTask
  /\ tasks = [t \in Tasks |-> Idle]
  /\ opened = {} /\ sessions = {} /\ ticket = NoTicket
  /\ registry = [id \in {} |-> 0]
  /\ tokens = 0 /\ opens = 0 /\ cancels = 0
  /\ refused = {} /\ tainted = FALSE

Init == \E config \in Servers : Start(config)

(* The client's tasks.  open_lock is held from the hello to the end of the   *)
(* open; a resume names the ticket's session and allows resuming.            *)
Wants(config, t) == IF t = NoTicket THEN config ELSE [config EXCEPT !.req = t.id, !.resume = TRUE]

open_session(t, config, tk) ==
  /\ tasks[t] = Idle /\ opens < MaxOpens
  /\ opens' = opens + 1
  /\ tasks' = [tasks EXCEPT ![t] = [pc |-> "lock", config |-> Wants(config, tk), ticket |-> tk]]
  /\ ticket' = IF tk = NoTicket THEN ticket ELSE NoTicket
  /\ UNCHANGED <<serverVars, toServer, toClient, hello, lock, opened, sessions, refused, envVars>>

resume_session(t, config) ==
  /\ ticket # NoTicket
  /\ LET tk == ticket_from_bytes(ticket_to_bytes(ticket)) IN
     tk # NoTicket /\ open_session(t, config, tk)

take_open_lock(t) ==
  /\ tasks[t].pc = "lock"
  /\ lock = NoTask
  /\ lock' = t
  /\ tasks' = [tasks EXCEPT ![t].pc = "hello"]
  /\ UNCHANGED <<serverVars, toServer, toClient, hello, opened, sessions, ticket, opens, refused, envVars>>

\* Mutant of Ends: a call that ends keeps the lock.
Ends_KeepsLock(t) == tasks' = [tasks EXCEPT ![t] = Idle] /\ UNCHANGED lock

Ends(t) == tasks' = [tasks EXCEPT ![t] = Idle] /\ lock' = (IF lock = t THEN NoTask ELSE lock)

Fails(t, why) ==
  /\ Ends(t)
  /\ refused' = refused \cup {why}
  /\ UNCHANGED <<serverVars, toServer, hello, opened, sessions, ticket, opens, envVars>>

\* ensure_hello, when a hello has been established or can be written.
ensure_hello(t) ==
  LET c == tasks[t].config IN
  /\ tasks[t].pc = "hello"
  /\ CASE ~cache_objects_fit(c.cache) -> Ends(t) /\ UNCHANGED toServer
       [] cache_objects_fit(c.cache) /\ hello # NoHello ->
            /\ IF c.cache \subseteq hello.bits["cache_object"]
               THEN tasks' = [tasks EXCEPT ![t].pc = "open"] /\ UNCHANGED lock
               ELSE Ends(t)
            /\ UNCHANGED toServer
       [] OTHER ->
            /\ toServer' = Append(toServer, [type |-> "hello", hello |-> ClientHello(c)])
            /\ tasks' = [tasks EXCEPT ![t].pc = "hello_ack"]
            /\ UNCHANGED lock
  /\ UNCHANGED <<serverVars, toClient, hello, opened, sessions, ticket, opens, refused, envVars>>

read_hello_ack(t) ==
  /\ tasks[t].pc = "hello_ack"
  /\ toClient # <<>>
  /\ toClient' = Tail(toClient)
  /\ LET p == Head(toClient)
         h == ClientHello(tasks[t].config)
     IN CASE p.type # "hello_ack" -> Fails(t, "unexpected")
          [] p.type = "hello_ack" /\ ~validate_against_client_hello(p, h) -> Fails(t, "hello")
          [] OTHER -> /\ hello' = h
                      /\ tasks' = [tasks EXCEPT ![t].pc = "open"]
                      /\ UNCHANGED <<serverVars, toServer, lock, opened, sessions, ticket, opens,
                                     refused, envVars>>

write_open(t) ==
  /\ tasks[t].pc = "open"
  /\ toServer' = Append(toServer, session_open_metadata(tasks[t].config, tasks[t].ticket))
  /\ tasks' = [tasks EXCEPT ![t].pc = "open_ack"]
  /\ UNCHANGED <<serverVars, toClient, hello, lock, opened, sessions, ticket, opens, refused, envVars>>

\* Why the client does not take a session from an acknowledgement.
Refusal(config, open, ack) ==
  CASE ~validate_session_recovery_ack(open, ack) -> "recovery"
    [] ack.status = "Rejected" -> "rejected"
    [] ack.bytes > 0 /\ config.cap > 0 /\ ack.bytes > config.cap -> "capacity"
    [] ack.id \in opened -> "already_exists"
    [] OTHER -> "none"

NewSession(task, ack) ==
  [id |-> ack.id, profile |-> ack.profile, schema |-> ack.schema, status |-> ack.status,
   token |-> ack.token, cursor |-> task.ticket.cursor, last |-> 0, config |-> task.config]

read_open_ack(t) ==
  /\ tasks[t].pc = "open_ack"
  /\ toClient # <<>>
  /\ toClient' = Tail(toClient)
  /\ LET p == Head(toClient)
         task == tasks[t]
         why == IF p.type # "open_ack" THEN "unexpected"
                ELSE Refusal(task.config, session_open_metadata(task.config, task.ticket), p)
     IN IF why # "none" THEN Fails(t, why)
        ELSE /\ opened' = opened \cup {p.id}
             /\ sessions' = sessions \cup {NewSession(task, p)}
             /\ Ends(t)
             /\ UNCHANGED <<serverVars, toServer, hello, ticket, opens, refused, envVars>>

\* The connection has been closed by the server: reading fails.
read_fails(t) ==
  /\ tasks[t].pc \in {"hello_ack", "open_ack"}
  /\ up = "closed" /\ toClient = <<>>
  /\ Ends(t)
  /\ UNCHANGED <<serverVars, toServer, toClient, hello, opened, sessions, ticket, opens, refused, envVars>>

\* A caller's timeout drops the call where it waits.
cancel(t) ==
  /\ tasks[t] # Idle /\ cancels < MaxCancels
  /\ cancels' = cancels + 1
  /\ tainted' = TRUE
  /\ Ends(t)
  /\ UNCHANGED <<serverVars, toServer, toClient, hello, opened, sessions, ticket, opens, refused, now, conn>>

-----------------------------------------------------------------------------
(* The server's task of the connection.  It leaves with its sessions marked. *)
Left(ids) ==
  [id \in {i \in DOMAIN registry : i \notin ids \/ registry[i].resume} |->
     IF id \in ids THEN [registry[id] EXCEPT !.active = FALSE] ELSE registry[id]]
Mine == {id \in DOMAIN registry : registry[id].conn = conn}

ServerLeaves == up' = "closed" /\ registry' = Left(Mine)

perform_server_hello ==
  /\ up = "hello" /\ toServer # <<>>
  /\ toServer' = Tail(toServer)
  /\ LET p == Head(toServer)
         a == ServerHelloAck(p.hello)
     IN IF /\ p.type = "hello"
           /\ profiles_fit(server.profiles) /\ a.bits["profile"] # {}
           /\ cache_objects_fit(server.cache)
        THEN toClient' = Append(toClient, a) /\ up' = "loop" /\ UNCHANGED registry
        ELSE ServerLeaves /\ UNCHANGED toClient
  /\ UNCHANGED <<server, tokens, clientVars, envVars>>

accept_connection_session(policy) ==
  /\ up = "loop" /\ toServer # <<>>
  /\ toServer' = Tail(toServer)
  /\ LET p == Head(toServer)
         ack == OpenAck(p, policy)
     IN IF p.type = "open" /\ validate_session_recovery_request(p)
        THEN /\ toClient' = Append(toClient, ack)
             /\ tokens' = IF ack.token = 0 THEN tokens ELSE ack.token
             /\ registry' = [id \in Retained \cup ({ack.id} \ {0}) |->
                               IF id = ack.id THEN Record(p, ack) ELSE registry[id]]
             /\ UNCHANGED up
        ELSE ServerLeaves /\ UNCHANGED <<toClient, tokens>>
  /\ UNCHANGED <<server, clientVars, envVars>>

-----------------------------------------------------------------------------
(* The life of a session afterwards, as far as opening depends on it.        *)
submit(s, op, delivered) ==
  /\ up = "loop" /\ op > s.last
  /\ sessions' = (sessions \ {s}) \cup {[s EXCEPT !.last = op]}
  /\ registry' = IF delivered /\ s.id \in DOMAIN registry
                 THEN [registry EXCEPT ![s.id].last = Max({@, op})] ELSE registry
  /\ UNCHANGED <<server, tokens, up, toServer, toClient, hello, lock, tasks, opened, ticket, opens,
                 refused, envVars>>

\* Both sides have closed a session; the connection's lifecycle keeps its id.
close(s) ==
  /\ up = "loop"
  /\ sessions' = sessions \ {s}
  /\ registry' = [id \in DOMAIN registry \ {s.id} |-> registry[id]]
  /\ UNCHANGED <<server, tokens, up, toServer, toClient, hello, lock, tasks, opened, ticket, opens,
                 refused, envVars>>

\* The connection is lost; the host keeps the ticket of one session and connects again.
Reconnect ==
  /\ conn <= MaxLost
  /\ conn' = conn + 1 /\ up' = "hello"
  /\ registry' = Left(Mine)
  /\ toServer' = <<>> /\ toClient' = <<>>
  /\ hello' = NoHello /\ lock' = NoTask /\ tasks' = [t \in Tasks |-> Idle]
  /\ opened' = {} /\ sessions' = {}
  /\ ticket' \in {ticket} \cup {recovery_ticket(s) : s \in sessions}
  /\ refused' = {} /\ tainted' = FALSE
  /\ UNCHANGED <<server, tokens, opens, cancels, now>>

Tick ==
  /\ now < MaxTime
  /\ now' = now + 1
  /\ UNCHANGED <<serverVars, toServer, toClient, clientVars, conn, cancels, tainted>>

Client(t) ==
  \/ take_open_lock(t) \/ ensure_hello(t) \/ read_hello_ack(t) \/ write_open(t)
  \/ read_open_ack(t) \/ read_fails(t)
Server == perform_server_hello \/ \E policy \in BOOLEAN : accept_connection_session(policy)

Next ==
  \/ \E t \in Tasks : Client(t) \/ cancel(t)
  \/ \E t \in Tasks, c \in Configs : open_session(t, c, NoTicket) \/ resume_session(t, c)
  \/ Server
  \/ \E s \in sessions : close(s) \/ \E op \in 1..MaxOp, d \in BOOLEAN : submit(s, op, d)
  \/ Reconnect
  \/ Tick

Spec == Init /\ [][Next]_vars
Fairness == WF_vars(Server) /\ \A t \in Tasks : WF_vars(Client(t))
FairSpec == Spec /\ Fairness

-----------------------------------------------------------------------------
(* The client takes every acknowledgement the server sends, except a         *)
(* rejection, a token larger than it asked for, an id its connection has had *)
(* before, and the acknowledgement of a server that issues tokens with no    *)
(* window to use them in.  What the server negotiates never fails the        *)
(* client's own checks.                                                      *)
RefusalsAreExplained ==
  tainted \/ refused \subseteq {"rejected", "capacity", "already_exists"}
                \cup (IF server.window = 0 THEN {"recovery"} ELSE {})

(* A session has the profile and schema its own open asked for, the id when  *)
(* one was asked for, and is resumed only from a ticket, although            *)
(* acknowledgements carry no reference to their request.                     *)
SessionsAreAsAsked ==
  \A s \in sessions : tainted \/
    /\ s.profile = s.config.profile /\ s.schema = s.config.schema
    /\ s.config.req # 0 => s.id = s.config.req

(* The ticket a client session would give its host is one the server would   *)
(* honour once the connection is lost: it has the record, with that token.   *)
TicketsAreHonoured ==
  \A s \in sessions :
    up = "loop" /\ recovery_ticket(s) # NoTicket =>
      s.id \in DOMAIN registry /\ registry[s.id].resume /\ registry[s.id].token = s.token

(* The ticket's cursor is never behind the last operation the server has     *)
(* received for the session, across any number of resumes.                   *)
CursorCoversServer ==
  \A s \in sessions :
    up = "loop" /\ recovery_ticket(s) # NoTicket =>
      recovery_ticket(s).cursor >= registry[s.id].last

(* Every open returns, whatever the other tasks open, as long as the server  *)
(* task and the client's tasks run.                                          *)
OpensConclude == \A t \in Tasks : []<>(tasks[t] = Idle)
=============================================================================
