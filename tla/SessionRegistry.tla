-------------------------- MODULE SessionRegistry --------------------------
(***************************************************************************)
(* The server's session registry (crates/nnrp-runtime/src/server.rs): the  *)
(* map from session id to RuntimeSessionRecord that every connection of a  *)
(* server shares, and the tasks that write it.                             *)
(*                                                                         *)
(* Each connection is served by a task of its own (serve_connection).  For *)
(* a SESSION_OPEN the task locks the registry to decide on a session id    *)
(* and unlocks it; it registers the id with the connection's multiplexer   *)
(* and writes the SESSION_OPEN_ACK, which are two awaits; then it locks    *)
(* the registry again to insert the record.  The variable serve holds the  *)
(* task's place between those steps and the values it carries across them. *)
(* The accepted session is handed to the application as a handle, which    *)
(* submits, closes or is dropped at any time, also after its connection    *)
(* ended: packets that were read before the failure are still queued.      *)
(*                                                                         *)
(* A connection is identified by its nonce.  A session id that is not a    *)
(* key of the map has the record NoRecord, whose nonce is 0.  Tokens are   *)
(* numbered in the order in which getrandom produced them; no two are      *)
(* equal.  Bounds: MaxSessionId stands for u32::MAX, MaxTime for the end   *)
(* of the clock, MaxToken for the number of sessions that are accepted     *)
(* with resume enabled.                                                    *)
(***************************************************************************)
EXTENDS Naturals

CONSTANTS
    Connections,     \* the nonces of the connections that are accepted
    MaxSessionId,    \* the largest session id
    Operations,      \* operation ids of submits
    MaxToken,        \* bound on resume tokens
    MaxTime,         \* bound on the clock
    ResumeWindow     \* config.resume_window_ms

ASSUME ConnectionsAssumption == Connections \subseteq Nat \ {0}

ASSUME BoundsAssumption ==
    /\ MaxSessionId \in Nat
    /\ Operations \subseteq Nat
    /\ MaxToken \in Nat
    /\ MaxTime \in Nat
    /\ ResumeWindow \in Nat

VARIABLES
    registry,     \* the shared map
    serve,        \* the task of each connection
    owned,        \* connection_session_ids of each task
    transports,   \* the ids registered with the multiplexer of each connection
    handles,      \* the NnrpServerSession values that exist: <<connection, id>>
    closing,      \* the handles whose close has removed the record and not yet unregistered
    listening,    \* the NnrpServer that receives accepted sessions exists
    tickets,      \* <<id, token>> pairs that an ack was written for
    nextToken,    \* the token the next accepted session gets
    now           \* the last reading of the clock

vars == <<registry, serve, owned, transports, handles, closing, listening, tickets, nextToken, now>>

RegistryIds == 1..MaxSessionId

Records ==
    [resumeEnabled : BOOLEAN, token : Nat, expires : Nat,
     lastOperation : Nat, active : BOOLEAN, nonce : Connections \cup {0}]

NoRecord ==
    [resumeEnabled |-> FALSE, token |-> 0, expires |-> 0,
     lastOperation |-> 0, active |-> FALSE, nonce |-> 0]

Places == {"new", "serving", "decided", "registered", "acked", "ended"}

\* A place of serve_connection, and what accept_connection_session remembers of
\* its decision: the id, the fresh token, the time at which it read the clock,
\* the last operation of the session it resumes, and the token the client
\* presented (0 for a session that is opened).
Tasks ==
    [at : Places, id : 0..MaxSessionId, resumeEnabled : BOOLEAN, token : Nat,
     decidedAt : Nat, prior : Nat, presented : Nat]

Idle(place) ==
    [at |-> place, id |-> 0, resumeEnabled |-> FALSE, token |-> 0,
     decidedAt |-> 0, prior |-> 0, presented |-> 0]

Init ==
    /\ registry = [i \in RegistryIds |-> NoRecord]
    /\ serve = [c \in Connections |-> Idle("new")]
    /\ owned = [c \in Connections |-> {}]
    /\ transports = [c \in Connections |-> {}]
    /\ handles = {}
    /\ closing = {}
    /\ listening = TRUE
    /\ tickets = {}
    /\ nextToken = 1
    /\ now = 0

-----------------------------------------------------------------------------

\* perform_server_hello succeeds; when it fails the task ends.
Hello(c) ==
    /\ serve[c].at = "new"
    /\ serve' = [serve EXCEPT ![c] = Idle("serving")]
    /\ UNCHANGED <<registry, owned, transports, handles, closing, listening, tickets, nextToken, now>>

\* registry.retain at the head of the decision.
Retained(clock) ==
    [i \in RegistryIds |->
       IF registry[i].active \/ registry[i].expires >= clock THEN registry[i] ELSE NoRecord]

\* first_available_session_id returns the smallest id that is not a key, or
\* nothing (0) when every id is one.
FirstAvailable(records, id) ==
    \/ /\ id = 0
       /\ \A i \in RegistryIds : records[i].nonce # 0
    \/ /\ id \in RegistryIds
       /\ records[id].nonce = 0
       /\ \A i \in RegistryIds : records[i].nonce = 0 => id <= i

\* Mutant of MayResume: the token is compared, its session is not.
MayResume_AnySession(records, requested, token, clock) ==
    /\ requested # 0
    /\ \E i \in RegistryIds : /\ records[i].resumeEnabled
                             /\ ~records[i].active
                             /\ records[i].expires >= clock
                             /\ records[i].token = token

MayResume(records, requested, token, clock) ==
    /\ requested # 0
    /\ records[requested].resumeEnabled
    /\ ~records[requested].active
    /\ records[requested].expires >= clock
    /\ records[requested].token = token

\* The first locked section settles on this id; 0 is a refusal.  A token of 0
\* stands for a SESSION_OPEN without one.
Decides(records, requested, token, id, clock) ==
    IF token # 0
    THEN id = IF MayResume(records, requested, token, clock) THEN requested ELSE 0
    ELSE IF requested = 0
         THEN FirstAvailable(records, id)
         ELSE id = IF records[requested].nonce = 0 THEN requested ELSE 0

\* A SESSION_OPEN arrives that the policy accepts: the clock is read (now is its
\* last reading), the registry is locked, purged of what expired, and an id is
\* chosen.  validate_session_recovery_request ends the task for a token without
\* the ALLOW_RESUME flag or without an id (ServeFails).
AcceptOpen(c, requested, token, allowResume, id, clock) ==
    /\ serve[c].at = "serving"
    /\ token # 0 => allowResume /\ requested # 0
    /\ Decides(Retained(clock), requested, token, id, clock)
    /\ allowResume => nextToken <= MaxToken
    /\ registry' = Retained(clock)
    /\ serve' = [serve EXCEPT ![c] =
                   [at |-> "decided", id |-> id, resumeEnabled |-> allowResume,
                    token |-> IF allowResume THEN nextToken ELSE 0,
                    decidedAt |-> clock,
                    prior |-> IF token # 0 THEN Retained(clock)[id].lastOperation ELSE 0,
                    presented |-> token]]
    /\ nextToken' = IF allowResume THEN nextToken + 1 ELSE nextToken
    /\ now' = clock
    /\ UNCHANGED <<owned, transports, handles, closing, listening, tickets>>

\* An open that the policy refuses, or for which there is no id, is answered with
\* a rejecting ack and the task goes on serving.  The registry has been purged
\* all the same.  The policy may refuse every open.
RefuseOpen(c, clock) ==
    /\ serve[c].at = "serving"
    /\ registry' = Retained(clock)
    /\ now' = clock
    /\ UNCHANGED <<serve, owned, transports, handles, closing, listening, tickets, nextToken>>

\* connection.register_session(id).await
RegisterTransport(c) ==
    /\ serve[c].at = "decided"
    /\ serve[c].id \notin transports[c]
    /\ transports' = [transports EXCEPT ![c] = @ \cup {serve[c].id}]
    /\ serve' = [serve EXCEPT ![c].at = "registered"]
    /\ UNCHANGED <<registry, owned, handles, closing, listening, tickets, nextToken, now>>

\* connection.write_packet(ack).await
WriteAck(c) ==
    /\ serve[c].at = "registered"
    /\ tickets' = IF serve[c].resumeEnabled
                  THEN tickets \cup {<<serve[c].id, serve[c].token>>} ELSE tickets
    /\ serve' = [serve EXCEPT ![c].at = "acked"]
    /\ UNCHANGED <<registry, owned, transports, handles, closing, listening, nextToken, now>>

-----------------------------------------------------------------------------

\* What an inactive session leaves in the map: its record when it can be
\* resumed, nothing otherwise.
Deactivated(record) ==
    IF record.resumeEnabled THEN [record EXCEPT !.active = FALSE] ELSE NoRecord

\* mark_connection_sessions_inactive and mark_session_inactive.
InactiveSessions(records, c, ids) ==
    [i \in RegistryIds |->
       IF i \in ids /\ records[i].nonce = c THEN Deactivated(records[i]) ELSE records[i]]

NewRecord(c) ==
    [resumeEnabled |-> serve[c].resumeEnabled,
     token |-> serve[c].token,
     expires |-> serve[c].decidedAt + ResumeWindow,
     lastOperation |-> serve[c].prior,
     active |-> TRUE,
     nonce |-> c]

\* Mutant of OwnedAfterInsert: connection_session_ids is not extended.
OwnedAfterInsert_Forgotten(c) == owned

\* The ids that serve_connection remembers once the session is accepted.
OwnedAfterInsert(c) == [owned EXCEPT ![c] = @ \cup {serve[c].id}]

\* The second locked section, and the hand-over to the application.
InsertRecord(c) ==
    /\ serve[c].at = "acked"
    /\ listening
    /\ registry' = [registry EXCEPT ![serve[c].id] = NewRecord(c)]
    /\ handles' = handles \cup {<<c, serve[c].id>>}
    /\ owned' = OwnedAfterInsert(c)
    /\ serve' = [serve EXCEPT ![c] = Idle("serving")]
    /\ UNCHANGED <<transports, closing, listening, tickets, nextToken, now>>

\* The task and the multiplexer's driver end, and their local state with them.
TaskEnds(c) ==
    /\ serve' = [serve EXCEPT ![c] = Idle("ended")]
    /\ owned' = [owned EXCEPT ![c] = {}]
    /\ transports' = [transports EXCEPT ![c] = {}]

\* The second locked section when nobody receives accepted sessions any more:
\* the session is dropped, its record marked inactive, and the task ends.
InsertRefused(c) ==
    LET inserted == [registry EXCEPT ![serve[c].id] = NewRecord(c)]
        marked == InactiveSessions(inserted, c, {serve[c].id})
    IN  /\ serve[c].at = "acked"
        /\ ~listening
        /\ registry' = InactiveSessions(marked, c, owned[c])
        /\ TaskEnds(c)
        /\ UNCHANGED <<handles, closing, listening, tickets, nextToken, now>>

\* The task ends while it serves or in one of the two awaits of an open: the
\* carrier failed, a packet was not a SESSION_OPEN or was malformed, or the id is
\* registered with the multiplexer already.
ServeFails(c) ==
    /\ serve[c].at \in {"new", "serving", "decided", "registered"}
    /\ registry' = InactiveSessions(registry, c, owned[c])
    /\ TaskEnds(c)
    /\ UNCHANGED <<handles, closing, listening, tickets, nextToken, now>>

-----------------------------------------------------------------------------

\* update_registry_last_operation, for a submit that a handle reads.  The nonce
\* of the record is not compared.
Submit(c, i, operation) ==
    /\ <<c, i>> \in handles
    /\ registry[i].nonce # 0
    /\ operation > registry[i].lastOperation
    /\ registry' = [registry EXCEPT ![i].lastOperation = operation]
    /\ UNCHANGED <<serve, owned, transports, handles, closing, listening, tickets, nextToken, now>>

\* Mutant of RemovedFromRegistry: the nonce of the record is not compared.
RemovedFromRegistry_AnyNonce(c, i) == [registry EXCEPT ![i] = NoRecord]

\* remove_from_registry
RemovedFromRegistry(c, i) ==
    IF registry[i].nonce = c THEN [registry EXCEPT ![i] = NoRecord] ELSE registry

\* NnrpServerSession::close_in_place up to remove_from_registry, which frees the
\* id.
CloseHandle(c, i) ==
    /\ <<c, i>> \in handles
    /\ registry' = RemovedFromRegistry(c, i)
    /\ handles' = handles \ {<<c, i>>}
    /\ closing' = closing \cup {<<c, i>>}
    /\ UNCHANGED <<serve, owned, transports, listening, tickets, nextToken, now>>

\* Its last statement, transport.close, which unregisters the transport.
UnregisterClosed(c, i) ==
    /\ <<c, i>> \in closing
    /\ closing' = closing \ {<<c, i>>}
    /\ transports' = [transports EXCEPT ![c] = @ \ {i}]
    /\ UNCHANGED <<registry, serve, owned, handles, listening, tickets, nextToken, now>>

\* The handle is dropped, or its close fails because the ack cannot be written:
\* the transport is unregistered and the record stays.
DropHandle(c, i) ==
    /\ <<c, i>> \in handles
    /\ handles' = handles \ {<<c, i>>}
    /\ transports' = [transports EXCEPT ![c] = @ \ {i}]
    /\ UNCHANGED <<registry, serve, owned, closing, listening, tickets, nextToken, now>>

\* The NnrpServer is dropped; the tasks of its connections go on.
StopListening ==
    /\ listening
    /\ listening' = FALSE
    /\ UNCHANGED <<registry, serve, owned, transports, handles, closing, tickets, nextToken, now>>

ServeNext(c) ==
    \/ Hello(c)
    \/ \E requested \in 0..MaxSessionId, id \in RegistryIds, token \in 0..MaxToken,
          allowResume \in BOOLEAN, clock \in now..MaxTime :
          AcceptOpen(c, requested, token, allowResume, id, clock)
    \/ \E clock \in now..MaxTime : RefuseOpen(c, clock)
    \/ RegisterTransport(c)
    \/ WriteAck(c)
    \/ InsertRecord(c)
    \/ InsertRefused(c)
    \/ ServeFails(c)

HandleNext(c, i) ==
    \/ \E operation \in Operations : Submit(c, i, operation)
    \/ CloseHandle(c, i)
    \/ UnregisterClosed(c, i)
    \/ DropHandle(c, i)

Next ==
    \/ \E c \in Connections : ServeNext(c)
    \/ \E c \in Connections, i \in RegistryIds : HandleNext(c, i)
    \/ StopListening

Spec == Init /\ [][Next]_vars

-----------------------------------------------------------------------------

\* The shape of the state: a record has the nonce of the connection that
\* inserted it, and an id without a record has no trace of an earlier one.
TypeOK ==
    /\ registry \in [RegistryIds -> Records]
    /\ serve \in [Connections -> Tasks]
    /\ owned \in [Connections -> SUBSET RegistryIds]
    /\ transports \in [Connections -> SUBSET RegistryIds]
    /\ handles \subseteq Connections \X RegistryIds
    /\ closing \subseteq Connections \X RegistryIds
    /\ listening \in BOOLEAN
    /\ tickets \subseteq RegistryIds \X Nat
    /\ nextToken \in Nat \ {0}
    /\ now \in Nat
    /\ \A i \in RegistryIds : registry[i].nonce = 0 => registry[i] = NoRecord

\* A record is active only while the task of the connection that inserted it
\* runs: however opens, resumes, overwrites and disconnects interleave, no
\* session stays active, and so impossible to resume and to reclaim, after its
\* connection is gone (serve_connection's last statements).
ActiveOnLiveConnection ==
    \A i \in RegistryIds : registry[i].active => serve[registry[i].nonce].at # "ended"

\* Resume tokens are session-bound: a session is resumed only by a token that an
\* earlier ack carried for the same session id (accept_connection_session).
TokensAreSessionBound ==
    \A c \in Connections :
        serve[c].presented # 0 => <<serve[c].id, serve[c].presented>> \in tickets

\* A task inserts its record for this id in the step.
InsertedNow(i) ==
    \E c \in Connections : serve[c].at = "acked" /\ serve[c].id = i /\ serve'[c].at # "acked"

\* One connection's end is not another session's end: a record that is active
\* becomes inactive or goes away only when the task of its own connection ends or
\* its own handle is closed, unless an insert takes the id over.  The map is
\* shared and the ids are reused, so every teardown that runs late meets records
\* of newer connections.
TeardownIsOwn ==
    [][\A i \in RegistryIds :
          (/\ registry[i].active
           /\ ~registry'[i].active)
          => \/ /\ serve[registry[i].nonce].at # "ended"
                /\ serve'[registry[i].nonce].at = "ended"
             \/ /\ <<registry[i].nonce, i>> \in handles
                /\ <<registry[i].nonce, i>> \notin handles'
             \/ InsertedNow(i)]_vars

\* Two accepted sessions on carriers that are up have different ids, and so a
\* record each (tests/tcp_loopback.rs, one_carrier_multiplexes_multiple_
\* independent_sessions).
AcceptedSessionsAreDistinct ==
    \A c, d \in Connections, i \in RegistryIds :
        (/\ <<c, i>> \in handles /\ serve[c].at # "ended"
         /\ <<d, i>> \in handles /\ serve[d].at # "ended")
        => c = d

=============================================================================
