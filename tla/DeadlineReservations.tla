------------------------ MODULE DeadlineReservations ------------------------
(***************************************************************************)
(* Deadlines that are sent before the submission they are for              *)
(* (crates/nnrp-runtime/src/pre_submit.rs), with the submit and scheduling *)
(* paths of the two sessions that use them (client.rs, server.rs).         *)
(*                                                                         *)
(* A client may send a DEADLINE for an operation it has not submitted yet. *)
(* Each end then holds a reservation (PreSubmitDeadlineReservations) until *)
(* the FRAME_SUBMIT arrives.  The two ends have a table each, a clock each *)
(* and a limit each: the client's limit is the server's configured one     *)
(* from SESSION_OPEN_ACK, the server's limit is the one the client asked   *)
(* for in SESSION_OPEN, which the server's policy has found no larger.     *)
(*                                                                         *)
(* A call that returns an error and changes nothing is a stuttering step.  *)
(* At the server every packet is consumed, whether it is then refused or   *)
(* not.  Operation ids are the non-zero ones, frame ids are 1..MaxFrame    *)
(* with MaxFrame standing for u32::MAX, the last id the type can hold.     *)
(***************************************************************************)
EXTENDS Naturals, Sequences, FiniteSets

CONSTANTS
    Operations,     \* operation ids
    MaxFrame,       \* the largest frame id
    Instants,       \* deadlines
    MaxTime,        \* bound on the clocks
    MaxWire,        \* bound on packets under way in one direction
    ClientLimit,    \* max_in_flight_operations of SESSION_OPEN_ACK
    ServerLimit,    \* max_in_flight_operations of SESSION_OPEN
    None            \* an absent map entry

ASSUME LimitsAssumption ==
    /\ MaxFrame \in Nat \ {0} /\ MaxTime \in Nat /\ MaxWire \in Nat
    /\ ClientLimit \in Nat /\ ServerLimit \in 1..ClientLimit
    /\ IsFiniteSet(Operations)

ASSUME ValuesAssumption ==
    /\ Instants \subseteq Nat
    /\ None \notin Operations /\ None \notin Nat
    /\ None \notin [frame : 1..MaxFrame, deadline : Instants]

VARIABLES
    clock,        \* current_unix_ms at each end
    table,        \* PreSubmitDeadlineReservations of each end
    nextFrame,    \* NnrpClientSession.next_frame_id
    seen,         \* NnrpClientSession.seen_operation_ids
    submitted,    \* NnrpClientSession.operation_frames
    toServer,     \* packets from the client, in order
    toClient,     \* frame ids of the results from the server, in order
    broken,       \* writes fail
    registered,   \* NnrpServerSession.operation_frames
    done,         \* operations the server has completed
    deadline,     \* deadline_unix_ms in the server's operation registry
    promised,     \* history: the last deadline the client wrote for an operation
    spoiled       \* history: operations whose reservation one end has refused or dropped

clientVars == <<nextFrame, seen, submitted>>
serverVars == <<registered, done, deadline>>
vars == <<clock, table, clientVars, toServer, toClient, broken, serverVars, promised, spoiled>>

-----------------------------------------------------------------------------

Ends == {"client", "server"}
Frames == 1..MaxFrame
Reservations == [frame : Frames, deadline : Instants]

Tables ==
    [byOperation : [Operations -> Reservations \cup {None}],
     byFrame : [Frames -> Operations \cup {None}]]

Empty == [byOperation |-> [o \in Operations |-> None], byFrame |-> [f \in Frames |-> None]]

Limit(e) == IF e = "client" THEN ClientLimit ELSE ServerLimit

Held(t) == {o \in Operations : t.byOperation[o] # None}

\* reject_expired returns an error.
Expired(t, now) == \E o \in Held(t) : t.byOperation[o].deadline <= now

\* The checks of reserve.
CanReserve(t, limit, f, o, d, now) ==
    /\ ~Expired(t, now)
    /\ d > now
    /\ o \notin Held(t) /\ t.byFrame[f] = None
    /\ Cardinality(Held(t)) < limit

\* The insertions of reserve.
Reserved(t, f, o, d) ==
    [byOperation |-> [t.byOperation EXCEPT ![o] = [frame |-> f, deadline |-> d]],
     byFrame |-> [t.byFrame EXCEPT ![f] = o]]

RemoveOperation(t, o) ==
    [byOperation |-> [t.byOperation EXCEPT ![o] = None],
     byFrame |-> [f \in Frames |->
                    IF o \in Held(t) /\ f = t.byOperation[o].frame THEN None ELSE t.byFrame[f]]]

\* take_for_submit finds no reservation for either id, or one for both.
SubmitMatches(t, o, f) ==
    IF o \in Held(t) THEN t.byOperation[o].frame = f ELSE t.byFrame[f] = None

\* What take_for_submit leaves: the operation's reservation is gone, or else
\* the one that holds the frame, whether the two ids match or not.
Taken(t, o, f) ==
    IF o \in Held(t) THEN RemoveOperation(t, o)
    ELSE IF t.byFrame[f] # None THEN RemoveOperation(t, t.byFrame[f])
    ELSE t

-----------------------------------------------------------------------------

DeadlinePacket(o, f, d) == [type |-> "DEADLINE", operation |-> o, frame |-> f, deadline |-> d]
SubmitPacket(o, f) == [type |-> "FRAME_SUBMIT", operation |-> o, frame |-> f, deadline |-> None]

Packets ==
    [type : {"DEADLINE"}, operation : Operations, frame : Frames, deadline : Instants]
    \cup [type : {"FRAME_SUBMIT"}, operation : Operations, frame : Frames, deadline : {None}]

Init ==
    /\ clock = [e \in Ends |-> 0]
    /\ table = [e \in Ends |-> Empty]
    /\ nextFrame = 1
    /\ seen = {}
    /\ submitted = [o \in Operations |-> None]
    /\ toServer = << >>
    /\ toClient = << >>
    /\ broken = FALSE
    /\ registered = [o \in Operations |-> None]
    /\ done = {}
    /\ deadline = [o \in Operations |-> None]
    /\ promised = [o \in Operations |-> None]
    /\ spoiled = {}

Tick(e) ==
    /\ clock[e] < MaxTime
    /\ clock' = [clock EXCEPT ![e] = @ + 1]
    /\ UNCHANGED <<table, clientVars, toServer, toClient, broken, serverVars, promised, spoiled>>

\* The carrier fails: every later write returns an error.
Break ==
    /\ ~broken
    /\ broken' = TRUE
    /\ UNCHANGED <<clock, table, clientVars, toServer, toClient, serverVars, promised, spoiled>>

\* send_scheduling_update_for_frame with a DEADLINE of a submitted operation.
SendDeadlineUpdate(o, d) ==
    /\ submitted[o] # None
    /\ ~broken
    /\ Len(toServer) < MaxWire
    /\ toServer' = Append(toServer, DeadlinePacket(o, submitted[o], d))
    /\ promised' = [promised EXCEPT ![o] = d]
    /\ UNCHANGED <<clock, table, clientVars, toClient, broken, serverVars, spoiled>>

\* Mutant of SendReservation: nothing is held at this end.
SendReservation_NotHeld(o, f, d) ==
    /\ submitted[o] = None
    /\ f >= nextFrame
    /\ o \notin seen
    /\ CanReserve(table["client"], ClientLimit, f, o, d, clock["client"])
    /\ ~broken /\ Len(toServer) < MaxWire
    /\ toServer' = Append(toServer, DeadlinePacket(o, f, d))
    /\ promised' = [promised EXCEPT ![o] = d]
    /\ UNCHANGED <<clock, table, clientVars, toClient, broken, serverVars, spoiled>>

\* send_scheduling_update_for_frame with a DEADLINE of an operation that is not
\* submitted yet.  A write that fails discards the reservation again, which
\* leaves everything as it was.
SendReservation(o, f, d) ==
    /\ submitted[o] = None
    /\ f >= nextFrame
    /\ o \notin seen
    /\ CanReserve(table["client"], ClientLimit, f, o, d, clock["client"])
    /\ ~broken /\ Len(toServer) < MaxWire
    /\ table' = [table EXCEPT !["client"] = Reserved(@, f, o, d)]
    /\ toServer' = Append(toServer, DeadlinePacket(o, f, d))
    /\ promised' = [promised EXCEPT ![o] = d]
    /\ UNCHANGED <<clock, clientVars, toClient, broken, serverVars, spoiled>>

\* The checks of submit_nowait before take_for_submit, and reject_expired.
CanSubmit(o, f) ==
    /\ f >= nextFrame
    /\ o \notin seen
    /\ f < MaxFrame
    /\ ~Expired(table["client"], clock["client"])

\* submit_nowait, and the packet is written.
Submit(o, f) ==
    /\ CanSubmit(o, f)
    /\ SubmitMatches(table["client"], o, f)
    /\ ~broken /\ Len(toServer) < MaxWire
    /\ table' = [table EXCEPT !["client"] = Taken(@, o, f)]
    /\ toServer' = Append(toServer, SubmitPacket(o, f))
    /\ nextFrame' = f + 1
    /\ seen' = seen \cup {o}
    /\ submitted' = [submitted EXCEPT ![o] = f]
    /\ UNCHANGED <<clock, toClient, broken, serverVars, promised, spoiled>>

\* submit_nowait, and an error is returned after take_for_submit: the ids do
\* not match a reservation, or the write fails.  The reservation is gone.
SubmitFails(o, f) ==
    /\ CanSubmit(o, f)
    /\ ~SubmitMatches(table["client"], o, f) \/ broken
    /\ table' = [table EXCEPT !["client"] = Taken(@, o, f)]
    /\ spoiled' = spoiled \cup (Held(table["client"]) \ Held(table'["client"]))
    /\ UNCHANGED <<clock, clientVars, toServer, toClient, broken, serverVars, promised>>

\* complete_operation_by_frame when a RESULT_PUSH is read.
ClientReadsResult ==
    /\ toClient # << >>
    /\ submitted' = [o \in Operations |-> IF submitted[o] = Head(toClient) THEN None ELSE submitted[o]]
    /\ toClient' = Tail(toClient)
    /\ UNCHANGED <<clock, table, nextFrame, seen, toServer, broken, serverVars, promised, spoiled>>

-----------------------------------------------------------------------------

FrameInUse(f) == \E o \in Operations : registered[o] = f

\* decode_server_event for a DEADLINE: it updates a registered operation that
\* is not terminal, or reserves a frame that no operation uses.
ServerReadsDeadline ==
    LET p == Head(toServer)
        o == p.operation
        now == clock["server"]
        updates == registered[o] = p.frame /\ o \notin done /\ ~Expired(table["server"], now)
        reserves == /\ registered[o] = None /\ ~FrameInUse(p.frame)
                    /\ CanReserve(table["server"], ServerLimit, p.frame, o, p.deadline, now)
    IN /\ toServer # << >>
       /\ p.type = "DEADLINE"
       /\ deadline' = IF updates THEN [deadline EXCEPT ![o] = p.deadline] ELSE deadline
       /\ table' = IF reserves
                     THEN [table EXCEPT !["server"] = Reserved(@, p.frame, o, p.deadline)]
                     ELSE table
       /\ spoiled' = IF updates \/ reserves THEN spoiled ELSE spoiled \cup {o}
       /\ toServer' = Tail(toServer)
       /\ UNCHANGED <<clock, clientVars, toClient, broken, registered, done, promised>>

\* The server takes the submission at the head of the channel.
AcceptsSubmit(o, f) ==
    /\ ~Expired(table["server"], clock["server"])
    /\ ~FrameInUse(f)
    /\ SubmitMatches(table["server"], o, f)
    /\ registered[o] = None

\* Mutant of ServerReadsSubmit: the reserved deadline is dropped.
ServerReadsSubmit_NoDeadline ==
    LET p == Head(toServer)
        o == p.operation
    IN /\ toServer # << >>
       /\ p.type = "FRAME_SUBMIT"
       /\ AcceptsSubmit(o, p.frame)
       /\ table' = [table EXCEPT !["server"] = Taken(@, o, p.frame)]
       /\ registered' = [registered EXCEPT ![o] = p.frame]
       /\ toServer' = Tail(toServer)
       /\ UNCHANGED <<clock, clientVars, toClient, broken, done, deadline, promised, spoiled>>

\* handle_frame_submit_packet, and the operation is registered, with the
\* deadline that was reserved for it.
ServerReadsSubmit ==
    LET p == Head(toServer)
        o == p.operation
        t == table["server"]
    IN /\ toServer # << >>
       /\ p.type = "FRAME_SUBMIT"
       /\ AcceptsSubmit(o, p.frame)
       /\ table' = [table EXCEPT !["server"] = Taken(@, o, p.frame)]
       /\ registered' = [registered EXCEPT ![o] = p.frame]
       /\ deadline' = [deadline EXCEPT ![o] = IF o \in Held(t) THEN t.byOperation[o].deadline ELSE @]
       /\ toServer' = Tail(toServer)
       /\ UNCHANGED <<clock, clientVars, toClient, broken, done, promised, spoiled>>

\* handle_frame_submit_packet, and an error is returned: by reject_expired or
\* for a frame in use, before the table is touched, or by or after
\* take_for_submit, which has removed the reservation.
ServerRefusesSubmit ==
    LET p == Head(toServer)
        o == p.operation
        untouched == Expired(table["server"], clock["server"]) \/ FrameInUse(p.frame)
    IN /\ toServer # << >>
       /\ p.type = "FRAME_SUBMIT"
       /\ ~AcceptsSubmit(o, p.frame)
       /\ table' = IF untouched THEN table
                   ELSE [table EXCEPT !["server"] = Taken(@, o, p.frame)]
       /\ spoiled' = spoiled \cup (Held(table["server"]) \ Held(table'["server"]))
       /\ toServer' = Tail(toServer)
       /\ UNCHANGED <<clock, clientVars, toClient, broken, serverVars, promised>>

\* send_operation_result_for_binding.  A deadline does not make an operation
\* stale: only an EXPIRE_AT does, which the clients of this model do not send.
Complete(o) ==
    /\ registered[o] # None /\ o \notin done
    /\ ~broken /\ Len(toClient) < MaxWire
    /\ done' = done \cup {o}
    /\ toClient' = Append(toClient, registered[o])
    /\ UNCHANGED <<clock, table, clientVars, toServer, broken, registered, deadline, promised, spoiled>>

-----------------------------------------------------------------------------

ClientNext ==
    \/ \E o \in Operations, d \in Instants : SendDeadlineUpdate(o, d)
    \/ \E o \in Operations, f \in Frames, d \in Instants : SendReservation(o, f, d)
    \/ \E o \in Operations, f \in Frames : Submit(o, f)
    \/ \E o \in Operations, f \in Frames : SubmitFails(o, f)
    \/ ClientReadsResult

ServerNext ==
    \/ ServerReadsDeadline
    \/ ServerReadsSubmit
    \/ ServerRefusesSubmit
    \/ \E o \in Operations : Complete(o)

Next ==
    \/ \E e \in Ends : Tick(e)
    \/ Break
    \/ ClientNext
    \/ ServerNext

Spec == Init /\ [][Next]_vars

-----------------------------------------------------------------------------

\* Every variable has its type: in particular next_frame_id never passes the
\* last frame id (the checked_add of submit_nowait).
TypeOK ==
    /\ clock \in [Ends -> 0..MaxTime]
    /\ table \in [Ends -> Tables]
    /\ nextFrame \in Frames
    /\ seen \subseteq Operations
    /\ submitted \in [Operations -> Frames \cup {None}]
    /\ toServer \in Seq(Packets)
    /\ toClient \in Seq(Frames)
    /\ broken \in BOOLEAN
    /\ registered \in [Operations -> Frames \cup {None}]
    /\ done \subseteq Operations
    /\ deadline \in [Operations -> Instants \cup {None}]
    /\ promised \in [Operations -> Instants \cup {None}]
    /\ spoiled \subseteq Operations

Mirror(t) ==
    \A o \in Operations, f \in Frames :
        (t.byFrame[f] = o) <=> (o \in Held(t) /\ t.byOperation[o].frame = f)

\* by_operation and by_frame are inverses of each other at each end: a frame
\* that is left in by_frame by a removal could never be reserved or submitted
\* again.
MapsMirror == \A e \in Ends : Mirror(table[e])

\* Neither end holds more reservations than max_in_flight_operations.
WithinLimit == \A e \in Ends : Cardinality(Held(table[e])) <= Limit(e)

\* Nothing that concerns the operation is under way to the server.
Settled(o) == \A i \in 1..Len(toServer) : toServer[i].operation # o

\* The server runs an operation under the last deadline the client wrote for
\* it, sent before the submission or after it, unless one end has refused a
\* DEADLINE of the operation or dropped its reservation with an error.
DeadlineReachesOperation ==
    \A o \in Operations :
        registered[o] # None /\ o \notin done /\ o \notin spoiled /\ Settled(o)
            => deadline[o] = promised[o]

\* While no reservation has been refused or dropped, the server takes every
\* submission the client wrote, except when one of its own reservations has
\* expired: the two tables never disagree on their own.
SubmissionsAreTaken ==
    toServer # << >> /\ Head(toServer).type = "FRAME_SUBMIT" /\ spoiled = {}
        => \/ Expired(table["server"], clock["server"])
           \/ AcceptsSubmit(Head(toServer).operation, Head(toServer).frame)

\* No two submissions share an operation or a frame, on the way or registered:
\* the server's checks for a reused frame id and operation id never fire on
\* what this client writes.
NoDuplicateSubmission ==
    \A i \in 1..Len(toServer) :
        toServer[i].type = "FRAME_SUBMIT" =>
            /\ registered[toServer[i].operation] = None
            /\ ~FrameInUse(toServer[i].frame)
            /\ \A j \in 1..Len(toServer) :
                 toServer[j].type = "FRAME_SUBMIT" /\ j # i =>
                     /\ toServer[j].operation # toServer[i].operation
                     /\ toServer[j].frame # toServer[i].frame

\* reject_expired is for good: an end with an expired reservation never again
\* reserves, submits or registers anything, and never drops the reservation
\* ("expired_reservations_reject_following_traffic").
ExpiryIsFinal ==
    [][\A e \in Ends : Expired(table[e], clock[e]) =>
         /\ table'[e] = table[e]
         /\ e = "client" => seen' = seen
         /\ e = "server" => registered' = registered]_vars
=============================================================================
