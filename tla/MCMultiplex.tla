---------------------------- MODULE MCMultiplex -----------------------------
(***************************************************************************)
(* Instances of Multiplex: one session id that is registered twice, with    *)
(* packets before and after its registrations ("delivery"); and two ids,    *)
(* whose transports may overlap, with a first packet beyond the limit of    *)
(* the pre-registration buffer and a carrier that fails ("failure").        *)
(* And the two drivers of one carrier ("duplex"), joined by a carrier that  *)
(* holds a bounded number of packets in each direction: a driver awaits a   *)
(* write before it does anything else, so that an end that is writing does  *)
(* not read.  What a packet means is left to Multiplex there.  And an       *)
(* instance of SessionRegistry in which one session submits operations and  *)
(* is resumed while time passes ("takeover").  The part is chosen in the    *)
(* initial state; the others rest.                                          *)
(***************************************************************************)
EXTENDS Multiplex

CONSTANTS
  CarrierCapacity,  \* packets a carrier takes in one direction before a write waits
  WritingCallers,   \* tasks of one end that write; each awaits its completion
  MaxLoad           \* bound: packets the callers of one end write

VARIABLES
  part,
  tPolled, tDriver, tSessions, tAwaiting, tPending, tCommands, tEvents, tHandle, tConnection, tArrived, tOpened, tClosed, tCause,
  load,        \* packets the callers of an end write in all
  asked,       \* those they have asked for
  queued,      \* length of the driver's command channel
  writing,     \* whether the driver awaits the carrier's write_packet
  wire,        \* packets on their way from an end
  got,         \* packets an end's driver has read
  registry, serve, owned, transports, handles, closing, listening, tickets, nextToken, now

failureVars ==
  <<tPolled, tDriver, tSessions, tAwaiting, tPending, tCommands, tEvents, tHandle, tConnection, tArrived, tOpened, tClosed, tCause>>
duplexVars == <<load, asked, queued, writing, wire, got>>
takeoverVars ==
  <<registry, serve, owned, transports, handles, closing, listening, tickets, nextToken, now>>
mcVars == <<part, vars, failureVars, duplexVars, takeoverVars>>

Failure == INSTANCE Multiplex
             WITH SessionIds <- {1, 2}, MaxTransports <- 2, MaxArrived <- 1,
                  MaxCommands <- 1, MaxPending <- 0, Overlapping <- TRUE,
                  polled <- tPolled, driver <- tDriver, sessions <- tSessions, awaiting <- tAwaiting, pending <- tPending, commands <- tCommands, events <- tEvents, handle <- tHandle, connection <- tConnection, arrived <- tArrived, opened <- tOpened, closed <- tClosed, cause <- tCause

Takeover == INSTANCE SessionRegistry
              WITH Connections <- {1, 2}, MaxSessionId <- 1, Operations <- {1}, MaxToken <- 3,
                   MaxTime <- 1, ResumeWindow <- 0

-----------------------------------------------------------------------------
(* The drivers of the two ends of one carrier.                               *)

Ends == {"client", "server"}
Peer(e) == CHOOSE f \in Ends : f # e

DuplexInit ==
  /\ asked = [e \in Ends |-> 0]
  /\ queued = [e \in Ends |-> 0]
  /\ writing = [e \in Ends |-> FALSE]
  /\ wire = [e \in Ends |-> 0]
  /\ got = [e \in Ends |-> 0]

InHand(e) == queued[e] + (IF writing[e] THEN 1 ELSE 0)

(* write_packet of a handle: the command is queued and its completion awaited. *)
write_packet(e) ==
  /\ asked[e] < load[e] /\ InHand(e) < WritingCallers
  /\ asked' = [asked EXCEPT ![e] = @ + 1]
  /\ queued' = [queued EXCEPT ![e] = @ + 1]
  /\ UNCHANGED <<load, writing, wire, got>>

(* A Write command is chosen over a read that is still pending, which is dropped. *)
TakeCommand(e) ==
  /\ ~writing[e] /\ queued[e] > 0
  /\ queued' = [queued EXCEPT ![e] = @ - 1]
  /\ writing' = [writing EXCEPT ![e] = TRUE]
  /\ UNCHANGED <<load, asked, wire, got>>

(* The carrier has taken the packet and the caller gets its completion.       *)
FinishWrite(e) ==
  /\ writing[e] /\ wire[e] < CarrierCapacity
  /\ writing' = [writing EXCEPT ![e] = FALSE]
  /\ wire' = [wire EXCEPT ![e] = @ + 1]
  /\ UNCHANGED <<load, asked, queued, got>>

\* Mutant of Incoming: a driver reads once the peer has read what it wrote.
Incoming_AfterOwn(e) ==
  /\ ~writing[e] /\ queued[e] = 0 /\ wire[Peer(e)] > 0 /\ wire[e] = 0
  /\ wire' = [wire EXCEPT ![Peer(e)] = @ - 1]
  /\ got' = [got EXCEPT ![e] = @ + 1]
  /\ UNCHANGED <<load, asked, queued, writing>>

(* select polls the command channel first; the packet then goes to an         *)
(* unbounded channel, so that no reader can hold the driver up.               *)
Incoming(e) ==
  /\ ~writing[e] /\ queued[e] = 0 /\ wire[Peer(e)] > 0
  /\ wire' = [wire EXCEPT ![Peer(e)] = @ - 1]
  /\ got' = [got EXCEPT ![e] = @ + 1]
  /\ UNCHANGED <<load, asked, queued, writing>>

DuplexNext ==
  \E e \in Ends : write_packet(e) \/ TakeCommand(e) \/ FinishWrite(e) \/ Incoming(e)

-----------------------------------------------------------------------------
MCInit ==
  /\ \/ part \in {"delivery", "failure", "takeover"} /\ load = [e \in Ends |-> 0]
     \/ part = "duplex" /\ load \in [Ends -> 0..MaxLoad]
  /\ Init /\ Failure!Init /\ DuplexInit /\ Takeover!Init

MCNext ==
  /\ part' = part
  /\ \/ part = "delivery" /\ Next /\ UNCHANGED <<failureVars, duplexVars, takeoverVars>>
     \/ part = "failure" /\ Failure!Next /\ UNCHANGED <<vars, duplexVars, takeoverVars>>
     \/ part = "duplex" /\ DuplexNext /\ UNCHANGED <<vars, failureVars, takeoverVars>>
     \/ part = "takeover" /\ Takeover!Next /\ UNCHANGED <<vars, failureVars, duplexVars>>

(* run_driver is a task that is polled when it is woken, and select polls the *)
(* command channel first on every turn.                                       *)
Fairness ==
  /\ WF_vars(part = "delivery" /\ DriverCommand)
  /\ WF_failureVars(part = "failure" /\ Failure!DriverCommand)
  /\ \A e \in Ends :
       WF_duplexVars(part = "duplex" /\ (TakeCommand(e) \/ FinishWrite(e) \/ Incoming(e)))

MCSpec == MCInit /\ [][MCNext]_mcVars /\ Fairness

-----------------------------------------------------------------------------
\* Every session of a carrier that failed learns of it as its last event: one
\* session with packets before and after its registrations, and two of which one
\* sent the packet that was the cause, or registers after the failure.
SiblingsLearnOfFailure == FailureIsLast /\ Failure!FailureIsLast

\* Every call of register_session returns.  And as long as one of the two ends
\* never has more packets under way than the carrier takes, every write that
\* either end asked for completes and is read, however much the other end writes.
\* When both exceed it each driver may await its write while its peer does the
\* same, and neither reads again.
DriversMakeProgress ==
  /\ RegistrationCompletes
  /\ (\E e \in Ends : load[e] <= CarrierCapacity) =>
       []<>(\A e \in Ends : asked[e] = got[Peer(e)])

\* However submits, resumes, expiries, closes and disconnects of one session
\* interleave, it does not stay active, and so impossible to resume, after the
\* connection that carried it last is gone.
ResumedSessionsGoInactive == Takeover!ActiveOnLiveConnection
=============================================================================
