----------------------------- MODULE MCSessions -----------------------------
(***************************************************************************)
(* Instances of the session modules.  DeadlineReservations ("deadlines").  *)
(* Each role alone, with two operations ("clientIndexes", "serverIndexes") *)
(* and with one operation and every message type ("clientMessages",        *)
(* "serverMessages").  Both roles joined by a carrier: operations that     *)
(* both ends end ("crossing"), every message of either end ("messages",    *)
(* "answers"), windows and levels ("pressure"), a close and a carrier that *)
(* fails ("closing"), and the end of every submission ("concluding").      *)
(* The part is chosen in the initial state; the others rest.               *)
(***************************************************************************)
EXTENDS DeadlineReservations, TLC

CONSTANT Parts    \* the parts of a run

VARIABLES
  part,
  client, server, call,
  clientTold, clientRefused, lost, serverTold, acks, serverRefused,
  wireToServer, wireToClient, up, told, refusal, failed, acked

clientRoleVars == <<client, call, clientTold, clientRefused>>
serverRoleVars == <<server, lost, serverTold, acks, serverRefused>>
exchangeVars ==
  <<client, server, wireToServer, wireToClient, up, call, told, refusal, failed, acked>>
onlyExchangeVars == <<wireToServer, wireToClient, up, told, refusal, failed, acked>>
mcVars == <<part, vars, clientRoleVars, serverRoleVars, onlyExchangeVars>>

-----------------------------------------------------------------------------
Peers == INSTANCE SessionPackets

IndexOperations == {1, 2}
IndexServersPackets ==
  Peers!FromServer({"ResultPush", "Cancel", "Supersede"}, IndexOperations, 0..3)
IndexLoopPackets == Peers!OfTypes(IndexServersPackets, {"ResultPush", "Cancel"})
IndexClientsPackets ==
  Peers!FromClient({"FrameSubmit", "FrameCancel", "Cancel", "Progress", "Supersede"},
                     IndexOperations, 0..2, {})

Indexes ==
  INSTANCE SessionRoles
    WITH Operations <- IndexOperations, MaxFrame <- 3, MaxServerFrame <- 2,
         ClientLimit <- 1, ServerLimit <- 1, CacheLimit <- 1,
         ServersPackets <- IndexServersPackets, LoopPackets <- IndexLoopPackets,
         ClientCallTypes <- {"Supersede"},
         ClientsPackets <- IndexClientsPackets, SelectPackets <- IndexClientsPackets,
         RoleCallTypes <- {},
         ServerCallTypes <- {"ResultPush", "ResultDropReason", "Cancel", "Supersede"},
         Selective <- FALSE

PressureTypes == {"Backpressure", "CreditUpdate"}

\* One or two of each class of types that the sessions treat alike.
SharedTypes ==
  {"PartialResult", "Progress", "ResultDropReason", "Cancel", "Abort", "Deadline", "ExpireAt",
   "Supersede", "BudgetUpdate", "FlowUpdate", "Backpressure", "CreditUpdate",
   "CapabilityNegotiation", "CacheMiss", "RouteHint", "TraceContext", "ObjectRef", "ObjectRelease"}

RoleTypes ==
  {"Progress", "ResultDropReason", "Cancel", "ExpireAt", "Supersede", "Backpressure",
   "CapabilityNegotiation", "ObjectRef"}

MessageServersPackets ==
  Peers!FromServer(RoleTypes \cup {"ResultPush", "PartialResult", "SessionCloseAck", "SessionPatchAck",
                                     "CachePut"},
                     {1}, 0..2)
MessageLoopPackets ==
  Peers!OfTypes(MessageServersPackets,
                  {"ResultPush", "Cancel", "SessionCloseAck", "SessionPatchAck", "CachePut"})
MessageClientsPackets ==
  Peers!FromClient((RoleTypes \ {"ResultDropReason", "Supersede", "ExpireAt"}) \cup
                     {"FrameSubmit", "SessionClose", "SessionPatch", "CachePut", "Ping", "ResultPush"},
                     {1}, 0..1, 0..2)
MessageSelectPackets ==
  Peers!OfTypes(MessageClientsPackets, {"FrameSubmit", "SessionClose", "CachePut"})

Messages ==
  INSTANCE SessionRoles
    WITH Operations <- {1}, MaxFrame <- 2, MaxServerFrame <- 1,
         ClientLimit <- 1, ServerLimit <- 1, CacheLimit <- 1,
         ServersPackets <- MessageServersPackets, LoopPackets <- MessageLoopPackets,
         ClientCallTypes <- RoleTypes \cup {"CachePut", "CacheAck", "Ping", "Pong", "SessionMigrate"},
         ClientsPackets <- MessageClientsPackets, SelectPackets <- MessageSelectPackets,
         RoleCallTypes <- {"SessionPatch", "CachePut", "Ping"},
         ServerCallTypes <- {"ResultPush", "Cancel", "CachePut", "SessionCloseAck", "CacheAck",
                             "Ping", "Pong", "SessionMigrateAck"},
         Selective <- TRUE

Crossing ==
  INSTANCE SessionExchange
    WITH Operations <- {1, 2}, MaxFrame <- 3, ClientLimit <- 1, ServerLimit <- 1,
         CacheLimit <- 0, MaxWire <- 2, Windows <- {},
         ClientCalls <- {"Cancel", "FrameCancel"},
         ServerCalls <- {"Supersede"},
         Looping <- FALSE, Closing <- FALSE, Failing <- FALSE,
         toServer <- wireToServer, toClient <- wireToClient

ClientTelling ==
  INSTANCE SessionExchange
    WITH Operations <- {1}, MaxFrame <- 2, ClientLimit <- 1, ServerLimit <- 1,
         CacheLimit <- 0, MaxWire <- 1, Windows <- {},
         ClientCalls <- (SharedTypes \ PressureTypes) \cup {"FrameCancel"},
         ServerCalls <- {"Cancel", "Supersede"},
         Looping <- FALSE, Closing <- FALSE, Failing <- FALSE,
         toServer <- wireToServer, toClient <- wireToClient

ServerTelling ==
  INSTANCE SessionExchange
    WITH Operations <- {1}, MaxFrame <- 2, ClientLimit <- 1, ServerLimit <- 1,
         CacheLimit <- 0, MaxWire <- 1, Windows <- {},
         ClientCalls <- {"Cancel", "FrameCancel", "Supersede"},
         ServerCalls <- (SharedTypes \ (PressureTypes \cup {"ResultDropReason"})) \cup {"ResultHint"},
         Looping <- FALSE, Closing <- FALSE, Failing <- FALSE,
         toServer <- wireToServer, toClient <- wireToClient

Pressure ==
  INSTANCE SessionExchange
    WITH Operations <- {}, MaxFrame <- 3, ClientLimit <- 1, ServerLimit <- 1,
         CacheLimit <- 0, MaxWire <- 2, Windows <- {1, 2},
         ClientCalls <- PressureTypes,
         ServerCalls <- PressureTypes,
         Looping <- FALSE, Closing <- FALSE, Failing <- FALSE,
         toServer <- wireToServer, toClient <- wireToClient

Finishing ==
  INSTANCE SessionExchange
    WITH Operations <- {1, 2}, MaxFrame <- 3, ClientLimit <- 1, ServerLimit <- 2,
         CacheLimit <- 0, MaxWire <- 3, Windows <- {},
         ClientCalls <- {},
         ServerCalls <- {},
         Looping <- TRUE, Closing <- TRUE, Failing <- TRUE,
         toServer <- wireToServer, toClient <- wireToClient

Concluding ==
  INSTANCE SessionExchange
    WITH Operations <- {1, 2}, MaxFrame <- 3, ClientLimit <- 1, ServerLimit <- 1,
         CacheLimit <- 0, MaxWire <- 1, Windows <- {},
         ClientCalls <- {"Cancel", "ExpireAt"},
         ServerCalls <- {},
         Looping <- FALSE, Closing <- FALSE, Failing <- FALSE,
         toServer <- wireToServer, toClient <- wireToClient

-----------------------------------------------------------------------------
MCInit ==
  /\ part \in Parts
  /\ Init /\ Crossing!Init /\ Indexes!ClientInit /\ Indexes!ServerInit

notExchange == <<vars, clientTold, clientRefused, lost, serverTold, acks, serverRefused>>

MCNext ==
  /\ part' = part
  /\ \/ /\ part = "deadlines" /\ Next
        /\ UNCHANGED <<clientRoleVars, serverRoleVars, onlyExchangeVars>>
     \/ /\ \/ part = "clientIndexes" /\ Indexes!ClientNext
           \/ part = "clientMessages" /\ Messages!ClientNext
        /\ UNCHANGED <<vars, serverRoleVars, onlyExchangeVars>>
     \/ /\ \/ part = "serverIndexes" /\ Indexes!ServerNext
           \/ part = "serverMessages" /\ Messages!ServerNext
        /\ UNCHANGED <<vars, clientRoleVars, onlyExchangeVars>>
     \/ /\ \/ part = "crossing" /\ Crossing!Next
           \/ part = "messages" /\ ClientTelling!Next
           \/ part = "answers" /\ ServerTelling!Next
           \/ part = "pressure" /\ Pressure!Next
           \/ part = "closing" /\ Finishing!Next
           \/ part = "concluding" /\ Concluding!Next
        /\ UNCHANGED notExchange

MCSpec == MCInit /\ [][MCNext]_mcVars

\* Both applications keep reading, and the server's application writes an answer
\* for every operation it accepted.  The answer waits for room on the carrier, which
\* takes waiting writes in turn, so the fairness is strong.
Fairness ==
  /\ WF_exchangeVars(part = "concluding" /\ Concluding!ClientReads)
  /\ WF_exchangeVars(part = "concluding" /\ Concluding!ServerReads)
  /\ \A op \in {1, 2} : SF_exchangeVars(part = "concluding" /\ Concluding!AnswerIsWritten(op))

FairSpec == MCSpec /\ Fairness

\* The operations of DeadlineReservations are alike; the other parts have their own.
Symmetry == Permutations(Operations)
-----------------------------------------------------------------------------
\* The two indexes of operations and frames are inverse to each other in each
\* role, whatever the peer sends.  The client's frame ids stay below the next one,
\* and what is known of an operation's end belongs to an operation that still has
\* a frame (or to id 0, which a SUPERSEDE may have left behind).  The server binds
\* each operation it accepted and never changes what is bound, so that a late
\* message cannot reach another operation than its frame was submitted for.  And no
\* queue outgrows its limit: a receive_* call of the server may put one input back
\* when its queue is full, and only one.
RolesStayConsistent ==
  /\ part = "clientIndexes" => Indexes!ClientIndexesAgree
  /\ part = "serverIndexes" => Indexes!ServerIndexesAgree
  /\ part = "clientMessages" => Messages!ClientTypeOK
  /\ part = "serverMessages" => Messages!ServerTypeOK /\ Messages!CacheBounded

\* "Cancellation, abort, supersession, frame cancellation, successful completion,
\* and dropped-result paths emit local lifecycle evidence from the role whose
\* operation state changed": an operation of the server has one lifecycle event,
\* queued or handed out, if it has ended, and none otherwise (operations without
\* EXPIRE_AT: a result that comes too late ends its operation before the queue is
\* looked at); whichever receiving calls the application mixes, what was decoded is
\* handed out or queued in the order of its arrival.  And whatever the peer
\* repeats, the client's application is told at most once that an operation ended
\* here and gets at most one result for it.
EveryEndIsReported ==
  /\ part = "serverIndexes" => Indexes!EveryEndIsReported /\ Indexes!NothingForgotten
  /\ part = "clientIndexes" => Indexes!EndsOnce

\* Nothing is written that is not due.  Whatever handles the application mixes up,
\* an answer goes to the session, operation and frame of its submission while a
\* result or a stream can still be accepted for it; PROGRESS and PARTIAL_RESULT
\* are not written for an operation that has ended or whose cancel or abort is
\* under way; SESSION_CLOSE is acknowledged once, by ack_close or by
\* close_in_place, and no other one is taken after that.
AnswersAreDue ==
  /\ part = "serverIndexes" => Indexes!AnswersReachTheirSubmission
  /\ part = "clientMessages" => Messages!StreamsEndWithOperation
  /\ part = "serverMessages" => Messages!AcknowledgesOnce

\* A packet that the decoder of either role refuses leaves its correlation, queues,
\* phase and pressure as they were; an operation of the server that has ended
\* never gets another state; and a client session is closed once: only the
\* server's answer moves it out of Closing, and nothing out of Closed.
RefusalsChangeNothing ==
  [][/\ Indexes!ClientRefusesHarmlessly
     /\ Messages!ServerRefusesHarmlessly
     /\ part = "serverIndexes" => Indexes!EndsAreFinal
     /\ part = "clientMessages" => Messages!ClosesOnce]_mcVars

\* What one role believes of the other is so.  Both know an operation by the same
\* frame; a submission that was written is accepted or under way, the server never
\* refuses it; the client is told that an operation completed only if the server
\* completed it, and that its result was dropped only if the server ended it,
\* never both; each knows the window and the level the other one set once no
\* pressure message is under way; a decoded result is handed out or queued,
\* unless a waiting call failed; and a close that succeeded has every result the
\* server had sent before its acknowledgement, with the server closed too.
\* And a decoder refuses a packet of its own peer only because the operation had
\* ended where the packet arrived, before it arrived: the two sides crossed (the
\* one exception is a SUPERSEDE of operation 0, which the client writes before its
\* own call fails).
BothEndsAgree ==
  /\ part = "crossing" =>
       /\ Crossing!TypeOK /\ Crossing!FramesAgree
       /\ Crossing!SubmissionsArrive /\ Crossing!ResultsAgree
  /\ part = "pressure" => Pressure!PressureAgrees
  /\ part = "closing" => Finishing!ResultsAreKept /\ Finishing!CloseKeepsResults
  /\ part \in {"crossing", "messages", "answers"} => Crossing!RefusalsAreCrossings

\* Every submission ends with a result the application gets.
SubmissionsConclude ==
  \A op \in {1, 2} : []<>(part = "concluding" /\ op \in client.seen => told[op] # {})
=============================================================================
