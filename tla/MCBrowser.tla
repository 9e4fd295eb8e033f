----------------------------- MODULE MCBrowser ------------------------------
(***************************************************************************)
(* Instances of the browser client: the packets of its handshake entering  *)
(* the carrier ("ingress"), one session whose carrier may fail ("role"),   *)
(* and two sessions with a slow host that hands over bad batches ("host"). *)
(* The part is chosen in the initial state; the others rest.               *)
(***************************************************************************)
EXTENDS Naturals, Sequences, TLC

VARIABLES
    part,
    ready, running, pc, calls, op, pending, receive_error, packetWaiter, eventWaiters,
    notified, gate, receive_abort, aborted, lock, open, inbox, deferred, lifecycle, delivered,
    driver, commands, registered, terminal, completion, wire, sent, told,
    queued, carrierError, closed, external_ingress, receive_in_flight, callbacks, reader,
    lifecycleGate, closing, pump, hostWire, accepted, read, refused, counts

roleVars == <<ready, running, pc, calls, op, pending, receive_error, packetWaiter, eventWaiters,
              notified, gate, receive_abort, aborted, lock, open, inbox, deferred, lifecycle,
              delivered, driver, commands, registered, terminal, completion, wire, sent, told>>
ingressVars == <<queued, carrierError, closed, external_ingress, receive_in_flight, callbacks,
                 reader, lifecycleGate, closing, pump, hostWire, accepted, read, refused, counts>>
mcVars == <<part, roleVars, ingressVars>>

Ingress == INSTANCE BrowserIngress
             WITH MaxOpens <- 2, MaxPackets <- 2, MaxWrites <- 2,
                  pending <- queued, receive_error <- carrierError, gate <- lifecycleGate,
                  wire <- hostWire

Role == INSTANCE BrowserRole
          WITH Sessions <- {1}, Receivers <- {"r1"}, Writers <- {"w1"}, Closers <- {"c1"},
               SessionOf <- [t \in {"r1", "w1", "c1"} |-> 1], Batch <- {},
               Ops <- {"submit", "control", "patch"},
               MaxCalls <- [t \in {"r1", "w1", "c1"} |-> IF t = "r1" THEN 2 ELSE 1],
               MaxEvents <- 2, SlowSend <- FALSE, BadBatches <- FALSE, MayFail <- TRUE

\* The receiver and the closer are on session 1, the writer on session 2.
Host == INSTANCE BrowserRole
          WITH Sessions <- {1, 2}, Receivers <- {"r1"}, Writers <- {"w1"}, Closers <- {"c1"},
               SessionOf <- [t \in {"r1", "w1", "c1"} |-> IF t = "w1" THEN 2 ELSE 1],
               Batch <- {"r1"}, Ops <- {"patch"},
               MaxCalls <- [t \in {"r1", "w1", "c1"} |-> 1],
               MaxEvents <- 2, SlowSend <- TRUE, BadBatches <- TRUE, MayFail <- FALSE

MCInit ==
    /\ part \in {"ingress", "role", "host"}
    /\ Ingress!Init
    /\ IF part = "host" THEN Host!Init ELSE Role!Init

MCNext ==
    /\ part' = part
    /\ \/ part = "ingress" /\ Ingress!Next /\ UNCHANGED roleVars
       \/ part = "role" /\ Role!Next /\ UNCHANGED ingressVars
       \/ part = "host" /\ Host!Next /\ UNCHANGED ingressVars

\* The executor runs started tasks and serves its queue, the host resolves its
\* promises and hands over what arrived, while the part runs.
MCFairness ==
    /\ WF_ingressVars(part = "ingress" /\ Ingress!DriverStep)
    /\ WF_ingressVars(part = "ingress" /\ Ingress!close)
    /\ WF_ingressVars(part = "ingress" /\ \E k \in 1..2 : Ingress!ReceiveResolves(k))
    /\ WF_ingressVars(part = "ingress" /\ \E k \in 1..2 : Ingress!ingest_packets(k))
    /\ WF_roleVars(part = "role" /\ Role!Resume)
    /\ WF_roleVars(part = "role" /\ Role!Step)
    /\ WF_roleVars(part = "role" /\ \E result \in {"ok", "error"} : Role!SendResolved(result))
    /\ WF_roleVars(part = "role" /\ \E k \in 1..2 : Role!Ingest(k))

MCSpec == MCInit /\ [][MCNext]_mcVars /\ MCFairness
-----------------------------------------------------------------------------
\* Packets the carrier accepted are read once, in the order the host handed them
\* over, although reads are dropped; one receive callback runs at a time and none
\* is left unaccounted for; external ingress is enabled only by an accepted
\* SESSION_OPEN_ACK within the size limit, and the callback is then no longer used.
\* While a session and its connection work, the events not yet returned to the
\* host are the ones after the last returned one, in order, whatever calls run in
\* between (awaitEvent, awaitEventBatch, patchSession, submits); and while close
\* exchanges SESSION_CLOSE no receive of the session is in progress.
EventsKeepOrder ==
    /\ Ingress!IngressInOrder
    /\ Ingress!OneReceiveOwner
    /\ Ingress!ExternalAfterAck
    /\ IF part = "host" THEN Host!EventsInOrder ELSE Role!EventsInOrder
    /\ IF part = "host" THEN Host!CloseExcludesReceives ELSE Role!CloseExcludesReceives

\* What the host started ends.  Queued packets are read, unless the connection
\* fails or they came in a batch that was refused; an open concludes, by its answer
\* or by the failure of the carrier, unless a refused batch held its answer; a
\* close of the connection concludes although it waits for an open.  Every poll of
\* a task returns: a pending awaitEvent never keeps the thread to itself while the
\* host's send callback resolves at once.  No awaitEvent waits for ever while an
\* event of its session is there, unless a failed write stopped the driver; and
\* closing a session returns, receives in progress or not.
BrowserCallsConclude ==
    /\ Ingress!AcceptedIsRead
    /\ Ingress!OpensConclude
    /\ Ingress!CloseConcludes
    /\ []<>(part = "role" => running = Role!None)
    /\ []<>(part = "role" => ~Role!Forgotten("r1"))
    /\ []<>(part = "role" => pc["c1"] = "idle")
=============================================================================
