----------------------------- MODULE MCCarriers -----------------------------
(***************************************************************************)
(* One connection at a time over a carrier of one of the kinds, in one     *)
(* direction, or the admission of sessions by a native host.  The kind is  *)
(* chosen in the initial state; the parts of the other kinds rest.         *)
(***************************************************************************)
EXTENDS PolicyRequests, Sequences

VARIABLES
    kind,
    next, writing, put, tornAt, close, open, net, inbox, ended, reader, reading,
    delivered, failed, cancels,
    ipcNext, closes, call, commands, task, current, answer, socket, shut, dropped,
    readTask, held, packets, ipcDelivered, readError, ipcCancels, queued, acked, closed,
    wsNext, flushing, sink, wsClose, wire, accepted, wsDelivered, refused, end, foreign,
    wsCancels

streamVars == <<next, writing, put, tornAt, close, open, net, inbox, ended, reader, reading,
                delivered, failed, cancels>>
ipcVars == <<ipcNext, closes, call, commands, task, current, answer, socket, shut, dropped,
             readTask, held, packets, ipcDelivered, readError, ipcCancels, queued, acked, closed>>
wsVars == <<wsNext, flushing, sink, wsClose, wire, accepted, wsDelivered, refused, end, foreign,
            wsCancels>>
mcVars == <<kind, vars, streamVars, ipcVars, wsVars>>

\* Over TCP the third packet is over the limit of both sides, and the others
\* together outgrow a read chunk.  Over QUIC the writer allows the third packet
\* and the reader does not.
Tcp == INSTANCE StreamCarrier
         WITH Quic <- FALSE, Size <- <<2, 4, 5, 3>>, HEADER <- 2, CHUNK <- 3,
              WriteLimit <- 4, ReadLimit <- 4, MaxCancels <- 1
Quic == INSTANCE StreamCarrier
          WITH Quic <- TRUE, Size <- <<3, 2, 4, 2>>, HEADER <- 2, CHUNK <- 4,
               WriteLimit <- 4, ReadLimit <- 3, MaxCancels <- 1

\* The fourth packet is over the limit of the writing side, or the second over
\* the limit of the reading side.
Ipc == INSTANCE IpcCarrier
         WITH N <- 4, CAPACITY <- 2, SOCKET <- 2, OverWrite <- {4}, OverRead <- {},
              MaxCloses <- 2, MaxCancels <- 2,
              next <- ipcNext, delivered <- ipcDelivered, cancels <- ipcCancels
IpcRefusing == INSTANCE IpcCarrier
         WITH N <- 3, CAPACITY <- 2, SOCKET <- 2, OverWrite <- {}, OverRead <- {2},
              MaxCloses <- 1, MaxCancels <- 1,
              next <- ipcNext, delivered <- ipcDelivered, cancels <- ipcCancels

\* The second packet is over the reader's limit, the third over the writer's.
WebSocket == INSTANCE WebSocketCarrier
         WITH Size <- <<2, 4, 5, 3>>, HEADER <- 2, WriteLimit <- 4, ReadLimit <- 3,
              MaxForeign <- 1, MaxCancels <- 2,
              next <- wsNext, delivered <- wsDelivered, cancels <- wsCancels, close <- wsClose

MCInit ==
    /\ kind \in {"tcp", "quic", "ipc", "ipc refusing", "websocket", "policy"}
    /\ IF kind = "quic" THEN Quic!Init ELSE Tcp!Init
    /\ Ipc!Init /\ WebSocket!Init
    /\ Init /\ (kind # "policy" => nextId = 1)

MCNext ==
    /\ kind' = kind
    /\ \/ kind = "tcp" /\ Tcp!Next /\ UNCHANGED <<vars, ipcVars, wsVars>>
       \/ kind = "quic" /\ Quic!Next /\ UNCHANGED <<vars, ipcVars, wsVars>>
       \/ kind = "ipc" /\ Ipc!Next /\ UNCHANGED <<vars, streamVars, wsVars>>
       \/ kind = "ipc refusing" /\ IpcRefusing!Next /\ UNCHANGED <<vars, streamVars, wsVars>>
       \/ kind = "websocket" /\ WebSocket!Next /\ UNCHANGED <<vars, streamVars, ipcVars>>
       \/ kind = "policy" /\ Next /\ UNCHANGED <<streamVars, ipcVars, wsVars>>

OverStream(A) == A /\ UNCHANGED <<kind, vars, ipcVars, wsVars>>
OverTcp(A) == kind = "tcp" /\ OverStream(A)
OverQuic(A) == kind = "quic" /\ OverStream(A)
OverIpc(A) == kind = "ipc" /\ A /\ UNCHANGED <<kind, vars, streamVars, wsVars>>
OverWebSocket(A) == kind = "websocket" /\ A /\ UNCHANGED <<kind, vars, streamVars, ipcVars>>

\* The stacks, the tasks and a started call make progress, the roles read on,
\* and a closed transport is dropped.  One part runs at a time, so a condition
\* may name an action of each.
MCFairness ==
    /\ WF_mcVars(\/ OverTcp(Tcp!WriteSome)
                 \/ OverQuic(Quic!WriteSome)
                 \/ OverIpc(Ipc!Enqueue)
                 \/ OverWebSocket(WebSocket!Flush))
    /\ WF_mcVars(\/ OverTcp(Tcp!CloseReturn)
                 \/ OverQuic(Quic!CloseReturn)
                 \/ OverIpc(Ipc!AwaitAck)
                 \/ OverWebSocket(WebSocket!CloseReturn))
    /\ WF_mcVars(\/ OverTcp(Tcp!read_packet)
                 \/ OverQuic(Quic!read_packet)
                 \/ OverIpc(Ipc!read_packet)
                 \/ OverWebSocket(WebSocket!read_packet))
    /\ WF_mcVars(\/ OverTcp(Tcp!DropTransport)
                 \/ OverQuic(Quic!DropTransport)
                 \/ OverIpc(Ipc!TaskRecv))
    /\ WF_mcVars(\/ OverTcp(Tcp!CarryNext)
                 \/ OverQuic(Quic!CarryNext)
                 \/ OverIpc(Ipc!TaskPacket))
    /\ WF_mcVars(\/ OverTcp(Tcp!Chunk)
                 \/ OverQuic(Quic!Chunk)
                 \/ OverIpc(Ipc!TaskClose))
    /\ WF_mcVars(OverIpc(Ipc!TaskRead))
    /\ WF_mcVars(OverIpc(Ipc!TaskSend))

\* The executor polls what is ready; the host returns from its callback, and
\* answers every request it was told of, sooner or later, with a valid decision.
PolicyFairness ==
    /\ \A e \in Evaluations :
           /\ WF_vars(kind = "policy" /\ Evaluates(e))
           /\ WF_vars(kind = "policy" /\ \E ok \in BOOLEAN : BeginReturns(e, ok))
           /\ SF_vars(kind = "policy" /\ pc[e] \in {"calling", "awaiting"} /\ HostAnswers(e))
    /\ \A t \in Threads : WF_vars(kind = "policy" /\ Send(t))

MCSpec == MCInit /\ [][MCNext]_mcVars /\ MCFairness /\ PolicyFairness
-----------------------------------------------------------------------------
\* Packets come out as they went in.  Every packet that a TCP or QUIC reader
\* returns is, whole and in order, the next one written to its end, however the
\* stream was cut and however many reads were dropped, up to the first write that
\* was dropped half-way; its buffer keeps less than one read chunk of what it has
\* returned; and after close has returned the transport may be dropped at once.
\* The reading role of an IPC carrier gets the packets in the order their commands
\* were queued, none twice and none left out, although the calls that queued them
\* may have been dropped and two tasks run between four buffers, and a close that
\* returned without error comes after every packet queued before it.  The packets
\* read from a WebSocket are those its library accepted, in order, each once; the
\* only ones left out are over the reader's limit.
CarriersKeepOrder ==
    /\ IF kind = "quic" THEN Quic!FramesInOrder ELSE Tcp!FramesInOrder
    /\ IF kind = "quic" THEN Quic!BufferIsBounded ELSE Tcp!BufferIsBounded
    /\ IF kind = "quic" THEN Quic!CloseFlushes ELSE Tcp!CloseFlushes
    /\ Ipc!IpcInOrder
    /\ Ipc!CloseComesLast
    /\ WebSocket!MessagesInOrder

\* What was taken arrives and what waits ends.  In the end every packet written to
\* the end of a stream has been returned by a read, unless a write was torn or the
\* next one is over the reader's own limit, and a closed writer is noticed.  A
\* packet whose IPC write returned without error arrives, even when the writer
\* drops its transport at once, unless the reader is dropped or refuses it, and no
\* call awaits a task that has ended.  A WebSocket closed in order has lost
\* nothing, the packets of dropped writes included, and its reader sees a closed
\* transport and not a broken one.  And every evaluation of an open by the native
\* host returns, whether the host answers before the callback returns, after it, or
\* twice.
CarriersDeliver ==
    /\ <>[](IF kind = "quic" THEN Quic!WrittenHaveArrived ELSE Tcp!WrittenHaveArrived)
    /\ Tcp!CloseIsSeen
    /\ <>[](kind = "ipc" => Ipc!AckedHaveArrived)
    /\ []<>(kind = "ipc" => call = Ipc!Quiet)
    /\ WebSocket!AcceptedArrive
    /\ WebSocket!CloseIsNamed
    /\ []<>(kind = "policy" => \A e \in Evaluations : pc[e] \in {"unasked", "done"})
=============================================================================
