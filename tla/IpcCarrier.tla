---------------------------- MODULE IpcCarrier ----------------------------
(* One direction of the IPC carrier.  The socket belongs to two tasks: the    *)
(* role's write_packet and close queue a command for the write task and       *)
(* await its answer, and the read task passes packets on through a bounded    *)
(* channel.  A role may drop a call at its await, and either side may drop    *)
(* its transport, which aborts its tasks where they are.                      *)
EXTENDS Integers, Sequences

CONSTANTS
    N,              \* bound: packets handed to the writing transport
    CAPACITY,       \* IPC_TASK_CHANNEL_CAPACITY
    SOCKET,         \* packets the socket holds
    OverWrite,      \* packets over the limit of the writing side
    OverRead,       \* packets over the limit of the reading side only
    MaxCloses,      \* bound: close calls of the writing role
    MaxCancels      \* bound: calls dropped at an await

VARIABLES
    next, closes,   \* the next packet the role hands over, and its closes
    call,           \* the role's call: what, which packet, "send" or "ack"
    commands,       \* the write task's queue; a negative number is a Close
    task,           \* the write task: "recv", "write" or "ended"
    current,        \* the command the write task works on
    answer,         \* what the role's call got: "none", "ok" or "err"
    socket,         \* the packets in the socket; 0 is a packet cut short
    shut,           \* no byte follows: shut down, or the writer is gone
    dropped,        \* the sides whose transport was dropped
    readTask, held, \* the read task, and the result it awaits to send
    packets,        \* the read task's channel; 0 is an error
    delivered,      \* the packets the reading role got
    readError,      \* its read failed
    cancels,
    queued, acked, closed   \* the history of the commands: packets queued,
                            \* packets acknowledged, packets queued before a
                            \* close that returned without error (or -1)

writerVars == <<next, closes, call, commands, task, current, answer, cancels, queued,
                acked, closed>>
readerVars == <<readTask, held, packets, delivered, readError>>
vars == <<writerVars, readerVars, socket, shut, dropped>>

Quiet == [p |-> 0, phase |-> "idle"]
IsClose(p) == p < 0

Init ==
    /\ next = 1 /\ closes = 0 /\ call = Quiet /\ commands = <<>> /\ task = "recv"
    /\ current = 0 /\ answer = "none" /\ socket = <<>> /\ shut = FALSE /\ dropped = {}
    /\ readTask = "read" /\ held = -1 /\ packets = <<>> /\ delivered = <<>>
    /\ readError = FALSE /\ cancels = 0 /\ queued = <<>> /\ acked = {} /\ closed = -1
----------------------------------------------------------------------------
(* The writing role.                                                          *)

write_packet ==
    /\ call = Quiet /\ "writer" \notin dropped /\ next <= N
    /\ next' = next + 1
    /\ call' = [p |-> next, phase |-> "send"] /\ answer' = "none"
    /\ UNCHANGED <<closes, commands, task, current, cancels, queued, acked, closed,
                   readerVars, socket, shut, dropped>>

close ==
    /\ call = Quiet /\ "writer" \notin dropped /\ closes < MaxCloses
    /\ closes' = closes + 1
    /\ call' = [p |-> -closes', phase |-> "send"] /\ answer' = "none"
    /\ UNCHANGED <<next, commands, task, current, cancels, queued, acked, closed,
                   readerVars, socket, shut, dropped>>

SendCommand(p) == Append(commands, p)

\* The command finds room in the queue, or the task that emptied it is gone.
Enqueue ==
    /\ call.phase = "send"
    /\ \/ /\ task = "ended"
          /\ call' = Quiet /\ answer' = "err"
          /\ UNCHANGED <<commands, queued>>
       \/ /\ task # "ended" /\ Len(commands) < CAPACITY
          /\ call' = [call EXCEPT !.phase = "ack"]
          /\ commands' = SendCommand(call.p)
          /\ queued' = IF IsClose(call.p) THEN queued ELSE Append(queued, call.p)
          /\ answer' = answer
    /\ UNCHANGED <<next, closes, task, current, cancels, acked, closed, readerVars, socket,
                   shut, dropped>>

\* The answer arrives, or the task ended without one.
AwaitAck ==
    /\ call.phase = "ack" /\ (answer # "none" \/ task = "ended")
    /\ call' = Quiet
    /\ UNCHANGED <<next, closes, commands, task, current, answer, cancels, queued, acked,
                   closed, readerVars, socket, shut, dropped>>

CancelCall ==
    /\ call # Quiet /\ cancels < MaxCancels
    /\ call' = Quiet /\ cancels' = cancels + 1
    /\ UNCHANGED <<next, closes, commands, task, current, answer, queued, acked, closed,
                   readerVars, socket, shut, dropped>>
----------------------------------------------------------------------------
(* The write task.                                                            *)

\* The answer reaches the call that awaits it, if it still does.
Answer(result) ==
    answer' = IF call = [p |-> current, phase |-> "ack"] THEN result ELSE answer

Stops == task' = "ended" /\ commands' = <<>> /\ current' = 0

TaskRecv ==
    /\ task = "recv" /\ commands # <<>>
    /\ task' = "write" /\ current' = Head(commands) /\ commands' = Tail(commands)
    /\ UNCHANGED <<next, closes, call, answer, cancels, queued, acked, closed, readerVars,
                   socket, shut, dropped>>

\* IpcWriteCommand::Packet: a failed write ends the task.
TaskPacket ==
    /\ task = "write" /\ ~IsClose(current)
    /\ IF current \in OverWrite \/ "reader" \in dropped
       THEN Answer("err") /\ Stops /\ UNCHANGED <<acked, socket>>
       ELSE /\ Len(socket) < SOCKET
            /\ socket' = Append(socket, current)
            /\ Answer("ok") /\ acked' = acked \cup {current}
            /\ task' = "recv" /\ current' = 0 /\ commands' = commands
    /\ UNCHANGED <<next, closes, call, cancels, queued, closed, readerVars, shut, dropped>>

\* IpcWriteCommand::Close: a shutdown of a broken socket counts as done.
TaskClose ==
    /\ task = "write" /\ IsClose(current)
    /\ shut' = TRUE
    /\ Answer("ok") /\ Stops
    /\ closed' = IF call = [p |-> current, phase |-> "ack"] THEN Len(queued) ELSE closed
    /\ UNCHANGED <<next, closes, call, cancels, queued, acked, readerVars, socket, dropped>>

\* Drop for the writing transport: the abort may cut a packet short.
DropWriter ==
    /\ "writer" \notin dropped /\ call = Quiet
    /\ dropped' = dropped \cup {"writer"}
    /\ \/ socket' = socket
       \/ task = "write" /\ ~IsClose(current) /\ socket' = Append(socket, 0)
    /\ shut' = TRUE /\ Stops
    /\ UNCHANGED <<next, closes, call, answer, cancels, queued, acked, closed, readerVars>>
----------------------------------------------------------------------------
(* The reading side.                                                          *)

\* read_packet of the task: a packet, or an error for one cut short or over
\* the limit, and at the end of the stream.
TaskRead ==
    /\ readTask = "read"
    /\ \/ /\ socket # <<>>
          /\ held' = IF Head(socket) \in OverRead THEN 0 ELSE Head(socket)
          /\ socket' = Tail(socket)
       \/ /\ socket = <<>> /\ shut
          /\ held' = 0 /\ socket' = socket
    /\ readTask' = "send"
    /\ UNCHANGED <<writerVars, packets, delivered, readError, shut, dropped>>

TaskSend_DropsWhenFull ==
    /\ readTask = "send"
    /\ packets' = IF Len(packets) < CAPACITY THEN Append(packets, held) ELSE packets
    /\ held' = -1
    /\ readTask' = IF held = 0 THEN "ended" ELSE "read"
    /\ UNCHANGED <<writerVars, delivered, readError, socket, shut, dropped>>

\* The result finds room in the channel; an error is the task's last.
TaskSend ==
    /\ readTask = "send" /\ Len(packets) < CAPACITY
    /\ packets' = Append(packets, held) /\ held' = -1
    /\ readTask' = IF held = 0 THEN "ended" ELSE "read"
    /\ UNCHANGED <<writerVars, delivered, readError, socket, shut, dropped>>

\* read_packet of the role; dropping it at its await takes nothing.
read_packet ==
    /\ "reader" \notin dropped
    /\ \/ /\ packets # <<>>
          /\ packets' = Tail(packets)
          /\ IF Head(packets) = 0 THEN readError' = TRUE /\ delivered' = delivered
             ELSE delivered' = Append(delivered, Head(packets)) /\ readError' = readError
       \/ /\ packets = <<>> /\ readTask = "ended" /\ readError' = TRUE
          /\ UNCHANGED <<packets, delivered>>
    /\ UNCHANGED <<writerVars, readTask, held, socket, shut, dropped>>

DropReader ==
    /\ "reader" \notin dropped
    /\ dropped' = dropped \cup {"reader"}
    /\ readTask' = "ended" /\ held' = -1 /\ packets' = <<>> /\ socket' = <<>>
    /\ UNCHANGED <<writerVars, delivered, readError, shut>>

Next ==
    \/ write_packet \/ close \/ Enqueue \/ AwaitAck \/ CancelCall
    \/ TaskRecv \/ TaskPacket \/ TaskClose \/ DropWriter
    \/ TaskRead \/ TaskSend \/ read_packet \/ DropReader

\* The runtime polls the tasks and the calls, and the reading role reads on.
Fairness ==
    /\ WF_vars(Enqueue) /\ WF_vars(AwaitAck)
    /\ WF_vars(TaskRecv) /\ WF_vars(TaskPacket) /\ WF_vars(TaskClose)
    /\ WF_vars(TaskRead) /\ WF_vars(TaskSend) /\ WF_vars(read_packet)

Spec == Init /\ [][Next]_vars /\ Fairness
----------------------------------------------------------------------------
(* The reading role gets the packets in the order their commands were queued, *)
(* none twice and none left out, although the calls that queued them may have *)
(* been dropped and the tasks run between four bounded buffers.  A packet     *)
(* that was refused at its header is not followed by another one.             *)
IpcInOrder ==
    Len(delivered) <= Len(queued) /\ delivered = SubSeq(queued, 1, Len(delivered))

(* A close that returned without error comes after every packet queued before *)
(* it: the stream ends behind them, never in front of them.                   *)
CloseComesLast == closed # -1 => \A k \in 1..closed : queued[k] \in acked

AckedHaveArrived ==
    \/ "reader" \in dropped
    \/ \A p \in acked : \/ p \in {delivered[i] : i \in DOMAIN delivered}
                       \/ \E q \in OverRead : q <= p

============================================================================
