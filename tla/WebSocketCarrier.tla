-------------------------- MODULE WebSocketCarrier --------------------------
(* One direction of the WebSocket carrier.  A packet is one binary message;   *)
(* the writer's library keeps a message it accepted until it is flushed, and  *)
(* the reader sees whatever messages the other end's library sends.           *)
EXTENDS Integers, Sequences, SequencesExt

CONSTANTS
    Size,           \* Size[p]: the bytes of packet p, a sequence
    HEADER,         \* COMMON_HEADER_LEN
    WriteLimit, ReadLimit,  \* max_packet_bytes of each side
    MaxForeign,     \* bound: messages that are not packets
    MaxCancels      \* bound: writes dropped at an await

VARIABLES
    next,           \* the next packet the role hands over
    flushing,       \* a write_packet awaits its flush
    sink,           \* messages accepted by the library and not flushed
    close,          \* "open", "closing", "closed" or "lost"
    wire,           \* messages on their way
    accepted,       \* the packets the library accepted, in order
    delivered,      \* the packets read
    refused,        \* messages that made a read fail
    end,            \* the reader's last error: "", "TransportClosed", "Lost" ...
    foreign, cancels

vars == <<next, flushing, sink, close, wire, accepted, delivered, refused, end,
          foreign, cancels>>

\* p is 0 in a message that is not a packet of the role.
Binary(p, len, declared) == [kind |-> "Binary", p |-> p, len |-> len, declared |-> declared]
Other(kind) == [kind |-> kind, p |-> 0, len |-> 0, declared |-> 0]

Foreign ==
    {Other("Text"), Other("Ping"), Binary(0, HEADER - 1, HEADER),
     Binary(0, HEADER + 1, HEADER), Binary(0, HEADER, HEADER + 1),
     Binary(0, ReadLimit + 1, ReadLimit + 1)}

Init ==
    /\ next = 1 /\ flushing = FALSE /\ sink = <<>> /\ close = "open" /\ wire = <<>>
    /\ accepted = <<>> /\ delivered = <<>> /\ refused = 0 /\ end = ""
    /\ foreign = 0 /\ cancels = 0
----------------------------------------------------------------------------
\* to_bytes and the limit, then the library accepts the whole message.
write_packet ==
    /\ close = "open" /\ ~flushing /\ next \in DOMAIN Size
    /\ next' = next + 1
    /\ IF Size[next] <= WriteLimit
       THEN /\ sink' = Append(sink, Binary(next, Size[next], Size[next]))
            /\ accepted' = Append(accepted, next) /\ flushing' = TRUE
       ELSE UNCHANGED <<sink, accepted, flushing>>
    /\ UNCHANGED <<close, wire, delivered, refused, end, foreign, cancels>>

Flush ==
    /\ flushing
    /\ flushing' = FALSE /\ wire' = wire \o sink /\ sink' = <<>>
    /\ UNCHANGED <<next, close, accepted, delivered, refused, end, foreign, cancels>>

\* The role drops the write at its await: the message stays in the sink.
CancelWrite ==
    /\ flushing /\ cancels < MaxCancels
    /\ flushing' = FALSE /\ cancels' = cancels + 1
    /\ UNCHANGED <<next, sink, close, wire, accepted, delivered, refused, end, foreign>>

CloseStart ==
    /\ close = "open" /\ ~flushing
    /\ close' = "closing"
    /\ UNCHANGED <<next, flushing, sink, wire, accepted, delivered, refused, end, foreign,
                   cancels>>

\* The close frame follows what the sink still holds.
CloseFrame == wire' = wire \o Append(sink, Other("Close")) /\ sink' = <<>>

CloseReturn ==
    /\ close = "closing"
    /\ close' = "closed"
    /\ CloseFrame
    /\ UNCHANGED <<next, flushing, accepted, delivered, refused, end, foreign, cancels>>

\* The transport goes out of scope without a close, and its sink with it.
DropTransport ==
    /\ close = "open" /\ ~flushing
    /\ close' = "lost" /\ sink' = <<>>
    /\ UNCHANGED <<next, flushing, wire, accepted, delivered, refused, end, foreign, cancels>>

\* A message that is not a packet of this role, from the other end's library.
OtherMessage ==
    /\ close = "open" /\ foreign < MaxForeign
    /\ foreign' = foreign + 1
    /\ \E m \in Foreign : wire' = Append(wire, m)
    /\ UNCHANGED <<next, flushing, sink, close, accepted, delivered, refused, end, cancels>>
----------------------------------------------------------------------------

packet_from_binary(m) ==
    m.len >= HEADER /\ m.declared <= ReadLimit /\ m.declared = m.len

Fails(error) ==
    /\ end' = error /\ refused' = refused + 1
    /\ UNCHANGED delivered

\* The arms of read_packet's match.
Message(m) ==
    CASE m.kind = "Binary" /\ m.len <= ReadLimit /\ packet_from_binary(m) ->
            delivered' = Append(delivered, m.p) /\ UNCHANGED <<refused, end>>
      [] m.kind = "Close" -> Fails("TransportClosed")
      [] m.kind = "Ping" -> UNCHANGED <<delivered, refused, end>>
      [] OTHER -> Fails("UnexpectedMessage")

\* The role reads on after a refused message, and stops at the end: the close
\* frame, or the end of a stream that was lost without one.
read_packet ==
    /\ end \notin {"TransportClosed", "Lost"}
    /\ \/ /\ wire # <<>>
          /\ Message(Head(wire)) /\ wire' = Tail(wire)
       \/ /\ wire = <<>> /\ close = "lost"
          /\ Fails("Lost") /\ wire' = wire
    /\ UNCHANGED <<next, flushing, sink, close, accepted, foreign, cancels>>

Next ==
    \/ write_packet \/ Flush \/ CancelWrite \/ CloseStart \/ CloseReturn
    \/ DropTransport \/ OtherMessage \/ read_packet

\* The role drives a started write or close, and keeps reading.
Fairness == WF_vars(Flush) /\ WF_vars(CloseReturn) /\ WF_vars(read_packet)

Spec == Init /\ [][Next]_vars /\ Fairness
----------------------------------------------------------------------------
Readable(packets) == SelectSeq(packets, LAMBDA p : Size[p] <= ReadLimit)

(* The packets read are those the library accepted, in order, each once; the  *)
(* only ones left out are over the reader's limit, and neither a message that *)
(* is no packet nor a dropped write makes or loses one.                       *)
MessagesInOrder == IsPrefix(delivered, Readable(accepted))

(* A closed carrier has lost nothing: every accepted packet within the        *)
(* reader's limit is read, those of dropped writes and those that follow a    *)
(* refused message included.                                                  *)
AcceptedArrive == []<>(close = "closed" => delivered = Readable(accepted))

(* An orderly close reaches the reader as a closed transport, after all       *)
(* packets, and not as a broken one.                                          *)
CloseIsNamed == []<>(close = "closed" => end = "TransportClosed")
=============================================================================
