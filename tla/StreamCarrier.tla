--------------------------- MODULE StreamCarrier ---------------------------
(* One direction of a byte-stream carrier: the transport that writes packets  *)
(* on a TCP, TLS or QUIC stream and the StreamPacketReader that cuts the      *)
(* stream into packets again.  A byte is a cell <<p, i>>, the i-th of packet  *)
(* p; the first HEADER cells of a packet declare its length.  The writer's    *)
(* stack moves cells to the reader's stack in any portions, and either side's *)
(* future may be dropped at an await.                                         *)
EXTENDS Integers, Sequences, SequencesExt, FiniteSetsExt

CONSTANTS
    Quic,           \* a QUIC stream (TRUE) or a TCP or TLS one (FALSE)
    Size,           \* Size[p]: the bytes of packet p, a sequence
    HEADER,         \* COMMON_HEADER_LEN
    CHUNK,          \* STREAM_READ_CHUNK_BYTES
    WriteLimit,     \* max_packet_bytes of the writing transport
    ReadLimit,      \* max_packet_bytes of the reading transport
    MaxCancels      \* bound: futures dropped at an await, per side

VARIABLES
    next,           \* the next packet the writer's role hands over
    writing,        \* packet and bytes already taken by the stack, or Idle
    put,            \* the packets written to the end, in order
    tornAt,         \* Len(put) when a write was dropped half-way, or -1
    close,          \* "open", "closing", "closed" or "dropped"
    open,           \* the stream exists (QUIC opens it with its first use)
    net, inbox,     \* the bytes in flight and in the reader's stack
    ended,          \* the reader's stack knows that no byte follows
    reader,         \* the StreamPacketReader
    reading,        \* a read_packet is awaited
    delivered,      \* the packets returned, each the sequence of its cells
    failed,         \* the error of the last read: "", "limit", "eof", "frame"
    cancels         \* futures dropped so far: by the writer, by the reader

vars == <<next, writing, put, tornAt, close, open, net, inbox, ended,
          reader, reading, delivered, failed, cancels>>
wire == <<close, open, net, inbox, ended>>

Idle == [p |-> 0, sent |-> 0]
StreamPacketReader == [buffered |-> <<>>, consumed |-> 0, packet_len |-> 0]

to_bytes(p) == [i \in 1..Size[p] |-> <<p, i>>]

validate_packet_len(declared, limit) == declared <= limit

Init ==
    /\ next = 1 /\ writing = Idle /\ put = <<>> /\ tornAt = -1
    /\ close = "open" /\ open = ~Quic /\ net = <<>> /\ inbox = <<>> /\ ended = FALSE
    /\ reader = StreamPacketReader /\ reading = FALSE
    /\ delivered = <<>> /\ failed = "" /\ cancels = [writer |-> 0, reader |-> 0]
----------------------------------------------------------------------------
(* The writing transport.                                                     *)

\* The initiator's stream exists from its first use on; the peer's accept
\* returns when the first bytes are there (Chunk).
ensure_streams == open' = TRUE

write_packet ==
    /\ close = "open" /\ writing = Idle /\ next \in DOMAIN Size
    /\ ensure_streams
    /\ next' = next + 1
    /\ writing' = IF validate_packet_len(Size[next], WriteLimit)
                  THEN [p |-> next, sent |-> 0] ELSE Idle
    /\ UNCHANGED <<put, tornAt, close, net, inbox, ended, reader, reading, delivered,
                   failed, cancels>>

\* write_all: the stack takes the next n bytes.
WriteSome ==
    /\ writing # Idle
    /\ \E n \in 1..(Size[writing.p] - writing.sent) :
        /\ net' = net \o SubSeq(to_bytes(writing.p), writing.sent + 1, writing.sent + n)
        /\ IF writing.sent + n = Size[writing.p]
           THEN writing' = Idle /\ put' = Append(put, writing.p)
           ELSE writing' = [writing EXCEPT !.sent = @ + n] /\ put' = put
    /\ UNCHANGED <<next, tornAt, close, open, inbox, ended, reader, reading, delivered,
                   failed, cancels>>

\* The role drops the write at its await: the bytes already taken stay.
CancelWrite ==
    /\ writing # Idle /\ cancels.writer < MaxCancels
    /\ writing' = Idle
    /\ tornAt' = IF writing.sent > 0 /\ tornAt = -1 THEN Len(put) ELSE tornAt
    /\ cancels' = [cancels EXCEPT !.writer = @ + 1]
    /\ UNCHANGED <<next, put, close, open, net, inbox, ended, reader, reading, delivered,
                   failed>>

\* A TCP close shuts the writing half down; a QUIC close finish()es its
\* stream, and does nothing when it has none.
shutdown == "closing"
finish == IF open THEN "closing" ELSE "closed"

CloseStart ==
    /\ close = "open" /\ writing = Idle
    /\ close' = IF Quic THEN finish ELSE shutdown
    /\ UNCHANGED <<next, writing, put, tornAt, open, net, inbox, ended, reader, reading,
                   delivered, failed, cancels>>

Stopped == Quic => net = <<>> /\ ended

CloseReturn ==
    /\ close = "closing" /\ Stopped
    /\ close' = "closed"
    /\ UNCHANGED <<next, writing, put, tornAt, open, net, inbox, ended, reader, reading,
                   delivered, failed, cancels>>

\* The transport goes out of scope after its close.  A QUIC connection dies
\* with it, and what is in flight is gone; a TCP stack still sends it.
DropTransport ==
    /\ close = "closed"
    /\ close' = "dropped"
    /\ IF Quic THEN net' = <<>> /\ ended' = TRUE ELSE UNCHANGED <<net, ended>>
    /\ UNCHANGED <<next, writing, put, tornAt, open, inbox, reader, reading, delivered,
                   failed, cancels>>
----------------------------------------------------------------------------
(* The network, and the reading transport.                                    *)

Carry ==
    \/ /\ net # <<>>
       /\ \E n \in {1, Len(net)} :
            inbox' = inbox \o SubSeq(net, 1, n) /\ net' = SubSeq(net, n + 1, Len(net))
       /\ UNCHANGED <<ended, close>>
    \/ /\ net = <<>> /\ ~ended /\ close # "open" /\ open
       /\ ended' = TRUE
       /\ UNCHANGED <<net, inbox, close>>

CarryNext ==
    /\ Carry
    /\ UNCHANGED <<next, writing, put, tornAt, open, reader, reading, delivered, failed,
                   cancels>>

available(r) == Len(r.buffered) - r.consumed

At(r, n) == SubSeq(r.buffered, r.consumed + 1, r.consumed + n)

\* CommonHeader::parse(..).packet_len(): the declared length of an intact
\* header; whatever a header mixed from two packets happens to say, or 0
\* when it does not parse.
Declared(r) ==
    LET p == At(r, HEADER)[1][1]
    IN  IF At(r, HEADER) = SubSeq(to_bytes(p), 1, HEADER) THEN {Size[p]}
        ELSE {0} \cup HEADER..(ReadLimit + 1)

\* The reader after packet_len bytes have been returned: an emptied buffer is
\* cleared, and one whose used part has grown to a chunk is drained.
take_packet(r) ==
    LET end == r.consumed + r.packet_len
    IN  CASE end = Len(r.buffered) -> StreamPacketReader
          [] end # Len(r.buffered) /\ end >= CHUNK ->
                [buffered |-> SubSeq(r.buffered, end + 1, Len(r.buffered)),
                 consumed |-> 0, packet_len |-> 0]
          [] OTHER -> [buffered |-> r.buffered, consumed |-> end, packet_len |-> 0]

\* One turn of read_packet's loop before its await, on reader r: it fails,
\* returns a packet, or awaits more bytes.
Turn(r) ==
    \E declared \in IF r.packet_len = 0 /\ available(r) >= HEADER THEN Declared(r)
                    ELSE {r.packet_len} :
        LET known == r.packet_len # 0 \/ available(r) >= HEADER
            s     == [r EXCEPT !.packet_len = declared]
        IN  CASE known /\ declared = 0 ->
                    /\ reader' = r /\ failed' = "frame" /\ reading' = FALSE
                    /\ delivered' = delivered
              [] known /\ declared # 0 /\ ~validate_packet_len(declared, ReadLimit) ->
                    /\ reader' = r /\ failed' = "limit" /\ reading' = FALSE
                    /\ delivered' = delivered
              [] known /\ declared # 0 /\ validate_packet_len(declared, ReadLimit)
                       /\ available(s) >= declared ->
                    /\ reader' = take_packet(s) /\ failed' = "" /\ reading' = FALSE
                    /\ delivered' = Append(delivered, At(s, declared))
              [] OTHER ->
                    /\ reader' = s /\ reading' = TRUE
                    /\ UNCHANGED <<failed, delivered>>

\* The accept of a QUIC reader returns with the first bytes of the stream.
Accepted == Quic => inbox # <<>> \/ delivered # <<>> \/ reader # StreamPacketReader

\* A read after a failed one is the role's choice; it stops after an EOF.
read_packet ==
    /\ ~reading /\ failed # "eof"
    /\ Turn(reader)
    /\ UNCHANGED <<next, writing, put, tornAt, close, open, net, inbox, ended, cancels>>

\* The await returns up to a chunk of bytes, or none at the end of the stream.
Chunk ==
    /\ reading
    /\ \/ /\ inbox # <<>> /\ Accepted
          /\ \E n \in {1, Min({CHUNK, Len(inbox)})} :
                /\ Turn([reader EXCEPT !.buffered = @ \o SubSeq(inbox, 1, n)])
                /\ inbox' = SubSeq(inbox, n + 1, Len(inbox))
       \/ /\ inbox = <<>> /\ ended
          /\ failed' = "eof" /\ reading' = FALSE
          /\ UNCHANGED <<inbox, reader, delivered>>
    /\ UNCHANGED <<next, writing, put, tornAt, close, open, net, ended, cancels>>

CancelRead_DropsBytes ==
    /\ reading /\ cancels.reader < MaxCancels
    /\ reading' = FALSE
    /\ reader' = StreamPacketReader
    /\ cancels' = [cancels EXCEPT !.reader = @ + 1]
    /\ UNCHANGED <<next, writing, put, tornAt, wire, delivered, failed>>

\* The role drops the read at its await: what was read stays in the reader.
CancelRead ==
    /\ reading /\ cancels.reader < MaxCancels
    /\ reading' = FALSE
    /\ cancels' = [cancels EXCEPT !.reader = @ + 1]
    /\ UNCHANGED <<next, writing, put, tornAt, wire, reader, delivered, failed>>

Next ==
    \/ write_packet \/ WriteSome \/ CancelWrite
    \/ CloseStart \/ CloseReturn \/ DropTransport
    \/ CarryNext \/ read_packet \/ Chunk \/ CancelRead

\* The stacks make progress, a started write or close is driven, the role
\* keeps reading, and a closed transport is dropped.
Fairness ==
    /\ WF_vars(WriteSome) /\ WF_vars(CloseReturn) /\ WF_vars(DropTransport)
    /\ WF_vars(CarryNext) /\ WF_vars(read_packet) /\ WF_vars(Chunk)

Spec == Init /\ [][Next]_vars /\ Fairness
----------------------------------------------------------------------------

(* Every packet returned is, whole and in order, the next one written to its  *)
(* end, however the stream was cut into portions and however many reads were  *)
(* dropped at their await; a refused frame is never skipped.  It holds up to  *)
(* the first write that was dropped half-way, after which the stream is torn. *)
FramesInOrder ==
    \A k \in DOMAIN delivered :
        tornAt = -1 \/ k <= tornAt =>
            k <= Len(put) /\ delivered[k] = to_bytes(put[k])

(* The reader's buffer does not grow with the life of the connection: what it *)
(* has already returned stays below one read chunk.                           *)
BufferIsBounded ==
    reader.consumed < CHUNK /\ available(reader) < ReadLimit + CHUNK

(* After close has returned, the transport may be dropped at once: no byte of *)
(* a written packet is lost with the connection.                              *)
CloseFlushes ==
    close = "dropped" /\ tornAt = -1 =>
        FlattenSeq(delivered) \o At(reader, available(reader)) \o inbox \o net
            = FlattenSeq([k \in DOMAIN put |-> to_bytes(put[k])])

Unreadable(p) == ~validate_packet_len(Size[p], ReadLimit)

WrittenHaveArrived ==
    \/ Len(delivered) >= Len(put)
    \/ tornAt # -1
    \/ Unreadable(put[Len(delivered) + 1])

(* A closed writer is noticed: the reader's reads do not stay pending for     *)
(* ever, they end with the end of the stream or at a frame they refuse.       *)
CloseIsSeen == []<>(close # "open" => failed # "")
============================================================================
