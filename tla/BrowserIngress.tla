---------------------------- MODULE BrowserIngress ----------------------------
(***************************************************************************)
(* How packets enter the browser client (HostWebSocketCarrier and            *)
(* BrowserClientConnection of nnrp-wasm/src/browser_role.rs).  Until a       *)
(* session is open the connection driver asks the host for packets with the  *)
(* receive callback; a driver whose read is dropped leaves the callback      *)
(* running.  From the first accepted SESSION_OPEN_ACK on the host's own pump *)
(* hands packets over with ingestPackets.                                    *)
(***************************************************************************)
EXTENDS Naturals, Sequences, SequencesExt

CONSTANTS MaxOpens,     \* bound: openSession calls
          MaxPackets,   \* bound: packets the server sends
          MaxWrites     \* bound: other packets written, each dropping the driver's read

VARIABLES pending, receive_error, closed, external_ingress, receive_in_flight,
          callbacks,    \* receive callbacks running in the host
          reader,       \* the driver's read: "none", "waiting", "woken" or "failed"
          gate,         \* holder of lifecycle_gate: "none" or "open"
          closing,      \* connection close: "idle", "waiting", "done"
          pump,         \* the host runs its own receive pump
          wire, accepted, read, refused, counts

vars == <<pending, receive_error, closed, external_ingress, receive_in_flight, callbacks, reader,
          gate, closing, pump, wire, accepted, read, refused, counts>>

Packet(kind, size) == [kind |-> kind, size |-> size]

Init ==
  /\ pending = <<>> /\ receive_error = FALSE /\ closed = FALSE
  /\ external_ingress = FALSE /\ receive_in_flight = FALSE /\ callbacks = 0
  /\ reader = "none" /\ gate = "none" /\ closing = "idle" /\ pump = FALSE
  /\ wire = <<>> /\ accepted = <<>> /\ read = <<>> /\ refused = FALSE
  /\ counts = [opens |-> 0, packets |-> 0, writes |-> 0]

ensure_open == ~receive_error /\ ~closed

Wake(r) == IF r = "waiting" THEN "woken" ELSE r

-----------------------------------------------------------------------------
(* enqueue_receive_value: packets are queued up to the first one over the    *)
(* size limit.                                                               *)
ValidPrefix(batch) ==
  LET over == {i \in DOMAIN batch : batch[i].size = "over"}
  IN IF over = {} THEN batch
     ELSE SubSeq(batch, 1, (CHOOSE i \in over : \A j \in over : i <= j) - 1)

Refuses(batch) == ValidPrefix(batch) # batch

Opens(packet) == packet.kind = "ack"

enqueue_receive_value(batch) ==
  LET taken == ValidPrefix(batch) IN
  /\ pending' = pending \o taken
  /\ accepted' = accepted \o taken
  /\ external_ingress' = (external_ingress \/ \E i \in DOMAIN taken : Opens(taken[i]))

(* The receive callback resolves (receive_for_handshake's spawned task): its *)
(* batch is taken in unless the carrier closed, and a refused one fails the  *)
(* carrier.                                                                  *)
ReceiveResolves(k) ==
  LET batch == SubSeq(wire, 1, k) IN
  /\ callbacks > 0 /\ k <= Len(wire)
  /\ callbacks' = callbacks - 1
  /\ receive_in_flight' = FALSE
  /\ wire' = SubSeq(wire, k + 1, Len(wire))
  /\ IF ensure_open
     THEN /\ enqueue_receive_value(batch)
          /\ receive_error' = Refuses(batch)
          /\ reader' = Wake(reader)
     ELSE UNCHANGED <<pending, accepted, external_ingress, receive_error, reader>>
  /\ UNCHANGED <<closed, gate, closing, pump, read, refused, counts>>

ReceiveRejects ==
  /\ callbacks > 0
  /\ callbacks' = callbacks - 1
  /\ receive_in_flight' = FALSE
  /\ IF closed THEN UNCHANGED <<receive_error, reader>>
     ELSE receive_error' = TRUE /\ reader' = Wake(reader)
  /\ UNCHANGED <<pending, closed, external_ingress, gate, closing, pump, wire, accepted, read,
                 refused, counts>>

(* ingestPackets: a refused batch goes back to the host, and nobody is woken *)
(* for the packets before the refused one.                                   *)
ingest_packets(k) ==
  LET batch == SubSeq(wire, 1, k) IN
  /\ pump /\ ensure_open /\ k <= Len(wire)
  /\ wire' = SubSeq(wire, k + 1, Len(wire))
  /\ enqueue_receive_value(batch)
  /\ reader' = IF Refuses(batch) THEN reader ELSE Wake(reader)
  /\ refused' = (refused \/ Refuses(batch))
  /\ UNCHANGED <<receive_error, closed, receive_in_flight, callbacks, gate, closing, pump, read,
                 counts>>

fail_receive ==
  /\ pump /\ ~receive_error
  /\ receive_error' = TRUE
  /\ reader' = Wake(reader)
  /\ UNCHANGED <<pending, closed, external_ingress, receive_in_flight, callbacks, gate, closing,
                 pump, wire, accepted, read, refused, counts>>

-----------------------------------------------------------------------------
(* The driver's read (HostWebSocketTransport::read_packet).                  *)
DriverReads ==
  /\ reader \in {"none", "woken"} /\ pending # <<>>
  /\ read' = Append(read, Head(pending))
  /\ pending' = Tail(pending)
  /\ reader' = "none"
  /\ gate' = IF gate = "open" /\ Head(pending).kind \in {"ack", "refusal"} THEN "none" ELSE gate
  /\ pump' = (pump \/ Head(pending).kind = "ack")
  /\ UNCHANGED <<receive_error, closed, external_ingress, receive_in_flight, callbacks, closing,
                 wire, accepted, refused, counts>>

DriverFails ==
  /\ reader \in {"none", "woken"} /\ pending = <<>> /\ ~ensure_open
  /\ reader' = "failed"
  /\ gate' = "none"
  /\ UNCHANGED <<pending, receive_error, closed, external_ingress, receive_in_flight, callbacks,
                 closing, pump, wire, accepted, read, refused, counts>>

receive_for_handshake ==
  IF receive_in_flight THEN UNCHANGED <<receive_in_flight, callbacks>>
  ELSE receive_in_flight' = TRUE /\ callbacks' = callbacks + 1

DriverWaits ==
  /\ reader \in {"none", "woken"} /\ pending = <<>> /\ ensure_open
  /\ counts.opens > 0                       \* the first write starts the driver
  /\ IF external_ingress THEN UNCHANGED <<receive_in_flight, callbacks>> ELSE receive_for_handshake
  /\ reader' = "waiting"
  /\ UNCHANGED <<pending, receive_error, closed, external_ingress, gate, closing, pump, wire,
                 accepted, read, refused, counts>>

(* A write command makes the driver drop its read and start another.         *)
Dropped(r) == IF r \in {"waiting", "woken"} THEN "none" ELSE r

Write ==
  /\ reader # "failed" /\ counts.opens > 0 /\ counts.writes < MaxWrites
  /\ reader' = Dropped(reader)
  /\ counts' = [counts EXCEPT !.writes = @ + 1]
  /\ UNCHANGED <<pending, receive_error, closed, external_ingress, receive_in_flight, callbacks,
                 gate, closing, pump, wire, accepted, read, refused>>

-----------------------------------------------------------------------------
(* BrowserClientConnectionState: open_session and close exclude each other.  *)
open_session ==
  /\ gate = "none" /\ closing = "idle" /\ ensure_open /\ reader # "failed"
  /\ counts.opens < MaxOpens
  /\ gate' = "open"
  /\ reader' = Dropped(reader)
  /\ \E answer \in {Packet("ack", "ok"), Packet("ack", "over"), Packet("refusal", "ok")} :
       wire' = Append(wire, answer)
  /\ counts' = [counts EXCEPT !.opens = @ + 1]
  /\ UNCHANGED <<pending, receive_error, closed, external_ingress, receive_in_flight, callbacks,
                 closing, pump, accepted, read, refused>>

CallClose ==
  /\ closing = "idle"
  /\ closing' = "waiting"
  /\ UNCHANGED <<pending, receive_error, closed, external_ingress, receive_in_flight, callbacks,
                 reader, gate, pump, wire, accepted, read, refused, counts>>

close ==
  /\ closing = "waiting" /\ gate = "none"
  /\ closing' = "done"
  /\ closed' = TRUE
  /\ reader' = Wake(reader)
  /\ UNCHANGED <<pending, receive_error, external_ingress, receive_in_flight, callbacks, gate,
                 pump, wire, accepted, read, refused, counts>>

(* The peer sends to an open session.                                        *)
ServerEvent(size) ==
  /\ pump /\ counts.packets < MaxPackets
  /\ wire' = Append(wire, Packet("event", size))
  /\ counts' = [counts EXCEPT !.packets = @ + 1]
  /\ UNCHANGED <<pending, receive_error, closed, external_ingress, receive_in_flight, callbacks,
                 reader, gate, closing, pump, accepted, read, refused>>

Idle == /\ reader \in {"waiting", "failed"} /\ closing = "done" /\ UNCHANGED vars

Host == \/ \E k \in 1..2 : ReceiveResolves(k) \/ ingest_packets(k)
        \/ ReceiveRejects \/ fail_receive
DriverStep == DriverReads \/ DriverFails \/ DriverWaits

Next == \/ Host \/ DriverStep \/ Write \/ open_session \/ CallClose \/ close \/ Idle
        \/ \E size \in {"ok", "over"} : ServerEvent(size)

Spec == Init /\ [][Next]_vars

(* The driver is scheduled, and the host serves its callbacks and its pump.  *)
FairSpec == /\ Spec /\ WF_vars(DriverStep) /\ WF_vars(close)
            /\ WF_vars(\E k \in 1..2 : ReceiveResolves(k))
            /\ WF_vars(\E k \in 1..2 : ingest_packets(k))

-----------------------------------------------------------------------------
(* Only one receive callback runs at a time, whatever reads the driver       *)
(* drops, and none is left unaccounted for.                                  *)
OneReceiveOwner == callbacks = (IF receive_in_flight THEN 1 ELSE 0)

(* Packets the carrier accepted are read once, in the order the host handed  *)
(* them over, although reads are dropped.                                    *)
IngressInOrder == accepted = read \o pending

(* External ingress is enabled only by an accepted SESSION_OPEN_ACK within   *)
(* the size limit, and the receive callback is then no longer used.          *)
ExternalAfterAck ==
  /\ external_ingress => \E i \in DOMAIN accepted : accepted[i] = Packet("ack", "ok")
  /\ external_ingress => ~receive_in_flight

(* An accepted packet is read, unless the connection fails or it came in a   *)
(* batch that was refused.                                                   *)
AcceptedIsRead == []<>(pending = <<>> \/ reader = "failed" \/ refused)

(* An open concludes, by its answer or by the failure of the carrier (unless *)
(* a refused batch held its answer).                                         *)
OpensConclude == []<>(gate = "none" \/ refused)

(* A close of the connection concludes although it waits for an open.        *)
CloseConcludes == []<>(closing # "waiting" \/ refused)
=============================================================================
