--------------------------- MODULE TransportStore ---------------------------
(***************************************************************************)
(* The native transport handles of nnrp-ffi/src/transport.rs: a store of   *)
(* generation-tagged slots behind one lock, the calls that open, read,      *)
(* write, hand over and close what the slots hold, and the shutdown that    *)
(* invalidates them all.  A call that awaits is two steps; everything done  *)
(* under the store's lock is one.                                           *)
(***************************************************************************)
EXTENDS Integers, Sequences, FiniteSets, Functions

CONSTANTS Threads,     \* host threads
          MaxGen,      \* stands for u32::MAX
          MaxMade,     \* resources the host creates
          Shutdowns,   \* shutdowns of the runtime
          Opens,       \* <<operation, transport, scheme>> of the host's open requests
          Configs,     \* <<side, transport>> of the configurations it creates
          Sizes,       \* the sizes of the packets the peer sends, in order
          BatchBytes,  \* max_bytes values of a read
          BatchFrames  \* max_frames values of a read

ASSUME GenerationAssumption == MaxGen \in Nat \ {0}
ASSUME OpensAssumption == \A o \in Opens : o[1] \in {"connect", "listen"}

Connection == "TransportConnection"
Listener == "TransportListener"
SecurityConfig == "TransportSecurityConfig"
Kinds == {Connection, Listener, SecurityConfig}

Cookie == 1
Empty == [kind |-> "none"]
NoConfig == [kind |-> "Invalid", id |-> 0, gen |-> 0, flags |-> 0]
Idle == [op |-> "idle"]

VARIABLES slots,     \* id -> [kind, gen, res, invalidated]
          reusable,  \* kind -> stack of the ids of released slots
          made,      \* resources created so far; each has a number of its own
          given,     \* handle -> the number of the resource it was issued for
          dead,      \* handles closed, consumed or invalidated
          calls,     \* thread -> its call in progress
          carrier,   \* connection number -> its packets and its owner
          shutdowns

vars == <<slots, reusable, made, given, dead, calls, carrier, shutdowns>>

store == [slots |-> slots, reusable |-> reusable]

-----------------------------------------------------------------------------
(* The store.                                                              *)
NewSlot(gen, kind, res) == [kind |-> kind, gen |-> gen, res |-> res, invalidated |-> FALSE]
Handle(kind, id, gen) == [kind |-> kind, id |-> id, gen |-> gen, flags |-> Cookie]

insert(st, kind, res) ==
  LET free == st.reusable[kind]
      id == IF free # <<>> THEN free[Len(free)] ELSE Cardinality(DOMAIN st.slots) + 1
      gen == IF free # <<>> THEN st.slots[id].gen + 1 ELSE 1
  IN [handle |-> Handle(kind, id, gen),
      slots |-> [i \in DOMAIN st.slots \cup {id} |->
                   IF i = id THEN NewSlot(gen, kind, res) ELSE st.slots[i]],
      reusable |-> IF free # <<>> THEN [st.reusable EXCEPT ![kind] = SubSeq(free, 1, Len(free) - 1)]
                                  ELSE st.reusable]

Slot(st, h) == h.flags = Cookie /\ h.id \in DOMAIN st.slots /\ st.slots[h.id].kind = h.kind

\* Mutant of get: the generation of the handle is not compared.
get_AnyGeneration(st, h) == IF Slot(st, h) THEN st.slots[h.id].res ELSE Empty

get(st, h) ==
  IF Slot(st, h) /\ st.slots[h.id].gen = h.gen THEN st.slots[h.id].res ELSE Empty

CanClose(st, h) ==
  /\ Slot(st, h)
  /\ st.slots[h.id].gen = h.gen
  /\ ~st.slots[h.id].invalidated

close(st, h) ==
  [slots |-> [st.slots EXCEPT ![h.id].res = Empty],
   reusable |-> IF st.slots[h.id].res # Empty /\ st.slots[h.id].gen < MaxGen
                THEN [st.reusable EXCEPT ![h.kind] = Append(@, h.id)] ELSE st.reusable]

Ascending(ids) ==
  CHOOSE s \in [1..Cardinality(ids) -> ids] : \A i, j \in DOMAIN s : i < j => s[i] < s[j]

invalidate_all(st) ==
  [slots |-> [i \in DOMAIN st.slots |->
                [st.slots[i] EXCEPT !.res = Empty, !.invalidated = TRUE]],
   reusable |-> [k \in Kinds |-> st.reusable[k] \o
     Ascending({i \in DOMAIN st.slots :
                  st.slots[i].kind = k /\ st.slots[i].res # Empty /\ st.slots[i].gen < MaxGen})]]

-----------------------------------------------------------------------------
(* Which carrier an open request gets: "plain", "tls" or "refused".         *)
get_security_config(st, h) == IF h.kind = SecurityConfig THEN get(st, h) ELSE Empty

Secured(st, config, side, transport) ==
  LET c == get_security_config(st, config)
  IN c # Empty /\ c.side = side /\ c.transport = transport

TlsIf(b) == IF b THEN "tls" ELSE "refused"
PlainIf(b) == IF b THEN "plain" ELSE "refused"

connect_tcp(st, scheme, config) ==
  CASE scheme # "tcp" -> "refused"
    [] scheme = "tcp" /\ config = NoConfig -> "plain"
    [] OTHER -> TlsIf(Secured(st, config, "client", "Tcp"))

listen_tcp(st, scheme, config) ==
  CASE scheme # "tcp" -> "refused"
    [] scheme = "tcp" /\ config = NoConfig -> "plain"
    [] OTHER -> TlsIf(Secured(st, config, "server", "Tcp"))

connect_quic(st, scheme, config) == TlsIf(scheme = "quic" /\ Secured(st, config, "client", "Quic"))
listen_quic(st, scheme, config) == TlsIf(scheme = "quic" /\ Secured(st, config, "server", "Quic"))

connect_secure_websocket(st, config) == TlsIf(Secured(st, config, "client", "WebSocket"))
listen_secure_websocket(st, config) == TlsIf(Secured(st, config, "server", "WebSocket"))

connect_transport(st, transport, scheme, config) ==
  CASE transport = "Tcp" -> connect_tcp(st, scheme, config)
    [] transport = "Ipc" -> PlainIf(config = NoConfig /\ scheme = "ipc")
    [] transport = "WebSocket" /\ scheme = "wss" -> connect_secure_websocket(st, config)
    [] transport = "WebSocket" /\ scheme # "wss" -> PlainIf(config = NoConfig /\ scheme = "ws")
    [] OTHER -> connect_quic(st, scheme, config)

listen_transport(st, transport, scheme, config) ==
  CASE transport = "Tcp" -> listen_tcp(st, scheme, config)
    [] transport = "Ipc" -> PlainIf(config = NoConfig /\ scheme = "ipc")
    [] transport = "WebSocket" /\ scheme = "wss" -> listen_secure_websocket(st, config)
    [] transport = "WebSocket" /\ scheme # "wss" -> PlainIf(config = NoConfig /\ scheme = "ws")
    [] OTHER -> listen_quic(st, scheme, config)

-----------------------------------------------------------------------------
Call(t, c) == calls' = [calls EXCEPT ![t] = c]
Return(t) == Call(t, Idle)

Issue(kind, res) ==
  LET r == insert(store, kind, res)
  IN /\ slots' = r.slots
     /\ reusable' = r.reusable
     /\ made' = made + 1
     /\ given' = IF r.handle \in DOMAIN given THEN given
                 ELSE [h \in DOMAIN given \cup {r.handle} |->
                         IF h = r.handle THEN res.n ELSE given[h]]

NewCarrier(kind, security, asked) ==
  [kind |-> kind, pending |-> <<>>, inbound |-> <<>>, arrived |-> 0, delivered |-> <<>>, lossy |-> FALSE,
   owners |-> 0, security |-> security, asked |-> asked]

AddCarrier(kind, security, asked) ==
  carrier' = [n \in DOMAIN carrier \cup {made + 1} |->
                IF n = made + 1 THEN NewCarrier(kind, security, asked) ELSE carrier[n]]

Init ==
  /\ slots = <<>> /\ reusable = [k \in Kinds |-> <<>>]
  /\ made = 0 /\ given = <<>> /\ dead = {} /\ carrier = <<>> /\ shutdowns = 0
  /\ calls = [t \in Threads |-> Idle]

(* transport_client_security_config_create and its server twin.             *)
CreateSecurityConfig(side, transport) ==
  /\ made < MaxMade
  /\ transport # "Ipc"
  /\ Issue(SecurityConfig, [kind |-> SecurityConfig, n |-> made + 1, side |-> side, transport |-> transport])
  /\ UNCHANGED <<dead, calls, carrier, shutdowns>>

(* transport_connect and transport_listen: the request is validated, then a  *)
(* task resolves the configuration and opens the carrier.                    *)
BeginOpen(t, op, transport, scheme, config) ==
  /\ calls[t] = Idle
  /\ made < MaxMade
  /\ Call(t, [op |-> op, transport |-> transport, scheme |-> scheme, config |-> config])
  /\ UNCHANGED <<slots, reusable, made, given, dead, carrier, shutdowns>>

Asked(c) == c.config # NoConfig \/ c.scheme \in {"wss", "quic"}

EndConnect(t) ==
  LET c == calls[t]
      security == connect_transport(store, c.transport, c.scheme, c.config)
  IN /\ c.op = "connect"
     /\ security # "refused"
     /\ Issue(Connection, [kind |-> Connection, n |-> made + 1])
     /\ AddCarrier(Connection, security, Asked(c))
     /\ Return(t)
     /\ UNCHANGED <<dead, shutdowns>>

EndListen(t) ==
  LET c == calls[t]
      security == listen_transport(store, c.transport, c.scheme, c.config)
  IN /\ c.op = "listen"
     /\ security # "refused"
     /\ Issue(Listener, [kind |-> Listener, n |-> made + 1])
     /\ AddCarrier(Listener, security, Asked(c))
     /\ Return(t)
     /\ UNCHANGED <<dead, shutdowns>>

(* A refused, failed or timed-out call: nothing is stored.                  *)
EndFailed(t) ==
  /\ calls[t] # Idle
  /\ Return(t)
  /\ UNCHANGED <<slots, reusable, made, given, dead, carrier, shutdowns>>

BeginAccept(t, h) ==
  /\ calls[t] = Idle
  /\ made < MaxMade
  /\ h.kind = Listener /\ get(store, h) # Empty
  /\ Call(t, [op |-> "accept", n |-> get(store, h).n])
  /\ UNCHANGED <<slots, reusable, made, given, dead, carrier, shutdowns>>

EndAccept(t) ==
  /\ calls[t].op = "accept"
  /\ Issue(Connection, [kind |-> Connection, n |-> made + 1])
  /\ AddCarrier(Connection, carrier[calls[t].n].security, carrier[calls[t].n].asked)
  /\ Return(t)
  /\ UNCHANGED <<dead, shutdowns>>

(* transport_close: a released slot answers Ok again until it is reused.     *)
TransportClose(h) ==
  /\ CanClose(store, h)
  /\ slots' = close(store, h).slots
  /\ reusable' = close(store, h).reusable
  /\ dead' = dead \cup {h}
  /\ UNCHANGED <<made, given, calls, carrier, shutdowns>>

(* nnrp_transport_runtime_shutdown; the host has no call in progress.        *)
Shutdown ==
  /\ shutdowns < Shutdowns
  /\ \A t \in Threads : calls[t] = Idle
  /\ slots' = invalidate_all(store).slots
  /\ reusable' = invalidate_all(store).reusable
  /\ dead' = dead \cup DOMAIN given
  /\ shutdowns' = shutdowns + 1
  /\ UNCHANGED <<made, given, calls, carrier>>

-----------------------------------------------------------------------------
(* Packets of a connection.                                                *)
PeerSends(n) ==
  /\ carrier[n].kind = Connection /\ carrier[n].arrived < Len(Sizes)
  /\ carrier' = [carrier EXCEPT ![n].arrived = @ + 1,
                                ![n].inbound = Append(@, carrier[n].arrived + 1)]
  /\ UNCHANGED <<slots, reusable, made, given, dead, calls, shutdowns>>

Prefixed(p) == Sizes[p] + 1
Bytes(packets) == FoldFunction(+, 0, [i \in DOMAIN packets |-> Prefixed(packets[i])])
Queue(c) == c.pending \o c.inbound

(* The reader goes on while it has room, and stops at a packet that does not *)
(* fit, or once nothing is pending and none arrives in time.                 *)
Room(taken, frames, bytes) == Len(taken) < frames /\ Bytes(taken) < bytes

Batches(c, frames, bytes) ==
  {k \in 1..Len(Queue(c)) :
     /\ Bytes(SubSeq(Queue(c), 1, k)) <= bytes
     /\ \A j \in 1..(k - 1) : Room(SubSeq(Queue(c), 1, j), frames, bytes)
     /\ \/ k >= Len(c.pending)
        \/ ~Room(SubSeq(Queue(c), 1, k), frames, bytes)
        \/ Bytes(SubSeq(Queue(c), 1, k + 1)) > bytes}

HeldBack(c, k, frames, bytes) ==
  LET taken == SubSeq(Queue(c), 1, k)
      pulled == k < Len(Queue(c)) /\ (k = 0 \/ Room(taken, frames, bytes))
                  /\ Bytes(SubSeq(Queue(c), 1, k + 1)) > bytes
      kept == SubSeq(c.pending, k + 1, Len(c.pending))
  IN IF pulled /\ kept = <<>> THEN <<Queue(c)[k + 1]>> ELSE kept

Usable(h) == h.kind = Connection /\ get(store, h) # Empty

(* After k packets are taken: what is held back, and what is still to come.  *)
AfterRead(c, k, held) ==
  [c EXCEPT !.pending = held,
            !.inbound = SubSeq(Queue(c), k + Len(held) + 1, Len(Queue(c)))]

TransportReadBatch(h, frames, bytes) ==
  /\ Usable(h)
  /\ LET n == get(store, h).n
         c == carrier[n]
     IN \/ \E k \in Batches(c, frames, bytes) :
             carrier' = [carrier EXCEPT ![n] =
               [AfterRead(c, k, HeldBack(c, k, frames, bytes)) EXCEPT
                  !.delivered = @ \o SubSeq(Queue(c), 1, k)]]
        \/ /\ Queue(c) # <<>> /\ Prefixed(Head(Queue(c))) > bytes
           /\ carrier' = [carrier EXCEPT ![n] = AfterRead(c, 0, HeldBack(c, 0, frames, bytes))]
  /\ UNCHANGED <<slots, reusable, made, given, dead, calls, shutdowns>>

(* A read that fails or times out after it took packets drops them.          *)
TransportReadFails(h, frames, bytes) ==
  /\ Usable(h)
  /\ LET n == get(store, h).n
         c == carrier[n]
     IN \E k \in Batches(c, frames, bytes) :
          /\ k >= Len(c.pending) /\ Room(SubSeq(Queue(c), 1, k), frames, bytes)
          /\ carrier' = [carrier EXCEPT ![n] = [AfterRead(c, k, <<>>) EXCEPT !.lossy = TRUE]]
  /\ UNCHANGED <<slots, reusable, made, given, dead, calls, shutdowns>>

-----------------------------------------------------------------------------
(* nnrp_client_connect and nnrp_server_bind take a carrier over:             *)
(* role_transport or role_listener, then consume_role_transport or            *)
(* consume_role_listener once the role's own handle is stored.               *)
BeginRole(t, h) ==
  /\ calls[t] = Idle
  /\ h.kind # SecurityConfig /\ get(store, h) # Empty
  /\ Call(t, [op |-> "role", handle |-> h, n |-> get(store, h).n])
  /\ UNCHANGED <<slots, reusable, made, given, dead, carrier, shutdowns>>

Consumed(h) == CanClose(store, h) /\ get(store, h).kind = h.kind

EndRole(t) ==
  LET c == calls[t]
  IN /\ c.op = "role"
     /\ Consumed(c.handle)
     /\ slots' = close(store, c.handle).slots
     /\ reusable' = close(store, c.handle).reusable
     /\ dead' = dead \cup {c.handle}
     /\ carrier' = [carrier EXCEPT ![c.n].owners = @ + 1]
     /\ Return(t)
     /\ UNCHANGED <<made, given, shutdowns>>

\* Mutant of RoleRead: the role reads the wire before what was held back.
RoleRead_WireFirst(n) ==
  LET c == carrier[n]
  IN /\ c.owners > 0
     /\ c.inbound # <<>>
     /\ carrier' = [carrier EXCEPT ![n].delivered = Append(@, Head(c.inbound)), ![n].inbound = Tail(@)]
     /\ UNCHANGED <<slots, reusable, made, given, dead, calls, shutdowns>>

(* RoleTransport::read_packet: what was held back comes first.               *)
RoleRead(n) ==
  LET c == carrier[n]
  IN /\ c.owners > 0
     /\ Queue(c) # <<>>
     /\ carrier' = [carrier EXCEPT ![n].delivered = Append(@, Head(Queue(c))),
                                   ![n].pending = IF @ = <<>> THEN @ ELSE Tail(@),
                                   ![n].inbound = IF c.pending = <<>> THEN Tail(@) ELSE @]
     /\ UNCHANGED <<slots, reusable, made, given, dead, calls, shutdowns>>

Handles == DOMAIN given \cup {[h EXCEPT !.flags = 0] : h \in DOMAIN given}

Next ==
  \/ \E c \in Configs : CreateSecurityConfig(c[1], c[2])
  \/ \E t \in Threads, o \in Opens, config \in Handles \cup {NoConfig} :
       BeginOpen(t, o[1], o[2], o[3], config)
  \/ \E t \in Threads : EndConnect(t) \/ EndListen(t) \/ EndFailed(t) \/ EndAccept(t) \/ EndRole(t)
  \/ \E t \in Threads, h \in Handles : BeginAccept(t, h) \/ BeginRole(t, h)
  \/ \E h \in Handles : TransportClose(h)
  \/ \E h \in Handles, frames \in BatchFrames, bytes \in BatchBytes :
       TransportReadBatch(h, frames, bytes) \/ TransportReadFails(h, frames, bytes)
  \/ \E n \in DOMAIN carrier : PeerSends(n) \/ RoleRead(n)
  \/ Shutdown

Spec == Init /\ [][Next]_vars

-----------------------------------------------------------------------------
(* A handle that was closed, consumed or invalidated never names a resource  *)
(* again, though its slot does (TransportStore::get, ::insert).  Until its    *)
(* own close, hand-over or a shutdown a handle names the resource it was     *)
(* issued for, whatever is done with older handles of its slot.               *)
HandlesNameTheirResource ==
  /\ \A h \in dead : get(store, h) = Empty
  /\ \A h \in DOMAIN given \ dead : get(store, h) # Empty /\ get(store, h).n = given[h]

(* A slot offered for reuse is offered once, holds nothing and has a         *)
(* generation left; closing twice and shutting down do not break that.       *)
FreeSlotsAreFree ==
  \A k \in Kinds :
    /\ IsInjective(reusable[k])
    /\ \A i \in DOMAIN reusable[k] :
         slots[reusable[k][i]].res = Empty /\ slots[reusable[k][i]].gen < MaxGen

Invalidates == shutdowns' > shutdowns => \A h \in DOMAIN given : ~CanClose(store', h)

(* "handles issued before shutdown remain invalid": after a shutdown no      *)
(* handle of a slot that was not reused since can be closed, not even        *)
(* repeatedly like one that was closed before.                               *)
ShutdownInvalidates == [][Invalidates]_vars

(* A carrier opened with a security configuration, or over a secure scheme,  *)
(* is secure, also when the configuration is closed while the call waits.    *)
SecuredWhenAsked == \A n \in DOMAIN carrier : carrier[n].asked <=> carrier[n].security = "tls"

(* Two roles never drive one carrier: of two threads that hand the same      *)
(* connection over, one is refused.                                          *)
CarrierHasOneOwner == \A n \in DOMAIN carrier : carrier[n].owners <= 1

(* Packets reach the host and then the role in the order the peer sent them, *)
(* and all of them do unless a read failed after it had taken some: a limit  *)
(* too small for a packet delays it, nothing else.                           *)
PacketsKeepOrder ==
  \A n \in DOMAIN carrier :
    LET all == carrier[n].delivered \o Queue(carrier[n])
    IN /\ \A i, j \in DOMAIN all : i < j => all[i] < all[j]
       /\ ~carrier[n].lossy => Len(all) = carrier[n].arrived

(* A carrier is owned by one handle, read or role at a time, is secured when *)
(* the call that opened it asked for security, and gives its packets in the  *)
(* order the peer sent them, through whatever mixture of batches, failed     *)
(* reads and roles.                                                          *)
CarriersKeepTheirWord == CarrierHasOneOwner /\ SecuredWhenAsked /\ PacketsKeepOrder
=============================================================================
