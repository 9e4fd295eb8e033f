---------------------------- MODULE MCConnecting ----------------------------
(***************************************************************************)
(* Instances of what brings a client and a server together: a host that    *)
(* binds its listeners ("bind") and accepts from them ("accept", "fair"),  *)
(* one that chooses and connects a provider ("routes", "ranking"), the     *)
(* handshake of sessions on a connection ("handshake", "resume",           *)
(* "submits") and the states of a connection and its sessions              *)
(* ("lifecycle").  The part is chosen in the initial state; the others     *)
(* rest.                                                                   *)
(***************************************************************************)
EXTENDS TransportSelection, ConnectionLifecycle

VARIABLES
    part,
    server, now, conn, up, toServer, toClient, hello, lock, tasks, opened, sessions, ticket,
    registry, tokens, opens, cancels, refused, tainted,
    input, pc, descriptors, options, selection, toProbe, samples, carriers, adopted,
    listenInput, listenPc, pending, open,
    waiting, stage, broken, closed, nextIndex, recvLock, listenLock, accepted_sessions,
    accepted, serving, timeouts, callers, result, last

handshakeVars == <<server, now, conn, up, toServer, toClient, hello, lock, tasks, opened,
                   sessions, ticket, registry, tokens, opens, cancels, refused, tainted>>
connectVars == <<input, pc, descriptors, options, selection, toProbe, samples, carriers, adopted>>
bindVars == <<listenInput, listenPc, pending, open>>
acceptVars == <<waiting, stage, broken, closed, nextIndex, recvLock, listenLock,
                accepted_sessions, accepted, serving, timeouts, callers, result, last>>
mcVars == <<part, handshakeVars, connectVars, bindVars, acceptVars, vars>>
-----------------------------------------------------------------------------
(* Handshakes: two tasks against servers of different configurations, one    *)
(* task that loses its connection, resumes and drops opens, and one that     *)
(* submits several operations between its resumes.                           *)
Config(req, profile, resume, cap, cache) ==
  [req |-> req, profile |-> profile, schema |-> 1, inflight |-> 1,
   resume |-> resume, cap |-> cap, cache |-> cache]

ServerConfig(profiles, cache, token, window) ==
  [profiles |-> profiles, cache |-> cache, schemas |-> {1}, inflight |-> 1,
   token |-> token, window |-> window]

OneServer == ServerConfig({2}, {}, 1, 1)

Opening == INSTANCE Handshake
             WITH Tasks <- {"a", "b"},
                  Configs <- {Config(0, 2, TRUE, 1, {}), Config(5, 1, FALSE, 0, {1, 2}),
                              Config(5, 2, TRUE, 2, {2})},
                  Servers <- {ServerConfig({1, 2}, {2, 3}, 2, 1), ServerConfig({2}, {}, 0, 1),
                              ServerConfig({2, 33}, {}, 1, 1), ServerConfig({1, 2}, {1}, 1, 0)},
                  MaxOpens <- 3, MaxLost <- 1, MaxCancels <- 0, MaxTime <- 0, MaxOp <- 0
Resuming == INSTANCE Handshake
              WITH Tasks <- {"a"}, Configs <- {Config(0, 2, TRUE, 0, {})}, Servers <- {OneServer},
                   MaxOpens <- 3, MaxLost <- 2, MaxCancels <- 1, MaxTime <- 2, MaxOp <- 1
Submitting == INSTANCE Handshake
                WITH Tasks <- {"a"}, Configs <- {Config(0, 2, TRUE, 0, {})}, Servers <- {OneServer},
                     MaxOpens <- 3, MaxLost <- 2, MaxCancels <- 0, MaxTime <- 0, MaxOp <- 3
-----------------------------------------------------------------------------
(* Hosts with every kind of route of three transports.  A choice is what the *)
(* host has of one transport: providers and a route.                         *)
Up(t) == <<available(t, PureRust)>>
Down(t) == <<missing(t, PureRust)>>
Routed(t, endpoints, securities) ==
  {t :> r : r \in [endpoint : endpoints, security : securities]}
Has(providers, routes) == {[providers |-> providers, routes |-> r] : r \in routes}

Hosts(policies, tcps, ipcs, websockets) ==
  {[application |-> a, policy |-> p,
    providers |-> tcp.providers \o ipc.providers \o ws.providers,
    routes |-> tcp.routes @@ ipc.routes @@ ws.routes] :
      a \in [secure : BOOLEAN, port : BOOLEAN], p \in policies,
      tcp \in tcps, ipc \in ipcs, ws \in websockets}

Schemes == {NoEndpoint, "ws", "wss", "quic"}
ClientHosts ==
  Hosts({Auto, Prefer(Ipc), Force(Tcp), Force(WebSocket)},
        Has(Up(Tcp), Routed(Tcp, {NoEndpoint, "tcp"}, {"none", "ok"}))
          \cup Has(Up(Tcp), Routed(Tcp, {"tcp"}, {"bad"})) \cup Has(<<>>, {<<>>}),
        Has(Up(Ipc), Routed(Ipc, {NoEndpoint, "unix", "npipe"}, {"none", "ok"}))
          \cup Has(<<>>, Routed(Ipc, {"unix"}, {"none"})),
        Has(Up(WebSocket), Routed(WebSocket, Schemes, {"none", "ok", "other", "bad"}))
          \cup Has(Down(WebSocket), {<<>>}) \cup Has(<<>>, {<<>>})
          \cup Has(Up(Tcp), Routed(WebSocket, {"ws"}, {"none"})))
ServerHosts ==
  Hosts({Auto, Prefer(WebSocket), Force(Tcp), Force(Ipc)},
        Has(Up(Tcp), Routed(Tcp, {NoEndpoint, "tcp"}, {"none", "ok", "bad"}))
          \cup Has(Down(Tcp), {<<>>}),
        Has(Up(Ipc), Routed(Ipc, {NoEndpoint, "unix", "npipe"}, {"none", "ok"}))
          \cup Has(<<>>, Routed(Ipc, {"unix"}, {"none"})) \cup Has(<<>>, {<<>>}),
        Has(Up(WebSocket), Routed(WebSocket, Schemes, {"none", "ok", "bad"}))
          \cup Has(Up(Tcp), {<<>>}) \cup Has(<<>>, {<<>>}))

(* Hosts with several eligible providers, of equal or of different cost.     *)
Costing(d, model, units) == [d EXCEPT !.metadata.cost = [model |-> model, units |-> units]]
Free(t) == available(t, PureRust)
RankedHost(p, providers) ==
  [application |-> [secure |-> FALSE, port |-> TRUE], policy |-> p, providers |-> providers,
   routes |-> Quic :> [endpoint |-> NoEndpoint, security |-> "ok"]
              @@ Ipc :> [endpoint |-> "unix", security |-> "none"]]
AHost == RankedHost(Auto, <<Free(Tcp), Free(Quic), Free(Ipc)>>)
RankedHosts ==
  {RankedHost(p, providers) :
      p \in {Auto, Prefer(Tcp)},
      providers \in {AHost.providers,
                     <<Costing(Free(Tcp), 1, 1), Costing(Free(Quic), 2, 1),
                       Costing(Free(Ipc), 1, 2)>>}}

Routing == INSTANCE ClientConnect WITH Inputs <- ClientHosts, Elapsed <- {1}
Choosing == INSTANCE ClientConnect WITH Inputs <- RankedHosts, Elapsed <- {1, 2}
Binding == INSTANCE ServerBind WITH Inputs <- ServerHosts, input <- listenInput, pc <- listenPc
-----------------------------------------------------------------------------
(* Two callers of accept on two listeners; one on three, two without upgrade *)
(* handshake.                                                                *)
Accepting == INSTANCE ServerAccept
               WITH Kinds <- <<"upgrade", "plain">>, Callers <- {"a", "b"},
                    MaxWaiting <- 1, MaxSessions <- 2, MaxTimeouts <- 2,
                    sessions <- accepted_sessions, opened <- accepted, pc <- callers
Fair == INSTANCE ServerAccept
          WITH Kinds <- <<"plain", "upgrade", "plain">>, Callers <- {"a"},
               MaxWaiting <- 1, MaxSessions <- 1, MaxTimeouts <- 1,
               sessions <- accepted_sessions, opened <- accepted, pc <- callers
-----------------------------------------------------------------------------
MCInit ==
    /\ part \in {"handshake", "resume", "submits", "routes", "ranking", "bind", "accept",
                "fair", "lifecycle"}
    /\ CASE part = "handshake" -> Opening!Init [] part \in {"resume", "submits"} -> Resuming!Init
         [] OTHER -> Opening!Start(OneServer)
    /\ CASE part = "routes" -> Routing!Init [] part = "ranking" -> Choosing!Init
         [] OTHER -> Choosing!Start(AHost)
    /\ IF part = "bind" THEN Binding!Init ELSE Binding!Start(AHost)
    /\ IF part = "fair" THEN Fair!Init ELSE Accepting!Init
    /\ Init

MCNext ==
    /\ part' = part
    /\ \/ /\ \/ part = "handshake" /\ Opening!Next
             \/ part = "resume" /\ Resuming!Next
             \/ part = "submits" /\ Submitting!Next
          /\ UNCHANGED <<connectVars, bindVars, acceptVars, vars>>
       \/ /\ \/ part = "routes" /\ Routing!Next
             \/ part = "ranking" /\ Choosing!Next
          /\ UNCHANGED <<handshakeVars, bindVars, acceptVars, vars>>
       \/ part = "bind" /\ Binding!Next /\ UNCHANGED <<handshakeVars, connectVars, acceptVars, vars>>
       \/ /\ \/ part = "accept" /\ Accepting!Next
             \/ part = "fair" /\ Fair!Next
          /\ UNCHANGED <<handshakeVars, connectVars, bindVars, vars>>
       \/ part = "lifecycle" /\ Next /\ UNCHANGED <<handshakeVars, connectVars, bindVars, acceptVars>>

\* The server task and the client's tasks run; the host calls accept again and
\* again, the executor polls its tasks, and a handshake left alone ends.
MCFairness ==
    /\ WF_handshakeVars(part = "handshake" /\ Opening!Server)
    /\ \A t \in {"a", "b"} : WF_handshakeVars(part = "handshake" /\ Opening!Client(t))
    /\ WF_acceptVars(part = "fair" /\ Fair!Call("a"))
    /\ SF_acceptVars(part = "fair" /\ Fair!TryRecv("a"))
    /\ WF_acceptVars(part = "fair" /\ Fair!Poll("a"))
    /\ SF_acceptVars(part = "fair" /\ Fair!Handshake(2) /\ stage'[2] = "ready")

MCSpec == MCInit /\ [][MCNext]_mcVars /\ MCFairness
-----------------------------------------------------------------------------
\* A session has the profile and schema its own open asked for, and the id when one
\* was asked for, although acknowledgements carry no reference to their request.
\* The client takes every acknowledgement the server sends, except a rejection, a
\* token larger than it asked for, an id its connection has had before, and the
\* acknowledgement of a server that issues tokens with no window to use them in.
\* The ticket a session would give its host is one the server would honour once the
\* connection is lost, and its cursor is never behind the last operation the
\* server has received for the session, across any number of resumes.
OpensAreHonoured ==
    /\ Opening!SessionsAreAsAsked
    /\ Opening!RefusalsAreExplained
    /\ Resuming!TicketsAreHonoured
    /\ Resuming!CursorCoversServer

\* A host that names an nnrps:// endpoint never gets a plain carrier and a server of
\* one listens on none; the carrier adopted is one the policy allows, and its
\* provider refuses its route as unsupported only for a WSS route that names
\* another host and for the IPC scheme of the other platform.  With several eligible
\* providers, the one selected was answered as often as any other, and among those
\* no other measured a higher throughput; every installed or routed provider has
\* exactly one diagnostic, the ranked ones first with consecutive ranks.
RoutesKeepThePolicy ==
    /\ Routing!SecureEndpointsStaySecure
    /\ Routing!SelectedRoutesConnect
    /\ Binding!SecureServersStaySecure
    /\ Choosing!EvidenceDecides
    /\ Choosing!DiagnosticsAreComplete

\* When a connect returns, no probe's transport is left open: the client holds the
\* adopted carrier or nothing.  A listen that fails leaves no listener bound; one
\* that succeeds binds every available provider the policy allows except those the
\* endpoint's security excludes, the preferred one first.
NothingIsLeftOpen == Routing!ProbesLeaveNothingOpen /\ Binding!ListenIsAllOrNothing

\* accept says that the listener set is closed only when no session is queued,
\* unless another caller is receiving it (server.rs, the order of the select); and
\* a connection leaves the backlog of a listener without handshake only to be
\* served, one at a time, or with the whole set.
AcceptsLoseNothing ==
    [][part = "accept" => Accepting!EndsDrained /\ Accepting!TakesToServe]_acceptVars

\* Every open returns, whatever the other tasks open and although the connection
\* may be lost, as long as the server task and the client's tasks run.  And while
\* one caller accepts, a connection waiting at a listener without handshake is
\* taken sooner or later, however busy the others are (next_accept_index).
OpensConclude ==
    /\ \A t \in {"a", "b"} : []<>(part = "handshake" => tasks[t] = Opening!Idle)
    /\ \A l \in {1, 3} : []<>(part = "fair" => waiting[l] = 0 \/ last = l \/ closed)
=============================================================================
