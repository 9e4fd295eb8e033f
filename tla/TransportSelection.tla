------------------------- MODULE TransportSelection -------------------------
(***************************************************************************)
(* Choosing one transport provider among those installed                     *)
(* (nnrp-transport-provider/src/lib.rs, TransportPolicy of nnrp-core): the   *)
(* validation of the evidence, the rejection of candidates, the ranking by   *)
(* probe metrics, and the diagnostics.  A provider id is a number ordered    *)
(* as the string is, 0 being one that is empty or not ASCII.                 *)
(***************************************************************************)
EXTENDS Integers, Sequences, FiniteSets, FiniteSetsExt, SequencesExt

CONSTANT Platform            \* "unix" or "windows"

Quic == 1
Tcp == 2
Ipc == 3
WebSocket == 4
NoTransport == -1

is_selectable_transport(t) == t \in {Quic, Tcp, Ipc, WebSocket}

-----------------------------------------------------------------------------
(* TransportPolicy: a mode and the transport it names.                       *)
Auto == [mode |-> "auto", transport |-> NoTransport]
Prefer(t) == [mode |-> "prefer", transport |-> t]
Force(t) == [mode |-> "force", transport |-> t]

allows(policy, t) ==
  IF policy.mode = "force" THEN t = policy.transport ELSE is_selectable_transport(t)

preferred_transport(policy) == policy.transport

forced_transport(policy) == IF policy.mode = "force" THEN policy.transport ELSE NoTransport

-----------------------------------------------------------------------------
(* Descriptors.                                                              *)
Wasm == "wasm"
PureRust == "pure_rust"
MaxRank == 65535
DefaultCost == [model |-> 0, units |-> 0]
DefaultLimit == 2            \* DEFAULT_PROVIDER_MAX_FRAME_BYTES, scaled

OfficialId(t, kind) ==
  IF kind = Wasm
  THEN IF t = WebSocket THEN 5 ELSE 4
  ELSE CASE t = Ipc -> 1 [] t = Quic -> 2 [] t = Tcp -> 3 [] t = WebSocket -> 7 [] OTHER -> 6

official(t, kind) ==
  [id |-> OfficialId(t, kind),
   cost |-> DefaultCost,
   rank |-> IF kind = Wasm
            THEN IF t = WebSocket THEN 3 ELSE MaxRank
            ELSE CASE t = Ipc -> 0 [] t = Quic -> 1 [] t = Tcp -> 2 [] t = WebSocket -> 3
                   [] OTHER -> MaxRank,
   limit |-> DefaultLimit,
   limitations |-> <<>>]

available(t, kind) ==
  [transport |-> t, kind |-> kind, available |-> TRUE, metadata |-> official(t, kind)]

missing(t, kind) ==
  [transport |-> t, kind |-> kind, available |-> FALSE, metadata |-> official(t, kind)]

validate_provider_metadata(m) ==
  /\ m.id # 0
  /\ m.cost.model = 0 => m.cost.units = 0
  /\ m.limit # 0
  /\ Cardinality(ToSet(m.limitations)) = Len(m.limitations)

-----------------------------------------------------------------------------
(* Evidence: readiness of each candidate and observations of its probes.     *)
ready(t, id) == [transport |-> t, id |-> id, route |-> TRUE, security |-> TRUE]
route_unresolved(t, id) == [transport |-> t, id |-> id, route |-> FALSE, security |-> TRUE]
security_unsatisfied(t, id) == [transport |-> t, id |-> id, route |-> TRUE, security |-> FALSE]

NoMetrics == [samples |-> 0, successes |-> 0, throughput |-> 0, rtt |-> 0]
succeeded(t, id, metrics) ==
  [transport |-> t, id |-> id, state |-> "succeeded", metrics |-> metrics]
failed(t, id) == [transport |-> t, id |-> id, state |-> "failed", metrics |-> NoMetrics]

Key(e) == <<e.transport, e.id>>
ProviderKey(p) == <<p.transport, p.metadata.id>>
Distinct(s, F(_)) == \A i, j \in DOMAIN s : F(s[i]) = F(s[j]) => i = j

validate_probe_metrics(m) == m.samples # 0 /\ m.successes \in 1..m.samples

ValidProviders(providers) ==
  /\ \A i \in DOMAIN providers : /\ validate_provider_metadata(providers[i].metadata)
                                 /\ is_selectable_transport(providers[i].transport)
  /\ Distinct(providers, LAMBDA p : p.transport)
  /\ Distinct(providers, LAMBDA p : p.metadata.id)

ValidReadiness(providers, readiness) ==
  /\ \A i \in DOMAIN readiness : readiness[i].id # 0
  /\ Distinct(readiness, Key)
  /\ {Key(readiness[i]) : i \in DOMAIN readiness}
       = {ProviderKey(providers[i]) : i \in DOMAIN providers}

ValidObservations(providers, observations) ==
  /\ Distinct(observations, Key)
  /\ \A i \in DOMAIN observations :
       LET o == observations[i] IN
       /\ o.id # 0
       /\ \E j \in DOMAIN providers : ProviderKey(providers[j]) = Key(o)
       /\ \/ o.state = "succeeded" /\ validate_probe_metrics(o.metrics)
          \/ o.state = "failed" /\ o.metrics = NoMetrics

validate_selection_evidence(providers, readiness, observations) ==
  /\ ValidProviders(providers)
  /\ ValidReadiness(providers, readiness)
  /\ ValidObservations(providers, observations)

-----------------------------------------------------------------------------
(* Candidates.                                                               *)
RemoteSupports(peer, t) == is_selectable_transport(t) /\ t \in peer

RejectionReason(p, peer, policy, requested, r) ==
  CASE ~allows(policy, p.transport)          -> "policy_disallowed"
    [] ~p.available                          -> "local_unavailable"
    [] ~RemoteSupports(peer, p.transport)    -> "peer_unsupported"
    [] requested > p.metadata.limit          -> "limit_exceeded"
    [] ~r.route                              -> "route_unresolved"
    [] ~r.security                           -> "security_unsatisfied"
    [] OTHER                                 -> "none"

evaluate_candidates(providers, peer, policy, requested, readiness) ==
  LET Evaluated(p) ==
        LET r == readiness[CHOOSE i \in DOMAIN readiness : Key(readiness[i]) = ProviderKey(p)]
        IN [provider |-> p, probe_state |-> "not_run", probe |-> NoMetrics, rank |-> -1,
            rejection |-> RejectionReason(p, peer, policy, requested, r)]
      chosen == SelectSeq(providers, LAMBDA p : is_selectable_transport(p.transport))
  IN [i \in DOMAIN chosen |-> Evaluated(chosen[i])]

eligible_indices(candidates) == {i \in DOMAIN candidates : candidates[i].rejection = "none"}

(* Ordering is -1, 0 or 1; then_with takes the first that is not 0.          *)
Cmp(a, b) == IF a < b THEN -1 ELSE IF a > b THEN 1 ELSE 0
FirstDifference(s) ==
  LET different == {i \in DOMAIN s : s[i] # 0}
  IN IF different = {} THEN 0 ELSE s[Min(different)]
Rank01(b) == IF b THEN 1 ELSE 0

compare_cost(l, r) == IF l.model # 0 /\ l.model = r.model THEN Cmp(l.units, r.units) ELSE 0

compare_candidates(l, r, policy) ==
  LET preferred(c) == Rank01(c.provider.transport = preferred_transport(policy)) IN
  FirstDifference(<<Cmp(r.probe.successes, l.probe.successes),
                    Cmp(r.probe.throughput, l.probe.throughput),
                    Cmp(l.probe.rtt, r.probe.rtt),
                    compare_cost(l.provider.metadata.cost, r.provider.metadata.cost),
                    Cmp(preferred(r), preferred(l)),
                    Cmp(l.provider.metadata.rank, r.provider.metadata.rank),
                    Cmp(l.provider.transport, r.provider.transport),
                    Cmp(l.provider.metadata.id, r.provider.metadata.id)>>)

(* sort_by of a short slice: each element moves left past those it is less   *)
(* than.                                                                     *)
sort_by(s, Compare(_, _)) ==
  LET Insert(sorted, x) ==
        LET stops == {i \in DOMAIN sorted : Compare(x, sorted[i]) >= 0}
        IN InsertAt(sorted, IF stops = {} THEN 1 ELSE Max(stops) + 1, x)
  IN FoldLeft(Insert, <<>>, s)

ordered_diagnostics(candidates) ==
  sort_by(candidates,
          LAMBDA l, r : CASE l.rank >= 0 /\ r.rank >= 0 -> Cmp(l.rank, r.rank)
                          [] l.rank >= 0                -> -1
                          [] r.rank >= 0                -> 1
                          [] OTHER -> FirstDifference(
                               <<Cmp(l.provider.transport, r.provider.transport),
                                 Cmp(l.provider.metadata.id, r.provider.metadata.id)>>))

Selected(candidates, i) ==
  [outcome |-> "selected", provider |-> candidates[i].provider,
   candidates |-> ordered_diagnostics(candidates)]

direct_selection(candidates, i) == Selected([candidates EXCEPT ![i].rank = 0], i)

SelectionFailed(outcome, candidates) ==
  [outcome |-> outcome, provider |-> <<>>, candidates |-> candidates]

selection_error(policy, candidates) ==
  SelectionFailed(IF forced_transport(policy) # NoTransport THEN "forced_unavailable"
                                                            ELSE "no_viable",
                  ordered_diagnostics(candidates))

invalid_evidence == SelectionFailed("invalid_evidence", <<>>)

Missing(c) == [c EXCEPT !.probe_state = "missing", !.rejection = "probe_missing"]

select_transport(providers, options) ==
  LET candidates == evaluate_candidates(providers, options.peer, options.policy,
                                        options.requested, options.readiness)
      eligible == eligible_indices(candidates)
  IN IF ~validate_selection_evidence(providers, options.readiness, <<>>)
     THEN invalid_evidence
     ELSE IF Cardinality(eligible) = 1
     THEN direct_selection(candidates, CHOOSE i \in eligible : TRUE)
     ELSE selection_error(options.policy,
                          [i \in DOMAIN candidates |-> IF i \in eligible
                                                       THEN Missing(candidates[i])
                                                       ELSE candidates[i]])

-----------------------------------------------------------------------------

Observed(c, observations) ==
  LET matching == {i \in DOMAIN observations : Key(observations[i]) = ProviderKey(c.provider)}
  IN IF matching = {} THEN Missing(c)
     ELSE LET o == observations[Min(matching)] IN
          IF o.state = "succeeded"
          THEN [c EXCEPT !.probe_state = "succeeded", !.probe = o.metrics]
          ELSE [c EXCEPT !.probe_state = "failed", !.rejection = "probe_failed"]

Ranking(candidates, policy) ==
  sort_by(SelectSeq([i \in DOMAIN candidates |-> i],
                    LAMBDA i : candidates[i].probe_state = "succeeded"),
          LAMBDA i, j : compare_candidates(candidates[i], candidates[j], policy))

select_transport_with_probe(providers, options) ==
  LET evaluated == evaluate_candidates(providers, options.peer, options.policy,
                                       options.requested, options.readiness)
      eligible == eligible_indices(evaluated)
      probed == [i \in DOMAIN evaluated |->
                   IF i \in eligible THEN Observed(evaluated[i], options.observations)
                                     ELSE evaluated[i]]
      ranking == Ranking(probed, options.policy)
      ranked == [i \in DOMAIN probed |->
                   IF i \in ToSet(ranking)
                   THEN [probed[i] EXCEPT !.rank = (CHOOSE k \in DOMAIN ranking :
                                                      ranking[k] = i) - 1]
                   ELSE probed[i]]
  IN IF ~validate_selection_evidence(providers, options.readiness, options.observations)
     THEN invalid_evidence
     ELSE IF Cardinality(eligible) = 1
     THEN direct_selection(evaluated, CHOOSE i \in eligible : TRUE)
     ELSE IF ranking # <<>> THEN Selected(ranked, ranking[1])
     ELSE selection_error(options.policy, ranked)

-----------------------------------------------------------------------------
(* Probe samples.  A sample carries what was moved in one time unit over one *)
(* elapsed unit: bytes per second is ProbeBytes divided by elapsed.          *)
ProbeBytes == 12
success(elapsed) == [elapsed |-> elapsed, failed |-> FALSE]
failure(elapsed) == [elapsed |-> elapsed, failed |-> TRUE]

is_successful(s) == ~s.failed /\ s.elapsed > 0

median(values) ==
  LET sorted == sort_by(values, Cmp)
      upper == (Len(sorted) \div 2) + 1
  IN IF Len(sorted) % 2 = 1 THEN sorted[upper]
     ELSE sorted[upper - 1] + (sorted[upper] - sorted[upper - 1]) \div 2

summarize_provider_probe(samples) ==
  LET good == SelectSeq(samples, is_successful)
  IN IF good = <<>> THEN NoMetrics
     ELSE [samples |-> Len(samples), successes |-> Len(good),
           throughput |-> median([i \in DOMAIN good |-> ProbeBytes \div good[i].elapsed]),
           rtt |-> median([i \in DOMAIN good |-> good[i].elapsed])]

-----------------------------------------------------------------------------
(* Routes of a host: the application endpoint (nnrp:// or nnrps://), the     *)
(* provider endpoint and the security material of each transport, what the   *)
(* client and the server accept of them (nnrp-runtime/src/route.rs,          *)
(* client_provider.rs, server_provider.rs) and what the TCP, QUIC, IPC and   *)
(* WebSocket providers then do with them.  A provider endpoint is its        *)
(* scheme; security is "none", valid ("ok"), valid with the name of another  *)
(* host ("other") or empty ("bad").                                          *)
NoEndpoint == "none"
NoRoute == [endpoint |-> NoEndpoint, security |-> "none"]

is_secure(endpoint) == endpoint = "wss"

matches_transport(endpoint, t) ==
  \/ t = Tcp /\ endpoint = "tcp"
  \/ t = Quic /\ endpoint = "quic"
  \/ t = Ipc /\ endpoint \in {"unix", "npipe"}
  \/ t = WebSocket /\ endpoint \in {"ws", "wss"}

ClientSecurityValid(security) == security # "bad"
ServerSecurityValid(security) == security # "bad"

validate_for(route, t) ==
  /\ route.endpoint # NoEndpoint => matches_transport(route.endpoint, t)
  /\ ServerSecurityValid(route.security)

-----------------------------------------------------------------------------
(* The client.                                                               *)
derive_provider_endpoint(application, t) ==
  CASE ~application.port -> NoEndpoint
    [] t = Tcp           -> "tcp"
    [] t = Quic          -> "quic"
    [] OTHER             -> NoEndpoint

validate_security_PlainTcp(application, endpoint, security, descriptor) ==
  LET t == descriptor.transport IN
  CASE t = Quic      -> security # "none"
    [] t = Ipc       -> security = "none" /\ ~application.secure
    [] t = WebSocket -> /\ application.secure => is_secure(endpoint)
                        /\ is_secure(endpoint) = (security # "none")
    [] OTHER         -> TRUE

validate_security(application, endpoint, security, descriptor) ==
  LET t == descriptor.transport IN
  CASE t = Quic      -> security # "none"
    [] t = Tcp       -> application.secure => security # "none"
    [] t = Ipc       -> security = "none" /\ ~application.secure
    [] t = WebSocket ->
         /\ ~is_secure(endpoint) => security = "none"
         /\ application.secure => is_secure(endpoint)
         /\ descriptor.kind = Wasm /\ is_secure(endpoint) => security = "none"
         /\ descriptor.kind # Wasm /\ is_secure(endpoint) => security # "none"
    [] OTHER         -> TRUE

ResolvedEndpoint(application, route, t) ==
  IF route.endpoint # NoEndpoint THEN route.endpoint ELSE derive_provider_endpoint(application, t)

(* resolve_candidate: the readiness it reports; the route is resolved when   *)
(* the candidate is ready and its provider available.                        *)
resolve_candidate(application, route, d) ==
  LET id == d.metadata.id
      endpoint == ResolvedEndpoint(application, route, d.transport)
  IN CASE ~d.available -> ready(d.transport, id)
       [] route.endpoint # NoEndpoint /\ ~matches_transport(route.endpoint, d.transport) ->
            route_unresolved(d.transport, id)
       [] ~ClientSecurityValid(route.security) -> security_unsatisfied(d.transport, id)
       [] endpoint = NoEndpoint -> route_unresolved(d.transport, id)
       [] ~validate_security(application, endpoint, route.security, d) ->
            security_unsatisfied(d.transport, id)
       [] OTHER -> ready(d.transport, id)

-----------------------------------------------------------------------------
(* What each provider does when it connects or binds: "tls", "plain", or     *)
(* "unsupported" when it refuses the route.                                  *)
TcpConnects(endpoint, security) ==
  CASE endpoint # "tcp"    -> "unsupported"
    [] security = "none"   -> "plain"
    [] OTHER               -> "tls"

QuicConnects(endpoint, security) ==
  IF endpoint # "quic" \/ security = "none" THEN "unsupported" ELSE "tls"

IpcSupports(endpoint) == endpoint = (IF Platform = "unix" THEN "unix" ELSE "npipe")

IpcConnects(endpoint, security) ==
  IF security # "none" \/ ~IpcSupports(endpoint) THEN "unsupported" ELSE "plain"

WebSocketConnects(endpoint, security) ==
  CASE endpoint \notin {"ws", "wss"}              -> "unsupported"
    [] is_secure(endpoint) # (security # "none")  -> "unsupported"
    [] security = "other"                         -> "unsupported"
    [] is_secure(endpoint)                        -> "tls"
    [] OTHER                                      -> "plain"

ProviderConnects(t, endpoint, security) ==
  CASE t = Tcp       -> TcpConnects(endpoint, security)
    [] t = Quic      -> QuicConnects(endpoint, security)
    [] t = Ipc       -> IpcConnects(endpoint, security)
    [] t = WebSocket -> WebSocketConnects(endpoint, security)

TcpBinds(endpoint, security) ==
  CASE endpoint # "tcp"    -> "unsupported"
    [] security = "none"   -> "plain"
    [] OTHER               -> "tls"

QuicBinds(endpoint, security) ==
  IF endpoint # "quic" \/ security = "none" THEN "unsupported" ELSE "tls"

IpcBinds(endpoint, security) ==
  IF security # "none" \/ ~IpcSupports(endpoint) THEN "unsupported" ELSE "plain"

WebSocketBinds(endpoint, security) ==
  CASE endpoint \notin {"ws", "wss"}              -> "unsupported"
    [] is_secure(endpoint) # (security # "none")  -> "unsupported"
    [] is_secure(endpoint)                        -> "tls"
    [] OTHER                                      -> "plain"

ProviderBinds(t, endpoint, security) ==
  CASE t = Tcp       -> TcpBinds(endpoint, security)
    [] t = Quic      -> QuicBinds(endpoint, security)
    [] t = Ipc       -> IpcBinds(endpoint, security)
    [] t = WebSocket -> WebSocketBinds(endpoint, security)

-----------------------------------------------------------------------------
(* The server.                                                               *)
resolve_server_endpoint(application, t, route) ==
  CASE ~validate_for(route, t)        -> NoEndpoint
    [] route.endpoint # NoEndpoint    -> route.endpoint
    [] ~application.port              -> NoEndpoint
    [] t = Tcp                        -> "tcp"
    [] t = Quic                       -> "quic"
    [] OTHER                          -> NoEndpoint

ServerIneligible(application, endpoint, security, t) ==
  \/ t = Quic /\ security = "none"
  \/ t = Tcp /\ application.secure /\ security = "none"
  \/ t = Ipc /\ application.secure
  \/ t = WebSocket /\ application.secure /\ ~is_secure(endpoint)
  \/ t = WebSocket /\ is_secure(endpoint) /\ security = "none"

(* validate_server_security: "rejected" fails the listen, "ineligible" only  *)
(* leaves the provider out unless it is forced.                              *)
validate_server_security(application, endpoint, security, t) ==
  CASE ~ServerSecurityValid(security)                                     -> "rejected"
    [] t = Ipc /\ security # "none"                                       -> "rejected"
    [] t = WebSocket /\ ~is_secure(endpoint) /\ security # "none"         -> "rejected"
    [] ServerIneligible(application, endpoint, security, t)               -> "ineligible"
    [] OTHER                                                              -> "eligible"

=============================================================================
