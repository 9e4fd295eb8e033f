---------------------------- MODULE ClientConnect ----------------------------
(***************************************************************************)
(* connect_client (nnrp-runtime/src/client_provider.rs): the routes of the   *)
(* installed providers are resolved, one provider is selected, by probing    *)
(* when several are eligible, and its carrier adopted.  The peer may refuse  *)
(* any connection and lose or answer any probe.                              *)
(***************************************************************************)
EXTENDS TransportSelection

CONSTANTS Inputs,          \* [application, routes, policy, providers]
          Elapsed          \* durations of a probe sample

ProbeSampleCount == 3
DefaultPacketBytes == 2      \* RuntimeFrameLimits::DEFAULT_MAX_PACKET_BYTES, scaled

VARIABLES input,
          pc,             \* "start", "probe", "sample", "select", "connect", "done", "failed"
          descriptors, options, selection,
          toProbe,        \* candidates whose probe is still to run
          samples,        \* of the provider being probed
          carriers,       \* provider keys of the open transports
          adopted         \* what the connected carrier offers, or "none"

vars == <<input, pc, descriptors, options, selection, toProbe, samples, carriers, adopted>>

Route(t) == IF t \in DOMAIN input.routes THEN input.routes[t] ELSE NoRoute
NoSelection == SelectionFailed("none", <<>>)

reject_duplicate_transports(providers) ==
  /\ Distinct(providers, LAMBDA p : p.transport)
  /\ Distinct(providers, LAMBDA p : p.metadata.id)

add_uninstalled_route_descriptors(providers, routes) ==
  LET uninstalled == DOMAIN routes \ {providers[i].transport : i \in DOMAIN providers}
      ordered == SetToSortSeq(uninstalled, <)
  IN providers \o [i \in DOMAIN ordered |-> missing(ordered[i], PureRust)]

requires_probe(result) ==
  /\ result.outcome # "invalid_evidence"
  /\ Cardinality({i \in DOMAIN result.candidates :
                    result.candidates[i].rejection = "probe_missing"}) > 1

MissingCandidates(result) ==
  SelectSeq(result.candidates, LAMBDA c : c.probe_state = "missing")

Start(i) ==
  /\ input = i
  /\ pc = "start"
  /\ descriptors = <<>> /\ options = <<>> /\ selection = NoSelection
  /\ toProbe = <<>> /\ samples = <<>> /\ carriers = {} /\ adopted = "none"

Init == \E i \in Inputs : Start(i)

(* Everything up to the first selection.                                     *)
connect_client ==
  LET all == add_uninstalled_route_descriptors(input.providers, input.routes)
      opts == [peer |-> {all[i].transport : i \in DOMAIN all},
               policy |-> input.policy,
               requested |-> DefaultPacketBytes,
               readiness |-> [i \in DOMAIN all |->
                                resolve_candidate(input.application, Route(all[i].transport),
                                                  all[i])],
               observations |-> <<>>]
      initial == select_transport(all, opts)
  IN /\ pc = "start"
     /\ IF ~reject_duplicate_transports(input.providers)
        THEN /\ pc' = "failed"
             /\ UNCHANGED <<descriptors, options, selection, toProbe>>
        ELSE /\ descriptors' = all
             /\ options' = opts
             /\ selection' = initial
             /\ toProbe' = IF requires_probe(initial) THEN MissingCandidates(initial) ELSE <<>>
             /\ pc' = CASE initial.outcome = "selected" -> "connect"
                        [] requires_probe(initial)      -> "probe"
                        [] OTHER                        -> "failed"
     /\ UNCHANGED <<input, samples, carriers, adopted>>

Probed == Head(toProbe).provider
ProbedRoute == Route(Probed.transport)

(* probe_provider connects; a refused connection is one failed sample.       *)
ProbeConnect ==
  /\ pc = "probe" /\ toProbe # <<>>
  /\ \/ /\ ProviderConnects(Probed.transport,
                            ResolvedEndpoint(input.application, ProbedRoute, Probed.transport),
                            ProbedRoute.security) # "unsupported"
        /\ carriers' = carriers \cup {ProviderKey(Probed)}
        /\ samples' = <<>>
        /\ pc' = "sample"
     \/ /\ \E e \in Elapsed : samples' = <<failure(e)>>
        /\ pc' = "summary"
        /\ UNCHANGED carriers
  /\ UNCHANGED <<input, descriptors, options, selection, toProbe, adopted>>

(* One TRANSPORT_PROBE: answered, or the last one.  The transport is closed  *)
(* after the last sample, whatever its outcome.                              *)
ProbeSample_Leaks ==
  /\ pc = "sample"
  /\ \E e \in Elapsed, ok \in BOOLEAN :
       /\ samples' = Append(samples, IF ok THEN success(e) ELSE failure(e))
       /\ LET over == ~ok \/ Len(samples') = ProbeSampleCount IN
          /\ pc' = IF over THEN "summary" ELSE "sample"
          /\ carriers' = IF over /\ ok THEN carriers \ {ProviderKey(Probed)} ELSE carriers
  /\ UNCHANGED <<input, descriptors, options, selection, toProbe, adopted>>

ProbeSample ==
  /\ pc = "sample"
  /\ \E e \in Elapsed, ok \in BOOLEAN :
       /\ samples' = Append(samples, IF ok THEN success(e) ELSE failure(e))
       /\ LET over == ~ok \/ Len(samples') = ProbeSampleCount IN
          /\ pc' = IF over THEN "summary" ELSE "sample"
          /\ carriers' = IF over THEN carriers \ {ProviderKey(Probed)} ELSE carriers
  /\ UNCHANGED <<input, descriptors, options, selection, toProbe, adopted>>

(* The samples of one candidate become its observation.                      *)
ProbeSummary ==
  LET metrics == summarize_provider_probe(samples)
      observation == IF metrics = NoMetrics
                     THEN failed(Probed.transport, Probed.metadata.id)
                     ELSE succeeded(Probed.transport, Probed.metadata.id, metrics)
  IN /\ pc = "summary"
     /\ options' = [options EXCEPT !.observations = Append(@, observation)]
     /\ toProbe' = Tail(toProbe)
     /\ samples' = <<>>
     /\ pc' = "probe"
     /\ UNCHANGED <<input, descriptors, selection, carriers, adopted>>

SelectWithProbe ==
  LET result == select_transport_with_probe(descriptors, options)
  IN /\ pc = "probe" /\ toProbe = <<>>
     /\ selection' = result
     /\ pc' = IF result.outcome = "selected" THEN "connect" ELSE "failed"
     /\ UNCHANGED <<input, descriptors, options, toProbe, samples, carriers, adopted>>

(* The selected provider connects; its failure is the failure of the call.   *)
Connect ==
  LET t == selection.provider.transport
      offer == ProviderConnects(t, ResolvedEndpoint(input.application, Route(t), t),
                                Route(t).security)
  IN /\ pc = "connect"
     /\ \/ /\ offer # "unsupported"
           /\ carriers' = carriers \cup {ProviderKey(selection.provider)}
           /\ adopted' = offer
           /\ pc' = "done"
        \/ /\ adopted' = IF offer = "unsupported" THEN offer ELSE adopted
           /\ pc' = "failed"
           /\ UNCHANGED carriers
     /\ UNCHANGED <<input, descriptors, options, selection, toProbe, samples>>

Finished == pc \in {"done", "failed"} /\ UNCHANGED vars

Next == \/ connect_client \/ ProbeConnect \/ ProbeSample \/ ProbeSummary
        \/ SelectWithProbe \/ Connect \/ Finished

Spec == Init /\ [][Next]_vars

-----------------------------------------------------------------------------
(* A host that names an nnrps:// endpoint never gets a plain carrier, and    *)
(* the carrier adopted is one its policy allows: what validate_security and  *)
(* the selection let through is what the provider's connect encrypts         *)
(* (client_provider.rs:267, the connect of each transport crate).            *)
SecureEndpointsStaySecure ==
  pc = "done" => /\ input.application.secure => adopted = "tls"
                 /\ allows(input.policy, selection.provider.transport)

(* The provider selected refuses its route as unsupported only in the two    *)
(* cases the selection cannot see: a WSS route that names another host, and  *)
(* the IPC scheme of the other platform (client_provider.rs:142).            *)
SelectedRoutesConnect ==
  LET t == selection.provider.transport IN
  adopted = "unsupported" =>
    \/ t = WebSocket /\ Route(t).security = "other"
    \/ t = Ipc /\ ~IpcSupports(Route(t).endpoint)

(* When the call returns, no probe's transport is left open: the client      *)
(* holds the adopted carrier or nothing (client_provider.rs:447).            *)
ProbesLeaveNothingOpen ==
  pc \in {"done", "failed"} =>
    carriers = IF pc = "done" THEN {ProviderKey(selection.provider)} ELSE {}

(* With several eligible providers, the one selected was answered as often   *)
(* as any other, and among those no other measured a higher throughput       *)
(* (lib.rs compare_candidates, summarize_provider_probe).                    *)
EvidenceDecides ==
  pc = "done" /\ options.observations # <<>> =>
    LET probed(c) == c.probe_state = "succeeded"
        chosen == Head(selection.candidates)
    IN /\ chosen.provider = selection.provider /\ probed(chosen)
       /\ \A i \in DOMAIN selection.candidates :
            LET c == selection.candidates[i] IN
            probed(c) => \/ c.probe.successes < chosen.probe.successes
                         \/ /\ c.probe.successes = chosen.probe.successes
                            /\ c.probe.throughput <= chosen.probe.throughput

(* Every installed or routed provider has exactly one diagnostic; the ranked *)
(* ones come first with consecutive ranks, and a candidate of a selection by *)
(* probe is ranked or rejected, never both (lib.rs ordered_diagnostics).     *)
DiagnosticsAreComplete ==
  LET cs == selection.candidates IN
  selection.outcome \in {"selected", "no_viable", "forced_unavailable"} =>
    /\ {cs[i].provider : i \in DOMAIN cs} = ToSet(descriptors)
    /\ Len(cs) = Len(descriptors)
    /\ \A i \in DOMAIN cs : /\ cs[i].rank >= 0 => cs[i].rank = i - 1
                            /\ (cs[i].rank >= 0) = (cs[i].rejection = "none")
=============================================================================
