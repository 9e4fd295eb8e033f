----------------------------- MODULE ServerBind -----------------------------
(***************************************************************************)
(* bind_server (nnrp-runtime/src/server_provider.rs): the listeners of every *)
(* policy-allowed provider are bound one after another into one logical      *)
(* server, or none is.  Any bind may fail.                                   *)
(***************************************************************************)
EXTENDS TransportSelection

CONSTANT Inputs              \* [application, routes, policy, providers]

VARIABLES input,
          pc,             \* "start", "bind", "listening", "failed"
          pending,        \* providers still to bind, in order
          open            \* listeners bound: [transport, offer]

vars == <<input, pc, pending, open>>

Route(t) == IF t \in DOMAIN input.routes THEN input.routes[t] ELSE NoRoute
Forced(t) == forced_transport(input.policy) = t

reject_duplicate_providers(providers) ==
  /\ Distinct(providers, LAMBDA p : p.transport)
  /\ Distinct(providers, LAMBDA p : p.metadata.id)

(* A route the policy allows needs an installed provider.                    *)
reject_uninstalled_routes(i) ==
  \A t \in DOMAIN i.routes :
    allows(i.policy, t) => \E n \in DOMAIN i.providers : i.providers[n].transport = t

compare_provider_order(policy, l, r) ==
  LET last(p) == Rank01(p.transport # preferred_transport(policy)) IN
  FirstDifference(<<Cmp(last(l), last(r)), Cmp(l.metadata.rank, r.metadata.rank),
                    Cmp(l.transport, r.transport), Cmp(l.metadata.id, r.metadata.id)>>)

Start(i) == input = i /\ pc = "start" /\ pending = <<>> /\ open = <<>>

Init == \E i \in Inputs : Start(i)

bind_server ==
  /\ pc = "start"
  /\ IF reject_duplicate_providers(input.providers) /\ reject_uninstalled_routes(input)
     THEN /\ pc' = "bind"
          /\ pending' = sort_by(SelectSeq(input.providers,
                                          LAMBDA p : allows(input.policy, p.transport)),
                                LAMBDA l, r : compare_provider_order(input.policy, l, r))
     ELSE pc' = "failed" /\ UNCHANGED pending
  /\ UNCHANGED <<input, open>>

Provider == Head(pending)
Endpoint(p) == resolve_server_endpoint(input.application, p.transport, Route(p.transport))
Security(p) == validate_server_security(input.application, Endpoint(p),
                                        Route(p.transport).security, p.transport)
Binding == pc = "bind" /\ pending # <<>>

Fail == pc' = "failed" /\ pending' = <<>> /\ open' = <<>> /\ UNCHANGED input

Skip == pending' = Tail(pending) /\ UNCHANGED <<input, pc, open>>

Unavailable ==
  /\ Binding /\ ~Provider.available
  /\ IF Forced(Provider.transport) THEN Fail ELSE Skip

Unresolved == Binding /\ Provider.available /\ Endpoint(Provider) = NoEndpoint /\ Fail

Rejected ==
  /\ Binding /\ Provider.available /\ Endpoint(Provider) # NoEndpoint
  /\ Security(Provider) = "rejected"
  /\ Fail

Ineligible ==
  /\ Binding /\ Provider.available /\ Endpoint(Provider) # NoEndpoint
  /\ Security(Provider) = "ineligible"
  /\ IF Forced(Provider.transport) THEN Fail ELSE Skip

Bind ==
  /\ Binding /\ Provider.available /\ Endpoint(Provider) # NoEndpoint
  /\ Security(Provider) = "eligible"
  /\ LET offer == ProviderBinds(Provider.transport, Endpoint(Provider),
                                Route(Provider.transport).security)
     IN \/ /\ offer # "unsupported"
           /\ open' = Append(open, [transport |-> Provider.transport, offer |-> offer])
           /\ pending' = Tail(pending)
           /\ UNCHANGED <<input, pc>>
        \/ Fail

Bound ==
  /\ pc = "bind" /\ pending = <<>>
  /\ pc' = IF open = <<>> THEN "failed" ELSE "listening"
  /\ UNCHANGED <<input, pending, open>>

Finished == pc \in {"listening", "failed"} /\ UNCHANGED vars

Next == \/ bind_server \/ Unavailable \/ Unresolved \/ Rejected \/ Ineligible \/ Bind \/ Bound
        \/ Finished

Spec == Init /\ [][Next]_vars

-----------------------------------------------------------------------------
(* A listen that fails leaves no listener bound; one that succeeds binds     *)
(* every installed, available provider the policy allows except those the    *)
(* endpoint's security excludes, the preferred one first                     *)
(* (server_provider.rs:128-207).                                             *)
ListenIsAllOrNothing ==
  LET transports == {open[i].transport : i \in DOMAIN open}
      usable == {p \in ToSet(input.providers) : p.available /\ allows(input.policy, p.transport)}
  IN /\ pc = "failed" => open = <<>>
     /\ pc = "listening" =>
          /\ transports # {}
          /\ transports = {p.transport : p \in {q \in usable : Security(q) = "eligible"}}
          /\ preferred_transport(input.policy) \in transports =>
               open[1].transport = preferred_transport(input.policy)

(* A server of an nnrps:// endpoint listens on no plain carrier: what        *)
(* validate_server_security lets through is what the providers' bind         *)
(* encrypts (server_provider.rs:317).                                        *)
SecureServersStaySecure ==
  input.application.secure => \A i \in DOMAIN open : open[i].offer = "tls"
=============================================================================
