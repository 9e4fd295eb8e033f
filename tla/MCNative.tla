------------------------------ MODULE MCNative ------------------------------
(***************************************************************************)
(* Instances of the native library: the transport handles under two        *)
(* threads ("handles"), with security configurations ("security") and with *)
(* packets ("batches"); the runtime handles' resources ("resources") and   *)
(* cache leases of one object ("leases") and of two ("objects"); the calls *)
(* of a native client that submits twice ("client") or opens two sessions  *)
(* ("reopening"), and of a native server with submissions ("server") and   *)
(* with accept tickets ("accepts").  The part is chosen in the initial     *)
(* state; the others rest.                                                 *)
(***************************************************************************)
EXTENDS TransportStore, TLC

CONSTANT Values   \* byte strings the host hands over, or objects it caches

VARIABLES
    part,
    rStore, now, issued, rShutdowns, holds, rEnded, rDead,
    cStore, cCalls, cRuntime, uses, ticket, submits, failed, got, lost, cRaced,
    sStore, sCalls, accepts, sRuntime, asked, opHandles, replied, sEnded, sRaced

resourceVars == <<rStore, now, issued, rShutdowns, holds, rEnded, rDead>>
clientVars == <<cStore, cCalls, cRuntime, uses, ticket, submits, failed, got, lost, cRaced>>
serverVars == <<sStore, sCalls, accepts, sRuntime, asked, opHandles, replied, sEnded, sRaced>>
mcVars == <<part, vars, resourceVars, clientVars, serverVars>>
-----------------------------------------------------------------------------
TcpOpens == {<<"connect", "Tcp", "tcp">>}
SecurityOpens ==
  {<<op, c[1], c[2]>> : op \in {"connect", "listen"},
     c \in {<<"Tcp", "tcp">>, <<"Quic", "quic">>, <<"WebSocket", "ws">>, <<"WebSocket", "wss">>,
            <<"Ipc", "ipc">>, <<"WebSocket", "tcp">>}}
NoPackets == <<>>

Securing == INSTANCE TransportStore
              WITH Threads <- {"t"}, Shutdowns <- 0, Opens <- SecurityOpens,
                   Configs <- {<<"client", "Tcp">>, <<"client", "WebSocket">>,
                               <<"server", "Tcp">>, <<"server", "Quic">>}
Batching == INSTANCE TransportStore
              WITH Threads <- {"t"}, MaxMade <- 1, Shutdowns <- 0, Sizes <- <<1, 2, 1>>,
                   BatchBytes <- {2, 3, 5}, BatchFrames <- {1, 3}

Schema(id, version, profile, hash) ==
  [id |-> id, version |-> version, profile |-> profile, hash |-> hash]
Binding(profile, id, version) == [profile |-> profile, id |-> id, version |-> version]

Resources == INSTANCE NativeResources
               WITH Contents <- Values,
                    Schemas <- {Schema(1, 1, "tensor", "other"), Schema(2, 1, "tensor", "a"),
                                Schema(2, 2, "token", "b"), Schema(3, 1, "render", "c")},
                    Bindings <- {Binding("token", 1, 1), Binding("tensor", 1, 1),
                                 Binding("tensor", 2, 1), Binding("token", 2, 2),
                                 Binding("unspecified", 0, 0), Binding("token", 0, 0)},
                    Objects <- {}, Versions <- {0}, Ttls <- {0}, DefaultTtl <- 2, MaxMs <- 0,
                    MaxMade <- 3, MaxLeases <- 0, Shutdowns <- 1,
                    store <- rStore, made <- issued, shutdowns <- rShutdowns, ended <- rEnded,
                    dead <- rDead
Leasing == INSTANCE NativeResources
             WITH Contents <- {}, Schemas <- {}, Bindings <- {}, Objects <- {"o"},
                  Versions <- {0, 2}, Ttls <- {0, 2}, DefaultTtl <- 1, MaxMs <- 2,
                  MaxMade <- 0, MaxLeases <- 2, Shutdowns <- 1,
                  store <- rStore, made <- issued, shutdowns <- rShutdowns, ended <- rEnded,
                  dead <- rDead
Sharing == INSTANCE NativeResources
             WITH Contents <- {}, Schemas <- {}, Bindings <- {}, Objects <- Values,
                  Versions <- {0}, Ttls <- {0}, DefaultTtl <- 1, MaxMs <- 2,
                  MaxMade <- 0, MaxLeases <- 2, Shutdowns <- 0,
                  store <- rStore, made <- issued, shutdowns <- rShutdowns, ended <- rEnded,
                  dead <- rDead

Client == INSTANCE NativeClient
            WITH SessionIds <- {1}, OpIds <- {7}, MaxSessions <- 1, MaxOpens <- 2,
                 MaxSubmits <- 2, Batch <- 2,
                 store <- cStore, calls <- cCalls, runtime <- cRuntime, given <- submits,
                 raced <- cRaced
Reopening == INSTANCE NativeClient
               WITH SessionIds <- {1}, OpIds <- {7}, MaxSessions <- 2, MaxOpens <- 2,
                    MaxSubmits <- 1, Batch <- 2,
                    store <- cStore, calls <- cCalls, runtime <- cRuntime, given <- submits,
                    raced <- cRaced

Serving == INSTANCE NativeServer
             WITH OpIds <- {7}, MaxSessions <- 1, MaxCalls <- 2, Direct <- TRUE,
                  store <- sStore, calls <- sCalls, runtime <- sRuntime, made <- opHandles,
                  ended <- sEnded, raced <- sRaced
Ticketing == INSTANCE NativeServer
               WITH OpIds <- {}, MaxSessions <- 2, MaxCalls <- 3, Direct <- TRUE,
                    store <- sStore, calls <- sCalls, runtime <- sRuntime, made <- opHandles,
                    ended <- sEnded, raced <- sRaced

MCInit ==
  /\ part \in {"handles", "security", "batches", "resources", "leases", "objects", "client",
              "reopening", "server", "accepts"}
  /\ IF part \in {"security", "batches"} THEN Securing!Init ELSE Init
  /\ Resources!Init
  /\ Client!Init
  /\ Serving!Init

MCNext ==
  /\ part' = part
  /\ \/ part = "handles" /\ Next /\ UNCHANGED <<resourceVars, clientVars, serverVars>>
     \/ part = "security" /\ Securing!Next /\ UNCHANGED <<resourceVars, clientVars, serverVars>>
     \/ part = "batches" /\ Batching!Next /\ UNCHANGED <<resourceVars, clientVars, serverVars>>
     \/ part = "resources" /\ Resources!Next /\ UNCHANGED <<vars, clientVars, serverVars>>
     \/ part = "leases" /\ Leasing!Next /\ UNCHANGED <<vars, clientVars, serverVars>>
     \/ part = "objects" /\ Sharing!Next /\ UNCHANGED <<vars, clientVars, serverVars>>
     \/ part = "client" /\ Client!Next /\ UNCHANGED <<vars, resourceVars, serverVars>>
     \/ part = "reopening" /\ Reopening!Next /\ UNCHANGED <<vars, resourceVars, serverVars>>
     \/ part = "server" /\ Serving!Next /\ UNCHANGED <<vars, resourceVars, clientVars>>
     \/ part = "accepts" /\ Ticketing!Next /\ UNCHANGED <<vars, resourceVars, clientVars>>

MCSpec == MCInit /\ [][MCNext]_mcVars

Symmetry == Permutations(Threads) \cup Permutations(Values)
-----------------------------------------------------------------------------
\* A handle the library issued stands for what it was issued for until it is
\* released or the runtime shuts down, and for nothing at all afterwards.  An owner
\* has at most one lease it has not released for one object, however queries,
\* prefetches, releases and the clock interleave; and a lease owned by a connection
\* or a session, or by an operation its session still listed when it closed, is gone
\* when its owner is.
LeasesFollowTheirOwner ==
  /\ Resources!HandlesKeepTheirMeaning
  /\ Leasing!OneLeasePerOwner
  /\ Leasing!LeasesDieWithTheirOwner

\* Nothing comes back.  Shutdown makes every transport handle stale for good; a
\* lease that has run out stays run out, whatever query, touch or prefetch follows;
\* and what a schema registry accepted before an install it accepts after it.
NothingComesBack ==
  [][/\ Invalidates
     /\ Leasing!KeepsExpired
     /\ Resources!KeepsBindings]_mcVars

\* A result carries the handle of the submit the runtime accepted for its operation,
\* also when two threads submit one operation id at once.  A client loses an event
\* it took from the runtime only when the session or its connection was closed
\* meanwhile, or the operation's submit failed.  And an operation handle has its
\* session and a session handle its connection, unless a close overtook the open.
ClientEventsNameTheirSubmit ==
  /\ Client!ResultsNameTheirSubmit
  /\ Client!EventsAreLostOnlyByClosing
  /\ Client!OwnersAreOpen

\* A session a peer opened gets at most one handle, whatever tickets two threads
\* wait for, claim and release, and a ticket that was released, or whose server was
\* closed, accepts no peer.  The handle of an operation lasts until the host has
\* both sent its terminal reply and received its lifecycle event.  And handles have
\* their owners, unless a close overtook an accept or an await; a claimed ticket
\* never leaves an orphan.
ServerHandlesFollowTheirSession ==
  /\ Ticketing!SessionsHaveOneHandle
  /\ Ticketing!OnlyHeldTicketsAccept
  /\ Serving!HandleLastsUntilAnsweredAndEnded
  /\ Serving!OrphansWereOvertaken
=============================================================================
