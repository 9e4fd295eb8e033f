-------------------------- MODULE NativeResources --------------------------
(***************************************************************************)
(* The resources a native host holds in the handle store that the library   *)
(* itself numbers: copied buffers, object and cache-reference descriptors,  *)
(* schema registries and cache leases (nnrp-ffi/src/lib.rs).  Every call    *)
(* takes the store's lock once, so every call is one step.  A run starts    *)
(* with a connection, its session and an operation open, the owners a lease *)
(* may name; their own calls are in NativeClient and NativeServer.          *)
(***************************************************************************)
EXTENDS HandleStore, SequencesExt

CONSTANTS Contents,    \* byte strings the host hands over; a member stands for one
          Schemas,     \* descriptors it installs: [id, version, profile, hash]
          Bindings,    \* descriptors it validates: [profile, id, version]
          Objects,     \* cache objects
          Versions,    \* expected_version values, 0 for any
          Ttls,        \* ttl_ms values
          DefaultTtl,  \* stands for 30_000
          MaxMs,       \* stands for u64::MAX
          MaxMade,     \* handles issued for buffers, descriptors and registries
          MaxLeases,   \* leases granted
          Shutdowns

VARIABLES store, now, made, shutdowns,
          holds,  \* handle issued -> what it was issued for
          ended,  \* the operation ended while its session was open
          dead    \* handles released, or invalidated with everything else

vars == <<store, now, made, shutdowns, holds, ended, dead>>

connection == Handle("Connection", 1, 1)
session == Handle("Session", 1, 1)
operation == Handle("Operation", 1, 1)

Owners == {connection, session, operation}

-----------------------------------------------------------------------------
(* Schema registries (nnrp-core/src/schema.rs).                             *)
Profiles == {"unspecified", "tensor", "token"}
validate_profile_assignment(profile) == profile \in Profiles

SchemaKey(d) == <<d.id, d.version>>

InstallAction(r, d) ==
  CASE ~validate_profile_assignment(d.profile) -> "UpdateRejected"
    [] SchemaKey(d) \in DOMAIN r ->
         IF r[SchemaKey(d)].hash = d.hash /\ r[SchemaKey(d)].profile = d.profile
         THEN "AlreadyInstalled" ELSE "HashConflict"
    [] \E k \in DOMAIN r : k[1] = d.id /\ k[2] < d.version -> "Updated"
    [] OTHER -> "Installed"

Added(r, d) == [k \in DOMAIN r \cup {SchemaKey(d)} |-> IF k = SchemaKey(d) THEN d ELSE r[k]]

install(r, d) == IF InstallAction(r, d) \in {"Updated", "Installed"} THEN Added(r, d) ELSE r

invalidate(r, key) == Restrict(r, DOMAIN r \ {key})

validate_binding(r, b) ==
  CASE ~validate_profile_assignment(b.profile) -> "UpdateRejected"
    [] b.profile = "unspecified" -> IF b.id = 0 /\ b.version = 0 THEN "ok" ELSE "Incompatible"
    [] b.id = 0 -> "Unknown"
    [] <<b.id, b.version>> \in DOMAIN r ->
         IF r[<<b.id, b.version>>].profile = b.profile THEN "ok" ELSE "Incompatible"
    [] OTHER -> IF \E k \in DOMAIN r : k[1] = b.id THEN "VersionUnknown" ELSE "Unknown"

token_delta == [id |-> 1, version |-> 1, profile |-> "token", hash |-> "delta"]
standard == install(<<>>, token_delta)

-----------------------------------------------------------------------------
(* Leases (nnrp-core/src/cache.rs).                                         *)
expires_at_ms(lease) == Min({MaxMs, lease.granted + lease.ttl})
is_expired_at(lease, ms) == ms >= expires_at_ms(lease)

cache_owner_semantic_id(st, owner) ==
  /\ owner.kind \in {"Connection", "Session", "Operation"}
  /\ Has(st, owner, owner.kind)

\* The lease cache_query finds.
Existing(st, owner, object, ms) ==
  {h \in Leases(st, {owner}) :
     LET r == st.entries[Key(h)].res IN r.lease.object = object /\ ~r.released}

\* Mutant of Renewable: the lease's end is not looked at.
Renewable_Expired(lease, version, ms) == version = 0 \/ lease.version = version

Renewable(lease, version, ms) ==
  ~is_expired_at(lease, ms) /\ (version = 0 \/ lease.version = version)

\* The store a query leaves: [st, ok].
cache_query(st, owner, object, version, ms, ttl) ==
  LET found == Existing(st, owner, object, ms)
      h == CHOOSE g \in found : \A f \in found : g.id <= f.id
      r == st.entries[Key(h)].res
      fresh == [object |-> object, version |-> Max({version, 1}), granted |-> ms,
                ttl |-> Max({ttl, DefaultTtl})]
  IN CASE ~cache_owner_semantic_id(st, owner) -> [st |-> st, ok |-> FALSE]
       [] found # {} ->
            IF ~Renewable(r.lease, version, ms) THEN [st |-> st, ok |-> FALSE]
            ELSE [ok |-> TRUE,
                  st |-> IF ttl = 0 THEN st
                         ELSE get_mut(st, h, [r EXCEPT !.lease.granted = ms, !.lease.ttl = ttl])]
       [] OTHER -> [ok |-> TRUE,
                    st |-> Issue(st, "CacheLease",
                             [type |-> "CacheLease", owner |-> owner, lease |-> fresh,
                              released |-> FALSE])]

\* cache_prefetch stops at the first object whose query fails.
cache_prefetch(st, owner, objects, ms, ttl) ==
  FoldLeft(LAMBDA acc, o : IF acc.ok THEN cache_query(acc.st, owner, o, 0, ms, ttl) ELSE acc,
           [st |-> st, ok |-> TRUE], objects)

-----------------------------------------------------------------------------
Init ==
  /\ store = [EmptyStore EXCEPT
       !.entries = [k \in {Key(h) : h \in Owners} |->
          [gen |-> 1,
           res |-> CASE k[1] = "Connection" -> [type |-> "Connection", role |-> "Client"]
                     [] k[1] = "Session" -> [type |-> "Session", connection |-> connection]
                     [] OTHER -> [type |-> "Operation", session |-> session, operation_id |-> 7]]],
       !.next = [@ EXCEPT !["Operation"] = 1]]
  /\ now = 0
  /\ made = 0
  /\ shutdowns = 0
  /\ holds = <<>>
  /\ ended = FALSE
  /\ dead = {}

\* A handle is issued for a resource of the host's.
Make(kind, res) ==
  /\ made < MaxMade
  /\ made' = made + 1
  /\ store' = Issue(store, kind, res)
  /\ holds' = [h \in DOMAIN holds \cup {Issued(store, kind)} |->
                 IF h = Issued(store, kind) THEN res ELSE holds[h]]
  /\ UNCHANGED <<now, shutdowns, ended, dead>>

Drop(h) ==
  /\ store' = remove(store, h)
  /\ dead' = dead \cup {h}
  /\ UNCHANGED <<now, made, shutdowns, holds, ended>>

buffer_acquire_copy == \E c \in Contents : Make("Buffer", [type |-> "Buffer", bytes |-> c])
buffer_release == \E h \in OfType(store, "Buffer") : Drop(h)

Described(kind, c) == [type |-> kind, metadata |-> c]
object_descriptor_create ==
  \E c \in Contents : Make("ObjectDescriptor", Described("ObjectDescriptor", c))
cache_reference_descriptor_create ==
  \E c \in Contents : Make("CacheReferenceDescriptor", Described("CacheReferenceDescriptor", c))

Snapshot(kind) == \E h \in OfType(store, kind) :
  Make("Buffer", [type |-> "Buffer", bytes |-> get(store, h, kind).metadata])
object_descriptor_metadata_snapshot == Snapshot("ObjectDescriptor")
cache_reference_descriptor_metadata_snapshot == Snapshot("CacheReferenceDescriptor")

object_descriptor_release == \E h \in OfType(store, "ObjectDescriptor") : Drop(h)
cache_reference_descriptor_release == \E h \in OfType(store, "CacheReferenceDescriptor") : Drop(h)

schema_registry_create ==
  Make("SchemaRegistry", [type |-> "SchemaRegistry", registry |-> standard])

Rewrites(h, r) ==
  /\ store' = get_mut(store, h, [type |-> "SchemaRegistry", registry |-> r])
  /\ UNCHANGED <<now, made, shutdowns, holds, ended, dead>>

schema_registry_install == \E h \in OfType(store, "SchemaRegistry") :
  \E r \in {install(get(store, h, "SchemaRegistry").registry, d) : d \in Schemas} : Rewrites(h, r)

schema_registry_invalidate == \E h \in OfType(store, "SchemaRegistry") :
  LET registry == get(store, h, "SchemaRegistry").registry
  IN \E key \in DOMAIN registry \cap {SchemaKey(d) : d \in Schemas} :
       Rewrites(h, invalidate(registry, key))

schema_registry_release == \E h \in OfType(store, "SchemaRegistry") : Drop(h)

Queried(st) ==
  /\ st.next["CacheLease"] <= MaxLeases
  /\ store' = st
  /\ UNCHANGED <<now, made, shutdowns, holds, ended, dead>>

cache_query_call ==
  \E st \in {cache_query(store, o, b, v, now, ttl).st :
               o \in Owners, b \in Objects, v \in Versions, ttl \in Ttls} : Queried(st)

cache_touch ==
  \E st \in {cache_query(store, o, b, v, now, ttl).st :
               o \in Owners, b \in Objects, v \in Versions, ttl \in Ttls \ {0}} : Queried(st)

cache_prefetch_call ==
  \E st \in {cache_prefetch(store, o, <<b, c>>, now, ttl).st :
               o \in Owners, b \in Objects, c \in Objects, ttl \in Ttls} : Queried(st)

cache_release == \E h \in OfType(store, "CacheLease") :
  Queried(get_mut(store, h, [get(store, h, "CacheLease") EXCEPT !.released = TRUE]))

\* What happens to the owners: the last steps of the calls that end them.
ClosesSession == Has(store, session, "Session") /\ Queried(close_session(store, session))
ClosesConnection ==
  Has(store, connection, "Connection") /\ Queried(close_connection(store, connection))
OperationEnds ==
  /\ Has(store, operation, "Operation")
  /\ store' = remove(store, operation)
  /\ ended' = TRUE
  /\ UNCHANGED <<now, made, shutdowns, holds, dead>>

Tick ==
  /\ Objects # {}
  /\ now < MaxMs
  /\ now' = now + 1
  /\ UNCHANGED <<store, made, shutdowns, holds, ended, dead>>

\* The transport runtime shuts down: every handle is invalidated.
invalidate_all_ffi_handles ==
  /\ shutdowns < Shutdowns
  /\ shutdowns' = shutdowns + 1
  /\ dead' = dead \cup DOMAIN holds
  /\ store' = invalidate_all(store)
  /\ UNCHANGED <<now, made, holds, ended>>

Next ==
  \/ buffer_acquire_copy \/ buffer_release
  \/ object_descriptor_create \/ object_descriptor_metadata_snapshot \/ object_descriptor_release
  \/ cache_reference_descriptor_create \/ cache_reference_descriptor_metadata_snapshot
  \/ cache_reference_descriptor_release
  \/ schema_registry_create \/ schema_registry_install \/ schema_registry_invalidate
  \/ schema_registry_release
  \/ cache_query_call \/ cache_touch \/ cache_prefetch_call \/ cache_release
  \/ ClosesSession \/ ClosesConnection \/ OperationEnds
  \/ Tick \/ invalidate_all_ffi_handles

Spec == Init /\ [][Next]_vars

-----------------------------------------------------------------------------
(* A handle the library issued stands for what it was issued for until it   *)
(* is released or the runtime shuts down, and for nothing at all afterwards, *)
(* whatever is created later: identities are never used again, not even     *)
(* across a shutdown.  (A registry keeps its handle while its schemas        *)
(* change.)                                                                  *)
HandlesKeepTheirMeaning ==
  \A h \in DOMAIN holds :
    LET r == get(store, h, h.kind)
    IN IF h \in dead THEN r = Nothing
       ELSE IF h.kind = "SchemaRegistry" THEN r.type = "SchemaRegistry" ELSE r = holds[h]

(* Installing a schema never takes a binding away: whatever a registry      *)
(* accepted before an install it accepts after it, so only an invalidation   *)
(* turns an accepted binding into a refused one.                             *)
KeepsBindings ==
  \A k \in DOMAIN store.entries \cap DOMAIN store'.entries :
    LET before == store.entries[k].res
        after == store'.entries[k].res
    IN /\ before.type = "SchemaRegistry" /\ before # after
       /\ \E d \in Schemas : after.registry = install(before.registry, d)
       => \A b \in Bindings :
            validate_binding(before.registry, b) = "ok" => validate_binding(after.registry, b) = "ok"

(* An owner has at most one lease it has not released for one object, so     *)
(* touching or releasing "the" lease is well defined however queries,        *)
(* prefetches, releases and the clock interleave.                            *)
OneLeasePerOwner ==
  \A g, h \in OfType(store, "CacheLease") :
    LET a == store.entries[Key(g)].res
        b == store.entries[Key(h)].res
    IN a.owner = b.owner /\ a.lease.object = b.lease.object /\ ~a.released /\ ~b.released => g = h

(* A lease that has run out stays run out: no later query, touch or prefetch *)
(* brings it back; the owner must release it and take a new one.             *)
KeepsExpired ==
  \A k \in DOMAIN store.entries \cap DOMAIN store'.entries :
    /\ k[1] = "CacheLease"
    /\ is_expired_at(store.entries[k].res.lease, now)
    => is_expired_at(store'.entries[k].res.lease, now')

(* A lease owned by a connection or a session, or by an operation its        *)
(* session still listed when it closed, is gone when its owner is.           *)
LeasesDieWithTheirOwner ==
  \A h \in OfType(store, "CacheLease") :
    LET o == store.entries[Key(h)].res.owner
    IN Has(store, o, o.kind) \/ (o = operation /\ ended)
=============================================================================
