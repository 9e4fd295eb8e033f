---------------------------- MODULE HandleStore ----------------------------
(***************************************************************************)
(* The store behind the opaque handles of nnrp-ffi/src/lib.rs.  One mutex   *)
(* guards it, so each operator below is a step of its own: it maps a store  *)
(* to the store the method leaves.  A store is a record                     *)
(*   entries    <<kind, id>> -> [gen, res]                                  *)
(*   next       kind -> the last identity issued                            *)
(*   delivered  <<session, operation>> whose lifecycle event the host has   *)
(*   replies    operations whose terminal reply was sent                    *)
(* Handles are passed back as they were issued: the flags word is zero.     *)
(***************************************************************************)
EXTENDS Integers, FiniteSets, Functions

Nothing == [type |-> "none"]

Handle(kind, id, gen) == [kind |-> kind, id |-> id, gen |-> gen]
invalid == Handle("Invalid", 0, 0)

HandleKinds == {"Connection", "Session", "Operation", "Buffer", "SchemaRegistry", "CacheLease",
                "ObjectDescriptor", "CacheReferenceDescriptor", "ServerAccept"}

EmptyStore == [entries |-> <<>>, next |-> [k \in HandleKinds |-> 0],
               delivered |-> {}, replies |-> {}]

Key(h) == <<h.kind, h.id>>
HandleOf(st, key) == Handle(key[1], key[2], st.entries[key].gen)
HandlesOf(st) == {HandleOf(st, key) : key \in DOMAIN st.entries}

validate_kind(h, kind) == h.kind = kind /\ h.id # 0 /\ h.gen # 0

get(st, h, kind) ==
  IF /\ validate_kind(h, kind)
     /\ Key(h) \in DOMAIN st.entries
     /\ st.entries[Key(h)].gen = h.gen
  THEN st.entries[Key(h)].res ELSE Nothing

Has(st, h, kind) == get(st, h, kind) # Nothing

CanInsert(st, h) == h.kind \in HandleKinds /\ validate_kind(h, h.kind) /\ Key(h) \notin DOMAIN st.entries

insert(st, h, res) ==
  [st EXCEPT !.entries = [key \in DOMAIN @ \cup {Key(h)} |->
     IF key = Key(h) THEN [gen |-> h.gen, res |-> res] ELSE @[key]]]

get_mut(st, h, res) == [st EXCEPT !.entries[Key(h)].res = res]

Without(st, handles) ==
  [st EXCEPT !.entries = Restrict(@, DOMAIN @ \ {Key(h) : h \in handles})]

remove(st, h) ==
  [Without(st, {h}) EXCEPT !.delivered = {d \in @ : d[2] # h}, !.replies = @ \ {h}]

next_handle_id(st, kind) ==
  CHOOSE i \in (st.next[kind] + 1)..(st.next[kind] + 1 + Cardinality(DOMAIN st.entries)) :
    /\ <<kind, i>> \notin DOMAIN st.entries
    /\ \A j \in (st.next[kind] + 1)..(i - 1) : <<kind, j>> \in DOMAIN st.entries

\* The library issues a handle: the next identity of its kind, generation 1.
Issued(st, kind) == Handle(kind, next_handle_id(st, kind), 1)
Issue(st, kind, res) ==
  insert([st EXCEPT !.next[kind] = next_handle_id(st, kind)], Issued(st, kind), res)

invalidate_all(st) == [EmptyStore EXCEPT !.next = st.next]

-----------------------------------------------------------------------------
(* The two marks that decide when a server operation's handle goes.         *)
mark_operation_lifecycle_delivered(st, session, op) ==
  [st EXCEPT !.delivered = @ \cup {<<session, op>>}]

record_terminal_operation_reply(st, session, op) ==
  IF <<session, op>> \in st.delivered THEN remove(st, op)
  ELSE [st EXCEPT !.replies = @ \cup {op}]

-----------------------------------------------------------------------------
(* Closing what owns other resources.                                      *)
OfType(st, type) == {h \in HandlesOf(st) : st.entries[Key(h)].res.type = type}

Sessions(st, connection) ==
  {h \in OfType(st, "Session") : st.entries[Key(h)].res.connection = connection}
Operations(st, sessions) ==
  {h \in OfType(st, "Operation") : st.entries[Key(h)].res.session \in sessions}
Accepts(st, server) ==
  {h \in OfType(st, "ServerAccept") : st.entries[Key(h)].res.server = server}
Leases(st, owners) ==
  {h \in OfType(st, "CacheLease") : st.entries[Key(h)].res.owner \in owners}

\* Mutant of close_connection: the leases of its operations are left behind.
close_connection_KeepLeases(st, connection) ==
  LET ss == Sessions(st, connection)
      ops == Operations(st, ss)
  IN [Without(st, {connection} \cup ss \cup ops \cup Accepts(st, connection)
                  \cup Leases(st, {connection}))
        EXCEPT !.delivered = {d \in @ : d[1] \notin ss}, !.replies = @ \ ops]

close_connection(st, connection) ==
  LET ss == Sessions(st, connection)
      ops == Operations(st, ss)
  IN [Without(st, {connection} \cup ss \cup ops \cup Accepts(st, connection)
                  \cup Leases(st, {connection} \cup ss \cup ops))
        EXCEPT !.delivered = {d \in @ : d[1] \notin ss}, !.replies = @ \ ops]

close_session(st, session) ==
  LET ops == Operations(st, {session})
  IN [Without(st, {session} \cup ops \cup Leases(st, {session} \cup ops))
        EXCEPT !.delivered = {d \in @ : d[1] # session}, !.replies = @ \ ops]

-----------------------------------------------------------------------------
(* Lookups the event calls make.                                           *)
find_operation_handle(st, session, operation_id) ==
  LET found == {h \in Operations(st, {session}) :
                  st.entries[Key(h)].res.operation_id = operation_id}
  IN IF found = {} THEN invalid ELSE CHOOSE h \in found : \A g \in found : h.id <= g.id

role_session_connection(st, session) ==
  LET s == get(st, session, "Session")
  IN IF s # Nothing /\ Has(st, s.connection, "Connection") THEN s.connection ELSE invalid
=============================================================================
