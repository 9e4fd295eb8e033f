----------------------------- MODULE WireCodec ------------------------------
(***************************************************************************)
(* How the fixed-length records of nnrp-core are read and written, and the *)
(* rules that tie fields of one record together.  A field value is the     *)
(* sequence of its little-endian bytes, so that 64-bit values need no      *)
(* arithmetic; TLC explores edited images of every record.                 *)
(***************************************************************************)
EXTENDS WireRecords, FiniteSets, TLC

CONSTANTS
  Records,      \* the layouts this instance explores
  MaxEdits,     \* how many spans of a well-formed image are overwritten
  Tails         \* byte strings put behind a record

VARIABLES
  record,       \* the layout the image is for
  bytes,        \* the image: what arrived, or what is about to be parsed
  at,           \* spans are overwritten from left to right: the next offset
  edits

vars == <<record, bytes, at, edits>>

-----------------------------------------------------------------------------
(* Bytes and integers *)

Zeros(w) == [i \in 1..w |-> 0]
IsZero(b) == \A i \in DOMAIN b : b[i] = 0
Small(w, n) == [i \in 1..w |-> IF i = 1 THEN n ELSE 0]
Bit(b, n) == (b[1] \div n) % 2 = 1
U16(b) == b[1] + 256 * b[2]
Halves(b) == <<b[1] + 256 * b[2], b[3] + 256 * b[4]>>

(* A 32-bit value modulo a small n, without leaving 31-bit arithmetic. *)
Mod(b, n) == ((Halves(b)[2] % n) * (65536 % n) + Halves(b)[1]) % n

(* validate_zero, validate_mask and the try_from functions: only the lowest *)
(* byte of an enumeration or a mask is ever set.                            *)
Coded(b, codes) == b[1] \in codes /\ \A i \in 2..Len(b) : b[i] = 0

Span(src, s) == SubSeq(src, s[1] + 1, s[1] + s[2])

-----------------------------------------------------------------------------
(* Rules between the fields of one record *)

validate_capability_window(v) ==
  /\ v.min_version_major[1] <= v.max_version_major[1]
  /\ v.min_version_major[1] <= 1 /\ 1 <= v.max_version_major[1]
  /\ Bit(v.supported_wire_format_bitmap, 1)
  /\ ~IsZero(v.supported_profile_bitmap)
  /\ ~IsZero(v.supported_payload_kind_bitmap)

validate_percent_x100(v) == U16(v.percent_x100) \in 0..10000 \cup {65535}

SubmitTileFields ==
  {"src_width", "src_height", "tile_width", "tile_height", "tile_count", "section_count",
   "tile_base_id", "camera_bytes", "tile_index_bytes", "input_profile"}

validate_submit_shape(v) ==
  /\ ~IsZero(v.operation_id)
  /\ \/ Bit(v.payload_kind_bitmap, 1)
     \/ \A f \in SubmitTileFields : IsZero(v[f])

ResultTileFields ==
  {"section_count", "tile_count", "tile_base_id", "tile_index_bytes",
   "covered_tile_count", "dropped_tile_count"}

Stale(v) == v.result_class[1] = 2 \/ Bit(v.result_flags, 1)
Partial(v) == v.result_class[1] = 1 \/ Bit(v.result_flags, 4)

validate_result_shape(v) ==
  /\ Stale(v) <=> ~IsZero(v.reused_frame_id)
  /\ IF Bit(v.payload_kind_bitmap, 1)
     THEN /\ Partial(v) => ~IsZero(v.dropped_tile_count)
          /\ U16(v.covered_tile_count) + U16(v.dropped_tile_count) = U16(v.tile_count)
     ELSE \A f \in ResultTileFields : IsZero(v[f])

validate_alignment(v) ==
  /\ Mod(v.object_reference_bytes, 24) = 0
  /\ Mod(v.typed_payload_descriptor_bytes, 24) = 0
  /\ Mod(v.extension_descriptor_bytes, 16) = 0

validate_tensor_section(v) ==
  /\ Coded(v.section_flags, 0..3)
  /\ IsZero(v.codec_table_bytes) <=> ~Bit(v.section_flags, 1)
  /\ IsZero(v.payload_stride_bytes) <=> ~Bit(v.section_flags, 2)
  /\ Mod(v.length_table_bytes, 4) = 0

validate_scope_fields(v) ==
  CASE v.invalidate_scope[1] = 0 ->
         IsZero(v.cache_namespace) /\ IsZero(v.cache_key_hi) /\ IsZero(v.cache_key_lo)
    [] v.invalidate_scope[1] = 1 -> IsZero(v.cache_key_hi) /\ IsZero(v.cache_key_lo)
    [] v.invalidate_scope[1] = 2 -> IsZero(SubSeq(v.cache_key_hi, 5, 8)) /\ IsZero(v.cache_key_lo)
    [] OTHER -> TRUE

Rule(name, v) ==
  CASE name = "ClientHelloMetadata" -> validate_capability_window(v)
    [] name = "ProgressMetadata" -> validate_percent_x100(v)
    [] name = "FrameSubmitMetadata" -> validate_submit_shape(v)
    [] name = "ResultPushMetadata" -> validate_result_shape(v)
    [] name = "BodyRegionPrelude" -> validate_alignment(v)
    [] name = "TensorSectionDescriptor" -> validate_tensor_section(v)
    [] name = "CacheInvalidateMetadata" -> validate_scope_fields(v)
    [] OTHER -> TRUE

-----------------------------------------------------------------------------
(* Reading and writing *)

Fields(r, src) == [f \in DOMAIN r.fields |-> Span(src, r.fields[f])]

CodesHold(r, v, unchecked) ==
  \A f \in DOMAIN r.codes \ unchecked : Coded(v[f], r.codes[f])

(* require_len, then the reserved spans, the codes and the record's rule.  *)
Parses(r, src) ==
  LET v == Fields(r, src)
  IN /\ Len(src) >= r.len
     /\ \A z \in r.zero : IsZero(Span(src, z))
     /\ CodesHold(r, v, {}) /\ Rule(r.name, v)

(* CommonHeader::write checks header_len and flags but neither of these.   *)
Unchecked(r) == IF r.name = "CommonHeader" THEN {"version_major", "wire_format"} ELSE {}

Writable(r, v) == CodesHold(r, v, Unchecked(r)) /\ Rule(r.name, v)

(* What write leaves in a destination that already holds other bytes.      *)
Written(r, v, dirty) ==
  [i \in 1..r.len |->
     IF \E f \in DOMAIN r.fields : r.fields[f][1] < i /\ i <= r.fields[f][1] + r.fields[f][2]
     THEN LET f == CHOOSE g \in DOMAIN r.fields :
                     r.fields[g][1] < i /\ i <= r.fields[g][1] + r.fields[g][2]
          IN v[f][i - r.fields[f][1]]
     ELSE IF r.fill THEN 0 ELSE dirty]

Declares(v, f, n) == n < 256 /\ v[f] = Small(4, n)

HasTail(r) == r.tail # NoTail

(* The body of a capability message: entries <<length lo, length hi, token  *)
(* bytes>>, strictly ascending; here tokens are one letter long.            *)
decode_capability_tokens(body, count) ==
  LET n == Len(body) \div 3
  IN /\ Len(body) % 3 = 0 /\ U16(count) = n
     /\ \A i \in 0..n-1 : body[3*i + 1] = 1 /\ body[3*i + 2] = 0 /\ body[3*i + 3] \in 97..122
     /\ \A i \in 1..n-1 : body[3*i] < body[3*i + 3]

TailHolds(r, src) ==
  LET v == Fields(r, src)
      tail == SubSeq(src, r.len + 1, Len(src))
  IN /\ Declares(v, r.tail, Len(tail))
     /\ r.name = "CapabilityMetadata" => decode_capability_tokens(tail, v.capability_count)

ParsesWithTail(r, src) == Parses(r, src) /\ TailHolds(r, src)

-----------------------------------------------------------------------------
(* What a message has to mean, checked by its sender and by its receiver    *)

StandardRole(b) == b[1] <= 7 \/ b[1] >= 128

validate_control_request_semantics(type, v) ==
  type \in {"Cancel", "Abort"} /\ StandardRole(v.source_role)

validate_scheduling_semantics(type, v) ==
  \/ type = "PriorityUpdate"
  \/ type \in {"Deadline", "ExpireAt"} /\ ~IsZero(v.deadline_unix_ms)

validate_partial_result_semantics(v) ==
  /\ ~IsZero(v.operation_id)
  /\ Bit(v.flags, 2) => ~IsZero(v.object_id)
  /\ ~(IsZero(v.body_bytes) /\ IsZero(v.object_id))

validate_pressure_semantics(type, v) ==
  \/ type = "Backpressure" /\ U16(v.pressure_level) \in 1..3
  \/ type = "CreditUpdate"

validate_trace_context_semantics(v) == ~IsZero(v.trace_id) /\ ~IsZero(v.span_id)

validate_result_drop_reason_semantics(v) ==
  /\ ~IsZero(v.operation_id) /\ ~IsZero(v.drop_reason_code)
  /\ StandardRole(v.source_role)

validate_flow_routing(session, v) ==
  /\ CASE v.scope_kind[1] = 0 ->
            /\ session = 0 /\ IsZero(v.session_credit)
            /\ IsZero(v.operation_credit) /\ IsZero(v.operation_id)
       [] v.scope_kind[1] = 1 ->
            /\ session # 0 /\ IsZero(v.connection_credit)
            /\ IsZero(v.operation_credit) /\ IsZero(v.operation_id)
       [] OTHER -> session # 0 /\ ~IsZero(v.operation_id)
  /\ ~IsZero(v.retry_after_ms) => Bit(v.flow_flags, 1)

-----------------------------------------------------------------------------
(* Images: a well-formed start and a bounded number of edits               *)

(* Field values at the edges of their types: 0, 1, 2, 3, 24, the largest,   *)
(* only the top bit, the two sides of 10 000, and the first integer that is  *)
(* not a double.                                                            *)
Edges(w) ==
  {Small(w, n) : n \in {0, 1, 2, 3, 24}}
    \cup {[i \in 1..w |-> 255], [i \in 1..w |-> IF i = w THEN 128 ELSE 0]}
    \cup (IF w = 2 THEN {<<16, 39>>, <<17, 39>>} ELSE {})
    \cup (IF w = 8 THEN {<<1, 0, 0, 0, 0, 0, 32, 0>>} ELSE {})

Base(r, n) ==
  Written([r EXCEPT !.fill = TRUE],
          [f \in DOMAIN r.fields |->
             Small(r.fields[f][2],
                   IF f \in DOMAIN r.codes
                   THEN IF n \in r.codes[f] THEN n
                        ELSE CHOOSE c \in r.codes[f] : \A d \in r.codes[f] : c <= d
                   ELSE n)],
          0)

Overwrite(src, s, b) ==
  [i \in 1..Len(src) |-> IF s[1] < i /\ i <= s[1] + s[2] THEN b[i - s[1]] ELSE src[i]]

Init ==
  /\ record \in Records
  /\ \E n \in 0..1 : bytes = Base(record, n)
  /\ at = 0 /\ edits = 0

EditField ==
  /\ edits < MaxEdits
  /\ \E f \in DOMAIN record.fields :
       LET s == record.fields[f]
       IN /\ s[1] >= at
          /\ \E b \in Edges(s[2]) : bytes' = Overwrite(bytes, s, b)
          /\ at' = s[1] + s[2]
  /\ edits' = edits + 1
  /\ UNCHANGED record

(* One bit in a byte that no field holds. *)
EditReserved ==
  /\ edits < MaxEdits
  /\ \E k \in at + 1..Len(bytes) :
       /\ \A f \in DOMAIN record.fields :
            k <= record.fields[f][1] \/ record.fields[f][1] + record.fields[f][2] < k
       /\ bytes' = [bytes EXCEPT ![k] = 1]
       /\ at' = k
  /\ edits' = edits + 1
  /\ UNCHANGED record

Truncate ==
  /\ Len(bytes) = record.len
  /\ \E n \in {record.len - 1, 24, 23} : n < record.len /\ bytes' = SubSeq(bytes, 1, n)
  /\ at' = record.len /\ edits' = MaxEdits
  /\ UNCHANGED record

Append_(tail) ==
  /\ Len(bytes) = record.len
  /\ bytes' = bytes \o tail
  /\ at' = record.len /\ edits' = MaxEdits
  /\ UNCHANGED record

AppendTail == \E tail \in Tails : Append_(tail)

Next == EditField \/ EditReserved \/ Truncate \/ AppendTail

Spec == Init /\ [][Next]_vars

-----------------------------------------------------------------------------
(* Properties *)

Dirty == 170

(* Bytes a record's parse accepts are exactly the bytes its write produces  *)
(* for the parsed value, whatever the destination held: no field is dropped, *)
(* none overlaps another, and no reserved bit survives a round trip.         *)
AcceptedIsCanonical ==
  Parses(record, bytes) =>
    Written(record, Fields(record, bytes), Dirty) = SubSeq(bytes, 1, record.len)

(* A value a record's write accepts is read back unchanged by parse, also   *)
(* out of a reused buffer.  For the header this needs the version and wire   *)
(* format that CommonHeader::new puts in, because its write checks neither.  *)
WrittenIsReadable ==
  Len(bytes) >= record.len =>
    LET v == Fields(record, bytes)
        out == Written(record, v, Dirty)
    IN (/\ Writable(record, v)
        /\ \A f \in Unchecked(record) : Coded(v[f], record.codes[f])) =>
         Parses(record, out) /\ Fields(record, out) = v

(* A record with a declared tail accepts only one split of the bytes behind *)
(* it: cutting or extending an accepted message makes it refused, so a tail  *)
(* is never read short and never swallows what follows.                      *)
TailIsExact ==
  (HasTail(record) /\ ParsesWithTail(record, bytes)) =>
    /\ ~ParsesWithTail(record, bytes \o <<0>>)
    /\ Len(bytes) > record.len => ~ParsesWithTail(record, SubSeq(bytes, 1, Len(bytes) - 1))

(* Coverage of an accepted tensor result is exact: every tile is covered or *)
(* dropped, never both, also at the 16-bit limits.                           *)
CoverageIsExact ==
  (record.name = "ResultPushMetadata" /\ Parses(record, bytes)) =>
    LET v == Fields(record, bytes)
    IN /\ U16(v.covered_tile_count) <= U16(v.tile_count)
       /\ U16(v.dropped_tile_count) = U16(v.tile_count) - U16(v.covered_tile_count)
       /\ Partial(v) /\ Bit(v.payload_kind_bitmap, 1) => U16(v.covered_tile_count) < U16(v.tile_count)

(* Flow updates of different scopes never share a routing: a FLOW_UPDATE    *)
(* accepted without a session grants connection credit only, one accepted    *)
(* with a session never grants connection credit outside operation scope.    *)
FlowScopesAreDisjoint ==
  (record.name = "FlowUpdateMetadata" /\ Parses(record, bytes)) =>
    LET v == Fields(record, bytes)
    IN /\ ~(validate_flow_routing(0, v) /\ validate_flow_routing(1, v))
       /\ validate_flow_routing(0, v) => IsZero(v.session_credit) /\ IsZero(v.operation_id)

=============================================================================
