---------------------------- MODULE HostMetadata ----------------------------
(***************************************************************************)
(* The wire records as a host sees them.  A runtime frame on its way from a *)
(* native caller to the peer's application: nnrp_runtime_frame_send checks  *)
(* the payload, the session's send method splits it into metadata and body, *)
(* the peer's decode arm checks both again.  At the native boundary         *)
(* (nnrp-ffi lib.rs) a record is a C struct: its fields in C order with     *)
(* their widths, the record it mirrors and the fields whose value must be a *)
(* known code of an enumeration.  At the browser boundary (nnrp-wasm        *)
(* lib.rs) a record of a control or object message is JSON text: a JSON     *)
(* value is a number or a string of decimal digits, held as the eight       *)
(* little-endian bytes it denotes (two's complement for a number) and, for  *)
(* a string, how it is spelt.  The payload, the image and its tail are      *)
(* those of WireCodec.                                                      *)
(***************************************************************************)
EXTENDS WireCodec, SequencesExt

RecordOf(type) ==
  CASE type \in {"Cancel", "Abort"} -> ControlRequestMetadata
    [] type \in {"PriorityUpdate", "Deadline", "ExpireAt"} -> SchedulingMetadata
    [] type = "Supersede" -> SupersedeMetadata
    [] type = "BudgetUpdate" -> BudgetMetadata
    [] type = "Progress" -> ProgressMetadata
    [] type = "PartialResult" -> PartialResultMetadata
    [] type \in {"Backpressure", "CreditUpdate"} -> PressureMetadata
    [] type \in {"CapabilityNegotiation", "DegradeProfile"} -> CapabilityMetadata
    [] type \in {"RouteHint", "ExecutionHint"} -> RouteHintMetadata
    [] type = "TraceContext" -> TraceContextMetadata
    [] type = "ResultDropReason" -> ResultDropReasonMetadata
    [] type = "ErrorRecoverable" -> RecoverableErrorMetadata
    [] type = "RetryAfter" -> RetryAfterMetadata
    [] type = "ResultHint" -> ResultHintMetadata
    [] type = "FlowUpdate" -> FlowUpdateMetadata
    [] type = "ObjectDeclare" -> ObjectDescriptorMetadata
    [] type = "ObjectRef" -> ObjectReferenceMetadata
    [] type = "ObjectRelease" -> ObjectReleaseMetadata
    [] type \in {"ObjectPatch", "ObjectDelta"} -> ObjectDeltaMetadata
    [] type = "CacheReference" -> CacheReferenceMetadata
    [] type = "CacheMiss" -> CacheMissMetadata
    [] type = "CacheInvalidate" -> CacheInvalidateMetadata

FrameTypes ==
  {"Cancel", "Abort", "PriorityUpdate", "Deadline", "ExpireAt", "Supersede", "BudgetUpdate",
   "Progress", "PartialResult", "Backpressure", "CreditUpdate", "CapabilityNegotiation",
   "DegradeProfile", "RouteHint", "ExecutionHint", "TraceContext", "ResultDropReason",
   "ErrorRecoverable", "RetryAfter", "ResultHint", "FlowUpdate", "ObjectDeclare", "ObjectRef",
   "ObjectRelease", "ObjectPatch", "ObjectDelta", "CacheReference", "CacheMiss", "CacheInvalidate"}

Semantics(type, v) ==
  CASE type \in {"Cancel", "Abort"} -> validate_control_request_semantics(type, v)
    [] type \in {"PriorityUpdate", "Deadline", "ExpireAt"} -> validate_scheduling_semantics(type, v)
    [] type = "Progress" -> ~IsZero(v.operation_id)
    [] type = "PartialResult" -> validate_partial_result_semantics(v)
    [] type \in {"Backpressure", "CreditUpdate"} -> validate_pressure_semantics(type, v)
    [] type = "TraceContext" -> validate_trace_context_semantics(v)
    [] type = "ResultDropReason" -> validate_result_drop_reason_semantics(v)
    [] OTHER -> TRUE

IsDelta(type) == type \in {"ObjectPatch", "ObjectDelta"}

(* The declared lengths of a delta's extension and payload add up to n.     *)
DeltaDeclares(v, n) ==
  \E a, b \in 0..n : a + b = n /\ Declares(v, "metadata_bytes", a) /\ Declares(v, "delta_bytes", b)

validate_object_delta_payload(src) ==
  /\ Parses(ObjectDeltaMetadata, src)
  /\ DeltaDeclares(Fields(ObjectDeltaMetadata, src), Len(src) - ObjectDeltaMetadata.len)

validate_runtime_frame_payload(type, src) ==
  LET r == RecordOf(type)
  IN /\ CASE IsDelta(type) -> validate_object_delta_payload(src)
          [] HasTail(r) /\ ~IsDelta(type) -> ParsesWithTail(r, src)
          [] OTHER -> Parses(r, src)
     /\ Semantics(type, Fields(r, src))

(* Tokens outside the registry; a peer that knows no extension refuses them. *)
RegisteredTokens == {97}

decode_registered_capability_tokens(body, count) ==
  /\ decode_capability_tokens(body, count)
  /\ \A i \in 1..Len(body) \div 3 : body[3*i] \in RegisteredTokens

(* send_server_runtime_frame and send_runtime_frame: parse, then the send    *)
(* method's own checks, then the metadata written anew and the rest as body. *)
SendAccepts(type, src, session) ==
  LET r == RecordOf(type)
      body == SubSeq(src, r.len + 1, Len(src))
      v == Fields(r, src)
  IN /\ Semantics(type, v)
     /\ type = "FlowUpdate" => validate_flow_routing(session, v)
     /\ r = CapabilityMetadata => decode_registered_capability_tokens(body, v.capability_count)

SentMetadata(type, src) == Written(RecordOf(type), Fields(RecordOf(type), src), 0)

SentBody(type, src) ==
  LET r == RecordOf(type)
  IN IF HasTail(r) THEN SubSeq(src, r.len + 1, Len(src)) ELSE <<>>

(* The decode arms of client.rs and server.rs: the metadata has exactly its   *)
(* record's length and parses, and the body has the declared length.         *)
DecodeAccepts(type, meta, body, session) ==
  LET r == RecordOf(type)
      v == Fields(r, meta)
  IN /\ Len(meta) = r.len
     /\ Parses(r, meta)
     /\ Semantics(type, v)
     /\ CASE IsDelta(type) -> DeltaDeclares(v, Len(body))
          [] HasTail(r) /\ ~IsDelta(type) -> Declares(v, r.tail, Len(body))
          [] OTHER -> body = <<>>
     /\ type = "FlowUpdate" => validate_flow_routing(session, v)
     /\ r = CapabilityMetadata => decode_registered_capability_tokens(body, v.capability_count)

-----------------------------------------------------------------------------
(* The event a role's application gets, and the bytes it gives back *)

BodyTypes ==
  {"PartialResult", "Progress", "ObjectDeclare", "ObjectRef", "CacheReference",
   "CapabilityNegotiation", "DegradeProfile", "RouteHint", "ExecutionHint", "TraceContext"}
DiagnosticTypes ==
  {"Cancel", "Abort", "Supersede", "ObjectRelease", "CacheMiss", "ErrorRecoverable", "RetryAfter"}
BareTypes ==
  {"PriorityUpdate", "Deadline", "ExpireAt", "BudgetUpdate", "FlowUpdate", "Backpressure",
   "CreditUpdate", "CacheInvalidate"}

NoEventTail == [kind |-> "None", parts |-> <<>>]

(* split_off at the extension's length, which must lie within the body.     *)
MetadataBodyAndDelta(v, body) ==
  [kind |-> "MetadataBodyAndDelta",
   parts |-> LET n == v.metadata_bytes[1]
             IN <<SubSeq(body, 1, n), SubSeq(body, n + 1, Len(body))>>]

(* ResultDropReason reaches a client as the evidence of a terminal result.  *)
from_client(type, v, body) ==
  [metadata |-> v,
   tail |-> CASE IsDelta(type) -> MetadataBodyAndDelta(v, body)
              [] type \in BodyTypes -> [kind |-> "Body", parts |-> <<body>>]
              [] type \in DiagnosticTypes \cup {"ResultDropReason"} ->
                   [kind |-> "Diagnostic", parts |-> <<body>>]
              [] type \in BareTypes \cup {"ResultHint"} -> NoEventTail]

from_server(type, v, body) ==
  [metadata |-> v,
   tail |-> CASE IsDelta(type) -> MetadataBodyAndDelta(v, body)
              [] type \in BodyTypes -> [kind |-> "Body", parts |-> <<body>>]
              [] type \in DiagnosticTypes \cup {"ResultDropReason"} ->
                   [kind |-> "Diagnostic", parts |-> <<body>>]
              [] type \in BareTypes -> NoEventTail]

append_to(tail, payload) == FoldLeft(LAMBDA b, part : b \o part, payload, tail.parts)

to_bytes(type, v) == Written(RecordOf(type), v, 0)

into_payload(type, event) == append_to(event.tail, to_bytes(type, event.metadata))

(* A result hint is never sent to a server.                                 *)
Events(type, v, body) ==
  {from_client(type, v, body)}
    \cup (IF type = "ResultHint" THEN {} ELSE {from_server(type, v, body)})

-----------------------------------------------------------------------------

Native(core, checked, fields) == [core |-> core, checked |-> checked, fields |-> fields]

NnrpSchemaDescriptorHeader ==
  Native(SchemaDescriptorHeader, {},
   <<<<"schema_id", 4>>, <<"schema_version", 4>>, <<"profile_id", 2>>,
      <<"schema_flags", 2>>, <<"min_version_major", 1>>, <<"max_version_major", 1>>,
      <<"reserved0", 2>>, <<"body_bytes", 4>>, <<"dependency_count", 2>>,
      <<"default_stream_semantics", 2>>, <<"schema_hash", 8>>>>)

NnrpTypedPayloadDescriptor ==
  Native(TypedPayloadDescriptor, {"payload_kind"},
   <<<<"profile_id", 2>>, <<"payload_kind", 1>>, <<"descriptor_flags", 1>>,
      <<"schema_id", 4>>, <<"schema_version", 4>>, <<"stream_semantics", 2>>,
      <<"reserved0", 2>>, <<"offset", 4>>, <<"length", 4>>>>)

NnrpRuntimeObjectDescriptor ==
  Native(ObjectDescriptorMetadata, {"object_kind", "producer_role", "consumer_role",
    "memory_location_hint", "ownership_hint"},
   <<<<"object_id", 8>>, <<"object_kind", 2>>, <<"producer_role", 1>>,
      <<"consumer_role", 1>>, <<"session_id", 4>>, <<"byte_size", 8>>,
      <<"compute_cost_units", 4>>, <<"memory_location_hint", 2>>, <<"ownership_hint", 2>>,
      <<"lifetime_hint_ms", 4>>, <<"metadata_bytes", 4>>>>)

NnrpObjectReferenceDescriptor ==
  Native(ObjectReferenceMetadata, {},
   <<<<"object_id", 8>>, <<"operation_id", 8>>, <<"object_version", 8>>,
      <<"offset", 8>>, <<"length", 8>>, <<"flags", 4>>, <<"metadata_bytes", 4>>>>)

NnrpObjectReleaseDescriptor ==
  Native(ObjectReleaseMetadata, {"release_reason", "source_role"},
   <<<<"object_id", 8>>, <<"operation_id", 8>>, <<"release_reason", 2>>,
      <<"source_role", 1>>, <<"flags", 1>>, <<"diagnostic_bytes", 4>>>>)

NnrpObjectDeltaDescriptor ==
  Native(ObjectDeltaMetadata, {},
   <<<<"object_id", 8>>, <<"delta_sequence", 8>>, <<"region_offset", 8>>,
      <<"region_bytes", 4>>, <<"delta_bytes", 4>>, <<"flags", 4>>, <<"metadata_bytes", 4>>>>)

NnrpCacheReferenceDescriptor ==
  Native(CacheReferenceMetadata, {"reuse_scope"},
   <<<<"cache_namespace", 4>>, <<"profile_id", 2>>, <<"reuse_scope", 2>>,
      <<"cache_key_hi", 8>>, <<"cache_key_lo", 8>>, <<"lease_id", 8>>,
      <<"producer_trace_id", 8>>, <<"expiration_hint_ms", 4>>, <<"metadata_bytes", 4>>,
      <<"flags", 4>>>>)

NnrpCacheMissDescriptor ==
  Native(CacheMissMetadata, {"miss_reason"},
   <<<<"cache_namespace", 4>>, <<"miss_reason", 2>>, <<"profile_id", 2>>,
      <<"cache_key_hi", 8>>, <<"cache_key_lo", 8>>, <<"diagnostic_bytes", 4>>>>)

NnrpControlRequestDescriptor ==
  Native(ControlRequestMetadata, {},
   <<<<"operation_id", 8>>, <<"control_sequence", 8>>, <<"reason_code", 2>>,
      <<"source_role", 1>>, <<"flags", 1>>, <<"diagnostic_bytes", 4>>>>)

NnrpSchedulingDescriptor ==
  Native(SchedulingMetadata, {},
   <<<<"operation_id", 8>>, <<"control_sequence", 8>>, <<"priority_class", 2>>,
      <<"priority_delta", 2>>, <<"deadline_unix_ms", 8>>, <<"flags", 4>>>>)

NnrpSupersedeDescriptor ==
  Native(SupersedeMetadata, {},
   <<<<"old_operation_id", 8>>, <<"new_operation_id", 8>>,
      <<"control_sequence", 8>>, <<"drop_reason_code", 2>>, <<"flags", 2>>,
      <<"diagnostic_bytes", 4>>>>)

NnrpBudgetDescriptor ==
  Native(BudgetMetadata, {},
   <<<<"operation_id", 8>>, <<"compute_budget_units", 8>>,
      <<"memory_budget_bytes", 8>>, <<"bandwidth_budget_bytes", 8>>, <<"token_budget", 4>>,
      <<"flags", 4>>>>)

NnrpProgressDescriptor ==
  Native(ProgressMetadata, {},
   <<<<"operation_id", 8>>, <<"progress_sequence", 8>>, <<"stage_code", 2>>,
      <<"percent_x100", 2>>, <<"object_id", 8>>, <<"body_bytes", 4>>>>)

NnrpPartialResultDescriptor ==
  Native(PartialResultMetadata, {},
   <<<<"operation_id", 8>>, <<"result_sequence", 8>>, <<"object_id", 8>>,
      <<"delta_sequence", 8>>, <<"body_bytes", 4>>, <<"flags", 4>>>>)

NnrpPressureDescriptor ==
  Native(PressureMetadata, {},
   <<<<"scope_id", 8>>, <<"credit_window", 8>>, <<"pressure_level", 2>>,
      <<"pressure_reason", 2>>, <<"retry_after_ms", 4>>, <<"flags", 4>>>>)

NnrpCapabilityDescriptor ==
  Native(CapabilityMetadata, {},
   <<<<"profile_id", 2>>, <<"capability_count", 2>>, <<"cost_model_id", 2>>,
      <<"preference_rank", 2>>, <<"limit_bytes", 8>>, <<"limit_units", 8>>,
      <<"body_bytes", 4>>, <<"flags", 4>>>>)

NnrpRouteHintDescriptor ==
  Native(RouteHintMetadata, {},
   <<<<"operation_id", 8>>, <<"route_id", 4>>, <<"executor_class", 2>>,
      <<"affinity_class", 2>>, <<"deadline_unix_ms", 8>>, <<"body_bytes", 4>>, <<"flags", 4>>>>)

NnrpTraceContextDescriptor ==
  Native(TraceContextMetadata, {},
   <<<<"trace_id", 8>>, <<"span_id", 8>>, <<"parent_span_id", 8>>,
      <<"stage_code", 2>>, <<"flags", 2>>, <<"body_bytes", 4>>>>)

NnrpResultDropReasonDescriptor ==
  Native(ResultDropReasonMetadata, {},
   <<<<"operation_id", 8>>, <<"result_sequence", 8>>, <<"drop_reason_code", 2>>,
      <<"source_role", 1>>, <<"flags", 1>>, <<"diagnostic_bytes", 4>>>>)

NnrpRecoverableErrorDescriptor ==
  Native(RecoverableErrorMetadata, {"error_scope"},
   <<<<"error_code", 4>>, <<"error_scope", 4>>, <<"recovery_action", 2>>,
      <<"source_role", 1>>, <<"flags", 1>>, <<"retry_after_ms", 4>>,
      <<"related_session_id", 4>>, <<"related_frame_id", 4>>, <<"related_view_id", 4>>,
      <<"diagnostic_bytes", 4>>>>)

NnrpRetryAfterDescriptor ==
  Native(RetryAfterMetadata, {},
   <<<<"scope_id", 8>>, <<"control_sequence", 8>>, <<"retry_after_ms", 4>>,
      <<"jitter_ms", 4>>, <<"reason_code", 2>>, <<"source_role", 1>>, <<"flags", 1>>,
      <<"diagnostic_bytes", 4>>>>)

Descriptors ==
  {NnrpSchemaDescriptorHeader, NnrpTypedPayloadDescriptor, NnrpRuntimeObjectDescriptor,
   NnrpObjectReferenceDescriptor, NnrpObjectReleaseDescriptor, NnrpObjectDeltaDescriptor,
   NnrpCacheReferenceDescriptor, NnrpCacheMissDescriptor, NnrpControlRequestDescriptor,
   NnrpSchedulingDescriptor, NnrpSupersedeDescriptor, NnrpBudgetDescriptor,
   NnrpProgressDescriptor, NnrpPartialResultDescriptor, NnrpPressureDescriptor,
   NnrpCapabilityDescriptor, NnrpRouteHintDescriptor, NnrpTraceContextDescriptor,
   NnrpResultDropReasonDescriptor, NnrpRecoverableErrorDescriptor, NnrpRetryAfterDescriptor}

-----------------------------------------------------------------------------
Width(d) == [f \in {d.fields[i][1] : i \in DOMAIN d.fields} |->
               (CHOOSE x \in {d.fields[i] : i \in DOMAIN d.fields} : x[1] = f)[2]]

(* A cast to an integer type of w bytes.                                     *)
Cast(b, w) == [i \in 1..w |-> IF i \in DOMAIN b THEN b[i] ELSE 0]

(* From<record> for struct: by name; what the record has no field for is 0.  *)
from_core(d, v) ==
  [f \in DOMAIN Width(d) |->
     IF f \in DOMAIN v THEN Cast(v[f], Width(d)[f]) ELSE Zeros(Width(d)[f])]

(* to_core: reserved fields are zero and every enumeration's code is known.  *)
ConvertsToCore(d, n) ==
  /\ \A f \in DOMAIN n \ DOMAIN d.core.fields : IsZero(n[f])
  /\ \A f \in d.checked : Coded(n[f], d.core.codes[f])

to_core(d, n) == [f \in DOMAIN d.core.fields |-> Cast(n[f], d.core.fields[f][2])]

DescriptorOf(r) == CHOOSE d \in Descriptors : d.core = r

(* descriptor_write and descriptor_parse of the schema and typed payload     *)
(* structs; the other records reach the wire through the runtime frames.     *)
CanWrite(d, n) == ConvertsToCore(d, n) /\ Writable(d.core, to_core(d, n))
descriptor_write(d, n) == Written(d.core, to_core(d, n), Dirty)
descriptor_parse(d, src) == from_core(d, Fields(d.core, src))

(* What a host may put into the fields the record does not have.             *)
HostStructs(d, v) ==
  {from_core(d, v)} \cup
    {[from_core(d, v) EXCEPT ![f] = Small(Width(d)[f], 1)] : f \in DOMAIN Width(d) \ DOMAIN v}

-----------------------------------------------------------------------------
(* JSON *)

Number(b) == [kind |-> "number", value |-> b, spelt |-> "canonical"]
Digits(b, spelt) == [kind |-> "string", value |-> b, spelt |-> spelt]

-----------------------------------------------------------------------------
(* The fields of each Wasm structure and their Rust types; "text" is a u64   *)
(* behind #[serde(with = "canonical_u64")].                                  *)

WasmControlRequest ==
  [operation_id |-> "text", control_sequence |-> "text", reason_code |-> "u16",
   source_role |-> "u8", flags |-> "u8", diagnostic_bytes |-> "u32"]

WasmScheduling ==
  [operation_id |-> "text", control_sequence |-> "text", priority_class |-> "u16",
   priority_delta |-> "i16", deadline_unix_ms |-> "text", flags |-> "u32"]

WasmSupersede ==
  [old_operation_id |-> "text", new_operation_id |-> "text", control_sequence |-> "text",
   drop_reason_code |-> "u16", flags |-> "u16", diagnostic_bytes |-> "u32"]

\* Mutant of WasmBudget: a budget is a JSON number, as it was before canonical_u64.
WasmBudget_Numbers ==
  [operation_id |-> "text", compute_budget_units |-> "u64", memory_budget_bytes |-> "text",
   bandwidth_budget_bytes |-> "text", token_budget |-> "u32", flags |-> "u32"]

WasmBudget ==
  [operation_id |-> "text", compute_budget_units |-> "text", memory_budget_bytes |-> "text",
   bandwidth_budget_bytes |-> "text", token_budget |-> "u32", flags |-> "u32"]

WasmProgress ==
  [operation_id |-> "text", progress_sequence |-> "text", stage_code |-> "u16",
   percent_x100 |-> "u16", object_id |-> "text", body_bytes |-> "u32"]

WasmPartialResult ==
  [operation_id |-> "text", result_sequence |-> "text", object_id |-> "text",
   delta_sequence |-> "text", body_bytes |-> "u32", flags |-> "u32"]

WasmPressure ==
  [scope_id |-> "text", credit_window |-> "text", pressure_level |-> "u16",
   pressure_reason |-> "u16", retry_after_ms |-> "u32", flags |-> "u32"]

WasmCapability ==
  [profile_id |-> "u16", capability_count |-> "u16", cost_model_id |-> "u16",
   preference_rank |-> "u16", limit_bytes |-> "text", limit_units |-> "text",
   body_bytes |-> "u32", flags |-> "u32"]

WasmRouteHint ==
  [operation_id |-> "text", route_id |-> "u32", executor_class |-> "u16",
   affinity_class |-> "u16", deadline_unix_ms |-> "text", body_bytes |-> "u32", flags |-> "u32"]

WasmTraceContext ==
  [trace_id |-> "text", span_id |-> "text", parent_span_id |-> "text", stage_code |-> "u16",
   flags |-> "u16", body_bytes |-> "u32"]

WasmResultDropReason ==
  [operation_id |-> "text", result_sequence |-> "text", drop_reason_code |-> "u16",
   source_role |-> "u8", flags |-> "u8", diagnostic_bytes |-> "u32"]

WasmRecoverableError ==
  [error_code |-> "u32", error_scope |-> "u32", recovery_action |-> "u16", source_role |-> "u8",
   flags |-> "u8", retry_after_ms |-> "u32", related_session_id |-> "u32",
   related_frame_id |-> "u32", related_view_id |-> "u32", diagnostic_bytes |-> "u32"]

WasmRetryAfter ==
  [scope_id |-> "text", control_sequence |-> "text", retry_after_ms |-> "u32",
   jitter_ms |-> "u32", reason_code |-> "u16", source_role |-> "u8", flags |-> "u8",
   diagnostic_bytes |-> "u32"]

WasmObjectDescriptor ==
  [object_id |-> "text", object_kind |-> "u16", producer_role |-> "u8", consumer_role |-> "u8",
   session_id |-> "u32", byte_size |-> "text", compute_cost_units |-> "u32",
   memory_location_hint |-> "u16", ownership_hint |-> "u16", lifetime_hint_ms |-> "u32",
   metadata_bytes |-> "u32"]

WasmObjectReference ==
  [object_id |-> "text", operation_id |-> "text", object_version |-> "text", offset |-> "text",
   length |-> "text", flags |-> "u32", metadata_bytes |-> "u32"]

WasmObjectRelease ==
  [object_id |-> "text", operation_id |-> "text", release_reason |-> "u16", source_role |-> "u8",
   flags |-> "u8", diagnostic_bytes |-> "u32"]

WasmObjectDelta ==
  [object_id |-> "text", delta_sequence |-> "text", region_offset |-> "text",
   region_bytes |-> "u32", delta_bytes |-> "u32", flags |-> "u32", metadata_bytes |-> "u32"]

WasmCacheReference ==
  [cache_namespace |-> "u32", cache_key_hi |-> "text", cache_key_lo |-> "text",
   profile_id |-> "u16", reuse_scope |-> "u16", lease_id |-> "text",
   producer_trace_id |-> "text", expiration_hint_ms |-> "u32", metadata_bytes |-> "u32",
   flags |-> "u32"]

WasmCacheMiss ==
  [cache_namespace |-> "u32", cache_key_hi |-> "text", cache_key_lo |-> "text",
   miss_reason |-> "u16", profile_id |-> "u16", diagnostic_bytes |-> "u32"]

-----------------------------------------------------------------------------
(* serde: one field *)

JsonWidth(type) ==
  CASE type \in {"text", "u64"} -> 8
    [] type = "u32" -> 4
    [] type \in {"u16", "i16"} -> 2
    [] type = "u8" -> 1

Negative(b) == b[Len(b)] >= 128
Ones(w) == [i \in 1..w |-> 255]

Widen(type, b) ==
  b \o (IF type = "i16" /\ Negative(b) THEN Ones(8 - Len(b)) ELSE Zeros(8 - Len(b)))

parse_canonical_u64_value(x) == x.spelt = "canonical"

(* Whether deserialisation accepts a JSON value for a field of this type.   *)
Deserializes(type, x) ==
  IF type = "text"
  THEN x.kind = "string" /\ parse_canonical_u64_value(x)
  ELSE x.kind = "number" /\ Widen(type, SubSeq(x.value, 1, JsonWidth(type))) = x.value

Serialize(type, b) ==
  IF type = "text" THEN Digits(b, "canonical") ELSE Number(Widen(type, b))

-----------------------------------------------------------------------------
(* A whole message *)

(* The structure the four functions choose for a record's message types.     *)
WasmOf(r) ==
  CASE r = ControlRequestMetadata -> WasmControlRequest
    [] r = SchedulingMetadata -> WasmScheduling
    [] r = SupersedeMetadata -> WasmSupersede
    [] r = BudgetMetadata -> WasmBudget
    [] r = ProgressMetadata -> WasmProgress
    [] r = PartialResultMetadata -> WasmPartialResult
    [] r = PressureMetadata -> WasmPressure
    [] r = CapabilityMetadata -> WasmCapability
    [] r = RouteHintMetadata -> WasmRouteHint
    [] r = TraceContextMetadata -> WasmTraceContext
    [] r = ResultDropReasonMetadata -> WasmResultDropReason
    [] r = RecoverableErrorMetadata -> WasmRecoverableError
    [] r = RetryAfterMetadata -> WasmRetryAfter
    [] r = ObjectDescriptorMetadata -> WasmObjectDescriptor
    [] r = ObjectReferenceMetadata -> WasmObjectReference
    [] r = ObjectReleaseMetadata -> WasmObjectRelease
    [] r = ObjectDeltaMetadata -> WasmObjectDelta
    [] r = CacheReferenceMetadata -> WasmCacheReference
    [] r = CacheMissMetadata -> WasmCacheMiss

Readable(r, json) ==
  LET types == WasmOf(r)
  IN /\ DOMAIN types \subseteq DOMAIN json
     /\ \A f \in DOMAIN types : Deserializes(types[f], json[f])

into_core(r, json) ==
  [f \in DOMAIN r.fields |-> SubSeq(json[f].value, 1, r.fields[f][2])]

wasm_from_core(r, v) ==
  LET types == WasmOf(r) IN [f \in DOMAIN types |-> Serialize(types[f], v[f])]

reject_tail_for_fixed_metadata(tail) == tail = <<>>

(* encode_runtime_control_metadata_json / encode_runtime_object_metadata_json:*)
(* the enumerations are checked by into_core, masks, rules and the declared   *)
(* tail by to_bytes and to_vec_with_*.                                        *)
Encodes(r, json, tail) ==
  /\ Readable(r, json)
  /\ Writable(r, into_core(r, json))
  /\ IF HasTail(r)
     THEN TailHolds(r, Written(r, into_core(r, json), 0) \o tail)
     ELSE reject_tail_for_fixed_metadata(tail)

Encoded(r, json, tail) ==
  Written([r EXCEPT !.fill = TRUE], into_core(r, json), 0) \o (IF HasTail(r) THEN tail ELSE <<>>)

(* decode_runtime_control_metadata_json / decode_runtime_object_metadata_json *)
Decodes(r, src) == IF HasTail(r) THEN ParsesWithTail(r, src) ELSE Parses(r, src)

Decoded(r, src) ==
  [metadata |-> wasm_from_core(r, Fields(r, src)),
   tail_offset |-> IF HasTail(r) THEN r.len ELSE 0,
   tail_len |-> IF HasTail(r) THEN Len(src) - r.len ELSE 0]

-----------------------------------------------------------------------------
(* The host *)

(* JSON.parse reads a number as a double: beyond 2^53 the low bits go.       *)
Exact(b) ==
  \/ b[8] = 0 /\ b[7] < 32
  \/ b[8] = 255 /\ b[7] >= 224

InJavaScript(x) ==
  IF x.kind = "number" /\ ~Exact(x.value)
  THEN Number([i \in 1..8 |-> IF i <= 2 THEN 0 ELSE x.value[i]])
  ELSE x

HostCopy(json) == [f \in DOMAIN json |-> InJavaScript(json[f])]

(* Other spellings of one value a host may put in its place.                 *)
Spellings(x) ==
  {x, Number(x.value), Digits(x.value, "canonical"), Digits(x.value, "padded"),
   Digits(x.value, "beyond_u64"), Digits(x.value, "no_digits"), Number(Ones(8)),
   Number(<<0, 0, 0, 0, 1, 0, 0, 0>>)}

Texts(r, v) ==
  LET json == wasm_from_core(r, v)
  IN UNION {{[json EXCEPT ![f] = x] : x \in Spellings(json[f])} : f \in DOMAIN json}
       \cup {[g \in DOMAIN json \ {f} |-> json[g]] : f \in DOMAIN json}

-----------------------------------------------------------------------------
(* Properties *)

(* The frames a record is sent in.                                           *)
FramesByRecord ==
  [name \in {RecordOf(type).name : type \in FrameTypes} |->
     {type \in FrameTypes : RecordOf(type).name = name}]

FramesOf(r) == IF r.name \in DOMAIN FramesByRecord THEN FramesByRecord[r.name] ELSE {}

(* A frame the native entry point admits and the session agrees to send is  *)
(* decoded by the peer: the two checks of the sender are never weaker than   *)
(* the receiver's, whose refusal would fail the peer's read.                 *)
AdmittedFramesDecode ==
  \A type \in FramesOf(record), session \in 0..1 :
    (/\ validate_runtime_frame_payload(type, bytes)
     /\ SendAccepts(type, bytes, session))
      => DecodeAccepts(type, SentMetadata(type, bytes), SentBody(type, bytes), session)

(* The event the peer's application gets gives back every byte of the        *)
(* payload of a frame whose record declares what follows it.                  *)
DeclaredBytesArrive ==
  \A type \in FramesOf(record) :
    (/\ HasTail(record)
     /\ validate_runtime_frame_payload(type, bytes))
      => \A event \in Events(type, Fields(record, SentMetadata(type, bytes)), SentBody(type, bytes)) :
           into_payload(type, event) = bytes

(* A partial result the receiver delivers always leads to data: an inline    *)
(* body of the declared length, or the id of an object.                       *)
PartialResultsLeadToData ==
  (/\ record = PartialResultMetadata
   /\ validate_runtime_frame_payload("PartialResult", bytes)) =>
     \/ SentBody("PartialResult", bytes) # <<>>
     \/ ~IsZero(Fields(record, bytes).object_id)

(* A record accepted from the wire reaches the host and converts back to the *)
(* same record: the native checks are never stricter than the wire's, and no *)
(* field is cut or exchanged on the way.                                     *)
NativeReturnsWhatArrived ==
  Parses(record, bytes) =>
    LET d == DescriptorOf(record)
        v == Fields(record, bytes)
    IN /\ ConvertsToCore(d, from_core(d, v))
       /\ to_core(d, from_core(d, v)) = v

(* What a host fills in and the library agrees to write is what a peer's     *)
(* library hands to its host, field by field, reserved fields included.      *)
NativePeersAgree ==
  Len(bytes) >= record.len =>
    LET d == DescriptorOf(record)
    IN \A n \in HostStructs(d, Fields(record, bytes)) :
         CanWrite(d, n) =>
           /\ Parses(record, descriptor_write(d, n))
           /\ descriptor_parse(d, descriptor_write(d, n)) = n

(* A message a browser host decodes, passes through JSON.parse and encodes   *)
(* again is the message that arrived, byte for byte: no 64-bit identity,     *)
(* key or budget loses bits to a double, no negative delta changes sign and  *)
(* no field is filled from its neighbour.                                    *)
JsonKeepsEveryBit ==
  Decodes(record, bytes) =>
    LET out == Decoded(record, bytes)
        tail == SubSeq(bytes, record.len + 1, Len(bytes))
        kept == IF HasTail(record) THEN tail ELSE <<>>
    IN /\ Encodes(record, HostCopy(out.metadata), kept)
       /\ Encoded(record, HostCopy(out.metadata), kept)
            = SubSeq(bytes, 1, record.len) \o kept

(* A text the encoder accepts is the only text for its bytes: decoding gives *)
(* it back unchanged, so no number stands in for a 64-bit string, no padded  *)
(* or overlong string is read as some other value and no number is cut to    *)
(* the width of its field.                                                   *)
JsonTextIsCanonical ==
  Len(bytes) >= record.len =>
    \A json \in Texts(record, Fields(record, bytes)) :
      LET tail == SubSeq(bytes, record.len + 1, Len(bytes))
      IN Encodes(record, json, tail) =>
           /\ Decodes(record, Encoded(record, json, tail))
           /\ Decoded(record, Encoded(record, json, tail)).metadata = json

(* The tail the host handed to the encoder is where the decoder says it is,  *)
(* and a tail is never accepted and then left out of the bytes.              *)
JsonTailIsLocated ==
  Len(bytes) >= record.len =>
    LET json == wasm_from_core(record, Fields(record, bytes))
        tail == SubSeq(bytes, record.len + 1, Len(bytes))
        src == Encoded(record, json, tail)
        out == Decoded(record, src)
    IN Encodes(record, json, tail) =>
         SubSeq(src, out.tail_offset + 1, out.tail_offset + out.tail_len) = tail

=============================================================================
