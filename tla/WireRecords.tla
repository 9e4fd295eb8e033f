---------------------------- MODULE WireRecords -----------------------------
(***************************************************************************)
(* The fixed layouts of the records of nnrp-core: control, session and     *)
(* flow (control.rs, session.rs, flow.rs, header.rs), submit, result,      *)
(* object, cache and schema (data.rs, object.rs, cache.rs, schema.rs),     *)
(* read off their `parse` and `write` functions.  A field is               *)
(* <<offset, width>>; "codes" gives the values an enumeration or a flag    *)
(* mask admits, "zero" the spans `parse` insists are zero, "fill" says     *)
(* whether `write` clears the destination first, "tail" names the field    *)
(* that declares the length of the bytes behind the record.                *)
(***************************************************************************)
EXTENDS Integers, Sequences

NoCodes == [none \in {} |-> {}]
NoTail == "none"

(* Codes the `try_from` functions accept. *)
MessageType == 1..10 \cup 16..28 \cup 32..33 \cup 48..73
HeaderFlags == 0..63
ResultHintBudgetPolicy == 0..4
ResultHintCongestionState == 0..3
ResultHintReason == 0..4
SessionPatchAckStatus == 0..2
SessionPatchRejectReason == 0..5
TransportId == 0..4
SpecifiedTransport == TransportId \ {0}
ErrorScope == 0..2
SessionPriorityClass == 0..2
SessionStatus == 0..3
SessionCloseReason == 0..5
InFlightPolicy == 0..1
SessionCloseStatus == 0..3
FlowScopeKind == 0..2
FlowUpdateReason == 0..4
BackpressureLevel == 0..3

CommonHeader ==
  [name |-> "CommonHeader", len |-> 40, fill |-> FALSE,
   fields |-> [magic_0 |-> <<0, 1>>, magic_1 |-> <<1, 1>>, magic_2 |-> <<2, 1>>, magic_3 |-> <<3, 1>>,
      version_major |-> <<4, 1>>, wire_format |-> <<5, 1>>, message_type |-> <<6, 1>>,
      header_len |-> <<7, 1>>, flags |-> <<8, 4>>, meta_len |-> <<12, 4>>, body_len |-> <<16, 4>>,
      session_id |-> <<20, 4>>, frame_id |-> <<24, 4>>, view_id |-> <<28, 2>>,
      route_id |-> <<30, 2>>, trace_id |-> <<32, 8>>],
   codes |-> [magic_0 |-> {78}, magic_1 |-> {78}, magic_2 |-> {82}, magic_3 |-> {80},
      version_major |-> {1}, wire_format |-> {0}, message_type |-> MessageType,
      header_len |-> {40}, flags |-> HeaderFlags],
   zero |-> {}, tail |-> NoTail]

ClientHelloMetadata ==
  [name |-> "ClientHelloMetadata", len |-> 64, fill |-> TRUE,
   fields |-> [min_version_major |-> <<0, 1>>, max_version_major |-> <<1, 1>>,
      supported_wire_format_bitmap |-> <<2, 2>>, supported_profile_bitmap |-> <<4, 4>>,
      supported_payload_kind_bitmap |-> <<8, 4>>, supported_codec_bitmap |-> <<12, 4>>,
      supported_compression_bitmap |-> <<16, 4>>, supported_dtype_bitmap |-> <<20, 4>>,
      supported_layout_bitmap |-> <<24, 4>>, cache_digest_bitmap |-> <<28, 2>>,
      cache_object_bitmap |-> <<30, 2>>, cache_namespace_count |-> <<32, 2>>,
      max_lane_count |-> <<34, 2>>, max_cache_entries |-> <<36, 4>>, max_cache_bytes |-> <<40, 4>>,
      target_cadence_x100 |-> <<44, 2>>, latency_budget_ms |-> <<46, 2>>,
      quality_tier |-> <<48, 2>>, degrade_policy |-> <<50, 2>>, requested_session_id |-> <<52, 4>>,
      auth_bytes |-> <<56, 4>>, control_extension_bytes |-> <<60, 4>>],
   codes |-> NoCodes,
   zero |-> {}, tail |-> NoTail]

ServerHelloAckMetadata ==
  [name |-> "ServerHelloAckMetadata", len |-> 80, fill |-> TRUE,
   fields |-> [selected_version_major |-> <<0, 1>>, selected_wire_format |-> <<1, 1>>,
      auth_status |-> <<2, 1>>, session_id |-> <<4, 4>>, accepted_profile_bitmap |-> <<8, 4>>,
      accepted_payload_kind_bitmap |-> <<12, 4>>, accepted_codec_bitmap |-> <<16, 4>>,
      accepted_compression_bitmap |-> <<20, 4>>, accepted_dtype_bitmap |-> <<24, 4>>,
      accepted_layout_bitmap |-> <<28, 4>>, cache_digest_bitmap |-> <<32, 4>>,
      cache_object_bitmap |-> <<36, 4>>, max_cache_entries |-> <<40, 4>>,
      max_cache_bytes |-> <<44, 4>>, max_lane_count |-> <<48, 2>>,
      max_concurrent_frames |-> <<50, 2>>, target_cadence_x100 |-> <<52, 2>>,
      latency_budget_ms |-> <<54, 2>>, quality_tier |-> <<56, 2>>, degrade_policy |-> <<58, 2>>,
      max_body_bytes |-> <<60, 4>>, token_ttl_ms |-> <<64, 4>>, retry_after_ms |-> <<68, 4>>,
      control_extension_bytes |-> <<72, 4>>, server_flags |-> <<76, 4>>],
   codes |-> [server_flags |-> 0..1],
   zero |-> {<<3, 1>>}, tail |-> NoTail]

\* Mutant of SessionPatchMetadata: the reserved bytes are not checked.
SessionPatchMetadata_ReservedIgnored ==
  [name |-> "SessionPatchMetadata", len |-> 36, fill |-> TRUE,
   fields |-> [profile_id |-> <<0, 2>>, patch_mask |-> <<4, 4>>, target_cadence_x100 |-> <<8, 4>>,
      quality_tier |-> <<12, 2>>, degrade_policy |-> <<14, 2>>, active_lane_mask |-> <<16, 8>>,
      preferred_codec_bitmap |-> <<24, 4>>, preferred_compression_bitmap |-> <<28, 4>>,
      profile_patch_bytes |-> <<32, 4>>],
   codes |-> [patch_mask |-> 0..127],
   zero |-> {}, tail |-> NoTail]

SessionPatchMetadata ==
  [name |-> "SessionPatchMetadata", len |-> 36, fill |-> TRUE,
   fields |-> [profile_id |-> <<0, 2>>, patch_mask |-> <<4, 4>>, target_cadence_x100 |-> <<8, 4>>,
      quality_tier |-> <<12, 2>>, degrade_policy |-> <<14, 2>>, active_lane_mask |-> <<16, 8>>,
      preferred_codec_bitmap |-> <<24, 4>>, preferred_compression_bitmap |-> <<28, 4>>,
      profile_patch_bytes |-> <<32, 4>>],
   codes |-> [patch_mask |-> 0..127],
   zero |-> {<<2, 2>>}, tail |-> NoTail]

SessionPatchAckMetadata ==
  [name |-> "SessionPatchAckMetadata", len |-> 48, fill |-> TRUE,
   fields |-> [ack_status |-> <<0, 2>>, reject_reason |-> <<2, 2>>,
      applied_patch_mask |-> <<4, 4>>, rejected_patch_mask |-> <<8, 4>>,
      retry_after_ms |-> <<12, 4>>, effective_profile_id |-> <<16, 2>>,
      effective_target_cadence_x100 |-> <<20, 4>>, effective_quality_tier |-> <<24, 2>>,
      effective_degrade_policy |-> <<26, 2>>, effective_lane_mask |-> <<28, 8>>,
      effective_codec_bitmap |-> <<36, 4>>, effective_compression_bitmap |-> <<40, 4>>,
      profile_patch_ack_bytes |-> <<44, 4>>],
   codes |-> [ack_status |-> SessionPatchAckStatus, reject_reason |-> SessionPatchRejectReason,
      applied_patch_mask |-> 0..127, rejected_patch_mask |-> 0..127],
   zero |-> {<<18, 2>>}, tail |-> NoTail]

ResultHintMetadata ==
  [name |-> "ResultHintMetadata", len |-> 16, fill |-> FALSE,
   fields |-> [applied_budget_policy |-> <<0, 4>>, congestion_state |-> <<4, 4>>,
      reason |-> <<8, 4>>, retry_after_ms |-> <<12, 4>>],
   codes |-> [applied_budget_policy |-> ResultHintBudgetPolicy,
      congestion_state |-> ResultHintCongestionState, reason |-> ResultHintReason],
   zero |-> {}, tail |-> NoTail]

ControlRequestMetadata ==
  [name |-> "ControlRequestMetadata", len |-> 32, fill |-> TRUE,
   fields |-> [operation_id |-> <<0, 8>>, control_sequence |-> <<8, 8>>, reason_code |-> <<16, 2>>,
      source_role |-> <<18, 1>>, flags |-> <<19, 1>>, diagnostic_bytes |-> <<20, 4>>],
   codes |-> [flags |-> 0..3],
   zero |-> {<<24, 8>>}, tail |-> "diagnostic_bytes"]

SchedulingMetadata ==
  [name |-> "SchedulingMetadata", len |-> 32, fill |-> FALSE,
   fields |-> [operation_id |-> <<0, 8>>, control_sequence |-> <<8, 8>>,
      priority_class |-> <<16, 2>>, priority_delta |-> <<18, 2>>, deadline_unix_ms |-> <<20, 8>>,
      flags |-> <<28, 4>>],
   codes |-> [flags |-> 0..3],
   zero |-> {}, tail |-> NoTail]

SupersedeMetadata ==
  [name |-> "SupersedeMetadata", len |-> 32, fill |-> FALSE,
   fields |-> [old_operation_id |-> <<0, 8>>, new_operation_id |-> <<8, 8>>,
      control_sequence |-> <<16, 8>>, drop_reason_code |-> <<24, 2>>, flags |-> <<26, 2>>,
      diagnostic_bytes |-> <<28, 4>>],
   codes |-> [flags |-> 0..1],
   zero |-> {}, tail |-> "diagnostic_bytes"]

BudgetMetadata ==
  [name |-> "BudgetMetadata", len |-> 40, fill |-> FALSE,
   fields |-> [operation_id |-> <<0, 8>>, compute_budget_units |-> <<8, 8>>,
      memory_budget_bytes |-> <<16, 8>>, bandwidth_budget_bytes |-> <<24, 8>>,
      token_budget |-> <<32, 4>>, flags |-> <<36, 4>>],
   codes |-> [flags |-> 0..3],
   zero |-> {}, tail |-> NoTail]

ProgressMetadata ==
  [name |-> "ProgressMetadata", len |-> 32, fill |-> FALSE,
   fields |-> [operation_id |-> <<0, 8>>, progress_sequence |-> <<8, 8>>, stage_code |-> <<16, 2>>,
      percent_x100 |-> <<18, 2>>, object_id |-> <<20, 8>>, body_bytes |-> <<28, 4>>],
   codes |-> NoCodes,
   zero |-> {}, tail |-> "body_bytes"]

PartialResultMetadata ==
  [name |-> "PartialResultMetadata", len |-> 40, fill |-> FALSE,
   fields |-> [operation_id |-> <<0, 8>>, result_sequence |-> <<8, 8>>, object_id |-> <<16, 8>>,
      delta_sequence |-> <<24, 8>>, body_bytes |-> <<32, 4>>, flags |-> <<36, 4>>],
   codes |-> [flags |-> 0..3],
   zero |-> {}, tail |-> "body_bytes"]

PressureMetadata ==
  [name |-> "PressureMetadata", len |-> 32, fill |-> TRUE,
   fields |-> [scope_id |-> <<0, 8>>, credit_window |-> <<8, 8>>, pressure_level |-> <<16, 2>>,
      pressure_reason |-> <<18, 2>>, retry_after_ms |-> <<20, 4>>, flags |-> <<24, 4>>],
   codes |-> [flags |-> 0..3],
   zero |-> {<<28, 4>>}, tail |-> NoTail]

CapabilityMetadata ==
  [name |-> "CapabilityMetadata", len |-> 32, fill |-> FALSE,
   fields |-> [profile_id |-> <<0, 2>>, capability_count |-> <<2, 2>>, cost_model_id |-> <<4, 2>>,
      preference_rank |-> <<6, 2>>, limit_bytes |-> <<8, 8>>, limit_units |-> <<16, 8>>,
      body_bytes |-> <<24, 4>>, flags |-> <<28, 4>>],
   codes |-> [flags |-> 0..3],
   zero |-> {}, tail |-> "body_bytes"]

RouteHintMetadata ==
  [name |-> "RouteHintMetadata", len |-> 32, fill |-> FALSE,
   fields |-> [operation_id |-> <<0, 8>>, route_id |-> <<8, 4>>, executor_class |-> <<12, 2>>,
      affinity_class |-> <<14, 2>>, deadline_unix_ms |-> <<16, 8>>, body_bytes |-> <<24, 4>>,
      flags |-> <<28, 4>>],
   codes |-> [flags |-> 0..3],
   zero |-> {}, tail |-> "body_bytes"]

TraceContextMetadata ==
  [name |-> "TraceContextMetadata", len |-> 32, fill |-> FALSE,
   fields |-> [trace_id |-> <<0, 8>>, span_id |-> <<8, 8>>, parent_span_id |-> <<16, 8>>,
      stage_code |-> <<24, 2>>, flags |-> <<26, 2>>, body_bytes |-> <<28, 4>>],
   codes |-> [flags |-> 0..3],
   zero |-> {}, tail |-> "body_bytes"]

ResultDropReasonMetadata ==
  [name |-> "ResultDropReasonMetadata", len |-> 32, fill |-> TRUE,
   fields |-> [operation_id |-> <<0, 8>>, result_sequence |-> <<8, 8>>,
      drop_reason_code |-> <<16, 2>>, source_role |-> <<18, 1>>, flags |-> <<19, 1>>,
      diagnostic_bytes |-> <<20, 4>>],
   codes |-> [flags |-> 0..3],
   zero |-> {<<24, 8>>}, tail |-> "diagnostic_bytes"]

RecoverableErrorMetadata ==
  [name |-> "RecoverableErrorMetadata", len |-> 32, fill |-> FALSE,
   fields |-> [error_code |-> <<0, 4>>, error_scope |-> <<4, 4>>, recovery_action |-> <<8, 2>>,
      source_role |-> <<10, 1>>, flags |-> <<11, 1>>, retry_after_ms |-> <<12, 4>>,
      related_session_id |-> <<16, 4>>, related_frame_id |-> <<20, 4>>,
      related_view_id |-> <<24, 4>>, diagnostic_bytes |-> <<28, 4>>],
   codes |-> [error_scope |-> ErrorScope, flags |-> 0..3],
   zero |-> {}, tail |-> "diagnostic_bytes"]

RetryAfterMetadata ==
  [name |-> "RetryAfterMetadata", len |-> 32, fill |-> FALSE,
   fields |-> [scope_id |-> <<0, 8>>, control_sequence |-> <<8, 8>>, retry_after_ms |-> <<16, 4>>,
      jitter_ms |-> <<20, 4>>, reason_code |-> <<24, 2>>, source_role |-> <<26, 1>>,
      flags |-> <<27, 1>>, diagnostic_bytes |-> <<28, 4>>],
   codes |-> [flags |-> 0..3],
   zero |-> {}, tail |-> "diagnostic_bytes"]

TransportProbeMetadata ==
  [name |-> "TransportProbeMetadata", len |-> 16, fill |-> FALSE,
   fields |-> [probe_id |-> <<0, 4>>, probe_payload_bytes |-> <<4, 4>>,
      client_send_ts_us |-> <<8, 8>>],
   codes |-> NoCodes,
   zero |-> {}, tail |-> NoTail]

TransportProbeAckMetadata ==
  [name |-> "TransportProbeAckMetadata", len |-> 16, fill |-> TRUE,
   fields |-> [probe_id |-> <<0, 4>>, server_recv_ts_us |-> <<8, 8>>],
   codes |-> NoCodes,
   zero |-> {<<4, 4>>}, tail |-> NoTail]

SessionMigrateMetadata ==
  [name |-> "SessionMigrateMetadata", len |-> 24, fill |-> FALSE,
   fields |-> [old_transport_id |-> <<0, 4>>, new_transport_id |-> <<4, 4>>,
      last_result_frame_id |-> <<8, 8>>, client_migrate_ts_us |-> <<16, 8>>],
   codes |-> [old_transport_id |-> SpecifiedTransport, new_transport_id |-> SpecifiedTransport],
   zero |-> {}, tail |-> NoTail]

SessionMigrateAckMetadata ==
  [name |-> "SessionMigrateAckMetadata", len |-> 24, fill |-> FALSE,
   fields |-> [accept_code |-> <<0, 4>>, resume_from_frame_id |-> <<4, 8>>,
      grace_window_ms |-> <<12, 4>>, server_migrate_ts_us |-> <<16, 8>>],
   codes |-> NoCodes,
   zero |-> {}, tail |-> NoTail]

ErrorMetadata ==
  [name |-> "ErrorMetadata", len |-> 32, fill |-> FALSE,
   fields |-> [error_code |-> <<0, 4>>, error_scope |-> <<4, 4>>, is_fatal |-> <<8, 4>>,
      retry_after_ms |-> <<12, 4>>, related_session_id |-> <<16, 4>>,
      related_frame_id |-> <<20, 4>>, related_view_id |-> <<24, 4>>,
      diagnostic_bytes |-> <<28, 4>>],
   codes |-> [error_scope |-> ErrorScope, is_fatal |-> 0..1],
   zero |-> {}, tail |-> NoTail]

SessionOpenMetadata ==
  [name |-> "SessionOpenMetadata", len |-> 48, fill |-> TRUE,
   fields |-> [requested_session_id |-> <<0, 4>>, profile_id |-> <<4, 2>>,
      priority_class |-> <<6, 1>>, session_flags |-> <<7, 1>>, schema_id |-> <<8, 4>>,
      schema_version |-> <<12, 4>>, default_deadline_ms |-> <<16, 4>>,
      max_in_flight_operations |-> <<20, 2>>, lease_ttl_hint_ms |-> <<24, 4>>,
      resume_token_bytes |-> <<28, 4>>, auth_bytes |-> <<32, 4>>,
      session_extension_bytes |-> <<36, 4>>, client_session_tag |-> <<40, 8>>],
   codes |-> [priority_class |-> SessionPriorityClass, session_flags |-> 0..15],
   zero |-> {<<22, 2>>}, tail |-> NoTail]

SessionOpenAckMetadata ==
  [name |-> "SessionOpenAckMetadata", len |-> 56, fill |-> TRUE,
   fields |-> [session_id |-> <<0, 4>>, accepted_profile_id |-> <<4, 2>>,
      accepted_priority_class |-> <<6, 1>>, session_status |-> <<7, 1>>, schema_id |-> <<8, 4>>,
      schema_version |-> <<12, 4>>, granted_operation_credit |-> <<16, 2>>,
      max_in_flight_operations |-> <<18, 2>>, lease_ttl_ms |-> <<20, 4>>,
      resume_window_ms |-> <<24, 4>>, resume_token_bytes |-> <<28, 4>>,
      session_extension_bytes |-> <<32, 4>>, server_session_tag |-> <<36, 8>>,
      route_scope_id |-> <<44, 4>>, session_error_code |-> <<48, 4>>,
      session_flags_ack |-> <<52, 4>>],
   codes |-> [accepted_priority_class |-> SessionPriorityClass, session_status |-> SessionStatus,
      session_flags_ack |-> 0..31],
   zero |-> {}, tail |-> NoTail]

SessionCloseMetadata ==
  [name |-> "SessionCloseMetadata", len |-> 24, fill |-> TRUE,
   fields |-> [close_reason |-> <<0, 2>>, in_flight_policy |-> <<2, 1>>,
      drain_timeout_ms |-> <<4, 4>>, last_operation_id |-> <<8, 8>>,
      session_error_code |-> <<16, 4>>, session_close_tag |-> <<20, 4>>],
   codes |-> [close_reason |-> SessionCloseReason, in_flight_policy |-> InFlightPolicy],
   zero |-> {<<3, 1>>}, tail |-> NoTail]

SessionCloseAckMetadata ==
  [name |-> "SessionCloseAckMetadata", len |-> 16, fill |-> TRUE,
   fields |-> [close_status |-> <<0, 1>>, last_operation_id |-> <<4, 8>>,
      session_error_code |-> <<12, 4>>],
   codes |-> [close_status |-> SessionCloseStatus],
   zero |-> {<<1, 1>>, <<2, 2>>}, tail |-> NoTail]

FlowUpdateMetadata ==
  [name |-> "FlowUpdateMetadata", len |-> 32, fill |-> TRUE,
   fields |-> [scope_kind |-> <<0, 1>>, update_reason |-> <<1, 1>>,
      backpressure_level |-> <<2, 1>>, connection_credit |-> <<4, 2>>, session_credit |-> <<6, 2>>,
      operation_credit |-> <<8, 2>>, operation_id |-> <<12, 8>>, retry_after_ms |-> <<20, 4>>,
      credit_epoch |-> <<24, 4>>, flow_flags |-> <<28, 4>>],
   codes |-> [scope_kind |-> FlowScopeKind, update_reason |-> FlowUpdateReason,
      backpressure_level |-> BackpressureLevel, flow_flags |-> 0..15],
   zero |-> {<<3, 1>>, <<10, 2>>}, tail |-> NoTail]

ControlRecordSet ==
  {CommonHeader, ClientHelloMetadata, ServerHelloAckMetadata, SessionPatchMetadata,
   SessionPatchAckMetadata, ResultHintMetadata, ControlRequestMetadata, SchedulingMetadata,
   SupersedeMetadata, BudgetMetadata, ProgressMetadata, PartialResultMetadata,
   PressureMetadata, CapabilityMetadata, RouteHintMetadata, TraceContextMetadata,
   ResultDropReasonMetadata, RecoverableErrorMetadata, RetryAfterMetadata,
   TransportProbeMetadata, TransportProbeAckMetadata, SessionMigrateMetadata,
   SessionMigrateAckMetadata, ErrorMetadata, SessionOpenMetadata, SessionOpenAckMetadata,
   SessionCloseMetadata, SessionCloseAckMetadata, FlowUpdateMetadata}

-----------------------------------------------------------------------------
(* Submit, result, object, cache and schema records *)


BudgetPolicy == 0..15
LossTolerancePolicy == 0..3 \cup {255}
InputProfile == 0..2
TileIndexMode == 0..3
SubmitMode == 0..2
ResultClass == 0..3
PayloadKindBitmap == 0..127
PayloadKind == {1, 2, 4, 8, 16, 32, 64}
RuntimeObjectKind == 0..12
RuntimeRole == 0..7
MemoryLocationHint == 0..6
OwnershipHint == 0..6
ObjectReleaseReason == 0..7
CacheReuseScope == 0..5
CacheMissReason == 0..7
CacheObjectKind == 1..9
CacheAckStatus == 0..2
CacheInvalidateScope == 0..3

FrameSubmitMetadata ==
  [name |-> "FrameSubmitMetadata", len |-> 72, fill |-> TRUE,
   fields |-> [src_width |-> <<0, 2>>, src_height |-> <<2, 2>>, tile_width |-> <<4, 2>>,
      tile_height |-> <<6, 2>>, tile_count |-> <<8, 2>>, section_count |-> <<10, 2>>,
      frame_class |-> <<12, 1>>, input_profile |-> <<13, 1>>, tile_index_mode |-> <<14, 1>>,
      latency_budget_ms |-> <<16, 2>>, target_fps_x100 |-> <<18, 2>>, retry_of_frame |-> <<20, 4>>,
      tile_base_id |-> <<24, 4>>, camera_bytes |-> <<28, 4>>, tile_index_bytes |-> <<32, 4>>,
      operation_id |-> <<40, 8>>, submit_mode |-> <<52, 1>>, budget_policy |-> <<53, 1>>,
      loss_tolerance_policy |-> <<54, 1>>, object_ref_mask |-> <<56, 4>>,
      dependency_frame_id |-> <<60, 4>>, payload_kind_bitmap |-> <<64, 4>>,
      payload_frame_count |-> <<68, 2>>],
   codes |-> [budget_policy |-> BudgetPolicy, input_profile |-> InputProfile,
      tile_index_mode |-> TileIndexMode, submit_mode |-> SubmitMode,
      loss_tolerance_policy |-> LossTolerancePolicy, payload_kind_bitmap |-> PayloadKindBitmap],
   zero |-> {<<15, 1>>, <<36, 4>>, <<48, 4>>, <<55, 1>>, <<70, 2>>}, tail |-> NoTail]

ResultPushMetadata ==
  [name |-> "ResultPushMetadata", len |-> 64, fill |-> TRUE,
   fields |-> [status_code |-> <<0, 2>>, result_flags |-> <<2, 2>>, section_count |-> <<4, 2>>,
      tile_count |-> <<6, 2>>, active_profile_id |-> <<8, 2>>, inference_ms |-> <<12, 2>>,
      queue_ms |-> <<14, 2>>, server_total_ms |-> <<16, 2>>, tile_base_id |-> <<20, 4>>,
      tile_index_bytes |-> <<24, 4>>, result_class |-> <<44, 1>>,
      applied_budget_policy |-> <<45, 1>>, reused_frame_id |-> <<48, 4>>,
      covered_tile_count |-> <<52, 2>>, dropped_tile_count |-> <<54, 2>>,
      payload_kind_bitmap |-> <<56, 4>>, payload_frame_count |-> <<60, 2>>],
   codes |-> [result_class |-> ResultClass, result_flags |-> 0..7, applied_budget_policy |-> BudgetPolicy,
      payload_kind_bitmap |-> PayloadKindBitmap],
   zero |-> {<<10, 2>>, <<18, 2>>, <<28, 8>>, <<36, 8>>, <<46, 2>>, <<62, 2>>}, tail |-> NoTail]

BodyRegionPrelude ==
  [name |-> "BodyRegionPrelude", len |-> 32, fill |-> TRUE,
   fields |-> [inline_object_bytes |-> <<0, 4>>, object_reference_bytes |-> <<4, 4>>,
      typed_payload_descriptor_bytes |-> <<8, 4>>, typed_payload_frame_bytes |-> <<12, 4>>,
      extension_descriptor_bytes |-> <<16, 4>>, extension_payload_bytes |-> <<20, 4>>],
   codes |-> NoCodes,
   zero |-> {<<24, 4>>, <<28, 4>>}, tail |-> NoTail]

InlineObjectBlockHeader ==
  [name |-> "InlineObjectBlockHeader", len |-> 16, fill |-> TRUE,
   fields |-> [object_kind |-> <<0, 2>>, object_flags |-> <<2, 2>>, profile_id |-> <<4, 2>>,
      object_bytes |-> <<8, 4>>],
   codes |-> [object_kind |-> CacheObjectKind, object_flags |-> {0}],
   zero |-> {<<6, 2>>, <<12, 4>>}, tail |-> NoTail]

TensorSectionDescriptor ==
  [name |-> "TensorSectionDescriptor", len |-> 32, fill |-> TRUE,
   fields |-> [role_id |-> <<0, 2>>, codec_id |-> <<2, 1>>, dtype_id |-> <<3, 1>>,
      layout_id |-> <<4, 1>>, scale_policy |-> <<5, 1>>, section_flags |-> <<6, 2>>,
      element_count_per_tile |-> <<8, 4>>, codec_table_bytes |-> <<12, 4>>,
      length_table_bytes |-> <<16, 4>>, payload_bytes |-> <<20, 4>>,
      payload_stride_bytes |-> <<24, 4>>],
   codes |-> NoCodes,
   zero |-> {<<28, 4>>}, tail |-> NoTail]

ObjectReferenceBlock ==
  [name |-> "ObjectReferenceBlock", len |-> 24, fill |-> TRUE,
   fields |-> [object_kind |-> <<0, 2>>, ref_flags |-> <<2, 2>>, cache_namespace |-> <<4, 4>>,
      cache_key_hi |-> <<8, 8>>, cache_key_lo |-> <<16, 8>>],
   codes |-> [object_kind |-> CacheObjectKind, ref_flags |-> {0}],
   zero |-> {}, tail |-> NoTail]

ObjectDescriptorMetadata ==
  [name |-> "ObjectDescriptorMetadata", len |-> 48, fill |-> TRUE,
   fields |-> [object_id |-> <<0, 8>>, object_kind |-> <<8, 2>>, producer_role |-> <<10, 1>>,
      consumer_role |-> <<11, 1>>, session_id |-> <<12, 4>>, byte_size |-> <<16, 8>>,
      compute_cost_units |-> <<24, 4>>, memory_location_hint |-> <<28, 2>>,
      ownership_hint |-> <<30, 2>>, lifetime_hint_ms |-> <<32, 4>>, metadata_bytes |-> <<36, 4>>],
   codes |-> [object_kind |-> RuntimeObjectKind, producer_role |-> RuntimeRole,
      consumer_role |-> RuntimeRole, memory_location_hint |-> MemoryLocationHint,
      ownership_hint |-> OwnershipHint],
   zero |-> {<<40, 8>>}, tail |-> "metadata_bytes"]

ObjectReferenceMetadata ==
  [name |-> "ObjectReferenceMetadata", len |-> 48, fill |-> FALSE,
   fields |-> [object_id |-> <<0, 8>>, operation_id |-> <<8, 8>>, object_version |-> <<16, 8>>,
      offset |-> <<24, 8>>, length |-> <<32, 8>>, flags |-> <<40, 4>>,
      metadata_bytes |-> <<44, 4>>],
   codes |-> [flags |-> 0..7],
   zero |-> {}, tail |-> "metadata_bytes"]

ObjectReleaseMetadata ==
  [name |-> "ObjectReleaseMetadata", len |-> 32, fill |-> TRUE,
   fields |-> [object_id |-> <<0, 8>>, operation_id |-> <<8, 8>>, release_reason |-> <<16, 2>>,
      source_role |-> <<18, 1>>, flags |-> <<19, 1>>, diagnostic_bytes |-> <<20, 4>>],
   codes |-> [release_reason |-> ObjectReleaseReason, source_role |-> RuntimeRole, flags |-> 0..3],
   zero |-> {<<24, 8>>}, tail |-> "diagnostic_bytes"]

ObjectDeltaMetadata ==
  [name |-> "ObjectDeltaMetadata", len |-> 40, fill |-> FALSE,
   fields |-> [object_id |-> <<0, 8>>, delta_sequence |-> <<8, 8>>, region_offset |-> <<16, 8>>,
      region_bytes |-> <<24, 4>>, delta_bytes |-> <<28, 4>>, flags |-> <<32, 4>>,
      metadata_bytes |-> <<36, 4>>],
   codes |-> [flags |-> 0..7],
   zero |-> {}, tail |-> "metadata_bytes"]

CacheReferenceMetadata ==
  [name |-> "CacheReferenceMetadata", len |-> 56, fill |-> TRUE,
   fields |-> [cache_namespace |-> <<0, 4>>, profile_id |-> <<4, 2>>, reuse_scope |-> <<6, 2>>,
      cache_key_hi |-> <<8, 8>>, cache_key_lo |-> <<16, 8>>, lease_id |-> <<24, 8>>,
      producer_trace_id |-> <<32, 8>>, expiration_hint_ms |-> <<40, 4>>,
      metadata_bytes |-> <<44, 4>>, flags |-> <<48, 4>>],
   codes |-> [reuse_scope |-> CacheReuseScope, flags |-> 0..3],
   zero |-> {<<52, 4>>}, tail |-> "metadata_bytes"]

CacheMissMetadata ==
  [name |-> "CacheMissMetadata", len |-> 32, fill |-> TRUE,
   fields |-> [cache_namespace |-> <<0, 4>>, profile_id |-> <<4, 2>>, miss_reason |-> <<6, 2>>,
      cache_key_hi |-> <<8, 8>>, cache_key_lo |-> <<16, 8>>, diagnostic_bytes |-> <<24, 4>>],
   codes |-> [miss_reason |-> CacheMissReason],
   zero |-> {<<28, 4>>}, tail |-> "diagnostic_bytes"]

CachePutMetadata ==
  [name |-> "CachePutMetadata", len |-> 40, fill |-> FALSE,
   fields |-> [cache_namespace |-> <<0, 4>>, object_kind |-> <<4, 4>>, cache_key_hi |-> <<8, 8>>,
      cache_key_lo |-> <<16, 8>>, ttl_ms |-> <<24, 4>>, object_bytes |-> <<28, 4>>,
      codec_bitmap |-> <<32, 4>>, flags |-> <<36, 4>>],
   codes |-> [object_kind |-> CacheObjectKind, flags |-> 0..3],
   zero |-> {}, tail |-> NoTail]

CacheAckMetadata ==
  [name |-> "CacheAckMetadata", len |-> 40, fill |-> TRUE,
   fields |-> [cache_namespace |-> <<0, 4>>, status |-> <<4, 4>>, cache_key_hi |-> <<8, 8>>,
      cache_key_lo |-> <<16, 8>>, accepted_ttl_ms |-> <<24, 4>>, max_object_bytes |-> <<28, 4>>,
      detail_code |-> <<32, 4>>],
   codes |-> [status |-> CacheAckStatus],
   zero |-> {<<36, 4>>}, tail |-> NoTail]

CacheInvalidateMetadata ==
  [name |-> "CacheInvalidateMetadata", len |-> 32, fill |-> TRUE,
   fields |-> [invalidate_scope |-> <<0, 4>>, cache_namespace |-> <<4, 4>>,
      cache_key_hi |-> <<8, 8>>, cache_key_lo |-> <<16, 8>>, reason_code |-> <<24, 4>>],
   codes |-> [invalidate_scope |-> CacheInvalidateScope],
   zero |-> {<<28, 4>>}, tail |-> NoTail]

SchemaDescriptorHeader ==
  [name |-> "SchemaDescriptorHeader", len |-> 32, fill |-> TRUE,
   fields |-> [schema_id |-> <<0, 4>>, schema_version |-> <<4, 4>>, profile_id |-> <<8, 2>>,
      schema_flags |-> <<10, 2>>, min_version_major |-> <<12, 1>>, max_version_major |-> <<13, 1>>,
      body_bytes |-> <<16, 4>>, dependency_count |-> <<20, 2>>,
      default_stream_semantics |-> <<22, 2>>, schema_hash |-> <<24, 8>>],
   codes |-> [schema_flags |-> 0..15],
   zero |-> {<<14, 2>>}, tail |-> NoTail]

TypedPayloadDescriptor ==
  [name |-> "TypedPayloadDescriptor", len |-> 24, fill |-> TRUE,
   fields |-> [profile_id |-> <<0, 2>>, payload_kind |-> <<2, 1>>, descriptor_flags |-> <<3, 1>>,
      schema_id |-> <<4, 4>>, schema_version |-> <<8, 4>>, stream_semantics |-> <<12, 2>>,
      offset |-> <<16, 4>>, length |-> <<20, 4>>],
   codes |-> [payload_kind |-> PayloadKind, descriptor_flags |-> 0..15],
   zero |-> {<<14, 2>>}, tail |-> NoTail]

DataRecordSet ==
  {FrameSubmitMetadata, ResultPushMetadata, BodyRegionPrelude, InlineObjectBlockHeader,
   TensorSectionDescriptor, ObjectReferenceBlock, ObjectDescriptorMetadata,
   ObjectReferenceMetadata, ObjectReleaseMetadata, ObjectDeltaMetadata,
   CacheReferenceMetadata, CacheMissMetadata, CachePutMetadata, CacheAckMetadata,
   CacheInvalidateMetadata, SchemaDescriptorHeader, TypedPayloadDescriptor}

=============================================================================
