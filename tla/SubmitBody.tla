----------------------------- MODULE SubmitBody -----------------------------
(***************************************************************************)
(* How a client turns a submit request into a frame body, from             *)
(* nnrp-runtime/src/submit.rs: tile indices in four encodings, tensor      *)
(* sections with codec and length tables, objects inline or by reference,  *)
(* typed payload frames.  A receiver reads the body with nothing but the   *)
(* metadata and the sizes in it.  Also region images of a foreign writer.  *)
(* The policy fields and the header context are copied unchanged and left  *)
(* out.                                                                    *)
(***************************************************************************)
EXTENDS WireRecords, Integers, Sequences, SequencesExt, FiniteSets


(* The regions of a body (data.rs): the prelude that gives their sizes,     *)
(* references to cached objects, typed payload frames.  A region is a      *)
(* sequence of bytes; records are written and read through WireCodec.      *)
Wire == INSTANCE WireCodec
          WITH Records <- {}, MaxEdits <- 0, Tails <- {},
               record <- <<>>, bytes <- <<>>, at <- 0, edits <- 0

Zeros(n) == [i \in 1..n |-> 0]
Le(w, n) == [i \in 1..w |-> IF i = 1 THEN n % 256 ELSE IF i = 2 THEN n \div 256 ELSE 0]
Num(b) == IF Len(b) = 1 THEN b[1] ELSE b[1] + 256 * b[2]

(* Bytes first..last of a region, as far as the region goes.               *)
Slice(b, first, last) == SubSeq(b, first, IF last < Len(b) THEN last ELSE Len(b))

(* A record with the fields n gives; the fields it leaves out are zero.    *)
Values(r, n) ==
  [f \in DOMAIN r.fields |-> Le(r.fields[f][2], IF f \in DOMAIN n THEN n[f] ELSE 0)]
Image(r, n) == Wire!Written(r, Values(r, n), 0)
Writes(r, n) == Wire!Writable(r, Values(r, n))
Read(r, b) == [f \in DOMAIN r.fields |-> Num(Wire!Fields(r, b)[f])]
Whole(r, b) == Len(b) >= r.len /\ Wire!Parses(r, b)

RecordsIn(r, region) == [k \in 1..(Len(region) \div r.len) |-> SubSeq(region, (k - 1) * r.len + 1, k * r.len)]

-----------------------------------------------------------------------------
(* References to cached objects *)

CameraBlock == 1
TileIndexBlock == 2
TensorSectionTable == 3
PayloadLayoutTemplate == 6

Inline == 0
Reference == 1
Mixed == 2

Bits(mask) == {s \in 0..7 : (mask \div 2^s) % 2 = 1}
Mask(slots) == FoldLeft(LAMBDA m, s : m + (IF s \in slots THEN 2^s ELSE 0), 0, [i \in 1..8 |-> i - 1])

validate_submit_object_ref_mask(mode, mask) ==
  /\ Bits(mask) \subseteq 0..3
  /\ IF mode = Inline THEN mask = 0 ELSE mask # 0

submit_object_slot_index(kind) ==
  CASE kind = CameraBlock -> 0
    [] kind = TileIndexBlock -> 1
    [] kind = TensorSectionTable -> 2
    [] kind = PayloadLayoutTemplate -> 3
    [] OTHER -> -1

(* The standard slots of a region's blocks, in the order of the blocks.    *)
Slots(blocks) ==
  SelectSeq([i \in DOMAIN blocks |-> submit_object_slot_index(blocks[i].object_kind)],
            LAMBDA s : s # -1)

validate_submit_mask(blocks, mode, mask) ==
  LET slots == Slots(blocks) IN
  /\ validate_submit_object_ref_mask(mode, mask)
  /\ \A i, j \in DOMAIN slots : i < j => slots[i] < slots[j]
  /\ ToSet(slots) = Bits(mask)

ReferencesParse(region) ==
  /\ Len(region) % ObjectReferenceBlock.len = 0
  /\ \A b \in ToSet(RecordsIn(ObjectReferenceBlock, region)) : Whole(ObjectReferenceBlock, b)

Blocks(region) ==
  LET bs == RecordsIn(ObjectReferenceBlock, region)
  IN [k \in DOMAIN bs |-> Read(ObjectReferenceBlock, bs[k])]

References(blocks) == FlattenSeq([k \in DOMAIN blocks |-> Image(ObjectReferenceBlock, blocks[k])])

first_unresolved(blocks, cached) ==
  LET missing == SelectSeq(blocks, LAMBDA b : b \notin cached)
  IN SubSeq(missing, 1, IF missing = <<>> THEN 0 ELSE 1)

-----------------------------------------------------------------------------
(* Typed payload frames *)

Tensor == 1
TokenChunk == 2
AudioChunk == 4

STANDARD_PROFILE_TENSOR == 1
STANDARD_PROFILE_TOKEN == 2

validate_descriptor_profile(d) ==
  /\ d.payload_kind # Tensor
  /\ d.profile_id # STANDARD_PROFILE_TENSOR
  /\ d.payload_kind = TokenChunk => d.profile_id = STANDARD_PROFILE_TOKEN

checked_payload_end(d) == d.offset + d.length

KindBits(descriptors) == UNION {Bits(descriptors[k].payload_kind) : k \in DOMAIN descriptors}

validate(bitmap, count, descriptors, payload) ==
  /\ Len(descriptors) = count
  /\ \A k \in 1..count :
        /\ validate_descriptor_profile(descriptors[k])
        /\ descriptors[k].offset = (IF k = 1 THEN 0 ELSE checked_payload_end(descriptors[k - 1]))
        /\ checked_payload_end(descriptors[k]) <= Len(payload)
  /\ (IF count = 0 THEN 0 ELSE checked_payload_end(descriptors[count])) = Len(payload)
  /\ KindBits(descriptors) = Bits(bitmap) \ Bits(Tensor)

from_parts(bitmap, descriptors, payload) ==
  validate(bitmap, Len(descriptors), descriptors, payload)

descriptor_region_bytes(descriptors) ==
  FlattenSeq([k \in DOMAIN descriptors |-> Image(TypedPayloadDescriptor, descriptors[k])])

Descriptors(region) ==
  LET ds == RecordsIn(TypedPayloadDescriptor, region)
  IN [k \in DOMAIN ds |-> Read(TypedPayloadDescriptor, ds[k])]

(* TypedPayloadRegion::parse; with no frames, the bitmap is not compared.  *)
TypedParse(bitmap, count, region, payload) ==
  /\ Bits(bitmap) \subseteq 0..6
  /\ Len(region) = count * TypedPayloadDescriptor.len
  /\ IF count = 0 THEN payload = <<>>
     ELSE /\ \A d \in ToSet(RecordsIn(TypedPayloadDescriptor, region)) :
                Whole(TypedPayloadDescriptor, d)
          /\ validate(bitmap, count, Descriptors(region), payload)

frame_views(descriptors, payload) ==
  [k \in DOMAIN descriptors |->
     Slice(payload, descriptors[k].offset + 1, checked_payload_end(descriptors[k]))]

-----------------------------------------------------------------------------

CONSTANTS
  MaxTiles, TileIds,       \* tensor inputs: the tiles,
  Modes, Bases,            \* their index encodings,
  Cameras,                 \* camera blocks,
  MaxSections, Roles, PayloadLens, Codecs, Strides,   \* sections,
  Slotted,                 \* and what the three reference slots may hold
  MaxFrames, FrameKinds, Profiles, FrameLens,         \* typed payload inputs
  Identities,              \* [operation, frame, flags_known]
  U16_MAX,                 \* the counts of the metadata stop here
  Cached,                  \* sets of blocks a receiver may hold
  ForeignKinds, MaxBlocks, \* reference regions of a foreign writer
  Offsets                  \* offsets and lengths of its descriptors

VARIABLES
  stage,     \* "input", "built", "refused", "foreign", "accepted", "dropped" or "missing"
  input,     \* what the caller asks for
  built,     \* the request: metadata and body
  got        \* what the receiver makes of it

vars == <<stage, input, built, got>>

None == [object_kind |-> 0, cache_key_lo |-> 0]
DenseRange == 0
RawU16 == 1
DeltaU16 == 2
Bitset == 3

-----------------------------------------------------------------------------
(* The builder *)

validate_identity(identity) == identity.operation # 0 /\ identity.frame # 0

align(b) == b \o Zeros((8 - (Len(b) % 8)) % 8)

Increasing(ids) == \A i \in 1..(Len(ids) - 1) : ids[i] < ids[i + 1]

TileIndexRule(ids, mode, base) ==
  CASE mode = DenseRange -> \A i \in DOMAIN ids : ids[i] = base + i - 1
    [] mode = RawU16 -> TRUE
    [] OTHER -> Increasing(ids)

BitsetBytes(ids) ==
  [b \in 1..(IF ids = <<>> THEN 0 ELSE Last(ids) \div 8 + 1) |->
     Mask({id % 8 : id \in {i \in ToSet(ids) : i \div 8 = b - 1}})]

\* Mutant of encode_tile_indices: every delta is taken from the first tile.
encode_tile_indices_FromFirst(ids, mode) ==
  CASE mode = DenseRange -> <<>>
    [] mode = RawU16 -> FlattenSeq([i \in DOMAIN ids |-> Le(2, ids[i])])
    [] mode = DeltaU16 ->
         FlattenSeq([i \in DOMAIN ids |-> Le(2, ids[i] - (IF i = 1 THEN 0 ELSE ids[1]))])
    [] mode = Bitset -> BitsetBytes(ids)

encode_tile_indices(ids, mode) ==
  CASE mode = DenseRange -> <<>>
    [] mode = RawU16 -> FlattenSeq([i \in DOMAIN ids |-> Le(2, ids[i])])
    [] mode = DeltaU16 ->
         FlattenSeq([i \in DOMAIN ids |-> Le(2, ids[i] - (IF i = 1 THEN 0 ELSE ids[i - 1]))])
    [] mode = Bitset -> BitsetBytes(ids)

SectionsRule(sections, tiles) ==
  \A k \in DOMAIN sections :
    LET s == sections[k] IN
    /\ k > 1 => s.role_id > sections[k - 1].role_id
    /\ Len(s.payloads) = tiles
    /\ s.codec_ids = <<>> \/ Len(s.codec_ids) = tiles
    /\ s.stride # 0 => \A p \in ToSet(s.payloads) : Len(p) <= s.stride

MixedCodec(s) == \E c \in ToSet(s.codec_ids) : c # s.default_codec_id
CodecTable_(s) == IF MixedCodec(s) THEN s.codec_ids ELSE <<>>
Strided(p, stride) == IF stride = 0 THEN p ELSE p \o Zeros(stride - Len(p))

encode_section(s) ==
  LET lengths == FlattenSeq([t \in DOMAIN s.payloads |-> Le(4, Len(s.payloads[t]))])
      payload == FlattenSeq([t \in DOMAIN s.payloads |-> Strided(s.payloads[t], s.stride)])
  IN Image(TensorSectionDescriptor,
           [role_id |-> s.role_id, codec_id |-> s.default_codec_id,
            section_flags |-> (IF MixedCodec(s) THEN 1 ELSE 0) + (IF s.stride # 0 THEN 2 ELSE 0),
            codec_table_bytes |-> Len(CodecTable_(s)), length_table_bytes |-> Len(lengths),
            payload_bytes |-> Len(payload), payload_stride_bytes |-> s.stride])
     \o CodecTable_(s) \o lengths \o payload

SectionTable(sections) == FoldLeft(LAMBDA b, s : align(b) \o encode_section(s), <<>>, sections)

append_inline_object(region, kind, payload) ==
  align(region \o Image(InlineObjectBlockHeader, [object_kind |-> kind, object_bytes |-> Len(payload)])
               \o payload)

(* The three slots, in slot order.                                         *)
Given(refs) == SelectSeq(<<refs.camera, refs.tile_index, refs.table>>, LAMBDA b : b # None)

standard_references(refs) ==
  /\ refs.camera # None => refs.camera.object_kind = CameraBlock
  /\ refs.tile_index # None => refs.tile_index.object_kind = TileIndexBlock
  /\ refs.table # None => refs.table.object_kind = TensorSectionTable

reference_mask(blocks) == Mask(ToSet(Slots(blocks)))

encode_body(inline, references, descriptors, payload) ==
  Image(BodyRegionPrelude,
        [inline_object_bytes |-> Len(inline), object_reference_bytes |-> Len(references),
         typed_payload_descriptor_bytes |-> Len(descriptors),
         typed_payload_frame_bytes |-> Len(payload)])
  \o inline \o references \o descriptors \o payload

(* The objects that travel inline: not empty, and not given by reference.  *)
InlineObjects(in) ==
  LET refs == in.refs IN
  (IF in.camera # <<>> /\ refs.camera = None
   THEN <<[kind |-> CameraBlock, payload |-> in.camera]>> ELSE <<>>)
  \o (IF in.tiles # <<>> /\ refs.tile_index = None
      THEN <<[kind |-> TileIndexBlock, payload |-> encode_tile_indices(in.tiles, in.mode)]>> ELSE <<>>)
  \o (IF in.sections # <<>> /\ refs.table = None
      THEN <<[kind |-> TensorSectionTable, payload |-> SectionTable(in.sections)]>> ELSE <<>>)

submit_mode(inline, references) ==
  IF references = <<>> THEN Inline ELSE IF inline = <<>> THEN Reference ELSE Mixed

TensorMetadata(in) ==
  LET blocks == Given(in.refs) IN
  [tile_count |-> Len(in.tiles), section_count |-> Len(in.sections),
   tile_index_mode |-> in.mode, tile_base_id |-> in.base,
   camera_bytes |-> IF in.refs.camera # None THEN 0 ELSE Len(in.camera),
   tile_index_bytes |-> IF in.refs.tile_index # None THEN 0
                        ELSE Len(encode_tile_indices(in.tiles, in.mode)),
   operation_id |-> in.identity.operation,
   submit_mode |-> submit_mode(InlineObjects(in), blocks),
   object_ref_mask |-> reference_mask(blocks), payload_kind_bitmap |-> Tensor,
   payload_frame_count |-> 0]

TensorAccepts(in) ==
  /\ validate_identity(in.identity) /\ in.identity.flags_known
  /\ Len(in.tiles) <= U16_MAX /\ Len(in.sections) <= U16_MAX
  /\ TileIndexRule(in.tiles, in.mode, in.base)
  /\ SectionsRule(in.sections, Len(in.tiles))
  /\ standard_references(in.refs)
  /\ validate_submit_mask(Given(in.refs), TensorMetadata(in).submit_mode,
                          TensorMetadata(in).object_ref_mask)
  /\ Writes(FrameSubmitMetadata, TensorMetadata(in))

TensorBody(in) ==
  encode_body(FoldLeft(LAMBDA b, o : append_inline_object(b, o.kind, o.payload), <<>>, InlineObjects(in)),
              References(Given(in.refs)), <<>>, <<>>)

(* Every frame starts where the frames before it end.                      *)
FrameDescriptors(frames) ==
  [k \in DOMAIN frames |->
     [profile_id |-> frames[k].profile_id, payload_kind |-> frames[k].payload_kind,
      offset |-> Len(FlattenSeq([j \in 1..(k - 1) |-> frames[j].payload])),
      length |-> Len(frames[k].payload)]]

PayloadRegion(frames) == FlattenSeq([k \in DOMAIN frames |-> frames[k].payload])

TypedMetadata(in) ==
  [operation_id |-> in.identity.operation, submit_mode |-> Inline, object_ref_mask |-> 0,
   tile_index_mode |-> RawU16, payload_frame_count |-> Len(in.frames),
   payload_kind_bitmap |-> Mask(KindBits(in.frames))]

TypedAccepts(in) ==
  /\ validate_identity(in.identity) /\ in.identity.flags_known
  /\ in.frames # <<>> /\ Len(in.frames) <= U16_MAX
  /\ from_parts(TypedMetadata(in).payload_kind_bitmap, FrameDescriptors(in.frames),
                PayloadRegion(in.frames))
  /\ Writes(FrameSubmitMetadata, TypedMetadata(in))

TypedBody(in) ==
  encode_body(<<>>, <<>>, descriptor_region_bytes(FrameDescriptors(in.frames)),
              PayloadRegion(in.frames))

(* NnrpSubmitRequest::token: chunks are typed frames of the token profile. *)
token(chunks) ==
  [k \in DOMAIN chunks |->
     [profile_id |-> STANDARD_PROFILE_TOKEN, payload_kind |-> TokenChunk, payload |-> chunks[k]]]

-----------------------------------------------------------------------------
(* What a receiver reads, given the metadata and the bytes of the body *)

Prelude(body) == Read(BodyRegionPrelude, body)
Region(body, before, size) == Slice(body, 32 + before + 1, 32 + before + size)
InlineRegion(body) == Region(body, 0, Prelude(body).inline_object_bytes)
ReferenceRegion(body) ==
  Region(body, Prelude(body).inline_object_bytes, Prelude(body).object_reference_bytes)
DescriptorRegion(body) ==
  Region(body, Prelude(body).inline_object_bytes + Prelude(body).object_reference_bytes,
         Prelude(body).typed_payload_descriptor_bytes)
FrameRegion(body) ==
  Region(body, Prelude(body).inline_object_bytes + Prelude(body).object_reference_bytes
                 + Prelude(body).typed_payload_descriptor_bytes,
         Prelude(body).typed_payload_frame_bytes)

Aligned(n) == ((n + 7) \div 8) * 8

(* The inline objects, one after the other: kind, place and bytes.         *)
RECURSIVE ObjectsFrom(_, _)
ObjectsFrom(region, at) ==
  LET rest == Slice(region, at + 1, Len(region)) IN
  IF ~Whole(InlineObjectBlockHeader, rest) THEN <<>>
  ELSE LET h == Read(InlineObjectBlockHeader, rest) IN
       <<[kind |-> h.object_kind, at |-> at, payload |-> Slice(rest, 17, 16 + h.object_bytes)]>>
       \o ObjectsFrom(region, Aligned(at + 16 + h.object_bytes))

ObjectOf(body, kind) ==
  LET found == SelectSeq(ObjectsFrom(InlineRegion(body), 0), LAMBDA o : o.kind = kind)
  IN IF Len(found) = 1 THEN found[1].payload ELSE <<>>

(* The tiles an index block stands for.                                    *)
ReadTiles(metadata, b) ==
  LET count == metadata.tile_count
      word(i) == Num(Slice(b, 2 * i - 1, 2 * i))
  IN CASE metadata.tile_index_mode = DenseRange -> [i \in 1..count |-> metadata.tile_base_id + i - 1]
       [] Len(b) # metadata.tile_index_bytes -> <<>>
       [] metadata.tile_index_mode = RawU16 -> [i \in 1..(Len(b) \div 2) |-> word(i)]
       [] metadata.tile_index_mode = DeltaU16 ->
            [i \in 1..(Len(b) \div 2) |-> FoldLeft(LAMBDA sum, j : sum + word(j), 0, [j \in 1..i |-> j])]
       [] OTHER ->
            SetToSortSeq({8 * (k - 1) + s : k \in DOMAIN b, s \in 0..7}
                           \cap UNION {{8 * (k - 1) + s : s \in Bits(b[k])} : k \in DOMAIN b}, <)

(* The sections of a table: the codec and the bytes of every tile.         *)
RECURSIVE SectionsFrom(_, _)
SectionsFrom(b, tiles) ==
  IF ~Whole(TensorSectionDescriptor, b) THEN <<>>
  ELSE LET d == Read(TensorSectionDescriptor, b)
           codecs == 32
           lengths == codecs + d.codec_table_bytes
           payload == lengths + d.length_table_bytes
           lengthOf(t) == Num(Slice(b, lengths + 4 * t - 3, lengths + 4 * t))
           start(t) == IF d.payload_stride_bytes # 0 THEN (t - 1) * d.payload_stride_bytes
                       ELSE FoldLeft(LAMBDA n, j : n + lengthOf(j), 0, [j \in 1..(t - 1) |-> j])
       IN <<[role_id |-> d.role_id,
             codecs |-> [t \in 1..tiles |-> IF d.codec_table_bytes = 0 THEN d.codec_id ELSE b[codecs + t]],
             payloads |-> IF 4 * tiles # d.length_table_bytes THEN <<>>
                          ELSE [t \in 1..tiles |-> Slice(b, payload + start(t) + 1,
                                                        payload + start(t) + lengthOf(t))]]>>
          \o SectionsFrom(Slice(b, Aligned(payload + d.payload_bytes) + 1, Len(b)), tiles)

Key(block) == [object_kind |-> block.object_kind, cache_key_lo |-> block.cache_key_lo]

(* The checks of the core crate on a body, in the order of its regions.    *)
Readable(metadata, body) ==
  /\ Whole(BodyRegionPrelude, body)
  /\ Len(body) = 32 + Prelude(body).inline_object_bytes + Prelude(body).object_reference_bytes
                    + Prelude(body).typed_payload_descriptor_bytes
                    + Prelude(body).typed_payload_frame_bytes
  /\ ReferencesParse(ReferenceRegion(body))
  /\ validate_submit_mask(Blocks(ReferenceRegion(body)), metadata.submit_mode, metadata.object_ref_mask)
  /\ TypedParse(metadata.payload_kind_bitmap, metadata.payload_frame_count,
                DescriptorRegion(body), FrameRegion(body))

-----------------------------------------------------------------------------
(* Callers, builders, receivers *)

NoInput == [kind |-> "none"]
Init == stage = "input" /\ input = NoInput /\ built = NoInput /\ got = NoInput

Payload(role, tile, n) == [j \in 1..n |-> 40 * role + 10 * tile + j]

Sections(tiles) ==
  [role_id : Roles, default_codec_id : {1},
   lens : [1..tiles -> PayloadLens] \cup [1..(tiles + 1) -> {1}],
   codec_ids : {<<>>} \cup [1..tiles -> Codecs] \cup (IF Codecs = {} THEN {} ELSE {[t \in 1..(tiles + 1) |-> 1]}),
   stride : Strides]

Section(s) ==
  [role_id |-> s.role_id, default_codec_id |-> s.default_codec_id, codec_ids |-> s.codec_ids,
   stride |-> s.stride, payloads |-> [t \in DOMAIN s.lens |-> Payload(s.role_id, t, s.lens[t])]]

(* A caller puts a tensor request together: tiles, then sections.          *)
StartTensor ==
  /\ stage = "input" /\ input = NoInput
  /\ \E identity \in Identities, mode \in Modes, base \in Bases, camera \in Cameras,
        a, b, c \in Slotted :
       input' = [kind |-> "tensor", identity |-> identity, mode |-> mode, base |-> base,
                 camera |-> camera, tiles |-> <<>>, sections |-> <<>>,
                 refs |-> [camera |-> a, tile_index |-> b, table |-> c]]
  /\ UNCHANGED <<stage, built, got>>

AddTile(id) ==
  /\ stage = "input" /\ input.kind = "tensor"
  /\ input.sections = <<>> /\ Len(input.tiles) < MaxTiles
  /\ input' = [input EXCEPT !.tiles = Append(@, id)]
  /\ UNCHANGED <<stage, built, got>>

AddSection ==
  /\ stage = "input" /\ input.kind = "tensor" /\ Len(input.sections) < MaxSections
  /\ \E s \in Sections(Len(input.tiles)) : input' = [input EXCEPT !.sections = Append(@, Section(s))]
  /\ UNCHANGED <<stage, built, got>>

StartTyped ==
  /\ stage = "input" /\ input = NoInput /\ MaxFrames > 0
  /\ \E identity \in Identities : input' = [kind |-> "typed", identity |-> identity, frames |-> <<>>]
  /\ UNCHANGED <<stage, built, got>>

AddFrame ==
  /\ stage = "input" /\ input.kind = "typed" /\ Len(input.frames) < MaxFrames
  /\ \E kind \in FrameKinds, profile \in Profiles, n \in FrameLens :
       input' = [input EXCEPT !.frames =
                   Append(@, [profile_id |-> profile, payload_kind |-> kind,
                              payload |-> Payload(1, Len(@) + 1, n)])]
  /\ UNCHANGED <<stage, built, got>>

StartToken ==
  /\ stage = "input" /\ input = NoInput /\ MaxFrames > 0
  /\ \E identity \in Identities, lens \in [1..2 -> FrameLens] :
       input' = [kind |-> "typed", identity |-> identity,
                 frames |-> token([k \in 1..2 |-> Payload(2, k, lens[k])])]
  /\ UNCHANGED <<stage, built, got>>

BuildTensor ==
  /\ stage = "input" /\ input.kind = "tensor"
  /\ IF TensorAccepts(input)
     THEN built' = [metadata |-> TensorMetadata(input), body |-> TensorBody(input)] /\ stage' = "built"
     ELSE stage' = "refused" /\ UNCHANGED built
  /\ UNCHANGED <<input, got>>

BuildTyped ==
  /\ stage = "input" /\ input.kind = "typed"
  /\ IF TypedAccepts(input)
     THEN built' = [metadata |-> TypedMetadata(input), body |-> TypedBody(input)] /\ stage' = "built"
     ELSE stage' = "refused" /\ UNCHANGED built
  /\ UNCHANGED <<input, got>>

(* A foreign writer: any blocks and any descriptors, with its own metadata. *)
ForeignReferences ==
  /\ stage = "input" /\ input = NoInput
  /\ \E n \in 0..MaxBlocks, mode \in {Inline, Reference, Mixed}, mask \in 0..31 :
       \E kinds \in [1..n -> ForeignKinds] :
         built' = [metadata |-> [submit_mode |-> mode, object_ref_mask |-> mask,
                                 payload_kind_bitmap |-> 0, payload_frame_count |-> 0],
                   body |-> encode_body(<<>>, References([k \in 1..n |->
                                                [object_kind |-> kinds[k], cache_key_lo |-> k]]),
                                        <<>>, <<>>)]
  /\ stage' = "foreign" /\ UNCHANGED <<input, got>>

ForeignFrames ==
  /\ stage = "input" /\ input = NoInput /\ MaxFrames > 0
  /\ \E n \in 0..2, count \in 0..2, bitmap \in {0, Tensor, TokenChunk, TokenChunk + AudioChunk, 128},
        size \in Offsets :
       \E ds \in [1..n -> [profile_id : {STANDARD_PROFILE_TOKEN}, payload_kind : {TokenChunk, AudioChunk},
                           offset : Offsets, length : Offsets]] :
         built' = [metadata |-> [submit_mode |-> Inline, object_ref_mask |-> 0,
                                 payload_kind_bitmap |-> bitmap, payload_frame_count |-> count],
                   body |-> encode_body(<<>>, <<>>, descriptor_region_bytes(ds), Payload(3, 1, size))]
  /\ stage' = "foreign" /\ UNCHANGED <<input, got>>

(* A receiver reads the body, and looks its references up in its cache.    *)
Receive ==
  /\ stage \in {"built", "foreign"}
  /\ \E cached \in Cached :
       LET blocks == Blocks(ReferenceRegion(built.body))
           missing == first_unresolved([k \in DOMAIN blocks |-> Key(blocks[k])], cached)
       IN /\ stage' = IF ~Readable(built.metadata, built.body) THEN "dropped"
                      ELSE IF missing # <<>> THEN "missing" ELSE "accepted"
          /\ got' = [kind |-> "got", cached |-> cached, missing |-> missing]
  /\ UNCHANGED <<input, built>>

Next ==
  \/ StartTensor \/ (\E id \in TileIds : AddTile(id)) \/ AddSection
  \/ StartTyped \/ AddFrame \/ StartToken \/ BuildTensor \/ BuildTyped
  \/ ForeignReferences \/ ForeignFrames \/ Receive

Spec == Init /\ [][Next]_vars

-----------------------------------------------------------------------------
(* Properties *)

Built == stage \in {"built", "accepted", "dropped", "missing"} /\ input # NoInput
Arrived == stage = "accepted"

(* What NnrpSubmitRequest builds, the region parsers of nnrp-core accept.  *)
BuiltIsReadable == Built => Readable(built.metadata, built.body)

(* The tiles a receiver reads from the index block, in any of the four     *)
(* encodings, are the caller's tiles.                                      *)
TilesReadBack ==
  Built /\ input.kind = "tensor" /\ input.refs.tile_index = None =>
    ReadTiles(built.metadata, ObjectOf(built.body, TileIndexBlock)) = input.tiles

(* Every tile of every section is read with its own codec and its own      *)
(* bytes, whatever codec tables, lengths and strides the sections use.     *)
SectionsReadBack ==
  Built /\ input.kind = "tensor" /\ input.refs.table = None =>
    LET read == SectionsFrom(ObjectOf(built.body, TensorSectionTable), Len(input.tiles)) IN
    /\ Len(read) = Len(input.sections)
    /\ \A k \in DOMAIN read :
         LET s == input.sections[k] IN
         /\ read[k].role_id = s.role_id
         /\ read[k].payloads = s.payloads
         /\ \A t \in DOMAIN input.tiles :
              read[k].codecs[t] = IF s.codec_ids = <<>> THEN s.default_codec_id ELSE s.codec_ids[t]

(* A request that is accepted finds each part of the input: inline, or in  *)
(* the cache under the reference the caller gave.                          *)
EveryPartIsAvailable ==
  Arrived /\ input # NoInput /\ input.kind = "tensor" =>
    \A part \in {[bytes |-> input.camera, ref |-> input.refs.camera, kind |-> CameraBlock],
                 [bytes |-> encode_tile_indices(input.tiles, input.mode),
                  ref |-> input.refs.tile_index, kind |-> TileIndexBlock],
                 [bytes |-> SectionTable(input.sections), ref |-> input.refs.table,
                  kind |-> TensorSectionTable]} :
      IF part.ref = None THEN ObjectOf(built.body, part.kind) = part.bytes
      ELSE Key(part.ref) \in got.cached

(* Typed frames come back in order, with their own kind and bytes.         *)
FramesReadBack ==
  Built /\ input.kind = "typed" =>
    LET ds == Descriptors(DescriptorRegion(built.body))
        views == frame_views(ds, FrameRegion(built.body))
    IN [k \in DOMAIN ds |-> [profile_id |-> ds[k].profile_id, payload_kind |-> ds[k].payload_kind,
                            payload |-> views[k]]] = input.frames

(* Whoever wrote the regions: in what the parsers accept the frames cover  *)
(* the payload once.                                                       *)
FramesCoverThePayload ==
  Arrived => FlattenSeq(frame_views(Descriptors(DescriptorRegion(built.body)), FrameRegion(built.body)))
               = FrameRegion(built.body)

(* And the mask names the standard slots of the references, once each.     *)
SlotsAreNamedOnce ==
  Arrived =>
    LET kinds == [k \in DOMAIN Blocks(ReferenceRegion(built.body)) |->
                    Blocks(ReferenceRegion(built.body))[k].object_kind]
    IN /\ \A i, j \in DOMAIN kinds :
            i # j /\ submit_object_slot_index(kinds[i]) # -1 => kinds[i] # kinds[j]
       /\ reference_mask(Blocks(ReferenceRegion(built.body))) = built.metadata.object_ref_mask

=============================================================================
