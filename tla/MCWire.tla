------------------------------- MODULE MCWire -------------------------------
(***************************************************************************)
(* Instances of the wire formats.  Images of every record with one edit    *)
(* ("once"), as a peer, a native host and a browser host read and write    *)
(* them; images of records with rules between fields or with a declared    *)
(* tail with two edits ("twice"); submit bodies with every tile encoding   *)
(* ("tiles"), with sections ("sections"), with cached parts ("references") *)
(* and with frames and references of a foreign writer ("foreign").  The    *)
(* part is chosen in the initial state; the others rest.                   *)
(***************************************************************************)
EXTENDS HostMetadata

VARIABLES part, stage, input, built, got

bodyVars == <<stage, input, built, got>>
mcVars == <<part, vars, bodyVars>>
-----------------------------------------------------------------------------
AllRecords == ControlRecordSet \cup DataRecordSet
RuleRecords ==
  {ResultPushMetadata, TensorSectionDescriptor, FlowUpdateMetadata, CacheInvalidateMetadata,
   PartialResultMetadata, CapabilityMetadata, ControlRequestMetadata}
JsonRecords == {RecordOf(type) : type \in FrameTypes \ {"ResultHint", "FlowUpdate", "CacheInvalidate"}}
TailStrings == {<<0>>, <<1, 0, 97>>, <<1, 0, 98>>, <<1, 0, 98, 1, 0, 97>>}

Once == INSTANCE WireCodec WITH MaxEdits <- 1

MirroredRecords == {d.core : d \in Descriptors}
-----------------------------------------------------------------------------
Good == [operation |-> 1, frame |-> 1, flags_known |-> TRUE]
AllIdentities ==
  {Good, [Good EXCEPT !.operation = 0], [Good EXCEPT !.frame = 0], [Good EXCEPT !.flags_known = FALSE]}
Reference(kind) == [object_kind |-> kind, cache_key_lo |-> kind]
NoReference == Reference(0)
TwoCameras == {<<>>, <<7, 7, 7>>}

Tiles == INSTANCE SubmitBody
           WITH MaxTiles <- 3, TileIds <- {0, 1, 9, 300}, Modes <- 0..3, Bases <- {0, 9},
                Cameras <- TwoCameras, MaxSections <- 1, Roles <- {1}, PayloadLens <- {1},
                Codecs <- {}, Strides <- {0}, Slotted <- {NoReference},
                MaxFrames <- 0, FrameKinds <- {}, Profiles <- {}, FrameLens <- {},
                Identities <- {Good}, U16_MAX <- 3, Cached <- {{}},
                ForeignKinds <- {}, MaxBlocks <- 0, Offsets <- {}
Sections == INSTANCE SubmitBody
              WITH MaxTiles <- 2, TileIds <- {3}, Modes <- {1}, Bases <- {0},
                   Cameras <- {<<>>}, MaxSections <- 2, Roles <- {1, 2}, PayloadLens <- {0, 3},
                   Codecs <- {1, 2}, Strides <- {0, 2, 4}, Slotted <- {NoReference},
                   MaxFrames <- 0, FrameKinds <- {}, Profiles <- {}, FrameLens <- {},
                   Identities <- {Good}, U16_MAX <- 2, Cached <- {{}},
                   ForeignKinds <- {}, MaxBlocks <- 0, Offsets <- {}
\* The camera, the tile index and the section table may each be cached (1..3).
References == INSTANCE SubmitBody
                WITH MaxTiles <- 1, TileIds <- {9}, Modes <- {0, 3}, Bases <- {9},
                     Cameras <- TwoCameras, MaxSections <- 1, Roles <- {1}, PayloadLens <- {1},
                     Codecs <- {}, Strides <- {0},
                     Slotted <- {Reference(k) : k \in 0..3},
                     MaxFrames <- 0, FrameKinds <- {}, Profiles <- {}, FrameLens <- {},
                     Identities <- AllIdentities, U16_MAX <- 2,
                     Cached <- SUBSET {Reference(k) : k \in 1..3},
                     ForeignKinds <- {}, MaxBlocks <- 0, Offsets <- {}
\* A foreign writer also refers to codec tables (4) and layout templates (6).
Foreign == INSTANCE SubmitBody
             WITH MaxTiles <- 0, TileIds <- {0, 1, 9, 300}, Modes <- {1}, Bases <- {0},
                  Cameras <- {<<>>}, MaxSections <- 0, Roles <- {1}, PayloadLens <- {1},
                  Codecs <- {}, Strides <- {0}, Slotted <- {NoReference},
                  MaxFrames <- 3, FrameKinds <- {1, 2, 4}, Profiles <- {1, 2}, FrameLens <- {0, 2},
                  Identities <- AllIdentities, U16_MAX <- 2,
                  Cached <- {{}, [object_kind : {1, 2, 3, 4, 6}, cache_key_lo : 1..3]},
                  ForeignKinds <- {1, 2, 4, 6}, MaxBlocks <- 3, Offsets <- {0, 1, 2}
-----------------------------------------------------------------------------
\* A part that does not edit records rests with an empty image.
MCInit ==
  /\ \/ part = "once" /\ Init
     \/ part = "twice" /\ Init /\ record \in RuleRecords
     \/ /\ part \in {"tiles", "sections", "references", "foreign"}
        /\ record = FlowUpdateMetadata /\ bytes = <<>> /\ at = 0 /\ edits = 0
  /\ Tiles!Init

MCNext ==
  /\ part' = part
  /\ \/ part = "once" /\ Once!Next /\ UNCHANGED bodyVars
     \/ part = "twice" /\ Next /\ UNCHANGED bodyVars
     \/ part = "tiles" /\ Tiles!Next /\ UNCHANGED vars
     \/ part = "sections" /\ Sections!Next /\ UNCHANGED vars
     \/ part = "references" /\ References!Next /\ UNCHANGED vars
     \/ part = "foreign" /\ Foreign!Next /\ UNCHANGED vars

MCSpec == MCInit /\ [][MCNext]_mcVars
-----------------------------------------------------------------------------
(* Reading and writing a record are inverse to each other: what parse        *)
(* accepts is what write produces for the parsed value, and what write       *)
(* accepts is read back unchanged, at every edge of every field.             *)
(* And what the parsers accept is consistent in itself, whoever wrote it:    *)
(* tiles are covered or dropped, a flow update has one scope, a declared     *)
(* tail has one length, typed frames cover their payload once and the mask   *)
(* of a submit names the slots of its references once.                       *)
RecordsRoundTrip ==
  /\ AcceptedIsCanonical /\ WrittenIsReadable
  /\ CoverageIsExact /\ FlowScopesAreDisjoint /\ TailIsExact
  /\ part = "foreign" => Foreign!FramesCoverThePayload /\ Foreign!SlotsAreNamedOnce

(* Hosts see the same.  A runtime frame the native entry point admits and    *)
(* the session sends is decoded by the peer, and every byte it declares      *)
(* reaches the application.  A record that reaches a native host converts    *)
(* back to the same record, what one native host fills in its peer's host is *)
(* given, and a message a browser host takes through JSON.parse and encodes  *)
(* again is the message that arrived, its tail included.                     *)
HostsSeeTheSame ==
  /\ part \in {"once", "twice"} =>
       AdmittedFramesDecode /\ DeclaredBytesArrive /\ PartialResultsLeadToData
  /\ part = "once" =>
       /\ record \in MirroredRecords => NativeReturnsWhatArrived /\ NativePeersAgree
       /\ record \in JsonRecords => JsonKeepsEveryBit /\ JsonTextIsCanonical /\ JsonTailIsLocated

(* What NnrpSubmitRequest was given is what a receiver reads: the regions    *)
(* are accepted, and the tiles in any of the four encodings, the sections,   *)
(* the frames and the parts replaced by references come back as they were.   *)
SubmitsReadBack ==
  /\ Tiles!BuiltIsReadable
  /\ part = "tiles" => Tiles!TilesReadBack
  /\ part = "sections" => Sections!SectionsReadBack
  /\ part = "references" => References!EveryPartIsAvailable
  /\ part = "foreign" => Foreign!FramesReadBack
=============================================================================
