------------------------------ MODULE PerfData ------------------------------
(***************************************************************************)
(* The data the decoder and its contract share: a perf.data capture as the *)
(* parser library presents it (event attributes, HEADER_* sections, the    *)
(* sequence of records its iterator yields), and the rows decode() makes   *)
(* of it (crates/perf-core/src/rows.rs).                                   *)
(*                                                                         *)
(* The fields a row merely copies from its record (addresses, times, ids,  *)
(* call chains) are abstracted to `rec', the 1-based ordinal of the record *)
(* the row was made from.  What decode() COMPUTES stays: the event label   *)
(* of a sample, the display name and build id of a mapping, the event id,  *)
(* the total, and the record index of an error.                            *)
(***************************************************************************)
EXTENDS Integers, Sequences, FiniteSets

CONSTANTS
  Path,        \* raw path byte strings found in records and HEADER_BUILD_ID
  FileName,    \* Rust Strings made of them
  Lossy,       \* String::from_utf8_lossy: total, not necessarily injective
  BuildId,     \* build ids (hex() is injective, so an id is its hex form)
  EventName,   \* event names of the attribute table
  Section,     \* the HEADER_* sections decode_meta reads
  None,        \* Rust's Option::None, SQL's NULL
  Captures     \* the captures considered

-----------------------------------------------------------------------------
(* The input.                                                              *)

EventKinds == {"sample", "mmap", "mmap2", "comm", "other", "malformed"}

\* One item of the record iterator.  "malformed" is an event record whose
\* parse() fails; "other" an event record with no table of its own; "user" a
\* user record.  `inline' is the build id an MMAP2 record may carry.
Record == [kind   : EventKinds \cup {"user"},
           attr   : Nat,
           path   : Path,
           inline : BuildId \cup {None}]

Attribute == [ids : Seq(Nat), name : EventName \cup {None}]

BuildIdEntry == [path : Path, id : BuildId]

SectionState == {"present", "absent", "unreadable"}

\* The iterator yields `records' in order, then Ok(None), or Err when the tail
\* of the data section cannot be read (`truncated').
Capture == [readable  : BOOLEAN,
            attrs     : Seq(Attribute),
            sections  : [Section \cup {"build_id"} -> SectionState],
            buildIds  : SUBSET BuildIdEntry,
            records   : Seq(Record),
            truncated : BOOLEAN]

ASSUME LossyAssumption == Lossy \in [Path -> FileName]
ASSUME CapturesAssumption == Captures \subseteq Capture
ASSUME NoneAssumption == None \notin BuildId \cup EventName \cup FileName

-----------------------------------------------------------------------------
(* The output.                                                             *)

SampleRow == [rec : Nat, event : EventName \cup {None}]
MmapRow   == [rec : Nat, filename : FileName, build_id : BuildId \cup {None}]
CommRow   == [rec : Nat]
EventRow  == [event_id : Nat, name : EventName \cup {None}]
MetaRow   == [sections : SUBSET Section, total_events : Nat]

DecodeError == [record_index : Nat]

Decoded == [samples : Seq(SampleRow),
            mmaps   : Seq(MmapRow),
            comms   : Seq(CommRow),
            events  : Seq(EventRow),
            meta    : MetaRow,
            errors  : Seq(DecodeError)]

-----------------------------------------------------------------------------
(* The build-id index.  The library hands the HEADER_BUILD_ID entries over *)
(* in hash-map order and each insert overwrites, so of the entries whose   *)
(* lossy names coincide any one may be the last and win.                   *)

HeaderEntries(c) ==
  IF c.sections["build_id"] = "present" THEN c.buildIds ELSE {}

IndexedNames(entries) == {Lossy[e.path] : e \in entries}

\* The maps build_id_map can return.
BuildIdMaps(entries) ==
  {m \in [IndexedNames(entries) -> BuildId] :
     \A n \in IndexedNames(entries) :
        \E e \in entries : Lossy[e.path] = n /\ e.id = m[n]}
=============================================================================
