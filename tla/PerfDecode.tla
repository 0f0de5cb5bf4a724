----------------------------- MODULE PerfDecode -----------------------------
(***************************************************************************)
(* decode() of crates/perf-core/src/decode.rs: the header is parsed and    *)
(* everything that borrows it immutably is computed up front, then the     *)
(* record loop runs, one action per way an iteration can go, and at the    *)
(* end the metadata snapshot replaces the working copy.                    *)
(*                                                                         *)
(* `pos' is the parser library's position (external: how many records its  *)
(* iterator has yielded); `index' is decode()'s own count.  That the two   *)
(* agree is what makes DecodeError.record_index mean anything.             *)
(***************************************************************************)
EXTENDS DecodeReport

CONSTANTS Pending, Fatal   \* see DecodeContract

VARIABLES
  capture,   \* the bytes, as the parser library sees them
  pc,        \* "open", "loop", "finish", then "done" or "fatal"
  pos,       \* records the iterator has yielded
  index,     \* the local `index'
  names,     \* the local `event_names'
  meta,      \* the local `meta', snapshotted before the loop
  builds,    \* the local `builds'
  out        \* the local `out'

vars == <<capture, pc, pos, index, names, meta, builds, out>>

-----------------------------------------------------------------------------
(* The header.                                                             *)

\* Mutant: an attribute without ids takes the index before its own.
EventIdOffByOne(attr, idx) == IF attr.ids = <<>> THEN idx - 1 ELSE attr.ids[1]

\* The first id of the attribute, or its index when it has none.
EventId(attr, idx) == IF attr.ids = <<>> THEN idx ELSE attr.ids[1]

DecodeEvents(attrs) ==
  [i \in DOMAIN attrs |->
     [event_id |-> EventId(attrs[i], i - 1), name |-> attrs[i].name]]

EventNames(attrs) == [i \in DOMAIN attrs |-> attrs[i].name]

\* A section that is absent or unreadable degrades to NULL.
DecodeMeta(c) ==
  [sections     |-> {s \in Section : c.sections[s] = "present"},
   total_events |-> 0]

NoRows == [samples |-> <<>>, mmaps |-> <<>>, comms |-> <<>>, events |-> <<>>,
           meta |-> [sections |-> {}, total_events |-> 0], errors |-> <<>>]

Init ==
  /\ capture \in Captures
  /\ pc = "open"
  /\ pos = 0
  /\ index = 0
  /\ names = <<>>
  /\ meta = NoRows.meta
  /\ builds = <<>>
  /\ out = NoRows

ParseFileFails ==
  /\ pc = "open"
  /\ ~capture.readable
  /\ pc' = "fatal"
  /\ UNCHANGED <<capture, pos, index, names, meta, builds, out>>

ParseFile ==
  /\ pc = "open"
  /\ capture.readable
  /\ pc' = "loop"
  /\ names' = EventNames(capture.attrs)
  /\ meta' = DecodeMeta(capture)
  /\ builds' \in BuildIdMaps(HeaderEntries(capture))
  /\ out' = [out EXCEPT !.events = DecodeEvents(capture.attrs),
                        !.meta   = DecodeMeta(capture)]
  /\ UNCHANGED <<capture, pos, index>>

-----------------------------------------------------------------------------
(* The record loop.                                                        *)

Current == capture.records[pos + 1]

\* next_record() yields a record of one of these kinds.
NextRecord(kinds) ==
  /\ pc = "loop"
  /\ pos < Len(capture.records)
  /\ Current.kind \in kinds
  /\ pos' = pos + 1
  /\ UNCHANGED <<capture, pc, names, meta, builds>>

\* An event record is counted before it is parsed.
Counted == [out EXCEPT !.meta.total_events = @ + 1]

\* Mutant: an attribute index outside the table is clamped into it.
EventLabelClamped(attr) ==
  CASE names = <<>>      -> None
    [] attr < Len(names) -> names[attr + 1]
    [] OTHER             -> names[Len(names)]

EventLabel(attr) == IF attr < Len(names) THEN names[attr + 1] ELSE None

HeaderBuildId(filename) ==
  IF filename \in DOMAIN builds THEN builds[filename] ELSE None

MapRow(filename, buildId) ==
  [rec |-> pos + 1, filename |-> filename, build_id |-> buildId]

SampleEvent ==
  /\ NextRecord({"sample"})
  /\ out' = [Counted EXCEPT !.samples =
               Append(@, [rec |-> pos + 1, event |-> EventLabel(Current.attr)])]
  /\ index' = index + 1

MmapEvent ==
  /\ NextRecord({"mmap"})
  /\ LET filename == Lossy[Current.path]
     IN  out' = [Counted EXCEPT !.mmaps =
                   Append(@, MapRow(filename, HeaderBuildId(filename)))]
  /\ index' = index + 1

\* Mutant: the header wins over the build id the record carries.
Mmap2BuildIdHeaderFirst(filename) ==
  IF HeaderBuildId(filename) # None THEN HeaderBuildId(filename) ELSE Current.inline

Mmap2BuildId(filename) ==
  IF Current.inline # None THEN Current.inline ELSE HeaderBuildId(filename)

Mmap2Event ==
  /\ NextRecord({"mmap2"})
  /\ LET filename == Lossy[Current.path]
     IN  out' = [Counted EXCEPT !.mmaps =
                   Append(@, MapRow(filename, Mmap2BuildId(filename)))]
  /\ index' = index + 1

CommEvent ==
  /\ NextRecord({"comm"})
  /\ out' = [Counted EXCEPT !.comms = Append(@, [rec |-> pos + 1])]
  /\ index' = index + 1

OtherEvent ==
  /\ NextRecord({"other"})
  /\ out' = Counted
  /\ index' = index + 1

\* Mutant: `continue' without the increment.
MalformedEventUnnumbered ==
  /\ NextRecord({"malformed"})
  /\ out' = [Counted EXCEPT !.errors = Append(@, [record_index |-> index])]
  /\ UNCHANGED index

\* parse() fails: the record is reported as an error and skipped.
MalformedEvent ==
  /\ NextRecord({"malformed"})
  /\ out' = [Counted EXCEPT !.errors = Append(@, [record_index |-> index])]
  /\ index' = index + 1

UserRecord ==
  /\ NextRecord({"user"})
  /\ index' = index + 1
  /\ UNCHANGED out

\* Mutant: `continue' where the loop should break.
EndOfRecordsSpins ==
  /\ pc = "loop"
  /\ pos = Len(capture.records)
  /\ ~capture.truncated
  /\ UNCHANGED vars

\* Ok(None): the iterator is exhausted.
EndOfRecords ==
  /\ pc = "loop"
  /\ pos = Len(capture.records)
  /\ ~capture.truncated
  /\ pc' = "finish"
  /\ UNCHANGED <<capture, pos, index, names, meta, builds, out>>

\* Mutant: the tail error is propagated instead of captured.
TailErrorAborts ==
  /\ pc = "loop"
  /\ pos = Len(capture.records)
  /\ capture.truncated
  /\ pc' = "fatal"
  /\ UNCHANGED <<capture, pos, index, names, meta, builds, out>>

\* Err: the tail cannot be read.  The loop stops and keeps its rows.
TailError ==
  /\ pc = "loop"
  /\ pos = Len(capture.records)
  /\ capture.truncated
  /\ pc' = "finish"
  /\ out' = [out EXCEPT !.errors = Append(@, [record_index |-> index])]
  /\ UNCHANGED <<capture, pos, index, names, meta, builds>>

-----------------------------------------------------------------------------
\* Mutant: the snapshot replaces the working copy without the running total.
FinishStaleSnapshot ==
  /\ pc = "finish"
  /\ pc' = "done"
  /\ out' = [out EXCEPT !.meta = meta]
  /\ UNCHANGED <<capture, pos, index, names, meta, builds>>

\* The snapshot, with the running total put into it, becomes the result's meta.
Finish ==
  /\ pc = "finish"
  /\ pc' = "done"
  /\ meta' = [meta EXCEPT !.total_events = out.meta.total_events]
  /\ out' = [out EXCEPT !.meta = meta']
  /\ UNCHANGED <<capture, pos, index, names, builds>>

\* decode() has returned.
Returned == pc \in {"done", "fatal"} /\ UNCHANGED vars

Next ==
  \/ ParseFileFails
  \/ ParseFile
  \/ SampleEvent
  \/ MmapEvent
  \/ Mmap2Event
  \/ CommEvent
  \/ OtherEvent
  \/ MalformedEvent
  \/ UserRecord
  \/ EndOfRecords
  \/ TailError
  \/ Finish
  \/ Returned

Spec == Init /\ [][Next]_vars

\* decode() is a straight-line call on one thread: it keeps taking its next step.
FairSpec == Spec /\ WF_vars(Next)

-----------------------------------------------------------------------------
(* Properties.                                                             *)

\* The loop's locals have the types of the Rust locals.
TypeOK ==
  /\ capture \in Capture
  /\ pc \in {"open", "loop", "finish", "done", "fatal"}
  /\ pos \in Nat /\ index \in Nat
  /\ names \in Seq(EventName \cup {None})
  /\ meta \in MetaRow
  /\ \A n \in DOMAIN builds : n \in FileName /\ builds[n] \in BuildId
  /\ out \in Decoded

Opened == pc \in {"loop", "finish", "done"}

\* Whatever mixture of good, malformed, untabled and user records has been
\* read, each sample and each comm record so far has exactly one row, in
\* stream order, and a sample's label is the name of its row in the events
\* table (decode.rs:175-206, 236-243).
RowsMatchRecords ==
  Opened => ReportsSamples(capture, pos, out) /\ ReportsComms(capture, pos, out)

\* Each mapping so far has exactly one row; a build id carried by the record
\* wins, else the header's, else NULL; and mappings that look the same name up
\* get the same answer throughout the capture (decode.rs:120-129, 207-235).
BuildIdsResolved == Opened => ReportsMmaps(capture, pos, out)

\* The errors name exactly the records that could not be parsed, each once and
\* at its own position, although skipping a record leaves the loop body early
\* (decode.rs:177-187, 253); a broken tail is reported just past the last
\* record read, never over an earlier error.
ErrorsLocateRecords ==
  Opened => ReportsErrors(capture, pos, capture.truncated /\ pc # "loop", out)

\* The total that survives the replacement of the working metadata by the
\* snapshot is the number of event records read, and the snapshot's own
\* fields survive too (decode.rs:146-151, 175, 256-260).
MetaSurvivesSnapshot ==
  pc = "done" => CountsEvents(capture, pos, out) /\ ReportsHeader(capture, out)

\* decode() returns on every capture: no record makes the loop spin.
Terminates == <>(pc \in {"done", "fatal"})

-----------------------------------------------------------------------------
(* What the documentation says and the code does not do.                   *)

\* rows.rs:51-52: a mapping without an inline build id takes it from
\* HEADER_BUILD_ID "by path".  The lookup is by the LOSSY path, and of two
\* entries whose paths collide there the hash map keeps whichever came last.
BuildIdByPath ==
  \A i \in DOMAIN out.mmaps :
    LET row == out.mmaps[i]
        r   == capture.records[row.rec]
        ids == {e.id : e \in {x \in HeaderEntries(capture) : x.path = r.path}}
    IN  r.inline = None =>
          IF ids = {} THEN row.build_id = None ELSE row.build_id \in ids

-----------------------------------------------------------------------------
(* Refinement.                                                             *)

\* decode() as its callers see it.
Contract == INSTANCE DecodeContract WITH
  result <- CASE pc = "done"  -> out
              [] pc = "fatal" -> Fatal
              [] OTHER        -> Pending

\* The loop implements the one-step contract.
ImplementsContract == Contract!Spec
=============================================================================
