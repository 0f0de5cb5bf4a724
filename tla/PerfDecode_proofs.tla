------------------------- MODULE PerfDecode_proofs --------------------------
(***************************************************************************)
(* Proofs about PerfDecode, for every set of captures: type correctness,   *)
(* the safety invariants MCPerfDecode checks on small captures, and the    *)
(* refinement of DecodeContract.                                           *)
(***************************************************************************)
EXTENDS PerfDecode, FiniteSetTheorems, SequenceTheorems, TLAPS

-----------------------------------------------------------------------------
(* The inductive invariant.  The properties alone are not inductive: they  *)
(* need what the loop's locals hold (that index and pos agree, that the    *)
(* name table and the build-id index were made from this capture), and the *)
(* exact build id of each mapping rather than an admissible one.           *)

\* Before the header is parsed nothing has been produced.
Fresh == pos = 0 /\ index = 0 /\ out = NoRows

\* What the header left in the locals.
HeaderLocals ==
  /\ capture.readable
  /\ names = EventNames(capture.attrs)
  /\ builds \in BuildIdMaps(HeaderEntries(capture))
  /\ out.events = DecodeEvents(capture.attrs)
  /\ meta.sections = DecodeMeta(capture).sections
  /\ out.meta.sections = DecodeMeta(capture).sections

Positions ==
  /\ index = pos
  /\ pos <= Len(capture.records)
  /\ pc # "loop" => pos = Len(capture.records)

\* The build id of each mapping is the one this run's index gives it.
ExactMmaps ==
  /\ Lists(out.mmaps, Ordinals(capture, pos, {"mmap", "mmap2"}))
  /\ \A i \in DOMAIN out.mmaps :
        LET r == capture.records[out.mmaps[i].rec]
        IN  /\ out.mmaps[i].filename = Lossy[r.path]
            /\ out.mmaps[i].build_id =
                 IF r.kind = "mmap2" /\ r.inline # None
                   THEN r.inline ELSE HeaderBuildId(Lossy[r.path])

LoopInv ==
  /\ HeaderLocals
  /\ Positions
  /\ ReportsSamples(capture, pos, out)
  /\ ReportsComms(capture, pos, out)
  /\ ExactMmaps
  /\ ReportsErrors(capture, pos, capture.truncated /\ pc # "loop", out)
  /\ CountsEvents(capture, pos, out)

IInv ==
  /\ TypeOK
  /\ pc = "open" => Fresh
  /\ pc = "fatal" => ~capture.readable
  /\ Opened => LoopInv

-----------------------------------------------------------------------------
(* Lemmas about record ordinals and row lists.                             *)

LEMMA OrdinalsNone ==
  ASSUME NEW c, NEW K PROVE Ordinals(c, 0, K) = {}
BY DEF Ordinals

\* Reading one more record adds its ordinal to the kinds it belongs to.
LEMMA OrdinalsStep ==
  ASSUME NEW c, NEW n \in Nat, NEW K
  PROVE  /\ c.records[n + 1].kind \in K =>
              Ordinals(c, n + 1, K) = Ordinals(c, n, K) \cup {n + 1}
         /\ c.records[n + 1].kind \notin K =>
              Ordinals(c, n + 1, K) = Ordinals(c, n, K)
BY DEF Ordinals

LEMMA OrdinalsBound ==
  ASSUME NEW c, NEW n \in Nat, NEW K
  PROVE  Ordinals(c, n, K) \subseteq 1..n
BY DEF Ordinals

LEMMA OrdinalsCount ==
  ASSUME NEW c, NEW n \in Nat, NEW K
  PROVE  /\ IsFiniteSet(Ordinals(c, n, K))
         /\ Cardinality(Ordinals(c, n, K)) \in Nat
         /\ c.records[n + 1].kind \in K =>
              Cardinality(Ordinals(c, n + 1, K)) = Cardinality(Ordinals(c, n, K)) + 1
<1>1. IsFiniteSet(1..n)
  BY FS_Interval
<1>2. IsFiniteSet(Ordinals(c, n, K))
  BY <1>1, OrdinalsBound, FS_Subset
<1>3. n + 1 \notin Ordinals(c, n, K)
  BY OrdinalsBound
<1>4. Cardinality(Ordinals(c, n, K)) \in Nat
  BY <1>2, FS_CardinalityType
<1>5. Cardinality(Ordinals(c, n, K) \cup {n + 1}) = Cardinality(Ordinals(c, n, K)) + 1
  BY <1>2, <1>3, FS_AddElement
<1> QED
  BY <1>2, <1>4, <1>5, OrdinalsStep

\* Appending a row for the record just read keeps a list complete and ordered.
LEMMA ListsAppend ==
  ASSUME NEW T, NEW rows \in Seq(T), NEW row \in T, NEW n \in Nat,
         NEW S \in SUBSET (1..n), Lists(rows, S), row.rec = n + 1
  PROVE  Lists(Append(rows, row), S \cup {n + 1})
<1> DEFINE new == Append(rows, row)
<1>1. /\ Len(new) = Len(rows) + 1
      /\ DOMAIN new = 1..(Len(rows) + 1)
      /\ DOMAIN rows = 1..Len(rows)
      /\ \A i \in DOMAIN rows : new[i] = rows[i]
      /\ new[Len(rows) + 1] = row
      /\ Len(rows) \in Nat
  BY AppendProperties
<1>2. \A i \in DOMAIN rows : rows[i].rec \in 1..n
  BY DEF Lists
<1>3. ASSUME NEW i \in DOMAIN new, NEW j \in DOMAIN new, i < j
      PROVE  new[i].rec < new[j].rec
  <2>1. i \in DOMAIN rows
    BY <1>1, <1>3
  <2>2. CASE j \in DOMAIN rows
    BY <1>1, <1>3, <2>1, <2>2 DEF Lists
  <2>3. CASE j = Len(rows) + 1
    BY <1>1, <1>2, <2>1, <2>3
  <2> QED
    BY <1>1, <2>2, <2>3
<1>4. {new[i].rec : i \in DOMAIN new} = {rows[i].rec : i \in DOMAIN rows} \cup {n + 1}
  <2>1. DOMAIN new = DOMAIN rows \cup {Len(rows) + 1}
    BY <1>1
  <2> HIDE DEF new
  <2> QED
    BY <1>1, <2>1
<1> HIDE DEF new
<1>5. {rows[i].rec : i \in DOMAIN rows} = S
  BY DEF Lists
<1>6. Lists(new, S \cup {n + 1})
  BY <1>3, <1>4, <1>5 DEF Lists
<1> QED
  BY <1>6 DEF new

LEMMA ListsEmpty == Lists(<<>>, {})
BY DEF Lists

-----------------------------------------------------------------------------
(* Type correctness.                                                       *)

LEMMA CurrentTyped ==
  ASSUME TypeOK, pos < Len(capture.records)
  PROVE  Current \in Record
<1>1. capture.records \in Seq(Record)
  BY DEF TypeOK, Capture
<1>2. pos + 1 \in 1..Len(capture.records)
  BY <1>1 DEF TypeOK
<1> QED
  BY <1>1, <1>2, ElementOfSeq DEF Current

LEMMA LabelTyped ==
  ASSUME TypeOK, NEW attr \in Nat
  PROVE  EventLabel(attr) \in EventName \cup {None}
<1>1. CASE attr < Len(names)
  <2>1. attr + 1 \in 1..Len(names)
    BY <1>1 DEF TypeOK
  <2> QED
    BY <1>1, <2>1, ElementOfSeq DEF TypeOK, EventLabel
<1> QED
  BY <1>1 DEF EventLabel

LEMMA HeaderTyped ==
  ASSUME TypeOK
  PROVE  /\ EventNames(capture.attrs) \in Seq(EventName \cup {None})
         /\ DecodeEvents(capture.attrs) \in Seq(EventRow)
         /\ DecodeMeta(capture) \in MetaRow
<1> DEFINE attrs == capture.attrs
<1>1. attrs \in Seq(Attribute)
  BY DEF TypeOK, Capture
<1>2. Len(attrs) \in Nat /\ DOMAIN attrs = 1..Len(attrs)
  BY <1>1
<1>3. \A i \in 1..Len(attrs) : attrs[i] \in Attribute
  BY <1>1
<1> HIDE DEF attrs
<1>4. ASSUME NEW i \in 1..Len(attrs)
      PROVE  EventId(attrs[i], i - 1) \in Nat
  <2>1. attrs[i].ids \in Seq(Nat)
    BY <1>3 DEF Attribute
  <2>2. CASE attrs[i].ids = <<>>
    BY <1>2, <2>2 DEF EventId
  <2>3. CASE attrs[i].ids # <<>>
    <3>1. 1 \in 1..Len(attrs[i].ids)
      BY <2>1, <2>3
    <3>2. attrs[i].ids[1] \in Nat
      BY <2>1, <3>1, ElementOfSeq
    <3> QED
      BY <2>3, <3>2 DEF EventId
  <2> QED
    BY <2>2, <2>3
<1>5. EventNames(attrs) \in Seq(EventName \cup {None})
  <2>1. \A i \in 1..Len(attrs) : attrs[i].name \in EventName \cup {None}
    BY <1>3 DEF Attribute
  <2> QED
    BY <1>2, <2>1 DEF EventNames
<1>6. DecodeEvents(attrs) \in Seq(EventRow)
  <2>1. \A i \in 1..Len(attrs) :
          [event_id |-> EventId(attrs[i], i - 1), name |-> attrs[i].name] \in EventRow
    BY <1>3, <1>4 DEF Attribute, EventRow
  <2> QED
    BY <1>2, <2>1 DEF DecodeEvents
<1>7. DecodeMeta(capture) \in MetaRow
  BY DEF DecodeMeta, MetaRow
<1> QED
  BY <1>5, <1>6, <1>7 DEF attrs

LEMMA BuildsTyped ==
  ASSUME TypeOK, NEW m \in BuildIdMaps(HeaderEntries(capture))
  PROVE  /\ DOMAIN m = IndexedNames(HeaderEntries(capture))
         /\ \A n \in DOMAIN m : n \in FileName /\ m[n] \in BuildId
<1>1. HeaderEntries(capture) \subseteq BuildIdEntry
  BY DEF TypeOK, Capture, HeaderEntries
<1> QED
  BY <1>1, LossyAssumption DEF BuildIdMaps, IndexedNames, BuildIdEntry

LEMMA MapRowTyped ==
  ASSUME TypeOK, pos < Len(capture.records), Current.kind \in {"mmap", "mmap2"}
  PROVE  LET filename == Lossy[Current.path]
         IN  /\ MapRow(filename, HeaderBuildId(filename)) \in MmapRow
             /\ MapRow(filename, Mmap2BuildId(filename)) \in MmapRow
<1>1. Current \in Record
  BY CurrentTyped
<1>2. Lossy[Current.path] \in FileName
  BY <1>1, LossyAssumption DEF Record
<1>3. HeaderBuildId(Lossy[Current.path]) \in BuildId \cup {None}
  BY DEF TypeOK, HeaderBuildId
<1>4. Mmap2BuildId(Lossy[Current.path]) \in BuildId \cup {None}
  BY <1>1, <1>3 DEF Mmap2BuildId, Record
<1> QED
  BY <1>2, <1>3, <1>4 DEF TypeOK, MapRow, MmapRow

LEMMA TypeInit == Init => TypeOK
BY CapturesAssumption
   DEF Init, TypeOK, NoRows, Decoded, MetaRow

\* Counting an event disturbs nothing but the total.
LEMMA CountedTyped ==
  ASSUME TypeOK
  PROVE  /\ Counted \in Decoded
         /\ Counted.samples = out.samples
         /\ Counted.mmaps = out.mmaps
         /\ Counted.comms = out.comms
         /\ Counted.events = out.events
         /\ Counted.errors = out.errors
         /\ Counted.meta.sections = out.meta.sections
         /\ Counted.meta.total_events = out.meta.total_events + 1
<1>1. out \in Decoded /\ out.meta \in MetaRow
  BY DEF TypeOK, Decoded
<1>2. Counted = [out EXCEPT !.meta = Counted.meta]
  BY <1>1 DEF Counted, Decoded
<1>3. Counted.meta = [out.meta EXCEPT !.total_events = @ + 1]
  BY <1>1 DEF Counted, Decoded
<1>4. Counted.meta \in MetaRow
  BY <1>1, <1>3 DEF MetaRow
<1>5. /\ Counted.meta.sections = out.meta.sections
      /\ Counted.meta.total_events = out.meta.total_events + 1
  BY <1>1, <1>3 DEF MetaRow
<1> QED
  BY <1>1, <1>2, <1>4, <1>5 DEF Decoded

LEMMA TypeNext == TypeOK /\ [Next]_vars => TypeOK'
<1> SUFFICES ASSUME TypeOK, [Next]_vars PROVE TypeOK'
  OBVIOUS
<1> USE DEF TypeOK
<1>1. CASE ParseFileFails
  BY <1>1 DEF ParseFileFails
<1>2. CASE ParseFile
  <2>1. out' \in Decoded
    BY <1>2, HeaderTyped DEF ParseFile, Decoded
  <2> QED
    BY <1>2, <2>1, HeaderTyped, BuildsTyped DEF ParseFile
<1>3. CASE SampleEvent
  <2>1. Current \in Record
    BY <1>3, CurrentTyped DEF SampleEvent, NextRecord
  <2>2. [rec |-> pos + 1, event |-> EventLabel(Current.attr)] \in SampleRow
    BY <2>1, LabelTyped DEF SampleRow, Record
  <2>3. out' \in Decoded
    BY <1>3, <2>2, CountedTyped, AppendProperties DEF SampleEvent, Decoded
  <2> QED
    BY <1>3, <2>3 DEF SampleEvent, NextRecord
<1>4. CASE MmapEvent
  <2>1. out' \in Decoded
    BY <1>4, MapRowTyped, CountedTyped, AppendProperties
       DEF MmapEvent, NextRecord, Decoded
  <2> QED
    BY <1>4, <2>1 DEF MmapEvent, NextRecord
<1>5. CASE Mmap2Event
  <2>1. out' \in Decoded
    BY <1>5, MapRowTyped, CountedTyped, AppendProperties
       DEF Mmap2Event, NextRecord, Decoded
  <2> QED
    BY <1>5, <2>1 DEF Mmap2Event, NextRecord
<1>6. CASE CommEvent
  <2>1. [rec |-> pos + 1] \in CommRow
    BY DEF CommRow
  <2>2. out' \in Decoded
    BY <1>6, <2>1, CountedTyped, AppendProperties DEF CommEvent, Decoded
  <2> QED
    BY <1>6, <2>2 DEF CommEvent, NextRecord
<1>7. CASE OtherEvent
  BY <1>7, CountedTyped DEF OtherEvent, NextRecord
<1>8. CASE MalformedEvent
  <2>1. [record_index |-> index] \in DecodeError
    BY DEF DecodeError
  <2>2. out' \in Decoded
    BY <1>8, <2>1, CountedTyped, AppendProperties DEF MalformedEvent, Decoded
  <2> QED
    BY <1>8, <2>2 DEF MalformedEvent, NextRecord
<1>9. CASE UserRecord
  BY <1>9 DEF UserRecord, NextRecord
<1>10. CASE EndOfRecords
  BY <1>10 DEF EndOfRecords
<1>11. CASE TailError
  <2>1. [record_index |-> index] \in DecodeError
    BY DEF DecodeError
  <2>2. out' \in Decoded
    BY <1>11, <2>1, AppendProperties DEF TailError, Decoded
  <2> QED
    BY <1>11, <2>2 DEF TailError
<1>12. CASE Finish
  <2>1. meta' \in MetaRow
    BY <1>12 DEF Finish, MetaRow, Decoded
  <2>2. out' \in Decoded
    BY <1>12, <2>1 DEF Finish, Decoded
  <2> QED
    BY <1>12, <2>1, <2>2 DEF Finish
<1>13. CASE UNCHANGED vars
  BY <1>13 DEF vars
<1> QED
  BY <1>1, <1>2, <1>3, <1>4, <1>5, <1>6, <1>7, <1>8, <1>9, <1>10, <1>11, <1>12,
     <1>13 DEF Next, Returned

\* Every Rust local keeps its type, whatever the capture (decode.rs:136-261).
THEOREM TypeCorrect == Spec => []TypeOK
<1>1. Init => TypeOK
  BY TypeInit
<1>2. TypeOK /\ [Next]_vars => TypeOK'
  BY TypeNext
<1> QED
  BY <1>1, <1>2, PTL DEF Spec

-----------------------------------------------------------------------------
(* The loop invariant, one lemma per collection an iteration can extend.   *)
(* `Advance' is what every record read has in common.                      *)

Advance ==
  /\ pc = "loop"
  /\ pos < Len(capture.records)
  /\ pos' = pos + 1
  /\ index' = index + 1
  /\ UNCHANGED <<capture, pc, names, meta, builds>>
  /\ out'.events = out.events
  /\ out'.meta.sections = out.meta.sections

LEMMA AdvanceHeader ==
  ASSUME IInv, Advance PROVE HeaderLocals' /\ Positions' /\ Opened'
<1> USE DEF IInv, Advance, Opened
<1>1. HeaderLocals'
  BY DEF LoopInv, HeaderLocals
<1>2. Positions'
  <2>1. Len(capture.records) \in Nat /\ pos \in Nat
    BY DEF TypeOK, Capture
  <2> QED
    BY <2>1 DEF LoopInv, Positions
<1> QED
  BY <1>1, <1>2

LEMMA SamplesKept ==
  ASSUME IInv, Advance, Current.kind # "sample", out'.samples = out.samples
  PROVE  ReportsSamples(capture, pos, out)'
<1>1. ReportsSamples(capture, pos, out)
  BY DEF IInv, LoopInv, Advance, Opened
<1>2. Ordinals(capture, pos + 1, {"sample"}) = Ordinals(capture, pos, {"sample"})
  BY OrdinalsStep DEF IInv, TypeOK, Current
<1> QED
  BY <1>1, <1>2 DEF ReportsSamples, Advance, Lists

LEMMA SamplesAdded ==
  ASSUME IInv, Advance, Current.kind = "sample",
         out'.samples = Append(out.samples,
                          [rec |-> pos + 1, event |-> EventLabel(Current.attr)])
  PROVE  ReportsSamples(capture, pos, out)'
<1> DEFINE row == [rec |-> pos + 1, event |-> EventLabel(Current.attr)]
           rows == out.samples
           new == Append(rows, row)
<1>1. /\ ReportsSamples(capture, pos, out)
      /\ HeaderLocals
  BY DEF IInv, LoopInv, Advance, Opened
<1>2. TypeOK /\ pos \in Nat /\ rows \in Seq(SampleRow)
  BY DEF IInv, TypeOK, Decoded
<1>3. Current \in Record
  BY <1>2, CurrentTyped DEF Advance
<1>4. row \in SampleRow
  BY <1>2, <1>3, LabelTyped DEF Record, SampleRow
<1>5. Ordinals(capture, pos + 1, {"sample"}) = Ordinals(capture, pos, {"sample"}) \cup {pos + 1}
  BY <1>2, OrdinalsStep DEF Current
<1>6. Lists(new, Ordinals(capture, pos + 1, {"sample"}))
  <2>1. Lists(rows, Ordinals(capture, pos, {"sample"}))
    BY <1>1 DEF ReportsSamples
  <2>2. Ordinals(capture, pos, {"sample"}) \in SUBSET (1..pos)
    BY <1>2, OrdinalsBound
  <2> HIDE DEF row
  <2>3. row.rec = pos + 1
    BY DEF row
  <2> QED
    BY <1>2, <1>4, <1>5, <2>1, <2>2, <2>3, ListsAppend
<1>7. \A i \in DOMAIN new :
         \/ i \in DOMAIN rows /\ new[i] = rows[i]
         \/ new[i] = row
  BY <1>2, <1>4, AppendProperties
<1>8. row.event = LET a == Current.attr + 1
                  IN  IF a \in DOMAIN out.events THEN out.events[a].name ELSE None
  <2>1. capture.attrs \in Seq(Attribute)
    BY <1>2 DEF TypeOK, Capture
  <2>2. /\ DOMAIN names = 1..Len(capture.attrs) /\ Len(names) = Len(capture.attrs)
        /\ DOMAIN out.events = 1..Len(capture.attrs)
        /\ \A a \in 1..Len(capture.attrs) : out.events[a].name = names[a]
    BY <1>1, <1>2, <2>1 DEF HeaderLocals, EventNames, DecodeEvents, TypeOK
  <2>3. Current.attr \in Nat
    BY <1>3 DEF Record
  <2> QED
    BY <2>1, <2>2, <2>3 DEF EventLabel
<1> DEFINE Labelled(r) ==
             LET a == capture.records[r.rec].attr + 1
             IN  r.event = IF a \in DOMAIN out.events THEN out.events[a].name ELSE None
<1>9. \A i \in DOMAIN rows : Labelled(rows[i])
  BY <1>1 DEF ReportsSamples
<1>10. Labelled(row)
  BY <1>8 DEF Current
<1> HIDE DEF row, new, Labelled
<1>11. \A i \in DOMAIN new : Labelled(new[i])
  BY <1>7, <1>9, <1>10
<1>12. out'.samples = new /\ out'.events = out.events /\ pos' = pos + 1 /\ capture' = capture
  BY DEF new, row, Advance
<1> QED
  BY <1>6, <1>11, <1>12 DEF ReportsSamples, Labelled

LEMMA CommsKept ==
  ASSUME IInv, Advance, Current.kind # "comm", out'.comms = out.comms
  PROVE  ReportsComms(capture, pos, out)'
<1>1. ReportsComms(capture, pos, out)
  BY DEF IInv, LoopInv, Advance, Opened
<1>2. Ordinals(capture, pos + 1, {"comm"}) = Ordinals(capture, pos, {"comm"})
  BY OrdinalsStep DEF IInv, TypeOK, Current
<1> QED
  BY <1>1, <1>2 DEF ReportsComms, Advance

LEMMA CommsAdded ==
  ASSUME IInv, Advance, Current.kind = "comm",
         out'.comms = Append(out.comms, [rec |-> pos + 1])
  PROVE  ReportsComms(capture, pos, out)'
<1>1. Lists(out.comms, Ordinals(capture, pos, {"comm"}))
  BY DEF IInv, LoopInv, Advance, Opened, ReportsComms
<1>2. pos \in Nat /\ out.comms \in Seq(CommRow) /\ [rec |-> pos + 1] \in CommRow
  BY DEF IInv, TypeOK, Decoded, CommRow
<1>3. Ordinals(capture, pos + 1, {"comm"}) = Ordinals(capture, pos, {"comm"}) \cup {pos + 1}
  BY <1>2, OrdinalsStep DEF Current
<1>4. Ordinals(capture, pos, {"comm"}) \in SUBSET (1..pos)
  BY <1>2, OrdinalsBound
<1>5. Lists(Append(out.comms, [rec |-> pos + 1]), Ordinals(capture, pos + 1, {"comm"}))
  BY <1>1, <1>2, <1>3, <1>4, ListsAppend
<1> QED
  BY <1>5 DEF ReportsComms, Advance

LEMMA MmapsKept ==
  ASSUME IInv, Advance, Current.kind \notin {"mmap", "mmap2"}, out'.mmaps = out.mmaps
  PROVE  ExactMmaps'
<1>1. ExactMmaps
  BY DEF IInv, LoopInv, Advance, Opened
<1>2. Ordinals(capture, pos + 1, {"mmap", "mmap2"}) = Ordinals(capture, pos, {"mmap", "mmap2"})
  BY OrdinalsStep DEF IInv, TypeOK, Current
<1> QED
  BY <1>1, <1>2 DEF ExactMmaps, Advance, HeaderBuildId

\* `id' is the build id the record at hand is reported with.
LEMMA MmapsAdded ==
  ASSUME IInv, Advance, Current.kind \in {"mmap", "mmap2"}, NEW id \in BuildId \cup {None},
         id = IF Current.kind = "mmap2" /\ Current.inline # None
                THEN Current.inline ELSE HeaderBuildId(Lossy[Current.path]),
         out'.mmaps = Append(out.mmaps, MapRow(Lossy[Current.path], id))
  PROVE  ExactMmaps'
<1> DEFINE row == MapRow(Lossy[Current.path], id)
           rows == out.mmaps
           new == Append(rows, row)
           Exact(r, c) == /\ r.filename = Lossy[c.path]
                          /\ r.build_id = IF c.kind = "mmap2" /\ c.inline # None
                                            THEN c.inline ELSE HeaderBuildId(Lossy[c.path])
<1>1. ExactMmaps
  BY DEF IInv, LoopInv, Advance, Opened
<1>2. TypeOK /\ pos \in Nat /\ rows \in Seq(MmapRow)
  BY DEF IInv, TypeOK, Decoded
<1>3. Current \in Record
  BY <1>2, CurrentTyped DEF Advance
<1>4. row \in MmapRow /\ row.rec = pos + 1 /\ Exact(row, Current)
  BY <1>2, <1>3, LossyAssumption DEF Record, MapRow, MmapRow
<1> HIDE DEF row, Exact
<1>5. Ordinals(capture, pos + 1, {"mmap", "mmap2"})
        = Ordinals(capture, pos, {"mmap", "mmap2"}) \cup {pos + 1}
  BY <1>2, OrdinalsStep DEF Current
<1>6. Lists(new, Ordinals(capture, pos + 1, {"mmap", "mmap2"}))
  <2>1. Ordinals(capture, pos, {"mmap", "mmap2"}) \in SUBSET (1..pos)
    BY <1>2, OrdinalsBound
  <2> QED
    BY <1>1, <1>2, <1>4, <1>5, <2>1, ListsAppend DEF ExactMmaps
<1>7. \A i \in DOMAIN new :
         \/ i \in DOMAIN rows /\ new[i] = rows[i]
         \/ new[i] = row
  BY <1>2, <1>4, AppendProperties
<1> HIDE DEF new
<1>8. \A i \in DOMAIN rows : Exact(rows[i], capture.records[rows[i].rec])
  BY <1>1 DEF ExactMmaps, Exact
<1>9. \A i \in DOMAIN new : Exact(new[i], capture.records[new[i].rec])
  BY <1>4, <1>7, <1>8 DEF Current
<1>10. /\ out'.mmaps = new /\ pos' = pos + 1 /\ capture' = capture /\ builds' = builds
  BY DEF new, row, Advance
<1> QED
  BY <1>6, <1>9, <1>10 DEF ExactMmaps, Exact, HeaderBuildId

\* `errors' is in stream order and names the positions in S.
Names(errors, S) ==
  /\ \A i, j \in DOMAIN errors :
        i < j => errors[i].record_index < errors[j].record_index
  /\ {errors[i].record_index : i \in DOMAIN errors} = S

LEMMA NamesAppend ==
  ASSUME NEW errors \in Seq(DecodeError), NEW n \in Nat,
         NEW S, Names(errors, S), \A k \in S : k < n
  PROVE  Names(Append(errors, [record_index |-> n]), S \cup {n})
<1> DEFINE row == [record_index |-> n]
           new == Append(errors, row)
<1>1. /\ DOMAIN new = 1..(Len(errors) + 1)
      /\ DOMAIN errors = 1..Len(errors)
      /\ \A i \in DOMAIN errors : new[i] = errors[i]
      /\ new[Len(errors) + 1] = row
      /\ Len(errors) \in Nat
  <2>1. row \in DecodeError
    BY DEF DecodeError
  <2> QED
    BY <2>1, AppendProperties
<1>2. row.record_index = n
  OBVIOUS
<1>3. \A i \in DOMAIN errors : errors[i].record_index < n
  BY DEF Names
<1> HIDE DEF row, new
<1>4. ASSUME NEW i \in DOMAIN new, NEW j \in DOMAIN new, i < j
      PROVE  new[i].record_index < new[j].record_index
  <2>1. i \in DOMAIN errors
    BY <1>1, <1>4
  <2>2. CASE j \in DOMAIN errors
    BY <1>1, <1>4, <2>1, <2>2 DEF Names
  <2>3. CASE j = Len(errors) + 1
    BY <1>1, <1>2, <1>3, <2>1, <2>3
  <2> QED
    BY <1>1, <2>2, <2>3
<1>5. {new[i].record_index : i \in DOMAIN new}
        = {errors[i].record_index : i \in DOMAIN errors} \cup {n}
  <2>1. DOMAIN new = DOMAIN errors \cup {Len(errors) + 1}
    BY <1>1
  <2> QED
    BY <1>1, <1>2, <2>1
<1>6. Names(new, S \cup {n})
  BY <1>4, <1>5 DEF Names
<1> QED
  BY <1>6 DEF new, row

\* Positions of the malformed records among the first n.
BadPositions(n) == {k - 1 : k \in Ordinals(capture, n, {"malformed"})}

LEMMA ErrorsSoFar ==
  ASSUME IInv, pc = "loop"
  PROVE  /\ Names(out.errors, BadPositions(pos))
         /\ index = pos /\ pos \in Nat
         /\ out.errors \in Seq(DecodeError)
         /\ \A k \in BadPositions(pos) : k < pos
<1>1. ReportsErrors(capture, pos, FALSE, out)
  BY DEF IInv, LoopInv, Opened
<1>2. index = pos /\ pos \in Nat /\ out.errors \in Seq(DecodeError)
  BY DEF IInv, LoopInv, Opened, Positions, TypeOK, Decoded
<1>3. \A k \in BadPositions(pos) : k < pos
  BY <1>2, OrdinalsBound DEF BadPositions
<1> QED
  BY <1>1, <1>2, <1>3 DEF ReportsErrors, Names, BadPositions

LEMMA ErrorsKept ==
  ASSUME IInv, Advance, Current.kind # "malformed", out'.errors = out.errors
  PROVE  ReportsErrors(capture, pos, capture.truncated /\ pc # "loop", out)'
<1>1. Names(out.errors, BadPositions(pos)) /\ pos \in Nat
  BY ErrorsSoFar DEF Advance
<1>2. Ordinals(capture, pos + 1, {"malformed"}) = Ordinals(capture, pos, {"malformed"})
  BY <1>1, OrdinalsStep DEF Current
<1> QED
  BY <1>1, <1>2 DEF ReportsErrors, Names, BadPositions, Advance

LEMMA ErrorsAdded ==
  ASSUME IInv, Advance, Current.kind = "malformed",
         out'.errors = Append(out.errors, [record_index |-> index])
  PROVE  ReportsErrors(capture, pos, capture.truncated /\ pc # "loop", out)'
<1>1. /\ Names(out.errors, BadPositions(pos)) /\ pos \in Nat /\ index = pos
      /\ out.errors \in Seq(DecodeError)
      /\ \A k \in BadPositions(pos) : k < pos
  BY ErrorsSoFar DEF Advance
<1>2. Ordinals(capture, pos + 1, {"malformed"})
        = Ordinals(capture, pos, {"malformed"}) \cup {pos + 1}
  BY <1>1, OrdinalsStep DEF Current
<1>3. BadPositions(pos + 1) = BadPositions(pos) \cup {pos}
  <2>1. BadPositions(pos + 1) = BadPositions(pos) \cup {(pos + 1) - 1}
    BY <1>2 DEF BadPositions
  <2>2. (pos + 1) - 1 = pos
    BY <1>1
  <2> QED
    BY <2>1, <2>2
<1>4. Names(out'.errors, BadPositions(pos) \cup {pos})
  BY <1>1, NamesAppend
<1> QED
  BY <1>3, <1>4 DEF ReportsErrors, Names, BadPositions, Advance

LEMMA ErrorsTail ==
  ASSUME IInv, TailError
  PROVE  ReportsErrors(capture, pos, capture.truncated /\ pc # "loop", out)'
<1>1. /\ Names(out.errors, BadPositions(pos)) /\ pos \in Nat /\ index = pos
      /\ out.errors \in Seq(DecodeError)
      /\ \A k \in BadPositions(pos) : k < pos
  BY ErrorsSoFar DEF TailError
<1>2. out'.errors = Append(out.errors, [record_index |-> pos])
  BY <1>1 DEF IInv, TypeOK, Decoded, TailError
<1>3. Names(out'.errors, BadPositions(pos) \cup {pos})
  BY <1>1, <1>2, NamesAppend
<1> QED
  BY <1>3 DEF ReportsErrors, Names, BadPositions, TailError

LEMMA CountKept ==
  ASSUME IInv, Advance, Current.kind \notin EventKinds, out'.meta = out.meta
  PROVE  CountsEvents(capture, pos, out)'
<1>1. CountsEvents(capture, pos, out) /\ pos \in Nat
  BY DEF IInv, LoopInv, Advance, Opened, TypeOK
<1>2. Ordinals(capture, pos + 1, EventKinds) = Ordinals(capture, pos, EventKinds)
  BY <1>1, OrdinalsStep DEF Current
<1> QED
  BY <1>1, <1>2 DEF CountsEvents, Advance

LEMMA CountAdded ==
  ASSUME IInv, Advance, Current.kind \in EventKinds,
         out'.meta.total_events = out.meta.total_events + 1
  PROVE  CountsEvents(capture, pos, out)'
<1>1. CountsEvents(capture, pos, out) /\ pos \in Nat
  BY DEF IInv, LoopInv, Advance, Opened, TypeOK
<1>2. Cardinality(Ordinals(capture, pos + 1, EventKinds))
        = Cardinality(Ordinals(capture, pos, EventKinds)) + 1
  BY <1>1, OrdinalsCount DEF Current
<1> QED
  BY <1>1, <1>2 DEF CountsEvents, Advance

-----------------------------------------------------------------------------
(* The inductive invariant is inductive.                                   *)

LEMMA IInvInit == Init => IInv
BY TypeInit DEF Init, IInv, Fresh, Opened

\* The row collections an event record extends, and those it leaves alone.
LEMMA IInvAdvance ==
  ASSUME IInv, TypeOK', Advance,
         ReportsSamples(capture, pos, out)',
         ReportsComms(capture, pos, out)',
         ExactMmaps',
         ReportsErrors(capture, pos, capture.truncated /\ pc # "loop", out)',
         CountsEvents(capture, pos, out)'
  PROVE  IInv'
<1>1. HeaderLocals' /\ Positions' /\ Opened'
  BY AdvanceHeader
<1>2. pc' = "loop"
  BY DEF Advance
<1>3. LoopInv'
  BY <1>1 DEF LoopInv
<1> QED
  BY <1>2, <1>3 DEF IInv

LEMMA IInvParseFile == ASSUME IInv, TypeOK', ParseFile PROVE IInv'
<1> USE DEF ParseFile
<1>1. TypeOK /\ Fresh /\ pos' = 0 /\ index' = 0 /\ pc' = "loop"
  BY DEF IInv, Fresh
<1>2. out' = [NoRows EXCEPT !.events = DecodeEvents(capture.attrs),
                            !.meta   = DecodeMeta(capture)]
  BY <1>1 DEF Fresh
<1>3. /\ out'.samples = <<>> /\ out'.mmaps = <<>> /\ out'.comms = <<>>
      /\ out'.errors = <<>> /\ out'.events = DecodeEvents(capture.attrs)
      /\ out'.meta = DecodeMeta(capture)
  BY <1>2 DEF NoRows
<1>4. HeaderLocals'
  BY <1>3 DEF HeaderLocals
<1>5. Positions'
  <2>1. Len(capture.records) \in Nat
    BY <1>1 DEF TypeOK, Capture
  <2> QED
    BY <1>1, <2>1 DEF Positions
<1>6. ReportsSamples(capture, pos, out)' /\ ReportsComms(capture, pos, out)' /\ ExactMmaps'
  <2>1. \A K : Lists(<<>>, Ordinals(capture', pos', K))
    BY <1>1, OrdinalsNone, ListsEmpty
  <2>2. ReportsSamples(capture, pos, out)'
    BY <1>3, <2>1 DEF ReportsSamples
  <2>3. ReportsComms(capture, pos, out)'
    BY <1>3, <2>1 DEF ReportsComms
  <2>4. ExactMmaps'
    BY <1>3, <2>1 DEF ExactMmaps
  <2> QED
    BY <2>2, <2>3, <2>4
<1>7. ReportsErrors(capture, pos, capture.truncated /\ pc # "loop", out)'
  BY <1>1, <1>3, OrdinalsNone DEF ReportsErrors
<1>8. CountsEvents(capture, pos, out)'
  <2>1. Ordinals(capture', pos', EventKinds) = {}
    BY <1>1, OrdinalsNone
  <2>2. Cardinality(Ordinals(capture', pos', EventKinds)) = 0
    BY <2>1, FS_EmptySet
  <2> QED
    BY <1>3, <2>2 DEF CountsEvents, DecodeMeta
<1> QED
  BY <1>1, <1>4, <1>5, <1>6, <1>7, <1>8 DEF IInv, LoopInv

\* The steps after the last record: the rows, the total and the metadata
\* sections are already what they will be.
Settled ==
  /\ Opened
  /\ pos = Len(capture.records)
  /\ pc' \in {"finish", "done"}
  /\ UNCHANGED <<capture, pos, index, names, builds>>
  /\ out'.samples = out.samples
  /\ out'.mmaps = out.mmaps
  /\ out'.comms = out.comms
  /\ out'.events = out.events
  /\ out'.meta.total_events = out.meta.total_events
  /\ out'.meta.sections = meta.sections
  /\ meta'.sections = meta.sections

LEMMA IInvSettled ==
  ASSUME IInv, TypeOK', Settled,
         ReportsErrors(capture, pos, capture.truncated /\ pc # "loop", out)'
  PROVE  IInv'
<1>1. LoopInv
  BY DEF IInv, Settled
<1>2. HeaderLocals'
  BY <1>1 DEF LoopInv, HeaderLocals, Settled
<1>3. Positions'
  <2>1. Len(capture.records) \in Nat
    BY DEF IInv, TypeOK, Capture
  <2> QED
    BY <1>1, <2>1 DEF LoopInv, Positions, Settled
<1>4. ReportsSamples(capture, pos, out)'
  BY <1>1 DEF LoopInv, ReportsSamples, Settled
<1>5. ReportsComms(capture, pos, out)'
  BY <1>1 DEF LoopInv, ReportsComms, Settled
<1>6. ExactMmaps'
  BY <1>1 DEF LoopInv, ExactMmaps, HeaderBuildId, Settled
<1>7. CountsEvents(capture, pos, out)'
  BY <1>1 DEF LoopInv, CountsEvents, Settled
<1>8. LoopInv'
  BY <1>2, <1>3, <1>4, <1>5, <1>6, <1>7 DEF LoopInv
<1> QED
  BY <1>8 DEF IInv, Settled, Opened

LEMMA IInvNext == IInv /\ [Next]_vars => IInv'
<1> SUFFICES ASSUME IInv, [Next]_vars PROVE IInv'
  OBVIOUS
<1>0. TypeOK /\ TypeOK'
  BY TypeNext DEF IInv
<1>a. /\ Counted.samples = out.samples /\ Counted.mmaps = out.mmaps
      /\ Counted.comms = out.comms /\ Counted.events = out.events
      /\ Counted.errors = out.errors
      /\ Counted.meta.sections = out.meta.sections
      /\ Counted.meta.total_events = out.meta.total_events + 1
      /\ Counted \in Decoded
  BY <1>0, CountedTyped
<1>1. CASE ParseFileFails
  BY <1>0, <1>1 DEF ParseFileFails, IInv, Opened
<1>2. CASE ParseFile
  BY <1>0, <1>2, IInvParseFile
<1>3. CASE SampleEvent
  <2> USE DEF SampleEvent, NextRecord
  <2>1. /\ out'.samples = Append(out.samples,
                            [rec |-> pos + 1, event |-> EventLabel(Current.attr)])
        /\ out'.mmaps = out.mmaps /\ out'.comms = out.comms
        /\ out'.errors = out.errors /\ out'.meta = Counted.meta
        /\ out'.events = out.events
    BY <1>3, <1>a DEF Decoded
  <2>2. Advance /\ Current.kind = "sample"
    BY <1>3, <1>a, <2>1 DEF Advance
  <2> QED
    BY <1>0, <1>a, <2>1, <2>2, SamplesAdded, CommsKept, MmapsKept, ErrorsKept,
       CountAdded, IInvAdvance DEF EventKinds
<1>4. CASE MmapEvent
  <2> USE DEF MmapEvent, NextRecord
  <2> DEFINE id == HeaderBuildId(Lossy[Current.path])
  <2>1. /\ out'.mmaps = Append(out.mmaps, MapRow(Lossy[Current.path], id))
        /\ out'.samples = out.samples /\ out'.comms = out.comms
        /\ out'.errors = out.errors /\ out'.meta = Counted.meta
        /\ out'.events = out.events
    BY <1>4, <1>a DEF Decoded
  <2>2. Advance /\ Current.kind = "mmap"
    BY <1>4, <1>a, <2>1 DEF Advance
  <2>3. ExactMmaps'
    <3>1. id \in BuildId \cup {None}
      BY <1>0 DEF TypeOK, HeaderBuildId
    <3> QED
      BY <2>1, <2>2, <3>1, MmapsAdded
  <2> QED
    BY <1>0, <1>a, <2>1, <2>2, <2>3, SamplesKept, CommsKept, ErrorsKept,
       CountAdded, IInvAdvance DEF EventKinds
<1>5. CASE Mmap2Event
  <2> USE DEF Mmap2Event, NextRecord
  <2> DEFINE id == Mmap2BuildId(Lossy[Current.path])
  <2>1. /\ out'.mmaps = Append(out.mmaps, MapRow(Lossy[Current.path], id))
        /\ out'.samples = out.samples /\ out'.comms = out.comms
        /\ out'.errors = out.errors /\ out'.meta = Counted.meta
        /\ out'.events = out.events
    BY <1>5, <1>a DEF Decoded
  <2>2. Advance /\ Current.kind = "mmap2"
    BY <1>5, <1>a, <2>1 DEF Advance
  <2>3. ExactMmaps'
    <3>1. Current \in Record
      BY <1>0, <2>2, CurrentTyped DEF Advance
    <3>2. id \in BuildId \cup {None}
      BY <1>0, <3>1 DEF TypeOK, HeaderBuildId, Mmap2BuildId, Record
    <3>3. id = IF Current.kind = "mmap2" /\ Current.inline # None
                 THEN Current.inline ELSE HeaderBuildId(Lossy[Current.path])
      BY <2>2 DEF Mmap2BuildId
    <3> HIDE DEF id
    <3> QED
      BY <2>1, <2>2, <3>2, <3>3, MmapsAdded
  <2> QED
    BY <1>0, <1>a, <2>1, <2>2, <2>3, SamplesKept, CommsKept, ErrorsKept,
       CountAdded, IInvAdvance DEF EventKinds
<1>6. CASE CommEvent
  <2> USE DEF CommEvent, NextRecord
  <2>1. /\ out'.comms = Append(out.comms, [rec |-> pos + 1])
        /\ out'.samples = out.samples /\ out'.mmaps = out.mmaps
        /\ out'.errors = out.errors /\ out'.meta = Counted.meta
        /\ out'.events = out.events
    BY <1>6, <1>a DEF Decoded
  <2>2. Advance /\ Current.kind = "comm"
    BY <1>6, <1>a, <2>1 DEF Advance
  <2> QED
    BY <1>0, <1>a, <2>1, <2>2, SamplesKept, CommsAdded, MmapsKept, ErrorsKept,
       CountAdded, IInvAdvance DEF EventKinds
<1>7. CASE OtherEvent
  <2> USE DEF OtherEvent, NextRecord
  <2>1. Advance /\ Current.kind = "other"
    BY <1>7, <1>a DEF Advance
  <2> QED
    BY <1>0, <1>7, <1>a, <2>1, SamplesKept, CommsKept, MmapsKept, ErrorsKept,
       CountAdded, IInvAdvance DEF EventKinds
<1>8. CASE MalformedEvent
  <2> USE DEF MalformedEvent, NextRecord
  <2>1. /\ out'.errors = Append(out.errors, [record_index |-> index])
        /\ out'.samples = out.samples /\ out'.mmaps = out.mmaps
        /\ out'.comms = out.comms /\ out'.meta = Counted.meta
        /\ out'.events = out.events
    BY <1>8, <1>a DEF Decoded
  <2>2. Advance /\ Current.kind = "malformed"
    BY <1>8, <1>a, <2>1 DEF Advance
  <2> QED
    BY <1>0, <1>a, <2>1, <2>2, SamplesKept, CommsKept, MmapsKept, ErrorsAdded,
       CountAdded, IInvAdvance DEF EventKinds
<1>9. CASE UserRecord
  <2> USE DEF UserRecord, NextRecord
  <2>1. Advance /\ Current.kind = "user" /\ out' = out
    BY <1>9 DEF Advance
  <2> QED
    BY <1>0, <2>1, SamplesKept, CommsKept, MmapsKept, ErrorsKept, CountKept,
       IInvAdvance DEF EventKinds
<1>10. CASE EndOfRecords
  <2>1. Settled
    BY <1>10 DEF EndOfRecords, Settled, Opened, IInv, LoopInv, HeaderLocals
  <2>2. ReportsErrors(capture, pos, capture.truncated /\ pc # "loop", out)'
    BY <1>10 DEF EndOfRecords, IInv, LoopInv, Opened, ReportsErrors
  <2> QED
    BY <1>0, <2>1, <2>2, IInvSettled
<1>11. CASE TailError
  <2>1. Settled
    BY <1>0, <1>11 DEF TailError, Settled, Opened, TypeOK, Decoded, IInv, LoopInv,
                       HeaderLocals
  <2> QED
    BY <1>0, <1>11, <2>1, ErrorsTail, IInvSettled
<1>12. CASE Finish
  <2>1. /\ out'.errors = out.errors
        /\ Settled
    BY <1>0, <1>12 DEF Finish, Settled, Opened, TypeOK, Decoded, MetaRow, IInv, LoopInv,
                       HeaderLocals, Positions
  <2>2. ReportsErrors(capture, pos, capture.truncated /\ pc # "loop", out)'
    BY <1>12, <2>1 DEF Finish, IInv, LoopInv, Opened, ReportsErrors
  <2> QED
    BY <1>0, <2>1, <2>2, IInvSettled
<1>13. CASE UNCHANGED vars
  BY <1>0, <1>13 DEF vars, IInv, Opened, Fresh, LoopInv, HeaderLocals, Positions,
     ExactMmaps, HeaderBuildId, ReportsSamples, ReportsComms, ReportsErrors, CountsEvents
<1> QED
  BY <1>1, <1>2, <1>3, <1>4, <1>5, <1>6, <1>7, <1>8, <1>9, <1>10, <1>11, <1>12,
     <1>13 DEF Next, Returned

THEOREM IInvHolds == Spec => []IInv
BY IInvInit, IInvNext, PTL DEF Spec

-----------------------------------------------------------------------------
(* The safety properties.                                                  *)

\* Every sample and comm record has its one row, in stream order, with the
\* label the events table gives it (decode.rs:173-206, 236-243).
THEOREM RowsMatch == Spec => []RowsMatchRecords
<1>1. IInv => RowsMatchRecords
  BY DEF IInv, LoopInv, RowsMatchRecords
<1> QED
  BY <1>1, IInvHolds, PTL

\* Skipped records and a broken tail are reported where they were, once each
\* (decode.rs:164-170, 177-187).
THEOREM ErrorsLocate == Spec => []ErrorsLocateRecords
<1>1. IInv => ErrorsLocateRecords
  BY DEF IInv, LoopInv, ErrorsLocateRecords
<1> QED
  BY <1>1, IInvHolds, PTL

\* A name's header build id is one HEADER_BUILD_ID gives it, and NULL only if
\* it gives none.
LEMMA HeaderBuildIdChosen ==
  ASSUME IInv, Opened, NEW r \in Record
  PROVE  LET known == {e.id : e \in {x \in HeaderEntries(capture) :
                                        Lossy[x.path] = Lossy[r.path]}}
         IN  IF known = {} THEN HeaderBuildId(Lossy[r.path]) = None
                           ELSE HeaderBuildId(Lossy[r.path]) \in known
<1> DEFINE name == Lossy[r.path]
           entries == HeaderEntries(capture)
           known == {e.id : e \in {x \in entries : Lossy[x.path] = name}}
<1>1. builds \in BuildIdMaps(entries)
  BY DEF IInv, LoopInv, HeaderLocals
<1>2. /\ DOMAIN builds = IndexedNames(entries)
      /\ \A n \in IndexedNames(entries) :
            \E e \in entries : Lossy[e.path] = n /\ e.id = builds[n]
  BY <1>1 DEF BuildIdMaps
<1> HIDE DEF entries, name
<1>3. CASE name \in IndexedNames(entries)
  <2>1. builds[name] \in known
    BY <1>2, <1>3
  <2> QED
    BY <1>2, <1>3, <2>1 DEF HeaderBuildId, name, entries
<1>4. CASE name \notin IndexedNames(entries)
  <2>1. known = {}
    BY <1>4 DEF IndexedNames
  <2> QED
    BY <1>2, <1>4, <2>1 DEF HeaderBuildId, name, entries
<1> QED
  BY <1>3, <1>4

LEMMA MmapsReported == ASSUME IInv, Opened PROVE ReportsMmaps(capture, pos, out)
<1> DEFINE rows == out.mmaps
           rec(i) == capture.records[rows[i].rec]
           inlined(i) == rec(i).kind = "mmap2" /\ rec(i).inline # None
<1>1. ExactMmaps /\ TypeOK /\ pos <= Len(capture.records)
  BY DEF IInv, LoopInv, Positions
<1>2. \A i \in DOMAIN rows :
         /\ rows[i].filename = Lossy[rec(i).path]
         /\ rows[i].build_id =
              IF inlined(i) THEN rec(i).inline ELSE HeaderBuildId(Lossy[rec(i).path])
  BY <1>1 DEF ExactMmaps
<1>3. \A i \in DOMAIN rows : rec(i) \in Record /\ rec(i).kind \in {"mmap", "mmap2"}
  <2> TAKE i \in DOMAIN rows
  <2>1. rows[i].rec \in Ordinals(capture, pos, {"mmap", "mmap2"})
    BY <1>1 DEF ExactMmaps, Lists
  <2>2. capture.records \in Seq(Record) /\ pos \in Nat
    BY <1>1 DEF TypeOK, Capture
  <2>3. rows[i].rec \in 1..Len(capture.records) /\ rec(i).kind \in {"mmap", "mmap2"}
    BY <1>1, <2>1, <2>2 DEF Ordinals
  <2> QED
    BY <2>2, <2>3, ElementOfSeq
<1>4. \A i \in DOMAIN rows : rows[i].build_id \in BuildIdChoices(capture, rec(i))
  <2> TAKE i \in DOMAIN rows
  <2>1. CASE inlined(i)
    BY <1>2, <2>1 DEF BuildIdChoices
  <2>2. CASE ~inlined(i)
    <3>1. rows[i].build_id = HeaderBuildId(Lossy[rec(i).path])
      BY <1>2, <2>2
    <3>2. rec(i) \in Record
      BY <1>3
    <3> DEFINE r == rec(i)
    <3> HIDE DEF r
    <3>3. HeaderBuildId(Lossy[r.path]) \in
            LET known == {e.id : e \in {x \in HeaderEntries(capture) :
                                           Lossy[x.path] = Lossy[r.path]}}
            IN  IF known = {} THEN {None} ELSE known
      BY <3>2, HeaderBuildIdChosen DEF r
    <3>4. ~(r.kind = "mmap2" /\ r.inline # None)
      BY <2>2 DEF r
    <3>5. HeaderBuildId(Lossy[r.path]) \in BuildIdChoices(capture, r)
      BY <3>3, <3>4 DEF BuildIdChoices
    <3> QED
      BY <3>1, <3>5 DEF r
  <2> QED
    BY <2>1, <2>2
<1>5. \A i, j \in DOMAIN rows :
         /\ rec(i).kind = "mmap" \/ rec(i).inline = None
         /\ rec(j).kind = "mmap" \/ rec(j).inline = None
         /\ rows[i].filename = rows[j].filename
         => rows[i].build_id = rows[j].build_id
  BY <1>2
<1> QED
  BY <1>1, <1>2, <1>4, <1>5 DEF ReportsMmaps, ExactMmaps

\* Each mapping has its one row, with its own build id or the header's, and
\* equal names that are looked up get equal answers (decode.rs:207-235).
THEOREM BuildIds == Spec => []BuildIdsResolved
<1>1. IInv => BuildIdsResolved
  BY MmapsReported DEF BuildIdsResolved
<1> QED
  BY <1>1, IInvHolds, PTL

LEMMA HeaderReported == ASSUME IInv, Opened PROVE ReportsHeader(capture, out)
BY DEF IInv, LoopInv, HeaderLocals, ReportsHeader, DecodeEvents, DecodeMeta

\* Replacing the working metadata by the snapshot loses neither the running
\* total nor the header's sections (decode.rs:146-151, 256-260).
THEOREM MetaSurvives == Spec => []MetaSurvivesSnapshot
<1>1. IInv => MetaSurvivesSnapshot
  BY HeaderReported DEF IInv, LoopInv, Opened, MetaSurvivesSnapshot
<1> QED
  BY <1>1, IInvHolds, PTL

-----------------------------------------------------------------------------
(* The refinement.                                                         *)

LEMMA DoneIsDecoding ==
  ASSUME IInv, pc = "done" PROVE IsDecodingOf(capture, out)
<1>1. LoopInv /\ Opened /\ pos = Len(capture.records)
  BY DEF IInv, Opened, LoopInv, Positions
<1>2. ReportsErrors(capture, pos, capture.truncated, out)
  BY <1>1 DEF LoopInv, ReportsErrors
<1> QED
  BY <1>1, <1>2, MmapsReported, HeaderReported DEF LoopInv, IsDecodingOf

\* The contract's instance of DecodeReport and this module's are the same.
LEMMA SameReports ==
  ASSUME NEW c, NEW o
  PROVE  /\ Contract!Decoded = Decoded
         /\ Contract!IsDecodingOf(c, o) <=> IsDecodingOf(c, o)
<1>1. Contract!Decoded = Decoded
  BY DEF Contract!Decoded, Decoded, Contract!SampleRow, SampleRow,
         Contract!MmapRow, MmapRow, Contract!CommRow, CommRow, Contract!EventRow, EventRow,
         Contract!MetaRow, MetaRow, Contract!DecodeError, DecodeError
<1>2. \A n, K : Contract!Ordinals(c, n, K) = Ordinals(c, n, K)
  BY DEF Contract!Ordinals, Ordinals
<1>3. \A rows, S : Contract!Lists(rows, S) <=> Lists(rows, S)
  BY DEF Contract!Lists, Lists
<1>4. \A n : Contract!ReportsSamples(c, n, o) <=> ReportsSamples(c, n, o)
  BY <1>2, <1>3 DEF Contract!ReportsSamples, ReportsSamples
<1>5. \A r : Contract!BuildIdChoices(c, r) = BuildIdChoices(c, r)
  BY DEF Contract!BuildIdChoices, BuildIdChoices, Contract!HeaderEntries, HeaderEntries
<1>6. \A n : Contract!ReportsMmaps(c, n, o) <=> ReportsMmaps(c, n, o)
  BY <1>2, <1>3, <1>5 DEF Contract!ReportsMmaps, ReportsMmaps
<1>7. \A n : Contract!ReportsComms(c, n, o) <=> ReportsComms(c, n, o)
  BY <1>2, <1>3 DEF Contract!ReportsComms, ReportsComms
<1>8. \A n, t : Contract!ReportsErrors(c, n, t, o) <=> ReportsErrors(c, n, t, o)
  BY <1>2 DEF Contract!ReportsErrors, ReportsErrors
<1>9. \A n : Contract!CountsEvents(c, n, o) <=> CountsEvents(c, n, o)
  BY <1>2, Zenon DEF Contract!CountsEvents, CountsEvents, Contract!EventKinds, EventKinds,
             Contract!Cardinality, Cardinality
<1>10. Contract!ReportsHeader(c, o) <=> ReportsHeader(c, o)
  BY DEF Contract!ReportsHeader, ReportsHeader
<1> QED
  BY <1>1, <1>4, <1>6, <1>7, <1>8, <1>9, <1>10
     DEF Contract!IsDecodingOf, IsDecodingOf

\* The record loop implements the one-step contract: a step that returns is
\* the contract's step, every other step leaves the result pending.
THEOREM Implements == Spec => ImplementsContract
<1>1. Init => Contract!Init
  BY DEF Init, Contract!Init
<1>2. IInv /\ IInv' /\ [Next]_vars => [Contract!Next]_(Contract!vars)
  <2> SUFFICES ASSUME IInv, IInv', [Next]_vars
               PROVE  [Contract!Next]_(Contract!vars)
    OBVIOUS
  <2>1. CASE ParseFileFails
    BY <2>1 DEF ParseFileFails, Contract!Next, Contract!Refuse
  <2>2. CASE Finish
    <3>1. capture.readable /\ pc' = "done" /\ capture' = capture
      BY <2>2 DEF Finish, IInv, Opened, LoopInv, HeaderLocals
    <3>2. IsDecodingOf(capture', out') /\ out' \in Decoded
      <4>1. (IInv /\ pc = "done" => IsDecodingOf(capture, out))'
        BY DoneIsDecoding, PTL
      <4> QED
        BY <3>1, <4>1 DEF IInv, TypeOK
    <3>3. Contract!IsDecodingOf(capture, out') /\ out' \in Contract!Decoded
      BY <3>1, <3>2, SameReports
    <3>4. Contract!Return
      BY <2>2, <3>1, <3>3 DEF Finish, Contract!Return
    <3> QED
      BY <3>4 DEF Contract!Next
  <2>3. CASE \/ ParseFile \/ SampleEvent \/ MmapEvent \/ Mmap2Event \/ CommEvent
             \/ OtherEvent \/ MalformedEvent \/ UserRecord
             \/ EndOfRecords \/ TailError
    <3>1. /\ pc \in {"open", "loop"}
          /\ pc' \in {"loop", "finish"}
          /\ capture' = capture
      BY <2>3 DEF ParseFile, SampleEvent, MmapEvent, Mmap2Event, CommEvent, OtherEvent,
                  MalformedEvent, UserRecord, EndOfRecords, TailError, NextRecord
    <3> QED
      BY <3>1 DEF Contract!vars
  <2>4. CASE UNCHANGED vars
    BY <2>4 DEF vars, Contract!vars
  <2> QED
    BY <2>1, <2>2, <2>3, <2>4 DEF Next, Returned
<1> QED
  BY <1>1, <1>2, IInvHolds, PTL DEF Spec, ImplementsContract, Contract!Spec

-----------------------------------------------------------------------------
(* Every step of decode() is towards its return: the records not yet read, *)
(* and the steps before and after the loop.                                *)

StepsLeft ==
  CASE pc = "open"   -> (Len(capture.records) - pos) + 3
    [] pc = "loop"   -> (Len(capture.records) - pos) + 2
    [] pc = "finish" -> 1
    [] OTHER         -> 0

\* The safety half of termination, for captures of any length: every step the
\* call takes uses up one of a known number of steps, so no record can make the
\* loop spin (decode.rs:161-254).
THEOREM DecodeAdvances ==
  Spec => [][/\ StepsLeft \in Nat /\ StepsLeft' \in Nat
             /\ StepsLeft' < StepsLeft]_vars
<1> DEFINE A == StepsLeft \in Nat /\ StepsLeft' \in Nat /\ StepsLeft' < StepsLeft
<1>1. ASSUME IInv, Next PROVE A \/ UNCHANGED vars
  <2> DEFINE n == Len(capture.records)
  <2>1. n \in Nat /\ pos \in Nat
    <3>1. capture.records \in Seq(Record)
      BY <1>1 DEF IInv, TypeOK, Capture
    <3> QED
      BY <1>1, <3>1, LenProperties DEF IInv, TypeOK
  <2>2. /\ pc = "open" => pos = 0
        /\ Opened => pos <= n /\ (pc # "loop" => pos = n)
    BY <1>1 DEF IInv, Fresh, LoopInv, Positions
  <2> USE DEF StepsLeft
  <2>3. CASE ParseFileFails \/ ParseFile
    BY <2>1, <2>2, <2>3 DEF ParseFileFails, ParseFile
  <2>4. CASE SampleEvent \/ MmapEvent \/ Mmap2Event \/ CommEvent \/ OtherEvent \/ MalformedEvent
             \/ UserRecord
    <3>1. pc = "loop" /\ pos < n /\ pos' = pos + 1 /\ pc' = pc /\ capture' = capture
      BY <2>4 DEF SampleEvent, MmapEvent, Mmap2Event, CommEvent, OtherEvent, MalformedEvent,
                  UserRecord, NextRecord
    <3>2. StepsLeft = (n - pos) + 2 /\ StepsLeft' = (n - (pos + 1)) + 2
      BY <3>1
    <3> HIDE DEF n, StepsLeft
    <3> QED
      BY <2>1, <3>1, <3>2
  <2>5. CASE EndOfRecords \/ TailError
    BY <2>1, <2>5 DEF EndOfRecords, TailError
  <2>6. CASE Finish
    BY <2>6 DEF Finish
  <2>7. CASE Returned
    BY <2>7 DEF Returned
  <2> QED
    BY <1>1, <2>3, <2>4, <2>5, <2>6, <2>7 DEF Next
<1>2. IInv /\ [Next]_vars => [A]_vars
  BY <1>1
<1> QED
  BY IInvHolds, <1>2, PTL DEF Spec
=============================================================================
