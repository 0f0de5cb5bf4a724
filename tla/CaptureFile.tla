----------------------------- MODULE CaptureFile -----------------------------
(***************************************************************************)
(* The synthetic capture of perf-core's fixture.rs, and a reader that      *)
(* walks it.                                                               *)
(*                                                                         *)
(* The file is framed by hand: every record's size, the order and width of *)
(* a sample's fields, the offsets of the sections.  A reader knows only    *)
(* the header, the sample_type of the attribute and the size of each       *)
(* record, so one slip moves everything after it.  The bytes are committed *)
(* (data/callchain.data) and embedded in the catalog (meta.rs).            *)
(*                                                                         *)
(* A file is the sequence of its fields, each with its width in bytes.     *)
(* Numbers, flags and texts keep their width and stand for themselves; a   *)
(* text is the sequence of its bytes.                                      *)
(***************************************************************************)
EXTENDS Integers, FiniteSets, SequencesExt

CONSTANTS
  Contents,   \* what is written: a comm, mappings, samples in order of time
  Garbage     \* what a read that does not meet a field returns

VARIABLES
  content,    \* the capture this file was made of
  reading,    \* the reader: "idle", "records", "end"
  pos,        \* the offset it is at
  read        \* the records read so far

fileVars == <<content, reading, pos, read>>

-----------------------------------------------------------------------------
(* The writer.                                                             *)

F(width, value) == [width |-> width, value |-> value]
Text(t) == <<F(Len(t), t), F(1, 0)>>
Zeros(n) == [i \in 1..n |-> F(1, 0)]

\* Where field i + 1 of a sequence of fields begins.
Offsets(fields) ==
  LET start[i \in 0..Len(fields)] == IF i = 0 THEN 0 ELSE start[i - 1] + fields[i].width
  IN  start

Size(fields) == Offsets(fields)[Len(fields)]

COMM == 3
SAMPLE == 9
MMAP2 == 10
USER == 2
MMAP_BUILD_ID == 16384

HeaderSize == 104
AttrSize == 64
SampleType == {"IP", "TID", "TIME", "CALLCHAIN", "CPU", "PERIOD"}

\* To the next multiple of 8.
Pad(body) == (8 - ((8 + Size(body)) % 8)) % 8

Framed(type, misc, size, body, pad) ==
  <<F(4, type), F(2, misc), F(2, size)>> \o body \o Zeros(pad)

\* Mutant: the size does not count the padding.
RecordSizeUnpadded(type, misc, body) ==
  Framed(type, misc, 8 + Size(body), body, Pad(body))

\* Mutant: no padding.
RecordUnpadded(type, misc, body) ==
  Framed(type, misc, 8 + Size(body), body, 0)

\* Mutant: the header is counted twice.
RecordHeaderTwice(type, misc, body) ==
  Framed(type, misc, 16 + Size(body) + Pad(body), body, Pad(body))

\* record(): a perf_event_header with the padded size as a u16, the body, the padding.
Record(type, misc, body) ==
  Framed(type, misc, (8 + Size(body) + Pad(body)) % 65536, body, Pad(body))

CommBody(c) == <<F(4, c.pid), F(4, c.tid)>> \o Text(c.comm)

CommRecord(c) == Record(COMM, USER, CommBody(c))

\* The build-id variant: its length, alignment, 20 bytes.
Mmap2Body(m) ==
  <<F(4, m.pid), F(4, m.pid), F(8, m.addr), F(8, m.len), F(8, 0),
    F(1, 20), F(1, 0), F(2, 0), F(20, m.build_id), F(4, 0), F(4, 0)>> \o Text(m.path)

Mmap2Record(m) == Record(MMAP2, USER + MMAP_BUILD_ID, Mmap2Body(m))

\* The fields that SampleType announces, in the order of the kernel ABI.
SampleBody(s) ==
  <<F(8, s.ip), F(4, 1234), F(4, 1234), F(8, s.time), F(4, s.cpu), F(4, 0),
    F(8, s.period), F(8, Len(s.callchain))>>
  \o [i \in DOMAIN s.callchain |-> F(8, s.callchain[i])]

SampleRecord(s) == Record(SAMPLE, USER, SampleBody(s))

Attr ==
  <<F(4, 0), F(4, AttrSize), F(8, 0), F(8, 4000), F(8, SampleType),
    F(8, 0), F(8, 0), F(4, 0), F(4, 0), F(8, 0)>>

\* The sections: attributes, data; no event types, an empty feature bitmap.
Header(dataSize) ==
  <<F(8, "PERFILE2"), F(8, HeaderSize), F(8, AttrSize),
    F(8, HeaderSize), F(8, AttrSize), F(8, HeaderSize + AttrSize), F(8, dataSize)>>
  \o [i \in 1..6 |-> F(8, 0)]

\* The records in the order they are pushed.
Records(c) ==
  <<CommRecord(c.comm)>>
  \o [i \in DOMAIN c.mmaps |-> Mmap2Record(c.mmaps[i])]
  \o [i \in DOMAIN c.samples |-> SampleRecord(c.samples[i])]

SyntheticCallchain(c) ==
  LET data == FlattenSeq(Records(c))
  IN  Header(Size(data)) \o Attr \o data

\* The fields of a file by their offsets.
Placed(fields) ==
  LET start == Offsets(fields)
  IN  [o \in {start[i - 1] : i \in DOMAIN fields} |->
         fields[CHOOSE i \in DOMAIN fields : start[i - 1] = o]]

Files == [c \in Contents |-> Placed(SyntheticCallchain(c))]

IsSeq(s) == s \in Seq(ToSet(s))

\* The size of a record is a u16.
Fits(body) == 8 + Size(body) + Pad(body) < 65536

\* What is written has the fields of SYNTHETIC_COMM, SyntheticMmap and
\* SyntheticSample, no empty text, and no record past the width of its size.
IsCapture(c) ==
  /\ c.comm = [pid |-> c.comm.pid, tid |-> c.comm.tid, comm |-> c.comm.comm]
  /\ IsSeq(c.comm.comm) /\ c.comm.comm # <<>> /\ Fits(CommBody(c.comm))
  /\ IsSeq(c.mmaps)
  /\ \A m \in ToSet(c.mmaps) :
       /\ m = [pid |-> m.pid, addr |-> m.addr, len |-> m.len, path |-> m.path,
               build_id |-> m.build_id]
       /\ IsSeq(m.path) /\ m.path # <<>> /\ Fits(Mmap2Body(m))
  /\ IsSeq(c.samples)
  /\ \A s \in ToSet(c.samples) : IsSeq(s.callchain) /\ Fits(SampleBody(s))

ASSUME ContentsAssumption == Garbage \notin Nat /\ \A c \in Contents : IsCapture(c)

-----------------------------------------------------------------------------
(* The reader (linux-perf-data, external).                                 *)

\* The width bytes at offset o.
Get(o, width) ==
  IF o \in DOMAIN Files[content] /\ Files[content][o].width = width
    THEN Files[content][o].value
    ELSE Garbage

\* The text at offset o, up to its NUL.
GetText(o) ==
  IF /\ o \in DOMAIN Files[content]
     /\ LET nul == o + Files[content][o].width
        IN  nul \in DOMAIN Files[content] /\ Files[content][nul].width = 1
    THEN Files[content][o].value
    ELSE Garbage

DataOffset == Get(40, 8)
DataEnd == DataOffset + Get(48, 8)
AttrAt(offset, width) == Get(Get(24, 8) + offset, width)

\* The order in which the kernel writes the fields of a sample that are
\* announced, each of 8 bytes up to the call chain.
AbiOrder == <<"IP", "TID", "TIME", "ADDR", "ID", "STREAM_ID", "CPU", "PERIOD", "CALLCHAIN">>

SampleField(o, flag) ==
  LET place == CHOOSE i \in DOMAIN AbiOrder : AbiOrder[i] = flag
      before == {AbiOrder[i] : i \in 1..(place - 1)} \cap AttrAt(24, 8)
  IN  o + 8 + 8 * Cardinality(before)

ReadSample(o) ==
  LET chain == SampleField(o, "CALLCHAIN")
      frames == Get(chain, 8)
  IN  [ip |-> Get(SampleField(o, "IP"), 8), pid |-> Get(SampleField(o, "TID"), 4),
       time |-> Get(SampleField(o, "TIME"), 8), cpu |-> Get(SampleField(o, "CPU"), 4),
       period |-> Get(SampleField(o, "PERIOD"), 8),
       callchain |-> IF frames = Garbage THEN Garbage
                     ELSE [i \in 1..frames |-> Get(chain + 8 * i, 8)]]

ReadMmap2(o) ==
  [pid |-> Get(o + 8, 4), addr |-> Get(o + 16, 8), len |-> Get(o + 24, 8),
   path |-> GetText(o + 72),
   build_id |-> IF (Get(o + 4, 2) \div MMAP_BUILD_ID) % 2 = 1 /\ Get(o + 40, 1) = 20
                  THEN Get(o + 44, 20) ELSE Garbage]

ReadComm(o) ==
  [pid |-> Get(o + 8, 4), tid |-> Get(o + 12, 4), comm |-> GetText(o + 16)]

ReadRecord(o) ==
  [type |-> Get(o, 4),
   row |-> CASE Get(o, 4) = COMM   -> ReadComm(o)
             [] Get(o, 4) = MMAP2  -> ReadMmap2(o)
             [] Get(o, 4) = SAMPLE -> ReadSample(o)
             [] OTHER -> Garbage]

FileInit ==
  /\ content \in Contents
  /\ reading = "idle"
  /\ pos = 0
  /\ read = <<>>

OpenFile ==
  /\ reading = "idle"
  /\ reading' = "records"
  /\ pos' = DataOffset
  /\ UNCHANGED <<content, read>>

\* One record, and on by its size; where the last size leads to no header, the
\* reader gives up.
NextRecordRead ==
  /\ reading = "records"
  /\ pos < DataEnd
  /\ read' = Append(read, ReadRecord(pos))
  /\ pos' = IF Get(pos + 6, 2) = Garbage THEN DataEnd ELSE pos + Get(pos + 6, 2)
  /\ UNCHANGED <<content, reading>>

DataRead ==
  /\ reading = "records"
  /\ pos >= DataEnd
  /\ reading' = "end"
  /\ UNCHANGED <<content, pos, read>>

ReaderStep == OpenFile \/ NextRecordRead \/ DataRead

-----------------------------------------------------------------------------
(* Properties.                                                             *)

Tagged(type, rows) == [i \in DOMAIN rows |-> [type |-> type, row |-> rows[i]]]

\* The records of a capture in the order they are written, as declared.
Written(c) ==
  Tagged(COMM, <<c.comm>>)
  \o Tagged(MMAP2, c.mmaps)
  \o Tagged(SAMPLE,
       [i \in DOMAIN c.samples |->
          [ip |-> c.samples[i].ip, pid |-> 1234, time |-> c.samples[i].time,
           cpu |-> c.samples[i].cpu, period |-> c.samples[i].period,
           callchain |-> c.samples[i].callchain]])

\* A reader that knows nothing of the contents finds every record where the
\* one before it says, with the fields that were declared, and stops exactly
\* at the end of the section (fixture.rs:137-260).
ReadsWhatWasWritten ==
  /\ IsPrefix(read, Written(content))
  /\ reading = "end" => Len(read) = Len(Written(content)) /\ pos = DataEnd

\* Every record starts at a multiple of 8, whatever the lengths of the texts
\* before it (fixture.rs:137-148).
RecordsAligned == reading # "idle" => pos % 8 = 0
=============================================================================
