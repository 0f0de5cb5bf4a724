---------------------------- MODULE MCPerfDecode ----------------------------
(***************************************************************************)
(* Instances of PerfDecode for TLC: which captures are decoded.            *)
(***************************************************************************)
EXTENDS PerfDecode

CONSTANTS
  p1, p2, p3,     \* raw paths; p1 and p2 differ only in bytes UTF-8 rejects
  f1, f3,         \* their lossy forms
  b1, b2, b3,     \* build ids
  cycles, faults, \* event names
  hostname, arch, \* metadata sections
  MaxRecords      \* bound on the records of a capture

MCLossy == [p \in {p1, p2, p3} |-> IF p = p3 THEN f3 ELSE f1]

Rec(kind, attr, path, inline) ==
  [kind |-> kind, attr |-> attr, path |-> path, inline |-> inline]

Plain(kinds) == {Rec(k, 0, p1, None) : k \in kinds}

\* Samples of a named attribute, an unnamed one and one outside the table.
SampleRecords == {Rec("sample", a, p1, None) : a \in {0, 1, 7}}

\* Mappings of the colliding paths and of the third, with and without build id.
MapRecords ==
  {Rec("mmap", 0, p, None) : p \in {p1, p2}}
    \cup {Rec("mmap2", 0, p, i) : p \in {p1, p3}, i \in {b2, None}}

AllRecords ==
  SampleRecords \cup MapRecords \cup Plain({"comm", "other", "malformed", "user"})

SeqsUpTo(S, n) == UNION {[1..k -> S] : k \in 0..n}

NamedAttr   == [ids |-> <<0>>, name |-> cycles]
UnnamedAttr == [ids |-> <<>>, name |-> None]
FaultsAttr  == [ids |-> <<41, 42>>, name |-> faults]

SectionsAre(state) == [s \in Section \cup {"build_id"} |-> state]

Entry(p, b) == [path |-> p, id |-> b]

\* Every record sequence, under header build ids that leave the lookup of f1
\* without an answer, with one, and with two.
RecordCaptures ==
  [readable  : {TRUE},
   attrs     : {<<NamedAttr, UnnamedAttr>>},
   sections  : {SectionsAre("present")},
   buildIds  : {{}, {Entry(p2, b1)}, {Entry(p1, b1), Entry(p2, b3)}},
   records   : SeqsUpTo(AllRecords, MaxRecords),
   truncated : BOOLEAN]

\* Every header, over a few records.
HeaderCaptures ==
  [readable  : {TRUE},
   attrs     : SeqsUpTo({NamedAttr, UnnamedAttr, FaultsAttr}, 2),
   sections  : [Section \cup {"build_id"} -> SectionState],
   buildIds  : {{Entry(p1, b1)}},
   records   : {<<>>, <<Rec("sample", 1, p1, None), Rec("mmap", 0, p1, None)>>},
   truncated : {FALSE}]

NotPerfData ==
  [readable  : {FALSE},
   attrs     : {<<>>},
   sections  : {SectionsAre("absent")},
   buildIds  : {{}},
   records   : {<<>>},
   truncated : {FALSE}]

MCCaptures == RecordCaptures \cup HeaderCaptures \cup NotPerfData
=============================================================================
