---------------------------- MODULE DecodeReport ----------------------------
(***************************************************************************)
(* When is a Decoded value a correct report of the first n records of a    *)
(* capture?  One predicate per row collection, stated with sets of record  *)
(* ordinals and the stream order only: no loop, no running index, no name  *)
(* table, no metadata snapshot.  DecodeContract uses them at n = the whole *)
(* capture, the invariants of PerfDecode at n = the records read so far.   *)
(***************************************************************************)
EXTENDS PerfData

-----------------------------------------------------------------------------
\* The ordinals of the records of the given kinds among the first n.
Ordinals(c, n, kinds) == {k \in 1..n : c.records[k].kind \in kinds}

\* `rows' has one row for each record ordinal in S, in stream order.
Lists(rows, S) ==
  /\ \A i, j \in DOMAIN rows : i < j => rows[i].rec < rows[j].rec
  /\ {rows[i].rec : i \in DOMAIN rows} = S

\* Every sample record, labelled with the name its attribute has in the
\* events table, or with NULL when its attribute index is not in that table.
ReportsSamples(c, n, out) ==
  /\ Lists(out.samples, Ordinals(c, n, {"sample"}))
  /\ \A i \in DOMAIN out.samples :
        LET a == c.records[out.samples[i].rec].attr + 1
        IN  out.samples[i].event =
              IF a \in DOMAIN out.events THEN out.events[a].name ELSE None

\* The build ids a mapping may be reported with: its own if it carries one,
\* otherwise one that HEADER_BUILD_ID gives for its name, otherwise NULL.
BuildIdChoices(c, r) ==
  LET known == {e.id : e \in {x \in HeaderEntries(c) :
                                 Lossy[x.path] = Lossy[r.path]}}
  IN  IF r.kind = "mmap2" /\ r.inline # None THEN {r.inline}
      ELSE IF known = {} THEN {None} ELSE known

\* Every MMAP and MMAP2 record, under its own name, with an admissible build
\* id; two mappings that take theirs from the header under one name agree.
ReportsMmaps(c, n, out) ==
  LET rows == out.mmaps
      rec(i) == c.records[rows[i].rec]
      looksUp(i) == rec(i).kind = "mmap" \/ rec(i).inline = None
  IN  /\ Lists(rows, Ordinals(c, n, {"mmap", "mmap2"}))
      /\ \A i \in DOMAIN rows :
            /\ rows[i].filename = Lossy[rec(i).path]
            /\ rows[i].build_id \in BuildIdChoices(c, rec(i))
      /\ \A i, j \in DOMAIN rows :
            looksUp(i) /\ looksUp(j) /\ rows[i].filename = rows[j].filename
               => rows[i].build_id = rows[j].build_id

ReportsComms(c, n, out) == Lists(out.comms, Ordinals(c, n, {"comm"}))

\* One error per malformed record, at its 0-based position, in stream order,
\* and one more just past the last record when the tail was unreadable.
ReportsErrors(c, n, tail, out) ==
  /\ \A i, j \in DOMAIN out.errors :
        i < j => out.errors[i].record_index < out.errors[j].record_index
  /\ {out.errors[i].record_index : i \in DOMAIN out.errors} =
        {k - 1 : k \in Ordinals(c, n, {"malformed"})}
           \cup (IF tail THEN {n} ELSE {})

CountsEvents(c, n, out) ==
  out.meta.total_events = Cardinality(Ordinals(c, n, EventKinds))

\* The header's contribution: one events row per attribute, and exactly the
\* metadata sections that could be read.
ReportsHeader(c, out) ==
  /\ DOMAIN out.events = DOMAIN c.attrs
  /\ \A a \in DOMAIN c.attrs : out.events[a].name = c.attrs[a].name
  /\ out.meta.sections = {s \in Section : c.sections[s] = "present"}

\* `out' is a correct decoding of the whole capture c.
IsDecodingOf(c, out) ==
  LET n == Len(c.records)
  IN  /\ ReportsHeader(c, out)
      /\ ReportsSamples(c, n, out)
      /\ ReportsMmaps(c, n, out)
      /\ ReportsComms(c, n, out)
      /\ ReportsErrors(c, n, c.truncated, out)
      /\ CountsEvents(c, n, out)
=============================================================================
