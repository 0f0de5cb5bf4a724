----------------------------- MODULE ArrowBuild ------------------------------
(***************************************************************************)
(* From decoded rows to the cells a query reads: arrow_build.rs of         *)
(* perf-worker, driven by the batch loop of table/scan.rs.                 *)
(*                                                                         *)
(* Every table is described twice in the code: once by its schema and once *)
(* by the vector of column builders, matched BY POSITION.  A batch fills   *)
(* one builder per column from the rows [cursor, cursor + len), project()  *)
(* selects the columns of the output schema, and Arrow checks types and    *)
(* lengths, never names.  A consumer reads the batch by column name.       *)
(*                                                                         *)
(* Arrow's arrays are external: a list array is its concatenated values,   *)
(* the end offset of each slot and a validity bit per slot.                *)
(***************************************************************************)
EXTENDS Integers, Sequences, ArrowSchema

CONSTANTS
  None,        \* Option::None, SQL's NULL
  Items,       \* the elements of list values
  RowLists,    \* table -> the decoded row lists considered
  OutSchemas,  \* table -> the output schemas the framework may ask for
  BatchRows    \* BATCH_ROWS

ASSUME BatchRowsAssumption == BatchRows \in Nat \ {0}

\* The decoded rows are a Vec, meta's a single row, and a list field holds a
\* Vec or nothing (rows.rs).
ASSUME RowListsAssumption ==
  \A t \in Tables : \A rs \in RowLists[t] :
    /\ Len(rs) \in Nat
    /\ t = "meta" => Len(rs) = 1
    /\ \A k \in 1..Len(rs), c \in DOMAIN Schema[t] :
          Schema[t][c].type \in ListTypes =>
            LET v == rs[k][Schema[t][c].name] IN v = None \/ v \in Seq(Items)

\* The framework asks for columns of the table, in any number and order.
ASSUME OutSchemasAssumption ==
  \A t \in Tables : \A s \in OutSchemas[t] :
    /\ Len(s) \in Nat /\ DOMAIN s = 1..Len(s)
    /\ \A c \in DOMAIN s : \E d \in DOMAIN Schema[t] : s[c] = Schema[t][d]

VARIABLES
  table, rows, schema,   \* the producer: its table, decoded rows and output schema
  cursor,                \* its cursor
  phase,                 \* "scan", "fill", then "done" or "failed"
  filled, cols,          \* rows appended to the builders of this batch, and the builders
  delivered              \* rows the consumer has read

vars == <<table, rows, schema, cursor, phase, filled, cols, delivered>>

RowCount == IF table = "meta" THEN 1 ELSE Len(rows)

-----------------------------------------------------------------------------
(* Arrays.                                                                 *)

EmptyArray(type) ==
  IF type \in ListTypes
    THEN [values |-> <<>>, ends |-> <<>>, valid |-> <<>>]
    ELSE <<>>

\* Mutant: a NULL list takes no slot.
AppendedNoNullSlot(array, type, v) ==
  IF type \notin ListTypes THEN Append(array, v)
  ELSE IF v = None THEN array
  ELSE [values |-> array.values \o v,
        ends   |-> Append(array.ends, Len(array.values) + Len(v)),
        valid  |-> Append(array.valid, TRUE)]

\* Mutant: NULL and the empty list are stored alike.
AppendedEmptyForNull(array, type, v) ==
  IF type \notin ListTypes THEN Append(array, v)
  ELSE LET items == IF v = None THEN <<>> ELSE v
       IN  [values |-> array.values \o items,
            ends   |-> Append(array.ends, Len(array.values) + Len(items)),
            valid  |-> Append(array.valid, TRUE)]

\* append_option / append_value, or the values and then append(valid).
Appended(array, type, v) ==
  IF type \notin ListTypes THEN Append(array, v)
  ELSE LET items == IF v = None THEN <<>> ELSE v
       IN  [values |-> array.values \o items,
            ends   |-> Append(array.ends, Len(array.values) + Len(items)),
            valid  |-> Append(array.valid, v # None)]

Slots(array, type) == IF type \in ListTypes THEN Len(array.ends) ELSE Len(array)

\* Slot k of an array as its reader sees it.
Cell(array, type, k) ==
  IF type \notin ListTypes THEN array[k]
  ELSE IF array.valid[k]
    THEN SubSeq(array.values, IF k = 1 THEN 1 ELSE array.ends[k - 1] + 1, array.ends[k])
    ELSE None

-----------------------------------------------------------------------------
(* Projection.                                                             *)

\* Mutant: a narrowed schema takes the first columns.
ProjectPrefix(out, full, arrays) == SubSeq(arrays, 1, Len(out))

\* A schema as long as the full one takes the columns as they were built.  In any
\* other, index_of finds each column, since it is one of the table.
Project(out, full, arrays) ==
  IF Len(out) = Len(full) THEN arrays
  ELSE [i \in DOMAIN out |-> arrays[IndexOf(full, out[i].name)]]

\* The types of the projected arrays.
ProjectedTypes == Project(schema, Schema[table], [i \in DOMAIN cols |-> Built[table][i].type])

\* RecordBatch::try_new: at least one field to count the rows by, as many arrays
\* as fields, each of its field's type, all of one length.
TryNew(arrays, types) ==
  /\ schema # <<>>
  /\ Len(arrays) = Len(schema)
  /\ \A i \in DOMAIN schema : types[i] = schema[i].type
  /\ \A i, j \in DOMAIN schema :
        Slots(arrays[i], types[i]) = Slots(arrays[j], types[j])

-----------------------------------------------------------------------------
Init ==
  /\ table \in Tables
  /\ rows \in RowLists[table]
  /\ schema \in OutSchemas[table]
  /\ cursor = 0
  /\ phase = "scan"
  /\ filled = 0
  /\ cols = <<>>
  /\ delivered = <<>>

BatchLen == IF RowCount - cursor < BatchRows THEN RowCount - cursor ELSE BatchRows

\* next_batch: another batch is due.
BeginBatch ==
  /\ phase = "scan"
  /\ cursor < RowCount
  /\ phase' = "fill"
  /\ filled' = 0
  /\ cols' = [i \in DOMAIN Built[table] |-> EmptyArray(Built[table][i].type)]
  /\ UNCHANGED <<table, rows, schema, cursor, delivered>>

\* One iteration of `for r in rows'.
AppendRow ==
  /\ phase = "fill"
  /\ filled < BatchLen
  /\ LET r == rows[cursor + filled + 1]
     IN  cols' = [i \in DOMAIN cols |->
                    Appended(cols[i], Built[table][i].type, r[Built[table][i].name])]
  /\ filled' = filled + 1
  /\ UNCHANGED <<table, rows, schema, cursor, phase, delivered>>

\* The batch the builders and the projection make.
Arrays == Project(schema, Schema[table], cols)

\* The consumer reads slot k of every column under its name in the schema.
ReadRow(k) ==
  [name \in {schema[i].name : i \in DOMAIN schema} |->
     LET i == IndexOf(schema, name)
     IN  Cell(Arrays[i], ProjectedTypes[i], k)]

EmitBatch ==
  /\ phase = "fill"
  /\ filled = BatchLen
  /\ TryNew(Arrays, ProjectedTypes)
  /\ delivered' = delivered \o [k \in 1..BatchLen |-> ReadRow(k)]
  /\ cursor' = cursor + BatchLen
  /\ phase' = "scan"
  /\ filled' = 0
  /\ cols' = <<>>
  /\ UNCHANGED <<table, rows, schema>>

\* try_new rejects the columns; the error ends the scan.
RejectBatch ==
  /\ phase = "fill"
  /\ filled = BatchLen
  /\ ~TryNew(Arrays, ProjectedTypes)
  /\ phase' = "failed"
  /\ UNCHANGED <<table, rows, schema, cursor, filled, cols, delivered>>

\* Mutant: a last batch that would be short is never built.
ScanEndsEarly ==
  /\ phase = "scan"
  /\ cursor + BatchRows > RowCount
  /\ phase' = "done"
  /\ UNCHANGED <<table, rows, schema, cursor, filled, cols, delivered>>

ScanEnds ==
  /\ phase = "scan"
  /\ cursor >= RowCount
  /\ phase' = "done"
  /\ UNCHANGED <<table, rows, schema, cursor, filled, cols, delivered>>

Returned == phase \in {"done", "failed"} /\ UNCHANGED vars

Next ==
  \/ BeginBatch
  \/ AppendRow
  \/ EmitBatch
  \/ RejectBatch
  \/ ScanEnds
  \/ Returned

Spec == Init /\ [][Next]_vars

\* The SDK calls next_batch until it returns None or fails.
FairSpec == Spec /\ WF_vars(Next)

-----------------------------------------------------------------------------
(* Properties.                                                             *)

\* The builders exist while a batch is filled and have one slot per row
\* appended so far, list columns included.
TypeOK ==
  /\ table \in Tables
  /\ phase \in {"scan", "fill", "done", "failed"}
  /\ cursor \in 0..RowCount /\ filled \in 0..BatchRows
  /\ phase = "fill" =>
       /\ DOMAIN cols = DOMAIN Built[table]
       /\ \A i \in DOMAIN cols : Slots(cols[i], Built[table][i].type) = filled

\* The output schema is as long as the full one and orders it differently.
Permuted == Len(schema) = Len(Schema[table]) /\ schema # Schema[table]

\* The column of the table whose values position i of a batch carries.
Carried(i) == IF Permuted THEN Schema[table][i] ELSE schema[i]

\* A schema no batch fits: no column at all, or a type that is not the one of the
\* column carried there.
Misfit == schema = <<>> \/ \E i \in DOMAIN schema : Carried(i).type # schema[i].type

\* Wherever the batch boundaries fall, the k-th row read has, under each column
\* name, that field of the k-th decoded row: a NULL list does not shift the lists
\* after it and is not an empty list, and a narrowing in any order takes each
\* column from its place.  Only in a full schema in another order do the columns
\* stay where they were built (arrow_build.rs:113-302).
CellsMatchRows ==
  /\ Len(delivered) = cursor
  /\ \A k \in DOMAIN delivered : \A name \in DOMAIN delivered[k] :
        delivered[k][name] = rows[k][Carried(IndexOf(schema, name)).name]

\* arrow_build.rs:140-142: project() is to reorder the columns to match the output
\* schema, so that each cell stands under its name.
CellsUnderTheirNames ==
  \A k \in DOMAIN delivered : \A name \in DOMAIN delivered[k] :
     delivered[k][name] = rows[k][name]

\* A schema that does not fit is rejected before the first row is delivered, and
\* no other half-way: the two descriptions of every table and its projection agree
\* for every mixture of NULLs and every narrowing (arrow_build.rs:127-130).
RejectsMisfits ==
  /\ phase = "failed" => Misfit
  /\ Misfit => delivered = <<>>

\* A scan that is not rejected delivers every decoded row.
DeliversAll == <>(phase = "failed" \/ (phase = "done" /\ Len(delivered) = RowCount))
=============================================================================
