---------------------------- MODULE AgentSession -----------------------------
(***************************************************************************)
(* An agent with one of the published tasks (agent_tasks_json in lib.rs):  *)
(* it attaches a worker, browses perf.main.functions, picks a function by  *)
(* what it finds there, reads the function's tags, binds it and runs it    *)
(* over the capture given as a BLOB.  The agent is external; its grader is *)
(* vgi-agent-tests.yaml.                                                   *)
(*                                                                         *)
(* What it may trust is spread over hand-kept copies: the view, the tag,   *)
(* the schema and the bytes of the capture.                                *)
(***************************************************************************)
EXTENDS WorkerCatalog, CaptureFile

CONSTANTS
  NoAnswer,
  None         \* Option::None, a NULL

VARIABLES
  task,        \* what it was asked
  step,        \* what it does next
  slot,        \* the slot of the worker it is attached to
  chosen,      \* the function it picked
  bound,       \* the schema the bind returned
  answer

agentVars == <<task, step, slot, chosen, bound, answer>>
vars == <<bootVars, fileVars, agentVars>>

\* The columns a task names, and the category of what it counts.
Wanted == [
  sample_count           |-> [columns |-> {}, about |-> {"Profile Samples"}],
  event_policy           |-> [columns |-> {"type", "sample_period"}, about |-> Categories],
  event_record_total     |-> [columns |-> {"total_events"}, about |-> Categories],
  mapped_files_build_ids |-> [columns |-> {"filename", "build_id"}, about |-> Categories],
  process_name           |-> [columns |-> {"comm"}, about |-> Categories]]

\* The task that reads no capture.
Browse == "browse_decode_functions"

Tasks == DOMAIN Wanted \cup {Browse}

Init ==
  /\ BootInit
  /\ FileInit
  /\ task \in Tasks
  /\ step = "attach"
  /\ slot \in Slots
  /\ chosen = Unset
  /\ bound = Unset
  /\ answer = NoAnswer

-----------------------------------------------------------------------------
Catalog == worker[slot].catalog
Tags == worker[slot].registered[chosen]

Attach ==
  /\ step = "attach"
  /\ thread[slot] = "serving"
  /\ step' = "browse"
  /\ UNCHANGED <<bootVars, fileVars, task, slot, chosen, bound, answer>>

\* SELECT object_name, result_columns FROM perf.main.functions.
AnswerFromCatalog ==
  /\ step = "browse"
  /\ task = Browse
  /\ answer' = {<<f, Catalog.functions[f].result_columns>> : f \in DOMAIN Catalog.functions}
  /\ step' = "answered"
  /\ UNCHANGED <<bootVars, fileVars, task, slot, chosen, bound>>

\* The functions whose row of the view fits the task.
Fitting == {f \in DOMAIN Catalog.functions :
  /\ Wanted[task].columns \subseteq ToSet(Catalog.functions[f].result_columns)
  /\ Catalog.functions[f].category \in Wanted[task].about}

Choose ==
  /\ step = "browse"
  /\ task # Browse
  /\ chosen' \in Fitting
  /\ step' = "bind"
  /\ UNCHANGED <<bootVars, fileVars, task, slot, bound, answer>>

\* on_bind: a BLOB passes, the schema is the table's.
Bind ==
  /\ step = "bind"
  /\ bound' = Schema[chosen]
  /\ step' = "run"
  /\ UNCHANGED <<bootVars, fileVars, task, slot, chosen, answer>>

\* The function reads the capture.
Run ==
  /\ step = "run"
  /\ ReaderStep
  /\ UNCHANGED <<bootVars, agentVars>>

-----------------------------------------------------------------------------
(* What the function returns, and the query over it.                       *)

\* type_name: anything else is a dynamic PMU's.
KindOf(type) ==
  CASE type = 0 -> "hardware"
    [] type = 1 -> "software"
    [] type = 2 -> "tracepoint"
    [] type = 3 -> "hw_cache"
    [] type = 5 -> "breakpoint"
    [] OTHER    -> "dynamic_pmu"

\* SamplingPolicy: the value is a frequency where the flag `freq' is set.
IsFrequency == (AttrAt(40, 8) \div 1024) % 2 = 1

SamplePeriod == IF AttrAt(16, 8) = 0 \/ IsFrequency THEN None ELSE AttrAt(16, 8)

OfType(type) == {i \in DOMAIN read : read[i].type = type}

\* The record types of the kernel; the others are user records.
EventRecords == {i \in DOMAIN read : read[i].type \in 0..63}

MmapRow(m) ==
  [pid |-> m.pid, addr |-> m.addr, len |-> m.len, filename |-> m.path,
   build_id |-> m.build_id]

\* decode(): the rows of each table by their column names, those that no task
\* names left out.
Decoded == [
  samples |-> [i \in OfType(SAMPLE) |-> read[i].row],
  mmaps   |-> [i \in OfType(MMAP2) |-> MmapRow(read[i].row)],
  comms   |-> [i \in OfType(COMM) |-> read[i].row],
  events  |-> <<[type |-> KindOf(AttrAt(0, 4)), sample_period |-> SamplePeriod]>>,
  meta    |-> <<[total_events |-> Cardinality(EventRecords)]>>]

BoundColumns == {bound[i].name : i \in DOMAIN bound}

\* What a batch of the chosen function holds under a column of the bound schema:
\* what its builder at that position took from the row.
CellOf(row, column) == row[Built[chosen][IndexOf(bound, column)].name]

\* The task's query over the chosen function: a count, or the columns it names.
Selected ==
  LET rows == Decoded[chosen]
      wanted == Wanted[task].columns
  IN  IF ~(wanted \subseteq BoundColumns) THEN NoAnswer
      ELSE IF task = "sample_count" THEN Cardinality(DOMAIN rows)
      ELSE {[c \in wanted |-> CellOf(rows[k], c)] : k \in DOMAIN rows}

Answer ==
  /\ step = "run"
  /\ reading = "end"
  /\ answer' = Selected
  /\ step' = "answered"
  /\ UNCHANGED <<bootVars, fileVars, task, slot, chosen, bound>>

AgentStep == Attach \/ AnswerFromCatalog \/ Choose \/ Bind \/ Run \/ Answer

BootStep(s) == Boot(s) /\ UNCHANGED <<fileVars, agentVars>>
InitStep == WasmInit /\ UNCHANGED <<fileVars, agentVars>>

Next ==
  \/ InitStep
  \/ \E s \in Slots : BootStep(s)
  \/ AgentStep

Spec == Init /\ [][Next]_vars

-----------------------------------------------------------------------------
(* Properties.                                                             *)

\* What every part of the session may hold.
TypeOK ==
  /\ env \in Names \cup {Unset, NotUnicode}
  /\ \A s \in Slots : thread[s] \in {"none", "test", "set", "read", "build", "serving"}
  /\ reading # "idle" => pos \in 0..DataEnd
  /\ step \in {"attach", "browse", "bind", "run", "answered"}
  /\ (chosen = Unset) = (step \in {"attach", "browse"} \/ task = Browse)

\* The types DuckDB reports for Arrow's.
SqlType(type) ==
  CASE type = "UInt64"       -> "UBIGINT"
    [] type = "UInt32"       -> "UINTEGER"
    [] type = "Int32"        -> "INTEGER"
    [] type = "Utf8"         -> "VARCHAR"
    [] type = "List<UInt64>" -> "UBIGINT[]"
    [] OTHER                 -> "VARCHAR[]"

\* What a bind returns is what the view and the tag of the function had said:
\* the same columns in the same order, the types of the tag, the category of the
\* view, one of the registered ones; and the function's examples select columns that
\* are there (table/*.rs, lib.rs:128-135, meta.rs:90-130, arrow_build.rs:53-96).
AdvertisedIsBound ==
  bound # Unset =>
    /\ [i \in DOMAIN bound |-> bound[i].name] = Catalog.functions[chosen].result_columns
    /\ [i \in DOMAIN bound |-> [name |-> bound[i].name, type |-> SqlType(bound[i].type)]]
         = Tags.columns
    /\ Tags.category = Catalog.functions[chosen].category
    /\ Tags.category \in Catalog.categories
    /\ \A example \in Tags.examples :
         example[2] \subseteq {Schema[example[1]][i].name : i \in DOMAIN Schema[example[1]]}

\* What a grader's reference query finds in the capture that was written.
Reference ==
  CASE task = "sample_count"           -> Len(content.samples)
    [] task = "event_policy"           -> {[type |-> "hardware", sample_period |-> 4000]}
    [] task = "event_record_total"     ->
         {[total_events |-> 1 + Len(content.mmaps) + Len(content.samples)]}
    [] task = "mapped_files_build_ids" ->
         {[filename |-> m.path, build_id |-> m.build_id] : m \in ToSet(content.mmaps)}
    [] task = "process_name"           -> {[comm |-> content.comm.comm]}
    [] OTHER -> {<<t, [i \in DOMAIN Schema[t] |-> Schema[t][i].name]>> : t \in Tables}

\* An agent that picks by the catalog finds a function for every task that reads a
\* capture; and whichever of those that fit it picks, what it reads off that
\* function's rows, under the columns it was bound to, is the answer its grader
\* expects.  The view, the schema, the column builders, the decoder and the bytes
\* must all mean the same (lib.rs:52-92, 128-135, arrow_build.rs:53-136).
TasksAnswered ==
  /\ step = "browse" /\ task # Browse => Fitting # {}
  /\ step = "answered" => answer = Reference
=============================================================================
