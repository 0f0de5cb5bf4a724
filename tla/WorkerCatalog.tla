---------------------------- MODULE WorkerCatalog ----------------------------
(***************************************************************************)
(* How workers come up in one process and what they say of themselves:     *)
(* build_worker of perf-worker (lib.rs, table/*.rs, meta.rs), called once  *)
(* by the native binary and once per serve thread by the browser build     *)
(* (perf-wasm, wasm/build.sh).                                             *)
(*                                                                         *)
(* The threads share the process environment: catalog_name tests a         *)
(* variable, sets it and reads it back in three steps.  The serve threads  *)
(* and the pool they come from are the host's (external); a serve thread   *)
(* never gives its pool worker back.                                       *)
(***************************************************************************)
EXTENDS FiniteSets, Sequences, ArrowSchema

CONSTANTS
  Slots,       \* channel slots the host allocates; one for the native binary
  PoolSize,    \* PTHREAD_POOL_SIZE, which the build takes as it is given
  Names,       \* catalog names that are Unicode
  Overrides,   \* VGI_WORKER_CATALOG_NAME on entry: of Names, Unset or NotUnicode
  Unset, NotUnicode

ASSUME PoolAssumption == PoolSize \in Nat /\ IsFiniteSet(Slots)
ASSUME NamesAssumption ==
  /\ "perf" \in Names /\ NotUnicode \notin Names
  /\ Unset \notin Names \cup Tables \cup {"preset", "memory", NotUnicode}
  /\ Overrides \subseteq Names \cup {Unset, NotUnicode}

VARIABLES
  override,    \* the variable on entry
  env,         \* VGI_WORKER_CATALOG_NAME in the process environment
  storage,     \* VGI_WORKER_SHARED_STORAGE: Unset, "preset" or "memory"
  initialised, \* has wasm_init run?
  thread,      \* slot -> where its serve thread is
  name,        \* slot -> the name its worker was given
  worker       \* slot -> its registered functions and catalog

bootVars == <<override, env, storage, initialised, thread, name, worker>>

-----------------------------------------------------------------------------
(* What a worker says of itself.                                           *)

\* The functions table::register adds, each with its category, the columns of its
\* tag vgi.result_columns_schema and what its executable examples select, by table.
Function(category, names, types, examples) ==
  [category |-> category, columns |-> Columns(names, types), examples |-> examples]

SamplesFunction == Function("Profile Samples",
  <<"time", "pid", "tid", "cpu", "ip", "period", "event", "callchain">>,
  <<"UBIGINT", "INTEGER", "INTEGER", "UINTEGER", "UBIGINT", "UBIGINT", "VARCHAR", "UBIGINT[]">>,
  {<<"samples", {"ip"}>>, <<"samples", {"ip", "callchain"}>>})

MmapsFunction == Function("Address Space",
  <<"pid", "tid", "addr", "len", "pgoff", "filename", "build_id">>,
  <<"INTEGER", "INTEGER", "UBIGINT", "UBIGINT", "UBIGINT", "VARCHAR", "VARCHAR">>,
  {<<"mmaps", {"filename", "build_id"}>>, <<"samples", {"pid", "ip"}>>,
   <<"mmaps", {"pid", "addr", "len", "filename"}>>})

CommsFunction == Function("Capture Context",
  <<"pid", "tid", "comm", "time">>,
  <<"INTEGER", "INTEGER", "VARCHAR", "UBIGINT">>,
  {<<"comms", {"pid", "comm"}>>})

EventsFunction == Function("Capture Context",
  <<"event_id", "name", "type", "config", "sample_period", "sample_freq">>,
  <<"UBIGINT", "VARCHAR", "VARCHAR", "UBIGINT", "UBIGINT", "UBIGINT">>,
  {<<"events", {"name", "type", "sample_period", "sample_freq"}>>})

MetaFunction == Function("Capture Context",
  <<"hostname", "arch", "nrcpus", "perf_version", "cmdline", "total_events">>,
  <<"VARCHAR", "VARCHAR", "UINTEGER", "VARCHAR", "VARCHAR[]", "UBIGINT">>,
  {<<"meta", {"hostname", "arch", "nrcpus", "perf_version", "cmdline", "total_events"}>>})

Registered == [samples |-> SamplesFunction, mmaps |-> MmapsFunction, comms |-> CommsFunction,
               events |-> EventsFunction, meta |-> MetaFunction]

\* Mutant: the view was not told of the column config.
EventsResultStale == <<"event_id", "name", "type", "sample_period", "sample_freq">>

EventsResult == <<"event_id", "name", "type", "config", "sample_period", "sample_freq">>

\* Mutant: the category of the row of mmaps was left as copied from that of samples.
MmapsViewCopied == [category |-> "Profile Samples", result_columns |->
    <<"pid", "tid", "addr", "len", "pgoff", "filename", "build_id">>]

MmapsView == [category |-> "Address Space", result_columns |->
    <<"pid", "tid", "addr", "len", "pgoff", "filename", "build_id">>]

\* functions_view: the VALUES behind the view perf.main.functions.
FunctionsView == [
  samples |-> [category |-> "Profile Samples", result_columns |->
    <<"time", "pid", "tid", "cpu", "ip", "period", "event", "callchain">>],
  mmaps |-> MmapsView,
  comms |-> [category |-> "Capture Context", result_columns |->
    <<"pid", "tid", "comm", "time">>],
  events |-> [category |-> "Capture Context", result_columns |-> EventsResult],
  meta |-> [category |-> "Capture Context", result_columns |->
    <<"hostname", "arch", "nrcpus", "perf_version", "cmdline", "total_events">>]]

\* The vgi.categories registry of the schema.
Categories == {"Profile Samples", "Address Space", "Capture Context", "Reference"}

CatalogMetadata(n) == [name |-> n, functions |-> FunctionsView, categories |-> Categories]

-----------------------------------------------------------------------------
(* Coming up.                                                              *)

BootInit ==
  /\ override \in Overrides
  /\ env = override
  /\ storage \in {Unset, "preset"}
  /\ initialised = FALSE
  /\ thread = [s \in Slots |-> "none"]
  /\ name = [s \in Slots |-> Unset]
  /\ worker = [s \in Slots |-> Unset]

\* wasm_init, on the module's main thread.
WasmInit ==
  /\ ~initialised
  /\ initialised' = TRUE
  /\ storage' = IF storage = Unset THEN "memory" ELSE storage
  /\ UNCHANGED <<override, env, thread, name, worker>>

Spawned == {s \in Slots : thread[s] # "none"}

PoolHasRoom == Cardinality(Spawned) < PoolSize

\* The host starts the serve thread of a slot, once the module is initialised and
\* while the pool has a worker left; with fewer workers than slots some never start.
Spawn(s) ==
  /\ initialised
  /\ thread[s] = "none"
  /\ PoolHasRoom
  /\ thread' = [thread EXCEPT ![s] = "test"]
  /\ UNCHANGED <<override, env, storage, initialised, name, worker>>

\* Mutant: the variable is always set to the default.
TestNameAlwaysSets(s) ==
  /\ thread[s] = "test"
  /\ thread' = [thread EXCEPT ![s] = "set"]
  /\ UNCHANGED <<override, env, storage, initialised, name, worker>>

\* catalog_name: is the variable there at all, Unicode or not?
TestName(s) ==
  /\ thread[s] = "test"
  /\ thread' = [thread EXCEPT ![s] = IF env = Unset THEN "set" ELSE "read"]
  /\ UNCHANGED <<override, env, storage, initialised, name, worker>>

SetName(s) ==
  /\ thread[s] = "set"
  /\ env' = "perf"
  /\ thread' = [thread EXCEPT ![s] = "read"]
  /\ UNCHANGED <<override, storage, initialised, name, worker>>

\* A value that is not Unicode cannot be read and gives the default.
ReadName(s) ==
  /\ thread[s] = "read"
  /\ name' = [name EXCEPT ![s] = IF env \in Names THEN env ELSE "perf"]
  /\ thread' = [thread EXCEPT ![s] = "build"]
  /\ UNCHANGED <<override, env, storage, initialised, worker>>

\* register and set_catalog: only this thread sees its worker.
BuildWorker(s) ==
  /\ thread[s] = "build"
  /\ worker' = [worker EXCEPT ![s] =
                  [registered |-> Registered, catalog |-> CatalogMetadata(name[s])]]
  /\ thread' = [thread EXCEPT ![s] = "serving"]
  /\ UNCHANGED <<override, env, storage, initialised, name>>

Boot(s) == Spawn(s) \/ TestName(s) \/ SetName(s) \/ ReadName(s) \/ BuildWorker(s)

-----------------------------------------------------------------------------
(* Properties.                                                             *)

\* Whatever their interleaving, all workers of a process have one catalog name:
\* the override if it is one that can be read, else `perf'; and what else reads
\* the variable in that process then sees the same name (lib.rs:360-368).  No
\* worker comes up without a storage backend (perf-wasm, lib.rs:14-23).
OneName ==
  \A s \in Slots : name[s] # Unset =>
    /\ name[s] = IF override \in Names THEN override ELSE "perf"
    /\ override # NotUnicode => env = name[s]
    /\ storage # Unset
=============================================================================
