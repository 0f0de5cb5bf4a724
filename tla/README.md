# vgi-perf in TLA+

`vgi-perf` exposes Linux `perf.data` captures as five SQL tables
(`perf.samples`, `mmaps`, `comms`, `events`, `meta`).  A worker process decodes a
capture with `perf-core`, turns the rows into Arrow batches and serves them to
DuckDB over stdio, a unix socket or HTTP.  This directory holds TLA+ modules for
the parts of it that compute or that have state, TLC configurations that check
small instances, and proofs checked by TLAPS.  Paths below are relative to the
repository root; `decode.rs` is `crates/perf-core/src/decode.rs`, the other
`.rs` files named are in `crates/perf-worker/src/`, except `rows.rs` and
`fixture.rs`, which are beside `decode.rs`.

## 1. Inventory

| component | state | operations | interacts with |
|---|---|---|---|
| **Decoder** (`decode.rs`, `rows.rs`) | the locals of `decode()`: iterator position, running `index`, name table, metadata snapshot, build-id map, `out` | parse the header; one loop iteration per record; stop at the end or at a broken tail; merge the metadata | `linux-perf-data` (parser library), called by the producer |
| **Source resolution** (`source.rs`) | none; reads the file system | `check_bind` at bind, `decoded` at producer time | the file a `VARCHAR` names; the bytes of a `BLOB` |
| **Table functions and producer** (`table/mod.rs`, `table/scan.rs`) | the decoded rows, `cursor` | `on_bind`, `producer`, `next_batch`, `encode_resume`, `restore_resume` | the SDK calls them; over HTTP the cursor travels through the client |
| **Arrow batches** (`arrow_build.rs`) | one builder per column of the batch being filled | fill a builder from rows, `project`, `RecordBatch::try_new` | called by `next_batch`; read by name in SQL |
| **Range join** (`table/mmaps.rs`, repeated in `README.md` and `test/sql/rangejoin.test`) | the rows of `samples` and `mmaps` | the documented join `s.pid = m.pid AND s.ip BETWEEN m.addr AND m.addr + m.len` | the kernel that recorded the mappings |
| **Integration harness** (`ci/run-integration.sh`) | worker pid, log, socket file, `VGI_PERF_WORKER`, exit status | launch, poll, run the suite, judge its report, EXIT trap | the worker process; the test runner |
| **Table definitions and metadata** (`table/*.rs`, `meta.rs`) | none | tags of each function: columns and types, category, executable examples | must agree with the schemas and with the view `perf.main.functions` |
| **Worker assembly** (`lib.rs`, `main.rs`) | the environment variable `VGI_WORKER_CATALOG_NAME`, one worker per serve thread | `catalog_name` (test, set, read), register the functions, build the catalog | the SDK; the agents whose tasks it publishes |
| **Synthetic fixture** (`fixture.rs`, `gen_fixture.rs`) | the buffer being written | frame records, pad them, lay out attribute and sections | read back by the decoder; embedded in the catalog |
| **WebAssembly build** (`perf-wasm`, `wasm/build.sh`) | the thread pool, `VGI_WORKER_SHARED_STORAGE` | `wasm_init`, one serve thread per channel slot | host |
| Container entrypoint, release checks | none | `exec` one program, compare versions | CI |

What is hard to test, and the property for it:

- **A scan spread over requests.** Over HTTP each response drops the producer; the
  next builds a new one from the bind arguments, decodes again and applies a
  cursor that came back through the client.  The file may have grown, shrunk,
  vanished or become something else, and the token may come back corrupt.  The
  rows must still be contiguous, in bounds and complete (`LastRunComplete`,
  `RowsExist`, `SnapshotKept`, the refinements of `RowStream`).
- **Two counters in step in the record loop.** `index` is maintained by hand next
  to the library's own position, with a `continue` in the middle of the loop
  (`ErrorsLocateRecords`).
- **A snapshot that outlives the working copy.** `meta` is taken before the loop
  and replaces the working copy after it; the counter in the working copy must
  survive (`MetaSurvivesSnapshot`).
- **Two descriptions of every table matched by position** and list columns whose
  slots a NULL must still take (`CellsMatchRows`, `RejectsMisfits`, and
  `CellsUnderTheirNames`, which fails).
- **Lossy names as keys** (`BuildIdsResolved`) and **an inclusive upper bound in
  the join** (`ExtraOnlyAtTheEnd`, `JoinComplete`).
- **A script polling a worker that boots concurrently** and may hang or die at
  any point (`SuiteWaitsForWorker`, `GreenMeansTested`, `NothingLeftBehind`,
  `Terminates`).

- **Threads that test, set and read one environment variable** in three steps
  (`OneName`).
- **Four hand-kept copies of what a table is** (schema, builders, tag, view), of
  which a caller sees the last two and gets the first two (`AdvertisedIsBound`),
  and **tasks whose published answers** depend on all of them (`TasksAnswered`).
- **A file framed by hand**, where one wrong size or padding moves everything
  after it (`ReadsWhatWasWritten`, `RecordsAligned`).

`PROJECT.json` lists each hazard at its line, those without a property too.

## 2. Modules

```
PerfData <- DecodeReport <- DecodeContract            what decode() promises, in one step
                        \-- PerfDecode                the loop; Contract == INSTANCE DecodeContract
                              \-- MCPerfDecode, PerfDecode_proofs
RowStream                                             what a query sees of a table
   ^ INSTANCE (Stable, Shifting)
ScanSession <- MCScanSession, ScanSession_proofs      bind, producer, batches, resume
ArrowSchema                                           schemas and builders of the tables
   ^ ArrowBuild <- MCArrowBuild, ArrowBuild_proofs    rows to cells, batch by batch
   ^ WorkerCatalog                                    threads coming up, what they advertise
CaptureFile <- CaptureFile_proofs                     the capture written and read back
   ^ AgentSession (with WorkerCatalog)                from catalog to answer
        <- MCAgentSession, AgentSession_proofs        (the latter with CaptureFile_proofs)
RangeJoin   <- MCRangeJoin, RangeJoin_proofs          mappings, samples, the join
IntegrationRun <- IntegrationRun_proofs               script and worker
```

Comments marked `Mutant:` stand before operators that no specification uses: each
is a plausible mistake in the definition that follows it, and `PROJECT.json`
pairs it with the property that detects it.

### PerfDecode

`decode()` is one call on one thread; each action is the header step, one way an
iteration of the record loop can go, the end of the loop, or the merge of the
metadata.

| action | code |
|---|---|
| `ParseFileFails`, `ParseFile` | `decode.rs` 136-159: the one fatal error, and everything computed before the loop |
| `SampleEvent`, `MmapEvent`, `Mmap2Event`, `CommEvent`, `OtherEvent` | the arms of the match, 188-248, with the count before and the index after |
| `MalformedEvent` | `parse()` fails: error, `index += 1`, `continue`, 177-187 |
| `UserRecord` | 250-253 |
| `EndOfRecords`, `TailError` | `Ok(None)` and `Err`, 161-174 |
| `Finish` | 256-260 |

The parser library is external: a `Capture` is the sequence of records its
iterator yields followed by `Ok(None)` or `Err`, and the attributes and sections
its header gives.  Fields a row copies are abstracted to `rec`, the ordinal of
the record; what `decode()` computes (event label, display name, build id, event
id, total, error index) is kept.  `Lossy` stands for `String::from_utf8_lossy`
and need not be injective; `HEADER_BUILD_ID` entries arrive in hash-map order,
so `BuildIdMaps` is the set of maps the inserts can leave.

`DecodeReport` states what a correct report of the first *n* records is with sets
of ordinals only: no loop, no counter, no snapshot.  `DecodeContract` is the
one-step specification that returns any such report or refuses an unreadable
header, and `PerfDecode` implements it.

### ScanSession and RowStream

One execution of a table function.  `phase` is the next call the SDK makes.
`OnBind` is `on_bind` with `check_bind`; `Producer`/`ProducerFails` are
`producer()` with `decoded()`; `NextBatch`/`ScanEnds` the two returns of
`next_batch`; `EncodeResume` and `RestoreResume` the resume hooks.  The SDK's
protocol is external, modelled from how the code uses it: over `"stream"` the
producer lives for the scan, over `"http"` it serves one batch per response and
is rebuilt from the bind arguments.  `FileChanges` (another process writes,
replaces, removes or locks the file) and `TokenGarbled` are the environment; a
read that sees a half-written file is one more image.  A decoded table is its
image and its row count, a row its image and ordinal.  An image outside
`DOMAIN RowCount` cannot be decoded.

`RowStream` is what a query may rely on: rows from the front, in order, none
skipped or repeated, until the table is exhausted; failure only on a source that
cannot be decoded.  It is instantiated twice, with a fixed source and with one
that may shift between batches.  `ImplementsRowStream` says that a scan is a
behaviour of the fixed stream as long as no fault has happened, so that it holds
in one model together with the faults, and `ImplementsShiftingStream` says the
same of the shifting one as long as no token was garbled; from then on
`LastRunComplete` is what remains.

### ArrowBuild

`Schema` and `Built` (in `ArrowSchema`, shared with the catalog) transcribe the two
descriptions of every table separately, because the code keeps them separately and
matches them by position.  `AppendRow` is one iteration of the row loop over all
builders; a list array is its values, slot ends and validity bits.  `Project` is
`project()` with its early return for a schema of full length; `TryNew` is Arrow's
check (external), which needs at least one field to count the rows by; the consumer
reads a slot by column name through the schema.  Two assumptions say what the module
is given: list fields hold a sequence or nothing (`RowListsAssumption`), and an output
schema consists of columns of the table, in any number and order
(`OutSchemasAssumption`); for such columns `index_of` cannot fail.  `Carried` says
which column's values end up at a position of the batch: that of its name, except in
a full schema in another order (`Permuted`).

### WorkerCatalog, CaptureFile and AgentSession

`WorkerCatalog` is `build_worker`, once per serve thread.  `TestName`, `SetName` and
`ReadName` are the three accesses of `catalog_name` (`lib.rs` 360-369) to the
environment, separate actions because threads interleave between them;
`BuildWorker` is everything after, which only its own thread sees.  `WasmInit` is
`wasm_init`, `Spawn` the host starting the serve thread of a slot while the pool has
a worker left; the pool may be smaller than the slots, since `PTHREAD_POOL_SIZE` can
be overridden and nothing checks it (`wasm/build.sh:101`), and then some slots are
never served.  The native binary is the instance with one slot.  `Registered` transcribes the tags
of the five functions and `FunctionsView` the rows of the view, again separately.

`CaptureFile` is `synthetic_callchain`.  A file is the sequence of its
fields with their widths; `Record` frames and pads (`fixture.rs` 137-151), `Header`,
`Attr`, `CommRecord`, `Mmap2Record` and `SampleRecord` lay the fields out in the
order the code pushes them.  The reader is external: it knows the positions the
kernel's format prescribes, takes sizes and offsets from the file, and gets
`Garbage` where no field of the width it asks for begins.  Its field sizes add up
to the 584 bytes of the committed `callchain.data`.  Samples are written in order
of time, because the real reader delivers them so.  `IsCapture` says what can be
written: the fields of `SYNTHETIC_COMM`, `SyntheticMmap` and `SyntheticSample`, texts
that are not empty, and no record longer than the u16 of its size can say (`Fits`);
`record` casts with `as u16` and does not check (`fixture.rs:146`).

`AgentSession` composes the two: an agent with one of the tasks of
`agent_tasks_json` attaches to a serving worker, browses the view, chooses any
function whose row of the view fits the task, binds it, runs it over the capture and
answers.  `Decoded` is `decode()` on the records read: the rows of each table under
their column names, those that no task names left out.  `Selected` is the task's query
over the rows of the function that was *chosen*, each column looked up by its name in
the schema that was *bound* and taken from the builder at that position (`CellOf`); a
function without the columns asked for gives no answer.  `Reference` is what the
grader's query finds in what was written.

### RangeJoin

`mmaps` and `samples` are the rows of the two tables, `live` and `fell` history
variables: which addresses of a mapping have not been replaced since, and which
mapping a sample really fell in.  `Joins` is the SQL condition, with NULL never
matching.  Not modelled: children that inherit mappings by `fork` without MMAP
records, kernel mappings (pid -1), and wrap of `addr + len` beyond 64 bits.

### IntegrationRun

The script and the worker it forks are two processes.  The worker's four steps
(open the log, bind, announce, die) are external and under no fairness.
`Alive` and `Probe` are the two halves of a readiness iteration, `ProbeMissingLog`
the case in which `sed` fails on a log that does not exist yet and `set -e`
ends the script, `Kill` and `Remove` the EXIT trap.  `StageTests` and `StageFails`
are the rewriting of the tests into `STAGE`: `suite` is how the tests a run selects
load vgi (any nonempty set of `Forms`), `Loads` what `ci/preprocess-require.awk`
makes of each, and over http the runner skips a test that was left without httpfs.
The cache warm-up, which only warns, is left out, and so is a `TEST_PATTERN` that
matches no test, whose report the repository does not describe.  The runner, and
`kill` followed by `wait`, are assumed to end.

## 3. Runs

| run | question | bounds |
|---|---|---|
| `decode` | does the loop report every record once, at its place, and return? | every stream of at most 3 records of 11 kinds, whole or with a broken tail, under build-id sections with 0, 1 and 2 entries for one name; every header of at most 2 attributes and every state of each section |
| `decode_build_id_by_path` | is a mapping's build id that of its path? **no** | one record |
| `scan` | is an undisturbed scan exact, what survives a file change or a corrupt token, and does every scan end? | tables of 0, 1, 4 and 7 rows in batches of 2, both transports, path and BLOB, and the sources that fail; up to 2 changes of the file, to any image, absent or unreadable, and 2 corrupt tokens, at any points |
| `scan_one_capture` | are the rows of one scan from one capture? **no** | one change |
| `arrow` | is every cell the field the projection puts there, and is exactly what does not fit rejected? | all five tables; up to 3 rows, each with NULLs or with lists of 0, 1 or 2 items; batches of 2; the full schema, all narrowings to 1 or 2 columns in any order, no column, and the full schema with two columns exchanged, once of two types and once of one |
| `arrow_reorders` | does `project()` reorder a full schema? **no** | one row |
| `join` | does the join find the mapping a sample fell in, whatever was mapped over it, and what else does it find? | 3 mappings, 1 sample, 4 addresses, 2 processes |
| `join_identifies` | does it find only that mapping? **no** | 2 mappings, 1 sample |
| `harness` | does the suite wait for the worker, is green tested, is anything left behind, does it end? | 4 polls instead of 60; all transports and environments; tests of each form and every mixture of forms |
| `harness_gate` | does readiness always mean this run's worker? **no, with a reused `STAGE`** | 1 poll |
| `agent` | do concurrent workers agree on their name, does the catalog say what a bind returns, does the capture read back as written, and does the agent, going by the catalog, reach the expected answer? | three slots and a pool of two; the override unset, readable or not Unicode; six tasks; the committed capture, eight that reach each padding, two without mappings or frames |
| `harness_gives_up` | does the script give up only on a dead worker or after all polls? **no** | 2 polls |

Why the bounds are enough to be interesting.  Three records let an error precede,
separate and follow rows and let two mappings share a name; the row counts are
the four relations a table can have to `BATCH_ROWS` (nothing, one partial batch,
whole batches, several and a partial one), two changes let a scan move to a
longer or a shorter file and then to an unreadable one, and two corrupt tokens
let it start over twice.  In `arrow`, three rows in batches
of two make a list column start a second batch after a NULL.  Three mappings
make two neighbours and one that replaces a part of another.  Four polls let the
worker be late, in time or dead at the first, a middle and the last poll.
Three slots and a pool of two let two serve threads
interleave inside `catalog_name` while a third finds no pool worker, and the agent be
attached to any of the three.
The lengths of the texts in the eight small captures run through every residue
modulo 8 at both places where a text precedes the padding.
Deadlock is checked in every run but those of the range join, whose tables are
simply full at their bounds, and `agent`, whose session is over with its answer.  A sample is judged alone, so one is enough there.

Symmetry is used for the two processes of the range join only, which nothing
distinguishes and whose runs check invariants only.

### Fairness

- `PerfDecode`, `ArrowBuild`: `WF_vars(Next)`; a call on one thread goes on to its
  next step.
- `ScanSession`: `WF_vars(WorkerStep)`; the SDK calls until the scan has ended.
  Nothing is assumed of the file or the tokens.  Termination there rests on the
  bounds `MaxChanges` and `MaxLost`: a client whose every token is corrupt would
  start over for ever.
- `IntegrationRun`: `WF_vars(ScriptStep)`, nothing about the worker.
- `AgentSession`, `RangeJoin`: none, no liveness is stated.

## 4. What the repository says and the code does not do

Each is a run TLC finds violated; the lines are quoted in `PROJECT.json`.

1. `BuildIdByPath`: build ids are looked up by the *lossy* path, so two paths that
   differ in bytes UTF-8 rejects share one.
2. `CellsUnderTheirNames`: `project()` is to reorder the columns to the output schema,
   but returns them as built whenever that has full length; with two columns of one
   type exchanged, each is delivered under the name of the other.  A framework that
   only narrows never asks for such a schema.
3. `OneCapturePerScan`: over HTTP a path is read again for every response; if the
   file changes, the rows of two captures are joined at a batch boundary without
   an error.
4. `IdentifiesTheMapping`: `BETWEEN` includes `addr + len`, so a sample at the
   first byte of a mapping is also counted for the one that ends there.
5. `ReadinessGate`: with a reused `STAGE` the first poll can read the port of an
   earlier run before the new worker truncates the log.
6. `GivesUpForCause`: with `--http`, a first poll before the log exists makes `sed`
   fail, and `set -euo pipefail` ends the script while the worker is starting.

Others are visible in the modules without a run: `producer()` is called for
every HTTP response, so such a scan does not decode "the whole source once"
(`scan.rs:3-4`); `total_events` is raised before a record is parsed (`Counted` in
`MalformedEvent`), so it also counts records that fail to, where `rows.rs:106` says
"decoded".  `README.md:47` lists a scalar
`perf_version()`, but `Registered` has five table functions and no scalar
(`lib.rs:282` says so too).  A `VGI_WORKER_CATALOG_NAME` that is not Unicode is
neither honoured nor replaced: `ReadName` falls back to `perf` and the variable
keeps its value (`lib.rs:360-368`), which is why `OneName` leaves that case of
`env` out.

## 5. Proofs

TLC checks the instances above; the theorems hold for every value of the
constants under the modules' named `ASSUME`s (types of the constants, sentinels
distinct from values).  They need no assumption on `Lossy` beyond its type, none
on the number of records, rows, changes or corrupt tokens.

**`PerfDecode_proofs`.** `TypeCorrect`, `IInvHolds`, `RowsMatch`, `BuildIds`,
`ErrorsLocate`, `MetaSurvives`, `Implements`.  The properties are not inductive:
they speak of rows, while the next row is made from the loop's locals.  `IInv`
adds that `index = pos`, that the name table and the build-id map were made from
this capture, and the *exact* build id of each mapping (what the map gives)
instead of an admissible one; agreement between mappings of one name then
follows.  One lemma appends a row to a list of ordinals and one adds an ordinal
to a counted set; every action cites them.  `Implements` shows that `Finish`
maps to `Return`, `ParseFileFails` to `Refuse`, and every other step stutters.

**`ScanSession_proofs`.** `TypeCorrect`, `IInvHolds`, `RowsComplete`, `RowsInBounds`,
`Snapshots`, `ImplementsShifting` (every step before a token is garbled is a step of
the shifting stream) and `ImplementsStable` (every step before any fault is a step
of the exact one); with `MaxLost = MaxChanges = 0` the latter is `Spec => Stable!Spec`.
The heart of `IInv` is `Alignment`: for some number *b* of rows
received before the scan last started over, the cursor or the token in flight
equals the rows received since, clamped to the capture at hand.  `Protocol` says
where tokens and rows can exist, `Origin` which capture they came from.

**`RangeJoin_proofs`.** `TypeCorrect`, `IInvHolds`, `Complete` and `ExtraAtTheEnd`,
for any number of mappings, samples and addresses and with remapping.  `IInv`
relates the history to the tables (`FellInside`, `LiveWithin`) and says that what
is left of the mappings of one process is disjoint (`Disjoint`); two mappings that
are still intact then cannot cover the same address.

**`ArrowBuild_proofs`.** `IInvHolds`, `TypeCorrect`, `CellsAreTheRows`,
`NarrowingsKeepNames`, `MisfitsAreRejected`, for any rows, any output schema made of
columns of the table and any batch size.  `NarrowingsKeepNames` is the positive half of
finding 2: but for a reordered full schema, every cell stands under its name.
`Holds` says what an array of *n* slots contains; for a list array
that the ends never decrease, the last is the number of values, and each valid slot
cuts out its list.  `AppendedHolds` shows that one append keeps it (the slots
already there lie in the old values), `CellHeld` that a reader of a slot gets the value
back.  `Projected` shows that each position of the output schema gets the column
`Carried` names, from the uniqueness of names within a table (`SchemaWellFormed`);
`Accepts` that Arrow's check passes exactly when the schema is no `Misfit`; and
`Delivered` that what was read is exactly the rows before the cursor.

**`IntegrationRun_proofs`.** `IInvHolds`, `TypeCorrect`, `SuiteWaits`, `GreenIsTested`,
`NothingStays`, for any number of polls.  The properties speak of the end of the
run; `IInv` adds what each step of the script may rely on (`Script`), what log and
socket say of this run's worker while it moves on its own (`Signals`), and what the
suite's results say of the staged tests (`Judged`).

**`CaptureFile_proofs`.** `RecordRead`: of any capture `IsCapture` allows, what is read
where the *k*-th record begins is the *k*-th record as declared.  The offsets in a
file are a recursive function and `FlattenSeq` is a fold, so everything rests on
induction over a *set* of numbers (`SetInduction`, from the least element of its
complement; the library's induction theorems take an operator, which the provers
cannot instantiate).  The argument goes up the layers of the format.  `OffsetsAre`,
`OffsetsUnique` and `OffsetsGrow` say that the offsets exist, are determined by their
recursion and increase; `ConcatBuffer` and `AtConcat` that appending one buffer to
another moves the fields of the second by the size of the first; `Flattened` the same
of a list of records; `PlacedAt` that an offset leads to one field only.
`CommRecordFields`, `Mmap2RecordFields` and `SampleRecordFields` say which field stands
where in each record and that its size is a multiple of 8 and the one it states,
`FileFields` and `Sections` where the header, the attribute and the records stand.
`SampleFieldsAt` counts what `sample_type` announces before each field.  `ReaderInv`
is the reader's inductive invariant: it stands where record *k* + 1 begins, having
read the first *k*.

**`AgentSession_proofs`.** `IInvHolds`, `NamesAgree`, `AdvertisedBinds`, `RecordsRead`,
`RecordsStayAligned`, `AnswersExpected`, `SessionTyped`, for any number of slots, any
override and any captures that can be written.  `IInv` is `BootInv`, `SessionInv`,
`ReaderInv` and `AgentInv`, one for each actor.  `NamesAgree` needs that a thread past
the test finds the variable set for good: whatever another thread writes afterwards
is the same name.  `AdvertisedBinds` follows the catalog from the thread that wrote it
to the agent and compares the copies of each table.  `RecordsRead` and
`RecordsStayAligned` follow from `ReaderInv`; `AnswersExpected` from all four.  For each
task exactly one row of the view fits (`MeantFits`), so the agent picks that function
and is bound to its schema; the builder at the position of a name takes the field of
that name (`CellIs`), so the query is over the rows of that table (`SelectedRows`);
those are the rows that were written (`RowsWritten`); and what is selected from them is
what the grader selects from the contents (`SelectsReference`).

**Advance.** `DecodeAdvances`, `CallsAdvance`, `ScanAdvances` and `ScriptAdvances`, each
in its component's proof module, are the safety half of the termination properties:
every step lowers a natural number.  In `CallsAdvance` the number bounds the calls a
scan still needs over the source as it is now.  It is not simply the rows that are
left: a token can be ahead of a file that became shorter, and a producer built before
a change delivers rows of the old file; one that is not at its own end can do so for
a single batch (`Detour`).  In `ScriptAdvances` no step of the worker raises it.

Every safety invariant and every refinement the passing runs check is stated by one of
these theorems.  Only model-checked are the liveness properties (`Terminates` of three
modules, `DeliversAll`): from a measure to termination one still
needs that a step is possible and is taken, that is `ENABLED` and fairness, which this
prover does not handle.

The assumptions behind the theorems that go beyond types: `BatchRows` and `MaxPolls`
are not zero; the two of `ArrowBuild` described above, that list fields are sequences or
nothing and output schemas consist of columns of the table; `ContentsAssumption`, that what
is written is a capture; `NamesAssumption`, that the sentinels and the words the model
uses for them are no catalog names.  TLC evaluates each of them in the run of its
module.

## 6. What could follow

1. `ScanSession` composed with `ArrowBuild`: the rows read by name across resumed
   responses, with a refinement of `RowStream` at the level of cells.  Each half is
   checked and proved; the composition would add that `cursor` is the same in both,
   which is one variable of `PerfScan`.
2. A way for the worker to show `Decoded.errors`; today no table does, so there is
   no behaviour to state a property of.

Not modelled, and why: the parser library and the SDK (third-party; only how
they are used); a token that decodes but was altered (`TokenGarbled` covers those
`restore_resume` rejects); titles, prose, keywords and linter tags of the
functions, and the JSON they are put into (text without behaviour); the ring of a
channel slot and the entry points an SDK macro generates; the container entrypoint,
version check and release workflows (straight-line scripts without state); a
query's `LIMIT`, which drops the producer early.
