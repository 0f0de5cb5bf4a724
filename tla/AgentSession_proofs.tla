------------------------- MODULE AgentSession_proofs -------------------------
(***************************************************************************)
(* Proofs about AgentSession, for any number of serve threads, any         *)
(* override of the catalog name and any captures that can be written.      *)
(***************************************************************************)
EXTENDS AgentSession, CaptureFile_proofs

Places == {"none", "test", "set", "read", "build", "serving"}

BootTypes ==
  /\ override \in Names \cup {Unset, NotUnicode}
  /\ initialised \in BOOLEAN
  /\ thread \in [Slots -> Places]
  /\ name \in [Slots -> Names \cup {Unset}]
  /\ DOMAIN worker = Slots

\* The variable is what it was on entry, or the default where it was unset.
Environment ==
  IF override = Unset THEN env \in {Unset, "perf"} ELSE env = override

\* What a serve thread knows of the environment by where it is: one that is about
\* to set the variable found it unset, and past that it is set for good.
Passed(s) ==
  /\ thread[s] # "none" => initialised
  /\ thread[s] = "set" => override = Unset
  /\ thread[s] \in {"read", "build", "serving"} => env # Unset

NamedByOverride(s) ==
  name[s] # Unset =>
    /\ thread[s] \in {"build", "serving"}
    /\ name[s] = IF override \in Names THEN override ELSE "perf"

\* A worker that serves has the functions and the catalog that were written.
Registers(s) ==
  thread[s] = "serving" =>
    \E n \in Names \cup {Unset} :
      worker[s] = [registered |-> Registered, catalog |-> CatalogMetadata(n)]

BootInv ==
  /\ BootTypes
  /\ Environment
  /\ initialised => storage # Unset
  /\ \A s \in Slots : Passed(s) /\ NamedByOverride(s) /\ Registers(s)

\* The agent is attached to a worker that serves, and bound to a function its
\* catalog lists.
SessionInv ==
  /\ slot \in Slots
  /\ step # "attach" => thread[slot] = "serving"
  /\ step = "bind" => chosen \in DOMAIN FunctionsView
  /\ step = "run" => bound = Schema[chosen]
  /\ bound # Unset => /\ step # "attach" /\ step # "browse" /\ step # "bind"
                      /\ chosen \in DOMAIN FunctionsView
                      /\ bound = Schema[chosen]

\* The table that answers a task.
Meant == [
  sample_count           |-> "samples",
  event_policy           |-> "events",
  event_record_total     |-> "meta",
  mapped_files_build_ids |-> "mmaps",
  process_name           |-> "comms"]

\* It has picked the function that answers the task once it has browsed for one, and
\* what it answers is what was written.
AgentInv ==
  /\ task \in Tasks
  /\ step \in {"attach", "browse", "bind", "run", "answered"}
  /\ task = Browse => step \in {"attach", "browse", "answered"}
  /\ step \in {"attach", "browse"} \/ task = Browse => chosen = Unset
  /\ step \notin {"attach", "browse"} /\ task # Browse =>
       chosen = Meant[task] /\ chosen \in DOMAIN FunctionsView
  /\ step = "answered" => answer = Reference

IInv == BootInv /\ SessionInv /\ ReaderInv /\ AgentInv

-----------------------------------------------------------------------------
(* Coming up.                                                              *)

LEMMA BootStart == Init => BootInv
  BY NamesAssumption
     DEF Init, BootInit, BootInv, BootTypes, Places, Environment, Passed,
         NamedByOverride, Registers

LEMMA WasmInitKeeps == ASSUME BootInv, WasmInit PROVE BootInv'
  BY NamesAssumption
     DEF WasmInit, BootInv, BootTypes, Environment, Passed, NamedByOverride, Registers

LEMMA BootKeeps == ASSUME BootInv, NEW s \in Slots, Boot(s) PROVE BootInv'
<1> USE NamesAssumption DEF BootInv
<1>1. CASE Spawn(s)
  BY <1>1 DEF Spawn, BootTypes, Places, Environment, Passed, NamedByOverride, Registers
<1>2. CASE TestName(s)
  BY <1>2 DEF TestName, BootTypes, Places, Environment, Passed, NamedByOverride, Registers
<1>3. CASE SetName(s)
  BY <1>3 DEF SetName, BootTypes, Places, Environment, Passed, NamedByOverride, Registers
<1>4. CASE ReadName(s)
  BY <1>4 DEF ReadName, BootTypes, Places, Environment, Passed, NamedByOverride, Registers
<1>5. CASE BuildWorker(s)
  <2>1. BootTypes' /\ Environment' /\ (initialised => storage # Unset)'
    BY <1>5 DEF BuildWorker, BootTypes, Places, Environment
  <2>2. ASSUME NEW t \in Slots PROVE (Passed(t) /\ NamedByOverride(t))'
    BY <1>5 DEF BuildWorker, BootTypes, Places, Environment, Passed, NamedByOverride
  <2>3. ASSUME NEW t \in Slots PROVE Registers(t)'
    BY <1>5 DEF BuildWorker, BootTypes, Places, Registers
  <2> QED
    BY <2>1, <2>2, <2>3
<1> QED
  BY <1>1, <1>2, <1>3, <1>4, <1>5 DEF Boot

LEMMA BootUnchanged == ASSUME BootInv, UNCHANGED bootVars PROVE BootInv'
  BY DEF bootVars, BootInv, BootTypes, Environment, Passed, NamedByOverride, Registers

-----------------------------------------------------------------------------
(* The session.                                                            *)

LEMMA AgentLeavesBoot == AgentStep => UNCHANGED bootVars
  BY DEF AgentStep, Attach, AnswerFromCatalog, Choose, Bind, Run, Answer

\* The catalog the agent reads is the one that was written.
LEMMA CatalogRead ==
  ASSUME IInv, step # "attach"
  PROVE  /\ Catalog.functions = FunctionsView
         /\ Catalog.categories = Categories
         /\ worker[slot].registered = Registered
<1>1. PICK n \in Names \cup {Unset} :
        worker[slot] = [registered |-> Registered, catalog |-> CatalogMetadata(n)]
  BY DEF IInv, BootInv, SessionInv, Registers
<1> QED
  BY <1>1 DEF Catalog, CatalogMetadata

-----------------------------------------------------------------------------
(* What is advertised.                                                     *)

NamesOf(schema) == [i \in DOMAIN schema |-> schema[i].name]

SqlOf(schema) == [i \in DOMAIN schema |-> [name |-> schema[i].name, type |-> SqlType(schema[i].type)]]

\* What a bind of f returns is what the catalog and the tags say of f.
Agrees(f) ==
  /\ f \in Tables
  /\ NamesOf(Schema[f]) = FunctionsView[f].result_columns
  /\ SqlOf(Schema[f]) = Registered[f].columns
  /\ Registered[f].category = FunctionsView[f].category
  /\ Registered[f].category \in Categories

\* The names and the SQL types of a schema are read off its columns.
LEMMA ColumnsRead ==
  ASSUME NEW names, NEW types, NEW sql,
         names = [i \in DOMAIN names |-> names[i]],
         \A i \in DOMAIN names : SqlType(types[i]) = sql[i]
  PROVE  /\ NamesOf(Columns(names, types)) = names
         /\ SqlOf(Columns(names, types)) = Columns(names, sql)
<1> DEFINE schema == Columns(names, types)
<1>1. DOMAIN schema = DOMAIN names
  BY DEF Columns
<1>2. \A i \in DOMAIN names : schema[i].name = names[i] /\ schema[i].type = types[i]
  BY <1>1 DEF Columns
<1> HIDE DEF schema
<1>3. NamesOf(schema) = [i \in DOMAIN names |-> names[i]]
  BY <1>1, <1>2 DEF NamesOf
<1>4. SqlOf(schema) = [i \in DOMAIN names |-> [name |-> names[i], type |-> sql[i]]]
  BY <1>1, <1>2 DEF SqlOf
<1>5. Columns(names, sql) = [i \in DOMAIN names |-> [name |-> names[i], type |-> sql[i]]]
  BY <1>1 DEF Columns
<1> QED
  BY <1>3, <1>4, <1>5 DEF schema

LEMMA SqlTypes ==
  /\ SqlType("UInt64") = "UBIGINT" /\ SqlType("UInt32") = "UINTEGER"
  /\ SqlType("Int32") = "INTEGER" /\ SqlType("Utf8") = "VARCHAR"
  /\ SqlType("List<UInt64>") = "UBIGINT[]" /\ SqlType("List<Utf8>") = "VARCHAR[]"
  BY DEF SqlType

LEMMA SamplesAgree == Agrees("samples")
<1> DEFINE names == <<"time", "pid", "tid", "cpu", "ip", "period", "event", "callchain">>
           types == <<"UInt64", "Int32", "Int32", "UInt32", "UInt64", "UInt64", "Utf8", "List<UInt64>">>
           sql == <<"UBIGINT", "INTEGER", "INTEGER", "UINTEGER", "UBIGINT", "UBIGINT", "VARCHAR", "UBIGINT[]">>
<1>1. Schema["samples"] = Columns(names, types) /\ "samples" \in Tables
  BY DEF Schema, Tables
<1>2. /\ FunctionsView["samples"].result_columns = names
      /\ Registered["samples"].columns = Columns(names, sql)
      /\ Registered["samples"].category = FunctionsView["samples"].category
      /\ Registered["samples"].category \in Categories
  BY DEF FunctionsView, EventsResult, Registered, SamplesFunction, Function, Categories
<1>3. names = [i \in DOMAIN names |-> names[i]]
  OBVIOUS
<1>4. \A i \in DOMAIN names : SqlType(types[i]) = sql[i]
  BY SqlTypes
<1> HIDE DEF names, types, sql
<1> QED
  <2>1. NamesOf(Columns(names, types)) = names /\ SqlOf(Columns(names, types)) = Columns(names, sql)
    BY <1>3, <1>4, ColumnsRead
  <2> QED
    BY <1>1, <1>2, <2>1 DEF Agrees

LEMMA MmapsAgree == Agrees("mmaps")
<1> DEFINE names == <<"pid", "tid", "addr", "len", "pgoff", "filename", "build_id">>
           types == <<"Int32", "Int32", "UInt64", "UInt64", "UInt64", "Utf8", "Utf8">>
           sql == <<"INTEGER", "INTEGER", "UBIGINT", "UBIGINT", "UBIGINT", "VARCHAR", "VARCHAR">>
<1>1. Schema["mmaps"] = Columns(names, types) /\ "mmaps" \in Tables
  BY DEF Schema, Tables
<1>2. /\ FunctionsView["mmaps"].result_columns = names
      /\ Registered["mmaps"].columns = Columns(names, sql)
      /\ Registered["mmaps"].category = FunctionsView["mmaps"].category
      /\ Registered["mmaps"].category \in Categories
  BY DEF FunctionsView, MmapsView, Registered, MmapsFunction, Function, Categories
<1>3. names = [i \in DOMAIN names |-> names[i]]
  OBVIOUS
<1>4. \A i \in DOMAIN names : SqlType(types[i]) = sql[i]
  BY SqlTypes
<1> HIDE DEF names, types, sql
<1> QED
  <2>1. NamesOf(Columns(names, types)) = names /\ SqlOf(Columns(names, types)) = Columns(names, sql)
    BY <1>3, <1>4, ColumnsRead
  <2> QED
    BY <1>1, <1>2, <2>1 DEF Agrees

LEMMA CommsAgree == Agrees("comms")
<1> DEFINE names == <<"pid", "tid", "comm", "time">>
           types == <<"Int32", "Int32", "Utf8", "UInt64">>
           sql == <<"INTEGER", "INTEGER", "VARCHAR", "UBIGINT">>
<1>1. Schema["comms"] = Columns(names, types) /\ "comms" \in Tables
  BY DEF Schema, Tables
<1>2. /\ FunctionsView["comms"].result_columns = names
      /\ Registered["comms"].columns = Columns(names, sql)
      /\ Registered["comms"].category = FunctionsView["comms"].category
      /\ Registered["comms"].category \in Categories
  BY DEF FunctionsView, EventsResult, Registered, CommsFunction, Function, Categories
<1>3. names = [i \in DOMAIN names |-> names[i]]
  OBVIOUS
<1>4. \A i \in DOMAIN names : SqlType(types[i]) = sql[i]
  BY SqlTypes
<1> HIDE DEF names, types, sql
<1> QED
  <2>1. NamesOf(Columns(names, types)) = names /\ SqlOf(Columns(names, types)) = Columns(names, sql)
    BY <1>3, <1>4, ColumnsRead
  <2> QED
    BY <1>1, <1>2, <2>1 DEF Agrees

LEMMA EventsAgree == Agrees("events")
<1> DEFINE names == <<"event_id", "name", "type", "config", "sample_period", "sample_freq">>
           types == <<"UInt64", "Utf8", "Utf8", "UInt64", "UInt64", "UInt64">>
           sql == <<"UBIGINT", "VARCHAR", "VARCHAR", "UBIGINT", "UBIGINT", "UBIGINT">>
<1>1. Schema["events"] = Columns(names, types) /\ "events" \in Tables
  BY DEF Schema, Tables
<1>2. /\ FunctionsView["events"].result_columns = names
      /\ Registered["events"].columns = Columns(names, sql)
      /\ Registered["events"].category = FunctionsView["events"].category
      /\ Registered["events"].category \in Categories
  BY DEF FunctionsView, EventsResult, Registered, EventsFunction, Function, Categories
<1>3. names = [i \in DOMAIN names |-> names[i]]
  OBVIOUS
<1>4. \A i \in DOMAIN names : SqlType(types[i]) = sql[i]
  BY SqlTypes
<1> HIDE DEF names, types, sql
<1> QED
  <2>1. NamesOf(Columns(names, types)) = names /\ SqlOf(Columns(names, types)) = Columns(names, sql)
    BY <1>3, <1>4, ColumnsRead
  <2> QED
    BY <1>1, <1>2, <2>1 DEF Agrees

LEMMA MetaAgree == Agrees("meta")
<1> DEFINE names == <<"hostname", "arch", "nrcpus", "perf_version", "cmdline", "total_events">>
           types == <<"Utf8", "Utf8", "UInt32", "Utf8", "List<Utf8>", "UInt64">>
           sql == <<"VARCHAR", "VARCHAR", "UINTEGER", "VARCHAR", "VARCHAR[]", "UBIGINT">>
<1>1. Schema["meta"] = Columns(names, types) /\ "meta" \in Tables
  BY DEF Schema, Tables
<1>2. /\ FunctionsView["meta"].result_columns = names
      /\ Registered["meta"].columns = Columns(names, sql)
      /\ Registered["meta"].category = FunctionsView["meta"].category
      /\ Registered["meta"].category \in Categories
  BY DEF FunctionsView, EventsResult, Registered, MetaFunction, Function, Categories
<1>3. names = [i \in DOMAIN names |-> names[i]]
  OBVIOUS
<1>4. \A i \in DOMAIN names : SqlType(types[i]) = sql[i]
  BY SqlTypes
<1> HIDE DEF names, types, sql
<1> QED
  <2>1. NamesOf(Columns(names, types)) = names /\ SqlOf(Columns(names, types)) = Columns(names, sql)
    BY <1>3, <1>4, ColumnsRead
  <2> QED
    BY <1>1, <1>2, <2>1 DEF Agrees

LEMMA EachAgrees == \A f \in Tables : Agrees(f)
<1>1. Tables = {"samples", "mmaps", "comms", "events", "meta"}
  BY DEF Tables, Schema
<1> QED
  BY <1>1, SamplesAgree, MmapsAgree, CommsAgree, EventsAgree, MetaAgree

\* The names in a sequence of columns are those that occur in it.
LEMMA NamesOccur ==
  ASSUME NEW t \in Tables, NEW i \in DOMAIN FunctionsView[t].result_columns
  PROVE  FunctionsView[t].result_columns[i] \in {Schema[t][j].name : j \in DOMAIN Schema[t]}
  BY EachAgrees DEF Agrees, NamesOf

LEMMA ExamplesSelect ==
  \A f \in Tables : \A example \in Registered[f].examples :
    example[2] \subseteq {Schema[example[1]][i].name : i \in DOMAIN Schema[example[1]]}
<1> DEFINE names(t) == {Schema[t][j].name : j \in DOMAIN Schema[t]}
           view(t) == FunctionsView[t].result_columns
<1>1. Tables = {"samples", "mmaps", "comms", "events", "meta"}
  BY DEF Tables, Schema
<1>2. \A t \in Tables : \A i \in DOMAIN view(t) : view(t)[i] \in names(t)
  BY NamesOccur
<1>3. {"pid", "ip", "callchain"} \subseteq names("samples")
  <2> DEFINE columns == <<"time", "pid", "tid", "cpu", "ip", "period", "event", "callchain">>
  <2>1. view("samples") = columns
    BY DEF FunctionsView, EventsResult
  <2>2. /\ DOMAIN columns = 1..8 /\ columns[2] = "pid" /\ columns[5] = "ip"
        /\ columns[8] = "callchain"
    OBVIOUS
  <2> HIDE DEF columns, view, names
  <2> QED
    BY <1>1, <1>2, <2>1, <2>2
<1>4. {"pid", "addr", "len", "filename", "build_id"} \subseteq names("mmaps")
  <2> DEFINE columns == <<"pid", "tid", "addr", "len", "pgoff", "filename", "build_id">>
  <2>1. view("mmaps") = columns
    BY DEF FunctionsView, MmapsView
  <2>2. /\ DOMAIN columns = 1..7 /\ columns[1] = "pid" /\ columns[3] = "addr"
        /\ columns[4] = "len" /\ columns[6] = "filename" /\ columns[7] = "build_id"
    OBVIOUS
  <2> HIDE DEF columns, view, names
  <2> QED
    BY <1>1, <1>2, <2>1, <2>2
<1>5. {"pid", "comm"} \subseteq names("comms")
  <2> DEFINE columns == <<"pid", "tid", "comm", "time">>
  <2>1. view("comms") = columns
    BY DEF FunctionsView, EventsResult
  <2>2. /\ DOMAIN columns = 1..4 /\ columns[1] = "pid" /\ columns[3] = "comm"
    OBVIOUS
  <2> HIDE DEF columns, view, names
  <2> QED
    BY <1>1, <1>2, <2>1, <2>2
<1>6. {"name", "type", "sample_period", "sample_freq"} \subseteq names("events")
  <2> DEFINE columns == <<"event_id", "name", "type", "config", "sample_period", "sample_freq">>
  <2>1. view("events") = columns
    BY DEF FunctionsView, EventsResult
  <2>2. /\ DOMAIN columns = 1..6 /\ columns[2] = "name" /\ columns[3] = "type"
        /\ columns[5] = "sample_period" /\ columns[6] = "sample_freq"
    OBVIOUS
  <2> HIDE DEF columns, view, names
  <2> QED
    BY <1>1, <1>2, <2>1, <2>2
<1>7. {"hostname", "arch", "nrcpus", "perf_version", "cmdline", "total_events"} \subseteq names("meta")
  <2> DEFINE columns == <<"hostname", "arch", "nrcpus", "perf_version", "cmdline", "total_events">>
  <2>1. view("meta") = columns
    BY DEF FunctionsView, EventsResult
  <2>2. /\ DOMAIN columns = 1..6 /\ columns[1] = "hostname" /\ columns[2] = "arch"
        /\ columns[3] = "nrcpus" /\ columns[4] = "perf_version" /\ columns[5] = "cmdline"
        /\ columns[6] = "total_events"
    OBVIOUS
  <2> HIDE DEF columns, view, names
  <2> QED
    BY <1>1, <1>2, <2>1, <2>2
<1> SUFFICES ASSUME NEW f \in Tables, NEW example \in Registered[f].examples
             PROVE  example[2] \subseteq names(example[1])
  OBVIOUS
<1> HIDE DEF names, view
<1>8. CASE f = "samples"
  <2>1. example \in {<<"samples", {"ip"}>>, <<"samples", {"ip", "callchain"}>>}
    BY <1>8 DEF Registered, Function, SamplesFunction
  <2> QED
    BY <2>1, <1>3
<1>9. CASE f = "mmaps"
  <2>1. example \in {<<"mmaps", {"filename", "build_id"}>>, <<"samples", {"pid", "ip"}>>,
                            <<"mmaps", {"pid", "addr", "len", "filename"}>>}
    BY <1>9 DEF Registered, Function, MmapsFunction
  <2> QED
    BY <2>1, <1>3, <1>4
<1>10. CASE f = "comms"
  <2>1. example \in {<<"comms", {"pid", "comm"}>>}
    BY <1>10 DEF Registered, Function, CommsFunction
  <2> QED
    BY <2>1, <1>5
<1>11. CASE f = "events"
  <2>1. example \in {<<"events", {"name", "type", "sample_period", "sample_freq"}>>}
    BY <1>11 DEF Registered, Function, EventsFunction
  <2> QED
    BY <2>1, <1>6
<1>12. CASE f = "meta"
  <2>1. example \in {<<"meta", {"hostname", "arch", "nrcpus", "perf_version", "cmdline", "total_events"}>>}
    BY <1>12 DEF Registered, Function, MetaFunction
  <2> QED
    BY <2>1, <1>7
<1> QED
  BY <1>1, <1>8, <1>9, <1>10, <1>11, <1>12

-----------------------------------------------------------------------------
(* What is answered.                                                       *)

LEMMA ViewTables == DOMAIN FunctionsView = Tables /\ Unset \notin Tables
  BY NamesAssumption DEF FunctionsView, Tables, Schema

LEMMA TasksAre ==
  /\ Tasks = {"sample_count", "event_policy", "event_record_total", "mapped_files_build_ids",
              "process_name", Browse}
  /\ Browse \notin {"sample_count", "event_policy", "event_record_total",
                    "mapped_files_build_ids", "process_name"}
  BY DEF Tasks, Wanted, Browse

\* The columns the view lists, as a set.
Listed(f) == ToSet(FunctionsView[f].result_columns)

LEMMA SamplesListed == Listed("samples") = {"time", "pid", "tid", "cpu", "ip", "period", "event", "callchain"}
<1> DEFINE s == <<"time", "pid", "tid", "cpu", "ip", "period", "event", "callchain">>
<1>1. FunctionsView["samples"].result_columns = s
  BY DEF FunctionsView, MmapsView, EventsResult
<1>2. /\ DOMAIN s = 1..8
      /\ s[1] = "time" /\ s[2] = "pid" /\ s[3] = "tid" /\ s[4] = "cpu"
      /\ s[5] = "ip" /\ s[6] = "period" /\ s[7] = "event" /\ s[8] = "callchain"
  OBVIOUS
<1>3. \A i \in 1..8 : i = 1 \/ i = 2 \/ i = 3 \/ i = 4 \/ i = 5 \/ i = 6 \/ i = 7 \/ i = 8
  OBVIOUS
<1> HIDE DEF s
<1>4. ToSet(s) = {"time", "pid", "tid", "cpu", "ip", "period", "event", "callchain"}
  BY <1>2, <1>3 DEF ToSet
<1> QED
  BY <1>1, <1>4 DEF Listed

LEMMA MmapsListed == Listed("mmaps") = {"pid", "tid", "addr", "len", "pgoff", "filename", "build_id"}
<1> DEFINE s == <<"pid", "tid", "addr", "len", "pgoff", "filename", "build_id">>
<1>1. FunctionsView["mmaps"].result_columns = s
  BY DEF FunctionsView, MmapsView, EventsResult
<1>2. /\ DOMAIN s = 1..7
      /\ s[1] = "pid" /\ s[2] = "tid" /\ s[3] = "addr" /\ s[4] = "len"
      /\ s[5] = "pgoff" /\ s[6] = "filename" /\ s[7] = "build_id"
  OBVIOUS
<1>3. \A i \in 1..7 : i = 1 \/ i = 2 \/ i = 3 \/ i = 4 \/ i = 5 \/ i = 6 \/ i = 7
  OBVIOUS
<1> HIDE DEF s
<1>4. ToSet(s) = {"pid", "tid", "addr", "len", "pgoff", "filename", "build_id"}
  BY <1>2, <1>3 DEF ToSet
<1> QED
  BY <1>1, <1>4 DEF Listed

LEMMA CommsListed == Listed("comms") = {"pid", "tid", "comm", "time"}
<1> DEFINE s == <<"pid", "tid", "comm", "time">>
<1>1. FunctionsView["comms"].result_columns = s
  BY DEF FunctionsView, MmapsView, EventsResult
<1>2. /\ DOMAIN s = 1..4
      /\ s[1] = "pid" /\ s[2] = "tid" /\ s[3] = "comm" /\ s[4] = "time"
  OBVIOUS
<1>3. \A i \in 1..4 : i = 1 \/ i = 2 \/ i = 3 \/ i = 4
  OBVIOUS
<1> HIDE DEF s
<1>4. ToSet(s) = {"pid", "tid", "comm", "time"}
  BY <1>2, <1>3 DEF ToSet
<1> QED
  BY <1>1, <1>4 DEF Listed

LEMMA EventsListed == Listed("events") = {"event_id", "name", "type", "config", "sample_period", "sample_freq"}
<1> DEFINE s == <<"event_id", "name", "type", "config", "sample_period", "sample_freq">>
<1>1. FunctionsView["events"].result_columns = s
  BY DEF FunctionsView, MmapsView, EventsResult
<1>2. /\ DOMAIN s = 1..6
      /\ s[1] = "event_id" /\ s[2] = "name" /\ s[3] = "type" /\ s[4] = "config"
      /\ s[5] = "sample_period" /\ s[6] = "sample_freq"
  OBVIOUS
<1>3. \A i \in 1..6 : i = 1 \/ i = 2 \/ i = 3 \/ i = 4 \/ i = 5 \/ i = 6
  OBVIOUS
<1> HIDE DEF s
<1>4. ToSet(s) = {"event_id", "name", "type", "config", "sample_period", "sample_freq"}
  BY <1>2, <1>3 DEF ToSet
<1> QED
  BY <1>1, <1>4 DEF Listed

LEMMA MetaListed == Listed("meta") = {"hostname", "arch", "nrcpus", "perf_version", "cmdline", "total_events"}
<1> DEFINE s == <<"hostname", "arch", "nrcpus", "perf_version", "cmdline", "total_events">>
<1>1. FunctionsView["meta"].result_columns = s
  BY DEF FunctionsView, MmapsView, EventsResult
<1>2. /\ DOMAIN s = 1..6
      /\ s[1] = "hostname" /\ s[2] = "arch" /\ s[3] = "nrcpus" /\ s[4] = "perf_version"
      /\ s[5] = "cmdline" /\ s[6] = "total_events"
  OBVIOUS
<1>3. \A i \in 1..6 : i = 1 \/ i = 2 \/ i = 3 \/ i = 4 \/ i = 5 \/ i = 6
  OBVIOUS
<1> HIDE DEF s
<1>4. ToSet(s) = {"hostname", "arch", "nrcpus", "perf_version", "cmdline", "total_events"}
  BY <1>2, <1>3 DEF ToSet
<1> QED
  BY <1>1, <1>4 DEF Listed

\* What each task names, and the table that answers it.
LEMMA CountWants ==
  /\ Wanted["sample_count"].columns = {} /\ Wanted["sample_count"].about = {"Profile Samples"}
  /\ Meant["sample_count"] = "samples"
  BY DEF Wanted, Meant

LEMMA PolicyWants ==
  /\ Wanted["event_policy"].columns = {"type", "sample_period"}
  /\ Wanted["event_policy"].about = Categories /\ Meant["event_policy"] = "events"
  BY DEF Wanted, Meant

LEMMA TotalWants ==
  /\ Wanted["event_record_total"].columns = {"total_events"}
  /\ Wanted["event_record_total"].about = Categories /\ Meant["event_record_total"] = "meta"
  BY DEF Wanted, Meant

LEMMA FilesWant ==
  /\ Wanted["mapped_files_build_ids"].columns = {"filename", "build_id"}
  /\ Wanted["mapped_files_build_ids"].about = Categories
  /\ Meant["mapped_files_build_ids"] = "mmaps"
  BY DEF Wanted, Meant

LEMMA NameWants ==
  /\ Wanted["process_name"].columns = {"comm"}
  /\ Wanted["process_name"].about = Categories /\ Meant["process_name"] = "comms"
  BY DEF Wanted, Meant

LEMMA ViewCategories ==
  /\ FunctionsView["samples"].category = "Profile Samples"
  /\ FunctionsView["mmaps"].category = "Address Space"
  /\ FunctionsView["comms"].category = "Capture Context"
  /\ FunctionsView["events"].category = "Capture Context"
  /\ FunctionsView["meta"].category = "Capture Context"
  BY DEF FunctionsView, MmapsView

\* The table that answers a task fits it, and no other does.
LEMMA MeantFits ==
  ASSUME NEW t \in Tasks, t # Browse
  PROVE  /\ Meant[t] \in Tables
         /\ \A f \in Tables :
              (Wanted[t].columns \subseteq Listed(f) /\ FunctionsView[f].category \in Wanted[t].about)
                <=> f = Meant[t]
<1> DEFINE Right(f) == Wanted[t].columns \subseteq Listed(f)
                       /\ FunctionsView[f].category \in Wanted[t].about
<1>1. Tables = {"samples", "mmaps", "comms", "events", "meta"}
  BY DEF Tables, Schema
<1>2. \A f \in Tables : FunctionsView[f].category \in Categories
  BY <1>1, ViewCategories DEF Categories
<1>3. CASE t = "sample_count"
  <2>1. Meant[t] = "samples" /\ Wanted[t].columns = {} /\ Wanted[t].about = {"Profile Samples"}
    BY <1>3, CountWants
  <2> QED
    BY <1>1, <2>1, ViewCategories
<1>4. CASE t = "event_policy"
  <2>1. Meant[t] = "events" /\ Wanted[t].columns = {"type", "sample_period"} /\ Wanted[t].about = Categories
    BY <1>4, PolicyWants
  <2> QED
    BY <1>1, <1>2, <2>1, SamplesListed, MmapsListed, CommsListed, EventsListed, MetaListed
<1>5. CASE t = "event_record_total"
  <2>1. Meant[t] = "meta" /\ Wanted[t].columns = {"total_events"} /\ Wanted[t].about = Categories
    BY <1>5, TotalWants
  <2> QED
    BY <1>1, <1>2, <2>1, SamplesListed, MmapsListed, CommsListed, EventsListed, MetaListed
<1>6. CASE t = "mapped_files_build_ids"
  <2>1. Meant[t] = "mmaps" /\ Wanted[t].columns = {"filename", "build_id"} /\ Wanted[t].about = Categories
    BY <1>6, FilesWant
  <2> QED
    BY <1>1, <1>2, <2>1, SamplesListed, MmapsListed, CommsListed, EventsListed, MetaListed
<1>7. CASE t = "process_name"
  <2>1. Meant[t] = "comms" /\ Wanted[t].columns = {"comm"} /\ Wanted[t].about = Categories
    BY <1>7, NameWants
  <2> QED
    BY <1>1, <1>2, <2>1, SamplesListed, MmapsListed, CommsListed, EventsListed, MetaListed
<1> QED
  BY <1>3, <1>4, <1>5, <1>6, <1>7, TasksAre

\* So what the agent finds in its catalog is that table, and nothing else.
LEMMA OnlyMeantFits ==
  ASSUME IInv, step = "browse", task # Browse
  PROVE  Fitting = {Meant[task]} /\ Meant[task] \in Tables
<1>1. Catalog.functions = FunctionsView
  BY CatalogRead
<1>2. Fitting = {f \in Tables : Wanted[task].columns \subseteq Listed(f)
                             /\ FunctionsView[f].category \in Wanted[task].about}
  BY <1>1, ViewTables, Zenon DEF Fitting, Listed
<1>3. task \in Tasks
  BY DEF IInv, AgentInv
<1> QED
  BY <1>2, <1>3, MeantFits

\* What the rows of a whole capture are.
LEMMA RowsWritten ==
  ASSUME ReaderInv, reading = "end"
  PROVE  /\ Len(read) = 1 + Len(content.mmaps) + Len(content.samples)
         /\ Cardinality(EventRecords) = Len(read)
         /\ OfType(COMM) = {1} /\ read[1].row = content.comm
         /\ {read[i].row : i \in OfType(MMAP2)} = ToSet(content.mmaps)
         /\ Cardinality(OfType(SAMPLE)) = Len(content.samples)
<1> DEFINE m == Len(content.mmaps)
           n == Len(content.samples)
           w == Written(content)
<1>1. IsCapture(content)
  BY ContentIs DEF ReaderInv
<1>2. /\ Len(w) = 1 + m + n /\ w = [i \in 1..(1 + m + n) |-> w[i]]
      /\ w[1] = [type |-> COMM, row |-> content.comm]
      /\ \A i \in 1..m : w[1 + i] = [type |-> MMAP2, row |-> content.mmaps[i]]
      /\ \A i \in 1..n : w[1 + m + i] = [type |-> SAMPLE, row |-> SampleRow(content.samples[i])]
  BY <1>1, WrittenAre
<1>3. m \in Nat /\ n \in Nat /\ ToSet(content.mmaps) = {content.mmaps[i] : i \in 1..m}
  BY <1>1, SeqIs DEF IsCapture
<1>4. read = [i \in 1..Len(read) |-> w[i]] /\ Len(read) = Len(w)
  BY DEF ReaderInv
<1> HIDE DEF m, n, w
<1>5. Len(read) = 1 + m + n /\ DOMAIN read = 1..(1 + m + n) /\ \A i \in 1..(1 + m + n) : read[i] = w[i]
  BY <1>2, <1>4
<1>6. /\ read[1].type = COMM /\ read[1].row = content.comm
      /\ \A i \in 1..m : read[1 + i].type = MMAP2 /\ read[1 + i].row = content.mmaps[i]
      /\ \A i \in 1..n : read[1 + m + i].type = SAMPLE
  <2>1. /\ 1 \in 1..(1 + m + n) /\ \A i \in 1..m : 1 + i \in 1..(1 + m + n)
        /\ \A i \in 1..n : 1 + m + i \in 1..(1 + m + n)
    BY <1>3
  <2>2. read[1] = [type |-> COMM, row |-> content.comm]
    BY <1>2, <1>5, <2>1
  <2>3. \A i \in 1..m : read[1 + i] = [type |-> MMAP2, row |-> content.mmaps[i]]
    BY <1>2, <1>5, <2>1
  <2>4. \A i \in 1..n : read[1 + m + i] = [type |-> SAMPLE, row |-> SampleRow(content.samples[i])]
    BY <1>2, <1>5, <2>1
  <2>5. read[1].type = COMM /\ read[1].row = content.comm
    BY <2>2
  <2>6. ASSUME NEW i \in 1..m PROVE read[1 + i].type = MMAP2 /\ read[1 + i].row = content.mmaps[i]
    <3>1. read[1 + i] = [type |-> MMAP2, row |-> content.mmaps[i]]
      BY <2>3
    <3> QED
      BY <3>1
  <2>7. ASSUME NEW i \in 1..n PROVE read[1 + m + i].type = SAMPLE
    <3>1. read[1 + m + i] = [type |-> SAMPLE, row |-> SampleRow(content.samples[i])]
      BY <2>4
    <3> QED
      BY <3>1
  <2> QED
    BY <2>5, <2>6, <2>7
<1>7. \A k \in 1..(1 + m + n) :
        k = 1 \/ (\E i \in 1..m : k = 1 + i) \/ (\E i \in 1..n : k = 1 + m + i)
  BY <1>1, EachRecord DEF m, n
<1>8. COMM # MMAP2 /\ COMM # SAMPLE /\ MMAP2 # SAMPLE
  BY DEF COMM, MMAP2, SAMPLE
<1>9. OfType(COMM) = {1}
  <2>1. \A k \in 1..(1 + m + n) : read[k].type = COMM <=> k = 1
    BY <1>6, <1>7, <1>8
  <2> QED
    BY <1>3, <1>5, <2>1 DEF OfType
<1>10. {read[i].row : i \in OfType(MMAP2)} = ToSet(content.mmaps)
  <2> DEFINE rows == {read[i].row : i \in OfType(MMAP2)}
  <2>1. ASSUME NEW x \in rows PROVE x \in ToSet(content.mmaps)
    <3>1. PICK k \in 1..(1 + m + n) : read[k].type = MMAP2 /\ x = read[k].row
      BY <1>5 DEF OfType
    <3>2. PICK i \in 1..m : k = 1 + i
      BY <1>6, <1>7, <1>8, <3>1
    <3> QED
      BY <1>3, <1>6, <3>1, <3>2
  <2>2. ASSUME NEW x \in ToSet(content.mmaps) PROVE x \in rows
    <3>1. PICK i \in 1..m : x = content.mmaps[i]
      BY <1>3
    <3>2. 1 + i \in DOMAIN read
      BY <1>3, <1>5
    <3> QED
      BY <1>6, <3>1, <3>2 DEF OfType
  <2> QED
    BY <2>1, <2>2
<1>11. Cardinality(OfType(SAMPLE)) = n
  <2>1. \A k \in 1..(1 + m + n) : read[k].type = SAMPLE <=> k >= 2 + m
    <3>1. ASSUME NEW k \in 1..(1 + m + n), read[k].type = SAMPLE PROVE k >= 2 + m
      <4>1. PICK i \in 1..n : k = 1 + m + i
        BY <1>6, <1>7, <1>8, <3>1
      <4> QED
        BY <1>3, <4>1
    <3>2. ASSUME NEW k \in 1..(1 + m + n), k >= 2 + m PROVE read[k].type = SAMPLE
      <4>1. k # 1 /\ ~ \E i \in 1..m : k = 1 + i
        BY <1>3, <3>2
      <4> QED
        BY <1>6, <1>7, <4>1
    <3> QED
      BY <3>1, <3>2
  <2>2. OfType(SAMPLE) = (2 + m)..(1 + m + n)
    BY <1>3, <1>5, <2>1 DEF OfType
  <2>3. Cardinality((2 + m)..(1 + m + n)) = n
    <3>1. 2 + m \in Int /\ 1 + m + n \in Int
      BY <1>3
    <3> DEFINE a == 2 + m
               b == 1 + m + n
    <3>2. Cardinality(a..b) = IF a > b THEN 0 ELSE b - a + 1
      <4> HIDE DEF a, b
      <4> QED
        BY <3>1, FS_Interval DEF a, b
    <3>3. (a > b => n = 0) /\ b - a + 1 = n
      BY <1>3
    <3> HIDE DEF a, b
    <3> QED
      BY <3>2, <3>3 DEF a, b
  <2> QED
    BY <2>2, <2>3
<1>12. Cardinality(EventRecords) = 1 + m + n
  <2>1. COMM \in 0..63 /\ MMAP2 \in 0..63 /\ SAMPLE \in 0..63
    BY DEF COMM, MMAP2, SAMPLE
  <2>2. \A k \in 1..(1 + m + n) : read[k].type \in 0..63
    BY <1>6, <1>7, <2>1
  <2>3. EventRecords = 1..(1 + m + n)
    BY <1>5, <2>2 DEF EventRecords
  <2>4. Cardinality(1..(1 + m + n)) = 1 + m + n
    <3> DEFINE b == 1 + m + n
    <3>1. b \in Nat \ {0}
      BY <1>3
    <3> HIDE DEF b
    <3>2. Cardinality(1..b) = IF 1 > b THEN 0 ELSE b - 1 + 1
      BY <3>1, FS_Interval
    <3>3. Cardinality(1..b) = b
      BY <3>1, <3>2
    <3> QED
      BY <3>3 DEF b
  <2> QED
    BY <2>3, <2>4
<1> QED
  BY <1>5, <1>6, <1>9, <1>10, <1>11, <1>12 DEF m, n

LEMMA BuiltIsSchema == Built = Schema
  BY DEF Built, Schema

\* What a batch holds under a column of the whole schema is that column of the row.
LEMMA CellIs ==
  ASSUME bound = Schema[chosen], NEW row, NEW c \in BoundColumns
  PROVE  CellOf(row, c) = row[c]
<1>1. PICK i \in DOMAIN bound : bound[i].name = c
  BY DEF BoundColumns
<1>2. bound[IndexOf(bound, c)].name = c
  BY <1>1 DEF IndexOf
<1>3. Built[chosen] = bound
  BY BuiltIsSchema
<1> QED
  BY <1>2, <1>3 DEF CellOf

\* The query of a task over the function it is bound to is over that table's rows.
LEMMA SelectedRows ==
  ASSUME task \in Tasks, task # Browse, chosen = Meant[task], bound = Schema[chosen]
  PROVE  Selected =
           IF task = "sample_count" THEN Cardinality(DOMAIN Decoded[chosen])
           ELSE {[c \in Wanted[task].columns |-> Decoded[chosen][k][c]] : k \in DOMAIN Decoded[chosen]}
<1> DEFINE rows == Decoded[chosen]
           wanted == Wanted[task].columns
<1>1. wanted \subseteq BoundColumns
  <2>1. chosen \in Tables /\ wanted \subseteq Listed(chosen)
    BY MeantFits
  <2>2. \A i \in DOMAIN FunctionsView[chosen].result_columns :
          FunctionsView[chosen].result_columns[i] \in BoundColumns
    BY <2>1, NamesOccur DEF BoundColumns
  <2> QED
    BY <2>1, <2>2 DEF Listed, ToSet
<1>2. ASSUME NEW row PROVE [c \in wanted |-> CellOf(row, c)] = [c \in wanted |-> row[c]]
  BY <1>1, CellIs
<1>3. Selected = IF task = "sample_count" THEN Cardinality(DOMAIN rows)
                 ELSE {[c \in wanted |-> CellOf(rows[k], c)] : k \in DOMAIN rows}
  BY <1>1, Zenon DEF Selected
<1> HIDE DEF rows, wanted
<1>4. {[c \in wanted |-> CellOf(rows[k], c)] : k \in DOMAIN rows}
        = {[c \in wanted |-> rows[k][c]] : k \in DOMAIN rows}
  BY <1>2
<1>5. Selected = IF task = "sample_count" THEN Cardinality(DOMAIN rows)
                 ELSE {[c \in wanted |-> rows[k][c]] : k \in DOMAIN rows}
  BY <1>3, <1>4
<1> QED
  BY <1>5 DEF rows, wanted

\* What a task's query selects is what its reference says.
LEMMA SelectsReference ==
  ASSUME ReaderInv, reading = "end", task \in Tasks, task # Browse,
         chosen = Meant[task], bound = Schema[chosen]
  PROVE  Selected = Reference
<1>1. /\ Len(read) = 1 + Len(content.mmaps) + Len(content.samples)
      /\ Cardinality(EventRecords) = Len(read)
      /\ OfType(COMM) = {1} /\ read[1].row = content.comm
      /\ {read[i].row : i \in OfType(MMAP2)} = ToSet(content.mmaps)
      /\ Cardinality(OfType(SAMPLE)) = Len(content.samples)
  BY RowsWritten
<1>2. CASE task = "sample_count"
  <2>1. Selected = Cardinality(DOMAIN Decoded["samples"])
    BY <1>2, CountWants, SelectedRows
  <2>2. DOMAIN Decoded["samples"] = OfType(SAMPLE)
    BY DEF Decoded
  <2>3. Reference = Len(content.samples)
    BY <1>2 DEF Reference
  <2> QED
    BY <1>1, <2>1, <2>2, <2>3
<1>3. CASE task = "event_policy"
  <2> DEFINE event == [type |-> KindOf(AttrAt(0, 4)), sample_period |-> SamplePeriod]
             wanted == {"type", "sample_period"}
  <2>1. chosen = "events" /\ Wanted[task].columns = wanted /\ task # "sample_count"
    BY <1>3, PolicyWants
  <2>2. Decoded["events"] = <<event>>
    BY DEF Decoded
  <2>3. Selected = {[c \in wanted |-> <<event>>[k][c]] : k \in {1}}
    BY <2>1, <2>2, SelectedRows
  <2>4. Selected = {[c \in wanted |-> event[c]]}
    BY <2>3
  <2>5. KindOf(AttrAt(0, 4)) = "hardware" /\ SamplePeriod = 4000
    <3>1. AttrAt(0, 4) = 0 /\ AttrAt(16, 8) = 4000 /\ AttrAt(40, 8) = 0
      BY Sections DEF ReaderInv
    <3>2. ~ IsFrequency
      BY <3>1 DEF IsFrequency
    <3> QED
      BY <3>1, <3>2 DEF KindOf, SamplePeriod
  <2>6. [c \in wanted |-> event[c]] = [type |-> "hardware", sample_period |-> 4000]
    BY <2>5
  <2>7. Reference = {[type |-> "hardware", sample_period |-> 4000]}
    BY <1>3 DEF Reference
  <2> QED
    BY <2>4, <2>6, <2>7
<1>4. CASE task = "event_record_total"
  <2> DEFINE row == [total_events |-> Cardinality(EventRecords)]
             wanted == {"total_events"}
  <2>1. chosen = "meta" /\ Wanted[task].columns = wanted /\ task # "sample_count"
    BY <1>4, TotalWants
  <2>2. Decoded["meta"] = <<row>>
    BY DEF Decoded
  <2>3. Selected = {[c \in wanted |-> <<row>>[k][c]] : k \in {1}}
    BY <2>1, <2>2, SelectedRows
  <2>4. Selected = {[c \in wanted |-> row[c]]}
    BY <2>3
  <2>5. Reference = {[total_events |-> 1 + Len(content.mmaps) + Len(content.samples)]}
    BY <1>4 DEF Reference
  <2>6. [c \in wanted |-> row[c]] = row
    OBVIOUS
  <2> QED
    BY <1>1, <2>4, <2>5, <2>6
<1>5. CASE task = "mapped_files_build_ids"
  <2> DEFINE wanted == {"filename", "build_id"}
             Cells(m) == [filename |-> m.path, build_id |-> m.build_id]
  <2>1. chosen = "mmaps" /\ Wanted[task].columns = wanted /\ task # "sample_count"
    BY <1>5, FilesWant
  <2>2. Decoded["mmaps"] = [i \in OfType(MMAP2) |-> MmapRow(read[i].row)]
    BY DEF Decoded
  <2>3. ASSUME NEW m PROVE [c \in wanted |-> MmapRow(m)[c]] = Cells(m)
    BY DEF MmapRow
  <2>4. Selected = {[c \in wanted |-> MmapRow(read[i].row)[c]] : i \in OfType(MMAP2)}
    BY <2>1, <2>2, SelectedRows
  <2>5. Reference = {Cells(m) : m \in ToSet(content.mmaps)}
    BY <1>5 DEF Reference
  <2> HIDE DEF Cells, wanted
  <2>6. Selected = {Cells(read[i].row) : i \in OfType(MMAP2)}
    BY <2>3, <2>4
  <2> QED
    BY <1>1, <2>5, <2>6
<1>6. CASE task = "process_name"
  <2>1. chosen = "comms" /\ Wanted[task].columns = {"comm"} /\ task # "sample_count"
    BY <1>6, NameWants
  <2>2. Decoded["comms"] = [i \in {1} |-> read[i].row]
    BY <1>1 DEF Decoded
  <2>3. Selected = {[c \in {"comm"} |-> read[i].row[c]] : i \in {1}}
    BY <2>1, <2>2, SelectedRows
  <2>4. Selected = {[c \in {"comm"} |-> content.comm[c]]}
    BY <1>1, <2>3
  <2>5. Reference = {[comm |-> content.comm.comm]}
    BY <1>6 DEF Reference
  <2>6. [c \in {"comm"} |-> content.comm[c]] = [comm |-> content.comm.comm]
    OBVIOUS
  <2> QED
    BY <2>4, <2>5, <2>6
<1> QED
  BY <1>2, <1>3, <1>4, <1>5, <1>6, TasksAre

\* What the view lists is what the schemas are.
LEMMA BrowseReference ==
  ASSUME task = Browse
  PROVE  {<<f, FunctionsView[f].result_columns>> : f \in DOMAIN FunctionsView} = Reference
<1>1. Reference = {<<t, NamesOf(Schema[t])>> : t \in Tables}
  <2>1. /\ task # "sample_count" /\ task # "event_policy" /\ task # "event_record_total"
        /\ task # "mapped_files_build_ids" /\ task # "process_name"
    BY TasksAre
  <2>2. Reference = {<<t, [i \in DOMAIN Schema[t] |-> Schema[t][i].name]>> : t \in Tables}
    BY <2>1 DEF Reference
  <2> QED
    BY <2>2, Zenon DEF NamesOf
<1>2. \A t \in Tables : NamesOf(Schema[t]) = FunctionsView[t].result_columns
  BY EachAgrees DEF Agrees
<1> QED
  BY <1>1, <1>2, ViewTables

-----------------------------------------------------------------------------
(* The session.                                                            *)

LEMMA AgentKeepsSession == ASSUME IInv, AgentStep PROVE SessionInv'
<1>1. UNCHANGED bootVars
  BY AgentLeavesBoot
<1> USE <1>1 DEF IInv, SessionInv, bootVars
<1>2. CASE Attach
  BY <1>2 DEF Attach
<1>3. CASE AnswerFromCatalog
  BY <1>3 DEF AnswerFromCatalog
<1>4. CASE Choose
  <2>1. chosen' \in DOMAIN FunctionsView
    BY <1>4, CatalogRead DEF Choose, Fitting
  <2> QED
    BY <1>4, <2>1 DEF Choose
<1>5. CASE Bind
  BY <1>5 DEF Bind
<1>6. CASE Run
  BY <1>6 DEF Run, agentVars
<1>7. CASE Answer
  BY <1>7 DEF Answer
<1> QED
  BY <1>2, <1>3, <1>4, <1>5, <1>6, <1>7 DEF AgentStep

LEMMA AgentKeepsReader == ASSUME IInv, AgentStep PROVE ReaderInv'
<1>1. Run => ReaderStep
  BY DEF Run
<1>2. ~ Run => UNCHANGED fileVars
  BY DEF AgentStep, Attach, AnswerFromCatalog, Choose, Bind, Answer
<1> QED
  BY <1>1, <1>2, ReaderKeeps, ReaderUnchanged DEF IInv

\* The reference is a matter of the task and the capture.
LEMMA ReferenceStays == ASSUME task' = task, content' = content PROVE Reference' = Reference
  BY DEF Reference

LEMMA AgentKeeps == ASSUME IInv, AgentStep PROVE AgentInv'
<1> USE DEF IInv, AgentInv
<1>1. CASE Attach
  BY <1>1 DEF Attach
<1>2. CASE AnswerFromCatalog
  <2>1. answer' = {<<f, FunctionsView[f].result_columns>> : f \in DOMAIN FunctionsView}
    BY <1>2, CatalogRead DEF AnswerFromCatalog
  <2>2. answer' = Reference
    BY <1>2, <2>1, BrowseReference DEF AnswerFromCatalog
  <2>3. Reference' = Reference
    BY <1>2, ReferenceStays DEF AnswerFromCatalog, fileVars
  <2> QED
    BY <1>2, <2>2, <2>3 DEF AnswerFromCatalog
<1>3. CASE Choose
  <2>1. chosen' = Meant[task] /\ chosen' \in DOMAIN FunctionsView
    BY <1>3, OnlyMeantFits, ViewTables DEF Choose
  <2> QED
    BY <1>3, <2>1 DEF Choose
<1>4. CASE Bind
  BY <1>4 DEF Bind
<1>5. CASE Run
  BY <1>5 DEF Run, agentVars
<1>6. CASE Answer
  <2>1. /\ task \in Tasks /\ task # Browse /\ reading = "end"
        /\ chosen = Meant[task] /\ bound = Schema[chosen]
    BY <1>6 DEF Answer, SessionInv
  <2>2. answer' = Reference
    BY <1>6, <2>1, SelectsReference DEF Answer
  <2>3. Reference' = Reference
    BY <1>6, ReferenceStays DEF Answer, fileVars
  <2> QED
    BY <1>6, <2>1, <2>2, <2>3 DEF Answer
<1> QED
  BY <1>1, <1>2, <1>3, <1>4, <1>5, <1>6 DEF AgentStep

\* Coming up leaves the agent and its capture alone.
LEMMA OthersKeep == ASSUME IInv, UNCHANGED <<fileVars, agentVars>> PROVE ReaderInv' /\ AgentInv'
<1>1. ReaderInv'
  BY ReaderUnchanged DEF IInv
<1>2. Reference' = Reference
  BY ReferenceStays DEF fileVars, agentVars
<1>3. AgentInv'
  BY <1>2 DEF IInv, AgentInv, agentVars
<1> QED
  BY <1>1, <1>3

\* A worker that serves goes on serving.
LEMMA BootKeepsSession ==
  ASSUME IInv, UNCHANGED agentVars, InitStep \/ \E s \in Slots : BootStep(s)
  PROVE  SessionInv'
<1>1. thread[slot] = "serving" => thread'[slot] = "serving"
  BY DEF IInv, BootInv, BootTypes, SessionInv, InitStep, WasmInit, BootStep, Boot,
         Spawn, TestName, SetName, ReadName, BuildWorker
<1> QED
  BY <1>1 DEF IInv, SessionInv, agentVars

\* The inductive invariant: where the threads are, what the environment holds, what
\* the agent was told and where its reader is.
THEOREM IInvHolds == Spec => []IInv
<1>1. Init => IInv
  <2> SUFFICES ASSUME Init PROVE IInv
    OBVIOUS
  <2>1. BootInv /\ ReaderInv
    BY BootStart, ReaderStart DEF Init
  <2>2. SessionInv /\ AgentInv
    BY DEF Init, SessionInv, AgentInv
  <2> QED
    BY <2>1, <2>2 DEF IInv
<1>2. IInv /\ [Next]_vars => IInv'
  <2> SUFFICES ASSUME IInv, [Next]_vars PROVE IInv'
    OBVIOUS
  <2>1. CASE InitStep
    <3>1. UNCHANGED fileVars /\ UNCHANGED agentVars /\ WasmInit
      BY <2>1 DEF InitStep
    <3>2. BootInv' /\ SessionInv'
      BY <2>1, <3>1, WasmInitKeeps, BootKeepsSession DEF IInv
    <3>3. ReaderInv' /\ AgentInv'
      BY <3>1, OthersKeep
    <3> QED
      BY <3>2, <3>3 DEF IInv
  <2>2. CASE \E s \in Slots : BootStep(s)
    <3>1. PICK s \in Slots : BootStep(s)
      BY <2>2
    <3>2. UNCHANGED fileVars /\ UNCHANGED agentVars /\ Boot(s)
      BY <3>1 DEF BootStep
    <3>3. BootInv' /\ SessionInv'
      BY <2>2, <3>2, BootKeeps, BootKeepsSession DEF IInv
    <3>4. ReaderInv' /\ AgentInv'
      BY <3>2, OthersKeep
    <3> QED
      BY <3>3, <3>4 DEF IInv
  <2>3. CASE AgentStep
    BY <2>3, AgentLeavesBoot, BootUnchanged, AgentKeepsSession, AgentKeepsReader, AgentKeeps DEF IInv
  <2>4. CASE UNCHANGED vars
    <3>1. UNCHANGED bootVars /\ UNCHANGED fileVars /\ UNCHANGED agentVars
      BY <2>4 DEF vars
    <3>2. SessionInv'
      BY <3>1 DEF IInv, SessionInv, bootVars, agentVars
    <3> QED
      BY <3>1, <3>2, BootUnchanged, OthersKeep DEF IInv
  <2> QED
    BY <2>1, <2>2, <2>3, <2>4 DEF Next
<1> QED
  BY <1>1, <1>2, PTL DEF Spec

\* However the serve threads of a process interleave, their workers have one
\* catalog name, the override where it can be read (lib.rs:360-368).
THEOREM NamesAgree == Spec => []OneName
<1>1. IInv => OneName
  BY NamesAssumption
     DEF IInv, BootInv, BootTypes, Environment, Passed, NamedByOverride, OneName
<1> QED
  BY <1>1, IInvHolds, PTL

\* What a bind returns is what the view, the tag and the examples of the function
\* had said (table/*.rs, lib.rs:128-135, arrow_build.rs:53-96).
THEOREM AdvertisedBinds == Spec => []AdvertisedIsBound
<1>1. IInv => AdvertisedIsBound
  <2> SUFFICES ASSUME IInv, bound # Unset PROVE AdvertisedIsBound
    BY DEF AdvertisedIsBound
  <2>1. /\ chosen \in DOMAIN FunctionsView /\ bound = Schema[chosen] /\ step # "attach"
    BY DEF IInv, SessionInv
  <2>2. chosen \in Tables
    BY <2>1 DEF FunctionsView, Tables, Schema
  <2>3. /\ Catalog.functions = FunctionsView /\ Catalog.categories = Categories
        /\ Tags = Registered[chosen]
    BY <2>1, CatalogRead DEF Tags
  <2>4. Agrees(chosen)
    BY <2>2, EachAgrees
  <2> QED
    BY <2>1, <2>2, <2>3, <2>4, ExamplesSelect DEF AdvertisedIsBound, Agrees, NamesOf, SqlOf
<1> QED
  BY <1>1, IInvHolds, PTL

\* Every part of the session stays within what it may hold (lib.rs:52-135, 360-368).
THEOREM SessionTyped == Spec => []TypeOK
<1>1. IInv => TypeOK
  <2> SUFFICES ASSUME IInv PROVE TypeOK
    OBVIOUS
  <2>1. env \in Names \cup {Unset, NotUnicode} /\ \A s \in Slots : thread[s] \in Places
    BY NamesAssumption DEF IInv, BootInv, BootTypes, Environment
  <2>2. reading # "idle" => pos \in 0..DataEnd
    BY ReaderReads DEF IInv
  <2>3. step \in {"attach", "browse", "bind", "run", "answered"}
    BY DEF IInv, AgentInv
  <2>4. (chosen = Unset) = (step \in {"attach", "browse"} \/ task = Browse)
    BY ViewTables DEF IInv, AgentInv
  <2> QED
    BY <2>1, <2>2, <2>3, <2>4 DEF TypeOK, Places
<1> QED
  BY <1>1, IInvHolds, PTL

\* A reader that knows only the format finds in the bytes of any capture the records
\* that were written, all of them, and ends with the section (fixture.rs:137-260).
THEOREM RecordsRead == Spec => []ReadsWhatWasWritten
<1>1. IInv => ReadsWhatWasWritten
  BY ReaderReads DEF IInv
<1> QED
  BY <1>1, IInvHolds, PTL

\* Every record begins at a multiple of 8 (fixture.rs:137-148).
THEOREM RecordsStayAligned == Spec => []RecordsAligned
<1>1. IInv => RecordsAligned
  BY ReaderReads DEF IInv
<1> QED
  BY <1>1, IInvHolds, PTL

\* The catalog leads to a function for every published task, and what the agent reads
\* off the rows of that function, over any capture, is the answer the grader expects
\* (lib.rs:52-92, 128-135, arrow_build.rs:53-136).
THEOREM AnswersExpected == Spec => []TasksAnswered
<1>1. IInv => TasksAnswered
  BY OnlyMeantFits DEF IInv, AgentInv, TasksAnswered
<1> QED
  BY <1>1, IInvHolds, PTL
=============================================================================
