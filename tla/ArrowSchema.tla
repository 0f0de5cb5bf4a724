----------------------------- MODULE ArrowSchema -----------------------------
(***************************************************************************)
(* The five tables, described twice in arrow_build.rs of perf-worker: by   *)
(* the schema a bind returns and a batch must fit, and by the vector of    *)
(* column builders a batch is made of.  The two are matched by position.   *)
(***************************************************************************)
EXTENDS Naturals

ListTypes == {"List<UInt64>", "List<Utf8>"}

Columns(names, types) == [i \in DOMAIN names |-> [name |-> names[i], type |-> types[i]]]

Schema == [
  samples |-> Columns(
    <<"time", "pid", "tid", "cpu", "ip", "period", "event", "callchain">>,
    <<"UInt64", "Int32", "Int32", "UInt32", "UInt64", "UInt64", "Utf8", "List<UInt64>">>),
  mmaps |-> Columns(
    <<"pid", "tid", "addr", "len", "pgoff", "filename", "build_id">>,
    <<"Int32", "Int32", "UInt64", "UInt64", "UInt64", "Utf8", "Utf8">>),
  comms |-> Columns(
    <<"pid", "tid", "comm", "time">>,
    <<"Int32", "Int32", "Utf8", "UInt64">>),
  events |-> Columns(
    <<"event_id", "name", "type", "config", "sample_period", "sample_freq">>,
    <<"UInt64", "Utf8", "Utf8", "UInt64", "UInt64", "UInt64">>),
  meta |-> Columns(
    <<"hostname", "arch", "nrcpus", "perf_version", "cmdline", "total_events">>,
    <<"Utf8", "Utf8", "UInt32", "Utf8", "List<Utf8>", "UInt64">>)]

Tables == DOMAIN Schema

\* The row field and the builder type behind each position of the vec! that
\* build_samples, build_mmaps, ... return.
Built == [
  samples |-> Columns(
    <<"time", "pid", "tid", "cpu", "ip", "period", "event", "callchain">>,
    <<"UInt64", "Int32", "Int32", "UInt32", "UInt64", "UInt64", "Utf8", "List<UInt64>">>),
  mmaps |-> Columns(
    <<"pid", "tid", "addr", "len", "pgoff", "filename", "build_id">>,
    <<"Int32", "Int32", "UInt64", "UInt64", "UInt64", "Utf8", "Utf8">>),
  comms |-> Columns(
    <<"pid", "tid", "comm", "time">>,
    <<"Int32", "Int32", "Utf8", "UInt64">>),
  events |-> Columns(
    <<"event_id", "name", "type", "config", "sample_period", "sample_freq">>,
    <<"UInt64", "Utf8", "Utf8", "UInt64", "UInt64", "UInt64">>),
  meta |-> Columns(
    <<"hostname", "arch", "nrcpus", "perf_version", "cmdline", "total_events">>,
    <<"Utf8", "Utf8", "UInt32", "Utf8", "List<Utf8>", "UInt64">>)]

\* Where a schema has the column of that name.
IndexOf(full, name) == CHOOSE i \in DOMAIN full : full[i].name = name
=============================================================================
