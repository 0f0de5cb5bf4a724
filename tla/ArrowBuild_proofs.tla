-------------------------- MODULE ArrowBuild_proofs --------------------------
(***************************************************************************)
(* Proofs about ArrowBuild, for all rows, all output schemas made of       *)
(* columns of the table and every batch size.                              *)
(***************************************************************************)
EXTENDS ArrowBuild, SequenceTheorems, TLAPS

(***************************************************************************)
(* Schemas.                                                                *)
(***************************************************************************)

LEMMA BuiltIsSchema == Built = Schema
  BY DEF Built, Schema

LEMMA LenOfDomain ==
  ASSUME NEW S, NEW n \in Nat, NEW s \in [1..n -> S]
  PROVE  s \in Seq(S) /\ Len(s) = n
<1>1. s \in Seq(S)
  BY SeqDef
<1>2. DOMAIN s = 1..Len(s) /\ Len(s) \in Nat /\ DOMAIN s = 1..n
  BY <1>1, LenProperties
<1> QED
  BY <1>1, <1>2

\* A tuple of columns is a sequence; column names identify their columns.
WellFormed(full) ==
  /\ Len(full) \in Nat
  /\ DOMAIN full = 1..Len(full)
  /\ \A i, j \in DOMAIN full : full[i].name = full[j].name => i = j

LEMMA ColumnsWellFormed ==
  ASSUME NEW names, NEW types, NEW n \in Nat,
         DOMAIN names = 1..n,
         \A i, j \in 1..n : names[i] = names[j] => i = j
  PROVE  WellFormed(Columns(names, types))
<1> DEFINE full == Columns(names, types)
<1>1. full = [i \in 1..n |-> [name |-> names[i], type |-> types[i]]]
  BY DEF Columns
<1>2. full \in [1..n -> {[name |-> names[i], type |-> types[i]] : i \in 1..n}]
  BY <1>1
<1>3. Len(full) = n /\ DOMAIN full = 1..n
  BY <1>1, <1>2, LenOfDomain
<1>4. \A i \in 1..n : full[i].name = names[i]
  BY <1>1
<1> HIDE DEF full
<1>6. WellFormed(full)
  BY <1>3, <1>4 DEF WellFormed
<1> QED
  BY <1>6 DEF full

LEMMA SchemaWellFormed == \A t \in Tables : WellFormed(Schema[t])
<1>1. WellFormed(Schema.samples)
  <2> DEFINE names == <<"time", "pid", "tid", "cpu", "ip", "period", "event", "callchain">>
  <2>1. DOMAIN names = 1..8
    OBVIOUS
  <2>2. \A i, j \in 1..8 : names[i] = names[j] => i = j
    OBVIOUS
  <2> QED
    BY <2>1, <2>2, ColumnsWellFormed DEF Schema
<1>2. WellFormed(Schema.mmaps)
  <2> DEFINE names == <<"pid", "tid", "addr", "len", "pgoff", "filename", "build_id">>
  <2>1. DOMAIN names = 1..7
    OBVIOUS
  <2>2. \A i, j \in 1..7 : names[i] = names[j] => i = j
    OBVIOUS
  <2> QED
    BY <2>1, <2>2, ColumnsWellFormed DEF Schema
<1>3. WellFormed(Schema.comms)
  <2> DEFINE names == <<"pid", "tid", "comm", "time">>
  <2>1. DOMAIN names = 1..4
    OBVIOUS
  <2>2. \A i, j \in 1..4 : names[i] = names[j] => i = j
    OBVIOUS
  <2> QED
    BY <2>1, <2>2, ColumnsWellFormed DEF Schema
<1>4. WellFormed(Schema.events)
  <2> DEFINE names == <<"event_id", "name", "type", "config", "sample_period", "sample_freq">>
  <2>1. DOMAIN names = 1..6
    OBVIOUS
  <2>2. \A i, j \in 1..6 : names[i] = names[j] => i = j
    OBVIOUS
  <2> QED
    BY <2>1, <2>2, ColumnsWellFormed DEF Schema
<1>5. WellFormed(Schema.meta)
  <2> DEFINE names == <<"hostname", "arch", "nrcpus", "perf_version", "cmdline", "total_events">>
  <2>1. DOMAIN names = 1..6
    OBVIOUS
  <2>2. \A i, j \in 1..6 : names[i] = names[j] => i = j
    OBVIOUS
  <2> QED
    BY <2>1, <2>2, ColumnsWellFormed DEF Schema
<1>6. Tables = {"samples", "mmaps", "comms", "events", "meta"}
  BY DEF Tables, Schema
<1> QED
  BY <1>1, <1>2, <1>3, <1>4, <1>5, <1>6
(***************************************************************************)
(* Arrays.                                                                 *)
(***************************************************************************)

\* Where list k of a list array ends.
End(array, k) == IF k = 0 THEN 0 ELSE array.ends[k]

\* A list array holds n lists, list k being v[k].
HoldsLists(array, v, n) ==
  /\ array.values \in Seq(Items)
  /\ array.ends \in Seq(Nat) /\ Len(array.ends) = n
  /\ array.valid \in Seq(BOOLEAN) /\ Len(array.valid) = n
  /\ End(array, n) = Len(array.values)
  /\ \A k \in 1..n :
       /\ End(array, k - 1) <= End(array, k) /\ End(array, k) <= Len(array.values)
       /\ array.valid[k] <=> v[k] # None
       /\ v[k] # None => SubSeq(array.values, End(array, k - 1) + 1, End(array, k)) = v[k]

\* Any other array holds n values, the k-th being v[k].
HoldsValues(array, v, n) ==
  /\ array \in Seq({v[k] : k \in 1..n})
  /\ Len(array) = n
  /\ \A k \in 1..n : array[k] = v[k]

Holds(array, type, v, n) ==
  IF type \in ListTypes THEN HoldsLists(array, v, n) ELSE HoldsValues(array, v, n)

LEMMA EmptyHolds ==
  ASSUME NEW type, NEW v
  PROVE  Holds(EmptyArray(type), type, v, 0)
<1>1. CASE type \in ListTypes
  <2>1. EmptyArray(type) = [values |-> <<>>, ends |-> <<>>, valid |-> <<>>]
    BY <1>1 DEF EmptyArray
  <2>2. /\ <<>> \in Seq(Items) /\ <<>> \in Seq(Nat) /\ <<>> \in Seq(BOOLEAN)
        /\ Len(<<>>) = 0
    BY EmptySeq
  <2> QED
    BY <1>1, <2>1, <2>2 DEF Holds, HoldsLists, End
<1>2. CASE type \notin ListTypes
  BY <1>2, EmptySeq DEF Holds, HoldsValues, EmptyArray
<1> QED
  BY <1>1, <1>2

LEMMA SlotsHeld ==
  ASSUME NEW array, NEW type, NEW v, NEW n, Holds(array, type, v, n)
  PROVE  Slots(array, type) = n
  BY DEF Holds, HoldsLists, HoldsValues, Slots

LEMMA CellHeld ==
  ASSUME NEW array, NEW type, NEW v, NEW n \in Nat, Holds(array, type, v, n),
         NEW k \in 1..n
  PROVE  Cell(array, type, k) = v[k]
<1>1. CASE type \notin ListTypes
  <2>1. array[k] = v[k]
    BY <1>1 DEF Holds, HoldsValues
  <2> QED
    BY <1>1, <2>1, Zenon DEF Cell
<1>2. CASE type \in ListTypes
  <2>1. HoldsLists(array, v, n)
    BY <1>2 DEF Holds
  <2>2. array.valid[k] <=> v[k] # None
    BY <2>1, Zenon DEF HoldsLists
  <2>3. CASE v[k] = None
    BY <1>2, <2>2, <2>3, Zenon DEF Cell
  <2>4. CASE v[k] # None
    <3>1. SubSeq(array.values, End(array, k - 1) + 1, End(array, k)) = v[k]
      BY <2>1, <2>4, Zenon DEF HoldsLists
    <3>2. End(array, k) = array.ends[k]
      BY DEF End
    <3>3. End(array, k - 1) + 1 = IF k = 1 THEN 1 ELSE array.ends[k - 1] + 1
      BY DEF End
    <3>4. Cell(array, type, k)
            = SubSeq(array.values, IF k = 1 THEN 1 ELSE array.ends[k - 1] + 1, array.ends[k])
      BY <1>2, <2>2, <2>4, Zenon DEF Cell
    <3> QED
      BY <3>1, <3>2, <3>3, <3>4
  <2> QED
    BY <2>3, <2>4
<1> QED
  BY <1>1, <1>2

\* The lists already there keep their slots, and the new one follows them.
LEMMA SubSeqOfConcat ==
  ASSUME NEW S, NEW s \in Seq(S), NEW t \in Seq(S)
  PROVE  /\ \A m \in Nat \ {0}, n \in 0..Len(s) : SubSeq(s \o t, m, n) = SubSeq(s, m, n)
         /\ SubSeq(s \o t, Len(s) + 1, Len(s) + Len(t)) = t
<1>1. Len(s) \in Nat /\ Len(t) \in Nat
  BY LenProperties
<1>2. ASSUME NEW m \in Nat \ {0}, NEW n \in 0..Len(s)
      PROVE  SubSeq(s \o t, m, n) = SubSeq(s, m, n)
  <2>1. CASE n < m
    BY <1>1, <2>1, SubSeqEmpty
  <2>2. CASE m <= n
    <3>1. m \in 1..Len(s) /\ n \in 1..Len(s)
      BY <1>1, <2>2
    <3> QED
      BY <3>1, SubSeqOfConcat1
  <2> QED
    BY <1>1, <2>1, <2>2
<1>3. SubSeq(s \o t, Len(s) + 1, Len(s) + Len(t)) = t
  <2>1. CASE t = <<>>
    BY <1>1, <2>1, SubSeqEmpty, EmptySeq
  <2>2. CASE t # <<>>
    <3>1. Len(t) \in Nat \ {0}
      BY <2>2, EmptySeq
    <3>2. /\ Len(s) + 1 \in Len(s) + 1 .. Len(s) + Len(t)
          /\ Len(s) + Len(t) \in Len(s) + 1 .. Len(s) + Len(t)
      BY <1>1, <3>1
    <3>3. SubSeq(s \o t, Len(s) + 1, Len(s) + Len(t))
            = SubSeq(t, Len(s) + 1 - Len(s), Len(s) + Len(t) - Len(s))
      BY <3>2, SubSeqOfConcat2
    <3>4. Len(s) + 1 - Len(s) = 1 /\ Len(s) + Len(t) - Len(s) = Len(t)
      BY <1>1
    <3> QED
      BY <3>3, <3>4, SubSeqFull
  <2> QED
    BY <2>1, <2>2
<1> QED
  BY <1>2, <1>3

LEMMA AppendedHolds ==
  ASSUME NEW array, NEW type, NEW v, NEW n \in Nat, Holds(array, type, v, n),
         NEW e, e = v[n + 1],
         type \in ListTypes => e = None \/ e \in Seq(Items)
  PROVE  Holds(Appended(array, type, e), type, v, n + 1)
<1>1. CASE type \notin ListTypes
  <2> DEFINE S == {v[k] : k \in 1..n + 1}
  <2>1. HoldsValues(array, v, n)
    BY <1>1 DEF Holds
  <2>2. array \in Seq(S) /\ e \in S
    <3>1. {v[k] : k \in 1..n} \subseteq S
      OBVIOUS
    <3> QED
      BY <2>1, <3>1, SeqMonotonic DEF HoldsValues
  <2>3. /\ Append(array, e) \in Seq(S)
        /\ Len(Append(array, e)) = n + 1
        /\ \A k \in 1..n : Append(array, e)[k] = array[k]
        /\ Append(array, e)[n + 1] = e
    BY <2>1, <2>2, AppendProperties DEF HoldsValues
  <2>4. \A k \in 1..n + 1 : Append(array, e)[k] = v[k]
    BY <2>1, <2>3 DEF HoldsValues
  <2> QED
    BY <1>1, <2>3, <2>4 DEF Holds, HoldsValues, Appended
<1>2. CASE type \in ListTypes
  <2> DEFINE items == IF e = None THEN <<>> ELSE e
             new == Appended(array, type, e)
             last == Len(array.values) + Len(items)
  <2>1. HoldsLists(array, v, n)
    BY <1>2 DEF Holds
  <2>2. items \in Seq(Items)
    BY <1>2, EmptySeq
  <2>3. /\ new.values = array.values \o items
        /\ new.ends = Append(array.ends, last)
        /\ new.valid = Append(array.valid, e # None)
    BY <1>2 DEF Appended
  <2> HIDE DEF new, items, last
  <2>4. /\ array.values \in Seq(Items) /\ Len(array.values) \in Nat
        /\ Len(items) \in Nat /\ last \in Nat
    <3>1. array.values \in Seq(Items)
      BY <2>1 DEF HoldsLists
    <3>2. Len(array.values) \in Nat /\ Len(items) \in Nat
      BY <2>2, <3>1, LenProperties
    <3> QED
      BY <3>1, <3>2 DEF last
  <2>5. new.values \in Seq(Items) /\ Len(new.values) = last
    BY <2>2, <2>3, <2>4, ConcatProperties DEF last
  <2>6. /\ new.ends \in Seq(Nat) /\ Len(new.ends) = n + 1
        /\ \A k \in 1..n : new.ends[k] = array.ends[k]
        /\ new.ends[n + 1] = last
    <3>1. array.ends \in Seq(Nat) /\ Len(array.ends) = n
      BY <2>1 DEF HoldsLists
    <3> QED
      BY <3>1, <2>3, <2>4, AppendProperties
  <2>7. /\ new.valid \in Seq(BOOLEAN) /\ Len(new.valid) = n + 1
        /\ \A k \in 1..n : new.valid[k] = array.valid[k]
        /\ new.valid[n + 1] = (e # None)
    <3>1. (e # None) \in BOOLEAN
      BY Zenon
    <3>2. array.valid \in Seq(BOOLEAN) /\ Len(array.valid) = n
      BY <2>1 DEF HoldsLists
    <3> QED
      BY <3>1, <3>2, <2>3, AppendProperties
  <2>8. \A k \in 0..n : End(new, k) = End(array, k)
    BY <2>6 DEF End
  <2>9. End(new, n + 1) = last /\ End(array, n) = Len(array.values)
    <3>1. End(array, n) = Len(array.values)
      BY <2>1 DEF HoldsLists
    <3> QED
      BY <3>1, <2>6 DEF End
  <2>10. \A k \in 0..n : End(array, k) \in 0..Len(array.values)
    <3>1. \A k \in 1..n : array.ends[k] \in Nat
      BY <2>1, ElementOfSeq DEF HoldsLists
    <3> QED
      BY <2>1, <2>4, <3>1 DEF HoldsLists, End
  <2>11. ASSUME NEW k \in 1..n + 1
         PROVE  /\ End(new, k - 1) <= End(new, k) /\ End(new, k) <= Len(new.values)
                /\ new.valid[k] <=> v[k] # None
                /\ v[k] # None => SubSeq(new.values, End(new, k - 1) + 1, End(new, k)) = v[k]
    <3>1. CASE k \in 1..n
      <4>1. End(new, k - 1) = End(array, k - 1) /\ End(new, k) = End(array, k)
        BY <2>8, <3>1
      <4>2. /\ End(array, k - 1) <= End(array, k)
            /\ v[k] # None => SubSeq(array.values, End(array, k - 1) + 1, End(array, k)) = v[k]
        BY <2>1, <3>1 DEF HoldsLists
      <4>3. End(array, k) <= Len(new.values)
        BY <2>4, <2>5, <2>10, <3>1 DEF last
      <4>4. SubSeq(new.values, End(array, k - 1) + 1, End(array, k))
              = SubSeq(array.values, End(array, k - 1) + 1, End(array, k))
        <5>1. End(array, k - 1) + 1 \in Nat \ {0} /\ End(array, k) \in 0..Len(array.values)
          BY <2>4, <2>10, <3>1
        <5>2. QED
          <6>1. \A m \in Nat \ {0}, p \in 0..Len(array.values) :
                  SubSeq(array.values \o items, m, p) = SubSeq(array.values, m, p)
            BY <2>2, <2>4, SubSeqOfConcat
          <6> QED
            BY <5>1, <6>1, <2>3
      <4>5. new.valid[k] <=> v[k] # None
        BY <2>1, <2>7, <3>1, Zenon DEF HoldsLists
      <4> QED
        BY <4>1, <4>2, <4>3, <4>4, <4>5
    <3>2. CASE k = n + 1
      <4>1. End(new, k - 1) = Len(array.values) /\ End(new, k) = last
        BY <2>8, <2>9, <3>2
      <4>2. End(new, k - 1) <= End(new, k) /\ End(new, k) <= Len(new.values)
        BY <4>1, <2>4, <2>5 DEF last
      <4>3. new.valid[k] <=> v[k] # None
        BY <2>7, <3>2, Zenon
      <4>4. v[k] # None => SubSeq(new.values, End(new, k - 1) + 1, End(new, k)) = v[k]
        <5>1. SubSeq(new.values, Len(array.values) + 1, last) = items
          <6>1. SubSeq(array.values \o items, Len(array.values) + 1, Len(array.values) + Len(items))
                  = items
            BY <2>2, <2>4, SubSeqOfConcat
          <6> QED
            BY <6>1, <2>3 DEF last
        <5> QED
          BY <4>1, <5>1, <3>2 DEF items
      <4> QED
        BY <4>2, <4>3, <4>4
    <3> QED
      BY <3>1, <3>2
  <2>12. HoldsLists(new, v, n + 1)
    BY <2>5, <2>6, <2>7, <2>9, <2>11 DEF HoldsLists
  <2> QED
    BY <1>2, <2>12 DEF Holds, new
<1> QED
  BY <1>1, <1>2
(***************************************************************************)
(* The invariant.                                                          *)
(***************************************************************************)

\* The decoded values of a column from the cursor on.
Column(name) == [k \in Nat |-> rows[cursor + k][name]]

\* Row k as the consumer should read it.
Read(k) ==
  [name \in {schema[i].name : i \in DOMAIN schema} |->
     rows[k][Carried(IndexOf(schema, name)).name]]

Typed ==
  /\ table \in Tables /\ rows \in RowLists[table] /\ schema \in OutSchemas[table]
  /\ phase \in {"scan", "fill", "done", "failed"}
  /\ cursor \in 0..RowCount
  /\ filled \in 0..BatchRows

\* Every builder holds the rows appended to this batch.
Filling ==
  phase = "fill" =>
    /\ filled <= BatchLen
    /\ cols = [i \in DOMAIN Schema[table] |-> cols[i]]
    /\ \A i \in DOMAIN Schema[table] :
         Holds(cols[i], Schema[table][i].type, Column(Schema[table][i].name), filled)

Delivered == delivered = [k \in 1..cursor |-> Read(k)]

\* A schema that does not fit has not got past its first batch.
Rejected == (phase = "failed" => Misfit) /\ (Misfit => cursor = 0)

IInv == Typed /\ Filling /\ Delivered /\ Rejected

LEMMA Counted ==
  ASSUME Typed
  PROVE  /\ RowCount = Len(rows) /\ RowCount \in Nat
         /\ cursor \in Nat /\ filled \in Nat /\ BatchRows \in Nat \ {0}
         /\ BatchLen \in Int /\ BatchLen <= BatchRows /\ cursor + BatchLen <= RowCount
         /\ BatchLen \in Nat
<1>1. RowCount = Len(rows) /\ RowCount \in Nat
  BY RowListsAssumption DEF Typed, RowCount
<1>2. cursor \in Nat /\ filled \in Nat /\ BatchRows \in Nat \ {0} /\ cursor <= RowCount
  BY <1>1, BatchRowsAssumption DEF Typed
<1> QED
  BY <1>1, <1>2 DEF BatchLen

LEMMA OutSchema ==
  ASSUME Typed
  PROVE  /\ WellFormed(Schema[table])
         /\ Len(schema) \in Nat /\ DOMAIN schema = 1..Len(schema)
         /\ \A c \in DOMAIN schema : \E d \in DOMAIN Schema[table] : schema[c] = Schema[table][d]
  BY SchemaWellFormed, OutSchemasAssumption DEF Typed

LEMMA IndexFound ==
  ASSUME NEW full, NEW i \in DOMAIN full
  PROVE  /\ IndexOf(full, full[i].name) \in DOMAIN full
         /\ full[IndexOf(full, full[i].name)].name = full[i].name
  BY DEF IndexOf

\* What project() hands to try_new: for each field the column carried there.
LEMMA Projected ==
  ASSUME Typed, Filling, phase = "fill"
  PROVE  /\ Len(Arrays) = Len(schema)
         /\ \A i \in DOMAIN schema :
              /\ ProjectedTypes[i] = Carried(i).type
              /\ Holds(Arrays[i], Carried(i).type, Column(Carried(i).name), filled)
<1> DEFINE full == Schema[table]
           types == [i \in DOMAIN cols |-> Built[table][i].type]
<1>1. WellFormed(full)
  BY OutSchema
<1>2. /\ DOMAIN cols = DOMAIN full
      /\ types = [i \in DOMAIN full |-> full[i].type]
      /\ \A i \in DOMAIN full : Holds(cols[i], full[i].type, Column(full[i].name), filled)
  BY BuiltIsSchema DEF Filling
<1>3. Arrays = Project(schema, full, cols) /\ ProjectedTypes = Project(schema, full, types)
  BY DEF Arrays, ProjectedTypes
<1> HIDE DEF types
<1>4. CASE Len(schema) = Len(full)
  <2>1. \A i \in DOMAIN schema : i \in DOMAIN full /\ Carried(i) = full[i]
    BY <1>1, <1>4, OutSchema DEF Carried, Permuted, WellFormed
  <2>2. Arrays = cols /\ ProjectedTypes = types
    BY <1>3, <1>4 DEF Project
  <2>3. Len(cols) = Len(full)
    <3>1. cols = [i \in 1..Len(full) |-> cols[i]] /\ Len(full) \in Nat
      BY <1>1 DEF Filling, WellFormed
    <3>2. cols \in [1..Len(full) -> {cols[i] : i \in 1..Len(full)}]
      BY <3>1
    <3> QED
      BY <3>1, <3>2, LenOfDomain
  <2>4. ASSUME NEW i \in DOMAIN schema
        PROVE  /\ ProjectedTypes[i] = Carried(i).type
               /\ Holds(Arrays[i], Carried(i).type, Column(Carried(i).name), filled)
    <3>1. i \in DOMAIN full /\ Carried(i) = full[i]
      BY <2>1
    <3>2. types[i] = full[i].type /\ Holds(cols[i], full[i].type, Column(full[i].name), filled)
      BY <1>2, <3>1
    <3> QED
      BY <2>2, <3>1, <3>2
  <2> QED
    BY <1>4, <2>2, <2>3, <2>4
<1>5. CASE Len(schema) # Len(full)
  <2> DEFINE picked == [i \in DOMAIN schema |-> cols[IndexOf(full, schema[i].name)]]
  <2>1. Arrays = picked
    BY <1>3, <1>5 DEF Project
  <2>2. ProjectedTypes = [i \in DOMAIN schema |-> types[IndexOf(full, schema[i].name)]]
    BY <1>3, <1>5 DEF Project
  <2>3. Len(picked) = Len(schema)
    <3>1. Len(schema) \in Nat /\ DOMAIN schema = 1..Len(schema)
      BY OutSchema
    <3>2. picked \in [1..Len(schema) -> {picked[i] : i \in 1..Len(schema)}]
      BY <3>1
    <3> HIDE DEF picked
    <3> QED
      BY <3>1, <3>2, LenOfDomain
  <2>4. ASSUME NEW i \in DOMAIN schema
        PROVE  /\ ProjectedTypes[i] = Carried(i).type
               /\ Holds(Arrays[i], Carried(i).type, Column(Carried(i).name), filled)
    <3>1. PICK d \in DOMAIN full : schema[i] = full[d]
      BY OutSchema
    <3>2. IndexOf(full, schema[i].name) = d
      <4>1. /\ IndexOf(full, full[d].name) \in DOMAIN full
            /\ full[IndexOf(full, full[d].name)].name = full[d].name
        BY IndexFound
      <4> QED
        BY <1>1, <3>1, <4>1 DEF WellFormed
    <3>3. ProjectedTypes[i] = types[d] /\ Arrays[i] = cols[d]
      BY <2>1, <2>2, <3>2
    <3>4. Carried(i) = full[d]
      BY <1>5, <3>1 DEF Carried, Permuted
    <3> QED
      BY <1>2, <3>3, <3>4
  <2> QED
    BY <2>1, <2>3, <2>4
<1> QED
  BY <1>4, <1>5

\* try_new accepts exactly what fits.
LEMMA Accepts ==
  ASSUME Typed, Filling, phase = "fill"
  PROVE  TryNew(Arrays, ProjectedTypes) <=> ~Misfit
<1>1. /\ Len(Arrays) = Len(schema)
      /\ \A i \in DOMAIN schema :
           /\ ProjectedTypes[i] = Carried(i).type
           /\ Holds(Arrays[i], Carried(i).type, Column(Carried(i).name), filled)
  BY Projected
<1>2. \A i \in DOMAIN schema : Slots(Arrays[i], ProjectedTypes[i]) = filled
  BY <1>1, SlotsHeld
<1>3. TryNew(Arrays, ProjectedTypes)
        <=> schema # <<>> /\ \A i \in DOMAIN schema : ProjectedTypes[i] = schema[i].type
  BY <1>1, <1>2 DEF TryNew
<1>4. (\A i \in DOMAIN schema : ProjectedTypes[i] = schema[i].type)
        <=> (\A i \in DOMAIN schema : Carried(i).type = schema[i].type)
  BY <1>1
<1> QED
  BY <1>3, <1>4, Zenon DEF Misfit

-----------------------------------------------------------------------------
LEMMA InitIInv == Init => IInv
<1> SUFFICES ASSUME Init PROVE IInv
  OBVIOUS
<1> USE DEF Init
<1>1. RowCount \in Nat
  BY RowListsAssumption DEF RowCount
<1>2. Typed
  BY <1>1, BatchRowsAssumption DEF Typed
<1>3. delivered = [k \in 1..cursor |-> Read(k)]
  OBVIOUS
<1> QED
  BY <1>2, <1>3 DEF IInv, Filling, Delivered, Rejected

LEMMA BeginBatchIInv == IInv /\ BeginBatch => IInv'
<1> SUFFICES ASSUME IInv, BeginBatch PROVE IInv'
  OBVIOUS
<1> USE DEF IInv, BeginBatch
<1>1. Typed'
  BY BatchRowsAssumption DEF Typed, RowCount
<1>2. Filling'
  <2>1. \A i \in DOMAIN Schema[table] :
          /\ cols'[i] = EmptyArray(Schema[table][i].type)
          /\ Holds(cols'[i], Schema[table][i].type, Column(Schema[table][i].name)', 0)
    BY BuiltIsSchema, EmptyHolds
  <2>2. cols' = [i \in DOMAIN Schema[table] |-> cols'[i]]
    BY BuiltIsSchema
  <2>3. 0 <= BatchLen'
    BY Counted DEF BatchLen, RowCount
  <2> QED
    BY <2>1, <2>2, <2>3 DEF Filling
<1>3. Delivered'
  BY DEF Delivered, Read, Carried, Permuted
<1>4. Rejected'
  BY DEF Rejected, Misfit, Carried, Permuted
<1> QED
  BY <1>1, <1>2, <1>3, <1>4

LEMMA AppendRowIInv == IInv /\ AppendRow => IInv'
<1> SUFFICES ASSUME IInv, AppendRow PROVE IInv'
  OBVIOUS
<1> DEFINE full == Schema[table]
           r == rows[cursor + filled + 1]
<1>1. /\ phase = "fill" /\ phase' = phase /\ filled < BatchLen /\ filled' = filled + 1
      /\ table' = table /\ rows' = rows /\ schema' = schema /\ cursor' = cursor
      /\ delivered' = delivered
      /\ cols' = [i \in DOMAIN cols |-> Appended(cols[i], full[i].type, r[full[i].name])]
  BY BuiltIsSchema DEF AppendRow
<1>2. Typed /\ Filling
  BY DEF IInv
<1>3. /\ RowCount = Len(rows) /\ RowCount \in Nat /\ cursor \in Nat /\ filled \in Nat
      /\ BatchRows \in Nat /\ BatchLen \in Nat /\ BatchLen <= BatchRows
      /\ cursor + BatchLen <= RowCount
  BY <1>2, Counted
<1>4. Typed'
  BY <1>1, <1>2, <1>3 DEF Typed, RowCount
<1>5. Filling'
  <2>1. DOMAIN cols = DOMAIN full
    BY <1>1, <1>2 DEF Filling
  <2>2. cols' = [i \in DOMAIN full |-> cols'[i]]
    BY <1>1, <2>1
  <2>3. filled' <= BatchLen'
    BY <1>1, <1>3 DEF BatchLen, RowCount
  <2>4. ASSUME NEW i \in DOMAIN full
        PROVE  Holds(cols'[i], full[i].type, Column(full[i].name)', filled')
    <3> DEFINE v == Column(full[i].name)
               e == r[full[i].name]
    <3>1. Holds(cols[i], full[i].type, v, filled)
      BY <1>1, <1>2 DEF Filling
    <3>2. e = v[filled + 1]
      BY <1>3 DEF Column
    <3>3. full[i].type \in ListTypes => e = None \/ e \in Seq(Items)
      <4>1. cursor + filled + 1 \in 1..Len(rows)
        BY <1>1, <1>3
      <4> QED
        BY <1>2, <4>1, RowListsAssumption DEF Typed
    <3>4. cols'[i] = Appended(cols[i], full[i].type, e) /\ filled' = filled + 1
      BY <1>1, <2>1
    <3>5. Column(full[i].name)' = v
      BY <1>1 DEF Column
    <3> HIDE DEF v, e
    <3> QED
      BY <1>3, <3>1, <3>2, <3>3, <3>4, <3>5, AppendedHolds
  <2> QED
    BY <1>1, <2>2, <2>3, <2>4 DEF Filling
<1>6. Delivered'
  BY <1>1 DEF IInv, Delivered, Read, Carried, Permuted
<1>7. Rejected'
  BY <1>1 DEF IInv, Rejected, Misfit, Carried, Permuted
<1> QED
  BY <1>4, <1>5, <1>6, <1>7 DEF IInv

LEMMA EmitBatchIInv == IInv /\ EmitBatch => IInv'
<1> SUFFICES ASSUME IInv, EmitBatch PROVE IInv'
  OBVIOUS
<1> DEFINE n == BatchLen
           batch == [k \in 1..n |-> ReadRow(k)]
<1>1. /\ phase = "fill" /\ phase' = "scan" /\ filled = n /\ filled' = 0
      /\ table' = table /\ rows' = rows /\ schema' = schema /\ cursor' = cursor + n
      /\ TryNew(Arrays, ProjectedTypes)
      /\ delivered' = delivered \o batch
  BY DEF EmitBatch
<1>2. Typed /\ Filling /\ Delivered
  BY DEF IInv
<1>3. /\ RowCount = Len(rows) /\ RowCount \in Nat /\ cursor \in Nat
      /\ BatchRows \in Nat \ {0} /\ n \in Nat /\ cursor + n <= RowCount
  BY <1>2, Counted
<1> HIDE DEF n
<1>4. Typed'
  BY <1>1, <1>2, <1>3 DEF Typed, RowCount
<1>5. ~Misfit
  BY <1>1, <1>2, Accepts
<1>6. ASSUME NEW k \in 1..n PROVE ReadRow(k) = Read(cursor + k)
  <2>1. ASSUME NEW i \in DOMAIN schema
        PROVE  LET j == IndexOf(schema, schema[i].name)
               IN  Cell(Arrays[j], ProjectedTypes[j], k) = rows[cursor + k][Carried(j).name]
    <3> DEFINE j == IndexOf(schema, schema[i].name)
    <3>1. j \in DOMAIN schema
      BY IndexFound
    <3>2. /\ ProjectedTypes[j] = Carried(j).type
          /\ Holds(Arrays[j], Carried(j).type, Column(Carried(j).name), n)
      BY <1>1, <1>2, <3>1, Projected
    <3> HIDE DEF j
    <3>3. Cell(Arrays[j], ProjectedTypes[j], k) = Column(Carried(j).name)[k]
      BY <1>3, <3>2, CellHeld
    <3>4. Column(Carried(j).name)[k] = rows[cursor + k][Carried(j).name]
      BY DEF Column
    <3> QED
      BY <3>3, <3>4 DEF j
  <2> QED
    BY <2>1 DEF ReadRow, Read
<1>7. delivered' = [k \in 1..cursor' |-> Read(k)]
  <2> DEFINE S == {Read(k) : k \in 1..cursor + n}
  <2>1. /\ delivered \in Seq(S) /\ Len(delivered) = cursor
        /\ \A k \in 1..cursor : delivered[k] = Read(k)
    <3>1. delivered = [k \in 1..cursor |-> Read(k)]
      BY <1>2 DEF Delivered
    <3>2. delivered \in [1..cursor -> S]
      BY <1>3, <3>1
    <3> QED
      BY <1>3, <3>1, <3>2, LenOfDomain
  <2>2. /\ batch \in Seq(S) /\ Len(batch) = n
        /\ \A k \in 1..n : batch[k] = Read(cursor + k)
    <3>1. batch = [k \in 1..n |-> Read(cursor + k)]
      BY <1>6
    <3> HIDE DEF batch
    <3>2. batch \in [1..n -> S]
      <4>1. \A k \in 1..n : cursor + k \in 1..cursor + n
        BY <1>3
      <4> QED
        BY <3>1, <4>1
    <3> QED
      BY <1>3, <3>1, <3>2, LenOfDomain
  <2> HIDE DEF batch, S
  <2>3. /\ delivered \o batch \in Seq(S)
        /\ Len(delivered \o batch) = cursor + n
        /\ \A k \in 1..cursor + n :
             (delivered \o batch)[k] = IF k <= cursor THEN delivered[k] ELSE batch[k - cursor]
    BY <2>1, <2>2, ConcatProperties
  <2>4. \A k \in 1..cursor + n : (delivered \o batch)[k] = Read(k)
    <3>1. ASSUME NEW k \in 1..cursor + n, k > cursor PROVE batch[k - cursor] = Read(k)
      <4>1. k - cursor \in 1..n /\ cursor + (k - cursor) = k
        BY <1>3, <3>1
      <4> QED
        BY <2>2, <4>1
    <3> QED
      BY <1>3, <2>1, <2>3, <3>1
  <2>5. delivered \o batch \in [1..cursor + n -> S]
    BY <2>3, LenProperties
  <2> QED
    BY <1>1, <2>4, <2>5
<1>8. Delivered'
  <2>1. \A k : Read(k)' = Read(k)
    BY <1>1 DEF Read, Carried, Permuted
  <2>2. delivered' = [k \in 1..cursor' |-> Read(k)']
    BY <1>7, <2>1
  <2> QED
    BY <2>2 DEF Delivered
<1>9. Filling' /\ Rejected'
  BY <1>1, <1>5 DEF Filling, Rejected, Misfit, Carried, Permuted
<1> QED
  BY <1>4, <1>8, <1>9 DEF IInv

LEMMA RejectBatchIInv == IInv /\ RejectBatch => IInv'
<1> SUFFICES ASSUME IInv, RejectBatch PROVE IInv'
  OBVIOUS
<1>1. Typed'
  BY DEF IInv, Typed, RejectBatch, RowCount
<1>2. Filling' /\ Delivered'
  BY DEF IInv, RejectBatch, Filling, Delivered, Read, Carried, Permuted
<1>3. Rejected'
  <2>1. Misfit
    BY Accepts DEF IInv, RejectBatch
  <2> QED
    BY <2>1 DEF IInv, RejectBatch, Rejected, Misfit, Carried, Permuted
<1> QED
  BY <1>1, <1>2, <1>3 DEF IInv

LEMMA ScanEndsIInv == IInv /\ ScanEnds => IInv'
<1> SUFFICES ASSUME IInv, ScanEnds PROVE IInv'
  OBVIOUS
<1>1. Typed'
  BY DEF IInv, Typed, ScanEnds, RowCount
<1>2. Filling' /\ Delivered' /\ Rejected'
  BY DEF IInv, ScanEnds, Filling, Delivered, Read, Rejected, Misfit, Carried, Permuted
<1> QED
  BY <1>1, <1>2 DEF IInv

LEMMA StutterIInv == IInv /\ UNCHANGED vars => IInv'
  BY DEF IInv, vars, Typed, Filling, Delivered, Rejected, Misfit, Carried, Permuted, Read,
         Column, RowCount, BatchLen

LEMMA NextIInv == IInv /\ [Next]_vars => IInv'
<1> SUFFICES ASSUME IInv, [Next]_vars PROVE IInv'
  OBVIOUS
<1>1. CASE BeginBatch
  BY <1>1, BeginBatchIInv
<1>2. CASE AppendRow
  BY <1>2, AppendRowIInv
<1>3. CASE EmitBatch
  BY <1>3, EmitBatchIInv
<1>4. CASE RejectBatch
  BY <1>4, RejectBatchIInv
<1>5. CASE ScanEnds
  BY <1>5, ScanEndsIInv
<1>6. CASE UNCHANGED vars
  BY <1>6, StutterIInv
<1> QED
  BY <1>1, <1>2, <1>3, <1>4, <1>5, <1>6 DEF Next, Returned

\* The inductive invariant: the builders hold the rows of the batch and the
\* consumer has read the rows before it (arrow_build.rs:113-302).
THEOREM IInvHolds == Spec => []IInv
<1>1. Init => IInv
  BY InitIInv
<1>2. IInv /\ [Next]_vars => IInv'
  BY NextIInv
<1> QED
  BY <1>1, <1>2, PTL DEF Spec

LEMMA IInvTyped == IInv => TypeOK
<1> SUFFICES ASSUME IInv PROVE TypeOK
  OBVIOUS
<1>1. Typed /\ Filling
  BY DEF IInv
<1>2. phase = "fill" =>
        /\ DOMAIN cols = DOMAIN Built[table]
        /\ \A i \in DOMAIN cols : Slots(cols[i], Built[table][i].type) = filled
  BY <1>1, BuiltIsSchema, SlotsHeld DEF Filling
<1> QED
  BY <1>1, <1>2 DEF Typed, TypeOK

LEMMA IInvCells == IInv => CellsMatchRows
<1> SUFFICES ASSUME IInv PROVE CellsMatchRows
  OBVIOUS
<1>1. delivered = [k \in 1..cursor |-> Read(k)] /\ cursor \in Nat
  BY Counted DEF IInv, Delivered
<1>2. Len(delivered) = cursor
  <2>1. delivered \in [1..cursor -> {Read(k) : k \in 1..cursor}]
    BY <1>1
  <2> QED
    BY <1>1, <2>1, LenOfDomain
<1>3. ASSUME NEW k \in DOMAIN delivered, NEW name \in DOMAIN delivered[k]
      PROVE  delivered[k][name] = rows[k][Carried(IndexOf(schema, name)).name]
  BY <1>1, <1>3 DEF Read
<1> QED
  BY <1>2, <1>3 DEF CellsMatchRows

\* While a batch is filled every builder, list builders included, has one slot
\* per row appended (arrow_build.rs:157-302).
THEOREM TypeCorrect == Spec => []TypeOK
  BY IInvHolds, IInvTyped, PTL

\* For every list of columns of the table and every batch size, each cell the
\* consumer reads is a field of its decoded row: the one of its name, except in a
\* full schema in another order, where it is the one built at its position
\* (arrow_build.rs:113-302).
THEOREM CellsAreTheRows == Spec => []CellsMatchRows
  BY IInvHolds, IInvCells, PTL

LEMMA IInvNarrowed == IInv /\ ~Permuted => CellsUnderTheirNames
<1> SUFFICES ASSUME IInv, ~Permuted, NEW k \in DOMAIN delivered, NEW name \in DOMAIN delivered[k]
             PROVE  delivered[k][name] = rows[k][name]
  BY DEF CellsUnderTheirNames
<1>1. delivered[k][name] = rows[k][Carried(IndexOf(schema, name)).name]
  BY IInvCells DEF CellsMatchRows
<1>2. PICK i \in DOMAIN schema : name = schema[i].name
  BY DEF IInv, Delivered, Read
<1>3. schema[IndexOf(schema, name)].name = name
  BY <1>2, IndexFound
<1> QED
  BY <1>1, <1>3 DEF Carried

\* Under the full schema and under every narrowing, in any order, each cell is the
\* field of its name: what project() is to do holds but for a permutation of the
\* full schema (arrow_build.rs:140-155).
THEOREM NarrowingsKeepNames == Spec => [](~Permuted => CellsUnderTheirNames)
<1>1. IInv => (~Permuted => CellsUnderTheirNames)
  BY IInvNarrowed
<1> QED
  BY <1>1, IInvHolds, PTL

\* A scan fails exactly on a schema that does not fit, before its first row
\* (arrow_build.rs:127-130).
THEOREM MisfitsAreRejected == Spec => []RejectsMisfits
<1>1. IInv => RejectsMisfits
  <2> SUFFICES ASSUME IInv, Misfit PROVE delivered = <<>>
    BY DEF IInv, Rejected, RejectsMisfits
  <2>1. delivered = [k \in 1..0 |-> Read(k)]
    BY DEF IInv, Delivered, Rejected
  <2> QED
    BY <2>1
<1> QED
  BY <1>1, IInvHolds, PTL

-----------------------------------------------------------------------------
(* A row costs an append, and a batch of them its beginning and its end.   *)

StepsLeft ==
  CASE phase = "scan" -> 3 * (RowCount - cursor) + 1
    [] phase = "fill" -> 3 * (RowCount - cursor) - filled
    [] OTHER          -> 0

\* A batch is only begun when there is a row for it.
BatchDue == phase = "fill" => cursor < RowCount

LEMMA BatchIsDue == Spec => []BatchDue
<1>1. Init => BatchDue
  BY DEF Init, BatchDue
<1>2. ASSUME BatchDue, [Next]_vars PROVE BatchDue'
  <2>1. CASE Next
    BY <1>2, <2>1 DEF Next, BeginBatch, AppendRow, EmitBatch, RejectBatch, ScanEnds, Returned,
                      vars, BatchDue, RowCount
  <2>2. CASE UNCHANGED vars
    BY <1>2, <2>2 DEF vars, BatchDue, RowCount
  <2> QED
    BY <1>2, <2>1, <2>2
<1> QED
  BY <1>1, <1>2, PTL DEF Spec

\* The safety half of delivery, for any rows and batch size: every step of a scan
\* uses up one of a known number, so no batch is empty and none is built twice
\* (scan.rs:54-68).
THEOREM ScanAdvances ==
  Spec => [][/\ StepsLeft \in Nat /\ StepsLeft' \in Nat
             /\ StepsLeft' < StepsLeft]_vars
<1> DEFINE A == StepsLeft \in Nat /\ StepsLeft' \in Nat /\ StepsLeft' < StepsLeft
<1>1. ASSUME IInv, BatchDue, Next PROVE A \/ UNCHANGED vars
  <2> DEFINE n == RowCount
  <2>1. /\ n \in Nat /\ cursor \in Nat /\ filled \in Nat /\ BatchRows \in Nat \ {0}
        /\ BatchLen \in Nat /\ cursor + BatchLen <= n
    BY <1>1, Counted DEF IInv
  <2>2. phase = "fill" => filled <= BatchLen
    BY <1>1 DEF IInv, Filling
  <2>3. phase = "fill" => cursor < n
    BY <1>1 DEF BatchDue
  <2>4. RowCount' = n
    BY <1>1 DEF Next, BeginBatch, AppendRow, EmitBatch, RejectBatch, ScanEnds, Returned, vars,
                RowCount
  <2>5. cursor < n => BatchLen > 0
    BY <2>1 DEF BatchLen
  <2> USE DEF StepsLeft
  <2>6. CASE BeginBatch
    BY <2>1, <2>4, <2>6 DEF BeginBatch
  <2>7. CASE AppendRow
    BY <2>1, <2>2, <2>4, <2>7 DEF AppendRow
  <2>8. CASE EmitBatch
    BY <2>1, <2>3, <2>4, <2>5, <2>8 DEF EmitBatch
  <2>9. CASE RejectBatch \/ ScanEnds
    BY <2>1, <2>2, <2>3, <2>5, <2>9 DEF RejectBatch, ScanEnds
  <2>10. CASE Returned
    BY <2>10 DEF Returned
  <2> QED
    BY <1>1, <2>6, <2>7, <2>8, <2>9, <2>10 DEF Next
<1>2. IInv /\ BatchDue /\ [Next]_vars => [A]_vars
  BY <1>1
<1> QED
  BY IInvHolds, BatchIsDue, <1>2, PTL DEF Spec
=============================================================================
