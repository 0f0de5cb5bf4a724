---------------------------- MODULE MCArrowBuild ----------------------------
(***************************************************************************)
(* Instances of ArrowBuild for TLC: which rows and which output schemas.   *)
(***************************************************************************)
EXTENDS ArrowBuild

CONSTANTS MaxRows,     \* bound on the rows of a table
          MaxColumns   \* bound on the columns of a narrowed schema

\* Fields that are not an Option in rows.rs.
Required ==
  [samples |-> {},
   mmaps   |-> {"pid", "tid", "addr", "len", "pgoff", "filename"},
   comms   |-> {"pid", "tid", "comm"},
   events  |-> {"event_id", "type"},
   meta    |-> {"total_events"}]

\* Row k of table t: every Option absent when items = None, otherwise present
\* with a list of that many items.  A value names its row and its field.
RowOf(t, k, items) ==
  [f \in {Schema[t][i].name : i \in DOMAIN Schema[t]} |->
     CASE items = None /\ f \notin Required[t] -> None
       [] f \in {"callchain", "cmdline"} -> [n \in 1..items |-> <<k, f, n>>]
       [] OTHER -> <<k, f>>]

MCItems == {<<k, f, n>> : k \in 1..MaxRows, f \in {"callchain", "cmdline"}, n \in 1..2}

RowListsOf(t, lengths) ==
  UNION {{[k \in 1..n |-> RowOf(t, k, shape[k])] : shape \in [1..n -> {None, 0, 1, 2}]} :
           n \in lengths}

MCRowLists ==
  [t \in Tables |-> RowListsOf(t, IF t = "meta" THEN {1} ELSE 0..MaxRows)]

\* The columns of `full' at the positions pick[1], pick[2], ...
Pick(full, pick) == [i \in DOMAIN pick |-> full[pick[i]]]

Injective(f) == \A i, j \in DOMAIN f : f[i] = f[j] => i = j

Narrowed(full) ==
  UNION {{Pick(full, p) : p \in {q \in [1..n -> DOMAIN full] : Injective(q)}} :
           n \in 1..MaxColumns}

\* The full schema with two columns exchanged.
Exchanged(full, i, j) == [full EXCEPT ![i] = full[j], ![j] = full[i]]

\* Two pairs of places in each table, the first with columns of different types,
\* the second of one type.
Exchanges == [samples |-> {<<1, 3>>, <<1, 5>>}, mmaps |-> {<<1, 3>>, <<6, 7>>},
              comms |-> {<<1, 3>>, <<1, 2>>}, events |-> {<<1, 3>>, <<2, 3>>},
              meta |-> {<<1, 3>>, <<1, 2>>}]

\* The full schema, its exchanges, every narrowed one in every order, and none.
MCOutSchemas ==
  [t \in Tables |->
     {Schema[t], <<>>} \cup Narrowed(Schema[t])
       \cup {Exchanged(Schema[t], e[1], e[2]) : e \in Exchanges[t]}]
=============================================================================
