----------------------------- MODULE RowStream ------------------------------
(***************************************************************************)
(* What a query sees of perf.<table>(src): rows arriving from the front of *)
(* the table, in order, none skipped and none repeated, in batches of any  *)
(* size, until the table is exhausted or the scan fails.  It fails only on *)
(* a source that cannot be decoded.                                        *)
(*                                                                         *)
(* With MayShift the source may become another one between batches; the    *)
(* stream then goes on at the same ordinal in the new source.  Without it, *)
(* the rows are exactly those of one source.                               *)
(***************************************************************************)
EXTENDS Integers, Sequences

CONSTANTS
  Sources,    \* what src may resolve to
  RowCount,   \* decodable source -> number of rows of the scanned table
  MayShift    \* may the source change during the scan?

VARIABLES source, got, status

vars == <<source, got, status>>

Row(s, n) == [image |-> s, row |-> n]

Init == source \in Sources /\ got = <<>> /\ status = "open"

Deliver ==
  /\ status = "open"
  /\ source \in DOMAIN RowCount
  /\ \E n \in 1..(RowCount[source] - Len(got)) :
        got' = got \o [k \in 1..n |-> Row(source, Len(got) + k)]
  /\ UNCHANGED <<source, status>>

Finish ==
  /\ status = "open"
  /\ source \in DOMAIN RowCount
  /\ Len(got) >= RowCount[source]
  /\ status' = "done"
  /\ UNCHANGED <<source, got>>

Fail ==
  /\ status = "open"
  /\ source \notin DOMAIN RowCount
  /\ status' = "failed"
  /\ UNCHANGED <<source, got>>

Shift ==
  /\ MayShift
  /\ status = "open"
  /\ source' \in Sources
  /\ UNCHANGED <<got, status>>

Next == Deliver \/ Finish \/ Fail \/ Shift

Spec == Init /\ [][Next]_vars
=============================================================================
