--------------------------- MODULE MCScanSession ----------------------------
(***************************************************************************)
(* Instances of ScanSession for TLC: four captures and a non-capture.      *)
(***************************************************************************)
EXTENDS ScanSession

CONSTANTS empty, short, even, long, notPerf

\* With BatchRows = 2: no batch, a partial last batch, whole batches only, and
\* several batches with a partial last one.
MCRowCount ==
  [i \in {empty, short, even, long} |->
     CASE i = empty -> 0
       [] i = short -> 1
       [] i = even  -> 4
       [] i = long  -> 7]
=============================================================================
