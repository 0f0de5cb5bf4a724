--------------------------- MODULE DecodeContract ---------------------------
(***************************************************************************)
(* What decode() promises its callers, whatever loop produces it           *)
(* (crates/perf-core/src/decode.rs:131-135): the call either refuses a     *)
(* capture whose header cannot be parsed, or returns in one step a Decoded *)
(* value that reports every record exactly once.  PerfDecode implements    *)
(* this specification.                                                     *)
(***************************************************************************)
EXTENDS DecodeReport

CONSTANTS Pending, Fatal   \* not yet returned; Err(FatalError)

VARIABLES capture, result

vars == <<capture, result>>

Init == capture \in Captures /\ result = Pending

Refuse ==
  /\ result = Pending
  /\ ~capture.readable
  /\ result' = Fatal
  /\ UNCHANGED capture

Return ==
  /\ result = Pending
  /\ capture.readable
  /\ result' \in Decoded
  /\ IsDecodingOf(capture, result')
  /\ UNCHANGED capture

Next == Refuse \/ Return

Spec == Init /\ [][Next]_vars
=============================================================================
