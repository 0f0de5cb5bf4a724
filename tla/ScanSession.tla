---------------------------- MODULE ScanSession -----------------------------
(***************************************************************************)
(* One execution of a table function perf.<table>(src), from bind to the   *)
(* last batch: source.rs, table/mod.rs and table/scan.rs of perf-worker.   *)
(*                                                                         *)
(* Over the stdio and unix transports ("stream") the SDK keeps the producer*)
(* for the whole scan.  Over "http" each response carries one batch and a  *)
(* token; the next request builds a new producer from the bind parameters, *)
(* which reads and decodes the source AGAIN, and restores the cursor.      *)
(* Meanwhile the file a VARCHAR src names may change under the scan.       *)
(*                                                                         *)
(* A decoded table is abstracted to the image it came from and its number  *)
(* of rows; a delivered row to its image and its ordinal.                  *)
(***************************************************************************)
EXTENDS Integers, Sequences

CONSTANTS
  Images,       \* byte images a file or a BLOB can hold
  RowCount,     \* decodable image -> number of rows of the scanned table
  BatchRows,    \* BATCH_ROWS
  Absent,       \* the path does not exist
  Unreadable,   \* the path exists but cannot be read (a directory, no permission)
  ByPath,       \* src is a VARCHAR path
  Mistyped,     \* src is neither a VARCHAR nor a BLOB
  Garbled,      \* a token that resume::unpack rejects
  NoToken,      \* the client has no token yet
  NoScan,       \* no producer exists
  Transports,   \* subset of {"stream", "http"}
  MaxChanges,   \* bound on file changes during one scan
  MaxLost       \* bound on tokens garbled during one scan

ASSUME RowCountAssumption ==
  /\ DOMAIN RowCount \subseteq Images
  /\ \A i \in DOMAIN RowCount : RowCount[i] \in Nat
ASSUME BatchRowsAssumption == BatchRows \in Nat \ {0}
ASSUME BoundsAssumption == MaxChanges \in Nat /\ MaxLost \in Nat
ASSUME TransportsAssumption == Transports \subseteq {"stream", "http"}
ASSUME SentinelsAssumption ==
  /\ {Absent, Unreadable, ByPath, Mistyped} \cap Images = {}
  /\ ByPath # Mistyped
  /\ Garbled \notin Nat /\ NoToken \notin Nat /\ Garbled # NoToken

VARIABLES
  src,         \* the bind argument: ByPath, Mistyped or a BLOB's image
  transport,
  disk,        \* what the path holds
  phase,       \* the next call of the SDK, or how the scan ended
  scan,        \* the producer: image decoded and cursor
  token,       \* the resume token the client holds
  rows,        \* rows the client has received
  changes, lost   \* file changes and garbled tokens so far

vars == <<src, transport, disk, phase, scan, token, rows, changes, lost>>

Ended == phase \in {"done", "failed"}

-----------------------------------------------------------------------------
(* The source.                                                             *)

\* Mutant: a BLOB is taken for a path.
CurrentSourceOnDisk == IF src = Mistyped THEN src ELSE disk

\* What reading src now would give.
CurrentSource == IF src = ByPath THEN disk ELSE src

\* Mutant: the existence test loses its negation.
CheckBindInverted == IF src = ByPath THEN disk = Absent ELSE src \in Images

\* check_bind: a path must exist, anything else must be a BLOB.
CheckBind == IF src = ByPath THEN disk # Absent ELSE src \in Images

\* decoded(): the bytes can be read and are a perf.data file.
Decodes == CurrentSource \in DOMAIN RowCount

\* A producer exists from producer() to the response or the end of the scan.
HasScan == phase \in {"restore", "batch", "respond", "done"}

Total == RowCount[scan.image]

-----------------------------------------------------------------------------
Init ==
  /\ src \in Images \cup {ByPath, Mistyped}
  /\ transport \in Transports
  /\ disk \in Images \cup {Absent, Unreadable}
  /\ phase = "bind"
  /\ scan = NoScan
  /\ token = NoToken
  /\ rows = <<>>
  /\ changes = 0 /\ lost = 0

OnBind ==
  /\ phase = "bind"
  /\ phase' = IF CheckBind THEN "produce" ELSE "failed"
  /\ UNCHANGED <<src, transport, disk, scan, token, rows, changes, lost>>

\* producer(): read and decode the source, start at row 0.
Producer ==
  /\ phase = "produce"
  /\ Decodes
  /\ scan' = [image |-> CurrentSource, cursor |-> 0]
  /\ phase' = IF token = NoToken THEN "batch" ELSE "restore"
  /\ UNCHANGED <<src, transport, disk, token, rows, changes, lost>>

ProducerFails ==
  /\ phase = "produce"
  /\ ~Decodes
  /\ phase' = "failed"
  /\ UNCHANGED <<src, transport, disk, scan, token, rows, changes, lost>>

\* The smaller of two numbers.
Least(a, b) == IF a < b THEN a ELSE b

\* Mutant: no clamp to this decode's row count.
RestoredUnclamped == IF token = Garbled THEN scan.cursor ELSE token

\* Mutant: a rejected token is taken for the end of the scan.
RestoredAtEnd == IF token = Garbled THEN Total ELSE Least(token, Total)

\* restore_resume: a rejected token leaves the cursor at 0; an accepted one is
\* clamped to this decode's row count.  (A cursor is at most the length of a
\* Vec, so its casts to i64 and back lose nothing.)
Restored == IF token = Garbled THEN scan.cursor ELSE Least(token, Total)

RestoreResume ==
  /\ phase = "restore"
  /\ scan' = [scan EXCEPT !.cursor = Restored]
  /\ phase' = "batch"
  /\ UNCHANGED <<src, transport, disk, token, rows, changes, lost>>

BatchLen == Least(BatchRows, Total - scan.cursor)

\* Rows [cursor, cursor + n) of the producer's own decode.
Batch(n) == [k \in 1..n |-> [image |-> scan.image, row |-> scan.cursor + k]]

NextBatch ==
  /\ phase = "batch"
  /\ scan.cursor < Total
  /\ rows' = rows \o Batch(BatchLen)
  /\ scan' = [scan EXCEPT !.cursor = @ + BatchLen]
  /\ phase' = IF transport = "http" THEN "respond" ELSE "batch"
  /\ UNCHANGED <<src, transport, disk, token, changes, lost>>

\* Mutant: the token counts the rows of the last batch only.
EncodeResumeBatchOnly ==
  /\ phase = "respond"
  /\ token' = Least(BatchRows, scan.cursor)
  /\ scan' = NoScan
  /\ phase' = "produce"
  /\ UNCHANGED <<src, transport, disk, rows, changes, lost>>

\* Mutant: the producer survives its response.
EncodeResumeKeepsProducer ==
  /\ phase = "respond"
  /\ token' = scan.cursor
  /\ phase' = "produce"
  /\ UNCHANGED <<src, transport, disk, scan, rows, changes, lost>>

\* encode_resume: the cursor goes to the client, the producer is dropped.
EncodeResume ==
  /\ phase = "respond"
  /\ token' = scan.cursor
  /\ scan' = NoScan
  /\ phase' = "produce"
  /\ UNCHANGED <<src, transport, disk, rows, changes, lost>>

\* Mutant: an exhausted producer returns an empty batch instead of None.
ScanEndsEmptyBatch ==
  /\ phase = "batch"
  /\ scan.cursor >= Total
  /\ phase' = IF transport = "http" THEN "respond" ELSE "batch"
  /\ UNCHANGED <<src, transport, disk, scan, token, rows, changes, lost>>

\* next_batch returns None.
ScanEnds ==
  /\ phase = "batch"
  /\ scan.cursor >= Total
  /\ phase' = "done"
  /\ UNCHANGED <<src, transport, disk, scan, token, rows, changes, lost>>

-----------------------------------------------------------------------------
(* The environment (external): another process writes, replaces or removes *)
(* the file; a token comes back corrupt or empty.                          *)

FileChanges ==
  /\ ~Ended
  /\ changes < MaxChanges
  /\ disk' \in (Images \cup {Absent, Unreadable}) \ {disk}
  /\ changes' = changes + 1
  /\ UNCHANGED <<src, transport, phase, scan, token, rows, lost>>

TokenGarbled ==
  /\ phase = "produce"
  /\ lost < MaxLost
  /\ token \notin {NoToken, Garbled}
  /\ token' = Garbled
  /\ lost' = lost + 1
  /\ UNCHANGED <<src, transport, disk, phase, scan, rows, changes>>

Returned == Ended /\ UNCHANGED vars

-----------------------------------------------------------------------------
WorkerStep ==
  \/ OnBind
  \/ Producer
  \/ ProducerFails
  \/ RestoreResume
  \/ NextBatch
  \/ EncodeResume
  \/ ScanEnds

Next == WorkerStep \/ FileChanges \/ TokenGarbled \/ Returned

Spec == Init /\ [][Next]_vars

\* The SDK keeps making the next call until the scan ends; nothing obliges
\* the environment to do anything.
FairSpec == Spec /\ WF_vars(WorkerStep)

-----------------------------------------------------------------------------
(* Properties.                                                             *)

\* The state has its types; a producer exists when the phase says so, and is
\* only restored from a token.
TypeOK ==
  /\ src \in Images \cup {ByPath, Mistyped}
  /\ transport \in Transports
  /\ disk \in Images \cup {Absent, Unreadable}
  /\ phase \in {"bind", "produce", "restore", "batch", "respond", "done", "failed"}
  /\ IF HasScan
       THEN scan \in [image : DOMAIN RowCount, cursor : Nat]
       ELSE scan = NoScan
  /\ token \in Nat \cup {NoToken, Garbled}
  /\ phase = "restore" => token # NoToken
  /\ rows \in Seq([image : DOMAIN RowCount, row : Nat])
  /\ changes \in 0..MaxChanges /\ lost \in 0..MaxLost

\* The rows from position b + 1 on are rows 1, 2, 3, ... of the table.
InOrderFrom(b) == \A k \in 1..(Len(rows) - b) : rows[b + k].row = k

\* The rows received end in an unbroken run from row 1.  Unless a token was
\* garbled that run is everything received: no row is skipped or repeated
\* however often the producer is rebuilt, even over a file that changes.  A
\* scan reported as complete covered, in that run, every row of the capture
\* it last decoded; after a garbled token the scan starts over, so rows
\* repeat but none is lost (scan.rs:54-82).
LastRunComplete ==
  \E b \in 0..Len(rows) :
    /\ InOrderFrom(b)
    /\ lost = 0 => b = 0
    /\ phase = "done" => Len(rows) - b >= Total

\* Every row delivered exists in the capture it is attributed to, although the
\* cursor may come from a longer capture than the one it is applied to
\* (scan.rs:55-61, 80).
RowsExist ==
  /\ \A i \in DOMAIN rows : rows[i].row \in 1..RowCount[rows[i].image]
  /\ HasScan => scan.cursor <= Total

\* A BLOB's rows all come from the BLOB, and a streamed scan keeps the decode
\* it started with: neither sees the file change (mod.rs:71-78, scan.rs:31-38).
SnapshotKept ==
  /\ src \in Images => \A i \in DOMAIN rows : rows[i].image = src
  /\ transport = "stream" =>
        \A i, j \in DOMAIN rows : rows[i].image = rows[j].image

\* Every scan ends; over a BLOB that decodes, it ends complete.
Terminates == <>Ended /\ (Decodes /\ src # ByPath => <>(phase = "done"))

-----------------------------------------------------------------------------
(* Refinement.                                                             *)

Status == IF Ended THEN phase ELSE "open"

\* A scan that has decoded its source is at that source, otherwise at whatever
\* src names.
ScannedSource == IF HasScan THEN scan.image ELSE CurrentSource

Stable == INSTANCE RowStream WITH
  Sources <- Images \cup {Absent, Unreadable, Mistyped},
  MayShift <- FALSE,
  source <- ScannedSource, got <- rows, status <- Status

Shifting == INSTANCE RowStream WITH
  Sources <- Images \cup {Absent, Unreadable, Mistyped},
  MayShift <- TRUE,
  source <- ScannedSource, got <- rows, status <- Status

\* Until the file changes or a token is garbled, either transport delivers
\* exactly the rows of the source, in order, once each, and fails only on a
\* source that cannot be decoded (scan.rs:1-10, 54-82).
ImplementsRowStream ==
  /\ Stable!Init
  /\ [][changes' = 0 /\ lost' = 0 => Stable!Next]_(Stable!vars)

\* Over a file that changes at any moment, the stream shifts to the new file at
\* a batch boundary and goes on at the next ordinal; until a token is garbled
\* nothing else disturbs it.
ImplementsShiftingStream ==
  /\ Shifting!Init
  /\ [][lost' = 0 => Shifting!Next]_(Shifting!vars)

-----------------------------------------------------------------------------
(* What the documentation says and the code does not do.                   *)

\* scan.rs:8-10 and 70-71: on resume everything but the cursor "is regenerated
\* from the bind params", so a scan should be of one capture.  A path's
\* contents are not in the bind params.
OneCapturePerScan ==
  \A i, j \in DOMAIN rows : rows[i].image = rows[j].image
=============================================================================
