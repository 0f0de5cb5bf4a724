------------------------- MODULE ScanSession_proofs -------------------------
(***************************************************************************)
(* Proofs about ScanSession, for every set of captures, row counts, batch  *)
(* size and number of file changes and garbled tokens: the invariants that *)
(* MCScanSession checks, and the refinements of RowStream.                 *)
(***************************************************************************)
EXTENDS ScanSession, SequenceTheorems, TLAPS

-----------------------------------------------------------------------------
(* The inductive invariant.  What ties the calls together is where the     *)
(* cursor stands relative to the rows already received: b is the number of *)
(* rows received before the scan last started over.                        *)

Aligned(b) ==
  /\ InOrderFrom(b)
  /\ lost = 0 => b = 0
  /\ phase \in {"produce", "restore"} /\ token \in Nat => token = Len(rows) - b
  /\ phase = "batch" => scan.cursor = Least(Len(rows) - b, Total)
  /\ phase = "respond" => scan.cursor = Len(rows) - b
  /\ phase = "done" => Len(rows) - b >= Total

Alignment == \E b \in 0..Len(rows) : Aligned(b)

\* Where tokens and rows may exist at all.
Protocol ==
  /\ phase = "bind" => token = NoToken
  /\ phase \in {"bind", "produce"} /\ token = NoToken => rows = <<>>
  /\ phase = "restore" => scan.cursor = 0
  /\ token = Garbled => lost > 0
  /\ transport = "stream" =>
        /\ phase \notin {"restore", "respond"}
        /\ token = NoToken

\* Which captures the rows and the producer come from.
Origin ==
  /\ src \in Images =>
        /\ HasScan => scan.image = src
        /\ \A i \in DOMAIN rows : rows[i].image = src
  /\ transport = "stream" =>
        /\ HasScan => \A i \in DOMAIN rows : rows[i].image = scan.image
        /\ \A i, j \in DOMAIN rows : rows[i].image = rows[j].image
  /\ changes = 0 /\ HasScan => scan.image = CurrentSource

IInv == TypeOK /\ Protocol /\ Alignment /\ RowsExist /\ Origin

-----------------------------------------------------------------------------
(* Facts about one batch.                                                  *)

LEMMA LeastIs ==
  ASSUME NEW x \in Int, NEW y \in Int
  PROVE  /\ Least(x, y) \in {x, y}
         /\ Least(x, y) <= x /\ Least(x, y) <= y
BY DEF Least

LEMMA BatchFacts ==
  ASSUME TypeOK, phase = "batch", scan.cursor < Total
  PROVE  /\ scan.image \in DOMAIN RowCount /\ scan.cursor \in Nat /\ Total \in Nat
         /\ BatchLen \in Nat \ {0}
         /\ scan.cursor + BatchLen <= Total
         /\ Batch(BatchLen) \in Seq([image : DOMAIN RowCount, row : Nat])
         /\ Len(Batch(BatchLen)) = BatchLen
         /\ \A k \in 1..BatchLen :
               Batch(BatchLen)[k] = [image |-> scan.image, row |-> scan.cursor + k]
<1>1. /\ scan.image \in DOMAIN RowCount /\ scan.cursor \in Nat
      /\ Total \in Nat
  BY RowCountAssumption DEF TypeOK, HasScan, Total
<1>2. BatchLen \in Nat \ {0} /\ scan.cursor + BatchLen <= Total
  BY <1>1, LeastIs, BatchRowsAssumption DEF BatchLen
<1>3. \A k \in 1..BatchLen :
         [image |-> scan.image, row |-> scan.cursor + k] \in [image : DOMAIN RowCount, row : Nat]
  BY <1>1, <1>2
<1> QED
  BY <1>1, <1>2, <1>3 DEF Batch

\* What next_batch appends, seen row by row.
LEMMA RowsAfterBatch ==
  ASSUME TypeOK, NextBatch
  PROVE  /\ rows' \in Seq([image : DOMAIN RowCount, row : Nat])
         /\ Len(rows') = Len(rows) + BatchLen
         /\ \A i \in 1..Len(rows) : rows'[i] = rows[i]
         /\ \A k \in 1..BatchLen :
               rows'[Len(rows) + k] = [image |-> scan.image, row |-> scan.cursor + k]
         /\ scan' = [image |-> scan.image, cursor |-> scan.cursor + BatchLen]
<1> DEFINE b == Batch(BatchLen)
           T == [image : DOMAIN RowCount, row : Nat]
<1>1. /\ rows \in Seq(T) /\ rows' = rows \o b
      /\ phase = "batch" /\ scan.cursor < Total
      /\ scan \in [image : DOMAIN RowCount, cursor : Nat]
  BY DEF NextBatch, TypeOK, HasScan
<1>2. /\ BatchLen \in Nat \ {0} /\ b \in Seq(T) /\ Len(b) = BatchLen
      /\ \A k \in 1..BatchLen : b[k] = [image |-> scan.image, row |-> scan.cursor + k]
  BY <1>1, BatchFacts
<1>3. scan' = [image |-> scan.image, cursor |-> scan.cursor + BatchLen]
  BY <1>1 DEF NextBatch
<1> HIDE DEF b, T
<1>4. /\ rows' \in Seq(T)
      /\ Len(rows') = Len(rows) + Len(b)
      /\ \A i \in 1..Len(rows) + Len(b) :
            rows'[i] = IF i <= Len(rows) THEN rows[i] ELSE b[i - Len(rows)]
  <2>1. rows \in Seq(T) /\ b \in Seq(T)
    BY <1>1, <1>2
  <2>2. rows' = rows \o b
    BY <1>1
  <2> QED
    BY ONLY <2>1, <2>2, ConcatProperties
<1>5. Len(rows) \in Nat
  BY <1>1, LenProperties
<1>6. \A i \in 1..Len(rows) : rows'[i] = rows[i]
  BY <1>2, <1>4, <1>5
<1>7. \A k \in 1..BatchLen : rows'[Len(rows) + k] = b[k]
  <2> TAKE k \in 1..BatchLen
  <2>1. /\ Len(rows) + k \in 1..Len(rows) + Len(b)
        /\ ~(Len(rows) + k <= Len(rows))
        /\ (Len(rows) + k) - Len(rows) = k
    BY <1>2, <1>5
  <2> QED
    BY <1>4, <2>1
<1> QED
  BY <1>2, <1>3, <1>4, <1>6, <1>7 DEF T

-----------------------------------------------------------------------------
(* Type correctness.                                                       *)

LEMMA TypeInit == Init => TypeOK
BY BoundsAssumption DEF Init, TypeOK, HasScan

LEMMA TypeNext == TypeOK /\ [Next]_vars => TypeOK'
<1> SUFFICES ASSUME TypeOK, [Next]_vars PROVE TypeOK'
  OBVIOUS
<1> USE DEF TypeOK, HasScan
<1>1. CASE OnBind
  BY <1>1 DEF OnBind
<1>2. CASE Producer
  BY <1>2 DEF Producer, Decodes
<1>3. CASE ProducerFails
  BY <1>3 DEF ProducerFails
<1>4. CASE RestoreResume
  <2>1. Total \in Nat
    BY <1>4, RowCountAssumption DEF RestoreResume, Total
  <2>2. CASE token = Garbled
    BY <1>4, <2>2 DEF RestoreResume, Restored
  <2>3. CASE token \in Nat
    BY <1>4, <2>1, <2>3, LeastIs DEF RestoreResume, Restored
  <2> QED
    BY <1>4, <2>2, <2>3 DEF RestoreResume
<1>5. CASE NextBatch
  BY <1>5, RowsAfterBatch, BatchFacts DEF NextBatch
<1>6. CASE EncodeResume
  BY <1>6 DEF EncodeResume
<1>7. CASE ScanEnds
  BY <1>7 DEF ScanEnds
<1>8. CASE FileChanges
  BY <1>8, BoundsAssumption DEF FileChanges, Ended
<1>9. CASE TokenGarbled
  BY <1>9, BoundsAssumption, SentinelsAssumption DEF TokenGarbled
<1>10. CASE UNCHANGED vars
  BY <1>10 DEF vars
<1> QED
  BY <1>1, <1>2, <1>3, <1>4, <1>5, <1>6, <1>7, <1>8, <1>9, <1>10
     DEF Next, WorkerStep, Returned

\* Every field keeps its type over any sequence of calls, file changes and
\* garbled tokens, and a producer exists exactly when the phase says so.
THEOREM TypeCorrect == Spec => []TypeOK
BY TypeInit, TypeNext, PTL DEF Spec

-----------------------------------------------------------------------------
(* The inductive invariant is inductive, one conjunct at a time.           *)

LEMMA IInvInit == Init => IInv
<1> SUFFICES ASSUME Init PROVE IInv
  OBVIOUS
<1> USE DEF Init
<1>1. TypeOK
  BY TypeInit
<1>2. Protocol
  BY SentinelsAssumption DEF Protocol
<1>3. Alignment
  <2>1. Aligned(0)
    BY SentinelsAssumption DEF Aligned, InOrderFrom
  <2> QED
    BY <2>1 DEF Alignment
<1>4. RowsExist
  BY DEF RowsExist, HasScan
<1>5. Origin
  BY DEF Origin, HasScan
<1> QED
  BY <1>1, <1>2, <1>3, <1>4, <1>5 DEF IInv

LEMMA ProtocolNext ==
  ASSUME IInv, TypeOK', [Next]_vars PROVE Protocol'
<1> USE DEF Protocol
<1>0. Protocol /\ TypeOK
  BY DEF IInv
<1>1. CASE OnBind
  BY <1>0, <1>1 DEF OnBind
<1>2. CASE Producer
  BY <1>0, <1>2 DEF Producer
<1>3. CASE ProducerFails
  BY <1>0, <1>3 DEF ProducerFails
<1>4. CASE RestoreResume
  BY <1>0, <1>4 DEF RestoreResume
<1>5. CASE NextBatch
  BY <1>0, <1>5, TransportsAssumption DEF NextBatch, TypeOK
<1>6. CASE EncodeResume
  BY <1>0, <1>6, SentinelsAssumption DEF EncodeResume, TypeOK, HasScan
<1>7. CASE ScanEnds
  BY <1>0, <1>7 DEF ScanEnds
<1>8. CASE FileChanges
  BY <1>0, <1>8 DEF FileChanges
<1>9. CASE TokenGarbled
  BY <1>0, <1>9, SentinelsAssumption DEF TokenGarbled, TypeOK
<1>10. CASE UNCHANGED vars
  BY <1>0, <1>10 DEF vars
<1> QED
  BY <1>1, <1>2, <1>3, <1>4, <1>5, <1>6, <1>7, <1>8, <1>9, <1>10
     DEF Next, WorkerStep, Returned

\* A batch continues the run it was cut from.
LEMMA AlignmentBatch ==
  ASSUME IInv, NextBatch PROVE Alignment'
<1> PICK b \in 0..Len(rows) : Aligned(b)
  BY DEF IInv, Alignment
<1>1. TypeOK /\ phase = "batch" /\ scan.cursor < Total /\ lost' = lost
  BY DEF IInv, NextBatch
<1>2. /\ scan.cursor \in Nat /\ Total \in Nat /\ BatchLen \in Nat \ {0}
      /\ scan.cursor + BatchLen <= Total
  BY <1>1, BatchFacts
<1>3. Len(rows) \in Nat
  BY <1>1, LenProperties DEF TypeOK
<1>4. scan.cursor = Len(rows) - b
  BY <1>1, <1>2, <1>3 DEF Aligned, Least
<1>5. /\ Len(rows') = Len(rows) + BatchLen
      /\ \A i \in 1..Len(rows) : rows'[i] = rows[i]
      /\ \A k \in 1..BatchLen :
            rows'[Len(rows) + k] = [image |-> scan.image, row |-> scan.cursor + k]
      /\ scan' = [image |-> scan.image, cursor |-> scan.cursor + BatchLen]
  BY <1>1, RowsAfterBatch
<1>6. InOrderFrom(b)'
  <2> SUFFICES ASSUME NEW k \in 1..(Len(rows') - b) PROVE rows'[b + k].row = k
    BY DEF InOrderFrom
  <2>1. CASE b + k <= Len(rows)
    <3>1. b + k \in 1..Len(rows) /\ k \in 1..(Len(rows) - b)
      BY <1>3, <2>1
    <3> QED
      BY <1>5, <3>1 DEF Aligned, InOrderFrom
  <2>2. CASE Len(rows) < b + k
    <3> DEFINE j == (b + k) - Len(rows)
    <3>1. j \in 1..BatchLen /\ Len(rows) + j = b + k /\ scan.cursor + j = k
      BY <1>2, <1>3, <1>4, <1>5, <2>2
    <3> HIDE DEF j
    <3>2. rows'[b + k] = [image |-> scan.image, row |-> scan.cursor + j]
      BY <1>5, <3>1
    <3> QED
      BY <3>1, <3>2
  <2> QED
    BY <1>3, <2>1, <2>2
<1>7. Total' = Total /\ scan'.cursor = Len(rows') - b
  BY <1>2, <1>3, <1>4, <1>5 DEF Total
<1>8. Least(Len(rows') - b, Total) = Len(rows') - b
  BY <1>2, <1>3, <1>4, <1>5 DEF Least
<1>9. phase' \in {"batch", "respond"}
  BY DEF NextBatch
<1>10. Aligned(b)'
  BY <1>1, <1>6, <1>7, <1>8, <1>9 DEF Aligned
<1> QED
  BY <1>2, <1>3, <1>5, <1>10 DEF Alignment

\* Restoring goes on where the token says, or starts a new run.
LEMMA AlignmentRestore ==
  ASSUME IInv, RestoreResume PROVE Alignment'
<1> PICK b \in 0..Len(rows) : Aligned(b)
  BY DEF IInv, Alignment
<1>1. /\ TypeOK /\ Protocol /\ phase = "restore" /\ phase' = "batch"
      /\ rows' = rows /\ lost' = lost /\ token' = token
      /\ scan' = [image |-> scan.image, cursor |-> Restored]
      /\ scan.image \in DOMAIN RowCount
  BY DEF IInv, RestoreResume, TypeOK, HasScan
<1>2. Len(rows) \in Nat /\ Total \in Nat /\ Total' = Total
  BY <1>1, LenProperties, RowCountAssumption DEF TypeOK, Total
<1>3. CASE token = Garbled
  <2>1. scan'.cursor = 0 /\ lost # 0
    BY <1>1, <1>3 DEF Restored, Protocol, TypeOK
  <2>2. InOrderFrom(Len(rows))'
    BY <1>1, <1>2 DEF InOrderFrom
  <2>3. Least(Len(rows) - Len(rows), Total) = 0
    BY <1>2 DEF Least
  <2>4. Aligned(Len(rows))'
    BY <1>1, <1>2, <2>1, <2>2, <2>3 DEF Aligned
  <2> QED
    BY <1>1, <1>2, <2>4 DEF Alignment
<1>4. CASE token \in Nat
  <2>1. token # Garbled
    BY <1>4, SentinelsAssumption
  <2>2. scan'.cursor = Least(Len(rows) - b, Total)
    BY <1>1, <1>4, <2>1 DEF Restored, Aligned
  <2>3. Aligned(b)'
    BY <1>1, <1>2, <2>2 DEF Aligned, InOrderFrom
  <2> QED
    BY <1>1, <2>3 DEF Alignment
<1> QED
  BY <1>1, <1>3, <1>4 DEF TypeOK

\* The first request starts the first run.
LEMMA AlignmentProducer ==
  ASSUME IInv, Producer PROVE Alignment'
<1> PICK b \in 0..Len(rows) : Aligned(b)
  BY DEF IInv, Alignment
<1>1. /\ phase = "produce" /\ rows' = rows /\ lost' = lost /\ token' = token
      /\ scan' = [image |-> CurrentSource, cursor |-> 0]
      /\ phase' = IF token = NoToken THEN "batch" ELSE "restore"
      /\ CurrentSource \in DOMAIN RowCount
  BY DEF Producer, Decodes
<1>2. Len(rows) \in Nat /\ Total' \in Nat
  BY <1>1, LenProperties, RowCountAssumption DEF IInv, TypeOK, Total
<1>3. CASE token = NoToken
  <2>1. rows = <<>> /\ b = 0
    BY <1>1, <1>3 DEF IInv, Protocol
  <2>2. Least(Len(rows) - b, Total') = 0
    BY <1>2, <2>1 DEF Least
  <2>3. Aligned(b)'
    BY <1>1, <1>3, <2>1, <2>2 DEF Aligned, InOrderFrom, Least, Total
  <2> QED
    BY <1>1, <2>3 DEF Alignment
<1>4. CASE token # NoToken
  <2>1. Aligned(b)'
    BY <1>1, <1>4 DEF Aligned, InOrderFrom
  <2> QED
    BY <1>1, <2>1 DEF Alignment
<1> QED
  BY <1>3, <1>4

LEMMA AlignmentNext ==
  ASSUME IInv, [Next]_vars PROVE Alignment'
<1> PICK b \in 0..Len(rows) : Aligned(b)
  BY DEF IInv, Alignment
<1> USE DEF Alignment, Aligned, InOrderFrom, Total
<1>0. TypeOK /\ Protocol /\ Len(rows) \in Nat
  BY LenProperties DEF IInv, TypeOK
<1>1. CASE OnBind
  BY <1>0, <1>1, SentinelsAssumption DEF OnBind, Protocol
<1>2. CASE Producer
  BY <1>2, AlignmentProducer
<1>3. CASE ProducerFails
  BY <1>3 DEF ProducerFails
<1>4. CASE RestoreResume
  BY <1>4, AlignmentRestore
<1>5. CASE NextBatch
  BY <1>5, AlignmentBatch
<1>6. CASE EncodeResume
  BY <1>6 DEF EncodeResume
<1>7. CASE ScanEnds
  <2>1. Len(rows) - b >= Total /\ Total' = Total
    BY <1>0, <1>7, RowCountAssumption DEF ScanEnds, Least, TypeOK, HasScan
  <2> QED
    BY <1>7, <2>1 DEF ScanEnds
<1>8. CASE FileChanges
  BY <1>8 DEF FileChanges
<1>9. CASE TokenGarbled
  <2>1. token' \notin Nat /\ lost' # 0
    BY <1>0, <1>9, SentinelsAssumption DEF TokenGarbled, TypeOK
  <2> QED
    BY <1>9, <2>1 DEF TokenGarbled
<1>10. CASE UNCHANGED vars
  BY <1>10 DEF vars
<1> QED
  BY <1>1, <1>2, <1>3, <1>4, <1>5, <1>6, <1>7, <1>8, <1>9, <1>10
     DEF Next, WorkerStep, Returned

LEMMA RowsExistNext ==
  ASSUME IInv, [Next]_vars PROVE RowsExist'
<1> USE DEF RowsExist
<1>0. TypeOK /\ RowsExist
  BY DEF IInv
<1>1. CASE OnBind
  BY <1>0, <1>1 DEF OnBind, HasScan
<1>2. CASE Producer
  <2>1. scan'.cursor <= Total'
    BY <1>2, RowCountAssumption DEF Producer, Decodes, Total
  <2> QED
    BY <1>0, <1>2, <2>1 DEF Producer
<1>3. CASE ProducerFails
  BY <1>0, <1>3 DEF ProducerFails, HasScan
<1>4. CASE RestoreResume
  <2>1. scan \in [image : DOMAIN RowCount, cursor : Nat] /\ Total \in Nat
    BY <1>0, <1>4, RowCountAssumption DEF RestoreResume, TypeOK, HasScan, Total
  <2>2. Total' = Total /\ scan'.cursor = Restored
    BY <1>4, <2>1 DEF RestoreResume, Total
  <2>3. Restored <= Total
    BY <1>0, <1>4, <2>1, LeastIs DEF RestoreResume, Restored, TypeOK, HasScan
  <2> QED
    BY <1>0, <1>4, <2>2, <2>3 DEF RestoreResume
<1>5. CASE NextBatch
  <2>1. /\ scan.image \in DOMAIN RowCount /\ scan.cursor \in Nat
        /\ BatchLen \in Nat \ {0}
        /\ scan.cursor + BatchLen <= RowCount[scan.image]
        /\ RowCount[scan.image] \in Nat
    BY <1>0, <1>5, BatchFacts DEF NextBatch, Total
  <2>2. /\ Len(rows') = Len(rows) + BatchLen
        /\ \A i \in 1..Len(rows) : rows'[i] = rows[i]
        /\ \A k \in 1..BatchLen :
              rows'[Len(rows) + k] = [image |-> scan.image, row |-> scan.cursor + k]
        /\ scan' = [image |-> scan.image, cursor |-> scan.cursor + BatchLen]
        /\ rows' \in Seq([image : DOMAIN RowCount, row : Nat])
    BY <1>0, <1>5, RowsAfterBatch
  <2>3. /\ Len(rows) \in Nat /\ DOMAIN rows = 1..Len(rows)
        /\ DOMAIN rows' = 1..(Len(rows) + BatchLen)
    BY <1>0, <2>2, LenProperties DEF TypeOK
  <2>4. ASSUME NEW i \in DOMAIN rows'
        PROVE  rows'[i].row \in 1..RowCount[rows'[i].image]
    <3>1. CASE i \in DOMAIN rows
      BY <1>0, <2>2, <2>3, <3>1
    <3>2. CASE i \notin DOMAIN rows
      <4> DEFINE k == i - Len(rows)
      <4>1. k \in 1..BatchLen /\ Len(rows) + k = i
        BY <2>1, <2>3, <2>4, <3>2
      <4> HIDE DEF k
      <4>2. rows'[i] = [image |-> scan.image, row |-> scan.cursor + k]
        BY <2>2, <4>1
      <4>3. scan.cursor + k \in 1..RowCount[scan.image]
        BY <2>1, <4>1
      <4> QED
        BY <4>2, <4>3
    <3> QED
      BY <3>1, <3>2
  <2> QED
    BY <2>1, <2>2, <2>4 DEF Total
<1>6. CASE EncodeResume
  BY <1>0, <1>6 DEF EncodeResume, HasScan
<1>7. CASE ScanEnds
  BY <1>0, <1>7 DEF ScanEnds, HasScan, Total
<1>8. CASE FileChanges
  BY <1>0, <1>8 DEF FileChanges, HasScan, Total
<1>9. CASE TokenGarbled
  BY <1>0, <1>9 DEF TokenGarbled, HasScan, Total
<1>10. CASE UNCHANGED vars
  BY <1>0, <1>10 DEF vars, HasScan, Total
<1> QED
  BY <1>1, <1>2, <1>3, <1>4, <1>5, <1>6, <1>7, <1>8, <1>9, <1>10
     DEF Next, WorkerStep, Returned

LEMMA OriginNext ==
  ASSUME IInv, [Next]_vars PROVE Origin'
<1> USE DEF Origin
<1>0. TypeOK /\ Protocol /\ Origin
  BY DEF IInv
<1>1. CASE OnBind
  BY <1>0, <1>1 DEF OnBind, HasScan
<1>2. CASE Producer
  <2>1. /\ rows' = rows /\ src' = src /\ transport' = transport
        /\ scan'.image = CurrentSource /\ CurrentSource' = CurrentSource
        /\ transport = "stream" => rows = <<>>
    BY <1>0, <1>2 DEF Producer, Protocol, CurrentSource
  <2>2. src \in Images => CurrentSource = src
    BY SentinelsAssumption DEF CurrentSource
  <2> QED
    BY <1>0, <2>1, <2>2
<1>3. CASE ProducerFails
  BY <1>0, <1>3 DEF ProducerFails, HasScan
<1>4. CASE RestoreResume
  <2>1. scan'.image = scan.image
    BY <1>0, <1>4 DEF RestoreResume, TypeOK, HasScan
  <2> QED
    BY <1>0, <1>4, <2>1 DEF RestoreResume, HasScan, CurrentSource
<1>5. CASE NextBatch
  <2>1. /\ Len(rows') = Len(rows) + BatchLen
        /\ \A i \in 1..Len(rows) : rows'[i] = rows[i]
        /\ \A k \in 1..BatchLen :
              rows'[Len(rows) + k] = [image |-> scan.image, row |-> scan.cursor + k]
        /\ scan'.image = scan.image
        /\ rows' \in Seq([image : DOMAIN RowCount, row : Nat])
    BY <1>0, <1>5, RowsAfterBatch
  <2>2. BatchLen \in Nat \ {0} /\ phase = "batch"
    BY <1>0, <1>5, BatchFacts DEF NextBatch
  <2>3. /\ Len(rows) \in Nat /\ DOMAIN rows = 1..Len(rows)
        /\ DOMAIN rows' = 1..(Len(rows) + BatchLen)
    BY <1>0, <2>1, LenProperties DEF TypeOK
  <2>4. \A i \in DOMAIN rows' :
          \/ i \in DOMAIN rows /\ rows'[i].image = rows[i].image
          \/ rows'[i].image = scan.image
    <3>0. \A i \in DOMAIN rows : rows'[i].image = rows[i].image
      BY <2>1, <2>3
    <3> SUFFICES ASSUME NEW i \in DOMAIN rows', i \notin DOMAIN rows
                 PROVE  rows'[i].image = scan.image
      BY <3>0
    <3> DEFINE k == i - Len(rows)
    <3>1. k \in 1..BatchLen /\ Len(rows) + k = i
      BY <2>2, <2>3
    <3> HIDE DEF k
    <3>2. rows'[i] = [image |-> scan.image, row |-> scan.cursor + k]
      BY <2>1, <3>1
    <3> QED
      BY <3>2
  <2>5. /\ src' = src /\ transport' = transport /\ changes' = changes
        /\ CurrentSource' = CurrentSource
        /\ HasScan
    BY <1>5 DEF NextBatch, CurrentSource, HasScan
  <2> QED
    BY <1>0, <2>1, <2>4, <2>5
<1>6. CASE EncodeResume
  BY <1>0, <1>6 DEF EncodeResume, HasScan
<1>7. CASE ScanEnds
  BY <1>0, <1>7 DEF ScanEnds, HasScan, CurrentSource
<1>8. CASE FileChanges
  BY <1>0, <1>8 DEF FileChanges, HasScan, TypeOK
<1>9. CASE TokenGarbled
  BY <1>0, <1>9 DEF TokenGarbled, HasScan
<1>10. CASE UNCHANGED vars
  BY <1>0, <1>10 DEF vars, HasScan, CurrentSource
<1> QED
  BY <1>1, <1>2, <1>3, <1>4, <1>5, <1>6, <1>7, <1>8, <1>9, <1>10
     DEF Next, WorkerStep, Returned

THEOREM IInvHolds == Spec => []IInv
<1>1. IInv /\ [Next]_vars => IInv'
  BY TypeNext, ProtocolNext, AlignmentNext, RowsExistNext, OriginNext DEF IInv
<1> QED
  BY <1>1, IInvInit, PTL DEF Spec

-----------------------------------------------------------------------------
(* The safety properties.                                                  *)

\* No row is skipped, and none repeated unless a token was garbled; a scan
\* reported complete covered the capture it last decoded (scan.rs:54-82).
THEOREM RowsComplete == Spec => []LastRunComplete
<1>1. IInv => LastRunComplete
  BY DEF IInv, Alignment, Aligned, LastRunComplete
<1> QED
  BY <1>1, IInvHolds, PTL

\* No row beyond the end of its capture is ever delivered (scan.rs:55-61, 80).
THEOREM RowsInBounds == Spec => []RowsExist
<1>1. IInv => RowsExist
  BY DEF IInv
<1> QED
  BY <1>1, IInvHolds, PTL

\* BLOB scans and streamed scans never mix captures (mod.rs:71-78).
THEOREM Snapshots == Spec => []SnapshotKept
<1>1. IInv => SnapshotKept
  BY DEF IInv, Origin, SnapshotKept
<1> QED
  BY <1>1, IInvHolds, PTL

-----------------------------------------------------------------------------
(* The refinements.                                                        *)

AllSources == Images \cup {Absent, Unreadable, Mistyped}

LEMMA SourceTyped == ASSUME TypeOK PROVE ScannedSource \in AllSources
BY RowCountAssumption
   DEF TypeOK, ScannedSource, CurrentSource, HasScan, AllSources

\* With intact tokens the cursor of a producer about to emit stands at the end
\* of the rows received, or past the end of its capture.
LEMMA CursorAtEnd ==
  ASSUME IInv, lost = 0, phase = "batch"
  PROVE  /\ scan.cursor < Total => scan.cursor = Len(rows)
         /\ scan.cursor >= Total => Len(rows) >= Total
<1> PICK b \in 0..Len(rows) : Aligned(b)
  BY DEF IInv, Alignment
<1>1. scan.cursor = Least(Len(rows), Total) /\ Len(rows) \in Nat
  BY LenProperties DEF Aligned, IInv, TypeOK
<1>2. Total \in Nat
  BY RowCountAssumption DEF IInv, TypeOK, HasScan, Total
<1> QED
  BY <1>1, <1>2 DEF Least

\* The steps a row stream can see, over an arbitrary mapped source.
LEMMA DeliverStep ==
  ASSUME IInv, lost = 0, NextBatch
  PROVE  /\ ScannedSource = scan.image /\ ScannedSource' = scan.image
         /\ Status = "open" /\ Status' = "open"
         /\ ScannedSource \in DOMAIN RowCount
         /\ BatchLen \in 1..(RowCount[ScannedSource] - Len(rows))
         /\ rows' = rows \o [k \in 1..BatchLen |->
                       [image |-> ScannedSource, row |-> Len(rows) + k]]
<1>1. /\ TypeOK /\ phase = "batch" /\ scan.cursor < Total
      /\ phase' \in {"batch", "respond"} /\ rows' = rows \o Batch(BatchLen)
  BY DEF IInv, NextBatch
<1>2. /\ scan.image \in DOMAIN RowCount /\ scan.cursor \in Nat /\ Total \in Nat
      /\ BatchLen \in Nat \ {0} /\ scan.cursor + BatchLen <= Total
  BY <1>1, BatchFacts
<1>3. scan.cursor = Len(rows)
  BY <1>1, CursorAtEnd
<1>4. scan'.image = scan.image
  BY <1>1, RowsAfterBatch
<1>5. ScannedSource = scan.image /\ ScannedSource' = scan.image
  BY <1>1, <1>4 DEF ScannedSource, HasScan
<1>6. Status = "open" /\ Status' = "open"
  BY <1>1 DEF Status, Ended
<1>7. BatchLen \in 1..(RowCount[ScannedSource] - Len(rows))
  BY <1>2, <1>3, <1>5 DEF Total
<1> QED
  BY <1>1, <1>2, <1>3, <1>5, <1>6, <1>7 DEF Batch

\* A scan that fails does so on a source that does not decode.
LEMMA FailStep ==
  ASSUME TypeOK, ProducerFails \/ (OnBind /\ ~CheckBind)
  PROVE  /\ Status = "open" /\ Status' = "failed"
         /\ ScannedSource \notin DOMAIN RowCount
         /\ ScannedSource' = ScannedSource /\ rows' = rows
<1>1. /\ phase \in {"bind", "produce"} /\ phase' = "failed"
      /\ src' = src /\ disk' = disk /\ rows' = rows
  BY DEF ProducerFails, OnBind
<1>2. ScannedSource = CurrentSource /\ ScannedSource' = CurrentSource
  BY <1>1 DEF ScannedSource, HasScan, CurrentSource
<1>3. CurrentSource \notin DOMAIN RowCount
  BY RowCountAssumption, SentinelsAssumption
     DEF ProducerFails, Decodes, OnBind, CheckBind, CurrentSource, TypeOK
<1> QED
  BY <1>1, <1>2, <1>3 DEF Status, Ended

LEMMA EndStep ==
  ASSUME IInv, lost = 0, ScanEnds
  PROVE  /\ Status = "open" /\ Status' = "done"
         /\ ScannedSource \in DOMAIN RowCount
         /\ Len(rows) >= RowCount[ScannedSource]
         /\ ScannedSource' = ScannedSource /\ rows' = rows
<1>1. /\ phase = "batch" /\ phase' = "done" /\ scan.cursor >= Total
      /\ scan' = scan /\ rows' = rows
  BY DEF ScanEnds
<1>2. ScannedSource = scan.image /\ ScannedSource' = scan.image
  BY <1>1 DEF ScannedSource, HasScan
<1>3. scan.image \in DOMAIN RowCount
  BY <1>1 DEF IInv, TypeOK, HasScan
<1>4. Len(rows) >= Total
  BY <1>1, CursorAtEnd
<1> QED
  BY <1>1, <1>2, <1>3, <1>4 DEF Status, Ended, Total

\* These steps deliver nothing and stay at the source.
LEMMA QuietStep ==
  ASSUME TypeOK,
         (OnBind /\ CheckBind) \/ Producer \/ RestoreResume \/ TokenGarbled
  PROVE  /\ Status = "open" /\ Status' = "open" /\ rows' = rows
         /\ ScannedSource' = ScannedSource
<1> USE DEF Status, Ended, ScannedSource, HasScan, CurrentSource
<1>1. CASE OnBind /\ CheckBind
  BY <1>1 DEF OnBind
<1>2. CASE Producer
  BY <1>2 DEF Producer
<1>3. CASE RestoreResume
  BY <1>3 DEF RestoreResume, TypeOK
<1>4. CASE TokenGarbled
  BY <1>4 DEF TokenGarbled
<1> QED
  BY <1>1, <1>2, <1>3, <1>4

\* These deliver nothing either, but may move the mapped source: a dropped
\* producer leaves it to what src names, a file change alters just that.
LEMMA MovingStep ==
  ASSUME TypeOK, EncodeResume \/ FileChanges
  PROVE  Status = "open" /\ Status' = "open" /\ rows' = rows
BY DEF EncodeResume, FileChanges, Status, Ended

LEMMA IdleStep ==
  ASSUME TypeOK, UNCHANGED vars
  PROVE  Status' = Status /\ rows' = rows /\ ScannedSource' = ScannedSource
BY DEF vars, Status, Ended, ScannedSource, HasScan, CurrentSource

\* A scan without a fault after a step had none before it.
LEMMA FaultsOnlyAccumulate ==
  ASSUME TypeOK, [Next]_vars
  PROVE  /\ lost' = 0 => lost = 0
         /\ changes' = 0 => changes = 0
BY BoundsAssumption
   DEF Next, WorkerStep, OnBind, Producer, ProducerFails, RestoreResume, NextBatch,
       EncodeResume, ScanEnds, FileChanges, TokenGarbled, Returned, vars, TypeOK

\* With intact tokens every step maps to a step of the stream whose source may
\* shift, or to a stutter.
LEMMA ShiftingNext ==
  ASSUME IInv, IInv', [Next]_vars, lost' = 0
  PROVE  [Shifting!Next]_(Shifting!vars)
<1>1. TypeOK /\ lost = 0
  BY FaultsOnlyAccumulate DEF IInv
<1>2. ScannedSource' \in AllSources
  <2>1. (TypeOK => ScannedSource \in AllSources)'
    BY SourceTyped, PTL
  <2> QED
    BY <2>1 DEF IInv
<1> USE DEF Shifting!Next, Shifting!vars
<1>3. CASE (OnBind /\ CheckBind) \/ Producer \/ RestoreResume \/ TokenGarbled
  BY <1>1, <1>3, QuietStep
<1>4. CASE ProducerFails \/ (OnBind /\ ~CheckBind)
  BY <1>1, <1>4, FailStep DEF Shifting!Fail
<1>5. CASE NextBatch
  BY <1>1, <1>5, DeliverStep DEF Shifting!Deliver, Shifting!Row
<1>6. CASE ScanEnds
  BY <1>1, <1>6, EndStep DEF Shifting!Finish
<1>7. CASE EncodeResume \/ FileChanges
  BY <1>1, <1>2, <1>7, MovingStep DEF Shifting!Shift, AllSources
<1>8. CASE UNCHANGED vars
  BY <1>1, <1>8, IdleStep
<1> QED
  BY <1>3, <1>4, <1>5, <1>6, <1>7, <1>8 DEF Next, WorkerStep, Returned

\* Over a file that changes in any way, at any moment, a scan is still a row
\* stream: it may go on in another capture, but at the next ordinal, and it
\* fails only on a source that does not decode (mod.rs:71-78, scan.rs:72-82).
THEOREM ImplementsShifting == Spec => ImplementsShiftingStream
<1>1. Init => Shifting!Init
  BY TypeInit, SourceTyped
     DEF Init, Shifting!Init, Status, Ended, AllSources
<1>2. IInv /\ IInv' /\ [Next]_vars =>
        [lost' = 0 => Shifting!Next]_(Shifting!vars)
  BY ShiftingNext
<1> QED
  BY <1>1, <1>2, IInvHolds, PTL DEF Spec, ImplementsShiftingStream

LEMMA StableNext ==
  ASSUME IInv, [Next]_vars, lost' = 0, changes' = 0
  PROVE  [Stable!Next]_(Stable!vars)
<1>1. TypeOK /\ lost = 0 /\ changes = 0
  BY FaultsOnlyAccumulate DEF IInv
<1> USE DEF Stable!Next, Stable!vars
<1>2. CASE (OnBind /\ CheckBind) \/ Producer \/ RestoreResume \/ TokenGarbled
  BY <1>1, <1>2, QuietStep
<1>3. CASE ProducerFails \/ (OnBind /\ ~CheckBind)
  BY <1>1, <1>3, FailStep DEF Stable!Fail
<1>4. CASE NextBatch
  BY <1>1, <1>4, DeliverStep DEF Stable!Deliver, Stable!Row
<1>5. CASE ScanEnds
  BY <1>1, <1>5, EndStep DEF Stable!Finish
<1>6. CASE EncodeResume
  <2>1. Status = "open" /\ Status' = "open" /\ rows' = rows
    BY <1>1, <1>6, MovingStep
  <2>2. scan.image = CurrentSource /\ CurrentSource' = CurrentSource
    BY <1>1, <1>6 DEF IInv, Origin, EncodeResume, HasScan, CurrentSource
  <2>3. ScannedSource' = ScannedSource
    BY <1>6, <2>2 DEF EncodeResume, ScannedSource, HasScan
  <2> QED
    BY <2>1, <2>3
<1>7. CASE FileChanges
  BY <1>1, <1>7 DEF FileChanges
<1>8. CASE UNCHANGED vars
  BY <1>1, <1>8, IdleStep
<1> QED
  BY <1>2, <1>3, <1>4, <1>5, <1>6, <1>7, <1>8 DEF Next, WorkerStep, Returned

\* Over a source that does not change, a scan delivers exactly the rows of the
\* source, in order and once each, whichever transport carries it and however
\* often the producer is rebuilt from a token (scan.rs:1-10).
THEOREM ImplementsStable == Spec => ImplementsRowStream
<1>1. Init => Stable!Init
  BY TypeInit, SourceTyped
     DEF Init, Stable!Init, Status, Ended, AllSources
<1>2. IInv /\ [Next]_vars =>
        [changes' = 0 /\ lost' = 0 => Stable!Next]_(Stable!vars)
  BY StableNext
<1> QED
  BY <1>1, <1>2, IInvHolds, PTL DEF Spec, ImplementsRowStream

\* The plain refinement: with intact tokens and a source that does not change,
\* the scan implements the stable stream outright.
COROLLARY ImplementsRowStreamWithoutFaults ==
  ASSUME MaxLost = 0, MaxChanges = 0 PROVE Spec => Stable!Spec
<1>1. Init => Stable!Init
  BY TypeInit, SourceTyped
     DEF Init, Stable!Init, Status, Ended, AllSources
<1>2. IInv /\ IInv' /\ [Next]_vars => [Stable!Next]_(Stable!vars)
  <2>1. IInv' => lost' = 0 /\ changes' = 0
    BY DEF IInv, TypeOK
  <2> QED
    BY <2>1, StableNext
<1> QED
  BY <1>1, <1>2, IInvHolds, PTL DEF Spec, Stable!Spec

-----------------------------------------------------------------------------
(* Every call brings the scan nearer to its end, over both transports and  *)
(* whatever file a producer was built from.                                *)

\* The rows of the source as it is now.
Available == IF Decodes THEN RowCount[CurrentSource] ELSE 0

\* The row a scan over "http" is at, or will be once the token is restored.
Reached == CASE phase \in {"produce", "restore"} -> IF token \in Nat THEN token ELSE 0
        [] phase \in {"batch", "respond"}   -> scan.cursor
        [] OTHER                            -> 0

Ahead == Available - Least(Reached, Available)

\* A producer whose source has changed under it may deliver a batch that brings
\* the scan no nearer to the end of the new one, but only one.
Detour == IF scan.image = CurrentSource THEN 0 ELSE 1

CallsLeftHttp ==
  CASE phase = "bind"    -> 4 * Ahead + 4
    [] phase = "produce" -> 4 * Ahead + 3
    [] phase = "restore" -> 4 * (Ahead + Detour) + 2
    [] phase = "batch"   -> IF scan.cursor >= Total THEN 1 ELSE 4 * (Ahead + Detour) + 1
    [] phase = "respond" -> 4 * Ahead + 4
    [] OTHER             -> 0

CallsLeftStream ==
  CASE phase = "bind"    -> Available + 3
    [] phase = "produce" -> Available + 2
    [] phase = "batch"   -> (Total - scan.cursor) + 1
    [] OTHER             -> 0

CallsLeft == IF transport = "http" THEN CallsLeftHttp ELSE CallsLeftStream

\* Calls of the worker leave the source alone.
LEMMA AvailableStays ==
  /\ TypeOK => Available \in Nat
  /\ WorkerStep => Available' = Available /\ CurrentSource' = CurrentSource /\ transport' = transport
<1>1. TypeOK => Available \in Nat
  BY RowCountAssumption DEF Available, Decodes
<1>2. WorkerStep => src' = src /\ disk' = disk /\ transport' = transport
  BY DEF WorkerStep, OnBind, Producer, ProducerFails, RestoreResume, NextBatch, EncodeResume,
         ScanEnds
<1> QED
  BY <1>1, <1>2 DEF Available, Decodes, CurrentSource

LEMMA ReachedNat == TypeOK => Reached \in Nat
<1> SUFFICES ASSUME TypeOK PROVE Reached \in Nat
  OBVIOUS
<1>1. phase \in {"batch", "respond"} => scan.cursor \in Nat
  BY DEF TypeOK, HasScan
<1> QED
  BY <1>1 DEF Reached

\* From a position to the end of the source.
LEMMA AheadIs ==
  ASSUME TypeOK
  PROVE  /\ Ahead \in Nat
         /\ Ahead = IF Reached < Available THEN Available - Reached ELSE 0
<1>1. Available \in Nat /\ Reached \in Nat
  BY AvailableStays, ReachedNat
<1> QED
  BY <1>1 DEF Ahead, Least

\* A producer is behind its own source, or at its end.
LEMMA ScanIs ==
  ASSUME IInv, HasScan
  PROVE  /\ scan.image \in DOMAIN RowCount /\ scan.cursor \in Nat /\ Total \in Nat
         /\ scan.cursor <= Total
         /\ scan.image = CurrentSource => Total = Available
<1>1. /\ scan.image \in DOMAIN RowCount /\ scan.cursor \in Nat
      /\ scan.cursor <= Total
  BY DEF IInv, TypeOK, RowsExist
<1> QED
  BY <1>1, RowCountAssumption DEF Total, Available, Decodes

LEMMA CallsLeftNat == IInv => CallsLeft \in Nat
<1> SUFFICES ASSUME IInv PROVE CallsLeft \in Nat
  OBVIOUS
<1>1. Ahead \in Nat /\ Available \in Nat
  BY AheadIs, AvailableStays DEF IInv
<1>2. Detour \in {0, 1}
  BY DEF Detour
<1>3. CallsLeftHttp \in Nat
  BY <1>1, <1>2 DEF CallsLeftHttp
<1>4. CallsLeftStream \in Nat
  BY <1>1, ScanIs DEF CallsLeftStream, HasScan
<1> QED
  BY <1>3, <1>4 DEF CallsLeft

LEMMA BindAdvances == ASSUME IInv, OnBind PROVE CallsLeft' < CallsLeft
<1>1. /\ phase = "bind" /\ phase' \in {"produce", "failed"}
      /\ token = NoToken /\ token' = token /\ NoToken \notin Nat
  BY SentinelsAssumption DEF IInv, Protocol, OnBind
<1>2. /\ Available \in Nat /\ Ahead \in Nat
      /\ Available' = Available /\ transport' = transport
  BY AvailableStays, AheadIs DEF IInv, WorkerStep
<1>3. Reached = 0 /\ Reached' = 0
  BY <1>1 DEF Reached
<1>4. Ahead' = Ahead
  BY <1>2, <1>3 DEF Ahead
<1>5. CallsLeftHttp' < CallsLeftHttp
  <2>1. CallsLeftHttp = 4 * Ahead + 4
    BY <1>1 DEF CallsLeftHttp
  <2>2. CallsLeftHttp' \in {4 * Ahead + 3, 0}
    BY <1>1, <1>4 DEF CallsLeftHttp
  <2> QED
    BY <1>2, <2>1, <2>2
<1>6. CallsLeftStream' < CallsLeftStream
  BY <1>1, <1>2 DEF CallsLeftStream
<1> QED
  BY <1>2, <1>5, <1>6 DEF CallsLeft

LEMMA ProducerAdvances ==
  ASSUME IInv, Producer \/ ProducerFails PROVE CallsLeft' < CallsLeft
<1>1. /\ Available \in Nat /\ Ahead \in Nat
      /\ Available' = Available /\ transport' = transport /\ CurrentSource' = CurrentSource
  BY AvailableStays, AheadIs DEF IInv, WorkerStep
<1>2. phase = "produce" /\ token' = token
  BY DEF Producer, ProducerFails
<1>3. CallsLeftHttp = 4 * Ahead + 3 /\ CallsLeftStream = Available + 2
  BY <1>2 DEF CallsLeftHttp, CallsLeftStream
<1>4. CASE ProducerFails
  <2>1. CallsLeft' = 0
    BY <1>4 DEF ProducerFails, CallsLeft, CallsLeftHttp, CallsLeftStream
  <2> QED
    BY <1>1, <1>3, <2>1 DEF CallsLeft
<1>5. CASE Producer
  <2>1. /\ scan' = [image |-> CurrentSource, cursor |-> 0]
        /\ phase' = IF token = NoToken THEN "batch" ELSE "restore"
        /\ Decodes
    BY <1>5 DEF Producer
  <2>2. Reached' = Reached
    BY <1>2, <2>1, SentinelsAssumption DEF Reached
  <2>3. Ahead' = Ahead /\ Detour' = 0
    BY <1>1, <2>1, <2>2 DEF Ahead, Detour
  <2>4. CallsLeftHttp' \in {4 * Ahead + 2, 4 * Ahead + 1, 1}
    BY <1>1, <2>1, <2>3 DEF CallsLeftHttp
  <2>5. transport = "stream" => CallsLeftStream' = Available + 1
    <3>1. ASSUME transport = "stream" PROVE phase' = "batch"
      BY <2>1, <3>1 DEF IInv, Protocol
    <3>2. Total' = Available
      BY <1>1, <2>1 DEF Total, Available
    <3> QED
      BY <1>1, <2>1, <3>1, <3>2 DEF CallsLeftStream
  <2>6. transport \in {"http", "stream"}
    BY TransportsAssumption DEF IInv, TypeOK
  <2> QED
    BY <1>1, <1>3, <2>4, <2>5, <2>6 DEF CallsLeft
<1> QED
  BY <1>4, <1>5

LEMMA RestoreAdvances == ASSUME IInv, RestoreResume PROVE CallsLeft' < CallsLeft
<1>1. /\ Available \in Nat /\ Ahead \in Nat
      /\ Available' = Available /\ transport' = transport /\ CurrentSource' = CurrentSource
  BY AvailableStays, AheadIs DEF IInv, WorkerStep
<1>2. /\ phase = "restore" /\ phase' = "batch" /\ token' = token
      /\ scan' = [scan EXCEPT !.cursor = Restored]
      /\ token # NoToken /\ scan.cursor = 0 /\ transport = "http"
      /\ token \in Nat \cup {NoToken, Garbled}
  BY TransportsAssumption DEF IInv, TypeOK, Protocol, RestoreResume
<1>3. /\ scan.image \in DOMAIN RowCount /\ Total \in Nat
      /\ scan \in [image : DOMAIN RowCount, cursor : Nat]
  BY <1>2, ScanIs DEF HasScan, IInv, TypeOK
<1>4. scan'.image = scan.image /\ scan'.cursor = Restored /\ Total' = Total
  BY <1>2, <1>3 DEF Total
<1>5. Detour' = Detour /\ Detour \in {0, 1}
  BY <1>1, <1>4 DEF Detour
<1>6. CallsLeft = 4 * (Ahead + Detour) + 2
  BY <1>2 DEF CallsLeft, CallsLeftHttp
<1>7. CASE Restored >= Total
  <2>1. CallsLeft' = 1
    BY <1>1, <1>2, <1>4, <1>7 DEF CallsLeft, CallsLeftHttp
  <2> QED
    BY <1>1, <1>5, <1>6, <2>1
<1>8. CASE ~(Restored >= Total)
  <2>1. Restored = Reached
    BY <1>2, <1>3, <1>8, SentinelsAssumption DEF Restored, Reached, Least
  <2>2. Reached' = Reached
    BY <1>2, <1>4, <2>1 DEF Reached
  <2>3. Ahead' = Ahead
    BY <1>1, <2>2 DEF Ahead
  <2>4. CallsLeft' = 4 * (Ahead + Detour) + 1
    BY <1>1, <1>2, <1>4, <1>5, <1>8, <2>3 DEF CallsLeft, CallsLeftHttp
  <2> QED
    BY <1>1, <1>5, <1>6, <2>4
<1> QED
  BY <1>7, <1>8

LEMMA RoundIsOver ==
  ASSUME NEW a \in Nat, NEW b \in Nat, NEW d \in Nat, b < a + d
  PROVE  4 * b + 4 < 4 * (a + d) + 1
  OBVIOUS

LEMMA BatchAdvances == ASSUME IInv, NextBatch PROVE CallsLeft' < CallsLeft
<1>1. /\ Available \in Nat /\ Ahead \in Nat
      /\ Available' = Available /\ transport' = transport /\ CurrentSource' = CurrentSource
  BY AvailableStays, AheadIs DEF IInv, WorkerStep
<1>2. /\ phase = "batch" /\ scan.cursor < Total
      /\ phase' = IF transport = "http" THEN "respond" ELSE "batch"
      /\ scan' = [image |-> scan.image, cursor |-> scan.cursor + BatchLen]
  BY RowsAfterBatch DEF IInv, NextBatch
<1>3. BatchLen \in Nat \ {0} /\ scan.cursor + BatchLen <= Total
  BY <1>2, BatchFacts DEF IInv
<1>4. /\ scan.cursor \in Nat /\ Total \in Nat
      /\ scan.image = CurrentSource => Total = Available
  BY <1>2, ScanIs DEF HasScan
<1>5. Total' = Total
  BY <1>2 DEF Total
<1>6. CASE transport = "http"
  <2>1. Reached = scan.cursor /\ Reached' = scan.cursor + BatchLen
    BY <1>2, <1>6 DEF Reached
  <2>2. Ahead = IF scan.cursor < Available THEN Available - scan.cursor ELSE 0
    BY <2>1, AheadIs DEF IInv
  <2>3. Ahead' = IF scan.cursor + BatchLen < Available
                   THEN Available - (scan.cursor + BatchLen) ELSE 0
    BY <1>1, <1>3, <1>4, <2>1 DEF Ahead, Least
  <2>4. CallsLeft = 4 * (Ahead + Detour) + 1
    BY <1>2, <1>4, <1>6 DEF CallsLeft, CallsLeftHttp
  <2>5. CallsLeft' = 4 * Ahead' + 4
    BY <1>1, <1>2, <1>6 DEF CallsLeft, CallsLeftHttp
  <2>6. Ahead' \in Nat /\ Ahead' < Ahead + Detour
    <3>1. CASE scan.image = CurrentSource
      <4>1. Detour = 0 /\ Total = Available
        BY <1>4, <3>1 DEF Detour
      <4> QED
        BY <1>1, <1>2, <1>3, <1>4, <2>2, <2>3, <4>1
    <3>2. CASE scan.image # CurrentSource
      <4>1. Detour = 1
        BY <3>2 DEF Detour
      <4> QED
        BY <1>1, <1>3, <1>4, <2>2, <2>3, <4>1
    <3> QED
      BY <3>1, <3>2
  <2>7. Detour \in Nat
    BY DEF Detour
  <2> QED
    BY <1>1, <2>4, <2>5, <2>6, <2>7, RoundIsOver
<1>7. CASE transport # "http"
  <2>1. CallsLeft = (Total - scan.cursor) + 1
    BY <1>2, <1>7 DEF CallsLeft, CallsLeftStream
  <2>2. CallsLeft' = (Total - (scan.cursor + BatchLen)) + 1
    BY <1>1, <1>2, <1>5, <1>7 DEF CallsLeft, CallsLeftStream
  <2> QED
    BY <1>3, <1>4, <2>1, <2>2
<1> QED
  BY <1>6, <1>7

LEMMA ResponseAdvances == ASSUME IInv, EncodeResume PROVE CallsLeft' < CallsLeft
<1>1. /\ Available \in Nat /\ Ahead \in Nat
      /\ Available' = Available /\ transport' = transport
  BY AvailableStays, AheadIs DEF IInv, WorkerStep
<1>2. /\ phase = "respond" /\ phase' = "produce" /\ token' = scan.cursor /\ transport = "http"
  BY TransportsAssumption DEF IInv, TypeOK, Protocol, EncodeResume
<1>3. scan.cursor \in Nat
  BY <1>2, ScanIs DEF HasScan
<1>4. Reached' = Reached
  BY <1>2, <1>3 DEF Reached
<1>5. Ahead' = Ahead
  BY <1>1, <1>4 DEF Ahead
<1>6. CallsLeft = 4 * Ahead + 4 /\ CallsLeft' = 4 * Ahead + 3
  BY <1>1, <1>2, <1>5 DEF CallsLeft, CallsLeftHttp
<1> QED
  BY <1>1, <1>6

LEMMA EndAdvances == ASSUME IInv, ScanEnds PROVE CallsLeft' < CallsLeft
<1>1. phase = "batch" /\ scan.cursor >= Total /\ phase' = "done"
  BY DEF ScanEnds
<1>2. scan.cursor \in Nat /\ Total \in Nat /\ scan.cursor <= Total
  BY <1>1, ScanIs DEF HasScan
<1>3. CallsLeft = 1 /\ CallsLeft' = 0
  BY <1>1, <1>2 DEF CallsLeft, CallsLeftHttp, CallsLeftStream
<1> QED
  BY <1>3

\* The safety half of termination, over both transports, for any captures, batch
\* size and bounds: every call of the worker uses up one of a known number, which
\* only a change of the file or a garbled token can raise.  No number of rebuilt
\* producers makes a scan go round in circles over a file that stays as it is, even
\* when a token comes from a longer or shorter one (scan.rs:54-82).
THEOREM CallsAdvance ==
  Spec => /\ [](CallsLeft \in Nat)
          /\ [][WorkerStep => CallsLeft' < CallsLeft]_vars
<1>1. IInv => CallsLeft \in Nat
  BY CallsLeftNat
<1>2. ASSUME IInv, WorkerStep PROVE CallsLeft' < CallsLeft
  BY <1>2, BindAdvances, ProducerAdvances, RestoreAdvances, BatchAdvances, ResponseAdvances,
     EndAdvances DEF WorkerStep
<1>3. IInv /\ [Next]_vars => [WorkerStep => CallsLeft' < CallsLeft]_vars
  BY <1>2
<1> QED
  BY IInvHolds, <1>1, <1>3, PTL DEF Spec
=============================================================================
