-------------------------- MODULE RangeJoin_proofs ---------------------------
(***************************************************************************)
(* Proofs about RangeJoin, for any processes, addresses and bounds.        *)
(***************************************************************************)
EXTENDS RangeJoin, TLAPS

MmapRows == [pid : Pids, addr : Nat, len : Nat \ {0}]
SampleRows == [pid : Pids \cup {None}, ip : Nat \cup {None}]

\* The two tables and their history variables run in parallel.
Tables ==
  /\ mmaps \in Seq(MmapRows)
  /\ live \in Seq(SUBSET Nat)
  /\ samples \in Seq(SampleRows)
  /\ fell \in Seq(Nat \cup {None})
  /\ Len(live) = Len(mmaps)
  /\ Len(fell) = Len(samples)

LiveWithin ==
  \A i \in 1..Len(mmaps) :
    /\ live[i] \subseteq Covered(mmaps[i])
    /\ Covered(mmaps[i]) \subseteq 0..MaxAddr

\* A sample that fell in a mapping has that mapping's process and an address
\* it covers; rows never change, so this stays true.
FellInside ==
  \A k \in 1..Len(samples) :
    fell[k] # None =>
      /\ fell[k] \in 1..Len(mmaps)
      /\ samples[k].pid = mmaps[fell[k]].pid
      /\ samples[k].ip \in Covered(mmaps[fell[k]])

\* What is left of the mappings of one process is disjoint.
Disjoint ==
  \A i, j \in 1..Len(mmaps) :
    i # j /\ mmaps[i].pid = mmaps[j].pid => live[i] \cap live[j] = {}

IInv == Tables /\ LiveWithin /\ FellInside /\ Disjoint

-----------------------------------------------------------------------------
LEMMA InitIInv == Init => IInv
  BY DEF Init, IInv, Tables, LiveWithin, FellInside, Disjoint

\* Mapping a region appends a row and trims the addresses it replaces.
LEMMA MapIInv ==
  ASSUME IInv,
         NEW pid \in Pids, NEW addr \in 0..MaxAddr, NEW len \in 1..(MaxAddr + 1 - addr),
         Map(pid, addr, len)
  PROVE  IInv'
<1> DEFINE m == [pid |-> pid, addr |-> addr, len |-> len]
           kept(i) == IF mmaps[i].pid = pid THEN live[i] \ Covered(m) ELSE live[i]
           n == Len(mmaps)
<1> USE BoundsAssumption
<1>1. /\ mmaps' = Append(mmaps, m)
      /\ live' = Append([i \in DOMAIN live |-> kept(i)], Covered(m))
      /\ samples' = samples /\ fell' = fell
  BY DEF Map
<1>2. m \in MmapRows /\ Covered(m) \subseteq 0..MaxAddr /\ Covered(m) \subseteq Nat
  BY DEF MmapRows, Covered
<1>3. /\ mmaps \in Seq(MmapRows) /\ n \in Nat /\ DOMAIN mmaps = 1..n
      /\ live \in Seq(SUBSET Nat) /\ Len(live) = n /\ DOMAIN live = 1..n
  BY DEF IInv, Tables
<1> DEFINE trimmed == [i \in DOMAIN live |-> kept(i)]
<1>4. \A i \in 1..n : kept(i) \subseteq live[i] /\ kept(i) \in SUBSET Nat
  BY <1>3
<1>5. trimmed \in Seq(SUBSET Nat) /\ Len(trimmed) = n
  <2>1. trimmed \in [1..n -> SUBSET Nat]
    BY <1>3, <1>4
  <2> QED
    BY <2>1, <1>3
<1> HIDE DEF trimmed
<1>6. /\ mmaps' \in Seq(MmapRows) /\ Len(mmaps') = n + 1
      /\ \A i \in 1..n : mmaps'[i] = mmaps[i]
      /\ mmaps'[n + 1] = m
  BY <1>1, <1>2, <1>3
<1>7. /\ live' \in Seq(SUBSET Nat) /\ Len(live') = n + 1
      /\ \A i \in 1..n : live'[i] = trimmed[i]
      /\ live'[n + 1] = Covered(m)
  BY <1>1, <1>2, <1>3, <1>5 DEF trimmed
<1>8. \A i \in 1..n : live'[i] = kept(i)
  BY <1>3, <1>7 DEF trimmed
<1>9. Tables'
  BY <1>1, <1>3, <1>6, <1>7 DEF IInv, Tables
<1>10. LiveWithin'
  <2> SUFFICES ASSUME NEW i \in 1..(n + 1)
               PROVE  /\ live'[i] \subseteq Covered(mmaps'[i])
                      /\ Covered(mmaps'[i]) \subseteq 0..MaxAddr
    BY <1>6 DEF LiveWithin, Covered
  <2>1. CASE i \in 1..n
    <3>1. live'[i] = kept(i) /\ mmaps'[i] = mmaps[i] /\ kept(i) \subseteq live[i]
      BY <1>4, <1>6, <1>8, <2>1
    <3>2. live[i] \subseteq Covered(mmaps[i]) /\ Covered(mmaps[i]) \subseteq 0..MaxAddr
      BY <2>1 DEF IInv, LiveWithin
    <3> QED
      BY <3>1, <3>2
  <2>2. CASE i = n + 1
    BY <1>2, <1>6, <1>7, <2>2
  <2> QED
    BY <1>3, <2>1, <2>2
<1>11. FellInside'
  BY <1>1, <1>3, <1>6 DEF IInv, Tables, FellInside, Covered
<1>12. Disjoint'
  <2> SUFFICES ASSUME NEW i \in 1..(n + 1), NEW j \in 1..(n + 1),
                      i # j, mmaps'[i].pid = mmaps'[j].pid
               PROVE  live'[i] \cap live'[j] = {}
    BY <1>6 DEF Disjoint
  <2>1. \A k \in 1..n : mmaps[k].pid = pid => kept(k) \cap Covered(m) = {}
    OBVIOUS
  <2>2. m.pid = pid
    OBVIOUS
  <2> HIDE DEF m
  <2>3. CASE i \in 1..n /\ j \in 1..n
    <3>1. mmaps[i].pid = mmaps[j].pid
      BY <1>6, <2>3
    <3>2. live[i] \cap live[j] = {}
      BY <2>3, <3>1 DEF IInv, Disjoint
    <3> QED
      BY <1>4, <1>8, <2>3, <3>2
  <2>4. CASE i \in 1..n /\ j = n + 1
    <3>1. mmaps[i].pid = pid
      BY <1>6, <2>2, <2>4
    <3> QED
      BY <1>7, <1>8, <2>1, <2>4, <3>1
  <2>5. CASE i = n + 1 /\ j \in 1..n
    <3>1. mmaps[j].pid = pid
      BY <1>6, <2>2, <2>5
    <3> QED
      BY <1>7, <1>8, <2>1, <2>5, <3>1
  <2> QED
    BY <1>3, <2>3, <2>4, <2>5
<1> QED
  BY <1>9, <1>10, <1>11, <1>12 DEF IInv

\* Taking a sample appends to both sequences and disturbs no mapping.
LEMMA SampleIInv ==
  ASSUME IInv,
         NEW pid \in Pids, NEW ip \in 0..MaxAddr, NEW recorded \in BOOLEAN,
         Sample(pid, ip, recorded)
  PROVE  IInv'
<1> DEFINE s == IF recorded THEN [pid |-> pid, ip |-> ip]
                ELSE [pid |-> None, ip |-> None]
           hit == {i \in DOMAIN mmaps : mmaps[i].pid = pid /\ ip \in live[i]}
           f == IF recorded /\ hit # {} THEN CHOOSE i \in hit : TRUE ELSE None
           n == Len(samples)
<1> USE BoundsAssumption
<1>1. /\ samples' = Append(samples, s) /\ fell' = Append(fell, f)
      /\ mmaps' = mmaps /\ live' = live
  BY DEF Sample
<1>2. /\ samples \in Seq(SampleRows) /\ n \in Nat
      /\ fell \in Seq(Nat \cup {None}) /\ Len(fell) = n
      /\ mmaps \in Seq(MmapRows) /\ DOMAIN mmaps = 1..Len(mmaps)
  BY DEF IInv, Tables
<1>3. s \in SampleRows
  BY DEF SampleRows
<1>4. f # None => recorded /\ f \in hit
  <2>1. hit # {} => (CHOOSE i \in hit : TRUE) \in hit
    OBVIOUS
  <2> QED
    BY <2>1
<1>5. f \in Nat \cup {None}
  BY <1>2, <1>4
<1>6. f # None => /\ f \in 1..Len(mmaps)
                  /\ s.pid = mmaps[f].pid
                  /\ s.ip \in Covered(mmaps[f])
  <2> SUFFICES ASSUME f # None PROVE
        f \in 1..Len(mmaps) /\ s.pid = mmaps[f].pid /\ s.ip \in Covered(mmaps[f])
    OBVIOUS
  <2>1. f \in 1..Len(mmaps) /\ mmaps[f].pid = pid /\ ip \in live[f]
    BY <1>2, <1>4
  <2>2. s = [pid |-> pid, ip |-> ip]
    BY <1>4
  <2> HIDE DEF f, s
  <2>3. live[f] \subseteq Covered(mmaps[f])
    BY <2>1 DEF IInv, LiveWithin
  <2> QED
    BY <2>1, <2>2, <2>3
<1> HIDE DEF s, f
<1>7. /\ samples' \in Seq(SampleRows) /\ Len(samples') = n + 1
      /\ \A k \in 1..n : samples'[k] = samples[k]
      /\ samples'[n + 1] = s
  BY <1>1, <1>2, <1>3
<1>8. /\ fell' \in Seq(Nat \cup {None}) /\ Len(fell') = n + 1
      /\ \A k \in 1..n : fell'[k] = fell[k]
      /\ fell'[n + 1] = f
  BY <1>1, <1>2, <1>5
<1>9. Tables'
  BY <1>1, <1>7, <1>8 DEF IInv, Tables
<1>10. LiveWithin' /\ Disjoint'
  BY <1>1 DEF IInv, LiveWithin, Disjoint, Covered
<1>11. FellInside'
  <2> SUFFICES ASSUME NEW k \in 1..(n + 1), fell'[k] # None
               PROVE  /\ fell'[k] \in 1..Len(mmaps)
                      /\ samples'[k].pid = mmaps[fell'[k]].pid
                      /\ samples'[k].ip \in Covered(mmaps[fell'[k]])
    BY <1>1, <1>7 DEF FellInside, Covered
  <2>1. CASE k \in 1..n
    BY <1>7, <1>8, <2>1 DEF IInv, FellInside
  <2>2. CASE k = n + 1
    BY <1>6, <1>7, <1>8, <2>2
  <2> QED
    BY <1>2, <2>1, <2>2
<1> QED
  BY <1>9, <1>10, <1>11 DEF IInv

LEMMA NextIInv == IInv /\ [Next]_vars => IInv'
<1> SUFFICES ASSUME IInv, [Next]_vars PROVE IInv'
  OBVIOUS
<1>1. CASE Next
  BY <1>1, MapIInv, SampleIInv DEF Next
<1>2. CASE UNCHANGED vars
  BY <1>2 DEF vars, IInv, Tables, LiveWithin, FellInside, Disjoint, Covered
<1> QED
  BY <1>1, <1>2

\* The inductive invariant holds in every reachable state.
THEOREM IInvHolds == Spec => []IInv
  BY InitIInv, NextIInv, PTL DEF Spec

-----------------------------------------------------------------------------
\* The tables and the history of the mappings stay in step.
THEOREM TypeCorrect == Spec => []TypeOK
<1>1. IInv => TypeOK
  <2> SUFFICES ASSUME IInv PROVE TypeOK
    OBVIOUS
  <2>1. /\ DOMAIN mmaps = 1..Len(mmaps) /\ DOMAIN live = DOMAIN mmaps
        /\ DOMAIN fell = DOMAIN samples /\ DOMAIN fell = 1..Len(samples)
    BY DEF IInv, Tables
  <2>2. ASSUME NEW i \in DOMAIN mmaps
        PROVE  /\ mmaps[i].pid \in Pids
               /\ Covered(mmaps[i]) \subseteq 0..MaxAddr
               /\ live[i] \subseteq Covered(mmaps[i])
    <3>1. mmaps[i] \in MmapRows
      BY DEF IInv, Tables
    <3> QED
      BY <2>1, <3>1 DEF IInv, LiveWithin, MmapRows
  <2>3. \A k \in DOMAIN fell : fell[k] \in DOMAIN mmaps \cup {None}
    BY <2>1 DEF IInv, FellInside
  <2> QED
    BY <2>1, <2>2, <2>3 DEF TypeOK
<1> QED
  BY <1>1, IInvHolds, PTL

\* The documented join (mmaps.rs:65) never misses the mapping a sample fell
\* in, however many mappings were made and replaced around it.
THEOREM Complete == Spec => []JoinComplete
<1>1. IInv => JoinComplete
  <2> SUFFICES ASSUME IInv, NEW k \in DOMAIN samples, fell[k] # None
               PROVE  Joins(samples[k], mmaps[fell[k]]) /\ fell[k] \in DOMAIN mmaps
    BY DEF JoinComplete, Attributed
  <2>1. /\ fell[k] \in DOMAIN mmaps
        /\ samples[k].pid = mmaps[fell[k]].pid
        /\ samples[k].ip \in Covered(mmaps[fell[k]])
    BY DEF IInv, Tables, FellInside
  <2>2. mmaps[fell[k]] \in MmapRows
    BY <2>1 DEF IInv, Tables
  <2> QED
    BY <2>1, <2>2, NoneAssumption DEF Joins, Covered, MmapRows
<1> QED
  BY <1>1, IInvHolds, PTL

\* Among intact mappings, the only ones the join adds are those that end exactly
\* at the sample: the inclusive end of BETWEEN (mmaps.rs:65) is the whole of its
\* imprecision there.
THEOREM ExtraAtTheEnd == Spec => []ExtraOnlyAtTheEnd
<1>1. IInv => ExtraOnlyAtTheEnd
  <2> SUFFICES ASSUME IInv, NEW k \in DOMAIN samples, fell[k] # None,
                      NEW i \in Attributed(samples[k]), i # fell[k],
                      Intact(i), Intact(fell[k])
               PROVE  samples[k].ip = mmaps[i].addr + mmaps[i].len
    BY DEF ExtraOnlyAtTheEnd
  <2>1. /\ fell[k] \in 1..Len(mmaps)
        /\ samples[k].pid = mmaps[fell[k]].pid
        /\ samples[k].ip \in Covered(mmaps[fell[k]])
    BY DEF IInv, Tables, FellInside
  <2>2. i \in 1..Len(mmaps) /\ Joins(samples[k], mmaps[i])
    BY DEF IInv, Tables, Attributed
  <2>3. mmaps[i] \in MmapRows /\ mmaps[fell[k]] \in MmapRows
    BY <2>1, <2>2 DEF IInv, Tables
  <2>4. mmaps[i].pid = mmaps[fell[k]].pid
    BY <2>1, <2>2 DEF Joins
  <2>5. Covered(mmaps[i]) \cap Covered(mmaps[fell[k]]) = {}
    BY <2>1, <2>2, <2>4 DEF IInv, Disjoint, Intact
  <2>6. samples[k].ip \notin Covered(mmaps[i])
    BY <2>1, <2>5
  <2> DEFINE ip == samples[k].ip
             a == mmaps[i].addr
             l == mmaps[i].len
  <2>7. a \in Nat /\ l \in Nat
    BY <2>3 DEF MmapRows
  <2>8. ip \in Int
    BY <2>1, <2>3 DEF Covered, MmapRows
  <2>9. a <= ip /\ ip <= a + l
    BY <2>2 DEF Joins
  <2>10. ip \notin a..(a + l - 1)
    BY <2>6 DEF Covered
  <2> HIDE DEF ip, a, l
  <2>11. ip = a + l
    BY <2>7, <2>8, <2>9, <2>10
  <2> QED
    BY <2>11 DEF ip, a, l
<1> QED
  BY <1>1, IInvHolds, PTL
=============================================================================
