------------------------------ MODULE RangeJoin ------------------------------
(***************************************************************************)
(* The ip-to-mapping range join that the samples and mmaps tables exist    *)
(* for, as the SQL of crates/perf-worker/src/table/mmaps.rs:59-68 writes   *)
(* it:                                                                     *)
(*   ON s.pid = m.pid AND s.ip BETWEEN m.addr AND m.addr + m.len           *)
(*                                                                         *)
(* The kernel that wrote the capture is external: a process maps regions   *)
(* of its address space (a new mapping replaces what it overlaps; perf     *)
(* records the mapping, never the unmapping) and samples are taken at      *)
(* addresses.  `fell' remembers, for each sample, the mapping it fell in.  *)
(***************************************************************************)
EXTENDS Integers, Sequences, FiniteSets

CONSTANTS
  Pids,          \* processes
  MaxAddr,       \* addresses are 0..MaxAddr
  None,          \* NULL: a capture without PERF_SAMPLE_TID or PERF_SAMPLE_IP
  MaxMmaps, MaxSamples    \* bounds on the rows of the two tables

ASSUME BoundsAssumption ==
  MaxAddr \in Nat /\ MaxMmaps \in Nat /\ MaxSamples \in Nat
ASSUME NoneAssumption == None \notin Pids /\ None \notin Int

VARIABLES
  mmaps,     \* the rows of perf.mmaps
  live,      \* live[i]: the addresses of mmaps[i] not replaced since
  samples,   \* the rows of perf.samples
  fell       \* fell[k]: the mapping samples[k] fell in, or None

vars == <<mmaps, live, samples, fell>>

-----------------------------------------------------------------------------
\* Mutant: the end belongs to the mapping.
CoveredInclusive(m) == m.addr..(m.addr + m.len)

\* The documented extent of a mapping, [addr, addr+len).
Covered(m) == m.addr..(m.addr + m.len - 1)

\* Mutant: BETWEEN without its lower end.
JoinsAboveAddr(s, m) ==
  /\ s.pid # None /\ s.ip # None
  /\ s.pid = m.pid
  /\ m.addr < s.ip /\ s.ip <= m.addr + m.len

\* Mutant: the join forgets the process.
JoinsAnyPid(s, m) ==
  /\ s.pid # None /\ s.ip # None
  /\ m.addr <= s.ip /\ s.ip <= m.addr + m.len

\* The join condition; a NULL on either side is no match.  BETWEEN includes
\* both ends.
Joins(s, m) ==
  /\ s.pid # None /\ s.ip # None
  /\ s.pid = m.pid
  /\ m.addr <= s.ip /\ s.ip <= m.addr + m.len

\* The mappings a sample is attributed to.
Attributed(s) == {i \in DOMAIN mmaps : Joins(s, mmaps[i])}

-----------------------------------------------------------------------------
Init ==
  /\ mmaps = <<>>
  /\ live = <<>>
  /\ samples = <<>>
  /\ fell = <<>>

\* A process maps [addr, addr + len).
Map(pid, addr, len) ==
  LET m == [pid |-> pid, addr |-> addr, len |-> len]
      kept(i) == IF mmaps[i].pid = pid THEN live[i] \ Covered(m) ELSE live[i]
  IN  /\ Len(mmaps) < MaxMmaps
      /\ mmaps' = Append(mmaps, m)
      /\ live' = Append([i \in DOMAIN live |-> kept(i)], Covered(m))
      /\ UNCHANGED <<samples, fell>>

\* A sample is taken; the capture may have recorded neither pid nor ip.
Sample(pid, ip, recorded) ==
  /\ Len(samples) < MaxSamples
  /\ samples' = Append(samples, IF recorded THEN [pid |-> pid, ip |-> ip]
                                            ELSE [pid |-> None, ip |-> None])
  /\ LET hit == {i \in DOMAIN mmaps : mmaps[i].pid = pid /\ ip \in live[i]}
     IN  fell' = Append(fell, IF recorded /\ hit # {} THEN CHOOSE i \in hit : TRUE
                                                      ELSE None)
  /\ UNCHANGED <<mmaps, live>>

Next ==
  \/ \E pid \in Pids, addr \in 0..MaxAddr : \E len \in 1..(MaxAddr + 1 - addr) :
        Map(pid, addr, len)
  \/ \E pid \in Pids, ip \in 0..MaxAddr, recorded \in BOOLEAN : Sample(pid, ip, recorded)

Spec == Init /\ [][Next]_vars

-----------------------------------------------------------------------------
(* Properties.                                                             *)

\* The rows of the two tables have their types, in step with what is remembered
\* of the address spaces they were recorded from.
TypeOK ==
  /\ \A i \in DOMAIN mmaps : mmaps[i].pid \in Pids /\ Covered(mmaps[i]) \subseteq 0..MaxAddr
  /\ DOMAIN live = DOMAIN mmaps
  /\ \A i \in DOMAIN live : live[i] \subseteq Covered(mmaps[i])
  /\ DOMAIN fell = DOMAIN samples
  /\ \A k \in DOMAIN fell : fell[k] \in DOMAIN mmaps \cup {None}

\* The join misses nothing: a sample that fell in a mapping is attributed to
\* it, whatever was mapped over it or next to it before or since.
JoinComplete ==
  \A k \in DOMAIN samples : fell[k] # None => fell[k] \in Attributed(samples[k])

\* No part of the mapping has been replaced.
Intact(i) == live[i] = Covered(mmaps[i])

\* Among mappings that have not been replaced, not even in part, whatever else
\* a sample is attributed to ends exactly where the sample lies: it is never
\* another process's mapping, never an overlapping one.
ExtraOnlyAtTheEnd ==
  \A k \in DOMAIN samples :
    fell[k] # None =>
      \A i \in Attributed(samples[k]) \ {fell[k]} :
         Intact(i) /\ Intact(fell[k])
            => samples[k].ip = mmaps[i].addr + mmaps[i].len

-----------------------------------------------------------------------------
(* What the documentation says and the query does not do.                  *)

\* rows.rs:36-37: "the [addr, addr+len) range a raw IP falls in identifies the
\* mapped file".  BETWEEN also takes addr+len, so a sample at the first byte of
\* a mapping is attributed to the mapping that ends there as well.
IdentifiesTheMapping ==
  (\A i \in DOMAIN mmaps : Intact(i)) =>
    \A k \in DOMAIN samples :
      fell[k] # None => Attributed(samples[k]) = {fell[k]}
=============================================================================
