------------------------- MODULE CaptureFile_proofs --------------------------
(***************************************************************************)
(* Proofs about CaptureFile: for any contents whose records fit their      *)
(* 16-bit size, every field is where a reader that goes by the format      *)
(* looks for it.                                                           *)
(***************************************************************************)
EXTENDS CaptureFile, SequenceTheorems, FiniteSetTheorems, WellFoundedInduction, TLAPS

(***************************************************************************)
(* Induction and recursion.                                                *)
(***************************************************************************)

\* Induction over the natural numbers, for a set of them.
LEMMA SetInduction ==
  ASSUME NEW S, 0 \in S, \A n \in Nat : n \in S => n + 1 \in S
  PROVE  Nat \subseteq S
<1> DEFINE T == Nat \ S
<1> SUFFICES ASSUME T # {} PROVE FALSE
  OBVIOUS
<1>1. PICK x \in T : \A y \in T : ~ (<<y, x>> \in OpToRel(<, Nat))
  <2> HIDE DEF T
  <2>1. IsWellFoundedOn(OpToRel(<, Nat), Nat)
    BY NatLessThanWellFounded
  <2>2. T \subseteq Nat
    BY DEF T
  <2> QED
    BY <2>1, <2>2, WFMin
<1>2. x \in Nat /\ x \notin S /\ x # 0
  BY <1>1
<1>3. x - 1 \in Nat /\ (x - 1) + 1 = x
  BY <1>2
<1>4. x - 1 \in T
  BY <1>2, <1>3
<1>5. <<x - 1, x>> \in OpToRel(<, Nat)
  BY <1>2, <1>3 DEF OpToRel
<1> QED
  BY <1>1, <1>4, <1>5

\* The same from 0 to n.
LEMMA IntervalInduction ==
  ASSUME NEW n \in Nat, NEW S, 0 \in S, \A i \in 0..(n - 1) : i \in S => i + 1 \in S
  PROVE  0..n \subseteq S
<1> DEFINE T == {i \in Nat : i <= n => i \in S}
<1>1. 0 \in T
  OBVIOUS
<1>2. ASSUME NEW i \in Nat, i \in T PROVE i + 1 \in T
  <2>1. CASE i + 1 <= n
    <3>1. i \in 0..(n - 1) /\ i \in S
      BY <1>2, <2>1
    <3> QED
      BY <3>1
  <2>2. CASE ~ (i + 1 <= n)
    BY <2>2
  <2> QED
    BY <2>1, <2>2
<1> HIDE DEF T
<1>3. Nat \subseteq T
  BY <1>1, <1>2, SetInduction
<1> QED
  BY <1>3 DEF T

-----------------------------------------------------------------------------
(***************************************************************************)
(* Buffers: sequences of fields of positive width.                         *)
(***************************************************************************)

IsBuffer(s) == \E S : s \in Seq(S) /\ \A f \in S : f.width \in Nat \ {0}

LEMMA BufferSeq ==
  ASSUME NEW s, IsBuffer(s)
  PROVE  /\ Len(s) \in Nat /\ DOMAIN s = 1..Len(s)
         /\ \A i \in 1..Len(s) : s[i].width \in Nat \ {0}
<1>1. PICK S : s \in Seq(S) /\ \A f \in S : f.width \in Nat \ {0}
  BY DEF IsBuffer
<1> QED
  BY <1>1, LenProperties, ElementOfSeq

\* The recursive definition of the offsets has a solution.
LEMMA OffsetsExist ==
  ASSUME NEW s, NEW n \in Nat
  PROVE  \E g : g = [i \in 0..n |-> IF i = 0 THEN 0 ELSE g[i - 1] + s[i].width]
<1> DEFINE Solves(g, k) == g = [i \in 0..k |-> IF i = 0 THEN 0 ELSE g[i - 1] + s[i].width]
           S == {k \in Nat : \E g : Solves(g, k)}
<1>1. 0 \in S
  <2>1. Solves([i \in 0..0 |-> 0], 0)
    OBVIOUS
  <2> HIDE DEF Solves
  <2> QED
    BY <2>1
<1>2. ASSUME NEW k \in Nat, k \in S PROVE k + 1 \in S
  <2>1. PICK g : Solves(g, k)
    BY <1>2
  <2> DEFINE h == [i \in 0..k + 1 |-> IF i <= k THEN g[i] ELSE g[k] + s[k + 1].width]
  <2>2. ASSUME NEW i \in 0..k + 1
        PROVE  h[i] = IF i = 0 THEN 0 ELSE h[i - 1] + s[i].width
    <3>1. CASE i = 0
      BY <2>1, <3>1
    <3>2. CASE i \in 1..k
      <4>1. h[i] = g[i] /\ h[i - 1] = g[i - 1]
        BY <3>2
      <4>2. g[i] = g[i - 1] + s[i].width
        BY <2>1, <3>2
      <4> QED
        BY <3>2, <4>1, <4>2
    <3>3. CASE i = k + 1
      <4>1. h[i] = g[k] + s[k + 1].width /\ h[i - 1] = g[k]
        BY <3>3
      <4> QED
        BY <3>3, <4>1
    <3> QED
      BY <3>1, <3>2, <3>3
  <2>3. Solves(h, k + 1)
    <3>1. DOMAIN h = 0..k + 1 /\ h = [i \in 0..k + 1 |-> h[i]]
      OBVIOUS
    <3> HIDE DEF h
    <3> QED
      BY <2>2, <3>1
  <2> HIDE DEF Solves, h
  <2> QED
    BY <2>3
<1> HIDE DEF S
<1>3. n \in S
  BY <1>1, <1>2, SetInduction
<1> QED
  BY <1>3 DEF S

LEMMA OffsetsAre ==
  ASSUME NEW s, Len(s) \in Nat
  PROVE  /\ Offsets(s)[0] = 0
         /\ \A i \in 1..Len(s) : Offsets(s)[i] = Offsets(s)[i - 1] + s[i].width
<1> DEFINE g == CHOOSE g : g = [i \in 0..Len(s) |-> IF i = 0 THEN 0 ELSE g[i - 1] + s[i].width]
<1>1. Offsets(s) = g
  BY DEF Offsets
<1>2. g = [i \in 0..Len(s) |-> IF i = 0 THEN 0 ELSE g[i - 1] + s[i].width]
  BY OffsetsExist
<1> HIDE DEF g
<1> QED
  BY <1>1, <1>2

\* Offsets are determined by how they begin and go on.
LEMMA OffsetsUnique ==
  ASSUME NEW s, Len(s) \in Nat, NEW g, g[0] = 0,
         \A i \in 1..Len(s) : g[i] = g[i - 1] + s[i].width
  PROVE  \A i \in 0..Len(s) : Offsets(s)[i] = g[i]
<1> DEFINE S == {i \in Nat : Offsets(s)[i] = g[i]}
<1>1. 0 \in S
  BY OffsetsAre
<1>2. ASSUME NEW i \in 0..(Len(s) - 1), i \in S PROVE i + 1 \in S
  <2>1. i + 1 \in 1..Len(s) /\ (i + 1) - 1 = i
    OBVIOUS
  <2>2. Offsets(s)[i + 1] = Offsets(s)[i] + s[i + 1].width /\ g[i + 1] = g[i] + s[i + 1].width
    BY <2>1, OffsetsAre
  <2> QED
    BY <1>2, <2>2
<1> HIDE DEF S
<1>3. 0..Len(s) \subseteq S
  BY <1>1, <1>2, IntervalInduction
<1> QED
  BY <1>3 DEF S

\* Offsets grow.
LEMMA OffsetsGrow ==
  ASSUME NEW s, IsBuffer(s)
  PROVE  \A i \in 0..Len(s) :
           /\ Offsets(s)[i] \in Nat
           /\ \A j \in 0..(i - 1) : Offsets(s)[j] < Offsets(s)[i]
<1> DEFINE S == {i \in Nat : /\ Offsets(s)[i] \in Nat
                             /\ \A j \in 0..(i - 1) : Offsets(s)[j] \in Nat /\ Offsets(s)[j] < Offsets(s)[i]}
<1>1. Len(s) \in Nat
  BY BufferSeq
<1>2. 0 \in S
  BY <1>1, OffsetsAre
<1>3. ASSUME NEW i \in 0..(Len(s) - 1), i \in S PROVE i + 1 \in S
  <2>1. i + 1 \in 1..Len(s) /\ (i + 1) - 1 = i
    BY <1>1
  <2>2. Offsets(s)[i + 1] = Offsets(s)[i] + s[i + 1].width
    BY <1>1, <2>1, OffsetsAre
  <2>3. s[i + 1].width \in Nat \ {0}
    BY <2>1, BufferSeq
  <2>4. Offsets(s)[i + 1] \in Nat /\ Offsets(s)[i] < Offsets(s)[i + 1]
    BY <1>3, <2>2, <2>3
  <2>5. \A j \in 0..i : Offsets(s)[j] \in Nat /\ Offsets(s)[j] <= Offsets(s)[i]
    BY <1>3
  <2>6. \A j \in 0..i : Offsets(s)[j] < Offsets(s)[i + 1]
    BY <1>3, <2>4, <2>5
  <2> QED
    BY <2>1, <2>4, <2>5, <2>6
<1> HIDE DEF S
<1>4. 0..Len(s) \subseteq S
  BY <1>1, <1>2, <1>3, IntervalInduction
<1> QED
  BY <1>4 DEF S

\* A buffer that follows another keeps its offsets relative to it.
LEMMA ConcatBuffer ==
  ASSUME NEW s, NEW t, IsBuffer(s), IsBuffer(t)
  PROVE  /\ IsBuffer(s \o t)
         /\ Len(s \o t) = Len(s) + Len(t)
         /\ \A i \in 1..Len(s) : (s \o t)[i] = s[i]
         /\ \A i \in 1..Len(t) : (s \o t)[Len(s) + i] = t[i]
         /\ \A i \in 0..Len(s) : Offsets(s \o t)[i] = Offsets(s)[i]
         /\ \A i \in 0..Len(t) : Offsets(s \o t)[Len(s) + i] = Size(s) + Offsets(t)[i]
         /\ Size(s \o t) = Size(s) + Size(t)
<1>1. PICK S : s \in Seq(S) /\ \A f \in S : f.width \in Nat \ {0}
  BY DEF IsBuffer
<1>2. PICK T : t \in Seq(T) /\ \A f \in T : f.width \in Nat \ {0}
  BY DEF IsBuffer
<1> DEFINE U == S \cup T
           m == Len(s)
           n == Len(t)
<1>3. s \in Seq(U) /\ t \in Seq(U) /\ m \in Nat /\ n \in Nat
  BY <1>1, <1>2, SeqMonotonic, BufferSeq
<1>4. /\ s \o t \in Seq(U) /\ Len(s \o t) = m + n
      /\ \A i \in 1..(m + n) : (s \o t)[i] = IF i <= m THEN s[i] ELSE t[i - m]
  BY <1>3, ConcatProperties
<1>5. IsBuffer(s \o t)
  <2>1. \A f \in U : f.width \in Nat \ {0}
    BY <1>1, <1>2
  <2> QED
    BY <1>4, <2>1 DEF IsBuffer
<1> HIDE DEF U
<1>6. \A i \in 1..m : (s \o t)[i] = s[i]
  BY <1>3, <1>4
<1>7. \A i \in 1..n : (s \o t)[m + i] = t[i]
  <2>1. \A i \in 1..n : m + i \in 1..(m + n) /\ ~ (m + i <= m) /\ (m + i) - m = i
    BY <1>3
  <2> QED
    BY <1>4, <2>1
<1> DEFINE g == [i \in 0..(m + n) |-> IF i <= m THEN Offsets(s)[i] ELSE Size(s) + Offsets(t)[i - m]]
<1>8. g[0] = 0
  BY <1>3, OffsetsAre
<1>9. ASSUME NEW i \in 1..(m + n) PROVE g[i] = g[i - 1] + (s \o t)[i].width
  <2>1. CASE i <= m
    <3>1. i \in 1..m /\ g[i] = Offsets(s)[i] /\ g[i - 1] = Offsets(s)[i - 1]
      BY <1>3, <2>1
    <3>2. Offsets(s)[i] = Offsets(s)[i - 1] + s[i].width
      BY <1>3, <3>1, OffsetsAre
    <3> QED
      BY <1>6, <3>1, <3>2
  <2>2. CASE i > m
    <3>1. i - m \in 1..n /\ g[i] = Size(s) + Offsets(t)[i - m] /\ m + (i - m) = i
      BY <1>3, <2>2
    <3>2. Offsets(t)[i - m] = Offsets(t)[(i - m) - 1] + t[i - m].width
      BY <1>3, <3>1, OffsetsAre
    <3>3. g[i - 1] = Size(s) + Offsets(t)[(i - m) - 1]
      <4>1. CASE i = m + 1
        <5>1. g[i - 1] = Size(s) /\ (i - m) - 1 = 0
          BY <1>3, <4>1 DEF Size
        <5>2. Offsets(t)[0] = 0
          BY <1>3, OffsetsAre
        <5>3. Size(s) \in Nat
          BY <1>3, OffsetsGrow DEF Size
        <5> QED
          BY <5>1, <5>2, <5>3
      <4>2. CASE i # m + 1
        <5>1. i - 1 \in 0..(m + n) /\ ~ (i - 1 <= m) /\ (i - 1) - m = (i - m) - 1
          BY <1>3, <2>2, <4>2
        <5> QED
          BY <5>1
      <4> QED
        BY <4>1, <4>2
    <3>4. (s \o t)[i] = t[i - m]
      BY <1>7, <3>1
    <3>5. Size(s) \in Nat /\ Offsets(t)[(i - m) - 1] \in Nat /\ t[i - m].width \in Nat
      <4>1. (i - m) - 1 \in 0..n
        BY <1>3, <3>1
      <4> QED
        BY <1>3, <3>1, <4>1, OffsetsGrow, BufferSeq DEF Size
    <3> DEFINE a == Size(s)
               b == Offsets(t)[(i - m) - 1]
               w == t[i - m].width
    <3>6. g[i] = a + (b + w) /\ g[i - 1] = a + b /\ (s \o t)[i].width = w
      BY <3>1, <3>2, <3>3, <3>4
    <3>7. a \in Nat /\ b \in Nat /\ w \in Nat
      BY <3>5
    <3> HIDE DEF a, b, w, g
    <3> QED
      BY <3>6, <3>7
  <2> QED
    BY <1>3, <2>1, <2>2
<1>10. \A i \in 0..(m + n) : Offsets(s \o t)[i] = g[i]
  <2> HIDE DEF g
  <2>1. Len(s \o t) \in Nat /\ Len(s \o t) = m + n
    BY <1>3, <1>4
  <2>2. \A i \in 1..Len(s \o t) : g[i] = g[i - 1] + (s \o t)[i].width
    BY <1>9, <2>1
  <2>3. \A i \in 0..Len(s \o t) : Offsets(s \o t)[i] = g[i]
    BY <1>8, <2>1, <2>2, OffsetsUnique
  <2> QED
    BY <2>1, <2>3
<1>11. \A i \in 0..m : Offsets(s \o t)[i] = Offsets(s)[i]
  BY <1>3, <1>10
<1>12. ASSUME NEW i \in 0..n PROVE Offsets(s \o t)[m + i] = Size(s) + Offsets(t)[i]
  <2>1. CASE i = 0
    <3>1. Size(s) \in Nat /\ Offsets(t)[0] = 0
      BY <1>3, OffsetsGrow, OffsetsAre DEF Size
    <3> QED
      BY <1>3, <1>11, <2>1, <3>1 DEF Size
  <2>2. CASE i # 0
    <3>1. m + i \in 0..(m + n) /\ ~ (m + i <= m) /\ (m + i) - m = i
      BY <1>3, <2>2
    <3> QED
      BY <1>10, <3>1
  <2> QED
    BY <2>1, <2>2
<1>13. Size(s \o t) = Size(s) + Size(t)
  BY <1>3, <1>4, <1>12 DEF Size
<1> QED
  BY <1>4, <1>5, <1>6, <1>7, <1>11, <1>12, <1>13
-----------------------------------------------------------------------------
(* Fields at offsets.                                                      *)

\* Field f begins at offset o of s.
At(s, o, f) == \E i \in 1..Len(s) : Offsets(s)[i - 1] = o /\ s[i] = f

LEMMA AtConcat ==
  ASSUME NEW s, NEW t, IsBuffer(s), IsBuffer(t), NEW o, NEW f
  PROVE  /\ At(s, o, f) => At(s \o t, o, f)
         /\ At(t, o, f) => At(s \o t, Size(s) + o, f)
<1>1. Len(s) \in Nat /\ Len(t) \in Nat /\ Len(s \o t) = Len(s) + Len(t)
  BY BufferSeq, ConcatBuffer
<1>2. ASSUME At(s, o, f) PROVE At(s \o t, o, f)
  <2>1. PICK i \in 1..Len(s) : Offsets(s)[i - 1] = o /\ s[i] = f
    BY <1>2 DEF At
  <2>2. i - 1 \in 0..Len(s) /\ i \in 1..Len(s \o t)
    BY <1>1
  <2>3. Offsets(s \o t)[i - 1] = o /\ (s \o t)[i] = f
    BY <2>1, <2>2, ConcatBuffer
  <2> QED
    BY <2>2, <2>3 DEF At
<1>3. ASSUME At(t, o, f) PROVE At(s \o t, Size(s) + o, f)
  <2>1. PICK i \in 1..Len(t) : Offsets(t)[i - 1] = o /\ t[i] = f
    BY <1>3 DEF At
  <2>2. /\ i - 1 \in 0..Len(t) /\ Len(s) + i \in 1..Len(s \o t)
        /\ (Len(s) + i) - 1 = Len(s) + (i - 1)
    BY <1>1
  <2>3. /\ \A j \in 0..Len(t) : Offsets(s \o t)[Len(s) + j] = Size(s) + Offsets(t)[j]
        /\ \A j \in 1..Len(t) : (s \o t)[Len(s) + j] = t[j]
    BY ConcatBuffer
  <2> DEFINE j == i - 1
  <2>4. Offsets(s \o t)[Len(s) + j] = Size(s) + o /\ (s \o t)[Len(s) + i] = f
    <3>1. j \in 0..Len(t) /\ Offsets(t)[j] = o
      BY <2>1, <2>2
    <3> HIDE DEF j
    <3> QED
      BY <2>1, <2>3, <3>1
  <2> QED
    BY <2>2, <2>4 DEF At
<1> QED
  BY <1>2, <1>3

LEMMA SizeNat == ASSUME NEW s, IsBuffer(s) PROVE Size(s) \in Nat
<1>1. Len(s) \in 0..Len(s)
  BY BufferSeq
<1> QED
  BY <1>1, OffsetsGrow DEF Size

\* A field lies within its buffer.
LEMMA AtWithin ==
  ASSUME NEW s, IsBuffer(s), NEW o, NEW f, At(s, o, f)
  PROVE  o \in Nat /\ o < Size(s)
<1>1. PICK i \in 1..Len(s) : Offsets(s)[i - 1] = o /\ s[i] = f
  BY DEF At
<1>2. Len(s) \in Nat
  BY BufferSeq
<1>3. i - 1 \in 0..Len(s) /\ i - 1 \in 0..(Len(s) - 1) /\ Len(s) \in 0..Len(s)
  BY <1>2
<1> QED
  BY <1>1, <1>3, OffsetsGrow DEF Size

\* In a file the fields of a buffer are found at their offsets.
LEMMA PlacedAt ==
  ASSUME NEW s, IsBuffer(s), NEW o, NEW f, At(s, o, f)
  PROVE  o \in DOMAIN Placed(s) /\ Placed(s)[o] = f
<1>1. PICK i \in 1..Len(s) : Offsets(s)[i - 1] = o /\ s[i] = f
  BY DEF At
<1>2. DOMAIN s = 1..Len(s) /\ Len(s) \in Nat
  BY BufferSeq
<1>3. ASSUME NEW j \in 1..Len(s), Offsets(s)[j - 1] = o PROVE j = i
  <2>1. i - 1 \in 0..Len(s) /\ j - 1 \in 0..Len(s)
    BY <1>2
  <2>2. i - 1 < j - 1 => Offsets(s)[i - 1] < Offsets(s)[j - 1]
    BY <1>2, <2>1, OffsetsGrow
  <2>3. j - 1 < i - 1 => Offsets(s)[j - 1] < Offsets(s)[i - 1]
    BY <1>2, <2>1, OffsetsGrow
  <2>4. Offsets(s)[i - 1] \in Nat
    BY <2>1, OffsetsGrow
  <2> QED
    BY <1>1, <1>2, <1>3, <2>2, <2>3, <2>4
<1>4. (CHOOSE j \in DOMAIN s : Offsets(s)[j - 1] = o) = i
  BY <1>1, <1>2, <1>3
<1>5. o \in {Offsets(s)[j - 1] : j \in DOMAIN s}
  BY <1>1, <1>2
<1>6. DOMAIN Placed(s) = {Offsets(s)[j - 1] : j \in DOMAIN s}
  BY DEF Placed
<1>7. Placed(s)[o] = s[CHOOSE j \in DOMAIN s : Offsets(s)[j - 1] = o]
  BY <1>5 DEF Placed
<1> QED
  BY <1>1, <1>4, <1>5, <1>6, <1>7

\* Fields of one width.
LEMMA UniformBuffer ==
  ASSUME NEW n \in Nat, NEW w \in {1, 8}, NEW s, DOMAIN s = 1..n,
         s = [i \in 1..n |-> s[i]],
         \A i \in 1..n : s[i].width = w
  PROVE  /\ IsBuffer(s) /\ Len(s) = n /\ Size(s) = n * w
         /\ \A i \in 1..n : At(s, (i - 1) * w, s[i])
<1> DEFINE S == {s[i] : i \in 1..n}
<1>1. s \in [1..n -> S]
  OBVIOUS
<1>2. s \in Seq(S)
  BY <1>1, SeqDef
<1>3. Len(s) = n
  BY <1>2, LenProperties
<1>4. IsBuffer(s)
  BY <1>2 DEF IsBuffer
<1> DEFINE g == [i \in 0..n |-> i * w]
<1>5. g[0] = 0
  OBVIOUS
<1>6. \A i \in 1..n : g[i] = g[i - 1] + s[i].width
  <2>1. CASE w = 1
    BY <2>1
  <2>2. CASE w = 8
    BY <2>2
  <2> QED
    BY <2>1, <2>2
<1>7. \A i \in 0..n : Offsets(s)[i] = g[i]
  <2> HIDE DEF g
  <2> QED
    BY <1>3, <1>5, <1>6, OffsetsUnique
<1>8. \A i \in 0..n : Offsets(s)[i] = i * w
  BY <1>7
<1>9. \A i \in 1..n : At(s, (i - 1) * w, s[i])
  <2>1. \A i \in 1..n : i - 1 \in 0..n
    OBVIOUS
  <2> QED
    BY <1>3, <1>8, <2>1 DEF At
<1> QED
  BY <1>3, <1>4, <1>8, <1>9 DEF Size

LEMMA TupleBuffer ==
  ASSUME NEW n \in Nat, NEW s, s = [i \in 1..n |-> s[i]],
         \A i \in 1..n : s[i].width \in Nat \ {0}
  PROVE  IsBuffer(s) /\ Len(s) = n
<1> DEFINE S == {s[i] : i \in 1..n}
<1>1. s \in [1..n -> S]
  OBVIOUS
<1>2. s \in Seq(S)
  BY <1>1, SeqDef
<1>3. Len(s) = n
  BY <1>1, <1>2, LenProperties
<1>4. \A f \in S : f.width \in Nat \ {0}
  OBVIOUS
<1> HIDE DEF S
<1>5. IsBuffer(s)
  BY <1>2, <1>4 DEF IsBuffer
<1> QED
  BY <1>3, <1>5

-----------------------------------------------------------------------------
(***************************************************************************)
(* Buffers pushed one after the other.                                     *)
(***************************************************************************)

AreBuffers(recs) ==
  /\ Len(recs) \in Nat \ {0} /\ DOMAIN recs = 1..Len(recs)
  /\ \A k \in 1..Len(recs) : IsBuffer(recs[k]) /\ Size(recs[k]) > 0

\* Where buffer k + 1 begins.
Starts(recs) == Offsets([k \in 1..Len(recs) |-> [width |-> Size(recs[k])]])

LEMMA StartsAre ==
  ASSUME NEW recs, AreBuffers(recs)
  PROVE  /\ Starts(recs)[0] = 0
         /\ \A k \in 1..Len(recs) : Starts(recs)[k] = Starts(recs)[k - 1] + Size(recs[k])
         /\ \A k \in 0..Len(recs) :
              /\ Starts(recs)[k] \in Nat
              /\ \A j \in 0..(k - 1) : Starts(recs)[j] < Starts(recs)[k]
<1> DEFINE n == Len(recs)
           s == [k \in 1..n |-> [width |-> Size(recs[k])]]
<1>1. n \in Nat /\ \A k \in 1..n : Size(recs[k]) \in Nat \ {0}
  BY SizeNat DEF AreBuffers
<1>2. \A k \in 1..n : s[k].width = Size(recs[k])
  OBVIOUS
<1>3. s = [k \in 1..n |-> s[k]]
  OBVIOUS
<1> HIDE DEF s
<1>4. IsBuffer(s) /\ Len(s) = n
  BY <1>1, <1>2, <1>3, TupleBuffer
<1>5. /\ Offsets(s)[0] = 0
      /\ \A k \in 1..n : Offsets(s)[k] = Offsets(s)[k - 1] + Size(recs[k])
  BY <1>1, <1>2, <1>4, OffsetsAre
<1>6. \A k \in 0..n : /\ Offsets(s)[k] \in Nat
                      /\ \A j \in 0..(k - 1) : Offsets(s)[j] < Offsets(s)[k]
  BY <1>4, OffsetsGrow
<1> QED
  BY <1>5, <1>6 DEF Starts, s

Then(s, t) == s \o t

LEMMA FlattenExist ==
  ASSUME NEW recs, NEW n \in Nat \ {0}
  PROVE  \E g : g = [i \in 1..n |-> IF i = 1 THEN recs[i] ELSE g[i - 1] \o recs[i]]
<1> DEFINE Solves(g, k) == g = [i \in 1..k |-> IF i = 1 THEN recs[i] ELSE Then(g[i - 1], recs[i])]
           S == {k \in Nat : \E g : Solves(g, k + 1)}
<1>1. 0 \in S
  <2>1. Solves([i \in 1..1 |-> recs[1]], 0 + 1)
    OBVIOUS
  <2> HIDE DEF Solves
  <2> QED
    BY <2>1
<1>2. ASSUME NEW k \in Nat, k \in S PROVE k + 1 \in S
  <2>1. PICK g : Solves(g, k + 1)
    BY <1>2
  <2> DEFINE h == [i \in 1..k + 2 |-> IF i <= k + 1 THEN g[i] ELSE Then(g[k + 1], recs[k + 2])]
  <2>2. ASSUME NEW i \in 1..k + 2
        PROVE  h[i] = IF i = 1 THEN recs[i] ELSE Then(h[i - 1], recs[i])
    <3>1. CASE i = 1
      BY <2>1, <3>1
    <3>2. CASE i \in 2..k + 1
      <4>1. h[i] = g[i] /\ h[i - 1] = g[i - 1] /\ i # 1
        BY <3>2
      <4>2. g[i] = Then(g[i - 1], recs[i])
        BY <2>1, <3>2
      <4> QED
        BY <4>1, <4>2
    <3>3. CASE i = k + 2
      <4>1. h[i] = Then(g[k + 1], recs[k + 2]) /\ h[i - 1] = g[k + 1] /\ i # 1
        BY <3>3
      <4> QED
        BY <3>3, <4>1
    <3> QED
      BY <3>1, <3>2, <3>3
  <2>3. Solves(h, (k + 1) + 1)
    <3>1. h = [i \in 1..k + 2 |-> h[i]] /\ (k + 1) + 1 = k + 2
      OBVIOUS
    <3> HIDE DEF h
    <3> QED
      BY <2>2, <3>1
  <2> HIDE DEF Solves, h
  <2> QED
    BY <2>3
<1> HIDE DEF S
<1>3. n - 1 \in S
  BY <1>1, <1>2, SetInduction
<1>4. (n - 1) + 1 = n
  OBVIOUS
<1> QED
  BY <1>3, <1>4 DEF S, Then

\* Pushed one after the other, each buffer keeps its fields relative to where it
\* begins.
LEMMA Flattened ==
  ASSUME NEW recs, AreBuffers(recs)
  PROVE  /\ IsBuffer(FlattenSeq(recs))
         /\ Size(FlattenSeq(recs)) = Starts(recs)[Len(recs)]
         /\ \A k \in 1..Len(recs) : \A o, f :
              At(recs[k], o, f) => At(FlattenSeq(recs), Starts(recs)[k - 1] + o, f)
<1> DEFINE n == Len(recs)
           flat == CHOOSE g : g = [i \in 1..n |-> IF i = 1 THEN recs[i] ELSE g[i - 1] \o recs[i]]
<1>1. n \in Nat \ {0}
  BY DEF AreBuffers
<1>2. FlattenSeq(recs) = flat[n]
  BY <1>1 DEF FlattenSeq
<1>3. flat = [i \in 1..n |-> IF i = 1 THEN recs[i] ELSE Then(flat[i - 1], recs[i])]
  BY <1>1, FlattenExist DEF Then
<1> HIDE DEF flat
<1> DEFINE Good(k) ==
             /\ IsBuffer(flat[k])
             /\ Size(flat[k]) = Starts(recs)[k]
             /\ \A j \in 1..k : \A o, f :
                  At(recs[j], o, f) => At(flat[k], Starts(recs)[j - 1] + o, f)
           S == {k \in Nat : k >= 1 => Good(k)}
<1>4. 0 \in S
  OBVIOUS
<1>5. ASSUME NEW k \in 0..(n - 1), k \in S PROVE k + 1 \in S
  <2>1. k + 1 \in 1..n /\ (k + 1) - 1 = k
    BY <1>1
  <2>2. /\ IsBuffer(recs[k + 1])
        /\ Starts(recs)[k + 1] = Starts(recs)[k] + Size(recs[k + 1])
    BY <2>1, StartsAre DEF AreBuffers
  <2>3. CASE k = 0
    <3>1. flat[1] = recs[1]
      BY <1>1, <1>3
    <3>2. Starts(recs)[0] = 0 /\ Size(recs[1]) \in Nat
      BY <2>2, <2>3, StartsAre, SizeNat
    <3>3. \A o, f : At(recs[1], o, f) => At(flat[1], 0 + o, f)
      BY <2>2, <2>3, <3>1, AtWithin
    <3>4. Good(1)
      BY <2>2, <2>3, <3>1, <3>2, <3>3
    <3> QED
      BY <2>3, <3>4
  <2>4. CASE k # 0
    <3>1. Good(k)
      BY <1>5, <2>4
    <3>2. flat[k + 1] = flat[k] \o recs[k + 1]
      <4>1. flat[k + 1] = Then(flat[k], recs[k + 1])
        BY <1>3, <2>1, <2>4
      <4> QED
        BY <4>1 DEF Then
    <3>3. IsBuffer(flat[k + 1]) /\ Size(flat[k + 1]) = Starts(recs)[k + 1]
      BY <2>2, <3>1, <3>2, ConcatBuffer
    <3>4. ASSUME NEW j \in 1..k + 1, NEW o, NEW f, At(recs[j], o, f)
          PROVE  At(flat[k + 1], Starts(recs)[j - 1] + o, f)
      <4>1. CASE j \in 1..k
        BY <2>2, <3>1, <3>2, <3>4, <4>1, AtConcat
      <4>2. CASE j = k + 1
        BY <2>1, <2>2, <3>1, <3>2, <3>4, <4>2, AtConcat
      <4> QED
        BY <4>1, <4>2
    <3>5. Good(k + 1)
      BY <3>3, <3>4
    <3> QED
      BY <3>5
  <2> QED
    BY <2>3, <2>4
<1> HIDE DEF Good
<1>6. n \in S
  <2> HIDE DEF S
  <2>1. n - 1 \in Nat
    BY <1>1
  <2>2. 0..n \subseteq S
    BY <1>1, <1>4, <1>5, IntervalInduction
  <2> QED
    BY <1>1, <2>2
<1>7. Good(n)
  BY <1>1, <1>6
<1> QED
  BY <1>2, <1>7 DEF Good

-----------------------------------------------------------------------------
(***************************************************************************)
(* Records.                                                                *)
(***************************************************************************)

\* A tuple of n fields, and where they lie.
IsTuple(s, n) == s = [i \in 1..n |-> s[i]] /\ \A i \in 1..n : s[i].width \in Nat \ {0}

LaidOut(s, n) ==
  /\ IsBuffer(s) /\ Len(s) = n /\ Size(s) = Offsets(s)[n]
  /\ Offsets(s)[0] = 0
  /\ \A i \in 1..n : /\ Offsets(s)[i] = Offsets(s)[i - 1] + s[i].width
                     /\ At(s, Offsets(s)[i - 1], s[i])

LEMMA TupleFields ==
  ASSUME NEW n \in Nat, NEW s, IsTuple(s, n)
  PROVE  LaidOut(s, n)
<1>1. IsBuffer(s) /\ Len(s) = n
  BY TupleBuffer DEF IsTuple
<1>2. /\ Offsets(s)[0] = 0
      /\ \A i \in 1..n : Offsets(s)[i] = Offsets(s)[i - 1] + s[i].width
  BY <1>1, OffsetsAre
<1>3. \A i \in 1..n : At(s, Offsets(s)[i - 1], s[i])
  BY <1>1 DEF At
<1> QED
  BY <1>1, <1>2, <1>3 DEF LaidOut, Size

RecordHead(type, misc, size) == <<F(4, type), F(2, misc), F(2, size)>>

LEMMA HeadFields ==
  ASSUME NEW type, NEW misc, NEW size
  PROVE  LET h == RecordHead(type, misc, size)
         IN  /\ IsBuffer(h) /\ Size(h) = 8
             /\ At(h, 0, F(4, type)) /\ At(h, 4, F(2, misc)) /\ At(h, 6, F(2, size))
<1> DEFINE h == RecordHead(type, misc, size)
<1>1. h = [i \in 1..3 |-> h[i]]
  BY DEF RecordHead
<1>2. h[1] = F(4, type) /\ h[2] = F(2, misc) /\ h[3] = F(2, size)
  BY DEF RecordHead
<1>3. h[1].width = 4 /\ h[2].width = 2 /\ h[3].width = 2
  BY <1>2 DEF F
<1> HIDE DEF h
<1>4. IsTuple(h, 3)
  BY <1>1, <1>3 DEF IsTuple
<1>5. LaidOut(h, 3)
  BY <1>4, TupleFields
<1>6. Offsets(h)[1] = 4 /\ Offsets(h)[2] = 6 /\ Offsets(h)[3] = 8
  BY <1>3, <1>5 DEF LaidOut
<1>7. At(h, 0, h[1]) /\ At(h, 4, h[2]) /\ At(h, 6, h[3])
  BY <1>5, <1>6 DEF LaidOut
<1> QED
  BY <1>2, <1>5, <1>6, <1>7 DEF h, LaidOut

LEMMA ZerosBuffer ==
  ASSUME NEW n \in Nat
  PROVE  IsBuffer(Zeros(n)) /\ Size(Zeros(n)) = n
<1> DEFINE z == Zeros(n)
<1>1. DOMAIN z = 1..n /\ z = [i \in 1..n |-> z[i]] /\ \A i \in 1..n : z[i].width = 1
  BY DEF Zeros, F
<1> HIDE DEF z
<1>2. IsBuffer(z) /\ Size(z) = n * 1
  BY <1>1, UniformBuffer
<1> QED
  BY <1>2 DEF z

\* A record that fits says its size, which is a multiple of 8, and holds the fields
\* of its body after the header.
LEMMA RecordFields ==
  ASSUME NEW type, NEW misc, NEW body, IsBuffer(body), Fits(body)
  PROVE  LET r == Record(type, misc, body)
         IN  /\ IsBuffer(r) /\ Size(r) \in Nat \ {0} /\ Size(r) % 8 = 0
             /\ At(r, 0, F(4, type)) /\ At(r, 4, F(2, misc)) /\ At(r, 6, F(2, Size(r)))
             /\ \A o, f : At(body, o, f) => At(r, 8 + o, f)
<1> DEFINE size == Size(body)
           pad == Pad(body)
           total == 8 + size + pad
           h == RecordHead(type, misc, total)
           z == Zeros(pad)
<1>1. size \in Nat /\ pad \in Nat /\ total % 8 = 0
  <2>1. size \in Nat
    BY SizeNat
  <2> QED
    BY <2>1 DEF Pad
<1>2. total % 65536 = total
  BY <1>1 DEF Fits
<1>3. Record(type, misc, body) = (h \o body) \o z
  BY <1>2 DEF Record, Framed, RecordHead
<1>4. /\ IsBuffer(h) /\ Size(h) = 8
      /\ At(h, 0, F(4, type)) /\ At(h, 4, F(2, misc)) /\ At(h, 6, F(2, total))
  BY HeadFields
<1>5. IsBuffer(z) /\ Size(z) = pad
  BY <1>1, ZerosBuffer
<1> HIDE DEF h, z, size, pad
<1> DEFINE hb == h \o body
           r == hb \o z
<1>6. IsBuffer(hb) /\ Size(hb) = 8 + size
  BY <1>4, ConcatBuffer DEF size
<1>7. /\ At(hb, 0, F(4, type)) /\ At(hb, 4, F(2, misc)) /\ At(hb, 6, F(2, total))
      /\ \A o, f : At(body, o, f) => At(hb, 8 + o, f)
  BY <1>4, AtConcat
<1> HIDE DEF hb
<1>8. IsBuffer(r) /\ Size(r) = total
  BY <1>5, <1>6, ConcatBuffer
<1>9. /\ At(r, 0, F(4, type)) /\ At(r, 4, F(2, misc)) /\ At(r, 6, F(2, total))
      /\ \A o, f : At(body, o, f) => At(r, 8 + o, f)
  BY <1>5, <1>6, <1>7, AtConcat
<1>10. Record(type, misc, body) = r
  BY <1>3 DEF hb
<1> HIDE DEF r
<1>11. total \in Nat \ {0}
  BY <1>1
<1> HIDE DEF total
<1> QED
  BY <1>1, <1>8, <1>9, <1>10, <1>11

\* What precedes the text of a comm, of a mapping, and the frames of a sample.
CommHead(c) ==
  <<F(4, c.pid), F(4, c.tid)>>

LEMMA CommHeadFields ==
  ASSUME NEW c
  PROVE  LET h == CommHead(c)
         IN  /\ IsBuffer(h) /\ Size(h) = 8 /\ At(h, 0, F(4, c.pid)) /\ At(h, 4, F(4, c.tid))
<1> DEFINE h == CommHead(c)
<1>1. h = [i \in 1..2 |-> h[i]]
  BY DEF CommHead
<1>2. /\ h[1] = F(4, c.pid) /\ h[2] = F(4, c.tid)
  BY DEF CommHead
<1>3. /\ h[1].width = 4 /\ h[2].width = 4
  BY <1>2 DEF F
<1> HIDE DEF h
<1>4. IsTuple(h, 2)
  BY <1>1, <1>3 DEF IsTuple
<1>5. LaidOut(h, 2)
  BY <1>4, TupleFields
<1>6. /\ Offsets(h)[0] = 0 /\ Offsets(h)[1] = 4 /\ Offsets(h)[2] = 8
  BY <1>3, <1>5 DEF LaidOut
<1>7. /\ At(h, 0, h[1]) /\ At(h, 4, h[2])
  BY <1>5, <1>6 DEF LaidOut
<1> QED
  BY <1>2, <1>5, <1>6, <1>7 DEF h, LaidOut

Mmap2Head(m) ==
  <<F(4, m.pid), F(4, m.pid), F(8, m.addr), F(8, m.len), F(8, 0), F(1, 20), F(1, 0),
    F(2, 0), F(20, m.build_id), F(4, 0), F(4, 0)>>

LEMMA Mmap2HeadFields ==
  ASSUME NEW m
  PROVE  LET h == Mmap2Head(m)
         IN  /\ IsBuffer(h) /\ Size(h) = 64 /\ At(h, 0, F(4, m.pid))
             /\ At(h, 8, F(8, m.addr)) /\ At(h, 16, F(8, m.len)) /\ At(h, 32, F(1, 20))
             /\ At(h, 36, F(20, m.build_id))
<1> DEFINE h == Mmap2Head(m)
<1>1. h = [i \in 1..11 |-> h[i]]
  BY DEF Mmap2Head
<1>2. /\ h[1] = F(4, m.pid) /\ h[2] = F(4, m.pid) /\ h[3] = F(8, m.addr)
      /\ h[4] = F(8, m.len) /\ h[5] = F(8, 0) /\ h[6] = F(1, 20) /\ h[7] = F(1, 0)
      /\ h[8] = F(2, 0) /\ h[9] = F(20, m.build_id) /\ h[10] = F(4, 0) /\ h[11] = F(4, 0)
  BY DEF Mmap2Head
<1>3. /\ h[1].width = 4 /\ h[2].width = 4 /\ h[3].width = 8 /\ h[4].width = 8
      /\ h[5].width = 8 /\ h[6].width = 1 /\ h[7].width = 1 /\ h[8].width = 2
      /\ h[9].width = 20 /\ h[10].width = 4 /\ h[11].width = 4
  BY <1>2 DEF F
<1> HIDE DEF h
<1>4. IsTuple(h, 11)
  BY <1>1, <1>3 DEF IsTuple
<1>5. LaidOut(h, 11)
  BY <1>4, TupleFields
<1>6. /\ Offsets(h)[0] = 0 /\ Offsets(h)[1] = 4 /\ Offsets(h)[2] = 8 /\ Offsets(h)[3] = 16
      /\ Offsets(h)[4] = 24 /\ Offsets(h)[5] = 32 /\ Offsets(h)[6] = 33
      /\ Offsets(h)[7] = 34 /\ Offsets(h)[8] = 36 /\ Offsets(h)[9] = 56
      /\ Offsets(h)[10] = 60 /\ Offsets(h)[11] = 64
  BY <1>3, <1>5 DEF LaidOut
<1>7. /\ At(h, 0, h[1]) /\ At(h, 8, h[3]) /\ At(h, 16, h[4]) /\ At(h, 32, h[6])
      /\ At(h, 36, h[9])
  BY <1>5, <1>6 DEF LaidOut
<1> QED
  BY <1>2, <1>5, <1>6, <1>7 DEF h, LaidOut

SampleHead(s) ==
  <<F(8, s.ip), F(4, 1234), F(4, 1234), F(8, s.time), F(4, s.cpu), F(4, 0), F(8, s.period),
    F(8, Len(s.callchain))>>

LEMMA SampleHeadFields ==
  ASSUME NEW s
  PROVE  LET h == SampleHead(s)
         IN  /\ IsBuffer(h) /\ Size(h) = 48 /\ At(h, 0, F(8, s.ip)) /\ At(h, 8, F(4, 1234))
             /\ At(h, 16, F(8, s.time)) /\ At(h, 24, F(4, s.cpu))
             /\ At(h, 32, F(8, s.period)) /\ At(h, 40, F(8, Len(s.callchain)))
<1> DEFINE h == SampleHead(s)
<1>1. h = [i \in 1..8 |-> h[i]]
  BY DEF SampleHead
<1>2. /\ h[1] = F(8, s.ip) /\ h[2] = F(4, 1234) /\ h[3] = F(4, 1234) /\ h[4] = F(8, s.time)
      /\ h[5] = F(4, s.cpu) /\ h[6] = F(4, 0) /\ h[7] = F(8, s.period)
      /\ h[8] = F(8, Len(s.callchain))
  BY DEF SampleHead
<1>3. /\ h[1].width = 8 /\ h[2].width = 4 /\ h[3].width = 4 /\ h[4].width = 8
      /\ h[5].width = 4 /\ h[6].width = 4 /\ h[7].width = 8 /\ h[8].width = 8
  BY <1>2 DEF F
<1> HIDE DEF h
<1>4. IsTuple(h, 8)
  BY <1>1, <1>3 DEF IsTuple
<1>5. LaidOut(h, 8)
  BY <1>4, TupleFields
<1>6. /\ Offsets(h)[0] = 0 /\ Offsets(h)[1] = 8 /\ Offsets(h)[2] = 12 /\ Offsets(h)[3] = 16
      /\ Offsets(h)[4] = 24 /\ Offsets(h)[5] = 28 /\ Offsets(h)[6] = 32
      /\ Offsets(h)[7] = 40 /\ Offsets(h)[8] = 48
  BY <1>3, <1>5 DEF LaidOut
<1>7. /\ At(h, 0, h[1]) /\ At(h, 8, h[2]) /\ At(h, 16, h[4]) /\ At(h, 24, h[5])
      /\ At(h, 32, h[7]) /\ At(h, 40, h[8])
  BY <1>5, <1>6 DEF LaidOut
<1> QED
  BY <1>2, <1>5, <1>6, <1>7 DEF h, LaidOut

\* The text t at offset o, with its NUL.
TextAt(s, o, t) == At(s, o, F(Len(t), t)) /\ At(s, o + Len(t), F(1, 0))

LEMMA TextFields ==
  ASSUME NEW t, IsSeq(t), t # <<>>
  PROVE  IsBuffer(Text(t)) /\ TextAt(Text(t), 0, t)
<1> DEFINE h == Text(t)
<1>1. h = [i \in 1..2 |-> h[i]]
  BY DEF Text
<1>2. h[1] = F(Len(t), t) /\ h[2] = F(1, 0)
  BY DEF Text
<1>3. h[1].width = Len(t) /\ h[2].width = 1
  BY <1>2 DEF F
<1>4. Len(t) \in Nat \ {0}
  BY EmptySeq, LenProperties DEF IsSeq
<1> HIDE DEF h
<1>5. IsTuple(h, 2)
  BY <1>1, <1>3, <1>4 DEF IsTuple
<1>6. LaidOut(h, 2)
  BY <1>5, TupleFields
<1>7. Offsets(h)[0] = 0 /\ Offsets(h)[1] = Len(t)
  BY <1>3, <1>4, <1>6 DEF LaidOut
<1>8. At(h, 0, h[1]) /\ At(h, Len(t), h[2])
  BY <1>6, <1>7 DEF LaidOut
<1>9. 0 + Len(t) = Len(t)
  BY <1>4
<1> QED
  BY <1>2, <1>6, <1>8, <1>9 DEF h, LaidOut, TextAt

LEMMA SeqIs ==
  ASSUME NEW s, IsSeq(s)
  PROVE  /\ Len(s) \in Nat /\ DOMAIN s = 1..Len(s) /\ s = [i \in 1..Len(s) |-> s[i]]
         /\ \A i \in 1..Len(s) : s[i] \in ToSet(s)
         /\ ToSet(s) = {s[i] : i \in 1..Len(s)}
<1>1. Len(s) \in Nat /\ DOMAIN s = 1..Len(s) /\ s \in [1..Len(s) -> ToSet(s)]
  BY LenProperties DEF IsSeq
<1>2. ToSet(s) = {s[i] : i \in 1..Len(s)}
  BY <1>1 DEF ToSet
<1> QED
  BY <1>1, <1>2

\* Where the record of a comm has its fields.
LEMMA CommRecordFields ==
  ASSUME NEW c, IsSeq(c.comm), c.comm # <<>>, Fits(CommBody(c))
  PROVE  LET r == CommRecord(c)
         IN  /\ IsBuffer(r) /\ Size(r) \in Nat \ {0} /\ Size(r) % 8 = 0
             /\ At(r, 0, F(4, COMM)) /\ At(r, 6, F(2, Size(r)))
             /\ At(r, 8, F(4, c.pid)) /\ At(r, 12, F(4, c.tid)) /\ TextAt(r, 16, c.comm)
<1> DEFINE h == CommHead(c)
           x == Text(c.comm)
           b == CommBody(c)
           r == CommRecord(c)
<1>1. b = h \o x
  BY DEF CommBody, CommHead
<1>2. IsBuffer(h) /\ Size(h) = 8 /\ At(h, 0, F(4, c.pid)) /\ At(h, 4, F(4, c.tid))
  BY CommHeadFields
<1>3. /\ IsBuffer(x) /\ At(x, 0, F(Len(c.comm), c.comm))
      /\ At(x, 0 + Len(c.comm), F(1, 0)) /\ Len(c.comm) \in Nat
  BY TextFields, SeqIs DEF TextAt
<1>4. r = Record(COMM, USER, b)
  BY DEF CommRecord
<1>5. Fits(b)
  OBVIOUS
<1> HIDE DEF h, x, b, r
<1>6. IsBuffer(b)
  BY <1>1, <1>2, <1>3, ConcatBuffer
<1>7. /\ At(b, 0, F(4, c.pid)) /\ At(b, 4, F(4, c.tid))
      /\ At(b, 8 + 0, F(Len(c.comm), c.comm)) /\ At(b, 8 + (0 + Len(c.comm)), F(1, 0))
  BY <1>1, <1>2, <1>3, AtConcat
<1>8. /\ IsBuffer(r) /\ Size(r) \in Nat \ {0} /\ Size(r) % 8 = 0
      /\ At(r, 0, F(4, COMM)) /\ At(r, 6, F(2, Size(r)))
      /\ \A o, f : At(b, o, f) => At(r, 8 + o, f)
  BY <1>4, <1>5, <1>6, RecordFields
<1>9. /\ At(r, 8 + 0, F(4, c.pid)) /\ At(r, 8 + 4, F(4, c.tid))
      /\ At(r, 8 + (8 + 0), F(Len(c.comm), c.comm))
      /\ At(r, 8 + (8 + (0 + Len(c.comm))), F(1, 0))
  BY <1>7, <1>8
<1>10. 8 + (8 + (0 + Len(c.comm))) = 16 + Len(c.comm)
  BY <1>3
<1> QED
  BY <1>8, <1>9, <1>10 DEF TextAt, r

\* Where the record of a mapping has its fields.
LEMMA Mmap2RecordFields ==
  ASSUME NEW m, IsSeq(m.path), m.path # <<>>, Fits(Mmap2Body(m))
  PROVE  LET r == Mmap2Record(m)
         IN  /\ IsBuffer(r) /\ Size(r) \in Nat \ {0} /\ Size(r) % 8 = 0
             /\ At(r, 0, F(4, MMAP2)) /\ At(r, 4, F(2, USER + MMAP_BUILD_ID))
             /\ At(r, 6, F(2, Size(r)))
             /\ At(r, 8, F(4, m.pid)) /\ At(r, 16, F(8, m.addr)) /\ At(r, 24, F(8, m.len))
             /\ At(r, 40, F(1, 20)) /\ At(r, 44, F(20, m.build_id)) /\ TextAt(r, 72, m.path)
<1> DEFINE h == Mmap2Head(m)
           x == Text(m.path)
           b == Mmap2Body(m)
           r == Mmap2Record(m)
<1>1. b = h \o x
  BY DEF Mmap2Body, Mmap2Head
<1>2. /\ IsBuffer(h) /\ Size(h) = 64
      /\ At(h, 0, F(4, m.pid)) /\ At(h, 8, F(8, m.addr)) /\ At(h, 16, F(8, m.len))
      /\ At(h, 32, F(1, 20)) /\ At(h, 36, F(20, m.build_id))
  BY Mmap2HeadFields
<1>3. /\ IsBuffer(x) /\ At(x, 0, F(Len(m.path), m.path))
      /\ At(x, 0 + Len(m.path), F(1, 0)) /\ Len(m.path) \in Nat
  BY TextFields, SeqIs DEF TextAt
<1>4. r = Record(MMAP2, USER + MMAP_BUILD_ID, b)
  BY DEF Mmap2Record
<1>5. Fits(b)
  OBVIOUS
<1> HIDE DEF h, x, b, r
<1>6. IsBuffer(b)
  BY <1>1, <1>2, <1>3, ConcatBuffer
<1>7. /\ At(b, 0, F(4, m.pid)) /\ At(b, 8, F(8, m.addr)) /\ At(b, 16, F(8, m.len))
      /\ At(b, 32, F(1, 20)) /\ At(b, 36, F(20, m.build_id))
      /\ At(b, 64 + 0, F(Len(m.path), m.path)) /\ At(b, 64 + (0 + Len(m.path)), F(1, 0))
  BY <1>1, <1>2, <1>3, AtConcat
<1>8. /\ IsBuffer(r) /\ Size(r) \in Nat \ {0} /\ Size(r) % 8 = 0
      /\ At(r, 0, F(4, MMAP2)) /\ At(r, 4, F(2, USER + MMAP_BUILD_ID))
      /\ At(r, 6, F(2, Size(r)))
      /\ \A o, f : At(b, o, f) => At(r, 8 + o, f)
  BY <1>4, <1>5, <1>6, RecordFields
<1>9. /\ At(r, 8 + 0, F(4, m.pid)) /\ At(r, 8 + 8, F(8, m.addr)) /\ At(r, 8 + 16, F(8, m.len))
      /\ At(r, 8 + 32, F(1, 20)) /\ At(r, 8 + 36, F(20, m.build_id))
      /\ At(r, 8 + (64 + 0), F(Len(m.path), m.path))
      /\ At(r, 8 + (64 + (0 + Len(m.path))), F(1, 0))
  BY <1>7, <1>8
<1>10. 8 + (64 + (0 + Len(m.path))) = 72 + Len(m.path)
  BY <1>3
<1> QED
  BY <1>8, <1>9, <1>10 DEF TextAt, r

\* Where the record of a sample has its fields.
LEMMA SampleRecordFields ==
  ASSUME NEW s, IsSeq(s.callchain), Fits(SampleBody(s))
  PROVE  LET r == SampleRecord(s)
         IN  /\ IsBuffer(r) /\ Size(r) \in Nat \ {0} /\ Size(r) % 8 = 0
             /\ At(r, 0, F(4, SAMPLE)) /\ At(r, 6, F(2, Size(r)))
             /\ At(r, 8, F(8, s.ip)) /\ At(r, 16, F(4, 1234)) /\ At(r, 24, F(8, s.time))
             /\ At(r, 32, F(4, s.cpu)) /\ At(r, 40, F(8, s.period))
             /\ At(r, 48, F(8, Len(s.callchain)))
             /\ \A i \in 1..Len(s.callchain) : At(r, 48 + 8 * i, F(8, s.callchain[i]))
<1> DEFINE n == Len(s.callchain)
           h == SampleHead(s)
           x == [i \in 1..n |-> F(8, s.callchain[i])]
           b == SampleBody(s)
           r == SampleRecord(s)
<1>1. n \in Nat /\ DOMAIN s.callchain = 1..n
  BY SeqIs
<1>2. b = h \o x
  BY <1>1 DEF SampleBody, SampleHead
<1>3. /\ IsBuffer(h) /\ Size(h) = 48
      /\ At(h, 0, F(8, s.ip)) /\ At(h, 8, F(4, 1234)) /\ At(h, 16, F(8, s.time))
      /\ At(h, 24, F(4, s.cpu)) /\ At(h, 32, F(8, s.period)) /\ At(h, 40, F(8, n))
  BY SampleHeadFields
<1>4. \A i \in 1..n : x[i] = F(8, s.callchain[i])
  OBVIOUS
<1>5. DOMAIN x = 1..n /\ x = [i \in 1..n |-> x[i]] /\ \A i \in 1..n : x[i].width = 8
  BY DEF F
<1>6. r = Record(SAMPLE, USER, b)
  BY DEF SampleRecord
<1>7. Fits(b)
  OBVIOUS
<1> HIDE DEF n, h, x, b, r
<1>8. IsBuffer(x) /\ \A i \in 1..n : At(x, (i - 1) * 8, x[i])
  BY <1>1, <1>5, UniformBuffer
<1>9. IsBuffer(b)
  BY <1>2, <1>3, <1>8, ConcatBuffer
<1>10. /\ At(b, 0, F(8, s.ip)) /\ At(b, 8, F(4, 1234)) /\ At(b, 16, F(8, s.time))
       /\ At(b, 24, F(4, s.cpu)) /\ At(b, 32, F(8, s.period)) /\ At(b, 40, F(8, n))
       /\ \A i \in 1..n : At(b, 48 + (i - 1) * 8, x[i])
  BY <1>2, <1>3, <1>8, AtConcat
<1>11. /\ IsBuffer(r) /\ Size(r) \in Nat \ {0} /\ Size(r) % 8 = 0
       /\ At(r, 0, F(4, SAMPLE)) /\ At(r, 6, F(2, Size(r)))
       /\ \A o, f : At(b, o, f) => At(r, 8 + o, f)
  BY <1>6, <1>7, <1>9, RecordFields
<1>12. /\ At(r, 8 + 0, F(8, s.ip)) /\ At(r, 8 + 8, F(4, 1234)) /\ At(r, 8 + 16, F(8, s.time))
       /\ At(r, 8 + 24, F(4, s.cpu)) /\ At(r, 8 + 32, F(8, s.period)) /\ At(r, 8 + 40, F(8, n))
       /\ \A i \in 1..n : At(r, 8 + (48 + (i - 1) * 8), x[i])
  BY <1>10, <1>11
<1>13. ASSUME NEW i \in 1..n PROVE At(r, 48 + 8 * i, F(8, s.callchain[i]))
  <2>1. 8 + (48 + (i - 1) * 8) = 48 + 8 * i
    BY <1>1
  <2> QED
    BY <1>4, <1>12, <2>1
<1>14. /\ At(r, 8, F(8, s.ip)) /\ At(r, 16, F(4, 1234)) /\ At(r, 24, F(8, s.time))
       /\ At(r, 32, F(4, s.cpu)) /\ At(r, 40, F(8, s.period)) /\ At(r, 48, F(8, n))
  BY <1>12
<1> QED
  BY <1>11, <1>13, <1>14, Zenon DEF r, n
-----------------------------------------------------------------------------
(***************************************************************************)
(* The file.                                                               *)
(***************************************************************************)

\* Where the attribute has its fields.
LEMMA AttrFields ==
  LET h == Attr
  IN  /\ IsBuffer(h) /\ Size(h) = 64 /\ At(h, 0, F(4, 0)) /\ At(h, 16, F(8, 4000))
      /\ At(h, 24, F(8, SampleType)) /\ At(h, 40, F(8, 0))
<1> DEFINE h == Attr
<1>1. h = [i \in 1..10 |-> h[i]]
  BY DEF Attr
<1>2. /\ h[1] = F(4, 0) /\ h[2] = F(4, AttrSize) /\ h[3] = F(8, 0) /\ h[4] = F(8, 4000)
      /\ h[5] = F(8, SampleType) /\ h[6] = F(8, 0) /\ h[7] = F(8, 0) /\ h[8] = F(4, 0)
      /\ h[9] = F(4, 0) /\ h[10] = F(8, 0)
  BY DEF Attr
<1>3. /\ h[1].width = 4 /\ h[2].width = 4 /\ h[3].width = 8 /\ h[4].width = 8
      /\ h[5].width = 8 /\ h[6].width = 8 /\ h[7].width = 8 /\ h[8].width = 4
      /\ h[9].width = 4 /\ h[10].width = 8
  BY <1>2 DEF F
<1> HIDE DEF h
<1>4. IsTuple(h, 10)
  BY <1>1, <1>3 DEF IsTuple
<1>5. LaidOut(h, 10)
  BY <1>4, TupleFields
<1>6. /\ Offsets(h)[0] = 0 /\ Offsets(h)[1] = 4 /\ Offsets(h)[2] = 8 /\ Offsets(h)[3] = 16
      /\ Offsets(h)[4] = 24 /\ Offsets(h)[5] = 32 /\ Offsets(h)[6] = 40
      /\ Offsets(h)[7] = 48 /\ Offsets(h)[8] = 52 /\ Offsets(h)[9] = 56
      /\ Offsets(h)[10] = 64
  BY <1>3, <1>5 DEF LaidOut
<1>7. /\ At(h, 0, h[1]) /\ At(h, 16, h[4]) /\ At(h, 24, h[5]) /\ At(h, 40, h[7])
  BY <1>5, <1>6 DEF LaidOut
<1> QED
  BY <1>2, <1>5, <1>6, <1>7 DEF h, LaidOut

\* The header up to the two empty sections.
HeaderHead(size) ==
  <<F(8, "PERFILE2"), F(8, HeaderSize), F(8, AttrSize), F(8, HeaderSize), F(8, AttrSize),
    F(8, HeaderSize + AttrSize), F(8, size)>>

LEMMA HeaderHeadFields ==
  ASSUME NEW size
  PROVE  LET h == HeaderHead(size)
         IN  /\ IsBuffer(h) /\ Size(h) = 56 /\ At(h, 24, F(8, HeaderSize))
             /\ At(h, 40, F(8, HeaderSize + AttrSize)) /\ At(h, 48, F(8, size))
<1> DEFINE h == HeaderHead(size)
<1>1. h = [i \in 1..7 |-> h[i]]
  BY DEF HeaderHead
<1>2. /\ h[1] = F(8, "PERFILE2") /\ h[2] = F(8, HeaderSize) /\ h[3] = F(8, AttrSize)
      /\ h[4] = F(8, HeaderSize) /\ h[5] = F(8, AttrSize)
      /\ h[6] = F(8, HeaderSize + AttrSize) /\ h[7] = F(8, size)
  BY DEF HeaderHead
<1>3. /\ h[1].width = 8 /\ h[2].width = 8 /\ h[3].width = 8 /\ h[4].width = 8
      /\ h[5].width = 8 /\ h[6].width = 8 /\ h[7].width = 8
  BY <1>2 DEF F
<1> HIDE DEF h
<1>4. IsTuple(h, 7)
  BY <1>1, <1>3 DEF IsTuple
<1>5. LaidOut(h, 7)
  BY <1>4, TupleFields
<1>6. /\ Offsets(h)[0] = 0 /\ Offsets(h)[1] = 8 /\ Offsets(h)[2] = 16 /\ Offsets(h)[3] = 24
      /\ Offsets(h)[4] = 32 /\ Offsets(h)[5] = 40 /\ Offsets(h)[6] = 48
      /\ Offsets(h)[7] = 56
  BY <1>3, <1>5 DEF LaidOut
<1>7. /\ At(h, 24, h[4]) /\ At(h, 40, h[6]) /\ At(h, 48, h[7])
  BY <1>5, <1>6 DEF LaidOut
<1> QED
  BY <1>2, <1>5, <1>6, <1>7 DEF h, LaidOut

LEMMA HeaderFields ==
  ASSUME NEW size
  PROVE  LET h == Header(size)
         IN  /\ IsBuffer(h) /\ Size(h) = 104
             /\ At(h, 24, F(8, HeaderSize)) /\ At(h, 40, F(8, HeaderSize + AttrSize))
             /\ At(h, 48, F(8, size))
<1> DEFINE a == HeaderHead(size)
           z == [i \in 1..6 |-> F(8, 0)]
           h == Header(size)
<1>1. h = a \o z
  BY DEF Header, HeaderHead
<1>2. /\ IsBuffer(a) /\ Size(a) = 56
      /\ At(a, 24, F(8, HeaderSize)) /\ At(a, 40, F(8, HeaderSize + AttrSize))
      /\ At(a, 48, F(8, size))
  BY HeaderHeadFields
<1>3. DOMAIN z = 1..6 /\ z = [i \in 1..6 |-> z[i]] /\ \A i \in 1..6 : z[i].width = 8
  BY DEF F
<1> HIDE DEF a, z, h
<1>4. IsBuffer(z) /\ Size(z) = 6 * 8
  BY <1>3, UniformBuffer
<1>5. IsBuffer(h) /\ Size(h) = 104
  BY <1>1, <1>2, <1>4, ConcatBuffer
<1>6. /\ At(h, 24, F(8, HeaderSize)) /\ At(h, 40, F(8, HeaderSize + AttrSize))
      /\ At(h, 48, F(8, size))
  BY <1>1, <1>2, <1>4, AtConcat
<1> QED
  BY <1>5, <1>6 DEF h

\* s is x followed by the m elements of y and the n elements of z.
Joined(s, x, y, m, z, n) ==
  /\ Len(s) = 1 + m + n /\ s = [i \in 1..(1 + m + n) |-> s[i]]
  /\ s[1] = x
  /\ \A i \in 1..m : s[1 + i] = y[i]
  /\ \A i \in 1..n : s[1 + m + i] = z[i]

LEMMA Parts ==
  ASSUME NEW x, NEW y, NEW z, NEW m \in Nat, NEW n \in Nat,
         y = [i \in 1..m |-> y[i]], z = [i \in 1..n |-> z[i]]
  PROVE  Joined(<<x>> \o y \o z, x, y, m, z, n)
<1> DEFINE U == {x} \cup {y[i] : i \in 1..m} \cup {z[i] : i \in 1..n}
           w == <<x>>
           xy == w \o y
           s == xy \o z
<1>1. y \in [1..m -> U] /\ z \in [1..n -> U]
  OBVIOUS
<1>2. w \in Seq(U) /\ Len(w) = 1 /\ w[1] = x
  OBVIOUS
<1> HIDE DEF U, w
<1>3. y \in Seq(U) /\ z \in Seq(U)
  BY <1>1, SeqDef
<1>4. Len(y) = m /\ Len(z) = n
  BY <1>1, <1>3, LenProperties
<1>5. /\ xy \in Seq(U) /\ Len(xy) = 1 + m
      /\ \A i \in 1..(1 + m) : xy[i] = IF i <= 1 THEN w[i] ELSE y[i - 1]
  <2>1. /\ xy \in Seq(U) /\ Len(xy) = Len(w) + Len(y)
        /\ \A i \in 1..(Len(w) + Len(y)) :
             xy[i] = IF i <= Len(w) THEN w[i] ELSE y[i - Len(w)]
    BY <1>2, <1>3, ConcatProperties
  <2> HIDE DEF xy
  <2> QED
    BY <1>2, <1>4, <2>1
<1> HIDE DEF xy
<1>6. /\ s \in Seq(U) /\ Len(s) = 1 + m + n
      /\ \A i \in 1..(1 + m + n) : s[i] = IF i <= 1 + m THEN xy[i] ELSE z[i - (1 + m)]
  BY <1>3, <1>4, <1>5, ConcatProperties
<1>7. s = [i \in 1..(1 + m + n) |-> s[i]]
  BY <1>6, LenProperties
<1> HIDE DEF s
<1>8. s[1] = x
  <2>1. 1 \in 1..(1 + m) /\ 1 \in 1..(1 + m + n) /\ 1 <= 1 + m
    OBVIOUS
  <2>2. s[1] = xy[1]
    BY <1>6, <2>1
  <2>3. xy[1] = w[1]
    BY <1>5, <2>1
  <2> QED
    BY <1>2, <2>2, <2>3
<1>9. ASSUME NEW i \in 1..m PROVE s[1 + i] = y[i]
  <2>1. /\ 1 + i \in 1..(1 + m) /\ 1 + i \in 1..(1 + m + n) /\ 1 + i <= 1 + m
        /\ ~ (1 + i <= 1) /\ (1 + i) - 1 = i
    OBVIOUS
  <2> QED
    BY <1>5, <1>6, <2>1
<1>10. ASSUME NEW i \in 1..n PROVE s[1 + m + i] = z[i]
  <2>1. /\ 1 + m + i \in 1..(1 + m + n) /\ ~ (1 + m + i <= 1 + m)
        /\ (1 + m + i) - (1 + m) = i
    OBVIOUS
  <2> QED
    BY <1>6, <2>1
<1> QED
  BY <1>6, <1>7, <1>8, <1>9, <1>10 DEF s, xy, w, Joined

\* The records of a capture, in order.
LEMMA RecordsAre ==
  ASSUME NEW c, IsCapture(c)
  PROVE  LET recs == Records(c)
             m == Len(c.mmaps)
             n == Len(c.samples)
         IN  /\ m \in Nat /\ n \in Nat
             /\ Len(recs) = 1 + m + n /\ recs = [i \in 1..(1 + m + n) |-> recs[i]]
             /\ recs[1] = CommRecord(c.comm)
             /\ \A i \in 1..m : recs[1 + i] = Mmap2Record(c.mmaps[i])
             /\ \A i \in 1..n : recs[1 + m + i] = SampleRecord(c.samples[i])
<1> DEFINE m == Len(c.mmaps)
           n == Len(c.samples)
           y == [i \in 1..m |-> Mmap2Record(c.mmaps[i])]
           z == [i \in 1..n |-> SampleRecord(c.samples[i])]
           recs == <<CommRecord(c.comm)>> \o y \o z
<1>1. m \in Nat /\ n \in Nat /\ DOMAIN c.mmaps = 1..m /\ DOMAIN c.samples = 1..n
  BY SeqIs DEF IsCapture
<1>2. Records(c) = recs
  BY <1>1 DEF Records
<1>3. y = [i \in 1..m |-> y[i]] /\ z = [i \in 1..n |-> z[i]]
  OBVIOUS
<1>4. /\ \A i \in 1..m : y[i] = Mmap2Record(c.mmaps[i])
      /\ \A i \in 1..n : z[i] = SampleRecord(c.samples[i])
  OBVIOUS
<1> HIDE DEF m, n, y, z
<1>5. Joined(recs, CommRecord(c.comm), y, m, z, n)
  BY <1>1, <1>3, Parts
<1> HIDE DEF recs
<1>6. /\ \A i \in 1..m : recs[1 + i] = Mmap2Record(c.mmaps[i])
      /\ \A i \in 1..n : recs[1 + m + i] = SampleRecord(c.samples[i])
  BY <1>4, <1>5 DEF Joined
<1> QED
  BY <1>1, <1>2, <1>5, <1>6 DEF m, n, Joined

\* Each of them is a comm, a mapping or a sample.
LEMMA EachRecord ==
  ASSUME NEW c, IsCapture(c), NEW k \in 1..(1 + Len(c.mmaps) + Len(c.samples))
  PROVE  \/ k = 1
         \/ \E i \in 1..Len(c.mmaps) : k = 1 + i
         \/ \E i \in 1..Len(c.samples) : k = 1 + Len(c.mmaps) + i
<1> DEFINE m == Len(c.mmaps)
           n == Len(c.samples)
<1>1. m \in Nat /\ n \in Nat
  BY SeqIs DEF IsCapture
<1> HIDE DEF m, n
<1>2. k \in 1..(1 + m + n)
  BY DEF m, n
<1>3. k # 1 /\ k <= 1 + m => k - 1 \in 1..m /\ k = 1 + (k - 1)
  BY <1>1, <1>2
<1>4. k > 1 + m => k - 1 - m \in 1..n /\ k = 1 + m + (k - 1 - m)
  BY <1>1, <1>2
<1>5. k = 1 \/ (\E i \in 1..m : k = 1 + i) \/ (\E i \in 1..n : k = 1 + m + i)
  BY <1>1, <1>2, <1>3, <1>4
<1> QED
  BY <1>5 DEF m, n

LEMMA RecordBuffers ==
  ASSUME NEW c, IsCapture(c)
  PROVE  /\ AreBuffers(Records(c))
         /\ Len(Records(c)) = 1 + Len(c.mmaps) + Len(c.samples)
         /\ \A k \in 1..Len(Records(c)) : /\ Size(Records(c)[k]) % 8 = 0
                                          /\ At(Records(c)[k], 6, F(2, Size(Records(c)[k])))
<1> DEFINE recs == Records(c)
           m == Len(c.mmaps)
           n == Len(c.samples)
           Sized(r) == /\ IsBuffer(r) /\ Size(r) \in Nat \ {0} /\ Size(r) % 8 = 0
                       /\ At(r, 6, F(2, Size(r)))
<1>1. /\ m \in Nat /\ n \in Nat
      /\ Len(recs) = 1 + m + n /\ recs = [i \in 1..(1 + m + n) |-> recs[i]]
      /\ recs[1] = CommRecord(c.comm)
      /\ \A i \in 1..m : recs[1 + i] = Mmap2Record(c.mmaps[i])
      /\ \A i \in 1..n : recs[1 + m + i] = SampleRecord(c.samples[i])
  BY RecordsAre
<1>2. Sized(CommRecord(c.comm))
  BY CommRecordFields DEF IsCapture
<1>3. ASSUME NEW i \in 1..m PROVE Sized(Mmap2Record(c.mmaps[i]))
  <2>1. c.mmaps[i] \in ToSet(c.mmaps)
    BY SeqIs DEF IsCapture
  <2> DEFINE mm == c.mmaps[i]
  <2>2. IsSeq(mm.path) /\ mm.path # <<>> /\ Fits(Mmap2Body(mm))
    BY <2>1 DEF IsCapture
  <2> HIDE DEF mm
  <2>3. Sized(Mmap2Record(mm))
    BY <2>2, Mmap2RecordFields
  <2> QED
    BY <2>3 DEF mm
<1>4. ASSUME NEW i \in 1..n PROVE Sized(SampleRecord(c.samples[i]))
  <2>1. c.samples[i] \in ToSet(c.samples)
    BY SeqIs DEF IsCapture
  <2> DEFINE s == c.samples[i]
  <2>2. IsSeq(s.callchain) /\ Fits(SampleBody(s))
    BY <2>1 DEF IsCapture
  <2> HIDE DEF s
  <2>3. Sized(SampleRecord(s))
    BY <2>2, SampleRecordFields
  <2> QED
    BY <2>3 DEF s
<1>5. \A k \in 1..(1 + m + n) :
        k = 1 \/ (\E i \in 1..m : k = 1 + i) \/ (\E i \in 1..n : k = 1 + m + i)
  BY EachRecord
<1> HIDE DEF recs, m, n, Sized
<1>6. \A k \in 1..(1 + m + n) : Sized(recs[k])
  BY <1>1, <1>2, <1>3, <1>4, <1>5
<1>7. 1 + m + n \in Nat \ {0} /\ DOMAIN recs = 1..(1 + m + n)
  BY <1>1
<1>8. AreBuffers(recs)
  BY <1>1, <1>6, <1>7 DEF AreBuffers, Sized
<1> QED
  BY <1>1, <1>6, <1>8 DEF recs, m, n, Sized

LEMMA StartsAligned ==
  ASSUME NEW recs, AreBuffers(recs), \A k \in 1..Len(recs) : Size(recs[k]) % 8 = 0
  PROVE  \A k \in 0..Len(recs) : Starts(recs)[k] % 8 = 0
<1> DEFINE n == Len(recs)
           S == {k \in 0..n : Starts(recs)[k] % 8 = 0}
<1>1. n \in Nat
  BY DEF AreBuffers
<1>2. 0 \in S
  BY <1>1, StartsAre
<1>3. ASSUME NEW k \in 0..(n - 1), k \in S PROVE k + 1 \in S
  <2> DEFINE a == Starts(recs)[k]
             b == Size(recs[k + 1])
  <2>1. k + 1 \in 1..n /\ k + 1 \in 0..n /\ k \in 0..n /\ (k + 1) - 1 = k
    BY <1>1
  <2>2. Starts(recs)[k + 1] = a + b
    BY <2>1, StartsAre
  <2>3. a \in Nat /\ b \in Nat /\ a % 8 = 0 /\ b % 8 = 0
    BY <1>3, <2>1, StartsAre, SizeNat DEF AreBuffers
  <2> HIDE DEF a, b
  <2>4. (a + b) % 8 = 0
    BY <2>3
  <2> QED
    BY <2>1, <2>2, <2>4
<1> HIDE DEF S
<1>4. 0..n \subseteq S
  BY <1>1, <1>2, <1>3, IntervalInduction
<1> QED
  BY <1>4 DEF S

\* The file: the header with its sections, the attribute and, from 168 on, the records
\* one after the other.
LEMMA FileFields ==
  ASSUME NEW c, IsCapture(c)
  PROVE  LET file == SyntheticCallchain(c)
             recs == Records(c)
         IN  /\ IsBuffer(file)
             /\ At(file, 24, F(8, 104)) /\ At(file, 40, F(8, 168))
             /\ At(file, 48, F(8, Starts(recs)[Len(recs)]))
             /\ At(file, 104, F(4, 0)) /\ At(file, 120, F(8, 4000))
             /\ At(file, 128, F(8, SampleType)) /\ At(file, 144, F(8, 0))
             /\ \A k \in 1..Len(recs) : \A o, f :
                  At(recs[k], o, f) => At(file, 168 + (Starts(recs)[k - 1] + o), f)
<1> DEFINE recs == Records(c)
           data == FlattenSeq(recs)
           h == Header(Size(data))
           a == Attr
           ha == h \o a
           file == ha \o data
<1>1. SyntheticCallchain(c) = file
  BY DEF SyntheticCallchain
<1>2. /\ IsBuffer(data) /\ Size(data) = Starts(recs)[Len(recs)]
      /\ \A k \in 1..Len(recs) : \A o, f :
           At(recs[k], o, f) => At(data, Starts(recs)[k - 1] + o, f)
  BY RecordBuffers, Flattened
<1>3. /\ IsBuffer(h) /\ Size(h) = 104
      /\ At(h, 24, F(8, 104)) /\ At(h, 40, F(8, 168)) /\ At(h, 48, F(8, Size(data)))
  BY HeaderFields DEF HeaderSize, AttrSize
<1>4. /\ IsBuffer(a) /\ Size(a) = 64
      /\ At(a, 0, F(4, 0)) /\ At(a, 16, F(8, 4000)) /\ At(a, 24, F(8, SampleType))
      /\ At(a, 40, F(8, 0))
  BY AttrFields
<1> HIDE DEF recs, data, h, a
<1>5. IsBuffer(ha) /\ Size(ha) = 168
  BY <1>3, <1>4, ConcatBuffer
<1>6. /\ At(ha, 24, F(8, 104)) /\ At(ha, 40, F(8, 168)) /\ At(ha, 48, F(8, Size(data)))
      /\ At(ha, 104 + 0, F(4, 0)) /\ At(ha, 104 + 16, F(8, 4000))
      /\ At(ha, 104 + 24, F(8, SampleType)) /\ At(ha, 104 + 40, F(8, 0))
  BY <1>3, <1>4, AtConcat
<1> HIDE DEF ha
<1>7. IsBuffer(file)
  BY <1>2, <1>5, ConcatBuffer
<1>8. \A o, f : (At(ha, o, f) => At(file, o, f)) /\ (At(data, o, f) => At(file, 168 + o, f))
  BY <1>2, <1>5, AtConcat
<1> HIDE DEF file
<1>9. /\ At(file, 24, F(8, 104)) /\ At(file, 40, F(8, 168)) /\ At(file, 48, F(8, Size(data)))
      /\ At(file, 104, F(4, 0)) /\ At(file, 120, F(8, 4000)) /\ At(file, 128, F(8, SampleType))
      /\ At(file, 144, F(8, 0))
  BY <1>6, <1>8
<1>10. \A k \in 1..Len(recs) : \A o, f :
        At(recs[k], o, f) => At(file, 168 + (Starts(recs)[k - 1] + o), f)
  BY <1>2, <1>8
<1> QED
  BY <1>1, <1>2, <1>7, <1>9, <1>10 DEF recs
-----------------------------------------------------------------------------
(***************************************************************************)
(* Reading.                                                                *)
(***************************************************************************)

File == SyntheticCallchain(content)

LEMMA ContentIs == ASSUME content \in Contents PROVE IsCapture(content) /\ IsBuffer(File)
<1>1. IsCapture(content)
  BY ContentsAssumption
<1> QED
  BY <1>1, FileFields DEF File

LEMMA GetAt ==
  ASSUME content \in Contents, NEW o, NEW w, NEW v, At(File, o, F(w, v))
  PROVE  Get(o, w) = v
<1>1. o \in DOMAIN Placed(File) /\ Placed(File)[o] = F(w, v)
  BY ContentIs, PlacedAt
<1>2. Files[content] = Placed(File)
  BY DEF Files, File
<1>3. F(w, v).width = w /\ F(w, v).value = v
  BY DEF F
<1> QED
  BY <1>1, <1>2, <1>3 DEF Get

LEMMA GetTextAt ==
  ASSUME content \in Contents, NEW o, NEW t, TextAt(File, o, t)
  PROVE  GetText(o) = t
<1> DEFINE f == F(Len(t), t)
           nul == F(1, 0)
<1>1. At(File, o, f) /\ At(File, o + Len(t), nul)
  BY DEF TextAt
<1>2. f.width = Len(t) /\ f.value = t /\ nul.width = 1
  BY DEF F
<1> HIDE DEF f, nul
<1>3. /\ o \in DOMAIN Placed(File) /\ Placed(File)[o] = f
      /\ o + Len(t) \in DOMAIN Placed(File) /\ Placed(File)[o + Len(t)] = nul
  BY <1>1, ContentIs, PlacedAt
<1>4. Files[content] = Placed(File)
  BY DEF Files, File
<1> QED
  BY <1>2, <1>3, <1>4 DEF GetText

\* The header leads to the attribute and to the data.
LEMMA Sections ==
  ASSUME content \in Contents
  PROVE  LET recs == Records(content)
         IN  /\ DataOffset = 168 /\ DataEnd = 168 + Starts(recs)[Len(recs)]
             /\ AttrAt(0, 4) = 0 /\ AttrAt(16, 8) = 4000 /\ AttrAt(24, 8) = SampleType
             /\ AttrAt(40, 8) = 0
<1> DEFINE end == Starts(Records(content))[Len(Records(content))]
<1>1. IsCapture(content)
  BY ContentIs
<1>2. /\ At(File, 24, F(8, 104)) /\ At(File, 40, F(8, 168)) /\ At(File, 48, F(8, end))
      /\ At(File, 104, F(4, 0)) /\ At(File, 120, F(8, 4000)) /\ At(File, 128, F(8, SampleType))
      /\ At(File, 144, F(8, 0))
  BY <1>1, FileFields DEF File
<1> HIDE DEF end
<1>3. /\ Get(24, 8) = 104 /\ Get(40, 8) = 168 /\ Get(48, 8) = end
      /\ Get(104, 4) = 0 /\ Get(120, 8) = 4000 /\ Get(128, 8) = SampleType
      /\ Get(144, 8) = 0
  BY <1>2, GetAt
<1>4. DataOffset = 168 /\ DataEnd = 168 + end
  BY <1>3 DEF DataOffset, DataEnd
<1>5. 104 + 0 = 104 /\ 104 + 16 = 120 /\ 104 + 24 = 128 /\ 104 + 40 = 144
  OBVIOUS
<1>6. /\ AttrAt(0, 4) = 0 /\ AttrAt(16, 8) = 4000 /\ AttrAt(24, 8) = SampleType
      /\ AttrAt(40, 8) = 0
  BY <1>3, <1>5 DEF AttrAt
<1> QED
  BY <1>4, <1>6 DEF end

LEMMA Cardinalities ==
  /\ Cardinality({}) = 0 /\ Cardinality({"IP"}) = 1 /\ Cardinality({"IP", "TID"}) = 2
  /\ Cardinality({"IP", "TID", "TIME"}) = 3 /\ Cardinality({"IP", "TID", "TIME", "CPU"}) = 4
  /\ Cardinality({"IP", "TID", "TIME", "CPU", "PERIOD"}) = 5
<1> DEFINE a == {"IP"}
           b == {"IP", "TID"}
           c == {"IP", "TID", "TIME"}
           d == {"IP", "TID", "TIME", "CPU"}
           e == {"IP", "TID", "TIME", "CPU", "PERIOD"}
<1>1. /\ a = {} \cup {"IP"} /\ "IP" \notin {} /\ b = a \cup {"TID"} /\ "TID" \notin a
      /\ c = b \cup {"TIME"} /\ "TIME" \notin b /\ d = c \cup {"CPU"} /\ "CPU" \notin c
      /\ e = d \cup {"PERIOD"} /\ "PERIOD" \notin d
  OBVIOUS
<1> HIDE DEF a, b, c, d, e
<1>2. IsFiniteSet({}) /\ Cardinality({}) = 0
  BY FS_EmptySet
<1>3. IsFiniteSet(a) /\ Cardinality(a) = 1
  BY <1>1, <1>2, FS_AddElement
<1>4. IsFiniteSet(b) /\ Cardinality(b) = 2
  BY <1>1, <1>3, FS_AddElement
<1>5. IsFiniteSet(c) /\ Cardinality(c) = 3
  BY <1>1, <1>4, FS_AddElement
<1>6. IsFiniteSet(d) /\ Cardinality(d) = 4
  BY <1>1, <1>5, FS_AddElement
<1>7. IsFiniteSet(e) /\ Cardinality(e) = 5
  BY <1>1, <1>6, FS_AddElement
<1> QED
  BY <1>2, <1>3, <1>4, <1>5, <1>6, <1>7 DEF a, b, c, d, e

\* The announced fields that come before the one at place k.
LEMMA FieldsBefore ==
  ASSUME content \in Contents, NEW o \in Nat, NEW k \in 1..9, NEW n \in Nat,
         Cardinality({AbiOrder[i] : i \in 1..(k - 1)} \cap SampleType) = n
  PROVE  SampleField(o, AbiOrder[k]) = o + 8 + 8 * n
<1>1. DOMAIN AbiOrder = 1..9 /\ \A i, j \in 1..9 : AbiOrder[i] = AbiOrder[j] => i = j
  BY DEF AbiOrder
<1>2. (CHOOSE i \in DOMAIN AbiOrder : AbiOrder[i] = AbiOrder[k]) = k
  BY <1>1
<1>3. AttrAt(24, 8) = SampleType
  BY Sections
<1> QED
  BY <1>2, <1>3 DEF SampleField

\* So the fields of a sample lie where the sample_type says.
LEMMA SampleFieldsAt ==
  ASSUME content \in Contents, NEW o \in Nat
  PROVE  /\ SampleField(o, "IP") = o + 8 /\ SampleField(o, "TID") = o + 16
         /\ SampleField(o, "TIME") = o + 24 /\ SampleField(o, "CPU") = o + 32
         /\ SampleField(o, "PERIOD") = o + 40 /\ SampleField(o, "CALLCHAIN") = o + 48
<1> DEFINE before(k) == {AbiOrder[i] : i \in 1..(k - 1)} \cap SampleType
<1>1. /\ AbiOrder[1] = "IP" /\ AbiOrder[2] = "TID" /\ AbiOrder[3] = "TIME"
      /\ AbiOrder[4] = "ADDR" /\ AbiOrder[5] = "ID" /\ AbiOrder[6] = "STREAM_ID"
      /\ AbiOrder[7] = "CPU" /\ AbiOrder[8] = "PERIOD" /\ AbiOrder[9] = "CALLCHAIN"
  BY DEF AbiOrder
<1>2. /\ before(1) = {} /\ before(2) = {"IP"} /\ before(3) = {"IP", "TID"}
  BY <1>1 DEF SampleType
<1>3. before(7) = {"IP", "TID", "TIME"}
  BY <1>1 DEF SampleType
<1>4. before(8) = {"IP", "TID", "TIME", "CPU"}
  BY <1>1 DEF SampleType
<1>5. before(9) = {"IP", "TID", "TIME", "CPU", "PERIOD"}
  BY <1>1 DEF SampleType
<1>6. /\ Cardinality(before(1)) = 0 /\ Cardinality(before(2)) = 1 /\ Cardinality(before(3)) = 2
      /\ Cardinality(before(7)) = 3 /\ Cardinality(before(8)) = 4 /\ Cardinality(before(9)) = 5
  BY <1>2, <1>3, <1>4, <1>5, Cardinalities
<1>7. \A k \in 1..9, n \in Nat :
        Cardinality(before(k)) = n => SampleField(o, AbiOrder[k]) = o + 8 + 8 * n
  BY FieldsBefore
<1> HIDE DEF before
<1>8. /\ SampleField(o, AbiOrder[1]) = o + 8 + 8 * 0 /\ SampleField(o, AbiOrder[2]) = o + 8 + 8 * 1
      /\ SampleField(o, AbiOrder[3]) = o + 8 + 8 * 2 /\ SampleField(o, AbiOrder[7]) = o + 8 + 8 * 3
      /\ SampleField(o, AbiOrder[8]) = o + 8 + 8 * 4 /\ SampleField(o, AbiOrder[9]) = o + 8 + 8 * 5
  BY <1>6, <1>7
<1> QED
  BY <1>1, <1>8

\* The buffer r begins at offset o of the file.
BeginsAt(r, o) == \A p, f : At(r, p, f) => At(File, o + p, f)

LEMMA CommRead ==
  ASSUME content \in Contents, NEW c, IsSeq(c.comm), c.comm # <<>>, Fits(CommBody(c)),
         c = [pid |-> c.pid, tid |-> c.tid, comm |-> c.comm],
         NEW o \in Nat, BeginsAt(CommRecord(c), o)
  PROVE  ReadRecord(o) = [type |-> COMM, row |-> c]
<1> DEFINE r == CommRecord(c)
<1>1. /\ At(r, 0, F(4, COMM)) /\ At(r, 8, F(4, c.pid)) /\ At(r, 12, F(4, c.tid))
      /\ At(r, 16, F(Len(c.comm), c.comm)) /\ At(r, 16 + Len(c.comm), F(1, 0))
  BY CommRecordFields DEF TextAt
<1>2. Len(c.comm) \in Nat
  BY SeqIs
<1> HIDE DEF r
<1>3. /\ At(File, o + 0, F(4, COMM)) /\ At(File, o + 8, F(4, c.pid)) /\ At(File, o + 12, F(4, c.tid))
      /\ At(File, o + 16, F(Len(c.comm), c.comm))
      /\ At(File, o + (16 + Len(c.comm)), F(1, 0))
  BY <1>1 DEF BeginsAt, r
<1>4. o + 0 = o /\ o + (16 + Len(c.comm)) = (o + 16) + Len(c.comm)
  BY <1>2
<1>5. GetText(o + 16) = c.comm
  BY <1>3, <1>4, GetTextAt DEF TextAt
<1>6. Get(o, 4) = COMM /\ Get(o + 8, 4) = c.pid /\ Get(o + 12, 4) = c.tid
  BY <1>3, <1>4, GetAt
<1>7. ReadComm(o) = c
  BY <1>5, <1>6 DEF ReadComm
<1> QED
  BY <1>6, <1>7 DEF ReadRecord, COMM, MMAP2, SAMPLE

LEMMA Mmap2Read ==
  ASSUME content \in Contents, NEW m, IsSeq(m.path), m.path # <<>>, Fits(Mmap2Body(m)),
         m = [pid |-> m.pid, addr |-> m.addr, len |-> m.len, path |-> m.path,
              build_id |-> m.build_id],
         NEW o \in Nat, BeginsAt(Mmap2Record(m), o)
  PROVE  ReadRecord(o) = [type |-> MMAP2, row |-> m]
<1> DEFINE r == Mmap2Record(m)
           misc == USER + MMAP_BUILD_ID
<1>1. /\ At(r, 0, F(4, MMAP2)) /\ At(r, 4, F(2, misc))
      /\ At(r, 8, F(4, m.pid)) /\ At(r, 16, F(8, m.addr)) /\ At(r, 24, F(8, m.len))
      /\ At(r, 40, F(1, 20)) /\ At(r, 44, F(20, m.build_id))
      /\ At(r, 72, F(Len(m.path), m.path)) /\ At(r, 72 + Len(m.path), F(1, 0))
  BY Mmap2RecordFields DEF TextAt
<1>2. Len(m.path) \in Nat
  BY SeqIs
<1>3. (misc \div MMAP_BUILD_ID) % 2 = 1
  BY DEF USER, MMAP_BUILD_ID
<1> HIDE DEF r, misc
<1>4. /\ At(File, o + 0, F(4, MMAP2)) /\ At(File, o + 4, F(2, misc))
      /\ At(File, o + 8, F(4, m.pid)) /\ At(File, o + 16, F(8, m.addr)) /\ At(File, o + 24, F(8, m.len))
      /\ At(File, o + 40, F(1, 20)) /\ At(File, o + 44, F(20, m.build_id))
      /\ At(File, o + 72, F(Len(m.path), m.path)) /\ At(File, o + (72 + Len(m.path)), F(1, 0))
  BY <1>1 DEF BeginsAt, r
<1>5. o + 0 = o /\ o + (72 + Len(m.path)) = (o + 72) + Len(m.path)
  BY <1>2
<1>6. GetText(o + 72) = m.path
  BY <1>4, <1>5, GetTextAt DEF TextAt
<1>7. /\ Get(o, 4) = MMAP2 /\ Get(o + 4, 2) = misc
      /\ Get(o + 8, 4) = m.pid /\ Get(o + 16, 8) = m.addr /\ Get(o + 24, 8) = m.len
      /\ Get(o + 40, 1) = 20 /\ Get(o + 44, 20) = m.build_id
  BY <1>4, <1>5, GetAt
<1>8. ReadMmap2(o) = m
  BY <1>3, <1>6, <1>7 DEF ReadMmap2
<1> QED
  BY <1>7, <1>8 DEF ReadRecord, COMM, MMAP2, SAMPLE

\* The row of a sample, as ReadSample gives it.
SampleRow(s) ==
  [ip |-> s.ip, pid |-> 1234, time |-> s.time, cpu |-> s.cpu, period |-> s.period,
   callchain |-> s.callchain]

LEMMA SampleRead ==
  ASSUME content \in Contents, NEW s, IsSeq(s.callchain), Fits(SampleBody(s)),
         NEW o \in Nat, BeginsAt(SampleRecord(s), o)
  PROVE  ReadRecord(o) = [type |-> SAMPLE, row |-> SampleRow(s)]
<1> DEFINE r == SampleRecord(s)
           n == Len(s.callchain)
<1>1. /\ At(r, 0, F(4, SAMPLE))
      /\ At(r, 8, F(8, s.ip)) /\ At(r, 16, F(4, 1234)) /\ At(r, 24, F(8, s.time))
      /\ At(r, 32, F(4, s.cpu)) /\ At(r, 40, F(8, s.period)) /\ At(r, 48, F(8, n))
      /\ \A i \in 1..n : At(r, 48 + 8 * i, F(8, s.callchain[i]))
  BY SampleRecordFields
<1>2. n \in Nat /\ s.callchain = [i \in 1..n |-> s.callchain[i]]
  BY SeqIs
<1> HIDE DEF r, n
<1>3. /\ At(File, o + 0, F(4, SAMPLE))
      /\ At(File, o + 8, F(8, s.ip)) /\ At(File, o + 16, F(4, 1234)) /\ At(File, o + 24, F(8, s.time))
      /\ At(File, o + 32, F(4, s.cpu)) /\ At(File, o + 40, F(8, s.period)) /\ At(File, o + 48, F(8, n))
      /\ \A i \in 1..n : At(File, o + (48 + 8 * i), F(8, s.callchain[i]))
  BY <1>1 DEF BeginsAt, r
<1>4. o + 0 = o
  OBVIOUS
<1>5. /\ Get(o, 4) = SAMPLE
      /\ Get(o + 8, 8) = s.ip /\ Get(o + 16, 4) = 1234 /\ Get(o + 24, 8) = s.time
      /\ Get(o + 32, 4) = s.cpu /\ Get(o + 40, 8) = s.period /\ Get(o + 48, 8) = n
      /\ \A i \in 1..n : Get(o + (48 + 8 * i), 8) = s.callchain[i]
  BY <1>3, <1>4, GetAt
<1>6. \A i \in 1..n : o + (48 + 8 * i) = (o + 48) + 8 * i
  BY <1>2
<1>7. \A i \in 1..n : Get((o + 48) + 8 * i, 8) = s.callchain[i]
  BY <1>5, <1>6
<1>8. n # Garbage
  BY <1>2, ContentsAssumption
<1> DEFINE chain == o + 48
<1>9. /\ SampleField(o, "IP") = o + 8 /\ SampleField(o, "TID") = o + 16
      /\ SampleField(o, "TIME") = o + 24 /\ SampleField(o, "CPU") = o + 32
      /\ SampleField(o, "PERIOD") = o + 40 /\ SampleField(o, "CALLCHAIN") = chain
  BY SampleFieldsAt
<1>10. Get(chain, 8) = n /\ \A i \in 1..n : Get(chain + 8 * i, 8) = s.callchain[i]
  BY <1>5, <1>7
<1> HIDE DEF chain
<1>11. [i \in 1..n |-> Get(chain + 8 * i, 8)] = s.callchain
  BY <1>2, <1>10
<1>12. ReadSample(o) = SampleRow(s)
  <2> DEFINE frames == IF Get(chain, 8) = Garbage THEN Garbage
                       ELSE [i \in 1..Get(chain, 8) |-> Get(chain + 8 * i, 8)]
  <2>1. frames = s.callchain
    BY <1>8, <1>10, <1>11
  <2>2. /\ Get(SampleField(o, "IP"), 8) = s.ip /\ Get(SampleField(o, "TID"), 4) = 1234
        /\ Get(SampleField(o, "TIME"), 8) = s.time /\ Get(SampleField(o, "CPU"), 4) = s.cpu
        /\ Get(SampleField(o, "PERIOD"), 8) = s.period
    BY <1>5, <1>9
  <2>3. ReadSample(o) =
          [ip |-> Get(SampleField(o, "IP"), 8), pid |-> Get(SampleField(o, "TID"), 4),
           time |-> Get(SampleField(o, "TIME"), 8), cpu |-> Get(SampleField(o, "CPU"), 4),
           period |-> Get(SampleField(o, "PERIOD"), 8), callchain |-> frames]
    BY <1>9, Zenon DEF ReadSample
  <2> HIDE DEF frames
  <2> QED
    BY <2>1, <2>2, <2>3 DEF SampleRow
<1> QED
  BY <1>5, <1>12 DEF ReadRecord, COMM, MMAP2, SAMPLE

LEMMA WrittenAre ==
  ASSUME NEW c, IsCapture(c)
  PROVE  LET w == Written(c)
             m == Len(c.mmaps)
             n == Len(c.samples)
         IN  /\ Len(w) = 1 + m + n /\ w = [i \in 1..(1 + m + n) |-> w[i]]
             /\ w[1] = [type |-> COMM, row |-> c.comm]
             /\ \A i \in 1..m : w[1 + i] = [type |-> MMAP2, row |-> c.mmaps[i]]
             /\ \A i \in 1..n : w[1 + m + i] = [type |-> SAMPLE, row |-> SampleRow(c.samples[i])]
<1> DEFINE m == Len(c.mmaps)
           n == Len(c.samples)
           x == [type |-> COMM, row |-> c.comm]
           y == [i \in 1..m |-> [type |-> MMAP2, row |-> c.mmaps[i]]]
           z == [i \in 1..n |-> [type |-> SAMPLE, row |-> SampleRow(c.samples[i])]]
           w == <<x>> \o y \o z
<1>1. m \in Nat /\ n \in Nat /\ DOMAIN c.mmaps = 1..m /\ DOMAIN c.samples = 1..n
  BY SeqIs DEF IsCapture
<1>2. Written(c) = w
  <2> DEFINE rows == [i \in 1..n |-> SampleRow(c.samples[i])]
  <2>1. Tagged(COMM, <<c.comm>>) = <<x>>
    BY DEF Tagged
  <2>2. Tagged(MMAP2, c.mmaps) = y
    BY <1>1 DEF Tagged
  <2>3. Tagged(SAMPLE, rows) = z
    BY DEF Tagged
  <2>4. Written(c) = Tagged(COMM, <<c.comm>>) \o Tagged(MMAP2, c.mmaps) \o Tagged(SAMPLE, rows)
    BY <1>1 DEF Written, SampleRow
  <2> HIDE DEF x, y, z, rows
  <2> QED
    BY <2>1, <2>2, <2>3, <2>4
<1>3. y = [i \in 1..m |-> y[i]] /\ z = [i \in 1..n |-> z[i]]
  OBVIOUS
<1>4. /\ \A i \in 1..m : y[i] = [type |-> MMAP2, row |-> c.mmaps[i]]
      /\ \A i \in 1..n : z[i] = [type |-> SAMPLE, row |-> SampleRow(c.samples[i])]
  OBVIOUS
<1> HIDE DEF m, n, x, y, z
<1>5. Joined(w, x, y, m, z, n)
  BY <1>1, <1>3, Parts
<1> HIDE DEF w
<1>6. /\ \A i \in 1..m : w[1 + i] = [type |-> MMAP2, row |-> c.mmaps[i]]
      /\ \A i \in 1..n : w[1 + m + i] = [type |-> SAMPLE, row |-> SampleRow(c.samples[i])]
  BY <1>4, <1>5 DEF Joined
<1> QED
  BY <1>1, <1>2, <1>5, <1>6 DEF m, n, x, Joined

\* Where record k + 1 of the capture begins in the file.
Begin(k) == 168 + Starts(Records(content))[k]

LEMMA BeginsIn ==
  ASSUME content \in Contents, NEW k \in 1..Len(Records(content))
  PROVE  Begin(k - 1) \in Nat /\ BeginsAt(Records(content)[k], Begin(k - 1))
<1> DEFINE recs == Records(content)
           r == recs[k]
           b == Starts(recs)[k - 1]
<1>1. IsCapture(content)
  BY ContentIs
<1>2. AreBuffers(recs)
  BY <1>1, RecordBuffers
<1>3. k - 1 \in 0..Len(recs) /\ IsBuffer(r)
  BY <1>2 DEF AreBuffers
<1>4. b \in Nat
  BY <1>2, <1>3, StartsAre
<1>5. \A o, f : At(r, o, f) => At(File, 168 + (b + o), f)
  BY <1>1, FileFields DEF File
<1>6. Begin(k - 1) = 168 + b
  BY DEF Begin
<1> HIDE DEF r, b, recs
<1>7. ASSUME NEW o, NEW f, At(r, o, f) PROVE At(File, (168 + b) + o, f)
  <2>1. o \in Nat
    BY <1>3, <1>7, AtWithin
  <2>2. (168 + b) + o = 168 + (b + o)
    BY <1>4, <2>1
  <2> QED
    BY <1>5, <1>7, <2>2
<1> QED
  BY <1>4, <1>6, <1>7 DEF BeginsAt, r, recs

\* For any capture that can be written, a reader that starts where the k-th record
\* begins gets the k-th record as it was declared, whatever the lengths of the texts
\* and call chains before it (fixture.rs:137-261).
THEOREM RecordRead ==
  ASSUME content \in Contents, NEW k \in 1..Len(Records(content))
  PROVE  ReadRecord(Begin(k - 1)) = Written(content)[k]
<1> DEFINE recs == Records(content)
           w == Written(content)
           o == Begin(k - 1)
           m == Len(content.mmaps)
           n == Len(content.samples)
<1>1. IsCapture(content)
  BY ContentIs
<1>2. o \in Nat /\ BeginsAt(recs[k], o)
  BY BeginsIn
<1>3. /\ m \in Nat /\ n \in Nat /\ Len(recs) = 1 + m + n
      /\ recs[1] = CommRecord(content.comm)
      /\ \A i \in 1..m : recs[1 + i] = Mmap2Record(content.mmaps[i])
      /\ \A i \in 1..n : recs[1 + m + i] = SampleRecord(content.samples[i])
  BY <1>1, RecordsAre
<1>4. /\ w[1] = [type |-> COMM, row |-> content.comm]
      /\ \A i \in 1..m : w[1 + i] = [type |-> MMAP2, row |-> content.mmaps[i]]
      /\ \A i \in 1..n : w[1 + m + i] = [type |-> SAMPLE, row |-> SampleRow(content.samples[i])]
  BY <1>1, WrittenAre
<1>5. k = 1 \/ (\E i \in 1..m : k = 1 + i) \/ (\E i \in 1..n : k = 1 + m + i)
  BY <1>1, <1>3, EachRecord
<1> HIDE DEF recs, w, o
<1>6. CASE k = 1
  <2> DEFINE c == content.comm
  <2>1. /\ c = [pid |-> c.pid, tid |-> c.tid, comm |-> c.comm]
        /\ IsSeq(c.comm) /\ c.comm # <<>> /\ Fits(CommBody(c))
    BY <1>1 DEF IsCapture
  <2>2. BeginsAt(CommRecord(c), o)
    BY <1>2, <1>3, <1>6
  <2>3. w[k] = [type |-> COMM, row |-> c]
    BY <1>4, <1>6
  <2> HIDE DEF c
  <2>4. ReadRecord(o) = [type |-> COMM, row |-> c]
    BY <1>2, <2>1, <2>2, CommRead
  <2> QED
    BY <2>3, <2>4 DEF o, w
<1>7. CASE \E i \in 1..m : k = 1 + i
  <2>1. PICK i \in 1..m : k = 1 + i
    BY <1>7
  <2> DEFINE c == content.mmaps[i]
  <2>2. c \in ToSet(content.mmaps)
    BY <1>1, SeqIs DEF IsCapture
  <2>3. /\ c = [pid |-> c.pid, addr |-> c.addr, len |-> c.len, path |-> c.path,
               build_id |-> c.build_id]
        /\ IsSeq(c.path) /\ c.path # <<>> /\ Fits(Mmap2Body(c))
    <3> HIDE DEF c
    <3> QED
      BY <1>1, <2>2 DEF IsCapture
  <2>4. BeginsAt(Mmap2Record(c), o)
    BY <1>2, <1>3, <2>1
  <2>5. w[k] = [type |-> MMAP2, row |-> c]
    BY <1>4, <2>1
  <2> HIDE DEF c
  <2>6. ReadRecord(o) = [type |-> MMAP2, row |-> c]
    BY <1>2, <2>3, <2>4, Mmap2Read
  <2> QED
    BY <2>5, <2>6 DEF o, w
<1>8. CASE \E i \in 1..n : k = 1 + m + i
  <2>1. PICK i \in 1..n : k = 1 + m + i
    BY <1>8
  <2> DEFINE c == content.samples[i]
  <2>2. c \in ToSet(content.samples)
    BY <1>1, SeqIs DEF IsCapture
  <2>3. IsSeq(c.callchain) /\ Fits(SampleBody(c))
    <3> HIDE DEF c
    <3> QED
      BY <1>1, <2>2 DEF IsCapture
  <2>4. BeginsAt(SampleRecord(c), o)
    BY <1>2, <1>3, <2>1
  <2>5. w[k] = [type |-> SAMPLE, row |-> SampleRow(c)]
    BY <1>4, <2>1
  <2> HIDE DEF c
  <2>6. ReadRecord(o) = [type |-> SAMPLE, row |-> SampleRow(c)]
    BY <1>2, <2>3, <2>4, SampleRead
  <2> QED
    BY <2>5, <2>6 DEF o, w
<1> QED
  BY <1>5, <1>6, <1>7, <1>8

\* Its size leads to where the next one begins.
LEMMA SizeRead ==
  ASSUME content \in Contents, NEW k \in 1..Len(Records(content))
  PROVE  /\ Get(Begin(k - 1) + 6, 2) # Garbage
         /\ Begin(k - 1) + Get(Begin(k - 1) + 6, 2) = Begin(k)
<1> DEFINE recs == Records(content)
           r == recs[k]
           o == Begin(k - 1)
<1>1. IsCapture(content)
  BY ContentIs
<1>2. AreBuffers(recs) /\ At(r, 6, F(2, Size(r)))
  BY <1>1, RecordBuffers
<1>3. Size(r) \in Nat
  BY <1>2, SizeNat DEF AreBuffers
<1>4. o \in Nat /\ BeginsAt(r, o)
  BY BeginsIn
<1>5. Get(o + 6, 2) = Size(r)
  <2>1. At(File, o + 6, F(2, Size(r)))
    BY <1>2, <1>4 DEF BeginsAt
  <2> HIDE DEF o, r
  <2> QED
    BY <2>1, GetAt
<1>6. Starts(recs)[k] = Starts(recs)[k - 1] + Size(r) /\ Starts(recs)[k - 1] \in Nat
  <2>1. k - 1 \in 0..Len(recs)
    BY <1>2 DEF AreBuffers
  <2> QED
    BY <1>2, <2>1, StartsAre
<1>7. Begin(k) = o + Size(r)
  BY <1>3, <1>6 DEF Begin
<1> HIDE DEF o, r
<1>8. Size(r) # Garbage
  BY <1>3, ContentsAssumption
<1> QED
  BY <1>5, <1>7, <1>8 DEF o
-----------------------------------------------------------------------------
(***************************************************************************)
(* The reader.                                                             *)
(***************************************************************************)

\* Between two records the reader is where one begins, and has the ones before it.
ReaderInv ==
  /\ content \in Contents
  /\ reading \in {"idle", "records", "end"}
  /\ reading = "idle" => read = <<>>
  /\ reading # "idle" =>
       /\ Len(read) \in 0..Len(Written(content))
       /\ read = [i \in 1..Len(read) |-> Written(content)[i]]
       /\ pos = Begin(Len(read))
  /\ reading = "end" => Len(read) = Len(Written(content))

\* What comes first in a sequence.
LEMMA PrefixIs ==
  ASSUME NEW n \in Nat, NEW w, w = [i \in 1..n |-> w[i]], NEW k \in 0..n,
         NEW s, s = [i \in 1..k |-> w[i]]
  PROVE  /\ Len(w) = n /\ Len(s) = k /\ IsPrefix(s, w)
         /\ (k < n => /\ Append(s, w[k + 1]) = [i \in 1..k + 1 |-> w[i]]
                     /\ Len(Append(s, w[k + 1])) = k + 1)
<1> DEFINE W == {w[i] : i \in 1..n}
<1>1. \A i \in 1..n : w[i] \in W
  OBVIOUS
<1> HIDE DEF W
<1>2. w \in [1..n -> W] /\ s \in [1..k -> W] /\ \A i \in 1..k : s[i] = w[i] /\ s[i] \in W
  BY <1>1
<1>3. w \in Seq(W) /\ s \in Seq(W) /\ k \in Nat
  <2>1. k \in Nat
    OBVIOUS
  <2>2. w \in Seq(W)
    BY <1>2, SeqDef
  <2>3. s \in Seq(W)
    BY <1>2, <2>1, SeqDef
  <2> QED
    BY <2>1, <2>2, <2>3
<1>4. Len(w) = n /\ Len(s) = k
  BY <1>2, <1>3, LenProperties
<1>5. SubSeq(s, 1, k) = SubSeq(w, 1, k)
  <2> DEFINE a == SubSeq(s, 1, k)
             b == SubSeq(w, 1, k)
  <2>1. /\ a \in Seq(W) /\ Len(a) = IF 1 <= k THEN k - 1 + 1 ELSE 0
        /\ \A i \in 1..(k - 1 + 1) : a[i] = s[1 + i - 1]
    BY <1>2, SubSeqProperties
  <2>2. /\ b \in Seq(W) /\ Len(b) = IF 1 <= k THEN k - 1 + 1 ELSE 0
        /\ \A i \in 1..(k - 1 + 1) : b[i] = w[1 + i - 1]
    BY <1>1, SubSeqProperties
  <2> HIDE DEF a, b
  <2>3. Len(a) = k /\ Len(b) = k /\ \A i \in 1..k : a[i] = b[i]
    <3>1. k - 1 + 1 = k /\ (1 <= k \/ k = 0) /\ \A i \in 1..k : 1 + i - 1 = i
      BY <1>3
    <3>2. \A i \in 1..k : a[i] = s[i] /\ b[i] = w[i]
      BY <2>1, <2>2, <3>1
    <3>3. Len(a) = k /\ Len(b) = k
      BY <2>1, <2>2, <3>1
    <3> QED
      BY <1>2, <3>2, <3>3
  <2>4. a = b
    BY <2>1, <2>2, <2>3, SeqEqual
  <2> QED
    BY <2>4 DEF a, b
<1>6. IsPrefix(s, w)
  BY <1>4, <1>5 DEF IsPrefix
<1>7. ASSUME k < n
      PROVE  /\ Append(s, w[k + 1]) = [i \in 1..k + 1 |-> w[i]]
             /\ Len(Append(s, w[k + 1])) = k + 1
  <2> DEFINE x == w[k + 1]
             a == Append(s, x)
  <2>1. x \in W
    BY <1>1, <1>7
  <2>2. /\ a \in Seq(W) /\ Len(a) = Len(s) + 1 /\ \A i \in 1..Len(s) : a[i] = s[i]
        /\ a[Len(s) + 1] = x
    <3> HIDE DEF x
    <3> QED
      BY <1>3, <2>1, AppendProperties
  <2> HIDE DEF a
  <2>3. a = [i \in 1..k + 1 |-> a[i]]
    BY <1>4, <2>2, LenProperties
  <2>4. ASSUME NEW i \in 1..k + 1 PROVE a[i] = w[i]
    <3>1. CASE i \in 1..k
      BY <1>2, <1>4, <2>2, <3>1
    <3>2. CASE i = k + 1
      BY <1>4, <2>2, <3>2
    <3> QED
      BY <1>3, <3>1, <3>2
  <2> QED
    BY <1>4, <2>2, <2>3, <2>4 DEF a
<1> QED
  BY <1>4, <1>6, <1>7

\* How many records there are, and where the section ends.
EndsAfter(n) ==
  /\ n \in Nat /\ n = Len(Records(content)) /\ n = Len(Written(content))
  /\ Written(content) = [i \in 1..n |-> Written(content)[i]]
  /\ DataOffset = Begin(0) /\ DataEnd = Begin(n) /\ n \in 0..n
  /\ \A k \in 0..n : /\ Begin(k) \in Nat /\ Begin(k) % 8 = 0
                    /\ Begin(k) <= Begin(n)
                    /\ (k < n => Begin(k) < Begin(n))

LEMMA Ends ==
  ASSUME content \in Contents
  PROVE  EndsAfter(Len(Written(content)))
<1> DEFINE recs == Records(content)
           w == Written(content)
           n == Len(w)
<1>1. IsCapture(content)
  BY ContentIs
<1>2. n = Len(recs) /\ w = [i \in 1..n |-> w[i]]
  BY <1>1, WrittenAre, RecordBuffers
<1>3. AreBuffers(recs) /\ \A k \in 1..Len(recs) : Size(recs[k]) % 8 = 0
  BY <1>1, RecordBuffers
<1>4. n \in Nat
  BY <1>2, <1>3 DEF AreBuffers
<1>5. DataOffset = 168 /\ DataEnd = 168 + Starts(recs)[Len(recs)]
  BY Sections
<1> HIDE DEF recs, w
<1>6. /\ Starts(recs)[0] = 0
      /\ \A k \in 0..n : /\ Starts(recs)[k] \in Nat /\ Starts(recs)[k] % 8 = 0
                        /\ \A j \in 0..(k - 1) : Starts(recs)[j] < Starts(recs)[k]
  BY <1>2, <1>3, StartsAre, StartsAligned
<1>7. \A k : Begin(k) = 168 + Starts(recs)[k]
  BY DEF Begin, recs
<1>8. DataOffset = Begin(0) /\ DataEnd = Begin(n)
  BY <1>2, <1>5, <1>6, <1>7
<1>9. ASSUME NEW k \in 0..n
      PROVE  /\ Begin(k) \in Nat /\ Begin(k) % 8 = 0 /\ Begin(k) <= Begin(n)
             /\ (k < n => Begin(k) < Begin(n))
  <2> DEFINE a == Starts(recs)[k]
             b == Starts(recs)[n]
  <2>1. a \in Nat /\ b \in Nat /\ a % 8 = 0
    BY <1>4, <1>6
  <2>2. k < n => a < b
    <3>1. k < n => k \in 0..(n - 1) /\ n \in 0..n
      BY <1>4
    <3> QED
      BY <1>6, <3>1
  <2>3. k = n => a = b
    OBVIOUS
  <2>4. Begin(k) = 168 + a /\ Begin(n) = 168 + b
    BY <1>7
  <2> HIDE DEF a, b
  <2>5. (168 + a) % 8 = 0
    BY <2>1
  <2> QED
    BY <1>4, <2>1, <2>2, <2>3, <2>4, <2>5
<1> QED
  BY <1>2, <1>4, <1>8, <1>9 DEF w, recs, EndsAfter

LEMMA ReaderStart == FileInit => ReaderInv
  BY DEF FileInit, ReaderInv

LEMMA ReaderKeeps == ASSUME ReaderInv, ReaderStep PROVE ReaderInv'
<1> DEFINE w == Written(content)
           n == Len(w)
           k == Len(read)
<1>1. content \in Contents /\ content' = content
  BY DEF ReaderInv, ReaderStep, OpenFile, NextRecordRead, DataRead
<1>2. /\ n \in Nat /\ n = Len(Records(content)) /\ w = [i \in 1..n |-> w[i]]
      /\ DataOffset = Begin(0) /\ DataEnd = Begin(n) /\ n \in 0..n
      /\ \A j \in 0..n : /\ Begin(j) \in Nat
                        /\ (j < n => Begin(j) < Begin(n))
  <2>1. EndsAfter(n)
    BY <1>1, Ends
  <2> HIDE DEF n
  <2> QED
    BY <2>1 DEF EndsAfter
<1>3. w' = w /\ \A j : Begin(j)' = Begin(j)
  BY <1>1 DEF Begin
<1>4. CASE OpenFile
  <2>1. read = <<>> /\ read' = read /\ pos' = Begin(0) /\ reading' = "records"
    BY <1>2, <1>4 DEF OpenFile, ReaderInv
  <2>2. Len(read) = 0 /\ read = [i \in 1..0 |-> w[i]]
    BY <2>1
  <2> HIDE DEF w
  <2> QED
    BY <1>1, <1>2, <1>3, <2>1, <2>2 DEF ReaderInv, w
<1>5. CASE NextRecordRead
  <2>1. k \in 0..n /\ read = [i \in 1..k |-> w[i]] /\ pos = Begin(k) /\ reading = "records"
    BY <1>5 DEF NextRecordRead, ReaderInv
  <2>2. k < n
    <3>1. Begin(k) < Begin(n) /\ Begin(n) \in Nat
      BY <1>2, <1>5, <2>1 DEF NextRecordRead
    <3>2. k # n
      BY <3>1
    <3> HIDE DEF k, n, w
    <3> QED
      BY <1>2, <2>1, <3>2
  <2>3. k + 1 \in 1..n /\ (k + 1) - 1 = k
    BY <1>2, <2>1, <2>2
  <2>4. ReadRecord(pos) = w[k + 1]
    <3> DEFINE j == k + 1
    <3>1. j \in 1..Len(Records(content)) /\ pos = Begin(j - 1)
      BY <1>2, <2>1, <2>3
    <3> HIDE DEF j, k
    <3> QED
      BY <1>1, <3>1, RecordRead DEF j
  <2>5. pos' = Begin(k + 1)
    <3> DEFINE j == k + 1
    <3>1. j \in 1..Len(Records(content)) /\ pos = Begin(j - 1)
      BY <1>2, <2>1, <2>3
    <3> HIDE DEF j, k, w
    <3>2. Get(pos + 6, 2) # Garbage /\ pos + Get(pos + 6, 2) = Begin(j)
      BY <1>1, <3>1, SizeRead
    <3> QED
      BY <1>5, <3>2 DEF NextRecordRead, j
  <2> HIDE DEF w
  <2>6. read' = [i \in 1..k + 1 |-> w[i]] /\ Len(read') = k + 1
    <3>1. read' = Append(read, w[k + 1])
      BY <1>5, <2>4 DEF NextRecordRead
    <3> HIDE DEF n, k
    <3> QED
      BY <1>2, <2>1, <2>2, <3>1, PrefixIs
  <2>7. reading' = "records" /\ k + 1 \in 0..n
    BY <1>2, <1>5, <2>1, <2>3 DEF NextRecordRead
  <2> HIDE DEF k
  <2> QED
    BY <1>1, <1>3, <2>5, <2>6, <2>7 DEF ReaderInv, w
<1>6. CASE DataRead
  <2>1. k \in 0..n /\ pos = Begin(k) /\ pos >= Begin(n) /\ reading' = "end" /\ UNCHANGED <<pos, read>>
    BY <1>2, <1>6 DEF DataRead, ReaderInv
  <2>2. k = n
    <3> HIDE DEF k, n
    <3>1. Begin(k) \in Nat /\ Begin(n) \in Nat /\ ~ (Begin(k) < Begin(n))
      BY <1>2, <2>1
    <3>2. ~ (k < n)
      BY <1>2, <2>1, <3>1
    <3> QED
      BY <1>2, <2>1, <3>2
  <2>3. read = [i \in 1..k |-> w[i]]
    BY <1>6 DEF DataRead, ReaderInv
  <2> HIDE DEF w
  <2> QED
    BY <1>1, <1>3, <2>1, <2>2, <2>3 DEF ReaderInv, w
<1> QED
  BY <1>4, <1>5, <1>6 DEF ReaderStep

LEMMA ReaderUnchanged == ASSUME ReaderInv, UNCHANGED fileVars PROVE ReaderInv'
  BY DEF ReaderInv, fileVars, Begin

\* The properties of the reader follow.
LEMMA ReaderReads ==
  ASSUME ReaderInv
  PROVE  ReadsWhatWasWritten /\ RecordsAligned /\ (reading # "idle" => pos \in 0..DataEnd)
<1> DEFINE w == Written(content)
           n == Len(w)
           k == Len(read)
<1>1. content \in Contents
  BY DEF ReaderInv
<1>2. /\ n \in Nat /\ w = [i \in 1..n |-> w[i]] /\ DataEnd = Begin(n)
      /\ \A j \in 0..n : Begin(j) \in Nat /\ Begin(j) % 8 = 0 /\ Begin(j) <= Begin(n)
  <2>1. EndsAfter(n)
    BY <1>1, Ends
  <2> HIDE DEF n
  <2> QED
    BY <2>1 DEF EndsAfter
<1>3. k \in 0..n /\ read = [i \in 1..k |-> w[i]]
  <2>1. CASE reading = "idle"
    <3>1. read = <<>>
      BY <2>1 DEF ReaderInv
    <3>2. k = 0 /\ read = [i \in 1..0 |-> w[i]]
      BY <3>1
    <3> QED
      BY <1>2, <3>2
  <2>2. CASE reading # "idle"
    BY <2>2 DEF ReaderInv
  <2> QED
    BY <2>1, <2>2
<1>4. IsPrefix(read, w)
  <2> HIDE DEF w, n, k
  <2> QED
    BY <1>2, <1>3, PrefixIs
<1>5. reading # "idle" => pos = Begin(k)
  BY DEF ReaderInv
<1>6. reading = "end" => k = n /\ pos = DataEnd
  BY <1>2, <1>5 DEF ReaderInv
<1>7. ReadsWhatWasWritten
  BY <1>4, <1>6 DEF ReadsWhatWasWritten
<1>8. RecordsAligned
  BY <1>2, <1>3, <1>5 DEF RecordsAligned
<1>9. reading # "idle" => pos \in 0..DataEnd
  <2> SUFFICES ASSUME reading # "idle" PROVE pos \in 0..DataEnd
    OBVIOUS
  <2> HIDE DEF w, n, k
  <2>1. pos = Begin(k) /\ Begin(k) \in Nat /\ Begin(k) <= Begin(n) /\ Begin(n) \in Nat
    BY <1>2, <1>3, <1>5
  <2> QED
    BY <1>2, <2>1
<1> QED
  BY <1>7, <1>8, <1>9

=============================================================================
