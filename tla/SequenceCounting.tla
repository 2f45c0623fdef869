-------------------------- MODULE SequenceCounting --------------------------
(***************************************************************************)
(* How many elements of a queue are of some kind, and how the queue         *)
(* operations change that number.  The accounting of the admission channels *)
(* and of the results of an offline run, and the audit of an incident, rest  *)
(* on these facts.  At the end, what appending and taking do to any queue,   *)
(* and the greater and the lesser of two numbers.                           *)
(***************************************************************************)
EXTENDS Integers, Sequences, FiniteSets, SequencesExt, FiniteSetTheorems, SequenceTheorems, TLAPS

\* The places of the elements that are in `kind', and how many there are.
Places(q, kind)  == {i \in DOMAIN q : q[i] \in kind}
CountIn(q, kind) == Cardinality(Places(q, kind))

\* A count is a number between 0 and the length.
LEMMA CountType ==
    ASSUME NEW T, NEW q \in Seq(T), NEW kind
    PROVE  /\ IsFiniteSet(Places(q, kind))
           /\ CountIn(q, kind) \in Nat
           /\ CountIn(q, kind) <= Len(q)
<1>0. 1 \in Int /\ Len(q) \in Int /\ Len(q) >= 0
    BY LenProperties
<1>1. IsFiniteSet(1..Len(q)) /\ Cardinality(1..Len(q)) = Len(q)
    BY <1>0, FS_Interval
<1>2. Places(q, kind) \in SUBSET (1..Len(q))
    BY DEF Places
<1> QED BY <1>1, <1>2, FS_Subset, FS_CardinalityType DEF CountIn

LEMMA CountEmpty == \A kind : CountIn(<<>>, kind) = 0
<1> SUFFICES ASSUME NEW kind PROVE CountIn(<<>>, kind) = 0
    OBVIOUS
<1>1. Places(<<>>, kind) = {}
    BY DEF Places
<1> QED BY <1>1, FS_EmptySet DEF CountIn

\* Nothing is counted exactly when no element is of the kind.
LEMMA CountZero ==
    ASSUME NEW T, NEW q \in Seq(T), NEW kind
    PROVE  CountIn(q, kind) = 0 <=> \A i \in 1..Len(q) : q[i] \notin kind
<1>1. CountIn(q, kind) = 0 <=> Places(q, kind) = {}
    BY CountType, FS_EmptySet DEF CountIn
<1> QED BY <1>1 DEF Places

LEMMA CountAppend ==
    ASSUME NEW T, NEW q \in Seq(T), NEW x \in T, NEW kind
    PROVE  CountIn(Append(q, x), kind) = CountIn(q, kind) + (IF x \in kind THEN 1 ELSE 0)
<1> DEFINE num == Len(q) + 1
<1>1. /\ DOMAIN Append(q, x) = 1..num /\ DOMAIN q = 1..Len(q) /\ num \in Nat
      /\ \A i \in 1..Len(q) : Append(q, x)[i] = q[i]
      /\ Append(q, x)[num] = x
    BY AppendProperties
<1>2. IsFiniteSet(Places(q, kind)) /\ CountIn(q, kind) \in Nat
    BY CountType
<1>5. num \notin Places(q, kind)
    BY <1>1 DEF Places
<1>3. CASE x \in kind
  <2>1. Places(Append(q, x), kind) = Places(q, kind) \cup {num}
      BY <1>1, <1>3 DEF Places
  <2> QED BY <2>1, <1>2, <1>5, <1>3, FS_AddElement DEF CountIn
<1>4. CASE x \notin kind
  <2>1. Places(Append(q, x), kind) = Places(q, kind)
      BY <1>1, <1>4 DEF Places
  <2> QED BY <2>1, <1>2, <1>4 DEF CountIn
<1> QED BY <1>3, <1>4

\* Taking the head off moves every other place down by one.
LEMMA CountTail ==
    ASSUME NEW T, NEW q \in Seq(T), q # <<>>, NEW kind
    PROVE  CountIn(q, kind) = CountIn(Tail(q), kind) + (IF Head(q) \in kind THEN 1 ELSE 0)
<1> DEFINE P == Places(Tail(q), kind)
           U == Places(q, kind) \ {1}
           f == [i \in P |-> i + 1]
<1>1. /\ DOMAIN q = 1..Len(q) /\ DOMAIN Tail(q) = 1..(Len(q) - 1) /\ Len(q) \in Nat \ {0}
      /\ Tail(q) \in Seq(T) /\ q[1] = Head(q)
      /\ \A i \in 1..(Len(q) - 1) : Tail(q)[i] = q[i + 1]
    BY HeadTailProperties, LenProperties, EmptySeq
<1>2. \A i \in P : i \in Nat /\ i + 1 \in U
    BY <1>1 DEF Places
<1>3. \A j \in U : j \in Nat /\ j - 1 \in P /\ (j - 1) + 1 = j
    BY <1>1 DEF Places
<1>4. f \in Bijection(P, U)
  <2>1. f \in [P -> U] /\ \A i \in P : f[i] = i + 1
      BY <1>2
  <2>2. \A i, j \in P : f[i] = f[j] => i = j
      BY <1>2, <2>1
  <2>3. \A j \in U : \E i \in P : f[i] = j
      BY <1>3, <2>1
  <2> HIDE DEF f, P, U
  <2> QED BY <2>1, <2>2, <2>3 DEF Bijection, Injection, Surjection, IsInjective
<1>5. IsFiniteSet(P) /\ IsFiniteSet(Places(q, kind)) /\ CountIn(q, kind) \in Nat /\ CountIn(Tail(q), kind) \in Nat
    BY <1>1, CountType
<1>6. Cardinality(U) = Cardinality(P)
    BY <1>4, <1>5, FS_Bijection DEF ExistsBijection
<1>7. 1 \in Places(q, kind) <=> Head(q) \in kind
    BY <1>1 DEF Places
<1>8. Cardinality(U) = IF 1 \in Places(q, kind) THEN CountIn(q, kind) - 1 ELSE CountIn(q, kind)
    BY <1>5, FS_RemoveElement DEF CountIn
<1> QED BY <1>5, <1>6, <1>7, <1>8 DEF CountIn

\* Several copies of one element are appended at once.
LEMMA CountCopies ==
    ASSUME NEW T, NEW q \in Seq(T), NEW x \in T, NEW num \in Nat, NEW kind
    PROVE  CountIn(q \o [i \in 1..num |-> x], kind) = CountIn(q, kind) + (IF x \in kind THEN num ELSE 0)
<1> DEFINE t == [i \in 1..num |-> x]
           m == Len(q)
<1>1. t \in Seq(T) /\ Len(t) = num /\ m \in Nat
    BY IsASeq
<1>2. /\ Len(q \o t) = m + num /\ q \o t \in Seq(T)
      /\ \A i \in 1..(m + num) : (q \o t)[i] = IF i <= m THEN q[i] ELSE t[i - m]
    BY <1>1, ConcatProperties
<1>9. \A i \in 1..(m + num) : (q \o t)[i] = IF i <= m THEN q[i] ELSE x
    BY <1>1, <1>2
<1>10. DOMAIN (q \o t) = 1..(m + num)
    BY <1>2
<1> HIDE DEF t
<1>3. IsFiniteSet(Places(q, kind)) /\ CountIn(q, kind) \in Nat /\ CountIn(q \o t, kind) \in Nat
    BY <1>2, CountType
<1>4. CASE x \in kind
  <2>1. Places(q \o t, kind) = Places(q, kind) \cup ((m + 1)..(m + num))
      BY <1>1, <1>9, <1>10, <1>4 DEF Places
  <2>2. Places(q, kind) \cap ((m + 1)..(m + num)) = {}
      BY <1>1 DEF Places
  <2>3. IsFiniteSet((m + 1)..(m + num)) /\ Cardinality((m + 1)..(m + num)) = num
    <3>1. m + 1 \in Int /\ m + num \in Int /\ num >= 0
        BY <1>1
    <3>2. \A a, b \in Int : IsFiniteSet(a..b) /\ Cardinality(a..b) = IF a > b THEN 0 ELSE b - a + 1
        BY FS_Interval
    <3>3. /\ IsFiniteSet((m + 1)..(m + num))
          /\ Cardinality((m + 1)..(m + num)) = IF m + 1 > m + num THEN 0 ELSE (m + num) - (m + 1) + 1
        BY <3>1, <3>2
    <3> QED BY <1>1, <3>1, <3>3
  <2> DEFINE A == Places(q, kind)
             B == (m + 1)..(m + num)
  <2>4. Cardinality(A \cup B) = Cardinality(A) + num
    <3>1. IsFiniteSet(A) /\ IsFiniteSet(B) /\ A \cap B = {} /\ Cardinality(B) = num
        BY <1>3, <2>2, <2>3
    <3> HIDE DEF A, B
    <3>2. Cardinality(A \cup B) = Cardinality(A) + Cardinality(B) - Cardinality({})
        BY <3>1, FS_Union
    <3> QED BY <3>1, <3>2, FS_EmptySet, FS_CardinalityType
  <2> QED BY <2>1, <2>4, <1>4 DEF CountIn, t
<1>5. CASE x \notin kind
  <2>1. Places(q \o t, kind) = Places(q, kind)
      BY <1>1, <1>9, <1>10, <1>5 DEF Places
  <2> QED BY <2>1, <1>3, <1>5 DEF CountIn, t
<1> QED BY <1>4, <1>5

\* A queue that is appended to another.
LEMMA CountConcat ==
    ASSUME NEW T, NEW q \in Seq(T), NEW t \in Seq(T), NEW kind
    PROVE  CountIn(q \o t, kind) = CountIn(q, kind) + CountIn(t, kind)
<1> DEFINE m == Len(q)
           P == Places(t, kind)
           U == {m + k : k \in P}
           A == Places(q, kind)
           f == [k \in P |-> m + k]
<1>1. /\ DOMAIN q = 1..m /\ DOMAIN t = 1..Len(t) /\ m \in Nat /\ Len(t) \in Nat
      /\ q \o t \in Seq(T) /\ DOMAIN (q \o t) = 1..(m + Len(t))
      /\ \A i \in 1..(m + Len(t)) : (q \o t)[i] = IF i <= m THEN q[i] ELSE t[i - m]
    BY LenProperties, ConcatProperties
<1>2. \A k \in P : k \in 1..Len(t)
    BY <1>1 DEF Places
<1>3. \A k \in P : k \in Nat /\ m + k \in U
    BY <1>1, <1>2
<1>4. f \in Bijection(P, U)
  <2>1. f \in [P -> U] /\ \A k \in P : f[k] = m + k
      BY <1>3
  <2>2. \A i, j \in P : f[i] = f[j] => i = j
      BY <1>1, <1>3, <2>1
  <2>3. \A j \in U : \E i \in P : f[i] = j
      BY <2>1
  <2> HIDE DEF f, P, U
  <2> QED BY <2>1, <2>2, <2>3 DEF Bijection, Injection, Surjection, IsInjective
<1>5. IsFiniteSet(P) /\ IsFiniteSet(A) /\ CountIn(q, kind) \in Nat /\ CountIn(t, kind) \in Nat
    BY CountType
<1>6. IsFiniteSet(U) /\ Cardinality(U) = Cardinality(P)
    BY <1>4, <1>5, FS_Bijection DEF ExistsBijection
<1>7. \A i \in A : i \in 1..m
    BY <1>1 DEF Places
<1>8. A \cap U = {}
    BY <1>1, <1>2, <1>7
<1>9. Places(q \o t, kind) = A \cup U
  <2>1. \A i \in 1..(m + Len(t)) : i \in 1..m \/ (i - m \in 1..Len(t) /\ ~(i <= m) /\ m + (i - m) = i)
      BY <1>1
  <2>2. \A i \in 1..m : i \in 1..(m + Len(t)) /\ i <= m
      BY <1>1
  <2>3. \A k \in 1..Len(t) : m + k \in 1..(m + Len(t)) /\ ~(m + k <= m) /\ (m + k) - m = k
      BY <1>1
  <2>4. ASSUME NEW i \in Places(q \o t, kind) PROVE i \in A \cup U
    <3>1. i \in 1..(m + Len(t)) /\ (q \o t)[i] \in kind
        BY <1>1 DEF Places
    <3>2. CASE i \in 1..m
        BY <1>1, <2>2, <3>1, <3>2 DEF Places
    <3>3. CASE i - m \in 1..Len(t) /\ ~(i <= m) /\ m + (i - m) = i
      <4>1. i - m \in P
          BY <1>1, <3>1, <3>3 DEF Places
      <4> QED BY <3>3, <4>1
    <3> QED BY <2>1, <3>1, <3>2, <3>3
  <2>5. ASSUME NEW i \in A PROVE i \in Places(q \o t, kind)
      BY <1>1, <1>7, <2>2 DEF Places
  <2>6. ASSUME NEW k \in P PROVE m + k \in Places(q \o t, kind)
    <3>1. t[k] \in kind /\ k \in 1..Len(t)
        BY <1>2 DEF Places
    <3> QED BY <1>1, <2>3, <3>1 DEF Places
  <2> QED BY <2>4, <2>5, <2>6
<1>10. Cardinality(A \cup U) = Cardinality(A) + Cardinality(U) - Cardinality({})
  <2> HIDE DEF A, U
  <2> QED BY <1>5, <1>6, <1>8, FS_Union
<1>11. Cardinality(A) = CountIn(q, kind) /\ Cardinality(P) = CountIn(t, kind) /\ CountIn(q \o t, kind) = Cardinality(A \cup U)
    BY <1>9 DEF CountIn
<1> HIDE DEF A, U, P
<1> QED BY <1>5, <1>6, <1>10, <1>11, FS_EmptySet

\* The elements of a set, one after the other.
LEMMA SetSeqIs ==
    ASSUME NEW E, IsFiniteSet(E)
    PROVE  /\ SetToSeq(E) \in Seq(E)
           /\ Len(SetToSeq(E)) = Cardinality(E)
           /\ SetToSeq(E) \in Bijection(1..Cardinality(E), E)
<1> DEFINE num == Cardinality(E)
           t == SetToSeq(E)
<1>1. num \in Nat /\ ExistsBijection(1..num, E)
    BY FS_CardinalityType
<1>2. PICK f \in [1..num -> E] : IsInjective(f)
    BY <1>1 DEF ExistsBijection, Bijection, Injection
<1>3. t \in [1..num -> E] /\ IsInjective(t)
    BY <1>2 DEF SetToSeq
<1> HIDE DEF t
<1>4. t \in Seq(E) /\ Len(t) = num
  <2> HIDE DEF num
  <2> QED BY <1>1, <1>3
<1>5. t \in Injection(1..num, E)
    BY <1>3 DEF Injection
<1>6. IsFiniteSet(1..num) /\ Cardinality(1..num) = num
  <2>1. 1 \in Int /\ num \in Int /\ num >= 0
      BY <1>1
  <2> QED BY <2>1, FS_Interval
<1>7. t \in Surjection(1..num, E)
    BY <1>5, <1>6, FS_Injection
<1> QED BY <1>4, <1>5, <1>7 DEF Bijection, t

LEMMA CountSetSeq ==
    ASSUME NEW E, IsFiniteSet(E), NEW kind
    PROVE  CountIn(SetToSeq(E), kind) = Cardinality(E \cap kind)
<1> DEFINE t == SetToSeq(E)
           P == Places(t, kind)
           g == [k \in P |-> t[k]]
<1>1. t \in Seq(E) /\ DOMAIN t = 1..Len(t) /\ t \in Bijection(1..Len(t), E)
    BY SetSeqIs, LenProperties
<1> HIDE DEF t
<1>2. g \in Bijection(P, E \cap kind)
  <2>1. P \subseteq 1..Len(t) /\ \A k \in P : t[k] \in E \cap kind
      BY <1>1 DEF Places, Bijection, Injection
  <2>2. g \in [P -> E \cap kind] /\ \A k \in P : g[k] = t[k]
      BY <2>1
  <2>3. \A i, j \in P : g[i] = g[j] => i = j
      BY <1>1, <2>1, <2>2 DEF Bijection, Injection, IsInjective
  <2>4. \A e \in E \cap kind : \E k \in P : g[k] = e
      BY <1>1, <2>2 DEF Bijection, Surjection, Places
  <2> HIDE DEF g, P
  <2> QED BY <2>2, <2>3, <2>4 DEF Bijection, Injection, Surjection, IsInjective
<1>3. IsFiniteSet(P)
    BY <1>1, CountType
<1> QED BY <1>2, <1>3, FS_Bijection DEF ExistsBijection, CountIn, t

\* A sequence, of whatever it holds: what the queue operations do when nothing is
\* said of the elements.
Sequential(s) == \E S : s \in Seq(S)

LEMMA AppendGrows ==
    ASSUME NEW s, Sequential(s), NEW e
    PROVE  /\ Sequential(Append(s, e))
           /\ Len(s) \in Nat /\ Len(Append(s, e)) = Len(s) + 1
           /\ DOMAIN s = 1 .. Len(s) /\ DOMAIN Append(s, e) = 1 .. Len(s) + 1
           /\ \A i \in 1 .. Len(s) : Append(s, e)[i] = s[i]
           /\ Append(s, e)[Len(s) + 1] = e
<1>1. PICK S : s \in Seq(S)
    BY DEF Sequential
<1>2. s \in Seq(S \cup {e}) /\ e \in S \cup {e}
    BY <1>1, SeqMonotonic
<1>3. /\ Append(s, e) \in Seq(S \cup {e})
      /\ Len(Append(s, e)) = Len(s) + 1
      /\ \A i \in 1 .. Len(s) : Append(s, e)[i] = s[i]
      /\ Append(s, e)[Len(s) + 1] = e
    BY <1>2, AppendProperties
<1>4. /\ Len(s) \in Nat /\ DOMAIN s = 1 .. Len(s) /\ DOMAIN Append(s, e) = 1 .. Len(s) + 1
    BY <1>2, <1>3, LenProperties
<1> QED BY <1>3, <1>4 DEF Sequential

LEMMA TailShifts ==
    ASSUME NEW s, Sequential(s), s # <<>>
    PROVE  /\ Sequential(Tail(s)) /\ Len(s) \in Nat \ {0} /\ Len(Tail(s)) = Len(s) - 1 /\ Head(s) = s[1]
           /\ \A i \in 1 .. Len(s) - 1 : Tail(s)[i] = s[i + 1]
<1>1. PICK S : s \in Seq(S)
    BY DEF Sequential
<1>2. Head(s) = s[1] /\ Tail(s) \in Seq(S) /\ Len(Tail(s)) = Len(s) - 1
      /\ \A i \in 1 .. Len(Tail(s)) : Tail(s)[i] = s[i + 1]
    BY <1>1, HeadTailProperties
<1>3. Len(s) \in Nat \ {0}
    BY <1>1, EmptySeq, LenProperties
<1> QED BY <1>2, <1>3 DEF Sequential

\* The greater and the lesser of two numbers.
LEMMA MaxOfTwo == ASSUME NEW a \in Int, NEW b \in Int
                  PROVE  Max({a, b}) \in {a, b} /\ Max({a, b}) >= a /\ Max({a, b}) >= b
<1>1. \E m \in {a, b} : \A k \in {a, b} : m >= k
    OBVIOUS
<1> QED BY <1>1 DEF Max

LEMMA MinOfTwo == ASSUME NEW a \in Int, NEW b \in Int
                  PROVE  Min({a, b}) \in {a, b} /\ Min({a, b}) <= a /\ Min({a, b}) <= b
<1>1. \E m \in {a, b} : \A k \in {a, b} : m =< k
    OBVIOUS
<1> QED BY <1>1 DEF Min
=============================================================================
