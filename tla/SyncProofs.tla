----------------------------- MODULE SyncProofs -----------------------------
(***************************************************************************)
(* The invariants of Cond: what the variables hold, that the two lists are *)
(* the threads that wait and the waits that timed out, and how deep the    *)
(* mutex is.  Lists first: what the steps of the condition variable do to  *)
(* the elements of a list, and to how often an id is in it.                *)
(* Then those of WaitObjects, the event flag and the semaphore, of         *)
(* ConcurrentQueue, for any threads, priorities, events and capacity, and  *)
(* of ThreadLife.                                                          *)
(***************************************************************************)
EXTENDS Cond, WaitObjects, ConcurrentQueue, ThreadLife, FiniteSetTheorems, WellFoundedInduction, TLAPS

\* An id is in a list at one place.
once(list, t) == \E i \in 1 .. Len(list) : \A j \in 1 .. Len(list) : list[j] = t <=> j = i

\* A set of natural numbers has a least element.
LEMMA NatMin == ASSUME NEW T, T \subseteq Nat, T # {} PROVE \E x \in T : \A y \in T : x <= y
<1> DEFINE R == OpToRel(<, Nat)
<1>1. IsWellFoundedOn(R, Nat)
  BY NatLessThanWellFounded
<1>2. \A x, y \in Nat : <<y, x>> \in R <=> y < x
  BY DEF OpToRel
<1> HIDE DEF R
<1>3. PICK x \in T : \A y \in T : ~(<<y, x>> \in R)
  BY <1>1, WFMin
<1>4. ASSUME NEW y \in T PROVE x <= y
  <2>1. x \in Nat /\ y \in Nat
    OBVIOUS
  <2>2. ~(y < x)
    BY <1>2, <1>3, <2>1
  <2> QED BY <2>1, <2>2
<1> QED BY <1>4


\* What is at each place of two lists, one after the other.
LEMMA ConcatIs ==
  ASSUME NEW S, NEW a \in Seq(S), NEW b \in Seq(S)
  PROVE  /\ a \o b \in Seq(S) /\ Len(a \o b) = Len(a) + Len(b)
         /\ \A i \in 1 .. Len(a) + Len(b) : (a \o b)[i] = IF i <= Len(a) THEN a[i] ELSE b[i - Len(a)]
OBVIOUS

\* What is at each place of a list without one of its elements.
LEMMA RemoveAtShifts ==
  ASSUME NEW S, NEW s \in Seq(S), NEW k \in 1 .. Len(s)
  PROVE  /\ RemoveAt(s, k) \in Seq(S) /\ Len(RemoveAt(s, k)) = Len(s) - 1
         /\ \A i \in 1 .. Len(s) - 1 : RemoveAt(s, k)[i] = IF i < k THEN s[i] ELSE s[i + 1]
<1> DEFINE a == SubSeq(s, 1, k - 1)
           b == SubSeq(s, k + 1, Len(s))
<1>1. /\ a \in Seq(S) /\ Len(a) = k - 1
      /\ \A i \in 1 .. k - 1 : a[i] = s[i]
  OBVIOUS
<1>2. /\ b \in Seq(S) /\ Len(b) = Len(s) - k
      /\ \A i \in 1 .. Len(s) - k : b[i] = s[k + i]
  OBVIOUS
<1>3. Len(s) \in Nat /\ k \in Nat /\ RemoveAt(s, k) = a \o b
  BY DEF RemoveAt
<1> HIDE DEF a, b
<1>4. /\ a \o b \in Seq(S) /\ Len(a \o b) = Len(a) + Len(b)
      /\ \A i \in 1 .. Len(a) + Len(b) : (a \o b)[i] = IF i <= Len(a) THEN a[i] ELSE b[i - Len(a)]
  BY <1>1, <1>2, ConcatIs
<1>6. Len(a) = k - 1 /\ Len(a) + Len(b) = Len(s) - 1
  BY <1>1, <1>2, <1>3
<1>5. ASSUME NEW i \in 1 .. Len(s) - 1
      PROVE  (a \o b)[i] = IF i < k THEN s[i] ELSE s[i + 1]
  <2>1. CASE i < k
    BY <1>1, <1>3, <1>4, <1>6, <2>1
  <2>2. CASE ~(i < k)
    <3>1. i - (k - 1) \in 1 .. Len(s) - k /\ k + (i - (k - 1)) = i + 1
      BY <1>3, <2>2
    <3>2. (a \o b)[i] = b[i - (k - 1)]
      BY <1>3, <1>4, <1>6, <2>2
    <3> QED BY <1>2, <2>2, <3>1, <3>2
  <2> QED BY <2>1, <2>2
<1> QED BY <1>3, <1>4, <1>5, <1>6

\* What is at each place of a list without the first e.
LEMMA RemoveFirstRemoves ==
  ASSUME NEW S, NEW s \in Seq(S), NEW e, Contains(s, e)
  PROVE  \E k \in 1 .. Len(s) : s[k] = e /\ RemoveFirst(s, e) = RemoveAt(s, k)
<1> DEFINE I == {i \in 1 .. Len(s) : s[i] = e}
<1>1. I \subseteq Nat /\ I # {}
  BY DEF Contains
<1>2. \E x \in I : \A y \in I : x <= y
  <2> HIDE DEF I
  <2> QED BY <1>1, NatMin
<1>3. Min(I) \in I
  BY <1>2 DEF Min
<1>4. SelectInSeq(s, LAMBDA v : v = e) = Min(I)
  BY <1>1 DEF SelectInSeq
<1>5. RemoveFirst(s, e) = RemoveAt(s, Min(I))
  BY <1>4 DEF RemoveFirst, Contains
<1> QED BY <1>3, <1>5

\* What RemoveFirst does to the elements of a list: it takes one e out and keeps the others.
LEMMA RemoveFirstKeeps ==
  ASSUME NEW S, NEW s \in Seq(S), NEW e, Contains(s, e)
  PROVE  /\ RemoveFirst(s, e) \in Seq(S)
         /\ \A t : t # e => (Contains(RemoveFirst(s, e), t) <=> Contains(s, t))
         /\ \A t : t # e /\ once(s, t) => once(RemoveFirst(s, e), t)
         /\ once(s, e) => ~Contains(RemoveFirst(s, e), e)
<1>1. PICK k \in 1 .. Len(s) : s[k] = e /\ RemoveFirst(s, e) = RemoveAt(s, k)
  BY RemoveFirstRemoves
<1> DEFINE r == RemoveFirst(s, e)
<1>2. /\ r \in Seq(S) /\ Len(r) = Len(s) - 1
      /\ \A i \in 1 .. Len(s) - 1 : r[i] = IF i < k THEN s[i] ELSE s[i + 1]
  BY <1>1, RemoveAtShifts
<1>3. Len(s) \in Nat
  OBVIOUS
<1> HIDE DEF r
<1>4. \A i \in 1 .. Len(s) : i < k => i \in 1 .. Len(r) /\ r[i] = s[i]
  BY <1>2, <1>3
<1>5. \A i \in 1 .. Len(s) : i > k => i - 1 \in 1 .. Len(r) /\ r[i - 1] = s[i]
  BY <1>2, <1>3
<1>6. \A i \in 1 .. Len(r) : \/ i < k /\ i \in 1 .. Len(s) /\ r[i] = s[i]
                             \/ i >= k /\ i + 1 \in 1 .. Len(s) /\ r[i] = s[i + 1]
  BY <1>2, <1>3
<1>7. ASSUME NEW t, t # e PROVE Contains(r, t) <=> Contains(s, t)
  <2>1. ASSUME Contains(s, t) PROVE Contains(r, t)
    <3>1. PICK i \in 1 .. Len(s) : s[i] = t
      BY <2>1 DEF Contains
    <3>2. i < k \/ i > k
      BY <1>1, <1>7, <3>1
    <3> QED BY <1>4, <1>5, <3>1, <3>2 DEF Contains
  <2>2. ASSUME Contains(r, t) PROVE Contains(s, t)
    BY <1>6, <2>2 DEF Contains
  <2> QED BY <2>1, <2>2
<1>8. ASSUME NEW t, t # e, once(s, t) PROVE once(r, t)
  <2>1. PICK i \in 1 .. Len(s) : \A j \in 1 .. Len(s) : s[j] = t <=> j = i
    BY <1>8 DEF once
  <2>2. i # k
    BY <1>1, <1>8, <2>1
  <2>3. CASE i < k
    <3>1. i \in 1 .. Len(r) /\ r[i] = t
      BY <1>4, <2>1, <2>3
    <3>2. ASSUME NEW j \in 1 .. Len(r), r[j] = t PROVE j = i
      <4>1. CASE j < k
        BY <1>6, <2>1, <3>2, <4>1
      <4>2. CASE j >= k
        <5>1. j + 1 \in 1 .. Len(s) /\ s[j + 1] = t
          BY <1>6, <3>2, <4>2
        <5>2. j + 1 = i
          BY <2>1, <5>1
        <5> QED BY <2>3, <4>2, <5>2
      <4> QED BY <4>1, <4>2
    <3> QED BY <3>1, <3>2 DEF once
  <2>4. CASE i > k
    <3>1. i - 1 \in 1 .. Len(r) /\ r[i - 1] = t
      BY <1>5, <2>1, <2>4
    <3>2. ASSUME NEW j \in 1 .. Len(r), r[j] = t PROVE j = i - 1
      <4>1. CASE j < k
        <5>1. j = i
          BY <1>6, <2>1, <3>2, <4>1
        <5> QED BY <2>4, <4>1, <5>1
      <4>2. CASE j >= k
        <5>1. j + 1 \in 1 .. Len(s) /\ s[j + 1] = t
          BY <1>6, <3>2, <4>2
        <5>2. j + 1 = i
          BY <2>1, <5>1
        <5> QED BY <5>2
      <4> QED BY <4>1, <4>2
    <3> QED BY <3>1, <3>2 DEF once
  <2> QED BY <2>2, <2>3, <2>4
<1>9. ASSUME once(s, e), NEW i \in 1 .. Len(r), r[i] = e PROVE FALSE
  <2>1. \A j \in 1 .. Len(s) : s[j] = e <=> j = k
    BY <1>1, <1>9 DEF once
  <2>2. CASE i < k
    BY <1>6, <1>9, <2>1, <2>2
  <2>3. CASE i >= k
    <3>1. i + 1 \in 1 .. Len(s) /\ s[i + 1] = e
      BY <1>6, <1>9, <2>3
    <3>2. i + 1 = k
      BY <2>1, <3>1
    <3> QED BY <2>3, <3>2
  <2> QED BY <2>2, <2>3
<1> QED BY <1>2, <1>7, <1>8, <1>9 DEF Contains, r

\* What is at each place of a list without its first element.
LEMMA TailIs ==
  ASSUME NEW S, NEW s \in Seq(S), s # << >>
  PROVE  /\ Len(s) \in Nat /\ Len(s) >= 1 /\ Head(s) = s[1] /\ Tail(s) \in Seq(S)
         /\ Len(Tail(s)) = Len(s) - 1
         /\ \A i \in 1 .. Len(s) - 1 : Tail(s)[i] = s[i + 1]
OBVIOUS

\* What a signal does with the first of the waiters.
LEMMA TailKeeps ==
  ASSUME NEW S, NEW s \in Seq(S), s # << >>
  PROVE  /\ Head(s) \in S /\ Contains(s, Head(s)) /\ Tail(s) \in Seq(S)
         /\ \A t : t # Head(s) => (Contains(Tail(s), t) <=> Contains(s, t))
         /\ \A t : t # Head(s) /\ once(s, t) => once(Tail(s), t)
         /\ once(s, Head(s)) => ~Contains(Tail(s), Head(s))
<1>1. /\ Len(s) \in Nat /\ Len(s) >= 1 /\ Head(s) = s[1] /\ Tail(s) \in Seq(S)
      /\ Len(Tail(s)) = Len(s) - 1
      /\ \A i \in 1 .. Len(s) - 1 : Tail(s)[i] = s[i + 1]
  BY TailIs
<1> DEFINE r == Tail(s)
<1> HIDE DEF r
<1>2. \A i \in 1 .. Len(r) : i + 1 \in 1 .. Len(s) /\ r[i] = s[i + 1]
  BY <1>1 DEF r
<1>3. \A i \in 1 .. Len(s) : i # 1 => i - 1 \in 1 .. Len(r) /\ r[i - 1] = s[i]
  BY <1>1 DEF r
<1>4. Contains(s, Head(s))
  BY <1>1 DEF Contains
<1>5. ASSUME NEW t, t # Head(s) PROVE Contains(r, t) <=> Contains(s, t)
  BY <1>1, <1>2, <1>3, <1>5 DEF Contains
<1>6. ASSUME NEW t, t # Head(s), once(s, t) PROVE once(r, t)
  <2>1. PICK i \in 1 .. Len(s) : \A j \in 1 .. Len(s) : s[j] = t <=> j = i
    BY <1>6 DEF once
  <2>2. i # 1
    BY <1>1, <1>6, <2>1
  <2>3. i - 1 \in 1 .. Len(r) /\ r[i - 1] = t
    BY <1>3, <2>1, <2>2
  <2>4. ASSUME NEW j \in 1 .. Len(r), r[j] = t PROVE j = i - 1
    <3>1. j + 1 = i
      BY <1>2, <2>1, <2>4
    <3> QED BY <3>1
  <2> QED BY <2>3, <2>4 DEF once
<1>7. ASSUME once(s, Head(s)), NEW i \in 1 .. Len(r), r[i] = Head(s) PROVE FALSE
  <2>1. \A j \in 1 .. Len(s) : s[j] = Head(s) <=> j = 1
    BY <1>1, <1>7 DEF once
  <2> QED BY <1>2, <1>7, <2>1
<1> QED BY <1>1, <1>4, <1>5, <1>6, <1>7 DEF Contains, r

\* What is in two lists, one after the other.
LEMMA ConcatKeeps ==
  ASSUME NEW S, NEW s \in Seq(S), NEW r \in Seq(S), NEW t
  PROVE  /\ Contains(s \o r, t) <=> Contains(s, t) \/ Contains(r, t)
         /\ once(s, t) /\ ~Contains(r, t) => once(s \o r, t)
         /\ once(r, t) /\ ~Contains(s, t) => once(s \o r, t)
<1> DEFINE c == s \o r
<1>1. /\ Len(s) \in Nat /\ Len(r) \in Nat /\ Len(c) = Len(s) + Len(r)
      /\ \A i \in 1 .. Len(c) : c[i] = IF i <= Len(s) THEN s[i] ELSE r[i - Len(s)]
  OBVIOUS
<1> HIDE DEF c
<1>2. \A i \in 1 .. Len(s) : i \in 1 .. Len(c) /\ c[i] = s[i]
  BY <1>1
<1>3. \A i \in 1 .. Len(r) : i + Len(s) \in 1 .. Len(c) /\ c[i + Len(s)] = r[i]
  BY <1>1
<1>4. \A i \in 1 .. Len(c) : \/ i \in 1 .. Len(s) /\ c[i] = s[i]
                             \/ i - Len(s) \in 1 .. Len(r) /\ c[i] = r[i - Len(s)]
  BY <1>1
<1>5. Contains(c, t) <=> Contains(s, t) \/ Contains(r, t)
  BY <1>2, <1>3, <1>4 DEF Contains
<1>6. ASSUME once(s, t), ~Contains(r, t) PROVE once(c, t)
  <2>1. PICK i \in 1 .. Len(s) : \A j \in 1 .. Len(s) : s[j] = t <=> j = i
    BY <1>6 DEF once
  <2>2. i \in 1 .. Len(c) /\ c[i] = t
    BY <1>2, <2>1
  <2>3. ASSUME NEW j \in 1 .. Len(c), c[j] = t PROVE j = i
    BY <1>4, <1>6, <2>1, <2>3 DEF Contains
  <2> QED BY <2>2, <2>3 DEF once
<1>7. ASSUME once(r, t), ~Contains(s, t) PROVE once(c, t)
  <2>1. PICK i \in 1 .. Len(r) : \A j \in 1 .. Len(r) : r[j] = t <=> j = i
    BY <1>7 DEF once
  <2>2. i + Len(s) \in 1 .. Len(c) /\ c[i + Len(s)] = t
    BY <1>3, <2>1
  <2>3. ASSUME NEW j \in 1 .. Len(c), c[j] = t PROVE j = i + Len(s)
    <3>1. j - Len(s) \in 1 .. Len(r) /\ r[j - Len(s)] = t
      BY <1>4, <1>7, <2>3 DEF Contains
    <3>2. j - Len(s) = i
      BY <2>1, <3>1
    <3>3. j \in Int /\ Len(s) \in Int /\ i \in Int
      BY <1>1
    <3> QED BY <3>2, <3>3
  <2> QED BY <2>2, <2>3 DEF once
<1> QED BY <1>5, <1>6, <1>7 DEF c

\* What push_back does.
LEMMA AppendKeeps ==
  ASSUME NEW S, NEW s \in Seq(S), NEW e \in S
  PROVE  /\ Append(s, e) \in Seq(S) /\ Contains(Append(s, e), e)
         /\ \A t : t # e => (Contains(Append(s, e), t) <=> Contains(s, t))
         /\ \A t : t # e /\ once(s, t) => once(Append(s, e), t)
         /\ ~Contains(s, e) => once(Append(s, e), e)
<1> DEFINE r == Append(s, e)
<1>1. /\ r \in Seq(S) /\ Len(s) \in Nat /\ Len(r) = Len(s) + 1
      /\ r[Len(s) + 1] = e /\ \A i \in 1 .. Len(s) : r[i] = s[i]
  OBVIOUS
<1> HIDE DEF r
<1>2. Len(s) + 1 \in 1 .. Len(r)
  BY <1>1
<1>3. \A i \in 1 .. Len(s) : i \in 1 .. Len(r)
  BY <1>1
<1>4. \A i \in 1 .. Len(r) : i \in 1 .. Len(s) \/ i = Len(s) + 1
  BY <1>1
<1>5. ASSUME NEW t, t # e PROVE Contains(r, t) <=> Contains(s, t)
  BY <1>1, <1>3, <1>4, <1>5 DEF Contains
<1>6. ASSUME NEW t, t # e, once(s, t) PROVE once(r, t)
  <2>1. PICK i \in 1 .. Len(s) : \A j \in 1 .. Len(s) : s[j] = t <=> j = i
    BY <1>6 DEF once
  <2>2. i \in 1 .. Len(r) /\ r[i] = t
    BY <1>1, <1>3, <2>1
  <2>3. ASSUME NEW j \in 1 .. Len(r), r[j] = t PROVE j = i
    BY <1>1, <1>4, <1>6, <2>1, <2>3
  <2> QED BY <2>2, <2>3 DEF once
<1>7. ASSUME ~Contains(s, e) PROVE once(r, e)
  <2>1. ASSUME NEW j \in 1 .. Len(r), r[j] = e PROVE j = Len(s) + 1
    BY <1>1, <1>4, <1>7, <2>1 DEF Contains
  <2> QED BY <1>1, <1>2, <2>1 DEF once
<1> QED BY <1>1, <1>2, <1>5, <1>6, <1>7 DEF Contains, r

\* The places of an id in a list are finitely many.
LEMMA TimesIsNat ==
  ASSUME NEW S, NEW s \in Seq(S), NEW t
  PROVE  IsFiniteSet({i \in 1 .. Len(s) : s[i] = t}) /\ times(s, t) \in Nat
<1>1. IsFiniteSet(1 .. Len(s))
  BY FS_Interval
<1>2. IsFiniteSet({i \in 1 .. Len(s) : s[i] = t})
  BY <1>1, FS_Subset
<1> QED BY <1>2, FS_CardinalityType DEF times

\* An id that is pushed is in the list once more.
LEMMA TimesAppended ==
  ASSUME NEW S, NEW s \in Seq(S), NEW e \in S, NEW t
  PROVE  times(Append(s, e), t) = times(s, t) + (IF e = t THEN 1 ELSE 0)
<1> DEFINE r == Append(s, e)
           I == {i \in 1 .. Len(s) : s[i] = t}
           J == {i \in 1 .. Len(r) : r[i] = t}
           n == Len(s) + 1
<1>1. /\ Len(s) \in Nat /\ Len(r) = Len(s) + 1
      /\ r[Len(s) + 1] = e /\ \A i \in 1 .. Len(s) : r[i] = s[i]
  OBVIOUS
<1>2. IsFiniteSet(I) /\ Cardinality(I) = times(s, t) /\ times(s, t) \in Nat
  BY TimesIsNat DEF times
<1>3. Cardinality(J) = times(r, t)
  BY DEF times
<1>4. n \notin I
  BY <1>1
<1>5. CASE e = t
  <2>1. J = I \cup {n}
    BY <1>1, <1>5
  <2> HIDE DEF I, J, n
  <2> QED BY <1>2, <1>3, <1>4, <1>5, <2>1, FS_AddElement
<1>6. CASE e # t
  <2>1. J = I
    BY <1>1, <1>6
  <2> HIDE DEF I, J
  <2> QED BY <1>2, <1>3, <1>6, <2>1
<1> QED BY <1>5, <1>6

\* An id that is erased at one place is in the list once less.
LEMMA TimesWithout ==
  ASSUME NEW S, NEW s \in Seq(S), NEW k \in 1 .. Len(s), NEW r \in Seq(S), Len(r) = Len(s) - 1,
         \A i \in 1 .. Len(s) - 1 : r[i] = IF i < k THEN s[i] ELSE s[i + 1], NEW t
  PROVE  times(r, t) = times(s, t) - (IF s[k] = t THEN 1 ELSE 0)
<1> DEFINE I == {i \in 1 .. Len(s) : s[i] = t}
           K == I \ {k}
           J == {i \in 1 .. Len(r) : r[i] = t}
           f == [i \in K |-> IF i < k THEN i ELSE i - 1]
<1>1. IsFiniteSet(I) /\ Cardinality(I) = times(s, t) /\ times(s, t) \in Nat
  BY TimesIsNat DEF times
<1>2. Cardinality(J) = times(r, t)
  BY DEF times
<1>3. Len(s) \in Nat /\ k \in Int
  OBVIOUS
<1>4. \A i \in K : (IF i < k THEN i ELSE i - 1) \in J
  BY <1>3
<1>5. f \in [K -> J]
  BY <1>4
<1>6. \A a, b \in K : f[a] = f[b] => a = b
  BY <1>3
<1>7. ASSUME NEW j \in J PROVE \E i \in K : f[i] = j
  <2>1. j \in Int /\ j \in 1 .. Len(s) - 1
    BY <1>3
  <2>2. CASE j < k
    <3>1. j \in K
      BY <1>3, <2>1, <2>2
    <3> QED BY <2>2, <3>1
  <2>3. CASE ~(j < k)
    <3>1. j + 1 \in K /\ ~(j + 1 < k)
      BY <1>3, <2>1, <2>3
    <3>2. f[j + 1] = j
      BY <2>1, <3>1
    <3> QED BY <3>1, <3>2
  <2> QED BY <2>2, <2>3
<1>8. ExistsBijection(K, J)
  <2> HIDE DEF f, K, J
  <2>1. f \in Bijection(K, J)
    BY <1>5, <1>6, <1>7 DEF Bijection, Injection, Surjection, IsInjective
  <2> QED BY <2>1 DEF ExistsBijection
<1>9. IsFiniteSet(K) /\ Cardinality(K) = IF k \in I THEN Cardinality(I) - 1 ELSE Cardinality(I)
  <2> HIDE DEF I
  <2> QED BY <1>1, FS_RemoveElement
<1>10. Cardinality(J) = Cardinality(K)
  <2> HIDE DEF K, J
  <2> QED BY <1>8, <1>9, FS_Bijection
<1>11. k \in I <=> s[k] = t
  OBVIOUS
<1> HIDE DEF I, K, J, f
<1> QED BY <1>1, <1>2, <1>9, <1>10, <1>11

\* An id is in two lists, one after the other, as often as in both.
LEMMA TimesConcatenated ==
  ASSUME NEW S, NEW a \in Seq(S), NEW b \in Seq(S), NEW t
  PROVE  times(a \o b, t) = times(a, t) + times(b, t)
<1> DEFINE c == a \o b
           I == {i \in 1 .. Len(a) : a[i] = t}
           J == {i \in 1 .. Len(b) : b[i] = t}
           K == {i \in 1 .. Len(c) : i > Len(a) /\ c[i] = t}
           H == {i \in 1 .. Len(c) : c[i] = t}
           f == [i \in J |-> i + Len(a)]
<1>1. /\ Len(a) \in Nat /\ Len(b) \in Nat /\ Len(c) = Len(a) + Len(b)
      /\ \A i \in 1 .. Len(a) + Len(b) : c[i] = IF i <= Len(a) THEN a[i] ELSE b[i - Len(a)]
  BY ConcatIs
<1>2. /\ IsFiniteSet(I) /\ Cardinality(I) = times(a, t) /\ times(a, t) \in Nat
      /\ IsFiniteSet(J) /\ Cardinality(J) = times(b, t) /\ times(b, t) \in Nat
  BY TimesIsNat DEF times
<1>3. Cardinality(H) = times(c, t)
  BY DEF times
<1> HIDE DEF c
<1>4. \A i \in J : i + Len(a) \in K
  BY <1>1
<1>5. f \in [J -> K]
  BY <1>4
<1>6. \A x, y \in J : f[x] = f[y] => x = y
  BY <1>1
<1>7. ASSUME NEW k \in K PROVE \E i \in J : f[i] = k
  <2>1. k - Len(a) \in J /\ k \in Int
    BY <1>1
  <2>2. f[k - Len(a)] = k
    BY <1>1, <2>1
  <2> QED BY <2>1, <2>2
<1>8. ExistsBijection(J, K)
  <2> HIDE DEF f, J, K
  <2>1. f \in Bijection(J, K)
    BY <1>5, <1>6, <1>7 DEF Bijection, Injection, Surjection, IsInjective
  <2> QED BY <2>1 DEF ExistsBijection
<1>9. IsFiniteSet(K) /\ Cardinality(K) = Cardinality(J)
  <2> HIDE DEF J, K
  <2> QED BY <1>2, <1>8, FS_Bijection
<1>10. H = I \cup K /\ I \cap K = {}
  BY <1>1
<1> HIDE DEF I, J, K, H, f
<1>11. Cardinality(H) = Cardinality(I) + Cardinality(K) - Cardinality({})
  BY <1>2, <1>9, <1>10, FS_Union
<1> QED BY <1>2, <1>3, <1>9, <1>11, FS_EmptySet DEF c

\* An id is in the empty list at no place.
LEMMA TimesNone == \A t : times(<< >>, t) = 0
<1> TAKE t
<1>1. {i \in 1 .. Len(<< >>) : << >>[i] = t} = {}
  OBVIOUS
<1> QED BY <1>1, FS_EmptySet DEF times

\* What a signal and a search do to how often an id is in a list.
LEMMA TimesMoved ==
  ASSUME NEW S, NEW s \in Seq(S), NEW t
  PROVE  /\ s # << >> => times(Tail(s), t) = times(s, t) - (IF Head(s) = t THEN 1 ELSE 0)
         /\ \A e : Contains(s, e)
                    => times(RemoveFirst(s, e), t) = times(s, t) - (IF e = t THEN 1 ELSE 0)
<1>1. ASSUME s # << >>
      PROVE  times(Tail(s), t) = times(s, t) - (IF Head(s) = t THEN 1 ELSE 0)
  <2> DEFINE r == Tail(s)
  <2>1. /\ Len(s) \in Nat /\ 1 \in 1 .. Len(s) /\ Head(s) = s[1]
        /\ r \in Seq(S) /\ Len(r) = Len(s) - 1
        /\ \A i \in 1 .. Len(s) - 1 : r[i] = s[i + 1]
    BY <1>1, TailIs
  <2> HIDE DEF r
  <2>2. \A i \in 1 .. Len(s) - 1 : r[i] = IF i < 1 THEN s[i] ELSE s[i + 1]
    BY <2>1
  <2>3. times(r, t) = times(s, t) - (IF s[1] = t THEN 1 ELSE 0)
    BY <2>1, <2>2, TimesWithout
  <2> QED BY <2>1, <2>3 DEF r
<1>2. ASSUME NEW e, Contains(s, e)
      PROVE  times(RemoveFirst(s, e), t) = times(s, t) - (IF e = t THEN 1 ELSE 0)
  <2>1. PICK k \in 1 .. Len(s) : s[k] = e /\ RemoveFirst(s, e) = RemoveAt(s, k)
    BY <1>2, RemoveFirstRemoves
  <2> QED BY <2>1, RemoveAtShifts, TimesWithout
<1> QED BY <1>1, <1>2
-----------------------------------------------------------------------------
(* An id in the lists w and n: somewhere, nowhere, or at one place of one. *)

in(w, n, t) == Contains(w, t) \/ Contains(n, t)
single(w, n, t) == \/ once(w, t) /\ ~Contains(n, t)
                   \/ ~Contains(w, t) /\ once(n, t)

\* Lists that hold no other id and lose none.
Kept(w, n, v, m, t) ==
  /\ in(w, n, t) <=> in(v, m, t)
  /\ single(w, n, t) => single(v, m, t)

\* What is queued or found once is queued or found.
LEMMA SingleIsIn == ASSUME NEW w, NEW n, NEW t, single(w, n, t) PROVE in(w, n, t)
BY DEF single, in, once, Contains

\* A signal moves an id from one list to the other.
LEMMA MoveKeeps ==
  ASSUME NEW S, NEW w \in Seq(S), NEW n \in Seq(S), NEW e \in S, NEW v, Contains(w, e),
         \A t : t # e => (Contains(v, t) <=> Contains(w, t)),
         \A t : t # e /\ once(w, t) => once(v, t),
         once(w, e) => ~Contains(v, e)
  PROVE  \A t : Kept(w, n, v, Append(n, e), t)
<1> TAKE t
<1>1. CASE t # e
  BY <1>1, AppendKeeps DEF Kept, in, single
<1>2. CASE t = e
  BY <1>2, AppendKeeps DEF Kept, in, single
<1> QED BY <1>1, <1>2

\* The id of another thread is queued or found.
LEMMA OthersKept ==
  ASSUME NEW S, NEW w \in Seq(S), NEW n \in Seq(S), NEW e \in S
  PROVE  /\ \A t : t # e => Kept(w, n, Append(w, e), n, t)
         /\ Contains(n, e) => \A t : t # e => Kept(w, n, w, RemoveFirst(n, e), t)
BY AppendKeeps, RemoveFirstKeeps DEF Kept, in, single
-----------------------------------------------------------------------------
(* The invariants, thread by thread.                                       *)

Untimed == Threads \ TimedWaits

ListsInv ==
  /\ \A t \in Threads : waits(t) => in(waiters, next, t)
  /\ \A t \in Untimed :
       IF waits(t) THEN single(waiters, next, t) ELSE ~in(waiters, next, t)
  /\ NoLostSignal

\* How deep the mutex is for a thread inside sys_cond_wait.
Depth(t) ==
  /\ pc[t] = "pushed" => IF held[t] > 0 THEN owner = t /\ depth = held[t] ELSE owner # t
  /\ pc[t] \in {"unlocked", "asleep", "awake", "relock"} =>
       IF held[t] > 1 THEN owner = t /\ depth = held[t] - 1 ELSE owner # t

MutexInv == (depth > 1 => recursive) /\ \A t \in Threads : Depth(t)
-----------------------------------------------------------------------------
(* Types.                                                                  *)

\* Taking the mutex keeps the types.
LEMMA LockTypes ==
  ASSUME TypeOK, NEW t \in Threads, mayLock(t), pthread_lock(t)
  PROVE  /\ recursive' \in BOOLEAN /\ owner' \in Threads \cup {Null} /\ depth' \in Nat
         /\ (depth' = 0 <=> owner' = Null)
BY CondAssumption DEF TypeOK, pthread_lock, mayLock

\* Giving the mutex back keeps the types.
LEMMA UnlockTypes ==
  ASSUME TypeOK, NEW t \in Threads, owner = t, pthread_unlock
  PROVE  /\ recursive' \in BOOLEAN /\ owner' \in Threads \cup {Null} /\ depth' \in Nat
         /\ (depth' = 0 <=> owner' = Null)
BY CondAssumption DEF TypeOK, pthread_unlock

\* Looking for an id in next keeps the types.
LEMMA CheckTypes ==
  ASSUME TypeOK, NEW t \in Threads, check(t)
  PROVE  /\ next' \in Seq(Threads)
         /\ pc' \in [Threads -> {"run", "pushed", "unlocked", "asleep", "awake", "relock"}]
         /\ ret' \in [Threads -> {"CELL_OK", "CELL_EDEADLK", "CELL_ETIMEDOUT", "CELL_EPERM"}]
<1>1. CASE Contains(next, t)
  <2>1. RemoveFirst(next, t) \in Seq(Threads)
    BY <1>1, RemoveFirstKeeps DEF TypeOK
  <2> QED BY <1>1, <2>1 DEF TypeOK, check, returns
<1>2. CASE ~Contains(next, t)
  BY <1>2 DEF TypeOK, check
<1> QED BY <1>1, <1>2

\* The three signals keep the types.
LEMMA SignalTypes ==
  ASSUME TypeOK, NEW s \in Threads, NEW t \in Threads,
         sys_cond_signal(s) \/ sys_cond_signal_all(s) \/ sys_cond_signal_to(s, t)
  PROVE  TypeOK'
<1>1. notify_all \in [Threads -> {"run", "pushed", "unlocked", "asleep", "awake", "relock"}]
  BY DEF TypeOK, notify_all
<1>2. CASE sys_cond_signal(s)
  <2>1. CASE waiters = << >>
    BY <1>2, <2>1 DEF TypeOK, sys_cond_signal, lists, mutex, returns
  <2>2. CASE waiters # << >>
    <3>1. Append(next, Head(waiters)) \in Seq(Threads) /\ Tail(waiters) \in Seq(Threads)
      BY <2>2, TailKeeps, AppendKeeps DEF TypeOK
    <3> QED BY <1>1, <1>2, <2>2, <3>1 DEF TypeOK, sys_cond_signal, mutex, returns
  <2> QED BY <2>1, <2>2
<1>3. CASE sys_cond_signal_all(s)
  <2>1. next \o waiters \in Seq(Threads) /\ << >> \in Seq(Threads)
    BY ConcatIs DEF TypeOK
  <2> QED BY <1>1, <1>3, <2>1 DEF TypeOK, sys_cond_signal_all, mutex, returns
<1>4. CASE sys_cond_signal_to(s, t)
  <2>1. CASE Contains(waiters, t)
    <3>1. Append(next, t) \in Seq(Threads) /\ RemoveFirst(waiters, t) \in Seq(Threads)
      BY <2>1, RemoveFirstKeeps, AppendKeeps DEF TypeOK
    <3> QED BY <1>1, <1>4, <2>1, <3>1 DEF TypeOK, sys_cond_signal_to, mutex, returns
  <2>2. CASE ~Contains(waiters, t)
    BY <1>4, <2>2 DEF TypeOK, sys_cond_signal_to, lists, mutex, returns
  <2> QED BY <2>1, <2>2
<1> QED BY <1>2, <1>3, <1>4

\* Every step keeps the types.
LEMMA StepTypes == ASSUME TypeOK, [Next]_vars PROVE TypeOK'
<1>1. CASE UNCHANGED vars
  BY <1>1 DEF TypeOK, vars, mutex, lists
<1>2. ASSUME NEW t \in Threads,
             sys_mutex_lock(t) \/ sys_mutex_lock_timed(t) \/ sys_mutex_trylock(t)
      PROVE  TypeOK'
  <2>1. CASE mayLock(t) /\ pthread_lock(t)
    BY <1>2, <2>1, LockTypes
    DEF TypeOK, sys_mutex_lock, sys_mutex_lock_timed, sys_mutex_trylock, lists, returns, mutex
  <2>2. CASE UNCHANGED mutex
    BY <1>2, <2>2
    DEF TypeOK, sys_mutex_lock, sys_mutex_lock_timed, sys_mutex_trylock, lists, mutex, returns
  <2> QED BY <1>2, <2>1, <2>2 DEF sys_mutex_lock, sys_mutex_lock_timed, sys_mutex_trylock
<1>3. ASSUME NEW t \in Threads, sys_mutex_unlock(t) PROVE TypeOK'
  <2>1. CASE owner = t
    BY <1>3, <2>1, UnlockTypes DEF TypeOK, sys_mutex_unlock, lists, returns
  <2>2. CASE owner # t
    BY <1>3, <2>2 DEF TypeOK, sys_mutex_unlock, lists, mutex, returns
  <2> QED BY <2>1, <2>2
<1>4. ASSUME NEW t \in Threads, NEW hasTimeout \in BOOLEAN, wait_push(t, hasTimeout)
      PROVE  TypeOK'
  <2>1. Append(waiters, t) \in Seq(Threads)
    BY AppendKeeps DEF TypeOK
  <2>2. timed' \subseteq TimedWaits
    BY <1>4 DEF TypeOK, wait_push
  <2>3. held' \in [Threads -> Nat]
    BY <1>4 DEF TypeOK, wait_push
  <2> QED BY <1>4, <2>1, <2>2, <2>3 DEF TypeOK, wait_push, mutex
<1>5. ASSUME NEW t \in Threads, wait_unlock(t) PROVE TypeOK'
  <2>1. CASE owner = t
    BY <1>5, <2>1, UnlockTypes DEF TypeOK, wait_unlock, lists
  <2>2. CASE owner # t
    BY <1>5, <2>2 DEF TypeOK, wait_unlock, lists, mutex
  <2> QED BY <2>1, <2>2
<1>6. ASSUME NEW t \in Threads, wait_enter(t) PROVE TypeOK'
  <2>1. CASE t \in timed
    BY <1>6, <2>1 DEF TypeOK, wait_enter, mutex
  <2>2. CASE t \notin timed
    BY <1>6, <2>2, CheckTypes DEF TypeOK, wait_enter, mutex
  <2> QED BY <2>1, <2>2
<1>7. ASSUME NEW t \in Threads, wait_check(t) PROVE TypeOK'
  BY <1>7, CheckTypes DEF TypeOK, wait_check, mutex
<1>8. ASSUME NEW t \in Threads, wait_timeout(t) \/ spurious(t) PROVE TypeOK'
  <2>1. gaveUp' \in [Threads -> Nat]
    BY <1>8 DEF TypeOK, wait_timeout, spurious
  <2>2. /\ pc' \in [Threads -> {"run", "pushed", "unlocked", "asleep", "awake", "relock"}]
        /\ ret' \in [Threads -> {"CELL_OK", "CELL_EDEADLK", "CELL_ETIMEDOUT", "CELL_EPERM"}]
    BY <1>8 DEF TypeOK, wait_timeout, spurious, returns
  <2>3. UNCHANGED <<mutex, lists, timed, held>>
    BY <1>8 DEF wait_timeout, spurious
  <2> QED BY <2>1, <2>2, <2>3 DEF TypeOK, mutex, lists
<1>9. ASSUME NEW t \in Threads, wait_relock(t) PROVE TypeOK'
  BY <1>9, LockTypes DEF TypeOK, wait_relock, lists
<1> QED BY <1>1, <1>2, <1>3, <1>4, <1>5, <1>6, <1>7, <1>8, <1>9, SignalTypes
        DEF Next, Call, Inside

\* Every variable keeps to its declaration; only those that may wait with a
\* timeout do.
\* Behaviour: the calls of mutex.cpp and cond.cpp.
THEOREM CondTypes == Spec => []TypeOK
<1>1. Init => TypeOK
  BY CondAssumption DEF Init, TypeOK
<1>2. TypeOK /\ [Next]_vars => TypeOK'
  BY StepTypes
<1> QED BY <1>1, <1>2, PTL DEF Spec
-----------------------------------------------------------------------------
(* The lists.                                                              *)

\* Threads that keep their place in sys_cond_wait and in the lists.
Stays(t) ==
  /\ waits(t)' <=> waits(t)
  /\ pc'[t] = "asleep" => pc[t] = "asleep" /\ (Contains(next', t) => Contains(next, t))
  /\ Kept(waiters, next, waiters', next', t)

\* A step that leaves the lists and who waits alone keeps the invariant.
LEMMA StaysOK ==
  ASSUME ListsInv, NEW t \in Threads, Stays(t)
  PROVE  /\ waits(t)' => in(waiters', next', t)
         /\ t \in Untimed => IF waits(t)' THEN single(waiters', next', t)
                             ELSE ~in(waiters', next', t)
         /\ t \in Untimed => (pc'[t] = "asleep" => ~Contains(next', t))
BY DEF ListsInv, Stays, Kept, NoLostSignal, Untimed

\* Every thread stays but one, for which the parts of the invariant are shown.
LEMMA OneMoves ==
  ASSUME ListsInv, NEW t \in Threads, \A u \in Threads \ {t} : Stays(u),
         waits(t)' => in(waiters', next', t),
         t \in Untimed => IF waits(t)' THEN single(waiters', next', t)
                          ELSE ~in(waiters', next', t),
         t \in Untimed => (pc'[t] = "asleep" => ~Contains(next', t))
  PROVE  ListsInv'
<1>1. \A u \in Threads : waits(u)' => in(waiters', next', u)
  BY StaysOK
<1>2. \A u \in Untimed : IF waits(u)' THEN single(waiters', next', u)
                          ELSE ~in(waiters', next', u)
  BY StaysOK DEF Untimed
<1>3. \A u \in Untimed : pc'[u] = "asleep" => ~Contains(next', u)
  BY StaysOK DEF Untimed
<1> QED BY <1>1, <1>2, <1>3 DEF ListsInv, NoLostSignal, Untimed, waits

\* The steps that leave the lists and the thread's being a waiter as they are.
LEMMA IdleOK ==
  ASSUME TypeOK, ListsInv, NEW t \in Threads, UNCHANGED lists,
         \A u \in Threads \ {t} : pc'[u] = pc[u],
         waits(t)' <=> waits(t),
         pc'[t] = "asleep" => pc[t] = "asleep" \/ t \in TimedWaits
  PROVE  ListsInv'
<1>1. \A u \in Threads \ {t} : Stays(u)
  BY DEF Stays, Kept, lists, waits
<1>2. /\ waits(t)' => in(waiters', next', t)
      /\ t \in Untimed => IF waits(t)' THEN single(waiters', next', t)
                          ELSE ~in(waiters', next', t)
  BY DEF ListsInv, lists
<1>3. t \in Untimed => (pc'[t] = "asleep" => ~Contains(next', t))
  BY DEF ListsInv, lists, Untimed, NoLostSignal
<1> QED BY <1>1, <1>2, <1>3, OneMoves

\* A thread that finds its id, or gives up, keeps the invariant.
LEMMA CheckOK ==
  ASSUME TypeOK, ListsInv, NEW t \in Threads, waits(t), check(t), UNCHANGED waiters
  PROVE  ListsInv'
<1>1. CASE Contains(next, t)
  <2>1. next' = RemoveFirst(next, t) /\ pc' = [pc EXCEPT ![t] = "relock"]
    BY <1>1 DEF check
  <2>2. ~waits(t)' /\ pc'[t] = "relock"
    BY <2>1 DEF waits, TypeOK
  <2>3. ASSUME NEW u \in Threads \ {t} PROVE Stays(u)
    <3>1. pc'[u] = pc[u] /\ (waits(u)' <=> waits(u))
      BY <2>1 DEF waits, TypeOK
    <3>2. Kept(waiters, next, waiters', next', u) /\ (Contains(next', u) => Contains(next, u))
      BY <1>1, <2>1, OthersKept, RemoveFirstKeeps DEF TypeOK
    <3> QED BY <3>1, <3>2 DEF Stays
  <2>4. ASSUME t \in Untimed PROVE ~in(waiters', next', t)
    <3>1. ~Contains(waiters, t) /\ once(next, t)
      BY <1>1, <2>4 DEF ListsInv, single
    <3> QED BY <1>1, <2>1, <3>1, RemoveFirstKeeps DEF in, TypeOK
  <2> QED BY <2>2, <2>3, <2>4, OneMoves
<1>2. CASE ~Contains(next, t)
  <2>1. next' = next /\ pc' = [pc EXCEPT ![t] = "asleep"]
    BY <1>2 DEF check
  <2>2. \A u \in Threads \ {t} : Stays(u)
    BY <2>1 DEF Stays, Kept, waits, TypeOK
  <2>3. waits(t)' /\ pc'[t] = "asleep"
    BY <2>1 DEF waits, TypeOK
  <2> QED BY <1>2, <2>1, <2>2, <2>3, OneMoves DEF ListsInv
<1> QED BY <1>1, <1>2

\* After a signal nobody sleeps, and everybody is where it was.
LEMMA NotifyOK ==
  ASSUME TypeOK, ListsInv, pc' = notify_all,
         \A t \in Threads : Kept(waiters, next, waiters', next', t)
  PROVE  ListsInv'
<1>1. ASSUME NEW t \in Threads PROVE Stays(t)
  <2>1. pc'[t] # "asleep" /\ (waits(t)' <=> waits(t))
    BY DEF notify_all, waits, TypeOK
  <2> QED BY <2>1 DEF Stays
<1>2. \A t \in Threads : pc'[t] # "asleep"
  BY DEF notify_all, TypeOK
<1>3. \A t \in Threads : waits(t)' => in(waiters', next', t)
  BY <1>1, StaysOK
<1>4. \A t \in Untimed : IF waits(t)' THEN single(waiters', next', t)
                          ELSE ~in(waiters', next', t)
  BY <1>1, StaysOK DEF Untimed
<1> QED BY <1>2, <1>3, <1>4 DEF ListsInv, NoLostSignal, Untimed, waits

\* The three signals keep the invariant.
LEMMA SignalOK ==
  ASSUME TypeOK, ListsInv, NEW s \in Threads, NEW t \in Threads,
         sys_cond_signal(s) \/ sys_cond_signal_all(s) \/ sys_cond_signal_to(s, t)
  PROVE  ListsInv'
<1>1. CASE UNCHANGED <<lists, pc>>
  <2>1. UNCHANGED lists /\ pc' = pc
    BY <1>1
  <2> QED BY <2>1, IdleOK DEF waits
<1>2. CASE sys_cond_signal(s) /\ waiters # << >>
  <2>1. \A u : Kept(waiters, next, Tail(waiters), Append(next, Head(waiters)), u)
    BY <1>2, TailKeeps, MoveKeeps DEF TypeOK
  <2> QED BY <1>2, <2>1, NotifyOK DEF sys_cond_signal
<1>3. CASE sys_cond_signal_all(s)
  <2>1. \A u : Kept(waiters, next, << >>, next \o waiters, u)
    <3>1. \A u : ~Contains(<< >>, u)
      BY DEF Contains
    <3>2. \A u : /\ Contains(next \o waiters, u) <=> Contains(next, u) \/ Contains(waiters, u)
                 /\ once(next, u) /\ ~Contains(waiters, u) => once(next \o waiters, u)
                 /\ once(waiters, u) /\ ~Contains(next, u) => once(next \o waiters, u)
      BY ConcatKeeps DEF TypeOK
    <3> QED BY <3>1, <3>2 DEF Kept, in, single
  <2> QED BY <1>3, <2>1, NotifyOK DEF sys_cond_signal_all
<1>4. CASE sys_cond_signal_to(s, t) /\ Contains(waiters, t)
  <2>1. \A u : Kept(waiters, next, RemoveFirst(waiters, t), Append(next, t), u)
    BY <1>4, RemoveFirstKeeps, MoveKeeps DEF TypeOK
  <2> QED BY <1>4, <2>1, NotifyOK DEF sys_cond_signal_to
<1> QED BY <1>1, <1>2, <1>3, <1>4 DEF sys_cond_signal, sys_cond_signal_to

\* Every step keeps the invariant of the lists.
LEMMA StepLists == ASSUME TypeOK, ListsInv, [Next]_vars PROVE ListsInv'
<1>1. CASE UNCHANGED vars
  BY <1>1 DEF ListsInv, NoLostSignal, waits, vars, lists
<1>2. ASSUME NEW t \in Threads,
             \/ sys_mutex_lock(t) \/ sys_mutex_lock_timed(t) \/ sys_mutex_trylock(t)
             \/ sys_mutex_unlock(t)
      PROVE  ListsInv'
  <2>1. UNCHANGED lists /\ pc' = pc
    BY <1>2 DEF sys_mutex_lock, sys_mutex_lock_timed, sys_mutex_trylock, sys_mutex_unlock
  <2> QED BY <2>1, IdleOK DEF waits
<1>3. ASSUME NEW t \in Threads, NEW hasTimeout \in BOOLEAN, wait_push(t, hasTimeout)
      PROVE  ListsInv'
  <2>1. /\ pc[t] = "run" /\ waiters' = Append(waiters, t) /\ next' = next
        /\ pc' = [pc EXCEPT ![t] = "pushed"]
    BY <1>3 DEF wait_push
  <2>2. \A u \in Threads \ {t} : Stays(u)
    BY <2>1, OthersKept DEF Stays, waits, TypeOK
  <2>3. waits(t)' /\ pc'[t] = "pushed" /\ ~waits(t)
    BY <2>1 DEF waits, TypeOK
  <2>4. in(waiters', next', t)
    BY <2>1, AppendKeeps DEF in, TypeOK
  <2>5. ASSUME t \in Untimed PROVE single(waiters', next', t)
    <3>1. ~Contains(waiters, t) /\ ~Contains(next, t)
      BY <2>3, <2>5 DEF ListsInv, in
    <3> QED BY <2>1, <3>1, AppendKeeps DEF single, TypeOK
  <2> QED BY <2>2, <2>3, <2>4, <2>5, OneMoves
<1>4. ASSUME NEW t \in Threads, wait_unlock(t) \/ spurious(t) PROVE ListsInv'
  <2>1. /\ UNCHANGED lists /\ (waits(t)' <=> waits(t)) /\ pc'[t] # "asleep"
        /\ \A u \in Threads \ {t} : pc'[u] = pc[u]
    BY <1>4 DEF wait_unlock, spurious, waits, TypeOK
  <2> QED BY <2>1, IdleOK
<1>5. ASSUME NEW t \in Threads, wait_enter(t) PROVE ListsInv'
  <2>1. CASE t \in timed
    <3>1. /\ UNCHANGED lists /\ (waits(t)' <=> waits(t)) /\ t \in TimedWaits
          /\ \A u \in Threads \ {t} : pc'[u] = pc[u]
      BY <1>5, <2>1 DEF wait_enter, waits, TypeOK, lists
    <3> QED BY <3>1, IdleOK
  <2>2. CASE t \notin timed
    BY <1>5, <2>2, CheckOK DEF wait_enter, waits
  <2> QED BY <2>1, <2>2
<1>6. ASSUME NEW t \in Threads, wait_check(t) PROVE ListsInv'
  BY <1>6, CheckOK DEF wait_check, waits
<1>7. ASSUME NEW t \in Threads, wait_timeout(t) PROVE ListsInv'
  <2>1. UNCHANGED lists /\ pc' = [pc EXCEPT ![t] = "relock"] /\ t \notin Untimed
    BY <1>7 DEF wait_timeout, Untimed, TypeOK
  <2>2. \A u \in Threads \ {t} : Stays(u)
    BY <2>1 DEF Stays, Kept, waits, TypeOK, lists
  <2>3. ~waits(t)'
    BY <2>1 DEF waits, TypeOK
  <2> QED BY <2>1, <2>2, <2>3, OneMoves
<1>8. ASSUME NEW t \in Threads, wait_relock(t) PROVE ListsInv'
  <2>1. /\ UNCHANGED lists /\ (waits(t)' <=> waits(t)) /\ pc'[t] # "asleep"
        /\ \A u \in Threads \ {t} : pc'[u] = pc[u]
    BY <1>8 DEF wait_relock, waits, TypeOK
  <2> QED BY <2>1, IdleOK
<1> QED BY <1>1, <1>2, <1>3, <1>4, <1>5, <1>6, <1>7, <1>8, SignalOK
        DEF Next, Call, Inside
\* What the runs check of the lists follows from the invariant.
LEMMA ListsMean ==
  ASSUME TypeOK, ListsInv PROVE Registered /\ NoLostSignal
<1>1. \A t : Contains(waiters \o next, t) <=> in(waiters, next, t)
  BY ConcatKeeps DEF TypeOK, in
<1> QED BY <1>1 DEF ListsInv, Registered

\* The invariant of the lists always holds.
LEMMA AlwaysLists == Spec => [](TypeOK /\ ListsInv)
<1>1. Init => TypeOK /\ ListsInv
  <2>1. ASSUME Init PROVE TypeOK
    BY <2>1, CondAssumption DEF Init, TypeOK
  <2>2. ASSUME Init PROVE ListsInv
    <3>1. \A t : ~Contains(<< >>, t)
      BY DEF Contains
    <3>2. \A t : ~in(waiters, next, t)
      BY <2>2, <3>1 DEF Init, in
    <3>3. \A t \in Threads : pc[t] = "run"
      BY <2>2 DEF Init
    <3> QED BY <3>2, <3>3 DEF ListsInv, NoLostSignal, waits, Untimed
  <2> QED BY <2>1, <2>2
<1>2. TypeOK /\ ListsInv /\ [Next]_vars => (TypeOK /\ ListsInv)'
  BY StepTypes, StepLists
<1> QED BY <1>1, <1>2, PTL DEF Spec

\* A waiting thread can be signalled, at every step of sys_cond_wait.
\* Behaviour: waiters.push_back before the mutex is released, and the moves from
\* waiters to next.
THEOREM WaitersRegistered == Spec => []Registered
BY AlwaysLists, ListsMean, PTL

\* How often the id of a thread is in the two lists together.
queued(t) == times(waiters, t) + times(next, t)

expected(t) == gaveUp[t] + (IF waits(t) THEN 1 ELSE 0)

LEMMA QueuedIsNat ==
  ASSUME TypeOK, NEW t \in Threads
  PROVE  times(waiters, t) \in Nat /\ times(next, t) \in Nat /\ gaveUp[t] \in Nat
BY TimesIsNat DEF TypeOK

\* A signal moves ids from waiters to next, and nothing else.
LEMMA SignalMoves ==
  ASSUME TypeOK, NEW s \in Threads, NEW u \in Threads,
         sys_cond_signal(s) \/ sys_cond_signal_all(s) \/ sys_cond_signal_to(s, u)
  PROVE  /\ \A t \in Threads : queued(t)' = queued(t)
         /\ \A t \in Threads : (waits(t)' <=> waits(t)) /\ gaveUp'[t] = gaveUp[t]
<1>1. gaveUp' = gaveUp /\ (pc' = pc \/ pc' = notify_all)
  BY DEF sys_cond_signal, sys_cond_signal_all, sys_cond_signal_to
<1>2. ASSUME NEW t \in Threads PROVE waits(t)' <=> waits(t)
  BY <1>1 DEF waits, notify_all, TypeOK
<1>3. ASSUME NEW t \in Threads PROVE queued(t)' = queued(t)
  <2>0. /\ times(waiters, t) \in Nat /\ times(next, t) \in Nat
        /\ waiters \in Seq(Threads) /\ next \in Seq(Threads)
    BY QueuedIsNat DEF TypeOK
  <2>1. CASE UNCHANGED lists
    BY <2>1 DEF lists, queued
  <2>2. CASE /\ waiters # << >> /\ next' = Append(next, Head(waiters))
             /\ waiters' = Tail(waiters)
    <3>1. Head(waiters) \in Threads
      BY <2>0, <2>2
    <3>2. times(next', t) = times(next, t) + (IF Head(waiters) = t THEN 1 ELSE 0)
      BY <2>0, <2>2, <3>1, TimesAppended
    <3>3. times(waiters', t) = times(waiters, t) - (IF Head(waiters) = t THEN 1 ELSE 0)
      BY <2>0, <2>2, TimesMoved
    <3> QED BY <2>0, <3>2, <3>3 DEF queued
  <2>3. CASE next' = next \o waiters /\ waiters' = << >>
    <3>1. times(next', t) = times(next, t) + times(waiters, t)
      BY <2>0, <2>3, TimesConcatenated
    <3>2. times(waiters', t) = 0
      BY <2>3, TimesNone
    <3> QED BY <2>0, <3>1, <3>2 DEF queued
  <2>4. CASE /\ Contains(waiters, u) /\ next' = Append(next, u)
             /\ waiters' = RemoveFirst(waiters, u)
    <3>1. times(next', t) = times(next, t) + (IF u = t THEN 1 ELSE 0)
      BY <2>0, <2>4, TimesAppended
    <3>2. times(waiters', t) = times(waiters, t) - (IF u = t THEN 1 ELSE 0)
      BY <2>0, <2>4, TimesMoved
    <3> QED BY <2>0, <3>1, <3>2 DEF queued
  <2> QED BY <2>1, <2>2, <2>3, <2>4
          DEF sys_cond_signal, sys_cond_signal_all, sys_cond_signal_to, lists
<1> QED BY <1>1, <1>2, <1>3

\* A search takes one id of the thread out of next and ends its wait, or neither.
LEMMA CheckTakes ==
  ASSUME TypeOK, ListsAreTheWaiters, NEW u \in Threads, waits(u), check(u),
         UNCHANGED <<waiters, gaveUp>>
  PROVE  ListsAreTheWaiters'
<1> SUFFICES ASSUME NEW t \in Threads PROVE queued(t)' = expected(t)'
  BY DEF ListsAreTheWaiters, queued, expected
<1>0. /\ queued(t) = expected(t) /\ times(waiters, t) \in Nat /\ times(next, t) \in Nat
      /\ gaveUp[t] \in Nat /\ next \in Seq(Threads)
  BY QueuedIsNat DEF TypeOK, ListsAreTheWaiters, queued, expected
<1>1. CASE Contains(next, u)
  <2>1. next' = RemoveFirst(next, u) /\ pc' = [pc EXCEPT ![u] = "relock"]
    BY <1>1 DEF check
  <2>2. times(next', t) = times(next, t) - (IF u = t THEN 1 ELSE 0)
    BY <1>0, <1>1, <2>1, TimesMoved
  <2>3. waits(t)' <=> waits(t) /\ t # u
    BY <2>1 DEF waits, TypeOK
  <2>4. CASE t = u
    BY <1>0, <2>2, <2>3, <2>4 DEF queued, expected
  <2>5. CASE t # u
    BY <1>0, <2>2, <2>3, <2>5 DEF queued, expected
  <2> QED BY <2>4, <2>5
<1>2. CASE ~Contains(next, u)
  <2>1. next' = next /\ pc' = [pc EXCEPT ![u] = "asleep"]
    BY <1>2 DEF check
  <2>2. waits(t)' <=> waits(t)
    BY <2>1 DEF waits, TypeOK
  <2> QED BY <1>0, <2>1, <2>2 DEF queued, expected
<1> QED BY <1>1, <1>2

\* Every step keeps the count.
LEMMA StepCounts == ASSUME TypeOK, ListsAreTheWaiters, [Next]_vars PROVE ListsAreTheWaiters'
<1>0. \A t \in Threads : queued(t) = expected(t)
  BY DEF ListsAreTheWaiters, queued, expected
<1>1. ASSUME UNCHANGED <<lists, gaveUp>>, \A t \in Threads : waits(t)' <=> waits(t)
      PROVE  ListsAreTheWaiters'
  BY <1>1 DEF ListsAreTheWaiters, lists
<1>2. CASE UNCHANGED vars
  BY <1>1, <1>2 DEF vars, waits
<1>3. ASSUME NEW t \in Threads,
             \/ sys_mutex_lock(t) \/ sys_mutex_lock_timed(t) \/ sys_mutex_trylock(t)
             \/ sys_mutex_unlock(t)
      PROVE  ListsAreTheWaiters'
  <2>1. UNCHANGED <<lists, gaveUp, pc>>
    BY <1>3 DEF sys_mutex_lock, sys_mutex_lock_timed, sys_mutex_trylock, sys_mutex_unlock
  <2> QED BY <1>1, <2>1 DEF waits
<1>4. ASSUME NEW t \in Threads, wait_unlock(t) \/ spurious(t) \/ wait_relock(t)
      PROVE  ListsAreTheWaiters'
  <2>1. UNCHANGED <<lists, gaveUp>> /\ \A u \in Threads : waits(u)' <=> waits(u)
    BY <1>4 DEF wait_unlock, spurious, wait_relock, waits, TypeOK
  <2> QED BY <1>1, <2>1
<1>5. ASSUME NEW t \in Threads, NEW hasTimeout \in BOOLEAN, wait_push(t, hasTimeout)
      PROVE  ListsAreTheWaiters'
  <2> SUFFICES ASSUME NEW u \in Threads PROVE queued(u)' = expected(u)'
    BY DEF ListsAreTheWaiters, queued, expected
  <2>1. /\ waiters' = Append(waiters, t) /\ next' = next /\ gaveUp' = gaveUp
        /\ pc[t] = "run" /\ pc' = [pc EXCEPT ![t] = "pushed"]
    BY <1>5 DEF wait_push
  <2>2. /\ times(waiters, u) \in Nat /\ times(next, u) \in Nat /\ gaveUp[u] \in Nat
        /\ waiters \in Seq(Threads)
    BY QueuedIsNat DEF TypeOK
  <2>3. times(waiters', u) = times(waiters, u) + (IF t = u THEN 1 ELSE 0)
    BY <2>1, <2>2, TimesAppended
  <2>4. (waits(u)' <=> waits(u) \/ t = u) /\ (t = u => ~waits(u))
    BY <2>1 DEF waits, TypeOK
  <2>5. CASE t = u
    BY <1>0, <2>1, <2>2, <2>3, <2>4, <2>5 DEF queued, expected
  <2>6. CASE t # u
    BY <1>0, <2>1, <2>2, <2>3, <2>4, <2>6 DEF queued, expected
  <2> QED BY <2>5, <2>6
<1>6. ASSUME NEW t \in Threads, wait_enter(t) PROVE ListsAreTheWaiters'
  <2>1. CASE t \in timed
    <3>1. UNCHANGED <<lists, gaveUp>> /\ \A u \in Threads : waits(u)' <=> waits(u)
      BY <1>6, <2>1 DEF wait_enter, waits, lists, TypeOK
    <3> QED BY <1>1, <3>1
  <2>2. CASE t \notin timed
    BY <1>6, <2>2, CheckTakes DEF wait_enter, waits
  <2> QED BY <2>1, <2>2
<1>7. ASSUME NEW t \in Threads, wait_check(t) PROVE ListsAreTheWaiters'
  BY <1>7, CheckTakes DEF wait_check, waits
<1>8. ASSUME NEW t \in Threads, wait_timeout(t) PROVE ListsAreTheWaiters'
  <2> SUFFICES ASSUME NEW u \in Threads PROVE queued(u)' = expected(u)'
    BY DEF ListsAreTheWaiters, queued, expected
  <2>1. /\ UNCHANGED lists /\ gaveUp' = [gaveUp EXCEPT ![t] = @ + 1]
        /\ pc[t] = "asleep" /\ pc' = [pc EXCEPT ![t] = "relock"]
    BY <1>8 DEF wait_timeout
  <2>2. queued(u)' = queued(u)
    BY <2>1 DEF queued, lists
  <2>3. /\ gaveUp[u] \in Nat /\ gaveUp'[u] = gaveUp[u] + (IF t = u THEN 1 ELSE 0)
        /\ (waits(u)' <=> waits(u) /\ t # u) /\ (t = u => waits(u))
    BY <2>1 DEF waits, TypeOK
  <2>4. CASE t = u
    BY <1>0, <2>2, <2>3, <2>4 DEF expected
  <2>5. CASE t # u
    BY <1>0, <2>2, <2>3, <2>5 DEF expected
  <2> QED BY <2>4, <2>5
<1>9. ASSUME NEW s \in Threads, NEW u \in Threads,
             sys_cond_signal(s) \/ sys_cond_signal_all(s) \/ sys_cond_signal_to(s, u)
      PROVE  ListsAreTheWaiters'
  <2> SUFFICES ASSUME NEW t \in Threads PROVE queued(t)' = expected(t)'
    BY DEF ListsAreTheWaiters, queued, expected
  <2>1. queued(t)' = queued(t) /\ (waits(t)' <=> waits(t)) /\ gaveUp'[t] = gaveUp[t]
    BY <1>9, SignalMoves
  <2> QED BY <1>0, <2>1 DEF expected
<1> QED BY <1>2, <1>3, <1>4, <1>5, <1>6, <1>7, <1>8, <1>9 DEF Next, Call, Inside

\* The id of a thread is in the lists once while the thread waits, and once for
\* each wait of its that timed out, for any threads and any signals: an id that is
\* left behind is neither lost nor doubled, and other threads leave none.
\* Behaviour: the three signals and check, and the timeout that erases nothing.
THEOREM WaitersOnce == Spec => []ListsAreTheWaiters
<1>1. Init => ListsAreTheWaiters
  <2> SUFFICES ASSUME Init, NEW t \in Threads
               PROVE  times(waiters, t) + times(next, t) = gaveUp[t] + (IF waits(t) THEN 1 ELSE 0)
    BY DEF ListsAreTheWaiters
  <2>1. ~waits(t) /\ gaveUp[t] = 0
    BY DEF Init, waits
  <2>2. times(waiters, t) = 0 /\ times(next, t) = 0
    BY TimesNone DEF Init
  <2> QED BY <2>1, <2>2
<1>2. TypeOK /\ ListsAreTheWaiters /\ [Next]_vars => ListsAreTheWaiters'
  BY StepCounts
<1> QED BY <1>1, <1>2, AlwaysLists, PTL DEF Spec

\* No thread that never times out sleeps through its signal.
\* Behaviour: the search of next before the first sleep, and notify_all.
THEOREM SignalsKept == Spec => []NoLostSignal
BY AlwaysLists, ListsMean, PTL
-----------------------------------------------------------------------------
(* The mutex.                                                              *)

\* What a thread's own step on the mutex does to the others.
LEMMA LockOthers ==
  ASSUME TypeOK, MutexInv, NEW t \in Threads, mayLock(t), pthread_lock(t),
         NEW u \in Threads \ {t}, pc'[u] = pc[u], held'[u] = held[u]
  PROVE  Depth(u)'
BY CondAssumption DEF TypeOK, MutexInv, Depth, mayLock, pthread_lock

\* What giving the mutex back does to the other threads.
LEMMA UnlockOthers ==
  ASSUME TypeOK, MutexInv, NEW t \in Threads, owner = t, pthread_unlock,
         NEW u \in Threads \ {t}, pc'[u] = pc[u], held'[u] = held[u]
  PROVE  Depth(u)'
BY CondAssumption DEF TypeOK, MutexInv, Depth, pthread_unlock

\* A thread that goes on inside sys_cond_wait after the mutex was released.
LEMMA SameMutex ==
  ASSUME TypeOK, MutexInv, NEW t \in Threads, UNCHANGED mutex, held'[t] = held[t],
         \/ pc'[t] = pc[t] \/ pc'[t] = "run"
         \/ /\ pc[t] \in {"unlocked", "asleep", "awake", "relock"}
            /\ pc'[t] \in {"unlocked", "asleep", "awake", "relock"}
  PROVE  Depth(t)'
BY DEF TypeOK, MutexInv, Depth, mutex

\* A step inside sys_cond_wait that leaves the mutex alone keeps its invariant.
LEMMA GoesOn ==
  ASSUME TypeOK, MutexInv, UNCHANGED <<mutex, held>>,
         \A t \in Threads :
           \/ pc'[t] = pc[t]
           \/ /\ pc[t] \in {"unlocked", "asleep", "awake", "relock"}
              /\ pc'[t] \in {"unlocked", "asleep", "awake", "relock"}
  PROVE  MutexInv'
<1>1. \A t \in Threads : Depth(t)'
  BY SameMutex
<1>2. (depth > 1 => recursive)'
  BY DEF MutexInv, mutex
<1> QED BY <1>1, <1>2 DEF MutexInv

\* Only a recursive mutex is deeper than one.
LEMMA DepthRecursive ==
  ASSUME TypeOK, MutexInv, NEW t \in Threads, (mayLock(t) /\ pthread_lock(t)) \/ pthread_unlock,
         depth # 0 \/ pthread_lock(t)
  PROVE  (depth > 1 => recursive)'
BY CondAssumption DEF TypeOK, MutexInv, mayLock, pthread_lock, pthread_unlock

\* Every step keeps the invariant of the mutex.
LEMMA StepMutex == ASSUME TypeOK, MutexInv, [Next]_vars PROVE MutexInv'
<1>1. CASE UNCHANGED vars
  BY <1>1, GoesOn DEF vars
<1>2. ASSUME NEW t \in Threads,
             sys_mutex_lock(t) \/ sys_mutex_lock_timed(t) \/ sys_mutex_trylock(t)
      PROVE  MutexInv'
  <2>1. pc' = pc /\ held' = held /\ pc[t] = "run"
    BY <1>2 DEF sys_mutex_lock, sys_mutex_lock_timed, sys_mutex_trylock
  <2>2. CASE mayLock(t) /\ pthread_lock(t)
    <3>1. \A u \in Threads \ {t} : Depth(u)'
      BY <2>1, <2>2, LockOthers
    <3>2. Depth(t)'
      BY <2>1 DEF Depth
    <3> QED BY <2>2, <3>1, <3>2, DepthRecursive DEF MutexInv
  <2>3. CASE UNCHANGED mutex
    BY <2>1, <2>3, GoesOn
  <2> QED BY <1>2, <2>2, <2>3 DEF sys_mutex_lock, sys_mutex_lock_timed, sys_mutex_trylock
<1>3. ASSUME NEW t \in Threads, sys_mutex_unlock(t) PROVE MutexInv'
  <2>1. pc' = pc /\ held' = held /\ pc[t] = "run"
    BY <1>3 DEF sys_mutex_unlock
  <2>2. CASE owner = t
    <3>1. pthread_unlock /\ depth # 0
      BY <1>3, <2>2, CondAssumption DEF sys_mutex_unlock, TypeOK
    <3>2. \A u \in Threads \ {t} : Depth(u)'
      BY <2>1, <2>2, <3>1, UnlockOthers
    <3>3. Depth(t)'
      BY <2>1 DEF Depth
    <3> QED BY <3>1, <3>2, <3>3, DepthRecursive DEF MutexInv
  <2>3. CASE owner # t
    <3>1. UNCHANGED mutex
      BY <1>3, <2>3 DEF sys_mutex_unlock
    <3> QED BY <2>1, <3>1, GoesOn
  <2> QED BY <2>2, <2>3
<1>4. ASSUME NEW t \in Threads, NEW hasTimeout \in BOOLEAN, wait_push(t, hasTimeout)
      PROVE  MutexInv'
  <2>1. /\ UNCHANGED mutex /\ pc' = [pc EXCEPT ![t] = "pushed"]
        /\ held' = [held EXCEPT ![t] = IF owner = t THEN depth ELSE 0]
    BY <1>4 DEF wait_push
  <2>2. \A u \in Threads \ {t} : pc'[u] = pc[u] /\ held'[u] = held[u]
    BY <2>1 DEF TypeOK
  <2>3. \A u \in Threads \ {t} : Depth(u)'
    BY <2>1, <2>2, SameMutex
  <2>4. Depth(t)'
    BY <2>1, CondAssumption DEF Depth, TypeOK, mutex
  <2>5. (depth > 1 => recursive)'
    BY <2>1 DEF MutexInv, mutex
  <2> QED BY <2>3, <2>4, <2>5 DEF MutexInv
<1>5. ASSUME NEW t \in Threads, wait_unlock(t) PROVE MutexInv'
  <2>1. /\ pc[t] = "pushed" /\ pc' = [pc EXCEPT ![t] = "unlocked"] /\ held' = held
        /\ IF owner = t THEN pthread_unlock ELSE UNCHANGED mutex
    BY <1>5 DEF wait_unlock
  <2>2. \A u \in Threads \ {t} : pc'[u] = pc[u] /\ held'[u] = held[u]
    BY <2>1 DEF TypeOK
  <2>3. held[t] \in Nat /\ pc'[t] = "unlocked" /\ held'[t] = held[t]
    BY <2>1 DEF TypeOK
  <2>4. CASE owner = t
    <3>1. pthread_unlock /\ depth # 0 /\ depth \in Nat /\ depth = held[t]
      BY <2>1, <2>3, <2>4, CondAssumption DEF MutexInv, Depth, TypeOK
    <3>2. \A u \in Threads \ {t} : Depth(u)'
      BY <2>2, <2>4, <3>1, UnlockOthers
    <3>3. Depth(t)'
      BY <2>3, <2>4, <3>1, CondAssumption DEF Depth, pthread_unlock
    <3> QED BY <3>1, <3>2, <3>3, DepthRecursive DEF MutexInv
  <2>5. CASE owner # t
    <3>1. UNCHANGED mutex /\ held[t] = 0
      BY <2>1, <2>3, <2>5 DEF MutexInv, Depth
    <3>2. \A u \in Threads \ {t} : Depth(u)'
      BY <2>2, <3>1, SameMutex
    <3>3. Depth(t)'
      BY <2>3, <2>5, <3>1 DEF Depth, mutex
    <3>4. (depth > 1 => recursive)'
      BY <3>1 DEF MutexInv, mutex
    <3> QED BY <3>2, <3>3, <3>4 DEF MutexInv
  <2> QED BY <2>4, <2>5
<1>6. ASSUME NEW t \in Threads,
             wait_enter(t) \/ wait_check(t) \/ wait_timeout(t) \/ spurious(t)
      PROVE  MutexInv'
  <2>1. /\ UNCHANGED <<mutex, held>>
        /\ pc[t] \in {"unlocked", "asleep", "awake", "relock"}
        /\ \E s \in {"asleep", "awake", "relock"} : pc' = [pc EXCEPT ![t] = s]
    BY <1>6 DEF wait_enter, wait_check, wait_timeout, spurious, check
  <2> QED BY <2>1, GoesOn DEF TypeOK
<1>7. ASSUME NEW t \in Threads, wait_relock(t) PROVE MutexInv'
  <2>1. /\ mayLock(t) /\ pthread_lock(t) /\ pc' = [pc EXCEPT ![t] = "run"] /\ held' = held
    BY <1>7 DEF wait_relock
  <2>2. \A u \in Threads \ {t} : Depth(u)'
    BY <2>1, LockOthers DEF TypeOK
  <2>3. Depth(t)'
    BY <2>1 DEF Depth, TypeOK
  <2> QED BY <2>1, <2>2, <2>3, DepthRecursive DEF MutexInv
<1>8. ASSUME NEW s \in Threads, NEW t \in Threads,
             sys_cond_signal(s) \/ sys_cond_signal_all(s) \/ sys_cond_signal_to(s, t)
      PROVE  MutexInv'
  <2>1. UNCHANGED <<mutex, held>> /\ (pc' = pc \/ pc' = notify_all)
    BY <1>8 DEF sys_cond_signal, sys_cond_signal_all, sys_cond_signal_to
  <2> QED BY <2>1, GoesOn DEF notify_all
<1> QED BY <1>1, <1>2, <1>3, <1>4, <1>5, <1>6, <1>7, <1>8 DEF Next, Call, Inside

\* The thread that returns had the mutex as deep but for the one lock it gave up.
LEMMA ReturnHolds ==
  ASSUME TypeOK, MutexInv, [Next]_vars, NEW t \in Threads,
         pc[t] # "run", pc'[t] = "run", held[t] > 0
  PROVE  owner' = t /\ depth' = held[t]
<1>1. ASSUME NEW u \in Threads, Call(u) \/ wait_timeout(u) \/ spurious(u) PROVE FALSE
  BY <1>1 DEF Call, sys_mutex_lock, sys_mutex_lock_timed, sys_mutex_trylock, sys_mutex_unlock,
              wait_push, sys_cond_signal, sys_cond_signal_all, sys_cond_signal_to,
              notify_all, wait_timeout, spurious, TypeOK
<1>2. ASSUME NEW u \in Threads, wait_unlock(u) \/ wait_enter(u) \/ wait_check(u) PROVE FALSE
  BY <1>2 DEF wait_unlock, wait_enter, wait_check, check, TypeOK
<1>3. pc' # pc
  OBVIOUS
<1>4. PICK u \in Threads : wait_relock(u)
  BY <1>1, <1>2, <1>3 DEF Next, Inside, vars
<1>5. u = t
  BY <1>4 DEF wait_relock, TypeOK
<1>6. pc[t] = "relock" /\ mayLock(t) /\ pthread_lock(t) /\ held[t] \in Nat
  BY <1>4, <1>5 DEF wait_relock, TypeOK
<1>7. IF held[t] > 1 THEN owner = t /\ depth = held[t] - 1 ELSE owner # t
  BY <1>6 DEF MutexInv, Depth
<1> QED BY <1>6, <1>7 DEF mayLock, pthread_lock, TypeOK

\* A thread returns from sys_cond_wait with the mutex as deep as it had it.
\* Behaviour: ~pthread_mutex_lock_on_exit, at every depth of a recursive mutex.
THEOREM WaitReturnsMutex == Spec => ReturnsWithMutex
<1>1. Init => TypeOK /\ MutexInv
  <2>1. ASSUME Init PROVE TypeOK
    BY <2>1, CondAssumption DEF Init, TypeOK
  <2>2. ASSUME Init PROVE MutexInv
    BY <2>2 DEF Init, MutexInv, Depth
  <2> QED BY <2>1, <2>2
<1>2. TypeOK /\ MutexInv /\ [Next]_vars => (TypeOK /\ MutexInv)'
  BY StepTypes, StepMutex
<1>3. TypeOK /\ MutexInv /\ [Next]_vars
      => [\A t \in Threads : pc[t] # "run" /\ pc'[t] = "run" /\ held[t] > 0
                               => owner' = t /\ depth' = held[t]]_vars
  BY ReturnHolds
<1> QED BY <1>1, <1>2, <1>3, PTL DEF Spec, ReturnsWithMutex
-----------------------------------------------------------------------------
(* The event flag and the semaphore.                                       *)

\* Two steps the actions share, one value under one mutex.
LEMMA TakeTypes ==
  ASSUME WaitTypeOK, NEW t \in Callers, NEW w \in FlagWaits \cup {semaphoreWait}, take(t, w)
  PROVE  /\ value' \subseteq Bits /\ val' \in Int
         /\ state' \in [Callers -> {"run", "asleep", "awake"}]
         /\ sets' = sets /\ taken' \in [Bits -> Nat]
<1>1. CASE w.on = "semaphore"
  BY <1>1 DEF take, WaitTypeOK, flagVars
<1>2. CASE w.on # "semaphore"
  <2>1. cleared(w) \subseteq Bits
    BY <1>2 DEF cleared, WaitTypeOK, FlagWaits, semaphoreWait
  <2>2. taken' \in [Bits -> Nat]
    BY <1>2 DEF take, WaitTypeOK
  <2> QED BY <1>2, <2>1, <2>2 DEF take, WaitTypeOK
<1> QED BY <1>1, <1>2

LEMMA SleepTypes ==
  ASSUME WaitTypeOK, NEW t \in Callers, sleep(t)
  PROVE  /\ value' \subseteq Bits /\ val' \in Int
         /\ state' \in [Callers -> {"run", "asleep", "awake"}]
         /\ sets' = sets /\ taken' \in [Bits -> Nat]
BY DEF sleep, WaitTypeOK, flagVars

LEMMA AwakenTypes ==
  ASSUME WaitTypeOK, NEW kind, awaken(kind)
  PROVE  state' \in [Callers -> {"run", "asleep", "awake"}]
BY DEF awaken, WaitTypeOK

LEMMA WaitTypes == ASSUME WaitTypeOK, [ObjectNext]_waitVars PROVE WaitTypeOK'
<1>1. ASSUME NEW t \in Callers, NEW w \in FlagWaits \cup {semaphoreWait}, wait(t, w)
      PROVE  WaitTypeOK'
  <2>1. wants' \in [Callers -> FlagWaits \cup {semaphoreWait}]
    BY <1>1 DEF wait, WaitTypeOK
  <2>2. take(t, w) \/ sleep(t)
    BY <1>1 DEF wait
  <2> QED BY <2>1, <2>2, TakeTypes, SleepTypes DEF WaitTypeOK
<1>2. ASSUME NEW t \in Callers, awakened(t) PROVE WaitTypeOK'
  <2>1. wants' = wants /\ wants[t] \in FlagWaits \cup {semaphoreWait}
    BY <1>2 DEF awakened, WaitTypeOK
  <2>2. take(t, wants[t]) \/ sleep(t)
    BY <1>2 DEF awakened
  <2> QED BY <2>1, <2>2, TakeTypes, SleepTypes DEF WaitTypeOK
<1>3. ASSUME NEW t \in Callers, awakenAlone(t) PROVE WaitTypeOK'
  BY <1>3 DEF awakenAlone, WaitTypeOK, flagVars
<1>4. ASSUME NEW t \in Callers, NEW b \in Bits, sys_event_flag_set(t, b) PROVE WaitTypeOK'
  <2>1. state' \in [Callers -> {"run", "asleep", "awake"}]
    BY <1>4, AwakenTypes DEF sys_event_flag_set
  <2> QED BY <1>4, <2>1 DEF sys_event_flag_set, WaitTypeOK
<1>5. ASSUME NEW t \in Callers, NEW bits \in SUBSET Bits, sys_event_flag_clear(t, bits)
      PROVE  WaitTypeOK'
  BY <1>5 DEF sys_event_flag_clear, WaitTypeOK
<1>6. ASSUME NEW t \in Callers, NEW n \in 1 .. MaxPost, sys_semaphore_post(t, n)
      PROVE  WaitTypeOK'
  <2>1. state' \in [Callers -> {"run", "asleep", "awake"}]
    BY <1>6, AwakenTypes DEF sys_semaphore_post, WaitTypeOK
  <2>2. val' \in Int
    BY <1>6, WaitAssumption DEF sys_semaphore_post, WaitTypeOK
  <2> QED BY <1>6, <2>1, <2>2 DEF sys_semaphore_post, WaitTypeOK, flagVars
<1>7. CASE UNCHANGED waitVars
  BY <1>7 DEF waitVars, flagVars, WaitTypeOK
<1> QED BY <1>1, <1>2, <1>3, <1>4, <1>5, <1>6, <1>7 DEF ObjectNext, ObjectCall

LEMMA WaitInitTypes == WaitInit => WaitTypeOK
BY DEF WaitInit, WaitTypeOK, semaphoreWait

\* What a wait does to the threads that sleep: it only takes values away, or sleeps
\* because its condition does not hold.
LEMMA TakeWakesNobody ==
  ASSUME WaitTypeOK, NEW t \in Callers, NEW w \in FlagWaits \cup {semaphoreWait}, take(t, w),
         holds(w), val >= 0, NEW v
  PROVE  holds(v)' => holds(v)
<1>1. CASE w.on = "semaphore"
  <2>1. val # 0 /\ value' = value
    BY <1>1 DEF take, holds, flagVars
  <2> QED BY <1>1, <2>1 DEF holds
<1>2. CASE w.on # "semaphore"
  <2>1. val' = val /\ value' \subseteq value
    BY <1>2 DEF take, cleared, FlagWaits, semaphoreWait
  <2> QED BY <2>1 DEF holds
<1> QED BY <1>1, <1>2

LEMMA StepSleepers ==
  ASSUME WaitTypeOK, NoneSleepsInVain, val >= 0, [ObjectNext]_waitVars
  PROVE  NoneSleepsInVain'
<1> SUFFICES ASSUME NEW u \in Callers, state'[u] = "asleep" PROVE ~holds(wants[u])'
  BY DEF NoneSleepsInVain
<1> USE DEF WaitTypeOK
<1>0. ASSUME state[u] = "asleep", wants'[u] = wants[u], holds(wants[u])' => holds(wants[u])
      PROVE  ~holds(wants[u])'
  BY <1>0 DEF NoneSleepsInVain
<1>1. ASSUME NEW t \in Callers, NEW w \in FlagWaits \cup {semaphoreWait}, wait(t, w)
      PROVE  ~holds(wants[u])'
  <2>1. CASE holds(w)
    <3>1. take(t, w)
      BY <1>1, <2>1 DEF wait
    <3>2. u # t /\ state[u] = "asleep" /\ wants'[u] = wants[u]
      BY <1>1, <3>1 DEF take, wait
    <3>3. holds(wants[u])' => holds(wants[u])
      <4> DEFINE v == wants[u]
      <4>1. wants[u]' = v
        BY <3>2
      <4> QED BY <2>1, <3>1, <3>2, TakeWakesNobody DEF holds
    <3> QED BY <1>0, <3>2, <3>3
  <2>2. CASE ~holds(w)
    <3>1. sleep(t)
      BY <1>1, <2>2 DEF wait
    <3>2. value' = value /\ val' = val
      BY <3>1 DEF sleep, flagVars
    <3>3. CASE u = t
      BY <1>1, <2>2, <3>2, <3>3 DEF wait, holds
    <3>4. CASE u # t
      BY <1>1, <3>1, <3>2, <3>4 DEF wait, sleep, holds, NoneSleepsInVain
    <3> QED BY <3>3, <3>4
  <2> QED BY <2>1, <2>2
<1>2. ASSUME NEW t \in Callers, awakened(t) PROVE ~holds(wants[u])'
  <2>0. wants' = wants
    BY <1>2 DEF awakened
  <2>1. CASE holds(wants[t])
    <3>1. take(t, wants[t]) /\ wants[t] \in FlagWaits \cup {semaphoreWait}
      BY <1>2, <2>1 DEF awakened
    <3>2. u # t /\ state[u] = "asleep"
      BY <1>2, <3>1 DEF take
    <3>3. holds(wants[u])' => holds(wants[u])
      BY <2>0, <2>1, <3>1, TakeWakesNobody DEF holds
    <3> QED BY <1>0, <2>0, <3>2, <3>3
  <2>2. CASE ~holds(wants[t])
    <3>1. sleep(t)
      BY <1>2, <2>2 DEF awakened
    <3> QED BY <2>0, <2>2, <3>1 DEF sleep, flagVars, holds, NoneSleepsInVain
  <2> QED BY <2>1, <2>2
<1>3. ASSUME NEW t \in Callers, awakenAlone(t) PROVE ~holds(wants[u])'
  BY <1>3 DEF awakenAlone, flagVars, holds, NoneSleepsInVain
<1>4. ASSUME NEW t \in Callers, NEW b \in Bits, sys_event_flag_set(t, b)
      PROVE  ~holds(wants[u])'
  <2>1. state[u] = "asleep" /\ wants[u].on # "flag" /\ wants' = wants /\ val' = val
    BY <1>4 DEF sys_event_flag_set, awaken
  <2>2. wants[u].on = "semaphore"
    BY <2>1 DEF FlagWaits, semaphoreWait
  <2> QED BY <2>1, <2>2 DEF holds, NoneSleepsInVain
<1>5. ASSUME NEW t \in Callers, NEW bits \in SUBSET Bits, sys_event_flag_clear(t, bits)
      PROVE  ~holds(wants[u])'
  <2>1. value' \subseteq value /\ UNCHANGED <<val, state, wants>>
    BY <1>5 DEF sys_event_flag_clear
  <2>2. holds(wants[u])' => holds(wants[u])
    BY <2>1 DEF holds
  <2> QED BY <1>0, <2>1, <2>2
<1>6. ASSUME NEW t \in Callers, NEW n \in 1 .. MaxPost, sys_semaphore_post(t, n)
      PROVE  ~holds(wants[u])'
  <2>0. wants' = wants /\ value' = value
    BY <1>6 DEF sys_semaphore_post, flagVars
  <2>1. CASE val = MaxVal
    BY <1>6, <2>0, <2>1 DEF sys_semaphore_post, holds, NoneSleepsInVain
  <2>2. CASE val # MaxVal
    <3>1. state[u] = "asleep" /\ wants[u].on # "semaphore"
      BY <1>6, <2>2 DEF sys_semaphore_post, awaken
    <3> QED BY <2>0, <3>1 DEF holds, NoneSleepsInVain
  <2> QED BY <2>1, <2>2
<1>7. CASE UNCHANGED waitVars
  BY <1>7 DEF waitVars, flagVars, holds, NoneSleepsInVain
<1> QED BY <1>1, <1>2, <1>3, <1>4, <1>5, <1>6, <1>7 DEF ObjectNext, ObjectCall

\* A bit that is set has been set once more than waits took it.
TakenBehind ==
  /\ val >= 0
  /\ \A b \in Bits : taken[b] <= sets[b] /\ (b \in value => taken[b] < sets[b])

LEMMA TakeBehind ==
  ASSUME WaitTypeOK, TakenBehind, NEW t \in Callers, NEW w \in FlagWaits \cup {semaphoreWait},
         holds(w), take(t, w)
  PROVE  TakenBehind'
<1> USE DEF WaitTypeOK
<1>1. CASE w.on = "semaphore"
  BY <1>1 DEF take, holds, flagVars, TakenBehind
<1>2. CASE w.on # "semaphore"
  <2>1. w \in FlagWaits /\ val' = val /\ sets' = sets /\ value' = cleared(w)
    BY <1>2 DEF take, semaphoreWait
  <2>2. ASSUME NEW b \in Bits
        PROVE  taken'[b] <= sets[b] /\ (b \in value' => taken'[b] < sets[b])
    <3>1. CASE w.bits = {b} /\ w.clear = "bits"
      <4>1. b \in value /\ b \notin value'
        BY <1>2, <2>1, <3>1 DEF holds, cleared
      <4>2. taken'[b] = taken[b] + 1
        BY <1>2, <3>1 DEF take
      <4>3. taken[b] \in Nat /\ sets[b] \in Nat /\ taken[b] < sets[b]
        BY <4>1 DEF TakenBehind
      <4> QED BY <4>1, <4>2, <4>3
    <3>2. CASE ~(w.bits = {b} /\ w.clear = "bits")
      <4>1. taken'[b] = taken[b]
        BY <1>2, <3>2 DEF take
      <4>2. b \in value' => b \in value
        BY <2>1 DEF cleared, FlagWaits
      <4> QED BY <4>1, <4>2 DEF TakenBehind
    <3> QED BY <3>1, <3>2
  <2> QED BY <2>1, <2>2 DEF TakenBehind
<1> QED BY <1>1, <1>2

LEMMA StepBehind ==
  ASSUME WaitTypeOK, TakenBehind, [ObjectNext]_waitVars PROVE TakenBehind'
<1> USE DEF WaitTypeOK
<1>1. ASSUME NEW t \in Callers, sleep(t) PROVE TakenBehind'
  BY <1>1 DEF sleep, flagVars, TakenBehind
<1>2. ASSUME NEW t \in Callers, NEW w \in FlagWaits \cup {semaphoreWait}, wait(t, w)
      PROVE  TakenBehind'
  <2>1. (holds(w) /\ take(t, w)) \/ sleep(t)
    BY <1>2 DEF wait
  <2> QED BY <1>1, <2>1, TakeBehind
<1>3. ASSUME NEW t \in Callers, awakened(t) PROVE TakenBehind'
  <2>1. (holds(wants[t]) /\ take(t, wants[t])) \/ sleep(t)
    BY <1>3 DEF awakened
  <2>2. wants[t] \in FlagWaits \cup {semaphoreWait}
    OBVIOUS
  <2> QED BY <1>1, <2>1, <2>2, TakeBehind
<1>4. ASSUME NEW t \in Callers, awakenAlone(t) PROVE TakenBehind'
  BY <1>4 DEF awakenAlone, flagVars, TakenBehind
<1>5. ASSUME NEW t \in Callers, NEW b \in Bits, sys_event_flag_set(t, b) PROVE TakenBehind'
  BY <1>5 DEF sys_event_flag_set, TakenBehind
<1>6. ASSUME NEW t \in Callers, NEW bits \in SUBSET Bits, sys_event_flag_clear(t, bits)
      PROVE  TakenBehind'
  BY <1>6 DEF sys_event_flag_clear, TakenBehind
<1>7. ASSUME NEW t \in Callers, NEW n \in 1 .. MaxPost, sys_semaphore_post(t, n)
      PROVE  TakenBehind'
  BY <1>7, WaitAssumption DEF sys_semaphore_post, flagVars, TakenBehind
<1>8. CASE UNCHANGED waitVars
  BY <1>8 DEF waitVars, flagVars, TakenBehind
<1> QED BY <1>2, <1>3, <1>4, <1>5, <1>6, <1>7, <1>8 DEF ObjectNext, ObjectCall

ObjectInv == WaitTypeOK /\ TakenBehind /\ NoneSleepsInVain

LEMMA ObjectInvariant == WaitSpec => []ObjectInv
<1>1. WaitInit => ObjectInv
  <2> SUFFICES ASSUME WaitInit PROVE ObjectInv
    OBVIOUS
  <2>1. WaitTypeOK
    BY WaitInitTypes
  <2>2. TakenBehind
    BY DEF WaitInit, TakenBehind
  <2>3. NoneSleepsInVain
    BY DEF WaitInit, NoneSleepsInVain
  <2> QED BY <2>1, <2>2, <2>3 DEF ObjectInv
<1>2. ObjectInv /\ [ObjectNext]_waitVars => ObjectInv'
  <2> SUFFICES ASSUME ObjectInv, [ObjectNext]_waitVars PROVE ObjectInv'
    OBVIOUS
  <2>1. val >= 0
    BY DEF ObjectInv, TakenBehind
  <2> QED BY <2>1, WaitTypes, StepBehind, StepSleepers DEF ObjectInv
<1> QED BY <1>1, <1>2, PTL DEF WaitSpec

\* Whatever the calls of the threads at an event flag and a semaphore and whenever
\* their timeouts end, no thread sleeps while its condition holds.
\* Behaviour: notify_all under the mutex of the waits.
THEOREM NobodySleepsInVain == WaitSpec => []NoneSleepsInVain
<1>1. ObjectInv => NoneSleepsInVain
  BY DEF ObjectInv
<1> QED BY <1>1, ObjectInvariant, PTL

\* A bit ends no more clearing waits than it was set, and the unsigned value of the
\* semaphore is never taken below zero, for any number of threads and bits.
\* Behaviour: each thread that is awakened looks at the value again.
THEOREM OneWaitPerSignal == WaitSpec => []OnePerSignal
<1>1. ObjectInv => OnePerSignal
  BY DEF ObjectInv, TakenBehind, OnePerSignal
<1> QED BY <1>1, ObjectInvariant, PTL
-----------------------------------------------------------------------------
(* ConcurrentQueue.                                                        *)

\* A thread that waits to send has an event to send.
SendersHaveItem == \A t \in Users : call[t] = "send" => item[t] \in Items

\* A place in the queue of waiters is never given ahead of the clock.
ArrivalsPast == \A t \in Users : arrival[t] <= clock

QueueInv ==
  /\ QueueTypeOK /\ SendersHaveItem /\ ArrivalsPast
  /\ Bounded /\ NoLostWakeup /\ TopIsBest

\* A step of _mutex's critical sections keeps every type, and what a sender
\* waits with is an event.
LEMMA TypesStep == QueueTypeOK /\ SendersHaveItem /\ ArrivalsPast /\ [QueueNext]_queueVars
                     => (QueueTypeOK /\ SendersHaveItem /\ ArrivalsPast)'
<1> SUFFICES ASSUME QueueTypeOK, SendersHaveItem, ArrivalsPast, [QueueNext]_queueVars
             PROVE  (QueueTypeOK /\ SendersHaveItem /\ ArrivalsPast)'
  OBVIOUS
<1>v. values \in Seq(Items)
  BY DEF QueueTypeOK
<1>a. ASSUME NEW e \in Items, values' = Append(values, e)
      PROVE  values' \in Seq(Items)
  BY <1>v, <1>a
<1>b. ASSUME values # << >>
      PROVE  Tail(values) \in Seq(Items) /\ <<Head(values)>> \in Seq(Items)
  BY <1>v, <1>b
<1>c. ASSUME values' = << >> \/ values' = values
      PROVE  values' \in Seq(Items)
  <2>1. CASE values' = << >>
    BY <2>1
  <2>2. CASE values' = values
    BY <1>v, <2>2
  <2> QED BY <1>c, <2>1, <2>2
<1> USE QueueAssumption DEF QueueTypeOK, SendersHaveItem, ArrivalsPast, queue, notify
<1>1. ASSUME NEW t \in Users, NEW e \in Items, Send(t, e)
      PROVE  (QueueTypeOK /\ SendersHaveItem /\ ArrivalsPast)'
  BY <1>1 DEF Send
<1>2. ASSUME NEW t \in Users, NEW e \in Items, SendWait(t, e)
      PROVE  (QueueTypeOK /\ SendersHaveItem /\ ArrivalsPast)'
  BY <1>2 DEF SendWait
<1>3. ASSUME NEW t \in Users, SendWake(t)
      PROVE  (QueueTypeOK /\ SendersHaveItem /\ ArrivalsPast)'
  <2>1. item[t] \in Items
    BY <1>3 DEF SendWake
  <2>2. values' \in Seq(Items)
    <3>1. values' = Append(values, item[t]) \/ values' = values
      BY <1>3 DEF SendWake
    <3> QED BY <2>1, <3>1, <1>a, <1>c
  <2>4. asleep' \subseteq Users /\ call' \in [Users -> {"none", "send", "receive"}]
    BY <1>3 DEF SendWake
  <2>3. SendersHaveItem'
    BY <1>3 DEF SendWake
  <2> QED BY <1>3, <2>2, <2>3, <2>4 DEF SendWake
<1>4. ASSUME NEW t \in Users, ReceiveNow(t)
      PROVE  (QueueTypeOK /\ SendersHaveItem /\ ArrivalsPast)'
  <2>1. front' \in Users \cup {Nobody}
    BY <1>4 DEF ReceiveNow, best
  <2>2. values' \in Seq(Items) /\ got' \in [Users -> Seq(Items)]
    BY <1>4 DEF ReceiveNow
  <2>3. byPriority' = byPriority /\ arrival' \in [Users -> Nat] /\ clock' \in Nat /\ ArrivalsPast'
    BY <1>4 DEF ReceiveNow
  <2> QED BY <1>4, <2>1, <2>2, <2>3 DEF ReceiveNow
<1>5. ASSUME NEW t \in Users, ReceiveWait(t)
      PROVE  (QueueTypeOK /\ SendersHaveItem /\ ArrivalsPast)'
  <2>1. front' \in Users \cup {Nobody}
    BY <1>5 DEF ReceiveWait, push, top
  <2>3. byPriority' = byPriority /\ arrival' \in [Users -> Nat] /\ clock' \in Nat /\ ArrivalsPast'
    BY <1>5 DEF ReceiveWait, push
  <2> QED BY <1>5, <2>1, <2>3 DEF ReceiveWait, push
<1>6. ASSUME NEW t \in Users, ReceiveWake(t)
      PROVE  (QueueTypeOK /\ SendersHaveItem /\ ArrivalsPast)'
  <2>1. front' \in Users \cup {Nobody}
    BY <1>6 DEF ReceiveWake, pop, best
  <2>2. values' \in Seq(Items) /\ got' \in [Users -> Seq(Items)]
    <3>1. CASE values # << >> /\ front = t
      <4>1. values' = Tail(values) /\ got' = [got EXCEPT ![t] = <<Head(values)>>]
        BY <1>6, <3>1 DEF ReceiveWake
      <4> QED BY <3>1, <4>1, <1>b
    <3>2. CASE ~(values # << >> /\ front = t)
      BY <1>6, <3>2 DEF ReceiveWake
    <3> QED BY <3>1, <3>2
  <2>3. waiting' \subseteq Users /\ UNCHANGED <<byPriority, arrival, clock, item>>
    BY <1>6 DEF ReceiveWake, pop, queue
  <2> QED BY <1>6, <2>1, <2>2, <2>3 DEF ReceiveWake
<1>7. ASSUME NEW t \in Users, NEW n \in Batches, TryReceive(t, n)
      PROVE  (QueueTypeOK /\ SendersHaveItem /\ ArrivalsPast)'
  <2> DEFINE number == IF n < Len(values) THEN n ELSE Len(values)
  <2>1. number \in Nat /\ number <= Len(values)
    OBVIOUS
  <2>2. values' \in Seq(Items) /\ got' \in [Users -> Seq(Items)]
    BY <1>7, <2>1 DEF TryReceive
  <2> QED BY <1>7, <2>2 DEF TryReceive
<1>8. ASSUME NEW t \in Users, Drain(t) \/ Spurious(t)
      PROVE  (QueueTypeOK /\ SendersHaveItem /\ ArrivalsPast)'
  <2>1. values' \in Seq(Items)
    <3>1. values' = << >> \/ values' = values
      BY <1>8 DEF Drain, Spurious
    <3> QED BY <3>1, <1>c
  <2>2. asleep' \subseteq Users /\ UNCHANGED <<byPriority, waiting, arrival, front, clock, call, item, got>>
    BY <1>8 DEF Drain, Spurious, queue
  <2> QED BY <2>1, <2>2
<1>9. CASE UNCHANGED queueVars
  BY <1>9 DEF queueVars
<1> QED BY <1>1, <1>2, <1>3, <1>4, <1>5, <1>6, <1>7, <1>8, <1>9 DEF QueueNext, QueueCall, Wake

\* The queue never outgrows its size.
LEMMA BoundedStep == QueueTypeOK /\ Bounded /\ [QueueNext]_queueVars => Bounded'
<1> SUFFICES ASSUME QueueTypeOK, Bounded, [QueueNext]_queueVars
             PROVE  Bounded'
  OBVIOUS
<1> USE QueueAssumption DEF QueueTypeOK, Bounded
<1>1. ASSUME NEW t \in Users, NEW e \in Items, Send(t, e) \/ SendWait(t, e)
      PROVE  Bounded'
  BY <1>1 DEF Send, SendWait
<1>2. ASSUME NEW t \in Users, SendWake(t)
      PROVE  Bounded'
  BY <1>2 DEF SendWake
<1>3. ASSUME NEW t \in Users, ReceiveNow(t) \/ ReceiveWait(t) \/ ReceiveWake(t)
      PROVE  Bounded'
  BY <1>3 DEF ReceiveNow, ReceiveWait, ReceiveWake
<1>4. ASSUME NEW t \in Users, NEW n \in Batches, TryReceive(t, n)
      PROVE  Bounded'
  <2> DEFINE number == IF n < Len(values) THEN n ELSE Len(values)
  <2>1. number \in Nat /\ number <= Len(values)
    OBVIOUS
  <2>2. values' = SubSeq(values, number + 1, Len(values))
    BY <1>4 DEF TryReceive
  <2>3. Len(values') <= Len(values)
    <3> HIDE DEF number
    <3> QED BY <2>1, <2>2
  <2> QED BY <2>2, <2>3
<1>5. ASSUME NEW t \in Users, Drain(t) \/ Spurious(t)
      PROVE  Bounded'
  BY <1>5 DEF Drain, Spurious
<1>6. CASE UNCHANGED queueVars
  BY <1>6 DEF queueVars
<1> QED BY <1>1, <1>2, <1>3, <1>4, <1>5, <1>6 DEF QueueNext, QueueCall, Wake

\* The top of _waiting is one of the best, after any push or pop.
LEMMA TopStep == QueueTypeOK /\ ArrivalsPast /\ TopIsBest /\ [QueueNext]_queueVars => TopIsBest'
<1> SUFFICES ASSUME QueueTypeOK, ArrivalsPast, TopIsBest, [QueueNext]_queueVars
             PROVE  TopIsBest'
  OBVIOUS
<1> USE QueueAssumption
<1>a. ASSUME UNCHANGED <<byPriority, waiting, arrival, front>>,
             {t \in Users : call'[t] = "receive"} = {t \in Users : call[t] = "receive"}
      PROVE  TopIsBest'
  BY <1>a DEF TopIsBest, best, goesBefore
<1>1. ASSUME NEW t \in Users, NEW e \in Items, Send(t, e) \/ SendWait(t, e)
      PROVE  TopIsBest'
  BY <1>1, <1>a DEF Send, SendWait, queue, QueueTypeOK
<1>2. ASSUME NEW t \in Users, SendWake(t)
      PROVE  TopIsBest'
  BY <1>2, <1>a DEF SendWake, queue, QueueTypeOK
<1>3. ASSUME NEW t \in Users, ReceiveNow(t)
      PROVE  TopIsBest'
  <2>1. t \notin waiting /\ UNCHANGED <<byPriority, waiting, call>>
    BY <1>3 DEF ReceiveNow, TopIsBest
  <2>2. \A u \in waiting : arrival'[u] = arrival[u]
    BY <1>3, <2>1 DEF ReceiveNow, QueueTypeOK
  <2>3. IF waiting = {} THEN front' = Nobody ELSE front' \in best(waiting)
    BY <1>3 DEF ReceiveNow
  <2> QED BY <2>1, <2>2, <2>3 DEF TopIsBest, best, goesBefore
<1>4. ASSUME NEW t \in Users, ReceiveWait(t)
      PROVE  TopIsBest'
  <2>1. /\ t \notin waiting /\ waiting' = waiting \cup {t}
        /\ waiting' = {u \in Users : call'[u] = "receive"}
        /\ byPriority' = byPriority
    BY <1>4 DEF ReceiveWait, push, TopIsBest, QueueTypeOK
  <2>2. /\ arrival'[t] = clock + 1 /\ \A u \in waiting : arrival'[u] = arrival[u]
        /\ \A u \in waiting : arrival[u] \in Nat /\ arrival[u] <= clock
        /\ clock \in Nat
    BY <1>4, <2>1 DEF ReceiveWait, push, QueueTypeOK, ArrivalsPast
  <2>3. front' = IF waiting = {} \/ (byPriority /\ Priority[t] > Priority[front]) THEN t ELSE front
    BY <1>4 DEF ReceiveWait, push, top
  <2>4. waiting # {} => front \in waiting /\ \A u \in waiting : ~goesBefore(u, front)
    BY DEF TopIsBest, best
  <2>5. front' \in waiting'
    BY <2>1, <2>3, <2>4
  <2>6. ASSUME NEW u \in waiting'
        PROVE  ~(IF byPriority THEN Priority[u] > Priority[front'] ELSE arrival'[u] < arrival'[front'])
    <3>1. waiting \subseteq Users /\ Priority[t] \in Nat /\ \A w \in waiting : Priority[w] \in Nat
      BY DEF QueueTypeOK
    <3>2. CASE waiting = {}
      BY <2>1, <2>2, <2>3, <3>1, <3>2
    <3>3. CASE waiting # {} /\ byPriority
      BY <2>1, <2>3, <2>4, <3>1, <3>3 DEF goesBefore
    <3>4. CASE waiting # {} /\ ~byPriority
      BY <2>1, <2>2, <2>3, <2>4, <3>4 DEF goesBefore
    <3> QED BY <3>2, <3>3, <3>4
  <2> QED BY <2>1, <2>5, <2>6 DEF TopIsBest, best, goesBefore
<1>5. ASSUME NEW t \in Users, ReceiveWake(t)
      PROVE  TopIsBest'
  <2>1. CASE values # << >> /\ front = t
    <3>1. pop(t) /\ call' = [call EXCEPT ![t] = "none"]
      BY <1>5, <2>1 DEF ReceiveWake
    <3>2. /\ waiting' = waiting \ {t} /\ UNCHANGED <<byPriority, arrival>>
          /\ waiting' = {u \in Users : call'[u] = "receive"}
      BY <3>1 DEF pop, TopIsBest, QueueTypeOK
    <3>3. IF waiting = {t} THEN front' = Nobody ELSE front' \in best(waiting \ {t})
      BY <3>1 DEF pop
    <3>4. (waiting \ {t} = {}) <=> (waiting = {t})
      BY <1>5 DEF ReceiveWake, TopIsBest
    <3> QED BY <3>2, <3>3, <3>4 DEF TopIsBest, best, goesBefore
  <2>2. CASE ~(values # << >> /\ front = t)
    BY <1>5, <2>2, <1>a DEF ReceiveWake, queue
  <2> QED BY <2>1, <2>2
<1>6. ASSUME NEW t \in Users, NEW n \in Batches, TryReceive(t, n)
      PROVE  TopIsBest'
  BY <1>6, <1>a DEF TryReceive, queue
<1>7. ASSUME NEW t \in Users, Drain(t) \/ Spurious(t)
      PROVE  TopIsBest'
  BY <1>7, <1>a DEF Drain, Spurious, queue
<1>8. CASE UNCHANGED queueVars
  BY <1>8, <1>a DEF queueVars
<1> QED BY <1>1, <1>2, <1>3, <1>4, <1>5, <1>6, <1>7, <1>8 DEF QueueNext, QueueCall, Wake

\* No step leaves a thread asleep whose chance has come.
LEMMA WakeupStep == QueueTypeOK /\ TopIsBest /\ NoLostWakeup /\ [QueueNext]_queueVars => NoLostWakeup'
<1> SUFFICES ASSUME QueueTypeOK, TopIsBest, NoLostWakeup, [QueueNext]_queueVars
             PROVE  NoLostWakeup'
  OBVIOUS
<1> USE QueueAssumption DEF NoLostWakeup, notify, queue
<1>1. ASSUME NEW t \in Users, NEW e \in Items, Send(t, e) \/ SendWait(t, e)
      PROVE  NoLostWakeup'
  <2>1. CASE Send(t, e)
    BY <2>1 DEF Send
  <2>2. CASE SendWait(t, e)
    <3>1. /\ UNCHANGED <<values, front>> /\ asleep' = asleep \cup {t} /\ Len(values) >= Size
          /\ call'[t] = "send" /\ \A u \in asleep : u # t => call'[u] = call[u]
      BY <2>2 DEF SendWait, QueueTypeOK
    <3> QED BY <3>1
  <2> QED BY <1>1, <2>1, <2>2
<1>2. ASSUME NEW t \in Users, SendWake(t)
      PROVE  NoLostWakeup'
  BY <1>2 DEF SendWake, QueueTypeOK
<1>3. ASSUME NEW t \in Users, ReceiveNow(t)
      PROVE  NoLostWakeup'
  BY <1>3 DEF ReceiveNow
<1>4. ASSUME NEW t \in Users, ReceiveWait(t)
      PROVE  NoLostWakeup'
  <2>1. /\ values' = values /\ asleep' = asleep \cup {t} /\ t \notin asleep
        /\ front' = top(t) /\ call' = [call EXCEPT ![t] = "receive"]
    BY <1>4 DEF ReceiveWait, push
  <2>2. t \notin waiting
    BY <1>4 DEF ReceiveWait, TopIsBest
  <2>3. values = << >> \/ front' # t
    BY <1>4 DEF ReceiveWait, push
  <2>4. ASSUME NEW u \in asleep
        PROVE  \/ call[u] = "send" /\ Len(values) >= Size
               \/ call[u] = "receive" /\ (values = << >> \/ front' # u)
    BY <2>1, <2>2 DEF top, TopIsBest
  <2> QED BY <2>1, <2>3, <2>4 DEF QueueTypeOK
<1>5. ASSUME NEW t \in Users, ReceiveWake(t)
      PROVE  NoLostWakeup'
  BY <1>5 DEF ReceiveWake, QueueTypeOK
<1>6. ASSUME NEW t \in Users, NEW n \in Batches, TryReceive(t, n)
      PROVE  NoLostWakeup'
  BY <1>6 DEF TryReceive
<1>7. ASSUME NEW t \in Users, Drain(t) \/ Spurious(t)
      PROVE  NoLostWakeup'
  BY <1>7 DEF Drain, Spurious
<1>8. CASE UNCHANGED queueVars
  BY <1>8 DEF queueVars
<1> QED BY <1>1, <1>2, <1>3, <1>4, <1>5, <1>6, <1>7, <1>8 DEF QueueNext, QueueCall, Wake

\* The inductive invariant of the queue.
THEOREM QueueInvariant == QueueSpec => []QueueInv
<1>1. QueueInit => QueueInv
  BY QueueAssumption DEF QueueInit, QueueInv, QueueTypeOK, SendersHaveItem, ArrivalsPast, Bounded,
     NoLostWakeup, TopIsBest
<1>2. QueueInv /\ [QueueNext]_queueVars => QueueInv'
  BY TypesStep, BoundedStep, TopStep, WakeupStep DEF QueueInv
<1> QED BY <1>1, <1>2, PTL DEF QueueSpec

\* Every variable of ConcurrentQueue keeps its type and the queue its bound.
THEOREM QueueBounded == QueueSpec => [](QueueTypeOK /\ Bounded)
<1>1. QueueInv => QueueTypeOK /\ Bounded
  BY DEF QueueInv
<1> QED BY <1>1, QueueInvariant, PTL

\* No sender or receiver of ConcurrentQueue sleeps while it could be served.
THEOREM NobodySleepsOn == QueueSpec => []NoLostWakeup
<1>1. QueueInv => NoLostWakeup
  BY DEF QueueInv
<1> QED BY <1>1, QueueInvariant, PTL

\* _waiting.top() is one of the best of the threads that wait.
THEOREM TopOfWaiting == QueueSpec => []TopIsBest
<1>1. QueueInv => TopIsBest
  BY DEF QueueInv
<1> QED BY <1>1, QueueInvariant, PTL

\* Who takes an event by receive takes it out of turn of nobody who waits.
THEOREM NobodyOvertaken == QueueSpec => ServedInOrder
<1> DEFINE Overtakes(t, u) == IF byPriority THEN Priority[u] > Priority[t]
                              ELSE u # t /\ arrival'[u] < arrival'[t]
           Takes(t) == got'[t] # got[t] /\ (call[t] = "receive" \/ arrival'[t] # arrival[t])
           InOrder == \A t \in Users : Takes(t) => \A u \in waiting : ~Overtakes(t, u)
<1>1. ASSUME QueueInv, [QueueNext]_queueVars
      PROVE  [InOrder]_queueVars
  <2>0. QueueTypeOK /\ TopIsBest
    BY <1>1 DEF QueueInv
  <2>1. ASSUME NEW t \in Users, ReceiveNow(t)
        PROVE  InOrder
    <3>1. \A v \in Users : v # t => got'[v] = got[v]
      BY <2>0, <2>1 DEF ReceiveNow, QueueTypeOK
    <3>2. top(t) = t /\ t \notin waiting
      BY <2>0, <2>1 DEF ReceiveNow, TopIsBest
    <3>3. ASSUME NEW u \in waiting
          PROVE  byPriority /\ ~(Priority[u] > Priority[t])
      <4>1. front \in waiting /\ ~goesBefore(u, front)
        BY <2>0, <3>3 DEF TopIsBest, best
      <4>2. byPriority /\ Priority[t] > Priority[front]
        BY <3>2, <3>3, <4>1 DEF top
      <4>3. Priority[t] \in Nat /\ Priority[u] \in Nat /\ Priority[front] \in Nat
        BY <2>0, <3>3, <4>1, QueueAssumption DEF QueueTypeOK
      <4> QED BY <4>1, <4>2, <4>3 DEF goesBefore
    <3> QED BY <3>1, <3>3
  <2>2. ASSUME NEW t \in Users, ReceiveWake(t)
        PROVE  InOrder
    <3>1. CASE values # << >> /\ front = t
      <4>1. arrival' = arrival /\ \A v \in Users : v # t => got'[v] = got[v]
        BY <2>0, <2>2, <3>1 DEF ReceiveWake, pop, QueueTypeOK
      <4>2. \A u \in waiting : ~goesBefore(u, t)
        BY <2>0, <3>1 DEF TopIsBest, best
      <4> QED BY <4>1, <4>2 DEF goesBefore
    <3>2. CASE ~(values # << >> /\ front = t)
      BY <2>2, <3>2 DEF ReceiveWake
    <3> QED BY <3>1, <3>2
  <2>3. ASSUME NEW t \in Users, NEW n \in Batches, TryReceive(t, n)
        PROVE  InOrder
    <3>1. arrival' = arrival /\ call[t] = "none" /\ \A v \in Users : v # t => got'[v] = got[v]
      BY <2>0, <2>3 DEF TryReceive, queue, QueueTypeOK
    <3> QED BY <3>1
  <2>4. ASSUME UNCHANGED got
        PROVE  InOrder
    BY <2>4
  <2>5. ASSUME NEW t \in Users, NEW e \in Items, Send(t, e) \/ SendWait(t, e)
        PROVE  UNCHANGED got
    BY <2>5 DEF Send, SendWait
  <2>6. ASSUME NEW t \in Users, ReceiveWait(t) \/ Drain(t) \/ SendWake(t) \/ Spurious(t)
        PROVE  UNCHANGED got
    BY <2>6 DEF ReceiveWait, Drain, SendWake, Spurious
  <2> HIDE DEF InOrder
  <2> QED BY <1>1, <2>1, <2>2, <2>3, <2>4, <2>5, <2>6 DEF QueueNext, QueueCall, Wake
<1> QED BY <1>1, QueueInvariant, PTL DEF QueueSpec, ServedInOrder

\* A step of ConcurrentQueue is a step of the abstract queue, or none.
LEMMA RefinementStep == QueueInv /\ [QueueNext]_queueVars => [Abstract!Next]_(Abstract!absVars)
<1> SUFFICES ASSUME QueueInv, QueueNext \/ UNCHANGED queueVars
             PROVE  Abstract!Next \/ UNCHANGED Abstract!absVars
  OBVIOUS
<1> USE QueueAssumption DEF Abstract!absVars, queue
<1>0. QueueTypeOK /\ TopIsBest /\ SendersHaveItem
  BY DEF QueueInv
<1>r. Abstract!receivers = waiting
  BY <1>0 DEF Abstract!receivers, TopIsBest
<1>1. ASSUME NEW t \in Users, NEW e \in Items, Send(t, e)
      PROVE  Abstract!Send(t, e)
  BY <1>1 DEF Send, Abstract!Send
<1>2. ASSUME NEW t \in Users, NEW e \in Items, SendWait(t, e)
      PROVE  Abstract!AwaitRoom(t, e)
  BY <1>2 DEF SendWait, Abstract!AwaitRoom, Abstract!Begin
<1>3. ASSUME NEW t \in Users, SendWake(t)
      PROVE  Abstract!CompleteSend(t) \/ UNCHANGED Abstract!absVars
  BY <1>3 DEF SendWake, Abstract!CompleteSend
<1>4. ASSUME NEW t \in Users, ReceiveNow(t)
      PROVE  Abstract!Receive(t)
  <2>1. call' = [call EXCEPT ![t] = "none"]
    BY <1>0, <1>4 DEF ReceiveNow, QueueTypeOK
  <2>2. front' \in Abstract!turnOf(waiting)
    BY <1>4 DEF ReceiveNow, Abstract!turnOf, best
  <2> QED BY <1>4, <1>r, <2>1, <2>2 DEF ReceiveNow, Abstract!Receive, Abstract!End
<1>5. ASSUME NEW t \in Users, ReceiveWait(t)
      PROVE  Abstract!AwaitEvent(t)
  <2>1. front' \in Abstract!turnOf(waiting \cup {t})
    BY <1>0, <1>5 DEF ReceiveWait, push, top, Abstract!turnOf, TopIsBest, best
  <2> QED BY <1>5, <1>r, <2>1 DEF ReceiveWait, Abstract!AwaitEvent, Abstract!Begin
<1>6. ASSUME NEW t \in Users, ReceiveWake(t)
      PROVE  Abstract!CompleteReceive(t) \/ UNCHANGED Abstract!absVars
  <2>1. CASE values # << >> /\ front = t
    <3>1. front' \in Abstract!turnOf(waiting \ {t})
      BY <1>6, <2>1 DEF ReceiveWake, pop, Abstract!turnOf, best
    <3> QED BY <1>6, <1>r, <2>1, <3>1 DEF ReceiveWake, Abstract!CompleteReceive, Abstract!End
  <2>2. CASE ~(values # << >> /\ front = t)
    BY <1>6, <2>2 DEF ReceiveWake
  <2> QED BY <2>1, <2>2
<1>7. ASSUME NEW t \in Users, NEW n \in Batches, TryReceive(t, n)
      PROVE  \E k \in 0 .. Len(values) : Abstract!Poll(t, k)
  <2> DEFINE number == IF n < Len(values) THEN n ELSE Len(values)
  <2>1. number \in 0 .. Len(values)
    BY <1>0 DEF QueueTypeOK
  <2>2. call' = [call EXCEPT ![t] = "none"]
    BY <1>0, <1>7 DEF TryReceive, QueueTypeOK
  <2>3. Abstract!Poll(t, number)
    BY <1>7, <2>2 DEF TryReceive, Abstract!Poll, Abstract!End
  <2> QED BY <2>1, <2>3
<1>8. ASSUME NEW t \in Users, Drain(t)
      PROVE  Abstract!Clear(t)
  BY <1>8 DEF Drain, Abstract!Clear
<1>9. ASSUME NEW t \in Users, Spurious(t)
      PROVE  UNCHANGED Abstract!absVars
  BY <1>9 DEF Spurious
<1>10. CASE UNCHANGED queueVars
  BY <1>10 DEF queueVars
<1>11. CASE QueueNext
  <2>1. PICK t \in Users : QueueCall(t) \/ Wake(t) \/ Spurious(t)
    BY <1>11 DEF QueueNext
  <2>2. CASE QueueCall(t)
    BY <2>2, <1>1, <1>2, <1>4, <1>5, <1>7, <1>8 DEF QueueCall, Abstract!Next
  <2>3. CASE Wake(t)
    BY <2>3, <1>3, <1>6 DEF Wake, Abstract!Next
  <2> QED BY <2>1, <2>2, <2>3, <1>9
<1> QED BY <1>10, <1>11

\* ConcurrentQueue implements the abstract bounded queue: a call that waits is
\* served by the same event, in the same order, as if waiting took no step.
THEOREM QueueImplements == QueueSpec => Abstract!AbsSpec
<1>1. QueueInit => Abstract!Init
  BY DEF QueueInit, Abstract!Init
<1> QED BY <1>1, RefinementStep, QueueInvariant, PTL DEF QueueSpec, Abstract!AbsSpec

-----------------------------------------------------------------------------
(* The life of PPU threads (ThreadLife).                                    *)
(*                                                                         *)
(* A thread that is to be joined has exactly one owner: the handle that    *)
(* the program keeps, then the thread that joins it, then the Joined event *)
(* that Process::run handles.  LifeInv says so; it speaks of the time      *)
(* before _processFinished only, since the end of the process removes a    *)
(* thread that others may join.                                            *)


joining(t) == at[t] \in {"join", "Joined"}
joinHandled == handling # None /\ handling.event = "Joined"

\* _threads and _threadIds agree.
IdsNameObjects ==
  /\ \A i \in DOMAIN ids : object[ids[i]] = "alive" /\ idOf[ids[i]] = i
  /\ \A o \in Objects : object[o] = "alive" => idOf[o] \in DOMAIN ids /\ ids[idOf[o]] = o

\* An id that was not joined is in use, and names the thread it was made for.
HandlesOpen == \A h \in handles : h.id \in DOMAIN ids /\ ids[h.id] = h.thread

\* The stages of an object and of its thread.
Stages ==
  \A o \in Objects :
    /\ object[o] = "unborn" <=> at[o] = "unborn"
    /\ object[o] = "removed" => at[o] = "done"

\* The queue's event is the one its sender waits with.
QueueFaithful ==
  eventQueue # << >> =>
    /\ at[Head(eventQueue).sender] = Head(eventQueue).event
    /\ Head(eventQueue).event = "Joined" =>
         Head(eventQueue).thread = target[Head(eventQueue).sender]

\* A thread that is being joined is owned by the thread that joins it.
JoinsApart ==
  \A t \in Objects : joining(t) =>
    /\ target[t] \in Objects /\ target[t] = means[t] /\ object[target[t]] = "alive"
    /\ at[t] = "Joined" => at[target[t]] = "done"
    /\ \A h \in handles : h.thread # target[t]
    /\ \A u \in Objects : joining(u) /\ u # t => target[u] # target[t]
    /\ joinHandled => handling.thread # target[t]

\* A thread that has been joined is owned by the event, until it is removed.
HandledJoin ==
  joinHandled =>
    /\ handling.thread \in Objects
    /\ object[handling.thread] = "alive" /\ at[handling.thread] = "done"
    /\ \A h \in handles : h.thread # handling.thread

Owned == IdsNameObjects /\ HandlesOpen /\ Stages /\ QueueFaithful /\ JoinsApart /\ HandledJoin
LifeInv == LifeTypeOK /\ (~finished => ~failed /\ Owned)

\* Before the program starts there is its primary thread, and nothing else.
LEMMA InitOwned == ASSUME LifeInit PROVE LifeInv
<1> USE LifeAssumption DEF LifeInit
<1>1. LifeTypeOK
  <2>1. eventQueue \in Seq(ThreadEvents) /\ Len(eventQueue) <= 1
    OBVIOUS
  <2>2. DOMAIN ids \subseteq Nat \ {0} /\ ids \in [DOMAIN ids -> Objects]
    OBVIOUS
  <2>3. object \in [Objects -> {"unborn", "alive", "removed"}] /\ idOf \in [Objects -> Nat]
    OBVIOUS
  <2>4. at \in [Objects -> Events \cup {"unborn", "created", "run", "join", "joined",
                                        "ending", "done"}]
    BY DEF Events
  <2>5. /\ sent \in [Objects -> BOOLEAN] /\ graceful \in [Objects -> BOOLEAN]
        /\ target \in [Objects -> Objects \cup {None}] /\ means \in [Objects -> Objects \cup {None}]
        /\ joinRet \in [Objects -> {"none", "exit code", "anything"}]
    OBVIOUS
  <2> QED BY <2>1, <2>2, <2>3, <2>4, <2>5
          DEF LifeTypeOK, ObjectTypes, ThreadTypes, FlagTypes, QueueTypes
<1>2. Owned
  BY DEF Owned, IdsNameObjects, HandlesOpen, Stages, QueueFaithful, JoinsApart, HandledJoin,
         joining, joinHandled
<1> QED BY <1>1, <1>2 DEF LifeInv

\* What a step does to the objects: it creates one, or removes one, or neither.
LEMMA ObjectTypesStep == ASSUME LifeTypeOK, [LifeNext]_lifeVars PROVE ObjectTypes'
<1> USE DEF LifeTypeOK, ObjectTypes, objects, loop, program
<1>1. ASSUME NEW t \in Objects, NEW o \in Objects, sys_ppu_thread_create(t, o)
      PROVE  ObjectTypes'
  <2>1. PICK i \in 1 .. Cardinality(DOMAIN ids) + 1 :
          /\ ids' = [j \in DOMAIN ids \cup {i} |-> IF j = i THEN o ELSE ids[j]]
          /\ idOf' = [idOf EXCEPT ![o] = i]
    BY <1>1 DEF sys_ppu_thread_create
  <2>2. i \in Nat \ {0}
    BY <2>1
  <2>3. DOMAIN ids' \subseteq Nat \ {0} /\ ids' \in [DOMAIN ids' -> Objects]
    BY <2>1, <2>2
  <2> QED BY <1>1, <2>1, <2>2, <2>3 DEF sys_ppu_thread_create
<1>2. CASE handle
  <2>2. CASE removeThread(handling.thread)
    BY <2>2 DEF removeThread, Restrict
  <2> QED BY <1>2, <2>2 DEF handle
<1>3. CASE UNCHANGED objects
  BY <1>3
<1>4. \/ \E t, o \in Objects : sys_ppu_thread_create(t, o)
      \/ handle \/ UNCHANGED objects
  BY DEF LifeNext, LifeCall, LifeInside, Run, sys_ppu_thread_start, sys_ppu_thread_join,
         sys_ppu_thread_exit, sys_process_exit, fault, send, loopEnds, joinThread, joinReturns,
         dequeue, finish, lifeVars
<1> QED BY <1>1, <1>2, <1>3, <1>4

\* What a step does to the threads.
LEMMA ThreadTypesStep == ASSUME LifeTypeOK, [LifeNext]_lifeVars PROVE ThreadTypes'
<1> DEFINE places == Events \cup {"unborn", "created", "run", "join", "joined", "ending", "done"}
<1>a. /\ at \in [Objects -> places]
      /\ target \in [Objects -> Objects \cup {None}] /\ means \in [Objects -> Objects \cup {None}]
      /\ joinRet \in [Objects -> {"none", "exit code", "anything"}]
  BY DEF LifeTypeOK, ThreadTypes
<1>b. /\ handles \subseteq [id : Nat, thread : Objects]
      /\ eventQueue \in Seq(ThreadEvents) /\ ids \in [DOMAIN ids -> Objects]
  BY DEF LifeTypeOK, QueueTypes, ObjectTypes
<1>c. ASSUME at' \in [Objects -> places], UNCHANGED <<target, means, joinRet>>
      PROVE  ThreadTypes'
  BY <1>a, <1>c DEF ThreadTypes
<1>d. ASSUME NEW t, NEW place \in places, goes(t, place)
      PROVE  at' \in [Objects -> places]
  BY <1>a, <1>d DEF goes
<1>1. ASSUME NEW t \in Objects, NEW o \in Objects, sys_ppu_thread_create(t, o)
      PROVE  ThreadTypes'
  BY <1>1, <1>c, <1>d DEF sys_ppu_thread_create
<1>2. ASSUME NEW t \in Objects, NEW h \in handles, sys_ppu_thread_start(t, h.id)
      PROVE  ThreadTypes'
  BY <1>2, <1>c, <1>d DEF sys_ppu_thread_start, Events, program
<1>3. ASSUME NEW t \in Objects, NEW h \in handles, sys_ppu_thread_join(t, h)
      PROVE  ThreadTypes'
  <2>1. h.thread \in Objects /\ (h.id \in DOMAIN ids => ids[h.id] \in Objects)
    BY <1>b
  <2>2. means' = [means EXCEPT ![t] = h.thread] /\ joinRet' = joinRet
    BY <1>3 DEF sys_ppu_thread_join
  <2>3. \/ target' = target /\ at' = at
        \/ h.id \in DOMAIN ids /\ target' = [target EXCEPT ![t] = ids[h.id]] /\ goes(t, "join")
    BY <1>3 DEF sys_ppu_thread_join
  <2>4. at' \in [Objects -> places]
    BY <1>a, <1>d, <2>3
  <2>5. target' \in [Objects -> Objects \cup {None}] /\ means' \in [Objects -> Objects \cup {None}]
    BY <1>a, <2>1, <2>2, <2>3
  <2> QED BY <1>a, <2>2, <2>4, <2>5 DEF ThreadTypes
<1>4. ASSUME NEW t \in Objects, sys_ppu_thread_exit(t) \/ sys_process_exit(t) \/ fault(t)
      PROVE  ThreadTypes'
  BY <1>4, <1>c, <1>d DEF sys_ppu_thread_exit, sys_process_exit, fault, Events, program
<1>5. ASSUME NEW t \in Objects, loopEnds(t) \/ joinThread(t)
      PROVE  ThreadTypes'
  BY <1>5, <1>c, <1>d DEF loopEnds, joinThread, Events, program
<1>6. ASSUME NEW t \in Objects, joinReturns(t)
      PROVE  ThreadTypes'
  <2>1. at' \in [Objects -> places]
    BY <1>6, <1>d DEF joinReturns, Events
  <2>2. joinRet' \in [Objects -> {"none", "exit code", "anything"}]
    BY <1>6, <1>a DEF joinReturns
  <2> QED BY <1>6, <1>a, <2>1, <2>2 DEF joinReturns, ThreadTypes, program
<1>7. CASE dequeue
  <2> DEFINE e == Head(eventQueue)
  <2>1. e \in ThreadEvents /\ goes(e.sender, after(e.event))
    BY <1>7, <1>b DEF dequeue
  <2>2. e.event \in Events
    BY <2>1 DEF ThreadEvents
  <2>3. after(e.event) \in places
    BY <2>2 DEF after, Events
  <2>4. at' \in [Objects -> places]
    BY <1>d, <2>1, <2>3
  <2> QED BY <1>7, <1>c, <2>4 DEF dequeue, program
<1>8. CASE UNCHANGED <<at, target, means, joinRet>>
  BY <1>8, <1>a DEF ThreadTypes
<1>9. \/ \E t, o \in Objects : sys_ppu_thread_create(t, o)
      \/ \E t \in Objects, h \in handles :
           sys_ppu_thread_start(t, h.id) \/ sys_ppu_thread_join(t, h)
      \/ \E t \in Objects : \/ sys_ppu_thread_exit(t) \/ sys_process_exit(t) \/ fault(t)
                            \/ loopEnds(t) \/ joinThread(t) \/ joinReturns(t)
      \/ dequeue \/ UNCHANGED <<at, target, means, joinRet>>
  BY DEF LifeNext, LifeCall, LifeInside, Run, send, handle, finish, lifeVars, program
<1> QED BY <1>1, <1>2, <1>3, <1>4, <1>5, <1>6, <1>7, <1>8, <1>9

\* The flags of the threads and of the loop.
LEMMA FlagTypesStep == ASSUME LifeTypeOK, [LifeNext]_lifeVars PROVE FlagTypes'
<1> USE DEF LifeTypeOK, FlagTypes, loop
<1>1. ASSUME NEW t \in Objects, LifeCall(t) \/ LifeInside(t)
      PROVE  FlagTypes'
  BY <1>1 DEF LifeCall, LifeInside, sys_ppu_thread_create, sys_ppu_thread_start,
         sys_ppu_thread_join, sys_ppu_thread_exit, sys_process_exit, fault, send, loopEnds,
         joinThread, joinReturns
<1>2. CASE Run
  BY <1>2 DEF Run, dequeue, handle, removeThread, finish
<1> QED BY <1>1, <1>2 DEF LifeNext, lifeVars

\* The event queue, the event in hand and the program's handles.
LEMMA QueueTypesStep == ASSUME LifeTypeOK, [LifeNext]_lifeVars PROVE QueueTypes'
<1> USE DEF LifeTypeOK, QueueTypes, loop, program
<1>1. ASSUME NEW t \in Objects, send(t)
      PROVE  QueueTypes'
  <2> DEFINE e == [event |-> at[t], thread |-> IF at[t] = "Joined" THEN target[t] ELSE t,
                   sender |-> t]
  <2>1. eventQueue' = <<e>> /\ at[t] \in Events
    BY <1>1 DEF send
  <2>2. e \in ThreadEvents
    BY <1>1, <2>1 DEF ThreadEvents, ThreadTypes
  <2>3. eventQueue' \in Seq(ThreadEvents) /\ Len(eventQueue') <= 1
    BY <2>1, <2>2
  <2> QED BY <1>1, <2>3 DEF send
<1>2. ASSUME NEW t \in Objects, NEW o \in Objects, sys_ppu_thread_create(t, o)
      PROVE  QueueTypes'
  BY <1>2 DEF sys_ppu_thread_create
<1>3. ASSUME NEW t \in Objects, NEW h \in handles, sys_ppu_thread_join(t, h)
      PROVE  QueueTypes'
  BY <1>3 DEF sys_ppu_thread_join
<1>4. CASE dequeue
  <2>1. Head(eventQueue) \in ThreadEvents /\ eventQueue' = << >>
    BY <1>4 DEF dequeue
  <2>2. eventQueue' \in Seq(ThreadEvents) /\ Len(eventQueue') <= 1
    BY <2>1
  <2> QED BY <1>4, <2>1, <2>2 DEF dequeue
<1>5. CASE handle
  BY <1>5 DEF handle
<1>6. CASE UNCHANGED <<eventQueue, handling, handles>>
  BY <1>6
<1>7. \/ \E t \in Objects : send(t) \/ \E o \in Objects : sys_ppu_thread_create(t, o)
      \/ \E t \in Objects, h \in handles : sys_ppu_thread_join(t, h)
      \/ dequeue \/ handle \/ UNCHANGED <<eventQueue, handling, handles>>
  BY DEF LifeNext, LifeCall, LifeInside, Run, sys_ppu_thread_start, sys_ppu_thread_exit,
         sys_process_exit, fault, loopEnds, joinThread, joinReturns, finish, lifeVars
<1> QED BY <1>1, <1>2, <1>3, <1>4, <1>5, <1>6, <1>7

LEMMA LifeTypesStep == LifeTypeOK /\ [LifeNext]_lifeVars => LifeTypeOK'
BY ObjectTypesStep, ThreadTypesStep, FlagTypesStep, QueueTypesStep DEF LifeTypeOK

\* What the next lemmas assume of the state before a step.
Before == LifeTypeOK /\ ~failed /\ Owned

\* A thread that goes on, and neither joins nor waits for its event, owns no
\* thread and is owned by none that has ended.
LEMMA ThreadGoesOn ==
  ASSUME Before, UNCHANGED <<objects, target, eventQueue, handling, program>>,
         NEW t \in Objects, at[t] \in {"created", "run", "ending", "joined"},
         NEW place \in {"Started", "Failure", "Finished", "ProcessFinished", "run", "done"},
         goes(t, place)
  PROVE  Owned'
<1>a. at \in [Objects -> Events \cup {"unborn", "created", "run", "join", "joined",
                                      "ending", "done"}]
  BY DEF Before, LifeTypeOK, ThreadTypes
<1>b. \A o \in Objects : at'[o] = IF o = t THEN place ELSE at[o]
  BY <1>a DEF goes
<1>1. IdsNameObjects' /\ HandlesOpen'
  BY DEF Before, Owned, IdsNameObjects, HandlesOpen, objects, program
<1>2. Stages'
  BY <1>b DEF Before, Owned, Stages, objects
<1>3. QueueFaithful'
  <2>1. eventQueue # << >> => Head(eventQueue) \in ThreadEvents
    BY DEF Before, LifeTypeOK, QueueTypes
  <2> QED BY <1>b, <2>1 DEF Before, Owned, QueueFaithful, ThreadEvents, Events
<1>4. \A u \in Objects : joining(u)' => joining(u) /\ at'[u] = at[u]
  BY <1>b DEF joining
<1>5. joinHandled' <=> joinHandled
  BY DEF joinHandled
<1>6. JoinsApart'
  BY <1>b, <1>4, <1>5 DEF Before, Owned, JoinsApart, objects, program
<1>7. HandledJoin'
  BY <1>b, <1>5 DEF Before, Owned, HandledJoin, objects, program
<1> QED BY <1>1, <1>2, <1>3, <1>6, <1>7 DEF Owned

\* A new thread has a fresh id and is in no one's hands but its handle's.
LEMMA CreateOwned ==
  ASSUME Before, NEW t \in Objects, NEW o \in Objects, sys_ppu_thread_create(t, o)
  PROVE  Owned'
<1>1. PICK i \in 1 .. Cardinality(DOMAIN ids) + 1 :
        /\ isFree(i)
        /\ ids' = [j \in DOMAIN ids \cup {i} |-> IF j = i THEN o ELSE ids[j]]
        /\ idOf' = [idOf EXCEPT ![o] = i]
        /\ handles' = handles \cup {[id |-> i, thread |-> o]}
  BY DEF sys_ppu_thread_create
<1>2. i \notin DOMAIN ids
  BY <1>1 DEF isFree
<1>3. /\ object[o] = "unborn" /\ at[o] = "unborn" /\ at[t] = "run"
      /\ \A u \in Objects : at'[u] = IF u = o THEN "created" ELSE at[u]
      /\ \A u \in Objects : object'[u] = IF u = o THEN "alive" ELSE object[u]
      /\ \A u \in Objects : idOf'[u] = IF u = o THEN i ELSE idOf[u]
      /\ UNCHANGED <<target, means, eventQueue, handling>>
  BY <1>1 DEF sys_ppu_thread_create, goes, inProgram, Before, Owned, Stages, LifeTypeOK, ObjectTypes,
         ThreadTypes, loop
<1>4. IdsNameObjects'
  <2>1. \A j \in DOMAIN ids : ids[j] \in Objects /\ ids[j] # o
    BY <1>3 DEF Before, Owned, IdsNameObjects, LifeTypeOK, ObjectTypes
  <2> QED BY <1>1, <1>2, <1>3, <2>1 DEF Before, Owned, IdsNameObjects
<1>5. HandlesOpen'
  BY <1>1, <1>2 DEF Before, Owned, HandlesOpen
<1>6. Stages'
  BY <1>3 DEF Before, Owned, Stages
<1>7. QueueFaithful'
  <2>1. eventQueue # << >> => Head(eventQueue) \in ThreadEvents
    BY DEF Before, LifeTypeOK, QueueTypes
  <2> QED BY <1>3, <2>1 DEF Before, Owned, QueueFaithful, ThreadEvents, Events
<1>8. \A u \in Objects : joining(u)' => joining(u) /\ at'[u] = at[u]
  BY <1>3 DEF joining
<1>9. joinHandled' <=> joinHandled
  BY <1>3 DEF joinHandled
<1>10. \A h \in handles' : h \in handles \/ h.thread = o
  BY <1>1
<1>11. JoinsApart'
  BY <1>3, <1>8, <1>9, <1>10 DEF Before, Owned, JoinsApart
<1>12. HandledJoin'
  BY <1>3, <1>9, <1>10 DEF Before, Owned, HandledJoin
<1> QED BY <1>4, <1>5, <1>6, <1>7, <1>11, <1>12 DEF Owned

\* A join takes the thread over from its handle.
LEMMA JoinOwned ==
  ASSUME Before, NEW t \in Objects, NEW h \in handles, sys_ppu_thread_join(t, h)
  PROVE  Owned' /\ ~failed'
<1>1. /\ h.id \in DOMAIN ids /\ ids[h.id] = h.thread /\ h.thread \in Objects
      /\ object[h.thread] = "alive" /\ idOf[h.thread] = h.id
  BY DEF Before, Owned, HandlesOpen, IdsNameObjects, LifeTypeOK, QueueTypes
<1>2. /\ at[t] = "run" /\ handles' = handles \ {h} /\ failed' = failed
      /\ \A u \in Objects : at'[u] = IF u = t THEN "join" ELSE at[u]
      /\ \A u \in Objects : target'[u] = IF u = t THEN h.thread ELSE target[u]
      /\ \A u \in Objects : means'[u] = IF u = t THEN h.thread ELSE means[u]
      /\ UNCHANGED <<object, ids, idOf, eventQueue, handling>>
  BY <1>1 DEF sys_ppu_thread_join, goes, inProgram, Before, LifeTypeOK, ThreadTypes, objects, loop
<1>3. \A g \in handles' : g \in handles /\ g.thread # h.thread
  <2> SUFFICES ASSUME NEW g \in handles, g.thread = h.thread PROVE g = h
    BY <1>2
  <2>1. g.id = h.id
    BY <1>1 DEF Before, Owned, HandlesOpen, IdsNameObjects
  <2>2. g \in [id : Nat, thread : Objects] /\ h \in [id : Nat, thread : Objects]
    BY DEF Before, LifeTypeOK, QueueTypes
  <2> QED BY <2>1, <2>2
<1>4. IdsNameObjects' /\ HandlesOpen'
  BY <1>2 DEF Before, Owned, IdsNameObjects, HandlesOpen
<1>5. Stages'
  BY <1>2 DEF Before, Owned, Stages
<1>6. QueueFaithful'
  <2>1. eventQueue # << >> => Head(eventQueue) \in ThreadEvents
    BY DEF Before, LifeTypeOK, QueueTypes
  <2> QED BY <1>2, <2>1 DEF Before, Owned, QueueFaithful, ThreadEvents, Events
<1>7. /\ \A u \in Objects : joining(u)' => u = t \/ joining(u)
      /\ joinHandled' <=> joinHandled
  BY <1>2 DEF joining, joinHandled
<1>8. JoinsApart'
  <2>1. \A u \in Objects : joining(u) => target[u] # h.thread
    BY DEF Before, Owned, JoinsApart
  <2>2. joinHandled => handling.thread # h.thread
    BY DEF Before, Owned, HandledJoin
  <2>3. ASSUME NEW u \in Objects, joining(u)', u # t
        PROVE  /\ target'[u] \in Objects /\ target'[u] = means'[u] /\ object'[target'[u]] = "alive"
               /\ at'[u] = "Joined" => at'[target'[u]] = "done"
               /\ \A g \in handles' : g.thread # target'[u]
               /\ \A v \in Objects : joining(v)' /\ v # u => target'[v] # target'[u]
               /\ joinHandled' => handling'.thread # target'[u]
    BY <1>2, <1>3, <1>7, <2>1, <2>3 DEF Before, Owned, JoinsApart
  <2>4. /\ target'[t] = h.thread /\ target'[t] = means'[t] /\ object'[target'[t]] = "alive"
        /\ at'[t] # "Joined"
        /\ \A g \in handles' : g.thread # target'[t]
        /\ \A v \in Objects : joining(v)' /\ v # t => target'[v] # target'[t]
        /\ joinHandled' => handling'.thread # target'[t]
    BY <1>1, <1>2, <1>3, <1>7, <2>1, <2>2
  <2> QED BY <1>1, <2>3, <2>4 DEF JoinsApart
<1>9. HandledJoin'
  BY <1>2, <1>3, <1>7 DEF Before, Owned, HandledJoin
<1> QED BY <1>2, <1>4, <1>5, <1>6, <1>8, <1>9 DEF Owned, Before

\* The host thread has ended: the Joined event may be sent.
LEMMA JoinThreadOwned ==
  ASSUME Before, NEW t \in Objects, joinThread(t)
  PROVE  Owned'
<1>1. /\ at[t] = "join" /\ at[target[t]] = "done"
      /\ \A u \in Objects : at'[u] = IF u = t THEN "Joined" ELSE at[u]
      /\ UNCHANGED <<object, ids, idOf, target, means, handles, eventQueue, handling>>
  BY DEF joinThread, goes, Before, LifeTypeOK, ThreadTypes, objects, loop, program
<1>2. IdsNameObjects' /\ HandlesOpen' /\ Stages'
  BY <1>1 DEF Before, Owned, IdsNameObjects, HandlesOpen, Stages
<1>3. QueueFaithful'
  <2>1. eventQueue # << >> => Head(eventQueue) \in ThreadEvents
    BY DEF Before, LifeTypeOK, QueueTypes
  <2> QED BY <1>1, <2>1 DEF Before, Owned, QueueFaithful, ThreadEvents, Events
<1>4. /\ \A u \in Objects : joining(u)' <=> joining(u)
      /\ joinHandled' <=> joinHandled
  BY <1>1 DEF joining, joinHandled
<1>5. target[t] \in Objects /\ target[t] # t
  BY <1>1 DEF Before, Owned, JoinsApart, joining
<1>6. JoinsApart'
  BY <1>1, <1>4, <1>5 DEF Before, Owned, JoinsApart
<1>7. HandledJoin'
  BY <1>1, <1>4 DEF Before, Owned, HandledJoin
<1> QED BY <1>2, <1>3, <1>6, <1>7 DEF Owned

\* An event is put into the queue while its sender is at it.
LEMMA SendOwned ==
  ASSUME Before, NEW t \in Objects, send(t)
  PROVE  Owned'
<1>1. /\ eventQueue' = <<[event |-> at[t], sender |-> t,
                          thread |-> IF at[t] = "Joined" THEN target[t] ELSE t]>>
      /\ UNCHANGED <<object, ids, idOf, at, target, means, handles, handling>>
  BY DEF send, objects, program
<1>2. IdsNameObjects' /\ HandlesOpen' /\ Stages'
  BY <1>1 DEF Before, Owned, IdsNameObjects, HandlesOpen, Stages
<1>3. QueueFaithful'
  BY <1>1 DEF QueueFaithful
<1>4. JoinsApart' /\ HandledJoin'
  BY <1>1 DEF Before, Owned, JoinsApart, HandledJoin, joining, joinHandled
<1> QED BY <1>2, <1>3, <1>4 DEF Owned

\* The event takes the joined thread over from the thread that joined it.
LEMMA DequeueOwned ==
  ASSUME Before, dequeue
  PROVE  Owned'
<1> DEFINE e == Head(eventQueue)
<1>1. /\ e \in ThreadEvents /\ at[e.sender] = e.event
      /\ e.event = "Joined" => e.thread = target[e.sender]
      /\ handling = None /\ handling' = e /\ eventQueue' = << >>
      /\ UNCHANGED <<object, ids, idOf, target, means, handles>>
  <2>1. eventQueue \in Seq(ThreadEvents) /\ eventQueue # << >>
    BY DEF Before, LifeTypeOK, QueueTypes, dequeue
  <2>2. e \in ThreadEvents
    BY <2>1
  <2> QED BY <2>1, <2>2 DEF dequeue, Before, Owned, QueueFaithful, objects, program
<1>2. /\ e.sender \in Objects /\ e.event \in Events
      /\ after(e.event) \in {"run", "Finished", "joined", "ending"}
  BY <1>1 DEF ThreadEvents, after, Events
<1>3. \A u \in Objects : at'[u] = IF u = e.sender THEN after(e.event) ELSE at[u]
  BY <1>2 DEF dequeue, goes, Before, LifeTypeOK, ThreadTypes
<1>4. IdsNameObjects' /\ HandlesOpen'
  BY <1>1 DEF Before, Owned, IdsNameObjects, HandlesOpen
<1>5. Stages'
  BY <1>1, <1>2, <1>3 DEF Before, Owned, Stages, Events
<1>6. QueueFaithful'
  BY <1>1 DEF QueueFaithful
<1> HIDE DEF e
<1>7. /\ \A u \in Objects : joining(u)' => u # e.sender /\ joining(u) /\ at'[u] = at[u]
      /\ ~joinHandled /\ (joinHandled' => joining(e.sender) /\ at[e.sender] = "Joined"
                                          /\ handling'.thread = target[e.sender])
  BY <1>1, <1>2, <1>3 DEF joining, joinHandled
<1>8. \A u \in Objects : at[u] = "done" => at'[u] = "done"
  BY <1>1, <1>2, <1>3 DEF Events
<1>9. JoinsApart'
  BY <1>1, <1>2, <1>7, <1>8 DEF Before, Owned, JoinsApart
<1>10. HandledJoin'
  BY <1>1, <1>2, <1>7, <1>8 DEF Before, Owned, JoinsApart, HandledJoin
<1> QED BY <1>4, <1>5, <1>6, <1>9, <1>10 DEF Owned

\* A thread that was joined is removed, and nobody is left to know of it.
LEMMA HandleOwned ==
  ASSUME Before, handle, ~finished'
  PROVE  Owned' /\ ~failed'
<1> DEFINE o == handling.thread
<1>1. /\ handling # None /\ handling.event # "ProcessFinished" /\ handling' = None
      /\ UNCHANGED <<at, target, means, handles, eventQueue>>
  BY DEF handle, program
<1>2. ~joinHandled'
  BY <1>1 DEF joinHandled
<1>3. QueueFaithful' /\ HandledJoin'
  BY <1>1, <1>2 DEF Before, Owned, QueueFaithful, HandledJoin
<1>4. CASE handling.event # "Joined"
  <2>1. UNCHANGED <<object, ids, idOf, failed>>
    BY <1>1, <1>4 DEF handle, objects
  <2> QED BY <1>1, <1>2, <1>3, <2>1
          DEF Before, Owned, IdsNameObjects, HandlesOpen, Stages, JoinsApart, joining
<1>5. CASE handling.event = "Joined"
  <2>1. joinHandled
    BY <1>1, <1>5 DEF joinHandled
  <2>2. /\ o \in Objects /\ object[o] = "alive" /\ at[o] = "done"
        /\ \A h \in handles : h.thread # o
        /\ idOf[o] \in DOMAIN ids /\ ids[idOf[o]] = o
    BY <2>1 DEF Before, Owned, HandledJoin, IdsNameObjects
  <2>3. /\ object' = [object EXCEPT ![o] = "removed"] /\ ids' = Restrict(ids, DOMAIN ids \ {idOf[o]})
        /\ UNCHANGED <<idOf, failed>>
    BY <1>5, <2>2 DEF handle, removeThread
  <2>4. /\ \A u \in Objects : object'[u] = IF u = o THEN "removed" ELSE object[u]
        /\ DOMAIN ids' = DOMAIN ids \ {idOf[o]} /\ \A i \in DOMAIN ids' : ids'[i] = ids[i]
        /\ \A i \in DOMAIN ids : ids[i] \in Objects
    BY <2>3 DEF Restrict, Before, LifeTypeOK, ObjectTypes
  <2> HIDE DEF o
  <2>5. IdsNameObjects'
    BY <2>2, <2>3, <2>4 DEF Before, Owned, IdsNameObjects
  <2>6. HandlesOpen'
    BY <1>1, <2>2, <2>4 DEF Before, Owned, HandlesOpen
  <2>7. Stages'
    BY <1>1, <2>2, <2>4 DEF Before, Owned, Stages
  <2>8. JoinsApart'
    <3>1. \A u \in Objects : joining(u) => target[u] # o
      BY <2>1 DEF Before, Owned, JoinsApart, o
    <3> QED BY <1>1, <1>2, <2>4, <3>1 DEF Before, Owned, JoinsApart, joining
  <2> QED BY <1>3, <2>3, <2>5, <2>6, <2>7, <2>8 DEF Owned, Before
<1> QED BY <1>4, <1>5

\* Every step keeps the invariant.
LEMMA StepOwned == LifeInv /\ [LifeNext]_lifeVars => LifeInv'
<1> SUFFICES ASSUME LifeInv, [LifeNext]_lifeVars, ~finished' PROVE ~failed' /\ Owned'
  BY LifeTypesStep DEF LifeInv
<1>1. ~finished
  BY DEF LifeNext, LifeCall, LifeInside, Run, sys_ppu_thread_create, sys_ppu_thread_start,
         sys_ppu_thread_join, sys_ppu_thread_exit, sys_process_exit, fault, send, loopEnds,
         joinThread, joinReturns, dequeue, handle, finish, lifeVars, loop, LifeInv, LifeTypeOK,
         FlagTypes
<1>2. Before
  BY <1>1 DEF LifeInv, Before
<1>3. ASSUME NEW t \in Objects, NEW o \in Objects, sys_ppu_thread_create(t, o)
      PROVE  ~failed' /\ Owned'
  BY <1>2, <1>3, CreateOwned DEF sys_ppu_thread_create, Before
<1>4. ASSUME NEW t \in Objects, NEW h \in handles, sys_ppu_thread_join(t, h)
      PROVE  ~failed' /\ Owned'
  BY <1>2, <1>4, JoinOwned
<1>5. ASSUME NEW t \in Objects, NEW h \in handles, sys_ppu_thread_start(t, h.id)
      PROVE  ~failed' /\ Owned'
  <2>1. ids[h.id] \in Objects
    BY <1>5 DEF sys_ppu_thread_start, LifeInv, LifeTypeOK, ObjectTypes
  <2> QED BY <1>2, <1>5, <2>1, ThreadGoesOn DEF sys_ppu_thread_start, Before, loop
<1>6. ASSUME NEW t \in Objects,
             \/ sys_ppu_thread_exit(t) \/ sys_process_exit(t) \/ fault(t)
             \/ loopEnds(t) \/ joinReturns(t)
      PROVE  ~failed' /\ Owned'
  <2>1. UNCHANGED <<objects, target, eventQueue, handling, program, failed>>
    BY <1>6 DEF sys_ppu_thread_exit, sys_process_exit, fault, loopEnds, joinReturns, loop
  <2>2. at[t] \in {"run", "ending", "joined"}
    BY <1>6 DEF sys_ppu_thread_exit, sys_process_exit, fault, loopEnds, joinReturns, inProgram
  <2>3. PICK place \in {"Failure", "Finished", "ProcessFinished", "run", "done"} : goes(t, place)
    BY <1>6 DEF sys_ppu_thread_exit, sys_process_exit, fault, loopEnds, joinReturns
  <2> QED BY <1>2, <2>1, <2>2, <2>3, ThreadGoesOn DEF Before
<1>7. ASSUME NEW t \in Objects, joinThread(t) \/ send(t)
      PROVE  ~failed' /\ Owned'
  BY <1>2, <1>7, JoinThreadOwned, SendOwned DEF joinThread, send, Before
<1>8. CASE dequeue
  BY <1>2, <1>8, DequeueOwned DEF dequeue, Before
<1>9. CASE handle
  BY <1>2, <1>9, HandleOwned
<1>10. CASE finish
  BY <1>1, <1>10 DEF finish
<1>11. CASE UNCHANGED lifeVars
  BY <1>2, <1>11 DEF lifeVars, objects, loop, program, Before, Owned, IdsNameObjects, HandlesOpen,
         Stages, QueueFaithful, JoinsApart, HandledJoin, joining, joinHandled
<1> QED BY <1>3, <1>4, <1>5, <1>6, <1>7, <1>8, <1>9, <1>10, <1>11
        DEF LifeNext, LifeCall, LifeInside, Run

\* The invariant says more than the two properties.
LEMMA OwnedMeans == LifeInv => JoinReachesItsThread /\ ObjectsOutliveTheirThreads
BY DEF LifeInv, Owned, JoinsApart, Stages, joining, JoinReachesItsThread,
       ObjectsOutliveTheirThreads

\* The invariant holds in every state.
LEMMA AlwaysOwned == LifeSpec => []LifeInv
<1>1. LifeInit => LifeInv
  BY InitOwned
<1> QED BY <1>1, StepOwned, PTL DEF LifeSpec

\* Every join by id waits for the thread that was created with that id, although
\* ids are used again at once, and no lookup of an id or an object fails, until
\* the process ends.  Behaviour: createThread and removeThread.
THEOREM JoinsReach == LifeSpec => []JoinReachesItsThread
BY AlwaysOwned, OwnedMeans, PTL

\* No object is removed before its thread has ended, or before the Joined event
\* of the thread that joins it was taken, until the process ends.
\* Behaviour: Process::run removes a thread on Joined and on ProcessFinished.
THEOREM ObjectsOutlive == LifeSpec => []ObjectsOutliveTheirThreads
BY AlwaysOwned, OwnedMeans, PTL

\* Every variable of the model keeps its type.
THEOREM LifeTypes == LifeSpec => []LifeTypeOK
<1>1. LifeInv => LifeTypeOK
  BY DEF LifeInv
<1> QED BY <1>1, AlwaysOwned, PTL
=============================================================================
