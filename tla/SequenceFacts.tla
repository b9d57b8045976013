---------------------------- MODULE SequenceFacts ----------------------------
(***************************************************************************)
(* Facts about sequences that the proofs about queues, logs and member     *)
(* lists share: what Append, Tail and SubSeq do to the elements, and when  *)
(* a sequence has as many elements as places.                              *)
(***************************************************************************)
EXTENDS Integers, Sequences, FiniteSets, SequencesExt, FiniteSetTheorems,
        WellFoundedInduction, TLAPS

\* No element occurs twice.
Distinct(s) == \A i, j \in 1 .. Len(s) : s[i] = s[j] => i = j

\* push_back(): the last element is new, the others keep their places.
LEMMA AppendFacts ==
    ASSUME NEW S, NEW s \in Seq(S), NEW e \in S
    PROVE  /\ Append(s, e) \in Seq(S)
           /\ Append(s, e) # <<>>
           /\ Len(Append(s, e)) = Len(s) + 1
           /\ Append(s, e)[Len(s) + 1] = e
           /\ \A i \in 1 .. Len(s) : Append(s, e)[i] = s[i]
OBVIOUS

\* Taking the first element moves the others up.
LEMMA TailFacts ==
    ASSUME NEW S, NEW s \in Seq(S), s # <<>>
    PROVE  /\ Tail(s) \in Seq(S)
           /\ Len(s) \in Nat \ {0}
           /\ Len(Tail(s)) = Len(s) - 1
           /\ Head(s) = s[1] /\ Head(s) \in S
           /\ \A i \in 1 .. Len(s) - 1 : Tail(s)[i] = s[i + 1]
OBVIOUS

\* What a part of a sequence holds.
LEMMA SubSeqFacts ==
    ASSUME NEW S, NEW s \in Seq(S), NEW m \in Nat \ {0}, NEW n \in Nat,
           m <= n + 1, n <= Len(s)
    PROVE  /\ SubSeq(s, m, n) \in Seq(S)
           /\ Len(SubSeq(s, m, n)) = n - m + 1
           /\ \A i \in 1 .. n - m + 1 : SubSeq(s, m, n)[i] = s[m + i - 1]
OBVIOUS

\* What follows the first a elements, up to the n-th.
LEMMA PartFacts ==
    ASSUME NEW S, NEW s \in Seq(S), NEW a \in Nat, NEW n \in Nat,
           a <= n, n <= Len(s)
    PROVE  /\ SubSeq(s, a + 1, n) \in Seq(S)
           /\ Len(SubSeq(s, a + 1, n)) = n - a
           /\ \A i \in a + 1 .. n : Contains(SubSeq(s, a + 1, n), s[i])
<1>1. a + 1 \in Nat \ {0} /\ a + 1 <= n + 1 /\ n - (a + 1) + 1 = n - a
  OBVIOUS
<1>2. SubSeq(s, a + 1, n) \in Seq(S) /\ Len(SubSeq(s, a + 1, n)) = n - a
  BY <1>1, SubSeqFacts
<1>3. \A k \in 1 .. n - a : SubSeq(s, a + 1, n)[k] = s[a + 1 + k - 1]
  BY <1>1, SubSeqFacts
<1>4. ASSUME NEW i \in a + 1 .. n PROVE Contains(SubSeq(s, a + 1, n), s[i])
  <2>1. i - a \in 1 .. n - a /\ a + 1 + (i - a) - 1 = i
    OBVIOUS
  <2>2. SubSeq(s, a + 1, n)[i - a] = s[i]
    BY <1>3, <2>1
  <2>3. QED
    BY <1>2, <2>1, <2>2 DEF Contains
<1>5. QED
  BY <1>2, <1>4

\* Sequences of equal elements are equal.
LEMMA SeqEquality ==
    ASSUME NEW S, NEW s \in Seq(S), NEW t \in Seq(S), Len(s) = Len(t),
           \A i \in 1 .. Len(s) : s[i] = t[i]
    PROVE  s = t
OBVIOUS

\* The set of the elements is what is found at some place.
LEMMA ToSetFacts ==
    ASSUME NEW S, NEW s \in Seq(S)
    PROVE  /\ ToSet(s) \subseteq S
           /\ \A x : x \in ToSet(s) <=> Contains(s, x)
           /\ \A x : Contains(s, x) <=> \E i \in 1 .. Len(s) : s[i] = x
BY DEF ToSet, Contains

\* An appended element is there, with all others.
LEMMA AppendContains ==
    ASSUME NEW S, NEW s \in Seq(S), NEW e \in S
    PROVE  \A x : Contains(Append(s, e), x) <=> Contains(s, x) \/ x = e
<1>1. \A x : Contains(Append(s, e), x) => Contains(s, x) \/ x = e
  BY AppendFacts DEF Contains
<1>2. ASSUME NEW x, Contains(s, x) PROVE Contains(Append(s, e), x)
  <2>1. PICK i \in 1 .. Len(s) : s[i] = x
    BY <1>2 DEF Contains
  <2>2. i \in 1 .. Len(Append(s, e)) /\ Append(s, e)[i] = x
    BY <2>1, AppendFacts
  <2>3. QED
    BY <2>2 DEF Contains
<1>3. Contains(Append(s, e), e)
  <2>1. Len(s) + 1 \in 1 .. Len(Append(s, e)) /\ Append(s, e)[Len(s) + 1] = e
    BY AppendFacts
  <2>2. QED
    BY <2>1 DEF Contains
<1>4. QED
  BY <1>1, <1>2, <1>3

\* What is not first stays when the first is taken.
LEMMA TailContains ==
    ASSUME NEW S, NEW s \in Seq(S), s # <<>>
    PROVE  \A x : Contains(s, x) <=> x = Head(s) \/ Contains(Tail(s), x)
<1>1. ASSUME NEW x, Contains(s, x) PROVE x = Head(s) \/ Contains(Tail(s), x)
  <2>1. PICK i \in 1 .. Len(s) : s[i] = x
    BY <1>1 DEF Contains
  <2>2. CASE i = 1
    BY <2>1, <2>2, TailFacts
  <2>3. CASE i # 1
    <3>1. i - 1 \in 1 .. Len(Tail(s)) /\ Tail(s)[i - 1] = x
      BY <2>1, <2>3, TailFacts
    <3>2. QED
      BY <3>1 DEF Contains
  <2>4. QED
    BY <2>2, <2>3
<1>2. ASSUME NEW x, Contains(Tail(s), x) PROVE Contains(s, x)
  <2>1. PICK i \in 1 .. Len(Tail(s)) : Tail(s)[i] = x
    BY <1>2 DEF Contains
  <2>2. i + 1 \in 1 .. Len(s) /\ s[i + 1] = x
    BY <2>1, TailFacts
  <2>3. QED
    BY <2>2 DEF Contains
<1>3. Contains(s, Head(s))
  <2>1. 1 \in 1 .. Len(s) /\ s[1] = Head(s)
    BY TailFacts
  <2>2. QED
    BY <2>1 DEF Contains
<1>4. QED
  BY <1>1, <1>2, <1>3

\* An element that is not there yet may be appended.
LEMMA AppendDistinct ==
    ASSUME NEW S, NEW s \in Seq(S), NEW e \in S, Distinct(s), ~Contains(s, e)
    PROVE  Distinct(Append(s, e))
BY AppendFacts DEF Distinct, Contains

\* A sequence without repetitions has as many elements as places.
LEMMA DistinctCount ==
    ASSUME NEW S, NEW s \in Seq(S), Distinct(s)
    PROVE  Cardinality(ToSet(s)) = Len(s)
<1> DEFINE f == [i \in 1 .. Len(s) |-> s[i]]
<1>1. Len(s) \in Nat
  OBVIOUS
<1>2. IsFiniteSet(1 .. Len(s)) /\ Cardinality(1 .. Len(s)) = Len(s)
  BY <1>1, FS_Interval
<1>3. f \in Bijection(1 .. Len(s), ToSet(s))
  BY DEF Bijection, Injection, Surjection, IsInjective, ToSet, Distinct
<1>4. ExistsBijection(1 .. Len(s), ToSet(s))
  BY <1>3 DEF ExistsBijection
<1>5. QED
  BY <1>2, <1>4, FS_Bijection

\* The minimum of two numbers.
LEMMA MinOfTwo ==
    ASSUME NEW a \in Int, NEW b \in Int
    PROVE  Min({a, b}) = IF a <= b THEN a ELSE b
BY DEF Min
\* A set of numbers with an element has a least one.
LEMMA LeastNumber ==
    ASSUME NEW I \in SUBSET Nat, I # {}
    PROVE  Min(I) \in I /\ \A i \in I : Min(I) <= i
<1> DEFINE R == {ss \in Nat \X Nat : ss[1] < ss[2]}
<1>1. OpToRel(<, Nat) = R
  BY DEF OpToRel
<1>2. IsWellFoundedOn(R, Nat)
  BY <1>1, NatLessThanWellFounded
<1>3. \A x, y \in Nat : y < x => <<y, x>> \in R
  OBVIOUS
<1> HIDE DEF R
<1>4. PICK x \in I : \A y \in I : ~(<<y, x>> \in R)
  BY <1>2, WFMin
<1>5. \A y \in I : x \in Nat /\ y \in Nat /\ ~(y < x)
  BY <1>3, <1>4
<1>6. \A y \in I : x <= y
  BY <1>5
<1>7. QED
  BY <1>6 DEF Min

\* Taking the element at a place moves those that follow up.
LEMMA RemoveAtFacts ==
    ASSUME NEW S, NEW s \in Seq(S), NEW n \in 1 .. Len(s)
    PROVE  /\ RemoveAt(s, n) \in Seq(S)
           /\ Len(RemoveAt(s, n)) = Len(s) - 1
           /\ \A i \in 1 .. Len(s) - 1 :
                  RemoveAt(s, n)[i] = IF i < n THEN s[i] ELSE s[i + 1]
<1> DEFINE a == SubSeq(s, 1, n - 1)
           b == SubSeq(s, n + 1, Len(s))
           k == Len(s)
<1>1. k \in Nat /\ n \in Nat /\ 1 <= n /\ n <= k
  OBVIOUS
<1>2. a \in Seq(S) /\ Len(a) = n - 1 /\ \A i \in 1 .. n - 1 : a[i] = s[i]
  BY <1>1
<1>3. /\ b \in Seq(S) /\ Len(b) = k - n
      /\ \A i \in 1 .. k - n : b[i] = s[n + i]
  BY <1>1
<1>4. RemoveAt(s, n) = a \o b
  BY DEF RemoveAt
<1> HIDE DEF a, b
<1>5. a \in Seq(S) /\ b \in Seq(S)
  BY <1>2, <1>3
<1>6. /\ a \o b \in Seq(S) /\ Len(a \o b) = Len(a) + Len(b)
      /\ \A i \in 1 .. Len(a) + Len(b) :
             (a \o b)[i] = IF i <= Len(a) THEN a[i] ELSE b[i - Len(a)]
  BY <1>5
<1> HIDE DEF k
<1>7. ASSUME NEW i \in 1 .. k - 1
      PROVE  (a \o b)[i] = IF i < n THEN s[i] ELSE s[i + 1]
  <2>1. CASE i < n
    BY <1>1, <1>2, <1>3, <1>6, <2>1
  <2>2. CASE ~(i < n)
    <3>1. i - (n - 1) \in 1 .. k - n /\ n + (i - (n - 1)) = i + 1
      BY <1>1, <2>2
    <3>2. (a \o b)[i] = b[i - (n - 1)]
      BY <1>1, <1>2, <1>3, <1>6, <2>2
    <3>3. QED
      BY <1>3, <2>2, <3>1, <3>2
  <2>3. QED
    BY <2>1, <2>2
<1>8. Len(a \o b) = k - 1
  BY <1>1, <1>2, <1>3, <1>6
<1>9. QED
  BY <1>4, <1>6, <1>7, <1>8 DEF k

\* erase() of an element, where it occurs first: the other elements stay, and
\* another one that is first stays first.
LEMMA RemoveFirstFacts ==
    ASSUME NEW S, NEW s \in Seq(S), NEW e
    PROVE  /\ RemoveFirst(s, e) \in Seq(S)
           /\ \A x : x # e /\ Contains(s, x) => Contains(RemoveFirst(s, e), x)
           /\ s # <<>> /\ Head(s) # e =>
                  RemoveFirst(s, e) # <<>> /\ Head(RemoveFirst(s, e)) = Head(s)
<1> DEFINE I == {i \in 1 .. Len(s) : s[i] = e}
           n == Min(I)
           t == RemoveFirst(s, e)
<1>1. Len(s) \in Nat
  OBVIOUS
<1>2. CASE I = {}
  <2>1. t = s
    BY <1>2 DEF RemoveFirst
  <2>2. QED
    BY <2>1
<1>3. CASE I # {}
  <2>1. n \in I
    <3>1. I \in SUBSET Nat
      OBVIOUS
    <3> HIDE DEF I
    <3>2. QED
      BY <1>3, <3>1, LeastNumber
  <2>2. n \in 1 .. Len(s) /\ s[n] = e
    BY <2>1
  <2>3. SelectInSeq(s, LAMBDA v : v = e) = n
    BY <1>3 DEF SelectInSeq
  <2>4. t = RemoveAt(s, n)
    BY <2>2, <2>3 DEF RemoveFirst
  <2> HIDE DEF I, n, t
  <2>5. /\ t \in Seq(S) /\ Len(t) = Len(s) - 1
        /\ \A i \in 1 .. Len(s) - 1 : t[i] = IF i < n THEN s[i] ELSE s[i + 1]
    BY <2>2, <2>4, RemoveAtFacts
  <2>6. ASSUME NEW x, x # e, Contains(s, x) PROVE Contains(t, x)
    <3>1. PICK i \in 1 .. Len(s) : s[i] = x
      BY <2>6 DEF Contains
    <3>2. CASE i < n
      <4>1. i \in 1 .. Len(t) /\ t[i] = x
        BY <1>1, <2>2, <2>5, <3>1, <3>2
      <4>2. QED
        BY <4>1 DEF Contains
    <3>3. CASE ~(i < n)
      <4>1. i # n
        BY <2>2, <2>6, <3>1
      <4>2. i - 1 \in 1 .. Len(t) /\ ~(i - 1 < n) /\ (i - 1) + 1 = i
        BY <1>1, <2>2, <2>5, <3>1, <3>3, <4>1
      <4>3. t[i - 1] = x
        BY <1>1, <2>5, <3>1, <4>2
      <4>4. QED
        BY <4>2, <4>3 DEF Contains
    <3>4. QED
      BY <3>2, <3>3
  <2>7. ASSUME s # <<>>, Head(s) # e PROVE t # <<>> /\ Head(t) = Head(s)
    <3>1. Head(s) = s[1]
      BY <2>7
    <3>2. n > 1 /\ n <= Len(s)
      BY <2>2, <2>7, <3>1
    <3>3. Len(t) > 0 /\ t[1] = s[1]
      BY <1>1, <2>2, <2>5, <3>2
    <3>4. t # <<>> /\ Head(t) = t[1]
      BY <2>5, <3>3
    <3>5. QED
      BY <3>1, <3>3, <3>4
  <2>8. QED
    BY <2>5, <2>6, <2>7 DEF t
<1>4. QED
  BY <1>2, <1>3
\* A sequence is a prefix of itself, and of itself with an element more.
LEMMA PrefixFacts ==
    ASSUME NEW S, NEW s \in Seq(S)
    PROVE  IsPrefix(s, s) /\ \A e \in S : IsPrefix(s, Append(s, e))
<1>1. IsPrefix(s, s)
  BY DEF IsPrefix
<1>2. ASSUME NEW e \in S PROVE IsPrefix(s, Append(s, e))
  <2> DEFINE t == Append(s, e)
             n == Len(s)
  <2>1. t \in Seq(S) /\ Len(t) = n + 1 /\ n \in Nat /\ \A i \in 1 .. n : t[i] = s[i]
    BY AppendFacts
  <2> HIDE DEF t
  <2>2. /\ SubSeq(s, 1, n) \in Seq(S) /\ Len(SubSeq(s, 1, n)) = n
        /\ \A i \in 1 .. n : SubSeq(s, 1, n)[i] = s[i]
    BY <2>1
  <2>3. /\ SubSeq(t, 1, n) \in Seq(S) /\ Len(SubSeq(t, 1, n)) = n
        /\ \A i \in 1 .. n : SubSeq(t, 1, n)[i] = t[i]
    BY <2>1
  <2>4. SubSeq(s, 1, n) = SubSeq(t, 1, n)
    BY <2>1, <2>2, <2>3, SeqEquality
  <2>5. Len(s) <= Len(t)
    BY <2>1
  <2>6. QED
    BY <2>4, <2>5 DEF IsPrefix, t
<1>3. QED
  BY <1>1, <1>2
\* The first n elements of a sequence, and of one that is longer.
LEMMA BeginningFacts ==
    ASSUME NEW S, NEW s \in Seq(S), NEW e \in S
    PROVE  /\ SubSeq(s, 1, Len(s)) = s
           /\ \A n \in 0 .. Len(s) : /\ SubSeq(s, 1, n) \in Seq(S)
                                     /\ Len(SubSeq(s, 1, n)) = n
                                     /\ SubSeq(Append(s, e), 1, n) = SubSeq(s, 1, n)
<1> DEFINE t == Append(s, e)
           k == Len(s)
<1>1. t \in Seq(S) /\ Len(t) = k + 1 /\ k \in Nat /\ \A i \in 1 .. k : t[i] = s[i]
  BY AppendFacts
<1> HIDE DEF t
<1>2. ASSUME NEW n \in 0 .. k
      PROVE  /\ SubSeq(s, 1, n) \in Seq(S) /\ Len(SubSeq(s, 1, n)) = n
             /\ \A i \in 1 .. n : SubSeq(s, 1, n)[i] = s[i]
             /\ SubSeq(t, 1, n) \in Seq(S) /\ Len(SubSeq(t, 1, n)) = n
             /\ \A i \in 1 .. n : SubSeq(t, 1, n)[i] = t[i]
  BY <1>1, SubSeqFacts
<1>3. ASSUME NEW n \in 0 .. k PROVE SubSeq(t, 1, n) = SubSeq(s, 1, n)
  <2>1. \A i \in 1 .. n : SubSeq(t, 1, n)[i] = SubSeq(s, 1, n)[i]
    BY <1>1, <1>2
  <2>2. QED
    BY <1>2, <2>1, SeqEquality
<1>4. SubSeq(s, 1, k) = s
  <2>1. k \in 0 .. k
    BY <1>1
  <2>2. QED
    BY <1>2, <2>1, SeqEquality
<1>5. QED
  BY <1>2, <1>3, <1>4 DEF t
=============================================================================
