---------------------------- MODULE SequenceLemmas ----------------------------
(***************************************************************************)
(* Facts about the sequence operators the models are built from: std::find and  *)
(* erase (RemoveFirst), the pop of an innermost activation (Front), and lists   *)
(* without repetition.                                                          *)
(***************************************************************************)
EXTENDS Naturals, Sequences, TLAPS, SequencesExt, SequenceTheorems, WellFoundedInduction

\* < on the naturals as the relation the library calls well-founded.
LEMMA LessIsRel == \A x, y \in Nat : x < y <=> <<x, y>> \in OpToRel(<, Nat)
  BY SMT DEF OpToRel

\* A non-empty set of naturals has its Min as least element.
LEMMA NatMin ==
  ASSUME NEW S \in SUBSET Nat, S # {}
  PROVE  Min(S) \in S /\ \A x \in S : Min(S) <= x
<1>1. PICK x \in S : \A y \in S : ~ (<<y, x>> \in OpToRel(<, Nat))
  BY NatLessThanWellFounded, WFMin
<1>2. \A y \in S : ~ (y < x)
  BY <1>1, LessIsRel
<1>3. \A y \in S : x <= y
  BY <1>2
<1> QED BY <1>3 DEF Min

\* Removing the element at i shifts those behind it by one.
LEMMA RemoveAtFacts ==
  ASSUME NEW S, NEW s \in Seq(S), NEW i \in 1..Len(s)
  PROVE  /\ RemoveAt(s, i) \in Seq(S)
         /\ Len(RemoveAt(s, i)) = Len(s) - 1
         /\ \A k \in 1..Len(s) - 1 : RemoveAt(s, i)[k] = IF k < i THEN s[k] ELSE s[k + 1]
<1> DEFINE a == SubSeq(s, 1, i-1)
           b == SubSeq(s, i+1, Len(s))
<1>1. /\ a \in Seq(S)
      /\ Len(a) = i - 1
      /\ \A k \in 1..i-1 : a[k] = s[k]
  BY SubSeqProperties
<1>2. /\ b \in Seq(S)
      /\ Len(b) = Len(s) - i
      /\ \A k \in 1..Len(s)-i : b[k] = s[k+i]
  BY SubSeqProperties
<1>3. RemoveAt(s, i) = a \o b
  BY DEF RemoveAt
<1> HIDE DEF a, b
<1>4. /\ a \o b \in Seq(S)
      /\ Len(a \o b) = Len(a) + Len(b)
      /\ \A k \in 1..Len(a) + Len(b) :
           (a \o b)[k] = IF k <= Len(a) THEN a[k] ELSE b[k - Len(a)]
  BY <1>1, <1>2, ConcatProperties
<1>5. Len(a) + Len(b) = Len(s) - 1
  BY <1>1, <1>2
<1>6. \A k \in 1..Len(s) - 1 : (a \o b)[k] = IF k < i THEN s[k] ELSE s[k + 1]
  <2> TAKE k \in 1..Len(s) - 1
  <2>1. CASE k < i
    BY <2>1, <1>4, <1>5, <1>1
  <2>2. CASE ~(k < i)
    <3>1. k - (i-1) \in 1..Len(s)-i /\ (k - (i-1)) + i = k + 1
      BY <2>2
    <3>2. (a \o b)[k] = b[k - (i-1)]
      BY <2>2, <1>4, <1>5, <1>1
    <3> QED BY <3>1, <3>2, <2>2, <1>2
  <2> QED BY <2>1, <2>2
<1> QED BY <1>3, <1>4, <1>5, <1>6

\* Erasing an element that occurs removes it where it occurs first.
LEMMA RemoveFirstFacts ==
  ASSUME NEW S, NEW s \in Seq(S), NEW e, \E i \in 1..Len(s) : s[i] = e
  PROVE  \E i \in 1..Len(s) : 
     /\ s[i] = e
     /\ \A k \in 1..i-1 : s[k] # e
     /\ RemoveFirst(s, e) = RemoveAt(s, i)
<1> DEFINE I == { i \in 1..Len(s) : s[i] = e }
<1>1. I \in SUBSET Nat /\ I # {}  OBVIOUS
<1>2. /\ Min(I) \in I /\ \A x \in I : Min(I) <= x
  BY <1>1, NatMin
<1>3. SelectInSeq(s, LAMBDA v : v = e) = Min(I)
  BY <1>1 DEF SelectInSeq
<1>4. RemoveFirst(s, e) = RemoveAt(s, Min(I))
  BY <1>3 DEF RemoveFirst
<1> HIDE DEF I
<1>5. \A k \in 1..Min(I)-1 : k \notin I
  <2> DEFINE m == Min(I)
  <2>1. m \in Nat /\ \A x \in I : m <= x
    BY <1>1, <1>2
  <2> HIDE DEF m
  <2>2. \A k \in 1..m-1 : k \notin I
    BY <2>1
  <2> QED BY <2>2 DEF m
<1>6. \A k \in 1..Min(I)-1 : s[k] # e
  BY <1>1, <1>2, <1>5 DEF I
<1>7. Min(I) \in 1..Len(s) /\ s[Min(I)] = e
  BY <1>2 DEF I
<1> QED BY <1>4, <1>6, <1>7

\* Erasing keeps a sequence over its set.
LEMMA RemoveFirstType ==
  ASSUME NEW S, NEW s \in Seq(S), NEW e
  PROVE  RemoveFirst(s, e) \in Seq(S)
<1>1. CASE \E i \in 1..Len(s) : s[i] = e
  <2>1. PICK i \in 1..Len(s) : RemoveFirst(s, e) = RemoveAt(s, i)
    BY <1>1, RemoveFirstFacts
  <2>2. RemoveAt(s, i) \in Seq(S)
    BY RemoveAtFacts
  <2> QED BY <2>1, <2>2
<1>2. CASE ~\E i \in 1..Len(s) : s[i] = e
  BY <1>2 DEF RemoveFirst
<1> QED BY <1>1, <1>2

\* All but the last element.
LEMMA FrontFacts ==
  ASSUME NEW S, NEW s \in Seq(S), s # <<>>
  PROVE  /\ Front(s) \in Seq(S)
         /\ Len(Front(s)) = Len(s) - 1
         /\ \A i \in 1..Len(s) - 1 : Front(s)[i] = s[i]
<1> DEFINE n == Len(s) - 1
<1>1. n \in Nat /\ \A i \in 1..n : s[i] \in S
  BY EmptySeq
<1>2. /\ SubSeq(s, 1, n) \in Seq(S)
      /\ Len(SubSeq(s, 1, n)) = n
      /\ \A i \in 1..n : SubSeq(s, 1, n)[i] = s[i]
  <2> HIDE DEF n
  <2> QED BY <1>1, SubSeqProperties
<1> QED BY <1>2 DEF Front

-----------------------------------------------------------------------------
(* Lists without repetition.                                               *)

\* The elements of a list are those at its positions.
LEMMA ListElements ==
  ASSUME NEW S, NEW s \in Seq(S), NEW x
  PROVE  x \in Range(s) <=> \E i \in 1..Len(s) : s[i] = x
  BY DEF Range

LEMMA InjectiveSeq ==
  ASSUME NEW S, NEW s \in Seq(S)
  PROVE  IsInjective(s) <=> \A i, j \in 1..Len(s) : s[i] = s[j] => i = j
  BY DEF IsInjective

\* An entry that is not listed can be appended.
LEMMA AppendNew ==
  ASSUME NEW S, NEW s \in Seq(S), IsInjective(s), NEW e \in S, e \notin Range(s)
  PROVE  /\ Append(s, e) \in Seq(S) /\ IsInjective(Append(s, e))
         /\ Range(Append(s, e)) = Range(s) \cup {e}
<1> DEFINE t == Append(s, e)
<1>1. /\ t \in Seq(S) /\ Len(t) = Len(s) + 1 /\ Len(s) \in Nat
      /\ t[Len(t)] = e
      /\ \A i \in 1..Len(s) : t[i] = s[i]
  OBVIOUS
<1> HIDE DEF t
<1>2. \A i \in 1..Len(t) : i \in 1..Len(s) \/ i = Len(t)
  BY <1>1
<1>3. \A i \in 1..Len(s) : s[i] # e
  BY ListElements
<1>4. \A i, j \in 1..Len(s) : s[i] = s[j] => i = j
  BY InjectiveSeq
<1>5. IsInjective(t)
  <2> SUFFICES ASSUME NEW i \in 1..Len(t), NEW j \in 1..Len(t), t[i] = t[j]
               PROVE  i = j
    BY <1>1, InjectiveSeq
  <2> QED BY <1>1, <1>2, <1>3, <1>4
<1>6. \A x : x \in Range(t) <=> x \in Range(s) \/ x = e
  <2> TAKE x
  <2>1. x \in Range(t) <=> \E i \in 1..Len(t) : t[i] = x
    BY <1>1, ListElements
  <2>2. x \in Range(s) <=> \E i \in 1..Len(s) : s[i] = x
    BY ListElements
  <2>3. \A i \in 1..Len(s) : i \in 1..Len(t)
    BY <1>1
  <2>4. Len(t) \in 1..Len(t)
    BY <1>1
  <2> QED BY <1>1, <1>2, <2>1, <2>2, <2>3, <2>4
<1> QED BY <1>1, <1>5, <1>6 DEF t

\* Removing an entry of such a list by its position takes it out for good,
LEMMA RemoveAtListed ==
  ASSUME NEW S, NEW s \in Seq(S), IsInjective(s), NEW n \in 1..Len(s), NEW e, s[n] = e
  PROVE  /\ RemoveAt(s, n) \in Seq(S) /\ IsInjective(RemoveAt(s, n))
         /\ Range(RemoveAt(s, n)) = Range(s) \ {e}
<1> DEFINE t == RemoveAt(s, n)
<1>1. /\ t \in Seq(S) /\ Len(t) = Len(s) - 1
      /\ \A k \in 1..Len(s) - 1 : t[k] = IF k < n THEN s[k] ELSE s[k + 1]
  BY RemoveAtFacts
<1> HIDE DEF t
<1> DEFINE from(k) == IF k < n THEN k ELSE k + 1
<1>2. \A k \in 1..Len(t) : from(k) \in 1..Len(s) /\ from(k) # n /\ t[k] = s[from(k)]
  <2> SUFFICES ASSUME NEW k \in 1..Len(t)
               PROVE  from(k) \in 1..Len(s) /\ from(k) # n /\ t[k] = s[from(k)]
    OBVIOUS
  <2>1. k \in 1..Len(s) - 1 /\ Len(s) \in Nat
    BY <1>1
  <2>2. CASE k < n
    BY <1>1, <2>1, <2>2
  <2>3. CASE ~(k < n)
    BY <1>1, <2>1, <2>3
  <2> QED BY <2>2, <2>3
<1>3. \A k, l \in 1..Len(t) : from(k) = from(l) => k = l
  OBVIOUS
<1>4. \A i \in 1..Len(s) : i # n => \E k \in 1..Len(t) : from(k) = i
  <2> SUFFICES ASSUME NEW i \in 1..Len(s), i # n
               PROVE  \E k \in 1..Len(t) : from(k) = i
    OBVIOUS
  <2>1. CASE i < n
    BY <1>1, <2>1
  <2>2. CASE i > n
    <3>1. i - 1 \in 1..Len(t) /\ from(i - 1) = i
      BY <1>1, <2>2
    <3> QED BY <3>1
  <2> QED BY <2>1, <2>2
<1>5. \A i, j \in 1..Len(s) : s[i] = s[j] => i = j
  BY InjectiveSeq
<1> HIDE DEF from
<1>6. IsInjective(t)
  <2> SUFFICES ASSUME NEW i \in 1..Len(t), NEW j \in 1..Len(t), t[i] = t[j]
               PROVE  i = j
    BY <1>1, InjectiveSeq
  <2>1. from(i) = from(j)
    BY <1>2, <1>5
  <2> QED BY <1>3, <2>1
<1>7. \A x : x \in Range(t) <=> x \in Range(s) /\ x # e
  <2> TAKE x
  <2>1. x \in Range(t) <=> \E i \in 1..Len(t) : t[i] = x
    BY <1>1, ListElements
  <2>2. x \in Range(s) <=> \E i \in 1..Len(s) : s[i] = x
    BY ListElements
  <2>3. ASSUME NEW i \in 1..Len(t), t[i] = x
        PROVE  x \in Range(s) /\ x # e
    BY <1>2, <1>5, <2>2, <2>3
  <2>4. ASSUME NEW i \in 1..Len(s), s[i] = x, x # e
        PROVE  \E k \in 1..Len(t) : t[k] = x
    <3>1. PICK k \in 1..Len(t) : from(k) = i
      BY <1>4, <2>4
    <3> QED BY <1>2, <2>4, <3>1
  <2> QED BY <2>1, <2>2, <2>3, <2>4
<1> QED BY <1>1, <1>6, <1>7 DEF t

\* and so does looking it up first.
LEMMA RemoveListed ==
  ASSUME NEW S, NEW s \in Seq(S), IsInjective(s), NEW e, e \in Range(s)
  PROVE  /\ RemoveFirst(s, e) \in Seq(S) /\ IsInjective(RemoveFirst(s, e))
         /\ Range(RemoveFirst(s, e)) = Range(s) \ {e}
<1>1. PICK n \in 1..Len(s) : s[n] = e /\ RemoveFirst(s, e) = RemoveAt(s, n)
  BY ListElements, RemoveFirstFacts
<1> QED BY <1>1, RemoveAtListed

\* What is left of a file whose writing was cut short is such a list as well.
LEMMA PrefixOfList ==
  ASSUME NEW S, NEW s \in Seq(S), IsInjective(s), NEW t \in Prefixes(s)
  PROVE  t \in Seq(S) /\ IsInjective(t)
<1>1. PICK n \in 0..Len(s) : t = SubSeq(s, 1, n)
  BY DEF Prefixes
<1>2. /\ t \in Seq(S) /\ Len(t) = n
      /\ \A i \in 1..n : t[i] = s[i]
  BY <1>1
<1> QED BY <1>2, InjectiveSeq

LEMMA EmptyList ==
  ASSUME NEW S
  PROVE  <<>> \in Seq(S) /\ IsInjective(<<>>) /\ Range(<<>>) = {}
  BY DEF IsInjective, Range
=============================================================================
