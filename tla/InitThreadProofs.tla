-------------------------- MODULE InitThreadProofs --------------------------
(***************************************************************************)
(* Proofs about what InitThread starts, or runs in its loop, once the library  *)
(* is up: the webhook's senders (Discord), the death reports (DeathReports) and *)
(* the kicks and bans (Moderation), for any constants.                         *)
(*                                                                             *)
(* Discord: no line is lost but those pushed out of a full queue or discarded   *)
(* with a batch that could not be sent, none arrives twice or out of order,     *)
(* batches keep their distance, and Stop lets one more out.  DeathReports: the  *)
(* reports of a key keep their distance.  Moderation: kicks are remembered, and *)
(* the look-ups of the commands agree.                                          *)
(***************************************************************************)
EXTENDS Discord, DeathReports, Moderation, SequenceLemmas, FiniteSetTheorems

-----------------------------------------------------------------------------
(* Lines in the order of posting.                                          *)

LEMMA IncreasingIsInjective ==
  ASSUME NEW S \in SUBSET Nat, NEW s \in Seq(S), Increasing(s)
  PROVE  IsInjective(s)
<1> SUFFICES ASSUME NEW i \in 1..Len(s), NEW j \in 1..Len(s), s[i] = s[j]
             PROVE  i = j
  BY InjectiveSeq
<1>1. s[i] \in Nat /\ s[j] \in Nat
  <2>1. s[i] \in S /\ s[j] \in S
    OBVIOUS
  <2> QED BY <2>1
<1>2. ~(i < j) /\ ~(j < i)
  BY <1>1 DEF Increasing
<1> QED BY <1>2

\* A line posted last comes last.
LEMMA AppendLine ==
  ASSUME NEW S \in SUBSET Nat, NEW s \in Seq(S), Increasing(s), NEW e \in S,
         \A x \in Range(s) : x < e
  PROVE  Increasing(Append(s, e)) /\ Range(Append(s, e)) = Range(s) \cup {e}
<1>1. \A i \in 1..Len(s) : s[i] \in Range(s)
  BY ListElements
<1> DEFINE t == Append(s, e)
<1>2. /\ t \in Seq(S) /\ Len(t) = Len(s) + 1 /\ Len(s) \in Nat
      /\ t[Len(t)] = e
      /\ \A i \in 1..Len(s) : t[i] = s[i]
  OBVIOUS
<1> HIDE DEF t
<1>3. Increasing(t)
  <2> SUFFICES ASSUME NEW i \in 1..Len(t), NEW j \in 1..Len(t), i < j
               PROVE  t[i] < t[j]
    BY DEF Increasing
  <2>1. i \in 1..Len(s) /\ t[i] = s[i]
    BY <1>2
  <2>2. CASE j \in 1..Len(s)
    BY <1>2, <2>1, <2>2 DEF Increasing
  <2>3. CASE j = Len(t)
    BY <1>1, <1>2, <2>1, <2>3
  <2> QED BY <1>2, <2>2, <2>3
<1>4. e \notin Range(s)
  OBVIOUS
<1> QED BY <1>3, <1>4, IncreasingIsInjective, AppendNew DEF t

\* Without the oldest line that is still waiting, the others keep their order.
LEMMA OldestGone ==
  ASSUME NEW S \in SUBSET Nat, NEW a \in Seq(S), NEW q \in Seq(S), q # <<>>, Increasing(a \o q)
  PROVE  /\ Increasing(a \o Tail(q))
         /\ Range(a \o Tail(q)) = Range(a \o q) \ {Head(q)}
<1> DEFINE u == a \o q
           t == a \o Tail(q)
           n == Len(a) + 1
<1>1. /\ u \in Seq(S) /\ Len(u) = Len(a) + Len(q) /\ Len(a) \in Nat /\ Len(q) \in Nat \ {0}
      /\ \A i \in 1..Len(u) : u[i] = IF i <= Len(a) THEN a[i] ELSE q[i - Len(a)]
  BY ConcatProperties, EmptySeq
<1>2. /\ Tail(q) \in Seq(S) /\ Len(Tail(q)) = Len(q) - 1
      /\ \A i \in 1..Len(q) - 1 : Tail(q)[i] = q[i + 1]
      /\ Head(q) = q[1]
  BY HeadTailProperties
<1>3. /\ t \in Seq(S) /\ Len(t) = Len(u) - 1
      /\ \A i \in 1..Len(t) : t[i] = IF i <= Len(a) THEN a[i] ELSE Tail(q)[i - Len(a)]
  <2>1. /\ t \in Seq(S) /\ Len(t) = Len(a) + Len(Tail(q))
        /\ \A i \in 1..Len(a) + Len(Tail(q)) : t[i] = IF i <= Len(a) THEN a[i] ELSE Tail(q)[i - Len(a)]
    BY <1>2, ConcatProperties
  <2> QED BY <1>1, <1>2, <2>1
<1> HIDE DEF u, t
<1>4. \A k \in 1..Len(t) : t[k] = IF k < n THEN u[k] ELSE u[k + 1]
  <2> SUFFICES ASSUME NEW k \in 1..Len(t)
               PROVE  t[k] = IF k < n THEN u[k] ELSE u[k + 1]
    OBVIOUS
  <2>1. CASE k < n
    BY <1>1, <1>3, <2>1
  <2>2. CASE ~(k < n)
    <3>1. k - Len(a) \in 1..Len(q) - 1 /\ ~(k <= Len(a)) /\ k + 1 \in 1..Len(u)
      BY <1>1, <1>3, <2>2
    <3>2. t[k] = q[k - Len(a) + 1]
      BY <1>2, <1>3, <3>1
    <3>3. u[k + 1] = q[k + 1 - Len(a)]
      BY <1>1, <3>1
    <3>4. k - Len(a) + 1 = k + 1 - Len(a)
      BY <1>1
    <3> QED BY <2>2, <3>2, <3>3, <3>4
  <2> QED BY <2>1, <2>2
<1>5. n \in 1..Len(u) /\ u[n] = Head(q)
  BY <1>1, <1>2
<1>6. t = RemoveAt(u, n)
  <2>1. /\ RemoveAt(u, n) \in Seq(S)
        /\ Len(RemoveAt(u, n)) = Len(u) - 1
        /\ \A k \in 1..Len(u) - 1 : RemoveAt(u, n)[k] = IF k < n THEN u[k] ELSE u[k + 1]
    BY <1>1, <1>5, RemoveAtFacts
  <2> QED BY <1>3, <1>4, <2>1, SeqEqual
<1>7. Increasing(u)
  BY DEF u
<1>8. Range(t) = Range(u) \ {Head(q)}
  <2>1. IsInjective(u)
    BY <1>1, <1>7, IncreasingIsInjective
  <2> HIDE DEF n
  <2>2. Range(RemoveAt(u, n)) = Range(u) \ {Head(q)}
    BY <1>1, <1>5, <2>1, RemoveAtListed
  <2> QED BY <1>6, <2>2
<1>9. Increasing(t)
  <2> SUFFICES ASSUME NEW i \in 1..Len(t), NEW j \in 1..Len(t), i < j
               PROVE  t[i] < t[j]
    BY DEF Increasing
  <2>1. \A k, l \in 1..Len(u) : k < l => u[k] < u[l]
    BY <1>7 DEF Increasing
  <2>2. n \in Nat /\ Len(u) \in Nat
    BY <1>1
  <2> DEFINE from(k) == IF k < n THEN k ELSE k + 1
  <2>3. from(i) \in 1..Len(u) /\ from(j) \in 1..Len(u) /\ from(i) < from(j)
    BY <1>3, <2>2
  <2>4. t[i] = u[from(i)] /\ t[j] = u[from(j)]
    BY <1>4
  <2> QED BY <2>1, <2>3, <2>4
<1> QED BY <1>8, <1>9 DEF u, t

\* A queue is the batch taken from it and what is left.
LEMMA TakenAndLeft ==
  ASSUME NEW S, NEW q \in Seq(S), NEW n \in 0..Len(q)
  PROVE  /\ SubSeq(q, 1, n) \in Seq(S) /\ SubSeq(q, n + 1, Len(q)) \in Seq(S)
         /\ Len(SubSeq(q, n + 1, Len(q))) <= Len(q)
         /\ SubSeq(q, 1, n) \o SubSeq(q, n + 1, Len(q)) = q
<1> DEFINE x == SubSeq(q, 1, n)
           y == SubSeq(q, n + 1, Len(q))
<1>1. x \in Seq(S) /\ Len(x) = n /\ \A i \in 1..n : x[i] = q[i]
  OBVIOUS
<1>2. y \in Seq(S) /\ Len(y) = Len(q) - n /\ \A i \in 1..Len(q) - n : y[i] = q[n + i]
  <2>1. \A i \in n + 1..Len(q) : q[i] \in S
    OBVIOUS
  <2>2. /\ y \in Seq(S)
        /\ Len(y) = IF n + 1 <= Len(q) THEN Len(q) - (n + 1) + 1 ELSE 0
        /\ \A i \in 1..Len(q) - (n + 1) + 1 : y[i] = q[n + 1 + i - 1]
    BY <2>1, SubSeqProperties
  <2> QED BY <2>2
<1> HIDE DEF x, y
<1>3. /\ x \o y \in Seq(S) /\ Len(x \o y) = Len(q)
      /\ \A i \in 1..Len(q) : (x \o y)[i] = IF i <= n THEN x[i] ELSE y[i - n]
  <2>1. /\ x \o y \in Seq(S)
        /\ Len(x \o y) = Len(x) + Len(y)
        /\ \A i \in 1 .. Len(x) + Len(y) : (x \o y)[i] = IF i <= Len(x) THEN x[i] ELSE y[i - Len(x)]
    BY <1>1, <1>2, ConcatProperties
  <2>2. Len(x) + Len(y) = Len(q)
    BY <1>1, <1>2
  <2> QED BY <1>1, <2>1, <2>2
<1>4. \A i \in 1..Len(q) : (x \o y)[i] = q[i]
  <2> SUFFICES ASSUME NEW i \in 1..Len(q) PROVE (x \o y)[i] = q[i]
    OBVIOUS
  <2>1. CASE i <= n
    BY <1>1, <1>3, <2>1
  <2>2. CASE ~(i <= n)
    <3>1. i - n \in 1..Len(q) - n /\ n + (i - n) = i
      BY <2>2
    <3> QED BY <1>2, <1>3, <2>2, <3>1
  <2> QED BY <2>1, <2>2
<1>5. x \o y = q
  BY <1>3, <1>4, SeqEqual
<1>6. Len(y) <= Len(q)
  BY <1>2
<1> QED BY <1>1, <1>2, <1>5, <1>6 DEF x, y

\* The lines of the batch are among all of them.
LEMMA MiddleIncluded ==
  ASSUME NEW S, NEW a \in Seq(S), NEW b \in Seq(S), NEW q \in Seq(S)
  PROVE  Range(b) \subseteq Range((a \o b) \o q)
<1>1. PICK c \in Seq(S) : c = a \o b
  BY ConcatProperties
<1>2. /\ Len(c) = Len(a) + Len(b)
      /\ \A i \in 1..Len(a) + Len(b) : c[i] = IF i <= Len(a) THEN a[i] ELSE b[i - Len(a)]
  BY <1>1, ConcatProperties
<1>3. /\ c \o q \in Seq(S) /\ Len(c \o q) = Len(c) + Len(q)
      /\ \A i \in 1..Len(c) + Len(q) : (c \o q)[i] = IF i <= Len(c) THEN c[i] ELSE q[i - Len(c)]
  BY ConcatProperties
<1>4. ASSUME NEW i \in 1..Len(b)
      PROVE  Len(a) + i \in 1..Len(c \o q) /\ (c \o q)[Len(a) + i] = b[i]
  <2>1. Len(a) + i \in 1..Len(a) + Len(b) /\ ~(Len(a) + i <= Len(a)) /\ (Len(a) + i) - Len(a) = i
    OBVIOUS
  <2>2. c[Len(a) + i] = b[i]
    BY <1>2, <2>1
  <2>3. Len(a) + i \in 1..Len(c) + Len(q) /\ Len(a) + i <= Len(c)
    BY <1>2
  <2> QED BY <1>3, <2>2, <2>3
<1>5. ASSUME NEW x \in Range(b)
      PROVE  x \in Range(c \o q)
  <2>1. PICK i \in 1..Len(b) : b[i] = x
    BY ListElements
  <2>2. PICK d \in Seq(S) : d = c \o q
    BY <1>3
  <2>3. Len(a) + i \in 1..Len(d) /\ d[Len(a) + i] = x
    BY <1>4, <2>1, <2>2
  <2> QED BY <2>2, <2>3, ListElements
<1> QED BY <1>1, <1>5

\* Without the batch in the middle, what was before and after it keeps its order.
LEMMA MiddleGone ==
  ASSUME NEW S \in SUBSET Nat, NEW a \in Seq(S), NEW b \in Seq(S), NEW q \in Seq(S),
         Increasing((a \o b) \o q)
  PROVE  /\ Increasing(a \o q)
         /\ Range(a \o q) = Range((a \o b) \o q) \ Range(b)
<1> DEFINE u == (a \o b) \o q
           t == a \o q
           n == Len(a)
           m == Len(b)
           from(k) == IF k <= n THEN k ELSE k + m
<1>1. n \in Nat /\ m \in Nat /\ Len(q) \in Nat
  OBVIOUS
<1>2. /\ a \o b \in Seq(S) /\ Len(a \o b) = n + m
      /\ \A i \in 1..n + m : (a \o b)[i] = IF i <= n THEN a[i] ELSE b[i - n]
  BY ConcatProperties
<1>3. /\ u \in Seq(S) /\ Len(u) = n + m + Len(q)
      /\ \A i \in 1..n + m + Len(q) : u[i] = IF i <= n + m THEN (a \o b)[i] ELSE q[i - (n + m)]
  <2>1. PICK c \in Seq(S) : c = a \o b
    BY <1>2
  <2>2. /\ c \o q \in Seq(S) /\ Len(c \o q) = Len(c) + Len(q)
        /\ \A i \in 1..Len(c) + Len(q) : (c \o q)[i] = IF i <= Len(c) THEN c[i] ELSE q[i - Len(c)]
    BY ConcatProperties
  <2> QED BY <1>2, <2>1, <2>2
<1>4. /\ t \in Seq(S) /\ Len(t) = n + Len(q)
      /\ \A i \in 1..n + Len(q) : t[i] = IF i <= n THEN a[i] ELSE q[i - n]
  BY ConcatProperties
<1>5. Increasing(u)
  OBVIOUS
<1> HIDE DEF u, t, n, m
<1>6. \A k \in 1..Len(t) : from(k) \in 1..Len(u) /\ from(k) \notin n + 1..n + m /\ t[k] = u[from(k)]
  <2> SUFFICES ASSUME NEW k \in 1..Len(t)
               PROVE  from(k) \in 1..Len(u) /\ from(k) \notin n + 1..n + m /\ t[k] = u[from(k)]
    OBVIOUS
  <2>1. CASE k <= n
    <3>1. k \in 1..n + m /\ k \in 1..n + m + Len(q) /\ k <= n + m /\ k \in 1..n + Len(q)
      BY <1>1, <1>4, <2>1
    <3>2. t[k] = a[k] /\ u[k] = (a \o b)[k]
      BY <1>3, <1>4, <2>1, <3>1
    <3>3. (a \o b)[k] = a[k]
      BY <1>2, <2>1, <3>1
    <3>4. k \in 1..Len(u) /\ k \notin n + 1..n + m
      BY <1>1, <1>3, <2>1, <3>1
    <3> QED BY <2>1, <3>2, <3>3, <3>4
  <2>2. CASE ~(k <= n)
    <3>1. /\ k + m \in 1..n + m + Len(q) /\ ~(k + m <= n + m) /\ k + m - (n + m) = k - n
          /\ k \in 1..n + Len(q) /\ k + m \notin n + 1..n + m
      BY <1>1, <1>4, <2>2
    <3>2. t[k] = q[k - n]
      BY <1>4, <2>2, <3>1
    <3>3. u[k + m] = q[k - n] /\ k + m \in 1..Len(u)
      <4>1. PICK j : j = k + m
        OBVIOUS
      <4>2. u[j] = q[j - (n + m)] /\ j \in 1..Len(u)
        BY <1>3, <3>1, <4>1
      <4>3. j - (n + m) = k - n
        BY <1>1, <4>1
      <4> QED BY <4>1, <4>2, <4>3
    <3> QED BY <2>2, <3>1, <3>2, <3>3
  <2> QED BY <2>1, <2>2
<1>lens. Len(u) = n + m + Len(q) /\ Len(t) = n + Len(q)
  BY <1>3, <1>4
<1>7. \A k, l \in 1..Len(t) : k < l => from(k) < from(l)
  BY <1>1, <1>lens
<1>8. \A i \in 1..Len(u) : i \notin n + 1..n + m => \E k \in 1..Len(t) : from(k) = i
  <2> SUFFICES ASSUME NEW i \in 1..Len(u), i \notin n + 1..n + m
               PROVE  \E k \in 1..Len(t) : from(k) = i
    OBVIOUS
  <2>1. CASE i <= n
    <3>1. i \in 1..Len(t) /\ from(i) = i
      BY <1>1, <1>lens, <2>1
    <3> HIDE DEF from
    <3> QED BY <3>1
  <2>2. CASE ~(i <= n)
    <3>1. i - m \in 1..Len(t) /\ from(i - m) = i
      BY <1>1, <1>lens, <2>2
    <3> HIDE DEF from
    <3> QED BY <3>1
  <2> QED BY <2>1, <2>2
<1> HIDE DEF from
<1>9. \A i \in 1..m : n + i \in n + 1..n + m /\ n + i \in 1..Len(u) /\ u[n + i] = b[i]
  <2> SUFFICES ASSUME NEW i \in 1..m
               PROVE  n + i \in n + 1..n + m /\ n + i \in 1..Len(u) /\ u[n + i] = b[i]
    OBVIOUS
  <2>1. /\ n + i \in 1..n + m /\ ~(n + i <= n) /\ (n + i) - n = i /\ n + i \in n + 1..n + m
        /\ n + i \in 1..n + m + Len(q) /\ n + i <= n + m
    BY <1>1
  <2>2. (a \o b)[n + i] = b[i]
    BY <1>2, <2>1
  <2>3. u[n + i] = (a \o b)[n + i] /\ n + i \in 1..Len(u)
    BY <1>3, <2>1
  <2> QED BY <2>1, <2>2, <2>3
<1>10. \A i, j \in 1..Len(u) : u[i] = u[j] => i = j
  BY <1>3, <1>5, IncreasingIsInjective, InjectiveSeq
<1>11. Increasing(t)
  BY <1>5, <1>6, <1>7 DEF Increasing
<1>12. \A x : x \in Range(t) <=> x \in Range(u) /\ x \notin Range(b)
  <2> TAKE x
  <2>1. /\ x \in Range(t) <=> \E i \in 1..Len(t) : t[i] = x
        /\ x \in Range(u) <=> \E i \in 1..Len(u) : u[i] = x
        /\ x \in Range(b) <=> \E i \in 1..m : b[i] = x
    BY <1>3, <1>4, ListElements DEF m
  <2>2. ASSUME NEW k \in 1..Len(t), t[k] = x
        PROVE  x \in Range(u) /\ x \notin Range(b)
    <3>1. from(k) \in 1..Len(u) /\ from(k) \notin n + 1..n + m /\ u[from(k)] = x
      BY <1>6, <2>2
    <3>2. ASSUME NEW i \in 1..m, b[i] = x
          PROVE  FALSE
      <4>1. n + i \in n + 1..n + m /\ n + i \in 1..Len(u) /\ u[n + i] = x
        BY <1>9, <3>2
      <4> QED BY <1>10, <3>1, <4>1
    <3> QED BY <2>1, <3>1, <3>2
  <2>3. ASSUME NEW i \in 1..Len(u), u[i] = x, x \notin Range(b)
        PROVE  \E k \in 1..Len(t) : t[k] = x
    <3>1. i \notin n + 1..n + m
      <4> SUFFICES ASSUME i \in n + 1..n + m PROVE FALSE
        OBVIOUS
      <4>1. i - n \in 1..m /\ n + (i - n) = i
        BY <1>1
      <4> QED BY <1>9, <2>1, <2>3, <4>1
    <3>2. PICK k \in 1..Len(t) : from(k) = i
      BY <1>8, <3>1
    <3> QED BY <1>6, <2>3, <3>2
  <2> QED BY <2>1, <2>2, <2>3
<1> QED BY <1>11, <1>12 DEF u, t

LEMMA AppendToSecond ==
  ASSUME NEW S, NEW a \in Seq(S), NEW q \in Seq(S), NEW e \in S
  PROVE  a \o Append(q, e) = Append(a \o q, e)
<1>1. <<e>> \in Seq(S) /\ a \o q \in Seq(S)
  OBVIOUS
<1>2. Append(q, e) = q \o <<e>> /\ Append(a \o q, e) = (a \o q) \o <<e>>
  BY <1>1, AppendIsConcat
<1>3. (a \o q) \o <<e>> = a \o (q \o <<e>>)
  BY <1>1, ConcatAssociative
<1> QED BY <1>2, <1>3

-----------------------------------------------------------------------------
(* Post.                                                                   *)

\* A line is posted to a queue with room.
LEMMA PostToRoom ==
  ASSUME NEW S \in SUBSET Nat, NEW a \in Seq(S), NEW q \in Seq(S), NEW n \in Nat,
         NEW e \in S, e = n + 1, NEW d \in SUBSET (1..n),
         Complete(a \o q, n, d)
  PROVE  Complete(a \o Append(q, e), e, d)
<1>1. PICK u \in Seq(S) : u = a \o q
  BY ConcatProperties
<1>2. Increasing(u) /\ \A x \in Range(u) : x < e
  BY <1>1 DEF Complete
<1>3. Increasing(Append(u, e)) /\ Range(Append(u, e)) = Range(u) \cup {e}
  BY <1>2, AppendLine
<1>4. a \o Append(q, e) = Append(u, e)
  BY <1>1, AppendToSecond
<1>5. ((1..n) \ d) \cup {e} = (1..e) \ d
  OBVIOUS
<1> QED BY <1>1, <1>3, <1>4, <1>5 DEF Complete

\* A line is posted to a full queue: the oldest goes.
LEMMA PostToFull ==
  ASSUME NEW S \in SUBSET Nat, NEW a \in Seq(S), NEW q \in Seq(S), q # <<>>, NEW n \in Nat,
         NEW e \in S, e = n + 1, NEW d \in SUBSET (1..n),
         Complete(a \o q, n, d)
  PROVE  /\ Complete(a \o Append(Tail(q), e), e, d \cup {Head(q)})
         /\ Head(q) \in 1..n
<1>1. /\ Increasing(a \o Tail(q))
      /\ Range(a \o Tail(q)) = Range(a \o q) \ {Head(q)}
  BY OldestGone DEF Complete
<1>2. Head(q) \in 1..n
  <2>1. a \o q \in Seq(S) /\ Len(a) + 1 \in 1..Len(a \o q) /\ (a \o q)[Len(a) + 1] = Head(q)
    <3>1. Len(q) > 0 /\ Len(q) \in Nat /\ Len(a) \in Nat
      BY EmptySeq
    <3>2. Head(q) = q[1]
      OBVIOUS
    <3>3. /\ a \o q \in Seq(S) /\ Len(a \o q) = Len(a) + Len(q)
          /\ \A i \in 1..Len(a) + Len(q) : (a \o q)[i] = IF i <= Len(a) THEN a[i] ELSE q[i - Len(a)]
      BY ConcatProperties
    <3>4. (Len(a) + 1) - Len(a) = 1 /\ Len(a) + 1 \in 1..Len(a) + Len(q) /\ ~(Len(a) + 1 <= Len(a))
      BY <3>1
    <3> QED BY <3>2, <3>3, <3>4
  <2>2. Head(q) \in Range(a \o q)
    BY <2>1, ListElements
  <2> QED BY <2>2 DEF Complete
<1>3. Range(a \o Tail(q)) = (1..n) \ (d \cup {Head(q)})
  BY <1>1 DEF Complete
<1>4. Tail(q) \in Seq(S) /\ d \cup {Head(q)} \in SUBSET (1..n)
  BY <1>2, HeadTailProperties
<1>5. PICK r \in Seq(S) : r = Tail(q)
  BY <1>4
<1>6. PICK c \in SUBSET (1..n) : c = d \cup {Head(q)}
  BY <1>4
<1>7. Complete(a \o r, n, c)
  BY <1>1, <1>3, <1>5, <1>6 DEF Complete
<1>8. Complete(a \o Append(r, e), e, c)
  BY <1>7, PostToRoom
<1> QED BY <1>2, <1>5, <1>6, <1>8

LEMMA PostStep ==
  ASSUME DiscordInv, NEW s \in Channels, Post(s)
  PROVE  DiscordInv'
<1> USE DEF DiscordInv
<1> DEFINE q == queue[s]
           a == sent[s] \o batch[s]
           n == posted[s]
           full == Len(q) >= MaxQueue
           r == IF full THEN Tail(q) ELSE q
           d == IF full THEN dropped[s] \cup {Head(q)} ELSE dropped[s]
           g == IF full THEN Gone(s) \cup {Head(q)} ELSE Gone(s)
<1>1. /\ queue' = [queue EXCEPT ![s] = Append(r, n + 1)]
      /\ dropped' = [dropped EXCEPT ![s] = d]
      /\ posted' = [posted EXCEPT ![s] = n + 1]
      /\ UNCHANGED <<threads, batch, left, sent, discarded, since, after>>
  BY DEF Post, TypeOK
<1>2. /\ q \in Seq(1..MaxPosts) /\ a \in Seq(1..MaxPosts) /\ Len(q) <= MaxQueue
      /\ n \in Nat /\ n + 1 \in 1..MaxPosts /\ Gone(s) \in SUBSET (1..n)
      /\ Complete(a \o q, n, Gone(s))
  <2>1. n \in 0..MaxPosts /\ n < MaxPosts
    BY DEF Post, TypeOK
  <2>2. sent[s] \in Seq(1..MaxPosts) /\ batch[s] \in Seq(1..MaxPosts)
    BY DEF TypeOK
  <2>3. a \in Seq(1..MaxPosts)
    BY <2>2, ConcatProperties
  <2> QED BY <2>1, <2>3, DiscordAssumption DEF TypeOK, DroppedInv, NothingLost, Alive
<1>3. full => q # <<>>
  BY DiscordAssumption
<1> HIDE DEF q, a, n
<1>4. PICK e \in 1..MaxPosts : e = n + 1
  BY <1>2
<1>5. 1..MaxPosts \in SUBSET Nat
  BY DiscordAssumption
<1>6. /\ Append(r, e) \in Seq(1..MaxPosts) /\ Len(Append(r, e)) <= MaxQueue
      /\ g \subseteq 1..e
      /\ Complete(a \o Append(r, e), e, g)
  <2>1. CASE full
    <3>1. Tail(q) \in Seq(1..MaxPosts) /\ Len(Tail(q)) = Len(q) - 1
      BY <1>2, <1>3, <2>1, HeadTailProperties
    <3>2. Complete(a \o Append(Tail(q), e), e, Gone(s) \cup {Head(q)}) /\ Head(q) \in 1..n
      BY <1>2, <1>3, <1>4, <1>5, <2>1, PostToFull
    <3>3. Append(r, e) \in Seq(1..MaxPosts) /\ Len(Append(r, e)) = Len(q)
      BY <1>2, <2>1, <3>1
    <3> QED BY <1>2, <1>4, <2>1, <3>2, <3>3
  <2>2. CASE ~full
    <3>1. Complete(a \o Append(q, e), e, Gone(s))
      BY <1>2, <1>4, <1>5, PostToRoom
    <3>2. Append(r, e) \in Seq(1..MaxPosts) /\ Len(Append(r, e)) = Len(q) + 1
      BY <1>2, <2>2
    <3> QED BY <1>2, <1>4, <2>2, <3>1, <3>2, DiscordAssumption
  <2> QED BY <2>1, <2>2
<1> HIDE DEF r, g
<1>7. g = d \cup discarded[s]
  BY DEF g, Gone
<1> HIDE DEF d, full
<1>8. /\ queue'[s] = Append(r, e) /\ dropped'[s] = d /\ posted'[s] = e
      /\ \A c \in Channels \ {s} : /\ queue'[c] = queue[c] /\ dropped'[c] = dropped[c]
                                   /\ posted'[c] = posted[c]
  BY <1>1, <1>4 DEF TypeOK
<1>9. /\ queue' \in [Channels -> Seq(1..MaxPosts)]
      /\ dropped' \in [Channels -> SUBSET (1..MaxPosts)]
      /\ posted' \in [Channels -> 0..MaxPosts]
  <2>1. d \in SUBSET (1..MaxPosts) /\ e \in 0..MaxPosts
    BY <1>4, <1>6, <1>7, DiscordAssumption
  <2>2. PICK l \in Seq(1..MaxPosts) : l = Append(r, e)
    BY <1>6
  <2>3. queue' = [queue EXCEPT ![s] = l] /\ posted' = [posted EXCEPT ![s] = e]
    BY <1>1, <1>4, <2>2
  <2>4. queue' \in [Channels -> Seq(1..MaxPosts)]
    BY <2>2, <2>3 DEF TypeOK
  <2>5. dropped' \in [Channels -> SUBSET (1..MaxPosts)]
    BY <1>1, <2>1 DEF TypeOK
  <2>6. posted' \in [Channels -> 0..MaxPosts]
    BY <2>1, <2>3 DEF TypeOK
  <2> QED BY <2>4, <2>5, <2>6
<1>10. \A c \in Channels : Len(queue'[c]) <= MaxQueue
  BY <1>6, <1>8 DEF TypeOK
<1>11. TypeOK'
  BY <1>1, <1>9, <1>10 DEF TypeOK, threads
<1>12. WorkerInv' /\ StoppedInv' /\ PauseInv'
  BY <1>1 DEF threads, WorkerInv, StoppedInv, PauseInv
<1>13. Gone(s)' = g /\ \A c \in Channels \ {s} : Gone(c)' = Gone(c)
  BY <1>1, <1>7, <1>8 DEF Gone
<1>14. DroppedInv'
  BY <1>6, <1>8, <1>13 DEF DroppedInv
<1>15. NothingLost'
  BY <1>1, <1>6, <1>8, <1>13 DEF NothingLost, Alive, a
<1> QED BY <1>11, <1>12, <1>14, <1>15

-----------------------------------------------------------------------------
(* The other steps.                                                        *)

LEMMA StartStep ==
  ASSUME DiscordInv, NEW s \in Channels, Start(s)
  PROVE  DiscordInv'
<1> USE DEF DiscordInv
<1>1. /\ UNCHANGED <<stopper, queue, batch, left, posted, sent, dropped, discarded, since, after>>
      /\ \A c \in Channels \ {s} : /\ starter'[c] = starter[c] /\ running'[c] = running[c]
                                   /\ worker'[c] = worker[c]
  BY DEF Start, Starts, TypeOK
<1>2. \/ starter[s] = "idle" /\ starter'[s] = "enabled" /\ UNCHANGED <<running, worker>>
      \/ starter[s] = "enabled" /\ starter'[s] = "running" /\ running'[s] /\ UNCHANGED worker
      \/ starter[s] = "running" /\ starter'[s] = "created" /\ worker'[s] = "loop" /\ UNCHANGED running
      \/ starter[s] = "created" /\ starter'[s] = "stored" /\ UNCHANGED <<running, worker>>
  BY DEF Start, Starts, TypeOK
<1>3. TypeOK'
  <2>1. enabled' \in [Channels -> BOOLEAN] /\ running' \in [Channels -> BOOLEAN]
    BY DEF Start, TypeOK
  <2>2. /\ worker' \in [Channels -> {"none", "loop", "wait", "send", "pause", "ended"}]
        /\ starter' \in [Channels -> {"idle", "enabled", "running", "created", "stored"}]
    BY DEF Start, Starts, TypeOK
  <2> QED BY <1>1, <2>1, <2>2 DEF TypeOK
<1>4. WorkerInv'
  BY <1>1, <1>2 DEF WorkerInv
<1>5. StoppedInv'
  BY <1>1, <1>2 DEF WorkerInv, StoppedInv
<1>6. PauseInv'
  BY <1>1, <1>2 DEF WorkerInv, PauseInv
<1>7. DroppedInv' /\ NothingLost'
  BY <1>1 DEF DroppedInv, NothingLost, Alive, Gone
<1> QED BY <1>3, <1>4, <1>5, <1>6, <1>7

LEMMA StopStep ==
  ASSUME DiscordInv, NEW s \in Channels, StopBegins(s) \/ StopReturns(s)
  PROVE  DiscordInv'
<1> USE DEF DiscordInv
<1>1. /\ UNCHANGED <<worker, starter, queue, batch, left, posted, sent, dropped, discarded, since, after>>
      /\ \A c \in Channels : running'[c] => running[c]
  BY DEF StopBegins, StopReturns, TypeOK
<1>2. TypeOK'
  <2>1. enabled' \in [Channels -> BOOLEAN] /\ running' \in [Channels -> BOOLEAN]
    BY DEF StopBegins, StopReturns, TypeOK
  <2>2. stopper' \in [Channels -> {"idle", "joining", "done"}]
    BY DEF StopBegins, StopReturns, TypeOK
  <2> QED BY <1>1, <2>1, <2>2 DEF TypeOK
<1>3. WorkerInv' /\ StoppedInv' /\ PauseInv'
  BY <1>1 DEF WorkerInv, StoppedInv, PauseInv
<1>4. DroppedInv' /\ NothingLost'
  BY <1>1 DEF DroppedInv, NothingLost, Alive, Gone
<1> QED BY <1>2, <1>3, <1>4

LEMMA LoopStep ==
  ASSUME DiscordInv, NEW s \in Channels, Loop(s) \/ Resume(s)
  PROVE  DiscordInv'
<1> USE DEF DiscordInv
<1>1. /\ UNCHANGED <<enabled, running, starter, stopper, queue, batch, left, posted, sent, dropped,
                     discarded, since, after>>
      /\ \A c \in Channels \ {s} : worker'[c] = worker[c]
  BY DEF Loop, Resume, TypeOK
<1>2. \/ worker[s] = "loop" /\ running[s] /\ worker'[s] = "wait"
      \/ worker[s] = "loop" /\ ~running[s] /\ worker'[s] = "ended"
      \/ worker[s] = "pause" /\ (left[s] = 0 \/ ~running[s]) /\ worker'[s] = "loop"
  BY DEF Loop, Resume, TypeOK
<1>3. TypeOK'
  <2>1. worker' \in [Channels -> {"none", "loop", "wait", "send", "pause", "ended"}]
    BY DEF Loop, Resume, TypeOK
  <2> QED BY <1>1, <2>1 DEF TypeOK
<1>4. WorkerInv'
  BY <1>1, <1>2 DEF WorkerInv
<1>5. StoppedInv'
  BY <1>1, <1>2 DEF StoppedInv
<1>6. PauseInv'
  <2>1. since[s] \in 0..Pause /\ left[s] \in 0..Pause
    BY DEF TypeOK
  <2>2. left[s] = 0 /\ worker[s] = "pause" => since[s] = Pause
    BY <2>1, DiscordAssumption DEF PauseInv
  <2> QED BY <1>1, <1>2, <2>2 DEF PauseInv
<1>7. DroppedInv' /\ NothingLost'
  BY <1>1 DEF DroppedInv, NothingLost, Alive, Gone
<1> QED BY <1>3, <1>4, <1>5, <1>6, <1>7

LEMMA TakeStep ==
  ASSUME DiscordInv, NEW s \in Channels, Take(s)
  PROVE  DiscordInv'
<1> USE DEF DiscordInv
<1>1. /\ worker[s] = "wait" /\ batch[s] = <<>> /\ since[s] = Pause
      /\ UNCHANGED <<enabled, running, starter, stopper, left, posted, sent, dropped, discarded, since, after>>
  BY DEF Take, WorkerInv, PauseInv
<1>2. after[s] = 0
  BY <1>1 DEF StoppedInv
<1> DEFINE q == queue[s]
<1>3. q \in Seq(1..MaxPosts) /\ Len(q) <= MaxQueue /\ sent[s] \in Seq(1..MaxPosts)
  BY DEF TypeOK
<1>4. ASSUME NEW to \in {"ended", "send"}, NEW b \in Seq(1..MaxPosts), NEW r \in Seq(1..MaxPosts),
             worker' = [worker EXCEPT ![s] = to], batch' = [batch EXCEPT ![s] = b],
             queue' = [queue EXCEPT ![s] = r],
             b \o r = q, Len(r) <= Len(q), to = "ended" => b = <<>>
      PROVE  DiscordInv'
  <2>1. /\ worker'[s] = to /\ batch'[s] = b /\ queue'[s] = r
        /\ \A c \in Channels \ {s} : /\ worker'[c] = worker[c] /\ batch'[c] = batch[c]
                                     /\ queue'[c] = queue[c]
    BY <1>4 DEF TypeOK
  <2>2. Len(r) <= MaxQueue
    BY <1>3, <1>4, DiscordAssumption
  <2>3. \A c \in Channels : Len(queue'[c]) <= MaxQueue
    BY <2>1, <2>2 DEF TypeOK
  <2>4. /\ worker' \in [Channels -> {"none", "loop", "wait", "send", "pause", "ended"}]
        /\ batch' \in [Channels -> Seq(1..MaxPosts)]
        /\ queue' \in [Channels -> Seq(1..MaxPosts)]
    BY <1>4 DEF TypeOK
  <2>5. TypeOK'
    BY <1>1, <2>3, <2>4 DEF TypeOK
  <2>6. WorkerInv'
    BY <1>1, <1>4, <2>1 DEF WorkerInv
  <2>7. StoppedInv' /\ PauseInv' /\ DroppedInv'
    BY <1>1, <1>2, <1>4, <2>1 DEF StoppedInv, PauseInv, DroppedInv, Gone
  <2>8. (sent[s] \o b) \o r = (sent[s] \o <<>>) \o q
    <3>1. PICK x \in Seq(1..MaxPosts) : x = sent[s]
      BY <1>3
    <3>2. (x \o b) \o r = x \o (b \o r)
      <4>1. PICK S : S = 1..MaxPosts
        OBVIOUS
      <4>2. x \in Seq(S) /\ b \in Seq(S) /\ r \in Seq(S)
        BY <1>4, <3>1, <4>1
      <4> QED BY <4>2, ConcatAssociative
    <3>3. x \o <<>> = x
      BY ConcatEmptySeq
    <3> QED BY <1>4, <3>1, <3>2, <3>3
  <2>9. \A c \in Channels : Alive(c)' = Alive(c)
    BY <1>1, <2>1, <2>8 DEF Alive
  <2>10. NothingLost'
    BY <1>1, <2>9 DEF NothingLost, Gone
  <2> QED BY <2>5, <2>6, <2>7, <2>10
<1>5. CASE ~running[s] /\ queue[s] = <<>>
  <2>1. worker' = [worker EXCEPT ![s] = "ended"] /\ batch' = batch /\ queue' = queue
    BY <1>5 DEF Take
  <2>2. batch' = [batch EXCEPT ![s] = <<>>] /\ queue' = [queue EXCEPT ![s] = q]
    BY <1>1, <2>1 DEF TypeOK
  <2>3. <<>> \in Seq(1..MaxPosts) /\ <<>> \o q = q /\ Len(q) <= Len(q)
    BY <1>3, ConcatEmptySeq
  <2> HIDE DEF q
  <2>4. PICK b \in Seq(1..MaxPosts), to \in {"ended", "send"} : b = <<>> /\ to = "ended"
    BY <2>3
  <2>5. b \o q = q /\ batch' = [batch EXCEPT ![s] = b] /\ worker' = [worker EXCEPT ![s] = to]
    BY <2>1, <2>2, <2>3, <2>4
  <2> QED BY <1>3, <1>4, <2>2, <2>3, <2>4, <2>5
<1>6. CASE ~(~running[s] /\ queue[s] = <<>>)
  <2>1. PICK n \in 0..Len(q) : n = IF Len(q) < BatchLines THEN Len(q) ELSE BatchLines
    BY <1>3, DiscordAssumption
  <2>2. /\ batch' = [batch EXCEPT ![s] = SubSeq(q, 1, n)]
        /\ queue' = [queue EXCEPT ![s] = SubSeq(q, n + 1, Len(q))]
        /\ worker' = [worker EXCEPT ![s] = "send"]
    BY <1>6, <2>1 DEF Take
  <2>3. /\ SubSeq(q, 1, n) \in Seq(1..MaxPosts) /\ SubSeq(q, n + 1, Len(q)) \in Seq(1..MaxPosts)
        /\ Len(SubSeq(q, n + 1, Len(q))) <= Len(q)
        /\ SubSeq(q, 1, n) \o SubSeq(q, n + 1, Len(q)) = q
    BY <1>3, TakenAndLeft
  <2> HIDE DEF q
  <2> QED BY <1>4, <2>2, <2>3
<1> QED BY <1>5, <1>6

LEMMA SendStep ==
  ASSUME DiscordInv, NEW s \in Channels, Send(s)
  PROVE  DiscordInv'
<1> USE DEF DiscordInv
<1> DEFINE a == sent[s]
           b == batch[s]
           q == queue[s]
           n == posted[s]
<1>1. /\ worker[s] = "send" /\ since[s] = Pause
      /\ worker' = [worker EXCEPT ![s] = "pause"]
      /\ left' = [left EXCEPT ![s] = Pause]
      /\ batch' = [batch EXCEPT ![s] = <<>>]
      /\ UNCHANGED <<enabled, running, starter, stopper, queue, posted, dropped>>
  BY DEF Send, PauseInv
<1>2. after[s] = 0
  BY <1>1 DEF StoppedInv
<1>3. /\ a \in Seq(1..MaxPosts) /\ b \in Seq(1..MaxPosts) /\ q \in Seq(1..MaxPosts)
      /\ <<>> \in Seq(1..MaxPosts) /\ 1..MaxPosts \in SUBSET Nat
  BY DiscordAssumption DEF TypeOK
<1>4. /\ since' = [since EXCEPT ![s] = since'[s]] /\ since'[s] \in 0..Pause
      /\ after' = [after EXCEPT ![s] = after'[s]]
      /\ after'[s] = 0 \/ (after'[s] = 1 /\ ~running[s])
  <2>1. CASE b = <<>>
    <3>1. UNCHANGED <<since, after>>
      BY <2>1 DEF Send, Posts
    <3> QED BY <1>2, <3>1 DEF TypeOK
  <2>2. CASE b # <<>>
    <3>1. /\ since' = [since EXCEPT ![s] = 0]
          /\ after' = IF running[s] THEN after ELSE [after EXCEPT ![s] = @ + 1]
      BY <2>2 DEF Send, Posts
    <3>2. since' = [since EXCEPT ![s] = since'[s]] /\ since'[s] \in 0..Pause
      BY <3>1, DiscordAssumption DEF TypeOK
    <3>3. CASE running[s]
      BY <1>2, <3>1, <3>2, <3>3 DEF TypeOK
    <3>4. CASE ~running[s]
      BY <1>2, <3>1, <3>2, <3>4 DEF TypeOK
    <3> QED BY <3>3, <3>4
  <2> QED BY <2>1, <2>2
\* The batch arrives, or is discarded as a whole.
<1>5. \/ sent' = [sent EXCEPT ![s] = a \o b] /\ discarded' = discarded
      \/ sent' = sent /\ discarded' = [discarded EXCEPT ![s] = discarded[s] \cup Range(b)]
  <2>1. CASE b = <<>>
    <3>1. sent' = sent /\ discarded' = discarded
      BY <2>1 DEF Send, Posts
    <3>2. a \o b = a
      BY <1>3, <2>1, ConcatEmptySeq
    <3> QED BY <3>1, <3>2 DEF TypeOK
  <2>2. CASE b # <<>>
    BY <2>2 DEF Send, Posts
  <2> QED BY <2>1, <2>2
<1>6. /\ worker'[s] = "pause" /\ left'[s] = Pause /\ batch'[s] = <<>>
      /\ \A c \in Channels \ {s} : /\ worker'[c] = worker[c] /\ left'[c] = left[c] /\ batch'[c] = batch[c]
                                   /\ sent'[c] = sent[c] /\ discarded'[c] = discarded[c]
                                   /\ since'[c] = since[c] /\ after'[c] = after[c]
  BY <1>1, <1>4, <1>5 DEF TypeOK
<1>7. Complete((a \o b) \o q, n, Gone(s)) /\ Gone(s) \subseteq 1..n
  BY DEF NothingLost, DroppedInv, Alive
<1>8. /\ sent' \in [Channels -> Seq(1..MaxPosts)]
      /\ discarded' \in [Channels -> SUBSET (1..MaxPosts)]
      /\ Gone(s)' \subseteq 1..n
      /\ Complete((sent'[s] \o <<>>) \o q, n, Gone(s)')
  <2>1. CASE sent' = [sent EXCEPT ![s] = a \o b] /\ discarded' = discarded
    <3>1. a \o b \in Seq(1..MaxPosts)
      BY <1>3, ConcatProperties
    <3>2. (a \o b) \o <<>> = a \o b
      BY <3>1, ConcatEmptySeq
    <3>3. sent'[s] = a \o b /\ Gone(s)' = Gone(s)
      BY <1>1, <2>1 DEF TypeOK, Gone
    <3>4. sent' \in [Channels -> Seq(1..MaxPosts)]
      BY <2>1, <3>1 DEF TypeOK
    <3>5. discarded' \in [Channels -> SUBSET (1..MaxPosts)]
      BY <2>1 DEF TypeOK
    <3> QED BY <1>7, <3>2, <3>3, <3>4, <3>5
  <2>2. CASE sent' = sent /\ discarded' = [discarded EXCEPT ![s] = discarded[s] \cup Range(b)]
    <3>1. sent'[s] = a /\ Gone(s)' = Gone(s) \cup Range(b)
      BY <1>1, <2>2 DEF TypeOK, Gone
    <3>2. a \o <<>> = a
      BY <1>3, ConcatEmptySeq
    <3>3. Increasing(a \o q) /\ Range(a \o q) = Range((a \o b) \o q) \ Range(b)
      <4>1. Increasing((a \o b) \o q)
        BY <1>7 DEF Complete
      <4>2. PICK S \in SUBSET Nat : a \in Seq(S) /\ b \in Seq(S) /\ q \in Seq(S)
        BY <1>3
      <4> HIDE DEF a, b, q
      <4> QED BY <4>1, <4>2, MiddleGone
    <3>4. Complete(a \o q, n, Gone(s) \cup Range(b))
      BY <1>7, <3>3 DEF Complete
    <3>5. Range(b) \subseteq Range((a \o b) \o q)
      BY <1>3, MiddleIncluded
    <3>6. Gone(s) \cup Range(b) \subseteq 1..n
      BY <1>7, <3>5 DEF Complete
    <3>7. 1..n \subseteq 1..MaxPosts
      BY DiscordAssumption DEF TypeOK
    <3>8. discarded[s] \cup Range(b) \in SUBSET (1..MaxPosts)
      BY <3>6, <3>7 DEF Gone
    <3>9. discarded' \in [Channels -> SUBSET (1..MaxPosts)]
      BY <2>2, <3>8 DEF TypeOK
    <3>10. sent' \in [Channels -> Seq(1..MaxPosts)]
      BY <2>2 DEF TypeOK
    <3> QED BY <3>1, <3>2, <3>4, <3>6, <3>9, <3>10
  <2> QED BY <1>5, <2>1, <2>2
<1>9. TypeOK'
  <2>1. batch' \in [Channels -> Seq(1..MaxPosts)]
    BY <1>1, <1>3 DEF TypeOK
  <2>2. since' \in [Channels -> 0..Pause] /\ left' \in [Channels -> 0..Pause]
    BY <1>1, <1>4, DiscordAssumption DEF TypeOK
  <2>3. after' \in [Channels -> Nat]
    <3>1. PICK v \in Nat : v = after'[s]
      BY <1>4
    <3>2. after' = [after EXCEPT ![s] = v]
      BY <1>4, <3>1
    <3> QED BY <3>2 DEF TypeOK
  <2>4. worker' \in [Channels -> {"none", "loop", "wait", "send", "pause", "ended"}]
    BY <1>1 DEF TypeOK
  <2> QED BY <1>1, <1>8, <2>1, <2>2, <2>3, <2>4 DEF TypeOK
<1>10. WorkerInv'
  BY <1>1, <1>6 DEF WorkerInv
<1>11. StoppedInv'
  BY <1>1, <1>4, <1>6 DEF StoppedInv
<1>12. PauseInv'
  <2>1. since'[s] + left'[s] >= Pause
    BY <1>4, <1>6, DiscordAssumption
  <2> QED BY <1>1, <1>6, <2>1 DEF PauseInv
<1>13. \A c \in Channels \ {s} : Gone(c)' = Gone(c) /\ Alive(c)' = Alive(c)
  BY <1>1, <1>6 DEF Gone, Alive
<1>14. DroppedInv'
  BY <1>1, <1>8, <1>13 DEF DroppedInv
<1>15. NothingLost'
  <2>1. Complete(Alive(s)', posted'[s], Gone(s)')
    BY <1>1, <1>6, <1>8 DEF Alive
  <2> QED BY <1>1, <1>13, <2>1 DEF NothingLost
<1> QED BY <1>9, <1>10, <1>11, <1>12, <1>14, <1>15

LEMMA TickStep ==
  ASSUME DiscordInv, Tick
  PROVE  DiscordInv'
<1> USE DEF DiscordInv
<1>1. /\ left' = [c \in Channels |-> IF left[c] > 0 THEN left[c] - 1 ELSE 0]
      /\ since' = [c \in Channels |-> IF since[c] < Pause THEN since[c] + 1 ELSE Pause]
      /\ UNCHANGED <<threads, queue, batch, posted, sent, dropped, discarded, after>>
  BY DEF Tick
<1>2. \A c \in Channels : left[c] \in 0..Pause /\ since[c] \in 0..Pause
  BY DEF TypeOK
<1>3. left' \in [Channels -> 0..Pause] /\ since' \in [Channels -> 0..Pause]
  BY <1>1, <1>2, DiscordAssumption
<1>4. TypeOK'
  BY <1>1, <1>3 DEF TypeOK, threads
<1>5. WorkerInv' /\ StoppedInv' /\ DroppedInv' /\ NothingLost'
  BY <1>1 DEF threads, WorkerInv, StoppedInv, DroppedInv, NothingLost, Alive, Gone
<1>6. PauseInv'
  <2> SUFFICES ASSUME NEW c \in Channels
               PROVE  /\ worker[c] \in {"none", "wait", "send"} => since'[c] = Pause
                      /\ worker[c] = "loop" => since'[c] = Pause \/ ~running[c]
                      /\ worker[c] = "pause" => since'[c] + left'[c] >= Pause
    BY <1>1 DEF PauseInv, threads
  <2>1. since[c] = Pause => since'[c] = Pause
    BY <1>1, DiscordAssumption
  <2>2. since[c] + left[c] >= Pause => since'[c] + left'[c] >= Pause
    BY <1>1, <1>2, DiscordAssumption
  <2> QED BY <2>1, <2>2 DEF PauseInv
<1> QED BY <1>4, <1>5, <1>6

LEMMA DiscordInit == Init => DiscordInv
<1> SUFFICES ASSUME Init PROVE DiscordInv
  OBVIOUS
<1>1. /\ <<>> \in Seq(1..MaxPosts) /\ Len(<<>>) = 0 /\ <<>> \o <<>> = <<>>
      /\ Complete(<<>>, 0, {})
  <2>1. <<>> \o <<>> = <<>>
    BY ConcatEmptySeq
  <2>2. Increasing(<<>>)
    BY DEF Increasing
  <2>3. Range(<<>>) = {} /\ (1..0) \ {} = {}
    BY EmptyList
  <2> QED BY <2>1, <2>2, <2>3 DEF Complete
<1>2. enabled \in [Channels -> BOOLEAN] /\ running \in [Channels -> BOOLEAN]
  BY DEF Init
<1>3. /\ queue \in [Channels -> Seq(1..MaxPosts)] /\ batch \in [Channels -> Seq(1..MaxPosts)]
      /\ sent \in [Channels -> Seq(1..MaxPosts)] /\ \A c \in Channels : Len(queue[c]) <= MaxQueue
  BY <1>1, DiscordAssumption DEF Init
<1>4. /\ posted \in [Channels -> 0..MaxPosts] /\ left \in [Channels -> 0..Pause]
      /\ since \in [Channels -> 0..Pause] /\ after \in [Channels -> Nat]
      /\ dropped \in [Channels -> SUBSET (1..MaxPosts)]
      /\ discarded \in [Channels -> SUBSET (1..MaxPosts)]
  BY DiscordAssumption DEF Init
<1>5. TypeOK
  BY <1>2, <1>3, <1>4 DEF Init, TypeOK
<1>6. WorkerInv /\ StoppedInv /\ PauseInv /\ DroppedInv
  BY DEF Init, WorkerInv, StoppedInv, PauseInv, DroppedInv, Gone
<1>7. NothingLost
  BY <1>1 DEF Init, NothingLost, Alive, Gone
<1> QED BY <1>5, <1>6, <1>7 DEF DiscordInv

-----------------------------------------------------------------------------
(* The theorems.                                                           *)

\* Posting threads, the workers, Start and Stop keep the invariant in any order.
THEOREM DiscordInvariant == Spec => []DiscordInv
<1>1. ASSUME DiscordInv, [Next]_vars
      PROVE  DiscordInv'
  <2>1. CASE UNCHANGED vars
    BY <1>1, <2>1 DEF vars, threads, DiscordInv, TypeOK, WorkerInv, StoppedInv, PauseInv, DroppedInv,
                      NothingLost, Alive, Gone
  <2> QED
    BY <1>1, <2>1, TickStep, StartStep, StopStep, PostStep, LoopStep, TakeStep, SendStep
       DEF Next, WorkerStep, Quiet
<1> QED BY <1>1, DiscordInit, PTL DEF Spec

\* Lines arrive in the order of posting and none twice, and only those a full queue
\* has pushed out and those of a batch whose Send failed are missing.
THEOREM NoLineIsLost == Spec => []NothingLost
<1>1. DiscordInv => NothingLost
  BY DEF DiscordInv
<1> QED BY <1>1, DiscordInvariant, PTL

\* Stop lets a worker try one more batch at most, whenever it comes.
THEOREM AtMostOneMore == Spec => []OneBatchAfterStop
<1>1. DiscordInv => OneBatchAfterStop
  BY DEF DiscordInv, StoppedInv, OneBatchAfterStop
<1> QED BY <1>1, DiscordInvariant, PTL

\* Two Sends of a sender are at least a pause apart, Stop or not, and whether or
\* not they succeed.
THEOREM BatchesKeepDistance == Spec => OncePerSecond
<1>1. ASSUME DiscordInv, [Next]_vars, NEW s \in Channels,
             sent'[s] # sent[s] \/ discarded'[s] # discarded[s]
      PROVE  since[s] >= Pause
  <2>1. ASSUME NEW c \in Channels, Send(c)
        PROVE  since[s] >= Pause
    <3>1. c = s
      BY <1>1, <2>1 DEF Send, Posts, DiscordInv, TypeOK
    <3>2. since[s] = Pause
      BY <1>1, <2>1, <3>1 DEF Send, DiscordInv, PauseInv
    <3> QED BY <3>2, DiscordAssumption
  <2>2. ~(sent' = sent /\ discarded' = discarded)
    BY <1>1
  <2>3. \E c \in Channels : Send(c)
    BY <1>1, <2>2 DEF Next, vars, Tick, Quiet, Start, Starts, StopBegins, StopReturns, Post, WorkerStep,
                      Loop, Take, Resume
  <2> QED BY <2>1, <2>3
<1>2. DiscordInv /\ [Next]_vars =>
        [\A s \in Channels :
           sent'[s] # sent[s] \/ discarded'[s] # discarded[s] => since[s] >= Pause]_vars
  BY <1>1
<1> QED BY <1>2, DiscordInvariant, PTL DEF Spec, OncePerSecond

-----------------------------------------------------------------------------
(* The death reports.  The two threads meet in reportDeath only: what each has *)
(* read of the clock may be old when it has the mutex, so the proof never needs *)
(* it to be later than what is in the map.                                     *)

\* What the proof uses of the constants.
LEMMA DeathConstants ==
  /\ MaxTime \in Nat \ {0} /\ DeathGap \in Nat
  /\ AnyPlayer \in Players
  /\ \A p \in Players : /\ <<p, "netId">> \in Keys
                        /\ <<p, "playerId">> \in Keys
<1>1. MaxTime \in Nat \ {0} /\ DeathGap \in Nat /\ Players # {}
  BY DeathAssumption
<1>2. AnyPlayer \in Players
  BY <1>1 DEF AnyPlayer
<1> QED BY <1>1, <1>2 DEF Keys

\* What a thread holds in its frame has the type it should have.
Games == [at : {"idle", "hook", "event", "stamped", "forward", "dropped"}, player : Players,
          kind : {"death", "other"}, previous : BOOLEAN, key : Keys, stamp : 0..MaxTime]
Inits == [at : {"sleep", "hooked", "sweep", "stamped"}, key : Keys, stamp : 0..MaxTime]

LEMMA GameFrames ==
  /\ NoCall \in Games /\ NoCall.at = "idle"
  /\ \A p \in Players, k \in {"death", "other"}, b \in BOOLEAN,
        at \in {"hook", "forward"} :
       Calling(at, p, k, b) \in Games /\ Calling(at, p, k, b).at = at
  /\ \A at \in {"sleep", "hooked", "sweep"} :
       At(at) \in Inits /\ At(at).at = at
<1>1. 0 \in 0..MaxTime /\ AnyPlayer \in Players
  BY DeathConstants
<1>2. \A p \in Players, k \in {"death", "other"}, b \in BOOLEAN, at \in {"idle", "hook", "forward"} :
        Calling(at, p, k, b) \in Games /\ Calling(at, p, k, b).at = at
  BY <1>1, DeathConstants DEF Games, Calling
<1>3. NoCall \in Games /\ NoCall.at = "idle"
  <2>1. TRUE \in BOOLEAN /\ "other" \in {"death", "other"} /\ "idle" \in {"idle", "hook", "forward"}
    OBVIOUS
  <2> QED BY <1>1, <1>2, <2>1, Zenon DEF NoCall
<1>4. \A at \in {"sleep", "hooked", "sweep"} :
        At(at) \in Inits /\ At(at).at = at
  BY <1>1, DeathConstants DEF Inits, At
<1> QED BY <1>2, <1>3, <1>4

\* reportDeath under its mutex, on either thread: a stamp that is refused changes
\* nothing, one that is not comes DeathGap after the last report of its key.
LEMMA ReportKept ==
  ASSUME NEW k \in Keys, NEW stamp \in 1..MaxTime,
         LockedReport(k, stamp), PostedInv, DeathOnce,
         deathPosted \in [Keys -> 0..MaxTime],
         reports \in [Keys -> Seq(1..MaxTime)]
  PROVE  /\ deathPosted' \in [Keys -> 0..MaxTime]
         /\ reports' \in [Keys -> Seq(1..MaxTime)]
         /\ PostedInv' /\ DeathOnce'
<1>1. CASE ~Fresh(k, stamp)
  <2>1. deathPosted' = deathPosted /\ reports' = reports
    BY <1>1 DEF LockedReport
  <2> QED BY <2>1 DEF PostedInv, DeathOnce, Keys
<1>2. CASE Fresh(k, stamp)
  <2>1. /\ deathPosted' = [deathPosted EXCEPT ![k] = stamp]
        /\ reports' = [reports EXCEPT ![k] = Append(reports[k], stamp)]
    BY <1>2 DEF LockedReport
  <2>2. PICK r \in Seq(1..MaxTime) : r = reports[k]
    OBVIOUS
  <2>3. Append(r, stamp) \in Seq(1..MaxTime)
    BY <2>2, AppendProperties
  <2>4. PICK s \in Seq(1..MaxTime) : s = Append(r, stamp)
    BY <2>3
  <2>5. /\ Len(s) = Len(r) + 1 /\ s[Len(s)] = stamp /\ s # <<>> /\ Len(r) \in Nat
        /\ \A i \in 1..Len(r) : s[i] = r[i] /\ r[i] \in 1..MaxTime
    <3>1. Len(s) = Len(r) + 1 /\ Len(r) \in Nat /\ s[Len(r) + 1] = stamp
      BY <2>4
    <3>2. \A i \in 1..Len(r) : s[i] = r[i]
      BY <2>4
    <3>3. \A i \in 1..Len(r) : r[i] \in 1..MaxTime
      <4>1. ASSUME NEW S, NEW q \in Seq(S) PROVE \A i \in 1..Len(q) : q[i] \in S
        OBVIOUS
      <4> QED BY <4>1
    <3> QED BY <3>1, <3>2, <3>3
  <2>6. /\ deathPosted'[k] = stamp /\ reports'[k] = s
        /\ \A x \in Keys \ {k} : deathPosted'[x] = deathPosted[x] /\ reports'[x] = reports[x]
    BY <2>1, <2>2, <2>4
  <2>7. deathPosted' \in [Keys -> 0..MaxTime]
    BY <2>1
  <2>8. reports' \in [Keys -> Seq(1..MaxTime)]
    BY <2>1, <2>2, <2>4
  <2>9. PostedInv'
    <3>1. \A x \in Keys : IF reports'[x] = <<>> THEN deathPosted'[x] = 0
                                 ELSE deathPosted'[x] = reports'[x][Len(reports'[x])]
      BY <2>5, <2>6 DEF PostedInv
    <3> QED BY <3>1 DEF PostedInv, Keys
  <2>10. r # <<>> => stamp >= r[Len(r)] + DeathGap
    <3> SUFFICES ASSUME r # <<>>
                 PROVE  stamp >= r[Len(r)] + DeathGap
      OBVIOUS
    <3>1. Len(r) \in 1..Len(r) /\ deathPosted[k] = r[Len(r)]
      BY <2>2, <2>5 DEF PostedInv
    <3>2. r[Len(r)] # 0
      BY <2>5, <3>1
    <3> QED BY <1>2, <3>1, <3>2 DEF Fresh
  <2>11. \A i \in 1..(Len(s) - 1) : s[i + 1] >= s[i] + DeathGap
    <3> SUFFICES ASSUME NEW i \in 1..(Len(s) - 1)
                 PROVE  s[i + 1] >= s[i] + DeathGap
      OBVIOUS
    <3>1. i \in 1..Len(r) /\ r # <<>>
      BY <2>5
    <3>2. CASE i = Len(r)
      BY <2>5, <2>10, <3>1, <3>2
    <3>3. CASE i # Len(r)
      <4>1. i + 1 \in 1..Len(r) /\ i \in 1..(Len(r) - 1)
        <5>1. PICK n \in Nat : n = Len(r)
          BY <2>5
        <5>2. i \in 1..n /\ i # n
          BY <3>1, <3>3, <5>1
        <5>3. i + 1 \in 1..n /\ i \in 1..(n - 1)
          BY <5>2
        <5> QED BY <5>1, <5>3
      <4>2. r[i + 1] >= r[i] + DeathGap
        BY <2>2, <4>1 DEF DeathOnce
      <4> QED BY <2>5, <3>1, <4>1, <4>2
    <3> QED BY <3>2, <3>3
  <2>12. DeathOnce'
    <3>1. \A x \in Keys : \A i \in 1..(Len(reports'[x]) - 1) :
            reports'[x][i + 1] >= reports'[x][i] + DeathGap
      BY <2>6, <2>11 DEF DeathOnce
    <3> QED BY <3>1 DEF DeathOnce, Keys
  <2> QED BY <2>7, <2>8, <2>9, <2>12
<1> QED BY <1>1, <1>2

\* Every other step leaves the map and the reports alone.
LEMMA DeathsUnreported ==
  ASSUME DeathInv, UNCHANGED <<deathPosted, reports>>
  PROVE  PostedInv' /\ DeathOnce'
  BY DEF DeathInv, PostedInv, DeathOnce, Keys

\* The types, part by part, before and after a step.
LEMMA DeathTypes ==
  /\ DeathsTypeOK <=>
       /\ now \in 1..MaxTime /\ health \in [Players -> Healths]
       /\ seen \in [Players -> Healths] /\ wasDead \in [Players -> Healths]
       /\ slot \in BOOLEAN /\ g_HookedVTables \in BOOLEAN
       /\ g_RecentEvents \in [Players -> 0..MaxTime]
       /\ game \in Games /\ init \in Inits /\ todo \subseteq Players
       /\ deathPosted \in [Keys -> 0..MaxTime]
       /\ reports \in [Keys -> Seq(1..MaxTime)]
  /\ DeathsTypeOK' <=>
       /\ now' \in 1..MaxTime /\ health' \in [Players -> Healths]
       /\ seen' \in [Players -> Healths] /\ wasDead' \in [Players -> Healths]
       /\ slot' \in BOOLEAN /\ g_HookedVTables' \in BOOLEAN
       /\ g_RecentEvents' \in [Players -> 0..MaxTime]
       /\ game' \in Games /\ init' \in Inits /\ todo' \subseteq Players
       /\ deathPosted' \in [Keys -> 0..MaxTime]
       /\ reports' \in [Keys -> Seq(1..MaxTime)]
  BY DEF DeathsTypeOK, Games, Inits, Keys, Healths

\* Every step keeps the invariant.
LEMMA DeathStep ==
  ASSUME DeathInv, DeathsNext
  PROVE  DeathInv'
<1> USE DEF eventVars, sweepVars, reportVars
<1>1. /\ now \in 1..MaxTime /\ health \in [Players -> Healths]
      /\ seen \in [Players -> Healths] /\ wasDead \in [Players -> Healths]
      /\ slot \in BOOLEAN /\ g_HookedVTables \in BOOLEAN
      /\ g_RecentEvents \in [Players -> 0..MaxTime]
      /\ game \in Games /\ init \in Inits /\ todo \subseteq Players
      /\ deathPosted \in [Keys -> 0..MaxTime]
      /\ reports \in [Keys -> Seq(1..MaxTime)]
  BY DeathTypes DEF DeathInv
<1>2. /\ StampInv /\ PostedInv /\ DeathOnce
      /\ MaxTime \in Nat \ {0}
  BY DeathConstants DEF DeathInv
\* It is enough that a step which reports nothing keeps the frames of both threads.
<1>3. ASSUME UNCHANGED <<deathPosted, reports>>, StampInv',
             now' \in 1..MaxTime, health' \in [Players -> Healths],
             seen' \in [Players -> Healths], wasDead' \in [Players -> Healths],
             slot' \in BOOLEAN, g_HookedVTables' \in BOOLEAN,
             g_RecentEvents' \in [Players -> 0..MaxTime],
             game' \in Games, init' \in Inits, todo' \subseteq Players
      PROVE  DeathInv'
  <2>1. PostedInv' /\ DeathOnce'
    BY <1>3, DeathsUnreported
  <2>2. DeathsTypeOK'
    BY <1>1, <1>3, DeathTypes
  <2> QED BY <1>3, <2>1, <2>2 DEF DeathInv
<1>4. CASE DeathsTick
  <2>1. now' \in 1..MaxTime /\ UNCHANGED <<health, slot, g_HookedVTables, g_RecentEvents, game, init,
                                         wasDead, seen, todo, deathPosted, reports>>
    BY <1>1, <1>2, <1>4 DEF DeathsTick
  <2>2. StampInv'
    BY <1>2, <2>1 DEF StampInv
  <2> QED BY <1>1, <1>3, <2>1, <2>2
<1>5. ASSUME NEW p \in Players, Health(p)
      PROVE  DeathInv'
  <2>1. /\ health' \in [Players -> Healths]
        /\ UNCHANGED <<now, slot, g_HookedVTables, g_RecentEvents, game, init,
                       wasDead, seen, todo, deathPosted, reports>>
    BY <1>1, <1>5 DEF Health
  <2>2. StampInv'
    BY <1>2, <2>1 DEF StampInv
  <2> QED BY <1>1, <1>3, <2>1, <2>2
\* The game thread outside reportDeath.
<1>6. ASSUME game' \in Games, game'.at = "stamped" => game'.stamp # 0,
             g_RecentEvents' \in [Players -> 0..MaxTime],
             UNCHANGED <<now, health, slot, g_HookedVTables, init, wasDead, seen, todo,
                         deathPosted, reports>>
      PROVE  DeathInv'
  <2>1. StampInv'
    BY <1>2, <1>6 DEF StampInv
  <2> QED BY <1>1, <1>3, <1>6, <2>1
<1>7. ASSUME NEW p \in Players, NEW kind \in {"death", "other"}, HookedChatProcessEvent(p, kind)
      PROVE  DeathInv'
  <2>1. game' = Calling("hook", p, kind, g_HookedVTables)
    BY <1>7 DEF HookedChatProcessEvent
  <2>2. game' \in Games /\ game'.at = "hook"
    BY <1>1, <2>1, GameFrames
  <2> QED BY <1>1, <1>6, <1>7, <2>2 DEF HookedChatProcessEvent
\* A frame moved to another place, outside reportDeath.
<1>8. ASSUME NEW to \in {"event", "forward", "dropped"}
      PROVE  [game EXCEPT !.at = to] \in Games /\ [game EXCEPT !.at = to].at = to
  BY <1>1 DEF Games
<1>9. CASE HandlePlayerEvent
  <2>1. g_RecentEvents' \in [Players -> 0..MaxTime]
    <3>1. g_RecentEvents' = g_RecentEvents \/
            g_RecentEvents' = [q \in Players |->
                  IF q = game.player THEN now
                  ELSE IF now - g_RecentEvents[q] > Forget THEN 0 ELSE g_RecentEvents[q]]
      BY <1>9 DEF HandlePlayerEvent
    <3>2. now \in 0..MaxTime /\ 0 \in 0..MaxTime
      BY <1>1, <1>2
    <3> QED BY <1>1, <3>1, <3>2
  <2>2. PICK to \in {"event", "forward"} : game' = [game EXCEPT !.at = to]
    BY <1>9 DEF HandlePlayerEvent
  <2>3. game' \in Games /\ game'.at # "stamped"
    BY <1>8, <2>2
  <2> QED BY <1>6, <1>9, <2>1, <2>3 DEF HandlePlayerEvent
<1>10. CASE EventStamp
  <2>1. PICK by \in {"netId", "playerId"} :
          game' = [game EXCEPT !.at = "stamped", !.key = <<game.player, by>>, !.stamp = now]
    BY <1>10 DEF EventStamp
  <2>2. PICK k \in Keys : k = <<game.player, by>>
    BY <1>1, DeathConstants DEF Games
  <2>3. game' = [at |-> "stamped", player |-> game.player, kind |-> game.kind,
                 previous |-> game.previous, key |-> k, stamp |-> now]
    BY <1>1, <2>1, <2>2 DEF Games
  <2>4. game' \in Games /\ game'.stamp = now
    BY <1>1, <1>2, <2>2, <2>3 DEF Games
  <2> QED BY <1>1, <1>6, <1>10, <2>4 DEF EventStamp
<1>11. CASE Forward \/ Dropped
  <2>1. game' = NoCall \/ game' = [game EXCEPT !.at = "dropped"]
    BY <1>11 DEF Forward, Dropped
  <2>2. game' \in Games /\ game'.at # "stamped"
    BY <1>8, <2>1, GameFrames
  <2> QED BY <1>1, <1>6, <1>11, <2>2 DEF Forward, Dropped
<1>12. CASE EventReport
  <2>1. /\ game.key \in Keys /\ game.stamp \in 1..MaxTime
        /\ game.player \in Players /\ game.kind \in {"death", "other"} /\ game.previous \in BOOLEAN
    BY <1>1, <1>2, <1>12 DEF EventReport, StampInv, Games
  <2>2. /\ LockedReport(game.key, game.stamp)
        /\ game' = Calling("forward", game.player, game.kind, game.previous)
        /\ UNCHANGED <<now, health, slot, g_HookedVTables, g_RecentEvents, init, wasDead, seen, todo>>
    BY <1>12 DEF EventReport
  <2>3. game' \in Games /\ game'.at = "forward"
    BY <2>1, <2>2, GameFrames
  <2>4. /\ deathPosted' \in [Keys -> 0..MaxTime]
        /\ reports' \in [Keys -> Seq(1..MaxTime)]
        /\ PostedInv' /\ DeathOnce'
    BY <1>1, <1>2, <2>1, <2>2, ReportKept
  <2>5. DeathsTypeOK'
    BY <1>1, <2>2, <2>3, <2>4, DeathTypes
  <2>6. StampInv'
    BY <1>2, <2>2, <2>3 DEF StampInv
  <2> QED BY <2>4, <2>5, <2>6 DEF DeathInv
\* The init thread outside reportDeath.
<1>13. ASSUME init' \in Inits, init'.at = "stamped" => init'.stamp # 0, todo' \subseteq Players,
              seen' \in [Players -> Healths], wasDead' \in [Players -> Healths],
              slot' \in BOOLEAN, g_HookedVTables' \in BOOLEAN,
              UNCHANGED <<now, health, g_RecentEvents, game, deathPosted, reports>>
       PROVE  DeathInv'
  <2>1. StampInv'
    BY <1>2, <1>13 DEF StampInv
  <2> QED BY <1>1, <1>3, <1>13, <2>1
<1>14. CASE PollHooks
  <2>1. init' \in Inits /\ init'.at = "hooked"
    BY <1>14, GameFrames DEF PollHooks
  <2>2. slot' \in BOOLEAN
    BY <1>14, Zenon DEF PollHooks
  <2> QED BY <1>1, <1>13, <1>14, <2>1, <2>2 DEF PollHooks
<1>15. CASE PollMaps \/ PollSkips
  <2>1. /\ init' = At("sweep") /\ seen' = health /\ todo' \subseteq Players
        /\ UNCHANGED <<now, health, slot, g_RecentEvents, game, wasDead, deathPosted, reports>>
    BY <1>15 DEF PollMaps, PollSkips, BeginSweep
  <2>2. init' \in Inits /\ init'.at = "sweep"
    BY <2>1, GameFrames
  <2>3. g_HookedVTables' = TRUE \/ g_HookedVTables' = g_HookedVTables
    BY <1>15 DEF PollMaps, PollSkips
  <2>4. g_HookedVTables' \in BOOLEAN
    BY <1>1, <2>3, Zenon
  <2> QED BY <1>1, <1>13, <2>1, <2>2, <2>4
<1>16. ASSUME NEW p \in Players, SweepStamp(p)
       PROVE  DeathInv'
  <2>1. init' = [at |-> "stamped", key |-> <<p, "netId">>, stamp |-> now] /\ todo' \subseteq Players
    BY <1>1, <1>16 DEF SweepStamp
  <2>2. PICK k \in Keys : k = <<p, "netId">>
    BY DeathConstants
  <2>3. init' \in Inits /\ init'.stamp # 0
    BY <1>1, <1>2, <2>1, <2>2 DEF Inits
  <2> QED BY <1>1, <1>13, <1>16, <2>1, <2>3 DEF SweepStamp
<1>17. ASSUME NEW p \in Players, SweepSkip(p)
       PROVE  DeathInv'
  <2>1. init' = init /\ todo' \subseteq Players
    BY <1>1, <1>17 DEF SweepSkip
  <2> QED BY <1>1, <1>2, <1>13, <1>17, <2>1 DEF SweepSkip, StampInv
<1>18. CASE SweepReport
  <2>1. init.key \in Keys /\ init.stamp \in 1..MaxTime
    BY <1>1, <1>2, <1>18 DEF SweepReport, StampInv, Inits
  <2>2. /\ LockedReport(init.key, init.stamp)
        /\ init' = At("sweep")
        /\ UNCHANGED <<now, health, slot, g_HookedVTables, g_RecentEvents, game, wasDead, seen, todo>>
    BY <1>18 DEF SweepReport
  <2>3. init' \in Inits /\ init'.at = "sweep"
    BY <2>2, GameFrames
  <2>4. /\ deathPosted' \in [Keys -> 0..MaxTime]
        /\ reports' \in [Keys -> Seq(1..MaxTime)]
        /\ PostedInv' /\ DeathOnce'
    BY <1>1, <1>2, <2>1, <2>2, ReportKept
  <2>5. DeathsTypeOK'
    BY <1>1, <2>2, <2>3, <2>4, DeathTypes
  <2>6. StampInv'
    BY <1>2, <2>2, <2>3 DEF StampInv
  <2> QED BY <2>4, <2>5, <2>6 DEF DeathInv
<1>19. CASE DeathSweepEnds
  <2>1. init' = At("sleep") /\ wasDead' = seen
    BY <1>19 DEF DeathSweepEnds
  <2>2. init' \in Inits /\ init'.at = "sleep"
    BY <2>1, GameFrames
  <2> QED BY <1>1, <1>13, <1>19, <2>1, <2>2 DEF DeathSweepEnds
<1> QED BY <1>4, <1>5, <1>7, <1>9, <1>10, <1>11, <1>12, <1>14, <1>15, <1>16, <1>17, <1>18, <1>19
      DEF DeathsNext, GameStep, InitStep

\* At first nobody has died and nothing is hooked.
LEMMA DeathInit ==
  ASSUME DeathsInit
  PROVE  DeathInv
<1>1. 1 \in 1..MaxTime /\ 0 \in 0..MaxTime
  BY DeathConstants
<1>2. /\ now \in 1..MaxTime /\ health \in [Players -> Healths]
      /\ seen \in [Players -> Healths] /\ wasDead \in [Players -> Healths]
      /\ g_RecentEvents \in [Players -> 0..MaxTime] /\ todo \subseteq Players
      /\ deathPosted \in [Keys -> 0..MaxTime]
  BY <1>1 DEF DeathsInit, Healths
<1>3. slot \in BOOLEAN /\ g_HookedVTables \in BOOLEAN
  BY Zenon DEF DeathsInit
<1>4. reports \in [Keys -> Seq(1..MaxTime)]
  BY DEF DeathsInit
<1>5. game \in Games /\ game.at = "idle" /\ init \in Inits /\ init.at = "sleep"
  BY GameFrames DEF DeathsInit
<1>6. DeathsTypeOK
  BY <1>2, <1>3, <1>4, <1>5, DeathTypes
<1>7. StampInv
  BY <1>5 DEF StampInv
<1>8. PostedInv /\ DeathOnce
  BY DEF DeathsInit, PostedInv, DeathOnce
<1> QED BY <1>6, <1>7, <1>8 DEF DeathInv

\* Both threads keep their types and the map of deaths has the last report of each
\* key, for any players, gaps and length of time.
THEOREM DeathInvariant == DeathsSpec => []DeathInv
<1>1. DeathsInit => DeathInv
  BY DeathInit
<1>2. DeathInv /\ [DeathsNext]_deathsVars => DeathInv'
  <2>1. CASE UNCHANGED deathsVars
    BY <2>1 DEF deathsVars, eventVars, sweepVars, reportVars, DeathInv,
       DeathsTypeOK, StampInv, PostedInv, DeathOnce, Keys, Healths
  <2> QED BY <2>1, DeathStep
<1> QED BY <1>1, <1>2, PTL DEF DeathsSpec

\* A death is reported once: the reports of a key are DeathGap apart, whichever
\* threads made them and however long each waited for the mutex with its stamp.
THEOREM DeathsAreReportedOnce == DeathsSpec => []DeathOnce
<1>1. DeathInv => DeathOnce
  BY DEF DeathInv
<1> QED BY <1>1, DeathInvariant, PTL

-----------------------------------------------------------------------------
(* Kicks and bans.  That whoever a kick command has removed is remembered needs *)
(* the place of the command's thread: it is its KickWakes that remembers, and   *)
(* its KickTimesOut that gives up, also for a closure that is yet to run.       *)

\* There are finitely many players.
LEMMA SnapshotIsFinite == IsFiniteSet(Snapshot)
<1> DEFINE here == {d \in Controllers : online[d] # None}
           player(c) == [playerId |-> c, netId |-> online[c], guid |-> NoText, character |-> NoText,
                         name |-> Name[online[c]],
                         controller |-> IF c \in spawned THEN c ELSE NoController]
           f == [c \in here |-> player(c)]
<1>1. IsFiniteSet(here)
  <2>1. IsFiniteSet(Controllers)
    BY ModerationAssumption
  <2> QED BY <2>1, FS_Subset
<1>2. Snapshot = {player(c) : c \in here}
  BY DEF Snapshot
<1> HIDE DEF player, here
<1>3. f \in Surjection(here, {player(c) : c \in here})
  BY DEF Surjection
<1> HIDE DEF f
<1> QED BY <1>1, <1>2, <1>3, FS_Surjection

\* KickPlayer goes on only with a player of its snapshot who has a controller.
LEMMA TargetIsFound ==
  ASSUME NEW players, IsFiniteSet(players), NEW who, NEW p \in KickTarget(players, who)
  PROVE  p \in players /\ Found(p)
<1>1. CASE ById(players, who) # {}
  <2>1. p \in ById(players, who)
    BY <1>1 DEF KickTarget
  <2> QED BY <2>1 DEF ById
<1>2. CASE ById(players, who) = {}
  <2>1. PICK decisive : decisive = Decisive(players, who)
    OBVIOUS
  <2>2. PICK i : i = Min(decisive)
    OBVIOUS
  <2>3. PICK hits : hits = Hits(players, Fields[i], who)
    OBVIOUS
  <2>4. decisive # {} /\ Cardinality(hits) = 1 /\ p \in hits
    BY <1>2, <2>1, <2>2, <2>3 DEF KickTarget
  <2>5. decisive \in SUBSET Nat
    BY <2>1 DEF Decisive, Fields
  <2>6. i \in decisive
    <3>1. Min(decisive) = Min(decisive)
      BY DEF Min, Min
    <3> QED BY <2>2, <2>4, <2>5, <3>1, NatMin
  <2>7. Cardinality(hits) > 1 \/ \E q \in hits : Found(q)
    BY <2>1, <2>3, <2>6 DEF Decisive
  <2>8. PICK q \in hits : Found(q)
    BY <2>4, <2>7
  <2>9. hits \subseteq players
    BY <2>3 DEF Hits
  <2>10. Cardinality(hits) = 1 /\ IsFiniteSet(hits)
    BY <2>4, <2>9, FS_Subset
  <2>11. PICK x : hits = {x}
    BY <2>10, FS_Singleton
  <2> QED BY <2>4, <2>8, <2>9, <2>11
<1> QED BY <1>1, <1>2

\* The calls of the threads: what a call may be, by whom.
CallRecs == [at : {"idle", "lookup", "queued", "ran", "refused"}, op : {"none", "kick", "ban", "sweep"},
             id : Ids \cup Controllers \cup {None}, c : Controllers \cup {None}]
CallOK(t, r) ==
  /\ r \in CallRecs
  /\ r.c # None <=> r.at \in {"queued", "ran", "refused"}
  /\ r.at # "idle" => r.op # "none"
  /\ r.at \in {"queued", "ran", "refused"} => r.id \in Ids
  /\ r.at = "idle" => r = Idle
  /\ t = Enforcer => r.op \in {"none", "sweep"}
CallsOK == call \in [Threads -> CallRecs] /\ \A t \in Threads : CallOK(t, call[t])

\* Everything else.
LateKicks == [c : Controllers, id : Ids, op : {"kick", "ban", "sweep"}]
Sweeps == [at : {"sleep", "kicks", "bans"}, todo : SUBSET NetIds, bans : SUBSET NetIds]
RestOK ==
  /\ phase \in {"engine", "ready", "nopump", "loaded"}
  /\ online \in [Controllers -> Ids \cup {None}]
  /\ spawned \subseteq Controllers /\ \A c \in spawned : online[c] # None
  /\ g_Bans \subseteq NetIds /\ g_Kicked \subseteq NetIds
  /\ late \subseteq LateKicks /\ sweep \in Sweeps
  /\ orders \in [NetIds -> {"none", "kick", "lifted"}]
  /\ removed \subseteq NetIds /\ gaveUp \subseteq NetIds

LEMMA ModerationParts ==
  /\ ModerationInv <=> RestOK /\ CallsOK /\ LateInv /\ RemovedInv
  /\ ModerationInv' <=> RestOK' /\ CallsOK' /\ LateInv' /\ RemovedInv'
<1>1. ModTypeOK /\ CallInv <=> RestOK /\ CallsOK
  BY DEF ModTypeOK, CallInv, RestOK, CallsOK, CallOK, CallRecs, LateKicks, Sweeps
<1>2. (ModTypeOK /\ CallInv)' <=> (RestOK /\ CallsOK)'
  BY <1>1, PTL
<1> QED BY <1>1, <1>2 DEF ModerationInv

\* Who is who.
LEMMA ThreadFacts ==
  /\ Enforcer \in Threads /\ Chat \in Operators
  /\ Operators \subseteq Threads /\ Enforcer \notin Operators
  /\ \A t \in Threads : t # Enforcer => t \in Operators
  /\ None \notin Ids /\ None \notin Controllers /\ NoText \notin NetIds
  BY ModerationAssumption, PlayerMatchAssumption DEF Threads, Operators, Ids

\* No call, and a call that begins.
LEMMA IdleIsOK ==
  ASSUME NEW t
  PROVE  CallOK(t, Idle)
  BY DEF CallOK, CallRecs, Idle

LEMMA CallBegins ==
  ASSUME NEW t, NEW p \in Ids \cup Controllers, NEW op \in {"kick", "ban", "sweep"},
         t = Enforcer => op = "sweep"
  PROVE  CallOK(t, [at |-> "lookup", op |-> op, id |-> p, c |-> None])
  BY DEF CallOK, CallRecs

\* One thread's call changes.
LEMMA CallChanges ==
  ASSUME CallsOK, NEW t \in Threads, NEW r, CallOK(t, r), call' = [call EXCEPT ![t] = r]
  PROVE  /\ CallsOK' /\ call'[t] = r
         /\ \A u \in Threads \ {t} : call'[u] = call[u]
<1>1. call \in [Threads -> CallRecs] /\ r \in CallRecs
  BY DEF CallsOK, CallOK
<1>2. /\ call' \in [Threads -> CallRecs] /\ call'[t] = r
      /\ \A u \in Threads \ {t} : call'[u] = call[u]
  BY <1>1
<1>3. \A u \in Threads : CallOK(u, call'[u])
  BY <1>2 DEF CallsOK
<1>4. CallsOK'
  <2>1. \A u \in Threads : CallOK(u, call[u])'
    BY <1>3 DEF CallOK, CallRecs, Idle
  <2> QED BY <1>2, <2>1 DEF CallsOK, CallRecs, Threads, Operators
<1> QED BY <1>2, <1>4

\* A step that removes nobody, forgets no kick and leaves the calls alone whose
\* closure has run.
LEMMA NobodyRemoved ==
  ASSUME ModerationInv, RestOK', CallsOK',
         removed' = removed, g_Kicked \subseteq g_Kicked', gaveUp \subseteq gaveUp', late' \subseteq late,
         \A t \in Operators : call[t].at = "ran" => call'[t] = call[t]
  PROVE  ModerationInv'
<1>1. LateInv /\ RemovedInv
  BY DEF ModerationInv
<1>2. LateInv'
  BY <1>1 DEF LateInv
<1>3. \A p \in removed' :
        \/ p \in g_Kicked' \cup gaveUp'
        \/ \E t \in Operators : call'[t].at = "ran" /\ call'[t].op = "kick" /\ call'[t].id = p
  BY <1>1 DEF RemovedInv
<1>4. RemovedInv'
  BY <1>3 DEF RemovedInv, Operators
<1> QED BY <1>2, <1>4, ModerationParts

\* InitThread up to its loop, and the game's players.
LEMMA SetupStep ==
  ASSUME ModerationInv,
         \/ PumpInstalled \/ Load
         \/ \E p \in Ids, c \in Controllers : Join(p, c)
         \/ \E c \in Controllers : Spawn(c) \/ Leave(c)
  PROVE  ModerationInv'
<1> USE DEF gameVars, listVars, historyVars
<1>1. RestOK /\ CallsOK
  BY ModerationParts
<1>2. /\ UNCHANGED <<g_Kicked, call, late, sweep, orders, removed, gaveUp>>
  BY DEF PumpInstalled, Load, Join, Spawn, Leave
<1>3. /\ phase' \in {"engine", "ready", "nopump", "loaded"}
      /\ g_Bans' \subseteq NetIds
  BY <1>1 DEF PumpInstalled, Load, Join, Spawn, Leave, RestOK
<1>4. /\ online' \in [Controllers -> Ids \cup {None}]
      /\ spawned' \subseteq Controllers /\ \A c \in spawned' : online'[c] # None
  <2>1. CASE PumpInstalled \/ Load
    BY <1>1, <2>1 DEF PumpInstalled, Load, RestOK
  <2>2. ASSUME NEW p \in Ids, NEW c \in Controllers, Join(p, c)
        PROVE  <1>4!1 /\ <1>4!2
    BY <1>1, <2>2, ThreadFacts DEF Join, RestOK
  <2>3. ASSUME NEW c \in Controllers, Spawn(c) \/ Leave(c)
        PROVE  <1>4!1 /\ <1>4!2
    BY <1>1, <2>3 DEF Spawn, Leave, Ends, RestOK
  <2> QED BY <2>1, <2>2, <2>3
<1>5. RestOK'
  BY <1>1, <1>2, <1>3, <1>4 DEF RestOK, LateKicks, Sweeps, Ids
<1>6. CallsOK'
  BY <1>1, <1>2 DEF CallsOK, CallOK, CallRecs, Ids, Idle, Threads, Operators
<1> QED BY <1>2, <1>5, <1>6, NobodyRemoved

\* The operators' commands begin.
LEMMA CommandStep ==
  ASSUME ModerationInv, NEW t \in Operators, NEW p \in NetIds \cup Controllers,
         Kick(t, p) \/ (p \in NetIds /\ (Ban(t, p) \/ Unban(t, p)))
  PROVE  ModerationInv'
<1> USE DEF gameVars, listVars, historyVars
<1>1. RestOK /\ CallsOK
  BY ModerationParts
<1>2. t \in Threads /\ t # Enforcer
  BY ThreadFacts
<1>3. /\ UNCHANGED <<phase, online, spawned, g_Kicked, late, sweep, removed, gaveUp>>
      /\ g_Bans' \subseteq NetIds
      /\ orders' \in [NetIds -> {"none", "kick", "lifted"}]
  BY <1>1 DEF Kick, Ban, Unban, RestOK
<1>4. RestOK'
  BY <1>1, <1>3 DEF RestOK, LateKicks, Sweeps, Ids
<1>5. CASE Unban(t, p)
  <2>1. call' = call
    BY <1>5 DEF Unban
  <2>2. CallsOK'
    BY <1>1, <2>1 DEF CallsOK, CallOK, CallRecs, Ids, Idle, Threads, Operators
  <2> QED BY <1>3, <1>4, <2>1, <2>2, NobodyRemoved
<1>6. CASE Kick(t, p) \/ Ban(t, p)
  <2>1. PICK op \in {"kick", "ban"} : Calls(t, op, p)
    BY <1>6 DEF Kick, Ban
  <2>2. PICK r : r = [at |-> "lookup", op |-> op, id |-> p, c |-> None]
    OBVIOUS
  <2>3. call[t].at # "ran" /\ call' = [call EXCEPT ![t] = r]
    BY <2>1, <2>2 DEF Calls, Idle
  <2>4. CallOK(t, r)
    BY <1>2, <2>2, CallBegins DEF Ids
  <2>5. CallsOK' /\ \A u \in Threads \ {t} : call'[u] = call[u]
    BY <1>1, <1>2, <2>3, <2>4, CallChanges
  <2> QED BY <1>3, <1>4, <2>3, <2>5, ThreadFacts, NobodyRemoved
<1> QED BY <1>5, <1>6

\* KickPlayer's look-up.
LEMMA LookupStep ==
  ASSUME ModerationInv, NEW t \in Threads, Lookup(t)
  PROVE  ModerationInv'
<1> USE DEF gameVars, listVars, historyVars
<1>1. RestOK /\ CallsOK
  BY ModerationParts
<1>2. call[t].at = "lookup" /\ call[t] \in CallRecs /\ CallOK(t, call[t])
      /\ call \in [Threads -> CallRecs]
  BY <1>1 DEF Lookup, CallsOK
<1>3. UNCHANGED <<phase, online, spawned, g_Bans, g_Kicked, late, sweep, removed, gaveUp>>
  BY DEF Lookup
<1>5. /\ orders' \in [NetIds -> {"none", "kick", "lifted"}]
      /\ \E r : CallOK(t, r) /\ call' = [call EXCEPT ![t] = r]
  <2>1. CASE Returns(t) /\ orders' = orders
    BY <1>1, <2>1, IdleIsOK DEF Returns, RestOK
  <2>2. CASE ~(Returns(t) /\ orders' = orders)
    <3>1. PICK p \in KickTarget(Snapshot, call[t].id) :
            /\ call' = [call EXCEPT ![t] = [at |-> "queued", op |-> call[t].op,
                                            id |-> p.netId, c |-> p.controller]]
            /\ orders' = IF call[t].op = "kick" /\ p.netId # NoText
                         THEN [orders EXCEPT ![p.netId] = "kick"] ELSE orders
      BY <2>2 DEF Lookup
    <3>2. p \in Snapshot /\ Found(p)
      BY <3>1, SnapshotIsFinite, TargetIsFound
    <3>3. PICK c \in Controllers : online[c] # None /\ p.controller = c /\ p.netId = online[c]
      BY <3>2 DEF Snapshot, Found
    <3>4. PICK id \in Ids : id = online[c]
      BY <1>1, <3>3 DEF RestOK
    <3>5. PICK r : r = [at |-> "queued", op |-> call[t].op, id |-> id, c |-> c]
      OBVIOUS
    <3>6. call' = [call EXCEPT ![t] = r]
      BY <3>1, <3>3, <3>4, <3>5
    <3>7. CallOK(t, r)
      BY <1>2, <3>5, ThreadFacts DEF CallOK, CallRecs
    <3>8. orders' \in [NetIds -> {"none", "kick", "lifted"}]
      BY <1>1, <3>1, <3>3, <3>4 DEF RestOK, Ids
    <3> QED BY <3>6, <3>7, <3>8
  <2> QED BY <2>1, <2>2
<1>4. RestOK'
  BY <1>1, <1>3, <1>5 DEF RestOK, LateKicks, Sweeps, Ids
<1>6. CallsOK' /\ \A u \in Threads \ {t} : call'[u] = call[u]
  BY <1>1, <1>5, CallChanges
<1> QED BY <1>2, <1>3, <1>4, <1>6, ThreadFacts, NobodyRemoved

\* The sweeps of InitThread.
LEMMA SweepStep ==
  ASSUME ModerationInv, Sweep
  PROVE  ModerationInv'
<1> USE DEF gameVars, listVars, historyVars
<1>1. RestOK /\ CallsOK
  BY ModerationParts
<1>2. UNCHANGED <<phase, online, spawned, g_Bans, g_Kicked, late, orders, removed, gaveUp>>
  BY DEF Sweep, SweepKicks, SweepBans, SweepPlayer, SweepEnds
<1>3. Connected \subseteq NetIds
  BY <1>1 DEF RestOK, Connected, Ids
<1>4. sweep' \in Sweeps
  <2>1. CASE SweepKicks \/ SweepBans \/ SweepEnds
    BY <1>1, <1>3, <2>1 DEF RestOK, Sweeps, SweepKicks, SweepBans, SweepEnds, Asleep
  <2>2. ASSUME NEW p \in NetIds, SweepPlayer(p)
        PROVE  sweep' \in Sweeps
    BY <1>1, <2>2 DEF RestOK, Sweeps, SweepPlayer
  <2> QED BY <2>1, <2>2 DEF Sweep
<1>5. RestOK'
  BY <1>1, <1>2, <1>4 DEF RestOK, LateKicks
<1>6. CASE call' = call
  <2>1. CallsOK'
    BY <1>1, <1>6 DEF CallsOK, CallOK, CallRecs, Ids, Idle, Threads, Operators
  <2> QED BY <1>2, <1>5, <1>6, <2>1, NobodyRemoved
<1>7. CASE call' # call
  <2>1. PICK p \in NetIds : Calls(Enforcer, "sweep", p)
    BY <1>7 DEF Sweep, SweepKicks, SweepBans, SweepPlayer, SweepEnds
  <2>2. PICK r : r = [at |-> "lookup", op |-> "sweep", id |-> p, c |-> None]
    OBVIOUS
  <2>3. call' = [call EXCEPT ![Enforcer] = r]
    BY <2>1, <2>2 DEF Calls
  <2>4. CallOK(Enforcer, r)
    BY <2>2, CallBegins DEF Ids
  <2>5. CallsOK' /\ \A u \in Threads \ {Enforcer} : call'[u] = call[u]
    BY <1>1, <2>3, <2>4, CallChanges, ThreadFacts
  <2> QED BY <1>2, <1>5, <2>5, ThreadFacts, NobodyRemoved
<1> QED BY <1>6, <1>7

\* The closure of a call runs, on the game thread.
LEMMA RunStep ==
  ASSUME ModerationInv, NEW t \in Threads,
         KickRuns(t) \/ KickRefused(t)
  PROVE  ModerationInv'
<1> USE DEF gameVars, listVars, historyVars
<1>1. RestOK /\ CallsOK /\ LateInv /\ RemovedInv
  BY ModerationParts
<1>2. /\ call[t].at = "queued" /\ call[t] \in CallRecs /\ CallOK(t, call[t])
      /\ call \in [Threads -> CallRecs]
  BY <1>1 DEF KickRuns, KickRefused, CallsOK
<1>3. PICK to \in {"ran", "refused"} : /\ call' = [call EXCEPT ![t].at = to]
                                       /\ KickRuns(t) => to = "ran"
  BY DEF KickRuns, KickRefused, Goes
<1>4. PICK r : r = [at |-> to, op |-> call[t].op, id |-> call[t].id, c |-> call[t].c]
  OBVIOUS
<1>5. call' = [call EXCEPT ![t] = r] /\ CallOK(t, r)
  <2>1. [call[t] EXCEPT !.at = to] = r
    BY <1>2, <1>4 DEF CallRecs
  <2>2. call' = [call EXCEPT ![t] = r]
    BY <1>3, <2>1
  <2>3. CallOK(t, r)
    BY <1>2, <1>4 DEF CallRecs, CallOK
  <2> QED BY <2>2, <2>3
<1>6. CallsOK' /\ call'[t] = r /\ \A u \in Threads \ {t} : call'[u] = call[u]
  BY <1>1, <1>5, CallChanges
<1>7. CASE KickRefused(t)
  <2>1. UNCHANGED <<phase, online, spawned, g_Bans, g_Kicked, late, sweep, orders, removed, gaveUp>>
    BY <1>7 DEF KickRefused
  <2>2. RestOK'
    BY <1>1, <2>1 DEF RestOK, LateKicks, Sweeps, Ids
  <2> QED BY <1>2, <1>6, <2>1, <2>2, ThreadFacts, NobodyRemoved
<1>8. CASE KickRuns(t)
  <2>1. /\ UNCHANGED <<phase, g_Bans, g_Kicked, late, sweep, orders, gaveUp>>
        /\ online' = [online EXCEPT ![call[t].c] = None] /\ spawned' = spawned \ {call[t].c}
        /\ Removes(call[t])
    BY <1>8 DEF KickRuns, Ends
  <2>2. call[t].id \in Ids /\ call[t].c \in Controllers
    BY <1>2 DEF CallOK, CallRecs
  <2>3. /\ online' \in [Controllers -> Ids \cup {None}]
        /\ spawned' \subseteq Controllers /\ \A c \in spawned' : online'[c] # None
    BY <1>1, <2>1, <2>2 DEF RestOK
  <2>4. \/ removed' = removed
        \/ removed' = removed \cup Known(call[t].id) /\ call[t].op = "kick"
    BY <2>1 DEF Removes
  <2>5. removed' \subseteq NetIds
    BY <1>1, <2>2, <2>4 DEF RestOK, Known, Ids
  <2>6. RestOK'
    BY <1>1, <2>1, <2>3, <2>5 DEF RestOK, LateKicks, Sweeps, Ids
  <2>7. LateInv'
    BY <1>1, <2>1 DEF LateInv
  <2>8. \A u \in Operators : call[u].at = "ran" => call'[u] = call[u]
    BY <1>2, <1>6, ThreadFacts
  <2>9. ASSUME NEW p \in removed', p \notin g_Kicked' \cup gaveUp'
        PROVE  \E u \in Operators : call'[u].at = "ran" /\ call'[u].op = "kick" /\ call'[u].id = p
    <3>1. CASE p \in removed
      BY <1>1, <2>1, <2>8, <2>9, <3>1 DEF RemovedInv
    <3>2. CASE p \notin removed
      <4>1. p = call[t].id /\ call[t].op = "kick"
        BY <2>4, <2>9, <3>2 DEF Known
      <4>2. t \in Operators
        BY <1>2, <4>1, ThreadFacts DEF CallOK
      <4>3. call'[t].at = "ran" /\ call'[t].op = "kick" /\ call'[t].id = p
        BY <1>3, <1>4, <1>6, <1>8, <4>1
      <4> QED BY <4>2, <4>3
    <3> QED BY <3>1, <3>2
  <2>10. RemovedInv'
    BY <2>9 DEF RemovedInv, Operators
  <2> QED BY <1>6, <2>6, <2>7, <2>10, ModerationParts
<1> QED BY <1>7, <1>8

\* RunSync returns: the kick is remembered, or the command gives up.
LEMMA ReturnStep ==
  ASSUME ModerationInv, NEW t \in Threads,
         KickWakes(t) \/ KickTimesOut(t)
  PROVE  ModerationInv'
<1> USE DEF gameVars, listVars, historyVars
<1>1. RestOK /\ CallsOK /\ LateInv /\ RemovedInv
  BY ModerationParts
<1>2. /\ call[t].at \in {"queued", "ran", "refused"} /\ call[t] \in CallRecs /\ CallOK(t, call[t])
      /\ call \in [Threads -> CallRecs]
  BY <1>1 DEF KickWakes, KickTimesOut, CallsOK
<1>3. /\ call[t].id \in Ids /\ call[t].c \in Controllers /\ call[t].op \in {"kick", "ban", "sweep"}
  BY <1>2 DEF CallOK, CallRecs
<1>4. /\ call' = [call EXCEPT ![t] = Idle]
      /\ UNCHANGED <<phase, online, spawned, g_Bans, sweep, orders, removed>>
  BY DEF KickWakes, KickTimesOut, Returns
<1>5. CallsOK' /\ \A u \in Threads \ {t} : call'[u] = call[u]
  BY <1>1, <1>4, IdleIsOK, CallChanges
<1>6. /\ g_Kicked \subseteq g_Kicked' /\ g_Kicked' \subseteq NetIds
      /\ gaveUp \subseteq gaveUp' /\ gaveUp' \subseteq NetIds
      /\ call[t].at = "ran" /\ call[t].op = "kick" => Known(call[t].id) \subseteq g_Kicked' \cup gaveUp'
  <2>1. Known(call[t].id) \subseteq NetIds
    BY <1>3 DEF Known, Ids
  <2> QED BY <1>1, <2>1 DEF KickWakes, KickTimesOut, RestOK
<1>7. PICK k \in LateKicks : k = [c |-> call[t].c, id |-> call[t].id, op |-> call[t].op]
  BY <1>3 DEF LateKicks
<1>8. late' \subseteq late \cup {k} /\ (late' # late /\ k.op = "kick" => Known(k.id) \subseteq gaveUp')
  BY <1>7 DEF KickWakes, KickTimesOut
<1>9. RestOK'
  <2>1. late' \subseteq LateKicks
    BY <1>1, <1>8 DEF RestOK
  <2> QED BY <1>1, <1>4, <1>6, <2>1 DEF RestOK, LateKicks, Sweeps, Ids
<1>10. LateInv'
  <2>1. \A l \in late' : l.op = "kick" => Known(l.id) \subseteq gaveUp'
    BY <1>1, <1>6, <1>8 DEF LateInv
  <2> QED BY <2>1 DEF LateInv, Known
<1>11. ASSUME NEW p \in removed', p \notin g_Kicked' \cup gaveUp'
       PROVE  \E u \in Operators : call'[u].at = "ran" /\ call'[u].op = "kick" /\ call'[u].id = p
  <2>1. PICK u \in Operators : call[u].at = "ran" /\ call[u].op = "kick" /\ call[u].id = p
    BY <1>1, <1>4, <1>6, <1>11 DEF RemovedInv
  <2>2. p # NoText
    BY <1>1, <1>4, <1>11, ThreadFacts DEF RestOK
  <2>3. u # t
    BY <1>6, <1>11, <2>1, <2>2 DEF Known
  <2> QED BY <1>5, <2>1, <2>3, ThreadFacts
<1>12. RemovedInv'
  BY <1>11 DEF RemovedInv, Operators
<1> QED BY <1>5, <1>9, <1>10, <1>12, ModerationParts

\* A closure runs whose call is over.
LEMMA LateStep ==
  ASSUME ModerationInv, NEW k \in late, LateKick(k)
  PROVE  ModerationInv'
<1> USE DEF gameVars, listVars, historyVars
<1>1. RestOK /\ CallsOK /\ LateInv /\ RemovedInv
  BY ModerationParts
<1>2. /\ UNCHANGED <<phase, g_Bans, g_Kicked, call, sweep, orders, gaveUp>>
      /\ late' \subseteq late
  BY DEF LateKick
<1>3. k.c \in Controllers /\ Known(k.id) \subseteq NetIds
  BY <1>1 DEF RestOK, LateKicks, Known, Ids
<1>4. \/ removed' = removed
      \/ removed' = removed \cup Known(k.id) /\ k.op = "kick"
  BY DEF LateKick, Removes
<1>5. /\ online' \in [Controllers -> Ids \cup {None}]
      /\ spawned' \subseteq Controllers /\ \A c \in spawned' : online'[c] # None
  BY <1>1, <1>3 DEF LateKick, Ends, RestOK
<1>6. RestOK'
  BY <1>1, <1>2, <1>3, <1>4, <1>5 DEF RestOK, LateKicks, Sweeps, Ids
<1>7. CallsOK'
  BY <1>1, <1>2 DEF CallsOK, CallOK, CallRecs, Ids, Idle, Threads, Operators
<1>8. LateInv'
  BY <1>1, <1>2 DEF LateInv
<1>9. removed' \subseteq removed \cup gaveUp
  BY <1>1, <1>4 DEF LateInv
<1>10. RemovedInv'
  BY <1>1, <1>2, <1>9 DEF RemovedInv, Operators
<1> QED BY <1>6, <1>7, <1>8, <1>10, ModerationParts

\* Nobody is there at first.
LEMMA ModerationInit ==
  ASSUME ModInit
  PROVE  ModerationInv
<1>1. RestOK
  BY DEF ModInit, RestOK, Sweeps, Asleep
<1>2. CallsOK
  <2>1. call = [t \in Threads |-> Idle]
    BY DEF ModInit
  <2>2. \A t \in Threads : CallOK(t, Idle)
    BY IdleIsOK
  <2>3. Idle \in CallRecs
    BY DEF Idle, CallRecs
  <2> QED BY <2>1, <2>2, <2>3 DEF CallsOK
<1>3. LateInv /\ RemovedInv
  BY DEF ModInit, LateInv, RemovedInv
<1> QED BY <1>1, <1>2, <1>3, ModerationParts

\* The operators' threads, the game's and InitThread's keep the invariant of the
\* calls, the closures that outlive them and the kicks, for any players and threads.
THEOREM ModerationInvariant == ModSpec => []ModerationInv
<1>1. ModInit => ModerationInv
  BY ModerationInit
<1>2. ModerationInv /\ [ModNext]_modVars => ModerationInv'
  <2> SUFFICES ASSUME ModerationInv, [ModNext]_modVars
               PROVE  ModerationInv'
    OBVIOUS
  <2>1. CASE UNCHANGED modVars
    <3>1. UNCHANGED <<phase, online, spawned, g_Bans, g_Kicked, call, late, sweep, orders, removed, gaveUp>>
      BY <2>1 DEF modVars, gameVars, listVars, historyVars
    <3>2. RestOK /\ CallsOK
      BY ModerationParts
    <3>3. RestOK'
      BY <3>1, <3>2 DEF RestOK, LateKicks, Sweeps, Ids
    <3>4. CallsOK'
      BY <3>1, <3>2 DEF CallsOK, CallOK, CallRecs, Ids, Idle, Threads, Operators
    <3> QED BY <3>1, <3>3, <3>4, NobodyRemoved
  <2>2. CASE ModNext
    BY <2>2, SetupStep, CommandStep, LookupStep, SweepStep, RunStep, ReturnStep, LateStep DEF ModNext
  <2> QED BY <2>1, <2>2
<1> QED BY <1>1, <1>2, PTL DEF ModSpec

\* Whoever a kick command has removed is remembered once the call is over, back or
\* not, unless the call timed out.
THEOREM KicksAreRemembered == ModSpec => []KickRemembered
<1>1. ModerationInv => KickRemembered
  BY DEF ModerationInv, RemovedInv, KickRemembered
<1> QED BY <1>1, ModerationInvariant, PTL

-----------------------------------------------------------------------------
(* The look-ups, in lists of any length.                                    *)

\* A list of the properties is a sequence of players of the sample.
LEMMA ListsAreSequences == Lists \subseteq Seq(Sample)
<1>1. \A p \in Sample : <<p>> \in Seq(Sample)
  OBVIOUS
<1>2. \A p, q \in Sample : <<p, q>> \in Seq(Sample)
  OBVIOUS
<1>3. \A l \in Sample \X Sample : \E p, q \in Sample : l = <<p, q>>
  OBVIOUS
<1>4. ASSUME NEW l \in Lists
      PROVE  l \in Seq(Sample)
  <2>1. (\E p \in Sample : l = <<p>>) \/ l \in Sample \X Sample
    BY <1>4, Zenon DEF Lists
  <2>2. CASE l \in Sample \X Sample
    <3>1. PICK p \in Sample, q \in Sample : l = <<p, q>>
      BY <1>3, <2>2
    <3> QED BY <1>2, <3>1
  <2>3. CASE \E p \in Sample : l = <<p>>
    BY <1>1, <2>3
  <2> QED BY <2>1, <2>2, <2>3
<1> QED BY <1>4, Zenon

\* Moderation's Range and Min are the others'.
LEMMA SameRange ==
  ASSUME NEW S, NEW list \in Seq(S)
  PROVE  Range(list) = {list[i] : i \in 1..Len(list)}
  BY DEF Range

LEMMA SameMin ==
  ASSUME NEW S
  PROVE  Min(S) = Min(S)
  BY DEF Min, Min

\* The field at which KickPlayer decides: the first decisive one.
LEMMA DecidedByFirst ==
  ASSUME NEW players, NEW who, Decisive(players, who) # {}
  PROVE  /\ Min(Decisive(players, who)) \in Decisive(players, who)
         /\ \A i \in Decisive(players, who) : Min(Decisive(players, who)) <= i
         /\ Decisive(players, who) \subseteq 1..4
<1>1. PICK d : d = Decisive(players, who)
  OBVIOUS
<1>2. d \subseteq 1..4
  BY <1>1 DEF Decisive, Fields
<1>3. d \in SUBSET Nat /\ d # {}
  BY <1>1, <1>2
<1>4. Min(d) \in d /\ \A x \in d : Min(d) <= x
  BY <1>3, NatMin
<1> QED BY <1>1, <1>2, <1>4, SameMin

\* The first player of a list among some is one of them, and there is one if any is.
LEMMA FirstIsOne ==
  ASSUME NEW S, NEW list \in Seq(S), NEW hits
  PROVE  /\ \A p \in First(list, hits) : p \in hits /\ p \in Range(list)
         /\ (\E p \in Range(list) : p \in hits) => First(list, hits) # {}
<1>1. PICK I : I = {i \in 1..Len(list) : list[i] \in hits}
  OBVIOUS
<1>2. First(list, hits) = {list[i] : i \in {IF I # {} THEN Min(I) ELSE 0} \ {0}}
  BY <1>1 DEF First, SelectInSeq
<1>3. CASE I = {}
  <2>1. First(list, hits) = {}
    BY <1>2, <1>3
  <2>2. ~\E p \in Range(list) : p \in hits
    BY <1>1, <1>3, SameRange
  <2> QED BY <2>1, <2>2
<1>4. CASE I # {}
  <2>1. I \in SUBSET Nat
    BY <1>1
  <2>2. Min(I) \in I
    BY <1>4, <2>1, NatMin
  <2>3. PICK m \in I : m = Min(I)
    BY <2>2, SameMin
  <2>4. m \in 1..Len(list) /\ list[m] \in hits /\ m # 0
    BY <1>1, <2>3
  <2>5. First(list, hits) = {list[m]}
    BY <1>2, <1>4, <2>3, <2>4
  <2> QED BY <2>4, <2>5, SameRange
<1> QED BY <1>3, <1>4

\* Ban's kick hits the player whose net id it has listed, or somebody else only
\* while nobody with that net id has a controller: in a list of any length.
LEMMA BanKicks ==
  ASSUME NEW list \in Seq(Sample), NEW who \in Texts,
         BanLists(list, who) # NoText,
         NEW p \in KickTarget(Range(list), BanLists(list, who)),
         NEW q \in Range(list), q.netId = BanLists(list, who), Found(q)
  PROVE  p.netId = BanLists(list, who)
<1>1. PICK id : id = BanLists(list, who)
  OBVIOUS
<1>2. PICK players : players = Range(list)
  OBVIOUS
<1>3. players \subseteq Sample
  BY <1>2, SameRange
<1>4. id \notin Numbers
  BY <1>1, <1>2, <1>3, PlayerMatchAssumption
<1>5. ById(players, id) = {}
  BY <1>3, <1>4, PlayerMatchAssumption DEF ById
<1>6. Fields[1] = "netId" /\ 1 \in DOMAIN Fields
  BY DEF Fields
<1>7. q \in Hits(players, "netId", id)
  BY <1>1, <1>2 DEF Hits
<1>8. 1 \in Decisive(players, id)
  BY <1>6, <1>7 DEF Decisive
<1>9. Min(Decisive(players, id)) = 1
  <2>1. PICK m \in 1..4 : m = Min(Decisive(players, id)) /\ m <= 1
    BY <1>8, DecidedByFirst
  <2> QED BY <2>1
<1>10. p \in Hits(players, "netId", id)
  BY <1>1, <1>2, <1>5, <1>6, <1>9 DEF KickTarget
<1> QED BY <1>1, <1>10 DEF Hits

\* KickPlayer finds the one player an identifier fits, to the letter.
LEMMA KickAgrees ==
  ASSUME NEW players, NEW who \in Texts, NEW p \in players,
         {x \in players : Matches(x, who)} = {p}, Found(p), Named(p, who)
  PROVE  KickTarget(players, who) = {p}
<1>1. \A x \in players : Matches(x, who) => x = p
  OBVIOUS
<1>2. ById(players, who) \subseteq {p}
  BY <1>1 DEF ById, Matches
<1>3. \A i \in DOMAIN Fields : Hits(players, Fields[i], who) \subseteq {p}
  <2> SUFFICES ASSUME NEW i \in DOMAIN Fields, NEW x \in Hits(players, Fields[i], who)
               PROVE  x = p
    OBVIOUS
  <2>1. x \in players /\ x[Fields[i]] = who
    BY DEF Hits
  <2>2. Matches(x, who)
    BY <2>1 DEF Matches
  <2> QED BY <1>1, <2>1, <2>2
<1>4. CASE ById(players, who) # {}
  <2>1. KickTarget(players, who) = ById(players, who)
    BY <1>4 DEF KickTarget
  <2> QED BY <1>2, <1>4, <2>1
<1>5. CASE ById(players, who) = {}
  <2>1. PICK d : d = Decisive(players, who)
    OBVIOUS
  <2>2. p.playerId # who
    BY <1>5 DEF ById
  <2>3. PICK i \in DOMAIN Fields : p[Fields[i]] = who
    BY <2>2 DEF Named
  <2>4. p \in Hits(players, Fields[i], who)
    BY <2>3, PlayerMatchAssumption DEF Hits
  <2>5. i \in d
    BY <2>1, <2>3, <2>4 DEF Decisive
  <2>6. PICK m \in d : m = Min(d)
    BY <2>1, <2>5, DecidedByFirst
  <2>7. PICK hits : hits = Hits(players, Fields[m], who)
    OBVIOUS
  <2>8. m \in DOMAIN Fields /\ (Cardinality(hits) > 1 \/ hits # {})
    BY <2>1, <2>6, <2>7 DEF Decisive
  <2>9. hits = {} \/ hits = {p}
    BY <1>3, <2>7, <2>8
  <2>10. Cardinality({}) = 0 /\ Cardinality({p}) = 1
    BY FS_EmptySet, FS_Singleton
  <2>11. hits = {p} /\ Cardinality(hits) = 1
    <3>1. CASE hits = {}
      <4>1. Cardinality(hits) = 0
        BY <2>10, <3>1
      <4> QED BY <2>8, <3>1, <4>1
    <3>2. CASE hits = {p}
      BY <2>10, <3>2
    <3> QED BY <2>9, <3>1, <3>2
  <2> QED BY <1>5, <2>1, <2>5, <2>6, <2>7, <2>11 DEF KickTarget
<1> QED BY <1>4, <1>5

\* So do give, ban and player, which take the first of a list.
LEMMA OthersAgree ==
  ASSUME NEW list \in Seq(Sample), NEW who \in Texts,
         NEW p \in Range(list),
         {x \in Range(list) : Matches(x, who)} = {p}, Found(p)
  PROVE  /\ GiveTarget(list, who) = {p}
         /\ p.netId # NoText => BanLists(list, who) = p.netId
         /\ PlayerShown(list, who) \subseteq {p}
<1>1. FirstMatch(list, who) = {p}
  <2>1. FirstMatch(list, who) = First(list, {p})
    BY DEF FirstMatch
  <2>2. PICK F : F = First(list, {p})
    OBVIOUS
  <2>3. \A x \in F : x \in {p}
    BY <2>2, FirstIsOne
  <2>4. F # {}
    BY <2>2, FirstIsOne
  <2>5. F = {p}
    BY <2>3, <2>4
  <2> QED BY <2>1, <2>2, <2>5
<1>2. GiveTarget(list, who) = {p}
  BY <1>1 DEF GiveTarget
<1>3. p.netId # NoText => BanLists(list, who) = p.netId
  <2> SUFFICES ASSUME p.netId # NoText
               PROVE  BanLists(list, who) = p.netId
    OBVIOUS
  <2>1. PICK ids : ids = {x.netId : x \in FirstMatch(list, who)} \ {NoText}
    OBVIOUS
  <2>2. ids = {p.netId}
    BY <1>1, <2>1
  <2>3. BanLists(list, who) = CHOOSE id \in ids : TRUE
    BY <2>1, <2>2 DEF BanLists
  <2> QED BY <2>2, <2>3
<1>4. PlayerShown(list, who) \subseteq {p}
  <2>1. PICK hits : hits = {x \in Range(list) :
                              \E f \in {"name", "character", "netId"} : Lower[x[f]] = Lower[who]}
    OBVIOUS
  <2>2. PlayerShown(list, who) = First(list, hits)
    BY <2>1 DEF PlayerShown
  <2>3. \A x \in First(list, hits) : x \in hits
    BY FirstIsOne
  <2>4. \A f \in {"name", "character", "netId"} : \E i \in DOMAIN Fields : Fields[i] = f
    BY DEF Fields
  <2>5. \A x \in hits : Matches(x, who)
    BY <2>1, <2>4 DEF Matches
  <2>6. hits \subseteq {p}
    BY <2>1, <2>5
  <2> QED BY <2>2, <2>3, <2>6
<1> QED BY <1>2, <1>3, <1>4

\* A ban's kick does not hit a bystander whose name is the net id, once its player
\* has a controller, whatever the players of the sample are.
THEOREM BansKickTheListed == ModSpec => []BanKicksListed
<1>1. BansKickListed
  <2> SUFFICES ASSUME NEW list \in Lists, NEW who \in Texts, BanLists(list, who) # NoText,
                      NEW p \in KickTarget(Range(list), BanLists(list, who)),
                      NEW q \in Range(list), q.netId = BanLists(list, who), Found(q)
               PROVE  p.netId = BanLists(list, who)
    BY DEF BansKickListed
  <2>1. list \in Seq(Sample)
    BY ListsAreSequences
  <2> QED BY <2>1, BanKicks
<1>2. BanKicksListed
  BY <1>1 DEF BanKicksListed
<1> QED BY <1>2, PTL

\* By an identifier that fits one player only, kick, ban, give and player mean that
\* player, though each looks in its own order and at its own fields.
THEOREM CommandsMeanTheSame == ModSpec => []LookupsAgree
<1>1. CommandsAgree
  <2> SUFFICES ASSUME NEW list \in Lists, NEW who \in Texts,
                      NEW p \in {x \in Range(list) : Matches(x, who)},
                      {x \in Range(list) : Matches(x, who)} = {p},
                      Found(p), Named(p, who)
               PROVE  /\ KickTarget(Range(list), who) = {p} /\ GiveTarget(list, who) = {p}
                      /\ p.netId # NoText => BanLists(list, who) = p.netId
                      /\ PlayerShown(list, who) \subseteq {p}
    BY DEF CommandsAgree
  <2>1. list \in Seq(Sample) /\ p \in Range(list)
    BY ListsAreSequences
  <2>2. KickTarget(Range(list), who) = {p}
    BY <2>1, KickAgrees
  <2> QED BY <2>1, <2>2, OthersAgree
<1>2. LookupsAgree
  BY <1>1 DEF LookupsAgree
<1> QED BY <1>2, PTL
=============================================================================
