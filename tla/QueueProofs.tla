------------------------------ MODULE QueueProofs ------------------------------
(***************************************************************************)
(* How the operations on queues change what Queues.tla says of them.       *)
(***************************************************************************)
EXTENDS Queues, SequencesExt, FiniteSetTheorems, TLAPS

-----------------------------------------------------------------------------
\* A literal queue.

LEMMA Literals ==
    ASSUME NEW e, NEW f, NEW A, NEW B
    PROVE  /\ ~Has(<<>>, A) /\ NotBefore(<<>>, A, B) /\ ~Outlasts(<<>>, A, B)
           /\ Has(<<e>>, A) <=> e \in A
           /\ NotBefore(<<e>>, A, B)
           /\ Outlasts(<<e>>, A, B) <=> e \in A
           /\ Has(<<e, f>>, A) <=> e \in A \/ f \in A
           /\ NotBefore(<<e, f>>, A, B) <=> ~(e \in A /\ f \in B)
           /\ Outlasts(<<e, f>>, A, B) <=> (e \in A /\ f \notin B) \/ f \in A
<1>1. ~Has(<<>>, A) /\ NotBefore(<<>>, A, B) /\ ~Outlasts(<<>>, A, B)
  BY DEF Has, NotBefore, Outlasts
<1>2. DOMAIN <<e>> = 1..1 /\ <<e>>[1] = e
  OBVIOUS
<1>3. DOMAIN <<e, f>> = 1..2 /\ <<e, f>>[1] = e /\ <<e, f>>[2] = f
  OBVIOUS
<1> DEFINE s == <<e>>
           t == <<e, f>>
<1>4. /\ Has(s, A) <=> e \in A
      /\ NotBefore(s, A, B)
      /\ Outlasts(s, A, B) <=> e \in A
  <2>1. DOMAIN s = 1..1 /\ s[1] = e
    BY <1>2
  <2> HIDE DEF s
  <2>2. QED
    BY <2>1 DEF Has, NotBefore, Outlasts
<1>5. /\ Has(t, A) <=> e \in A \/ f \in A
      /\ NotBefore(t, A, B) <=> ~(e \in A /\ f \in B)
      /\ Outlasts(t, A, B) <=> (e \in A /\ f \notin B) \/ f \in A
  <2>1. DOMAIN t = 1..2 /\ t[1] = e /\ t[2] = f
    BY <1>3
  <2> HIDE DEF t
  <2>2. 1..2 = {1, 2}
    OBVIOUS
  <2>3. Has(t, A) <=> e \in A \/ f \in A
    BY <2>1, <2>2 DEF Has
  <2>4. NotBefore(t, A, B) <=> ~(e \in A /\ f \in B)
    BY <2>1 DEF NotBefore
  <2>5. Outlasts(t, A, B) <=> (e \in A /\ f \notin B) \/ f \in A
    BY <2>1 DEF Outlasts
  <2>6. QED
    BY <2>3, <2>4, <2>5
<1>6. QED
  BY <1>1, <1>4, <1>5

-----------------------------------------------------------------------------
\* The head goes; entries are appended.

LEMMA Popped ==
    ASSUME NEW S, NEW q \in Seq(S), q # <<>>, NEW A, NEW B
    PROVE  /\ Head(q) \in S /\ Tail(q) \in Seq(S)
           /\ Has(q, A) <=> Head(q) \in A \/ Has(Tail(q), A)
           /\ NotBefore(q, A, B) <=> /\ NotBefore(Tail(q), A, B)
                                     /\ ~(Head(q) \in A /\ Has(Tail(q), B))
           /\ Outlasts(q, A, B) <=> \/ Outlasts(Tail(q), A, B)
                                    \/ Head(q) \in A /\ ~Has(Tail(q), B)
<1> DEFINE t == Tail(q)
           n == Len(q)
<1>1. /\ n \in Nat /\ n >= 1 /\ DOMAIN q = 1..n /\ DOMAIN t = 1..(n - 1)
      /\ Head(q) = q[1] /\ q[1] \in S /\ t \in Seq(S)
  OBVIOUS
<1>2. \A i \in 1..(n - 1) : t[i] = q[i + 1]
  OBVIOUS
<1>3. \A i \in DOMAIN q : i = 1 \/ (i - 1 \in DOMAIN t /\ t[i - 1] = q[i])
  BY <1>1, <1>2
<1>4. \A i \in DOMAIN t : i + 1 \in DOMAIN q /\ q[i + 1] = t[i]
  BY <1>1, <1>2
<1>5. DOMAIN q \subseteq Nat /\ DOMAIN t \subseteq Nat /\ 1 \in DOMAIN q /\ 0 \notin DOMAIN t
  BY <1>1
<1>6. Head(q) = q[1]
  BY <1>1
<1> HIDE DEF t, n
<1>7. Has(q, A) <=> Head(q) \in A \/ Has(t, A)
  BY <1>3, <1>4, <1>5, <1>6 DEF Has
<1>8. NotBefore(q, A, B) => NotBefore(t, A, B) /\ ~(Head(q) \in A /\ Has(t, B))
  <2> SUFFICES ASSUME NotBefore(q, A, B)
               PROVE  NotBefore(t, A, B) /\ ~(Head(q) \in A /\ Has(t, B))
    OBVIOUS
  <2>1. ASSUME NEW i \in DOMAIN t, NEW j \in DOMAIN t, t[i] \in A, t[j] \in B
        PROVE  ~(i < j)
    <3>1. ~(i + 1 < j + 1)
      BY <1>4, <2>1 DEF NotBefore
    <3>2. QED
      BY <1>5, <3>1
  <2>2. ASSUME Head(q) \in A, NEW j \in DOMAIN t, t[j] \in B
        PROVE  FALSE
    <3>1. ~(1 < j + 1)
      BY <1>4, <1>5, <1>6, <2>2 DEF NotBefore
    <3>2. j >= 1
      BY <1>5
    <3>3. QED
      BY <1>5, <3>1, <3>2
  <2>3. QED
    BY <2>1, <2>2 DEF NotBefore, Has
<1>9. NotBefore(t, A, B) /\ ~(Head(q) \in A /\ Has(t, B)) => NotBefore(q, A, B)
  <2> SUFFICES ASSUME NotBefore(t, A, B), ~(Head(q) \in A /\ Has(t, B)),
                      NEW i \in DOMAIN q, NEW j \in DOMAIN q, q[i] \in A, q[j] \in B, i < j
               PROVE  FALSE
    BY DEF NotBefore
  <2>1. j # 1 /\ j - 1 \in DOMAIN t /\ t[j - 1] = q[j]
    <3>1. i >= 1 /\ i \in Nat /\ j \in Nat
      BY <1>1
    <3>2. QED
      BY <1>3, <3>1
  <2>2. i # 1
    BY <1>6, <2>1 DEF Has
  <2>3. i - 1 \in DOMAIN t /\ t[i - 1] = q[i]
    BY <1>3, <2>2
  <2>4. i - 1 < j - 1
    BY <1>5
  <2>5. QED
    BY <2>1, <2>3, <2>4 DEF NotBefore
<1>10. Outlasts(q, A, B) => Outlasts(t, A, B) \/ (Head(q) \in A /\ ~Has(t, B))
  <2> SUFFICES ASSUME NEW i \in DOMAIN q, q[i] \in A, \A j \in DOMAIN q : i < j => q[j] \notin B
               PROVE  Outlasts(t, A, B) \/ (Head(q) \in A /\ ~Has(t, B))
    BY DEF Outlasts
  <2>1. CASE i = 1
    <3>1. \A j \in DOMAIN t : 1 < j + 1
      BY <1>1
    <3>2. QED
      BY <1>4, <1>6, <2>1, <3>1 DEF Has
  <2>2. CASE i # 1
    <3>1. i - 1 \in DOMAIN t /\ t[i - 1] = q[i]
      BY <1>3, <2>2
    <3>2. ASSUME NEW j \in DOMAIN t, i - 1 < j
          PROVE  t[j] \notin B
      <4>1. i < j + 1
        BY <1>5, <3>2
      <4>2. QED
        BY <1>4, <4>1
    <3>3. QED
      BY <3>1, <3>2 DEF Outlasts
  <2>3. QED
    BY <2>1, <2>2
<1>11. Outlasts(t, A, B) \/ (Head(q) \in A /\ ~Has(t, B)) => Outlasts(q, A, B)
  <2>1. ASSUME NEW i \in DOMAIN t, t[i] \in A, \A j \in DOMAIN t : i < j => t[j] \notin B
        PROVE  Outlasts(q, A, B)
    <3>1. i + 1 \in DOMAIN q /\ q[i + 1] \in A
      BY <1>4, <2>1
    <3>2. ASSUME NEW j \in DOMAIN q, i + 1 < j
          PROVE  q[j] \notin B
      <4>1. j # 1 /\ i < j - 1
        BY <1>5, <3>2
      <4>2. j - 1 \in DOMAIN t /\ t[j - 1] = q[j]
        BY <1>3, <4>1
      <4>3. QED
        BY <2>1, <4>1, <4>2
    <3>3. QED
      BY <3>1, <3>2 DEF Outlasts
  <2>2. ASSUME Head(q) \in A, ~Has(t, B)
        PROVE  Outlasts(q, A, B)
    <3>1. ASSUME NEW j \in DOMAIN q, 1 < j
          PROVE  q[j] \notin B
      <4>1. j # 1
        BY <1>5, <3>1
      <4>2. QED
        BY <1>3, <2>2, <4>1 DEF Has
    <3>2. QED
      BY <1>5, <1>6, <2>2, <3>1 DEF Outlasts
  <2>3. QED
    BY <2>1, <2>2 DEF Outlasts
<1>12. QED
  BY <1>1, <1>7, <1>8, <1>9, <1>10, <1>11 DEF t

LEMMA Joined ==
    ASSUME NEW S, NEW q \in Seq(S), NEW x \in Seq(S), NEW A, NEW B
    PROVE  /\ q \o x \in Seq(S)
           /\ Has(q \o x, A) <=> Has(q, A) \/ Has(x, A)
           /\ NotBefore(q \o x, A, B) <=> /\ NotBefore(q, A, B) /\ NotBefore(x, A, B)
                                          /\ ~(Has(q, A) /\ Has(x, B))
           /\ Outlasts(q \o x, A, B) <=> \/ Outlasts(x, A, B)
                                         \/ Outlasts(q, A, B) /\ ~Has(x, B)
<1> DEFINE r == q \o x
           n == Len(q)
           m == Len(x)
<1>1. /\ n \in Nat /\ m \in Nat /\ DOMAIN q = 1..n /\ DOMAIN x = 1..m /\ DOMAIN r = 1..(n + m)
      /\ r \in Seq(S)
  OBVIOUS
<1>2. \A i \in DOMAIN q : i \in DOMAIN r /\ r[i] = q[i]
  OBVIOUS
<1>3. \A i \in DOMAIN x : n + i \in DOMAIN r /\ r[n + i] = x[i]
  OBVIOUS
<1>4. \A i \in DOMAIN r : i \in DOMAIN q \/ i - n \in DOMAIN x
  BY <1>1
<1>5. \A i \in DOMAIN r : n + (i - n) = i
  BY <1>1
<1> HIDE DEF r, n, m
<1>6. Has(r, A) <=> Has(q, A) \/ Has(x, A)
  BY <1>2, <1>3, <1>4, <1>5 DEF Has
<1>7. NotBefore(r, A, B) => NotBefore(q, A, B) /\ NotBefore(x, A, B) /\ ~(Has(q, A) /\ Has(x, B))
  <2> SUFFICES ASSUME NotBefore(r, A, B)
               PROVE  NotBefore(q, A, B) /\ NotBefore(x, A, B) /\ ~(Has(q, A) /\ Has(x, B))
    OBVIOUS
  <2>1. NotBefore(q, A, B)
    BY <1>2 DEF NotBefore
  <2>2. ASSUME NEW i \in DOMAIN x, NEW j \in DOMAIN x, x[i] \in A, x[j] \in B
        PROVE  ~(i < j)
    <3>1. ~(n + i < n + j)
      BY <1>3, <2>2 DEF NotBefore
    <3>2. QED
      BY <1>1, <3>1
  <2>3. ASSUME NEW i \in DOMAIN q, NEW j \in DOMAIN x, q[i] \in A, x[j] \in B
        PROVE  FALSE
    <3>1. ~(i < n + j)
      BY <1>2, <1>3, <2>3 DEF NotBefore
    <3>2. QED
      BY <1>1, <3>1
  <2>4. QED
    BY <2>1, <2>2, <2>3 DEF NotBefore, Has
<1>8. NotBefore(q, A, B) /\ NotBefore(x, A, B) /\ ~(Has(q, A) /\ Has(x, B)) => NotBefore(r, A, B)
  <2> SUFFICES ASSUME NotBefore(q, A, B), NotBefore(x, A, B), ~(Has(q, A) /\ Has(x, B)),
                      NEW i \in DOMAIN r, NEW j \in DOMAIN r, r[i] \in A, r[j] \in B, i < j
               PROVE  FALSE
    BY DEF NotBefore
  <2>1. i \in DOMAIN q \/ j - n \in DOMAIN x
    BY <1>1
  <2>2. CASE i \in DOMAIN q /\ j \in DOMAIN q
    BY <1>2, <2>2 DEF NotBefore
  <2>3. CASE i \in DOMAIN q /\ j - n \in DOMAIN x
    <3>1. x[j - n] = r[j]
      BY <1>3, <1>5, <2>3
    <3>2. QED
      BY <1>2, <2>3, <3>1 DEF Has
  <2>4. CASE i - n \in DOMAIN x /\ j - n \in DOMAIN x
    <3>1. x[i - n] = r[i] /\ x[j - n] = r[j] /\ i - n < j - n
      BY <1>1, <1>3, <1>5, <2>4
    <3>2. QED
      BY <2>4, <3>1 DEF NotBefore
  <2>5. i - n \in DOMAIN x /\ j \notin DOMAIN q => j - n \in DOMAIN x
    BY <1>4
  <2>6. ~(i - n \in DOMAIN x /\ j \in DOMAIN q)
    BY <1>1
  <2>7. QED
    BY <1>4, <2>2, <2>3, <2>4, <2>6
<1>9. Outlasts(r, A, B) => Outlasts(x, A, B) \/ (Outlasts(q, A, B) /\ ~Has(x, B))
  <2> SUFFICES ASSUME NEW i \in DOMAIN r, r[i] \in A, \A j \in DOMAIN r : i < j => r[j] \notin B
               PROVE  Outlasts(x, A, B) \/ (Outlasts(q, A, B) /\ ~Has(x, B))
    BY DEF Outlasts
  <2>1. CASE i \in DOMAIN q
    <3>1. Outlasts(q, A, B)
      BY <1>2, <2>1 DEF Outlasts
    <3>2. \A j \in DOMAIN x : i < n + j
      BY <1>1, <2>1
    <3>3. QED
      BY <1>3, <3>1, <3>2 DEF Has
  <2>2. CASE i - n \in DOMAIN x
    <3>1. x[i - n] = r[i]
      BY <1>3, <1>5, <2>2
    <3>2. \A j \in DOMAIN x : i - n < j => i < n + j
      BY <1>1, <2>2
    <3>3. QED
      BY <1>3, <2>2, <3>1, <3>2 DEF Outlasts
  <2>3. QED
    BY <1>4, <2>1, <2>2
<1>10. Outlasts(x, A, B) \/ (Outlasts(q, A, B) /\ ~Has(x, B)) => Outlasts(r, A, B)
  <2>1. ASSUME NEW i \in DOMAIN x, x[i] \in A, \A j \in DOMAIN x : i < j => x[j] \notin B
        PROVE  Outlasts(r, A, B)
    <3>1. n + i \in DOMAIN r /\ r[n + i] \in A
      BY <1>3, <2>1
    <3>2. ASSUME NEW j \in DOMAIN r, n + i < j
          PROVE  r[j] \notin B
      <4>1. j - n \in DOMAIN x /\ i < j - n
        BY <1>1, <3>2
      <4>2. r[j] = x[j - n]
        BY <1>3, <1>5, <4>1
      <4>3. QED
        BY <2>1, <4>1, <4>2
    <3>3. QED
      BY <3>1, <3>2 DEF Outlasts
  <2>2. ASSUME NEW i \in DOMAIN q, q[i] \in A, \A j \in DOMAIN q : i < j => q[j] \notin B,
               ~Has(x, B)
        PROVE  Outlasts(r, A, B)
    <3>1. ASSUME NEW j \in DOMAIN r, i < j
          PROVE  r[j] \notin B
      <4>1. CASE j \in DOMAIN q
        BY <1>2, <2>2, <3>1, <4>1
      <4>2. CASE j - n \in DOMAIN x
        <5>1. r[j] = x[j - n]
          BY <1>3, <1>5, <4>2
        <5>2. QED
          BY <2>2, <4>2, <5>1 DEF Has
      <4>3. QED
        BY <1>4, <4>1, <4>2
    <3>2. QED
      BY <1>2, <2>2, <3>1 DEF Outlasts
  <2>3. QED
    BY <2>1, <2>2 DEF Outlasts
<1>11. QED
  BY <1>1, <1>6, <1>7, <1>8, <1>9, <1>10 DEF r

-----------------------------------------------------------------------------
\* Some entries go.

\* The rank of a position among those that stay.
Rank(I, i) == Cardinality({m \in I : m <= i})

LEMMA Ranks ==
    ASSUME NEW n \in Nat, NEW I \in SUBSET (1..n)
    PROVE  /\ IsFiniteSet(I) /\ Cardinality(I) \in Nat
           /\ \A i \in I : Rank(I, i) \in 1..Cardinality(I)
           /\ \A i, j \in I : i < j => Rank(I, i) < Rank(I, j)
           /\ \A k \in 1..Cardinality(I) : \E i \in I : Rank(I, i) = k
<1>1. IsFiniteSet(I) /\ Cardinality(I) \in Nat
  <2>1. IsFiniteSet(1..n)
    BY FS_Interval
  <2>2. QED
    BY <2>1, FS_Subset, FS_CardinalityType
<1>2. \A i \in I : /\ IsFiniteSet({m \in I : m <= i})
                   /\ Rank(I, i) \in Nat /\ Rank(I, i) <= Cardinality(I)
  <2> SUFFICES ASSUME NEW i \in I
               PROVE  /\ IsFiniteSet({m \in I : m <= i})
                      /\ Rank(I, i) \in Nat /\ Rank(I, i) <= Cardinality(I)
    OBVIOUS
  <2>1. {m \in I : m <= i} \in SUBSET I
    OBVIOUS
  <2>2. QED
    BY <1>1, <2>1, FS_Subset, FS_CardinalityType DEF Rank
<1>3. \A i \in I : i \in Nat
  OBVIOUS
<1>4. ASSUME NEW i \in I
      PROVE  Rank(I, i) >= 1 /\ Rank(I, i) \in 1..Cardinality(I)
  <2> DEFINE A == {m \in I : m <= i}
  <2>1. A # {}
    BY <1>3
  <2>2. IsFiniteSet(A) /\ Cardinality(A) \in Nat /\ Cardinality(A) <= Cardinality(I)
    BY <1>2 DEF Rank
  <2> HIDE DEF A
  <2>3. Cardinality(A) # 0
    BY <2>1, <2>2, FS_EmptySet
  <2>4. Cardinality(A) >= 1 /\ Cardinality(A) \in 1..Cardinality(I)
    BY <1>1, <2>2, <2>3
  <2>5. QED
    BY <2>4 DEF Rank, A
<1>5. ASSUME NEW i \in I, NEW j \in I, i < j
      PROVE  Rank(I, i) < Rank(I, j)
  <2> DEFINE A == {m \in I : m <= i}
             B == {m \in I : m <= j}
  <2>1. A \in SUBSET B /\ j \in B /\ j \notin A
    <3>1. i \in Nat /\ j \in Nat /\ \A m \in I : m \in Nat
      BY <1>3
    <3>2. \A m \in I : m <= i => m <= j
      BY <1>5, <3>1
    <3>3. j <= j /\ ~(j <= i)
      BY <1>5, <3>1
    <3>4. A \subseteq B
      BY <3>2
    <3>5. QED
      BY <3>3, <3>4
  <2>2. /\ IsFiniteSet(B) /\ Cardinality(A) \in Nat /\ Cardinality(B) \in Nat
    BY <1>2 DEF Rank
  <2> HIDE DEF A, B
  <2>3. Cardinality(A) <= Cardinality(B) /\ Cardinality(A) # Cardinality(B)
    BY <2>1, <2>2, FS_Subset
  <2>4. Cardinality(A) < Cardinality(B)
    BY <2>2, <2>3
  <2>5. QED
    BY <2>4 DEF Rank, A, B
<1>6. \A k \in 1..Cardinality(I) : \E i \in I : Rank(I, i) = k
  <2> DEFINE f == [i \in I |-> Rank(I, i)]
             T == 1..Cardinality(I)
  <2>1. f \in [I -> T] /\ \A i \in I : f[i] = Rank(I, i)
    BY <1>4
  <2>2. f \in Injection(I, T)
    <3>1. ASSUME NEW i \in I, NEW j \in I, f[i] = f[j]
          PROVE  i = j
      <4>1. Rank(I, i) = Rank(I, j) /\ Rank(I, i) \in Nat
        BY <1>4, <2>1, <3>1
      <4>2. ~(i < j) /\ ~(j < i)
        BY <1>5, <4>1
      <4>3. QED
        BY <1>3, <4>2
    <3> HIDE DEF f
    <3>2. QED
      BY <2>1, <3>1 DEF Injection, IsInjective
  <2>3. IsFiniteSet(T) /\ Cardinality(T) = Cardinality(I)
    BY <1>1, FS_Interval
  <2> HIDE DEF f, T
  <2>4. f \in Surjection(I, T)
    BY <1>1, <2>2, <2>3, FS_Injection
  <2>5. QED
    BY <2>1, <2>4 DEF Surjection, T
<1>7. QED
  BY <1>1, <1>4, <1>5, <1>6

LEMMA Filtered ==
    ASSUME NEW S, NEW q \in Seq(S), NEW I \in SUBSET DOMAIN q,
           NEW r, r = Selected(q, I), NEW A, NEW B
    PROVE  /\ r \in Seq(S)
           /\ Has(r, A) => Has(q, A)
           /\ (\A i \in DOMAIN q : q[i] \in A => i \in I) => (Has(r, A) <=> Has(q, A))
           /\ (\A i \in I : q[i] \notin A) => ~Has(r, A)
           /\ NotBefore(q, A, B) => NotBefore(r, A, B)
           /\ (\A i \in DOMAIN q : q[i] \in A => i \in I) =>
                (Outlasts(q, A, B) => Outlasts(r, A, B))
           /\ (\A i \in DOMAIN q : q[i] \in B => i \in I) =>
                \A free, O : Follows(q, A, free, B, O) => Follows(r, A, free, B, O)
<1> DEFINE N == Cardinality(I)
           g(k) == CHOOSE i \in I : Rank(I, i) = k
<1>1. I \in SUBSET (1..Len(q)) /\ Len(q) \in Nat /\ \A i \in I : q[i] \in S
  OBVIOUS
<1>4. r = [j \in 1..N |-> q[g(j)]]
  BY DEF Selected, Rank
<1>5. I \subseteq DOMAIN q /\ DOMAIN q \subseteq Nat
  OBVIOUS
<1>6. /\ N \in Nat
      /\ \A i \in I : Rank(I, i) \in 1..N
      /\ \A i, j \in I : i < j => Rank(I, i) < Rank(I, j)
      /\ \A k \in 1..N : \E i \in I : Rank(I, i) = k
  BY <1>1, Ranks
<1>7. \A k \in 1..N : g(k) \in I /\ Rank(I, g(k)) = k
  BY <1>6
<1>8. \A i \in I : g(Rank(I, i)) = i
  <2> SUFFICES ASSUME NEW i \in I
               PROVE  g(Rank(I, i)) = i
    OBVIOUS
  <2> DEFINE h == g(Rank(I, i))
  <2>1. h \in I /\ Rank(I, h) = Rank(I, i)
    BY <1>6, <1>7
  <2> HIDE DEF h
  <2>2. ~(h < i) /\ ~(i < h)
    <3>1. Rank(I, i) \in Nat
      BY <1>6
    <3>2. QED
      BY <1>6, <2>1, <3>1
  <2>3. h \in Nat /\ i \in Nat
    BY <1>5, <2>1
  <2>4. h = i
    BY <2>2, <2>3
  <2>5. QED
    BY <2>4 DEF h
<1>9. \A k, l \in 1..N : k < l => g(k) < g(l)
  <2> SUFFICES ASSUME NEW k \in 1..N, NEW l \in 1..N, k < l
               PROVE  g(k) < g(l)
    OBVIOUS
  <2> DEFINE i == g(k)
             j == g(l)
  <2>1. i \in I /\ j \in I /\ Rank(I, i) = k /\ Rank(I, j) = l
    BY <1>7
  <2> HIDE DEF i, j
  <2>2. i \in Nat /\ j \in Nat
    BY <1>5, <2>1
  <2>3. ~(j < i) /\ i # j
    BY <1>6, <2>1
  <2>4. i < j
    BY <2>2, <2>3
  <2>5. QED
    BY <2>4 DEF i, j
<1> HIDE DEF N, g
<1>10. DOMAIN r = 1..N /\ \A k \in 1..N : r[k] = q[g(k)]
  BY <1>4
<1>11. r \in Seq(S)
  <2>1. \A k \in 1..N : q[g(k)] \in S
    BY <1>1, <1>7
  <2>2. r \in [1..N -> S]
    BY <1>4, <2>1
  <2>3. QED
    BY <1>6, <2>2
<1>12. Has(r, A) => Has(q, A) /\ \E i \in I : q[i] \in A
  BY <1>5, <1>7, <1>10 DEF Has
<1>13. (\A i \in I : q[i] \notin A) => ~Has(r, A)
  BY <1>12
<1>14. ASSUME NEW i \in I
       PROVE  Rank(I, i) \in DOMAIN r /\ r[Rank(I, i)] = q[i]
  BY <1>6, <1>8, <1>10
<1>15. (\A i \in DOMAIN q : q[i] \in A => i \in I) => (Has(q, A) => Has(r, A))
  BY <1>14 DEF Has
<1>16. NotBefore(q, A, B) => NotBefore(r, A, B)
  <2> SUFFICES ASSUME NotBefore(q, A, B), NEW k \in DOMAIN r, NEW l \in DOMAIN r,
                      r[k] \in A, r[l] \in B, k < l
               PROVE  FALSE
    BY DEF NotBefore
  <2>1. g(k) < g(l) /\ g(k) \in DOMAIN q /\ g(l) \in DOMAIN q
    BY <1>5, <1>7, <1>9, <1>10
  <2>2. QED
    BY <1>10, <2>1 DEF NotBefore
<1>17. (\A i \in DOMAIN q : q[i] \in A => i \in I) => (Outlasts(q, A, B) => Outlasts(r, A, B))
  <2> SUFFICES ASSUME \A i \in DOMAIN q : q[i] \in A => i \in I,
                      NEW i \in DOMAIN q, q[i] \in A, \A j \in DOMAIN q : i < j => q[j] \notin B
               PROVE  Outlasts(r, A, B)
    BY DEF Outlasts
  <2> DEFINE k == Rank(I, i)
  <2>1. i \in I
    OBVIOUS
  <2>2. k \in DOMAIN r /\ r[k] = q[i] /\ g(k) = i
    BY <1>8, <1>14, <2>1
  <2> HIDE DEF k
  <2>3. ASSUME NEW l \in DOMAIN r, k < l
        PROVE  r[l] \notin B
    <3>1. i < g(l) /\ g(l) \in DOMAIN q
      BY <1>5, <1>7, <1>9, <1>10, <2>2, <2>3
    <3>2. QED
      BY <1>10, <3>1
  <2>4. QED
    BY <2>2, <2>3 DEF Outlasts
<1>18. ASSUME \A i \in DOMAIN q : q[i] \in B => i \in I, NEW free, NEW O,
              Follows(q, A, free, B, O)
       PROVE  Follows(r, A, free, B, O)
  <2> SUFFICES ASSUME NEW j \in DOMAIN r, r[j] \in A
               PROVE  \/ r[j] \in free /\ \A m \in DOMAIN r : m < j => r[m] \notin O
                      \/ \E i \in DOMAIN r : /\ i < j /\ r[i] \in B
                                             /\ \A m \in DOMAIN r : i < m /\ m < j => r[m] \notin O
    BY DEF Follows
  <2>1. g(j) \in DOMAIN q /\ q[g(j)] = r[j]
    BY <1>5, <1>7, <1>10
  <2>2. \A m \in DOMAIN r : m < j => g(m) < g(j) /\ g(m) \in DOMAIN q /\ q[g(m)] = r[m]
    BY <1>5, <1>7, <1>9, <1>10
  <2>3. CASE q[g(j)] \in free /\ \A m \in DOMAIN q : m < g(j) => q[m] \notin O
    BY <2>1, <2>2, <2>3
  <2>4. CASE \E i \in DOMAIN q : /\ i < g(j) /\ q[i] \in B
                                 /\ \A m \in DOMAIN q : i < m /\ m < g(j) => q[m] \notin O
    <3>1. PICK i \in DOMAIN q : /\ i < g(j) /\ q[i] \in B
                                /\ \A m \in DOMAIN q : i < m /\ m < g(j) => q[m] \notin O
      BY <2>4
    <3> DEFINE k == Rank(I, i)
    <3>2. i \in I
      BY <1>18, <3>1
    <3>3. k \in DOMAIN r /\ r[k] = q[i] /\ g(k) = i
      BY <1>8, <1>14, <3>2
    <3> HIDE DEF k
    <3>4. k < j
      <4>1. k \in 1..N /\ j \in 1..N /\ k \in Nat /\ j \in Nat
        BY <1>6, <1>10, <3>3
      <4>2. g(j) \in Nat /\ i \in Nat
        BY <1>5, <2>1, <3>1
      <4>3. ~(j < k) /\ k # j
        BY <1>9, <3>1, <3>3, <4>1, <4>2
      <4>4. QED
        BY <4>1, <4>3
    <3>5. \A m \in DOMAIN r : k < m /\ m < j => r[m] \notin O
      BY <1>9, <1>10, <2>2, <3>1, <3>3
    <3>6. QED
      BY <3>1, <3>3, <3>4, <3>5
  <2>5. QED
    BY <1>18, <2>1, <2>3, <2>4 DEF Follows
<1>19. QED
  BY <1>11, <1>12, <1>13, <1>15, <1>16, <1>17, <1>18

-----------------------------------------------------------------------------
\* The elements of a queue, and a queue made of a set.

LEMMA Elements ==
    ASSUME NEW q, NEW A
    PROVE  /\ Has(q, A) <=> \E e \in ToSet(q) : e \in A
           /\ ~Has(q, A) <=> \A e \in ToSet(q) : e \notin A
BY DEF Has, ToSet

LEMMA Enumerated ==
    ASSUME NEW S, IsFiniteSet(S)
    PROVE  /\ SetToSeq(S) \in Seq(S) /\ DOMAIN SetToSeq(S) = 1..Len(SetToSeq(S))
           /\ \A s \in S : \E i \in DOMAIN SetToSeq(S) : SetToSeq(S)[i] = s
           /\ \A i, j \in DOMAIN SetToSeq(S) : SetToSeq(S)[i] = SetToSeq(S)[j] => i = j
<1> DEFINE N == Cardinality(S)
           f == SetToSeq(S)
<1>1. N \in Nat /\ ExistsBijection(1..N, S)
  BY FS_CardinalityType
<1>2. PICK b \in [1..N -> S] : IsInjective(b)
  BY <1>1 DEF ExistsBijection, Bijection, Injection
<1>3. f \in [1..N -> S] /\ IsInjective(f)
  BY <1>2 DEF SetToSeq
<1>4. f \in Injection(1..N, S)
  BY <1>3 DEF Injection
<1>5. f \in Surjection(1..N, S)
  <2>1. Cardinality(1..N) = N
    BY <1>1, FS_Interval
  <2>2. QED
    BY <1>4, <2>1, FS_Injection
<1> HIDE DEF f, N
<1>6. f \in Seq(S) /\ DOMAIN f = 1..Len(f)
  BY <1>1, <1>3
<1>7. QED
  BY <1>3, <1>5, <1>6 DEF f, Surjection, IsInjective

-----------------------------------------------------------------------------
\* A queue that alternates.

LEMMA FollowsPopped ==
    ASSUME NEW S, NEW q \in Seq(S), q # <<>>, NEW X, NEW Y, NEW O,
           NEW free, Follows(q, X, free, Y, O)
    PROVE  /\ Head(q) \in X => Head(q) \in free
           /\ Head(q) \in Y => \A wide : (X \cap S) \subseteq wide => Follows(Tail(q), X, wide, Y, O)
           /\ Head(q) \in O \ Y => Follows(Tail(q), X, {}, Y, O)
           /\ Head(q) \notin O \cup Y => Follows(Tail(q), X, free, Y, O)
<1> DEFINE t == Tail(q)
           n == Len(q)
<1>1. /\ n \in Nat /\ n >= 1 /\ DOMAIN q = 1..n /\ DOMAIN t = 1..(n - 1)
      /\ Head(q) = q[1]
  OBVIOUS
<1>2. \A i \in 1..(n - 1) : t[i] = q[i + 1]
  OBVIOUS
<1>3. \A i \in DOMAIN q : i # 1 => i - 1 \in DOMAIN t /\ t[i - 1] = q[i]
  BY <1>1, <1>2
<1>4. \A i \in DOMAIN t : i + 1 \in DOMAIN q /\ q[i + 1] = t[i]
  BY <1>1, <1>2
<1>5. /\ DOMAIN q \subseteq Nat /\ DOMAIN t \subseteq Nat /\ 1 \in DOMAIN q
      /\ \A i \in DOMAIN t : 1 < i + 1 /\ i >= 1
      /\ \A i \in DOMAIN q : i >= 1
  BY <1>1
<1>6. Head(q) = q[1]
  BY <1>1
<1> HIDE DEF t, n
<1>7. Head(q) \in X => Head(q) \in free
  BY <1>5, <1>6 DEF Follows
<1>8. ASSUME NEW j \in DOMAIN t, t[j] \in X
      PROVE  /\ \/ t[j] \in free /\ Head(q) \notin O /\ \A m \in DOMAIN t : m < j => t[m] \notin O
                \/ Head(q) \in Y /\ \A m \in DOMAIN t : m < j => t[m] \notin O
                \/ \E i \in DOMAIN t : /\ i < j /\ t[i] \in Y
                                       /\ \A m \in DOMAIN t : i < m /\ m < j => t[m] \notin O
  <2>1. j + 1 \in DOMAIN q /\ q[j + 1] \in X
    BY <1>4, <1>8
  <2>2. CASE q[j + 1] \in free /\ \A m \in DOMAIN q : m < j + 1 => q[m] \notin O
    <3>1. Head(q) \notin O
      BY <1>5, <1>6, <2>2
    <3>2. ASSUME NEW m \in DOMAIN t, m < j
          PROVE  t[m] \notin O
      <4>1. m + 1 < j + 1
        BY <1>5, <3>2
      <4>2. QED
        BY <1>4, <2>2, <4>1
    <3>3. QED
      BY <1>4, <2>2, <3>1, <3>2
  <2>3. CASE \E i \in DOMAIN q : /\ i < j + 1 /\ q[i] \in Y
                                 /\ \A m \in DOMAIN q : i < m /\ m < j + 1 => q[m] \notin O
    <3>1. PICK i \in DOMAIN q : /\ i < j + 1 /\ q[i] \in Y
                                /\ \A m \in DOMAIN q : i < m /\ m < j + 1 => q[m] \notin O
      BY <2>3
    <3>2. ASSUME NEW m \in DOMAIN t, i - 1 < m, m < j
          PROVE  t[m] \notin O
      <4>1. i < m + 1 /\ m + 1 < j + 1
        BY <1>5, <3>2
      <4>2. QED
        BY <1>4, <3>1, <4>1
    <3>3. CASE i = 1
      <4>1. \A m \in DOMAIN t : m < j => t[m] \notin O
        <5>1. \A m \in DOMAIN t : 1 - 1 < m
          BY <1>5
        <5>2. QED
          BY <3>2, <3>3, <5>1
      <4>2. QED
        BY <1>6, <3>1, <3>3, <4>1
    <3>4. CASE i # 1
      <4>1. i - 1 \in DOMAIN t /\ t[i - 1] \in Y /\ i - 1 < j
        BY <1>3, <1>5, <3>1, <3>4
      <4>2. QED
        BY <3>2, <4>1
    <3>5. QED
      BY <3>3, <3>4
  <2>4. QED
    BY <2>1, <2>2, <2>3 DEF Follows
<1>9. \A j \in DOMAIN t : t[j] \in S
  BY DEF t
<1>10. ASSUME Head(q) \in Y, NEW wide, (X \cap S) \subseteq wide
       PROVE  Follows(t, X, wide, Y, O)
  BY <1>8, <1>9, <1>10 DEF Follows
<1>11. Head(q) \in O \ Y => Follows(t, X, {}, Y, O)
  BY <1>8 DEF Follows
<1>12. Head(q) \notin O \cup Y => Follows(t, X, free, Y, O)
  BY <1>8 DEF Follows
<1>13. QED
  BY <1>7, <1>10, <1>11, <1>12 DEF t

\* What is appended may be an X if a Y is there that no O follows, or there is no O.
LEMMA FollowsJoined ==
    ASSUME NEW S, NEW q \in Seq(S), NEW X, NEW Y, NEW O,
           NEW free, Follows(q, X, free, Y, O)
    PROVE  /\ \A x \in Seq(S) : ~Has(x, X) => Follows(q \o x, X, free, Y, O)
           /\ \A e \in S : Outlasts(q, Y, O) \/ (e \in free /\ ~Has(q, O))
                             => Follows(q \o <<e>>, X, free, Y, O)
<1> DEFINE n == Len(q)
<1>1. n \in Nat /\ DOMAIN q = 1..n
  OBVIOUS
<1>2. ASSUME NEW x \in Seq(S), NEW j \in DOMAIN q, q[j] \in X
      PROVE  LET r == q \o x IN
             \/ r[j] \in free /\ \A m \in DOMAIN r : m < j => r[m] \notin O
             \/ \E i \in DOMAIN r : /\ i < j /\ r[i] \in Y
                                    /\ \A m \in DOMAIN r : i < m /\ m < j => r[m] \notin O
  <2> DEFINE r == q \o x
  <2>1. /\ \A i \in DOMAIN q : i \in DOMAIN r /\ r[i] = q[i]
        /\ \A m \in DOMAIN r : m < j => m \in DOMAIN q
    OBVIOUS
  <2> HIDE DEF r
  <2>2. CASE q[j] \in free /\ \A m \in DOMAIN q : m < j => q[m] \notin O
    BY <2>1, <2>2 DEF r
  <2>3. CASE \E i \in DOMAIN q : /\ i < j /\ q[i] \in Y
                                 /\ \A m \in DOMAIN q : i < m /\ m < j => q[m] \notin O
    <3>1. PICK i \in DOMAIN q : /\ i < j /\ q[i] \in Y
                                /\ \A m \in DOMAIN q : i < m /\ m < j => q[m] \notin O
      BY <2>3
    <3>2. \A m \in DOMAIN r : i < m /\ m < j => r[m] \notin O
      BY <2>1, <3>1
    <3>3. QED
      BY <2>1, <3>1, <3>2 DEF r
  <2>4. QED
    BY <1>2, <2>2, <2>3 DEF Follows
<1>3. ASSUME NEW x \in Seq(S), ~Has(x, X)
      PROVE  Follows(q \o x, X, free, Y, O)
  <2> DEFINE r == q \o x
  <2>1. \A j \in DOMAIN r : r[j] \in X => j \in DOMAIN q /\ q[j] = r[j]
    <3>1. \A j \in DOMAIN r : \/ j \in DOMAIN q /\ q[j] = r[j]
                              \/ j - n \in DOMAIN x /\ x[j - n] = r[j]
      OBVIOUS
    <3>2. QED
      BY <1>3, <3>1 DEF Has
  <2>2. QED
    BY <1>2, <2>1 DEF Follows
<1>4. ASSUME NEW e \in S, Outlasts(q, Y, O) \/ (e \in free /\ ~Has(q, O))
      PROVE  Follows(q \o <<e>>, X, free, Y, O)
  <2> DEFINE x == <<e>>
             r == q \o x
  <2>1. x \in Seq(S)
    OBVIOUS
  <2>2. /\ DOMAIN r = 1..(n + 1) /\ \A i \in DOMAIN q : i \in DOMAIN r /\ r[i] = q[i]
        /\ \A m \in DOMAIN r : m < n + 1 => m \in DOMAIN q
        /\ \A m \in DOMAIN q : m < n + 1
        /\ r[n + 1] = e
    OBVIOUS
  <2> HIDE DEF x
  <2>3. \A j \in DOMAIN r : j \in DOMAIN q \/ j = n + 1
    BY <1>1, <2>2
  <2> HIDE DEF r, n
  <2>4. CASE e \in free /\ ~Has(q, O)
    <3>1. \A m \in DOMAIN r : m < n + 1 => r[m] \notin O
      BY <2>2, <2>4 DEF Has
    <3>2. ASSUME NEW j \in DOMAIN r, r[j] \in X
          PROVE  \/ r[j] \in free /\ \A m \in DOMAIN r : m < j => r[m] \notin O
                 \/ \E k \in DOMAIN r : /\ k < j /\ r[k] \in Y
                                        /\ \A m \in DOMAIN r : k < m /\ m < j => r[m] \notin O
      <4>1. CASE j = n + 1
        BY <2>2, <2>4, <3>1, <4>1
      <4>2. CASE j \in DOMAIN q
        <5>1. q[j] \in X
          BY <2>2, <3>2, <4>2
        <5>2. QED
          BY <1>2, <2>1, <4>2, <5>1 DEF r
      <4>3. QED
        BY <2>3, <4>1, <4>2
    <3>3. Follows(r, X, free, Y, O)
      BY <3>2 DEF Follows
    <3>4. QED
      BY <3>3 DEF r, x
  <2>5. CASE Outlasts(q, Y, O)
    <3>1. PICK i \in DOMAIN q : q[i] \in Y /\ \A m \in DOMAIN q : i < m => q[m] \notin O
      BY <2>5 DEF Outlasts
    <3>2. i \in DOMAIN r /\ i < n + 1 /\ r[i] \in Y
      BY <2>2, <3>1
    <3>3. \A m \in DOMAIN r : i < m /\ m < n + 1 => r[m] \notin O
      BY <2>2, <3>1
    <3>4. ASSUME NEW j \in DOMAIN r, r[j] \in X
          PROVE  \/ r[j] \in free /\ \A m \in DOMAIN r : m < j => r[m] \notin O
                 \/ \E k \in DOMAIN r : /\ k < j /\ r[k] \in Y
                                        /\ \A m \in DOMAIN r : k < m /\ m < j => r[m] \notin O
      <4>1. CASE j = n + 1
        BY <3>2, <3>3, <4>1
      <4>2. CASE j \in DOMAIN q
        <5>1. q[j] \in X
          BY <2>2, <3>4, <4>2
        <5>2. QED
          BY <1>2, <2>1, <4>2, <5>1 DEF r
      <4>3. QED
        BY <2>3, <4>1, <4>2
    <3>5. Follows(r, X, free, Y, O)
      BY <3>4 DEF Follows
    <3>6. QED
      BY <3>5 DEF r, x
  <2>6. QED
    BY <1>4, <2>4, <2>5
<1>5. QED
  BY <1>3, <1>4

-----------------------------------------------------------------------------
\* A step of a queue: an entry goes, and others come.

\* The larger set, among the entries there can be.
LEMMA Widened ==
    ASSUME NEW S, NEW q \in Seq(S), NEW A, NEW B, (A \cap S) \subseteq B, Has(q, A)
    PROVE  Has(q, B)
BY DEF Has

LEMMA Taken ==
    ASSUME NEW S, NEW q \in Seq(S), q # <<>>, NEW x \in Seq(S), NEW A, NEW B
    PROVE  LET t == Tail(q)
               r == Tail(q) \o x
           IN /\ Head(q) \in S /\ r \in Seq(S)
              /\ Has(q, A) <=> Head(q) \in A \/ Has(t, A)
              /\ Has(r, A) <=> Has(t, A) \/ Has(x, A)
              /\ NotBefore(q, A, B) <=> NotBefore(t, A, B) /\ ~(Head(q) \in A /\ Has(t, B))
              /\ NotBefore(r, A, B) <=> /\ NotBefore(t, A, B) /\ NotBefore(x, A, B)
                                        /\ ~(Has(t, A) /\ Has(x, B))
              /\ Outlasts(q, A, B) <=> Outlasts(t, A, B) \/ (Head(q) \in A /\ ~Has(t, B))
              /\ Outlasts(r, A, B) <=> Outlasts(x, A, B) \/ (Outlasts(t, A, B) /\ ~Has(x, B))
<1> DEFINE t == Tail(q)
<1>1. /\ Head(q) \in S /\ t \in Seq(S)
      /\ Has(q, A) <=> Head(q) \in A \/ Has(t, A)
      /\ NotBefore(q, A, B) <=> NotBefore(t, A, B) /\ ~(Head(q) \in A /\ Has(t, B))
      /\ Outlasts(q, A, B) <=> Outlasts(t, A, B) \/ (Head(q) \in A /\ ~Has(t, B))
  BY Popped
<1> HIDE DEF t
<1>2. /\ t \o x \in Seq(S)
      /\ Has(t \o x, A) <=> Has(t, A) \/ Has(x, A)
      /\ NotBefore(t \o x, A, B) <=> /\ NotBefore(t, A, B) /\ NotBefore(x, A, B)
                                    /\ ~(Has(t, A) /\ Has(x, B))
      /\ Outlasts(t \o x, A, B) <=> Outlasts(x, A, B) \/ (Outlasts(t, A, B) /\ ~Has(x, B))
  BY <1>1, Joined
<1> DEFINE r == t \o x
<1> HIDE DEF r
<1>3. QED
  <2> DEFINE h == Head(q)
  <2> HIDE DEF h
  <2>1. QED
    BY <1>1, <1>2 DEF t

\* What r still says of the entries W of q.
Undisturbed(q, r, W) ==
    \A A, B \in SUBSET W :
      /\ Has(r, A) <=> Has(q, A)
      /\ NotBefore(q, A, B) => NotBefore(r, A, B)
      /\ Outlasts(q, A, B) => Outlasts(r, A, B)
      /\ \A C \in SUBSET W : \A free : Follows(q, A, free, B, C) => Follows(r, A, free, B, C)

LEMMA Untouched ==
    ASSUME NEW q, NEW W
    PROVE  Undisturbed(q, q, W)
BY DEF Undisturbed

LEMMA SentElsewhere ==
    ASSUME NEW S, NEW q \in Seq(S), NEW x \in Seq(S), NEW W, ~Has(x, W)
    PROVE  Undisturbed(q, q \o x, W)
<1> SUFFICES ASSUME NEW A \in SUBSET W, NEW B \in SUBSET W
    PROVE  /\ Has(q \o x, A) <=> Has(q, A)
           /\ NotBefore(q, A, B) => NotBefore(q \o x, A, B)
           /\ Outlasts(q, A, B) => Outlasts(q \o x, A, B)
           /\ \A C, free : Follows(q, A, free, B, C) => Follows(q \o x, A, free, B, C)
  BY DEF Undisturbed
<1>1. ~Has(x, A) /\ ~Has(x, B) /\ NotBefore(x, A, B)
  BY DEF Has, NotBefore
<1>2. QED
  BY <1>1, Joined, FollowsJoined

LEMMA TakenElsewhere ==
    ASSUME NEW S, NEW q \in Seq(S), q # <<>>, NEW x \in Seq(S), NEW W,
           Head(q) \notin W, ~Has(x, W)
    PROVE  Undisturbed(q, Tail(q) \o x, W)
<1> DEFINE t == Tail(q)
<1>1. t \in Seq(S)
  BY Popped
<1>2. Undisturbed(t, t \o x, W)
  BY <1>1, SentElsewhere
<1>3. Undisturbed(q, t, W)
  <2> SUFFICES ASSUME NEW A \in SUBSET W, NEW B \in SUBSET W
      PROVE  /\ Has(t, A) <=> Has(q, A)
             /\ NotBefore(q, A, B) => NotBefore(t, A, B)
             /\ Outlasts(q, A, B) => Outlasts(t, A, B)
             /\ \A C \in SUBSET W : \A free : Follows(q, A, free, B, C) => Follows(t, A, free, B, C)
    BY DEF Undisturbed
  <2>1. Head(q) \notin A /\ Head(q) \notin B /\ Head(q) \notin A \cup B
    OBVIOUS
  <2>2. /\ Has(t, A) <=> Has(q, A)
        /\ NotBefore(q, A, B) => NotBefore(t, A, B)
        /\ Outlasts(q, A, B) => Outlasts(t, A, B)
    <3>1. /\ Has(q, A) <=> Head(q) \in A \/ Has(t, A)
          /\ NotBefore(q, A, B) <=> NotBefore(t, A, B) /\ ~(Head(q) \in A /\ Has(t, B))
          /\ Outlasts(q, A, B) <=> Outlasts(t, A, B) \/ (Head(q) \in A /\ ~Has(t, B))
      BY Popped
    <3> HIDE DEF t
    <3>2. QED
      BY <2>1, <3>1
  <2>3. ASSUME NEW C \in SUBSET W, NEW free, Follows(q, A, free, B, C)
        PROVE  Follows(t, A, free, B, C)
    <3>1. Head(q) \notin C \cup B
      BY <2>1
    <3>2. QED
      BY <2>3, <3>1, FollowsPopped
  <2> HIDE DEF t
  <2>4. QED
    BY <2>2, <2>3
<1> HIDE DEF t
<1>4. QED
  BY <1>2, <1>3 DEF Undisturbed, t

LEMMA ErasedElsewhere ==
    ASSUME NEW S, NEW q \in Seq(S), NEW I \in SUBSET DOMAIN q, NEW r, r = Selected(q, I),
           NEW W, \A i \in DOMAIN q : q[i] \in W => i \in I
    PROVE  Undisturbed(q, r, W)
<1> SUFFICES ASSUME NEW A \in SUBSET W, NEW B \in SUBSET W
    PROVE  /\ Has(r, A) <=> Has(q, A)
           /\ NotBefore(q, A, B) => NotBefore(r, A, B)
           /\ Outlasts(q, A, B) => Outlasts(r, A, B)
           /\ \A free, C : Follows(q, A, free, B, C) => Follows(r, A, free, B, C)
  BY DEF Undisturbed
<1>1. \A i \in DOMAIN q : q[i] \in A \/ q[i] \in B => i \in I
  OBVIOUS
<1>2. Has(r, A) <=> Has(q, A)
  BY <1>1, Filtered
<1>3. NotBefore(q, A, B) => NotBefore(r, A, B)
  BY Filtered
<1>4. Outlasts(q, A, B) => Outlasts(r, A, B)
  BY <1>1, Filtered
<1>5. ASSUME NEW free, NEW C, Follows(q, A, free, B, C)
      PROVE  Follows(r, A, free, B, C)
  BY <1>1, <1>5, Filtered
<1>6. QED
  BY <1>2, <1>3, <1>4, <1>5

\* The same, of one set.
LEMMA SentHas ==
    ASSUME NEW S, NEW q \in Seq(S), NEW x \in Seq(S)
    PROVE  q \o x \in Seq(S) /\ \A A : Has(q \o x, A) <=> Has(q, A) \/ Has(x, A)
<1>1. q \o x \in Seq(S)
  OBVIOUS
<1>2. SUFFICES ASSUME NEW A
               PROVE  Has(q \o x, A) <=> Has(q, A) \/ Has(x, A)
  BY <1>1
<1>3. QED
  BY Joined

LEMMA TakenHas ==
    ASSUME NEW S, NEW q \in Seq(S), q # <<>>, NEW x \in Seq(S)
    PROVE  /\ Head(q) \in S /\ Tail(q) \in Seq(S) /\ Tail(q) \o x \in Seq(S)
           /\ \A A : Has(q, A) <=> Head(q) \in A \/ Has(Tail(q), A)
           /\ \A A : Has(Tail(q) \o x, A) <=> Has(Tail(q), A) \/ Has(x, A)
<1>1. Head(q) \in S /\ Tail(q) \in Seq(S)
  BY Popped
<1>2. ASSUME NEW A
      PROVE  Has(q, A) <=> Head(q) \in A \/ Has(Tail(q), A)
  BY Popped
<1> DEFINE t == Tail(q)
<1> HIDE DEF t
<1>3. t \in Seq(S)
  BY <1>1 DEF t
<1>4. t \o x \in Seq(S) /\ \A A : Has(t \o x, A) <=> Has(t, A) \/ Has(x, A)
  BY <1>3, SentHas
<1>5. QED
  BY <1>1, <1>2, <1>4 DEF t

LEMMA ErasedHas ==
    ASSUME NEW S, NEW q \in Seq(S), NEW I \in SUBSET DOMAIN q, NEW r, r = Selected(q, I)
    PROVE  /\ r \in Seq(S)
           /\ \A A : Has(r, A) => Has(q, A)
           /\ \A A : (\A i \in DOMAIN q : q[i] \in A => i \in I) => (Has(r, A) <=> Has(q, A))
           /\ \A A : (\A i \in I : q[i] \notin A) => ~Has(r, A)
<1>1. ASSUME NEW A
      PROVE  /\ r \in Seq(S)
             /\ Has(r, A) => Has(q, A)
             /\ (\A i \in DOMAIN q : q[i] \in A => i \in I) => (Has(r, A) <=> Has(q, A))
             /\ (\A i \in I : q[i] \notin A) => ~Has(r, A)
  <2> DEFINE B == A
  <2> HIDE DEF B
  <2>1. NotBefore(q, A, B) => NotBefore(r, A, B)
    BY Filtered
  <2>2. QED
    BY <2>1, Filtered
<1>2. QED
  BY <1>1

-----------------------------------------------------------------------------
\* Few entries, and steps that are about few.

\* One entry, or none, that is not in A.
LEMMA Made ==
    ASSUME NEW S, NEW A
    PROVE  /\ <<>> \in Seq(S) /\ ~Has(<<>>, A)
           /\ \A e \in S : <<e>> \in Seq(S) /\ (e \notin A => ~Has(<<e>>, A))
           /\ \A e, f \in S : <<e, f>> \in Seq(S) /\ (e \notin A /\ f \notin A => ~Has(<<e, f>>, A))
<1>1. <<>> \in Seq(S) /\ \A e \in S : <<e>> \in Seq(S)
  OBVIOUS
<1>2. \A e, f \in S : <<e, f>> \in Seq(S)
  OBVIOUS
<1>3. QED
  BY <1>1, <1>2, Literals

\* The same queue, written otherwise.
LEMMA Plain ==
    ASSUME NEW S, NEW q \in Seq(S)
    PROVE  /\ q \o <<>> = q
           /\ \A e \in S : Append(q, e) = q \o <<e>>
OBVIOUS

LEMMA Nothing ==
    ASSUME NEW q, NEW A, ~Has(q, A)
    PROVE  \A B : NotBefore(q, A, B) /\ NotBefore(q, B, A)
BY DEF Has, NotBefore

\* The first entry in A was the last in B.
LEMMA HeadGone ==
    ASSUME NEW S, NEW q \in Seq(S), q # <<>>, NEW A, Head(q) \in A, NEW B, NotBefore(q, A, B),
           NEW x \in Seq(S), ~Has(x, B)
    PROVE  ~Has(Tail(q) \o x, B)
<1>1. ~Has(Tail(q), B)
  BY Popped
<1>2. QED
  BY <1>1, TakenHas

\* A step of a queue that is about the entries D only: it takes the first, and sends others.
Spares(q, r, D) == \A W : W \cap D = {} => Undisturbed(q, r, W)

LEMMA SparesAll ==
    ASSUME NEW q, NEW D
    PROVE  Spares(q, q, D)
BY Untouched DEF Spares

LEMMA Moves ==
    ASSUME NEW S, NEW D \in SUBSET S, NEW q \in Seq(S), NEW r, NEW x \in Seq(D),
           r = q \o x \/ (q # <<>> /\ Head(q) \in D /\ r = Tail(q) \o x)
    PROVE  /\ r \in Seq(S) /\ Spares(q, r, D)
           /\ \A A : Has(r, A) => Has(q, A) \/ Has(x, A)
<1>1. x \in Seq(S)
  OBVIOUS
<1>2. ASSUME NEW W, W \cap D = {}
      PROVE  ~Has(x, W)
  BY <1>2 DEF Has
<1>3. CASE r = q \o x
  <2>1. r \in Seq(S) /\ \A A : Has(r, A) <=> Has(q, A) \/ Has(x, A)
    BY <1>1, <1>3, SentHas
  <2>2. ASSUME NEW W, W \cap D = {}
        PROVE  Undisturbed(q, r, W)
    BY <1>1, <1>2, <1>3, <2>2, SentElsewhere
  <2>3. QED
    BY <2>1, <2>2 DEF Spares
<1>4. CASE q # <<>> /\ Head(q) \in D /\ r = Tail(q) \o x
  <2>1. /\ r \in Seq(S)
        /\ \A A : Has(q, A) <=> Head(q) \in A \/ Has(Tail(q), A)
        /\ \A A : Has(r, A) <=> Has(Tail(q), A) \/ Has(x, A)
    BY <1>1, <1>4, TakenHas
  <2>2. ASSUME NEW W, W \cap D = {}
        PROVE  Undisturbed(q, r, W)
    <3>1. Head(q) \notin W /\ ~Has(x, W)
      BY <1>2, <1>4, <2>2
    <3>2. QED
      BY <1>1, <1>4, <3>1, TakenElsewhere
  <2>3. QED
    BY <2>1, <2>2 DEF Spares
<1>5. QED
  BY <1>3, <1>4

\* What the entries out of D keep.
LEMMA Spared ==
    ASSUME NEW q, NEW r, NEW D, Spares(q, r, D)
    PROVE  /\ \A A : A \cap D = {} => (Has(r, A) <=> Has(q, A))
           /\ \A A, B : A \cap D = {} /\ B \cap D = {} =>
                /\ NotBefore(q, A, B) => NotBefore(r, A, B)
                /\ Outlasts(q, A, B) => Outlasts(r, A, B)
<1>1. ASSUME NEW A, NEW B, A \cap D = {}, B \cap D = {}
      PROVE  /\ Has(r, A) <=> Has(q, A)
             /\ NotBefore(q, A, B) => NotBefore(r, A, B)
             /\ Outlasts(q, A, B) => Outlasts(r, A, B)
  <2>1. (A \cup B) \cap D = {}
    BY <1>1
  <2>2. Undisturbed(q, r, A \cup B)
    BY <2>1 DEF Spares
  <2> DEFINE W == A \cup B
  <2>3. A \in SUBSET W /\ B \in SUBSET W
    OBVIOUS
  <2> HIDE DEF W
  <2>4. QED
    BY <2>2, <2>3 DEF Undisturbed, W
<1>2. \A A : A \cap D = {} => (Has(r, A) <=> Has(q, A))
  BY <1>1
<1>3. QED
  BY <1>1, <1>2

=============================================================================
