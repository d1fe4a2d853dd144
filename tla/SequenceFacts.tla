---------------------------- MODULE SequenceFacts ----------------------------
(***************************************************************************)
(* Facts the proofs of several components rest on: the least number        *)
(* principle, which stands for induction, and what FlattenSeq contains.    *)
(***************************************************************************)
EXTENDS Integers, SequencesExt, WellFoundedInduction, TLAPS

LEMMA NaturalOrder ==
    \E R : IsWellFoundedOn(R, Nat) /\ \A n, m \in Nat : <<n, m>> \in R <=> n < m
<1>1. \A n, m \in Nat : <<n, m>> \in OpToRel(<, Nat) <=> n < m
  BY DEF OpToRel
<1> QED
  BY <1>1, NatLessThanWellFounded, Zenon

\* What fails somewhere first fails somewhere.
LEMMA LeastNatural ==
    ASSUME NEW S \in SUBSET Nat, S # {}
    PROVE  \E m \in S : \A n \in S : m <= n
<1>1. PICK R : IsWellFoundedOn(R, Nat) /\ \A n, m \in Nat : <<n, m>> \in R <=> n < m
  BY NaturalOrder
<1>2. PICK m \in S : \A n \in S : <<n, m>> \notin R
  <2>1. IsWellFoundedOn(R, Nat) /\ S \subseteq Nat /\ S # {}
    BY <1>1
  <2> QED
    BY <2>1, WFMin, Zenon
<1>3. ASSUME NEW n \in S PROVE m <= n
  <2>1. n \in Nat /\ m \in Nat
    OBVIOUS
  <2>2. ~(n < m)
    BY <2>1, <1>1, <1>2, Zenon
  <2> QED
    BY <2>1, <2>2
<1> QED
  BY <1>3

\* A set of indices that is not empty has a last one.
LEMMA LastIndex ==
    ASSUME NEW n \in Nat, NEW S \in SUBSET (1..n), S # {}
    PROVE  \E m \in S : \A k \in S : k <= m
<1> DEFINE T == {d \in 0..n : n - d \in S}
<1>1. \A k \in S : k \in 1..n /\ n - k \in 0..n /\ n - (n - k) = k
  OBVIOUS
<1>2. T \in SUBSET Nat /\ \A k \in S : n - k \in T
  BY <1>1
<1>3. \A d \in T : d \in Nat /\ n - d \in S
  OBVIOUS
<1> HIDE DEF T
<1>4. PICK d \in T : \A e \in T : d <= e
  BY <1>2, LeastNatural
<1>5. \A k \in S : k <= n - d
  BY <1>1, <1>2, <1>3, <1>4
<1> QED
  BY <1>3, <1>4, <1>5

\* What holds of 0 and of the successor of each number it holds of, holds of all.
LEMMA Successors ==
    ASSUME NEW n \in Nat, NEW S, 0 \in S, \A k \in 0..(n - 1) : k \in S => k + 1 \in S
    PROVE  \A k \in 0..n : k \in S
<1> DEFINE Bad == {k \in 0..n : k \notin S}
<1>1. SUFFICES ASSUME Bad # {} PROVE FALSE
  OBVIOUS
<1>2. Bad \in SUBSET Nat
  OBVIOUS
<1>3. \A k \in 0..n : k \in Bad <=> k \notin S
  OBVIOUS
<1>4. \A k \in Bad : k \in 0..n
  OBVIOUS
<1> HIDE DEF Bad
<1>5. PICK m \in Bad : \A k \in Bad : m <= k
  BY <1>1, <1>2, LeastNatural
<1>6. m \in 0..n /\ m \notin S /\ m # 0
  BY <1>3, <1>4, <1>5
<1>7. m - 1 \in 0..(n - 1) /\ m - 1 \in 0..n /\ (m - 1) + 1 = m /\ ~(m <= m - 1)
  BY <1>6
<1>8. m - 1 \in S
  BY <1>3, <1>5, <1>7
<1> QED
  BY <1>6, <1>7, <1>8

-----------------------------------------------------------------------------
(* FlattenSeq *)

LEMMA ElementTyped ==
    ASSUME NEW S, NEW s \in Seq(S), NEW i \in DOMAIN s
    PROVE  s[i] \in S
OBVIOUS

LEMMA RangeOfConcatenation ==
    ASSUME NEW S, NEW a \in Seq(S), NEW b \in Seq(S)
    PROVE  Range(a \o b) = Range(a) \cup Range(b)
<1> DEFINE c == a \o b
<1>1. /\ Len(a) \in Nat /\ Len(b) \in Nat
      /\ DOMAIN a = 1..Len(a) /\ DOMAIN b = 1..Len(b) /\ DOMAIN c = 1..(Len(a) + Len(b))
  OBVIOUS
<1>2. \A i \in 1..Len(a) : i \in DOMAIN c /\ c[i] = a[i]
  BY <1>1
<1>3. \A i \in 1..Len(b) : Len(a) + i \in DOMAIN c /\ c[Len(a) + i] = b[i]
  BY <1>1
<1>4. \A i \in DOMAIN c : i \in 1..Len(a) \/ (i - Len(a) \in 1..Len(b) /\ c[i] = b[i - Len(a)])
  BY <1>1
<1> HIDE DEF c
<1>5. Range(c) \subseteq Range(a) \cup Range(b)
  BY <1>1, <1>2, <1>4 DEF Range
<1>6. Range(a) \cup Range(b) \subseteq Range(c)
  BY <1>1, <1>2, <1>3 DEF Range
<1> QED
  BY <1>5, <1>6 DEF c

\* f[i] is the concatenation of the first i sequences of ss.
Concatenates(f, ss, n) ==
    \A i \in 1..n : f[i] = IF i = 1 THEN ss[i] ELSE f[i - 1] \o ss[i]

LEMMA ConcatenationExists ==
    ASSUME NEW S, NEW ss \in Seq(Seq(S)), NEW n \in 1..Len(ss)
    PROVE  \E f \in [1..n -> Seq(S)] : Concatenates(f, ss, n)
<1> DEFINE Bad == {m \in 1..Len(ss) : ~\E f \in [1..m -> Seq(S)] : Concatenates(f, ss, m)}
<1>1. SUFFICES ASSUME Bad # {} PROVE FALSE
  OBVIOUS
<1>a. Bad \in SUBSET Nat
  OBVIOUS
<1>b. \A k \in 1..Len(ss) : k \notin Bad => \E f \in [1..k -> Seq(S)] : Concatenates(f, ss, k)
  OBVIOUS
<1>c. \A k \in Bad : k \in 1..Len(ss) /\ ~\E f \in [1..k -> Seq(S)] : Concatenates(f, ss, k)
  OBVIOUS
<1> HIDE DEF Bad
<1>2. PICK m \in Bad : \A k \in Bad : m <= k
  BY <1>1, <1>a, LeastNatural
<1>d. m \in 1..Len(ss) /\ m \in Nat /\ Len(ss) \in Nat
  BY <1>c
<1>3. \A i \in 1..Len(ss) : ss[i] \in Seq(S)
  OBVIOUS
<1>4. CASE m = 1
  <2> DEFINE f == [i \in 1..1 |-> ss[1]]
  <2>1. f \in [1..1 -> Seq(S)] /\ Concatenates(f, ss, 1)
    BY <1>4, <1>d, <1>3 DEF Concatenates
  <2> QED
    BY <1>c, <1>4, <2>1
<1>5. CASE m # 1
  <2>1. m - 1 \in 1..Len(ss) /\ m - 1 \in Nat /\ m - 1 >= 1 /\ ~(m <= m - 1)
    BY <1>d, <1>5
  <2>a. m - 1 \notin Bad
    BY <1>2, <2>1
  <2>2. PICK f \in [1..(m - 1) -> Seq(S)] : Concatenates(f, ss, m - 1)
    BY <2>1, <2>a, <1>b
  <2> DEFINE g == [i \in 1..m |-> IF i = m THEN f[m - 1] \o ss[m] ELSE f[i]]
  <2>3. g \in [1..m -> Seq(S)]
    <3>1. f[m - 1] \o ss[m] \in Seq(S)
      BY <1>d, <1>3, <2>1
    <3> QED
      BY <1>d, <2>1, <3>1
  <2>4. Concatenates(g, ss, m)
    <3> SUFFICES ASSUME NEW i \in 1..m PROVE g[i] = IF i = 1 THEN ss[i] ELSE g[i - 1] \o ss[i]
      BY DEF Concatenates
    <3>1. CASE i = m
      <4>1. m \in 1..m /\ m - 1 \in 1..m /\ m - 1 # m
        BY <1>d, <2>1
      <4>2. g[m] = f[m - 1] \o ss[m] /\ g[m - 1] = f[m - 1]
        BY <4>1
      <4> QED
        BY <1>5, <3>1, <4>2
    <3>2. CASE i # m
      <4>1. i \in 1..(m - 1) /\ (i # 1 => i - 1 \in 1..m /\ i - 1 # m)
        BY <1>d, <3>2
      <4>2. g[i] = f[i] /\ (i # 1 => g[i - 1] = f[i - 1])
        BY <4>1, <3>2
      <4>3. f[i] = IF i = 1 THEN ss[i] ELSE f[i - 1] \o ss[i]
        BY <2>2, <4>1 DEF Concatenates
      <4> QED
        BY <4>2, <4>3
    <3> QED
      BY <3>1, <3>2
  <2> QED
    BY <1>c, <2>3, <2>4
<1> QED
  BY <1>4, <1>5

LEMMA FlattenIsLast ==
    ASSUME NEW S, NEW ss \in Seq(Seq(S)), ss # <<>>
    PROVE  \E f : Concatenates(f, ss, Len(ss)) /\ FlattenSeq(ss) = f[Len(ss)]
<1> DEFINE n == Len(ss)
           F(f) == [i \in 1..n |-> IF i = 1 THEN ss[i] ELSE f[i - 1] \o ss[i]]
<1>1. n \in Nat /\ n # 0 /\ n \in 1..n
  OBVIOUS
<1>2. PICK f \in [1..n -> Seq(S)] : Concatenates(f, ss, n)
  BY <1>1, ConcatenationExists
<1>3. f = F(f)
  BY <1>2 DEF Concatenates
<1>4. \E g : g = F(g)
  BY <1>3
<1> DEFINE h == CHOOSE g : g = F(g)
<1>5. h = F(h)
  BY <1>4
<1>6. FlattenSeq(ss) = h[n]
  BY <1>1 DEF FlattenSeq
<1> HIDE DEF h
<1>7. Concatenates(h, ss, n)
  BY <1>5 DEF Concatenates
<1> QED
  BY <1>6, <1>7

\* Every prefix of the concatenation is a sequence with the elements of what it joins.
LEMMA ConcatenationContains ==
    ASSUME NEW S, NEW ss \in Seq(Seq(S)), NEW f, NEW n \in 1..Len(ss), Concatenates(f, ss, Len(ss))
    PROVE  /\ f[n] \in Seq(S)
           /\ \A x : x \in Range(f[n]) <=> \E i \in 1..n : x \in Range(ss[i])
<1> DEFINE Holds(m) == /\ f[m] \in Seq(S)
                       /\ \A x : x \in Range(f[m]) <=> \E i \in 1..m : x \in Range(ss[i])
           Bad == {m \in 1..Len(ss) : ~Holds(m)}
<1>1. SUFFICES ASSUME Bad # {} PROVE FALSE
  OBVIOUS
<1>2. Bad \in SUBSET Nat
  OBVIOUS
<1>3. \A k \in Bad : k \in 1..Len(ss) /\ ~Holds(k)
  OBVIOUS
<1>4. \A k \in 1..Len(ss) : k \notin Bad => Holds(k)
  OBVIOUS
<1> HIDE DEF Bad
<1>5. PICK m \in Bad : \A k \in Bad : m <= k
  BY <1>1, <1>2, LeastNatural
<1>6. m \in 1..Len(ss) /\ m \in Nat /\ Len(ss) \in Nat
  BY <1>3
<1>7. ss[m] \in Seq(S) /\ f[m] = IF m = 1 THEN ss[m] ELSE f[m - 1] \o ss[m]
  <2>1. \A i \in 1..Len(ss) : ss[i] \in Seq(S)
    OBVIOUS
  <2> QED
    BY <1>6, <2>1 DEF Concatenates
<1>8. CASE m = 1
  <2>1. f[m] = ss[m] /\ 1..m = {m}
    BY <1>7, <1>8
  <2> QED
    BY <1>3, <1>7, <2>1
<1>9. CASE m # 1
  <2>1. m - 1 \in 1..Len(ss) /\ ~(m <= m - 1) /\ 1..m = 1..(m - 1) \cup {m}
    BY <1>6, <1>9
  <2>2. Holds(m - 1)
    BY <1>4, <1>5, <2>1
  <2>3. f[m] = f[m - 1] \o ss[m]
    BY <1>7, <1>9
  <2>4. f[m] \in Seq(S)
    BY <1>7, <2>2, <2>3
  <2>5. Range(f[m]) = Range(f[m - 1]) \cup Range(ss[m])
    BY <1>7, <2>2, <2>3, RangeOfConcatenation
  <2> QED
    BY <1>3, <2>1, <2>2, <2>4, <2>5
<1> QED
  BY <1>8, <1>9

\* FlattenSeq keeps every element and adds none.
LEMMA FlattenContains ==
    ASSUME NEW S, NEW ss \in Seq(Seq(S))
    PROVE  /\ FlattenSeq(ss) \in Seq(S)
           /\ \A x : x \in Range(FlattenSeq(ss)) <=> \E i \in DOMAIN ss : x \in Range(ss[i])
<1>1. CASE ss = <<>>
  <2>1. FlattenSeq(ss) = <<>>
    BY <1>1 DEF FlattenSeq
  <2>2. Range(<<>>) = {} /\ <<>> \in Seq(S) /\ DOMAIN ss = {}
    BY <1>1 DEF Range
  <2> QED
    BY <2>1, <2>2
<1>2. CASE ss # <<>>
  <2>1. PICK f : Concatenates(f, ss, Len(ss)) /\ FlattenSeq(ss) = f[Len(ss)]
    BY <1>2, FlattenIsLast
  <2>2. Len(ss) \in 1..Len(ss) /\ DOMAIN ss = 1..Len(ss)
    BY <1>2
  <2>3. /\ f[Len(ss)] \in Seq(S)
        /\ \A x : x \in Range(f[Len(ss)]) <=> \E i \in 1..Len(ss) : x \in Range(ss[i])
    <3>1. Concatenates(f, ss, Len(ss))
      BY <2>1
    <3>2. Len(ss) \in 1..Len(ss)
      BY <2>2
    <3> QED
      BY <3>1, <3>2, ConcatenationContains
  <2> QED
    BY <2>1, <2>2, <2>3
<1> QED
  BY <1>1, <1>2

\* s stands in t, behind its first o elements.
Part(t, s, o) == o + Len(s) <= Len(t) /\ \A x \in 1..Len(s) : t[o + x] = s[x]

LEMMA PartsOfConcatenation ==
    ASSUME NEW S, NEW a \in Seq(S), NEW b \in Seq(S)
    PROVE  /\ a \o b \in Seq(S) /\ Len(a \o b) = Len(a) + Len(b)
           /\ Part(a \o b, a, 0) /\ Part(a \o b, b, Len(a))
  BY DEF Part

LEMMA FirstOfConcatenation ==
    ASSUME NEW S, NEW a \in Seq(S), NEW b \in Seq(S), a # <<>>
    PROVE  a \o b \in Seq(S) /\ a \o b # <<>> /\ (a \o b)[1] = a[1]
OBVIOUS

\* Every index of a concatenation lies in one of the sequences it joins.
LEMMA ConcatenationLocates ==
    ASSUME NEW S, NEW ss \in Seq(Seq(S)), NEW f, NEW n \in 1..Len(ss), Concatenates(f, ss, Len(ss))
    PROVE  \A j \in 1..Len(f[n]) : \E p \in 1..n, o \in Nat :
              Part(f[n], ss[p], o) /\ j - o \in 1..Len(ss[p])
<1> DEFINE Holds(m) == \A j \in 1..Len(f[m]) : \E p \in 1..m, o \in Nat :
                          Part(f[m], ss[p], o) /\ j - o \in 1..Len(ss[p])
           Bad == {m \in 1..Len(ss) : ~Holds(m)}
<1>1. SUFFICES ASSUME Bad # {} PROVE FALSE
  OBVIOUS
<1>2. Bad \in SUBSET Nat
  OBVIOUS
<1>3. \A k \in Bad : k \in 1..Len(ss) /\ ~Holds(k)
  OBVIOUS
<1>4. \A k \in 1..Len(ss) : k \notin Bad => Holds(k)
  OBVIOUS
<1> HIDE DEF Bad
<1>5. PICK m \in Bad : \A k \in Bad : m <= k
  BY <1>1, <1>2, LeastNatural
<1>6. m \in 1..Len(ss) /\ m \in Nat /\ Len(ss) \in Nat
  BY <1>3
<1>7. ss[m] \in Seq(S) /\ f[m] = IF m = 1 THEN ss[m] ELSE f[m - 1] \o ss[m]
  <2>1. \A i \in 1..Len(ss) : ss[i] \in Seq(S)
    OBVIOUS
  <2> QED
    BY <1>6, <2>1 DEF Concatenates
<1>8. CASE m = 1
  <2>1. f[m] = ss[m] /\ m \in 1..m /\ 0 \in Nat /\ Len(ss[m]) \in Nat
    BY <1>7, <1>8
  <2>2. Part(f[m], ss[m], 0) /\ \A j \in 1..Len(f[m]) : j - 0 \in 1..Len(ss[m])
    BY <2>1 DEF Part
  <2> QED
    BY <1>3, <2>1, <2>2
<1>9. CASE m # 1
  <2>1. m - 1 \in 1..Len(ss) /\ ~(m <= m - 1) /\ m \in 1..m /\ 1..(m - 1) \subseteq 1..m
    BY <1>6, <1>9
  <2>2. Holds(m - 1)
    BY <1>4, <1>5, <2>1
  <2>3. f[m] = f[m - 1] \o ss[m] /\ f[m - 1] \in Seq(S)
    BY <1>7, <1>9, <2>1, ConcatenationContains
  <2>4. /\ Len(f[m]) = Len(f[m - 1]) + Len(ss[m])
        /\ Part(f[m], f[m - 1], 0) /\ Part(f[m], ss[m], Len(f[m - 1]))
        /\ Len(f[m - 1]) \in Nat /\ Len(ss[m]) \in Nat
    <3>1. ss[m] \in Seq(S) /\ f[m - 1] \in Seq(S)
      BY <1>7, <2>3
    <3>2. PICK a \in Seq(S) : a = f[m - 1]
      BY <3>1
    <3>3. PICK b \in Seq(S) : b = ss[m]
      BY <3>1
    <3>4. PICK c : c = f[m]
      OBVIOUS
    <3>5. c = a \o b
      BY <2>3, <3>2, <3>3, <3>4
    <3>6. Len(c) = Len(a) + Len(b) /\ Part(c, a, 0) /\ Part(c, b, Len(a))
      BY <3>5, PartsOfConcatenation
    <3>7. Len(a) \in Nat /\ Len(b) \in Nat
      OBVIOUS
    <3> QED
      BY <3>2, <3>3, <3>4, <3>6, <3>7
  <2>5. ASSUME NEW j \in 1..Len(f[m])
        PROVE  \E p \in 1..m, o \in Nat : Part(f[m], ss[p], o) /\ j - o \in 1..Len(ss[p])
    <3>1. CASE j <= Len(f[m - 1])
      <4>1. j \in 1..Len(f[m - 1])
        BY <2>4, <3>1
      <4>2. PICK p \in 1..(m - 1), o \in Nat : Part(f[m - 1], ss[p], o) /\ j - o \in 1..Len(ss[p])
        BY <2>2, <4>1
      <4>3. p \in 1..m /\ ss[p] \in Seq(S) /\ Len(ss[p]) \in Nat
        BY <1>6, <2>1, <4>2, ElementTyped
      <4>4. Part(f[m], ss[p], o)
        <5>1. o + Len(ss[p]) <= Len(f[m])
          <6>1. o + Len(ss[p]) <= Len(f[m - 1])
            BY <4>2 DEF Part
          <6>2. PICK a \in Nat, b \in Nat, c \in Nat :
                   a = Len(f[m - 1]) /\ b = Len(ss[m]) /\ c = Len(ss[p])
            BY <2>4, <4>3
          <6>3. o + c <= a /\ Len(f[m]) = a + b
            BY <2>4, <6>1, <6>2
          <6>4. o + c <= a + b
            BY <6>3
          <6> QED
            BY <6>2, <6>3, <6>4
        <5>2. ASSUME NEW x \in 1..Len(ss[p]) PROVE f[m][o + x] = ss[p][x]
          <6>1. o + x \in 1..Len(f[m - 1]) /\ f[m - 1][o + x] = ss[p][x]
            BY <2>4, <4>2, <4>3 DEF Part
          <6>2. f[m][0 + (o + x)] = f[m - 1][o + x]
            BY <2>4, <6>1 DEF Part
          <6> QED
            BY <6>1, <6>2
        <5> QED
          BY <5>1, <5>2 DEF Part
      <4> QED
        BY <4>2, <4>3, <4>4
    <3>2. CASE ~(j <= Len(f[m - 1]))
      <4>1. PICK a \in Nat, b \in Nat : a = Len(f[m - 1]) /\ b = Len(ss[m])
        BY <2>4
      <4>2. j \in 1..(a + b) /\ ~(j <= a)
        BY <2>4, <3>2, <4>1
      <4>3. j - a \in 1..b
        BY <4>2
      <4>4. j - Len(f[m - 1]) \in 1..Len(ss[m])
        BY <4>1, <4>3
      <4> QED
        BY <2>1, <2>4, <4>4
    <3> QED
      BY <3>1, <3>2
  <2> QED
    BY <1>3, <2>5
<1> QED
  BY <1>8, <1>9

LEMMA FlattenLocates ==
    ASSUME NEW S, NEW ss \in Seq(Seq(S)), NEW j \in 1..Len(FlattenSeq(ss))
    PROVE  \E p \in DOMAIN ss, o \in Nat : Part(FlattenSeq(ss), ss[p], o) /\ j - o \in 1..Len(ss[p])
<1>1. ss # <<>>
  <2>1. ss = <<>> => FlattenSeq(ss) = <<>>
    BY DEF FlattenSeq
  <2> QED
    BY <2>1
<1>2. PICK f : Concatenates(f, ss, Len(ss)) /\ FlattenSeq(ss) = f[Len(ss)]
  BY <1>1, FlattenIsLast
<1>3. Len(ss) \in 1..Len(ss) /\ DOMAIN ss = 1..Len(ss)
  BY <1>1
<1>4. Concatenates(f, ss, Len(ss)) /\ j \in 1..Len(f[Len(ss)])
  BY <1>2
<1>5. \E p \in 1..Len(ss), o \in Nat : Part(f[Len(ss)], ss[p], o) /\ j - o \in 1..Len(ss[p])
  BY <1>3, <1>4, ConcatenationLocates
<1> QED
  BY <1>2, <1>3, <1>5
=============================================================================
