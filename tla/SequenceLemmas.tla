--------------------------- MODULE SequenceLemmas ---------------------------
(***************************************************************************)
(* Facts about numbers and sequences that the proofs share.  The library   *)
(* has induction only for an operator, which no prover here can            *)
(* instantiate; induction for a set is as good, and follows from the       *)
(* library's theorem that "less than" is well-founded.                     *)
(***************************************************************************)
EXTENDS Naturals, Sequences, FiniteSets, SequencesExt, FiniteSetTheorems,
        WellFoundedInduction, TLAPS

\* A set of numbers that is not empty has a least one.
LEMMA LeastNumber ==
  ASSUME NEW T \in SUBSET Nat, T # {}
  PROVE  \E m \in T : \A k \in T : m <= k
<1> DEFINE Less == {p \in Nat \X Nat : p[1] < p[2]}
<1>1. IsWellFoundedOn(Less, Nat)
  BY NatLessThanWellFounded DEF OpToRel
<1>2. PICK m \in T : \A k \in T : <<k, m>> \notin Less
  BY <1>1, WFMin
<1>3. \A k \in T : ~(k < m)
  BY <1>2
<1> QED
  BY <1>3

\* A set that has 0, and with a number the next one, has all numbers.
LEMMA SetInduction ==
  ASSUME NEW T, 0 \in T, \A n \in Nat : n \in T => n + 1 \in T
  PROVE  \A n \in Nat : n \in T
<1> SUFFICES ASSUME Nat \ T # {}
             PROVE  FALSE
  OBVIOUS
<1>1. PICK m \in Nat \ T : \A k \in Nat \ T : m <= k
  BY LeastNumber
<1>2. m # 0 /\ m - 1 \in Nat /\ ~(m <= m - 1)
  BY <1>1
<1>3. m - 1 \in T
  BY <1>1, <1>2
<1> QED
  BY <1>1, <1>2, <1>3
-----------------------------------------------------------------------------
\* FlattenSeq for sequences that are put together one after the other.

\* f lists the concatenations of the first i sequences of q.
IsPrefixes(f, q, k) == f = [i \in 1..k |-> IF i = 1 THEN q[i] ELSE f[i - 1] \o q[i]]

LEMMA PrefixesExist ==
  ASSUME NEW q, NEW n \in Nat
  PROVE  \E f : IsPrefixes(f, q, n)
<1> DEFINE T == {k \in Nat : \E f : IsPrefixes(f, q, k)}
<1>1. 0 \in T
  <2>1. IsPrefixes([i \in 1..0 |-> {}], q, 0)
    BY DEF IsPrefixes
  <2> QED
    BY <2>1
<1>2. ASSUME NEW k \in Nat, k \in T
      PROVE  k + 1 \in T
  <2>1. PICK f : IsPrefixes(f, q, k)
    BY <1>2
  <2> DEFINE g == [i \in 1..(k + 1) |-> IF i # k + 1 THEN f[i]
                                        ELSE IF i = 1 THEN q[i] ELSE f[k] \o q[i]]
  <2>2. \A i \in 1..k : f[i] = IF i = 1 THEN q[i] ELSE f[i - 1] \o q[i]
    BY <2>1 DEF IsPrefixes
  <2>3. \A i \in 1..(k + 1) : g[i] = IF i = 1 THEN q[i] ELSE g[i - 1] \o q[i]
    BY <2>2
  <2>4. g = [i \in 1..(k + 1) |-> IF i = 1 THEN q[i] ELSE g[i - 1] \o q[i]]
    BY <2>3
  <2>5. IsPrefixes(g, q, k + 1)
    <3> HIDE DEF g
    <3> QED
      BY <2>4, Zenon DEF IsPrefixes
  <2> QED
    BY <2>5
<1>3. \A k \in Nat : k \in T
  <2> HIDE DEF T
  <2> QED
    BY <1>1, <1>2, SetInduction
<1>4. n \in T
  <2> HIDE DEF T
  <2> QED
    BY <1>3
<1> QED
  BY <1>4

\* FlattenSeq is the last of the prefixes.
LEMMA FlattenIsPrefix ==
  ASSUME NEW n \in Nat \ {0}, NEW q, Len(q) = n
  PROVE  \E f : IsPrefixes(f, q, n) /\ FlattenSeq(q) = f[n]
<1> DEFINE f == CHOOSE g : IsPrefixes(g, q, n)
<1>1. IsPrefixes(f, q, n)
  BY PrefixesExist, Zenon
<1>2. FlattenSeq(q) = f[n]
  BY DEF FlattenSeq, IsPrefixes
<1> QED
  BY <1>1, <1>2

\* The concatenation of sequences is a sequence of their elements.
LEMMA FlattenTyped ==
  ASSUME NEW S, NEW n \in Nat, NEW q \in [1..n -> Seq(S)]
  PROVE  FlattenSeq(q) \in Seq(S)
<1>1. CASE n = 0
  BY <1>1 DEF FlattenSeq
<1>2. CASE n # 0
  <2>1. PICK f : IsPrefixes(f, q, n) /\ FlattenSeq(q) = f[n]
    BY <1>2, FlattenIsPrefix
  <2>2. \A i \in 1..n : f[i] = IF i = 1 THEN q[i] ELSE f[i - 1] \o q[i]
    BY <2>1 DEF IsPrefixes
  <2> DEFINE T == {k \in Nat : k \in 1..n => f[k] \in Seq(S)}
  <2>3. 0 \in T
    OBVIOUS
  <2>4. ASSUME NEW k \in Nat, k \in T
        PROVE  k + 1 \in T
    <3> SUFFICES ASSUME k + 1 \in 1..n
                 PROVE  f[k + 1] \in Seq(S)
      OBVIOUS
    <3>1. f[k + 1] = IF k + 1 = 1 THEN q[k + 1] ELSE f[k] \o q[k + 1]
      BY <2>2
    <3>2. k # 0 => f[k] \in Seq(S)
      BY <2>4
    <3> QED
      BY <3>1, <3>2
  <2>5. n \in T
    <3> HIDE DEF T
    <3> QED
      BY <2>3, <2>4, SetInduction
  <2> QED
    BY <1>2, <2>1, <2>5
<1> QED
  BY <1>1, <1>2
-----------------------------------------------------------------------------
\* A list of a finite set is a sequence of its elements.
LEMMA ListTyped ==
  ASSUME NEW S, IsFiniteSet(S), NEW q \in SetToSeqs(S)
  PROVE  Cardinality(S) \in Nat /\ q \in [1..Cardinality(S) -> S] /\ q \in Seq(S)
<1>1. Cardinality(S) \in Nat
  BY FS_CardinalityType
<1>2. q \in [1..Cardinality(S) -> S]
  BY DEF SetToSeqs
<1> QED
  BY <1>1, <1>2

\* It has each of them once.
LEMMA ListComplete ==
  ASSUME NEW S, IsFiniteSet(S), NEW q \in SetToSeqs(S)
  PROVE  /\ \A x \in S : \E i \in 1..Cardinality(S) : q[i] = x
         /\ \A i, j \in 1..Cardinality(S) : q[i] = q[j] => i = j
<1> DEFINE n == Cardinality(S)
<1>1. n \in Nat /\ q \in [1..n -> S]
  BY ListTyped
<1>2. \A i, j \in 1..n : q[i] = q[j] => i = j
  BY DEF SetToSeqs
<1>3. q \in Injection(1..n, S)
  BY <1>1, <1>2 DEF Injection, IsInjective
<1>4. Cardinality(1..n) = n
  BY <1>1, FS_Interval
<1>5. q \in Surjection(1..n, S)
  BY <1>3, <1>4, FS_Injection
<1>6. \A x \in S : \E i \in 1..n : q[i] = x
  BY <1>5 DEF Surjection
<1> QED
  BY <1>2, <1>6
=============================================================================
