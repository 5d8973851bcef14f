------------------------- MODULE SubsequencesProofs -------------------------
(* What a filter preserves: the elements it keeps, their order and that they    *)
(* are there once.                                                              *)
EXTENDS Subsequences, FiniteSetTheorems, SequenceTheorems, TLAPS

LEMMA RankType ==
  ASSUME NEW n \in Nat, NEW keep \in SUBSET (1..n), NEW i \in Nat
  PROVE  /\ IsFiniteSet(keep) /\ Cardinality(keep) \in Nat
         /\ Rank(keep, i) \in 0..Cardinality(keep)
<1>1. IsFiniteSet(keep) BY FS_Interval, FS_Subset, 1 \in Int, n \in Int
<1>2. {j \in keep : j <= i} \subseteq keep OBVIOUS
<1>3. /\ IsFiniteSet({j \in keep : j <= i})
      /\ Cardinality({j \in keep : j <= i}) <= Cardinality(keep)
  BY <1>1, <1>2, FS_Subset
<1>. QED BY <1>1, <1>3, FS_CardinalityType DEF Rank

\* The ranks of the positions kept grow with them.
LEMMA RankGrows ==
  ASSUME NEW n \in Nat, NEW keep \in SUBSET (1..n), NEW i \in Nat, NEW j \in keep, i < j
  PROVE  Rank(keep, i) < Rank(keep, j)
<1>. DEFINE low == {k \in keep : k <= i}
            high == {k \in keep : k <= j}
<1>0. \A k \in keep : k \in Nat OBVIOUS
<1>1. IsFiniteSet(high)
  <2>1. IsFiniteSet(keep) BY RankType
  <2>2. high \in SUBSET keep OBVIOUS
  <2>. QED BY <2>1, <2>2, FS_Subset
<1>2. low \in SUBSET high /\ j \in high /\ j \notin low
  <2>1. \A k \in keep : k <= i => k <= j BY <1>0
  <2>2. j <= j /\ ~(j <= i) BY <1>0
  <2>. QED BY <2>1, <2>2
<1>3. Cardinality(low) < Cardinality(high) /\ IsFiniteSet(low)
  <2>. HIDE DEF low, high
  <2>1. IsFiniteSet(low) /\ Cardinality(low) <= Cardinality(high) /\ Cardinality(low) # Cardinality(high)
    BY <1>1, <1>2, FS_Subset
  <2>2. Cardinality(low) \in Nat /\ Cardinality(high) \in Nat BY <1>1, <2>1, FS_CardinalityType
  <2>. QED BY <2>1, <2>2
<1>. QED BY <1>3 DEF Rank

\* Every number up to the number of positions kept is the rank of one of them.
LEMMA RankOnto ==
  ASSUME NEW n \in Nat, NEW keep \in SUBSET (1..n), NEW k \in 1..Cardinality(keep)
  PROVE  \E i \in keep : Rank(keep, i) = k
<1>. DEFINE size == Cardinality(keep)
            f == [i \in keep |-> Rank(keep, i)]
            ranks == {f[i] : i \in keep}
<1>0. \A i \in keep : i \in Nat /\ 0 < i OBVIOUS
<1>1. IsFiniteSet(keep) /\ size \in Nat BY RankType, 0 \in Nat
<1>2. \A i \in keep : Rank(keep, i) \in 1..size
  <2>. TAKE i \in keep
  <2>1. Rank(keep, 0) < Rank(keep, i) /\ Rank(keep, 0) \in 0..size /\ Rank(keep, i) \in 0..size
    BY <1>0, RankGrows, RankType
  <2>. QED BY <1>1, <2>1
<1>3. \A i, j \in keep : f[i] = f[j] => i = j
  <2>. SUFFICES ASSUME NEW i \in keep, NEW j \in keep, i < j PROVE f[i] # f[j]
    BY <1>0
  <2>1. Rank(keep, i) < Rank(keep, j) /\ Rank(keep, i) \in 0..size /\ Rank(keep, j) \in 0..size
    BY <1>0, RankGrows, RankType
  <2>. QED BY <1>1, <2>1
<1>4. ranks \subseteq 1..size BY <1>2
<1>5. IsFiniteSet(1..size) /\ Cardinality(1..size) = size BY <1>1, FS_Interval
<1>6. IsFiniteSet(ranks) BY <1>4, <1>5, FS_Subset
<1>7. Cardinality(ranks) = size
  <2>1. f \in Bijection(keep, ranks)
    <3>1. f \in [keep -> ranks] OBVIOUS
    <3>. QED BY <1>3, <3>1 DEF Bijection, Injection, Surjection, IsInjective
  <2>. QED BY <1>1, <2>1, FS_Bijection DEF ExistsBijection
<1>8. ranks = 1..size
  <2>. HIDE DEF ranks
  <2>. QED BY <1>1, <1>4, <1>5, <1>7, FS_Subset
<1>. QED BY <1>8

\* The positions kept, in their order
LEMMA NthKept ==
  ASSUME NEW n \in Nat, NEW keep \in SUBSET (1..n)
  PROVE  /\ Cardinality(keep) \in Nat
         /\ \A k \in 1..Cardinality(keep) : Nth(keep, k) \in keep /\ Rank(keep, Nth(keep, k)) = k
         /\ \A k, l \in 1..Cardinality(keep) : k < l => Nth(keep, k) < Nth(keep, l)
         /\ \A i \in keep : \E k \in 1..Cardinality(keep) : Nth(keep, k) = i
<1>0. \A i \in keep : i \in Nat /\ 0 < i OBVIOUS
<1>1. Cardinality(keep) \in Nat BY RankType, 0 \in Nat
<1>2. \A k \in 1..Cardinality(keep) : Nth(keep, k) \in keep /\ Rank(keep, Nth(keep, k)) = k
  BY RankOnto DEF Nth
<1>3. ASSUME NEW k \in 1..Cardinality(keep), NEW l \in 1..Cardinality(keep), k < l
      PROVE  Nth(keep, k) < Nth(keep, l)
  <2>. DEFINE i == Nth(keep, k)
              j == Nth(keep, l)
  <2>1. i \in keep /\ j \in keep /\ Rank(keep, i) = k /\ Rank(keep, j) = l BY <1>2
  <2>2. i \in Nat /\ j \in Nat BY <1>0, <2>1
  <2>3. i # j BY <1>3, <2>1
  <2>4. ~(j < i)
    <3>. SUFFICES ASSUME j < i PROVE FALSE OBVIOUS
    <3>1. Rank(keep, j) < Rank(keep, i) BY <2>1, <2>2, RankGrows
    <3>. QED BY <1>1, <1>3, <2>1, <3>1
  <2>. QED BY <2>2, <2>3, <2>4
<1>4. ASSUME NEW i \in keep PROVE \E k \in 1..Cardinality(keep) : Nth(keep, k) = i
  <2>. DEFINE k == Rank(keep, i)
  <2>1. i \in Nat /\ 0 < i BY <1>0
  <2>2. Rank(keep, 0) < k /\ Rank(keep, 0) \in 0..Cardinality(keep) /\ k \in 0..Cardinality(keep)
    BY <2>1, RankGrows, RankType
  <2>3. k \in 1..Cardinality(keep) BY <1>1, <2>2
  <2>4. Nth(keep, k) \in keep /\ Rank(keep, Nth(keep, k)) = k BY <1>2, <2>3
  <2>5. Nth(keep, k) \in Nat BY <1>0, <2>4
  <2>. DEFINE j == Nth(keep, k)
  <2>6. ~(j < i)
    <3>. SUFFICES ASSUME j < i PROVE FALSE OBVIOUS
    <3>1. Rank(keep, j) < Rank(keep, i) BY <2>1, <2>5, RankGrows
    <3>. QED BY <2>4, <2>3, <3>1
  <2>7. ~(i < j)
    <3>. SUFFICES ASSUME i < j PROVE FALSE OBVIOUS
    <3>1. Rank(keep, i) < Rank(keep, j) BY <2>1, <2>4, RankGrows
    <3>. QED BY <2>4, <2>3, <3>1
  <2>. QED BY <2>1, <2>3, <2>5, <2>6, <2>7
<1>. QED BY <1>1, <1>2, <1>3, <1>4

\* A filter of a sequence is a sequence of its elements at the positions it keeps:
\* all of them, nothing else, in their order.
THEOREM SubsequenceKeeps ==
  ASSUME NEW S, NEW s \in Seq(S), NEW keep \in SUBSET DOMAIN s
  PROVE  /\ Subsequence(s, keep) \in Seq(S)
         /\ DOMAIN Subsequence(s, keep) = 1..Cardinality(keep)
         /\ \A k \in DOMAIN Subsequence(s, keep) :
              Nth(keep, k) \in keep /\ Subsequence(s, keep)[k] = s[Nth(keep, k)]
         /\ \A k, l \in DOMAIN Subsequence(s, keep) : k < l => Nth(keep, k) < Nth(keep, l)
         /\ \A i \in keep : \E k \in DOMAIN Subsequence(s, keep) : Subsequence(s, keep)[k] = s[i]
<1>. DEFINE size == Cardinality(keep)
            kept == Subsequence(s, keep)
<1>1. DOMAIN s = 1..Len(s) /\ Len(s) \in Nat /\ \A i \in DOMAIN s : s[i] \in S OBVIOUS
<1>2. /\ size \in Nat
      /\ \A k \in 1..size : Nth(keep, k) \in keep
      /\ \A k, l \in 1..size : k < l => Nth(keep, k) < Nth(keep, l)
      /\ \A i \in keep : \E k \in 1..size : Nth(keep, k) = i
  BY <1>1, NthKept
<1>3. kept = [k \in 1..size |-> s[Nth(keep, k)]] BY DEF Subsequence
<1>4. \A k \in 1..size : s[Nth(keep, k)] \in S BY <1>1, <1>2
<1>5. kept \in Seq(S)
  <2>. HIDE DEF size
  <2>. QED BY <1>2, <1>3, <1>4, IsASeq
<1>. QED BY <1>2, <1>3, <1>5
=============================================================================
