-------------------------- MODULE SubsequenceProofs --------------------------
(***************************************************************************)
(* Proofs about module Subsequences, for every sequence and every choice of  *)
(* its positions.                                                            *)
(***************************************************************************)
EXTENDS Subsequences, Integers, FiniteSetTheorems, SequenceTheorems, TLAPS

\* Numbering the positions of A is one-to-one and keeps their order.
LEMMA Ranks ==
  ASSUME NEW N \in Nat, NEW A \in SUBSET (1..N)
  PROVE  /\ Cardinality(A) \in Nat
         /\ \A i \in A : Rank(A, i) \in 1..Cardinality(A)
         /\ \A i, j \in A : i < j => Rank(A, i) < Rank(A, j)
         /\ \A n \in 1..Cardinality(A) : \E i \in A : Rank(A, i) = n
<1>1. IsFiniteSet(A) /\ Cardinality(A) \in Nat
  <2>1. IsFiniteSet(1..N)  BY FS_Interval
  <2> QED  BY <2>1, FS_Subset, FS_CardinalityType
<1>0. \A i \in A : i \in Int  OBVIOUS
<1>2. ASSUME NEW i \in A
      PROVE  IsFiniteSet({j \in A : j <= i}) /\ Rank(A, i) \in 1..Cardinality(A)
  <2> DEFINE B == {j \in A : j <= i}
  <2>1. B \in SUBSET A /\ i \in B  BY <1>0
  <2> HIDE DEF B
  <2>2. IsFiniteSet(B) /\ Cardinality(B) <= Cardinality(A) /\ Cardinality(B) \in Nat
    BY <1>1, <2>1, FS_Subset, FS_CardinalityType
  <2>3. Cardinality(B) # 0  BY <2>1, <2>2, FS_EmptySet
  <2>4. Cardinality(B) \in 1..Cardinality(A)  BY <1>1, <2>2, <2>3
  <2> QED  BY <2>2, <2>4 DEF Rank, B
<1>3. \A i \in A : Rank(A, i) \in 1..Cardinality(A)
  BY <1>2
<1>4. ASSUME NEW i \in A, NEW j \in A, i < j PROVE Rank(A, i) < Rank(A, j)
  <2> DEFINE B == {k \in A : k <= i}
             D == {k \in A : k <= j}
  <2>1. \A k \in A : k <= i => k <= j  BY <1>0, <1>4
  <2>2. j \in D /\ j \notin B  BY <1>0, <1>4
  <2>3. B \in SUBSET D  BY <2>1
  <2>4. IsFiniteSet(D) /\ Rank(A, i) = Cardinality(B) /\ Rank(A, j) = Cardinality(D)
    BY <1>2 DEF Rank
  <2> HIDE DEF B, D
  <2>5. Cardinality(B) <= Cardinality(D) /\ Cardinality(B) # Cardinality(D)
    BY <2>2, <2>3, <2>4, FS_Subset
  <2>6. Cardinality(B) \in Nat /\ Cardinality(D) \in Nat
    BY <2>3, <2>4, FS_Subset, FS_CardinalityType
  <2> QED  BY <2>4, <2>5, <2>6
<1>5. \A n \in 1..Cardinality(A) : \E i \in A : Rank(A, i) = n
  <2> DEFINE T == 1..Cardinality(A)
             f == [i \in A |-> Rank(A, i)]
  <2>1. \A i \in A : Rank(A, i) \in T  BY <1>3
  <2>2. f \in Injection(A, T)
    <3>1. \A i, j \in A : i # j => i < j \/ j < i  BY <1>0
    <3>2. \A i \in A : Rank(A, i) \in Int  BY <1>1, <1>3
    <3>3. \A i, j \in A : Rank(A, i) = Rank(A, j) => i = j  BY <1>4, <3>1, <3>2
    <3> QED  BY <2>1, <3>3 DEF Injection, IsInjective
  <2>3. IsFiniteSet(T) /\ Cardinality(T) = Cardinality(A)  BY <1>1, FS_Interval
  <2> HIDE DEF f, T
  <2>4. f \in Surjection(A, T)  BY <1>1, <2>2, <2>3, FS_Injection
  <2>5. \A n \in T : \E i \in A : f[i] = n  BY <2>4 DEF Surjection
  <2> QED  BY <2>5 DEF f, T
<1> QED  BY <1>1, <1>3, <1>4, <1>5

\* What is left is a sequence, at positions that ascend, and each chosen position is there.
LEMMA SubsequenceSelects ==
  ASSUME NEW T, NEW s \in Seq(T), NEW A \in SUBSET (1..Len(s))
  PROVE  /\ Subsequence(s, A) \in Seq(T)
         /\ \E at \in [1..Len(Subsequence(s, A)) -> A] :
              /\ \A n \in 1..Len(Subsequence(s, A)) :
                   /\ Subsequence(s, A)[n] = s[at[n]]
                   /\ \A m \in 1..Len(Subsequence(s, A)) : m < n => at[m] < at[n]
              /\ \A i \in A : \E n \in 1..Len(Subsequence(s, A)) : at[n] = i
<1> DEFINE N == Len(s)
           nth(n) == CHOOSE i \in A : Rank(A, i) = n
           C == Cardinality(A)
           at == [n \in 1..C |-> nth(n)]
           R == Subsequence(s, A)
<1>1. N \in Nat /\ \A i \in 1..N : s[i] \in T
  OBVIOUS
<1>2. R = [n \in 1..C |-> s[nth(n)]]  BY DEF Subsequence
<1>3. C \in Nat  BY <1>1, Ranks
<1>4. \A n \in 1..C : nth(n) \in A /\ Rank(A, nth(n)) = n
  <2>1. \A n \in 1..C : \E i \in A : Rank(A, i) = n
    BY <1>1, Ranks
  <2> QED  BY <2>1
<1>5. \A i, j \in A : i < j => Rank(A, i) < Rank(A, j)  BY <1>1, Ranks
<1>6. \A i \in A : Rank(A, i) \in 1..C  BY <1>1, Ranks
<1> HIDE DEF nth, C
<1>7. at \in [1..C -> A] /\ \A n \in 1..C : at[n] = nth(n)
  BY <1>4
<1>8. \A m, n \in 1..C : m < n => at[m] < at[n]
  <2> TAKE m, n \in 1..C
  <2>1. nth(m) \in 1..N /\ nth(n) \in 1..N  BY <1>1, <1>4
  <2>2. nth(m) < nth(n) \/ nth(m) = nth(n) \/ nth(n) < nth(m)  BY <1>1, <2>1
  <2>3. nth(n) < nth(m) => n < m  BY <1>4, <1>5
  <2>4. nth(m) = nth(n) => m = n  BY <1>4
  <2> QED  BY <1>3, <1>7, <2>2, <2>3, <2>4
<1>9. R \in Seq(T) /\ Len(R) = C
  <2>1. R \in [1..C -> T]  BY <1>1, <1>2, <1>4
  <2>2. R \in Seq(T)  BY <1>3, <2>1, SeqDef
  <2> QED  BY <1>3, <2>1, <2>2, LenProperties
<1>10. \A n \in 1..C : R[n] = s[at[n]]
  BY <1>2, <1>7
<1>11. ASSUME NEW i \in A PROVE \E n \in 1..C : at[n] = i
  <2>1. Rank(A, i) \in 1..C  BY <1>6
  <2>2. nth(Rank(A, i)) \in A /\ Rank(A, nth(Rank(A, i))) = Rank(A, i)  BY <1>4, <2>1
  <2>3. nth(Rank(A, i)) \in 1..N /\ i \in 1..N  BY <1>1, <2>2
  <2>4. nth(Rank(A, i)) < i \/ nth(Rank(A, i)) = i \/ i < nth(Rank(A, i))  BY <1>1, <2>3
  <2>5. nth(Rank(A, i)) = i
    <3> DEFINE k == nth(Rank(A, i))
    <3>1. k \in A /\ Rank(A, k) = Rank(A, i) /\ Rank(A, i) \in Int
      BY <1>3, <2>1, <2>2
    <3>2. k < i \/ k = i \/ i < k  BY <2>4
    <3> HIDE DEF k
    <3>3. ~(k < i) /\ ~(i < k)  BY <1>5, <3>1
    <3>4. k = i  BY <3>2, <3>3
    <3> QED  BY <3>4 DEF k
  <2> QED  BY <1>7, <2>1, <2>5
<1> HIDE DEF at, R
<1> QED  BY <1>7, <1>8, <1>9, <1>10, <1>11 DEF R

\* It is as long as there are positions.
LEMMA SubsequenceLength ==
  ASSUME NEW T, NEW s \in Seq(T), NEW A \in SUBSET (1..Len(s))
  PROVE  Len(Subsequence(s, A)) = Cardinality(A) /\ Cardinality(A) <= Len(s) /\ IsFiniteSet(A)
<1>1. Len(s) \in Nat  OBVIOUS
<1>2. Cardinality(A) \in Nat  BY <1>1, Ranks
<1>3. Subsequence(s, A) \in Seq(T)  BY SubsequenceSelects
<1>4. DOMAIN Subsequence(s, A) = 1..Cardinality(A)  BY DEF Subsequence
<1>5. Len(Subsequence(s, A)) = Cardinality(A)
  <2> DEFINE R == Subsequence(s, A)
  <2> HIDE DEF R
  <2>1. R \in Seq(T) /\ DOMAIN R = 1..Cardinality(A)  BY <1>3, <1>4 DEF R
  <2>2. Len(R) \in Nat /\ 1..Len(R) = 1..Cardinality(A)  BY <2>1
  <2>3. Len(R) = Cardinality(A)  BY <1>2, <2>2
  <2> QED  BY <2>3 DEF R
<1>6. IsFiniteSet(1..Len(s)) /\ Cardinality(1..Len(s)) = Len(s)  BY <1>1, FS_Interval
<1>7. IsFiniteSet(A) /\ Cardinality(A) <= Len(s)
  <2> DEFINE I == 1..Len(s)
  <2>1. IsFiniteSet(I) /\ A \in SUBSET I /\ Cardinality(I) = Len(s)  BY <1>6
  <2> HIDE DEF I
  <2> QED  BY <2>1, FS_Subset
<1> QED  BY <1>5, <1>7
=============================================================================
