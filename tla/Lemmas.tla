------------------------------- MODULE Lemmas -------------------------------
(***************************************************************************)
(* Facts about numbers and sequences that several modules' proofs need.   *)
(* The principle of the least element stands in for induction: the         *)
(* elements for which a claim fails would have a least one.                *)
(***************************************************************************)
EXTENDS Integers, Sequences, FiniteSets, Subsequences, FiniteSetTheorems,
        SequenceTheorems, WellFoundedInduction, TLAPS

\* A set of natural numbers that is not empty has a least element.
LEMMA LeastElement ==
  ASSUME NEW S \in SUBSET Nat, S # {}
  PROVE  \E x \in S : \A y \in S : x <= y
<1> DEFINE R == {ss \in Nat \X Nat : ss[1] < ss[2]}
<1>1. IsWellFoundedOn(R, Nat)
  BY NatLessThanWellFounded DEF OpToRel
<1>2. \A x, y \in S : ~(<<y, x>> \in R) => x <= y
  OBVIOUS
<1> HIDE DEF R
<1>3. \E x \in S : \A y \in S : ~(<<y, x>> \in R)
  BY <1>1, WFMin
<1> QED
  BY <1>2, <1>3

\* One that is bounded has a greatest element.
LEMMA GreatestElement ==
  ASSUME NEW n \in Nat, NEW S \in SUBSET (0 .. n), S # {}
  PROVE  \E x \in S : \A y \in S : x >= y
<1> DEFINE T == {n - x : x \in S}
<1>1. T \in SUBSET Nat /\ T # {}
  <2>1. \A x \in S : n - x \in Nat
    OBVIOUS
  <2> QED
    BY <2>1
<1>2. PICK t \in T : \A u \in T : t <= u
  BY <1>1, LeastElement
<1>3. PICK x \in S : t = n - x
  BY <1>2
<1>4. \A y \in S : n - x <= n - y
  BY <1>2, <1>3
<1>5. \A y \in S : x >= y
  BY <1>4
<1> QED
  BY <1>3, <1>5

\* What holds of 0 and, with a number, of the next one, holds up to n.
LEMMA EachStep ==
  ASSUME NEW n \in Nat, NEW T, 0 \in T, \A k \in 1 .. n : k - 1 \in T => k \in T
  PROVE  \A k \in 0 .. n : k \in T
<1> DEFINE Bad == {k \in 0 .. n : k \notin T}
<1> SUFFICES ASSUME Bad # {} PROVE FALSE
  OBVIOUS
<1>1. PICK k \in Bad : \A j \in Bad : k <= j
  <2>1. Bad \in SUBSET Nat
    OBVIOUS
  <2> HIDE DEF Bad
  <2> QED
    BY <2>1, LeastElement
<1>2. k \in 1 .. n /\ k - 1 \in 0 .. n /\ k - 1 \notin Bad
  BY <1>1
<1> QED
  BY <1>1, <1>2

\* The values after each of n steps, as one function.
Iterates(r, n, step, start) ==
  /\ r[0] = start
  /\ \A k \in 1 .. n : r[k] = step[k][r[k - 1]]

\* Any number of steps can be made one after the other.
LEMMA Iteration ==
  ASSUME NEW S, NEW n \in Nat, NEW step \in [1 .. n -> [S -> S]], NEW start \in S
  PROVE  \E r \in [0 .. n -> S] : Iterates(r, n, step, start)
<1> DEFINE Can(m) == \E r \in [0 .. m -> S] : Iterates(r, m, step, start)
           T == {m \in 0 .. n : ~Can(m)}
<1>1. Can(0)
  <2> DEFINE r == [k \in 0 .. 0 |-> start]
  <2>1. r \in [0 .. 0 -> S] /\ r[0] = start
    OBVIOUS
  <2>2. \A k \in 1 .. 0 : FALSE
    OBVIOUS
  <2> HIDE DEF r
  <2> QED
    BY <2>1, <2>2 DEF Iterates
<1>2. ASSUME NEW m \in 1 .. n, Can(m - 1) PROVE Can(m)
  <2>1. PICK r \in [0 .. m - 1 -> S] : Iterates(r, m - 1, step, start)
    BY <1>2
  <2> DEFINE s == [k \in 0 .. m |-> IF k = m THEN step[m][r[m - 1]] ELSE r[k]]
  <2>2. s \in [0 .. m -> S]
    <3> SUFFICES ASSUME NEW k \in 0 .. m PROVE (IF k = m THEN step[m][r[m - 1]] ELSE r[k]) \in S
      OBVIOUS
    <3>1. r[m - 1] \in S
      BY <1>2, <2>1
    <3>2. k # m => k \in 0 .. m - 1
      OBVIOUS
    <3> QED
      BY <2>1, <3>1, <3>2
  <2>3. s[0] = start
    BY <2>1, <1>2 DEF Iterates
  <2>4. \A k \in 1 .. m : s[k] = step[k][s[k - 1]]
    <3> SUFFICES ASSUME NEW k \in 1 .. m PROVE s[k] = step[k][s[k - 1]]
      OBVIOUS
    <3>1. s[k - 1] = r[k - 1]
      OBVIOUS
    <3>2. CASE k = m
      BY <3>1, <3>2
    <3>3. CASE k # m
      <4>1. k \in 1 .. m - 1 /\ s[k] = r[k]
        BY <3>3
      <4> QED
        BY <2>1, <3>1, <4>1 DEF Iterates
    <3> QED
      BY <3>2, <3>3
  <2> HIDE DEF s
  <2> QED
    BY <2>2, <2>3, <2>4 DEF Iterates
<1> HIDE DEF Can
<1>3. T = {}
  <2> SUFFICES ASSUME T # {} PROVE FALSE
    OBVIOUS
  <2>1. PICK m \in T : \A k \in T : m <= k
    <3>1. T \in SUBSET Nat
      OBVIOUS
    <3> HIDE DEF T
    <3> QED
      BY <3>1, LeastElement
  <2>2. m # 0
    BY <1>1
  <2>3. m \in 1 .. n /\ m - 1 \in 0 .. n /\ m - 1 \notin T
    BY <2>1, <2>2
  <2> QED
    BY <1>2, <2>1, <2>2, <2>3
<1> QED
  BY <1>3 DEF Can

\* The positions that a subsequence keeps are counted off one by one.
LEMMA CountedOff ==
  ASSUME NEW n \in Nat, NEW I \in SUBSET (1 .. n)
  PROVE  /\ Cardinality(I) \in Nat
         /\ \A k \in 1 .. Cardinality(I) : nth(I, k) \in I
         /\ \A i \in I : \E k \in 1 .. Cardinality(I) : nth(I, k) = i
         /\ \A k, l \in 1 .. Cardinality(I) : k < l => nth(I, k) < nth(I, l)
         /\ \A k \in 1 .. Cardinality(I) : Cardinality({j \in I : j <= nth(I, k)}) = k
         /\ \A i \in I : nth(I, Cardinality({j \in I : j <= i})) = i
<1> DEFINE m == Cardinality(I)
           upTo(i) == {j \in I : j <= i}
           rank == [i \in I |-> Cardinality(upTo(i))]
<1>1. IsFiniteSet(I) /\ m \in Nat
  <2>1. IsFiniteSet(1 .. n)
    BY FS_Interval
  <2> QED
    BY <2>1, FS_Subset, FS_CardinalityType
<1>10. \A i \in I : i \in Int
  OBVIOUS
<1>2. \A i \in I : IsFiniteSet(upTo(i)) /\ rank[i] \in 1 .. m
  <2> SUFFICES ASSUME NEW i \in I PROVE IsFiniteSet(upTo(i)) /\ Cardinality(upTo(i)) \in 1 .. m
    OBVIOUS
  <2>1. upTo(i) \in SUBSET I /\ i \in upTo(i)
    OBVIOUS
  <2> HIDE DEF upTo
  <2>2. IsFiniteSet(upTo(i)) /\ Cardinality(upTo(i)) <= m
    BY <1>1, <2>1, FS_Subset
  <2>3. Cardinality(upTo(i)) \in Nat /\ Cardinality(upTo(i)) # 0
    BY <2>1, <2>2, FS_CardinalityType, FS_EmptySet
  <2> QED
    BY <1>1, <2>2, <2>3
<1>3. \A i, j \in I : i < j => rank[i] < rank[j]
  <2> SUFFICES ASSUME NEW i \in I, NEW j \in I, i < j
               PROVE  Cardinality(upTo(i)) < Cardinality(upTo(j))
    OBVIOUS
  <2>1. upTo(i) \in SUBSET upTo(j) /\ j \in upTo(j) /\ j \notin upTo(i)
    <3>1. i \in Int /\ j \in Int
      BY <1>10
    <3>2. \A x \in I : x <= i => x <= j
      BY <1>10, <3>1
    <3>3. j <= j /\ ~(j <= i)
      BY <3>1
    <3> QED
      BY <3>2, <3>3
  <2>2. IsFiniteSet(upTo(j)) /\ Cardinality(upTo(i)) \in Nat /\ Cardinality(upTo(j)) \in Nat
    BY <1>2
  <2> HIDE DEF upTo
  <2>3. Cardinality(upTo(i)) <= Cardinality(upTo(j)) /\ Cardinality(upTo(j)) # Cardinality(upTo(i))
    BY <2>1, <2>2, FS_Subset
  <2> QED
    BY <2>2, <2>3
<1>11. \A i \in I : rank[i] = Cardinality({j \in I : j <= i})
  OBVIOUS
<1>4. rank \in [I -> 1 .. m] /\ \A i, j \in I : rank[i] = rank[j] => i = j
  <2>1. rank \in [I -> 1 .. m]
    BY <1>2
  <2> HIDE DEF rank
  <2>2. \A i, j \in I : i \in Int /\ j \in Int /\ rank[i] \in Int /\ rank[j] \in Int
    BY <2>1
  <2> QED
    BY <1>3, <2>1, <2>2
<1> HIDE DEF rank, m
<1>5. \A k \in 1 .. m : \E i \in I : rank[i] = k
  <2>1. IsFiniteSet(1 .. m) /\ Cardinality(1 .. m) = m
    BY <1>1, FS_Interval
  <2>2. rank \in Injection(I, 1 .. m)
    BY <1>4 DEF Injection, IsInjective
  <2>3. rank \in Surjection(I, 1 .. m)
    BY <2>1, <2>2, FS_Injection DEF m
  <2> QED
    BY <2>3 DEF Surjection
<1>6. \A k : nth(I, k) = CHOOSE i \in I : rank[i] = k
  BY DEF nth, rank
<1>7. \A k \in 1 .. m : nth(I, k) \in I /\ rank[nth(I, k)] = k
  BY <1>5, <1>6
<1>8. \A i \in I : rank[i] \in 1 .. m /\ nth(I, rank[i]) = i
  BY <1>4, <1>7
<1>9. \A k, l \in 1 .. m : k < l => nth(I, k) < nth(I, l)
  <2> SUFFICES ASSUME NEW k \in 1 .. m, NEW l \in 1 .. m, k < l PROVE nth(I, k) < nth(I, l)
    OBVIOUS
  <2>1. nth(I, k) \in Int /\ nth(I, l) \in Int
    BY <1>7, <1>10
  <2>2. nth(I, k) # nth(I, l) /\ ~(nth(I, l) < nth(I, k))
    <3>1. /\ nth(I, k) \in I /\ rank[nth(I, k)] = k
          /\ nth(I, l) \in I /\ rank[nth(I, l)] = l
      BY <1>7
    <3>2. k \in Int /\ l \in Int /\ k # l /\ ~(l < k)
      BY <1>1
    <3> QED
      BY <1>3, <3>1, <3>2
  <2> QED
    BY <2>1, <2>2
<1>12. /\ \A k \in 1 .. m : Cardinality({j \in I : j <= nth(I, k)}) = k
       /\ \A i \in I : nth(I, Cardinality({j \in I : j <= i})) = i
  <2> HIDE DEF upTo
  <2> QED
    BY <1>7, <1>8, <1>11
<1> QED
  BY <1>1, <1>7, <1>8, <1>9, <1>12 DEF m

\* Counting off more positions begins with the first ones.
LEMMA CountedFirst ==
  ASSUME NEW n \in Nat, NEW J \in SUBSET (1 .. n), NEW I \in SUBSET J,
         \A x \in J : \A i \in I : x <= i => x \in I
  PROVE  /\ Cardinality(I) \in Nat /\ Cardinality(J) \in Nat /\ Cardinality(I) <= Cardinality(J)
         /\ \A k \in 1 .. Cardinality(I) : nth(J, k) = nth(I, k)
<1>1. I \in SUBSET (1 .. n)
  OBVIOUS
<1>2. Cardinality(I) \in Nat /\ Cardinality(J) \in Nat /\ Cardinality(I) <= Cardinality(J)
  <2>1. IsFiniteSet(1 .. n)
    BY FS_Interval
  <2>2. IsFiniteSet(J)
    BY <2>1, FS_Subset
  <2> QED
    BY <2>2, FS_Subset, FS_CardinalityType
<1>3. ASSUME NEW k \in 1 .. Cardinality(I) PROVE nth(J, k) = nth(I, k)
  <2> DEFINE i == nth(I, k)
  <2>1. i \in I /\ Cardinality({j \in I : j <= i}) = k
    BY <1>1, CountedOff
  <2> HIDE DEF i
  <2>2. {j \in J : j <= i} = {j \in I : j <= i}
    BY <2>1
  <2>3. nth(J, Cardinality({j \in J : j <= i})) = i
    BY <2>1, CountedOff
  <2> QED
    BY <2>1, <2>2, <2>3 DEF i
<1> QED
  BY <1>2, <1>3

\* A subsequence is a sequence of the members at the positions.
LEMMA SubsequenceKeeps ==
  ASSUME NEW S, NEW s \in Seq(S), NEW I \in SUBSET DOMAIN s
  PROVE  /\ Subsequence(s, I) \in Seq(S)
         /\ Len(Subsequence(s, I)) = Cardinality(I) /\ Cardinality(I) \in Nat
         /\ \A k \in DOMAIN Subsequence(s, I) :
              nth(I, k) \in I /\ Subsequence(s, I)[k] = s[nth(I, k)]
         /\ \A i \in I : \E k \in DOMAIN Subsequence(s, I) : nth(I, k) = i
<1>1. I \in SUBSET (1 .. Len(s)) /\ Len(s) \in Nat
  OBVIOUS
<1>2. /\ Cardinality(I) \in Nat
      /\ \A k \in 1 .. Cardinality(I) : nth(I, k) \in I
      /\ \A i \in I : \E k \in 1 .. Cardinality(I) : nth(I, k) = i
  BY <1>1, CountedOff
<1>3. Subsequence(s, I) = [k \in 1 .. Cardinality(I) |-> s[nth(I, k)]]
  BY DEF Subsequence
<1>4. \A k \in 1 .. Cardinality(I) : s[nth(I, k)] \in S
  BY <1>2
<1>5. Subsequence(s, I) \in Seq(S) /\ Len(Subsequence(s, I)) = Cardinality(I)
      /\ DOMAIN Subsequence(s, I) = 1 .. Cardinality(I)
  BY <1>2, <1>3, <1>4
<1> QED
  BY <1>2, <1>3, <1>5

\* One position more, after the others, and the subsequence has one member more.
LEMMA SubsequenceGrows ==
  ASSUME NEW S, NEW s \in Seq(S), NEW k \in DOMAIN s, NEW I \in SUBSET (1 .. k - 1)
  PROVE  Subsequence(s, I \cup {k}) = Append(Subsequence(s, I), s[k])
<1> DEFINE J == I \cup {k}
           n == Len(s)
           m == Cardinality(I)
           sub == Subsequence(s, I)
           more == Subsequence(s, J)
<1>1. n \in Nat /\ k \in 1 .. n /\ J \in SUBSET (1 .. n) /\ I \in SUBSET (1 .. n) /\ k \notin I
  <2>1. n \in Nat /\ k \in 1 .. n
    OBVIOUS
  <2>2. \A i \in I : i \in 1 .. n /\ i # k
    BY <2>1
  <2> QED
    BY <2>1, <2>2
<1>2. \A x \in J : \A i \in I : x <= i => x \in I
  OBVIOUS
<1>3. IsFiniteSet(I) /\ m \in Nat /\ Cardinality(J) = m + 1
  <2>1. IsFiniteSet(I) /\ m \in Nat
    <3>1. IsFiniteSet(1 .. n)
      BY <1>1, FS_Interval
    <3> QED
      BY <1>1, <3>1, FS_Subset, FS_CardinalityType
  <2> QED
    BY <1>1, <2>1, FS_AddElement
<1>4. I \in SUBSET J /\ k \in J /\ \A x \in J : x <= k
  OBVIOUS
<1> HIDE DEF J
<1>5. \A j \in 1 .. m : nth(J, j) = nth(I, j)
  BY <1>1, <1>2, <1>4, CountedFirst
<1>6. nth(J, m + 1) = k
  <2>1. {x \in J : x <= k} = J
    BY <1>4
  <2>2. nth(J, Cardinality({x \in J : x <= k})) = k
    BY <1>1, <1>4, CountedOff
  <2> QED
    BY <1>3, <2>1, <2>2
<1>7. /\ sub \in Seq(S) /\ Len(sub) = m /\ DOMAIN sub = 1 .. m
      /\ \A j \in 1 .. m : sub[j] = s[nth(I, j)]
  <2>1. I \in SUBSET DOMAIN s
    OBVIOUS
  <2>2. /\ sub \in Seq(S) /\ Len(sub) = m
        /\ \A j \in DOMAIN sub : sub[j] = s[nth(I, j)]
    BY <2>1, SubsequenceKeeps
  <2> HIDE DEF sub, m
  <2> QED
    BY <2>2
<1>8. /\ more \in Seq(S) /\ Len(more) = m + 1 /\ DOMAIN more = 1 .. m + 1
      /\ \A j \in 1 .. m + 1 : more[j] = s[nth(J, j)]
  <2>1. J \in SUBSET DOMAIN s
    BY <1>1
  <2>2. /\ more \in Seq(S) /\ Len(more) = Cardinality(J)
        /\ \A j \in DOMAIN more : more[j] = s[nth(J, j)]
    BY <2>1, SubsequenceKeeps
  <2> HIDE DEF more, m
  <2> QED
    BY <1>3, <2>2
<1> HIDE DEF sub, more, m
<1>9. more = Append(sub, s[k])
  <2> DEFINE longer == Append(sub, s[k])
  <2>1. /\ longer \in Seq(S) /\ Len(longer) = m + 1
        /\ longer[m + 1] = s[k] /\ \A j \in 1 .. m : longer[j] = sub[j]
    BY <1>3, <1>7
  <2> HIDE DEF longer
  <2>2. \A j \in 1 .. m + 1 : j = m + 1 \/ j \in 1 .. m
    BY <1>3
  <2>3. \A j \in 1 .. m + 1 : more[j] = longer[j]
    BY <1>3, <1>5, <1>6, <1>7, <1>8, <2>1, <2>2
  <2>4. more = longer
    BY <1>3, <1>8, <2>1, <2>3, SeqEqual
  <2> QED
    BY <2>4 DEF longer
<1> QED
  BY <1>9 DEF J, sub, more

\* The first positions give the first members.
LEMMA SubsequenceBegins ==
  ASSUME NEW S, NEW s \in Seq(S), NEW J \in SUBSET DOMAIN s, NEW I \in SUBSET J,
         \A x \in J : \A i \in I : x <= i => x \in I
  PROVE  /\ Len(Subsequence(s, I)) <= Len(Subsequence(s, J))
         /\ \A k \in 1 .. Len(Subsequence(s, I)) : Subsequence(s, I)[k] = Subsequence(s, J)[k]
<1>1. Len(s) \in Nat /\ J \in SUBSET (1 .. Len(s)) /\ I \in SUBSET DOMAIN s
  OBVIOUS
<1>2. /\ Cardinality(I) \in Nat /\ Cardinality(J) \in Nat /\ Cardinality(I) <= Cardinality(J)
      /\ \A k \in 1 .. Cardinality(I) : nth(J, k) = nth(I, k)
  BY <1>1, CountedFirst
<1>3. Len(Subsequence(s, I)) = Cardinality(I) /\ Len(Subsequence(s, J)) = Cardinality(J)
  BY <1>1, SubsequenceKeeps
<1>4. /\ \A k \in 1 .. Cardinality(I) : Subsequence(s, I)[k] = s[nth(I, k)]
      /\ \A k \in 1 .. Cardinality(J) : Subsequence(s, J)[k] = s[nth(J, k)]
  BY DEF Subsequence
<1>5. \A k \in 1 .. Cardinality(I) : k \in 1 .. Cardinality(J)
  BY <1>2
<1> QED
  BY <1>2, <1>3, <1>4, <1>5

\* No member twice.
once(s) == \A i, j \in DOMAIN s : s[i] = s[j] => i = j

\* A subsequence has the members at the positions, each as often as there.
LEMMA SubsequenceSet ==
  ASSUME NEW S, NEW s \in Seq(S), NEW I \in SUBSET DOMAIN s
  PROVE  /\ toSet(Subsequence(s, I)) = {s[i] : i \in I}
         /\ once(s) => once(Subsequence(s, I))
<1> DEFINE sub == Subsequence(s, I)
<1>1. /\ sub \in Seq(S) /\ Len(sub) = Cardinality(I) /\ Cardinality(I) \in Nat
      /\ \A k \in DOMAIN sub : nth(I, k) \in I /\ sub[k] = s[nth(I, k)]
      /\ \A i \in I : \E k \in DOMAIN sub : nth(I, k) = i
  BY SubsequenceKeeps
<1>2. I \in SUBSET (1 .. Len(s)) /\ Len(s) \in Nat /\ DOMAIN s = 1 .. Len(s)
  OBVIOUS
<1>3. \A k, l \in 1 .. Cardinality(I) : k < l => nth(I, k) < nth(I, l)
  BY <1>2, CountedOff
<1> HIDE DEF sub
<1>4. toSet(sub) = {s[i] : i \in I}
  <2>1. \A x \in toSet(sub) : x \in {s[i] : i \in I}
    BY <1>1 DEF toSet
  <2>2. \A i \in I : s[i] \in toSet(sub)
    BY <1>1 DEF toSet
  <2> QED
    BY <2>1, <2>2
<1>5. ASSUME once(s) PROVE once(sub)
  <2> SUFFICES ASSUME NEW i \in DOMAIN sub, NEW j \in DOMAIN sub, sub[i] = sub[j] PROVE i = j
    BY DEF once
  <2>1. i \in 1 .. Cardinality(I) /\ j \in 1 .. Cardinality(I)
    BY <1>1
  <2>2. nth(I, i) \in I /\ nth(I, j) \in I /\ nth(I, i) = nth(I, j)
    BY <1>1, <1>2, <1>5 DEF once
  <2>3. nth(I, i) \in Int
    BY <1>2, <2>2
  <2> QED
    BY <1>1, <1>3, <2>1, <2>2, <2>3
<1> QED
  BY <1>4, <1>5 DEF sub

\* Two sequences, one after the other, have the members of both.
LEMMA JoinedSets ==
  ASSUME NEW S, NEW a \in Seq(S), NEW b \in Seq(S)
  PROVE  /\ a \o b \in Seq(S) /\ Len(a \o b) = Len(a) + Len(b)
         /\ toSet(a \o b) = toSet(a) \cup toSet(b)
         /\ once(a) /\ once(b) /\ toSet(a) \cap toSet(b) = {} => once(a \o b)
<1> DEFINE c == a \o b
<1>1. /\ c \in Seq(S) /\ Len(c) = Len(a) + Len(b) /\ Len(a) \in Nat /\ Len(b) \in Nat
      /\ DOMAIN c = 1 .. Len(a) + Len(b) /\ DOMAIN a = 1 .. Len(a) /\ DOMAIN b = 1 .. Len(b)
      /\ \A k \in 1 .. Len(a) + Len(b) : c[k] = IF k <= Len(a) THEN a[k] ELSE b[k - Len(a)]
  OBVIOUS
<1> HIDE DEF c
<1>2. \A k \in DOMAIN c : \/ k \in DOMAIN a /\ c[k] = a[k]
                          \/ k \notin DOMAIN a /\ k - Len(a) \in DOMAIN b /\ c[k] = b[k - Len(a)]
  <2> SUFFICES ASSUME NEW k \in DOMAIN c
               PROVE  \/ k \in DOMAIN a /\ c[k] = a[k]
                      \/ k \notin DOMAIN a /\ k - Len(a) \in DOMAIN b /\ c[k] = b[k - Len(a)]
    OBVIOUS
  <2>1. CASE k <= Len(a)
    <3>1. k \in DOMAIN a
      BY <1>1, <2>1
    <3> QED
      BY <1>1, <2>1, <3>1
  <2>2. CASE ~(k <= Len(a))
    <3>1. k \notin DOMAIN a /\ k - Len(a) \in DOMAIN b
      BY <1>1, <2>2
    <3> QED
      BY <1>1, <2>2, <3>1
  <2> QED
    BY <2>1, <2>2
<1>3. \A k \in DOMAIN a : k \in DOMAIN c /\ c[k] = a[k]
  BY <1>1
<1>4. \A k \in DOMAIN b : Len(a) + k \in DOMAIN c /\ c[Len(a) + k] = b[k]
  BY <1>1
<1>5. toSet(c) = toSet(a) \cup toSet(b)
  <2>1. \A x \in toSet(c) : x \in toSet(a) \cup toSet(b)
    BY <1>2 DEF toSet
  <2>2. \A x \in toSet(a) : x \in toSet(c)
    BY <1>3 DEF toSet
  <2>3. \A x \in toSet(b) : x \in toSet(c)
    BY <1>4 DEF toSet
  <2> QED
    BY <2>1, <2>2, <2>3
<1>6. ASSUME once(a), once(b), toSet(a) \cap toSet(b) = {} PROVE once(c)
  <2> SUFFICES ASSUME NEW i \in DOMAIN c, NEW j \in DOMAIN c, c[i] = c[j] PROVE i = j
    BY DEF once
  <2>1. i \in Int /\ j \in Int
    BY <1>1
  <2>2. \A k \in DOMAIN a : \A l \in DOMAIN b : a[k] # b[l]
    BY <1>6 DEF toSet
  <2>3. CASE i \in DOMAIN a /\ j \in DOMAIN a
    BY <1>2, <1>6, <2>3 DEF once
  <2>4. CASE i \notin DOMAIN a /\ j \notin DOMAIN a
    <3>1. i - Len(a) = j - Len(a)
      BY <1>2, <1>6, <2>4 DEF once
    <3> QED
      BY <1>1, <2>1, <3>1
  <2> QED
    BY <1>2, <2>2, <2>3, <2>4
<1> QED
  BY <1>1, <1>5, <1>6 DEF c
=============================================================================
