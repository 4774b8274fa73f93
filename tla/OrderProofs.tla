---------------------------- MODULE OrderProofs ----------------------------
(***************************************************************************)
(* What the other proofs need to know of numbers, finite sets and sorted   *)
(* sequences.                                                              *)
(*                                                                         *)
(* Ordering sorts by rank: an element's rank is the number of those before *)
(* it.  Ranks grow along the order, so they are distinct and below the     *)
(* size of the set; and distinct elements of a finite set whose ranks are  *)
(* as few as they leave no rank out (RanksCount).                          *)
(***************************************************************************)
EXTENDS Ordering, Sequences, SequencesExt, FiniteSetTheorems, TLAPS

-----------------------------------------------------------------------------
(* Numbers and sets.                                                       *)

\* A nonempty set of naturals has a least element.
LEMMA LeastOf ==
    ASSUME NEW T \in SUBSET Nat, T # {}
    PROVE  \E x \in T : \A y \in T : x <= y
  <1>1. \E x \in T : \A y \in T : ~ (<<y, x>> \in OpToRel(<, Nat))
    BY NatLessThanWellFounded, WFMin
  <1>2. \A x, y \in Nat : <<y, x>> \in OpToRel(<, Nat) <=> y < x
    BY DEF OpToRel
  <1>3. PICK x \in T : \A y \in T : ~ (<<y, x>> \in OpToRel(<, Nat))
    BY <1>1
  <1>4. ASSUME NEW y \in T
        PROVE  ~ (y < x)
    BY <1>2, <1>3, Zenon
  <1>5. QED
    BY <1>4

\* The least of a set is its least.
LEMMA LeastIs ==
    ASSUME NEW S \in SUBSET Int, NEW a \in S, \A b \in S : a <= b
    PROVE  Min(S) = a
  <1>1. \E x \in S : \A b \in S : x <= b
    OBVIOUS
  <1>2. Min(S) \in S /\ \A b \in S : Min(S) <= b
    BY <1>1, Zenon DEF Min
  <1>3. Min(S) <= a /\ a <= Min(S) /\ Min(S) \in Int /\ a \in Int
    BY <1>2
  <1> QED
    BY <1>3

\* Of one number it is that number.
LEMMA MinOfOne ==
    ASSUME NEW n \in Int
    PROVE  Min({n}) = n
  <1>1. {n} \in SUBSET Int /\ n \in {n} /\ \A b \in {n} : n <= b
    OBVIOUS
  <1> QED
    BY <1>1, LeastIs

\* Min finds the least of a nonempty set of naturals.
LEMMA MinOf ==
    ASSUME NEW S \in SUBSET Nat, S # {}
    PROVE  Min(S) \in S /\ \A y \in S : Min(S) <= y
  <1>1. PICK x \in S : \A y \in S : x <= y
    BY LeastOf
  <1> QED
    BY <1>1 DEF Min

\* A nonempty bounded set of naturals has a greatest element.
LEMMA GreatestOf ==
    ASSUME NEW n \in Nat, NEW T \in SUBSET (0 .. n), T # {}
    PROVE  \E x \in T : \A y \in T : x >= y
  <1> DEFINE D == {n - x : x \in T}
  <1>1. D \in SUBSET Nat /\ D # {}
    <2>1. \A x \in T : x \in 0 .. n
      OBVIOUS
    <2>2. \A x \in 0 .. n : n - x \in Nat
      OBVIOUS
    <2>3. QED
      BY <2>1, <2>2
  <1>2. PICK d \in D : \A e \in D : d <= e
    BY <1>1, LeastOf
  <1>3. PICK x \in T : d = n - x
    OBVIOUS
  <1>4. ASSUME NEW y \in T
        PROVE  x >= y
    <2>1. n - x <= n - y
      BY <1>2, <1>3
    <2>2. QED
      BY <2>1
  <1>5. QED
    BY <1>4

\* SetToSeq lists the elements of a finite set.
LEMMA ListedSet ==
    ASSUME NEW S, IsFiniteSet(S)
    PROVE  /\ Len(SetToSeq(S)) \in Nat
           /\ \A n \in 1 .. Len(SetToSeq(S)) : SetToSeq(S)[n] \in S
  <1>1. Cardinality(S) \in Nat /\ ExistsBijection(1 .. Cardinality(S), S)
    BY FS_CardinalityType
  <1>2. PICK f \in [1 .. Cardinality(S) -> S] : IsInjective(f)
    BY <1>1, Zenon DEF ExistsBijection, Bijection, Injection, IsInjective
  <1>3. SetToSeq(S) \in [1 .. Cardinality(S) -> S]
    BY <1>2 DEF SetToSeq
  <1>4. Len(SetToSeq(S)) = Cardinality(S)
    BY <1>1, <1>3
  <1>5. QED
    BY <1>1, <1>3, <1>4

\* The values of a function on a finite set are finitely many.
LEMMA FiniteRange ==
    ASSUME NEW S, IsFiniteSet(S), NEW f, f \in [S -> {f[x] : x \in S}]
    PROVE  IsFiniteSet({f[x] : x \in S})
  <1>1. f \in Surjection(S, {f[x] : x \in S})
    BY DEF Surjection
  <1>2. QED
    BY <1>1, FS_Surjection

-----------------------------------------------------------------------------
(* Sorted sequences.                                                       *)

\* R orders the elements of S, strictly and totally.
StrictOrder(R, S) ==
    /\ \A x \in S : <<x, x>> \notin R
    /\ \A x, y, z \in S : <<x, y>> \in R /\ <<y, z>> \in R => <<x, z>> \in R
    /\ \A x, y \in S : x # y => <<x, y>> \in R \/ <<y, x>> \in R

Before(S, R, x) == {y \in S : <<y, x>> \in R}

Ranking(S, R) == [x \in S |-> Cardinality(Before(S, R, x))]

\* The ranks number the elements of S from 0 on, along the order R.
Numbers(rank, S, R) ==
    /\ Cardinality(S) \in Nat
    /\ rank \in [S -> 0 .. Cardinality(S) - 1]
    /\ \A x, y \in S : <<x, y>> \in R => rank[x] < rank[y]
    /\ \A x, y \in S : rank[x] = rank[y] => x = y
    /\ \A n \in 0 .. Cardinality(S) - 1 : \E x \in S : rank[x] = n

\* Each rank below the size of a finite set is that of exactly one element.
LEMMA RanksCount ==
    ASSUME NEW S, IsFiniteSet(S), NEW R, StrictOrder(R, S)
    PROVE  Numbers(Ranking(S, R), S, R)
  <1> DEFINE N == Cardinality(S)
             K == 0 .. N - 1
  <1>0. PICK rank : rank = Ranking(S, R)
    OBVIOUS
  <1>1. N \in Nat
    BY FS_CardinalityType
  <1>2. ASSUME NEW T \in SUBSET S
        PROVE  /\ IsFiniteSet(T) /\ Cardinality(T) \in Nat
               /\ \A U \in SUBSET T : Cardinality(U) <= Cardinality(T)
               /\ \A U \in SUBSET T : T # U => Cardinality(U) < Cardinality(T)
    <2>1. IsFiniteSet(T) /\ Cardinality(T) \in Nat
      BY FS_Subset, FS_CardinalityType
    <2>2. ASSUME NEW U \in SUBSET T
          PROVE  /\ Cardinality(U) \in Nat /\ Cardinality(U) <= Cardinality(T)
                 /\ Cardinality(T) = Cardinality(U) => T = U
      BY <2>1, FS_Subset, FS_CardinalityType
    <2>3. QED
      BY <2>1, <2>2
  <1>3. ASSUME NEW x \in S
        PROVE  Cardinality(Before(S, R, x)) \in K
    <2>1. Before(S, R, x) \in SUBSET S /\ S # Before(S, R, x)
      BY DEF Before, StrictOrder
    <2>2. Cardinality(Before(S, R, x)) < N /\ Cardinality(Before(S, R, x)) \in Nat
      BY <1>2, <2>1
    <2>3. QED
      BY <1>1, <2>2
  <1>4. ASSUME NEW x \in S, NEW y \in S, <<x, y>> \in R
        PROVE  Cardinality(Before(S, R, x)) < Cardinality(Before(S, R, y))
    <2>1. Before(S, R, x) \in SUBSET Before(S, R, y)
      BY <1>4 DEF Before, StrictOrder
    <2>2. Before(S, R, y) # Before(S, R, x)
      BY <1>4 DEF Before, StrictOrder
    <2>3. Before(S, R, y) \in SUBSET S
      BY DEF Before
    <2>4. QED
      BY <1>2, <2>1, <2>2, <2>3
  <1>5. ASSUME NEW x \in S, NEW y \in S,
               Cardinality(Before(S, R, x)) = Cardinality(Before(S, R, y))
        PROVE  x = y
    <2>1. /\ Cardinality(Before(S, R, x)) \in Int
          /\ Cardinality(Before(S, R, y)) \in Int
      BY <1>1, <1>3
    <2>2. ~ (<<x, y>> \in R) /\ ~ (<<y, x>> \in R)
      BY <1>4, <1>5, <2>1
    <2>3. QED
      BY <2>2 DEF StrictOrder
  <1>6. rank \in Injection(S, K)
    <2>1. rank \in [S -> K]
      BY <1>0, <1>3 DEF Ranking
    <2>2. \A x, y \in S : rank[x] = rank[y] => x = y
      BY <1>0, <1>5 DEF Ranking
    <2>3. DOMAIN rank = S
      BY <2>1
    <2>4. IsInjective(rank)
      BY <2>2, <2>3, Zenon DEF IsInjective
    <2>5. QED
      BY <2>1, <2>4, Zenon DEF Injection
  <1>7. IsFiniteSet(K) /\ Cardinality(K) = N
    BY <1>1, FS_Interval
  <1>8. rank \in Surjection(S, K)
    BY <1>6, <1>7, FS_Injection
  <1>9. \A n \in K : \E x \in S : rank[x] = n
    BY <1>8, Zenon DEF Surjection
  <1>10. \A x, y \in S : <<x, y>> \in R => rank[x] < rank[y]
    BY <1>0, <1>4 DEF Ranking
  <1>11. rank \in [S -> K] /\ \A x, y \in S : rank[x] = rank[y] => x = y
    BY <1>0, <1>3, <1>5 DEF Ranking
  <1>12. QED
    BY <1>0, <1>1, <1>9, <1>10, <1>11 DEF Numbers

\* A nonempty finite set of integers has a greatest element.
LEMMA GreatestOfFinite ==
    ASSUME NEW S \in SUBSET Int, IsFiniteSet(S), S # {}
    PROVE  \E x \in S : \A y \in S : x >= y
  <1>1. PICK Less : Less = {p \in S \X S : p[1] < p[2]}
    OBVIOUS
  <1>2. \A x, y \in S : <<x, y>> \in Less <=> x < y
    BY <1>1
  <1>3. StrictOrder(Less, S)
    BY <1>2 DEF StrictOrder
  <1>4. PICK rank, n : rank = Ranking(S, Less) /\ n = Cardinality(S)
    OBVIOUS
  <1>5. Numbers(rank, S, Less)
    BY <1>3, <1>4, RanksCount
  <1>6. n \in Nat /\ n # 0
    BY <1>4, FS_CardinalityType, FS_EmptySet
  <1>7. PICK x \in S : rank[x] = n - 1
    BY <1>4, <1>5, <1>6 DEF Numbers
  <1>8. ASSUME NEW y \in S
        PROVE  x >= y
    <2>1. rank[y] \in 0 .. n - 1
      BY <1>4, <1>5 DEF Numbers
    <2>2. <<x, y>> \in Less => rank[x] < rank[y]
      BY <1>5 DEF Numbers
    <2>3. ~ (x < y)
      BY <1>2, <1>6, <1>7, <2>1, <2>2
    <2>4. QED
      BY <2>3
  <1>9. QED
    BY <1>8

\* s lists the elements of S, each once.
Lists(s, S) ==
    /\ Cardinality(S) \in Nat
    /\ DOMAIN s = 1 .. Cardinality(S)
    /\ \A n \in DOMAIN s : s[n] \in S
    /\ \A x \in S : \E n \in DOMAIN s : s[n] = x
    /\ \A m, n \in DOMAIN s : s[m] = s[n] => m = n

\* The element of each rank, rank by rank, is the set in its order.
LEMMA ByRank ==
    ASSUME NEW S, IsFiniteSet(S), NEW R, StrictOrder(R, S),
           NEW s, DOMAIN s = 1 .. Cardinality(S),
           \A n \in DOMAIN s : s[n] \in S /\ Cardinality(Before(S, R, s[n])) = n - 1
    PROVE  /\ Lists(s, S)
           /\ \A m, n \in DOMAIN s : m < n => <<s[m], s[n]>> \in R
  <1>1. PICK rank, k : rank = Ranking(S, R) /\ k = Cardinality(S)
    OBVIOUS
  <1>2. Numbers(rank, S, R)
    BY <1>1, RanksCount
  <1>3. k \in Nat /\ DOMAIN s = 1 .. k
    BY <1>1, <1>2 DEF Numbers
  <1>4. \A n \in 1 .. k : s[n] \in S /\ rank[s[n]] = n - 1
    BY <1>1, <1>3 DEF Ranking
  <1>5. \A x \in S : \E n \in 1 .. k : s[n] = x
    <2>1. SUFFICES ASSUME NEW x \in S
                   PROVE  \E n \in 1 .. k : s[n] = x
      OBVIOUS
    <2>2. PICK r : r = rank[x] /\ r \in 0 .. k - 1
      BY <1>1, <1>2 DEF Numbers
    <2>3. PICK q : q = r + 1
      OBVIOUS
    <2>4. q \in 1 .. k /\ q - 1 = r
      BY <1>3, <2>2, <2>3
    <2>5. s[q] \in S /\ rank[s[q]] = r
      BY <1>4, <2>4, Zenon
    <2>6. s[q] = x
      BY <1>2, <2>2, <2>5, Zenon DEF Numbers
    <2>7. QED
      BY <2>4, <2>6
  <1>6. ASSUME NEW m \in 1 .. k, NEW n \in 1 .. k, s[m] = s[n]
        PROVE  m = n
    <2>1. m - 1 = n - 1
      BY <1>4, <1>6
    <2>2. QED
      BY <1>3, <2>1
  <1>7. ASSUME NEW m \in 1 .. k, NEW n \in 1 .. k, m < n
        PROVE  <<s[m], s[n]>> \in R
    <2>1. s[m] # s[n]
      BY <1>6, <1>7
    <2>2. PICK x \in S, y \in S : x = s[m] /\ y = s[n] /\ rank[x] = m - 1 /\ rank[y] = n - 1
      BY <1>4
    <2>3. <<y, x>> \in R => rank[y] < rank[x]
      BY <1>2 DEF Numbers
    <2>4. <<y, x>> \notin R
      BY <1>3, <1>7, <2>2, <2>3
    <2>5. QED
      BY <2>1, <2>2, <2>4, Zenon DEF StrictOrder
  <1>8. Lists(s, S)
    BY <1>1, <1>3, <1>4, <1>5, <1>6, Zenon DEF Lists
  <1>9. QED
    BY <1>3, <1>7, <1>8

Below(S, x) == {y \in S : y < x}

\* sorted() of a finite set of numbers lists it, the smaller ones first.
LEMMA SortedNumbers ==
    ASSUME NEW S \in SUBSET Nat, IsFiniteSet(S),
           NEW s, s = Ascending(S)
    PROVE  /\ Cardinality(S) \in Nat
           /\ s \in [1 .. Cardinality(S) -> S] /\ s \in Seq(S)
           /\ Len(s) = Cardinality(S)
           /\ \A i, j \in 1 .. Cardinality(S) : i < j => s[i] < s[j]
           /\ \A i \in 1 .. Cardinality(S) : Cardinality(Below(S, s[i])) = i - 1
           /\ \A x \in S : /\ Cardinality(Below(S, x)) + 1 \in 1 .. Cardinality(S)
                            /\ s[Cardinality(Below(S, x)) + 1] = x
  <1> DEFINE N == Cardinality(S)
  <1>0. PICK Less : Less = {p \in S \X S : p[1] < p[2]}
    OBVIOUS
  <1>1. StrictOrder(Less, S)
    <2>1. \A x, y \in S : <<x, y>> \in Less <=> x < y
      BY <1>0
    <2>2. QED
      BY <2>1 DEF StrictOrder
  <1>2. \A x \in S : Before(S, Less, x) = Below(S, x)
    BY <1>0 DEF Before, Below
  <1>3. /\ N \in Nat
        /\ \A x \in S : Cardinality(Below(S, x)) \in 0 .. N - 1
        /\ \A x, y \in S : Cardinality(Below(S, x)) = Cardinality(Below(S, y)) => x = y
        /\ \A n \in 0 .. N - 1 : \E x \in S : Cardinality(Below(S, x)) = n
        /\ \A x, y \in S : x < y => Cardinality(Below(S, x)) < Cardinality(Below(S, y))
    <2>1. PICK rank : rank = Ranking(S, Less)
      OBVIOUS
    <2>2. Numbers(rank, S, Less)
      BY <1>1, <2>1, RanksCount
    <2> DEFINE number(x) == Cardinality(Below(S, x))
    <2>3. \A x \in S : number(x) = rank[x]
      BY <1>2, <2>1 DEF Ranking
    <2>4. \A x, y \in S : x < y => <<x, y>> \in Less
      BY <1>0
    <2> HIDE DEF number
    <2>5. N \in Nat /\ \A x \in S : number(x) \in 0 .. N - 1
      BY <2>2, <2>3 DEF Numbers
    <2>6. \A x, y \in S : number(x) = number(y) => x = y
      BY <2>2, <2>3 DEF Numbers
    <2>7. \A n \in 0 .. N - 1 : \E x \in S : number(x) = n
      BY <2>2, <2>3 DEF Numbers
    <2>8. ASSUME NEW x \in S, NEW y \in S, x < y
          PROVE  number(x) < number(y)
      <3>1. rank[x] < rank[y]
        BY <2>2, <2>4, <2>8 DEF Numbers
      <3>2. QED
        BY <2>3, <3>1
    <2>9. QED
      BY <2>5, <2>6, <2>7, <2>8 DEF number
  <1>4. s = [n \in 1 .. N |-> CHOOSE x \in S : Cardinality(Below(S, x)) = n - 1]
    BY DEF Ascending, InOrder, Below
  <1>5. ASSUME NEW n \in 1 .. N
        PROVE  s[n] \in S /\ Cardinality(Below(S, s[n])) = n - 1
    <2>1. n - 1 \in 0 .. N - 1
      BY <1>3
    <2>2. \E x \in S : Cardinality(Below(S, x)) = n - 1
      BY <1>3, <2>1
    <2>3. s[n] = CHOOSE x \in S : Cardinality(Below(S, x)) = n - 1
      BY <1>4
    <2>4. QED
      BY <2>2, <2>3
  <1>6. s \in [1 .. N -> S]
    BY <1>4, <1>5
  <1>7. s \in Seq(S) /\ Len(s) = N
    BY <1>3, <1>6
  <1>8. ASSUME NEW i \in 1 .. N, NEW j \in 1 .. N, i < j
        PROVE  s[i] < s[j]
    <2>1. /\ s[i] \in S /\ s[j] \in S
          /\ Cardinality(Below(S, s[i])) = i - 1 /\ Cardinality(Below(S, s[j])) = j - 1
      BY <1>5
    <2>2. s[i] # s[j] /\ ~ (s[j] < s[i])
      <3>1. s[j] < s[i] => Cardinality(Below(S, s[j])) < Cardinality(Below(S, s[i]))
        BY <1>3, <2>1
      <3>2. QED
        BY <1>3, <1>8, <2>1, <3>1
    <2>3. s[i] \in Nat /\ s[j] \in Nat
      BY <2>1
    <2>4. QED
      BY <2>2, <2>3
  <1>9. ASSUME NEW x \in S
        PROVE  /\ Cardinality(Below(S, x)) + 1 \in 1 .. N
               /\ s[Cardinality(Below(S, x)) + 1] = x
    <2>1. PICK n \in Nat : n = Cardinality(Below(S, x)) /\ n \in 0 .. N - 1
      BY <1>3
    <2>2. n + 1 \in 1 .. N
      BY <1>3, <2>1
    <2>3. s[n + 1] \in S /\ Cardinality(Below(S, s[n + 1])) = n
      BY <1>5, <2>2, <2>1
    <2>4. s[n + 1] = x
      BY <1>3, <2>1, <2>3
    <2>5. QED
      BY <2>1, <2>2, <2>4
  <1>10. QED
    BY <1>3, <1>5, <1>6, <1>7, <1>8, <1>9

\* A new greatest number comes last.
LEMMA SortedAppend ==
    ASSUME NEW S \in SUBSET Nat, IsFiniteSet(S), NEW m \in Nat, \A x \in S : x < m,
           NEW s, s = Ascending(S), NEW t, t = Ascending(S \cup {m})
    PROVE  /\ IsFiniteSet(S \cup {m})
           /\ Cardinality(S \cup {m}) = Cardinality(S) + 1
           /\ \A i \in 1 .. Cardinality(S) : t[i] = s[i]
           /\ t[Cardinality(S) + 1] = m
  <1>1. PICK U : U = S \cup {m}
    OBVIOUS
  <1>2. U \in SUBSET Nat /\ m \in U /\ \A x \in U : x \in S \/ x = m
    BY <1>1
  <1>3. m \notin S
    OBVIOUS
  <1>4. IsFiniteSet(U) /\ Cardinality(U) = Cardinality(S) + 1
    BY <1>1, <1>3, FS_AddElement
  <1>5. PICK n : n = Cardinality(S)
    OBVIOUS
  <1>6. /\ n \in Nat
        /\ \A i \in 1 .. n : s[i] \in S /\ Cardinality(Below(S, s[i])) = i - 1
    BY <1>5, SortedNumbers
  <1>7. \A x \in U : t[Cardinality(Below(U, x)) + 1] = x
    BY <1>1, <1>2, <1>4, SortedNumbers
  <1>8. ASSUME NEW i \in 1 .. n
        PROVE  t[i] = s[i]
    <2>1. PICK x \in S : x = s[i] /\ Cardinality(Below(S, x)) = i - 1
      BY <1>6
    <2>2. Below(U, x) = Below(S, x)
      BY <1>1 DEF Below
    <2>3. t[i - 1 + 1] = x
      BY <1>1, <1>7, <2>1, <2>2
    <2>4. i - 1 + 1 = i
      BY <1>6
    <2>5. QED
      BY <2>1, <2>3, <2>4
  <1>9. Below(U, m) = S
    <2>1. ~ (m < m)
      OBVIOUS
    <2>2. \A x : x \in Below(U, m) <=> x \in S
      BY <1>1, <1>2, <2>1, Zenon DEF Below
    <2>3. QED
      BY <2>2
  <1>10. t[n + 1] = m
    BY <1>2, <1>5, <1>7, <1>9
  <1>11. QED
    BY <1>1, <1>4, <1>5, <1>8, <1>10

\* What is left of a set above some bound is the end of its sorted sequence.
LEMMA SortedSuffix ==
    ASSUME NEW S \in SUBSET Nat, IsFiniteSet(S), NEW T \in SUBSET S,
           \A x \in T, y \in S \ T : y < x,
           NEW s, s = Ascending(S), NEW t, t = Ascending(T),
           NEW p, p = Cardinality(S \ T)
    PROVE  /\ p \in Nat /\ Cardinality(T) \in Nat
           /\ Cardinality(S) = p + Cardinality(T)
           /\ \A i \in 1 .. Cardinality(T) : t[i] = s[p + i]
           /\ \A i \in 1 .. Cardinality(S) : s[i] \in T <=> i > p
  <1>1. IsFiniteSet(T) /\ IsFiniteSet(S \ T) /\ T \in SUBSET Nat
    BY FS_Subset
  <1>2. ASSUME NEW A \in SUBSET T
        PROVE  Cardinality(A) \in Nat /\ Cardinality((S \ T) \cup A) = p + Cardinality(A)
    <2>1. IsFiniteSet(A) /\ Cardinality(A) \in Nat /\ p \in Nat
      BY <1>1, FS_Subset, FS_CardinalityType
    <2>2. (S \ T) \cap A = {}
      OBVIOUS
    <2>3. Cardinality((S \ T) \cap A) = 0
      BY <2>2, FS_EmptySet
    <2>4. Cardinality((S \ T) \cup A) = p + Cardinality(A) - 0
      BY <1>1, <2>1, <2>3, FS_Union
    <2>5. QED
      BY <2>1, <2>4
  <1>3. PICK m, n : m = Cardinality(T) /\ n = Cardinality(S)
    OBVIOUS
  <1>4. p \in Nat /\ m \in Nat /\ n = p + m
    <2>1. (S \ T) \cup T = S
      OBVIOUS
    <2>2. p \in Nat /\ m \in Nat
      BY <1>1, <1>3, FS_CardinalityType
    <2>3. QED
      BY <1>2, <1>3, <2>1, <2>2
  <1>5. ASSUME NEW x \in T
        PROVE  Cardinality(Below(S, x)) = p + Cardinality(Below(T, x))
    <2>1. Below(T, x) \in SUBSET T /\ Below(S, x) = (S \ T) \cup Below(T, x)
      BY DEF Below
    <2>2. QED
      BY <1>2, <2>1
  <1>6. /\ \A i \in 1 .. n : s[i] \in S /\ Cardinality(Below(S, s[i])) = i - 1
        /\ \A x \in S : s[Cardinality(Below(S, x)) + 1] = x
    BY <1>3, SortedNumbers
  <1>7. \A i \in 1 .. m : t[i] \in T /\ Cardinality(Below(T, t[i])) = i - 1
    BY <1>1, <1>3, SortedNumbers
  <1>8. ASSUME NEW i \in 1 .. m
        PROVE  t[i] = s[p + i] /\ t[i] \in T
    <2>1. PICK x \in T : x = t[i] /\ Cardinality(Below(T, x)) = i - 1
      BY <1>7
    <2>2. Cardinality(Below(S, x)) + 1 = p + i
      BY <1>4, <1>5, <2>1
    <2>3. s[Cardinality(Below(S, x)) + 1] = x
      BY <1>6
    <2>4. QED
      BY <2>1, <2>2, <2>3
  <1>9. ASSUME NEW i \in 1 .. n
        PROVE  s[i] \in T <=> i > p
    <2>1. CASE i > p
      <3>1. i - p \in 1 .. m /\ p + (i - p) = i
        BY <1>4, <2>1
      <3>2. t[i - p] = s[p + (i - p)] /\ t[i - p] \in T
        BY <1>8, <3>1
      <3>3. QED
        BY <2>1, <3>1, <3>2
    <2>2. CASE ~ (i > p)
      <3>1. SUFFICES ASSUME s[i] \in T PROVE FALSE
        BY <2>2
      <3>2. PICK x \in T : x = s[i] /\ Cardinality(Below(S, x)) = i - 1
        BY <1>6, <3>1
      <3>3. PICK r : r = Cardinality(Below(T, x))
        OBVIOUS
      <3>4. r \in Nat
        <4>1. Below(T, x) \in SUBSET T
          BY DEF Below
        <4>2. QED
          BY <1>2, <3>3, <4>1
      <3>5. i - 1 = p + r
        BY <1>5, <3>2, <3>3
      <3>6. QED
        BY <1>4, <2>2, <3>4, <3>5
    <2>3. QED
      BY <2>1, <2>2
  <1>10. QED
    BY <1>3, <1>4, <1>8, <1>9
=============================================================================
