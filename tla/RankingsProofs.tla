--------------------------- MODULE RankingsProofs ---------------------------
(* Rows in order, and the sums of their sizes: facts about finite sets of   *)
(* rows that hold whatever the rows are.  Induction is over a set of        *)
(* numbers and not over a predicate.                                        *)
EXTENDS Rankings, FiniteSetTheorems, TLAPS

LEMMA LeastMember ==
  ASSUME NEW S, S \subseteq Nat, S # {}
  PROVE  \E m \in S : \A n \in S : m <= n
<1> DEFINE Rel == {ss \in Nat \X Nat : ss[1] < ss[2]}
<1>1. Rel = OpToRel(<, Nat)
  BY Zenon DEF OpToRel
<1>2. IsWellFoundedOn(Rel, Nat)
  BY <1>1, NatLessThanWellFounded, Zenon
<1>3. \A a, b \in Nat : <<a, b>> \in Rel <=> a < b
  OBVIOUS
<1> HIDE DEF Rel
<1>4. PICK m \in S : \A n \in S : <<n, m>> \notin Rel
  BY <1>2, WFMin
<1>5. \A n \in S : ~ (n < m)
  BY <1>3, <1>4
<1> QED BY <1>5

LEMMA EveryNumber ==
  ASSUME NEW P, 0 \in P, \A n \in Nat : n \in P => n + 1 \in P
  PROVE  Nat \subseteq P
<1> SUFFICES ASSUME Nat \ P # {} PROVE FALSE
  OBVIOUS
<1>1. PICK m \in Nat \ P : \A n \in Nat \ P : m <= n
  BY LeastMember
<1>2. m # 0 /\ m - 1 \in Nat /\ m = (m - 1) + 1 /\ ~ (m <= m - 1)
  BY <1>1
<1>3. m - 1 \in P
  BY <1>1, <1>2
<1> QED BY <1>1, <1>2, <1>3

-----------------------------------------------------------------------------
(* Sums.                                                                    *)

LEMMA RunningSumFacts ==
  ASSUME NEW m \in Nat, NEW size, \A n \in 1 .. m : size[n] \in Nat
  PROVE  /\ RunningSum(size, m) \in [0 .. m -> Nat]
         /\ RunningSum(size, m)[0] = 0
         /\ \A n \in 1 .. m : RunningSum(size, m)[n] = RunningSum(size, m)[n - 1] + size[n]
<1> DEFINE Sums(f, k) == /\ f \in [0 .. k -> Nat] /\ f[0] = 0
                         /\ \A n \in 1 .. k : f[n] = f[n - 1] + size[n]
           P == {k \in Nat : k <= m => \E f : Sums(f, k)}
<1>1. 0 \in P
  <2>1. Sums([n \in 0 .. 0 |-> 0], 0)
    OBVIOUS
  <2> QED BY <2>1
<1>2. ASSUME NEW k \in Nat, k \in P PROVE k + 1 \in P
  <2> SUFFICES ASSUME k + 1 <= m PROVE \E f : Sums(f, k + 1)
    OBVIOUS
  <2>1. PICK f : Sums(f, k)
    BY <1>2
  <2> DEFINE g == [n \in 0 .. k + 1 |-> IF n = k + 1 THEN f[k] + size[k + 1] ELSE f[n]]
  <2>2. f[k] \in Nat /\ size[k + 1] \in Nat
    BY <2>1
  <2>3. g \in [0 .. k + 1 -> Nat] /\ g[0] = 0
    BY <2>1, <2>2
  <2>4. \A n \in 1 .. k + 1 : g[n] = g[n - 1] + size[n]
    BY <2>1, <2>2
  <2> HIDE DEF g
  <2>5. Sums(g, k + 1)
    BY <2>3, <2>4
  <2> QED BY <2>5
<1>3. m \in P
  <2> HIDE DEF P
  <2>1. Nat \subseteq P
    BY <1>1, <1>2, EveryNumber
  <2> QED BY <2>1
<1>4. PICK f : Sums(f, m)
  <2>1. m <= m => \E f : Sums(f, m)
    BY <1>3
  <2> HIDE DEF Sums
  <2> QED BY <2>1
<1>5. f = [n \in 0 .. m |-> IF n = 0 THEN 0 ELSE f[n - 1] + size[n]]
  BY <1>4
<1> DEFINE sum == CHOOSE s : s = [n \in 0 .. m |-> IF n = 0 THEN 0 ELSE s[n - 1] + size[n]]
<1>6. sum = [n \in 0 .. m |-> IF n = 0 THEN 0 ELSE sum[n - 1] + size[n]]
  BY <1>5
<1>7. RunningSum(size, m) = sum
  BY DEF RunningSum
<1> HIDE DEF sum
<1>8. sum[0] = 0 /\ \A n \in 1 .. m : sum[n] = sum[n - 1] + size[n]
  BY <1>6
<1>9. \A n \in 0 .. m : sum[n] \in Nat
  <2> DEFINE Q == {k \in Nat : k <= m => sum[k] \in Nat}
  <2>1. 0 \in Q
    BY <1>8
  <2>2. \A k \in Nat : k \in Q => k + 1 \in Q
    BY <1>8
  <2> HIDE DEF Q
  <2>3. Nat \subseteq Q
    BY <2>1, <2>2, EveryNumber
  <2> QED BY <2>3 DEF Q
<1>10. DOMAIN sum = 0 .. m /\ sum = [n \in DOMAIN sum |-> sum[n]]
  BY <1>6
<1> QED BY <1>7, <1>8, <1>9, <1>10

\* One more size is counted.
LEMMA OneMore ==
  ASSUME NEW m \in Nat, NEW x \in 1 .. m, NEW f, NEW g,
         \A n \in 1 .. m : f[n] \in Nat /\ g[n] \in Nat,
         \A n \in (1 .. m) \ {x} : g[n] = f[n], f[x] = 0
  PROVE  RunningSum(g, m)[m] = RunningSum(f, m)[m] + g[x]
<1> DEFINE A == RunningSum(f, m)
           B == RunningSum(g, m)
<1>1. A \in [0 .. m -> Nat] /\ A[0] = 0 /\ \A n \in 1 .. m : A[n] = A[n - 1] + f[n]
  BY RunningSumFacts
<1>2. B \in [0 .. m -> Nat] /\ B[0] = 0 /\ \A n \in 1 .. m : B[n] = B[n - 1] + g[n]
  BY RunningSumFacts
<1> HIDE DEF A, B
<1> DEFINE P == {n \in Nat : n <= m => B[n] = IF n < x THEN A[n] ELSE A[n] + g[x]}
<1>3. 0 \in P
  BY <1>1, <1>2
<1>4. ASSUME NEW n \in Nat, n \in P PROVE n + 1 \in P
  <2> SUFFICES ASSUME n + 1 <= m
               PROVE  B[n + 1] = IF n + 1 < x THEN A[n + 1] ELSE A[n + 1] + g[x]
    OBVIOUS
  <2>1. B[n + 1] = B[n] + g[n + 1] /\ A[n + 1] = A[n] + f[n + 1]
    BY <1>1, <1>2
  <2>2. A[n] \in Nat /\ B[n] \in Nat /\ f[n + 1] \in Nat /\ g[n + 1] \in Nat /\ g[x] \in Nat
    BY <1>1, <1>2
  <2>3. B[n] = IF n < x THEN A[n] ELSE A[n] + g[x]
    BY <1>4
  <2>4. CASE n + 1 = x
    BY <2>1, <2>2, <2>3, <2>4
  <2>5. CASE n + 1 # x
    <3>1. g[n + 1] = f[n + 1]
      BY <2>5
    <3> QED BY <2>1, <2>2, <2>3, <2>5, <3>1
  <2> QED BY <2>4, <2>5
<1> HIDE DEF P
<1>5. Nat \subseteq P
  BY <1>3, <1>4, EveryNumber
<1>6. B[m] = A[m] + g[x]
  BY <1>5 DEF P
<1> QED BY <1>6 DEF A, B

\* Nothing adds up to nothing.
LEMMA NoSizes ==
  ASSUME NEW m \in Nat, NEW f, \A n \in 1 .. m : f[n] = 0
  PROVE  RunningSum(f, m)[m] = 0
<1> DEFINE A == RunningSum(f, m)
<1>1. A[0] = 0 /\ \A n \in 1 .. m : A[n] = A[n - 1] + f[n]
  BY RunningSumFacts
<1> HIDE DEF A
<1> DEFINE P == {n \in Nat : n <= m => A[n] = 0}
<1>2. 0 \in P
  BY <1>1
<1>3. \A n \in Nat : n \in P => n + 1 \in P
  BY <1>1
<1> HIDE DEF P
<1>4. Nat \subseteq P
  BY <1>2, <1>3, EveryNumber
<1>5. A[m] = 0
  BY <1>4 DEF P
<1> QED BY <1>5 DEF A

-----------------------------------------------------------------------------
(* A finite set in a strict total order: every member has its place, and    *)
(* the places follow the order.                                             *)

Ordered(S, R) ==
  /\ IsFiniteSet(S)
  /\ \A i \in S : <<i, i>> \notin R
  /\ \A i, j, k \in S : <<i, j>> \in R /\ <<j, k>> \in R => <<i, k>> \in R
  /\ \A i, j \in S : i = j \/ <<i, j>> \in R \/ <<j, i>> \in R

LEMMA InOrderFacts ==
  ASSUME NEW S, NEW R, Ordered(S, R)
  PROVE  /\ Cardinality(S) \in Nat
         /\ InOrder(S, R) \in [1 .. Cardinality(S) -> S]
         /\ \A n, m \in 1 .. Cardinality(S) : n < m => <<InOrder(S, R)[n], InOrder(S, R)[m]>> \in R
         /\ \A i \in S : \E n \in 1 .. Cardinality(S) : InOrder(S, R)[n] = i
<1> DEFINE N == Cardinality(S)
           First(i) == {j \in S : <<j, i>> \in R}
           rank == [i \in S |-> Cardinality(First(i)) + 1]
           order == InOrder(S, R)
<1>0. /\ IsFiniteSet(S) /\ \A i \in S : <<i, i>> \notin R
      /\ \A i, j, k \in S : <<i, j>> \in R /\ <<j, k>> \in R => <<i, k>> \in R
      /\ \A i, j \in S : i = j \/ <<i, j>> \in R \/ <<j, i>> \in R
  BY DEF Ordered
<1>1. N \in Nat
  BY <1>0, FS_CardinalityType
<1>2. \A i \in S : Cardinality(First(i)) \in Nat /\ rank[i] \in 1 .. N
  <2> TAKE i \in S
  <2>1. First(i) \in SUBSET S /\ i \notin First(i)
    BY <1>0
  <2>2. IsFiniteSet(First(i)) /\ Cardinality(First(i)) <= N /\ (N = Cardinality(First(i)) => S = First(i))
    BY <1>0, <2>1, FS_Subset
  <2>3. Cardinality(First(i)) \in Nat
    BY <2>2, FS_CardinalityType
  <2>4. N # Cardinality(First(i))
    BY <2>1, <2>2
  <2> HIDE DEF First, N
  <2> QED BY <1>1, <2>2, <2>3, <2>4
<1>3. \A i, j \in S : <<i, j>> \in R => rank[i] < rank[j]
  <2> SUFFICES ASSUME NEW i \in S, NEW j \in S, <<i, j>> \in R PROVE rank[i] < rank[j]
    OBVIOUS
  <2>1. First(i) \in SUBSET First(j) /\ i \in First(j) /\ i \notin First(i)
    BY <1>0
  <2>2. First(j) \in SUBSET S
    OBVIOUS
  <2>3. IsFiniteSet(First(j))
    BY <1>0, <2>2, FS_Subset
  <2>4. /\ Cardinality(First(i)) <= Cardinality(First(j))
        /\ Cardinality(First(j)) = Cardinality(First(i)) => First(j) = First(i)
    BY <2>1, <2>3, FS_Subset
  <2>5. Cardinality(First(j)) # Cardinality(First(i))
    BY <2>1, <2>4
  <2>6. rank[i] = Cardinality(First(i)) + 1 /\ rank[j] = Cardinality(First(j)) + 1
    OBVIOUS
  <2> HIDE DEF First, rank
  <2> QED BY <1>2, <2>4, <2>5, <2>6
<1>4. rank \in [S -> 1 .. N] /\ \A i, j \in S : rank[i] = rank[j] => i = j
  <2>1. rank \in [S -> 1 .. N]
    BY <1>2
  <2>2. \A i \in S : rank[i] \in Int
    BY <1>1, <1>2
  <2> HIDE DEF rank, First, N
  <2>3. ASSUME NEW i \in S, NEW j \in S, rank[i] = rank[j], i # j PROVE FALSE
    <3>1. <<i, j>> \in R \/ <<j, i>> \in R
      BY <1>0, <2>3
    <3>2. rank[i] < rank[j] \/ rank[j] < rank[i]
      BY <1>3, <3>1
    <3> QED BY <2>2, <2>3, <3>2
  <2> QED BY <2>1, <2>3
<1>5. \A n \in 1 .. N : \E i \in S : rank[i] = n
  <2> HIDE DEF rank
  <2>1. rank \in Injection(S, 1 .. N)
    BY <1>4 DEF Injection, IsInjective
  <2>2. IsFiniteSet(1 .. N) /\ Cardinality(1 .. N) = N
    BY <1>1, FS_Interval
  <2>3. rank \in Surjection(S, 1 .. N)
    BY <2>1, <2>2, FS_Injection
  <2> QED BY <2>3 DEF Surjection
<1>6. \A n \in 1 .. N : order[n] \in S /\ rank[order[n]] = n
  <2> TAKE n \in 1 .. N
  <2>1. order[n] = CHOOSE i \in S : Cardinality(First(i)) = n - 1
    BY DEF InOrder
  <2>2. \E i \in S : Cardinality(First(i)) = n - 1
    <3>1. PICK i \in S : rank[i] = n
      BY <1>5
    <3>2. Cardinality(First(i)) + 1 = n
      BY <3>1
    <3> HIDE DEF First
    <3> QED BY <1>2, <3>2
  <2> HIDE DEF First
  <2>3. order[n] \in S /\ Cardinality(First(order[n])) = n - 1
    BY <2>1, <2>2
  <2> QED BY <1>1, <2>3
<1>7. DOMAIN order = 1 .. N /\ order = [n \in DOMAIN order |-> order[n]]
  <2> DEFINE At(n) == CHOOSE i \in S : Cardinality({j \in S : <<j, i>> \in R}) = n - 1
  <2>1. order = [n \in 1 .. N |-> At(n)]
    BY DEF InOrder
  <2> HIDE DEF At, order
  <2> QED BY <2>1
<1> HIDE DEF order, rank, N
<1>8. order \in [1 .. N -> S]
  BY <1>6, <1>7
<1>9. \A n, m \in 1 .. N : n < m => <<order[n], order[m]>> \in R
  <2> SUFFICES ASSUME NEW n \in 1 .. N, NEW m \in 1 .. N, n < m
               PROVE  <<order[n], order[m]>> \in R
    OBVIOUS
  <2>1. /\ order[n] \in S /\ rank[order[n]] = n /\ order[m] \in S /\ rank[order[m]] = m
        /\ n \in Int /\ m \in Int
    BY <1>1, <1>6
  <2>2. order[n] # order[m]
    BY <2>1
  <2>3. <<order[m], order[n]>> \notin R
    BY <1>3, <2>1
  <2> QED BY <1>0, <2>1, <2>2, <2>3
<1>10. \A i \in S : \E n \in 1 .. N : order[n] = i
  BY <1>4, <1>6
<1> QED BY <1>1, <1>8, <1>9, <1>10 DEF order, N
=============================================================================
