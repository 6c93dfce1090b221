---------------------------- MODULE TotalsProofs -----------------------------
(***************************************************************************)
(* What a total is, for any finite set: how it changes when one number     *)
(* does, and that it is monotonic.  No induction: a number is counted by   *)
(* as many pairs.  And that a recursive function on 0..n exists and is     *)
(* unique, by the least number where it would not be.  And that sorting by *)
(* rank lists a finite set in a strict order.                              *)
(***************************************************************************)
EXTENDS Totals, Integers, FiniteSetTheorems, TLAPS

LEMMA PairsAre ==
    ASSUME NEW S, NEW f \in [S -> Nat]
    PROVE  Pairs(f) = {p \in S \X Nat : p[2] \in 1..f[p[1]]}
<1>1. ASSUME NEW p, p \in Pairs(f)
      PROVE  p \in S \X Nat /\ p[2] \in 1..f[p[1]]
  <2>1. PICK x \in S : p \in {x} \X (1..f[x])
    BY <1>1 DEF Pairs
  <2> QED BY <2>1
<1>2. ASSUME NEW p \in S \X Nat, p[2] \in 1..f[p[1]]
      PROVE  p \in Pairs(f)
  <2>1. p[1] \in S /\ p \in {p[1]} \X (1..f[p[1]])
    BY <1>2
  <2> QED BY <2>1 DEF Pairs
<1> QED BY <1>1, <1>2

LEMMA PairsFinite ==
    ASSUME NEW S, IsFiniteSet(S), NEW f \in [S -> Nat]
    PROVE  IsFiniteSet(Pairs(f)) /\ Total(f) \in Nat
<1> DEFINE row == [x \in S |-> {x} \X (1..f[x])]
           rows == {row[x] : x \in S}
<1>1. row \in Surjection(S, rows)
  BY DEF Surjection
<1>2. IsFiniteSet(rows)
  BY <1>1, FS_Surjection
<1>3. ASSUME NEW x \in S PROVE IsFiniteSet(row[x])
  <2>1. f[x] \in Int /\ 1 \in Int
    OBVIOUS
  <2>2. IsFiniteSet({x}) /\ IsFiniteSet(1..f[x])
    BY <2>1, FS_Singleton, FS_Interval, Zenon
  <2> QED BY <2>2, FS_Product
<1>4. Pairs(f) = UNION rows
  BY DEF Pairs
<1>5. IsFiniteSet(UNION rows)
  <2> HIDE DEF row
  <2>1. \A r \in rows : IsFiniteSet(r)
    BY <1>3
  <2> QED BY <1>2, <2>1, FS_UNION
<1> QED BY <1>4, <1>5, FS_CardinalityType DEF Total

\* One number grows.
LEMMA TotalAdds ==
    ASSUME NEW S, IsFiniteSet(S), NEW f \in [S -> Nat], NEW x \in S, NEW n \in Nat,
           NEW g \in [S -> Nat], g[x] = f[x] + n, \A y \in S \ {x} : g[y] = f[y]
    PROVE  Total(g) = Total(f) + n
<1> DEFINE more == {x} \X ((f[x] + 1)..(f[x] + n))
<1>1. IsFiniteSet((f[x] + 1)..(f[x] + n)) /\ Cardinality((f[x] + 1)..(f[x] + n)) = n
  <2> DEFINE a == f[x] + 1
             b == f[x] + n
  <2>1. a \in Int /\ b \in Int /\ (IF a > b THEN 0 ELSE b - a + 1) = n
    OBVIOUS
  <2> HIDE DEF a, b
  <2>2. IsFiniteSet(a..b) /\ Cardinality(a..b) = n
    BY <2>1, FS_Interval
  <2> QED BY <2>2 DEF a, b
<1>2. IsFiniteSet({x}) /\ Cardinality({x}) = 1
  BY FS_Singleton
<1>3. IsFiniteSet(more) /\ Cardinality(more) = n
  <2> DEFINE one == {x}
             new == (f[x] + 1)..(f[x] + n)
  <2>1. /\ IsFiniteSet(new) /\ Cardinality(new) = n
        /\ IsFiniteSet(one) /\ Cardinality(one) = 1
    BY <1>1, <1>2
  <2> HIDE DEF one, new
  <2>2. IsFiniteSet(one \X new) /\ Cardinality(one \X new) = 1 * n
    BY <2>1, FS_Product
  <2>3. 1 * n = n
    OBVIOUS
  <2> QED BY <2>2, <2>3 DEF one, new
<1>4. Pairs(g) = Pairs(f) \cup more
  BY PairsAre
<1>5. Pairs(f) \cap more = {}
  BY PairsAre
<1>6. IsFiniteSet(Pairs(f)) /\ Cardinality(Pairs(f)) \in Nat
  BY PairsFinite, FS_CardinalityType
<1> HIDE DEF more
<1>7. Cardinality(Pairs(f) \cap more) = 0
  BY <1>5, FS_EmptySet
<1>8. Cardinality(Pairs(g)) = Cardinality(Pairs(f)) + n
  BY <1>3, <1>4, <1>6, <1>7, FS_Union
<1> QED BY <1>8 DEF Total

\* Several numbers grow.
LEMMA TotalGrows ==
    ASSUME NEW S, IsFiniteSet(S), NEW f \in [S -> Nat], NEW g \in [S -> Nat],
           \A x \in S : f[x] <= g[x]
    PROVE  Total(f) <= Total(g)
<1>1. Pairs(f) \subseteq Pairs(g)
  BY PairsAre
<1>2. IsFiniteSet(Pairs(g))
  BY PairsFinite
<1> QED BY <1>1, <1>2, FS_Subset DEF Total

LEMMA TotalZero ==
    ASSUME NEW S, NEW f \in [S -> Nat], \A x \in S : f[x] = 0
    PROVE  Total(f) = 0
<1>1. Pairs(f) = {}
  BY PairsAre
<1> QED BY <1>1, FS_EmptySet DEF Total

\* One number changes.
LEMMA TotalSets ==
    ASSUME NEW S, IsFiniteSet(S), NEW f \in [S -> Nat], NEW g \in [S -> Nat], NEW x \in S,
           \A y \in S \ {x} : g[y] = f[y]
    PROVE  Total(g) + f[x] = Total(f) + g[x]
<1> DEFINE h == [f EXCEPT ![x] = f[x] + g[x]]
<1>1. h \in [S -> Nat] /\ h[x] = f[x] + g[x] /\ \A y \in S \ {x} : h[y] = f[y]
  OBVIOUS
<1> HIDE DEF h
<1>2. g[x] \in Nat /\ f[x] \in Nat /\ h[x] = g[x] + f[x] /\ \A y \in S \ {x} : h[y] = g[y]
  BY <1>1
<1>3. Total(h) = Total(f) + g[x]
  BY <1>1, <1>2, TotalAdds
<1>4. Total(h) = Total(g) + f[x]
  BY <1>1, <1>2, TotalAdds
<1> QED BY <1>3, <1>4

-----------------------------------------------------------------------------
(* Naturals and recursive functions.                                       *)

LEMMA LeastOf ==
  ASSUME NEW B \in SUBSET Nat, B # {}
  PROVE  \E b \in B : \A c \in B : b <= c
<1>1. PICK m \in B : TRUE
  OBVIOUS
<1> DEFINE below == {c \in B : c <= m}
           upto == [c \in below |-> 0..c]
           U == {upto[c] : c \in below}
<1>2. IsWellFoundedOn(StrictSubsetOrdering(0..m), SUBSET (0..m))
  <2>1. IsFiniteSet(0..m)
    BY <1>1, FS_Interval
  <2> QED
    BY <2>1, FS_StrictSubsetOrderingWellFounded, FS_FiniteSubsetsOfFinite
<1>3. U \subseteq SUBSET (0..m) /\ U # {}
  BY <1>1
<1>4. PICK x \in U : \A y \in U : <<y, x>> \notin StrictSubsetOrdering(0..m)
  <2> HIDE DEF U
  <2> QED
    BY <1>2, <1>3, WFMin
<1>5. PICK b \in below : x = 0..b
  BY <1>4
<1>6. ASSUME NEW c \in B, c < b PROVE FALSE
  <2>1. c \in below /\ 0..c \in U
    BY <1>5, <1>6
  <2>2. 0..c \subseteq 0..m /\ x \subseteq 0..m /\ 0..c \subseteq x /\ 0..c # x
    <3>1. b \in 0..b /\ b \notin 0..c
      BY <1>5, <1>6
    <3> QED
      BY <1>5, <1>6, <2>1, <3>1
  <2> QED
    BY <1>4, <2>1, <2>2 DEF StrictSubsetOrdering
<1> QED
  BY <1>5, <1>6

\* A finite set has a first element in any order where all can be compared.
LEMMA FirstOf ==
  ASSUME NEW S, IsFiniteSet(S), S # {}, NEW R,
         \A x, y \in S : <<x, y>> \in R \/ <<y, x>> \in R,
         \A x, y, z \in S : <<x, y>> \in R /\ <<y, z>> \in R => <<x, z>> \in R
  PROVE  \E b \in S : \A c \in S : <<b, c>> \in R
<1> DEFINE upto == [b \in S |-> {c \in S : <<c, b>> \in R}]
           U == {upto[b] : b \in S}
<1>1. IsWellFoundedOn(StrictSubsetOrdering(S), SUBSET S)
  BY FS_StrictSubsetOrderingWellFounded, FS_FiniteSubsetsOfFinite
<1>2. U \subseteq SUBSET S /\ U # {}
  OBVIOUS
<1>3. PICK x \in U : \A y \in U : <<y, x>> \notin StrictSubsetOrdering(S)
  <2> HIDE DEF U
  <2> QED
    BY <1>1, <1>2, WFMin
<1>4. PICK b \in S : x = upto[b]
  BY <1>3
<1>5. ASSUME NEW c \in S, <<b, c>> \notin R PROVE FALSE
  <2>1. upto[c] \in U /\ <<c, b>> \in R
    BY <1>4, <1>5
  <2>2. upto[c] \subseteq upto[b] /\ b \in upto[b] /\ b \notin upto[c]
    BY <1>4, <1>5, <2>1
  <2>3. upto[c] \subseteq S /\ x \subseteq S /\ upto[c] \subseteq x /\ upto[c] # x
    BY <1>4, <2>2
  <2> QED
    BY <1>3, <2>1, <2>3 DEF StrictSubsetOrdering
<1> QED
  BY <1>4, <1>5

\* What agrees at first, and then whenever it did before, agrees.
LEMMA Agreement ==
  ASSUME NEW n \in Nat, NEW f, NEW g, f[0] = g[0],
         \A i \in 1..n : f[i - 1] = g[i - 1] => f[i] = g[i]
  PROVE  \A i \in 0..n : f[i] = g[i]
<1> DEFINE Different == {i \in 0..n : f[i] # g[i]}
<1>1. SUFFICES ASSUME Different # {} PROVE FALSE
  OBVIOUS
<1>2. PICK b \in Different : \A c \in Different : b <= c
  <2>1. Different \in SUBSET Nat
    OBVIOUS
  <2> HIDE DEF Different
  <2> QED
    BY <1>1, <2>1, LeastOf
<1>3. b \in 1..n /\ b - 1 \in 0..n /\ b - 1 \notin Different
  BY <1>2
<1> QED
  BY <1>3

\* A walk of n steps in S from a first place, where step[i] says where the i-th leads.
Walk(f, n, S, first, step) ==
    /\ f \in [0..n -> S]
    /\ f[0] = first
    /\ \A i \in 1..n : f[i] = step[i][f[i - 1]]

\* There is always one.
LEMMA Recursion ==
  ASSUME NEW n \in Nat, NEW S, NEW first, first \in S,
         NEW step, step \in [1..n -> [S -> S]]
  PROVE  \E f : Walk(f, n, S, first, step)
<1> DEFINE Reaches(m) == \E f : Walk(f, m, S, first, step)
           Without == {m \in 0..n : ~ Reaches(m)}
<1>1. Reaches(0)
  <2>1. Walk([i \in {0} |-> first], 0, S, first, step)
    BY DEF Walk
  <2> QED
    BY <2>1
<1>2. ASSUME NEW b \in 1..n, Reaches(b - 1) PROVE Reaches(b)
  <2>1. PICK f : Walk(f, b - 1, S, first, step)
    BY <1>2
  <2> DEFINE g == [i \in 0..b |-> IF i = b THEN step[b][f[b - 1]] ELSE f[i]]
  <2>2. step[b][f[b - 1]] \in S
    BY <1>2, <2>1 DEF Walk
  <2>3. g \in [0..b -> S] /\ g[0] = first
    BY <1>2, <2>1, <2>2 DEF Walk
  <2>4. \A i \in 1..b : g[i] = step[i][g[i - 1]]
    BY <1>2, <2>1 DEF Walk
  <2>5. Walk(g, b, S, first, step)
    BY <2>3, <2>4 DEF Walk
  <2> QED
    BY <2>5
<1>0. SUFFICES Reaches(n)
  OBVIOUS
<1> HIDE DEF Reaches
<1>3. SUFFICES ASSUME Without # {} PROVE Reaches(n)
  OBVIOUS
<1>4. PICK b \in Without : \A c \in Without : b <= c
  <2>1. Without \in SUBSET Nat
    OBVIOUS
  <2> HIDE DEF Without
  <2> QED
    BY <1>3, <2>1, LeastOf
<1>5. b \in 0..n /\ ~ Reaches(b)
  BY <1>4
<1>6. b \in 1..n
  BY <1>1, <1>5
<1>7. b - 1 \in 0..n /\ b - 1 \notin Without
  BY <1>4, <1>6
<1> QED
  BY <1>2, <1>5, <1>6, <1>7

\* Running totals of the first n numbers of value.
TotalsOf(f, n, value) ==
    /\ f \in [0..n -> Int]
    /\ f[0] = 0
    /\ \A i \in 1..n : f[i] = f[i - 1] + value[i]

LEMMA RunningTotals ==
  ASSUME NEW n \in Nat, NEW value, value \in [1..n -> Int]
  PROVE  \E f : TotalsOf(f, n, value)
<1> DEFINE step == [i \in 1..n |-> [x \in Int |-> x + value[i]]]
<1>1. step \in [1..n -> [Int -> Int]] /\ 0 \in Int
  OBVIOUS
<1>2. \A i \in 1..n, x \in Int : step[i][x] = x + value[i]
  OBVIOUS
<1> HIDE DEF step
<1>3. PICK f : Walk(f, n, Int, 0, step)
  BY <1>1, Recursion, Zenon
<1>4. ASSUME NEW i \in 1..n PROVE f[i] = f[i - 1] + value[i]
  <2>1. f[i - 1] \in Int
    BY <1>3 DEF Walk
  <2> QED
    BY <1>2, <1>3, <2>1 DEF Walk
<1>5. TotalsOf(f, n, value)
  BY <1>3, <1>4 DEF TotalsOf, Walk
<1> QED
  BY <1>5

-----------------------------------------------------------------------------
(* Ranks in a finite strict order: below[x] are those before x.            *)

Orders(below, S) ==
    /\ IsFiniteSet(S) /\ below \in [S -> SUBSET S]
    /\ \A x \in S : x \notin below[x]
    /\ \A x, y \in S : y \in below[x] => below[y] \subseteq below[x]
    /\ \A x, y \in S : x = y \/ x \in below[y] \/ y \in below[x]

LEMMA RanksGrow ==
  ASSUME NEW S, NEW below, Orders(below, S)
  PROVE  /\ Cardinality(S) \in Nat
         /\ \A x \in S : Cardinality(below[x]) \in 0..(Cardinality(S) - 1)
         /\ \A x, y \in S : x \in below[y] => Cardinality(below[x]) < Cardinality(below[y])
         /\ \A x, y \in S : Cardinality(below[x]) = Cardinality(below[y]) => x = y
<1>1. IsFiniteSet(S) /\ Cardinality(S) \in Nat
  BY FS_CardinalityType DEF Orders
<1>2. ASSUME NEW x \in S
      PROVE  /\ IsFiniteSet(below[x]) /\ Cardinality(below[x]) \in Nat
             /\ Cardinality(below[x]) <= Cardinality(S) - 1
  <2>1. below[x] \in SUBSET S /\ x \notin below[x]
    BY DEF Orders
  <2>2. IsFiniteSet(S \ {x}) /\ Cardinality(S \ {x}) = Cardinality(S) - 1
    BY <1>1, FS_RemoveElement
  <2>3. below[x] \in SUBSET (S \ {x})
    BY <2>1
  <2> QED
    BY <2>2, <2>3, FS_Subset, FS_CardinalityType
<1>3. ASSUME NEW x \in S, NEW y \in S, x \in below[y]
      PROVE  Cardinality(below[x]) < Cardinality(below[y])
  <2>1. below[x] \subseteq below[y] /\ x \notin below[x]
    BY <1>3 DEF Orders
  <2>2. /\ IsFiniteSet(below[y] \ {x})
        /\ Cardinality(below[y] \ {x}) = Cardinality(below[y]) - 1
    BY <1>2, <1>3, FS_RemoveElement
  <2>3. below[x] \in SUBSET (below[y] \ {x})
    BY <2>1
  <2>4. Cardinality(below[x]) <= Cardinality(below[y]) - 1
    BY <2>2, <2>3, FS_Subset
  <2> QED
    BY <1>2, <2>4
<1>4. ASSUME NEW x \in S, NEW y \in S, Cardinality(below[x]) = Cardinality(below[y]) PROVE x = y
  <2>1. x = y \/ x \in below[y] \/ y \in below[x]
    BY DEF Orders
  <2> QED
    BY <1>2, <1>3, <1>4, <2>1
<1> QED
  BY <1>1, <1>2, <1>3, <1>4

\* Each rank is somebody's.
LEMMA RanksFilled ==
  ASSUME NEW S, NEW below, Orders(below, S), NEW k \in 0..(Cardinality(S) - 1)
  PROVE  \E x \in S : Cardinality(below[x]) = k
<1> DEFINE T == 0..(Cardinality(S) - 1)
           rank == [x \in S |-> Cardinality(below[x])]
<1>1. Cardinality(S) \in Nat
  BY RanksGrow
<1>2. rank \in [S -> T] /\ \A x, y \in S : rank[x] = rank[y] => x = y
  BY RanksGrow
<1>3. IsFiniteSet(T) /\ Cardinality(T) = Cardinality(S)
  <2>1. 0 \in Int /\ Cardinality(S) - 1 \in Int
    BY <1>1
  <2>2. IsFiniteSet(T) /\ Cardinality(T) = IF 0 > Cardinality(S) - 1 THEN 0 ELSE Cardinality(S) - 1 - 0 + 1
    BY <2>1, FS_Interval
  <2> QED
    BY <1>1, <2>2
<1> HIDE DEF rank, T
<1>4. rank \in Injection(S, T)
  BY <1>2, Zenon DEF Injection, IsInjective
<1>5. rank \in Surjection(S, T)
  BY <1>3, <1>4, FS_Injection
<1>6. PICK x \in S : rank[x] = k
  BY <1>5 DEF Surjection, T
<1> QED
  BY <1>6 DEF rank

\* What a sorted list is: everything in it, once.
Lists(list, S) ==
    /\ Cardinality(S) \in Nat /\ list \in [1..Cardinality(S) -> S]
    /\ \A m, n \in 1..Cardinality(S) : list[m] = list[n] => m = n
    /\ \A x \in S : \E n \in 1..Cardinality(S) : list[n] = x

\* A sort: each place is taken by the one of its rank.
LEMMA RankedIs ==
  ASSUME NEW S, NEW below, Orders(below, S), NEW list,
         list = [n \in 1..Cardinality(S) |-> CHOOSE x \in S : Cardinality(below[x]) = n - 1]
  PROVE  /\ Lists(list, S)
         /\ \A m, n \in 1..Cardinality(S) : m < n => list[m] \in below[list[n]]
<1>1. Cardinality(S) \in Nat
  BY RanksGrow
<1>2. ASSUME NEW n \in 1..Cardinality(S)
      PROVE  list[n] \in S /\ Cardinality(below[list[n]]) = n - 1
  <2>1. n - 1 \in 0..(Cardinality(S) - 1)
    BY <1>1
  <2>2. \E x \in S : Cardinality(below[x]) = n - 1
    BY <2>1, RanksFilled
  <2>3. list[n] = CHOOSE x \in S : Cardinality(below[x]) = n - 1
    OBVIOUS
  <2> QED
    BY <2>2, <2>3
<1>3. list \in [1..Cardinality(S) -> S]
  BY <1>2
<1>4. ASSUME NEW m \in 1..Cardinality(S), NEW n \in 1..Cardinality(S), list[m] = list[n] PROVE m = n
  <2>1. m - 1 = n - 1
    BY <1>2, <1>4
  <2> QED
    BY <1>1, <2>1
<1>5. ASSUME NEW x \in S PROVE \E n \in 1..Cardinality(S) : list[n] = x
  <2>1. PICK k \in 0..(Cardinality(S) - 1) : Cardinality(below[x]) = k
    BY RanksGrow
  <2>2. k + 1 \in 1..Cardinality(S) /\ k + 1 - 1 = k
    BY <1>1
  <2>3. list[k + 1] \in S /\ Cardinality(below[list[k + 1]]) = k
    BY <1>2, <2>2
  <2> QED
    BY <2>1, <2>2, <2>3, RanksGrow
<1>6. ASSUME NEW m \in 1..Cardinality(S), NEW n \in 1..Cardinality(S), m < n
      PROVE  list[m] \in below[list[n]]
  <2>1. list[m] # list[n]
    BY <1>1, <1>4, <1>6
  <2>2. list[m] \in below[list[n]] \/ list[n] \in below[list[m]]
    BY <1>2, <2>1 DEF Orders
  <2>3. ASSUME list[n] \in below[list[m]] PROVE FALSE
    <3>1. Cardinality(below[list[n]]) < Cardinality(below[list[m]])
      BY <1>2, <2>3, RanksGrow
    <3>2. n - 1 < m - 1
      BY <1>2, <3>1
    <3> QED
      BY <1>1, <1>6, <3>2
  <2> QED
    BY <2>2, <2>3
<1> QED
  BY <1>1, <1>3, <1>4, <1>5, <1>6 DEF Lists

\* No more than n have a rank below n.
LEMMA RanksBelow ==
  ASSUME NEW S, NEW below, Orders(below, S), NEW n \in Nat
  PROVE  LET first == {x \in S : Cardinality(below[x]) < n}
         IN IsFiniteSet(first) /\ Cardinality(first) <= n
<1> DEFINE first == {x \in S : Cardinality(below[x]) < n}
           T == 0..(n - 1)
           rank == [x \in first |-> Cardinality(below[x])]
<1>1. IsFiniteSet(T) /\ Cardinality(T) = n
  <2>1. 0 \in Int /\ n - 1 \in Int
    OBVIOUS
  <2>2. IsFiniteSet(T) /\ Cardinality(T) = IF 0 > n - 1 THEN 0 ELSE n - 1 - 0 + 1
    BY <2>1, FS_Interval
  <2> QED
    BY <2>2
<1>2. \A x \in S : Cardinality(below[x]) \in Nat
  BY RanksGrow
<1>3. rank \in [first -> T]
  BY <1>2
<1>4. \A x, y \in first : rank[x] = rank[y] => x = y
  BY RanksGrow
<1> HIDE DEF rank, T, first
<1>5. rank \in Injection(first, T)
  BY <1>3, <1>4, Zenon DEF Injection, IsInjective
<1>6. IsFiniteSet(first) /\ Cardinality(first) <= n
  BY <1>1, <1>5, FS_Injection
<1> QED
  BY <1>6 DEF first
=============================================================================
