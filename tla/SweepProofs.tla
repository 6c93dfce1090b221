---------------------------- MODULE SweepProofs -----------------------------
(***************************************************************************)
(* Theorems about module Sweep, for every grid, number of threads,         *)
(* landscape and death: what racing threads leave behind, what a           *)
(* calibration makes of a ledger, and where a refinement goes.             *)
(***************************************************************************)
EXTENDS Sweep, TotalsProofs, SequenceTheorems

-----------------------------------------------------------------------------
(* Lists and grids.                                                        *)

LEMMA ListedIs ==
  ASSUME NEW s, Listed(s)
  PROVE  Len(s) \in Nat /\ DOMAIN s = 1..Len(s)
BY DEF Listed

Wide(g) == [a \in 1..Len(g.axes) |-> Len(g.axes[a].values)]

LEMMA GridIs ==
  ASSUME NEW g, Grid(g)
  PROVE  /\ Len(g.axes) \in Nat /\ DOMAIN g.axes = 1..Len(g.axes)
         /\ \A a \in DOMAIN g.axes : /\ Len(g.axes[a].values) \in Nat
                                     /\ DOMAIN g.axes[a].values = 1..Len(g.axes[a].values)
BY ListedIs DEF Grid

\* The number of points of the first axes.
Counts(f, g) ==
    /\ f \in [0..Len(g.axes) -> Nat] /\ f[0] = 1
    /\ \A a \in 1..Len(g.axes) : f[a] = f[a - 1] * Len(g.axes[a].values)

LEMMA SizeIs ==
  ASSUME NEW g, Grid(g)
  PROVE  \E f : Counts(f, g) /\ Size(g) = f[Len(g.axes)]
<1> DEFINE n == Len(g.axes)
           step == [a \in 1..n |-> [x \in Nat |-> x * Len(g.axes[a].values)]]
           Upto(u) == u = [a \in 0..n |-> IF a = 0 THEN 1 ELSE u[a - 1] * Len(g.axes[a].values)]
<1>1. n \in Nat /\ \A a \in 1..n : Len(g.axes[a].values) \in Nat
  BY GridIs
<1>2. step \in [1..n -> [Nat -> Nat]] /\ \A a \in 1..n, x \in Nat : step[a][x] = x * Len(g.axes[a].values)
  BY <1>1
<1> HIDE DEF step
<1>3. PICK f : Walk(f, n, Nat, 1, step)
  BY <1>1, <1>2, Recursion, Zenon
<1>4. ASSUME NEW a \in 1..n PROVE f[a] = f[a - 1] * Len(g.axes[a].values)
  <2>1. f[a - 1] \in Nat
    BY <1>1, <1>3 DEF Walk
  <2> QED
    BY <1>2, <1>3, <2>1 DEF Walk
<1>5. Counts(f, g) /\ Upto(f)
  BY <1>1, <1>3, <1>4 DEF Walk, Counts
<1>6. PICK upto : Upto(upto) /\ Size(g) = upto[n]
  <2> DEFINE chosen == CHOOSE u : Upto(u)
  <2>1. Upto(chosen)
    BY <1>5
  <2>2. Size(g) = chosen[n]
    BY DEF Size
  <2> QED
    BY <2>1, <2>2
<1>7. f[0] = upto[0] /\ \A a \in 1..n : f[a - 1] = upto[a - 1] => f[a] = upto[a]
  <2>1. \A a \in 0..n : upto[a] = IF a = 0 THEN 1 ELSE upto[a - 1] * Len(g.axes[a].values)
    BY <1>6, Zenon
  <2>3. 0 \in 0..n /\ \A a \in 1..n : a \in 0..n /\ a # 0
    BY <1>1
  <2>2. f[0] = 1
    BY <1>5 DEF Counts
  <2> QED
    BY <1>4, <2>1, <2>2, <2>3, Zenon
<1>8. \A a \in 0..n : f[a] = upto[a]
  BY <1>1, <1>7, Agreement, ZenonT(60)
<1>9. f[n] = upto[n]
  BY <1>1, <1>8
<1> QED
  BY <1>5, <1>6, <1>9

LEMMA SizeType ==
  ASSUME NEW g, Grid(g)
  PROVE  Size(g) \in Nat
<1>1. PICK f : Counts(f, g) /\ Size(g) = f[Len(g.axes)]
  BY SizeIs
<1> QED
  BY <1>1, GridIs DEF Counts

LEMMA ListIsSeq ==
  ASSUME NEW S, NEW n \in Nat, NEW q, q \in [1..n -> S]
  PROVE  q \in Seq(S) /\ Len(q) = n
<1>1. q \in Seq(S)
  BY SeqDef
<1>2. DOMAIN q = 1..n /\ DOMAIN q = 1..Len(q) /\ Len(q) \in Nat
  BY <1>1, LenProperties
<1> QED
  BY <1>1, <1>2

LEMMA OneMore ==
  ASSUME NEW i \in Nat, i > 0, NEW e
  PROVE  [k \in 1..(i - 1) |-> e[k]] \o <<e[i]>> = [k \in 1..i |-> e[k]]
<1> DEFINE S == {e[k] : k \in 1..i}
<1>1. PICK q : q = [k \in 1..(i - 1) |-> e[k]]
  OBVIOUS
<1>2. PICK last : last = [k \in 1..1 |-> e[i]]
  OBVIOUS
<1>3. PICK all : all = [k \in 1..i |-> e[k]]
  OBVIOUS
<1>4. last = <<e[i]>>
  BY <1>2
<1>5. \A k \in 1..i : e[k] \in S
  OBVIOUS
<1> HIDE DEF S
<1>6. i - 1 \in Nat /\ 1 \in Nat /\ q \in [1..(i - 1) -> S] /\ last \in [1..1 -> S] /\ all \in [1..i -> S]
  BY <1>1, <1>2, <1>3, <1>5
<1>7. q \in Seq(S) /\ Len(q) = i - 1
  BY <1>6, ListIsSeq
<1>8. last \in Seq(S) /\ Len(last) = 1
  BY <1>6, ListIsSeq
<1>9. all \in Seq(S) /\ Len(all) = i
  BY <1>6, ListIsSeq
<1>10. /\ q \o last \in Seq(S) /\ Len(q \o last) = i - 1 + 1
       /\ \A k \in 1..(i - 1 + 1) : (q \o last)[k] = IF k <= i - 1 THEN q[k] ELSE last[k - (i - 1)]
  <2>1. /\ q \o last \in Seq(S) /\ Len(q \o last) = Len(q) + Len(last)
        /\ \A k \in 1..(Len(q) + Len(last)) :
              (q \o last)[k] = IF k <= Len(q) THEN q[k] ELSE last[k - Len(q)]
    BY <1>7, <1>8, ConcatProperties, Zenon
  <2> QED
    BY <1>7, <1>8, <2>1, Zenon
<1>11. ASSUME NEW k \in 1..i PROVE (q \o last)[k] = all[k]
  <2>1. k \in 1..(i - 1 + 1) /\ (k <= i - 1 => k \in 1..(i - 1)) /\ (~ (k <= i - 1) => k - (i - 1) = 1 /\ k = i)
    OBVIOUS
  <2>2. (q \o last)[k] = IF k <= i - 1 THEN q[k] ELSE last[k - (i - 1)]
    BY <1>10, <2>1
  <2>3. last[1] = e[i] /\ all[k] = e[k]
    BY <1>2, <1>3
  <2>4. CASE k <= i - 1
    BY <1>1, <2>1, <2>2, <2>3, <2>4
  <2>5. CASE ~ (k <= i - 1)
    BY <2>1, <2>2, <2>3, <2>5
  <2> QED
    BY <2>4, <2>5
<1>12. Len(q \o last) = i
  BY <1>10
<1>13. q \o last = all
  BY <1>9, <1>10, <1>11, <1>12, SeqEqual
<1> QED
  BY <1>1, <1>3, <1>4, <1>13

\* One entry each, in a row.
LEMMA SinglesFlatten ==
  ASSUME NEW n \in Nat, NEW e, NEW s, s = [k \in 1..n |-> <<e[k]>>]
  PROVE  FlattenSeq(s) = [k \in 1..n |-> e[k]]
<1>1. Len(s) = n
  OBVIOUS
<1>2. CASE n = 0
  BY <1>1, <1>2 DEF FlattenSeq
<1>3. CASE n # 0
  <2>0. PICK first : first = [i \in 1..n |-> [k \in 1..i |-> e[k]]]
    OBVIOUS
  <2> DEFINE Flat(u) == u = [i \in 1..n |-> IF i = 1 THEN s[i] ELSE u[i - 1] \o s[i]]
  <2>1. Flat(first)
    <3>1. ASSUME NEW i \in 1..n PROVE first[i] = IF i = 1 THEN s[i] ELSE first[i - 1] \o s[i]
      <4>1. CASE i = 1
        <5>1. first[i] = [k \in 1..1 |-> e[k]] /\ s[i] = <<e[1]>>
          BY <2>0, <4>1
        <5>2. [k \in 1..1 |-> e[k]] = <<e[1]>>
          OBVIOUS
        <5> QED
          BY <4>1, <5>1, <5>2
      <4>2. CASE i # 1
        <5>1. /\ first[i - 1] = [k \in 1..(i - 1) |-> e[k]] /\ first[i] = [k \in 1..i |-> e[k]]
              /\ s[i] = <<e[i]>>
          BY <2>0, <4>2
        <5>2. [k \in 1..(i - 1) |-> e[k]] \o <<e[i]>> = [k \in 1..i |-> e[k]]
          BY <4>2, OneMore
        <5> QED
          BY <4>2, <5>1, <5>2
      <4> QED
        BY <4>1, <4>2
    <3>2. first = [i \in 1..n |-> first[i]]
      BY <2>0, Zenon
    <3> QED
      BY <3>1, <3>2
  <2>2. PICK flatten : Flat(flatten) /\ FlattenSeq(s) = flatten[n]
    <3> DEFINE chosen == CHOOSE u : Flat(u)
    <3>1. Flat(chosen)
      BY <2>1
    <3>2. FlattenSeq(s) = chosen[n]
      BY <1>1, <1>3 DEF FlattenSeq
    <3> QED
      BY <3>1, <3>2
  <2>3. PICK f : f = [i \in 0..(n - 1) |-> first[i + 1]]
    OBVIOUS
  <2>4. PICK g : g = [i \in 0..(n - 1) |-> flatten[i + 1]]
    OBVIOUS
  <2>5. f[0] = g[0] /\ \A i \in 1..(n - 1) : f[i - 1] = g[i - 1] => f[i] = g[i]
    <3>1. \A i \in 1..n : (i = 1 => first[i] = s[i]) /\ (i # 1 => first[i] = first[i - 1] \o s[i])
      <4>1. \A i \in 1..n : first[i] = IF i = 1 THEN s[i] ELSE first[i - 1] \o s[i]
        BY <2>1, Zenon
      <4> QED
        BY <4>1, Zenon
    <3>2. \A i \in 1..n : (i = 1 => flatten[i] = s[i]) /\ (i # 1 => flatten[i] = flatten[i - 1] \o s[i])
      <4>1. \A i \in 1..n : flatten[i] = IF i = 1 THEN s[i] ELSE flatten[i - 1] \o s[i]
        BY <2>2, Zenon
      <4> QED
        BY <4>1, Zenon
    <3>3. f[0] = first[1] /\ g[0] = flatten[1]
      BY <1>3, <2>3, <2>4
    <3>4. ASSUME NEW i \in 1..(n - 1), f[i - 1] = g[i - 1] PROVE f[i] = g[i]
      <4>1. i + 1 \in 1..n /\ i + 1 # 1 /\ i + 1 - 1 = i /\ i \in 0..(n - 1) /\ i - 1 \in 0..(n - 1) /\ i - 1 + 1 = i
        OBVIOUS
      <4>2. first[i + 1] = first[i] \o s[i + 1] /\ flatten[i + 1] = flatten[i] \o s[i + 1]
        <5>1. PICK j : j = i + 1
          OBVIOUS
        <5>2. j \in 1..n /\ j # 1 /\ j - 1 = i
          BY <5>1
        <5>3. first[j] = first[j - 1] \o s[j] /\ flatten[j] = flatten[j - 1] \o s[j]
          BY <3>1, <3>2, <5>2, Zenon
        <5> QED
          BY <5>1, <5>2, <5>3, Zenon
      <4>3. f[i] = first[i + 1] /\ g[i] = flatten[i + 1] /\ f[i - 1] = first[i] /\ g[i - 1] = flatten[i]
        BY <2>3, <2>4, <4>1
      <4> QED
        BY <3>4, <4>2, <4>3
    <3>5. first[1] = flatten[1]
      <4>1. 1 \in 1..n
        BY <1>3
      <4>2. first[1] = s[1]
        BY <3>1, <4>1
      <4>3. flatten[1] = s[1]
        BY <3>2, <4>1
      <4> QED
        BY <4>2, <4>3
    <3> QED
      BY <3>3, <3>4, <3>5
  <2>6. \A i \in 0..(n - 1) : f[i] = g[i]
    <3>1. n - 1 \in Nat
      BY <1>3
    <3> QED
      BY <2>5, <3>1, Agreement
  <2>7. first[n] = flatten[n]
    <3>1. n - 1 \in 0..(n - 1) /\ n - 1 + 1 = n
      BY <1>3
    <3>2. f[n - 1] = first[n - 1 + 1] /\ g[n - 1] = flatten[n - 1 + 1]
      BY <2>3, <2>4, <3>1
    <3> QED
      BY <2>6, <3>1, <3>2
  <2> QED
    <3>1. first[n] = [k \in 1..n |-> e[k]]
      BY <1>3, <2>0
    <3> QED
      BY <2>2, <2>7, <3>1
<1> QED
  BY <1>2, <1>3

\* When every point was pushed once the entries are complete.
LEMMA EntriesComplete ==
  ASSUME Size(grid) \in Nat, pushed = [i \in Indices(grid) |-> 1]
  PROVE  Entries = Complete(grid)
<1> DEFINE n == Size(grid)
           s == [k \in 1..n |-> [m \in 1..pushed[k - 1] |-> Entry(grid, k - 1)]]
           e == Complete(grid)
<1>1. \A k \in 1..n : pushed[k - 1] = 1
  BY DEF Indices
<1>2. \A k \in 1..n : [m \in 1..1 |-> Entry(grid, k - 1)] = <<Entry(grid, k - 1)>>
  OBVIOUS
<1>3. e = [k \in 1..n |-> e[k]] /\ \A k \in 1..n : e[k] = Entry(grid, k - 1)
  BY DEF Complete
<1>4. s = [k \in 1..n |-> <<e[k]>>]
  <2> HIDE DEF e, n
  <2>1. \A k \in 1..n : [m \in 1..pushed[k - 1] |-> Entry(grid, k - 1)] = <<e[k]>>
    BY <1>1, <1>2, <1>3
  <2> QED
    BY <2>1
<1>5. Entries = FlattenSeq(s)
  BY DEF Entries
<1> HIDE DEF n, s, e
<1>6. n \in Nat
  BY DEF n
<1>7. FlattenSeq(s) = [k \in 1..n |-> e[k]]
  BY <1>4, <1>6, SinglesFlatten
<1> QED
  BY <1>3, <1>5, <1>7 DEF e

-----------------------------------------------------------------------------
(* Threads that race for the points of a grid.                             *)

Busy(t) == thread[t].pc \in {"check", "run"}

RacingType ==
    /\ next \in Nat
    /\ thread \in [Threads -> [pc : {"fetch", "check", "run", "stopped"}, point : Nat]]
    /\ pushed \in [Indices(grid) -> {0, 1}]
    /\ failure = None \/ (failure \in Indices(grid) /\ Fails(grid, failure))

\* What a thread may hold: a point that was counted, and no thread's point is another's.
PointsTaken ==
    \A t \in Threads :
        /\ thread[t].pc # "fetch" => t \in Active /\ thread[t].point < next
        /\ thread[t].pc = "run" => thread[t].point < Size(grid)
        /\ thread[t].pc = "stopped" => failure # None \/ thread[t].point >= Size(grid)
        /\ \A u \in Threads : Busy(t) /\ Busy(u) /\ t # u => thread[t].point # thread[u].point

\* A pushed point succeeded and is nobody's any more; a counted one that was not
\* pushed is somebody's, unless the run has failed.
PointsDone ==
    \A i \in Indices(grid) :
        /\ pushed[i] = 1 => /\ i < next /\ ~ Fails(grid, i)
                            /\ \A t \in Threads : Busy(t) => thread[t].point # i
        /\ i < next /\ pushed[i] = 0 =>
              failure # None \/ \E t \in Threads : Busy(t) /\ thread[t].point = i

Racing == RacingType /\ PointsTaken /\ PointsDone

Failed ==
    ValidGrid(grid) /\ (Refining => ValidRefinement) => \E i \in Indices(grid) : Fails(grid, i)

SweepInv ==
    /\ setup \in Setups /\ Grid(grid)
    /\ pc = "running" => Racing
    /\ pc = "writing" => /\ pushed = [i \in Indices(grid) |-> 1]
                         /\ \A i \in Indices(grid) : ~ Fails(grid, i)
    /\ pc = "failed" => Failed

LEMMA SameGrid ==
  ASSUME UNCHANGED <<given, grid>>
  PROVE  /\ setup' = setup /\ Active' = Active /\ Failed' = Failed
         /\ \A i : Fails(grid, i)' = Fails(grid, i)
<1>1. \A i : Fails(grid, i)' = Fails(grid, i)
  BY DEF given, Fails, Median
<1> QED
  BY <1>1 DEF given, Active, Failed, Refining, ValidRefinement

LEMMA FetchKeeps ==
  ASSUME Grid(grid), Racing, NEW t \in Threads, Fetch(t)
  PROVE  Racing'
<1> DEFINE n == Size(grid)
<1>1. n \in Nat
  BY SizeType
<1>2. /\ Active' = Active /\ \A i : Fails(grid, i)' = Fails(grid, i)
      /\ grid' = grid /\ pushed' = pushed /\ failure' = failure /\ next' = next + 1
      /\ t \in Active /\ thread[t].pc = "fetch"
      /\ thread' = [thread EXCEPT ![t] = [pc |-> "check", point |-> next]]
  BY SameGrid DEF Fetch, given
<1>3. /\ thread'[t] = [pc |-> "check", point |-> next]
      /\ \A u \in Threads \ {t} : thread'[u] = thread[u]
  BY <1>2 DEF Racing, RacingType
<1>4. RacingType'
  BY <1>2 DEF Racing, RacingType
<1>5. PointsTaken'
  BY <1>2, <1>3 DEF Racing, RacingType, PointsTaken, Busy
<1>6. PointsDone'
  BY <1>1, <1>2, <1>3 DEF Racing, RacingType, PointsTaken, PointsDone, Busy, Indices
<1> QED
  BY <1>4, <1>5, <1>6 DEF Racing

LEMMA CheckKeeps ==
  ASSUME Grid(grid), Racing, NEW t \in Threads, Check(t)
  PROVE  Racing'
<1> DEFINE n == Size(grid)
<1>1. n \in Nat
  BY SizeType
<1>2. /\ Active' = Active /\ \A i : Fails(grid, i)' = Fails(grid, i)
      /\ grid' = grid /\ pushed' = pushed /\ failure' = failure /\ next' = next
      /\ thread[t].pc = "check"
      /\ thread' = [thread EXCEPT ![t].pc =
                      IF Past(thread[t].point) \/ failure # None THEN "stopped" ELSE "run"]
  BY SameGrid DEF Check, given
<1>3. /\ thread'[t].point = thread[t].point
      /\ thread'[t].pc = IF thread[t].point >= n \/ failure # None THEN "stopped" ELSE "run"
      /\ \A u \in Threads \ {t} : thread'[u] = thread[u]
  BY <1>2 DEF Racing, RacingType, Past
<1>4. RacingType'
  BY <1>2 DEF Racing, RacingType
<1>5. PointsTaken'
  BY <1>1, <1>2, <1>3 DEF Racing, RacingType, PointsTaken, Busy
<1>6. PointsDone'
  BY <1>1, <1>2, <1>3 DEF Racing, RacingType, PointsTaken, PointsDone, Busy, Indices
<1> QED
  BY <1>4, <1>5, <1>6 DEF Racing

LEMMA RunPointKeeps ==
  ASSUME Grid(grid), Racing, NEW t \in Threads, RunPoint(t)
  PROVE  Racing'
<1> DEFINE n == Size(grid)
           i == thread[t].point
<1>1. n \in Nat
  BY SizeType
<1>2. /\ Active' = Active /\ \A k : Fails(grid, k)' = Fails(grid, k)
      /\ grid' = grid /\ next' = next /\ thread[t].pc = "run"
  BY SameGrid DEF RunPoint, given
<1>3. i \in Indices(grid) /\ i < next /\ pushed[i] = 0
  BY <1>1, <1>2 DEF Racing, RacingType, PointsTaken, PointsDone, Indices, Busy
<1>4. CASE Fails(grid, i)
  <2>1. /\ failure' = i /\ pushed' = pushed
        /\ thread' = [thread EXCEPT ![t].pc = "stopped"]
    BY <1>4 DEF RunPoint
  <2>2. /\ thread'[t].point = i /\ thread'[t].pc = "stopped"
        /\ \A u \in Threads \ {t} : thread'[u] = thread[u]
    BY <2>1 DEF Racing, RacingType
  <2>3. failure' # None
    BY <1>1, <1>3, <2>1, SweepData DEF Indices
  <2>4. RacingType'
    BY <1>2, <1>3, <1>4, <2>1 DEF Racing, RacingType
  <2>5. PointsTaken'
    BY <1>2, <2>2, <2>3 DEF Racing, RacingType, PointsTaken, Busy
  <2>6. PointsDone'
    BY <1>2, <2>1, <2>2, <2>3 DEF Racing, RacingType, PointsDone, Busy
  <2> QED
    BY <2>4, <2>5, <2>6 DEF Racing
<1>5. CASE ~ Fails(grid, i)
  <2>1. /\ failure' = failure /\ pushed' = [pushed EXCEPT ![i] = @ + 1]
        /\ thread' = [thread EXCEPT ![t].pc = "fetch"]
    BY <1>5 DEF RunPoint
  <2>2. /\ thread'[t].point = i /\ thread'[t].pc = "fetch"
        /\ \A u \in Threads \ {t} : thread'[u] = thread[u]
    BY <2>1 DEF Racing, RacingType
  <2>3. pushed'[i] = 1 /\ \A k \in Indices(grid) \ {i} : pushed'[k] = pushed[k]
    BY <1>3, <2>1 DEF Racing, RacingType
  <2>4. RacingType'
    BY <1>2, <1>3, <2>1 DEF Racing, RacingType
  <2>5. PointsTaken'
    BY <1>2, <2>1, <2>2 DEF Racing, RacingType, PointsTaken, Busy
  <2>6. PointsDone'
    BY <1>2, <1>3, <1>5, <2>1, <2>2, <2>3 DEF Racing, RacingType, PointsTaken, PointsDone, Busy
  <2> QED
    BY <2>4, <2>5, <2>6 DEF Racing
<1> QED
  BY <1>4, <1>5

LEMMA MaxOfTwo ==
  ASSUME NEW x \in Int, NEW y \in Int
  PROVE  Max({x, y}) \in {x, y} /\ Max({x, y}) >= x /\ Max({x, y}) >= y
<1>1. \E z \in {x, y} : \A w \in {x, y} : z >= w
  OBVIOUS
<1> QED
  BY <1>1 DEF Max

LEMMA MinOfTwo ==
  ASSUME NEW x \in Int, NEW y \in Int
  PROVE  Min({x, y}) \in {x, y} /\ Min({x, y}) <= x /\ Min({x, y}) <= y
<1>1. \E z \in {x, y} : \A w \in {x, y} : z <= w
  OBVIOUS
<1> QED
  BY <1>1 DEF Min

\* There is always a thread.
LEMMA FirstIsActive ==
  ASSUME setup \in Setups, Grid(grid)
  PROVE  1 \in Active
<1>1. setup.threads \in Int /\ Size(grid) \in Int /\ 1 \in Threads /\ 1 \in Int
  BY SizeType, SweepData, SweepBounds
<1>2. PICK m : m = Max({1, Size(grid)})
  OBVIOUS
<1>3. m \in Int
  <2>1. Max({1, Size(grid)}) \in {1, Size(grid)}
    BY <1>1, MaxOfTwo
  <2> QED
    BY <1>1, <1>2, <2>1, Zenon
<1>4. PICK l : l = Min({setup.threads, m})
  OBVIOUS
<1>5. l \in Int
  <2>1. Min({setup.threads, m}) \in {setup.threads, m}
    BY <1>1, <1>3, MinOfTwo
  <2> QED
    BY <1>1, <1>3, <1>4, <2>1, Zenon
<1>6. Max({1, l}) >= 1
  BY <1>5, MaxOfTwo
<1> QED
  BY <1>1, <1>2, <1>4, <1>6 DEF Active

\* When every thread has stopped and nothing failed, every point was pushed.
LEMMA JoinComplete ==
  ASSUME setup \in Setups, Grid(grid), Racing, failure = None,
         \A t \in Active : thread[t].pc = "stopped"
  PROVE  /\ pushed = [i \in Indices(grid) |-> 1]
         /\ \A i \in Indices(grid) : ~ Fails(grid, i)
<1>1. 1 \in Active /\ 1 \in Threads /\ Size(grid) \in Nat
  BY FirstIsActive, SizeType, SweepBounds
<1>2. thread[1].point >= Size(grid) /\ thread[1].point < next /\ thread[1].point \in Nat /\ next \in Nat
  BY <1>1 DEF Racing, RacingType, PointsTaken
<1>3. ASSUME NEW i \in Indices(grid) PROVE pushed[i] = 1
  <2>1. i < next
    BY <1>1, <1>2 DEF Indices
  <2>2. \A t \in Threads : ~ Busy(t)
    BY DEF Racing, RacingType, PointsTaken, Busy
  <2> QED
    BY <2>1, <2>2 DEF Racing, RacingType, PointsDone
<1>4. pushed = [i \in Indices(grid) |-> pushed[i]]
  BY DEF Racing, RacingType
<1> QED
  BY <1>3, <1>4 DEF Racing, PointsDone

\* A run starts with nothing taken, or is refused.
LEMMA RunStarts ==
  ASSUME SweepInv, UNCHANGED given, NEW g, Grid(g), RunGrid(g)
  PROVE  SweepInv'
<1>1. Size(g) \in Nat /\ grid' = g /\ setup' = setup
  BY SizeType DEF RunGrid, given
<1>2. CASE ValidGrid(g)
  <2>1. /\ next' = 0 /\ thread' = Spawned /\ failure' = None /\ pc' = "running"
        /\ pushed' = [i \in Indices(g) |-> 0]
    BY <1>2 DEF RunGrid
  <2>2. Racing'
    BY <1>1, <2>1 DEF Racing, RacingType, PointsTaken, PointsDone, Busy, Spawned, Indices
  <2> QED
    BY <1>1, <2>1, <2>2 DEF SweepInv
<1>3. CASE ~ ValidGrid(g)
  BY <1>1, <1>3 DEF RunGrid, SweepInv, Failed
<1> QED
  BY <1>2, <1>3

LEMMA ReplicatedGrid ==
  ASSUME NEW g, Grid(g), NEW level
  PROVE  Grid(Replicated(g, level))
<1>1. DOMAIN [g EXCEPT !.replicates = setup.final] = DOMAIN g
      /\ [g EXCEPT !.replicates = setup.final].axes = g.axes
  BY DEF Grid
<1> QED
  BY <1>1 DEF Grid, Replicated

-----------------------------------------------------------------------------
(* The grid of the next level.                                             *)

LEMMA SeqIsListed ==
  ASSUME NEW S, NEW q, q \in Seq(S)
  PROVE  Listed(q)
<1>1. Len(q) \in Nat /\ DOMAIN q = 1..Len(q) /\ q \in [1..Len(q) -> S]
  BY LenProperties
<1>2. q \in [1..Len(q) -> Range(q)]
  BY <1>1 DEF Range
<1>3. q \in Seq(Range(q))
  BY <1>1, <1>2, ListIsSeq
<1> QED
  BY <1>3 DEF Listed

Elements(q) == {q[k] : k \in DOMAIN q}
Still(a) == ~ Numeric(a) \/ NextStep(a) <= 0
Around(a, best) == {Number(Clamped(best + (k - 2) * NextStep(a), a), a) : k \in 1..3}

\* A value is kept once.
LEMMA KeepOne ==
  ASSUME NEW S, NEW q \in Seq(S), NEW x \in S, NEW r,
         Contains(q, x) => r = q, ~ Contains(q, x) => r = Append(q, x)
  PROVE  r \in Seq(S) /\ Len(r) <= Len(q) + 1 /\ Elements(r) = Elements(q) \cup {x}
<1>1. Len(q) \in Nat /\ DOMAIN q = 1..Len(q)
  BY LenProperties
<1>2. CASE Contains(q, x)
  <2>1. x \in Elements(q)
    BY <1>1, <1>2 DEF Contains, Elements
  <2> QED
    BY <1>1, <1>2, <2>1
<1>3. CASE ~ Contains(q, x)
  <2>1. r = Append(q, x)
    BY <1>3
  <2>2. /\ r \in Seq(S) /\ Len(r) = Len(q) + 1 /\ DOMAIN r = 1..(Len(q) + 1)
        /\ \A k \in 1..Len(q) : r[k] = q[k]
        /\ r[Len(q) + 1] = x
    <3>1. /\ Append(q, x) \in Seq(S) /\ Len(Append(q, x)) = Len(q) + 1
          /\ \A k \in 1..Len(q) : Append(q, x)[k] = q[k]
          /\ Append(q, x)[Len(q) + 1] = x
      BY AppendProperties
    <3>2. DOMAIN Append(q, x) = 1..Len(Append(q, x))
      BY <3>1, LenProperties
    <3> QED
      BY <2>1, <3>1, <3>2, Zenon
  <2>3. \A k \in 1..(Len(q) + 1) : k \in 1..Len(q) \/ k = Len(q) + 1
    BY <1>1
  <2>4. Elements(r) \subseteq Elements(q) \cup {x}
    BY <1>1, <2>2, <2>3 DEF Elements
  <2>5. Elements(q) \cup {x} \subseteq Elements(r)
    BY <1>1, <2>2 DEF Elements
  <2> QED
    BY <2>2, <2>4, <2>5
<1> QED
  BY <1>2, <1>3

\* The values of the next level: the best one, or up to three around it.
LEMMA NextValuesAre ==
  ASSUME NEW a, NEW best
  PROVE  /\ Listed(NextValues(a, best)) /\ Len(NextValues(a, best)) \in 0..3
         /\ Elements(NextValues(a, best)) = IF Still(a) THEN {best} ELSE Around(a, best)
<1> DEFINE around == [k \in 1..3 |-> Number(Clamped(best + (k - 2) * NextStep(a), a), a)]
           Keeps(u) == u = [k \in 0..3 |-> IF k = 0 THEN <<>>
                                          ELSE IF Contains(u[k - 1], around[k]) THEN u[k - 1]
                                          ELSE Append(u[k - 1], around[k])]
           kept == CHOOSE u : Keeps(u)
<1>1. CASE Still(a)
  <2>1. NextValues(a, best) = <<best>>
    BY <1>1 DEF NextValues, Still
  <2>2. <<best>> \in Seq({best})
    OBVIOUS
  <2>3. Len(<<best>>) \in 0..3 /\ Elements(<<best>>) = {best}
    BY DEF Elements
  <2>4. Listed(<<best>>)
    BY <2>2, SeqIsListed
  <2> QED
    BY <1>1, <2>1, <2>3, <2>4, Zenon
<1>2. CASE ~ Still(a)
  <2>1. NextValues(a, best) = kept[3]
    BY <1>2 DEF NextValues, Still
  <2>2. PICK new : new = around
    OBVIOUS
  <2> DEFINE S == {new[k] : k \in 1..3}
             step == [k \in 1..3 |-> [q \in Seq(S) |-> IF Contains(q, new[k]) THEN q ELSE Append(q, new[k])]]
  <2>3. \A k \in 1..3 : new[k] \in S
    OBVIOUS
  <2> HIDE DEF S, around
  <2>4. step \in [1..3 -> [Seq(S) -> Seq(S)]] /\ <<>> \in Seq(S)
    BY <2>3
  <2>5. \A k \in 1..3, q \in Seq(S) :
            step[k][q] = IF Contains(q, new[k]) THEN q ELSE Append(q, new[k])
    OBVIOUS
  <2> HIDE DEF step
  <2>6. PICK f : Walk(f, 3, Seq(S), <<>>, step)
    <3>1. 3 \in Nat
      OBVIOUS
    <3> QED
      BY <2>4, <3>1, Recursion, Zenon
  <2>7. \A k \in 0..3 : f[k] = IF k = 0 THEN <<>>
                              ELSE IF Contains(f[k - 1], new[k]) THEN f[k - 1]
                              ELSE Append(f[k - 1], new[k])
    <3>1. \A k \in 1..3 : f[k - 1] \in Seq(S) /\ f[k] = step[k][f[k - 1]]
      BY <2>6 DEF Walk
    <3>2. \A k \in 1..3 : f[k] = IF Contains(f[k - 1], new[k]) THEN f[k - 1]
                                ELSE Append(f[k - 1], new[k])
      BY <2>5, <3>1, Zenon
    <3>3. f[0] = <<>>
      BY <2>6 DEF Walk
    <3>4. \A k \in 0..3 : k = 0 \/ k \in 1..3
      OBVIOUS
    <3>5. \A k \in 1..3 : k # 0
      OBVIOUS
    <3> QED
      BY <3>2, <3>3, <3>4, <3>5, Zenon
  <2>8. Keeps(f)
    <3>1. f = [k \in 0..3 |-> f[k]]
      BY <2>6 DEF Walk
    <3> QED
      BY <2>2, <2>7, <3>1, Zenon
  <2>9. Keeps(kept)
    BY <2>8, Zenon
  <2> HIDE DEF kept
  <2>10. \A k \in 0..3 : kept[k] = IF k = 0 THEN <<>>
                                  ELSE IF Contains(kept[k - 1], new[k]) THEN kept[k - 1]
                                  ELSE Append(kept[k - 1], new[k])
    BY <2>2, <2>9, Zenon
  <2>11. f[0] = kept[0]
    BY <2>7, <2>10
  <2>12. ASSUME NEW k \in 1..3, f[k - 1] = kept[k - 1] PROVE f[k] = kept[k]
    <3>1. k \in 0..3 /\ k # 0
      OBVIOUS
    <3> QED
      BY <2>7, <2>10, <2>12, <3>1, Zenon
  <2>13. \A k \in 0..3 : f[k] = kept[k]
    <3>1. 3 \in Nat
      OBVIOUS
    <3> QED
      BY <2>11, <2>12, <3>1, Agreement, ZenonT(60)
  <2>14. kept[3] = f[3]
    BY <2>13
  <2>15. f[3] \in Seq(S) /\ Len(f[3]) \in 0..3 /\ Elements(f[3]) = {new[1], new[2], new[3]}
    <3>1. ASSUME NEW k \in 1..3
          PROVE  f[k] \in Seq(S) /\ Len(f[k]) <= Len(f[k - 1]) + 1 /\ Elements(f[k]) = Elements(f[k - 1]) \cup {new[k]}
      <4>1. f[k - 1] \in Seq(S) /\ new[k] \in S
        BY <2>3, <2>6 DEF Walk
      <4>2. f[k] = IF Contains(f[k - 1], new[k]) THEN f[k - 1] ELSE Append(f[k - 1], new[k])
        <5>1. k \in 0..3 /\ k # 0
          OBVIOUS
        <5> QED
          BY <2>7, <5>1, Zenon
      <4>3. PICK T, q, x, o : T = S /\ q = f[k - 1] /\ x = new[k] /\ o = f[k]
        OBVIOUS
      <4>4. /\ q \in Seq(T) /\ x \in T
            /\ Contains(q, x) => o = q
            /\ ~ Contains(q, x) => o = Append(q, x)
        BY <4>1, <4>2, <4>3, Zenon
      <4>5. o \in Seq(T) /\ Len(o) <= Len(q) + 1 /\ Elements(o) = Elements(q) \cup {x}
        BY <4>4, KeepOne
      <4> QED
        BY <4>3, <4>5, Zenon
    <3>2. f[0] = <<>> /\ Len(f[0]) = 0 /\ Elements(f[0]) = {}
      BY <2>6 DEF Walk, Elements
    <3>3. f[1] \in Seq(S) /\ Len(f[1]) <= 1 /\ Elements(f[1]) = {new[1]}
      BY <3>1, <3>2
    <3>4. f[2] \in Seq(S) /\ Len(f[2]) <= Len(f[1]) + 1 /\ Elements(f[2]) = {new[1], new[2]}
      BY <3>1, <3>3
    <3>5. f[3] \in Seq(S) /\ Len(f[3]) <= Len(f[2]) + 1 /\ Elements(f[3]) = {new[1], new[2], new[3]}
      BY <3>1, <3>4
    <3>6. Len(f[1]) \in Nat /\ Len(f[2]) \in Nat /\ Len(f[3]) \in Nat
      BY <3>3, <3>4, <3>5, LenProperties
    <3>7. Len(f[3]) \in 0..3
      <4>1. \A x, y, z \in Nat : x <= 1 /\ y <= x + 1 /\ z <= y + 1 => z \in 0..3
        OBVIOUS
      <4> QED
        BY <3>3, <3>4, <3>5, <3>6, <4>1, Zenon
    <3> QED
      BY <3>5, <3>7, Zenon
  <2>16. {new[1], new[2], new[3]} = Around(a, best)
    BY <2>2 DEF Around, around
  <2> QED
    BY <1>2, <2>1, <2>14, <2>15, <2>16, SeqIsListed
<1> QED
  BY <1>1, <1>2

LEMMA NextGridIsGrid ==
  ASSUME Grid(grid), NEW best
  PROVE  Grid(NextGrid(best))
<1> DEFINE axes == [a \in DOMAIN grid.axes |-> [grid.axes[a] EXCEPT !.values = NextValues(a, best[a])]]
           g == NextGrid(best)
<1>1. Len(grid.axes) \in Nat /\ DOMAIN grid.axes = 1..Len(grid.axes)
  BY GridIs
<1>2. \A a \in DOMAIN grid.axes : /\ "values" \in DOMAIN axes[a]
                                  /\ axes[a].values = NextValues(a, best[a])
  BY DEF Grid
<1>3. axes \in Seq({axes[a] : a \in DOMAIN grid.axes})
  <2> DEFINE S == {axes[a] : a \in DOMAIN grid.axes}
  <2>1. axes \in [1..Len(grid.axes) -> S]
    BY <1>1
  <2> HIDE DEF S, axes
  <2> QED
    BY <1>1, <2>1, ListIsSeq DEF S
<1>4. g.axes = axes /\ DOMAIN g = DOMAIN grid
  BY DEF NextGrid, Grid
<1> HIDE DEF axes
<1>5. Listed(axes) /\ DOMAIN axes = DOMAIN grid.axes
  BY <1>3, SeqIsListed DEF axes
<1> QED
  BY <1>2, <1>4, <1>5, NextValuesAre DEF Grid

\* Begin and the next level start runs; every other step but the threads' leaves the
\* running part of the state alone.
LEMMA BeginKeeps ==
  ASSUME SweepInv, Begin
  PROVE  SweepInv'
<1>1. setup \in Setups /\ Grid(setup.grid) /\ Grid(Replicated(setup.grid, 1)) /\ UNCHANGED given
  BY ReplicatedGrid, SweepData DEF SweepInv, Begin
<1>2. CASE Refining /\ ~ ValidRefinement
  <2>1. pc' = "failed" /\ grid' = grid
    BY <1>2 DEF Begin
  <2>2. ~ (Refining => ValidRefinement)'
    BY <1>1, <1>2 DEF given, Refining, ValidRefinement
  <2> QED
    BY <1>1, <2>1, <2>2 DEF SweepInv, Failed, given
<1>3. CASE ~ (Refining /\ ~ ValidRefinement)
  <2>1. RunGrid(IF Refining THEN Replicated(setup.grid, 1) ELSE setup.grid)
    BY <1>3 DEF Begin
  <2>2. Grid(IF Refining THEN Replicated(setup.grid, 1) ELSE setup.grid)
    BY <1>1
  <2> QED
    BY <1>1, <2>1, <2>2, RunStarts
<1> QED
  BY <1>2, <1>3

LEMMA EndLevelKeeps ==
  ASSUME SweepInv, EndLevel
  PROVE  SweepInv'
<1>1. Grid(grid) /\ UNCHANGED given
  BY DEF SweepInv, EndLevel
<1>2. CASE pc' = "done" /\ UNCHANGED <<grid, steps, running>>
  BY <1>1, <1>2, SameGrid DEF SweepInv
<1>3. CASE RunGrid(Replicated(NextGrid(BestOf(Entries).params), Level + 1))
  <2>1. Grid(Replicated(NextGrid(BestOf(Entries).params), Level + 1))
    BY <1>1, NextGridIsGrid, ReplicatedGrid
  <2> QED
    BY <1>1, <1>3, <2>1, RunStarts
<1> QED
  BY <1>2, <1>3 DEF EndLevel

LEMMA JoinKeeps ==
  ASSUME SweepInv, Join
  PROVE  SweepInv'
<1>1. /\ setup \in Setups /\ Grid(grid) /\ Racing
      /\ UNCHANGED <<given, grid, running>>
  BY DEF SweepInv, Join
<1>2. CASE failure # None
  <2>1. pc' = "failed" /\ Failed
    BY <1>1, <1>2 DEF Join, Racing, RacingType, Failed
  <2> QED
    BY <1>1, <2>1, SameGrid DEF SweepInv
<1>3. CASE failure = None
  <2>1. /\ pushed = [i \in Indices(grid) |-> 1]
        /\ \A i \in Indices(grid) : ~ Fails(grid, i)
    BY <1>1, <1>3, JoinComplete DEF Join
  <2>2. pc' = "writing" /\ pushed' = pushed
    BY <1>1, <1>3 DEF Join, running
  <2> QED
    BY <1>1, <2>1, <2>2, SameGrid DEF SweepInv
<1> QED
  BY <1>2, <1>3

LEMMA CrashKeeps ==
  ASSUME SweepInv, Crash
  PROVE  SweepInv'
<1>1. setup' = setup /\ grid' = setup.grid /\ pc' = "start"
  BY DEF Crash, given
<1> QED
  BY <1>1, SweepData DEF SweepInv

LEMMA SameRun ==
  ASSUME SweepInv, UNCHANGED <<given, pc, grid, running>>
  PROVE  SweepInv'
<1>1. Racing => Racing'
  BY SameGrid DEF running, Racing, RacingType, PointsTaken, PointsDone, Busy
<1> QED
  BY <1>1, SameGrid DEF SweepInv, running

\* Every step keeps the invariant.
THEOREM SweepInvariance == Spec => []SweepInv
<1>1. Init => SweepInv
  BY SweepData DEF Init, SweepInv
<1>2. SweepInv /\ [Next]_vars => SweepInv'
  <2> SUFFICES ASSUME SweepInv, [Next]_vars PROVE SweepInv'
    OBVIOUS
  <2>1. ASSUME NEW t \in Threads, Fetch(t) \/ Check(t) \/ RunPoint(t) PROVE SweepInv'
    <3>1. pc = "running" /\ pc' = "running" /\ grid' = grid /\ setup' = setup
      BY <2>1 DEF Fetch, Check, RunPoint, given
    <3>2. Racing'
      BY <2>1, <3>1, FetchKeeps, CheckKeeps, RunPointKeeps DEF SweepInv
    <3> QED
      BY <3>1, <3>2 DEF SweepInv
  <2>2. CASE Begin
    BY <2>2, BeginKeeps
  <2>3. CASE Join
    BY <2>3, JoinKeeps
  <2>4. CASE Flush
    <3>1. UNCHANGED <<given, pc, grid, running>>
      BY <2>4 DEF Flush
    <3> QED
      BY <3>1, SameRun
  <2>5. CASE EndLevel
    BY <2>5, EndLevelKeeps
  <2>6. CASE Crash
    BY <2>6, CrashKeeps
  <2>7. CASE \E c \in Calibrations, n \in 1..MaxLevels : Calibrate(c, n)
    <3>1. UNCHANGED <<given, pc, grid, running>>
      BY <2>7 DEF Calibrate
    <3> QED
      BY <3>1, SameRun
  <2>8. CASE UNCHANGED vars
    <3>1. UNCHANGED <<given, pc, grid, running>>
      BY <2>8 DEF vars
    <3> QED
      BY <3>1, SameRun
  <2> QED
    BY <2>1, <2>2, <2>3, <2>4, <2>5, <2>6, <2>7, <2>8 DEF Next
<1> QED
  BY <1>1, <1>2, PTL DEF Spec

\* However many threads race for the points, a run that succeeds has evaluated every
\* point exactly once, none of which failed, and one that fails met a point that fails.
THEOREM RunsComplete == Spec => []RunIsComplete
<1>1. SweepInv => RunIsComplete
  <2> SUFFICES ASSUME SweepInv PROVE RunIsComplete
    OBVIOUS
  <2>1. ASSUME pc = "writing" PROVE Entries = Complete(grid) /\ \A i \in Indices(grid) : ~ Fails(grid, i)
    BY <2>1, SizeType, EntriesComplete DEF SweepInv
  <2> QED
    BY <2>1 DEF RunIsComplete, SweepInv, Failed
<1> QED
  BY <1>1, SweepInvariance, PTL

-----------------------------------------------------------------------------
(* Grid points by their index.                                             *)

\* A place for each axis.
PlacesOn(g, at) == \A a \in 1..Len(g.axes) : at[a] \in 1..Len(g.axes[a].values)

\* The index of the first places, all later ones left out.
IndexOf(f, g, at) ==
    /\ f \in [0..Len(g.axes) -> Nat] /\ f[0] = 0
    /\ \A a \in 1..Len(g.axes) : f[a] = f[a - 1] * Len(g.axes[a].values) + (at[a] - 1)

LEMMA MixedRadix ==
  ASSUME NEW x \in Int, NEW w \in Nat, NEW r \in 0..(w - 1)
  PROVE  (x * w + r) \div w = x /\ (x * w + r) % w = r
OBVIOUS

LEMMA Product ==
  ASSUME NEW x \in Nat, NEW y \in Nat, NEW w \in Nat, NEW r \in 0..(w - 1), x < y
  PROVE  x * w + r < y * w
<1>1. x + 1 <= y
  OBVIOUS
<1>2. (x + 1) * w <= y * w
  BY <1>1
<1>3. (x + 1) * w = x * w + w
  OBVIOUS
<1>4. x * w \in Nat /\ y * w \in Nat
  OBVIOUS
<1> QED
  BY <1>2, <1>3, <1>4

LEMMA PlaceIs ==
  ASSUME NEW g, Grid(g), NEW at, PlacesOn(g, at), NEW a, a \in 1..Len(g.axes)
  PROVE  /\ Len(g.axes[a].values) \in Nat
         /\ at[a] \in Nat /\ at[a] - 1 \in Nat
         /\ at[a] - 1 \in 0..(Len(g.axes[a].values) - 1)
<1>1. Len(g.axes[a].values) \in Nat /\ at[a] \in 1..Len(g.axes[a].values)
  BY GridIs DEF PlacesOn
<1> QED
  BY <1>1

LEMMA IndexStep ==
  ASSUME NEW g, Grid(g), NEW at, NEW f, IndexOf(f, g, at), NEW a, a \in 1..Len(g.axes)
  PROVE  /\ f[a - 1] \in Nat /\ f[a] \in Nat
         /\ f[a] = f[a - 1] * Len(g.axes[a].values) + (at[a] - 1)
<1>1. Len(g.axes) \in Nat
  BY GridIs
<1>2. a \in 0..Len(g.axes) /\ a - 1 \in 0..Len(g.axes)
  BY <1>1
<1>3. f[a - 1] \in Nat /\ f[a] \in Nat
  BY <1>2 DEF IndexOf
<1>4. f[a] = f[a - 1] * Len(g.axes[a].values) + (at[a] - 1)
  BY DEF IndexOf
<1> QED
  BY <1>3, <1>4

LEMMA CountStep ==
  ASSUME NEW g, Grid(g), NEW c, Counts(c, g), NEW a, a \in 1..Len(g.axes)
  PROVE  c[a - 1] \in Nat /\ c[a] \in Nat /\ c[a] = c[a - 1] * Len(g.axes[a].values)
<1>1. Len(g.axes) \in Nat
  BY GridIs
<1>2. a \in 0..Len(g.axes) /\ a - 1 \in 0..Len(g.axes)
  BY <1>1
<1>3. c[a - 1] \in Nat /\ c[a] \in Nat
  BY <1>2 DEF Counts
<1>4. c[a] = c[a - 1] * Len(g.axes[a].values)
  BY DEF Counts
<1> QED
  BY <1>3, <1>4

LEMMA IndexExists ==
  ASSUME NEW g, Grid(g), NEW at, PlacesOn(g, at)
  PROVE  \E f : IndexOf(f, g, at)
<1> DEFINE n == Len(g.axes)
           step == [a \in 1..n |-> [x \in Nat |-> x * Len(g.axes[a].values) + (at[a] - 1)]]
<1>1. /\ n \in Nat
      /\ \A a \in 1..n : Len(g.axes[a].values) \in Nat /\ at[a] - 1 \in Nat
  BY GridIs, PlaceIs
<1>2. /\ step \in [1..n -> [Nat -> Nat]]
      /\ \A a \in 1..n, x \in Nat : step[a][x] = x * Len(g.axes[a].values) + (at[a] - 1)
  <2>1. \A a \in 1..n, x \in Nat : x * Len(g.axes[a].values) + (at[a] - 1) \in Nat
    <3> SUFFICES ASSUME NEW a \in 1..n, NEW x \in Nat PROVE x * Len(g.axes[a].values) + (at[a] - 1) \in Nat
      OBVIOUS
    <3>1. Len(g.axes[a].values) \in Nat /\ at[a] - 1 \in Nat
      BY <1>1
    <3>2. \A y, z \in Nat : x * y + z \in Nat
      OBVIOUS
    <3> QED
      BY <3>1, <3>2, Zenon
  <2> QED
    BY <2>1, Zenon
<1> HIDE DEF step
<1>3. PICK f : Walk(f, n, Nat, 0, step)
  BY <1>1, <1>2, Recursion, Zenon
<1>4. ASSUME NEW a \in 1..n PROVE f[a] = f[a - 1] * Len(g.axes[a].values) + (at[a] - 1)
  <2>1. f[a - 1] \in Nat
    BY <1>1, <1>3 DEF Walk
  <2> QED
    BY <1>2, <1>3, <2>1 DEF Walk
<1>5. IndexOf(f, g, at)
  BY <1>3, <1>4 DEF IndexOf, Walk
<1> QED
  BY <1>5

\* An index of places is one of the grid.
LEMMA IndexFits ==
  ASSUME NEW g, Grid(g), NEW at, PlacesOn(g, at), NEW f, IndexOf(f, g, at)
  PROVE  f[Len(g.axes)] \in Indices(g)
<1> DEFINE n == Len(g.axes)
<1>1. n \in Nat /\ \A a \in 1..n : Len(g.axes[a].values) \in Nat
  BY GridIs
<1>2. PICK c : Counts(c, g) /\ Size(g) = c[n]
  BY SizeIs
<1>3. PICK below : below = [a \in 0..n |-> f[a] < c[a]]
  OBVIOUS
<1>4. PICK yes : yes = [a \in 0..n |-> TRUE]
  OBVIOUS
<1>5. below[0] = yes[0]
  <2>1. 0 \in 0..n
    BY <1>1
  <2>2. c[0] = 1 /\ f[0] = 0
    BY <1>2 DEF Counts, IndexOf
  <2>3. f[0] < c[0]
    BY <2>2
  <2>4. below[0] = TRUE
    BY <1>3, <2>1, <2>3
  <2>5. yes[0] = TRUE
    BY <1>4, <2>1
  <2> QED
    BY <2>4, <2>5
<1>6. ASSUME NEW a \in 1..n, below[a - 1] = yes[a - 1] PROVE below[a] = yes[a]
  <2>1. /\ a \in 0..n /\ a - 1 \in 0..n /\ f[a - 1] \in Nat /\ c[a - 1] \in Nat
        /\ Len(g.axes[a].values) \in Nat /\ at[a] - 1 \in 0..(Len(g.axes[a].values) - 1)
    <3>1. a \in 0..n /\ a - 1 \in 0..n
      BY <1>1
    <3>2. f[a - 1] \in Nat
      BY IndexStep
    <3>3. c[a - 1] \in Nat
      BY <1>2, CountStep
    <3>4. Len(g.axes[a].values) \in Nat /\ at[a] - 1 \in 0..(Len(g.axes[a].values) - 1)
      BY PlaceIs
    <3> QED
      BY <3>1, <3>2, <3>3, <3>4
  <2>2. f[a - 1] < c[a - 1]
    BY <1>3, <1>4, <1>6, <2>1
  <2>3. f[a - 1] * Len(g.axes[a].values) + (at[a] - 1) < c[a - 1] * Len(g.axes[a].values)
    BY <2>1, <2>2, Product
  <2>4. f[a] < c[a]
    BY <1>2, <2>3, CountStep, IndexStep
  <2> QED
    BY <1>3, <1>4, <2>1, <2>4
<1>7. \A a \in 0..n : below[a] = yes[a]
  BY <1>1, <1>5, <1>6, Agreement, ZenonT(60)
<1>8. f[n] < c[n] /\ f[n] \in Nat /\ c[n] \in Nat
  <2>1. n \in 0..n
    BY <1>1
  <2>2. f[n] \in Nat /\ c[n] \in Nat
    BY <1>2, <2>1 DEF Counts, IndexOf
  <2>3. f[n] < c[n]
    BY <1>3, <1>4, <1>7, <2>1
  <2> QED
    BY <2>2, <2>3
<1> QED
  BY <1>2, <1>8 DEF Indices

\* What Rest leaves is what remains after each division.
LEMMA RestFrom ==
  ASSUME NEW g, Grid(g), NEW i, NEW b, b \in [0..Len(g.axes) -> Nat], b[0] = i,
         \A k \in 1..Len(g.axes) : b[k] = b[k - 1] \div Len(g.axes[Len(g.axes) + 1 - k].values)
  PROVE  \A a \in 1..Len(g.axes) : Rest(g, i)[a] = b[Len(g.axes) - a]
<1> DEFINE n == Len(g.axes)
           Leaves(u) == u = [k \in 0..n |-> IF k = 0 THEN i
                                           ELSE u[k - 1] \div Len(g.axes[n + 1 - k].values)]
<1>1. n \in Nat
  BY GridIs
<1>2. Leaves(b)
  <2>1. b = [k \in 0..n |-> b[k]]
    OBVIOUS
  <2>2. \A k \in 0..n : k = 0 \/ k \in 1..n
    OBVIOUS
  <2>3. \A k \in 0..n : b[k] = IF k = 0 THEN i ELSE b[k - 1] \div Len(g.axes[n + 1 - k].values)
    BY <2>2, Zenon
  <2> QED
    BY <2>1, <2>3, Zenon
<1>3. PICK rest : Leaves(rest) /\ Rest(g, i) = [a \in 1..n |-> rest[n - a]]
  <2> DEFINE chosen == CHOOSE u : Leaves(u)
  <2>1. Leaves(chosen)
    BY <1>2
  <2>2. Rest(g, i) = [a \in 1..n |-> chosen[n - a]]
    BY DEF Rest
  <2> QED
    BY <2>1, <2>2
<1>4. \A k \in 0..n : rest[k] = IF k = 0 THEN i ELSE rest[k - 1] \div Len(g.axes[n + 1 - k].values)
  BY <1>3, Zenon
<1>5. 0 \in 0..n /\ \A k \in 1..n : k \in 0..n /\ k # 0
  BY <1>1
<1>6. b[0] = rest[0]
  BY <1>4, <1>5, Zenon
<1>7. ASSUME NEW k \in 1..n, b[k - 1] = rest[k - 1] PROVE b[k] = rest[k]
  BY <1>4, <1>5, <1>7, Zenon
<1>8. \A k \in 0..n : b[k] = rest[k]
  BY <1>1, <1>6, <1>7, Agreement, ZenonT(60)
<1>9. \A a \in 1..n : n - a \in 0..n
  BY <1>1
<1> QED
  BY <1>3, <1>8, <1>9, Zenon

LEMMA RestType ==
  ASSUME NEW g, Grid(g), \A a \in DOMAIN g.axes : g.axes[a].values # <<>>, NEW i \in Nat
  PROVE  \A a \in 1..Len(g.axes) : Rest(g, i)[a] \in Nat
<1> DEFINE n == Len(g.axes)
           step == [k \in 1..n |-> [x \in Nat |-> x \div Len(g.axes[n + 1 - k].values)]]
<1>1. n \in Nat /\ DOMAIN g.axes = 1..n
  BY GridIs
<1>2. ASSUME NEW a \in 1..n PROVE Len(g.axes[a].values) \in Nat \ {0}
  <2>1. g.axes[a].values \in Seq(Range(g.axes[a].values)) /\ g.axes[a].values # <<>>
    BY <1>1 DEF Grid, Listed
  <2> QED
    BY <2>1, EmptySeq, LenProperties
<1>3. ASSUME NEW k \in 1..n PROVE Len(g.axes[n + 1 - k].values) \in Nat \ {0}
  <2>1. n + 1 - k \in 1..n
    BY <1>1
  <2> QED
    BY <1>2, <2>1
<1>4. /\ step \in [1..n -> [Nat -> Nat]]
      /\ \A k \in 1..n, x \in Nat : step[k][x] = x \div Len(g.axes[n + 1 - k].values)
  <2>1. \A x \in Nat, w \in Nat \ {0} : x \div w \in Nat
    OBVIOUS
  <2>2. \A k \in 1..n, x \in Nat : x \div Len(g.axes[n + 1 - k].values) \in Nat
    BY <1>3, <2>1, Zenon
  <2> QED
    BY <2>2, Zenon
<1> HIDE DEF step
<1>5. PICK b : Walk(b, n, Nat, i, step)
  BY <1>1, <1>4, Recursion, Zenon
<1>6. ASSUME NEW k \in 1..n PROVE b[k] = b[k - 1] \div Len(g.axes[n + 1 - k].values)
  <2>1. b[k - 1] \in Nat
    BY <1>1, <1>5 DEF Walk
  <2> QED
    BY <1>4, <1>5, <2>1 DEF Walk
<1>7. b \in [0..n -> Nat] /\ b[0] = i
  BY <1>5 DEF Walk
<1>8. \A a \in 1..n : Rest(g, i)[a] = b[n - a]
  BY <1>6, <1>7, RestFrom, SMTT(30)
<1>9. \A a \in 1..n : n - a \in 0..n
  BY <1>1
<1> QED
  BY <1>7, <1>8, <1>9

\* What Rest leaves of the index of places is the index of the first of them.
LEMMA RestIs ==
  ASSUME NEW g, Grid(g), NEW at, PlacesOn(g, at), NEW f, IndexOf(f, g, at)
  PROVE  \A a \in 1..Len(g.axes) : Rest(g, f[Len(g.axes)])[a] = f[a]
<1> DEFINE n == Len(g.axes)
           i == f[n]
<1>1. n \in Nat /\ \A a \in 1..n : Len(g.axes[a].values) \in Nat
  BY GridIs
<1>2. PICK b : b = [k \in 0..n |-> f[n - k]]
  OBVIOUS
<1>3. ASSUME NEW k \in 1..n PROVE b[k] = b[k - 1] \div Len(g.axes[n + 1 - k].values)
  <2>1. PICK a : a = n + 1 - k
    OBVIOUS
  <2>2. /\ a \in 1..n /\ a - 1 \in 0..n /\ n - k = a - 1 /\ n - (k - 1) = a
        /\ k \in 0..n /\ k - 1 \in 0..n
    BY <1>1, <2>1
  <2>3. b[k] = f[a - 1] /\ b[k - 1] = f[a]
    BY <1>2, <2>2
  <2>4. f[a - 1] \in Nat /\ f[a] = f[a - 1] * Len(g.axes[a].values) + (at[a] - 1)
    BY <2>2, IndexStep
  <2>5. Len(g.axes[a].values) \in Nat /\ at[a] - 1 \in 0..(Len(g.axes[a].values) - 1)
    BY <2>2, PlaceIs
  <2>6. f[a] \div Len(g.axes[a].values) = f[a - 1]
    <3>1. (f[a - 1] * Len(g.axes[a].values) + (at[a] - 1)) \div Len(g.axes[a].values) = f[a - 1]
      <4>1. f[a - 1] \in Int
        BY <2>4
      <4> QED
        BY <2>5, <4>1, MixedRadix, Zenon
    <3> QED
      BY <2>4, <3>1, Zenon
  <2> QED
    BY <2>1, <2>3, <2>6
<1>4. b \in [0..n -> Nat] /\ b[0] = i
  <2>1. \A k \in 0..n : n - k \in 0..n
    BY <1>1
  <2>2. f \in [0..n -> Nat]
    BY DEF IndexOf
  <2>3. 0 \in 0..n /\ n - 0 = n
    BY <1>1
  <2> QED
    BY <1>2, <2>1, <2>2, <2>3
<1>5. \A a \in 1..n : Rest(g, i)[a] = b[n - a]
  BY <1>3, <1>4, RestFrom, SMTT(30)
<1>6. ASSUME NEW a \in 1..n PROVE b[n - a] = f[a]
  <2>1. n - a \in 0..n /\ n - (n - a) = a
    BY <1>1
  <2> QED
    BY <1>2, <2>1
<1> QED
  BY <1>5, <1>6

\* The point of an index of places has the values at those places.
LEMMA PointOfIndex ==
  ASSUME NEW g, Grid(g), NEW at, PlacesOn(g, at), NEW f, IndexOf(f, g, at)
  PROVE  Point(g, f[Len(g.axes)]) = [a \in DOMAIN g.axes |-> g.axes[a].values[at[a]]]
<1> DEFINE n == Len(g.axes)
           i == f[n]
<1>1. n \in Nat /\ DOMAIN g.axes = 1..n /\ \A a \in 1..n : Len(g.axes[a].values) \in Nat
  BY GridIs
<1>2. ASSUME NEW a \in 1..n PROVE 1 + (Rest(g, i)[a] % Len(g.axes[a].values)) = at[a]
  <2>1. /\ f[a - 1] \in Nat /\ Len(g.axes[a].values) \in Nat
        /\ at[a] \in Nat /\ at[a] - 1 \in 0..(Len(g.axes[a].values) - 1)
        /\ f[a] = f[a - 1] * Len(g.axes[a].values) + (at[a] - 1)
    <3>1. f[a - 1] \in Nat /\ f[a] = f[a - 1] * Len(g.axes[a].values) + (at[a] - 1)
      BY IndexStep
    <3>2. /\ Len(g.axes[a].values) \in Nat /\ at[a] \in Nat
          /\ at[a] - 1 \in 0..(Len(g.axes[a].values) - 1)
      BY PlaceIs
    <3> QED
      BY <3>1, <3>2
  <2>2. f[a] % Len(g.axes[a].values) = at[a] - 1
    <3>1. (f[a - 1] * Len(g.axes[a].values) + (at[a] - 1)) % Len(g.axes[a].values) = at[a] - 1
      <4>1. f[a - 1] \in Int
        BY <2>1
      <4> QED
        BY <2>1, <4>1, MixedRadix, Zenon
    <3> QED
      BY <2>1, <3>1, Zenon
  <2>3. Rest(g, i)[a] = f[a]
    BY RestIs
  <2> QED
    BY <2>1, <2>2, <2>3
<1> QED
  BY <1>1, <1>2 DEF Point

\* The least of some naturals is one of them.
LEMMA MinIsOne ==
  ASSUME NEW B \in SUBSET Nat, B # {}
  PROVE  Min(B) \in B /\ \A c \in B : Min(B) <= c
<1>1. \E b \in B : \A c \in B : b <= c
  BY LeastOf
<1> QED
  BY <1>1 DEF Min

\* A value that is on the axis is found, at its first place.
LEMMA ClosestIs ==
  ASSUME NEW axis, Listed(axis.values), NEW want,
         axis.kind # "word" => want \in Int /\ \A k \in DOMAIN axis.values : axis.values[k] \in Int
  PROVE  /\ ClosestOn(axis, want) = None \/ ClosestOn(axis, want) \in DOMAIN axis.values
         /\ (\E k \in DOMAIN axis.values : axis.values[k] = want) =>
               /\ ClosestOn(axis, want) \in DOMAIN axis.values
               /\ axis.values[ClosestOn(axis, want)] = want
<1> DEFINE Places == DOMAIN axis.values
           Nearer(k, l) == LET d == AbsDiff(axis.values[k], want)
                               e == AbsDiff(axis.values[l], want)
                           IN d < e \/ (d = e /\ k <= l)
           Closest(k) == IF axis.kind = "word" THEN axis.values[k] = want
                         ELSE \A l \in Places : Nearer(k, l)
           found == {k \in Places : Closest(k)}
<1>1. Places \in SUBSET Nat /\ found \in SUBSET Places
  BY ListedIs
<1>2. ClosestOn(axis, want) = IF found = {} THEN None ELSE Min(found)
  BY DEF ClosestOn
<1>3. found # {} => Min(found) \in found
  <2> HIDE DEF found
  <2> QED
    BY <1>1, MinIsOne
<1>4. ASSUME NEW k \in Places, axis.values[k] = want
      PROVE  found # {} /\ \A m \in found : axis.values[m] = want
  <2>1. CASE axis.kind = "word"
    BY <1>4, <2>1
  <2>2. CASE axis.kind # "word"
    <3>1. want \in Int /\ \A l \in Places : axis.values[l] \in Int
      BY <2>2
    <3>2. \A l \in Places : /\ AbsDiff(axis.values[l], want) \in Nat
                            /\ AbsDiff(axis.values[l], want) = 0 <=> axis.values[l] = want
      BY <3>1 DEF AbsDiff
    <3> DEFINE Same == {l \in Places : axis.values[l] = want}
    <3>3. PICK m \in Same : \A l \in Same : m <= l
      <4>1. Same \in SUBSET Nat /\ Same # {}
        BY <1>1, <1>4
      <4> HIDE DEF Same
      <4> QED
        BY <4>1, LeastOf
    <3>4. \A l \in Places : Nearer(m, l)
      <4> TAKE l \in Places
      <4>1. CASE axis.values[l] = want
        BY <3>2, <3>3, <4>1
      <4>2. CASE axis.values[l] # want
        BY <3>2, <3>3, <4>2
      <4> QED
        BY <4>1, <4>2
    <3>5. found # {}
      BY <2>2, <3>3, <3>4
    <3>6. ASSUME NEW l \in found PROVE axis.values[l] = want
      <4>1. l \in Places /\ Nearer(l, k)
        BY <1>4, <2>2, <3>6
      <4>2. AbsDiff(axis.values[k], want) = 0 /\ AbsDiff(axis.values[l], want) \in Nat
        BY <1>4, <3>2, <4>1
      <4>3. AbsDiff(axis.values[l], want) = 0
        BY <4>1, <4>2
      <4> QED
        BY <3>2, <4>1, <4>3
    <3> QED
      BY <3>5, <3>6
  <2> QED
    BY <2>1, <2>2
<1> HIDE DEF found
<1> QED
  BY <1>1, <1>2, <1>3, <1>4

\* The place of the closest value on each axis.
Closest(g, params) == [a \in DOMAIN g.axes |-> ClosestOn(g.axes[a], params[a])]

\* The nearest point, when every axis has a closest value.
LEMMA NearestIs ==
  ASSUME NEW g, Grid(g), NEW params,
         \A a \in DOMAIN g.axes : Closest(g, params)[a] \in {None} \cup DOMAIN g.axes[a].values
  PROVE  \/ Nearest(g, params) = None /\ \E a \in DOMAIN g.axes : Closest(g, params)[a] = None
         \/ /\ PlacesOn(g, Closest(g, params))
            /\ \E f : IndexOf(f, g, Closest(g, params)) /\ Nearest(g, params) = f[Len(g.axes)]
<1> DEFINE n == Len(g.axes)
           at == Closest(g, params)
           Indexed(u) == u = [a \in 0..n |-> IF a = 0 THEN 0
                                             ELSE u[a - 1] * Len(g.axes[a].values) + (at[a] - 1)]
           chosen == CHOOSE u : Indexed(u)
<1>1. n \in Nat /\ DOMAIN g.axes = 1..n /\ \A a \in 1..n : DOMAIN g.axes[a].values = 1..Len(g.axes[a].values)
  BY GridIs
<1>2. Nearest(g, params) = IF \E a \in DOMAIN at : at[a] = None THEN None ELSE chosen[n]
  BY Zenon DEF Nearest, Closest
<1>5. DOMAIN at = DOMAIN g.axes
  BY DEF Closest
<1> HIDE DEF at
<1>3. CASE \E a \in DOMAIN at : at[a] = None
  BY <1>2, <1>3, <1>5 DEF at
<1>4. CASE ~ \E a \in DOMAIN at : at[a] = None
  <2>1. PlacesOn(g, at)
    BY <1>1, <1>4, <1>5 DEF PlacesOn, at
  <2>2. PICK f : IndexOf(f, g, at)
    BY <2>1, IndexExists
  <2>12. f[0] = 0 /\ \A a \in 1..n : f[a] = f[a - 1] * Len(g.axes[a].values) + (at[a] - 1)
    BY <2>2 DEF IndexOf
  <2>3. \A a \in 0..n : f[a] = IF a = 0 THEN 0 ELSE f[a - 1] * Len(g.axes[a].values) + (at[a] - 1)
    <3>2. \A a \in 0..n : a = 0 \/ a \in 1..n
      OBVIOUS
    <3> QED
      BY <2>12, <3>2, Zenon
  <2>4. Indexed(f)
    <3>1. f = [a \in 0..n |-> f[a]]
      BY <2>2 DEF IndexOf
    <3> QED
      BY <2>3, <3>1, Zenon
  <2>5. PICK index : index = chosen /\ Indexed(index)
    BY <2>4, Zenon
  <2> HIDE DEF chosen
  <2>6. \A a \in 0..n : index[a] = IF a = 0 THEN 0 ELSE index[a - 1] * Len(g.axes[a].values) + (at[a] - 1)
    BY <2>5, Zenon
  <2>7. 0 \in 0..n /\ n \in 0..n /\ \A a \in 1..n : a \in 0..n /\ a # 0
    BY <1>1
  <2>8. f[0] = index[0]
    BY <2>6, <2>7, <2>12, Zenon
  <2>9. ASSUME NEW a \in 1..n, f[a - 1] = index[a - 1] PROVE f[a] = index[a]
    BY <2>6, <2>7, <2>9, <2>12, Zenon
  <2>10. \A a \in 0..n : f[a] = index[a]
    <3>1. n \in Nat
      BY <1>1
    <3>2. \A a \in 1..n : f[a - 1] = index[a - 1] => f[a] = index[a]
      BY <2>9
    <3> HIDE DEF n
    <3> QED
      BY <2>8, <3>1, <3>2, Agreement, ZenonT(60)
  <2>11. Nearest(g, params) = f[n]
    BY <1>2, <1>4, <2>5, <2>7, <2>10
  <2> QED
    BY <2>1, <2>2, <2>11 DEF at
<1> QED
  BY <1>3, <1>4

\* The parameters of a hidden point are numbers where the grid has numbers.
Sought(g, hidden) ==
    \A a \in DOMAIN g.axes : g.axes[a].kind # "word" =>
        hidden[a] \in Int /\ \A k \in DOMAIN g.axes[a].values : g.axes[a].values[k] \in Int

LEMMA ClosestOnAxis ==
  ASSUME NEW g, Grid(g), NEW hidden, Sought(g, hidden), NEW a, a \in DOMAIN g.axes
  PROVE  /\ Closest(g, hidden)[a] \in {None} \cup DOMAIN g.axes[a].values
         /\ (\E k \in DOMAIN g.axes[a].values : g.axes[a].values[k] = hidden[a]) =>
               /\ Closest(g, hidden)[a] \in DOMAIN g.axes[a].values
               /\ g.axes[a].values[Closest(g, hidden)[a]] = hidden[a]
<1>1. Closest(g, hidden)[a] = ClosestOn(g.axes[a], hidden[a])
  BY DEF Closest
<1>2. Listed(g.axes[a].values)
  BY DEF Grid
<1>3. g.axes[a].kind # "word" =>
         hidden[a] \in Int /\ \A k \in DOMAIN g.axes[a].values : g.axes[a].values[k] \in Int
  BY DEF Sought
<1> QED
  BY <1>1, <1>2, <1>3, ClosestIs

\* The nearest point is a point of the grid.
LEMMA NearestFits ==
  ASSUME NEW g, Grid(g), NEW hidden, Sought(g, hidden), Nearest(g, hidden) # None
  PROVE  Nearest(g, hidden) \in Indices(g)
BY ClosestOnAxis, NearestIs, IndexFits

\* The parameters of a point are values of the axes.
LEMMA PointOnGrid ==
  ASSUME NEW g, Grid(g), \A a \in DOMAIN g.axes : g.axes[a].values # <<>>,
         NEW i, i \in Indices(g), NEW a, a \in DOMAIN g.axes
  PROVE  \E k \in DOMAIN g.axes[a].values : g.axes[a].values[k] = Point(g, i)[a]
<1>1. /\ DOMAIN g.axes = 1..Len(g.axes)
      /\ DOMAIN g.axes[a].values = 1..Len(g.axes[a].values)
  BY GridIs
<1>2. i \in Nat
  BY SizeType DEF Indices
<1>3. Rest(g, i)[a] \in Nat
  BY <1>1, <1>2, RestType
<1>4. Len(g.axes[a].values) \in Nat \ {0}
  <2>1. g.axes[a].values \in Seq(Range(g.axes[a].values)) /\ g.axes[a].values # <<>>
    BY DEF Grid, Listed
  <2> QED
    BY <2>1, EmptySeq, LenProperties
<1>5. 1 + (Rest(g, i)[a] % Len(g.axes[a].values)) \in 1..Len(g.axes[a].values)
  <2>1. \A x \in Nat, w \in Nat \ {0} : 1 + (x % w) \in 1..w
    OBVIOUS
  <2> QED
    BY <1>3, <1>4, <2>1, Zenon
<1>6. Point(g, i)[a] = g.axes[a].values[1 + (Rest(g, i)[a] % Len(g.axes[a].values))]
  BY Zenon DEF Point
<1> QED
  BY <1>1, <1>5, <1>6, Zenon

\* A hidden point that is a grid point is the nearest one.
LEMMA HiddenIsNearest ==
  ASSUME NEW g, Grid(g), NEW hidden, Sought(g, hidden),
         \A a \in DOMAIN g.axes : g.axes[a].values # <<>>,
         NEW i \in Indices(g), Point(g, i) = hidden
  PROVE  Nearest(g, hidden) # None /\ Point(g, Nearest(g, hidden)) = hidden
<1> DEFINE n == Len(g.axes)
           at == Closest(g, hidden)
<1>1. n \in Nat /\ DOMAIN g.axes = 1..n /\ \A a \in 1..n : DOMAIN g.axes[a].values = 1..Len(g.axes[a].values)
  BY GridIs
<1>3. hidden = [a \in DOMAIN g.axes |-> g.axes[a].values[1 + (Rest(g, i)[a] % Len(g.axes[a].values))]]
  BY DEF Point
<1>4. ASSUME NEW a \in DOMAIN g.axes
      PROVE  \E k \in DOMAIN g.axes[a].values : g.axes[a].values[k] = hidden[a]
  BY PointOnGrid
<1>5. ASSUME NEW a \in DOMAIN g.axes
      PROVE  at[a] \in DOMAIN g.axes[a].values /\ g.axes[a].values[at[a]] = hidden[a]
  BY <1>4, ClosestOnAxis
<1>6. ASSUME NEW a \in DOMAIN g.axes PROVE at[a] # None
  BY <1>1, <1>5, SweepData
<1>7. PICK f : PlacesOn(g, at) /\ IndexOf(f, g, at) /\ Nearest(g, hidden) = f[n]
  BY <1>6, ClosestOnAxis, NearestIs
<1>8. f[n] # None
  BY <1>1, <1>7, SweepData DEF IndexOf
<1>9. Point(g, f[n]) = [a \in DOMAIN g.axes |-> g.axes[a].values[at[a]]]
  BY <1>7, PointOfIndex
<1>10. [a \in DOMAIN g.axes |-> g.axes[a].values[at[a]]] = hidden
  <2>1. hidden = [a \in DOMAIN g.axes |-> hidden[a]]
    BY <1>3
  <2> QED
    BY <1>5, <2>1
<1> QED
  BY <1>7, <1>8, <1>9, <1>10

-----------------------------------------------------------------------------
(* Ledgers, and calibrations from them.                                    *)

\* The places up to that of a point, the best first, and the points that do better.
Upto(med, n, best) ==
    {k \in 1..n : \/ med[k - 1] < med[best]
                  \/ med[k - 1] = med[best] /\ k - 1 <= best}
Ahead(med, n, best) ==
    {i \in 0..(n - 1) : \/ med[i] < med[best]
                        \/ med[i] = med[best] /\ i < best}

\* The rank of a point counts it and the points that do better.
LEMMA RankCounts ==
  ASSUME NEW n \in Nat, NEW med, \A i \in 0..(n - 1) : med[i] \in Int, NEW best \in 0..(n - 1)
  PROVE  Cardinality(Upto(med, n, best)) = 1 + Cardinality(Ahead(med, n, best))
<1> DEFINE ahead == Ahead(med, n, best)
           places == Upto(med, n, best)
           upto == ahead \cup {best}
           place == [i \in upto |-> i + 1]
<1> USE DEF Ahead, Upto
<1>1. IsFiniteSet(ahead)
  <2>1. IsFiniteSet(0..(n - 1))
    BY FS_Interval
  <2> QED
    BY <2>1, FS_Subset
<1>2. best \notin ahead
  OBVIOUS
<1>3. IsFiniteSet(upto) /\ Cardinality(upto) = Cardinality(ahead) + 1
  <2> HIDE DEF ahead
  <2> QED
    BY <1>1, <1>2, FS_AddElement
<1>4. place \in [upto -> places]
  <2>1. ASSUME NEW i \in upto PROVE i + 1 \in places
    <3>1. i \in 0..(n - 1) /\ i + 1 \in 1..n /\ i + 1 - 1 = i
      OBVIOUS
    <3>2. med[i] < med[best] \/ (med[i] = med[best] /\ i <= best)
      OBVIOUS
    <3> QED
      BY <3>1, <3>2
  <2> QED
    BY <2>1
<1>5. \A i, j \in upto : place[i] = place[j] => i = j
  <2>1. \A i \in upto : i \in Nat
    OBVIOUS
  <2> HIDE DEF upto
  <2> QED
    BY <2>1
<1>6. ASSUME NEW k \in places PROVE \E i \in upto : place[i] = k
  <2>1. k \in 1..n /\ k - 1 \in 0..(n - 1) /\ k - 1 + 1 = k
    OBVIOUS
  <2>2. med[k - 1] < med[best] \/ (med[k - 1] = med[best] /\ k - 1 < best) \/ k - 1 = best
    BY <2>1
  <2>3. k - 1 \in upto
    BY <2>1, <2>2
  <2>4. place[k - 1] = k
    BY <2>1, <2>3
  <2> QED
    BY <2>3, <2>4
<1> HIDE DEF Ahead, Upto, ahead, places, upto, place
<1>7. place \in Bijection(upto, places)
  BY <1>4, <1>5, <1>6, Zenon DEF Bijection, Injection, Surjection, IsInjective
<1>8. Cardinality(places) = Cardinality(upto)
  BY <1>3, <1>7, FS_Bijection DEF ExistsBijection
<1>9. Cardinality(ahead) \in Nat
  BY <1>1, FS_CardinalityType
<1>10. Cardinality(places) = 1 + Cardinality(ahead)
  BY <1>3, <1>8, <1>9
<1> QED
  BY <1>10, Zenon DEF ahead, places

LEMMA MedianType ==
  ASSUME NEW g, NEW i
  PROVE  Fails(g, i) \/ Median(g, i) \in Nat
BY DEF Fails, Median

\* A ledger holds a first part of what a run that succeeded found.
LedgerOf(file) ==
    file # None /\ file.header # None =>
        LET g == file.header.grid IN
        /\ \A i \in Indices(g) : ~ Fails(g, i)
        /\ \E m \in 0..Size(g) : file.entries = SubSeq(Complete(g), 1, m)

\* A calibration rests on all that a run found.
CalibrationFrom(c) ==
    /\ ValidGrid(c.grid)
    /\ \A i \in Indices(c.grid) : ~ Fails(c.grid, i)
    /\ calibration = CalibrationOf(c, Complete(c.grid))

LedgerInv ==
    /\ DOMAIN files = 1..MaxLevels
    /\ \A n \in 1..MaxLevels : LedgerOf(files[n])
    /\ calibration # None => \E c \in Calibrations : CalibrationFrom(c)

LEMMA CompleteIs ==
  ASSUME NEW g, Grid(g)
  PROVE  /\ Complete(g) \in Seq({Entry(g, i) : i \in Indices(g)}) /\ Len(Complete(g)) = Size(g)
         /\ \A k \in 1..Size(g) : Complete(g)[k] = Entry(g, k - 1)
<1> DEFINE S == {Entry(g, i) : i \in Indices(g)}
           n == Size(g)
<1>1. n \in Nat
  BY SizeType
<1>2. \A k \in 1..n : Entry(g, k - 1) \in S
  BY <1>1 DEF Indices
<1>3. Complete(g) \in [1..n -> S] /\ \A k \in 1..n : Complete(g)[k] = Entry(g, k - 1)
  BY <1>2 DEF Complete
<1> HIDE DEF S, n
<1>4. Complete(g) \in Seq(S) /\ Len(Complete(g)) = n
  BY <1>1, <1>3, ListIsSeq
<1> QED
  BY <1>3, <1>4 DEF S, n

\* A first part as long as the whole is the whole.
LEMMA WholeLedger ==
  ASSUME NEW S, NEW s \in Seq(S), NEW m \in 0..Len(s), Len(SubSeq(s, 1, m)) = Len(s)
  PROVE  SubSeq(s, 1, m) = s
<1>1. Len(s) \in Nat
  BY LenProperties
<1>2. CASE m = 0
  <2>1. SubSeq(s, 1, m) = <<>>
    BY <1>2, SubSeqEmpty
  <2>2. Len(s) = 0
    BY <2>1
  <2> QED
    BY <2>1, <2>2, EmptySeq
<1>3. CASE m # 0
  <2>1. /\ SubSeq(s, 1, m) \in Seq(S) /\ Len(SubSeq(s, 1, m)) = m
        /\ \A i \in 1..m : SubSeq(s, 1, m)[i] = s[i]
    BY <1>1, <1>3, SubSeqProperties
  <2> QED
    BY <2>1, SeqEqual
<1> QED
  BY <1>2, <1>3

\* What a calibration says is true.
LEMMA CalibrationHolds ==
  ASSUME NEW c \in Calibrations, CalibrationFrom(c)
  PROVE  CalibrationIsTrue
<1> DEFINE g == c.grid
           hidden == c.hidden
           nearest == Nearest(g, hidden)
<1>1. Grid(g) /\ Sought(g, hidden) /\ \A a \in DOMAIN g.axes : g.axes[a].values # <<>>
  BY SweepData DEF CalibrationFrom, ValidGrid, Numbered, Sought
<1>2. /\ calibration.grid = g /\ calibration.hidden = hidden
      /\ calibration.entries = Complete(g) /\ calibration.nearest = nearest
      /\ calibration.on_grid = (nearest # None /\ Point(g, nearest) = hidden)
      /\ calibration.rank = IF nearest = None THEN None ELSE Rank(Complete(g), nearest)
  BY DEF CalibrationFrom, CalibrationOf
<1>3. calibration.on_grid => nearest \in Indices(g) /\ Point(g, nearest) = hidden
  BY <1>1, <1>2, NearestFits
<1>4. ASSUME NEW i \in Indices(g), Point(g, i) = hidden PROVE calibration.on_grid
  BY <1>1, <1>2, <1>4, HiddenIsNearest
<1>5. ASSUME nearest # None
      PROVE  calibration.rank = 1 + Cardinality({i \in Indices(g) :
                  \/ Median(g, i) < Median(g, nearest)
                  \/ Median(g, i) = Median(g, nearest) /\ i < nearest})
  <2>1. PICK n : n = Size(g) /\ n \in Nat
    BY <1>1, SizeType
  <2>2. PICK med : med = [i \in 0..(n - 1) |-> Median(g, i)]
    OBVIOUS
  <2>3. nearest \in 0..(n - 1) /\ Indices(g) = 0..(n - 1)
    BY <1>1, <1>5, <2>1, NearestFits DEF Indices
  <2>4. \A i \in 0..(n - 1) : med[i] \in Int /\ med[i] = Median(g, i)
    BY <2>2, <2>3, MedianType DEF CalibrationFrom
  <2>5. /\ DOMAIN Complete(g) = 1..n
        /\ \A k \in 1..n : Complete(g)[k].median = med[k - 1] /\ Complete(g)[k].index = k - 1
    <3>1. DOMAIN Complete(g) = 1..n /\ \A k \in 1..n : Complete(g)[k] = Entry(g, k - 1)
      BY <2>1 DEF Complete
    <3>2. \A k \in 1..n : k - 1 \in 0..(n - 1)
      BY <2>1
    <3>3. \A i : Entry(g, i).median = Median(g, i) /\ Entry(g, i).index = i
      BY DEF Entry
    <3> HIDE DEF g
    <3>4. \A k \in 1..n : Complete(g)[k].median = med[k - 1] /\ Complete(g)[k].index = k - 1
      BY <2>4, <3>1, <3>2, <3>3, Zenon
    <3> QED
      BY <3>1, <3>4
  <2>6. nearest + 1 \in 1..n /\ nearest + 1 - 1 = nearest
    BY <2>1, <2>3
  <2>13. \A k \in 1..n : Complete(g)[k].median = med[k - 1] /\ Complete(g)[k].index = k - 1
    BY <2>5
  <2>14. Complete(g)[nearest + 1].median = med[nearest]
    <3> HIDE DEF nearest, g
    <3>1. PICK k : k = nearest + 1
      OBVIOUS
    <3>2. k \in 1..n /\ k - 1 = nearest
      BY <2>3, <2>6, <3>1
    <3>3. Complete(g)[k].median = med[k - 1]
      BY <2>13, <3>2
    <3> QED
      BY <3>1, <3>2, <3>3
  <2>7. {k \in DOMAIN Complete(g) :
           \/ Complete(g)[k].median < Complete(g)[nearest + 1].median
           \/ Complete(g)[k].median = Complete(g)[nearest + 1].median /\ Complete(g)[k].index <= nearest}
        = Upto(med, n, nearest)
    <3> HIDE DEF nearest, g
    <3> QED
      BY <2>5, <2>14 DEF Upto
  <2>8. {i \in Indices(g) : \/ Median(g, i) < Median(g, nearest)
                            \/ Median(g, i) = Median(g, nearest) /\ i < nearest}
        = Ahead(med, n, nearest)
    <3> HIDE DEF nearest, g
    <3> QED
      BY <2>3, <2>4 DEF Ahead
  <2> HIDE DEF nearest, g
  <2>9. calibration.rank = Rank(Complete(g), nearest)
    BY <1>2, <1>5
  <2>10. Rank(Complete(g), nearest) = Cardinality(Upto(med, n, nearest))
    BY <2>7, Zenon DEF Rank
  <2>11. \A i \in 0..(n - 1) : med[i] \in Int
    BY <2>4
  <2>12. Cardinality(Upto(med, n, nearest)) = 1 + Cardinality(Ahead(med, n, nearest))
    BY <2>1, <2>3, <2>11, RankCounts
  <2> QED
    BY <2>8, <2>9, <2>10, <2>12, Zenon
<1> HIDE DEF g, hidden, nearest
<1> QED
  BY <1>2, <1>3, <1>4, <1>5 DEF CalibrationIsTrue

\* What the simulations say stays what it was.
LEMMA SameLand ==
  ASSUME UNCHANGED given
  PROVE  \A g : /\ Complete(g)' = Complete(g)
                /\ \A i : Fails(g, i)' = Fails(g, i)
BY DEF given, Complete, Entry, Fails, Median

LEMMA SameLedger ==
  ASSUME UNCHANGED given, NEW n, files'[n] = files[n], LedgerOf(files[n])
  PROVE  LedgerOf(files[n])'
BY SameLand DEF LedgerOf

LEMMA SameCalibration ==
  ASSUME UNCHANGED <<given, calibration>>, NEW c, CalibrationFrom(c)
  PROVE  CalibrationFrom(c)'
BY SameLand DEF CalibrationFrom, CalibrationOf

\* The buffer that is written out holds the first entries.
LEMMA FlushKeeps ==
  ASSUME SweepInv, LedgerInv, Flush
  PROVE  LedgerInv'
<1>1. UNCHANGED <<given, calibration>> /\ pc = "writing" /\ Grid(grid)
  BY DEF Flush, SweepInv
<1>2. Entries = Complete(grid) /\ Size(grid) \in Nat /\ \A i \in Indices(grid) : ~ Fails(grid, i)
  BY <1>1, SizeType, EntriesComplete DEF SweepInv
<1>3. PICK m \in 0..Len(Entries), torn \in BOOLEAN :
         files' = [files EXCEPT ![Level] = [header |-> Header(grid, setup.inputs),
                                            entries |-> SubSeq(Entries, 1, m), torn |-> torn]]
  BY DEF Flush
<1>4. m \in 0..Size(grid) /\ SubSeq(Entries, 1, m) = SubSeq(Complete(grid), 1, m)
  BY <1>1, <1>2, CompleteIs
<1>5. ASSUME NEW n \in 1..MaxLevels PROVE LedgerOf(files[n])'
  <2>1. CASE n = Level
    <3>1. files'[n].header.grid = grid /\ files'[n].entries = SubSeq(Entries, 1, m)
      BY <1>3, <2>1 DEF LedgerInv, Header
    <3> QED
      BY <1>1, <1>2, <1>4, <3>1, SameLand DEF LedgerOf
  <2>2. CASE n # Level
    <3>1. files'[n] = files[n]
      BY <1>3, <2>2 DEF LedgerInv
    <3> QED
      BY <1>1, <3>1, SameLedger DEF LedgerInv
  <2> QED
    BY <2>1, <2>2
<1>6. DOMAIN files' = 1..MaxLevels
  BY <1>3 DEF LedgerInv
<1>7. calibration' # None => \E c \in Calibrations : CalibrationFrom(c)'
  BY <1>1, SameCalibration DEF LedgerInv
<1> QED
  BY <1>5, <1>6, <1>7 DEF LedgerInv

\* A ledger that fits is whole.
LEMMA CalibrateKeeps ==
  ASSUME LedgerInv, NEW c \in Calibrations, NEW n \in 1..MaxLevels, Calibrate(c, n)
  PROVE  LedgerInv'
<1>1. UNCHANGED <<given, files>> /\ Grid(c.grid)
  BY SweepData DEF Calibrate
<1>2. /\ LedgerOf(files[n]) /\ files[n] # None /\ files[n].header # None
      /\ files[n].header.grid = c.grid /\ Len(files[n].entries) = Size(c.grid)
      /\ ValidGrid(c.grid) /\ calibration' = CalibrationOf(c, files[n].entries)
  BY DEF LedgerInv, Calibrate, Readable, Fits
<1>3. \A i \in Indices(c.grid) : ~ Fails(c.grid, i)
  BY <1>2 DEF LedgerOf
<1>4. files[n].entries = Complete(c.grid)
  <2>1. PICK m \in 0..Size(c.grid) : files[n].entries = SubSeq(Complete(c.grid), 1, m)
    BY <1>2 DEF LedgerOf
  <2>2. /\ Complete(c.grid) \in Seq({Entry(c.grid, i) : i \in Indices(c.grid)})
        /\ Len(Complete(c.grid)) = Size(c.grid)
    BY <1>1, CompleteIs
  <2> QED
    BY <1>2, <2>1, <2>2, WholeLedger
<1>5. CalibrationFrom(c)'
  BY <1>1, <1>2, <1>3, <1>4, SameLand DEF CalibrationFrom
<1>6. ASSUME NEW l \in 1..MaxLevels PROVE LedgerOf(files[l])'
  BY <1>1, SameLedger DEF LedgerInv
<1> QED
  BY <1>1, <1>5, <1>6 DEF LedgerInv

LEMMA JoinKeepsLedgers ==
  ASSUME LedgerInv, Join
  PROVE  LedgerInv'
<1>1. UNCHANGED <<given, calibration>> /\ (files' = files \/ files' = [files EXCEPT ![Level] = Empty])
  BY DEF Join
<1>2. DOMAIN files' = 1..MaxLevels
  BY <1>1 DEF LedgerInv
<1>3. ASSUME NEW n \in 1..MaxLevels PROVE LedgerOf(files[n])'
  <2>1. CASE files'[n] = files[n]
    BY <1>1, <2>1, SameLedger DEF LedgerInv
  <2>2. CASE files'[n] = Empty
    BY <2>2 DEF LedgerOf, Empty
  <2> QED
    BY <1>1, <2>1, <2>2 DEF LedgerInv
<1>4. calibration' # None => \E c \in Calibrations : CalibrationFrom(c)'
  BY <1>1, SameCalibration DEF LedgerInv
<1> QED
  BY <1>2, <1>3, <1>4 DEF LedgerInv

LEMMA SameLedgers ==
  ASSUME LedgerInv, UNCHANGED <<given, files, calibration>>
  PROVE  LedgerInv'
<1>1. ASSUME NEW n \in 1..MaxLevels PROVE LedgerOf(files[n])'
  BY SameLedger DEF LedgerInv
<1>2. calibration' # None => \E c \in Calibrations : CalibrationFrom(c)'
  BY SameCalibration DEF LedgerInv
<1> QED
  BY <1>1, <1>2 DEF LedgerInv

\* However often the process that writes it dies, a ledger holds a first part of what a
\* run that succeeded found, and a calibration rests on all of it.
THEOREM LedgerInvariance == Spec => []LedgerInv
<1>1. Init => LedgerInv
  BY DEF Init, LedgerInv, LedgerOf
<1>2. SweepInv /\ LedgerInv /\ [Next]_vars => LedgerInv'
  <2> SUFFICES ASSUME SweepInv, LedgerInv, [Next]_vars PROVE LedgerInv'
    OBVIOUS
  <2>1. ASSUME NEW t \in Threads, Fetch(t) \/ Check(t) \/ RunPoint(t) PROVE LedgerInv'
    BY <2>1, SameLedgers DEF Fetch, Check, RunPoint
  <2>2. CASE Begin
    BY <2>2, SameLedgers DEF Begin
  <2>3. CASE Join
    BY <2>3, JoinKeepsLedgers
  <2>4. CASE Flush
    BY <2>4, FlushKeeps
  <2>5. CASE EndLevel
    BY <2>5, SameLedgers DEF EndLevel
  <2>6. CASE Crash
    BY <2>6, SameLedgers DEF Crash
  <2>7. ASSUME NEW c \in Calibrations, NEW n \in 1..MaxLevels, Calibrate(c, n) PROVE LedgerInv'
    BY <2>7, CalibrateKeeps
  <2>8. CASE UNCHANGED vars
    BY <2>8, SameLedgers DEF vars
  <2> QED
    BY <2>1, <2>2, <2>3, <2>4, <2>5, <2>6, <2>7, <2>8 DEF Next
<1> QED
  BY <1>1, <1>2, SweepInvariance, PTL DEF Spec

\* A calibration that accepts a ledger, even one whose writer died or still writes, rests
\* on every point of its grid, knows the hidden point when it is one of them, and ranks it
\* by the points that do better.
THEOREM CalibrationCorrect == Spec => []CalibrationIsTrue
<1>1. LedgerInv => CalibrationIsTrue
  <2>1. calibration = None => CalibrationIsTrue
    BY DEF CalibrationIsTrue
  <2> QED
    BY <2>1, CalibrationHolds DEF LedgerInv
<1> QED
  BY <1>1, LedgerInvariance, PTL

-----------------------------------------------------------------------------
(* Rounding, and the ends of an axis.                                      *)

\* Division keeps the order.
LEMMA DivisionMonotone ==
  ASSUME NEW x \in Int, NEW y \in Int, NEW w \in Nat \ {0}, x <= y
  PROVE  x \div w <= y \div w
<1>1. PICK p \in Int : p = x \div w /\ p * w <= x /\ x < p * w + w
  OBVIOUS
<1>2. PICK q \in Int : q = y \div w /\ q * w <= y /\ y < q * w + w
  OBVIOUS
<1>3. SUFFICES ASSUME q < p PROVE FALSE
  BY <1>1, <1>2
<1>4. (p - q) * w >= w
  <2>1. p - q \in Nat /\ p - q >= 1
    BY <1>3
  <2>2. \A d \in Nat : d >= 1 => d * w >= w
    OBVIOUS
  <2> QED
    BY <2>1, <2>2
<1>5. p * w >= q * w + w
  <2>1. (p - q) * w = p * w - q * w
    OBVIOUS
  <2> QED
    BY <1>4, <2>1
<1> QED
  BY <1>1, <1>2, <1>5

\* Rounding a natural.
Up(y, u) == ((2 * y + u) \div (2 * u)) * u

LEMMA UpIs ==
  ASSUME NEW x \in Nat, NEW u \in Nat \ {0}
  PROVE  /\ Up(x, u) \in Nat /\ Up(x, u) % u = 0
         /\ x % u = 0 => Up(x, u) = x
<1>1. PICK q \in Nat : q = (2 * x + u) \div (2 * u)
  <2>1. 2 * x + u \in Nat /\ 2 * u \in Nat \ {0}
    OBVIOUS
  <2>2. \A y \in Nat, w \in Nat \ {0} : y \div w \in Nat
    OBVIOUS
  <2> QED
    BY <2>1, <2>2
<1>2. Up(x, u) = q * u
  BY <1>1 DEF Up
<1>3. q * u \in Nat /\ (q * u + 0) % u = 0
  <2>1. q * u \in Nat
    OBVIOUS
  <2>2. (q * u + 0) % u = 0
    BY MixedRadix
  <2> QED
    BY <2>1, <2>2
<1>4. ASSUME x % u = 0 PROVE q * u = x
  <2>1. PICK k \in Nat : k = x \div u /\ x = k * u
    BY <1>4
  <2>2. u \in 0..(2 * u - 1) /\ 2 * u \in Nat
    OBVIOUS
  <2>3. (k * (2 * u) + u) \div (2 * u) = k
    BY <2>2, MixedRadix
  <2>4. 2 * x + u = k * (2 * u) + u
    BY <2>1
  <2> QED
    BY <1>1, <2>1, <2>3, <2>4
<1> QED
  BY <1>2, <1>3, <1>4

LEMMA UpMonotone ==
  ASSUME NEW x \in Nat, NEW y \in Nat, NEW u \in Nat \ {0}, x <= y
  PROVE  Up(x, u) <= Up(y, u)
<1>1. 2 * x + u \in Int /\ 2 * y + u \in Int /\ 2 * u \in Nat \ {0} /\ 2 * x + u <= 2 * y + u
  OBVIOUS
<1>2. PICK p \in Int, q \in Int : p = (2 * x + u) \div (2 * u) /\ q = (2 * y + u) \div (2 * u)
  BY <1>1
<1>3. p <= q
  BY <1>1, <1>2, DivisionMonotone
<1>4. p * u <= q * u
  <2>1. q - p \in Nat /\ (q - p) * u = q * u - p * u
    BY <1>3
  <2>2. (q - p) * u \in Nat
    BY <2>1
  <2> QED
    BY <2>1, <2>2
<1> QED
  BY <1>2, <1>4 DEF Up

LEMMA NegativeDivides ==
  ASSUME NEW x \in Int, NEW u \in Nat \ {0}, x % u = 0
  PROVE  (-x) % u = 0
<1>1. PICK q \in Int : q = x \div u /\ x = q * u
  OBVIOUS
<1>2. -q \in Int /\ (-q) * u + 0 = -x
  BY <1>1
<1>3. 0 \in 0..(u - 1)
  OBVIOUS
<1>4. ((-q) * u + 0) % u = 0
  BY <1>2, <1>3, MixedRadix
<1> QED
  BY <1>2, <1>4

LEMMA RoundIs ==
  ASSUME NEW x \in Int, NEW u \in Nat \ {0}
  PROVE  /\ RoundTo(x, u) \in Int /\ RoundTo(x, u) % u = 0
         /\ x >= 0 => RoundTo(x, u) >= 0
         /\ x % u = 0 => RoundTo(x, u) = x
<1>1. RoundTo(x, u) = IF x < 0 THEN -Up(-x, u) ELSE Up(x, u)
  BY DEF RoundTo, Up
<1>2. CASE x < 0
  <2>1. -x \in Nat
    BY <1>2
  <2>2. Up(-x, u) \in Nat /\ Up(-x, u) % u = 0 /\ ((-x) % u = 0 => Up(-x, u) = -x)
    BY <2>1, UpIs
  <2>3. \A y \in Int : y % u = 0 => (-y) % u = 0
    BY NegativeDivides
  <2>4. x % u = 0 => (-x) % u = 0
    BY <2>3
  <2> QED
    BY <1>1, <1>2, <2>2, <2>3, <2>4
<1>3. CASE ~ (x < 0)
  <2>1. x \in Nat
    BY <1>3
  <2> QED
    BY <1>1, <1>3, <2>1, UpIs
<1> QED
  BY <1>2, <1>3

LEMMA RoundMonotone ==
  ASSUME NEW x \in Int, NEW y \in Int, NEW u \in Nat \ {0}, x <= y
  PROVE  RoundTo(x, u) <= RoundTo(y, u)
<1>1. /\ RoundTo(x, u) = IF x < 0 THEN -Up(-x, u) ELSE Up(x, u)
      /\ RoundTo(y, u) = IF y < 0 THEN -Up(-y, u) ELSE Up(y, u)
  BY DEF RoundTo, Up
<1>2. CASE y < 0
  <2>1. -x \in Nat /\ -y \in Nat /\ -y <= -x /\ x < 0
    BY <1>2
  <2>2. Up(-y, u) <= Up(-x, u) /\ Up(-y, u) \in Nat /\ Up(-x, u) \in Nat
    BY <2>1, UpIs, UpMonotone
  <2> QED
    BY <1>1, <1>2, <2>1, <2>2
<1>3. CASE x < 0 /\ ~ (y < 0)
  <2>1. -x \in Nat /\ y \in Nat
    BY <1>3
  <2>2. Up(-x, u) \in Nat /\ Up(y, u) \in Nat
    BY <2>1, UpIs
  <2> QED
    BY <1>1, <1>3, <2>2
<1>4. CASE ~ (x < 0)
  <2>1. x \in Nat /\ y \in Nat /\ ~ (y < 0)
    BY <1>4
  <2>2. Up(x, u) <= Up(y, u)
    BY <2>1, UpMonotone
  <2> QED
    BY <1>1, <1>4, <2>1, <2>2
<1> QED
  BY <1>2, <1>3, <1>4

\* A step that shrinks.
LEMMA ShrinkIs ==
  ASSUME NEW x \in Nat, NEW w \in Nat, NEW f \in 1..(w - 1)
  PROVE  (x * f) \div w \in Nat /\ (x * f) \div w <= x
<1>1. x * f \in Nat /\ x * w \in Nat /\ x * f <= x * w /\ w \in Nat \ {0}
  <2>1. w - f \in Nat /\ f \in Nat /\ w \in Nat \ {0}
    OBVIOUS
  <2>2. x * (w - f) \in Nat /\ x * f \in Nat /\ x * w \in Nat
    BY <2>1
  <2>3. x * (w - f) = x * w - x * f
    OBVIOUS
  <2> QED
    BY <2>1, <2>2, <2>3
<1>2. (x * f) \div w <= (x * w) \div w
  BY <1>1, DivisionMonotone
<1>3. (x * w + 0) \div w = x
  <2>1. 0 \in 0..(w - 1)
    BY <1>1
  <2> QED
    BY <2>1, MixedRadix
<1>4. \A y \in Nat : y \div w \in Nat
  BY <1>1
<1> QED
  BY <1>1, <1>2, <1>3, <1>4

\* The least and the greatest of finitely many whole numbers.
LEMMA EndsOf ==
  ASSUME NEW S, S \in SUBSET Int, IsFiniteSet(S), S # {}
  PROVE  /\ Min(S) \in S /\ \A x \in S : Min(S) <= x
         /\ Max(S) \in S /\ \A x \in S : x <= Max(S)
<1>1. \E m \in S : \A x \in S : m <= x
  <2>1. PICK R : R = {p \in S \X S : p[1] <= p[2]}
    OBVIOUS
  <2>2. \A x, y \in S : <<x, y>> \in R <=> x <= y
    BY <2>1
  <2>3. /\ \A x, y \in S : <<x, y>> \in R \/ <<y, x>> \in R
        /\ \A x, y, z \in S : <<x, y>> \in R /\ <<y, z>> \in R => <<x, z>> \in R
    BY <2>2
  <2>4. \E b \in S : \A c \in S : <<b, c>> \in R
    BY <2>3, FirstOf
  <2> QED
    BY <2>2, <2>4
<1>2. \E m \in S : \A x \in S : m >= x
  <2>1. PICK R : R = {p \in S \X S : p[1] >= p[2]}
    OBVIOUS
  <2>2. \A x, y \in S : <<x, y>> \in R <=> x >= y
    BY <2>1
  <2>3. /\ \A x, y \in S : <<x, y>> \in R \/ <<y, x>> \in R
        /\ \A x, y, z \in S : <<x, y>> \in R /\ <<y, z>> \in R => <<x, z>> \in R
    BY <2>2
  <2>4. \E b \in S : \A c \in S : <<b, c>> \in R
    BY <2>3, FirstOf
  <2> QED
    BY <2>2, <2>4
<1>3. Min(S) \in S /\ \A x \in S : Min(S) <= x
  BY <1>1 DEF Min
<1>4. Max(S) \in S /\ \A x \in S : Max(S) >= x
  BY <1>2 DEF Max
<1>5. \A x \in S : x <= Max(S)
  BY <1>4
<1> QED
  BY <1>3, <1>4, <1>5

-----------------------------------------------------------------------------
(* Refinement: every level looks around the best point of the one before.   *)

\* The values of an axis of numbers stay in the range of the first grid, and rounded.
Refined(g) ==
    /\ Grid(g) /\ DOMAIN g.axes = DOMAIN setup.grid.axes
    /\ \A a \in DOMAIN g.axes : Numeric(a) =>
          \A x \in Values(g, a) : x \in Lowest(a)..Highest(a) /\ x % Grain(setup.grid, a) = 0

\* What a level says is its best point is one of its points.
BestReported(r) ==
    Refined(r.grid) /\ \E i \in Indices(r.grid) : r.best = Entry(r.grid, i) /\ ~ Fails(r.grid, i)

\* A grid and its steps look around the best point of a level.
Follows(r, g, st) ==
    \A a \in DOMAIN g.axes :
        /\ Len(g.axes[a].values) <= 3
        /\ r.best.params[a] \in Values(g, a)
        /\ st[a] <= IF Whole(a) THEN RoundTo(r.steps[a], Unit) ELSE r.steps[a]

NoWorse(r, q) == q.grid.replicates = r.grid.replicates => q.best.median <= r.best.median

\* The level at work.
Working ==
    /\ ValidRefinement /\ Level <= setup.levels
    /\ ValidGrid(grid) /\ Refined(grid)
    /\ steps \in [DOMAIN grid.axes -> Nat]
    /\ \A a \in DOMAIN grid.axes : ~ Numeric(a) => steps[a] = 0
    /\ reported # <<>> => Follows(reported[Len(reported)], grid, steps)

NarrowInv ==
    /\ Listed(reported) /\ (reported # <<>> => Len(reported) <= setup.levels)
    /\ \A l \in 1..Len(reported) : BestReported(reported[l])
    /\ \A l \in 2..Len(reported) : /\ Follows(reported[l - 1], reported[l].grid, reported[l].steps)
                                   /\ NoWorse(reported[l - 1], reported[l])
    /\ Refining /\ pc \in {"running", "writing"} => Working

\* The ends of an axis of numbers are two of its values.
LEMMA AxisEnds ==
  ASSUME setup \in Setups, NEW a, a \in DOMAIN setup.grid.axes, Numeric(a), setup.grid.axes[a].values # <<>>
  PROVE  /\ Lowest(a) \in Int /\ Highest(a) \in Int /\ Lowest(a) <= Highest(a)
         /\ Lowest(a) % Grain(setup.grid, a) = 0 /\ Highest(a) % Grain(setup.grid, a) = 0
         /\ \A x \in Values(setup.grid, a) : x \in Lowest(a)..Highest(a)
<1> DEFINE v == setup.grid.axes[a].values
           S == Numbers(setup.grid.axes[a])
<1>1. Listed(v) /\ v # <<>> /\ \A k \in DOMAIN v : v[k] \in Int /\ v[k] % Grain(setup.grid, a) = 0
  BY SweepData DEF Grid, Numbered, Numeric
<1>2. Len(v) \in Nat \ {0} /\ DOMAIN v = 1..Len(v)
  BY <1>1, EmptySeq, LenProperties DEF Listed
<1>3. S \in SUBSET Int /\ S # {} /\ \A x \in S : x % Grain(setup.grid, a) = 0
  <2>1. \A x \in S : \E k \in DOMAIN v : x = v[k]
    BY DEF Numbers
  <2>2. 1 \in DOMAIN v
    BY <1>2
  <2>3. v[1] \in S
    BY <2>2 DEF Numbers
  <2>4. \A x \in S : x \in Int /\ x % Grain(setup.grid, a) = 0
    BY <1>1, <2>1, Zenon
  <2> QED
    BY <2>3, <2>4
<1>4. IsFiniteSet(S)
  <2>1. IsFiniteSet(1..Len(v))
    BY <1>2, FS_Interval
  <2>2. PICK f : f = [k \in 1..Len(v) |-> v[k]]
    OBVIOUS
  <2>3. f \in Surjection(1..Len(v), S)
    BY <1>2, <2>2 DEF Surjection, Numbers
  <2> QED
    BY <2>1, <2>3, FS_Surjection
<1>5. S = Values(setup.grid, a)
  BY DEF Numbers, Values
<1>6. Lowest(a) = Min(S) /\ Highest(a) = Max(S)
  BY DEF Lowest, Highest
<1> HIDE DEF S
<1>7. /\ Min(S) \in S /\ Max(S) \in S
      /\ \A x \in S : Min(S) <= x /\ x <= Max(S)
  BY <1>3, <1>4, EndsOf
<1>8. \A x \in S : x \in Min(S)..Max(S)
  BY <1>3, <1>7
<1>9. Min(S) \in Int /\ Max(S) \in Int /\ Min(S) <= Max(S)
  BY <1>3, <1>7
<1> QED
  BY <1>3, <1>5, <1>6, <1>7, <1>8, <1>9, Zenon

LEMMA GrainIs ==
  ASSUME NEW g, NEW a
  PROVE  Grain(g, a) \in Nat \ {0}
BY SweepBounds DEF Grain

LEMMA ClampIs ==
  ASSUME NEW x \in Int, NEW lo \in Int, NEW hi \in Int, lo <= hi
  PROVE  /\ Min({Max({x, lo}), hi}) \in lo..hi
         /\ x \in lo..hi => Min({Max({x, lo}), hi}) = x
<1>1. PICK m : m = Max({x, lo})
  OBVIOUS
<1>2. m \in {x, lo} /\ m >= x /\ m >= lo
  BY <1>1, MaxOfTwo
<1>3. PICK c : c = Min({m, hi})
  OBVIOUS
<1>4. m \in Int
  BY <1>2
<1>5. c \in {m, hi} /\ c <= m /\ c <= hi
  BY <1>3, <1>4, MinOfTwo
<1>6. c \in lo..hi /\ (x \in lo..hi => c = x)
  BY <1>2, <1>4, <1>5
<1> QED
  BY <1>1, <1>3, <1>6

\* A value around the best one is clamped and rounded, and a best value stays what it is.
LEMMA NumberIs ==
  ASSUME setup \in Setups, NEW a, a \in DOMAIN setup.grid.axes, Numeric(a),
         setup.grid.axes[a].values # <<>>, NEW x \in Int
  PROVE  /\ Number(Clamped(x, a), a) \in Lowest(a)..Highest(a)
         /\ Number(Clamped(x, a), a) % Grain(setup.grid, a) = 0
         /\ x \in Lowest(a)..Highest(a) /\ x % Grain(setup.grid, a) = 0 => Number(Clamped(x, a), a) = x
<1>1. PICK lo, hi, u : lo = Lowest(a) /\ hi = Highest(a) /\ u = Grain(setup.grid, a)
  OBVIOUS
<1>2. lo \in Int /\ hi \in Int /\ lo <= hi /\ lo % u = 0 /\ hi % u = 0 /\ u \in Nat \ {0}
  BY <1>1, AxisEnds, GrainIs
<1>3. PICK c : c = Clamped(x, a)
  OBVIOUS
<1>4. c = Min({Max({x, lo}), hi})
  BY <1>1, <1>3, Zenon DEF Clamped
<1>5. c \in lo..hi /\ (x \in lo..hi => c = x)
  BY <1>2, <1>4, ClampIs
<1>6. Number(c, a) = RoundTo(c, u)
  BY <1>1 DEF Number
<1>7. PICK n, lower, upper : n = RoundTo(c, u) /\ lower = RoundTo(lo, u) /\ upper = RoundTo(hi, u)
  OBVIOUS
<1>8. c \in Int /\ lo <= c /\ c <= hi
  BY <1>2, <1>5
<1>9. lower = lo /\ upper = hi /\ n \in Int /\ n % u = 0
  BY <1>2, <1>7, <1>8, RoundIs
<1>10. lower <= n /\ n <= upper
  BY <1>2, <1>7, <1>8, RoundMonotone
<1>11. c % u = 0 => n = c
  BY <1>2, <1>7, <1>8, RoundIs
<1>12. n \in lo..hi
  BY <1>2, <1>9, <1>10
<1> QED
  BY <1>1, <1>3, <1>5, <1>6, <1>7, <1>9, <1>11, <1>12

\* A step shrinks, except to the nearest whole one.
LEMMA NextStepIs ==
  ASSUME setup \in Setups, ValidRefinement, NEW a, steps[a] \in Nat
  PROVE  /\ NextStep(a) \in Nat
         /\ NextStep(a) <= IF Whole(a) THEN RoundTo(steps[a], Unit) ELSE steps[a]
<1>1. PICK f, w, x, s : f = setup.shrink[1] /\ w = setup.shrink[2] /\ x = steps[a] /\ s = (x * f) \div w
  OBVIOUS
<1>2. w \in Nat /\ f \in 1..(w - 1) /\ x \in Nat /\ Unit \in Nat \ {0}
  BY <1>1, SweepData, SweepBounds DEF ValidRefinement
<1>3. s \in Nat /\ s <= x
  BY <1>1, <1>2, ShrinkIs
<1>4. NextStep(a) = IF Whole(a) THEN RoundTo(s, Unit) ELSE s
  BY <1>1 DEF NextStep
<1>5. s \in Int /\ x \in Int /\ s >= 0
  BY <1>2, <1>3
<1>6. RoundTo(s, Unit) \in Nat
  BY <1>2, <1>5, RoundIs
<1>7. RoundTo(s, Unit) <= RoundTo(x, Unit)
  BY <1>2, <1>3, <1>5, RoundMonotone
<1>8. CASE Whole(a)
  BY <1>1, <1>4, <1>6, <1>7, <1>8
<1>9. CASE ~ Whole(a)
  BY <1>1, <1>3, <1>4, <1>9
<1> QED
  BY <1>8, <1>9

LEMMA FirstStepIs ==
  ASSUME setup \in Setups, NEW a, a \in DOMAIN setup.grid.axes, setup.grid.axes[a].values # <<>>
  PROVE  FirstStep(a) \in Nat /\ (~ Numeric(a) => FirstStep(a) = 0)
<1>1. CASE ~ Numeric(a) \/ Len(setup.grid.axes[a].values) = 1
  BY <1>1 DEF FirstStep
<1>2. CASE ~ (~ Numeric(a) \/ Len(setup.grid.axes[a].values) = 1)
  <2>1. Listed(setup.grid.axes[a].values) /\ setup.grid.axes[a].values # <<>>
    BY SweepData DEF Grid
  <2>2. Len(setup.grid.axes[a].values) \in Nat \ {0}
    BY <2>1, EmptySeq, LenProperties DEF Listed
  <2>3. PICK w : w = Len(setup.grid.axes[a].values) - 1
    OBVIOUS
  <2>4. w \in Nat \ {0}
    BY <1>2, <2>2, <2>3
  <2>5. PICK d : d = Highest(a) - Lowest(a)
    OBVIOUS
  <2>6. d \in Nat
    BY <1>2, <2>5, AxisEnds
  <2>7. d \div w \in Nat
    BY <2>4, <2>6
  <2>8. FirstStep(a) = d \div w
    BY <1>2, <2>3, <2>5 DEF FirstStep
  <2> QED
    BY <1>2, <2>7, <2>8
<1> QED
  BY <1>1, <1>2

\* A grid with the values of a point has that point.
LEMMA SamePoint ==
  ASSUME NEW g, Grid(g), NEW h, NEW j, DOMAIN h.axes = DOMAIN g.axes,
         \A a \in DOMAIN g.axes : Point(h, j)[a] \in Values(g, a)
  PROVE  \E i \in Indices(g) : Point(g, i) = Point(h, j)
<1> DEFINE n == Len(g.axes)
<1>1. DOMAIN g.axes = 1..n /\ \A a \in 1..n : DOMAIN g.axes[a].values = 1..Len(g.axes[a].values)
  BY GridIs
<1>2. \A a \in 1..n : \E k \in DOMAIN g.axes[a].values : g.axes[a].values[k] = Point(h, j)[a]
  <2> SUFFICES ASSUME NEW a \in 1..n
               PROVE  \E k \in DOMAIN g.axes[a].values : g.axes[a].values[k] = Point(h, j)[a]
    OBVIOUS
  <2>1. Point(h, j)[a] \in Values(g, a)
    BY <1>1
  <2> QED
    BY <2>1 DEF Values
<1>3. PICK at : at = [a \in 1..n |-> CHOOSE k \in DOMAIN g.axes[a].values : g.axes[a].values[k] = Point(h, j)[a]]
  OBVIOUS
<1>4. ASSUME NEW a \in 1..n
      PROVE  at[a] \in DOMAIN g.axes[a].values /\ g.axes[a].values[at[a]] = Point(h, j)[a]
  BY <1>2, <1>3, Zenon
<1>5. PlacesOn(g, at)
  BY <1>1, <1>4 DEF PlacesOn
<1>6. PICK f : IndexOf(f, g, at)
  BY <1>5, IndexExists
<1>7. f[n] \in Indices(g) /\ Point(g, f[n]) = [a \in DOMAIN g.axes |-> g.axes[a].values[at[a]]]
  BY <1>5, <1>6, IndexFits, PointOfIndex
<1>8. [a \in DOMAIN g.axes |-> g.axes[a].values[at[a]]] = Point(h, j)
  <2>1. PICK p : p = Point(h, j)
    OBVIOUS
  <2>2. p = [a \in DOMAIN g.axes |-> p[a]]
    BY <2>1, Zenon DEF Point
  <2>3. \A a \in DOMAIN g.axes : g.axes[a].values[at[a]] = p[a]
    BY <1>1, <1>4, <2>1
  <2> QED
    BY <2>1, <2>2, <2>3, Zenon
<1> QED
  BY <1>7, <1>8, Zenon

\* A grid with values has a point.
LEMMA HasPoint ==
  ASSUME NEW g, Grid(g), \A a \in DOMAIN g.axes : g.axes[a].values # <<>>
  PROVE  Indices(g) # {}
<1> DEFINE n == Len(g.axes)
<1>1. DOMAIN g.axes = 1..n
  BY GridIs
<1>2. PICK at : at = [a \in 1..n |-> 1]
  OBVIOUS
<1>3. ASSUME NEW a \in 1..n PROVE at[a] \in 1..Len(g.axes[a].values)
  <2>1. g.axes[a].values \in Seq(Range(g.axes[a].values)) /\ g.axes[a].values # <<>>
    BY <1>1 DEF Grid, Listed
  <2>2. Len(g.axes[a].values) \in Nat \ {0}
    BY <2>1, EmptySeq, LenProperties
  <2> QED
    BY <1>2, <2>2
<1>4. PlacesOn(g, at)
  BY <1>3 DEF PlacesOn
<1> QED
  BY <1>4, IndexExists, IndexFits

\* The best entry is that of a point, and no point does better.
LEMMA BestIs ==
  ASSUME NEW g, Grid(g), \A a \in DOMAIN g.axes : g.axes[a].values # <<>>,
         \A i \in Indices(g) : ~ Fails(g, i)
  PROVE  \E i \in Indices(g) : /\ BestOf(Complete(g)) = Entry(g, i)
                               /\ \A j \in Indices(g) : Median(g, i) <= Median(g, j)
<1>1. PICK n : n = Size(g) /\ n \in Nat \ {0}
  BY SizeType, HasPoint DEF Indices
<1>2. PICK med : med = [k \in 1..n |-> Median(g, k - 1)]
  OBVIOUS
<1>3. \A k \in 1..n : k - 1 \in Indices(g) /\ med[k] \in Nat /\ med[k] = Median(g, k - 1)
  BY <1>1, <1>2, MedianType DEF Indices
<1>4. PICK e : e = Complete(g)
  OBVIOUS
<1>5. DOMAIN e = 1..n /\ \A k \in 1..n : e[k] = Entry(g, k - 1)
  BY <1>1, <1>4 DEF Complete
<1>6. \A k \in 1..n : e[k].median = med[k] /\ e[k].index = k - 1
  <2>1. \A i : Entry(g, i).median = Median(g, i) /\ Entry(g, i).index = i
    BY DEF Entry
  <2> QED
    BY <1>3, <1>5, <2>1, Zenon
<1> DEFINE Leads(k, l) == \/ e[k].median < e[l].median
                          \/ e[k].median = e[l].median /\ e[k].index <= e[l].index
           best == CHOOSE k \in DOMAIN e : \A l \in DOMAIN e : Leads(k, l)
<1>7. \A k, l \in 1..n : Leads(k, l) <=> (med[k] < med[l] \/ (med[k] = med[l] /\ k <= l))
  BY <1>6
<1>8. \E k \in 1..n : \A l \in 1..n : Leads(k, l)
  <2>1. PICK R : R = {p \in (1..n) \X (1..n) : Leads(p[1], p[2])}
    OBVIOUS
  <2>2. \A k, l \in 1..n : <<k, l>> \in R <=> (med[k] < med[l] \/ (med[k] = med[l] /\ k <= l))
    BY <1>7, <2>1
  <2> DEFINE S == 1..n
  <2>3. /\ \A x, y \in S : <<x, y>> \in R \/ <<y, x>> \in R
        /\ \A x, y, z \in S : <<x, y>> \in R /\ <<y, z>> \in R => <<x, z>> \in R
    BY <1>3, <2>2, SMTT(30)
  <2>4. IsFiniteSet(S) /\ S # {}
    <3>1. 1 \in Int /\ n \in Int /\ 1 \in S
      BY <1>1
    <3> QED
      BY <3>1, FS_Interval
  <2> HIDE DEF S
  <2>5. \E b \in S : \A c \in S : <<b, c>> \in R
    BY <2>3, <2>4, FirstOf
  <2> QED
    BY <1>7, <2>2, <2>5 DEF S
<1>9. best \in 1..n /\ \A l \in 1..n : Leads(best, l)
  <2> HIDE DEF Leads
  <2> QED
    BY <1>5, <1>8, Zenon
<1>10. BestOf(Complete(g)) = e[best]
  BY <1>4, Zenon DEF BestOf
<1> HIDE DEF best
<1>11. best - 1 \in Indices(g) /\ e[best] = Entry(g, best - 1) /\ med[best] = Median(g, best - 1)
  BY <1>3, <1>5, <1>9
<1>12. ASSUME NEW j \in Indices(g) PROVE Median(g, best - 1) <= Median(g, j)
  <2>1. j \in Int /\ j + 1 \in 1..n
    BY <1>1 DEF Indices
  <2>2. PICK l : l = j + 1
    OBVIOUS
  <2>5. l \in 1..n /\ l - 1 = j
    BY <2>1, <2>2
  <2>3. l \in 1..n /\ med[l] = Median(g, j) /\ med[l] \in Nat /\ med[best] \in Nat
    BY <1>3, <1>9, <2>5, Zenon
  <2>4. med[best] <= med[l]
    BY <1>7, <1>9, <2>3
  <2> QED
    BY <1>11, <2>3, <2>4
<1> QED
  BY <1>10, <1>11, <1>12

\* Around a value that is in the range, all values are, and it is one of them.
LEMMA AroundIs ==
  ASSUME setup \in Setups, ValidRefinement, NEW a, a \in DOMAIN setup.grid.axes,
         steps[a] \in Nat, NEW b,
         Numeric(a) => b \in Lowest(a)..Highest(a) /\ b % Grain(setup.grid, a) = 0
  PROVE  /\ b \in Elements(NextValues(a, b))
         /\ Numeric(a) => \A x \in Elements(NextValues(a, b)) :
                              x \in Lowest(a)..Highest(a) /\ x % Grain(setup.grid, a) = 0
<1>1. CASE Still(a)
  BY <1>1, NextValuesAre
<1>2. CASE ~ Still(a)
  <2>1. Numeric(a) /\ Elements(NextValues(a, b)) = Around(a, b)
    BY <1>2, NextValuesAre DEF Still
  <2>2. setup.grid.axes[a].values # <<>>
    BY DEF ValidRefinement, ValidGrid
  <2>3. Lowest(a) \in Int /\ Highest(a) \in Int /\ NextStep(a) \in Nat
    BY <2>1, <2>2, AxisEnds, NextStepIs
  <2>4. b \in Int
    BY <2>1, <2>3
  <2>5. PICK at : at = [k \in 1..3 |-> b + (k - 2) * NextStep(a)]
    OBVIOUS
  <2>6. at[2] = b /\ \A k \in 1..3 : at[k] \in Int
    BY <2>3, <2>4, <2>5
  <2>7. Around(a, b) = {Number(Clamped(at[k], a), a) : k \in 1..3}
    <3>1. \A k \in 1..3 : b + (k - 2) * NextStep(a) = at[k]
      BY <2>5, Zenon
    <3> QED
      BY <3>1 DEF Around
  <2>8. ASSUME NEW k \in 1..3
        PROVE  /\ Number(Clamped(at[k], a), a) \in Lowest(a)..Highest(a)
               /\ Number(Clamped(at[k], a), a) % Grain(setup.grid, a) = 0
    BY <2>1, <2>2, <2>6, NumberIs
  <2>9. Number(Clamped(at[2], a), a) = b
    BY <2>1, <2>2, <2>4, <2>6, NumberIs
  <2>10. b \in Around(a, b)
    <3>1. 2 \in 1..3
      OBVIOUS
    <3> QED
      BY <2>7, <2>9, <3>1, Zenon
  <2>11. ASSUME NEW x \in Around(a, b) PROVE x \in Lowest(a)..Highest(a) /\ x % Grain(setup.grid, a) = 0
    <3>1. PICK k \in 1..3 : x = Number(Clamped(at[k], a), a)
      BY <2>7, <2>11
    <3> QED
      BY <2>8, <3>1, Zenon
  <2> QED
    BY <2>1, <2>10, <2>11, Zenon
<1> QED
  BY <1>1, <1>2

\* The next grid looks around the best point, and stays in the range.
LEMMA NextGridNarrows ==
  ASSUME setup \in Setups, ValidRefinement, ValidGrid(grid), Refined(grid),
         \A a \in DOMAIN grid.axes : steps[a] \in Nat, NEW i, i \in Indices(grid), NEW level,
         NEW g, g = Replicated(NextGrid(Point(grid, i)), level)
  PROVE  /\ Refined(g) /\ DOMAIN g.axes = DOMAIN grid.axes
         /\ \A a \in DOMAIN grid.axes : Len(g.axes[a].values) <= 3 /\ Point(grid, i)[a] \in Values(g, a)
<1>1. Grid(grid) /\ DOMAIN grid.axes = DOMAIN setup.grid.axes /\ \A a \in DOMAIN grid.axes : grid.axes[a].values # <<>>
  BY DEF Refined, ValidGrid
<1>2. Grid(g)
  BY <1>1, NextGridIsGrid, ReplicatedGrid
<1>3. /\ DOMAIN g.axes = DOMAIN grid.axes
      /\ \A a \in DOMAIN grid.axes : g.axes[a].values = NextValues(a, Point(grid, i)[a])
  <2>1. g.axes = NextGrid(Point(grid, i)).axes
    <3>1. Grid(NextGrid(Point(grid, i)))
      BY <1>1, NextGridIsGrid
    <3> QED
      BY <3>1 DEF Replicated, Grid
  <2>2. NextGrid(Point(grid, i)).axes
          = [a \in DOMAIN grid.axes |-> [grid.axes[a] EXCEPT !.values = NextValues(a, Point(grid, i)[a])]]
    BY <1>1 DEF NextGrid, Grid
  <2>3. \A a \in DOMAIN grid.axes : "values" \in DOMAIN grid.axes[a]
    BY <1>1 DEF Grid
  <2> QED
    BY <2>1, <2>2, <2>3
<1>4. ASSUME NEW a \in DOMAIN grid.axes
      PROVE  /\ Len(g.axes[a].values) <= 3 /\ Point(grid, i)[a] \in Values(g, a)
             /\ Numeric(a) => \A x \in Values(g, a) :
                                  x \in Lowest(a)..Highest(a) /\ x % Grain(setup.grid, a) = 0
  <2>1. PICK b : b = Point(grid, i)[a]
    OBVIOUS
  <2>2. b \in Values(grid, a)
    <3>1. PICK k \in DOMAIN grid.axes[a].values : grid.axes[a].values[k] = Point(grid, i)[a]
      BY <1>1, PointOnGrid
    <3> QED
      BY <2>1, <3>1 DEF Values
  <2>3. Numeric(a) => b \in Lowest(a)..Highest(a) /\ b % Grain(setup.grid, a) = 0
    BY <2>2 DEF Refined
  <2>4. /\ b \in Elements(NextValues(a, b))
        /\ Numeric(a) => \A x \in Elements(NextValues(a, b)) :
                             x \in Lowest(a)..Highest(a) /\ x % Grain(setup.grid, a) = 0
    BY <1>1, <2>3, AroundIs
  <2>5. Values(g, a) = Elements(NextValues(a, b)) /\ g.axes[a].values = NextValues(a, b)
    BY <1>3, <2>1 DEF Values, Elements
  <2>6. Len(g.axes[a].values) <= 3
    <3>1. Len(NextValues(a, b)) \in 0..3
      BY NextValuesAre
    <3>2. \A m \in 0..3 : m <= 3
      OBVIOUS
    <3> QED
      BY <2>5, <3>1, <3>2, Zenon
  <2> QED
    BY <2>1, <2>4, <2>5, <2>6, Zenon
<1> QED
  BY <1>1, <1>2, <1>3, <1>4 DEF Refined

\* What is said of a level depends on nothing that a step changes.
LEMMA SameWords ==
  ASSUME UNCHANGED given
  PROVE  /\ ValidRefinement' = ValidRefinement /\ Refining' = Refining
         /\ \A a : Numeric(a)' = Numeric(a)
         /\ \A g : Refined(g)' = Refined(g)
         /\ \A r : BestReported(r)' = BestReported(r)
         /\ \A r, g, st : Follows(r, g, st)' = Follows(r, g, st)
<1>1. setup' = setup /\ land' = land
  BY DEF given
<1>2. \A a : /\ Numeric(a)' = Numeric(a) /\ Whole(a)' = Whole(a)
             /\ Lowest(a)' = Lowest(a) /\ Highest(a)' = Highest(a)
  BY <1>1 DEF Numeric, Whole, Lowest, Highest
<1>3. \A g : Refined(g)' = Refined(g)
  BY <1>1, <1>2 DEF Refined
<1>4. \A g, i : Entry(g, i)' = Entry(g, i) /\ Fails(g, i)' = Fails(g, i)
  BY <1>1 DEF Entry, Fails, Median
<1>5. \A r : BestReported(r)' = BestReported(r)
  BY <1>3, <1>4 DEF BestReported
<1>6. \A r, g, st : Follows(r, g, st)' = Follows(r, g, st)
  BY <1>2 DEF Follows
<1>7. ValidRefinement' = ValidRefinement /\ Refining' = Refining
  BY <1>1 DEF ValidRefinement, Refining
<1> QED
  BY <1>2, <1>3, <1>5, <1>6, <1>7

LEMMA SameLevel ==
  ASSUME NarrowInv, UNCHANGED <<given, grid, steps, reported>>,
         pc' \in {"running", "writing"} => pc \in {"running", "writing"}
  PROVE  NarrowInv'
<1>1. setup' = setup /\ grid' = grid /\ steps' = steps /\ reported' = reported /\ UNCHANGED given
  BY DEF given
<1>2. Working => Working'
  BY <1>1, SameWords DEF Working, Level
<1>3. /\ \A l \in 1..Len(reported) : BestReported(reported[l])'
      /\ \A l \in 2..Len(reported) : Follows(reported[l - 1], reported[l].grid, reported[l].steps)'
  BY <1>1, SameWords DEF NarrowInv
<1>4. (Refining /\ pc \in {"running", "writing"})' => Working
  BY <1>1, SameWords DEF NarrowInv
<1> QED
  BY <1>1, <1>2, <1>3, <1>4 DEF NarrowInv, NoWorse

LEMMA BeginNarrow ==
  ASSUME SweepInv, NarrowInv, Begin
  PROVE  NarrowInv'
<1>1. setup \in Setups /\ UNCHANGED given /\ reported' = <<>> /\ setup' = setup
  BY DEF SweepInv, Begin, given
<1>2. Len(reported') = 0 /\ Listed(reported')
  <2>1. <<>> \in Seq({})
    OBVIOUS
  <2> QED
    BY <1>1, <2>1, SeqIsListed
<1>3. ASSUME Refining', pc' \in {"running", "writing"} PROVE Working'
  <2>1. Refining /\ ValidRefinement
    BY <1>1, <1>3, SameWords DEF Begin
  <2>2. PICK g : g = Replicated(setup.grid, 1)
    OBVIOUS
  <2>3. /\ RunGrid(g) /\ steps' = [a \in DOMAIN setup.grid.axes |-> FirstStep(a)]
    BY <2>1, <2>2 DEF Begin
  <2>4. Grid(setup.grid) /\ Grid(g) /\ g.axes = setup.grid.axes
    BY <1>1, <2>2, SweepData, ReplicatedGrid DEF Replicated, Grid
  <2>5. \A a \in DOMAIN setup.grid.axes : setup.grid.axes[a].values # <<>>
    BY <2>1 DEF ValidRefinement, ValidGrid
  <2>6. Refined(g)
    <3>1. \A a : Values(g, a) = Values(setup.grid, a)
      BY <2>4 DEF Values
    <3>2. ASSUME NEW a \in DOMAIN g.axes, Numeric(a), NEW x \in Values(g, a)
          PROVE  x \in Lowest(a)..Highest(a) /\ x % Grain(setup.grid, a) = 0
      <4>1. x \in Lowest(a)..Highest(a)
        BY <1>1, <2>4, <2>5, <3>1, <3>2, AxisEnds
      <4>4. x \in Values(setup.grid, a)
        BY <3>1, <3>2, Zenon
      <4>2. PICK k \in DOMAIN setup.grid.axes[a].values : x = setup.grid.axes[a].values[k]
        BY <4>4 DEF Values
      <4>3. x % Grain(setup.grid, a) = 0
        BY <1>1, <2>4, <3>2, <4>2, SweepData DEF Numeric
      <4> QED
        BY <4>1, <4>3
    <3> QED
      BY <2>4, <3>2 DEF Refined
  <2>7. grid' = g /\ ValidGrid(g)
    BY <1>3, <2>3 DEF RunGrid
  <2>8. steps' \in [DOMAIN g.axes -> Nat] /\ \A a \in DOMAIN g.axes : ~ Numeric(a) => steps'[a] = 0
    BY <1>1, <2>3, <2>4, <2>5, FirstStepIs
  <2>9. Level' <= setup.levels
    BY <1>2, <2>1, SweepBounds DEF Level, ValidRefinement
  <2>10. /\ Refined(g)' /\ ValidRefinement'
         /\ \A a \in DOMAIN g.axes : ~ Numeric(a)' => steps'[a] = 0
    BY <1>1, <2>1, <2>6, <2>8, SameWords
  <2> QED
    BY <1>1, <2>7, <2>8, <2>9, <2>10 DEF Working
<1> QED
  BY <1>1, <1>2, <1>3 DEF NarrowInv

\* The best point of a level that was run, no worse than the one before.
LEMMA LevelIsDone ==
  ASSUME SweepInv, Working, pc = "writing", NarrowInv
  PROVE  \E i \in Indices(grid) :
            /\ BestOf(Entries) = Entry(grid, i) /\ ~ Fails(grid, i)
            /\ reported # <<>> /\ grid.replicates = reported[Len(reported)].grid.replicates =>
                  BestOf(Entries).median <= reported[Len(reported)].best.median
<1>1. /\ Grid(grid) /\ \A a \in DOMAIN grid.axes : grid.axes[a].values # <<>>
      /\ \A i \in Indices(grid) : ~ Fails(grid, i)
  BY DEF SweepInv, Working, ValidGrid
<1>2. Entries = Complete(grid)
  BY SizeType, EntriesComplete DEF SweepInv
<1>3. PICK i \in Indices(grid) : /\ BestOf(Complete(grid)) = Entry(grid, i)
                                 /\ \A j \in Indices(grid) : Median(grid, i) <= Median(grid, j)
  BY <1>1, BestIs
<1>4. ASSUME reported # <<>>, grid.replicates = reported[Len(reported)].grid.replicates
      PROVE  BestOf(Entries).median <= reported[Len(reported)].best.median
  <2>1. PICK r : r = reported[Len(reported)]
    OBVIOUS
  <2>2. Len(reported) \in 1..Len(reported)
    <3>1. reported \in Seq(Range(reported))
      BY DEF NarrowInv, Listed
    <3> QED
      BY <1>4, <3>1, EmptySeq, LenProperties
  <2>3. PICK j : r.best = Entry(r.grid, j) /\ DOMAIN r.grid.axes = DOMAIN grid.axes
    <3>1. BestReported(r)
      BY <2>1, <2>2 DEF NarrowInv
    <3> QED
      BY <3>1 DEF BestReported, Refined, Working
  <2>4. r.best.params = Point(r.grid, j) /\ r.best.median = Median(r.grid, j)
    BY <2>3 DEF Entry
  <2>5. \A a \in DOMAIN grid.axes : Point(r.grid, j)[a] \in Values(grid, a)
    BY <1>4, <2>1, <2>4 DEF Working, Follows
  <2>6. PICK k \in Indices(grid) : Point(grid, k) = Point(r.grid, j)
    BY <1>1, <2>3, <2>5, SamePoint
  <2>7. Median(grid, k) = Median(r.grid, j)
    BY <1>4, <2>1, <2>6 DEF Median
  <2>8. BestOf(Entries).median = Median(grid, i)
    BY <1>2, <1>3 DEF Entry
  <2> QED
    BY <1>3, <2>1, <2>4, <2>6, <2>7, <2>8
<1> QED
  BY <1>1, <1>2, <1>3, <1>4

\* A level that ends is reported, and the next one looks around its best point.
LEMMA EndLevelNarrow ==
  ASSUME SweepInv, NarrowInv, EndLevel
  PROVE  NarrowInv'
<1>1. setup \in Setups /\ UNCHANGED given /\ setup' = setup /\ land' = land /\ pc = "writing"
  BY DEF SweepInv, EndLevel, given
<1>2. CASE ~ Refining
  <2>1. pc' = "done" /\ UNCHANGED <<grid, steps, reported>>
    BY <1>2 DEF EndLevel
  <2> QED
    BY <1>1, <2>1, SameLevel
<1>3. CASE Refining
  <2>1. Working
    BY <1>1, <1>3 DEF NarrowInv
  <2>2. PICK i \in Indices(grid) :
            /\ BestOf(Entries) = Entry(grid, i) /\ ~ Fails(grid, i)
            /\ reported # <<>> /\ grid.replicates = reported[Len(reported)].grid.replicates =>
                  BestOf(Entries).median <= reported[Len(reported)].best.median
    BY <1>1, <2>1, LevelIsDone
  <2>3. PICK r : r = [grid |-> grid, best |-> BestOf(Entries), steps |-> steps,
                      compatible |-> Compatible(Entries)]
    OBVIOUS
  <2>4. r.grid = grid /\ r.best = BestOf(Entries) /\ r.steps = steps /\ r.best.params = Point(grid, i)
    BY <2>2, <2>3 DEF Entry
  <2>5. reported' = Append(reported, r)
    BY <1>3, <2>3, Zenon DEF EndLevel
  <2>6. PICK n : n = Len(reported)
    OBVIOUS
  <2>7. /\ n \in Nat /\ Listed(reported') /\ Len(reported') = n + 1 /\ reported'[n + 1] = r
        /\ \A l \in 1..n : reported'[l] = reported[l]
        /\ reported # <<>> <=> n # 0
    <3>1. PICK S : S = Range(reported) \cup {r}
      OBVIOUS
    <3>2. reported \in Seq(S) /\ r \in S
      <4>1. reported \in Seq(Range(reported)) /\ Range(reported) \subseteq S
        BY <3>1 DEF NarrowInv, Listed
      <4>2. Len(reported) \in Nat /\ reported \in [1..Len(reported) -> S]
        BY <4>1, LenProperties
      <4> QED
        BY <3>1, <4>2, ListIsSeq
    <3>3. /\ Append(reported, r) \in Seq(S) /\ Len(Append(reported, r)) = Len(reported) + 1
          /\ \A l \in 1..Len(reported) : Append(reported, r)[l] = reported[l]
          /\ Append(reported, r)[Len(reported) + 1] = r
      BY <3>2, AppendProperties
    <3>4. Listed(reported')
      BY <2>5, <3>3, SeqIsListed
    <3>5. n \in Nat /\ (reported # <<>> <=> n # 0)
      BY <2>6, <3>2, EmptySeq, LenProperties
    <3> QED
      BY <2>5, <2>6, <3>3, <3>4, <3>5, Zenon
  <2>8. n + 1 <= setup.levels /\ setup.levels \in Nat
    BY <2>1, <2>6, SweepBounds DEF Working, ValidRefinement, Level
  <2>9. BestReported(r)
    BY <2>1, <2>2, <2>4 DEF BestReported, Working
  <2>10. ASSUME NEW l \in 1..(n + 1) PROVE BestReported(reported'[l])
    <3>1. CASE l \in 1..n
      BY <2>6, <2>7, <3>1 DEF NarrowInv
    <3>2. CASE l = n + 1
      BY <2>7, <2>9, <3>2
    <3> QED
      BY <2>7, <3>1, <3>2
  <2>11. ASSUME NEW l \in 2..(n + 1)
         PROVE  /\ Follows(reported'[l - 1], reported'[l].grid, reported'[l].steps)
                /\ NoWorse(reported'[l - 1], reported'[l])
    <3>1. CASE l \in 2..n
      <4>1. l \in 1..n /\ l - 1 \in 1..n
        BY <2>7, <3>1
      <4>2. reported'[l] = reported[l] /\ reported'[l - 1] = reported[l - 1]
        BY <2>7, <4>1
      <4> QED
        BY <2>6, <3>1, <4>2 DEF NarrowInv
    <3>2. CASE l = n + 1
      <4>1. n \in 1..n /\ reported # <<>> /\ l - 1 = n
        BY <2>7, <3>2
      <4>2. reported'[l] = r /\ reported'[l - 1] = reported[n]
        BY <2>7, <3>2, <4>1
      <4>3. Follows(reported[n], grid, steps)
        BY <2>1, <2>6, <4>1 DEF Working
      <4>4. NoWorse(reported[n], r)
        BY <2>2, <2>4, <2>6, <4>1 DEF NoWorse
      <4> QED
        BY <2>4, <4>2, <4>3, <4>4
    <3> QED
      BY <2>7, <3>1, <3>2
  <2>12. ASSUME pc' \in {"running", "writing"} PROVE Working'
    <3>1. PICK g : g = Replicated(NextGrid(Point(grid, i)), Level + 1)
      OBVIOUS
    <3>2. /\ Level < setup.levels /\ RunGrid(g)
          /\ steps' = [a \in DOMAIN grid.axes |-> IF Numeric(a) THEN NextStep(a) ELSE steps[a]]
      BY <1>3, <2>4, <2>12, <3>1 DEF EndLevel
    <3>3. grid' = g /\ ValidGrid(g)
      BY <2>12, <3>2 DEF RunGrid
    <3>4. /\ ValidRefinement /\ ValidGrid(grid) /\ Refined(grid)
          /\ DOMAIN grid.axes = DOMAIN setup.grid.axes
          /\ \A a \in DOMAIN grid.axes : steps[a] \in Nat
          /\ \A a \in DOMAIN grid.axes : ~ Numeric(a) => steps[a] = 0
      BY <2>1 DEF Working, Refined
    <3>5. /\ Refined(g) /\ DOMAIN g.axes = DOMAIN grid.axes
          /\ \A a \in DOMAIN grid.axes : Len(g.axes[a].values) <= 3 /\ Point(grid, i)[a] \in Values(g, a)
      BY <1>1, <3>1, <3>4, NextGridNarrows
    <3>6. ASSUME NEW a \in DOMAIN grid.axes
          PROVE  /\ steps'[a] \in Nat /\ (~ Numeric(a) => steps'[a] = 0)
                 /\ steps'[a] <= IF Whole(a) THEN RoundTo(steps[a], Unit) ELSE steps[a]
      <4>1. CASE Numeric(a)
        <5>1. steps'[a] = NextStep(a)
          BY <3>2, <4>1
        <5> QED
          BY <1>1, <3>4, <4>1, <5>1, NextStepIs
      <4>2. CASE ~ Numeric(a)
        <5>1. steps'[a] = 0 /\ steps[a] = 0
          BY <3>2, <3>4, <4>2
        <5>2. RoundTo(0, Unit) >= 0 /\ RoundTo(0, Unit) \in Int
          BY SweepBounds, RoundIs
        <5> QED
          BY <5>1, <5>2
      <4> QED
        BY <4>1, <4>2
    <3>7. Follows(r, g, steps')
      BY <2>4, <3>5, <3>6 DEF Follows
    <3>8. steps' \in [DOMAIN g.axes -> Nat]
      BY <3>2, <3>5, <3>6
    <3>9. Level' <= setup.levels
      BY <2>6, <2>7, <2>8, <3>2 DEF Level
    <3>10. /\ ValidRefinement' /\ Refined(g)' /\ \A st : Follows(r, g, st)' = Follows(r, g, st)
           /\ \A a \in DOMAIN g.axes : ~ Numeric(a)' => steps'[a] = 0
      BY <1>1, <3>4, <3>5, <3>6, SameWords
    <3> QED
      BY <1>1, <2>7, <3>3, <3>7, <3>8, <3>9, <3>10 DEF Working
  <2> QED
    BY <1>1, <2>7, <2>8, <2>10, <2>11, <2>12, SameWords DEF NarrowInv
<1> QED
  BY <1>2, <1>3

LEMMA NothingReported ==
  ASSUME reported = <<>>, pc = "start"
  PROVE  NarrowInv
<1>1. Len(reported) = 0 /\ Listed(reported)
  <2>1. <<>> \in Seq({})
    OBVIOUS
  <2> QED
    BY <2>1, SeqIsListed
<1> QED
  BY <1>1 DEF NarrowInv

\* Every level of a refinement looks around the best point of the one before, in the
\* range of the first grid, and its own best point is none worse.
THEOREM NarrowInvariance == Spec => []NarrowInv
<1>1. Init => NarrowInv
  BY NothingReported DEF Init
<1>2. SweepInv /\ NarrowInv /\ [Next]_vars => NarrowInv'
  <2> SUFFICES ASSUME SweepInv, NarrowInv, [Next]_vars PROVE NarrowInv'
    OBVIOUS
  <2>1. ASSUME NEW t \in Threads, Fetch(t) \/ Check(t) \/ RunPoint(t) PROVE NarrowInv'
    <3>1. UNCHANGED <<given, grid, steps, reported>> /\ pc = "running"
      BY <2>1 DEF Fetch, Check, RunPoint
    <3> QED
      BY <3>1, SameLevel
  <2>2. CASE Begin
    BY <2>2, BeginNarrow
  <2>3. CASE Join
    <3>1. UNCHANGED <<given, grid, steps, reported>> /\ pc = "running"
      BY <2>3 DEF Join
    <3> QED
      BY <3>1, SameLevel
  <2>4. CASE Flush
    <3>1. UNCHANGED <<given, grid, steps, reported>> /\ pc = "writing"
      BY <2>4 DEF Flush
    <3> QED
      BY <3>1, SameLevel
  <2>5. CASE EndLevel
    BY <2>5, EndLevelNarrow
  <2>6. CASE Crash
    <3>1. (reported = <<>> /\ pc = "start")'
      BY <2>6 DEF Crash
    <3>2. (reported = <<>> /\ pc = "start" => NarrowInv)'
      BY NothingReported, PTL
    <3> QED
      BY <3>1, <3>2
  <2>7. ASSUME NEW c \in Calibrations, NEW n \in 1..MaxLevels, Calibrate(c, n) PROVE NarrowInv'
    <3>1. UNCHANGED <<given, pc, grid, steps, reported>>
      BY <2>7 DEF Calibrate
    <3> QED
      BY <3>1, SameLevel
  <2>8. CASE UNCHANGED vars
    <3>1. UNCHANGED <<given, pc, grid, steps, reported>>
      BY <2>8 DEF vars
    <3> QED
      BY <3>1, SameLevel
  <2> QED
    BY <2>1, <2>2, <2>3, <2>4, <2>5, <2>6, <2>7, <2>8 DEF Next
<1> QED
  BY <1>1, <1>2, SweepInvariance, PTL DEF Spec

\* A refinement stays in its first range, keeps whole axes whole, never widens a step but
\* to the nearest whole one, and with as many replicates never gets worse.
THEOREM RefinementsNarrow == Spec => []RefinementNarrows
<1>1. NarrowInv => RefinementNarrows
  <2> SUFFICES ASSUME NarrowInv PROVE RefinementNarrows
    OBVIOUS
  <2>1. Len(reported) \in Nat
    BY LenProperties DEF NarrowInv, Listed
  <2>2. ASSUME NEW l \in 2..Len(reported)
        PROVE  /\ l \in 1..Len(reported) /\ BestReported(reported[l])
               /\ Follows(reported[l - 1], reported[l].grid, reported[l].steps)
               /\ NoWorse(reported[l - 1], reported[l])
    BY <2>1 DEF NarrowInv
  <2>3. ASSUME NEW l \in 2..Len(reported), NEW a \in DOMAIN reported[l].grid.axes
        PROVE  /\ Numeric(a) => Values(reported[l].grid, a) \subseteq Lowest(a)..Highest(a)
               /\ Numeric(a) /\ Whole(a) => \A x \in Values(reported[l].grid, a) : x % Unit = 0
    <3>1. Refined(reported[l].grid)
      BY <2>2 DEF BestReported
    <3>2. Whole(a) => Grain(setup.grid, a) = Unit
      BY DEF Whole, Grain
    <3> QED
      BY <3>1, <3>2 DEF Refined
  <2> QED
    BY <2>2, <2>3 DEF RefinementNarrows, NarrowInv, Follows, NoWorse
<1> QED
  BY <1>1, NarrowInvariance, PTL

=============================================================================
