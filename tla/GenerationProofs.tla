-------------------------- MODULE GenerationProofs --------------------------
(***************************************************************************)
(* Theorems about generation jobs, for any jobs, any statistics and any    *)
(* generators: a seed is one corpus, and a hosted result is the result of  *)
(* the whole unit.                                                         *)
(***************************************************************************)
EXTENDS Generation, TotalsProofs, SequenceTheorems

-----------------------------------------------------------------------------
(* Distances.                                                              *)

LEMMA SumIsInt ==
  ASSUME NEW n \in Nat, NEW terms, terms \in [1..n -> Int]
  PROVE  Sum(terms) \in Int
<1> DEFINE Upto(u) == u = [i \in 0..n |-> IF i = 0 THEN 0 ELSE u[i - 1] + terms[i]]
<1>1. PICK f : TotalsOf(f, n, terms)
  BY RunningTotals
<1>2. Upto(f)
  BY <1>1 DEF TotalsOf
<1>3. PICK upto : Upto(upto) /\ Sum(terms) = upto[n]
  <2> DEFINE chosen == CHOOSE u : Upto(u)
  <2>1. Upto(chosen)
    BY <1>2
  <2>2. Len(terms) = n
    OBVIOUS
  <2>3. Sum(terms) = chosen[n]
    BY <2>2 DEF Sum
  <2> QED
    BY <2>1, <2>3
<1>4. f[0] = upto[0] /\ \A i \in 1..n : f[i - 1] = upto[i - 1] => f[i] = upto[i]
  BY <1>1, <1>3 DEF TotalsOf
<1>5. \A i \in 0..n : f[i] = upto[i]
  <2>1. n \in Nat
    OBVIOUS
  <2> QED
    BY ONLY <1>4, <2>1, Agreement
<1> QED
  BY <1>1, <1>3, <1>5 DEF TotalsOf

\* The numbers of a target are integers.
Numbers(t) ==
    /\ t.mean \in Seq(Int) /\ t.scale \in Seq(Int) /\ t.weight \in Seq(Int)
    /\ t.precision # None => t.precision \in Seq(Seq(Int))

Fingerprints == [1..Stats -> Int]

LEMMA DistanceIsInt ==
  ASSUME NEW t, Numbers(t), ValidTarget(t), NEW f \in Fingerprints,
         NEW metric, metric # "z" => t.precision # None
  PROVE  UnitDistance(metric, f, t) \in Int
<1> DEFINE z == [i \in 1..Stats |-> (f[i] - t.mean[i]) * (Precise \div t.scale[i])]
           row(i) == Sum([j \in 1..Stats |-> t.precision[i][j] * z[j]])
           product == Sum([i \in 1..Stats |-> z[i] * row(i)])
           weighted == [i \in 1..Stats |-> t.weight[i] * z[i] * z[i]]
<1>0. \A x, y \in Int : x * y \in Int
  OBVIOUS
<1>1. Stats \in Nat /\ Precise \in Nat
  BY GenerationBounds
<1>2. \A i \in 1..Stats : t.mean[i] \in Int /\ t.weight[i] \in Int /\ t.scale[i] \in Nat \ {0}
  <2>1. t.mean \in Seq(Int) /\ t.weight \in Seq(Int) /\ t.scale \in Seq(Int)
    BY DEF Numbers
  <2>2. Len(t.mean) = Stats /\ Len(t.scale) = Stats /\ Len(t.weight) = Stats
    BY DEF ValidTarget
  <2>3. \A i \in 1..Stats : t.scale[i] > 0
    BY DEF ValidTarget
  <2>4. \A i \in 1..Stats : t.mean[i] \in Int /\ t.weight[i] \in Int /\ t.scale[i] \in Int
    BY <1>1, <2>1, <2>2
  <2> QED
    BY <2>3, <2>4
<1>3. \A i \in 1..Stats : z[i] \in Int
  <2> TAKE i \in 1..Stats
  <2>1. Precise \div t.scale[i] \in Int /\ f[i] - t.mean[i] \in Int
    BY <1>1, <1>2 DEF Fingerprints
  <2> QED
    BY <2>1, <1>0
<1> HIDE DEF z
<1>4. weighted \in [1..Stats -> Int]
  <2>1. ASSUME NEW i \in 1..Stats PROVE t.weight[i] * z[i] * z[i] \in Int
    <3>1. t.weight[i] * z[i] \in Int
      BY <1>0, <1>2, <1>3
    <3> QED
      BY <3>1, <1>0, <1>3
  <2> QED
    BY <2>1
<1>5. Sum(weighted) \in Int
  <2> HIDE DEF weighted
  <2> QED
    BY <1>1, <1>4, SumIsInt
<1>6. CASE metric = "z"
  BY <1>5, <1>6 DEF UnitDistance, z
<1>7. CASE metric # "z"
  <2>1. \A i, j \in 1..Stats : t.precision[i][j] \in Int
    <3>1. t.precision \in Seq(Seq(Int)) /\ Len(t.precision) = Stats
      BY <1>7 DEF Numbers, ValidTarget
    <3>2. \A i \in 1..Stats : t.precision[i] \in Seq(Int)
      BY <1>1, <3>1
    <3>3. \A i \in 1..Stats : Len(t.precision[i]) = Stats
      BY <1>7 DEF ValidTarget
    <3> QED
      BY <1>1, <3>2, <3>3
  <2>2. ASSUME NEW i \in 1..Stats PROVE row(i) \in Int
    <3>1. [j \in 1..Stats |-> t.precision[i][j] * z[j]] \in [1..Stats -> Int]
      BY <1>0, <1>3, <2>1
    <3> QED
      BY <1>1, <3>1, SumIsInt
  <2> HIDE DEF row
  <2>3. [i \in 1..Stats |-> z[i] * row(i)] \in [1..Stats -> Int]
    BY <1>0, <1>3, <2>2
  <2>4. product \in Int
    BY <1>1, <2>3, SumIsInt
  <2>5. UnitDistance(metric, f, t) = IF product > 0 THEN product ELSE 0
    BY <1>7 DEF UnitDistance, z, row
  <2> HIDE DEF product
  <2> QED
    BY <2>4, <2>5
<1> QED
  BY <1>6, <1>7

-----------------------------------------------------------------------------
(* The closest seed, found once and found again seed by seed.              *)

\* Position k has the least distance of the first n seeds, and no earlier one has.
Leader(d, n, k) ==
    /\ k \in 1..n
    /\ \A m \in 1..n : d[k] <= d[m] /\ (m < k => d[k] < d[m])

LEMMA LeaderExists ==
  ASSUME NEW last \in Nat, NEW d \in [1..last -> Int], NEW n \in 1..last
  PROVE  \E k : Leader(d, n, k)
<1> DEFINE S == 1..n
           R == {p \in S \X S : d[p[1]] < d[p[2]] \/ (d[p[1]] = d[p[2]] /\ p[1] <= p[2])}
<1>1. IsFiniteSet(S) /\ S # {}
  <2>1. 1 \in Int /\ n \in Int /\ 1 \in S
    OBVIOUS
  <2> QED
    BY <2>1, FS_Interval
<1>2. \A x, y \in S : <<x, y>> \in R <=> (d[x] < d[y] \/ (d[x] = d[y] /\ x <= y))
  OBVIOUS
<1>3. \A x \in S : d[x] \in Int /\ x \in Int
  OBVIOUS
<1> HIDE DEF R
<1>4. \A x, y \in S : <<x, y>> \in R \/ <<y, x>> \in R
  <2> TAKE x, y \in S
  <2>1. d[x] \in Int /\ d[y] \in Int /\ x \in Int /\ y \in Int
    BY <1>3
  <2>2. \/ d[x] < d[y] \/ (d[x] = d[y] /\ x <= y)
        \/ d[y] < d[x] \/ (d[y] = d[x] /\ y <= x)
    BY <2>1
  <2> QED
    BY <1>2, <2>2
<1>5. \A x, y, z \in S : <<x, y>> \in R /\ <<y, z>> \in R => <<x, z>> \in R
  BY <1>2, <1>3
<1>6. PICK k \in S : \A c \in S : <<k, c>> \in R
  <2> HIDE DEF S
  <2> QED
    BY <1>1, <1>4, <1>5, FirstOf
<1>7. \A m \in S : d[k] <= d[m] /\ (m < k => d[k] < d[m])
  <2> TAKE m \in S
  <2>1. d[k] \in Int /\ d[m] \in Int /\ k \in Int /\ m \in Int
    BY <1>3
  <2>2. d[k] < d[m] \/ (d[k] = d[m] /\ k <= m)
    BY <1>2, <1>6
  <2> QED
    BY <2>1, <2>2
<1> QED
  BY <1>7 DEF Leader

LEMMA LeaderUnique ==
  ASSUME NEW last \in Nat, NEW d \in [1..last -> Int], NEW n \in 1..last,
         NEW j, Leader(d, n, j), NEW k, Leader(d, n, k)
  PROVE  j = k
<1>1. j \in 1..n /\ k \in 1..n /\ j \in 1..last /\ k \in 1..last
  BY DEF Leader
<1>2. d[j] \in Int /\ d[k] \in Int /\ j \in Int /\ k \in Int
  BY <1>1
<1>3. /\ d[k] <= d[j] /\ (j < k => d[k] < d[j])
      /\ d[j] <= d[k] /\ (k < j => d[j] < d[k])
  BY <1>1 DEF Leader
<1> QED
  BY <1>2, <1>3

\* A seed more changes the leader if it is strictly closer.
LEMMA LeaderStep ==
  ASSUME NEW last \in Nat, NEW d \in [1..last -> Int], NEW n \in 1..last, n + 1 \in 1..last,
         NEW k, Leader(d, n, k)
  PROVE  Leader(d, n + 1, IF d[n + 1] < d[k] THEN n + 1 ELSE k)
<1>1. k \in 1..n /\ k \in 1..(n + 1) /\ n + 1 \in 1..(n + 1) /\ k \in 1..last
  BY DEF Leader
<1>2. \A m \in 1..(n + 1) : m \in 1..last /\ d[m] \in Int /\ (m \in 1..n \/ m = n + 1)
  OBVIOUS
<1>3. \A m \in 1..n : d[k] <= d[m] /\ (m < k => d[k] < d[m])
  BY DEF Leader
<1>4. ASSUME d[n + 1] < d[k] PROVE Leader(d, n + 1, n + 1)
  <2>1. ASSUME NEW m \in 1..(n + 1)
        PROVE  d[n + 1] <= d[m] /\ (m < n + 1 => d[n + 1] < d[m])
    <3>1. d[n + 1] \in Int /\ d[m] \in Int /\ d[k] \in Int
      BY <1>1, <1>2
    <3>2. m # n + 1 => d[k] <= d[m]
      BY <1>2, <1>3
    <3> QED
      BY <1>4, <3>1, <3>2
  <2> QED
    BY <1>1, <2>1 DEF Leader
<1>5. ASSUME ~ (d[n + 1] < d[k]) PROVE Leader(d, n + 1, k)
  <2>1. ASSUME NEW m \in 1..(n + 1)
        PROVE  d[k] <= d[m] /\ (m < k => d[k] < d[m])
    <3>1. d[n + 1] \in Int /\ d[m] \in Int /\ d[k] \in Int
      BY <1>1, <1>2
    <3> QED
      BY <1>1, <1>2, <1>3, <1>5, <3>1
  <2> QED
    BY <1>1, <2>1 DEF Leader
<1> QED
  BY <1>4, <1>5

LEMMA FirstClosestLeads ==
  ASSUME NEW n \in Nat \ {0}, NEW seeds, DOMAIN seeds = 1..n, Len(seeds) = n,
         NEW d \in [1..n -> Int], d = Distances(seeds)
  PROVE  \E k : Leader(d, n, k) /\ FirstClosest(seeds) = seeds[k]
<1> DEFINE Best(b) == b = [i \in 1..n |-> IF i = 1 THEN seeds[1]
                                       ELSE IF seeds[i].distance < b[i - 1].distance
                                            THEN seeds[i] ELSE b[i - 1]]
<1>0. \A i \in 1..n : d[i] = seeds[i].distance
  BY DEF Distances
<1>2. PICK lead : lead = [i \in 1..n |-> CHOOSE k : Leader(d, i, k)]
  OBVIOUS
<1>3. \A i \in 1..n : Leader(d, i, lead[i])
  <2> TAKE i \in 1..n
  <2>1. lead[i] = CHOOSE k : Leader(d, i, k)
    BY <1>2
  <2>3. \E k : Leader(d, i, k)
    BY LeaderExists
  <2> QED
    BY <2>1, <2>3
<1>4. PICK g : g = [i \in 1..n |-> seeds[lead[i]]]
  OBVIOUS
<1>5. lead[1] = 1
  BY <1>3 DEF Leader
<1>6. \A i \in 2..n :
        lead[i] = IF d[i] < d[lead[i - 1]] THEN i ELSE lead[i - 1]
  <2> TAKE i \in 2..n
  <2>1. i - 1 \in Nat \ {0} /\ i - 1 \in 1..n /\ i \in 1..n /\ i \in Nat /\ (i - 1) + 1 = i
    OBVIOUS
  <2> DEFINE j == i - 1
             next == IF d[i] < d[lead[j]] THEN i ELSE lead[j]
  <2>2. j \in Nat \ {0} /\ j + 1 = i /\ Leader(d, j, lead[j])
        /\ j \in 1..n /\ j + 1 \in 1..n
    BY <1>3, <2>1
  <2> HIDE DEF j
  <2>3. Leader(d, i, next)
    BY <2>2, LeaderStep
  <2>4. Leader(d, i, lead[i])
    BY <1>3, <2>1
  <2> HIDE DEF next
  <2>5. lead[i] = next
    BY <2>1, <2>2, <2>3, <2>4, LeaderUnique
  <2> QED
    BY <2>5 DEF next, j
<1>7. Best(g)
  <2>1. \A i \in 2..n : i - 1 \in 1..n /\ i \in 1..n
    OBVIOUS
  <2>2. \A i \in 2..n : g[i] = IF seeds[i].distance < g[i - 1].distance
                              THEN seeds[i] ELSE g[i - 1]
    <3> TAKE i \in 2..n
    <3>1. lead[i - 1] \in 1..n
      BY <1>3, <2>1 DEF Leader
    <3>2. d[lead[i - 1]] = g[i - 1].distance /\ d[i] = seeds[i].distance
      BY <1>0, <1>4, <2>1, <3>1
    <3> QED
      BY <1>4, <1>6, <2>1, <3>2
  <2>3. 1 \in 1..n /\ g[1] = seeds[1]
    BY <1>4, <1>5
  <2>4. \A i \in 1..n : i = 1 \/ i \in 2..n
    OBVIOUS
  <2> QED
    BY <1>4, <2>2, <2>3, <2>4
<1>8. PICK best : Best(best) /\ FirstClosest(seeds) = best[n]
  <2> DEFINE chosen == CHOOSE b : Best(b)
  <2>1. Best(chosen)
    BY <1>7
  <2>2. FirstClosest(seeds) = chosen[n]
    BY DEF FirstClosest
  <2> QED
    BY <2>1, <2>2
<1>9. \A i \in 1..n : best[i] = g[i]
  <2> DEFINE Wrong == {i \in 1..n : best[i] # g[i]}
  <2>1. SUFFICES ASSUME Wrong # {} PROVE FALSE
    OBVIOUS
  <2>2. PICK b \in Wrong : \A c \in Wrong : b <= c
    <3>1. Wrong \in SUBSET Nat
      OBVIOUS
    <3> HIDE DEF Wrong
    <3> QED
      BY <2>1, <3>1, LeastOf
  <2>3. b # 1
    BY <1>7, <1>8, <2>2
  <2>4. b - 1 \in 1..n /\ b - 1 \notin Wrong
    BY <2>2, <2>3
  <2>5. best[b - 1] = g[b - 1]
    BY <2>4
  <2>6. b \in 1..n /\ best[b] # g[b]
    BY <2>2
  <2> QED
    BY <1>7, <1>8, <2>3, <2>5, <2>6
<1>10. n \in 1..n
  OBVIOUS
<1> QED
  BY <1>3, <1>4, <1>8, <1>9, <1>10

\* finish() compares distances and then seeds, run_job() takes the first that is closer.
LEMMA ClosestIsFirst ==
  ASSUME NEW n \in Nat \ {0}, NEW seeds, DOMAIN seeds = 1..n, Len(seeds) = n,
         NEW start \in Nat,
         \A k \in 1..n : seeds[k].seed = start + k - 1 /\ seeds[k].distance \in Int
  PROVE  Closest(seeds) = FirstClosest(seeds)
<1> DEFINE ahead(j, k) == \/ seeds[j].distance < seeds[k].distance
                          \/ seeds[j].distance = seeds[k].distance /\ seeds[j].seed <= seeds[k].seed
           best(k) == \A m \in 1..n : ahead(k, m)
<1>1. PICK d : d = Distances(seeds)
  OBVIOUS
<1>2. d \in [1..n -> Int] /\ \A k \in 1..n : d[k] = seeds[k].distance
  BY <1>1 DEF Distances
<1>3. PICK k : Leader(d, n, k) /\ FirstClosest(seeds) = seeds[k]
  BY <1>1, <1>2, FirstClosestLeads
<1>4. k \in 1..n
  BY <1>3 DEF Leader
<1>5. \A i, j \in 1..n : ahead(i, j) <=> (d[i] < d[j] \/ (d[i] = d[j] /\ i <= j))
  <2> TAKE i, j \in 1..n
  <2>1. seeds[i].seed = start + i - 1 /\ seeds[j].seed = start + j - 1
    OBVIOUS
  <2>2. seeds[i].seed <= seeds[j].seed <=> i <= j
    BY <2>1
  <2> QED
    BY <1>2, <2>2
<1> HIDE DEF ahead
<1>6. best(k)
  <2> SUFFICES ASSUME NEW m \in 1..n PROVE ahead(k, m)
    OBVIOUS
  <2>1. d[k] <= d[m] /\ (m < k => d[k] < d[m])
    BY <1>3 DEF Leader
  <2>2. d[k] \in Int /\ d[m] \in Int /\ k \in Int /\ m \in Int
    BY <1>2, <1>4
  <2>3. d[k] < d[m] \/ (d[k] = d[m] /\ k <= m)
    BY <2>1, <2>2
  <2> QED
    BY <1>4, <1>5, <2>3
<1>7. ASSUME NEW j \in 1..n, best(j) PROVE j = k
  <2>1. d[k] \in Int /\ d[j] \in Int /\ k \in Int /\ j \in Int
    BY <1>2, <1>4
  <2>2. (d[j] < d[k] \/ (d[j] = d[k] /\ j <= k)) /\ (d[k] < d[j] \/ (d[k] = d[j] /\ k <= j))
    BY <1>4, <1>5, <1>6, <1>7
  <2> QED
    BY <2>1, <2>2
<1> HIDE DEF best
<1>8. (CHOOSE j \in 1..n : best(j)) = k
  BY <1>4, <1>6, <1>7
<1>9. Closest(seeds) = seeds[CHOOSE j \in 1..n : best(j)]
  BY DEF Closest, best, ahead
<1> QED
  BY <1>3, <1>8, <1>9

-----------------------------------------------------------------------------
(* Corpora and runs of one seed.                                           *)

Reports == [seed : Nat, fingerprint : Fingerprints, distance : Int]

SeedOf(i, k) == i.job.unit.seed_start + k - 1
Measures(l, i, k) == Statistics(l, CorpusOf(i.job, SeedOf(i, k)))

\* What a checkpoint tells is what the generator says of each seed it has done.  A
\* distance may have been damaged.
Sound(l, cp) ==
    /\ cp \in [input : Inputs, done : Nat, seeds : Seq(Reports)]
    /\ Validated(cp.input)
    /\ Builds(cp.input.job.unit.family, cp.input.job.unit.params, cp.input.job.resources)
    /\ cp.done \in 1..cp.input.job.unit.seed_count /\ Len(cp.seeds) = cp.done
    /\ \A k \in 1..cp.done :
          /\ cp.seeds[k].seed = SeedOf(cp.input, k)
          /\ cp.seeds[k].fingerprint = Measures(l, cp.input, k)
          /\ Measures(l, cp.input, k) # None

\* A unit that can be run to its end.
Runs(l, job) ==
    /\ ValidUnit(job) /\ Builds(job.unit.family, job.unit.params, job.resources)
    /\ \A k \in 1..job.unit.seed_count : Statistics(l, Corpora(job)[k]) # None

\* A generation is the run of the whole unit.
Whole(l, i, g) == g.input = i /\ g.result = RunWorkUnit(l, i.job) /\ Runs(l, i.job)

LEMMA InputFacts ==
  ASSUME NEW i \in Inputs, ValidUnit(i.job)
  PROVE  /\ {"unit", "target", "layout", "resources"} \subseteq DOMAIN i.job
         /\ i.job.unit.seed_start \in Nat
         /\ i.job.unit.seed_count \in Nat \ {0}
         /\ i.job.unit.seed_start + i.job.unit.seed_count <= MaxWord
         /\ Numbers(i.job.target) /\ ValidTarget(i.job.target)
         /\ i.job.unit.metric # "z" => i.job.target.precision # None
<1>1. /\ i.job.unit.seed_start \in Nat /\ i.job.unit.seed_count \in Nat
      /\ {"unit", "target", "layout", "resources"} \subseteq DOMAIN i.job
  BY GenerationData
<1>2. Numbers(i.job.target)
  BY GenerationData DEF Numbers
<1>3. /\ i.job.unit.seed_count \in 1..MaxSeeds
      /\ i.job.unit.seed_start + i.job.unit.seed_count <= MaxWord
      /\ ValidTarget(i.job.target)
      /\ i.job.unit.metric \in {"z", "mahalanobis"}
      /\ i.job.unit.metric = "mahalanobis" => i.job.target.precision # None
  BY DEF ValidUnit
<1> QED
  BY <1>1, <1>2, <1>3

\* A measured seed of a valid unit has a fingerprint and a distance.
LEMMA MeasureFacts ==
  ASSUME NEW l \in Lands, NEW i \in Inputs, ValidUnit(i.job),
         NEW k \in 1..i.job.unit.seed_count, Measures(l, i, k) # None
  PROVE  /\ SeedOf(i, k) \in Nat
         /\ Measures(l, i, k) \in Fingerprints
         /\ UnitDistance(i.job.unit.metric, Measures(l, i, k), i.job.target) \in Int
<1>1. SeedOf(i, k) \in Nat /\ SeedOf(i, k) \in 0..MaxWord
  <2>1. MaxWord \in Nat
    BY GenerationBounds
  <2> DEFINE start == i.job.unit.seed_start
             count == i.job.unit.seed_count
  <2>2. start \in Nat /\ count \in Nat /\ start + count <= MaxWord /\ k \in 1..count
    BY InputFacts
  <2> HIDE DEF start, count
  <2>3. start + k - 1 \in Nat /\ start + k - 1 \in 0..MaxWord
    BY <2>1, <2>2
  <2> QED
    BY <2>3 DEF SeedOf, start
<1>2. Measures(l, i, k) \in Fingerprints
  BY <1>1, GenerationData DEF Measures, Fingerprints
<1> QED
  BY <1>1, <1>2, InputFacts, DistanceIsInt

\* A unit of one seed is the science of the whole unit.
LEMMA SingleIsPart ==
  ASSUME NEW i \in Inputs, NEW done \in Nat
  PROVE  /\ \A s : CorpusOf(Single(i.job, done), s) = CorpusOf(i.job, s)
         /\ Single(i.job, done).unit.seed_start = i.job.unit.seed_start + done
         /\ Single(i.job, done).unit.seed_count = 1
         /\ Single(i.job, done).target = i.job.target
         /\ Single(i.job, done).unit.metric = i.job.unit.metric
<1>1. PICK j : j = i.job
  OBVIOUS
<1>2. PICK u : u = j.unit
  OBVIOUS
<1>3. {"unit", "target", "layout", "resources"} \subseteq DOMAIN j
  BY <1>1, GenerationData
<1>4. {"experiment", "family", "params", "version", "layout", "resources", "metric",
       "seed_start", "seed_count"} \subseteq DOMAIN u
  BY <1>1, <1>2, GenerationData
<1>5. PICK v : v = [u EXCEPT !.seed_start = @ + done, !.seed_count = 1]
  OBVIOUS
<1>6. /\ v.experiment = u.experiment /\ v.family = u.family /\ v.params = u.params
      /\ v.version = u.version /\ v.layout = u.layout /\ v.resources = u.resources
      /\ v.metric = u.metric /\ v.seed_start = u.seed_start + done /\ v.seed_count = 1
  BY <1>4, <1>5
<1>7. Single(i.job, done) = [j EXCEPT !.unit = v]
  BY <1>1, <1>2, <1>3, <1>5 DEF Single
<1>8. /\ Single(i.job, done).unit = v /\ Single(i.job, done).target = j.target
      /\ Single(i.job, done).layout = j.layout /\ Single(i.job, done).resources = j.resources
  BY <1>3, <1>7
<1>9. StreamOf(v) = StreamOf(u)
  BY <1>6 DEF StreamOf
<1>10. ASSUME NEW s PROVE CorpusOf(Single(i.job, done), s) = CorpusOf(i.job, s)
  BY <1>1, <1>2, <1>6, <1>8, <1>9 DEF CorpusOf
<1> QED
  BY <1>1, <1>2, <1>6, <1>8, <1>10

\* Running the next seed alone.
LEMMA SingleRun ==
  ASSUME NEW l \in Lands, NEW i \in Inputs, ValidUnit(i.job),
         NEW done \in Nat, done < i.job.unit.seed_count,
         RunWorkUnit(l, Single(i.job, done)) # None
  PROVE  /\ Builds(i.job.unit.family, i.job.unit.params, i.job.resources)
         /\ Measures(l, i, done + 1) # None
         /\ \E r \in Reports :
               /\ RunWorkUnit(l, Single(i.job, done)).seeds = <<r>>
               /\ r.seed = SeedOf(i, done + 1)
               /\ r.fingerprint = Measures(l, i, done + 1)
<1> DEFINE one == Single(i.job, done)
           start == i.job.unit.seed_start
           corpus == CorpusOf(i.job, SeedOf(i, done + 1))
           r == SeedResult(l, corpus, one)
<1>1. start \in Nat /\ i.job.unit.seed_count \in Nat \ {0}
  BY InputFacts
<1>2. /\ \A s : CorpusOf(one, s) = CorpusOf(i.job, s)
      /\ one.unit.seed_start = start + done /\ one.unit.seed_count = 1
      /\ one.target = i.job.target /\ one.unit.metric = i.job.unit.metric
  BY SingleIsPart
<1>3. done + 1 \in 1..i.job.unit.seed_count
  BY <1>1
<1>4. Corpora(one) = [k \in 1..1 |-> corpus]
  <2>1. \A k \in 1..1 : one.unit.seed_start + k - 1 = SeedOf(i, done + 1)
    BY <1>1, <1>2 DEF SeedOf
  <2>2. \A k \in 1..1 : CorpusOf(one, one.unit.seed_start + k - 1) = corpus
    BY <1>2, <2>1
  <2> HIDE DEF one, corpus
  <2> QED
    BY <1>2, <2>2 DEF Corpora
<1>5. /\ Builds(one.unit.family, one.unit.params, one.resources)
      /\ \A k \in 1..one.unit.seed_count : Statistics(l, Corpora(one)[k]) # None
      /\ RunWorkUnit(l, one)
           = LET seeds == [k \in 1..one.unit.seed_count |-> SeedResult(l, Corpora(one)[k], one)]
             IN ResultOf(one.unit, seeds, FirstClosest(seeds))
  BY DEF RunWorkUnit
<1>6. RunWorkUnit(l, one).seeds = [k \in 1..1 |-> r]
  <2>1. [k \in 1..one.unit.seed_count |-> SeedResult(l, Corpora(one)[k], one)] = [k \in 1..1 |-> r]
    BY <1>2, <1>4
  <2> QED
    BY <1>5, <2>1 DEF ResultOf
<1>7. Builds(i.job.unit.family, i.job.unit.params, i.job.resources)
  <2>1. CorpusOf(one, 0) = CorpusOf(i.job, 0)
    BY <1>2
  <2>2. /\ one.unit.family = i.job.unit.family /\ one.unit.params = i.job.unit.params
        /\ one.resources = i.job.resources
    BY <2>1 DEF CorpusOf
  <2> QED
    BY <1>5, <2>2
<1>8. Measures(l, i, done + 1) # None
  <2>1. 1 \in 1..one.unit.seed_count /\ Corpora(one)[1] = corpus
    BY <1>2, <1>4
  <2> QED
    BY <1>5, <2>1 DEF Measures
<1>9. r = [seed |-> SeedOf(i, done + 1), fingerprint |-> Measures(l, i, done + 1),
           distance |-> UnitDistance(i.job.unit.metric, Measures(l, i, done + 1), i.job.target)]
  BY <1>2 DEF SeedResult, Measures, CorpusOf
<1>10. /\ SeedOf(i, done + 1) \in Nat /\ Measures(l, i, done + 1) \in Fingerprints
       /\ UnitDistance(i.job.unit.metric, Measures(l, i, done + 1), i.job.target) \in Int
  BY <1>3, <1>8, MeasureFacts
<1>11. r \in Reports
  BY <1>9, <1>10 DEF Reports
<1>12. r.seed = SeedOf(i, done + 1) /\ r.fingerprint = Measures(l, i, done + 1)
  BY <1>9
<1> HIDE DEF r, one
<1>13. RunWorkUnit(l, one).seeds = <<r>>
  BY <1>6
<1> QED
  BY <1>7, <1>8, <1>11, <1>12, <1>13 DEF one

LEMMA OneMore ==
  ASSUME NEW S, NEW s \in Seq(S), NEW r \in S
  PROVE  /\ s \o <<r>> \in Seq(S) /\ Len(s \o <<r>>) = Len(s) + 1
         /\ (s \o <<r>>)[Len(s) + 1] = r
         /\ \A k \in 1..Len(s) : (s \o <<r>>)[k] = s[k]
  OBVIOUS

LEMMA StepSound ==
  ASSUME NEW l \in Lands, NEW i \in Inputs, NEW before,
         before # None => Sound(l, before), Step(l, i, before) # None
  PROVE  Sound(l, Step(l, i, before)) /\ Step(l, i, before).input = i
<1> DEFINE count == i.job.unit.seed_count
<1>1. PICK cp : cp = IF before = None THEN Fresh(i) ELSE before
  OBVIOUS
<1>2. PICK one : one = RunWorkUnit(l, Single(i.job, cp.done))
  OBVIOUS
<1>3. /\ Validated(i) /\ ~ Differs(cp, i)
      /\ Step(l, i, before) = IF cp.done = count THEN cp
                              ELSE [cp EXCEPT !.done = @ + 1, !.seeds = @ \o one.seeds]
      /\ cp.done # count => one # None
  BY <1>1, <1>2 DEF Step
<1>4. ValidUnit(i.job)
  BY <1>3 DEF Validated
<1>5. count \in Nat \ {0}
  BY <1>4, InputFacts
<1>6. cp \in [input : Inputs, done : Nat, seeds : Seq(Reports)]
  <2>1. CASE before = None
    <3>1. <<>> \in Seq(Reports)
      OBVIOUS
    <3> QED
      BY <1>1, <2>1, <3>1 DEF Fresh
  <2>2. CASE before # None
    BY <1>1, <2>2 DEF Sound
  <2> QED
    BY <2>1, <2>2
<1>7. cp.input = i /\ cp.done = Len(cp.seeds) /\ cp.done <= count
  BY <1>3, <1>5, <1>6 DEF Differs
<1>8. CASE cp.done = count
  <2>1. before # None
    BY <1>1, <1>5, <1>8 DEF Fresh
  <2> QED
    BY <1>1, <1>3, <1>7, <1>8, <2>1
<1>9. CASE cp.done # count
  <2> DEFINE n == cp.done
             s == cp.seeds
  <2>1. n \in Nat /\ n < count /\ s \in Seq(Reports) /\ Len(s) = n
    BY <1>5, <1>6, <1>7, <1>9
  <2>2. /\ Builds(i.job.unit.family, i.job.unit.params, i.job.resources)
        /\ Measures(l, i, n + 1) # None
        /\ \E r \in Reports :
              /\ RunWorkUnit(l, Single(i.job, n)).seeds = <<r>>
              /\ r.seed = SeedOf(i, n + 1)
              /\ r.fingerprint = Measures(l, i, n + 1)
    BY <1>2, <1>3, <1>4, <1>9, <2>1, SingleRun
  <2>3. PICK r \in Reports : /\ one.seeds = <<r>>
                             /\ r.seed = SeedOf(i, n + 1)
                             /\ r.fingerprint = Measures(l, i, n + 1)
    BY <1>2, <2>2
  <2>4. PICK t : t = s \o one.seeds
    OBVIOUS
  <2>5. t \in Seq(Reports) /\ Len(t) = n + 1 /\ t[n + 1] = r /\ \A k \in 1..n : t[k] = s[k]
    <3>1. t = s \o <<r>>
      BY <2>3, <2>4
    <3> HIDE DEF s
    <3> QED
      BY <2>1, <3>1, OneMore
  <2>6. PICK new : new = [cp EXCEPT !.done = @ + 1, !.seeds = @ \o one.seeds]
    OBVIOUS
  <2>7. /\ new \in [input : Inputs, done : Nat, seeds : Seq(Reports)]
        /\ new.input = i /\ new.done = n + 1 /\ new.seeds = t
    <3>1. cp = [input |-> i, done |-> n, seeds |-> s]
      BY <1>6, <1>7
    <3> HIDE DEF n, s
    <3>2. new = [input |-> i, done |-> n + 1, seeds |-> t]
      BY <2>4, <2>6, <3>1
    <3> QED
      BY <2>1, <2>5, <3>2
  <2>8. \A k \in 1..n : /\ s[k].seed = SeedOf(i, k) /\ s[k].fingerprint = Measures(l, i, k)
                        /\ Measures(l, i, k) # None
    <3>1. CASE before = None
      <4>1. n = 0
        BY <1>1, <3>1 DEF Fresh
      <4> QED
        BY <4>1
    <3>2. CASE before # None
      BY <1>1, <1>7, <3>2 DEF Sound
    <3> QED
      BY <3>1, <3>2
  <2> HIDE DEF n, s
  <2>9. \A k \in 1..(n + 1) : /\ t[k].seed = SeedOf(i, k) /\ t[k].fingerprint = Measures(l, i, k)
                              /\ Measures(l, i, k) # None
    <3>1. \A k \in 1..(n + 1) : k = n + 1 \/ k \in 1..n
      BY <2>1
    <3> QED
      BY <2>2, <2>3, <2>5, <2>8, <3>1
  <2>10. n + 1 \in 1..count
    BY <1>5, <2>1
  <2>11. Sound(l, new)
    BY <1>3, <2>2, <2>5, <2>7, <2>9, <2>10 DEF Sound
  <2> QED
    BY <1>3, <1>9, <2>6, <2>7, <2>11
<1> QED
  BY <1>8, <1>9

LEMMA FinishWhole ==
  ASSUME NEW l \in Lands, NEW i \in Inputs, NEW cp, Sound(l, cp), Finish(i, cp) # None
  PROVE  Whole(l, i, Finish(i, cp))
<1> DEFINE n == i.job.unit.seed_count
           unit == i.job.unit
<1>1. /\ Validated(i) /\ cp.input = i /\ cp.done = n /\ Len(cp.seeds) = n
      /\ \A k \in DOMAIN cp.seeds :
            cp.seeds[k].distance = UnitDistance(unit.metric, cp.seeds[k].fingerprint, i.job.target)
      /\ Finish(i, cp) = [input |-> i, result |-> ResultOf(unit, cp.seeds, Closest(cp.seeds))]
  BY DEF Finish
<1>2. ValidUnit(i.job) /\ Builds(unit.family, unit.params, i.job.resources)
  BY <1>1 DEF Validated, Sound
<1>3. n \in Nat \ {0} /\ unit.seed_start \in Nat
  BY <1>2, InputFacts
<1>4. cp.seeds \in Seq(Reports)
  BY DEF Sound
<1>5. PICK s : s = cp.seeds
  OBVIOUS
<1>6. s \in [1..n -> Reports] /\ DOMAIN s = 1..n /\ Len(s) = n
  BY <1>1, <1>3, <1>4, <1>5
<1>7. \A k \in 1..n : /\ s[k].seed = SeedOf(i, k) /\ s[k].fingerprint = Measures(l, i, k)
                      /\ Measures(l, i, k) # None
  BY <1>1, <1>5 DEF Sound
<1>8. \A k \in 1..n : s[k].distance = UnitDistance(unit.metric, s[k].fingerprint, i.job.target)
  BY <1>1, <1>5, <1>6
<1>9. \A k \in 1..n : Corpora(i.job)[k] = CorpusOf(i.job, SeedOf(i, k))
  BY DEF Corpora, SeedOf
<1>10. \A k \in 1..n : Statistics(l, Corpora(i.job)[k]) # None
  BY <1>7, <1>9 DEF Measures
<1>11. ASSUME NEW k \in 1..n PROVE s[k] = SeedResult(l, Corpora(i.job)[k], i.job)
  <2>1. s[k] \in Reports
    BY <1>6
  <2>2. s[k] = [seed |-> s[k].seed, fingerprint |-> s[k].fingerprint, distance |-> s[k].distance]
    BY <2>1 DEF Reports
  <2>3. SeedResult(l, Corpora(i.job)[k], i.job)
          = [seed |-> SeedOf(i, k), fingerprint |-> Measures(l, i, k),
             distance |-> UnitDistance(unit.metric, Measures(l, i, k), i.job.target)]
    BY <1>9 DEF SeedResult, Measures, CorpusOf
  <2> QED
    BY <1>7, <1>8, <2>2, <2>3
<1>12. s = [k \in 1..n |-> SeedResult(l, Corpora(i.job)[k], i.job)]
  BY <1>6, <1>11
<1>13. Closest(s) = FirstClosest(s)
  <2>1. \A k \in 1..n : s[k].seed = unit.seed_start + k - 1 /\ s[k].distance \in Int
    BY <1>6, <1>7 DEF Reports, SeedOf
  <2> QED
    BY <1>3, <1>6, <2>1, ClosestIsFirst
<1>14. RunWorkUnit(l, i.job) = ResultOf(unit, s, FirstClosest(s))
  BY <1>2, <1>10, <1>12 DEF RunWorkUnit
<1>15. Finish(i, cp) = [input |-> i, result |-> RunWorkUnit(l, i.job)]
  BY <1>1, <1>5, <1>13, <1>14
<1> QED
  BY <1>2, <1>10, <1>15 DEF Whole, Runs

\* The checkpoints there may be.
Sounds(l) == {None} \cup
  {cp \in [input : Inputs, done : Nat, seeds : Seq(Reports)] : Sound(l, cp)}

LEMMA ProgressSound ==
  ASSUME NEW l \in Lands, NEW i \in Inputs, NEW n \in Nat
  PROVE  Progress(l, i, n) \in Sounds(l)
<1> DEFINE Next1(k, cp) == IF k > 1 /\ cp = None THEN None ELSE Step(l, i, cp)
           Upto(u) == u = [k \in 0..n |-> IF k = 0 THEN None
                                          ELSE IF k > 1 /\ u[k - 1] = None THEN None
                                               ELSE Step(l, i, u[k - 1])]
<1>1. ASSUME NEW k \in 1..n, NEW cp \in Sounds(l) PROVE Next1(k, cp) \in Sounds(l)
  <2>1. cp # None => Sound(l, cp)
    BY DEF Sounds
  <2>2. Step(l, i, cp) # None => Sound(l, Step(l, i, cp))
    BY <2>1, StepSound
  <2>3. Step(l, i, cp) \in Sounds(l)
    BY <2>2 DEF Sounds, Sound
  <2>4. None \in Sounds(l)
    BY DEF Sounds
  <2> QED
    BY <2>3, <2>4
<1>2. PICK step : step = [k \in 1..n |-> [cp \in Sounds(l) |-> Next1(k, cp)]]
  OBVIOUS
<1>3. step \in [1..n -> [Sounds(l) -> Sounds(l)]]
  BY <1>1, <1>2
<1>4. \A k \in 1..n : \A cp \in Sounds(l) : step[k][cp] = Next1(k, cp)
  BY <1>2
<1>5. PICK f : Walk(f, n, Sounds(l), None, step)
  <2>1. None \in Sounds(l)
    BY DEF Sounds
  <2> QED
    BY <1>3, <2>1, Recursion
<1>6. f \in [0..n -> Sounds(l)] /\ f[0] = None /\ \A k \in 1..n : f[k] = Next1(k, f[k - 1])
  <2>1. \A k \in 1..n : k - 1 \in 0..n
    OBVIOUS
  <2> QED
    BY <1>4, <1>5, <2>1 DEF Walk
<1>7. Upto(f)
  <2>1. \A k \in 0..n : k = 0 \/ k \in 1..n
    OBVIOUS
  <2> QED
    BY <1>6, <2>1
<1>8. PICK u : Upto(u) /\ Progress(l, i, n) = u[n]
  <2> DEFINE chosen == CHOOSE v : Upto(v)
  <2>1. Upto(chosen)
    BY <1>7
  <2>2. Progress(l, i, n) = chosen[n]
    BY DEF Progress
  <2> QED
    BY <2>1, <2>2
<1>9. f[0] = u[0] /\ \A k \in 1..n : f[k - 1] = u[k - 1] => f[k] = u[k]
  BY <1>7, <1>8
<1>10. \A k \in 0..n : f[k] = u[k]
  <2>1. n \in Nat
    OBVIOUS
  <2> QED
    BY ONLY <1>9, <2>1, Agreement
<1>11. n \in 0..n
  OBVIOUS
<1> QED
  BY <1>6, <1>8, <1>10, <1>11

\* A byte of a distance is lost.
LEMMA DamagedSound ==
  ASSUME NEW l, NEW cp, Sound(l, cp)
  PROVE  Sound(l, [cp EXCEPT !.seeds[1].distance = @ + 1])
<1>1. PICK i \in Inputs, n \in Nat, s \in Seq(Reports) : cp = [input |-> i, done |-> n, seeds |-> s]
  BY DEF Sound
<1>2. n \in 1..i.job.unit.seed_count /\ Len(s) = n
  BY <1>1 DEF Sound
<1>3. 1 \in 1..n /\ s \in [1..n -> Reports]
  BY <1>2
<1>4. PICK r : r = [s[1] EXCEPT !.distance = @ + 1]
  OBVIOUS
<1>5. r \in Reports /\ r.seed = s[1].seed /\ r.fingerprint = s[1].fingerprint
  BY <1>3, <1>4 DEF Reports
<1>6. PICK t : t = [s EXCEPT ![1] = r]
  OBVIOUS
<1>7. t \in [1..n -> Reports] /\ \A k \in 1..n : t[k] = IF k = 1 THEN r ELSE s[k]
  BY <1>3, <1>5, <1>6
<1>8. t \in Seq(Reports) /\ Len(t) = n
  BY <1>2, <1>7
<1>9. PICK new : new = [cp EXCEPT !.seeds[1].distance = @ + 1]
  OBVIOUS
<1>10. new = [input |-> i, done |-> n, seeds |-> t]
  <2>1. [cp EXCEPT !.seeds[1].distance = @ + 1]
          = [cp EXCEPT !.seeds = [cp.seeds EXCEPT ![1] = [cp.seeds[1] EXCEPT !.distance = @ + 1]]]
    OBVIOUS
  <2>2. cp.seeds = s
    BY <1>1
  <2>3. new = [cp EXCEPT !.seeds = t]
    BY <1>4, <1>6, <1>9, <2>1, <2>2
  <2> QED
    BY <1>1, <2>3
<1>11. \A k \in 1..n : t[k].seed = s[k].seed /\ t[k].fingerprint = s[k].fingerprint
  BY <1>5, <1>7
<1>12. new \in [input : Inputs, done : Nat, seeds : Seq(Reports)]
  BY <1>8, <1>10
<1>13. new.input = i /\ new.done = n /\ new.seeds = t
       /\ cp.input = i /\ cp.done = n /\ cp.seeds = s
  BY <1>1, <1>10
<1>14. Sound(l, new)
  BY <1>8, <1>11, <1>12, <1>13 DEF Sound
<1> QED
  BY <1>9, <1>14

LEMMA RunIsWhole ==
  ASSUME NEW l \in Lands, NEW i \in Inputs, Run(l, i) # None
  PROVE  Whole(l, i, Run(l, i))
<1>1. PICK last : last = Progress(l, i, i.job.unit.seed_count)
  OBVIOUS
<1>2. last # None /\ Run(l, i) = Finish(i, last)
  BY <1>1 DEF Run
<1>3. i.job.unit.seed_count \in Nat
  BY GenerationData
<1>4. Sound(l, last)
  BY <1>1, <1>2, <1>3, ProgressSound DEF Sounds
<1> QED
  BY <1>2, <1>4, FinishWhole

-----------------------------------------------------------------------------
(* The host.                                                               *)

Tells(r) ==
    r.value # None =>
        /\ r.kind = "checkpoint" => Sound(land, r.value)
        /\ r.kind = "generation" => Whole(land, input, r.value)

NativeRuns(n) ==
    \E i \in Inputs : n.job = i.job /\ Runs(land, i.job) /\ n.result = RunWorkUnit(land, i.job)

ShownFrom(x) ==
    \E i \in Inputs : x.job = i.job /\ ValidUnit(i.job) /\ x.corpus = GenerateSeed(i.job, x.seed)

GenerationInv ==
    /\ input \in Inputs /\ land \in Lands
    /\ checkpoint # None => Sound(land, checkpoint)
    /\ stored # None => Sound(land, stored)
    /\ reply # None => Tells(reply)
    /\ generation # None => Whole(land, input, generation)
    /\ native # None => NativeRuns(native)
    /\ shown # None => ShownFrom(shown)

LEMMA GenerationStarts == GenerationInit => GenerationInv
  BY DEF GenerationInit, GenerationInv

LEMMA RepliesTell ==
  ASSUME NEW kind, NEW value, Replies(kind, value), UNCHANGED asked,
         value # None /\ kind = "checkpoint" => Sound(land, value),
         value # None /\ kind = "generation" => Whole(land, input, value)
  PROVE  Tells(reply)'
<1>1. land' = land /\ input' = input
  BY DEF asked
<1>2. CASE value = None
  BY <1>2 DEF Replies, Tells
<1>3. CASE value # None
  <2>1. reply'.kind = kind /\ reply'.value = value
    BY <1>3 DEF Replies
  <2> QED
    BY <1>1, <1>3, <2>1 DEF Tells
<1> QED
  BY <1>2, <1>3

\* What is unchanged stays as it was.
LEMMA AskedKeep ==
  ASSUME GenerationInv, UNCHANGED asked
  PROVE  /\ input' \in Inputs /\ land' \in Lands
         /\ UNCHANGED checkpoint => (checkpoint # None => Sound(land, checkpoint))'
         /\ UNCHANGED stored => (stored # None => Sound(land, stored))'
         /\ UNCHANGED reply => (reply # None => Tells(reply))'
         /\ UNCHANGED generation => (generation # None => Whole(land, input, generation))'
         /\ UNCHANGED native => (native # None => NativeRuns(native))'
         /\ UNCHANGED shown => (shown # None => ShownFrom(shown))'
<1>1. land' = land /\ input' = input
  BY DEF asked
<1> QED
  BY <1>1 DEF GenerationInv, Tells, NativeRuns, ShownFrom

LEMMA GenerationKeeps ==
  ASSUME GenerationInv, [GenerationNext]_generation_vars
  PROVE  GenerationInv'
<1>0. input \in Inputs /\ land \in Lands
  BY DEF GenerationInv
<1>1. CASE AskSeed
  <2>1. UNCHANGED <<asked, checkpoint, stored, generation, native, shown>>
        /\ Replies("checkpoint", Step(land, input, checkpoint))
    BY <1>1 DEF AskSeed
  <2>2. Step(land, input, checkpoint) # None => Sound(land, Step(land, input, checkpoint))
    BY <1>0, StepSound DEF GenerationInv
  <2>3. Tells(reply)'
    BY <2>1, <2>2, RepliesTell
  <2> QED
    BY <2>1, <2>3, AskedKeep DEF GenerationInv
<1>2. CASE AskWhole
  <2>1. UNCHANGED <<asked, checkpoint, stored, generation, native, shown>>
        /\ Replies("generation", Finish(input, checkpoint)) /\ checkpoint # None
    BY <1>2 DEF AskWhole
  <2>2. Finish(input, checkpoint) # None => Whole(land, input, Finish(input, checkpoint))
    BY <1>0, <2>1, FinishWhole DEF GenerationInv
  <2>3. Tells(reply)'
    BY <2>1, <2>2, RepliesTell
  <2> QED
    BY <2>1, <2>3, AskedKeep DEF GenerationInv
<1>3. CASE AskGenerate
  <2>1. UNCHANGED <<asked, checkpoint, stored, generation, native, shown>>
        /\ Replies("generation", Run(land, input))
    BY <1>3 DEF AskGenerate
  <2>2. Run(land, input) # None => Whole(land, input, Run(land, input))
    BY <1>0, RunIsWhole
  <2>3. Tells(reply)'
    BY <2>1, <2>2, RepliesTell
  <2> QED
    BY <2>1, <2>3, AskedKeep DEF GenerationInv
<1>4. CASE TakeReply
  <2>1. UNCHANGED <<asked, stored, native, shown>> /\ reply # None /\ reply' = None
        /\ checkpoint' = (IF reply.kind = "checkpoint" THEN reply.value ELSE checkpoint)
        /\ generation' = (IF reply.kind = "generation" THEN reply.value ELSE generation)
    BY <1>4 DEF TakeReply
  <2>2. land' = land /\ input' = input
    BY <2>1 DEF asked
  <2>3. Tells(reply)
    BY <2>1 DEF GenerationInv
  <2>4. checkpoint' # None => Sound(land, checkpoint')
    BY <2>1, <2>3 DEF GenerationInv, Tells
  <2>5. generation' # None => Whole(land, input, generation')
    BY <2>1, <2>3 DEF GenerationInv, Tells
  <2> QED
    BY <2>1, <2>2, <2>4, <2>5, AskedKeep DEF GenerationInv
<1>5. CASE Store
  <2>1. UNCHANGED <<asked, checkpoint, reply, generation, native, shown>> /\ stored' = checkpoint
    BY <1>5 DEF Store
  <2>2. land' = land /\ (stored' # None => Sound(land, stored'))
    BY <2>1 DEF asked, GenerationInv
  <2> QED
    BY <2>1, <2>2, AskedKeep DEF GenerationInv
<1>6. CASE Lose
  <2>1. UNCHANGED <<asked, stored, generation, native, shown>> /\ checkpoint' = None /\ reply' = None
    BY <1>6 DEF Lose
  <2> QED
    BY <2>1, AskedKeep DEF GenerationInv
<1>7. CASE Bring
  <2>1. UNCHANGED <<asked, stored, reply, generation, native, shown>>
    BY <1>7 DEF Bring
  <2>2. PICK cp \in Brought : cp # None /\ checkpoint' = cp
    BY <1>7 DEF Bring
  <2>3. \/ stored # None /\ cp = stored
        \/ stored # None /\ cp = [stored EXCEPT !.seeds[1].distance = @ + 1]
        \/ \E other \in Inputs : cp = Progress(land, other, 1)
    BY Zenon DEF Brought
  <2>4. stored # None => Sound(land, stored)
    BY DEF GenerationInv
  <2>5. ASSUME NEW other \in Inputs, Progress(land, other, 1) # None
        PROVE  Sound(land, Progress(land, other, 1))
    BY <1>0, <2>5, ProgressSound DEF Sounds
  <2>6. Sound(land, cp)
    <3>1. stored # None => Sound(land, [stored EXCEPT !.seeds[1].distance = @ + 1])
      BY <2>4, DamagedSound, Zenon
    <3>2. CASE stored # None /\ cp = stored
      BY <2>4, <3>2
    <3>3. CASE stored # None /\ cp = [stored EXCEPT !.seeds[1].distance = @ + 1]
      BY ONLY <3>1, <3>3, Zenon
    <3>4. CASE \E other \in Inputs : cp = Progress(land, other, 1)
      BY <2>2, <2>5, <3>4
    <3> QED
      BY <2>3, <3>2, <3>3, <3>4
  <2>7. land' = land
    BY <2>1 DEF asked
  <2> QED
    BY <2>1, <2>2, <2>6, <2>7, AskedKeep DEF GenerationInv
<1>8. ASSUME NEW i \in Inputs, RunNative(i) PROVE GenerationInv'
  <2>1. UNCHANGED <<asked, checkpoint, stored, reply, generation, shown>>
        /\ RunWorkUnit(land, i.job) # None
        /\ native' = [job |-> i.job, result |-> RunWorkUnit(land, i.job)]
    BY <1>8 DEF RunNative
  <2>2. Runs(land, i.job)
    BY <2>1 DEF RunWorkUnit, Runs
  <2>3. native'.job = i.job /\ native'.result = RunWorkUnit(land, i.job) /\ land' = land
    BY <2>1 DEF asked
  <2>4. NativeRuns(native)'
    BY <2>2, <2>3 DEF NativeRuns
  <2> QED
    BY <2>1, <2>4, AskedKeep DEF GenerationInv
<1>9. ASSUME NEW k \in 1..MaxSeeds, ShowSeed(k) PROVE GenerationInv'
  <2>1. UNCHANGED <<asked, checkpoint, stored, reply, generation, native>> /\ native # None
    BY <1>9 DEF ShowSeed
  <2>2. PICK seed : shown' = [job |-> native.job, seed |-> seed,
                              corpus |-> GenerateSeed(native.job, seed)]
    BY <1>9 DEF ShowSeed
  <2>3. PICK i \in Inputs : native.job = i.job /\ ValidUnit(i.job)
    BY <2>1 DEF GenerationInv, NativeRuns, Runs
  <2>4. shown'.job = i.job /\ shown'.corpus = GenerateSeed(i.job, shown'.seed)
    BY <2>2, <2>3
  <2>5. ShownFrom(shown)'
    BY <2>3, <2>4 DEF ShownFrom
  <2> QED
    BY <2>1, <2>5, AskedKeep DEF GenerationInv
<1>10. CASE UNCHANGED generation_vars
  BY <1>10, AskedKeep DEF generation_vars, GenerationInv
<1> QED
  BY <1>1, <1>2, <1>3, <1>4, <1>5, <1>6, <1>7, <1>8, <1>9, <1>10 DEF GenerationNext

\* Every checkpoint that is the host's own is sound, whatever is lost, brought back or
\* damaged (generation.rs: valid_checkpoint, step), and what is reported of a seed anywhere
\* comes from one computation.
THEOREM GenerationInvariant == GenerationSpec => []GenerationInv
<1>1. GenerationInv /\ [GenerationNext]_generation_vars => GenerationInv'
  BY GenerationKeeps
<1> QED
  BY <1>1, GenerationStarts, PTL DEF GenerationSpec

\* A hosted result is the result of a native run of the whole unit (generation.rs: step,
\* finish and run against run_job), whatever checkpoints the host lost, brought or damaged.
THEOREM HostedResultIsWhole == GenerationSpec => []HostedIsWhole
<1>1. GenerationInv => HostedIsWhole
  BY DEF GenerationInv, Whole, HostedIsWhole
<1> QED
  BY <1>1, GenerationInvariant, PTL

\* What a run says of its seeds.
LEMMA RunSays ==
  ASSUME NEW l, NEW j, Runs(l, j), NEW k \in DOMAIN RunWorkUnit(l, j).seeds,
         NEW s, s = RunWorkUnit(l, j).seeds[k]
  PROVE  s.fingerprint = Statistics(l, CorpusOf(j, s.seed))
<1>1. PICK seeds : /\ seeds = [i \in 1..j.unit.seed_count |-> SeedResult(l, Corpora(j)[i], j)]
                   /\ RunWorkUnit(l, j) = ResultOf(j.unit, seeds, FirstClosest(seeds))
  BY DEF RunWorkUnit, Runs
<1>2. RunWorkUnit(l, j).seeds = seeds
  BY <1>1 DEF ResultOf
<1>3. k \in 1..j.unit.seed_count /\ s = SeedResult(l, Corpora(j)[k], j)
  BY <1>1, <1>2
<1>4. PICK seed : Corpora(j)[k] = CorpusOf(j, seed)
  BY <1>3 DEF Corpora
<1>5. s.seed = seed
  BY <1>3, <1>4 DEF SeedResult, CorpusOf
<1> QED
  BY <1>3, <1>4, <1>5 DEF SeedResult

\* Two valid jobs of the same science give a seed the same corpus.
LEMMA ScienceIsCorpus ==
  ASSUME NEW j, NEW k, ValidUnit(j), ValidUnit(k), SameScience(j, k), NEW s
  PROVE  CorpusOf(j, s) = CorpusOf(k, s)
<1>1. /\ j.unit.version = k.unit.version
      /\ j.unit.layout = j.layout /\ j.unit.resources = j.resources
      /\ k.unit.layout = k.layout /\ k.unit.resources = k.resources
  BY DEF ValidUnit
<1>2. /\ j.unit.experiment = k.unit.experiment /\ j.unit.family = k.unit.family
      /\ j.unit.params = k.unit.params /\ j.layout = k.layout /\ j.resources = k.resources
  BY DEF SameScience
<1>3. StreamOf(j.unit) = StreamOf(k.unit)
  BY <1>1, <1>2 DEF StreamOf
<1> QED
  BY <1>2, <1>3 DEF CorpusOf

\* Native runs in any chunks, hosted runs seed by seed and the regenerated text of a seed
\* (vah-core run_job, generation.rs, show-seed) never tell different statistics of it.
THEOREM SeedsAreOneCorpus == GenerationSpec => []SeedIsOneCorpus
<1> DEFINE Says(x) == \E i \in Inputs : /\ x.job = i.job /\ ValidUnit(i.job)
                                        /\ x.fingerprint = Statistics(land, CorpusOf(i.job, x.seed))
<1>1. ASSUME GenerationInv, NEW x \in Said PROVE Says(x)
  <2>1. ASSUME native # None,
               x \in {[job |-> native.job, seed |-> s.seed, fingerprint |-> s.fingerprint] :
                         s \in {native.result.seeds[k] : k \in DOMAIN native.result.seeds}}
        PROVE  Says(x)
    <3>1. PICK i \in Inputs : /\ native.job = i.job /\ Runs(land, i.job)
                              /\ native.result = RunWorkUnit(land, i.job)
      BY <1>1, <2>1 DEF GenerationInv, NativeRuns
    <3>2. PICK s \in {native.result.seeds[k] : k \in DOMAIN native.result.seeds} :
            x = [job |-> native.job, seed |-> s.seed, fingerprint |-> s.fingerprint]
      BY <2>1
    <3>4. PICK k \in DOMAIN native.result.seeds : s = native.result.seeds[k]
      BY <3>2
    <3>3. s.fingerprint = Statistics(land, CorpusOf(i.job, s.seed))
      BY <3>1, <3>4, RunSays
    <3> QED
      BY <3>1, <3>2, <3>3 DEF Runs
  <2>2. ASSUME generation # None,
               x \in {[job |-> generation.input.job, seed |-> s.seed, fingerprint |-> s.fingerprint] :
                         s \in {generation.result.seeds[k] : k \in DOMAIN generation.result.seeds}}
        PROVE  Says(x)
    <3>1. /\ input \in Inputs /\ generation.input = input /\ Runs(land, input.job)
          /\ generation.result = RunWorkUnit(land, input.job)
      BY <1>1, <2>2 DEF GenerationInv, Whole
    <3>2. PICK s \in {generation.result.seeds[k] : k \in DOMAIN generation.result.seeds} :
            x = [job |-> generation.input.job, seed |-> s.seed, fingerprint |-> s.fingerprint]
      BY <2>2
    <3>4. PICK k \in DOMAIN generation.result.seeds : s = generation.result.seeds[k]
      BY <3>2
    <3>3. s.fingerprint = Statistics(land, CorpusOf(input.job, s.seed))
      BY <3>1, <3>4, RunSays
    <3> QED
      BY <3>1, <3>2, <3>3 DEF Runs
  <2>3. ASSUME shown # None, shown.corpus # None,
               x = [job |-> shown.job, seed |-> shown.seed,
                    fingerprint |-> Statistics(land, shown.corpus)]
        PROVE  Says(x)
    <3>1. PICK i \in Inputs : /\ shown.job = i.job /\ ValidUnit(i.job)
                              /\ shown.corpus = GenerateSeed(i.job, shown.seed)
      BY <1>1, <2>3 DEF GenerationInv, ShownFrom
    <3>2. shown.corpus = CorpusOf(i.job, shown.seed)
      BY <2>3, <3>1 DEF GenerateSeed
    <3> QED
      BY <2>3, <3>1, <3>2
  <2> HIDE DEF Says
  <2> QED
    BY <1>1, <2>1, <2>2, <2>3 DEF Said
<1>2. ASSUME GenerationInv PROVE SeedIsOneCorpus
  <2> SUFFICES ASSUME NEW x \in Said, NEW y \in Said, SameScience(x.job, y.job), x.seed = y.seed
               PROVE  x.fingerprint = y.fingerprint
    BY DEF SeedIsOneCorpus
  <2>1. Says(x) /\ Says(y)
    BY <1>1, <1>2
  <2> QED
    BY <2>1, ScienceIsCorpus
<1>3. GenerationInv => SeedIsOneCorpus
  BY <1>2
<1> HIDE DEF Says
<1> QED
  BY <1>3, GenerationInvariant, PTL

=============================================================================
