----------------------------- MODULE WorkUnits -----------------------------
(***************************************************************************)
(* Work units of the simulation core (crate vah-core): what a valid job    *)
(* is, the random stream its seeds name, and its result.                   *)
(*                                                                         *)
(* A digest is the thing it is taken of.  A generated corpus is what its   *)
(* generator was given, and its statistics are a function that differs     *)
(* between behaviours.  Statistics are integers and scales divide Precise; *)
(* a distance is its square times what only depends on the target.         *)
(***************************************************************************)
EXTENDS Kernel, Integers, Sequences, FiniteSets
LOCAL INSTANCE SequencesExt
LOCAL INSTANCE FiniteSetsExt

CONSTANTS
    ParamKeys,           \* well-formed parameter names
    Scalars,             \* parameter values that are finite scalars
    Stats,               \* how many statistics a fingerprint has (30)
    Precise,             \* a multiple of every scale
    Statistics(_,_),     \* the fingerprint of a corpus, None if not finite
    Builds(_,_,_),       \* can the family be built from parameters and resources?
    MaxSeeds,            \* seeds of one unit (256)
    MaxWord,             \* the largest 64-bit number
    MaxLineWords,        \* the largest 16-bit number
    MaxLines, MaxTokens  \* of a layout

-----------------------------------------------------------------------------
(* Layouts and targets                                                     *)

Tokens(layout) == FoldLeft(LAMBDA n, line : n + line.words, 0, layout)

LayoutFrom(lines) ==
    LET kept == SelectSeq(lines, LAMBDA l : l.words # 0)
    IN [i \in DOMAIN kept |-> [kept[i] EXCEPT !.words = Min({@, MaxLineWords})]]

\* The longest prefix of whole lines within the limit, closed as a paragraph.
Truncated(layout, limit) ==
    LET fits == {n \in 0..Len(layout) : Tokens(SubSeq(layout, 1, n)) <= limit}
        kept == SubSeq(layout, 1, Max(fits))
    IN [i \in DOMAIN kept |-> [kept[i] EXCEPT !.end = @ \/ i = Len(kept)]]

ValidTarget(t) ==
    /\ Len(t.mean) = Stats /\ Len(t.scale) = Stats /\ Len(t.weight) = Stats
    /\ \A i \in 1..Stats : t.scale[i] > 0 /\ t.weight[i] >= 0
    /\ \E i \in 1..Stats : t.weight[i] > 0
    /\ t.precision # None =>
          Len(t.precision) = Stats /\ \A i \in 1..Stats : Len(t.precision[i]) = Stats

Sum(terms) ==
    LET upto[i \in 0..Len(terms)] == IF i = 0 THEN 0 ELSE upto[i - 1] + terms[i]
    IN upto[Len(terms)]

\* Both distances, each without the root and the divisor all seeds share.
UnitDistance(metric, f, t) ==
    LET z       == [i \in 1..Stats |-> (f[i] - t.mean[i]) * (Precise \div t.scale[i])]
        row(i)  == Sum([j \in 1..Stats |-> t.precision[i][j] * z[j]])
        product == Sum([i \in 1..Stats |-> z[i] * row(i)])
    IN IF metric = "z" THEN Sum([i \in 1..Stats |-> t.weight[i] * z[i] * z[i]])
       ELSE IF product > 0 THEN product ELSE 0

-----------------------------------------------------------------------------
(* Work units and jobs                                                     *)

MakeUnit(experiment, family, params, target, layout, resources, start, count, metric) ==
    [schema |-> "vah-work-unit-0.2", experiment |-> experiment, family |-> family,
     params |-> params, version |-> "fingerprint-v1", target |-> target, layout |-> layout,
     resources |-> resources, seed_start |-> start, seed_count |-> count, metric |-> metric]

\* Everything that defines the science, and not the range of seeds.
StreamOfRange(unit) ==
    <<unit.experiment, unit.family, unit.params, unit.version, unit.layout, unit.resources,
      unit.seed_start>>
StreamOf(unit) ==
    <<unit.experiment, unit.family, unit.params, unit.version, unit.layout, unit.resources>>

ValidUnit(job) ==
    LET unit == job.unit IN
    /\ unit.schema = "vah-work-unit-0.2" /\ unit.version = "fingerprint-v1"
    /\ unit.family \in Families
    /\ \A k \in DOMAIN unit.params : k \in ParamKeys /\ unit.params[k] \in Scalars
    /\ unit.seed_count \in 1..MaxSeeds
    /\ unit.seed_start + unit.seed_count <= MaxWord
    /\ Len(job.layout) \in 1..MaxLines
    /\ \A i \in DOMAIN job.layout : job.layout[i].words # 0
    /\ Tokens(job.layout) <= MaxTokens
    /\ ValidTarget(job.target)
    /\ unit.metric \in {"z", "mahalanobis"}
    /\ unit.metric = "mahalanobis" => job.target.precision # None
    /\ job.target.version = unit.version
    /\ unit.target = job.target /\ unit.layout = job.layout /\ unit.resources = job.resources

-----------------------------------------------------------------------------
(* Results                                                                 *)

\* What the generator is given, and the random numbers it is given them with.
CorpusOf(job, seed) ==
    [family |-> job.unit.family, params |-> job.unit.params, resources |-> job.resources,
     layout |-> job.layout, stream |-> StreamOf(job.unit), seed |-> seed]

Corpora(job) ==
    [i \in 1..job.unit.seed_count |-> CorpusOf(job, job.unit.seed_start + i - 1)]

SeedResult(land, corpus, job) ==
    LET f == Statistics(land, corpus)
    IN [seed |-> corpus.seed, fingerprint |-> f,
        distance |-> UnitDistance(job.unit.metric, f, job.target)]

Distances(seeds) == [i \in DOMAIN seeds |-> seeds[i].distance]

\* Twice the median and count times the mean.
Summary(distances) ==
    LET n      == Len(distances)
        sorted == SortSeq(distances, LAMBDA x, y : x < y)
    IN [n |-> n, total |-> FoldLeft(LAMBDA x, y : x + y, 0, distances),
        median |-> IF n % 2 = 1 THEN 2 * sorted[(n + 1) \div 2]
                   ELSE sorted[n \div 2] + sorted[n \div 2 + 1],
        min |-> sorted[1], max |-> sorted[n]]

\* Seed by seed, the specimen is replaced by one that is strictly closer.
FirstClosest(seeds) ==
    LET best[i \in 1..Len(seeds)] ==
          IF i = 1 THEN seeds[1]
          ELSE IF seeds[i].distance < best[i - 1].distance THEN seeds[i] ELSE best[i - 1]
    IN best[Len(seeds)]

CanonicalBytes(seeds) ==
    FlattenSeq([i \in DOMAIN seeds |->
                  <<seeds[i].seed>> \o seeds[i].fingerprint \o <<seeds[i].distance>>])

ResultOf(unit, seeds, specimen) ==
    [unit |-> unit, stream |-> StreamOf(unit), seeds |-> seeds,
     replicates |-> Summary(Distances(seeds)),
     specimen_seed |-> specimen.seed, specimen_distance |-> specimen.distance,
     hash |-> CanonicalBytes(seeds)]

\* A whole unit, or None when the job is refused or a statistic is not finite.
RunWorkUnit(land, job) ==
    IF /\ ValidUnit(job) /\ Builds(job.unit.family, job.unit.params, job.resources)
       /\ \A i \in 1..job.unit.seed_count : Statistics(land, Corpora(job)[i]) # None
    THEN LET seeds == [i \in 1..job.unit.seed_count |-> SeedResult(land, Corpora(job)[i], job)]
         IN ResultOf(job.unit, seeds, FirstClosest(seeds))
    ELSE None

\* The text of one seed, regenerated without looking at digests.
GenerateSeed(job, seed) ==
    IF Builds(job.unit.family, job.unit.params, job.resources) THEN CorpusOf(job, seed) ELSE None

=============================================================================
