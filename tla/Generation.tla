----------------------------- MODULE Generation -----------------------------
(***************************************************************************)
(* Generation jobs behind the bounded interface of crate vah-search-wasm:  *)
(* one seed for each call, on a checkpoint the host keeps, loses, and may  *)
(* mistake for another; beside it native runs of whole units (`voynich     *)
(* run-wu`, crate vah-wasm) and the regeneration of single seeds.          *)
(***************************************************************************)
EXTENDS WorkUnits
LOCAL INSTANCE FiniteSetsExt

CONSTANTS
    Inputs,          \* the inputs of generation jobs: [envelope, experiment, job]
    Lands,           \* what the simulations may turn out to say
    HostedSeeds,     \* seeds of a hosted job (8)
    HostedStart,     \* the largest first seed of a hosted job (2^32 - 9)
    HostedLines, HostedTokens,  \* of the layout of a hosted job
    MaxLosses        \* bound: how often the host dies

ASSUME GenerationBounds ==
    /\ Stats \in Nat \ {0} /\ Precise \in Nat
    /\ MaxSeeds \in Nat /\ MaxWord \in Nat /\ MaxLosses \in Nat

\* A job is a record with a unit; seeds are naturals, the numbers of a target and of
\* the statistics of a corpus are integers.
ASSUME GenerationData ==
    /\ \A i \in Inputs :
          /\ {"envelope", "job"} \subseteq DOMAIN i
          /\ {"unit", "target", "layout", "resources"} \subseteq DOMAIN i.job
          /\ {"experiment", "family", "params", "version", "layout", "resources", "metric",
               "seed_start", "seed_count"} \subseteq DOMAIN i.job.unit
          /\ i.job.unit.seed_start \in Nat /\ i.job.unit.seed_count \in Nat
          /\ LET t == i.job.target IN
             /\ t.mean \in Seq(Int) /\ t.scale \in Seq(Int) /\ t.weight \in Seq(Int)
             /\ t.precision # None => t.precision \in Seq(Seq(Int))
    /\ \A l \in Lands, i \in Inputs, s \in 0..MaxWord :
          LET f == Statistics(l, CorpusOf(i.job, s)) IN f # None => f \in [1..Stats -> Int]

VARIABLES
    input,       \* what this host was asked for
    land,        \* what the simulations say
    checkpoint,  \* the checkpoint in the host's memory
    stored,      \* the checkpoint it has persisted
    reply,       \* the output buffer
    generation,  \* the result it has received
    native,      \* the last result of a native run, and its job
    shown,       \* the last regenerated seed, and its job
    losses

asked == <<input, land>>
generation_vars == <<asked, checkpoint, stored, reply, generation, native, shown, losses>>

Validated(i) ==
    /\ i.envelope
    /\ i.job.unit.seed_count <= HostedSeeds
    /\ i.job.unit.seed_start <= HostedStart
    /\ Len(i.job.layout) <= HostedLines
    /\ Tokens(i.job.layout) <= HostedTokens
    /\ ValidUnit(i.job)

-----------------------------------------------------------------------------
(* Calls.  None is a refusal.                                              *)

Fresh(i) == [input |-> i, done |-> 0, seeds |-> <<>>]

\* The checkpoint is another's, or its counter is not the number of its seeds.
Differs(cp, i) ==
    \/ cp.input # i \/ cp.done # Len(cp.seeds) \/ cp.done > i.job.unit.seed_count

Single(job, done) == [job EXCEPT !.unit.seed_start = @ + done, !.unit.seed_count = 1]

Step(l, i, before) ==
    LET cp  == IF before = None THEN Fresh(i) ELSE before
        one == RunWorkUnit(l, Single(i.job, cp.done))
    IN IF ~Validated(i) \/ Differs(cp, i) THEN None
       ELSE IF cp.done = i.job.unit.seed_count THEN cp
       ELSE IF one = None THEN None
       ELSE [cp EXCEPT !.done = @ + 1, !.seeds = @ \o one.seeds]

\* The closest of the seeds, the earliest on a tie.
LastClosest(seeds) ==
    LET best == {k \in DOMAIN seeds : \A m \in DOMAIN seeds : seeds[k].distance <= seeds[m].distance}
    IN seeds[Max(best)]
Closest(seeds) ==
    LET ahead(s, t) == s.distance < t.distance \/ (s.distance = t.distance /\ s.seed <= t.seed)
    IN seeds[CHOOSE k \in DOMAIN seeds : \A m \in DOMAIN seeds : ahead(seeds[k], seeds[m])]

Finish(i, cp) ==
    LET unit == i.job.unit IN
    IF /\ Validated(i) /\ cp.input = i
       /\ cp.done = unit.seed_count /\ Len(cp.seeds) = unit.seed_count
       /\ \A k \in DOMAIN cp.seeds :
             /\ cp.seeds[k].seed = unit.seed_start + k - 1
             /\ Len(cp.seeds[k].fingerprint) = Stats
             /\ cp.seeds[k].distance = UnitDistance(unit.metric, cp.seeds[k].fingerprint, i.job.target)
    THEN [input |-> i, result |-> ResultOf(unit, cp.seeds, Closest(cp.seeds))]
    ELSE None

\* The checkpoint after n steps from nothing, None from the first refusal on.
Progress(l, i, n) ==
    LET after[k \in 0..n] ==
          IF k = 0 THEN None
          ELSE IF k > 1 /\ after[k - 1] = None THEN None ELSE Step(l, i, after[k - 1])
    IN after[n]

Run(l, i) ==
    LET last == Progress(l, i, i.job.unit.seed_count)
    IN IF ~Validated(i) \/ last = None THEN None ELSE Finish(i, last)

-----------------------------------------------------------------------------
(* The host                                                                *)

Replies(kind, value) ==
    reply' = IF value = None THEN [ok |-> FALSE, kind |-> "error", value |-> None]
             ELSE [ok |-> TRUE, kind |-> kind, value |-> value]

AskSeed ==
    /\ reply = None
    /\ Replies("checkpoint", Step(land, input, checkpoint))
    /\ UNCHANGED <<asked, checkpoint, stored, generation, native, shown, losses>>

AskWhole ==
    /\ reply = None /\ checkpoint # None
    /\ Replies("generation", Finish(input, checkpoint))
    /\ UNCHANGED <<asked, checkpoint, stored, generation, native, shown, losses>>

AskGenerate ==
    /\ reply = None /\ generation = None
    /\ Replies("generation", Run(land, input))
    /\ UNCHANGED <<asked, checkpoint, stored, generation, native, shown, losses>>

TakeReply ==
    /\ reply # None
    /\ checkpoint' = IF reply.kind = "checkpoint" THEN reply.value ELSE checkpoint
    /\ generation' = IF reply.kind = "generation" THEN reply.value ELSE generation
    /\ reply' = None
    /\ UNCHANGED <<asked, stored, native, shown, losses>>

Store ==
    /\ checkpoint # None /\ stored # checkpoint
    /\ stored' = checkpoint
    /\ UNCHANGED <<asked, checkpoint, reply, generation, native, shown, losses>>

Lose ==
    /\ losses < MaxLosses
    /\ losses' = losses + 1
    /\ checkpoint' = None /\ reply' = None
    /\ UNCHANGED <<asked, stored, generation, native, shown>>

\* What comes back may be older work on another input, or have lost a byte of a distance.
Brought ==
    (IF stored = None THEN {} ELSE {stored, [stored EXCEPT !.seeds[1].distance = @ + 1]})
      \cup {Progress(land, other, 1) : other \in Inputs \ {input}}

Bring ==
    /\ losses > 0 /\ reply = None /\ checkpoint = None
    /\ \E cp \in Brought \ {None} : checkpoint' = cp
    /\ UNCHANGED <<asked, stored, reply, generation, native, shown, losses>>

-----------------------------------------------------------------------------
(* One native run, of any job, and one regenerated specimen                *)

RunNative(i) ==
    /\ native = None
    /\ RunWorkUnit(land, i.job) # None
    /\ native' = [job |-> i.job, result |-> RunWorkUnit(land, i.job)]
    /\ UNCHANGED <<asked, checkpoint, stored, reply, generation, shown, losses>>

\* Of the job a user has a result of.
ShowSeed(k) ==
    /\ native # None /\ shown = None /\ k \in DOMAIN native.result.seeds
    /\ LET seed == native.result.seeds[k].seed
       IN shown' = [job |-> native.job, seed |-> seed, corpus |-> GenerateSeed(native.job, seed)]
    /\ UNCHANGED <<asked, checkpoint, stored, reply, generation, native, losses>>

GenerationInit ==
    /\ input \in Inputs /\ land \in Lands
    /\ checkpoint = None /\ stored = None /\ reply = None /\ generation = None
    /\ native = None /\ shown = None /\ losses = 0

GenerationNext ==
    \/ AskSeed \/ AskWhole \/ AskGenerate \/ TakeReply \/ Store \/ Lose \/ Bring
    \/ \E i \in Inputs : RunNative(i)
    \/ \E k \in 1..MaxSeeds : ShowSeed(k)

GenerationSpec == GenerationInit /\ [][GenerationNext]_generation_vars

-----------------------------------------------------------------------------
(* What a generation job promises                                          *)

\* Do two jobs ask for the same science, whatever their seeds and targets?
SameScience(j, k) ==
    /\ j.unit.experiment = k.unit.experiment /\ j.unit.family = k.unit.family
    /\ j.unit.params = k.unit.params /\ j.layout = k.layout /\ j.resources = k.resources

\* What was ever said of seeds, with the job it was said for; a checkpoint that came
\* back from storage or from elsewhere says nothing until it is finished.
Said ==
    (IF native = None THEN {}
     ELSE {[job |-> native.job, seed |-> s.seed, fingerprint |-> s.fingerprint] :
              s \in {native.result.seeds[k] : k \in DOMAIN native.result.seeds}})
      \cup (IF generation = None THEN {}
            ELSE {[job |-> generation.input.job, seed |-> s.seed, fingerprint |-> s.fingerprint] :
                     s \in {generation.result.seeds[k] : k \in DOMAIN generation.result.seeds}})
      \cup (IF shown = None \/ shown.corpus = None THEN {}
            ELSE {[job |-> shown.job, seed |-> shown.seed,
                   fingerprint |-> Statistics(land, shown.corpus)]})

\* A seed is one corpus: native runs in any chunks, hosted runs seed by seed and the
\* regenerated text of a seed never tell different statistics of it.
SeedIsOneCorpus ==
    \A x, y \in Said : SameScience(x.job, y.job) /\ x.seed = y.seed => x.fingerprint = y.fingerprint

\* A hosted result is the result of a native run of the whole unit, its specimen and
\* its hash included, however the host was interrupted and whatever it brought back.
HostedIsWhole ==
    generation # None =>
        /\ generation.input = input
        /\ generation.result = RunWorkUnit(land, input.job)

=============================================================================
