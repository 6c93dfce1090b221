------------------------------ MODULE MCSearch ------------------------------
(* Small instances of what a host may ask the search module for: a search  *)
(* or, behind the same interface, a generation job.                        *)
EXTENDS Search, Generation

CONSTANTS e1, e2, bag

\* Three letters make 81 windows; the scores are chosen so that windows differ
\* and that different keys can tie.
QuadThree == [w \in [1..4 -> 0..2] |-> -((w[1] + 2 * w[2] + w[3] * w[4] + 1) % 4)]
BlankThree == -5
UniThree == [c \in 0..2 |-> -c - 1]

Template ==
    [model |-> TRUE, ciphertext |-> <<1, 2, 3, 1, 2, 2>>, symbols |-> 3,
     encoding |-> "substitution", algorithm |-> "restart-anneal-v1",
     iterations |-> 3, width |-> 2, quad |-> QuadThree, uni |-> UniThree]

Anneal == Template
Homophonic == [Template EXCEPT !.encoding = "homophonic"]
Balanced ==
    [Template EXCEPT !.encoding = "balanced-homophonic", !.symbols = 6,
                     !.ciphertext = <<1, 4, 2, 5, 3, 6>>, !.iterations = 2]
Beam(encoding, iterations, width) ==
    [Template EXCEPT !.algorithm = "beam-v1", !.encoding = encoding,
                     !.iterations = iterations, !.width = width]
Unknown == [Template EXCEPT !.ciphertext = <<1, 2, 3, 4>>]
Missized == [Template EXCEPT !.symbols = 4]
Short == [Template EXCEPT !.ciphertext = <<1, 2, 3>>]

AllJobs ==
    <<Anneal, Homophonic, Balanced,
      Beam("substitution", 4, 2), Beam("substitution", 300, 30),
      Beam("homophonic", 300, 30), Beam("homophonic", 2, 3),
      [Beam("balanced-homophonic", 9, 2) EXCEPT !.symbols = 6],
      Unknown, Missized, Short>>

SomeDraws ==
    {[a |-> 1, b |-> 2, coin |-> FALSE, letter |-> 0, luck |-> 0],
     [a |-> 3, b |-> 1, coin |-> TRUE, letter |-> 2, luck |-> 2],
     [a |-> 2, b |-> 3, coin |-> FALSE, letter |-> 1, luck |-> 9],
     [a |-> 2, b |-> 2, coin |-> TRUE, letter |-> 0, luck |-> 0]}

SomeShuffles == {[i \in 1..6 |-> 0], [i \in 1..6 |-> 1]}

-----------------------------------------------------------------------------
(* Generation jobs                                                         *)

Line(words, start, end) == [words |-> words, start |-> start, end |-> end]
Layout == LayoutFrom(<<Line(3, TRUE, FALSE), Line(0, FALSE, TRUE), Line(2, FALSE, FALSE), Line(4, TRUE, TRUE)>>)

Near == [version |-> "fingerprint-v1", mean |-> <<1, 0>>, scale |-> <<1, 2>>, weight |-> <<1, 2>>,
         precision |-> None]
Inverse2 == [Near EXCEPT !.weight = <<1, 1>>, !.precision = <<<<2, 1>>, <<1, 2>>>>]

JobOf(experiment, family, target, layout, resources, start, count, metric) ==
    [unit |-> MakeUnit(experiment, family, [p1 |-> 1], target, layout, resources, start, count, metric),
     target |-> target, layout |-> layout, resources |-> resources]

Chunk(start, count) ==
    JobOf(e1, "selfcite", Near, Truncated(Layout, 6), None, start, count, "z")

SomeJobs ==
    {Chunk(0, 3), Chunk(1, 2), Chunk(2, 3),
     JobOf(e1, "bagofwords", Inverse2, Layout, bag, 1, 2, "mahalanobis"),
     \* refused by the unit, by its generator or by the host's bounds
     JobOf(e1, "selfcite", Near, Layout, None, 0, 1, "mahalanobis"),
     JobOf(e1, "bagofwords", Near, Layout, None, 0, 1, "z"),
     [Chunk(0, 2) EXCEPT !.layout = Layout],
     Chunk(0, 4), Chunk(6, 1), Chunk(0, 0), Chunk(8, 1)}

SomeInputs ==
    [envelope : {TRUE}, experiment : {e1}, job : SomeJobs]
      \cup {[envelope |-> b, experiment |-> e2, job |-> Chunk(0, 3)] : b \in BOOLEAN}

\* Every corpus has statistics of its own, which may tie; some are not finite.
Salt(corpus) == corpus.seed + (IF Len(corpus.stream) > 6 THEN corpus.stream[7] ELSE 0)
SomeStatistics(l, corpus) ==
    IF corpus.seed \in l.broken THEN None
    ELSE <<(Salt(corpus) * l.turn + Len(corpus.layout)) % 3, (Salt(corpus) + l.turn) % 2>>

SomeLands == {[turn |-> 1, broken |-> {}], [turn |-> 2, broken |-> {2}], [turn |-> 0, broken |-> {}]}
BuildsWith(family, params, resources) == family # "bagofwords" \/ resources # None

-----------------------------------------------------------------------------

Asleep ==
    /\ job = None /\ stream = None /\ path = None /\ held = None /\ file = None /\ call = None
    /\ out = None /\ result = None /\ verdict = None /\ crashes = 0

NoGeneration ==
    /\ input = None /\ land = None /\ checkpoint = None /\ stored = None /\ reply = None
    /\ generation = None /\ native = None /\ shown = None /\ losses = 0

MCInit == (Init /\ NoGeneration) \/ (GenerationInit /\ Asleep)
MCNext ==
    \/ job # None /\ Next /\ UNCHANGED generation_vars
    \/ input # None /\ GenerationNext /\ UNCHANGED vars
MCSpec == MCInit /\ [][MCNext]_<<vars, generation_vars>>

=============================================================================
