------------------------------ MODULE MCSweep ------------------------------
(* Small instances of a sweep, a refinement and a calibration, and of the  *)
(* data commands of the kernel's command line.                             *)
EXTENDS Sweep, Manuscript, TLC

CONSTANTS oak, ash, in1, in2

Axis(name, kind, values) == [name |-> name, kind |-> kind, values |-> values]

Template ==
    [metric |-> "z", family |-> "selfcite", replicates |-> 2, fixed |-> {},
     axes |-> <<Axis("a", "integer", <<0, 16>>), Axis("b", "float", <<0, 8>>)>>,
     integer |-> {"a"}]

Inferred == [Template EXCEPT !.integer = {}, !.axes[1] = Axis("a", "integer", <<8, 24>>)]
Words ==
    [Template EXCEPT !.axes = <<Axis("a", "float", <<2, 10, 4>>), Axis("w", "word", <<oak, ash>>)>>,
                     !.integer = {}]
Line == [Template EXCEPT !.axes = <<Axis("a", "integer", <<0, 8, 16>>)>>]
Twice == [Line EXCEPT !.replicates = 4]

Sweeping(g) ==
    [command |-> "sweep", grid |-> g, inputs |-> in1, threads |-> IF Len(g.axes) = 2 THEN 2 ELSE 3,
     levels |-> 0, shrink |-> <<1, 2>>, final |-> None, epsilon |-> None]
Refine(g, levels, shrink, final, epsilon) ==
    [command |-> "refine", grid |-> g, inputs |-> in1, threads |-> 2,
     levels |-> levels, shrink |-> shrink, final |-> final, epsilon |-> epsilon]

AllSetups ==
    {Sweeping(Line), Sweeping(Words), Sweeping(Twice),
     Sweeping([Line EXCEPT !.axes = <<>>]), Sweeping([Line EXCEPT !.fixed = {"a"}]),
     Refine(Template, 3, <<1, 2>>, None, 4), Refine(Inferred, 3, <<1, 4>>, 4, None),
     Refine(Words, 2, <<1, 2>>, None, None), Refine(Line, 1, <<1, 2>>, 4, None),
     Refine(Line, 2, <<1, 2>>, 4, 1), Refine(Line, 2, <<2, 2>>, None, None)}

AllCalibrations ==
    {[grid |-> Line, inputs |-> in1, hidden |-> <<8>>],
     [grid |-> Line, inputs |-> in1, hidden |-> <<12>>],
     [grid |-> Line, inputs |-> in2, hidden |-> <<8>>],
     [grid |-> Words, inputs |-> in1, hidden |-> <<4, ash>>],
     [grid |-> Words, inputs |-> in1, hidden |-> <<3, oak>>],
     [grid |-> Twice, inputs |-> in1, hidden |-> <<16>>]}

\* How far a point is from the best one, a little else with more replicates.
Away(x, y) == IF x \in {oak, ash} \/ y \in {oak, ash} THEN (IF x = y THEN 0 ELSE 3) ELSE AbsDiff(x, y)
Landscape(l, params, replicates) ==
    IF \E a \in DOMAIN params : params[a] \in l.failing THEN None
    ELSE LET away[a \in 0..Len(params)] ==
               IF a = 0 THEN 0 ELSE away[a - 1] + Away(params[a], l.best[a])
         IN IF replicates > 2 THEN away[Len(params)] \div 4 ELSE away[Len(params)]

AllLandscapes ==
    [best : {<<6, 2>>, <<16, 5>>, <<9, ash>>}, failing : {{}, {8, ash}, {16}}]

-----------------------------------------------------------------------------
(* Transcriptions, partitions and targets                                  *)

Page(name, quire, currier) == [kind |-> "page", name |-> name, quire |-> quire, currier |-> currier]
Locus(name, category, text) ==
    [kind |-> "locus", name |-> name, sound |-> TRUE, category |-> category, text |-> text]

First ==
    [header |-> TRUE, lines |-> <<
        Page("f1", 1, "A"), Locus("f1", "P", <<"<%>", "a", "[", "o", ":", "y", "]", ".", "?", "o">>),
                            Locus("f1", "P", <<"y", "<->", "a", "<$>">>),
        Page("f2", 2, "A"), Locus("f2", "P", <<"{", "a", "o", "}">>), Locus("f2", "L", <<"o">>),
        Page("f3", 3, "A"), Locus("f3", "P", <<"?">>), Locus("f3", "P", <<"<%>", "y">>),
        Locus("f4", "P", <<"a">>)>>]
\* The second folio belongs to the first quire, and a word of it was read.
Second == [First EXCEPT !.lines[4] = Page("f2", 1, "B"), !.lines[5] = Locus("f2", "P", <<"a", ",", "o">>)]
Broken == [First EXCEPT !.lines[5] = Locus("f2", "P", <<"{", "a", "[", "o", "]">>)]

AllEditions == {First, Second, Broken}

Share(d, v, c) == ("discovery" :> d) @@ ("validation" :> v) @@ ("confirmation" :> c)
AllShares == {Share(20, 35, 45), Share(50, 50, 25)}

Scale(method, percent, resamples, lambda) ==
    [method |-> method, percent |-> percent, resamples |-> resamples, lambda |-> lambda]
Asked(view, partition, roles, scale) ==
    [view |-> view, partition |-> partition, roles |-> roles, scale |-> scale]

AllRequests ==
    {Asked("para-v1", TRUE, {"discovery", "confirmation"}, Scale("subsample", 60, 2, 50)),
     Asked("all-v1", TRUE, {"validation"}, Scale("block-bootstrap", 100, 1, None)),
     Asked("all-v1", FALSE, {}, Scale("subsample", 50, 0, None)),
     Asked("para-v1", TRUE, {"training"}, Scale("block-bootstrap", 100, 1, None)),
     Asked("para-v2", FALSE, {}, Scale("block-bootstrap", 100, 1, 50))}

Generated(words, start, end) == [page |-> 1, words |-> words, start |-> start, end |-> end]
AllPlants ==
    {[answer |-> in1, scale |-> Scale("block-bootstrap", 100, 2, 0),
      corpus |-> [pages |-> <<Meta("planted", None, None)>>,
                  lines |-> <<Generated(<<oak>>, TRUE, FALSE), Generated(<<ash>>, FALSE, TRUE),
                              Generated(<<oak>>, FALSE, FALSE)>>]]}

-----------------------------------------------------------------------------
(* A sweep, or a manuscript: each scene leaves the other one asleep.        *)

ManuscriptAsleep == ManuscriptInit /\ edition = Broken
SweepAsleep ==
    /\ setup = None /\ land = None /\ pc = "asleep" /\ grid = None /\ steps = <<>>
    /\ next = 0 /\ thread = Spawned /\ pushed = <<>> /\ failure = None
    /\ reported = <<>> /\ files = [n \in 1..MaxLevels |-> None] /\ calibration = None /\ crashes = 0

MCInit == (Init /\ ManuscriptAsleep) \/ (ManuscriptInit /\ SweepAsleep)
MCNext ==
    \/ setup # None /\ Next /\ UNCHANGED manuscript_vars
    \/ setup = None /\ ManuscriptNext /\ UNCHANGED vars
MCSpec == MCInit /\ [][MCNext]_<<vars, manuscript_vars>>

=============================================================================
