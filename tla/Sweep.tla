------------------------------- MODULE Sweep -------------------------------
(***************************************************************************)
(* Parameter sweeps of the kernel's command line: the points of a grid     *)
(* (grid.rs), their evaluation by threads that share a counter and the     *)
(* ledger they leave (sweep.rs), coarse-to-fine refinement (refine.rs) and *)
(* the reuse of a ledger by `voynich calibrate` (main.rs).  A process may  *)
(* die at any step; its files stay as they are.                            *)
(*                                                                         *)
(* Axis values are integers: Unit of them make 1.0, and refined values are *)
(* rounded to Tidy of them.  A work unit is its median distance, or fails. *)
(***************************************************************************)
EXTENDS Kernel, Integers, SequencesExt, FiniteSetsExt

CONSTANTS
    Threads,          \* how many threads there may be: 1..N
    Setups,           \* what is asked for: a sweep or a refinement of a grid
    Calibrations,     \* what `calibrate` may be given beside a ledger
    Landscapes,       \* what the simulations may turn out to say
    Measured(_,_,_),  \* the median at a point for a number of replicates
    Unit, Tidy,       \* 1.0, and the tenth decimal
    MaxReplicates,    \* replicates of one work unit (256)
    MaxLevels,        \* levels of a refinement (16)
    MaxCrashes        \* bound: how often the process dies

ASSUME SweepBounds ==
    /\ Threads \subseteq Nat /\ 1 \in Threads
    /\ Unit \in Nat \ {0} /\ Tidy \in Nat \ {0} /\ Unit % Tidy = 0
    /\ MaxLevels \in Nat /\ MaxReplicates \in Nat /\ MaxCrashes \in Nat

\* Declared, or, when no axis is, all values are whole and written as such.
WholeAxis(g, a) ==
    IF g.integer # {} THEN g.axes[a].name \in g.integer ELSE g.axes[a].kind = "integer"
\* What the values of an axis are rounded to.
Grain(g, a) == IF WholeAxis(g, a) THEN Unit ELSE Tidy

\* A grid is a record with a list of axes, each with a list of values, numbers on an axis
\* that is not of words; None is not a number.  What is asked for is written with no more
\* decimals than are kept, and an axis of whole numbers holds whole numbers.
Listed(s) == s \in Seq(Range(s))
Grid(g) ==
    /\ {"axes", "replicates"} \subseteq DOMAIN g /\ Listed(g.axes)
    /\ \A a \in DOMAIN g.axes : "values" \in DOMAIN g.axes[a] /\ Listed(g.axes[a].values)
Numbered(g) ==
    \A a \in DOMAIN g.axes : g.axes[a].kind # "word" =>
        \A k \in DOMAIN g.axes[a].values : g.axes[a].values[k] \in Int
ASSUME SweepData ==
    /\ None \notin Nat
    /\ \A s \in Setups :
          /\ s.threads \in Nat /\ s.shrink[2] \in Nat /\ Grid(s.grid) /\ Numbered(s.grid)
          /\ \A a \in DOMAIN s.grid.axes : s.grid.axes[a].kind # "word" =>
                \A k \in DOMAIN s.grid.axes[a].values :
                    s.grid.axes[a].values[k] % Grain(s.grid, a) = 0
    /\ \A c \in Calibrations :
          /\ Grid(c.grid) /\ Numbered(c.grid)
          /\ \A a \in DOMAIN c.grid.axes : c.grid.axes[a].kind # "word" => c.hidden[a] \in Int

VARIABLES
    setup,        \* what was asked for
    land,         \* what the simulations say
    pc,           \* where the process is
    grid,         \* the grid of this level
    steps,        \* the step of each axis
    next,         \* the counter of grid points
    thread,       \* where each thread is, and the point it has taken
    pushed,       \* how often each point was pushed to the entries
    failure,      \* the last point that failed
    reported,     \* what the refinement reports so far
    files,        \* the ledger of each level, as far as it was written
    calibration,  \* the last calibration that accepted a ledger
    crashes

given == <<setup, land>>
running == <<next, thread, pushed, failure>>
vars == <<given, pc, grid, steps, running, reported, files, calibration, crashes>>

-----------------------------------------------------------------------------
(* Grids                                                                   *)

ValidGrid(g) ==
    /\ g.metric \in {"z", "mahalanobis"}
    /\ g.family \in Families
    /\ g.replicates \in 1..MaxReplicates
    /\ Len(g.axes) > 0
    /\ \A a \in DOMAIN g.axes :
          /\ g.axes[a].values # <<>>
          /\ g.axes[a].kind # "array"
          /\ g.axes[a].name \notin g.fixed
    /\ g.integer \subseteq {g.axes[a].name : a \in DOMAIN g.axes}

Size(g) ==
    LET upto[a \in 0..Len(g.axes)] ==
          IF a = 0 THEN 1 ELSE upto[a - 1] * Len(g.axes[a].values)
    IN upto[Len(g.axes)]
Indices(g) == 0..(Size(g) - 1)

\* What is left of an index for an axis when those after it, which vary faster,
\* have taken theirs.
Rest(g, i) ==
    LET n == Len(g.axes)
        rest[k \in 0..n] ==
          IF k = 0 THEN i ELSE rest[k - 1] \div Len(g.axes[n + 1 - k].values)
    IN [a \in 1..n |-> rest[n - a]]

Point(g, i) ==
    [a \in DOMAIN g.axes |-> g.axes[a].values[1 + (Rest(g, i)[a] % Len(g.axes[a].values))]]

AbsDiff(x, y) == IF x < y THEN y - x ELSE x - y

\* The closest value of a numeric axis, the first on a tie; a word must be there.
ClosestOn(axis, want) ==
    LET closest(k) == IF axis.kind = "word" THEN axis.values[k] = want
                      ELSE \A l \in DOMAIN axis.values :
                             LET d == AbsDiff(axis.values[k], want)
                                 e == AbsDiff(axis.values[l], want)
                             IN d < e \/ (d = e /\ k <= l)
        found == {k \in DOMAIN axis.values : closest(k)}
    IN IF found = {} THEN None ELSE Min(found)

Nearest(g, params) ==
    LET at == [a \in DOMAIN g.axes |-> ClosestOn(g.axes[a], params[a])]
        index[a \in 0..Len(g.axes)] ==
          IF a = 0 THEN 0 ELSE index[a - 1] * Len(g.axes[a].values) + (at[a] - 1)
    IN IF \E a \in DOMAIN at : at[a] = None THEN None ELSE index[Len(g.axes)]

-----------------------------------------------------------------------------
(* One run of a grid                                                       *)

\* A simulation yields a number, or the point fails.
Median(g, i) ==
    LET median == Measured(land, Point(g, i), g.replicates)
    IN IF median \in Nat THEN median ELSE None
Fails(g, i) == Median(g, i) = None
Entry(g, i) ==
    [index |-> i, params |-> Point(g, i), replicates |-> g.replicates, median |-> Median(g, i)]

\* Never more threads than points, and at least one.
Active == {t \in Threads : t <= Max({1, Min({setup.threads, Max({1, Size(grid)})})})}

Spawned == [t \in Threads |-> [pc |-> "fetch", point |-> 0]]

RunGrid(g) ==
    /\ grid' = g /\ next' = 0 /\ thread' = Spawned /\ failure' = None
    /\ pushed' = [i \in Indices(g) |-> 0]
    /\ pc' = IF ValidGrid(g) THEN "running" ELSE "failed"

Fetch(t) ==
    /\ pc = "running" /\ t \in Active /\ thread[t].pc = "fetch"
    /\ next' = next + 1
    /\ thread' = [thread EXCEPT ![t] = [pc |-> "check", point |-> next]]
    /\ UNCHANGED <<given, pc, grid, steps, pushed, failure, reported, files, calibration, crashes>>

PastEarly(i) == i + 1 >= Size(grid)
Past(i) == i >= Size(grid)

Check(t) ==
    /\ pc = "running" /\ thread[t].pc = "check"
    /\ thread' = [thread EXCEPT ![t].pc =
                    IF Past(thread[t].point) \/ failure # None THEN "stopped" ELSE "run"]
    /\ UNCHANGED <<given, pc, grid, steps, next, pushed, failure, reported, files, calibration, crashes>>

RunPoint(t) ==
    LET i == thread[t].point IN
    /\ pc = "running" /\ thread[t].pc = "run"
    /\ IF Fails(grid, i)
       THEN /\ failure' = i
            /\ thread' = [thread EXCEPT ![t].pc = "stopped"]
            /\ UNCHANGED pushed
       ELSE /\ pushed' = [pushed EXCEPT ![i] = @ + 1]
            /\ thread' = [thread EXCEPT ![t].pc = "fetch"]
            /\ UNCHANGED failure
    /\ UNCHANGED <<given, pc, grid, steps, next, reported, files, calibration, crashes>>

\* The entries in the order of their index.
Entries ==
    FlattenSeq([k \in 1..Size(grid) |-> [n \in 1..pushed[k - 1] |-> Entry(grid, k - 1)]])

-----------------------------------------------------------------------------
(* Ledgers: a header and a line for each entry, through a buffer           *)

Header(g, inputs) == [grid |-> g, inputs |-> inputs, points |-> Size(g)]
Empty == [header |-> None, entries |-> <<>>, torn |-> FALSE]
Ledger == [header |-> Header(grid, setup.inputs), entries |-> Entries, torn |-> FALSE]
Level == Len(reported) + 1

\* The end of the threads, and File::create() over what was there.
Join ==
    /\ pc = "running"
    /\ \A t \in Active : thread[t].pc = "stopped"
    /\ IF failure # None
       THEN pc' = "failed" /\ UNCHANGED files
       ELSE pc' = "writing" /\ files' = [files EXCEPT ![Level] = Empty]
    /\ UNCHANGED <<given, grid, steps, running, reported, calibration, crashes>>

\* The buffer is written out in pieces that may end inside a line.
Flush ==
    LET file == files[Level]
    IN /\ pc = "writing" /\ file # Ledger
       /\ \E n \in 0..Len(Entries), torn \in BOOLEAN :
             /\ Len(file.entries) <= n /\ (torn => n < Len(Entries))
             /\ n > Len(file.entries) \/ file.header = None \/ file.torn \/ torn
             /\ files' = [files EXCEPT ![Level] =
                            [header |-> Header(grid, setup.inputs),
                             entries |-> SubSeq(Entries, 1, n), torn |-> torn]]
    /\ UNCHANGED <<given, pc, grid, steps, running, reported, calibration, crashes>>

-----------------------------------------------------------------------------
(* Refinement                                                              *)

RoundTo(x, unit) ==
    LET up(y) == ((2 * y + unit) \div (2 * unit)) * unit
    IN IF x < 0 THEN -up(-x) ELSE up(x)

Numbers(axis) == {axis.values[k] : k \in DOMAIN axis.values}
Lowest(a) == Min(Numbers(setup.grid.axes[a]))
Highest(a) == Max(Numbers(setup.grid.axes[a]))
Numeric(a) == setup.grid.axes[a].kind # "word"
Whole(a) == WholeAxis(setup.grid, a)

FirstStep(a) ==
    IF ~Numeric(a) \/ Len(setup.grid.axes[a].values) = 1 THEN 0
    ELSE (Highest(a) - Lowest(a)) \div (Len(setup.grid.axes[a].values) - 1)

NextStep(a) ==
    LET step == (steps[a] * setup.shrink[1]) \div setup.shrink[2]
    IN IF Whole(a) THEN RoundTo(step, Unit) ELSE step

ClampedLow(x, a) == Max({x, Lowest(a)})
Clamped(x, a) == Min({Max({x, Lowest(a)}), Highest(a)})
Number(x, a) == RoundTo(x, Grain(setup.grid, a))

NextValues(a, best) ==
    IF ~Numeric(a) \/ NextStep(a) <= 0 THEN <<best>>
    ELSE LET around == [k \in 1..3 |-> Number(Clamped(best + (k - 2) * NextStep(a), a), a)]
             kept[k \in 0..3] ==
               IF k = 0 THEN <<>>
               ELSE IF Contains(kept[k - 1], around[k]) THEN kept[k - 1]
               ELSE Append(kept[k - 1], around[k])
         IN kept[3]

NextGrid(best) ==
    [grid EXCEPT !.axes = [a \in DOMAIN grid.axes |->
                             [grid.axes[a] EXCEPT !.values = NextValues(a, best[a])]]]

Moves(g) == \E a \in DOMAIN g.axes : Numeric(a) /\ NextStep(a) > 0 /\ Len(g.axes[a].values) > 1

\* The last level runs with the final number of replicates.
Replicated(g, level) ==
    IF level = setup.levels /\ setup.final # None THEN [g EXCEPT !.replicates = setup.final] ELSE g

BestOf(entries) ==
    LET ahead(x, y) == x.median < y.median \/ (x.median = y.median /\ x.index <= y.index)
        best == CHOOSE k \in DOMAIN entries : \A l \in DOMAIN entries : ahead(entries[k], entries[l])
    IN entries[best]

Compatible(entries) ==
    IF setup.epsilon = None THEN {}
    ELSE {entries[k].params : k \in {l \in DOMAIN entries : entries[l].median <= setup.epsilon}}

Refining == setup.command = "refine"

ValidRefinement ==
    /\ ValidGrid(setup.grid)
    /\ setup.epsilon # None =>
          /\ setup.epsilon >= 0
          /\ setup.final # None => setup.final = setup.grid.replicates
    /\ setup.levels \in 1..MaxLevels
    /\ setup.shrink[1] \in 1..(setup.shrink[2] - 1)

Begin ==
    /\ pc = "start"
    /\ reported' = <<>>
    /\ IF Refining /\ ~ValidRefinement
       THEN pc' = "failed" /\ UNCHANGED <<grid, steps, running>>
       ELSE /\ RunGrid(IF Refining THEN Replicated(setup.grid, 1) ELSE setup.grid)
            /\ steps' = [a \in DOMAIN setup.grid.axes |-> IF Refining THEN FirstStep(a) ELSE 0]
    /\ UNCHANGED <<given, files, calibration, crashes>>

\* A sweep is done with its ledger; a refinement goes on around its best point.
EndLevel ==
    /\ pc = "writing" /\ files[Level] = Ledger
    /\ IF ~Refining
       THEN pc' = "done" /\ UNCHANGED <<grid, steps, running, reported>>
       ELSE LET best == BestOf(Entries)
                following == NextGrid(best.params)
            IN /\ reported' = Append(reported, [grid |-> grid, best |-> best, steps |-> steps,
                                            compatible |-> Compatible(Entries)])
               /\ IF Level < setup.levels /\ Moves(following)
                  THEN /\ RunGrid(Replicated(following, Level + 1))
                       /\ steps' = [a \in DOMAIN grid.axes |->
                                      IF Numeric(a) THEN NextStep(a) ELSE steps[a]]
                  ELSE pc' = "done" /\ UNCHANGED <<grid, steps, running>>
    /\ UNCHANGED <<given, files, calibration, crashes>>

-----------------------------------------------------------------------------
(* Calibration from a ledger                                               *)

Readable(file) == file # None /\ file.header # None /\ ~file.torn

FitsHeader(c, file) ==
    /\ file.header.grid = c.grid
    /\ file.header.inputs = c.inputs
Fits(c, file) ==
    /\ file.header.grid = c.grid
    /\ file.header.inputs = c.inputs
    /\ Len(file.entries) = Size(c.grid)
    /\ \A k \in DOMAIN file.entries :
          file.entries[k].index = k - 1 /\ file.entries[k].replicates = c.grid.replicates

Rank(entries, i) ==
    Cardinality({k \in DOMAIN entries :
                    \/ entries[k].median < entries[i + 1].median
                    \/ entries[k].median = entries[i + 1].median /\ entries[k].index <= i})

\* What the report says of the hidden point; its parameters are known here.
CalibrationOf(c, entries) ==
    LET nearest == Nearest(c.grid, c.hidden)
    IN [grid |-> c.grid, hidden |-> c.hidden, entries |-> entries, nearest |-> nearest,
        on_grid |-> nearest # None /\ Point(c.grid, nearest) = c.hidden,
        rank |-> IF nearest = None THEN None ELSE Rank(entries, nearest)]

\* One that refuses its ledger ends without a trace.
Calibrate(c, n) ==
    /\ Readable(files[n]) /\ ValidGrid(c.grid) /\ Fits(c, files[n])
    /\ calibration' = CalibrationOf(c, files[n].entries)
    /\ UNCHANGED <<given, pc, grid, steps, running, reported, files, crashes>>

Crash ==
    /\ pc \notin {"start", "done", "failed"} /\ crashes < MaxCrashes
    /\ crashes' = crashes + 1
    /\ pc' = "start" /\ grid' = setup.grid /\ steps' = <<>> /\ reported' = <<>>
    /\ next' = 0 /\ thread' = Spawned /\ pushed' = <<>> /\ failure' = None
    /\ UNCHANGED <<given, files, calibration>>

Init ==
    /\ setup \in Setups /\ land \in Landscapes
    /\ pc = "start" /\ grid = setup.grid /\ steps = <<>>
    /\ next = 0 /\ thread = Spawned /\ pushed = <<>> /\ failure = None
    /\ reported = <<>>
    /\ files = [n \in 1..MaxLevels |-> None]
    /\ calibration = None /\ crashes = 0

Next ==
    \/ Begin \/ Join \/ Flush \/ EndLevel \/ Crash
    \/ \E t \in Threads : Fetch(t) \/ Check(t) \/ RunPoint(t)
    \/ \E c \in Calibrations, n \in 1..MaxLevels : Calibrate(c, n)

Spec == Init /\ [][Next]_vars

-----------------------------------------------------------------------------
(* What a sweep promises                                                   *)

Complete(g) == [k \in 1..Size(g) |-> Entry(g, k - 1)]

\* However many threads race, a run that succeeds evaluated every point of the grid
\* exactly once and in the end knows them in order; one that fails met a point that
\* fails; and nothing succeeds when a point fails (run_grid).
RunIsComplete ==
    /\ pc = "writing" => Entries = Complete(grid) /\ \A i \in Indices(grid) : ~Fails(grid, i)
    /\ pc = "failed" /\ ValidGrid(grid) /\ (Refining => ValidRefinement) =>
          \E i \in Indices(grid) : Fails(grid, i)

\* A calibration that accepts a ledger, even one whose writer died or still writes,
\* rests on every point of its own grid; a hidden point it calls on the grid is the
\* grid point it says, and its rank counts the points that do better.
CalibrationIsTrue ==
    calibration # None =>
        LET g == calibration.grid IN
        /\ calibration.entries = Complete(g)
        /\ calibration.on_grid <=> \E i \in Indices(g) : Point(g, i) = calibration.hidden
        /\ calibration.on_grid => Point(g, calibration.nearest) = calibration.hidden
        /\ calibration.nearest # None =>
              calibration.rank = 1 + Cardinality({i \in Indices(g) :
                  \/ Median(g, i) < Median(g, calibration.nearest)
                  \/ Median(g, i) = Median(g, calibration.nearest) /\ i < calibration.nearest})

Values(g, a) == {g.axes[a].values[k] : k \in DOMAIN g.axes[a].values}

\* A refinement stays in the range of its first grid, keeps whole axes whole, never
\* widens a step except to the nearest whole one, looks at its best point again on every
\* level and so never gets worse while the number of replicates stays the same, never
\* grows past three values an axis, and uses no more levels than it was given (refine.rs).
RefinementNarrows ==
    /\ reported # <<>> => Len(reported) <= setup.levels
    /\ \A l \in 2..Len(reported) :
          LET g == reported[l].grid
              before == reported[l - 1]
          IN /\ \A a \in DOMAIN g.axes :
                   /\ Len(g.axes[a].values) <= 3
                   /\ before.best.params[a] \in Values(g, a)
                   /\ reported[l].steps[a] <= IF Whole(a) THEN RoundTo(before.steps[a], Unit)
                                               ELSE before.steps[a]
                   /\ Numeric(a) => Values(g, a) \subseteq Lowest(a)..Highest(a)
                   /\ Numeric(a) /\ Whole(a) => \A x \in Values(g, a) : x % Unit = 0
             /\ g.replicates = before.grid.replicates =>
                   reported[l].best.median <= before.best.median

=============================================================================
