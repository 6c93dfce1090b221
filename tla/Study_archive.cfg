SPECIFICATION Spec
CONSTANTS
    w1 = w1  w2 = w2  v1 = v1  v2 = v2  k1 = k1  k2 = k2
    Searches = 2
    FailureKinds = {"execution_error"}
    Scores = {1}
    ReplayScores = {1, 2}
    Workers = {w1}
    MaxStarts = 2
    NoOne = NoOne
    Replayers = {v1, v2}
    Kernels = {k1}
    ReplayOptions <- Full
    MaxReplays = 2
    Budgets = {1, 2}
    MaxEvaluations = 1
    MaxArchives = 1
INVARIANTS
    MismatchesStand
    ReportsAreTrue
    ArchiveIsClosed
SYMMETRY Symmetry
CHECK_DEADLOCK FALSE
