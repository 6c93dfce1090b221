SPECIFICATION Spec
CONSTANTS
    w1 = w1  w2 = w2  v1 = v1  v2 = v2  k1 = k1  k2 = k2
    Searches = 3
    FailureKinds = {"execution_error"}
    Scores = {1, 2}
    Workers = {w1, w2}
    MaxStarts = 3
    NoOne = NoOne
    Replayers = {v1}
    ReplayScores = {1, 2}
    Kernels = {k1}
    ReplayOptions = {}
    MaxReplays = 0
    Budgets = {1, 3}
    MaxEvaluations = 2
    MaxArchives = 0
INVARIANTS
    AttemptsBelong
    EarliestBestStands
PROPERTIES
    RecordsStand
    EvaluationIsFinal
SYMMETRY Symmetry
CHECK_DEADLOCK FALSE
