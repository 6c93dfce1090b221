SPECIFICATION MCSpec
CONSTANTS
    w1 = w1  c1 = c1  d1 = d1  d2 = d2  d3 = d3  m1 = m1
    Requests = {w1}
    Checks = {c1}
    Owners = {o1}
    Deliveries = {d1, d2, d3, m1}
    Rehearsals = {m1}
    RunOf <- Redelivered
    Nobody = Nobody
    v1 = v1  v2 = v2  i1 = i1  p1 = p1
    Units = {v1, v2}
    Inputs = {i1}
    SharedParts = {p1}
    InputOf <- SameInput
    PartsOf <- OnePart
    CompactSize <- Compact
    FullSize <- Full
    PartSize <- PartBytes
    MaxInputStorage = 6
    MaxUnits = 2
    None = None
    Users = {a1}
    Guests = {h1}
    Retention = 2
    LastDay = 4
    LastSchema = 2
    MaxCommands = 3
ACTION_CONSTRAINT InScene
INVARIANT ExclusiveRunsAlone
INVARIANT GuardCoversWork
INVARIANT RunsOnce
INVARIANT LateSuccessHidesNothing
INVARIANT NothingReturns
INVARIANT ABackupStays
INVARIANT WorkIsStored
PROPERTY OpeningNeedsSuccess
CHECK_DEADLOCK FALSE
