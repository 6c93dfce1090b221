SPECIFICATION Spec
CONSTANTS
    g1 = g1  g2 = g2  g3 = g3
    Guests = {g1, g2, g3}
    Units <- Two
    Results = {ra}
    NoResult = NoResult
    Campaigns = {"c"}
    Manuscript = {}
    Releases = {"r"}
    CampaignOf <- OneCampaign
    ReleaseOf <- OneRelease
    Calls = {q1, q2}
    Checkers = {k1}
    Scheduler = sched
    AttemptLimit = 2
    LimitCap = 2
    Budgets <- NoBudgets
    Opening <- TightMonths
    MaxMonth = 1
    MaxRuns = 2
    Moderated = {}
    Events = {"expiry", "retry"}
    QuietRollover = TRUE
SYMMETRY Symmetry
INVARIANT CapacityHeld
INVARIANT OneLeasePerGuest
