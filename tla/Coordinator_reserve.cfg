SPECIFICATION Spec
CONSTANTS
    g1 = g1  g2 = g2  g3 = g3
    Guests = {g1, g2}
    Units <- Two
    Results = {ra}
    NoResult = NoResult
    Campaigns = {"c"}
    Manuscript = {}
    Releases = {"r"}
    CampaignOf <- OneCampaign
    ReleaseOf <- OneRelease
    Calls = {q1}
    Checkers = {k1}
    Scheduler = sched
    AttemptLimit = 2
    LimitCap = 2
    Budgets <- NoBudgets
    Opening <- SmallMonths
    MaxMonth = 2
    MaxRuns = 2
    Moderated = {}
    Events = {"loss", "pause", "retry"}
    QuietRollover = TRUE
SYMMETRY Symmetry
INVARIANT EveryReplayFunded
INVARIANT ObligationsFunded
 
INVARIANT CompletionAgrees
