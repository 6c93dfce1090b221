SPECIFICATION Spec
CONSTANTS
    g1 = g1  g2 = g2  g3 = g3
    Guests = {g1, g2}
    Units <- One
    Results = {ra, rb}
    NoResult = NoResult
    Campaigns = {"c"}
    Manuscript = {"c"}
    Releases = {"r"}
    CampaignOf <- OneCampaign
    ReleaseOf <- OneRelease
    Calls = {q1, q2}
    Checkers = {k1, k2}
    Scheduler = sched
    AttemptLimit = 2
    LimitCap = 3
    Budgets <- BudgetChoices
    Opening <- AmpleMonths
    MaxMonth = 1
    MaxRuns = 2
    Moderated = {g1, g2}
    Events = {"revoke", "expiry", "loss", "pause", "retry", "control", "traffic", "health"}
    QuietRollover = TRUE
ACTION_CONSTRAINT InScene
SYMMETRY Symmetry
INVARIANT TypeOK
INVARIANT CreditIsEarned
INVARIANT ReceiptsStand
PROPERTY StaleReplayIsSilent
PROPERTY KeepsPromise
PROPERTY VerdictsStand
