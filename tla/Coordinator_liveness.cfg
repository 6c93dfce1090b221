SPECIFICATION FairSpec
CONSTANTS
    g1 = g1  g2 = g2  g3 = g3
    Guests = {g1}
    Units <- Two
    Results = {ra}
    NoResult = NoResult
    Campaigns = {"c"}
    Manuscript = {}
    Releases = {1, 2}
    CampaignOf <- OneCampaign
    ReleaseOf <- OwnRelease
    Calls = {q1}
    Checkers = {k1}
    Scheduler = sched
    AttemptLimit = 1
    LimitCap = 1
    Budgets <- NoBudgets
    Opening <- AmpleMonths
    MaxMonth = 1
    MaxRuns = 2
    Moderated = {}
    Events = {"loss", "expiry", "revoke", "retry"}
    QuietRollover = TRUE
PROPERTY ResultsAreChecked
PROPERTY DeliveriesEnd
