SPECIFICATION MCSpec
CONSTANTS
    A = 3
    Blank = 255
    BlankScore <- BlankThree
    Jobs <- AllJobs
    Draws <- SomeDraws
    Shuffles <- SomeShuffles
    TraceEvery = 2
    MaxProposals = 2
    Sizes = {0, 1, 2, 3}
    MaxTextLength = 6
    MaxIterations = 300
    MaxWidth = 30
    MaxCrashes = 1
    None = None
    e1 = e1  e2 = e2  bag = bag
    Families = {"selfcite", "bagofwords"}
    ParamKeys = {"p1"}
    Scalars = {1}
    Stats = 2
    Precise = 2
    MaxSeeds = 4
    MaxWord = 8
    MaxLineWords = 3
    MaxLines = 3
    MaxTokens = 9
    Inputs <- SomeInputs
    Lands <- SomeLands
    Statistics <- SomeStatistics
    Builds <- BuildsWith
    HostedSeeds = 3
    HostedStart = 5
    HostedLines = 3
    HostedTokens = 8
    MaxLosses = 1
INVARIANT ResumedIsUninterrupted
INVARIANT BestIsBestVisited
INVARIANT BeamFindsBest
INVARIANT ResultsVerify
INVARIANT SeedIsOneCorpus
 
CHECK_DEADLOCK FALSE
