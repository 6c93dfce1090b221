SPECIFICATION MCSpec
CONSTANTS
    oak = oak  ash = ash  in1 = in1  in2 = in2
    Threads = {1, 2, 3}
    Setups <- AllSetups
    Calibrations <- AllCalibrations
    Landscapes <- AllLandscapes
    Measured <- Landscape
    Families = {"selfcite"}
    Unit = 8
    Tidy = 2
    MaxReplicates = 4
    MaxLevels = 3
    MaxCrashes = 1
    Editions <- AllEditions
    Shares <- AllShares
    Requests <- AllRequests
    Plants <- AllPlants
    Torn = Torn
    MaxCommands = 3
    MaxEditions = 1
    MaxDeaths = 1
    None = None
INVARIANT RunIsComplete
 
 
INVARIANT RolesKeepApart
INVARIANT ParagraphsStand
CHECK_DEADLOCK FALSE
