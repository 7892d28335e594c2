SPECIFICATION FairSpec
CONSTANTS
    Launches = {l1}
    MaxStarts = 1
    MaxAsks = 1
    MaxFaults = 1
    MaxCrashes = 1
    CrashStages = {"in", "record"}
INVARIANTS TypeOK KnownGoodSurvives VersionIsTrue
PROPERTIES NoLaunchLoop ClosedIsReopened 
CHECK_DEADLOCK FALSE
