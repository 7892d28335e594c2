SPECIFICATION FairSpec
CONSTANTS
    Launches = {l1}
    MaxStarts = 1
    MaxAsks = 0
    MaxFaults = 0
    MaxCrashes = 0
    CrashStages = {"in", "record"}
PROPERTIES SwapFollows
CHECK_DEADLOCK FALSE
