SPECIFICATION Spec
CONSTANTS
    MaxSaves = 1
    MaxFaults = 1
    MaxCrashes = 1
    MaxAsks = 2
INVARIANTS TypeOK InstalledIsPlaced 
PROPERTIES PlayIsVerified NeverWhileRunning 
CHECK_DEADLOCK FALSE
