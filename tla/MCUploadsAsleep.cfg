SPECIFICATION FairSpec
CONSTANTS
    NumParts = 2
    MaxFaults = 2
    MaxUpsets = 1
    None = None
INVARIANTS NeverGivesUp
CHECK_DEADLOCK FALSE
