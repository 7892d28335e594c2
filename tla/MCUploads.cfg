SPECIFICATION FairSpec
CONSTANTS
    NumParts = 2
    MaxFaults = 2
    MaxUpsets = 2
    None = None
INVARIANTS OnlyVerifiedIsHeld DoneIsWhole
PROPERTIES UploadSettles
CHECK_DEADLOCK FALSE
