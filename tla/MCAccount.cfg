SPECIFICATION FairSpec
CONSTANTS
    Accounts = {a1, a2}
    None = None
    Nobody = Nobody
    MaxSignIns = 2
    MaxKeys = 3
    MaxExpiries = 1
    MaxOuts = 1
    MaxMarks = 1
    MaxFaults = 1
INVARIANTS NeverTwice  
PROPERTIES NetworkKeepsSignIn SignInEnds
CHECK_DEADLOCK FALSE
