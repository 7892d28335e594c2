SPECIFICATION FairSpec
CONSTANT MaxUpsets = 2
INVARIANTS TypeOK KnownGoodUntilServed RemovedIsFinal
PROPERTIES ClientComesBack ServiceComesBack 
CHECK_DEADLOCK FALSE
