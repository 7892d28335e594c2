CONSTANTS
  Sessions = {s1, s2}
  Writers = {evidence, relay}
  Garbled = Garbled
  NoDocument = NoDocument
  MaxFaults = 1
SPECIFICATION FairSpec
PROPERTY EventuallyCurrent
CHECK_DEADLOCK FALSE
