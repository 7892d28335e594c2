\* One package of two frames, any two faults.
CONSTANTS
  p1 = p1
  p2 = p2
  anna = anna
  bert = bert
  Packages = {p1}
  Captures = {c1, c2}
  Head = head
  Accounts = {anna, bert}
  NoAccount = NoAccount
  EvaluatorOf <- MCEvaluatorOf
  LadderSteps = 2
  MaxFaults = 2
  NoPackage = NoPackage
SPECIFICATION FairSpec
INVARIANTS
  TypeOK
  AckedIsHeld
  
  NoStaleSending
PROPERTIES
  CustodySpec
  EventuallyDelivered
