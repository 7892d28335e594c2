\* A report beside one session, one kill, lost answer or failed write.
CONSTANTS
  Sessions = {s1}
  NoSession = NoSession
  Reviews = FALSE
  MaxFaults = 1
  MaxRequests <- OneReport
SPECIFICATION ReportFairSpec
INVARIANTS
  
  NamedAreHeld
 
CHECK_DEADLOCK FALSE
