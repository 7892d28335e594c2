\* Two sessions, one kill or failed start, reviews at any time.
CONSTANTS
  Sessions = {s1, s2}
  NoSession = NoSession
  Reviews = TRUE
  MaxFaults = 1
SPECIFICATION FairSpec
PROPERTIES
  
  ReviewEndsPlay
CHECK_DEADLOCK FALSE
