\* The request files alone: a report that is replaced and an early completion.
CONSTANTS
  Sessions = {}
  NoSession = NoSession
  Reviews = FALSE
  MaxFaults = 2
  MaxRequests <- TwoReportsOneEarly
SPECIFICATION ReportSpec
INVARIANT DoneIsRecorded
PROPERTY RequestKept
CHECK_DEADLOCK FALSE
