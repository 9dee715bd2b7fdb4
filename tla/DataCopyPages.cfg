SPECIFICATION Spec
CONSTANTS
  Jobs <- MCJobs
  Stale <- OldRow
  MaxRuns = 1
  MaxUnread = 3
INVARIANT NoRowReadTwice
CHECK_DEADLOCK FALSE
