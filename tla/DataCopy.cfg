SPECIFICATION FairSpec
CONSTANTS
  Jobs <- MCJobs
  Stale <- OldRow
  MaxRuns = 2
  MaxUnread = 3
INVARIANTS CopyIsWhole BatchAtomic  ValuesFit
PROPERTY EveryRunEnds
CHECK_DEADLOCK FALSE
