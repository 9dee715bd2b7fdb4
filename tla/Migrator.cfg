CONSTANTS
  Procs = {"new", "old"}
  Registered <- MCRegistered
  Settings <- MCSettings
  Tables = {"a", "b"}
  Keys = {"k", "m"}
  MaxCopies = 2
  MaxMarks = 1
SPECIFICATION Spec
INVARIANTS SeedOnce RerunHeals RecordedIsPrefix RecordedIsBuilt
PROPERTIES OkMeansApplied
CHECK_DEADLOCK FALSE
