CONSTANTS
  TableNames = {"a", "b"}
  Schemas <- MCSchemas
  Inputs <- MCInputs
  Updates <- MCUpdates
  Wheres <- MCWheres
  MaxRows = 2
  Cuts = {0, 7}
  UsizeMax = 3
  MaxNanos = 1
SPECIFICATION StoreSpec
INVARIANTS RowsFitSchema LoadIsLastSave SelectIsExact
CHECK_DEADLOCK FALSE
