CONSTANTS
  Tasks = {t1, t2}
  MaxRow = 2
  MaxUnread = 2
SPECIFICATION Spec
SYMMETRY TaskSymmetry
INVARIANTS CommitIsDurable RollbackUndoes ServerTxIsOwned ReturningIsOwn
CHECK_DEADLOCK FALSE
