CONSTANTS
  Tasks = {t1, t2}
  MaxReq = 2
SPECIFICATION Spec
INVARIANTS Lockstep StatementsClosed
PROPERTY IsSession
CHECK_DEADLOCK FALSE
