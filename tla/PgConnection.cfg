CONSTANTS
  Tasks = {t1, t2}
  MaxReq = 3
  Large = {1}
SPECIFICATION FairSpec
INVARIANTS StreamOwner WholeAnswer
PROPERTIES IsSession DesyncIsPermanent EveryCallReturns
CHECK_DEADLOCK FALSE
