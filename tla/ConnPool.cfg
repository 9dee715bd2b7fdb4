CONSTANTS
  Tasks = {t1, t2, t3}
  Pooled = {c1, c2}
  Spares = {s1}
SPECIFICATION PoolFairSpec
INVARIANTS OnePlace WithinSize CloseDrains
PROPERTY EveryCallReturns
CHECK_DEADLOCK FALSE
