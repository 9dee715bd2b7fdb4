CONSTANTS
  k1 = k1
  k2 = k2
  k3 = k3
  Keys <- MCKeys
  Values = {v1, v2}
  PrefixSets <- MCPrefixSets
  Capacities <- MCCapacities
  DefaultTtl = 1
  Ttls = {0}
  NoTtl = NoTtl
  MaxTime = 2
SPECIFICATION Spec
SYMMETRY ValueSymmetry
INVARIANTS OrderIsMap ServesLastSet
CHECK_DEADLOCK FALSE
