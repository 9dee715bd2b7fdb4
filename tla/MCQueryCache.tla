---------------------------- MODULE MCQueryCache ----------------------------
(* QueryCache for TLC: three keys, two of which share a prefix.  Values are *)
(* interchangeable.                                                         *)
EXTENDS QueryCache, TLC

CONSTANTS k1, k2, k3

MCKeys == {k1, k2, k3}
MCPrefixSets == {{k1, k2}}
MCCapacities == {0, 2}
ValueSymmetry == Permutations(Values)
=============================================================================
