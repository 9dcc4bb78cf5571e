SPECIFICATION Spec
CONSTANTS
  Workers = {w1, w2, w3}
  Scripts <- ServerScripts
  Locks <- ServerLocks
  MaxOpen = 5
  MaxDepth = 3
SYMMETRY Symmetry
INVARIANTS ConnPoolTypeOK OnlyExhaustionStalls
CHECK_DEADLOCK FALSE
