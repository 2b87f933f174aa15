\* Four listings on four connections: each waits for a fifth.
SPECIFICATION Spec
CONSTANTS
  Listers = {l1, l2, l3, l4}
  Callers = {w1}
  MaxOpenConns = 4
  MaxRows = 2
INVARIANT
  SomebodyReleases
