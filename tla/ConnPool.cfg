\* The code's four connections, three listings and a call: nobody starves.
SPECIFICATION Spec
CONSTANTS
  Listers = {l1, l2, l3}
  Callers = {w1}
  MaxOpenConns = 4
  MaxRows = 2
INVARIANTS
  SomebodyReleases
PROPERTY
  EveryCallEnds
