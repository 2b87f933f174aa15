\* Two requests in flight: every interleaving of their steps, with restarts.
SPECIFICATION Spec
CONSTANTS
  Procs = {p1, p2}
  AttemptLimit = 1
  MaxCeremonies = 3
  MaxSessions = 2
  MaxCodes = 3
  MaxCreds = 2
  None = None
SYMMETRY ProcSymmetry
INVARIANTS
  TypeOK
  CodeUsedOnce
  CodeSurvivesRestart
  AttemptsBounded
  EnrolledIsDurable
  NeverLockedOut
  ReadyWhenActing
  LocksAreReleased
PROPERTY
  CeremoniesAreOneTime
