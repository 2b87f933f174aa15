\* One job, two concurrent requests: every interleaving of their statements.
SPECIFICATION Spec
CONSTANTS
  Jobs = {j1}
  Clients = {c1, c2}
  crlf = crlf
  lf = lf
  blank = blank
  other = other
  Inputs <- MCInputs
  Contents <- MCContents
  Normalize <- MCNormalize
  Submissions <- MCSubmissions
  Horizon = 1
  None = None
SYMMETRY ClientSymmetry
INVARIANTS
  TypeOK
  ApprovalIsExact
  PayloadIsConsented
  ClaimedOnce
  AuditIsTruthful
  NoOrphanReceipt
  StopDrains
PROPERTIES
  NoBlindApproval
  ImplementsLifecycle
