\* Approve reads the emergency stop one statement before it approves.
SPECIFICATION Spec
CONSTANTS
  Jobs = {j1}
  Clients = {c1, c2}
  crlf = crlf
  lf = lf
  blank = blank
  other = other
  Inputs <- MCInputs
  Contents <- MCContents
  Normalize <- MCNormalize
  Submissions <- MCSubmissions
  Horizon = 1
  None = None
PROPERTY
  NoApprovalDuringStop
