\* One job, one request at a time: the retention loop against crashes and failures.
SPECIFICATION Spec
CONSTANTS
  Jobs = {j1}
  Clients = {c1}
  crlf = crlf
  lf = lf
  blank = blank
  other = other
  Inputs <- MCInputs
  Contents <- MCContents
  Normalize <- MCNormalize
  Submissions <- MCOneSubmission
  Horizon = 1
  None = None
PROPERTY
  ResolvedIsPurged
