\* A refresh in flight saves its tokens after the revocation.
SPECIFICATION Spec
CONSTANTS
  Procs = {p1, p2}
  Sessions = {b1, b2}
  AuthStates = {s1}
  MaxTokens = 3
  None = None
INVARIANT
  RevokeSticks
