\* A 401 whose body cannot be read is sent again.
SPECIFICATION Spec
CONSTANTS
  Procs = {p1}
  Sessions = {b1, b2}
  AuthStates = {s1}
  MaxTokens = 3
  None = None
PROPERTY
  NoAmbiguousResend
