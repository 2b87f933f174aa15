\* Two calls in flight, three tokens: every interleaving of their steps.
SPECIFICATION Spec
CONSTANTS
  Procs = {p1, p2}
  Sessions = {b1, b2}
  AuthStates = {s1, s2}
  MaxTokens = 3
  None = None
SYMMETRY Symmetry
INVARIANTS
  TypeOK
  PostedOnce
  ReceiptIsTruthful
  VaultIsUsable
  DeletesOnlyRevoked
PROPERTY
  StatesAreOneTime
