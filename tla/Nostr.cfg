\* One call, every text, every answer of the signer and of three relays.
SPECIFICATION Spec
CONSTANTS
  r1 = r1
  r2 = r2
  r3 = r3
  Relays <- MCRelays
  Contents <- Texts
  Identities = {k1, k2, malformed}
  WellFormed = {k1, k2}
  None = None
  XMaxWeightedLength = 24
  NostrMaxContent = 2
INVARIANTS
  TypeOK
  SignedAsRequested
  ReceiptNeverOverstates
  EveryRelayIsTried
  NormalizationIsFaithful
  WeighsEverySymbolOnce
