SPECIFICATION RefreshSpec
CONSTANTS
  Party = {1, 2, 3}
  Threshold = 1
  Refresh = {r1, r2}
  Dkg = dkg
  NoPoly = none
  Stride = 10
  Retiring = {1}
  RestoreCall = {c1, c2}
  MayOverlap = FALSE
  MaxCrashes = 2
SYMMETRY Ids
CONSTRAINT RetirementFocus
INVARIANTS
  RefreshTypeOK
  KeyStaysUsable
  SameEpochCombines
  MemoryKeepsUpWithStore
  FailedRefreshChangedNothing
CHECK_DEADLOCK FALSE
