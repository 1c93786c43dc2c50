SPECIFICATION RefreshSpec
CONSTANTS
  Party = {1, 2, 3}
  Threshold = 1
  Refresh = {r1, r2}
  Dkg = dkg
  NoPoly = none
  Stride = 10
  Retiring = {}
  RestoreCall = {c1, c2}
  MayOverlap = FALSE
  MaxCrashes = 1
SYMMETRY Ids
INVARIANT RestoreIsSafeToRunAgain
CHECK_DEADLOCK FALSE
