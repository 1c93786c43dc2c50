SPECIFICATION RefreshSpec
CONSTANTS
  Party = {1, 2, 3}
  Threshold = 1
  Refresh = {r1, r2}
  Dkg = dkg
  NoPoly = none
  Stride = 10
  Retiring = {}
  RestoreCall = {c1}
  MayOverlap = FALSE
  MaxCrashes = 0
SYMMETRY Ids
INVARIANT AcceptedPartyTakesPart
CHECK_DEADLOCK FALSE
