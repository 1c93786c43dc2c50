SPECIFICATION SigningSpec
CONSTANTS
  Caller = {c1, c2, c3}
  Digest = {d1, d2}
  NoDigest = NoDigest
SYMMETRY Perms
INVARIANTS
  SigningTypeOK
  OneMessagePerKey
  AnswerIsForTheMessageAsked
  SignedIsOnRecord
PROPERTIES
  RowIsNotReused
