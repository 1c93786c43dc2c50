SPECIFICATION FairSpec
CONSTANTS
  User = {u1, u2}
  NoUser = NoUser
  MaxRequired = 2
  Handler = {h1}
  Admin = {a1}
  Caller = {h1, a1}
  Digest = {d1, d2}
  NoDigest = NoDigest
  Kind = {"evm"}
PROPERTIES
  ExecutingEnds
