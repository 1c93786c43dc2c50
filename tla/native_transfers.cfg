SPECIFICATION Spec
CONSTANTS
  User = {u1, u2}
  NoUser = NoUser
  MaxRequired = 2
  Handler = {h1, h2}
  Admin = {a1}
  Caller = {h1, h2, a1}
  Digest = {d1, d2}
  NoDigest = NoDigest
  Kind = {"evm", "fresh", "custodian"}
SYMMETRY Perms
CONSTRAINT DecisionFocus
INVARIANTS
  TypeOK
  SentAtMostOnce
  CompletedWasSent
  OneRunAtATime
  TransferFollowsRequest
PROPERTIES
  PromiseKept
  EvmRetrySignsTheSame
