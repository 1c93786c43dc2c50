SPECIFICATION Spec
CONSTANTS
  User = {u1, u2, u3}
  NoUser = NoUser
  MaxRequired = 3
  Handler = {h1}
  MaxAttempts = 2
  MaxInbox = 1
  Foreign <- ForeignApprovals
SYMMETRY Perms
INVARIANTS
  NoSignatureWithoutQuorum
  StepsAgreeWithRecord
  OneTransactionOnNetwork
  EachPersonCountsOnce
PROPERTIES
  PromiseKept
