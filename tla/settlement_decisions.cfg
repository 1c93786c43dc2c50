SPECIFICATION Spec
CONSTANTS
  User = {u1, u2, u3}
  NoUser = NoUser
  MaxRequired = 2
  Handler = {h1, h2}
  MaxAttempts = 1
  MaxInbox = 2
  Foreign = {}
SYMMETRY Perms
CONSTRAINT FreezeFocus
INVARIANTS
  TypeOK
  EndedSettlementClosesItsRequest
  EachPersonCountsOnce
  WorkflowHearsTheRecord
PROPERTIES
  RecordIsFinal
