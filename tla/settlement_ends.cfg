SPECIFICATION FairSpec
CONSTANTS
  User = {u1, u2}
  NoUser = NoUser
  MaxRequired = 2
  Handler = {h1}
  MaxAttempts = 2
  MaxInbox = 1
  Foreign = {}
PROPERTIES
  SettlementEnds
