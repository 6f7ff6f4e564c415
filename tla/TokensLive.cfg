CONSTANTS
  k1 = k1
  k2 = k2
  c1 = c1
  c2 = c2
  i1 = i1
  i2 = i2
  Tokens = {k1, k2}
  NoToken = notoken
  AppIds = {i1, i2}
  NoId = noid
  Callers = {c1}
  Suppliers = {c1}
  Server = server
  Worker = worker
  MaxSupplies = 2
  MaxWebhooks = 0
SPECIFICATION FairSpec
CHECK_DEADLOCK FALSE
INVARIANT NoIdLost
PROPERTY RejectionTold
PROPERTY SignInAnnounced
PROPERTY DestructionEnds
