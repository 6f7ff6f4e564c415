CONSTANTS
  k1 = k1
  k2 = k2
  c1 = c1
  c2 = c2
  i1 = i1
  i2 = i2
  Tokens = {k1}
  NoToken = notoken
  AppIds = {i1}
  NoId = noid
  Callers = {c1}
  Suppliers = {c1}
  Server = server
  Worker = worker
  MaxSupplies = 1
  MaxWebhooks = 1
SPECIFICATION Spec
CHECK_DEADLOCK FALSE
INVARIANT UninstallForgotten
