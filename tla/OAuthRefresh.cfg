CONSTANTS
  c1 = c1
  c2 = c2
  s1 = s1
  Callers = {c1, c2}
  Servers = {s1}
  NoThread = nothread
  MaxTokens = 3
  MaxPages = 1
  MaxUninstalls = 1
  MaxCrashes = 1
SPECIFICATION Spec
SYMMETRY ThreadSymmetry
INVARIANT TypeOK
INVARIANT KeychainLive
PROPERTY OneRefreshPerExpiry
