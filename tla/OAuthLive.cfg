CONSTANTS
  c1 = c1
  c2 = c2
  s1 = s1
  Callers = {c1, c2}
  Servers = {s1}
  NoThread = nothread
  MaxTokens = 2
  MaxPages = 1
  MaxUninstalls = 0
  MaxCrashes = 0
SPECIFICATION FairSpec
PROPERTY CallsReturn
PROPERTY WaitEnds
