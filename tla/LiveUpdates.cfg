CONSTANTS
  o1 = o1
  d1 = d1
  c1 = c1
  s1 = s1
  Objects = {o1}
  Ids = {d1}
  IdOf <- OneDevice
  Callers = {c1}
  Controller = c1
  Servers = {s1}
  Poller = poller
  NoThread = nothread
  MaxChanges = 2
  MaxFaults = 1
  MaxSubscriptions = 1
SPECIFICATION FairSpec
CHECK_DEADLOCK FALSE
INVARIANT TypeOK
INVARIANT NeverTerminates
INVARIANT StopWaitsForOneCycle
INVARIANT StoppedIsQuiet
INVARIANT TargetsAreAlive
INVARIANT NoUpdateLost
INVARIANT NoLostWakeUp
PROPERTY StopReturns
PROPERTY PollingSyncs
