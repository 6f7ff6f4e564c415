CONSTANTS
  d1 = d1
  d2 = d2
  c1 = c1
  c2 = c2
  Devices = {d1, d2}
  Callers = {c1, c2}
  Server = server
  Worker = worker
  NoThread = nothread
  NoDevice = nodevice
  NoSub = nosub
  Leftovers <- OneOfEach
  MaxInstalls = 1
  MaxRegisters = 2
  MaxSignOuts = 0
  MaxFaults = 1
SPECIFICATION Spec
CHECK_DEADLOCK FALSE
SYMMETRY CallerSymmetry
INVARIANT TypeOK
INVARIANT NoSilentLeak
INVARIANT OneSubscriptionEach
INVARIANT CleanDestruction
INVARIANT ReleaseBeforeTeardown
