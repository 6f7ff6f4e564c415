CONSTANTS
  d1 = d1
  d2 = d2
  c1 = c1
  c2 = c2
  Devices = {d1}
  Callers = {c1}
  Server = server
  Worker = worker
  NoThread = nothread
  NoDevice = nodevice
  NoSub = nosub
  Leftovers <- OneWhole
  MaxInstalls = 1
  MaxRegisters = 2
  MaxSignOuts = 1
  MaxFaults = 1
SPECIFICATION RefreshingSpec
CHECK_DEADLOCK FALSE
INVARIANT LiveDevicesTracked
PROPERTY CallsReturn
PROPERTY DestructionEnds
PROPERTY ParkedGetsSubscribed
