CONSTANTS
  d1 = d1
  d2 = d2
  c1 = c1
  c2 = c2
  Devices = {d1}
  Callers = {c1, c2}
  Server = server
  Worker = worker
  NoThread = nothread
  NoDevice = nodevice
  NoSub = nosub
  Leftovers <- WholeAndNarrow
  MaxInstalls = 1
  MaxRegisters = 2
  MaxSignOuts = 0
  MaxFaults = 0
SPECIFICATION Spec
CHECK_DEADLOCK FALSE
INVARIANT LiveDevicesTracked
