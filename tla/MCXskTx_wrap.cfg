\* A batch size that does not divide the number of frames.
CONSTANTS
  NTxFrames = 3
  TxQueueSize = 2
  CompQueueSize = 4
  BatchSize = 2
  MaxPkts = 4
  MaxInFlight = 2
  KernelMode = "driver"
  KernelBudget = 4
  WakeupErrors = {}
  Client = {}
SPECIFICATION Spec
INVARIANT NoRangePanic
