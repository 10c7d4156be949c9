\* prefill after a send.
CONSTANTS
  NTxFrames = 2
  TxQueueSize = 2
  CompQueueSize = 2
  BatchSize = 1
  MaxPkts = 2
  MaxInFlight = 1
  KernelMode = "driver"
  KernelBudget = 2
  WakeupErrors = {}
  Client = {"prefill_midway"}
SPECIFICATION Spec
PROPERTY NoOverwrite
