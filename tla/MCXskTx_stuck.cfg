\* A sendto that transmits fewer frames than a batch has.
CONSTANTS
  NTxFrames = 4
  TxQueueSize = 4
  CompQueueSize = 4
  BatchSize = 2
  MaxPkts = 2
  MaxInFlight = 1
  KernelMode = "copy"
  KernelBudget = 1
  WakeupErrors = {}
  Client = {}
SPECIFICATION FairSpec
PROPERTY DrainReturns
