\* Every send submits its frame, the caller drains whenever it likes, the
\* device completes out of order, sendto may fail, both rings fill up.
CONSTANTS
  NTxFrames = 4
  TxQueueSize = 2
  CompQueueSize = 2
  BatchSize = 1
  MaxPkts = 9
  MaxInFlight = 2
  KernelMode = "copy"
  KernelBudget = 1
  WakeupErrors = {"transient", "fatal"}
  Client = {"drain_midway", "long_data"}
SPECIFICATION FairSpec
INVARIANTS TxTypeOK FrameOwnership OutstandingExact
PROPERTIES NoOverwrite ChannelSpec SendReturns
