\* Batches of two that divide the frames, one drain after the last packet, a
\* completion ring with room for every frame; a
\* driver that empties the tx ring once woken and completes in order.
CONSTANTS
  NTxFrames = 6
  TxQueueSize = 4
  CompQueueSize = 8
  BatchSize = 2
  MaxPkts = 9
  MaxInFlight = 1
  KernelMode = "driver"
  KernelBudget = 4
  WakeupErrors = {}
  Client = {}
SPECIFICATION RetrySpec
INVARIANTS NoRangePanic NoFreeFramesIsTrue
PROPERTIES ChannelSpec DrainReturns RetrySucceeds
