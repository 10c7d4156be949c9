\* Words of 4 bits, frames of at least 4 bytes with a headroom of 1.  Every
\* field takes valid, invalid and boundary values; 17 is 1 when cut to a word.
CONSTANTS
  U32 = 16
  MinFrameSize = 4
  XdpHeadroom = 1
  FrameCounts = {0, 1, 3}
  FrameSizes = {3, 4, 5}
  Headrooms = {0, 3, 4}
  RingSizes = {0, 2, 3}
  TxFrameCounts = {0, 1, 3, 4}
  TxBatchSizes = {0, 2, 3, 17}
SPECIFICATION Spec
INVARIANTS LifecycleTypeOK HandlesValid ReleasedOnce MemoryOutlivesSocket
  AcceptedSizesWork FramesTile
