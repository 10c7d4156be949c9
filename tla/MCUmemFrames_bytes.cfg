\* Two frames of four bytes for each half, the UMEM just as large as a u32 can
\* address; data that fills the mtu and data beyond it, closures that fill
\* their slice and that return more than it holds.
CONSTANTS
  FrameSize = 4
  Headroom = 1
  NTxFrames = 2
  NRxFrames = 2
  Word = 16
  DataLens = {0, 2, 3, 5}
  ClosureLens = {1, 4, 5}
  MaxPkts = 4
SPECIFICATION Spec
INVARIANTS UmemTypeOK FramesAccounted DescriptorsHoldData
PROPERTY OnlyOwnFrame
