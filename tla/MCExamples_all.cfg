\* dev_to_dev with two queues on each side, three packets and one of other
\* traffic, two frames per sending socket and batches of two, of which the
\* packet of the second queue is left for drain, and one frame per receiving
\* socket; synacker with two packets and one sending frame.  Programs end.
CONSTANTS
  NQueues = 2
  NPkts = 3
  TxFrames = 2
  BatchSize = 2
  RxFrames = 1
  MaxForeign = 1
  None = None
  Packets <- MCPackets
  Filters <- MCFilters
  SeqNumbers = 2
  Builds = {"debug", "release"}
  SynTxFrames = 1
  MaxArrivals = 2
SPECIFICATION Spec
INVARIANTS PacketsAccounted StatsCoverRun AnswersExact
PROPERTIES ProgramsEnd SynackerEnds
CHECK_DEADLOCK FALSE
