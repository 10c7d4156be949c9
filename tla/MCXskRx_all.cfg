\* Callers of recv, of recv_apply and of both, kernels that use the frames in
\* order and in any order; a rx ring smaller than the number of frames, a fill
\* ring that just holds them.
CONSTANTS
  NRxFrames = 3
  FillQueueSize = 3
  RxQueueSize = 2
  MaxPkts = 4
  Orders = {TRUE, FALSE}
  PollErrors = {"eintr", "fatal"}
  Clients = {{"recv", "short_buffer"}, {"recv_apply"}, {"recv", "recv_apply"}}
SPECIFICATION FairSpec
INVARIANTS RxTypeOK RxOwnership ToBeFilledExact DeliveredIntact RecvMissesNothing RefillNeverSpins
PROPERTIES RxChannelSpec ReceivedDelivered KernelGetsFrames
