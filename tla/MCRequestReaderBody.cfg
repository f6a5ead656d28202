\* Every way in which up to seven bytes can arrive.
SPECIFICATION Spec
CONSTANTS
  HeaderLimit = 3
  BufferSize = 5
  EchoLength = 2
  Requests <- SmallRequests
INVARIANT CompleteRequestIsRead
\* A request is read once.
CHECK_DEADLOCK FALSE
