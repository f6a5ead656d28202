\* Every way in which up to seven bytes can arrive.
SPECIFICATION FairSpec
CONSTANTS
  HeaderLimit = 3
  BufferSize = 5
  EchoLength = 2
  Requests <- SmallRequests
INVARIANTS TypeOK BufferIsPrefix ParserSeesHeaders TruncatedOnlyByFin BodilessRequestIsRead
PROPERTY ReadingEnds
\* A request is read once.
CHECK_DEADLOCK FALSE
