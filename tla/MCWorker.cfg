\* Every first line, and up to three header lines of every kind, read from a
\* client that may do anything.
SPECIFICATION WorkerSpec
CONSTANTS
  HeaderLimit = 2
  BufferSize = 3
  EchoLength = 1
  Requests <- FewRequests
  MaxHeaderCount = 2
  MaxLines = 3
INVARIANTS RoutedIsValidated LastHostWins FaultsAreThese BufferOutlivesParser
PROPERTY ImplementsTask
\* A worker's task is done once.
CHECK_DEADLOCK FALSE
