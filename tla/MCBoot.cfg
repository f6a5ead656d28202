\* Up to two cores, two addresses and two tasks; a port of one digit fits.
SPECIFICATION FairSpec
CONSTANTS
  MaxFieldLength = 9
  MaxValueLength = 3
  WordSize = 128
  Spelling <- SmallSpelling
  Defaults <- SmallDefaults
  Refused = Refused
  Files <- SmallFiles
  Cores = {0, 1, 2}
  MaxAddresses = 2
  SizeOfSizeT = 2
  MaxTasks = 2
INVARIANTS ConfigIsItsLines ServingIsReady CleanUpFaults
PROPERTY BootEnds
\* The process may end.
CHECK_DEADLOCK FALSE
