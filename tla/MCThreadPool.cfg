\* Three workers, four descriptors: safety, refinement and liveness.
SPECIFICATION FairSpec
CONSTANTS
  Worker = {w1, w2, w3}
  Main = main
  Descriptors = {d1, d2, d3, d4}
  NoTask = notask
  Free = free
INVARIANTS TypeOK LockInv PullFindsTask OnePlace SomebodyAwake
PROPERTIES ImplementsFairPool
