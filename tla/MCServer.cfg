\* Fewer descriptors than clients, so that descriptors and freed blocks are
\* handed out again; a list as long as there are descriptors.
SPECIFICATION ServerSpec
CONSTANTS
  Descriptors = {f1, f2}
  NoTask = none
  Conn = {c1, c2, c3}
  Listen = listen
  MaxEvents = 2
  Faults = {"enqueue"}
  Worker = {w1, w2}
  Main = main
  Free = free
  Addr = {head, a1, a2, a3}
  QueueHead = head
  Root = root
  Null = null
  Garbage = garbage
SYMMETRY Alike
INVARIANT ListInv
PROPERTIES FaultOnlyThroughStaleTail ImplementsThreads ImplementsLoop
\* A store through a stale pointer ends the model, and so does the last client.
CHECK_DEADLOCK FALSE
