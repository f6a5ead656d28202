\* The smallest heap on which a pull leaves queue_tail in a freed node, and as
\* few descriptors, clients and workers as get there.
SPECIFICATION ServerSpec
CONSTANTS
  Descriptors = {f1, f2}
  NoTask = none
  Conn = {c1, c2, c3}
  Listen = listen
  MaxEvents = 2
  Faults = {}
  Worker = {w1}
  Main = main
  Free = free
  Addr = {head, a1, a2, a3}
  QueueHead = head
  Root = root
  Null = null
  Garbage = garbage
SYMMETRY Alike
INVARIANT QueueNeverFaults
\* A store through a stale pointer ends the model.
CHECK_DEADLOCK FALSE
