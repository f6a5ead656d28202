\* Fewer descriptors than connections, fewer events per poll than ready
\* descriptors: descriptors are reused while events and tasks wait.  Every
\* call that may fail does so at some time.
SPECIFICATION Spec
CONSTANTS
  Fd = {f1, f2, f3}
  Conn = {c1, c2, c3, c4}
  Worker = {w1, w2}
  Listen = listen
  None = none
  MaxEvents = 2
  Faults = {"setsockopt", "ev_add", "enqueue"}
SYMMETRY Names
INVARIANTS TypeOK BatchIsCurrent WorkerReadsOwnConnection InFlightIsUnwatched AcceptNeverBlocks NobodyCutOff
PROPERTIES ImplementsPool ImplementsLife OrphansStay
\* When every client is done the server blocks in kevent.
CHECK_DEADLOCK FALSE
