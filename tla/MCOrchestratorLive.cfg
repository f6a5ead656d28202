\* Fairness of the loop and the pool: accepted clients that speak are served.
SPECIFICATION FairSpec
CONSTANTS
  Fd = {f1, f2}
  Conn = {c1, c2, c3}
  Worker = {w1, w2}
  Listen = listen
  None = none
  MaxEvents = 1
  Faults = {}
INVARIANT NoOrphans
PROPERTIES SpeakerIsServed BacklogDrains
\* When every client is done the server blocks in kevent.
CHECK_DEADLOCK FALSE
