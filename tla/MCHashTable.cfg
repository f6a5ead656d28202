\* Three keys, two values, four slots.
SPECIFICATION FairSpec
CONSTANTS
  Keys = {a, b, c}
  Values = {v, w}
  NumEntries = 2
  KeygenValues <- SmallKeygen
  NoTable = NoTable
  Empty = Empty
  NoCall = NoCall
INVARIANTS TypeOK
PROPERTIES ImplementsMultiMap CallsReturn
\* After hash_free nothing is defined.
CHECK_DEADLOCK FALSE
