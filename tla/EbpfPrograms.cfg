CONSTANTS
  Plugins = {p1, p2}
  Programs = {k1, k2}
  None = None
  Closers = {c1}
  RingSize = 2
SPECIFICATION FairSpec
INVARIANTS TypeOK RegisteredIsOpen AtMostOneLateEvent
PROPERTIES ReadersEnd FullRingDrains
CHECK_DEADLOCK FALSE
