\* No signal from outside, but workers that may hang anywhere; the control cycle too.
SPECIFICATION FairSpec
CONSTANTS
  PendingRoom = 1
  Counted = {}
  MaxCommands = 1
  MaxSignals = 0
PROPERTIES
  RunEnds
  ImplementsCycle
CHECK_DEADLOCK FALSE
