\* KeyboardInterrupt between the store and the assignment after it.
SPECIFICATION Spec

CONSTANTS
  MaxEpoch = 1
  MaxRevision = 3
  MaxTime = 0
  Lifetimes = {1}
  SlotTimeout = 1
  ForeignEpochs = {}
  NoScene = NoScene
  NoWord = NoWord
  Interruptible = TRUE
  Corruptible = FALSE
  PidReuse = FALSE

PROPERTIES
  RevisionAdvances

\* The bounds may stop every process before there is anything to read.
CHECK_DEADLOCK FALSE
