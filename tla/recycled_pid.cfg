\* A reader starts after the writer died and its pid was given away.
SPECIFICATION Spec

CONSTANTS
  MaxEpoch = 1
  MaxRevision = 2
  MaxTime = 0
  Lifetimes = {1}
  SlotTimeout = 1
  ForeignEpochs = {}
  NoScene = NoScene
  NoWord = NoWord
  Interruptible = FALSE
  Corruptible = FALSE
  PidReuse = TRUE

INVARIANTS
  AcceptedWasAuthoritative

\* The bounds may stop every process before there is anything to read.
CHECK_DEADLOCK FALSE
