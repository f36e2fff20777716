\* A second writer replaces the file of a first one that closed or died.
SPECIFICATION Spec

CONSTANTS
  MaxEpoch = 2
  MaxRevision = 2
  MaxTime = 0
  Lifetimes = {1}
  SlotTimeout = 1
  ForeignEpochs = {}
  NoScene = NoScene
  NoWord = NoWord
  Interruptible = FALSE
  Corruptible = FALSE
  PidReuse = FALSE

INVARIANTS
  AcceptedWasAuthoritative
  OnlyTheAcceptedEpoch

PROPERTY
  RevisionAdvances

\* The bounds may stop every process before there is anything to read.
CHECK_DEADLOCK FALSE
