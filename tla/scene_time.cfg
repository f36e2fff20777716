\* Scenes that expire at once, after the slot timeout, and damaged slots.
SPECIFICATION Spec

CONSTANTS
  MaxEpoch = 1
  MaxRevision = 1
  MaxTime = 3
  Lifetimes = {0, 2}
  SlotTimeout = 1
  ForeignEpochs = {}
  NoScene = NoScene
  NoWord = NoWord
  Interruptible = FALSE
  Corruptible = TRUE
  PidReuse = TRUE

INVARIANTS
  TypeOK
  CertifiedInTime
  FaultHidesScene

\* The bounds may stop every process before there is anything to read.
CHECK_DEADLOCK FALSE
