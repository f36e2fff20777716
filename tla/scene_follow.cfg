\* A reader that keeps calling refresh, while writers publish, withdraw, close,
\* die and are replaced, the second of another source.
SPECIFICATION FairSpec

CONSTANTS
  MaxEpoch = 2
  MaxRevision = 2
  MaxTime = 0
  Lifetimes = {1}
  SlotTimeout = 1
  ForeignEpochs = {2}
  NoScene = NoScene
  NoWord = NoWord
  Interruptible = FALSE
  Corruptible = FALSE
  PidReuse = FALSE

PROPERTIES
  RevokedIsDropped
  ImplementsRegister

\* The bounds may stop every process before there is anything to read.
CHECK_DEADLOCK FALSE
