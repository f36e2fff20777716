\* A writer dies between os.link and staging.unlink.
SPECIFICATION Spec

CONSTANTS
  MaxEpoch = 1
  MaxRevision = 2
  MaxTime = 0
  Lifetimes = {1}
  SlotTimeout = 1
  ForeignEpochs = {}
  NoScene = NoScene
  NoWord = NoWord
  Interruptible = FALSE
  Corruptible = FALSE
  PidReuse = FALSE

INVARIANTS
  FreeLockAdmitsAWriter

\* The bounds may stop every process before there is anything to read.
CHECK_DEADLOCK FALSE
