\* One writer, long enough for both slots to be overwritten, for scenes that come
\* too late or from before its epoch, and for interrupts.
SPECIFICATION Spec

CONSTANTS
  MaxEpoch = 1
  MaxRevision = 4
  MaxTime = 1
  Lifetimes = {0}
  SlotTimeout = 1
  ForeignEpochs = {}
  NoScene = NoScene
  NoWord = NoWord
  Interruptible = TRUE
  Corruptible = FALSE
  PidReuse = FALSE

INVARIANTS
  NothingSupersededIsVisible
  UnmovedWordMeansWholeCopy
  NoticeMatchesWord
  OnlyTheLockHolderVouches

PROPERTY
  ActiveSlotIsImmutable

\* The bounds may stop every process before there is anything to read.
CHECK_DEADLOCK FALSE
