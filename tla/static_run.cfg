\* One command, and one signal from outside at any moment; the reserve holds one
\* open cycle, and the two streams it is tight for are counted.
SPECIFICATION Spec
CONSTANTS
  PendingRoom = 1
  Counted = {"cycle", "admission"}
  MaxCommands = 1
  MaxSignals = 1
INVARIANTS
  RunTypeOK
  ReserveSuffices
  CompletedIsWhole
  ExhaustionIsReported
  NobodyOutlivesTheResult
CHECK_DEADLOCK FALSE
