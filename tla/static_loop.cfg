\* One control period of tracking covers the path; four fit into the run.  A feed
\* of 2 would leave the path.
SPECIFICATION Spec

CONSTANTS
  MaxStep = 8
  Ticks = 2
  StopTicks = 1
  Length = 2
  MaxFeed = 2
  Gain = 2
  Lossy = TRUE
  Improved = TRUE
  Confirmation = 2
  PauseLimit = 3
  EndpointHold = 1
  NoMotion = NoMotion
  NoSample = NoSample
  NoCalculation = NoCalculation

INVARIANTS
  TypeOK
  OnlyLateOrUncertified
  RecoveryHasOneWriter
  AnswersAreExpected
  RefusalPausesReference
  ActivationContinues
  CompletedAtTheEnd
  CalculationsFitTheBudget

PROPERTIES
  ActuatorIsContinuous
  ImplementsCycle

\* The plant stops at MaxStep, and the controller's process ends.
CHECK_DEADLOCK FALSE
