\* Two callbacks of the timer and one of the service, two plans and two
\* starts of the controller.
SPECIFICATION Spec
CONSTANTS
  t1 = t1
  t2 = t2
  c1 = c1
  Ticks = {t1, t2}
  Calls = {c1}
  MaxPlans = 2
  MaxRuns = 2
  MaxAttempts = 2
  Leftover = 2
  Needed = 3
INVARIANTS
  HandoverTypeOK
  AttemptsAreItsOwn
  ReportsAreWhole
PROPERTY TracksFromTheGoal
CHECK_DEADLOCK FALSE
