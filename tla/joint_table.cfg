\* Two programs at two joints, a table of two rows, two lines that wait,
\* two requests for a stop.
CONSTANTS
  s1 = s1
  s2 = s2
  Sessions = {s1, s2}
  Joints = {1, 2}
  Rows = 2
  MaxTyped = 2
  MaxRequests = 2
SYMMETRY Programs
SPECIFICATION Spec
INVARIANTS
  JointTypeOK
  ReportIsTrue
  ArrivalIsWhole
  MovesUnderReview
  EndsAreLatched
PROPERTY BeginsByLine
CHECK_DEADLOCK FALSE
