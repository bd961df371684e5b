SPECIFICATION Spec
CONSTANTS
  Faces = {1050, 9999, 20000}
  DueDays <- BoundaryDays
  DueHours = {0, 1, 23}
  AcceptHours = {0, 1, 12, 23}
  Shares = {0, 1, 33, 50}
CHECK_DEADLOCK FALSE
INVARIANTS
  DatePriced
  YieldRecorded
  ReturnsWithinFace
  PayoutCovered
  ReserveBacked
  DueWithin23MonthsAcceptable
