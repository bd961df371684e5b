SPECIFICATION DeskSpec
CONSTANTS
  None = None
  Investors = {i1, i2}
  OtherRows = {r1, r2}
  PageSizes = {1, 2}
  MaxEvents = 6
  MaxUpdates = 1
  Slots = {s1, s2}
  MaxSubmissions = 3
  MaxFundings = 1
SYMMETRY Symmetry
CHECK_DEADLOCK FALSE
INVARIANTS
  QuietNoticeTells
  MissedOnlyByDepartures
  RepeatedOnlyByArrivals
PROPERTIES
  QuietFunderWhitelisted
