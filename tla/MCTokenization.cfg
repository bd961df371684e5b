SPECIFICATION FairSpec
CONSTANTS
  v1 = v1
  v2 = v2
  sym1 = sym1
  None = None
  Invoices = {v1, v2}
  SymbolOf <- ClashingSymbols
  Slots = {s1, s2}
  Delays = 1
  MaxRetries = 1
  MaxFaults = 1
CHECK_DEADLOCK FALSE
INVARIANTS
  LedgerMirrorsChain
  ColumnsBackedByChain
  QuietSingleLaunch
  QuietErrorNamesStep
PROPERTIES
  AcceptedResolves
