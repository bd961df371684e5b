SPECIFICATION OfferingSpec
CONSTANTS
  v1 = v1
  sym1 = sym1
  None = None
  Invoices = {v1}
  SymbolOf <- OneSymbol
  Holdings = {h1, h2}
  InvoiceOf <- SameInvoice
  Slots = {s1, s2}
  Amounts = {1}
  Delays = 0
  MaxHolding = 1
  MaxRaised = 2
  MaxRetries = 1
  MaxRuns = 2
  MaxFaults = 1
SYMMETRY Symmetry
CHECK_DEADLOCK FALSE
INVARIANTS
  StepsInOrder
  FinalizedIsComplete
  DividendsAccounted
  UnlistedShows
  OnlyLaunchedTouched
