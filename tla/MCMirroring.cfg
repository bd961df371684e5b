SPECIFICATION FairSpec
CONSTANTS
  h1 = h1
  v1 = v1
  None = None
  Holdings = {h1}
  Invoices = {v1}
  InvoiceOf <- OneHolding
  Slots = {s1, s2}
  Amounts = {1, 2}
  Delays = 1
  MaxHolding = 3
  MaxRetries = 2
  MaxFaults = 1
CHECK_DEADLOCK FALSE
INVARIANTS
  LedgerMirrorsChain
  SingleRoundFlagTells
PROPERTIES
  FundedResolves
