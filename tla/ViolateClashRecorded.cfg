SPECIFICATION Spec
CONSTANTS
  v1 = v1
  v2 = v2
  sym1 = sym1
  None = None
  Invoices = {v1, v2}
  SymbolOf <- ClashingSymbols
  Slots = {s1}
  Delays = 0
  MaxRetries = 0
  MaxFaults = 0
CHECK_DEADLOCK FALSE
INVARIANT
  ClashRecorded
