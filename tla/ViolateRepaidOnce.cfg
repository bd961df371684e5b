SPECIFICATION Spec
CONSTANTS
  None = None
  Investors = {i1}
  Invoices = {v1}
  Whitelisted = {i1}
  Legacy = {}
  Slots = {s1, s2}
  FaceAmount = 8
  Targets = {6}
  MinFund = 2
  FundAmounts = {3, 6}
  DepositAmounts = {6}
  MaxWallet = 6
CHECK_DEADLOCK FALSE
INVARIANT
  RepaidOnce
