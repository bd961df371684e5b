SPECIFICATION Spec
CONSTANTS
  None = None
  Investors = {i1, i2}
  Invoices = {v1, v2}
  Whitelisted = {i1, i2}
  Legacy = {v2}
  Slots = {s1}
  FaceAmount = 6
  Targets = {5}
  MinFund = 2
  FundAmounts = {2, 3}
  DepositAmounts = {3}
  MaxWallet = 6
SYMMETRY Symmetry
CHECK_DEADLOCK FALSE
PROPERTIES
  ImplementsEscrow
