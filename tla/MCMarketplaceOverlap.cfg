SPECIFICATION Spec
CONSTANTS
  None = None
  Investors = {i1, i2}
  Invoices = {v1}
  Whitelisted = {i1, i2}
  Legacy = {}
  Slots = {s1, s2, s3}
  FaceAmount = 10
  Targets = {5}
  MinFund = 2
  FundAmounts = {2, 3}
  DepositAmounts = {3}
  MaxWallet = 4
SYMMETRY Symmetry
CHECK_DEADLOCK FALSE
INVARIANTS
  QuietInvoiceCapped
  InvoicePaidOut
  InvoiceRepaid
  WalletSolvent
  QuietReturns
  FundedIsSumOfHoldings
  OverfundBounded
  DivisorPositive
PROPERTIES
  QuietStatusForward
  QuietStrandedStays
