SPECIFICATION SubmissionSpec
CONSTANTS
  biz = biz
  buy = buy
  dup = dup
  mail = mail
  Mail = Mail
  other = other
  None = None
  Accounts = {biz, buy, dup}
  RoleOf <- Roles
  EmailOf <- Payloads
  Emails = {mail, Mail, other}
  Lower <- LowerCase
  Numbers = {n1}
  BuyerRows = {b1, b2, b3}
  Slots = {s1, s2}
  MaxReviews = 2
SYMMETRY Symmetry
CHECK_DEADLOCK FALSE
INVARIANTS
  OneUserPerEmail
  QuietUnlinkedOnce
  AcceptanceLaunched
  QuietAcceptanceFinal
  DisputeTold
  SettingsSurvive
