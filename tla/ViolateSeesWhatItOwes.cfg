SPECIFICATION SubmissionSpec
CONSTANTS
  biz = biz
  buy = buy
  dup = dup
  mail = mail
  Mail = Mail
  other = other
  None = None
  Accounts = {biz, buy, dup}
  RoleOf <- Roles
  EmailOf <- Payloads
  Emails = {mail, Mail, other}
  Lower <- LowerCase
  Numbers = {n1}
  BuyerRows = {b1, b2}
  Slots = {s1}
  MaxReviews = 0
CHECK_DEADLOCK FALSE
INVARIANT
  SeesWhatItOwes
