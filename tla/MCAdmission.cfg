CONSTANTS
  i1 = i1
  i2 = i2
  b1 = b1
  Intents = {i1, i2}
  Guests = {i1}
  Books = {b1}
  Book <- OneBook
  Size <- Sizes
  QuotaMax = 3
  Used = {0, 1}
  PlatformMax = 3
  BooksMax = 2
  BudgetGate = TRUE
  MaxFaults = 2
SPECIFICATION FairSpec
INVARIANTS LedgerExact MessagesStayAuthorised GuestRefundOnlyNegative
PROPERTIES LedgerSpec OneTaskPerBook ChargedIsResolved GuestIsResolved
CHECK_DEADLOCK FALSE
