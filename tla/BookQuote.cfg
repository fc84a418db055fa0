SPECIFICATION Spec
CONSTANTS
  I64Max = 3999
  MaxSum = 2000
  Precision = 8192
  Rounded <- MCRounded
  FeeDen = 400
  NULL_ORDER = NULL_ORDER
  None = None
  Markets <- MCMarkets
  Books <- MCBooksOf
  WellFormed <- MCWellFormed
INVARIANTS
  BookTypeOK
  SellKeepsWithin
  BuyKeepsWithin
PROPERTIES
  ImplementsSell
  ImplementsBuy
  QuoteReturns
CHECK_DEADLOCK FALSE
