SPECIFICATION Spec
CONSTANTS
  MaxSlot = 3
  Faults <- MCFaults
INVARIANTS
  TypeOK
  BookAndPoolOfOneHeader
  PriceAndPoolPartOnlyAfterFailure
  LiquidityComesLast
  OneFetchOneSlot
  SwapMatchesQuote
PROPERTIES
  CatchesUp
CHECK_DEADLOCK FALSE
