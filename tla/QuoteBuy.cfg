SPECIFICATION Spec
CONSTANTS
  I64Max = 3999
  MaxSum = 2000
  Precision = 8192
  Rounded <- MCRounded
  FeeDen = 400
  Markets <- MCMarkets
INVARIANTS
  TypeOK
  OverspendsByLessThanOneUnit
  BoughtAtLimitOrBetter
  EveryLegPaysItsFee
  PoolStaysBelowLimit
  PoolOnCurve
CHECK_DEADLOCK FALSE
