SPECIFICATION Spec
CONSTANTS
  I64Max = 3999
  MaxSum = 2000
  Precision = 8192
  Rounded <- MCRounded
  FeeDen = 400
  Markets <- MCMarkets
INVARIANTS
  TypeOK
  NeverOversells
  PoolStaysAboveLimit
  SoldAtLimitOrBetter
  EveryLegPaysItsFee
  PoolOnCurve
  RoutingBeatsPoolAlone
  StopsOnlyWherePoolEnds
  TakenLinesBeatThePool
PROPERTIES
  KeepsPromise
  LeavesAtMostTheLine
CHECK_DEADLOCK FALSE
