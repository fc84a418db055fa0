SPECIFICATION Spec
CONSTANTS
  Thread <- MCThread
  MaxClock = 2
INVARIANTS
  WholeUnlessRaced
PROPERTIES
  NeverTurnsBackUnlessRaced
  ReachesTheChain
CHECK_DEADLOCK FALSE
