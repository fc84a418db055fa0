SPECIFICATION Spec
CONSTANTS
  Line <- MCLine
  NULL_ORDER = NULL_ORDER
  None = None
  Accounts <- MCAccounts
INVARIANTS
  YieldsWithinCount
PROPERTIES
  WalkEnds
CHECK_DEADLOCK FALSE
