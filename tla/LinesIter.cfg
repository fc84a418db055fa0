SPECIFICATION Spec
CONSTANTS
  Line <- MCLine
  NULL_ORDER = NULL_ORDER
  None = None
  Accounts <- MCAccounts
INVARIANTS
  TypeOK
  FirstYieldIsBegin
PROPERTIES
  WalksTheLadder
CHECK_DEADLOCK FALSE
