SPECIFICATION Spec
CONSTANTS
  MaxSlot = 3
  Faults <- MCFaults
INVARIANTS
  ReserveMintsNeedNoUpdate
CHECK_DEADLOCK FALSE
