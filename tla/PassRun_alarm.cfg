SPECIFICATION Spec
CONSTANTS
  MaxPending = 4
  Limits = {0, 2}
INVARIANT AlarmExits
CHECK_DEADLOCK FALSE
