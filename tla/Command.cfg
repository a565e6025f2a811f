SPECIFICATION CommandSpec
CONSTANTS
  MaxPending = 4
  Limits = {0, 2}
  MinInterval = 3
  Attempts = 3
  BaseDelay = 1
  PollInterval = 1
  PollTimeout = 2
INVARIANTS CommandTypeOK BreakerExact ExitCodeTrue BreakerBoundsPosts
PROPERTIES TurnsSpaced KeepsCall RunEnds
CHECK_DEADLOCK FALSE
