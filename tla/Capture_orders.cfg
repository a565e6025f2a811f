SPECIFICATION Spec
CONSTANTS
  b1 = b1
  b2 = b2
  u1 = u1
  ann = ann
  bob = bob
  none = none
  Bytes = {b1}
  Urls = {u1}
  Sha1 <- MCSha1
  Revised = {}
  Crawled = {}
  MaxClock = 0
  Runs = {1, 2}
  Tsas = {"t1"}
  Chain <- MCOneTsa
  Names = {ann, bob}
  Parties = {none}
  Speeches <- MCSpeeches
  Seed <- MCOneSecured
  None = None
  Garbled = Garbled
  Limit = 0
  MaxVersions = 2
  MaxFaults = 0
  MaxCrashes = 0
  IngestRuns = {}
  StampRuns = {}
  CaptureRuns = {1}
  AttestRuns = {}
  ReparseRuns = {}
  CapturedCooldown = 2
  FailedCooldown = 1
  Attempts = 2
  MaxSkew = 0
  MaxCandidates = 1
INVARIANT OneRowPerOrder
CHECK_DEADLOCK FALSE
