SPECIFICATION FairSpec
CONSTANTS
  b1 = b1
  b2 = b2
  u1 = u1
  ann = ann
  bob = bob
  none = none
  Bytes = {b1, b2}
  Urls = {u1}
  Sha1 <- MCSha1
  Revised = {u1}
  Crawled = {u1}
  MaxClock = 0
  Runs = {1, 2}
  Tsas = {"t1", "t2"}
  Chain <- MCChain
  Names = {ann, bob}
  Parties = {none}
  Speeches <- MCSpeeches
  Seed <- MCOneSecured
  None = None
  Garbled = Garbled
  Limit = 0
  MaxVersions = 4
  MaxFaults = 0
  MaxCrashes = 1
  IngestRuns = {}
  StampRuns = {1}
  CaptureRuns = {}
  AttestRuns = {1}
  ReparseRuns = {1, 2}
  CapturedCooldown = 2
  FailedCooldown = 1
  Attempts = 2
  MaxSkew = 0
  MaxCandidates = 1
PROPERTIES EventuallyAttested EventuallyQuoted EventuallyStamped
CHECK_DEADLOCK FALSE
