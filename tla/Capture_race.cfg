SPECIFICATION Spec
CONSTANTS
  b1 = b1
  b2 = b2
  u1 = u1
  ann = ann
  bob = bob
  none = none
  Bytes = {b1}
  Urls = {u1}
  Sha1 <- MCSha1
  Revised = {}
  Crawled = {}
  MaxClock = 2
  Runs = {1, 2}
  Tsas = {"t1"}
  Chain <- MCOneTsa
  Names = {ann, bob}
  Parties = {none}
  Speeches <- MCOneSpeech
  Seed <- MCOneSecured
  None = None
  Garbled = Garbled
  Limit = 0
  MaxVersions = 1
  MaxFaults = 0
  MaxCrashes = 1
  IngestRuns = {}
  StampRuns = {}
  CaptureRuns = {1, 2}
  AttestRuns = {}
  ReparseRuns = {}
  CapturedCooldown = 2
  FailedCooldown = 1
  Attempts = 1
  MaxSkew = 1
  MaxCandidates = 1
INVARIANTS CooldownRespected OrdersBounded CapturedBacked
PROPERTY AssumesCall
CHECK_DEADLOCK FALSE
