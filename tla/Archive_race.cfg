SPECIFICATION Spec
CONSTANTS
  b1 = b1
  b2 = b2
  u1 = u1
  ann = ann
  bob = bob
  none = none
  Bytes = {b1, b2}
  Urls = {u1}
  Sha1 <- MCSha1Collision
  Revised = {}
  Crawled = {u1}
  MaxClock = 0
  Runs = {1, 2}
  Tsas = {"t1"}
  Chain <- MCOneTsa
  Names = {ann, bob}
  Parties = {none}
  Speeches <- MCRefused
  Seed <- MCMixed
  None = None
  Garbled = Garbled
  Limit = 0
  MaxVersions = 2
  MaxFaults = 1
  MaxCrashes = 1
  IngestRuns = {}
  StampRuns = {}
  CaptureRuns = {}
  AttestRuns = {1, 2}
  ReparseRuns = {1, 2}
  CapturedCooldown = 2
  FailedCooldown = 1
  Attempts = 2
  MaxSkew = 0
  MaxCandidates = 1
INVARIANTS AttestationsProved OneAttestation AttestReportsTrue SpansComplete SpansVerbatim SpeakersExist ReparseReportsTrue
CHECK_DEADLOCK FALSE
