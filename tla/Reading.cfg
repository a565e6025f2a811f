SPECIFICATION ReadSpec
CONSTANTS
  b1 = b1
  b2 = b2
  u1 = u1
  ann = ann
  bob = bob
  none = none
  Bytes = {b1, b2}
  Urls = {u1}
  Sha1 <- MCSha1Collision
  Revised = {}
  Crawled = {u1}
  MaxClock = 0
  Runs = {1}
  Tsas = {"t1"}
  Chain <- MCOneTsa
  Names = {ann, bob}
  Parties = {none}
  Speeches <- MCSpeeches
  Seed <- MCSeed
  None = None
  Garbled = Garbled
  Limit = 1
  MaxVersions = 3
  MaxFaults = 1
  MaxCrashes = 0
  IngestRuns = {}
  StampRuns = {1}
  CaptureRuns = {}
  AttestRuns = {1}
  ReparseRuns = {1}
  CapturedCooldown = 2
  FailedCooldown = 1
  Attempts = 1
  MaxSkew = 0
  MaxCandidates = 1
  Day <- MCDay
  Agenda <- MCAgenda
  ContextMax = 2
  DefaultLimit = 1
  MaximumLimit = 2
  AskedLimits = {0}
  Anybody = Anybody
INVARIANTS ChainOfEvidence DestroyedProofShows VerdictsFair BacklogNotOverstated ContextWhole PagesMissNothing
CHECK_DEADLOCK FALSE
