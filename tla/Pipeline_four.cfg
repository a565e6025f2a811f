SPECIFICATION Spec
CONSTANTS
  b1 = b1
  b2 = b2
  u1 = u1
  ann = ann
  bob = bob
  none = none
  Bytes = {b1, b2}
  Urls = {u1}
  Sha1 <- MCSha1
  Revised = {}
  Crawled = {u1}
  MaxClock = 0
  Runs = {r1, r2, r3}
  Tsas = {"t1"}
  Chain <- MCOneTsa
  Names = {ann, bob}
  Parties = {none}
  Speeches <- MCSpeeches
  Seed <- MCOneAttested
  None = None
  Garbled = Garbled
  Limit = 0
  MaxVersions = 3
  MaxFaults = 0
  MaxCrashes = 1
  IngestRuns = {r1, r2}
  StampRuns = {r3}
  CaptureRuns = {}
  AttestRuns = {r3}
  ReparseRuns = {r3}
  CapturedCooldown = 2
  FailedCooldown = 1
  Attempts = 2
  MaxSkew = 0
  MaxCandidates = 1
INVARIANTS IInv UniqueHash RefsResolve IngestReportsTrue UniqueSpeaker
SYMMETRY MCIngestSymmetry
PROPERTY KeepsPromise
CHECK_DEADLOCK FALSE
