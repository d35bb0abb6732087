\* Records: one adapter and one domain; the records of different pairs share
\* nothing but the writes and the removal counter. Deadlines in ticks.
CONSTANTS
  Adapters = {nic1}
  Domains = {site1}
  EvidenceTTL = 1
  QuarantineTTL = 2
  MaxRemovals = 2
  Preferences = {"changed"}
  Default = "default"
  Legacy = "legacy"
  Stable = {"s1"}
  Preview = {"p1"}
  Versions = {1, 2, 3}
  Prereleases = {3}
  RunningVersion = 1
  Manifests = {"notes", "other notes"}
  Mirrors = 2
  Files = 3
  Payload = {1, 2}
  SetupReleases = {1, 2}
  MaxInstalls = 2
SPECIFICATION FilesSpec
INVARIANTS
  RemovedStaysRemoved
  NothingOnlyInMemory
  HandoverIsSafe
  InstallationIsWhole
PROPERTIES
  RecordsKeptWhileOff
  PolicyReachesEngine
  
  OfferIsAgreed
