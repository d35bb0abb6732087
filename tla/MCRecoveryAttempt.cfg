CONSTANTS
  nic1 = nic1
  nic2 = nic2
  site = site
  flow1 = flow1
  flow2 = flow2
  Adapters = {nic1, nic2}
  Weights = {1}
  EvidenceTTL = 1
  QuarantineTTL = 2
  Domains = {}
  Literals = {"ipv4"}
  Targets = {"ipv4"}
  Supports <- SingleStack
  Backoff <- OneBackoff
  TimeoutFailures = 1
  TimeoutTargets = 1
  Flows = {flow1, flow2}
SPECIFICATION Spec
CONSTRAINT AnyChoice
PROPERTY RecoveryAttemptRetained
