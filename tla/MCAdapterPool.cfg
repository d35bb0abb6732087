\* Two flows to one domain, or one after another to a literal address. Every
\* link carries them in the same way, so links and flows are interchangeable.
\* Deadlines in ticks.
CONSTANTS
  nic1 = nic1
  nic2 = nic2
  site = site
  flow1 = flow1
  flow2 = flow2
  Adapters = {nic1, nic2}
  Weights = {1}
  EvidenceTTL = 1
  QuarantineTTL = 2
  Domains = {site}
  Literals = {"ipv4"}
  Targets = {"ipv4"}
  Supports <- SingleStack
  Backoff <- OneBackoff
  TimeoutFailures = 2
  TimeoutTargets = 1
  Flows = {flow1, flow2}
SPECIFICATION Spec
CONSTRAINT OneKind
SYMMETRY Symmetry
INVARIANTS
  TableIsSound
  
  DeadDestinationsBlameNobody
PROPERTY ConfirmedOutlivesTraffic
