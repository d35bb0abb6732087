CONSTANTS
  Adapters = {nic1}
  Domains = {site1}
  EvidenceTTL = 1
  QuarantineTTL = 2
  MaxRemovals = 0
SPECIFICATION Spec
INVARIANT AgreedPolicyApplies
