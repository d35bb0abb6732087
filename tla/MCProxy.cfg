\* Two of everything, and a limit of one flow at a time; for the scheduler three
\* links, whose counters reach beyond two rounds of the heaviest pool (2 * 9).
CONSTANTS
  Addrs = {a1, a2}
  Flows = {b1, b2}
  Ports = {c1, c2}
  Adapters = {x1, x2}
  FlowLimit = 1
  None = None
  Threshold = 2
  Batches = 2
  MaxCache = 1
  MaxFailures = 2
  MaxGen = 1
  MaxTrials = 4
  MaxGroup = 1
  MaxProbes = 1
  LinkWeights = {1, 3}
  MaxWait = 20
SPECIFICATION ProxySpec
SYMMETRY Symmetry
INVARIANTS
  FairShares
  StopReachesSessions
  ConnectionsAreAccounted
  LookupsAreSound
  TransfersAreSound
CHECK_DEADLOCK FALSE
