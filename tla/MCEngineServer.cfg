SPECIFICATION Spec
CONSTANTS
  MaxGen = 2
  MaxRequests = 4
INVARIANTS
  SingleSidecar
  SidecarHasPool
  PoolMatchesEngine
  NoOrphanSidecar
 
