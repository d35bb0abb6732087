\* The client: two goroutines, two Cores: one that is replaced, lost or left
\* behind, and the one that follows it.
CONSTANTS
  t1 = t1
  t2 = t2
  Threads = {t1, t2}
  Calls <- SomeCalls
  MaxCores = 2
  MaxStarts = 2
  MaxLaunches = 2
SPECIFICATION LinkSpec
INVARIANTS
  OneAnswerEach
  NoForgottenCore
  StartsDoNotCollide
  RefusalStands
PROPERTIES
  GateFreed
  DeadCoreAnswers
  ClosedLeavesNoCore
  NoneStranded
  RequestsReturn
  DeathNoticed
