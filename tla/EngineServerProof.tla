-------------------------- MODULE EngineServerProof --------------------------
(***************************************************************************)
(* Proofs about EngineServer, for every bound on generations and requests. *)
(***************************************************************************)
EXTENDS EngineServer, TLAPS

-----------------------------------------------------------------------------
(* The inductive invariant, in named parts.                                *)

ActPoints  == {"act", "actStale", "actIPv4"}
StopPoints == {"staleStop", "ipv6Stop", "rollback", "stop", "clear",
               "deactivate", "hostExit"}

NoneAlive == \A r \in Gens : proc[r] # "alive"

\* A live process is the supervisor's run, its waiter still waits for it, and
\* nothing of a generation exists before the generation is allocated.
RunInv ==
  /\ \A r \in Gens : proc[r] = "alive" => run = r
  /\ \A r \in Gens : proc[r] = "alive" => wpc[r] = "wait"
  /\ \A r \in Gens : proc[r] = "alive" => r <= gen

\* Where the caller of the supervisor is, and what it relies on there.
CallerInv ==
  /\ cpc \in {"check", "clean", "spawn"} =>
       op = "activate" /\ cur = gen /\ cur # 0 /\ NoneAlive
  /\ cpc = "ready" => op = "activate" /\ cur # 0 /\ run = cur
  /\ cpc \in {"check", "clean", "spawn", "ready"} /\ tunState = "starting" =>
       tunGen = cur
  /\ cpc \in {"grace", "drain"} => cur # 0 /\ run = cur
  /\ cpc = "drain" => NoneAlive

\* The loop calls the supervisor only where it says so, and the operation is
\* the one of that point.
CallInv ==
  /\ cpc # "idle" => rpc \in Waiting
  /\ cpc # "idle" /\ rpc \in ActPoints => op = "activate"
  /\ cpc # "idle" /\ rpc \in StopPoints => op = "stop"

\* What is known of a live sidecar at every point of the request loop.
SidecarInv ==
  /\ rpc \in Unlocked =>
       \A r \in Gens : proc[r] = "alive" => active = r /\ tunState = "running"
  /\ rpc \in {"start", "hostStop"} => NoneAlive
  /\ rpc \in StopPoints /\ cpc = "idle" => NoneAlive
  /\ rpc \in ActPoints /\ cpc = "begin" =>
       \A r \in Gens : proc[r] = "alive" => tunState = "running"
  /\ rpc \in ActPoints /\ cpc = "idle" /\ ret.ok =>
       \A r \in Gens : proc[r] = "alive" => ret.gen = r /\ tunState = "running"

\* How the runtime's state and the pool go together at every point.
PoolInv ==
  /\ NoneAlive \/ proxy = "running"
  /\ rpc \in Unlocked \cup {"deactivate", "hostExit"} =>
       (engine = "running" <=> proxy = "running")
  /\ rpc \in ActPoints \cup {"staleStop", "ipv6Stop", "rollback"} =>
       engine = "running" /\ proxy = "running"
  /\ rpc = "start" => engine = "starting" /\ proxy # "running"
  /\ rpc = "stop" => engine = "stopping"
  /\ rpc = "clear" => engine = "failed" /\ proxy # "running"
  /\ rpc = "hostStop" => engine = "stopping" /\ proxy # "running"

\* The generation that is watched belongs to a pool made for TUN.
ModeInv ==
  /\ active # 0 /\ proxy = "running" => mode = "tun_tcp_pool"
  /\ rpc \in ActPoints \cup {"staleStop", "ipv6Stop", "rollback"} =>
       mode = "tun_tcp_pool"
  /\ rpc = "start" => active = 0

IndInv ==
  /\ TypeOK
  /\ RunInv
  /\ CallerInv
  /\ CallInv
  /\ SidecarInv
  /\ PoolInv
  /\ ModeInv

-----------------------------------------------------------------------------
(* Results of supervisor calls.                                            *)

\* Ok and Err build results, and tell success from failure.
LEMMA ResultFacts ==
  /\ \A g \in GensOr0 : Ok(g) \in Results /\ Ok(g).ok /\ Ok(g).gen = g
  /\ \A k \in Kinds : Err(k) \in Results /\ ~Err(k).ok
<1>1. 0 \in GensOr0
  BY MaxGenAssumption DEF GensOr0
<1>2. ASSUME NEW g \in GensOr0
      PROVE  Ok(g) \in Results /\ Ok(g).ok /\ Ok(g).gen = g
  BY DEF Ok, Results
<1>3. ASSUME NEW k \in Kinds PROVE Err(k) \in Results /\ ~Err(k).ok
  BY <1>1 DEF Err, Results
<1> QED BY <1>2, <1>3

\* Returning a result leaves the caller's variables well typed.
LEMMA ReturnType ==
  ASSUME NEW result \in Results, Return(result)
  PROVE  CallTypeOK' /\ cpc' = "idle" /\ ret' = result
<1>1. cur' \in GensOr0
  BY MaxGenAssumption DEF Return, GensOr0
<1>2. timed' \in BOOLEAN
  BY DEF Return
<1>3. cpc' = "idle" /\ op' = "stop" /\ ret' = result
  BY DEF Return
<1>4. ret' \in Results
  BY <1>3
<1> QED BY <1>1, <1>2, <1>3, <1>4 DEF CallTypeOK

\* So does making a call.
LEMMA CallType ==
  ASSUME CallTypeOK, NEW o \in {"activate", "stop"}, NEW t \in BOOLEAN, Call(o, t)
  PROVE  CallTypeOK' /\ cpc = "idle" /\ cpc' = "begin" /\ op' = o
<1>1. cur' \in GensOr0
  BY MaxGenAssumption DEF Call, GensOr0
<1>2. ret' \in Results
  BY ResultFacts, MaxGenAssumption DEF Call, GensOr0
<1>3. timed' \in BOOLEAN
  BY DEF Call
<1> QED BY <1>1, <1>2, <1>3 DEF CallTypeOK, Call

-----------------------------------------------------------------------------
(* Type correctness.                                                       *)

\* Every step of the caller inside the supervisor keeps the types.
LEMMA CallerType ==
  ASSUME TunTypeOK, CallerStep
  PROVE  TunTypeOK'
<1> USE MaxGenAssumption DEF TunTypeOK, Gens, GensOr0, runVars
<1>1. CASE ActivateRefused
  <2>1. CallTypeOK'
    BY <1>1, ResultFacts, ReturnType DEF ActivateRefused, Kinds
  <2> QED BY <1>1, <2>1 DEF ActivateRefused, WaiterTypeOK, CallTypeOK
<1>2. CASE ActivateAccepted
  BY <1>2 DEF ActivateAccepted, callVars, CallTypeOK, WaiterTypeOK
<1>3. CASE ValidateConfig
  <2>1. CASE cpc' = "clean" /\ UNCHANGED <<tunState, tunGen, run, gen, runVars, op, cur, timed, ret>>
    BY <1>3, <2>1 DEF ValidateConfig, CallTypeOK, WaiterTypeOK
  <2>2. CASE FailStart
    <3>1. CallTypeOK'
      BY <2>2, ResultFacts, ReturnType DEF FailStart
    <3> QED BY <1>3, <2>2, <3>1 DEF ValidateConfig, FailStart, WaiterTypeOK
  <2> QED BY <1>3, <2>1, <2>2 DEF ValidateConfig
<1>4. CASE CleanStaleState
  <2>1. CASE cpc' = "spawn" /\ UNCHANGED <<tunState, tunGen, run, gen, runVars, op, cur, timed, ret>>
    BY <1>4, <2>1 DEF CleanStaleState, CleanupPlatform, FailStart, CallTypeOK,
       WaiterTypeOK
  <2>2. CASE FailStart
    <3>1. CallTypeOK'
      BY <2>2, ResultFacts, ReturnType DEF FailStart
    <3> QED BY <1>4, <2>2, <3>1
         DEF CleanStaleState, CleanupPlatform, FailStart, WaiterTypeOK
  <2> QED BY <1>4, <2>1, <2>2 DEF CleanStaleState
<1>5. CASE SpawnFailed
  <2>1. CallTypeOK'
    BY <1>5, ResultFacts, ReturnType DEF SpawnFailed, FailStart
  <2> QED BY <1>5, <2>1 DEF SpawnFailed, FailStart, WaiterTypeOK, CallTypeOK
<1>6. CASE Spawn
  BY <1>6 DEF Spawn, callVars, CallTypeOK, WaiterTypeOK
<1>7. CASE MarkRunning
  <2>1. CallTypeOK'
    BY <1>7, ResultFacts, ReturnType DEF MarkRunning, Kinds
  <2> QED BY <1>7, <2>1 DEF MarkRunning, WaiterTypeOK, CallTypeOK
<1>8. CASE ExitedDuringStartup
  <2>1. CallTypeOK'
    BY <1>8, ResultFacts, ReturnType DEF ExitedDuringStartup
  <2> QED BY <1>8, <2>1 DEF ExitedDuringStartup, WaiterTypeOK, CallTypeOK
<1>9. CASE StartupTimeout
  BY <1>9 DEF StartupTimeout, callVars, CallTypeOK, WaiterTypeOK
<1>10. CASE StopNothing
  <2>1. CallTypeOK'
    BY <1>10, ResultFacts, ReturnType DEF StopNothing, GensOr0
  <2> QED BY <1>10, <2>1 DEF StopNothing, WaiterTypeOK, CallTypeOK
<1>11. CASE StopRun
  BY <1>11 DEF StopRun, callVars, CallTypeOK, WaiterTypeOK
<1>12. CASE GracefulExit
  BY <1>12 DEF GracefulExit, callVars, CallTypeOK, WaiterTypeOK
<1>13. CASE ForceTermination
  BY <1>13 DEF ForceTermination, callVars, CallTypeOK, WaiterTypeOK
<1>14. CASE RunDrained
  <2>1. CallTypeOK'
    BY <1>14, ResultFacts, ReturnType DEF RunDrained, FinishTermination, GensOr0
  <2> QED BY <1>14, <2>1 DEF RunDrained, FinishTermination, WaiterTypeOK,
       CallTypeOK
<1>15. CASE DrainDeadline
  <2>1. CallTypeOK'
    BY <1>15, ResultFacts, ReturnType
       DEF DrainDeadline, FinishTermination, GensOr0
  <2> QED BY <1>15, <2>1 DEF DrainDeadline, FinishTermination, WaiterTypeOK,
       CallTypeOK
<1> QED BY <1>1, <1>2, <1>3, <1>4, <1>5, <1>6, <1>7, <1>8, <1>9, <1>10, <1>11,
     <1>12, <1>13, <1>14, <1>15 DEF CallerStep, ActivateStep, StopStep


\* So does every step of a waiter and of a process.
LEMMA WaiterType ==
  ASSUME TunTypeOK, NEW r \in Gens, WaiterStep(r) \/ SidecarStep(r)
  PROVE  TunTypeOK'
<1> USE MaxGenAssumption DEF TunTypeOK, Gens, GensOr0, runVars, callVars,
     CallTypeOK, WaiterTypeOK
<1>1. CASE WaiterLoad(r)
  BY <1>1 DEF WaiterLoad
<1>2. CASE WaiterRecord(r)
  BY <1>2 DEF WaiterRecord, WriteStatus
<1>3. CASE WaiterCleanup(r)
  BY <1>3 DEF WaiterCleanup, CleanupPlatform
<1>4. CASE WaiterAmend(r)
  BY <1>4 DEF WaiterAmend, WriteStatus
<1>5. CASE WaiterClose(r)
  BY <1>5 DEF WaiterClose
<1>6. CASE WaiterCheck(r)
  BY <1>6 DEF WaiterCheck
<1>7. CASE ProcessCreatesDevice(r)
  BY <1>7 DEF ProcessCreatesDevice
<1>8. CASE ProcessExit(r)
  BY <1>8 DEF ProcessExit
<1> QED BY <1>1, <1>2, <1>3, <1>4, <1>5, <1>6, <1>7, <1>8
     DEF WaiterStep, SidecarStep


\* A request leaves the supervisor alone, consumes a result, or makes a call.
LEMMA SupervisorUse ==
  ASSUME TunTypeOK,
         \/ NoCall
         \/ CallOver
         \/ Supervised /\ \E o \in {"activate", "stop"}, t \in BOOLEAN : Call(o, t)
  PROVE  TunTypeOK'
<1> USE DEF TunTypeOK, WaiterTypeOK, runVars
<1>1. CASE NoCall
  BY <1>1 DEF NoCall, tunVars, callVars, CallTypeOK
<1>2. CASE CallOver
  <2>1. CallTypeOK'
    BY <1>2, ResultFacts, MaxGenAssumption DEF CallOver, CallTypeOK, GensOr0
  <2> QED BY <1>2, <2>1 DEF CallOver, Supervised
<1>3. CASE Supervised /\ \E o \in {"activate", "stop"}, t \in BOOLEAN : Call(o, t)
  <2>1. CallTypeOK'
    BY <1>3, CallType
  <2> QED BY <1>3, <2>1 DEF Supervised
<1> QED BY <1>1, <1>2, <1>3

\* Transition keeps the runtime's types, and reaches its target from exactly
\* the states the table of canTransition allows.
LEMMA TransitionFacts ==
  ASSUME engine \in EngineStates, seq \in Nat, NEW next \in EngineStates,
         Transition(next)
  PROVE  /\ engine' \in EngineStates /\ seq' \in Nat
         /\ engine' = next \/ engine' = engine
         /\ next = "starting" /\ engine \in {"stopped", "failed"} => engine' = next
         /\ next \in {"running", "failed"} /\ engine = "starting" => engine' = next
         /\ next = "stopping" /\ engine \in {"running", "degraded"} => engine' = next
         /\ next = "failed" /\ engine \in {"running", "degraded", "stopping"} => engine' = next
         /\ next = "stopped" /\ engine \in {"failed", "stopping"} => engine' = next
BY DEF Transition, CanTransition, EngineStates, runtimeVars


\* No generation is one of the values of a generation.
LEMMA ZeroGen == 0 \in GensOr0
BY MaxGenAssumption DEF GensOr0

\* Closing the exemption, whatever the outcome, leaves a reference or none.
LEMMA CloseFacts ==
  ASSUME exemption \in BOOLEAN, NEW ok \in BOOLEAN, CloseDNSExemption(ok)
  PROVE  exemption' \in BOOLEAN
BY Zenon DEF CloseDNSExemption

\* No request yet is within the bound.
LEMMA ZeroRequests == 0 \in 0 .. MaxRequests
BY MaxRequestsAssumption

\* Every step of the request loop keeps the types.
LEMMA LoopType ==
  ASSUME TypeOK, RequestArrives \/ RequestStep \/ HostEnvironment
  PROVE  TypeOK'
<1> USE MaxRequestsAssumption, ZeroGen DEF TypeOK
<1>1. CASE StartProxy
  <2>1. TunTypeOK'
    BY <1>1, SupervisorUse DEF StartProxy, Receive, Continue, Invoke
  <2>2. LifeTypeOK'
    BY <1>1, TransitionFacts DEF StartProxy, LifeTypeOK, EngineStates, lifeVars,
       runtimeVars, Modes
  <2>3. LoopTypeOK' /\ EventTypeOK'
    BY <1>1 DEF StartProxy, Receive, Continue, Invoke, LoopTypeOK, EventTypeOK,
       LifeTypeOK, Unlocked, Waiting, eventVars
  <2> QED BY <2>1, <2>2, <2>3
<1>2. CASE StopWhenStopped
  <2>1. TunTypeOK'
    BY <1>2, SupervisorUse DEF StopWhenStopped, Receive, Continue, Invoke
  <2>2. LifeTypeOK'
    BY <1>2, TransitionFacts DEF StopWhenStopped, LifeTypeOK, EngineStates,
       lifeVars, runtimeVars, Modes
  <2>3. LoopTypeOK' /\ EventTypeOK'
    BY <1>2 DEF StopWhenStopped, Receive, Continue, Invoke, LoopTypeOK,
       EventTypeOK, LifeTypeOK, Unlocked, Waiting, eventVars
  <2> QED BY <2>1, <2>2, <2>3
<1>3. CASE StopFailed
  <2>1. TunTypeOK'
    BY <1>3, SupervisorUse DEF StopFailed, Receive, Continue, Invoke
  <2>2. LifeTypeOK'
    BY <1>3, TransitionFacts DEF StopFailed, LifeTypeOK, EngineStates, lifeVars,
       runtimeVars, Modes
  <2>3. LoopTypeOK' /\ EventTypeOK'
    BY <1>3 DEF StopFailed, Receive, Continue, Invoke, LoopTypeOK, EventTypeOK,
       LifeTypeOK, Unlocked, Waiting, eventVars
  <2> QED BY <2>1, <2>2, <2>3
<1>4. CASE StopRunning
  <2>1. TunTypeOK'
    BY <1>4, SupervisorUse DEF StopRunning, Receive, Continue, Invoke
  <2>2. LifeTypeOK'
    BY <1>4, TransitionFacts DEF StopRunning, LifeTypeOK, EngineStates, lifeVars,
       runtimeVars, Modes
  <2>3. LoopTypeOK' /\ EventTypeOK'
    BY <1>4 DEF StopRunning, Receive, Continue, Invoke, LoopTypeOK, EventTypeOK,
       LifeTypeOK, Unlocked, Waiting, eventVars
  <2> QED BY <2>1, <2>2, <2>3
<1>5. CASE ActivateRejected
  <2>1. TunTypeOK'
    BY <1>5, SupervisorUse DEF ActivateRejected, Receive, Continue, Invoke
  <2>2. LifeTypeOK'
    BY <1>5, TransitionFacts DEF ActivateRejected, LifeTypeOK, EngineStates,
       lifeVars, runtimeVars, Modes
  <2>3. LoopTypeOK' /\ EventTypeOK'
    BY <1>5 DEF ActivateRejected, Receive, Continue, Invoke, LoopTypeOK,
       EventTypeOK, LifeTypeOK, Unlocked, Waiting, eventVars
  <2> QED BY <2>1, <2>2, <2>3
<1>6. CASE ActivateTun
  <2>1. TunTypeOK'
    BY <1>6, SupervisorUse DEF ActivateTun, Receive, Continue, Invoke
  <2>2. LifeTypeOK'
    BY <1>6, TransitionFacts DEF ActivateTun, LifeTypeOK, EngineStates, lifeVars,
       runtimeVars, Modes
  <2>3. LoopTypeOK' /\ EventTypeOK'
    BY <1>6 DEF ActivateTun, Receive, Continue, Invoke, LoopTypeOK, EventTypeOK,
       LifeTypeOK, Unlocked, Waiting, eventVars
  <2> QED BY <2>1, <2>2, <2>3
<1>7. CASE DeactivateTun
  <2>1. TunTypeOK'
    BY <1>7, SupervisorUse DEF DeactivateTun, Receive, Continue, Invoke
  <2>2. LifeTypeOK'
    BY <1>7, TransitionFacts DEF DeactivateTun, LifeTypeOK, EngineStates,
       lifeVars, runtimeVars, Modes
  <2>3. LoopTypeOK' /\ EventTypeOK'
    BY <1>7 DEF DeactivateTun, Receive, Continue, Invoke, LoopTypeOK,
       EventTypeOK, LifeTypeOK, Unlocked, Waiting, eventVars
  <2> QED BY <2>1, <2>2, <2>3
<1>8. CASE StartSucceeds
  <2>1. TunTypeOK'
    BY <1>8, SupervisorUse DEF StartSucceeds, Receive, Continue, Invoke
  <2>2. LifeTypeOK'
    BY <1>8, TransitionFacts DEF StartSucceeds, LifeTypeOK, EngineStates,
       lifeVars, runtimeVars, Modes
  <2>3. LoopTypeOK' /\ EventTypeOK'
    BY <1>8 DEF StartSucceeds, Receive, Continue, Invoke, LoopTypeOK,
       EventTypeOK, LifeTypeOK, Unlocked, Waiting, eventVars
  <2> QED BY <2>1, <2>2, <2>3
<1>9. CASE StartFails
  <2>1. TunTypeOK'
    BY <1>9, SupervisorUse DEF StartFails, Receive, Continue, Invoke
  <2>2. LifeTypeOK'
    BY <1>9, TransitionFacts DEF StartFails, LifeTypeOK, EngineStates, lifeVars,
       runtimeVars, Modes
  <2>3. LoopTypeOK' /\ EventTypeOK'
    BY <1>9 DEF StartFails, Receive, Continue, Invoke, LoopTypeOK, EventTypeOK,
       LifeTypeOK, Unlocked, Waiting, eventVars
  <2> QED BY <2>1, <2>2, <2>3
<1>10. CASE ClearFailed
  <2>1. TunTypeOK'
    BY <1>10, SupervisorUse DEF ClearFailed, Receive, Continue, Invoke
  <2>2. LifeTypeOK'
    BY <1>10, CloseFacts, TransitionFacts DEF ClearFailed, ClearPool, LifeTypeOK,
       EngineStates, lifeVars, runtimeVars, Modes
  <2>3. LoopTypeOK' /\ EventTypeOK'
    BY <1>10 DEF ClearFailed, Receive, Continue, Invoke, LoopTypeOK, EventTypeOK,
       LifeTypeOK, Unlocked, Waiting, eventVars
  <2> QED BY <2>1, <2>2, <2>3
<1>11. CASE StopFinishes
  <2>1. TunTypeOK'
    BY <1>11, SupervisorUse DEF StopFinishes, Receive, Continue, Invoke
  <2>2. LifeTypeOK'
    BY <1>11, CloseFacts, TransitionFacts DEF StopFinishes, ClearPool,
       LifeTypeOK, EngineStates, lifeVars, runtimeVars, Modes
  <2>3. LoopTypeOK' /\ EventTypeOK'
    BY <1>11 DEF StopFinishes, Receive, Continue, Invoke, LoopTypeOK,
       EventTypeOK, LifeTypeOK, Unlocked, Waiting, eventVars
  <2> QED BY <2>1, <2>2, <2>3
<1>12. CASE ActivateFailed
  <2>1. TunTypeOK'
    BY <1>12, SupervisorUse DEF ActivateFailed, Receive, Continue, Invoke,
       FallBack
  <2>2. LifeTypeOK'
    BY <1>12, TransitionFacts DEF ActivateFailed, FallBack, LifeTypeOK,
       EngineStates, lifeVars, runtimeVars, Modes
  <2>3. LoopTypeOK' /\ EventTypeOK'
    BY <1>12 DEF ActivateFailed, FallBack, Receive, Continue, Invoke, LoopTypeOK,
       EventTypeOK, LifeTypeOK, Unlocked, Waiting, eventVars
  <2> QED BY <2>1, <2>2, <2>3
<1>13. CASE RetryStale
  <2>1. TunTypeOK'
    BY <1>13, SupervisorUse DEF RetryStale, Receive, Continue, Invoke, FallBack
  <2>2. LifeTypeOK'
    BY <1>13, TransitionFacts DEF RetryStale, FallBack, LifeTypeOK, EngineStates,
       lifeVars, runtimeVars, Modes
  <2>3. LoopTypeOK' /\ EventTypeOK'
    BY <1>13 DEF RetryStale, FallBack, Receive, Continue, Invoke, LoopTypeOK,
       EventTypeOK, LifeTypeOK, Unlocked, Waiting, eventVars
  <2> QED BY <2>1, <2>2, <2>3
<1>14. CASE RetryStaleFailed
  <2>1. TunTypeOK'
    BY <1>14, SupervisorUse DEF RetryStaleFailed, Receive, Continue, Invoke,
       FallBack
  <2>2. LifeTypeOK'
    BY <1>14, TransitionFacts DEF RetryStaleFailed, FallBack, LifeTypeOK,
       EngineStates, lifeVars, runtimeVars, Modes
  <2>3. LoopTypeOK' /\ EventTypeOK'
    BY <1>14 DEF RetryStaleFailed, FallBack, Receive, Continue, Invoke,
       LoopTypeOK, EventTypeOK, LifeTypeOK, Unlocked, Waiting, eventVars
  <2> QED BY <2>1, <2>2, <2>3
<1>15. CASE RetryIPv4
  <2>1. TunTypeOK'
    BY <1>15, SupervisorUse DEF RetryIPv4, Receive, Continue, Invoke
  <2>2. LifeTypeOK'
    BY <1>15, TransitionFacts DEF RetryIPv4, LifeTypeOK, EngineStates, lifeVars,
       runtimeVars, Modes
  <2>3. LoopTypeOK' /\ EventTypeOK'
    BY <1>15 DEF RetryIPv4, Receive, Continue, Invoke, LoopTypeOK, EventTypeOK,
       LifeTypeOK, Unlocked, Waiting, eventVars
  <2> QED BY <2>1, <2>2, <2>3
<1>16. CASE RetryIPv4Failed
  <2>1. TunTypeOK'
    BY <1>16, SupervisorUse DEF RetryIPv4Failed, Receive, Continue, Invoke
  <2>2. LifeTypeOK'
    BY <1>16, TransitionFacts DEF RetryIPv4Failed, LifeTypeOK, EngineStates,
       lifeVars, runtimeVars, Modes
  <2>3. LoopTypeOK' /\ EventTypeOK'
    BY <1>16 DEF RetryIPv4Failed, Receive, Continue, Invoke, LoopTypeOK,
       EventTypeOK, LifeTypeOK, Unlocked, Waiting, eventVars
  <2> QED BY <2>1, <2>2, <2>3
<1>17. CASE ActivateSucceeds
  <2>1. TunTypeOK'
    BY <1>17, SupervisorUse DEF ActivateSucceeds, Receive, Continue, Invoke
  <2>2. LifeTypeOK'
    BY <1>17, TransitionFacts DEF ActivateSucceeds, LifeTypeOK, EngineStates,
       lifeVars, runtimeVars, Modes, TunTypeOK, CallTypeOK, Results
  <2>3. LoopTypeOK' /\ EventTypeOK'
    BY <1>17 DEF ActivateSucceeds, Receive, Continue, Invoke, LoopTypeOK,
       EventTypeOK, LifeTypeOK, Unlocked, Waiting, eventVars
  <2> QED BY <2>1, <2>2, <2>3
<1>18. CASE RollBack
  <2>1. TunTypeOK'
    BY <1>18, SupervisorUse DEF RollBack, Receive, Continue, Invoke
  <2>2. LifeTypeOK'
    BY <1>18, CloseFacts, TransitionFacts
       DEF RollBack, ClearPool, LifeTypeOK, EngineStates, lifeVars, runtimeVars,
       Modes
  <2>3. LoopTypeOK' /\ EventTypeOK'
    BY <1>18 DEF RollBack, Receive, Continue, Invoke, LoopTypeOK, EventTypeOK,
       LifeTypeOK, Unlocked, Waiting, eventVars
  <2> QED BY <2>1, <2>2, <2>3
<1>19. CASE DeactivateFinishes
  <2>1. TunTypeOK'
    BY <1>19, SupervisorUse DEF DeactivateFinishes, Receive, Continue, Invoke
  <2>2. LifeTypeOK'
    BY <1>19, CloseFacts, TransitionFacts DEF DeactivateFinishes, LifeTypeOK,
       LifeTypeOK, EngineStates, lifeVars, runtimeVars, Modes
  <2>3. LoopTypeOK' /\ EventTypeOK'
    BY <1>19 DEF DeactivateFinishes, Receive, Continue, Invoke, LoopTypeOK,
       EventTypeOK, LifeTypeOK, Unlocked, Waiting, eventVars
  <2> QED BY <2>1, <2>2, <2>3
<1>20. CASE Reply
  <2>1. TunTypeOK'
    BY <1>20, SupervisorUse DEF Reply, Receive, Continue, Invoke
  <2>2. LifeTypeOK'
    BY <1>20, TransitionFacts DEF Reply, LifeTypeOK, EngineStates, lifeVars,
       runtimeVars, Modes
  <2>3. LoopTypeOK' /\ EventTypeOK'
    BY <1>20 DEF Reply, Receive, Continue, Invoke, LoopTypeOK, EventTypeOK,
       LifeTypeOK, Unlocked, Waiting, eventVars
  <2> QED BY <2>1, <2>2, <2>3
<1>21. CASE EmitStateChanged
  <2>1. TunTypeOK'
    BY <1>21, SupervisorUse DEF EmitStateChanged, Receive, Continue, Invoke
  <2>2. LifeTypeOK'
    BY <1>21, TransitionFacts DEF EmitStateChanged, LifeTypeOK, EngineStates,
       lifeVars, runtimeVars, Modes
  <2>3. LoopTypeOK' /\ EventTypeOK'
    BY <1>21 DEF EmitStateChanged, Receive, Continue, Invoke, LoopTypeOK,
       EventTypeOK, LifeTypeOK, Unlocked, Waiting, eventVars
  <2> QED BY <2>1, <2>2, <2>3
<1>22. CASE HostExitTearsDown
  <2>1. TunTypeOK'
    BY <1>22, SupervisorUse DEF HostExitTearsDown, Receive, Continue, Invoke
  <2>2. LifeTypeOK'
    BY <1>22, CloseFacts, TransitionFacts DEF HostExitTearsDown, ClearPool,
       LifeTypeOK, EngineStates, lifeVars, runtimeVars, Modes
  <2>3. LoopTypeOK' /\ EventTypeOK'
    BY <1>22 DEF HostExitTearsDown, Receive, Continue, Invoke, LoopTypeOK,
       EventTypeOK, LifeTypeOK, Unlocked, Waiting, eventVars
  <2> QED BY <2>1, <2>2, <2>3
<1>23. CASE HostExitStops
  <2>1. TunTypeOK'
    BY <1>23, SupervisorUse DEF HostExitStops, Receive, Continue, Invoke
  <2>2. LifeTypeOK'
    BY <1>23, TransitionFacts DEF HostExitStops, LifeTypeOK, EngineStates,
       lifeVars, runtimeVars, Modes
  <2>3. LoopTypeOK' /\ EventTypeOK'
    BY <1>23 DEF HostExitStops, Receive, Continue, Invoke, LoopTypeOK,
       EventTypeOK, LifeTypeOK, Unlocked, Waiting, eventVars
  <2> QED BY <2>1, <2>2, <2>3
<1>24. CASE HostInputEnds
  <2>1. TunTypeOK'
    BY <1>24, SupervisorUse DEF HostInputEnds, Receive, Continue, Invoke
  <2>2. LifeTypeOK'
    BY <1>24, TransitionFacts DEF HostInputEnds, LifeTypeOK, EngineStates,
       lifeVars, runtimeVars, Modes
  <2>3. LoopTypeOK' /\ EventTypeOK'
    BY <1>24 DEF HostInputEnds, Receive, Continue, Invoke, LoopTypeOK,
       EventTypeOK, LifeTypeOK, Unlocked, Waiting, eventVars
  <2> QED BY <2>1, <2>2, <2>3
<1>25. CASE ContextCancelled
  BY <1>25 DEF ContextCancelled, Supervised, TunTypeOK, CallTypeOK, WaiterTypeOK,
     runVars,
     LifeTypeOK, LoopTypeOK, EventTypeOK, runtimeVars, lifeVars, loopVars, eventVars
<1> QED BY <1>1, <1>2, <1>3, <1>4, <1>5, <1>6, <1>7, <1>8, <1>9, <1>10, <1>11,
     <1>12, <1>13, <1>14, <1>15, <1>16, <1>17, <1>18, <1>19, <1>20, <1>21, <1>22,
          <1>23, <1>24, <1>25
     DEF RequestArrives, RequestStep, HostEnvironment


\* So do the two steps of the exit handler.
LEMMA HandlerType ==
  ASSUME TypeOK, NEW r \in Gens, HandlerStep(r)
  PROVE  TypeOK'
<1> USE DEF TypeOK, LoopTypeOK, loopVars, callVars
<1>1. CASE HandleTunUnexpectedExit(r)
  <2>1. TunTypeOK'
    BY <1>1 DEF HandleTunUnexpectedExit, TunTypeOK, WaiterTypeOK, CallTypeOK
  <2>2. LifeTypeOK'
    BY <1>1, TransitionFacts, CloseFacts, ZeroGen
    DEF HandleTunUnexpectedExit, LifeTypeOK, EngineStates, runtimeVars, lifeVars,
    Modes
  <2>3. EventTypeOK'
    BY <1>1, <2>2 DEF HandleTunUnexpectedExit, EventTypeOK, LifeTypeOK
  <2> QED BY <1>1, <2>1, <2>2, <2>3 DEF HandleTunUnexpectedExit
<1>2. CASE EmitTunExit(r)
  BY <1>2 DEF EmitTunExit, TunTypeOK, WaiterTypeOK, CallTypeOK, LifeTypeOK,
     EventTypeOK, runtimeVars, lifeVars
<1> QED BY <1>1, <1>2 DEF HandlerStep

\* Type correctness is inductive.
LEMMA TypePreserved == TypeOK /\ [Next]_vars => TypeOK'
<1> SUFFICES ASSUME TypeOK, [Next]_vars PROVE TypeOK'
  OBVIOUS
<1>1. CASE RequestArrives \/ RequestStep \/ HostEnvironment
  BY <1>1, LoopType
<1>2. CASE SupervisorStep
  <2>1. TunTypeOK'
    BY <1>2, CallerType, WaiterType DEF SupervisorStep, TunStep, TypeOK
  <2> QED BY <1>2, <2>1 DEF SupervisorStep, TypeOK, LifeTypeOK, LoopTypeOK,
       EventTypeOK,
          runtimeVars, lifeVars, loopVars, eventVars
<1>3. CASE \E r \in Gens : HandlerStep(r)
  BY <1>3, HandlerType
<1>4. CASE UNCHANGED vars
  BY <1>4 DEF vars, tunVars, runVars, callVars, TypeOK, TunTypeOK, WaiterTypeOK,
     CallTypeOK, LifeTypeOK, LoopTypeOK, EventTypeOK, runtimeVars, lifeVars, loopVars, eventVars
<1> QED BY <1>1, <1>2, <1>3, <1>4 DEF Next, Terminated

-----------------------------------------------------------------------------
(* The invariant is inductive, one part at a time.                         *)

\* The initial states satisfy it.
LEMMA InitInv == Init => IndInv
<1> SUFFICES ASSUME Init PROVE IndInv
  OBVIOUS
<1> USE ZeroGen DEF Init, TunInit, RuntimeInit
<1>1. TypeOK
  <2>1. CallTypeOK
    BY ResultFacts DEF CallTypeOK
  <2>2. WaiterTypeOK
    BY DEF WaiterTypeOK
  <2>3. TunTypeOK
    BY <2>1, <2>2 DEF TunTypeOK
  <2>4. LifeTypeOK
    BY DEF LifeTypeOK, EngineStates, Modes
  <2>5. requests \in 0 .. MaxRequests
    BY ZeroRequests
  <2>6. LoopTypeOK
    BY <2>5 DEF LoopTypeOK, Unlocked, Waiting
  <2>7. EventTypeOK
    BY DEF EventTypeOK
  <2> QED BY <2>3, <2>4, <2>6, <2>7 DEF TypeOK
<1>2. RunInv /\ CallerInv /\ CallInv /\ SidecarInv /\ PoolInv /\ ModeInv
  BY DEF RunInv, CallerInv, CallInv, SidecarInv, PoolInv, ModeInv, NoneAlive,
     Unlocked,
         ActPoints, StopPoints
<1> QED BY <1>1, <1>2 DEF IndInv


\* The caller inside the supervisor. The server's variables do not move, so
\* what it may disturb is the state of the runs and of the call.
LEMMA CallerPreserves ==
  ASSUME IndInv, CallerStep, TunTypeOK',
         UNCHANGED <<runtimeVars, lifeVars, loopVars, eventVars>>
  PROVE  RunInv' /\ CallerInv' /\ CallInv' /\ SidecarInv' /\ PoolInv' /\ ModeInv'
<1> USE DEF IndInv, TypeOK, TunTypeOK, WaiterTypeOK, CallTypeOK, RunInv,
     CallerInv,
            CallInv, SidecarInv, PoolInv, ModeInv, NoneAlive, Unlocked, Waiting, ActPoints,
            StopPoints, runVars, callVars, runtimeVars, lifeVars, loopVars, Gens, GensOr0
<1>1. CASE ActivateRefused
  BY <1>1, ResultFacts DEF ActivateRefused, Return, Kinds
<1>2. CASE ActivateAccepted
  BY <1>2, ResultFacts DEF ActivateAccepted, Kinds
<1>3. CASE ValidateConfig
  BY <1>3, ResultFacts DEF ValidateConfig, FailStart, Return, Kinds
<1>4. CASE CleanStaleState
  <2>1. CASE cpc' = "spawn" /\ UNCHANGED <<tunState, tunGen, run, gen, runVars, op, cur, timed, ret>>
    BY <1>4, <2>1 DEF CleanStaleState
  <2>2. CASE FailStart
    BY <1>4, <2>2, ResultFacts DEF CleanStaleState, FailStart, Return
  <2> QED BY <1>4, <2>1, <2>2 DEF CleanStaleState
<1>5. CASE SpawnFailed
  BY <1>5, ResultFacts DEF SpawnFailed, FailStart, Return, Kinds
<1>6. CASE Spawn
  BY <1>6, ResultFacts DEF Spawn, Kinds
<1>7. CASE MarkRunning
  BY <1>7, ResultFacts DEF MarkRunning, Return, Kinds
<1>8. CASE ExitedDuringStartup
  BY <1>8, ResultFacts DEF ExitedDuringStartup, Return, Done, Kinds
<1>9. CASE StartupTimeout
  BY <1>9, ResultFacts DEF StartupTimeout, Kinds
<1>10. CASE StopNothing
  BY <1>10, ResultFacts DEF StopNothing, Return, Kinds
<1>11. CASE StopRun
  BY <1>11, ResultFacts DEF StopRun, Kinds
<1>12. CASE GracefulExit
  BY <1>12, ResultFacts DEF GracefulExit, Exited, Kinds
<1>13. CASE ForceTermination
  BY <1>13, ResultFacts DEF ForceTermination, Kinds
<1>14. CASE RunDrained
  BY <1>14, ResultFacts DEF RunDrained, FinishTermination, Return, Done, Kinds
<1>15. CASE DrainDeadline
  BY <1>15, ResultFacts DEF DrainDeadline, FinishTermination, Return, Kinds
<1> QED BY <1>1, <1>2, <1>3, <1>4, <1>5, <1>6, <1>7, <1>8, <1>9, <1>10, <1>11,
     <1>12, <1>13, <1>14, <1>15
     DEF CallerStep, ActivateStep, StopStep


\* The waiters and the processes. A process only ever dies here, and a waiter
\* writes the status only of a run that is no longer alive.
LEMMA WaiterPreserves ==
  ASSUME IndInv, NEW r \in Gens, WaiterStep(r) \/ SidecarStep(r),
         UNCHANGED <<runtimeVars, lifeVars, loopVars, eventVars>>
  PROVE  RunInv' /\ CallerInv' /\ CallInv' /\ SidecarInv' /\ PoolInv' /\ ModeInv'
<1> USE DEF IndInv, TypeOK, TunTypeOK, WaiterTypeOK, CallTypeOK, RunInv,
     CallerInv,
            CallInv, SidecarInv, PoolInv, ModeInv, NoneAlive, Unlocked, Waiting, ActPoints,
            StopPoints, runVars, callVars, runtimeVars, lifeVars, loopVars, Gens, GensOr0
<1>1. CASE WaiterLoad(r)
  BY <1>1 DEF WaiterLoad
<1>2. CASE WaiterRecord(r)
  BY <1>2 DEF WaiterRecord, WriteStatus
<1>3. CASE WaiterCleanup(r)
  BY <1>3 DEF WaiterCleanup
<1>4. CASE WaiterAmend(r)
  BY <1>4 DEF WaiterAmend, WriteStatus
<1>5. CASE WaiterClose(r)
  BY <1>5 DEF WaiterClose
<1>6. CASE WaiterCheck(r)
  BY <1>6 DEF WaiterCheck
<1>7. CASE ProcessCreatesDevice(r)
  BY <1>7 DEF ProcessCreatesDevice
<1>8. CASE ProcessExit(r)
  BY <1>8 DEF ProcessExit
<1> QED BY <1>1, <1>2, <1>3, <1>4, <1>5, <1>6, <1>7, <1>8
     DEF WaiterStep, SidecarStep


\* The request loop. The processes do not move: what has to be shown is that
\* the loop reaches each of its points with what that point relies on.
LEMMA LoopPreserves ==
  ASSUME IndInv, RequestArrives \/ RequestStep \/ HostEnvironment
  PROVE  RunInv' /\ CallerInv' /\ CallInv' /\ SidecarInv' /\ PoolInv' /\ ModeInv'
<1> USE DEF IndInv, TypeOK, TunTypeOK, WaiterTypeOK, CallTypeOK, RunInv,
     CallerInv,
            CallInv, SidecarInv, PoolInv, ModeInv, NoneAlive, Unlocked, Waiting, ActPoints,
            StopPoints, runVars, callVars, runtimeVars, lifeVars, loopVars, tunVars, Gens, GensOr0,
            LifeTypeOK, LoopTypeOK, Supervised, NoCall, CallOver, Call, Receive, Continue, Invoke, Returned
<1>1. CASE StartProxy
  BY <1>1, TransitionFacts DEF StartProxy, EngineStates
<1>2. CASE StopWhenStopped
  BY <1>2 DEF StopWhenStopped
<1>3. CASE StopFailed
  BY <1>3 DEF StopFailed
<1>4. CASE StopRunning
  BY <1>4, TransitionFacts DEF StopRunning, EngineStates
<1>5. CASE ActivateRejected
  BY <1>5 DEF ActivateRejected
<1>6. CASE ActivateTun
  BY <1>6 DEF ActivateTun, TunPoolReady
<1>7. CASE DeactivateTun
  BY <1>7 DEF DeactivateTun
<1>8. CASE StartSucceeds
  BY <1>8, TransitionFacts DEF StartSucceeds, EngineStates
<1>9. CASE StartFails
  BY <1>9, TransitionFacts DEF StartFails, EngineStates
<1>10. CASE ClearFailed
  BY <1>10, TransitionFacts DEF ClearFailed, ClearPool, EngineStates
<1>11. CASE StopFinishes
  BY <1>11, TransitionFacts DEF StopFinishes, ClearPool, EngineStates
<1>12. CASE ActivateFailed
  BY <1>12 DEF ActivateFailed, FallBack
<1>13. CASE RetryStale
  BY <1>13 DEF RetryStale, FallBack
<1>14. CASE RetryStaleFailed
  BY <1>14 DEF RetryStaleFailed, FallBack
<1>15. CASE RetryIPv4
  BY <1>15 DEF RetryIPv4
<1>16. CASE RetryIPv4Failed
  BY <1>16 DEF RetryIPv4Failed
<1>17. CASE ActivateSucceeds
  BY <1>17 DEF ActivateSucceeds
<1>18. CASE RollBack
  BY <1>18, TransitionFacts DEF RollBack, ClearPool, EngineStates
<1>19. CASE DeactivateFinishes
  BY <1>19 DEF DeactivateFinishes
<1>20. CASE Reply
  BY <1>20 DEF Reply
<1>21. CASE EmitStateChanged
  BY <1>21 DEF EmitStateChanged
<1>22. CASE HostExitTearsDown
  BY <1>22, TransitionFacts DEF HostExitTearsDown, ClearPool, EngineStates
<1>23. CASE HostExitStops
  BY <1>23, TransitionFacts DEF HostExitStops, EngineStates
<1>24. CASE HostInputEnds
  BY <1>24 DEF HostInputEnds
<1>25. CASE ContextCancelled
  BY <1>25 DEF ContextCancelled
<1> QED BY <1>1, <1>2, <1>3, <1>4, <1>5, <1>6, <1>7, <1>8, <1>9, <1>10, <1>11,
     <1>12, <1>13, <1>14, <1>15, <1>16, <1>17, <1>18, <1>19, <1>20, <1>21, <1>22,
          <1>23, <1>24, <1>25
     DEF RequestArrives, RequestStep, HostEnvironment


\* What the handler does about the generation the server watches.
LEMMA HandlerEffect ==
  ASSUME NEW r \in Gens, HandleTunUnexpectedExit(r), r = active
  PROVE  /\ rpc \in Unlocked
         /\ wpc' = [wpc EXCEPT ![r] = "emit"]
         /\ IF mode = "tun_tcp_pool" /\ proxy # "nil"
              THEN proxy' = "nil" ELSE proxy' = proxy
         /\ IF engine \in {"running", "degraded"}
              THEN Transition("failed") ELSE UNCHANGED <<engine, seq>>
         /\ UNCHANGED <<tunState, tunGen, run, gen, proc, cpc, op, cur, ret, rpc>>
BY DEF HandleTunUnexpectedExit, callVars, loopVars, runtimeVars

\* The exit handler. It acts on the generation the server watches, whose
\* process is dead, so no other process is alive and the pool may go.
LEMMA HandlerPreserves ==
  ASSUME IndInv, NEW r \in Gens, HandlerStep(r)
  PROVE  RunInv' /\ CallerInv' /\ CallInv' /\ SidecarInv' /\ PoolInv' /\ ModeInv'
<1> USE DEF IndInv, TypeOK, TunTypeOK, WaiterTypeOK, CallTypeOK, RunInv,
     CallerInv,
            CallInv, SidecarInv, PoolInv, ModeInv, NoneAlive, Unlocked, Waiting, ActPoints,
            StopPoints, runVars, callVars, runtimeVars, lifeVars, loopVars, Gens, GensOr0,
            LifeTypeOK, LoopTypeOK
<1>1. CASE HandleTunUnexpectedExit(r)
  <2>1. CASE r # active
    <3>1. /\ wpc' = [wpc EXCEPT ![r] = "end"]
          /\ UNCHANGED <<tunState, tunGen, run, gen, proc, callVars, runtimeVars,
                         lifeVars, rpc>>
      BY <1>1, <2>1 DEF HandleTunUnexpectedExit
    <3> QED BY <1>1, <3>1 DEF HandleTunUnexpectedExit
  <2>2. CASE r = active
    <3>1. NoneAlive
      BY <1>1, <2>2 DEF HandleTunUnexpectedExit
    <3>2. engine' # "running" /\ proxy' # "running"
      BY <1>1, <2>2, HandlerEffect, TransitionFacts DEF EngineStates
    <3> QED BY <1>1, <2>2, <3>1, <3>2, HandlerEffect
  <2> QED BY <2>1, <2>2
<1>2. CASE EmitTunExit(r)
  BY <1>2 DEF EmitTunExit
<1> QED BY <1>1, <1>2 DEF HandlerStep

-----------------------------------------------------------------------------
(* The theorems.                                                           *)

\* The invariant holds in every reachable state of the specification.
LEMMA Invariance == Spec => []IndInv
<1>1. IndInv /\ [Next]_vars => IndInv'
  <2> SUFFICES ASSUME IndInv, [Next]_vars PROVE IndInv'
    OBVIOUS
  <2>1. TypeOK'
    BY TypePreserved DEF IndInv
  <2>2. RunInv' /\ CallerInv' /\ CallInv' /\ SidecarInv' /\ PoolInv' /\ ModeInv'
    <3>1. CASE RequestArrives \/ RequestStep \/ HostEnvironment
      BY <3>1, LoopPreserves
    <3>2. CASE SupervisorStep
      BY <3>2, <2>1, CallerPreserves, WaiterPreserves
         DEF SupervisorStep, TunStep, TypeOK
    <3>3. CASE \E r \in Gens : HandlerStep(r)
      BY <3>3, HandlerPreserves
    <3>4. CASE UNCHANGED vars
      BY <3>4 DEF vars, tunVars, runVars, callVars, runtimeVars, lifeVars,
         loopVars,
         eventVars, IndInv, RunInv, CallerInv, CallInv, SidecarInv, PoolInv, ModeInv,
         NoneAlive
    <3> QED BY <3>1, <3>2, <3>3, <3>4 DEF Next, Terminated
  <2> QED BY <2>1, <2>2 DEF IndInv
<1> QED BY InitInv, <1>1, PTL DEF Spec

\* Every variable of the server and of its supervisor keeps its type.
THEOREM TypeCorrect == Spec => []TypeOK
<1>1. IndInv => TypeOK
  BY DEF IndInv
<1> QED BY Invariance, <1>1, PTL

\* At most one sing-box process is alive and not told to die: a live process
\* is always the supervisor's current run (supervisor.go Activate, Stop).
THEOREM OneSidecar == Spec => []SingleSidecar
<1>1. IndInv => SingleSidecar
  BY DEF IndInv, RunInv, SingleSidecar
<1> QED BY Invariance, <1>1, PTL

\* A live sidecar always has an accepting pool behind it, in every order of
\* requests, retries, process exits and exit callbacks (server.go).
THEOREM RouteHasPool == Spec => []SidecarHasPool
<1>1. IndInv => SidecarHasPool
  BY DEF IndInv, PoolInv, NoneAlive, SidecarHasPool
<1> QED BY Invariance, <1>1, PTL

\* Whenever lifecycleMu is free the runtime's state tells the truth about the
\* pool (server.go, the discarded errors of Transition).
THEOREM RuntimeMatchesPool == Spec => []PoolMatchesEngine
<1>1. IndInv => PoolMatchesEngine
  BY DEF IndInv, PoolInv, PoolMatchesEngine
<1> QED BY Invariance, <1>1, PTL

\* Whenever lifecycleMu is free a live sidecar is the supervisor's run and the
\* generation whose exit the server reacts to (handleTunUnexpectedExit).
THEOREM SidecarIsWatched == Spec => []NoOrphanSidecar
<1>1. IndInv => NoOrphanSidecar
  BY DEF IndInv, RunInv, SidecarInv, NoOrphanSidecar
<1> QED BY Invariance, <1>1, PTL

-----------------------------------------------------------------------------
(* The server implements EgressLifecycle.                                  *)

\* LiveSidecar is the live run if there is one, and 0 otherwise.
LEMMA LiveFacts ==
  ASSUME IndInv
  PROVE  /\ NoneAlive => LiveSidecar = 0
         /\ \A r \in Gens : proc[r] = "alive" => LiveSidecar = r
<1>1. \A r, q \in Gens : proc[r] = "alive" /\ proc[q] = "alive" => r = q
  BY DEF IndInv, RunInv
<1> QED BY <1>1 DEF LiveSidecar, NoneAlive

\* A step that moves neither a process nor the generation counter opens the
\* pool, closes it under no sidecar, or is invisible.
LEMMA PoolStep ==
  ASSUME IndInv, IndInv', UNCHANGED <<proc, gen>>
  PROVE  [Egress!Next]_Egress!egressVars
<1>1. LiveSidecar' = LiveSidecar
  BY DEF LiveSidecar
<1>2. CASE (proxy = "running") <=> (proxy' = "running")
  BY <1>1, <1>2 DEF Egress!egressVars
<1>3. CASE proxy # "running" /\ proxy' = "running"
  BY <1>1, <1>3 DEF Egress!Next, Egress!OpenPool
<1>4. CASE proxy = "running" /\ proxy' # "running"
  <2>1. NoneAlive
    BY <1>4 DEF IndInv, PoolInv, NoneAlive
  <2> QED BY <1>1, <1>4, <2>1, LiveFacts DEF Egress!Next, Egress!ClosePool
<1> QED BY <1>2, <1>3, <1>4

\* A step that ends at most one process, and moves neither the pool nor the
\* generation counter, ends the sidecar or is invisible.
LEMMA EndStep ==
  ASSUME IndInv, IndInv', UNCHANGED <<proxy, gen>>,
         NEW r \in Gens, NEW s, s # "alive",
         proc' = [proc EXCEPT ![r] = s]
  PROVE  [Egress!Next]_Egress!egressVars
<1>0. proc \in [Gens -> {"none", "alive", "killed", "dead"}]
  BY DEF IndInv, TypeOK, TunTypeOK
<1>1. CASE proc[r] = "alive"
  <2>1. NoneAlive'
    BY <1>0, <1>1 DEF IndInv, RunInv, NoneAlive
  <2>2. LiveSidecar = r /\ LiveSidecar' = 0
    BY <1>1, <2>1, LiveFacts DEF LiveSidecar, NoneAlive
  <2>3. r # 0
    BY DEF Gens
  <2> QED BY <2>2, <2>3 DEF Egress!Next, Egress!EndSidecar
<1>2. CASE proc[r] # "alive"
  <2>1. \A q \in Gens : (proc'[q] = "alive") <=> (proc[q] = "alive")
    BY <1>0, <1>2
  <2>2. LiveSidecar' = LiveSidecar
    <3>1. CASE NoneAlive
      BY <3>1, <2>1 DEF LiveSidecar, NoneAlive
    <3>2. CASE ~NoneAlive
      <4>1. PICK q \in Gens : proc[q] = "alive"
        BY <3>2 DEF NoneAlive
      <4>2. \A p \in Gens : proc'[p] = "alive" => p = q
        BY <4>1, <2>1 DEF IndInv, RunInv
      <4>3. LiveSidecar' = q
        BY <4>1, <4>2, <2>1 DEF LiveSidecar
      <4> QED BY <4>1, <4>3, LiveFacts
    <3> QED BY <3>1, <3>2
  <2> QED BY <2>2 DEF Egress!egressVars
<1> QED BY <1>1, <1>2

\* The request loop, the supervisor and the exit handler together implement
\* the abstract order of pool and sidecar (EgressLifecycle).
THEOREM EgressImplemented == Spec => EgressRefined
<1>1. Init => Egress!Init
  BY DEF Init, TunInit, Egress!Init, LiveSidecar, Gens
<1>2. IndInv /\ IndInv' /\ [Next]_vars => [Egress!Next]_Egress!egressVars
  <2> SUFFICES ASSUME IndInv, IndInv', [Next]_vars
               PROVE  [Egress!Next]_Egress!egressVars
    OBVIOUS
  <2>1. CASE RequestArrives \/ RequestStep \/ HostEnvironment
    <3>1. UNCHANGED <<proc, gen>>
      BY <2>1 DEF RequestArrives, RequestStep, HostEnvironment, StartProxy,
         StopWhenStopped, StopFailed, StopRunning, ActivateRejected, ActivateTun,
         DeactivateTun, StartSucceeds, StartFails, ClearFailed, StopFinishes,
         ActivateFailed, RetryStale, RetryStaleFailed, RetryIPv4, RetryIPv4Failed,
         ActivateSucceeds, RollBack, DeactivateFinishes, Reply, EmitStateChanged,
         HostExitTearsDown, HostExitStops, ContextCancelled, HostInputEnds, NoCall,
         CallOver, Supervised, tunVars
    <3> QED BY <3>1, PoolStep
  <2>2. CASE SupervisorStep
    <3>1. UNCHANGED <<proxy, rpc>>
      BY <2>2 DEF SupervisorStep, lifeVars, loopVars
    <3>2. CASE ActivateAccepted
      <4>1. NoneAlive /\ UNCHANGED proc /\ gen' = gen + 1
        BY <3>2 DEF ActivateAccepted, IndInv, CallerInv, NoneAlive
      <4>2. proxy = "running"
        BY <3>2 DEF ActivateAccepted, IndInv, CallInv, PoolInv, TypeOK,
           LoopTypeOK,
           Unlocked, Waiting, ActPoints, StopPoints
      <4>3. LiveSidecar = 0 /\ LiveSidecar' = LiveSidecar
        BY <4>1, LiveFacts DEF LiveSidecar
      <4> QED BY <3>1, <4>1, <4>2, <4>3 DEF Egress!Next, Egress!Allocate
    <3>3. CASE Spawn
      <4>1. cur = gen /\ cur \in Gens /\ NoneAlive /\ gen' = gen
        BY <3>3 DEF Spawn, IndInv, CallerInv, TypeOK, TunTypeOK, CallTypeOK,
           Gens, GensOr0
      <4>2. proxy = "running"
        BY <3>3 DEF Spawn, IndInv, CallerInv, CallInv, PoolInv, TypeOK,
           LoopTypeOK,
           Unlocked, Waiting, ActPoints, StopPoints
      <4>3. proc'[cur] = "alive" /\ \A q \in Gens : proc'[q] = "alive" => q = cur
        BY <3>3, <4>1 DEF Spawn, NoneAlive, IndInv, TypeOK, TunTypeOK
      <4>4. LiveSidecar = 0 /\ LiveSidecar' = gen
        BY <4>1, <4>3, LiveFacts DEF LiveSidecar
      <4> QED BY <3>1, <4>1, <4>2, <4>4 DEF Egress!Next, Egress!Launch
    <3>4. CASE ForceTermination
      <4>1. cur \in Gens /\ gen' = gen
        BY <3>4 DEF ForceTermination, IndInv, CallerInv, TypeOK, TunTypeOK,
           CallTypeOK,
           Gens, GensOr0
      <4> DEFINE s == IF proc[cur] = "alive" THEN "killed" ELSE proc[cur]
      <4>2. proc' = [proc EXCEPT ![cur] = s] /\ s # "alive"
        BY <3>4 DEF ForceTermination
      <4> HIDE DEF s
      <4> QED BY <3>1, <4>1, <4>2, EndStep
    <3>5. ASSUME NEW r \in Gens, ProcessExit(r)
          PROVE  [Egress!Next]_Egress!egressVars
      BY <3>1, <3>5, EndStep DEF ProcessExit
    <3>6. CASE \/ ActivateRefused \/ ValidateConfig \/ CleanStaleState \/ SpawnFailed
               \/ MarkRunning \/ ExitedDuringStartup \/ StartupTimeout \/ StopNothing
               \/ StopRun \/ GracefulExit \/ RunDrained \/ DrainDeadline
      <4>1. UNCHANGED <<proc, gen>>
        BY <3>6 DEF ActivateRefused, ValidateConfig, CleanStaleState, SpawnFailed,
           MarkRunning, ExitedDuringStartup, StartupTimeout, StopNothing, StopRun,
           GracefulExit, RunDrained, DrainDeadline, FailStart, FinishTermination
      <4> QED BY <4>1, PoolStep
    <3>7. ASSUME NEW r \in Gens, WaiterStep(r) \/ ProcessCreatesDevice(r)
          PROVE  [Egress!Next]_Egress!egressVars
      <4>1. UNCHANGED <<proc, gen>>
        BY <3>7 DEF WaiterStep, WaiterLoad, WaiterRecord, WaiterCleanup,
           WaiterAmend,
           WaiterClose, WaiterCheck, ProcessCreatesDevice
      <4> QED BY <4>1, PoolStep
    <3> QED BY <2>2, <3>2, <3>3, <3>4, <3>5, <3>6, <3>7
        DEF SupervisorStep, TunStep, CallerStep, ActivateStep, StopStep,
        SidecarStep
  <2>3. CASE \E r \in Gens : HandlerStep(r)
    <3>1. UNCHANGED <<proc, gen>>
      BY <2>3 DEF HandlerStep, HandleTunUnexpectedExit, EmitTunExit
    <3> QED BY <3>1, PoolStep
  <2>4. CASE UNCHANGED vars
    BY <2>4, PoolStep DEF vars, tunVars
  <2> QED BY <2>1, <2>2, <2>3, <2>4 DEF Next, Terminated
<1> QED BY <1>1, <1>2, Invariance, PTL DEF Spec, EgressRefined, Egress!Spec
=============================================================================
