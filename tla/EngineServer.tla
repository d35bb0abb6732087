---------------------------- MODULE EngineServer ----------------------------
(***************************************************************************)
(* The lifecycle half of engine/internal/server/server.go, composed with   *)
(* the sidecar supervisor it drives.                                       *)
(*                                                                         *)
(* Run serves requests one at a time. engine.start, engine.stop,           *)
(* tun.activate, tun.deactivate and the teardown at host exit hold         *)
(* lifecycleMu from beginning to end; handleTunUnexpectedExit, called by a *)
(* sidecar's waiter goroutine, takes it too. The mutex is therefore free   *)
(* exactly when rpc is in Unlocked. After a handler has released the mutex *)
(* the loop compares the runtime's sequence number with the one it read    *)
(* before the request and emits engine.state_changed; the exit handler     *)
(* emits the snapshot it took under the mutex after releasing it.          *)
(*                                                                         *)
(* Requests that only read (status, telemetry, DNS, health) take the mutex *)
(* and change nothing here, and are left out. The proxy pool is the record *)
(* of whether s.proxy is nil and whether that proxy accepts connections.   *)
(***************************************************************************)
EXTENDS TunSupervisor, EngineRuntime

CONSTANT MaxRequests   \* bound on the lifecycle requests of a host session

ASSUME MaxRequestsAssumption == MaxRequests \in Nat \ {0}

VARIABLES
  proxy,      \* s.proxy: "nil", "running", or "stopped" but still referenced
  mode,       \* s.mode
  active,     \* s.activeTunGeneration
  exemption,  \* s.dnsExemption # nil
  rpc,        \* where the request loop is
  fallback,   \* the request carries an IPv4-only configuration
  shutdown,   \* the request is host.shutdown
  before,     \* stateBefore.Sequence
  captured,   \* the sequence of the snapshot the loop is about to emit
  handed,     \* per run: the sequence of the snapshot the exit handler emits
  lastEvent,  \* the sequence carried by the last engine.state_changed
  requests    \* lifecycle requests served so far

lifeVars   == <<proxy, mode, active, exemption>>
loopVars   == <<rpc, fallback, shutdown, before, captured, requests>>
eventVars  == <<handed, lastEvent>>
vars       == <<tunVars, runtimeVars, lifeVars, loopVars, eventVars>>

Modes == {"", "proxy", "tun_tcp_pool"}

\* The points at which no request handler holds lifecycleMu.
Unlocked == {"idle", "reply", "emit", "exited"}

\* The points at which the loop waits for a call into the supervisor.
Waiting == {"act", "staleStop", "actStale", "ipv6Stop", "actIPv4", "rollback",
            "stop", "clear", "deactivate", "hostExit"}

LifeTypeOK ==
  /\ engine \in EngineStates
  /\ seq \in Nat
  /\ proxy \in {"nil", "running", "stopped"}
  /\ mode \in Modes
  /\ active \in GensOr0
  /\ exemption \in BOOLEAN

LoopTypeOK ==
  /\ rpc \in Unlocked \cup Waiting \cup {"start", "hostStop"}
  /\ fallback \in BOOLEAN
  /\ shutdown \in BOOLEAN
  /\ before \in Nat
  /\ captured \in Nat
  /\ requests \in 0 .. MaxRequests

EventTypeOK ==
  /\ handed \in [Gens -> Nat]
  /\ lastEvent \in Nat

TypeOK == TunTypeOK /\ LifeTypeOK /\ LoopTypeOK /\ EventTypeOK

Init ==
  /\ TunInit
  /\ RuntimeInit
  /\ proxy = "nil"
  /\ mode = ""
  /\ active = 0
  /\ exemption = FALSE
  /\ rpc = "idle"
  /\ fallback = FALSE
  /\ shutdown = FALSE
  /\ before = 0
  /\ captured = 0
  /\ handed = [r \in Gens |-> 0]
  /\ lastEvent = 0
  /\ requests = 0

-----------------------------------------------------------------------------
(* Building blocks.                                                        *)

\* The loop takes a request off the wire and notes the runtime's sequence.
Receive ==
  /\ rpc = "idle"
  /\ requests < MaxRequests
  /\ requests' = requests + 1
  /\ before' = seq
  /\ UNCHANGED <<captured, eventVars>>

\* The loop continues its current request at the given point.
Continue(point) ==
  /\ rpc' = point
  /\ UNCHANGED <<fallback, shutdown, before, captured, requests, eventVars>>

Invoke(point, o, t) == Continue(point) /\ Call(o, t)

\* A call into the supervisor has come back.
Returned(point) == rpc = point /\ cpc = "idle"

NoCall == UNCHANGED tunVars

Supervised == UNCHANGED <<tunState, tunGen, run, gen, proc, device, runVars>>

\* The result of the call is consumed and no other call is made.
CallOver == ret' = Ok(0) /\ UNCHANGED <<cpc, op, cur, timed>> /\ Supervised

\* closeDNSExemption: on an error the reference is kept for the next attempt.
CloseDNSExemption(ok) == exemption' = (exemption /\ ~ok)

\* Defect: the teardown clears the mode but forgets the pool itself.
ClearPoolKeepsProxy ==
  /\ mode' = ""
  /\ active' = 0
  /\ UNCHANGED proxy

\* Forget the pool and the TUN generation: s.proxy = nil, s.mode = "",
\* s.activeTunGeneration = 0.
ClearPool ==
  /\ proxy' = "nil"
  /\ mode' = ""
  /\ active' = 0

-----------------------------------------------------------------------------
(* engine.start                                                            *)

StartProxy ==
  /\ Receive
  /\ engine \in {"stopped", "failed"}
  /\ Transition("starting")
  /\ active' = 0
  /\ rpc' = "start"
  /\ UNCHANGED <<proxy, mode, exemption, fallback, shutdown>>
  /\ NoCall

StartSucceeds ==
  /\ rpc = "start"
  /\ proxy' = "running"
  /\ mode' \in {"proxy", "tun_tcp_pool"}
  /\ Transition("running")
  /\ Continue("reply")
  /\ UNCHANGED <<active, exemption>>
  /\ NoCall

\* proxy.New or Start failed: the previous s.proxy, if any, stays.
StartFails ==
  /\ rpc = "start"
  /\ Transition("failed")
  /\ Continue("reply")
  /\ UNCHANGED lifeVars
  /\ NoCall

-----------------------------------------------------------------------------
(* engine.stop and host.shutdown (which stops and then ends the loop)      *)

StopWhenStopped ==
  /\ Receive
  /\ engine = "stopped"
  /\ active' = 0
  /\ rpc' = "reply"
  /\ shutdown' \in BOOLEAN
  /\ UNCHANGED <<runtimeVars, proxy, mode, exemption, fallback>>
  /\ NoCall

StopFailed ==
  /\ Receive
  /\ engine = "failed"
  /\ rpc' = "clear"
  /\ shutdown' \in BOOLEAN
  /\ Call("stop", TRUE)
  /\ UNCHANGED <<runtimeVars, lifeVars, fallback>>
  /\ Supervised

StopRunning ==
  /\ Receive
  /\ engine \in {"running", "degraded"}
  /\ Transition("stopping")
  /\ rpc' = "stop"
  /\ shutdown' \in BOOLEAN
  /\ Call("stop", TRUE)
  /\ UNCHANGED <<lifeVars, fallback>>
  /\ Supervised

\* The failed engine is cleared and declared stopped whatever went wrong; the
\* errors only go into the response.
ClearFailed ==
  /\ Returned("clear")
  /\ \E wfpOk \in BOOLEAN : CloseDNSExemption(wfpOk)
  /\ ClearPool
  /\ Transition("stopped")
  /\ Continue("reply")
  /\ CallOver

\* proxy.Stop stops accepting at once and may then report a timeout. With any
\* error the engine becomes failed and keeps its references.
StopFinishes ==
  /\ Returned("stop")
  /\ \E wfpOk, proxyOk \in BOOLEAN :
       /\ CloseDNSExemption(wfpOk)
       /\ IF ret.ok /\ exemption' = FALSE /\ (proxyOk \/ proxy # "running")
            THEN ClearPool /\ Transition("stopped")
            ELSE /\ proxy' = IF proxy = "running" THEN "stopped" ELSE proxy
                 /\ UNCHANGED <<mode, active>>
                 /\ Transition("failed")
  /\ Continue("reply")
  /\ CallOver

-----------------------------------------------------------------------------
(* tun.activate                                                            *)

\* Defect: the runtime's state is not consulted.
TunPoolReadyAnyState == proxy # "nil" /\ mode = "tun_tcp_pool"

TunPoolReady == engine = "running" /\ proxy # "nil" /\ mode = "tun_tcp_pool"

\* Refused outright, by the state, by authorizeTunConfig, or because the WFP
\* exemption could not be opened or the previous one could not be closed.
ActivateRejected ==
  /\ Receive
  /\ rpc' = "reply"
  /\ UNCHANGED <<runtimeVars, lifeVars, fallback, shutdown>>
  /\ NoCall

ActivateTun ==
  /\ Receive
  /\ TunPoolReady
  /\ \E strict \in BOOLEAN : exemption' = (exemption \/ strict)
  /\ fallback' \in BOOLEAN
  /\ rpc' = "act"
  /\ Call("activate", FALSE)
  /\ UNCHANGED <<runtimeVars, proxy, mode, active, shutdown>>
  /\ Supervised

\* Defect: the rollback does not stop what the failed Activate left behind.
FallBackWithoutStop(kind) ==
  IF fallback /\ kind = "ipv6"
    THEN Invoke("ipv6Stop", "stop", TRUE)
    ELSE Continue("rollback") /\ UNCHANGED callVars

\* What follows an error of the given class: the IPv4-only configuration is
\* tried once if the request has one, otherwise the transaction rolls back.
FallBack(kind) ==
  IF fallback /\ kind = "ipv6"
    THEN Invoke("ipv6Stop", "stop", TRUE)
    ELSE Invoke("rollback", "stop", TRUE)

ActivateFailed ==
  /\ Returned("act") /\ ~ret.ok
  /\ IF ret.kind = "stale" THEN Invoke("staleStop", "stop", TRUE) ELSE FallBack(ret.kind)
  /\ UNCHANGED <<runtimeVars, lifeVars>>
  /\ Supervised

\* A stale adapter is removed with the failed run, then tried again once.
RetryStale ==
  /\ Returned("staleStop")
  /\ IF ret.ok THEN Invoke("actStale", "activate", FALSE) ELSE FallBack(ret.kind)
  /\ UNCHANGED <<runtimeVars, lifeVars>>
  /\ Supervised

RetryStaleFailed ==
  /\ Returned("actStale") /\ ~ret.ok
  /\ FallBack(ret.kind)
  /\ UNCHANGED <<runtimeVars, lifeVars>>
  /\ Supervised

RetryIPv4 ==
  /\ Returned("ipv6Stop")
  /\ IF ret.ok THEN Invoke("actIPv4", "activate", FALSE)
               ELSE Invoke("rollback", "stop", TRUE)
  /\ UNCHANGED <<runtimeVars, lifeVars>>
  /\ Supervised

RetryIPv4Failed ==
  /\ Returned("actIPv4") /\ ~ret.ok
  /\ Invoke("rollback", "stop", TRUE)
  /\ UNCHANGED <<runtimeVars, lifeVars>>
  /\ Supervised

ActivateSucceeds ==
  /\ \E point \in {"act", "actStale", "actIPv4"} : Returned(point)
  /\ ret.ok
  /\ active' = ret.gen
  /\ Continue("reply")
  /\ UNCHANGED <<runtimeVars, proxy, mode, exemption>>
  /\ CallOver

RollBack ==
  /\ Returned("rollback")
  /\ \E wfpOk \in BOOLEAN : CloseDNSExemption(wfpOk)
  /\ ClearPool
  /\ Transition("failed")
  /\ Continue("reply")
  /\ CallOver

-----------------------------------------------------------------------------
(* tun.deactivate: the context is the loop's own and has no deadline       *)

DeactivateTun ==
  /\ Receive
  /\ rpc' = "deactivate"
  /\ Call("stop", FALSE)
  /\ UNCHANGED <<runtimeVars, lifeVars, fallback, shutdown>>
  /\ Supervised

\* The loop's context is cancelled while tun.deactivate waits.
ContextCancelled ==
  /\ rpc = "deactivate"
  /\ cpc # "idle" /\ ~timed
  /\ timed' = TRUE
  /\ UNCHANGED <<cpc, op, cur, ret, runtimeVars, lifeVars, loopVars, eventVars>>
  /\ Supervised

DeactivateFinishes ==
  /\ Returned("deactivate")
  /\ \E wfpOk \in BOOLEAN : CloseDNSExemption(wfpOk)
  /\ active' = IF ret.ok /\ exemption' = FALSE THEN 0 ELSE active
  /\ Continue("reply")
  /\ UNCHANGED <<runtimeVars, proxy, mode>>
  /\ CallOver

-----------------------------------------------------------------------------
(* The end of a request, and the end of the loop                           *)

\* The response is written and the snapshot taken: if the sequence moved since
\* the request arrived, an engine.state_changed event is due.
Reply ==
  /\ rpc = "reply"
  /\ rpc' = IF seq # before THEN "emit" ELSE IF shutdown THEN "hostExit" ELSE "idle"
  /\ captured' = IF seq # before THEN seq ELSE 0
  /\ before' = 0
  /\ fallback' = FALSE
  /\ IF rpc' = "hostExit" THEN Call("stop", TRUE) /\ Supervised ELSE NoCall
  /\ UNCHANGED <<runtimeVars, lifeVars, shutdown, requests, eventVars>>

EmitStateChanged ==
  /\ rpc = "emit"
  /\ lastEvent' = captured
  /\ rpc' = IF shutdown THEN "hostExit" ELSE "idle"
  /\ captured' = 0
  /\ IF shutdown THEN Call("stop", TRUE) /\ Supervised ELSE NoCall
  /\ UNCHANGED <<runtimeVars, lifeVars, fallback, shutdown, before, requests, handed>>

\* The input ends, the context is cancelled, or a write fails: the deferred
\* stopProxyForHostExit runs.
HostInputEnds ==
  /\ rpc \in {"idle", "reply", "emit"}
  /\ rpc' = "hostExit"
  /\ Call("stop", TRUE)
  /\ before' = 0
  /\ captured' = 0
  /\ fallback' = FALSE
  /\ UNCHANGED <<runtimeVars, lifeVars, shutdown, requests, eventVars>>
  /\ Supervised

HostExitTearsDown ==
  /\ Returned("hostExit")
  /\ \E wfpOk \in BOOLEAN : CloseDNSExemption(wfpOk)
  /\ ClearPool
  /\ IF engine \in {"running", "degraded"}
       THEN Transition("stopping") /\ Continue("hostStop")
       ELSE UNCHANGED runtimeVars /\ Continue("exited")
  /\ CallOver

HostExitStops ==
  /\ rpc = "hostStop"
  /\ Transition("stopped")
  /\ Continue("exited")
  /\ UNCHANGED lifeVars
  /\ NoCall

-----------------------------------------------------------------------------
(* handleTunUnexpectedExit, on the goroutine of run r's waiter             *)

HandleTunUnexpectedExit(r) ==
  /\ wpc[r] = "notify"
  /\ rpc \in Unlocked
  /\ IF r # active
       THEN /\ wpc' = [wpc EXCEPT ![r] = "end"]
            /\ UNCHANGED <<runtimeVars, lifeVars, handed>>
       ELSE /\ wpc' = [wpc EXCEPT ![r] = "emit"]
            /\ active' = 0
            /\ \E wfpOk \in BOOLEAN : CloseDNSExemption(wfpOk)
            /\ IF mode = "tun_tcp_pool" /\ proxy # "nil"
                 THEN proxy' = "nil" /\ mode' = ""
                 ELSE UNCHANGED <<proxy, mode>>
            /\ IF engine \in {"running", "degraded"}
                 THEN Transition("failed") ELSE UNCHANGED runtimeVars
            /\ handed' = [handed EXCEPT ![r] = seq']
  /\ UNCHANGED <<tunState, tunGen, run, gen, proc, device, intentional,
                 unexpected, cleanErr, callVars, loopVars, lastEvent>>

\* The mutex is released before the two events are written.
EmitTunExit(r) ==
  /\ wpc[r] = "emit"
  /\ wpc' = [wpc EXCEPT ![r] = "end"]
  /\ lastEvent' = handed[r]
  /\ handed' = [handed EXCEPT ![r] = 0]
  /\ UNCHANGED <<tunState, tunGen, run, gen, proc, device, intentional,
                 unexpected, cleanErr, callVars, runtimeVars, lifeVars, loopVars>>

-----------------------------------------------------------------------------

\* A request arrives.
RequestArrives ==
  \/ StartProxy \/ StopWhenStopped \/ StopFailed \/ StopRunning
  \/ ActivateRejected \/ ActivateTun \/ DeactivateTun

\* The request in hand makes progress.
RequestStep ==
  \/ StartSucceeds \/ StartFails \/ ClearFailed \/ StopFinishes
  \/ ActivateFailed \/ RetryStale \/ RetryStaleFailed \/ RetryIPv4
  \/ RetryIPv4Failed \/ ActivateSucceeds \/ RollBack \/ DeactivateFinishes
  \/ Reply \/ EmitStateChanged \/ HostExitTearsDown \/ HostExitStops

HostEnvironment == ContextCancelled \/ HostInputEnds

HandlerStep(r) == HandleTunUnexpectedExit(r) \/ EmitTunExit(r)

SupervisorStep == TunStep /\ UNCHANGED <<runtimeVars, lifeVars, loopVars, eventVars>>

\* The host has exited and every goroutine of its sidecars has ended.
Terminated ==
  /\ rpc = "exited"
  /\ \A r \in Gens : wpc[r] \in {"none", "end"}
  /\ UNCHANGED vars

Next ==
  \/ RequestArrives
  \/ RequestStep
  \/ HostEnvironment
  \/ SupervisorStep
  \/ \E r \in Gens : HandlerStep(r)
  \/ Terminated

Spec == Init /\ [][Next]_vars

\* What Go's scheduler, the bounded contexts and the operating system provide:
\* the request loop, the supervisor's caller and every waiter goroutine keep
\* running, and a process that was killed is reaped. No request has to arrive,
\* no context has to be cancelled and no sidecar has to exit by itself. A
\* waiter does one thing at a time, so one condition covers all of its steps.
WaiterProgress(r) ==
  \/ /\ WaiterStep(r) \/ (proc[r] = "killed" /\ ProcessExit(r))
     /\ UNCHANGED <<runtimeVars, lifeVars, loopVars, eventVars>>
  \/ HandlerStep(r)

CallerProgress == CallerStep /\ UNCHANGED <<runtimeVars, lifeVars, loopVars, eventVars>>

Fairness ==
  /\ WF_vars(RequestStep)
  /\ WF_vars(CallerProgress)
  /\ \A r \in Gens : WF_vars(WaiterProgress(r))

FairSpec == Spec /\ Fairness

-----------------------------------------------------------------------------
(* Properties                                                              *)

\* At most one sing-box process is alive and not told to die. Activate checks
\* only the status, so this rests on the server stopping what a failed Activate
\* left behind before it tries again (server.go activateTun).
SingleSidecar ==
  \A r, q \in Gens : proc[r] = "alive" /\ proc[q] = "alive" => r = q

\* A live sidecar owns the default route, so the pool its traffic leaves
\* through accepts connections: "an active default route without an egress
\* pool" never exists (managed-tun-lifecycle-migration.md), whichever of
\* tun.activate, engine.stop, an exit of an earlier run and host exit overlap.
SidecarHasPool ==
  (\E r \in Gens : proc[r] = "alive") => proxy = "running"

\* Whenever lifecycleMu is free the runtime says running exactly when the pool
\* accepts connections, although server.go discards the error of most
\* transitions and stops the pool in five different places.
PoolMatchesEngine ==
  rpc \in Unlocked => (engine = "running" <=> proxy = "running")

\* Whenever lifecycleMu is free a live sidecar is the supervisor's run and the
\* generation the server watches: an orphan would keep the route and its exit
\* would be dropped by the generation test of handleTunUnexpectedExit.
NoOrphanSidecar ==
  rpc \in Unlocked =>
    \A r \in Gens : proc[r] = "alive" => run = r /\ active = r

\* Every request is answered or the host exits: tun.deactivate, which waits
\* without a deadline under the mutex the exit handler needs, included.
RequestsReturn == []<>(rpc \in {"idle", "exited"})

\* The engine does not keep running on a sidecar that died by itself: the
\* waiter's callback gets through, unless a request stops the run first.
DeathNoticed ==
  \A r \in Gens : []<>~(active = r /\ proc[r] = "dead" /\ ~intentional[r])

\* The sidecar that is alive and not told to die, or 0.
LiveSidecar ==
  IF \E r \in Gens : proc[r] = "alive"
    THEN CHOOSE r \in Gens : proc[r] = "alive"
    ELSE 0

Egress == INSTANCE EgressLifecycle
            WITH pool <- (proxy = "running"), sidecar <- LiveSidecar, last <- gen

\* The request loop, the supervisor and the exit handler together implement
\* the order of EgressLifecycle: the pool opens first and closes last, one
\* sidecar at a time, never the same generation twice. The last part needs
\* every retry of activateTun to end the previous run before it allocates.
EgressRefined == Egress!Spec

\* engine.state_changed carries sequence numbers that never go back
\* (protocol/v1/manifest.json promises lossless, ordered delivery).
StateEventsOrdered == [][lastEvent' >= lastEvent]_lastEvent
=============================================================================
