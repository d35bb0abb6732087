--------------------------- MODULE TunSupervisor ---------------------------
(***************************************************************************)
(* The managed TUN sidecar: engine/internal/tun/supervisor.go.             *)
(*                                                                         *)
(* A Supervisor starts one sing-box process at a time ("run"), watches it  *)
(* from a goroutine of its own (waitProcess), stops it on demand, and      *)
(* removes the HypoMux-Tun network device that a run leaves behind.        *)
(*                                                                         *)
(* Activate and Stop exclude each other (stopMu), so there is one caller,  *)
(* whose program counter is cpc. Every run has a waiter, whose program     *)
(* counter is wpc[r]. A step is one critical section of s.mu, or one       *)
(* blocking call, of the caller or of a waiter. A run is named by its      *)
(* generation; 0 stands for "no run" and "no generation".                  *)
(*                                                                         *)
(* The sing-box process, the operating system's device table and the text  *)
(* of their errors are external: they appear as nondeterministic choices.  *)
(***************************************************************************)
EXTENDS Naturals

CONSTANT MaxGen   \* bound on the number of generations ever allocated

ASSUME MaxGenAssumption == MaxGen \in Nat \ {0}

VARIABLES
  tunState,     \* s.status.State
  tunGen,       \* s.status.Generation
  run,          \* s.run
  gen,          \* s.nextGeneration
  proc,         \* per run: the operating-system process
  wpc,          \* per run: where waitProcess is
  intentional,  \* per run: run.intentional
  unexpected,   \* per run: the local variable of waitProcess
  cleanErr,     \* per run: run.cleanupErr # nil
  device,       \* the run that created the HypoMux-Tun device that exists, or 0
  cpc,          \* where the caller of Activate or Stop is
  op,           \* which of the two it called
  cur,          \* the run or generation the caller works on
  timed,        \* the caller's context has a deadline
  ret           \* what the last call returned: success, generation, error class

callVars == <<cpc, op, cur, timed, ret>>
runVars  == <<wpc, intentional, unexpected, cleanErr>>
tunVars  == <<tunState, tunGen, run, gen, proc, device, runVars, callVars>>

Gens == 1 .. MaxGen
GensOr0 == 0 .. MaxGen

\* Error classes that callers tell apart by the text of an error (server.go,
\* isStaleTunAdapterError and isIPv6AddressSetupError).
Kinds == {"stale", "ipv6", "other"}

Ok(g)  == [ok |-> TRUE, gen |-> g, kind |-> "none"]
Err(k) == [ok |-> FALSE, gen |-> 0, kind |-> k]

Results == [ok : BOOLEAN, gen : GensOr0, kind : Kinds \cup {"none"}]

\* close(run.exited) happens when Wait returns, close(run.done) after cleanup.
Exited(r) == wpc[r] \notin {"none", "wait"}

\* Defect: run.done is closed only after the exit handler has returned.
DoneAfterHandler(r) == wpc[r] = "end"

Done(r) == wpc[r] \in {"check", "notify", "emit", "end"}

WaiterTypeOK ==
  /\ wpc \in [Gens -> {"none", "wait", "load", "record", "cleanup", "amend",
                       "close", "check", "notify", "emit", "end"}]
  /\ intentional \in [Gens -> BOOLEAN]
  /\ unexpected \in [Gens -> BOOLEAN]
  /\ cleanErr \in [Gens -> BOOLEAN]

CallTypeOK ==
  /\ cpc \in {"idle", "begin", "check", "clean", "spawn", "ready", "grace", "drain"}
  /\ op \in {"activate", "stop"}
  /\ cur \in GensOr0
  /\ timed \in BOOLEAN
  /\ ret \in Results

TunTypeOK ==
  /\ tunState \in {"stopped", "starting", "running", "stopping", "failed"}
  /\ tunGen \in GensOr0
  /\ run \in GensOr0
  /\ gen \in GensOr0
  /\ proc \in [Gens -> {"none", "alive", "killed", "dead"}]
  /\ device \in GensOr0
  /\ WaiterTypeOK
  /\ CallTypeOK

TunInit ==
  /\ tunState = "stopped"
  /\ tunGen = 0
  /\ run = 0
  /\ gen = 0
  /\ proc = [r \in Gens |-> "none"]
  /\ wpc = [r \in Gens |-> "none"]
  /\ intentional = [r \in Gens |-> FALSE]
  /\ unexpected = [r \in Gens |-> FALSE]
  /\ cleanErr = [r \in Gens |-> FALSE]
  /\ device = 0
  /\ cpc = "idle"
  /\ op = "stop"
  /\ cur = 0
  /\ timed = FALSE
  /\ ret = Ok(0)

-----------------------------------------------------------------------------
(* The interface to the caller: begin a call, and the two ways to return.  *)

Call(o, t) ==
  /\ cpc = "idle"
  /\ cpc' = "begin"
  /\ op' = o
  /\ timed' = t
  /\ cur' = 0
  /\ ret' = Ok(0)

Return(result) ==
  /\ cpc' = "idle"
  /\ ret' = result
  /\ op' = "stop"
  /\ cur' = 0
  /\ timed' = FALSE

\* failStart, followed by the return of the error: the state becomes failed,
\* the generation of the status stays.
FailStart ==
  /\ tunState' = "failed"
  /\ \E k \in Kinds : Return(Err(k))
  /\ UNCHANGED <<tunGen, run, gen, runVars>>

-----------------------------------------------------------------------------
(* Activate.                                                               *)

\* normalizeConfig or stageConfig failed, or the state forbids a start.
ActivateRefused ==
  /\ cpc = "begin" /\ op = "activate"
  /\ Return(Err("other"))
  /\ UNCHANGED <<tunState, tunGen, run, gen, proc, device, runVars>>

ActivateAccepted ==
  /\ cpc = "begin" /\ op = "activate"
  /\ tunState \in {"stopped", "failed"}
  /\ gen < MaxGen
  /\ gen' = gen + 1
  /\ cur' = gen + 1
  /\ tunState' = "starting"
  /\ tunGen' = gen + 1
  /\ cpc' = "check"
  /\ UNCHANGED <<run, proc, device, runVars, op, timed, ret>>

\* "sing-box check" and the IPv4 address of the staged configuration.
ValidateConfig ==
  /\ cpc = "check"
  /\ \/ /\ cpc' = "clean"
        /\ UNCHANGED <<tunState, tunGen, run, gen, runVars, op, cur, timed, ret>>
     \/ FailStart
  /\ UNCHANGED <<proc, device>>

\* The platform cleanup succeeds only when no HypoMux-Tun device is left, no
\* matter which run created it.
CleanupPlatform(ok) == IF ok THEN device' = 0 ELSE device' \in {0, device}

CleanStaleState ==
  /\ cpc = "clean"
  /\ \/ /\ CleanupPlatform(TRUE)
        /\ cpc' = "spawn"
        /\ UNCHANGED <<tunState, tunGen, run, gen, runVars, op, cur, timed, ret>>
     \/ /\ CleanupPlatform(FALSE)
        /\ FailStart
  /\ UNCHANGED proc

\* command.Start fails, or the process cannot be put into its job: it is then
\* killed and reaped on the spot, and may have created its device already.
SpawnFailed ==
  /\ cpc = "spawn"
  /\ device' \in {device, cur}
  /\ FailStart
  /\ UNCHANGED proc

Spawn ==
  /\ cpc = "spawn"
  /\ proc' = [proc EXCEPT ![cur] = "alive"]
  /\ wpc' = [wpc EXCEPT ![cur] = "wait"]
  /\ run' = cur
  /\ cpc' = "ready"
  /\ UNCHANGED <<tunState, tunGen, gen, device, intentional, unexpected,
                 cleanErr, op, cur, timed, ret>>

\* The device with the expected address has been up for readyStableFor. The
\* test looks at the name and the address, not at the process that owns it.
MarkRunning ==
  /\ cpc = "ready"
  /\ device # 0
  /\ IF run = cur /\ tunState = "starting"
       THEN tunState' = "running" /\ Return(Ok(tunGen))
       ELSE UNCHANGED tunState /\ Return(Err("other"))
  /\ UNCHANGED <<tunGen, run, gen, proc, device, runVars>>

\* The run ended, cleanup included, before it became ready.
ExitedDuringStartup ==
  /\ cpc = "ready"
  /\ Done(cur)
  /\ \E k \in Kinds : Return(Err(k))
  /\ UNCHANGED <<tunState, tunGen, run, gen, proc, device, runVars>>

\* The startup timer fired or the context was cancelled: failStartedRun marks
\* the run intentional and terminates it under a deadline of its own.
StartupTimeout ==
  /\ cpc = "ready"
  /\ intentional' = [intentional EXCEPT ![cur] = TRUE]
  /\ cpc' = "grace"
  /\ timed' = TRUE
  /\ UNCHANGED <<tunState, tunGen, run, gen, proc, device, wpc, unexpected,
                 cleanErr, op, cur, ret>>

-----------------------------------------------------------------------------
(* Stop, and terminateRun, which Stop and failStartedRun share.            *)

StopNothing ==
  /\ cpc = "begin" /\ op = "stop"
  /\ run = 0
  /\ tunState' = "stopped"
  /\ tunGen' = 0
  /\ Return(Ok(0))
  /\ UNCHANGED <<run, gen, proc, device, runVars>>

StopRun ==
  /\ cpc = "begin" /\ op = "stop"
  /\ run # 0
  /\ intentional' = [intentional EXCEPT ![run] = TRUE]
  /\ tunState' = "stopping"
  /\ cur' = run
  /\ cpc' = "grace"
  /\ UNCHANGED <<tunGen, run, gen, proc, device, wpc, unexpected, cleanErr,
                 op, timed, ret>>

\* The process exited, by itself or after the interrupt, within stopGrace.
GracefulExit ==
  /\ cpc = "grace"
  /\ Exited(cur)
  /\ cpc' = "drain"
  /\ UNCHANGED <<tunState, tunGen, run, gen, proc, device, runVars, op, cur,
                 timed, ret>>

\* Defect: the grace period ends without closing the job or killing.
ForceTerminationWithoutKill ==
  /\ cpc = "grace"
  /\ cpc' = "drain"
  /\ UNCHANGED <<tunState, tunGen, run, gen, proc, device, runVars, op, cur, timed, ret>>

\* The interrupt failed or the grace period is over: close the job and Kill.
ForceTermination ==
  /\ cpc = "grace"
  /\ proc' = [proc EXCEPT ![cur] = IF @ = "alive" THEN "killed" ELSE @]
  /\ cpc' = "drain"
  /\ UNCHANGED <<tunState, tunGen, run, gen, device, runVars, op, cur, timed, ret>>

\* The end of Stop (the status is cleared whatever the outcome) and of
\* failStartedRun (which always reports the cause of the failed start).
FinishTermination(failed) ==
  /\ IF op = "stop"
       THEN /\ tunState' = "stopped"
            /\ tunGen' = 0
            /\ run' = IF run = cur THEN 0 ELSE run
            /\ IF failed THEN \E k \in Kinds : Return(Err(k)) ELSE Return(Ok(0))
       ELSE /\ tunState' = IF run = cur THEN "failed" ELSE tunState
            /\ run' = IF run = cur THEN 0 ELSE run
            /\ UNCHANGED tunGen
            /\ \E k \in Kinds : Return(Err(k))
  /\ UNCHANGED <<gen, proc, device, runVars>>

RunDrained ==
  /\ cpc = "drain"
  /\ Done(cur)
  /\ FinishTermination(cleanErr[cur])

\* ctx.Done() while waiting for run.done.
DrainDeadline ==
  /\ cpc = "drain"
  /\ timed
  /\ FinishTermination(TRUE)

-----------------------------------------------------------------------------
(* The sing-box process and the device it owns (external).                 *)

ProcessCreatesDevice(r) ==
  /\ proc[r] = "alive"
  /\ device = 0
  /\ device' = r
  /\ UNCHANGED <<tunState, tunGen, run, gen, proc, runVars, callVars>>

\* The process ends, by itself or because it was told to, and Wait returns:
\* close(run.exited). Its device goes with it or stays as a ghost.
ProcessExit(r) ==
  /\ wpc[r] = "wait"
  /\ proc' = [proc EXCEPT ![r] = "dead"]
  /\ wpc' = [wpc EXCEPT ![r] = "load"]
  /\ device' \in (IF device = r THEN {0, r} ELSE {device})
  /\ UNCHANGED <<tunState, tunGen, run, gen, intentional, unexpected, cleanErr,
                 callVars>>

-----------------------------------------------------------------------------
(* waitProcess, after Wait returned.                                       *)

WaiterLoad(r) ==
  /\ wpc[r] = "load"
  /\ unexpected' = [unexpected EXCEPT ![r] = ~intentional[r]]
  /\ wpc' = [wpc EXCEPT ![r] = "record"]
  /\ UNCHANGED <<tunState, tunGen, run, gen, proc, device, intentional,
                 cleanErr, callVars>>

\* The status is replaced only while this run is the supervisor's run.
WriteStatus(r, guard) ==
  IF guard
    THEN /\ tunState' = IF unexpected[r] THEN "failed" ELSE "stopped"
         /\ tunGen' = r
    ELSE UNCHANGED <<tunState, tunGen>>

WaiterRecord(r) ==
  /\ wpc[r] = "record"
  /\ WriteStatus(r, run = r)
  /\ wpc' = [wpc EXCEPT ![r] = "cleanup"]
  /\ UNCHANGED <<run, gen, proc, device, intentional, unexpected, cleanErr, callVars>>

\* cleanupRun: its sync.Once lets only the waiter run the body, because every
\* other caller waits for run.done first.
WaiterCleanup(r) ==
  /\ wpc[r] = "cleanup"
  /\ \E ok \in BOOLEAN :
       /\ CleanupPlatform(ok)
       /\ cleanErr' = [cleanErr EXCEPT ![r] = ~ok]
       /\ wpc' = [wpc EXCEPT ![r] = IF ok THEN "close" ELSE "amend"]
  /\ UNCHANGED <<tunState, tunGen, run, gen, proc, intentional, unexpected, callVars>>

\* The status is written again with the cleanup error.
WaiterAmend(r) ==
  /\ wpc[r] = "amend"
  /\ WriteStatus(r, run = r /\ unexpected[r])
  /\ wpc' = [wpc EXCEPT ![r] = "close"]
  /\ UNCHANGED <<run, gen, proc, device, intentional, unexpected, cleanErr, callVars>>

WaiterClose(r) ==
  /\ wpc[r] = "close"
  /\ wpc' = [wpc EXCEPT ![r] = "check"]
  /\ UNCHANGED <<tunState, tunGen, run, gen, proc, device, intentional,
                 unexpected, cleanErr, callVars>>

\* Defect: a failed cleanup suppresses the exit notification.
WaiterCheckSkipsOnError(r) ==
  /\ wpc[r] = "check"
  /\ wpc' = [wpc EXCEPT ![r] = IF unexpected[r] /\ ~intentional[r] /\ ~cleanErr[r]
                                 THEN "notify" ELSE "end"]
  /\ unexpected' = [unexpected EXCEPT ![r] = FALSE]
  /\ UNCHANGED <<tunState, tunGen, run, gen, proc, device, intentional,
                 cleanErr, callVars>>

\* The handler is called only for a run nobody stopped in the meantime. The
\* local variable is dead from here on.
WaiterCheck(r) ==
  /\ wpc[r] = "check"
  /\ wpc' = [wpc EXCEPT ![r] = IF unexpected[r] /\ ~intentional[r]
                                 THEN "notify" ELSE "end"]
  /\ unexpected' = [unexpected EXCEPT ![r] = FALSE]
  /\ UNCHANGED <<tunState, tunGen, run, gen, proc, device, intentional,
                 cleanErr, callVars>>

-----------------------------------------------------------------------------

ActivateStep ==
  \/ ActivateRefused \/ ActivateAccepted \/ ValidateConfig \/ CleanStaleState
  \/ SpawnFailed \/ Spawn \/ MarkRunning \/ ExitedDuringStartup \/ StartupTimeout

StopStep ==
  \/ StopNothing \/ StopRun \/ GracefulExit \/ ForceTermination
  \/ RunDrained \/ DrainDeadline

CallerStep == ActivateStep \/ StopStep

\* The steps of waitProcess that the scheduler must let happen.
WaiterStep(r) ==
  \/ WaiterLoad(r) \/ WaiterRecord(r) \/ WaiterCleanup(r) \/ WaiterAmend(r)
  \/ WaiterClose(r) \/ WaiterCheck(r)

SidecarStep(r) == ProcessCreatesDevice(r) \/ ProcessExit(r)

TunStep == CallerStep \/ \E r \in Gens : WaiterStep(r) \/ SidecarStep(r)
=============================================================================
