--------------------------- MODULE EngineRuntime ---------------------------
(***************************************************************************)
(* The canonical engine lifecycle: engine/internal/runtime/runtime.go.     *)
(* Transition is a critical section of r.mu. A refused transition returns  *)
(* an error, which most callers in server.go discard, so Transition is     *)
(* total: a refused or repeated transition leaves the snapshot alone.      *)
(***************************************************************************)
EXTENDS Naturals

VARIABLES
  engine,   \* r.snapshot.State
  seq       \* r.snapshot.Sequence

runtimeVars == <<engine, seq>>

EngineStates ==
  {"stopped", "starting", "running", "degraded", "stopping", "failed"}

CanTransition ==
  [stopped  |-> {"starting"},
   starting |-> {"running", "stopping", "failed"},
   running  |-> {"degraded", "stopping", "failed"},
   degraded |-> {"running", "stopping", "failed"},
   stopping |-> {"stopped", "failed"},
   failed   |-> {"starting", "stopped"}]

RuntimeInit ==
  /\ engine = "stopped"
  /\ seq = 0

Transition(next) ==
  IF next # engine /\ next \in CanTransition[engine]
    THEN engine' = next /\ seq' = seq + 1
    ELSE UNCHANGED runtimeVars
=============================================================================
