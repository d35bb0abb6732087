-------------------------- MODULE EgressLifecycle --------------------------
(***************************************************************************)
(* What the Core promises about the two resources it manages, without the  *)
(* requests, retries, timeouts and callbacks that move them: a pool of     *)
(* listeners that carries traffic out, and at most one sidecar that owns   *)
(* the default route. The order is the one of                              *)
(* docs/architecture/managed-tun-lifecycle-migration.md: the pool opens    *)
(* before the sidecar is launched and closes after it has been ended, and  *)
(* a sidecar that was ended never comes back.                              *)
(***************************************************************************)
EXTENDS Naturals

VARIABLES
  pool,      \* the egress pool accepts connections
  sidecar,   \* the generation of the sidecar that is alive, or 0
  last       \* the last generation that was allocated

egressVars == <<pool, sidecar, last>>

Init ==
  /\ pool = FALSE
  /\ sidecar = 0
  /\ last = 0

OpenPool ==
  /\ ~pool
  /\ pool' = TRUE
  /\ UNCHANGED <<sidecar, last>>

ClosePool ==
  /\ pool
  /\ sidecar = 0
  /\ pool' = FALSE
  /\ UNCHANGED <<sidecar, last>>

\* A generation is allocated; the launch may still fail.
Allocate ==
  /\ pool
  /\ sidecar = 0
  /\ last' = last + 1
  /\ UNCHANGED <<pool, sidecar>>

Launch ==
  /\ pool
  /\ sidecar = 0
  /\ sidecar' = last
  /\ UNCHANGED <<pool, last>>

EndSidecar ==
  /\ sidecar # 0
  /\ sidecar' = 0
  /\ UNCHANGED <<pool, last>>

Next == OpenPool \/ ClosePool \/ Allocate \/ Launch \/ EndSidecar

Spec == Init /\ [][Next]_egressVars
=============================================================================
