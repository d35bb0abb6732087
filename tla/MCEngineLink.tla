----------------------------- MODULE MCEngineLink -----------------------------
(***************************************************************************)
(* What has to come to an end by itself on the link between the desktop    *)
(* and its Core: the calls of the client, the service and the launches of  *)
(* the host, the requests of the Core. Each behaviour is one of the three; *)
(* the other two stay where they start.                                    *)
(***************************************************************************)
EXTENDS EngineClient, TLC

CONSTANTS
  t1, t2,
  MaxStarts, MaxLaunches  \* bounds of CoreHost

VARIABLES
  part,  \* "client", "host" or "server"
  scm, host, client, policy, desktop, core, launches,
  engine, seq, tunState, tunGen, run, gen, proc, wpc, intentional, unexpected, cleanErr,
  device, cpc, tunOp, cur, timed, ret, proxy, mode, active, exemption,
  rpc, fallback, shutdown, before, captured, handed, lastEvent, requests

\* Between them the two threads do everything the client is asked to do.
SomeCalls == t1 :> {"ensure", "kill"}
          @@ t2 :> {"elevate", "request", "shutdown", "close"}

Host   == INSTANCE CoreHost
Server == INSTANCE EngineServer WITH MaxGen <- 1, MaxRequests <- 3, op <- tunOp

hostVars   == <<scm, host, client, policy, desktop, core, launches>>
serverVars == <<engine, seq, tunState, tunGen, run, gen, proc, wpc, intentional, unexpected,
                cleanErr, device, cpc, tunOp, cur, timed, ret, proxy, mode, active, exemption,
                rpc, fallback, shutdown, before, captured, handed, lastEvent, requests>>
allVars    == <<vars, hostVars, serverVars, part>>

LinkInit ==
  /\ part \in {"client", "host", "server"}
  /\ Init /\ Host!Init /\ Server!Init
  /\ part # "host" => policy = "trusts"

\* The host may come to rest.
LinkNext ==
  /\ UNCHANGED part
  /\ \/ part = "client" /\ Next /\ UNCHANGED <<hostVars, serverVars>>
     \/ part = "host" /\ (Host!Next \/ UNCHANGED hostVars) /\ UNCHANGED <<vars, serverVars>>
     \/ part = "server" /\ Server!Next /\ UNCHANGED <<vars, hostVars>>

\* The fairness of each, in its own behaviours.
LinkFairness ==
  /\ \A t \in Threads : WF_vars(part = "client" /\ Proceed(t))
  /\ \A c \in Cores : WF_vars(part = "client" /\ Settle(c))
  /\ WF_hostVars(part = "host" /\ Host!ServiceStep)
  /\ WF_hostVars(part = "host" /\ Host!StopTimesOut)
  /\ WF_hostVars(part = "host" /\ Host!CoreTimesOut)
  /\ WF_hostVars(part = "host" /\ Host!CoreEnds)
  /\ WF_serverVars(part = "server" /\ Server!RequestStep)
  /\ WF_serverVars(part = "server" /\ Server!CallerProgress)
  /\ WF_serverVars(part = "server" /\ Server!WaiterProgress(1))

LinkSpec == LinkInit /\ [][LinkNext]_allVars /\ LinkFairness

-----------------------------------------------------------------------------
\* CoreHost: a refusal is not got around, and no elevated Core stays behind.
RefusalStands == Host!RefusalStands
NoneStranded  == Host!NoneStranded

\* EngineServer: every request returns, and a sidecar that died is noticed.
RequestsReturn == Server!RequestsReturn
DeathNoticed   == Server!DeathNoticed
=============================================================================
