------------------------------- MODULE CoreHost -------------------------------
(***************************************************************************)
(* How the desktop gets an elevated Core: from the Windows service         *)
(* (engine/cmd/hypomux-engine service_*.go), or, when there is none, from a *)
(* Core it elevates itself (desktop engineclient launcher.go,              *)
(* privileged_windows.go, service_windows.go; engine pipe_*.go).           *)
(*                                                                         *)
(* The service has one pipe instance: it loads its policy, waits for a     *)
(* client, checks it and serves it, one after the other, until it is told  *)
(* to stop. Another program may occupy the pipe, the policy may be changed *)
(* or half written, a session may never return from its cleanup, and the   *)
(* process may be killed. The desktop launches a Core again and again;     *)
(* every call it makes may fail.                                           *)
(***************************************************************************)
EXTENDS Naturals

CONSTANTS
  MaxStarts,   \* bound: how often the service is started
  MaxLaunches  \* bound: how often the desktop launches a Core

VARIABLES
  scm,       \* the service as the service manager shows it
  host,      \* serveCoreServicePipe, and the policy it loaded
  client,    \* who is at the other end of the service pipe
  policy,    \* the policy in the registry
  desktop,   \* the launch of the desktop
  core,      \* the Core the desktop elevated
  launches   \* how many launches there were

vars == <<scm, host, client, policy, desktop, core, launches>>
serviceVars == <<scm, host, client, policy>>

NoPid  == 0
Nobody == "nobody"
Policies == {"trusts", "rejects", "invalid"}  \* what it says of this desktop
Launching == {"query", "dial", "hello", "failed", "trust", "elevate", "accept", "answer", "greet"}

TypeOK ==
  /\ scm \in [state : {"stopped", "running", "stopping"}, pid : NoPid..MaxStarts]
  /\ host \in [at : {"ended", "load", "listen", "check", "serve", "hung"}, policy : Policies]
  /\ client \in {Nobody, "desktop", "other", "gone"}
  /\ policy \in Policies
  /\ desktop \in [at : Launching \cup {"idle", "service", "runas"},
                  pid : NoPid..MaxStarts, refused : NoPid..MaxStarts, compatible : BOOLEAN]
  /\ core \in {"none", "dial", "auth", "serve"}
  /\ launches \in 0..MaxLaunches

Init ==
  /\ scm = [state |-> "stopped", pid |-> NoPid]
  /\ host = [at |-> "ended", policy |-> "invalid"]
  /\ client = Nobody
  /\ policy \in Policies
  /\ desktop = [at |-> "idle", pid |-> NoPid, refused |-> NoPid, compatible |-> TRUE]
  /\ core = "none"
  /\ launches = 0

-----------------------------------------------------------------------------
(* The service. *)

Cancelled == scm.state = "stopping"
HostAt(step) == scm.state # "stopped" /\ host.at = step
HostGoTo(step) == host' = [host EXCEPT !.at = step]
Exits == scm' = [scm EXCEPT !.state = "stopped"] /\ HostGoTo("ended") /\ client' = Nobody

Starts ==
  /\ scm.state = "stopped" /\ scm.pid < MaxStarts
  /\ scm' = [state |-> "running", pid |-> scm.pid + 1]
  /\ HostGoTo("load")
  /\ UNCHANGED <<client, policy, desktop, core, launches>>

\* The policy is loaded for every client. A partial one ends the service; a
\* stop is seen before the pipe waits.
LoadsPolicy ==
  /\ HostAt("load")
  /\ IF policy = "invalid" \/ Cancelled
     THEN Exits
     ELSE /\ host' = [at |-> "listen", policy |-> policy]
          /\ client' = Nobody
          /\ UNCHANGED scm
  /\ UNCHANGED <<policy, desktop, core, launches>>

Connected ==
  /\ HostAt("listen") /\ client # Nobody
  /\ HostGoTo("check")
  /\ UNCHANGED <<scm, client, policy, desktop, core, launches>>

StopsListening ==
  /\ HostAt("listen") /\ Cancelled
  /\ Exits
  /\ UNCHANGED <<policy, desktop, core, launches>>

\* The client is the pinned desktop in an active session, or is disconnected.
Pinned == client = "desktop" /\ host.policy = "trusts"
Accepts ==
  /\ HostAt("check") /\ Pinned
  /\ HostGoTo("serve")
  /\ UNCHANGED <<scm, client, policy, desktop, core, launches>>

Rejects ==
  /\ HostAt("check")
  /\ HostGoTo("load")
  /\ client' = Nobody
  /\ desktop' = IF client = "desktop" THEN [desktop EXCEPT !.refused = scm.pid] ELSE desktop
  /\ UNCHANGED <<scm, policy, core, launches>>

\* A session ends with its client, or is interrupted by a stop.
SessionEnds ==
  /\ HostAt("serve")
  /\ client = "gone" \/ Cancelled
  /\ IF Cancelled THEN Exits ELSE HostGoTo("load") /\ client' = Nobody /\ UNCHANGED scm
  /\ UNCHANGED <<policy, desktop, core, launches>>

SessionHangs ==
  /\ HostAt("serve")
  /\ client = "gone" \/ Cancelled
  /\ HostGoTo("hung")
  /\ client' = "gone"
  /\ UNCHANGED <<scm, policy, desktop, core, launches>>

\* Stop or Shutdown: the state is reported first.
StopRequested ==
  /\ scm.state = "running"
  /\ scm' = [scm EXCEPT !.state = "stopping"]
  /\ UNCHANGED <<host, client, policy, desktop, core, launches>>

\* After fifteen seconds the process exits whatever the pipe does.
StopTimesOut ==
  /\ Cancelled
  /\ Exits
  /\ UNCHANGED <<policy, desktop, core, launches>>

Killed ==
  /\ scm.state # "stopped"
  /\ Exits
  /\ UNCHANGED <<policy, desktop, core, launches>>

PolicyChanges ==
  /\ policy' \in Policies \ {policy}
  /\ UNCHANGED <<scm, host, client, desktop, core, launches>>

OtherConnects ==
  /\ HostAt("listen") /\ client = Nobody
  /\ client' = "other"
  /\ UNCHANGED <<scm, host, policy, desktop, core, launches>>

-----------------------------------------------------------------------------
(* The desktop: the service first. *)

Desktop(step) == desktop.at = step
GoTo(step) == desktop' = [desktop EXCEPT !.at = step]

\* Its end of the service pipe is closed.
HangsUp == client' = IF client = "desktop" THEN "gone" ELSE client

BeginsLaunch ==
  /\ Desktop("idle") /\ launches < MaxLaunches
  /\ desktop' = [at |-> "query", pid |-> NoPid, refused |-> NoPid, compatible |-> TRUE]
  /\ launches' = launches + 1
  /\ UNCHANGED <<serviceVars, core>>

Running == scm.state = "running"

\* No service, or one that does not run: the automatic fallback.
Queries ==
  /\ Desktop("query")
  /\ desktop' = [desktop EXCEPT !.at = IF Running THEN "dial" ELSE "trust",
                                !.pid = IF Running THEN scm.pid ELSE NoPid]
  /\ UNCHANGED <<serviceVars, core, launches>>

\* The pipe must belong to the process that was found.
Dials ==
  /\ Desktop("dial")
  /\ HostAt("listen") /\ client = Nobody
  /\ IF scm.pid = desktop.pid THEN client' = "desktop" /\ GoTo("hello")
     ELSE client' = "gone" /\ GoTo("idle")
  /\ UNCHANGED <<scm, host, policy, core, launches>>

\* Any step before a Core is elevated may fail: the pipe is busy for too long,
\* the service manager does not answer, the path is not trusted, the user says no.
LaunchFails ==
  /\ desktop.at \in {"query", "dial", "trust", "elevate"}
  /\ GoTo("idle")
  /\ UNCHANGED <<serviceVars, core, launches>>

\* engine.hello over the service pipe.
Greets ==
  /\ Desktop("hello")
  /\ HostAt("serve") /\ client = "desktop"
  /\ \/ GoTo("service") /\ UNCHANGED client
     \/ desktop' = [desktop EXCEPT !.at = "failed", !.compatible = FALSE] /\ HangsUp
  /\ UNCHANGED <<scm, host, policy, core, launches>>

\* The pipe was closed, or five seconds passed.
GreetingFails ==
  /\ Desktop("hello")
  /\ GoTo("failed")
  /\ HangsUp
  /\ UNCHANGED <<scm, host, policy, core, launches>>

\* Defect: any failed handshake falls back.
MayAlwaysFallBack == TRUE

\* allowServicePostHandshakeFallback: a refusal of the same live service stands.
MayFallBack == ~desktop.compatible \/ ~Running \/ scm.pid # desktop.pid
FallsBack ==
  /\ Desktop("failed")
  /\ MayFallBack
  /\ GoTo("trust")
  /\ UNCHANGED <<serviceVars, core, launches>>

StaysDown ==
  /\ Desktop("failed")
  /\ GoTo("idle")
  /\ UNCHANGED <<serviceVars, core, launches>>

-----------------------------------------------------------------------------
(* The fallback: a Core elevated by the desktop, over a pipe of its own. *)

TrustsPath ==
  /\ Desktop("trust")
  /\ GoTo("elevate")
  /\ UNCHANGED <<serviceVars, core, launches>>

\* A Core a launch gave up on may still be there.
Elevates ==
  /\ Desktop("elevate") /\ core = "none"
  /\ core' = "dial"
  /\ GoTo("accept")
  /\ UNCHANGED <<serviceVars, launches>>

\* The Core connects and names its protocol; each side pins the other's image.
CoreConnects ==
  /\ Desktop("accept") /\ core = "dial"
  /\ core' = "auth"
  /\ GoTo("answer")
  /\ UNCHANGED <<serviceVars, launches>>

\* verifyDesktopHostProcess: the Core does not know the image of the desktop.
CoreRefuses ==
  /\ Desktop("accept") /\ core = "dial"
  /\ core' = "none"
  /\ UNCHANGED <<serviceVars, desktop, launches>>

\* The desktop does not know the image of the Core, or its protocol.
DesktopRefuses ==
  /\ Desktop("answer")
  /\ GoTo("idle")
  /\ UNCHANGED <<serviceVars, core, launches>>

\* The desktop answers, and its Core serves.
Answers ==
  /\ Desktop("answer") /\ core = "auth"
  /\ core' = "serve"
  /\ GoTo("greet")
  /\ UNCHANGED <<serviceVars, launches>>

CoreGreets ==
  /\ Desktop("greet") /\ core = "serve"
  /\ GoTo("runas")
  /\ UNCHANGED <<serviceVars, core, launches>>

\* The launch gives up. It closes its pipe; it cannot end an elevated process,
\* and does not wait for it.
Abandons ==
  /\ desktop.at \in {"accept", "greet"}
  /\ GoTo("idle")
  /\ UNCHANGED <<serviceVars, core, launches>>

\* Defect: the Core waits for the desktop, however long it takes.
CoreWaits ==
  /\ core = "auth" /\ Desktop("idle")
  /\ core' = "none"
  /\ UNCHANGED <<serviceVars, desktop, launches>>

\* Twenty seconds to connect and ten to be answered.
CoreTimesOut ==
  /\ core \in {"dial", "auth"}
  /\ core' = "none"
  /\ UNCHANGED <<serviceVars, desktop, launches>>

\* The Core ends when its pipe does.
CoreEnds ==
  /\ core = "serve" /\ desktop.at \notin {"greet", "runas"}
  /\ core' = "none"
  /\ UNCHANGED <<serviceVars, desktop, launches>>

CoreDies ==
  /\ core # "none"
  /\ core' = "none"
  /\ UNCHANGED <<serviceVars, desktop, launches>>

\* The desktop lets its Core go, or sees that it is gone.
Disconnects ==
  /\ desktop.at \in {"service", "runas"}
  /\ GoTo("idle")
  /\ HangsUp
  /\ UNCHANGED <<scm, host, policy, core, launches>>

-----------------------------------------------------------------------------
HostStep == LoadsPolicy \/ Connected \/ StopsListening \/ Accepts \/ Rejects \/ SessionEnds

Next ==
  \/ Starts \/ HostStep \/ SessionHangs \/ StopRequested \/ StopTimesOut \/ Killed
  \/ PolicyChanges \/ OtherConnects
  \/ BeginsLaunch \/ Queries \/ Dials \/ LaunchFails \/ Greets \/ GreetingFails
  \/ FallsBack \/ StaysDown \/ TrustsPath \/ Elevates \/ CoreConnects \/ CoreRefuses
  \/ DesktopRefuses \/ Answers \/ CoreGreets \/ Abandons \/ CoreTimesOut \/ CoreEnds \/ CoreDies \/ Disconnects

Spec == Init /\ [][Next]_vars

\* The goroutines of the service run, timers fire, and a Core sees its pipe
\* close. Nothing says that a session returns, or that the desktop answers.
ServiceStep == LoadsPolicy \/ Connected \/ StopsListening \/ Accepts

Fairness ==
  /\ WF_vars(ServiceStep)
  /\ WF_vars(StopTimesOut)
  /\ WF_vars(CoreTimesOut)
  /\ WF_vars(CoreEnds)

FairSpec == Spec /\ Fairness

-----------------------------------------------------------------------------
(* A service that refused this desktop is not got around: a Core is        *)
(* elevated in the same launch only when that service runs no more         *)
(* (engineclient service_windows.go:117-120).                              *)
RefusalStands ==
  desktop.at \in {"trust", "elevate", "accept", "answer", "greet", "runas"} /\ desktop.refused # NoPid =>
    ~(Running /\ scm.pid = desktop.refused)

(* An elevated Core is not left behind, without a desktop it serves: the   *)
(* desktop cannot end it (privileged_windows.go:113-116,                   *)
(* pipe_windows.go:103-108).                                               *)
Stranded == core # "none" /\ desktop.at \notin {"greet", "runas"}
NoneStranded == []<>~Stranded
=============================================================================
