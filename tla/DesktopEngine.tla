---------------------------- MODULE DesktopEngine ----------------------------
(***************************************************************************)
(* The engine service of the desktop (desktop/internal/services: engine.go,*)
(* runtime_bindings.go, hotspot.go, SaveScheduling of scheduling.go).      *)
(*                                                                         *)
(* Every operation is a job that waits for lifecycleGate and goes through  *)
(* its steps while it holds it: the jobs of the callers (window, tray and  *)
(* assistant), the compatibility restart of the event consumer, which is a *)
(* Stop and a Start that take the gate separately, and the refresh of      *)
(* stale adapter bindings, which holds the gate over both. What is done    *)
(* without the gate interleaves with every step: cancelling the refresh or *)
(* a hotspot that starts, ending a context, the worker that shares the     *)
(* TUN as a hotspot, Snapshot, and the Core, which may die.                *)
(*                                                                         *)
(* The Core is what its client sees of it (EngineServer, EngineClient);    *)
(* the system proxy is taken over or not (SystemProxy).                    *)
(***************************************************************************)
EXTENDS Naturals, FiniteSets

CONSTANTS
  Callers,    \* goroutines that call the service
  Tasks,      \* what they ask for
  Kinds,      \* compatibility events: dns.fallback_required, a WFP failure
  MaxMoves    \* bound: calls, deaths of the Core or its sidecar, compatibility events

VARIABLES
  gate,       \* who holds lifecycleGate
  job,        \* the job of each process
  mode,       \* settings.Mode
  closing,
  closed,     \* the client has been closed by Shutdown
  core,       \* the Core, as far as its client knows it
  proxyOwned, \* the system proxy points to HypoMux
  endpoint,   \* tunAggregationEndpoint is set
  binding,    \* runtimeBindingEnabled, -Mode and -Recovery
  compat,     \* dnsFallbackApplied, wfpFallbackApplied, compatRestarting
  events,     \* compatibility events that the consumer has not seen
  hotspot,    \* the hotspot session and its worker
  registered, \* hotspotStart: whose start a stop may cancel
  moves,      \* bound: how many of those there were
  ghost       \* history, see GhostInit

control == <<gate, job>>
session == <<core, proxyOwned, endpoint>>
vars == <<gate, job, mode, closing, closed, core, proxyOwned, endpoint, binding, compat,
          events, hotspot, registered, moves, ghost>>

Consumer == "consumer"
Refresh  == "refresh"
Procs    == Callers \cup {Consumer, Refresh}
Free     == "free"
Modes    == {"proxy", "tun"}

NoJob == [task |-> "none", at |-> "idle", mode |-> "proxy", prev |-> "proxy",
          ctx |-> "live", err |-> FALSE, again |-> FALSE]
NoCore == [host |-> "none", state |-> "stopped", mode |-> "proxy", tun |-> FALSE]
NoBinding == [enabled |-> FALSE, mode |-> "none", recovery |-> "none"]
NoHotspot == [worker |-> "none", said |-> "none", shown |-> "stopped", asked |-> FALSE,
              cut |-> FALSE]

\* History. dirty: a cleanup failed, or the Core ended under a session, and no
\* Stop has succeeded since. good: the last mode that was started or chosen;
\* lost: the settings could not be written when it was to be put back.
\* quiet: a Stop returned, and nobody called Start since. overtaken: a
\* compatibility restart or a Start got past that Stop. muted: the same as
\* quiet for the hotspot. restarts: compatibility restarts since the user last
\* started or stopped.
GhostInit == [dirty |-> FALSE, good |-> mode, lost |-> FALSE, quiet |-> FALSE, overtaken |-> FALSE,
              muted |-> FALSE, restarts |-> [k \in Kinds |-> 0]]

TypeOK ==
  /\ gate \in Procs \cup {Free}
  /\ job \in [Procs -> [task : {"none", "start", "stop", "shutdown", "hotspotOn", "hotspotOff",
                                "save", "repair", "restartStop", "restartStart", "refresh"},
                        at : {"idle", "called", "queued", "scan", "hotspot", "hotspotWait",
                              "down", "settle", "quit", "prep", "connect", "launch", "egress",
                              "commit", "undo", "share", "shareWait", "act", "over"},
                        mode : Modes, prev : Modes, ctx : {"live", "cancelled", "expired"},
                        err : BOOLEAN, again : BOOLEAN]]
  /\ mode \in Modes
  /\ closing \in BOOLEAN /\ closed \in BOOLEAN /\ proxyOwned \in BOOLEAN /\ endpoint \in BOOLEAN
  /\ core \in [host : {"none", "plain", "admin"}, state : {"stopped", "running", "failed"},
               mode : Modes, tun : BOOLEAN]
  /\ binding \in [enabled : BOOLEAN, mode : Modes \cup {"none"},
                  recovery : {"none", "plain", "hotspot"}]
  /\ compat \in [applied : SUBSET Kinds, restarting : BOOLEAN]
  /\ events \subseteq Kinds
  /\ hotspot \in [worker : {"none", "starting", "on", "off", "done"},
                  said : {"none", "running", "stopped", "failed"},
                  shown : {"starting", "running", "stopping", "stopped", "failed"},
                  asked : BOOLEAN, cut : BOOLEAN]
  /\ registered \in Callers \cup {Free}

-----------------------------------------------------------------------------
(* Jobs.                                                                   *)

Holds(p, step) == gate = p /\ job[p].at = step
Live(p) == job[p].ctx = "live"
Goes(p, step) == job' = [job EXCEPT ![p].at = step]
Fails(p, step) == job' = [job EXCEPT ![p].at = step, ![p].err = TRUE]
Ended(jobs, p) == [jobs EXCEPT ![p] = IF p = Consumer THEN [NoJob EXCEPT !.at = "over"] ELSE NoJob]

\* The job of p ends, and with it its hold on the gate; the consumer's handler
\* has something left to do.
Returns(p) ==
  /\ gate' = IF gate = p THEN Free ELSE gate
  /\ job' = Ended(job, p)
  /\ registered' = IF registered = p THEN Free ELSE registered

\* cancelRuntimeBindingRefresh: a refresh under way learns of it by its context.
RefreshCancelled(jobs) ==
  IF jobs[Refresh].task = "refresh" /\ jobs[Refresh].ctx = "live"
  THEN [jobs EXCEPT ![Refresh].ctx = "cancelled"] ELSE jobs

Revoked == [binding EXCEPT !.enabled = FALSE, !.recovery = "none"]

\* cancelHotspotStart
HotspotStartCancelled(jobs) ==
  IF registered # Free /\ jobs[registered].task = "hotspotOn" /\ jobs[registered].ctx = "live"
  THEN [jobs EXCEPT ![registered].ctx = "cancelled"] ELSE jobs

Waiting == {p \in Procs : job[p].at = "queued"}

\* A caller's operation up to where it waits for the gate. Stop cancels the
\* refresh first and the start of a hotspot next (Queues).
Call(p, task, m) ==
  /\ job[p] = NoJob /\ moves < MaxMoves
  /\ task = "shutdown" => ~closing
  /\ task \notin {"start", "save"} => m = "proxy"
  /\ moves' = moves + 1
  /\ LET new == [job EXCEPT ![p] = [NoJob EXCEPT !.task = task, !.mode = m,
                     !.at = IF task \in {"start", "stop", "shutdown"} THEN "called" ELSE "queued"]] IN
     job' = CASE task \in {"start", "stop", "shutdown"} -> RefreshCancelled(new)
              [] task = "hotspotOff" -> HotspotStartCancelled(new)
              [] OTHER -> new
  /\ binding' = IF task \in {"start", "stop", "shutdown"} THEN Revoked ELSE binding
  /\ closing' = (closing \/ task = "shutdown")
  /\ registered' = IF task = "hotspotOn" THEN p ELSE registered
  /\ ghost' = [ghost EXCEPT !.quiet = @ /\ task # "start",
                            !.muted = @ /\ task # "hotspotOn"]
  /\ UNCHANGED <<gate, mode, closed, session, compat, events, hotspot>>

\* The last thing before the gate: Stop cancels a hotspot that starts; the
\* consumer's Start cancels the refresh as any Start does.
Queues(p) ==
  /\ job[p].at = "called"
  /\ LET next == [job EXCEPT ![p].at = "queued"] IN
     CASE job[p].task = "restartStart" -> job' = RefreshCancelled(next) /\ binding' = Revoked
       [] job[p].task = "start" -> job' = next /\ UNCHANGED binding
       [] OTHER -> job' = HotspotStartCancelled(next) /\ UNCHANGED binding
  /\ UNCHANGED <<gate, mode, closing, closed, session, compat, events, hotspot,
                 registered, moves, ghost>>

\* Each task's first step with the gate.
FirstStep(task) ==
  CASE task \in {"stop", "shutdown", "restartStop", "hotspotOff"} -> "hotspot"
    [] task \in {"start", "restartStart"} -> "prep"
    [] task = "hotspotOn" -> "share"
    [] task \in {"save", "repair"} -> "act"

TakeGate(p) ==
  /\ job[p].at = "queued" /\ gate = Free
  /\ gate' = p
  /\ Goes(p, FirstStep(job[p].task))
  /\ UNCHANGED <<mode, closing, closed, session, binding, compat, events, hotspot, registered,
                 moves, ghost>>

\* The deadline passes, or a hotspot's start is cancelled, before p has the
\* gate. A Stop waits for 75 seconds: longer than the holder, which it has
\* cancelled or whose 75 seconds began earlier.
GivesUp(p) ==
  /\ job[p].at = "queued"
  /\ \/ ~Live(p)
     \/ \E q \in Procs : /\ gate = q
                         /\ job[p].task \in {"stop", "shutdown", "restartStop"} => ~Live(q)
  /\ CASE job[p].task = "restartStop" ->
            /\ job' = [job EXCEPT ![p].task = "restartStart", ![p].at = "called", ![p].err = TRUE]
            /\ UNCHANGED <<gate, registered>>
       [] job[p].task = "shutdown" ->
            /\ Fails(p, "quit")
            /\ UNCHANGED <<gate, registered>>
       [] OTHER -> Returns(p)
  /\ UNCHANGED <<mode, closing, closed, session, binding, compat, events, hotspot, moves,
                 ghost>>

\* The context of a job ends while it works.
Expires(p) ==
  /\ gate = p /\ Live(p) /\ job[p].task \notin {"save", "repair"}
  /\ job' = [job EXCEPT ![p].ctx = "expired"]
  /\ UNCHANGED <<gate, mode, closing, closed, session, binding, compat, events, hotspot,
                 registered, moves, ghost>>

-----------------------------------------------------------------------------
(* stopLocked.                                                             *)

WorkerGone == hotspot.worker \in {"none", "done"}

\* requestStop: the worker's standard input is closed.
StopRequested ==
  [hotspot EXCEPT !.asked = TRUE, !.cut = TRUE,
                  !.shown = IF @ \in {"running", "starting"} THEN "stopping" ELSE @]

\* stopHotspot, before everything else; StopHotspot forgets that a refresh
\* wanted it back.
AskHotspot(p) ==
  /\ Holds(p, "hotspot")
  /\ Goes(p, "hotspotWait")
  /\ hotspot' = IF hotspot.worker = "none" THEN hotspot ELSE StopRequested
  /\ binding' = IF job[p].task = "hotspotOff" /\ binding.recovery = "hotspot"
                THEN [binding EXCEPT !.recovery = "plain"] ELSE binding
  /\ UNCHANGED <<gate, mode, closing, closed, session, compat, events, registered, moves, ghost>>

\* The worker is done, and clean or not, or the time for it is over.
HotspotStopped(p) ==
  LET clean == hotspot.worker = "none" \/ (hotspot.worker = "done" /\ hotspot.shown = "stopped")
      others == {q \in Callers \ {p} : job[q].task = "hotspotOn"} IN
  /\ Holds(p, "hotspotWait")
  /\ WorkerGone \/ ~Live(p)
  /\ IF job[p].task # "hotspotOff"
     THEN /\ job' = [job EXCEPT ![p].at = "down", ![p].err = ~clean]
          /\ UNCHANGED <<gate, registered, hotspot, ghost>>
     ELSE /\ Returns(p)
          /\ hotspot' = IF clean THEN NoHotspot ELSE hotspot
          /\ ghost' = [ghost EXCEPT !.muted = clean /\ others = {}]
  /\ UNCHANGED <<mode, closing, closed, session, binding, compat, events, moves>>

\* Ensure, tun.deactivate and engine.stop. A request may be done although its
\* answer is lost. Without a Core, Ensure launches one.
DownOk(p) ==
  /\ Holds(p, "down") /\ Live(p) /\ ~closed
  /\ Goes(p, "settle")
  /\ core' = [core EXCEPT !.state = "stopped", !.tun = FALSE,
                          !.host = IF @ = "none" THEN "plain" ELSE @]
  /\ UNCHANGED <<gate, mode, closing, closed, proxyOwned, endpoint, binding, compat, events,
                 hotspot, registered, moves, ghost>>

DownFails(p) ==
  /\ Holds(p, "down")
  /\ Fails(p, "settle")
  /\ core' \in {core, [core EXCEPT !.tun = FALSE]}
  /\ UNCHANGED <<gate, mode, closing, closed, proxyOwned, endpoint, binding, compat, events,
                 hotspot, registered, moves, ghost>>

\* Neither a compatibility restart nor a refresh is under way: the user asked.
ByUser == ~compat.restarting /\ job[Refresh].task = "none"
FlagsReset == IF ByUser THEN [compat EXCEPT !.applied = {}] ELSE compat
CountsReset(p) == IF p \in Callers THEN [k \in Kinds |-> 0] ELSE ghost.restarts

\* "An automatic restart owns a recovery intent until startup succeeds."
Forgotten == IF binding.recovery = "none" \/ ~binding.enabled THEN NoBinding ELSE binding

\* What goes on when a stop is over: a Stop returns, Shutdown closes the
\* client, the consumer starts again, a refresh goes on with its start.
AfterStop(p, err) ==
  CASE job[p].task = "stop" -> Returns(p)
    [] job[p].task = "shutdown" ->
         /\ gate' = Free
         /\ job' = [job EXCEPT ![p].at = "quit", ![p].err = err]
         /\ UNCHANGED registered
    [] job[p].task = "restartStop" ->
         /\ gate' = Free
         /\ job' = [job EXCEPT ![p] = [NoJob EXCEPT !.task = "restartStart", !.at = "called",
                                                    !.mode = "tun", !.err = err]]
         /\ UNCHANGED registered
    [] job[p].task = "refresh" ->
         IF err \/ ~Live(p) THEN Returns(p)
         ELSE /\ Goes(p, "prep")
              /\ UNCHANGED <<gate, registered>>

\* Defect: a Stop that could not give the proxy back reports success.
DownIsEnough(p, restored) == job[p].err

StopFailed(p, restored) == job[p].err \/ ~restored

\* restoreSystemProxy and the fields of the session.
SettleStop(p) == \E restored \in BOOLEAN :
  LET err == StopFailed(p, restored) IN
  /\ Holds(p, "settle")
  /\ proxyOwned' = (proxyOwned /\ ~restored)
  /\ endpoint' = FALSE
  /\ compat' = FlagsReset
  /\ AfterStop(p, err)
  /\ binding' = Forgotten
  /\ ghost' = [ghost EXCEPT
       !.dirty = err,
       !.quiet = IF p \in Callers THEN ~err /\ \A q \in Callers : job[q].task # "start" ELSE @,
       !.overtaken = IF p \in Callers THEN job[p].again \/ compat.restarting ELSE @,
       !.restarts = CountsReset(p)]
  /\ UNCHANGED <<mode, closing, closed, core, events, hotspot, moves>>

\* Shutdown: host.shutdown and Close end the Core whatever the Stop did.
Quit(p) ==
  /\ job[p].at = "quit"
  /\ closed' = TRUE
  /\ core' = NoCore
  /\ Returns(p)
  /\ ghost' = [ghost EXCEPT !.dirty = @ \/ job[p].err]
  /\ UNCHANGED <<mode, closing, proxyOwned, endpoint, binding, compat, events, hotspot, moves>>

-----------------------------------------------------------------------------
(* startLocked.                                                            *)

\* The reads and checks before anything is touched; each of them may refuse.
\* Defect: a start does not look at closing.
PrepRefusesNot(p) == FALSE

PrepRefuses(p) == ~Live(p) \/ closing

Prepare(p) ==
  /\ Holds(p, "prep") /\ ~PrepRefuses(p)
  /\ job' = [job EXCEPT ![p].at = "connect", ![p].prev = mode]
  /\ compat' = FlagsReset
  /\ ghost' = [ghost EXCEPT !.restarts = CountsReset(p)]
  /\ UNCHANGED <<gate, mode, closing, closed, session, binding, events, hotspot, registered, moves>>

\* Refused, or, when the flags have been reset, no usable adapter, an invalid
\* rule, a blocked preflight.
PrepFails(p) == \E refused \in BOOLEAN :
  /\ Holds(p, "prep")
  /\ PrepRefuses(p) => refused
  /\ Returns(p)
  /\ compat' = IF refused THEN compat ELSE FlagsReset
  /\ ghost' = IF refused THEN ghost ELSE [ghost EXCEPT !.restarts = CountsReset(p)]
  /\ UNCHANGED <<mode, closing, closed, session, binding, events, hotspot, moves>>

\* EnsureElevated ends a Core that is not elevated.
Connected(elevated) ==
  IF core.host = "admin" \/ (core.host = "plain" /\ ~elevated) THEN core
  ELSE [NoCore EXCEPT !.host = IF elevated THEN "admin" ELSE "plain"]

\* Ends a session that ran: nobody has cleaned up after it.
Killed == core.state # "stopped" /\ core'.state = "stopped"

\* Ensure or EnsureElevated, and the requested mode is saved.
Connect(p) ==
  /\ Holds(p, "connect") /\ Live(p) /\ ~closed
  /\ core' = Connected(job[p].mode = "tun")
  /\ mode' = job[p].mode
  /\ Goes(p, "launch")
  /\ ghost' = [ghost EXCEPT !.dirty = @ \/ Killed]
  /\ UNCHANGED <<gate, closing, closed, proxyOwned, endpoint, binding, compat, events, hotspot,
                 registered, moves>>

ConnectFails(p) ==
  /\ Holds(p, "connect")
  /\ Returns(p)
  /\ core' \in {core, NoCore}
  /\ job[p].mode = "proxy" /\ core.host # "none" => core' = core
  /\ ghost' = [ghost EXCEPT !.dirty = @ \/ Killed]
  /\ UNCHANGED <<mode, closing, closed, proxyOwned, endpoint, binding, compat, events, hotspot,
                 moves>>

\* Defect: the mode that did not come up stays saved.
ModeKept(p) == mode

\* The deferred restore of the mode; it re-reads everything else.
ModeRestored(p) == IF job[p].mode # job[p].prev THEN job[p].prev ELSE mode

\* engine.status, engine.stop for a failed engine, engine.start.
Launch(p) ==
  /\ Holds(p, "launch") /\ Live(p)
  /\ core.host # "none" /\ core.state # "running"
  /\ core' = [core EXCEPT !.state = "running", !.mode = job[p].mode, !.tun = FALSE]
  /\ Goes(p, "egress")
  /\ UNCHANGED <<gate, mode, closing, closed, proxyOwned, endpoint, binding, compat, events,
                 hotspot, registered, moves, ghost>>

\* The deferred restore may itself be unable to save.
LaunchFails(p) == \E saved \in BOOLEAN :
  /\ Holds(p, "launch")
  /\ Returns(p)
  /\ mode' = IF saved THEN ModeRestored(p) ELSE mode
  /\ core' = core \/ (core.state = "failed" /\ core' = [core EXCEPT !.state = "stopped"])
  /\ ghost' = [ghost EXCEPT !.dirty = @ \/ Killed, !.lost = @ \/ ~saved]
  /\ UNCHANGED <<closing, closed, proxyOwned, endpoint, binding, compat, events, hotspot, moves>>

\* The system proxy is taken over (unless the setting says not to), or the TUN
\* is activated.
Egress(p) ==
  /\ Holds(p, "egress")
  /\ Goes(p, "commit")
  /\ IF job[p].mode = "proxy"
     THEN proxyOwned' \in {proxyOwned, TRUE} /\ UNCHANGED <<core, endpoint>>
     ELSE /\ Live(p) /\ core.host = "admin" /\ core.state = "running"
          /\ core' = [core EXCEPT !.tun = TRUE]
          /\ endpoint' = TRUE
          /\ UNCHANGED proxyOwned
  /\ UNCHANGED <<gate, mode, closing, closed, binding, compat, events, hotspot, registered,
                 moves, ghost>>

EgressFails(p) ==
  /\ Holds(p, "egress")
  /\ Fails(p, "undo")
  /\ proxyOwned' \in {proxyOwned, TRUE} /\ (job[p].mode = "tun" => UNCHANGED proxyOwned)
  /\ UNCHANGED <<gate, mode, closing, closed, core, endpoint, binding, compat, events, hotspot,
                 registered, moves, ghost>>

\* Where p goes on once its start has been committed: a refresh resumes the
\* hotspot it has stopped.
AfterStart(p, jobs) ==
  IF job[p].task = "refresh" /\ Live(p) /\ job[p].again
  THEN job' = [jobs EXCEPT ![p].at = "share"] /\ UNCHANGED <<gate, registered>>
  ELSE job' = Ended(jobs, p) /\ gate' = Free /\ UNCHANGED registered

\* The bindings are remembered unless the start was cancelled meanwhile. A
\* Stop that was called already learns here that it was overtaken (history).
Commit(p) ==
  /\ Holds(p, "commit") /\ Live(p)
  /\ binding' = [enabled |-> TRUE, mode |-> job[p].mode,
                 recovery |-> IF job[p].task = "refresh" THEN "none" ELSE binding.recovery]
  /\ AfterStart(p, [q \in Procs |-> IF job[q].at = "called" THEN [job[q] EXCEPT !.again = TRUE]
                                                            ELSE job[q]])
  /\ ghost' = [ghost EXCEPT !.good = job[p].mode, !.lost = FALSE]
  /\ UNCHANGED <<mode, closing, closed, session, compat, events, hotspot, moves>>

CommitRefused(p) ==
  /\ Holds(p, "commit") /\ ~Live(p)
  /\ Fails(p, "undo")
  /\ UNCHANGED <<gate, mode, closing, closed, session, binding, compat, events, hotspot,
                 registered, moves, ghost>>

\* rollback, with a context of its own, and the deferred restore of the mode.
Undo(p) == \E down, restored, saved \in BOOLEAN :
  /\ Holds(p, "undo")
  /\ down => core.host # "none"
  /\ core' = IF down THEN [core EXCEPT !.state = "stopped", !.tun = FALSE] ELSE core
  /\ proxyOwned' = (proxyOwned /\ ~restored)
  /\ endpoint' = FALSE
  /\ mode' = IF saved THEN ModeRestored(p) ELSE mode
  /\ Returns(p)
  /\ ghost' = [ghost EXCEPT !.dirty = @ \/ (~down /\ core.host # "none") \/ ~restored,
                             !.lost = @ \/ ~saved]
  /\ UNCHANGED <<closing, closed, binding, compat, events, hotspot, moves>>

-----------------------------------------------------------------------------
(* Saving the home page, and the repair of WFP: one step under the gate.   *)

Stopped == core.host = "none" \/ core.state # "running"

\* SaveScheduling: the mode is changed only while nothing runs.
SaveMode(p) ==
  /\ Holds(p, "act") /\ job[p].task = "save"
  /\ Returns(p)
  /\ mode' \in {mode, IF Stopped THEN job[p].mode ELSE mode}
  /\ ghost' = IF mode' = mode THEN ghost ELSE [ghost EXCEPT !.good = mode', !.lost = FALSE]
  /\ UNCHANGED <<closing, closed, session, binding, compat, events, hotspot, moves>>

\* RepairWFP: with an elevated Core, which is shut down afterwards. It asks
\* whether the engine runs, but goes on when that request fails.
Repair(p) ==
  /\ Holds(p, "act") /\ job[p].task = "repair"
  /\ Returns(p)
  /\ core' \in IF closing THEN {core} ELSE {core, NoCore, Connected(TRUE)}
  /\ ghost' = [ghost EXCEPT !.dirty = @ \/ Killed]
  /\ UNCHANGED <<mode, closing, closed, proxyOwned, endpoint, binding, compat, events, hotspot,
                 moves>>

-----------------------------------------------------------------------------
(* The hotspot.                                                            *)

\* startHotspotLocked
Share(p) ==
  /\ Holds(p, "share") /\ Live(p)
  /\ ~closing /\ WorkerGone /\ endpoint /\ core.tun /\ ~closed
  /\ hotspot' = [NoHotspot EXCEPT !.worker = "starting", !.shown = "starting"]
  /\ Goes(p, "shareWait")
  /\ UNCHANGED <<gate, mode, closing, closed, session, binding, compat, events, registered,
                 moves, ghost>>

ShareFails(p) ==
  /\ Holds(p, "share")
  /\ Returns(p)
  /\ UNCHANGED <<mode, closing, closed, session, binding, compat, events, hotspot, moves, ghost>>

\* launchHotspotObserved waits: the worker runs, is done, or the time is over;
\* only a cancelled start counts as a requested stop.
Shared(p) ==
  /\ Holds(p, "shareWait")
  /\ \/ hotspot.shown = "running" /\ UNCHANGED hotspot
     \/ WorkerGone /\ UNCHANGED hotspot
     \/ job[p].ctx = "cancelled" /\ hotspot' = StopRequested
     \/ job[p].ctx = "expired" /\ hotspot' = [hotspot EXCEPT !.cut = TRUE]
  /\ Returns(p)
  /\ UNCHANGED <<mode, closing, closed, session, binding, compat, events, moves, ghost>>

\* The worker reports in order; the next report follows when one was read.
WorkerReports ==
  /\ hotspot.said = "none"
  /\ \/ /\ hotspot.worker \in {"starting", "on"} /\ ~hotspot.cut
        /\ hotspot' = [hotspot EXCEPT !.worker = "on", !.said = "running"]
     \/ /\ hotspot.worker \in {"starting", "on"}
        /\ \E report \in {"stopped", "failed"} :
             hotspot' = [hotspot EXCEPT !.worker = "off", !.said = report]
     \/ /\ hotspot.worker = "off"
        /\ hotspot' = [hotspot EXCEPT !.worker = "done",
                         !.shown = IF @ \in {"stopped", "failed"} THEN @ ELSE "failed"]
  /\ UNCHANGED <<control, mode, closing, closed, session, binding, compat, events, registered,
                 moves, ghost>>

\* Defect: a report is shown as it is.
ShownAsSaid == hotspot.said

\* "A queued worker update must not revert the UI to running after the user
\* has requested shutdown."
Shown == IF hotspot.asked /\ hotspot.said = "running" THEN "stopping" ELSE hotspot.said

ReadReport ==
  /\ hotspot.said # "none"
  /\ hotspot' = [hotspot EXCEPT !.said = "none", !.shown = Shown]
  /\ UNCHANGED <<control, mode, closing, closed, session, binding, compat, events, registered,
                 moves, ghost>>

-----------------------------------------------------------------------------
(* Stale bindings.                                                         *)

\* The monitor's tick: it does not wait for the gate, and a job that waits for
\* the gate is served first.
ScheduleRefresh ==
  /\ binding.enabled /\ ~closing
  /\ job[Refresh] = NoJob /\ gate = Free /\ Waiting = {}
  /\ gate' = Refresh
  /\ job' = [job EXCEPT ![Refresh] = [NoJob EXCEPT !.task = "refresh", !.at = "scan",
                                                   !.mode = binding.mode]]
  /\ UNCHANGED <<mode, closing, closed, session, binding, compat, events, hotspot, registered,
                 moves, ghost>>

\* Nothing changed, an adapter is missing, the scan or the status fails, or the
\* user came first.
ScanEnds ==
  /\ Holds(Refresh, "scan")
  /\ Returns(Refresh)
  /\ UNCHANGED <<mode, closing, closed, session, binding, compat, events, hotspot, moves, ghost>>

\* The bindings are stale, or a recovery is pending; a running hotspot is to
\* come back.
ScanFinds ==
  LET wanted == IF binding.recovery # "none" THEN binding.recovery
                ELSE IF hotspot.worker # "none" /\ hotspot.shown = "running" THEN "hotspot"
                ELSE "plain" IN
  /\ Holds(Refresh, "scan") /\ Live(Refresh)
  /\ binding.enabled /\ ~closing
  /\ binding.recovery = "none" => core.state = "running"
  /\ binding' = [binding EXCEPT !.recovery = wanted]
  /\ job' = [job EXCEPT ![Refresh].at = "hotspot", ![Refresh].again = (wanted = "hotspot")]
  /\ UNCHANGED <<gate, mode, closing, closed, session, compat, events, hotspot, registered,
                 moves, ghost>>

-----------------------------------------------------------------------------
(* Compatibility events.                                                   *)

\* The Core cannot resolve through DoH, or reports a TUN that failed on WFP.
CoreEvent(k) ==
  /\ core.state # "stopped" /\ core.mode = "tun"
  /\ moves < MaxMoves
  /\ moves' = moves + 1
  /\ events' = events \cup {k}
  /\ UNCHANGED <<control, mode, closing, closed, session, binding, compat, hotspot, registered,
                 ghost>>

\* handleDNSFallback, handleWFPCompatibility: what makes them return.
Handle(k) == ~closing /\ mode = "tun" /\ k \notin compat.applied /\ ~compat.restarting

ConsumeIgnored(k) ==
  /\ k \in events /\ job[Consumer] = NoJob /\ ~closed
  /\ ~Handle(k)
  /\ events' = events \ {k}
  /\ UNCHANGED <<control, mode, closing, closed, session, binding, compat, hotspot, registered,
                 moves, ghost>>

\* The flags are set, and Stop begins.
Consume(k) ==
  LET new == [job EXCEPT ![Consumer] = [NoJob EXCEPT !.task = "restartStop", !.at = "called",
                                                       !.mode = "tun"]] IN
  /\ k \in events /\ job[Consumer] = NoJob /\ ~closed
  /\ Handle(k)
  /\ events' = events \ {k}
  /\ compat' = [applied |-> compat.applied \cup {k}, restarting |-> TRUE]
  /\ job' = RefreshCancelled(new)
  /\ binding' = Revoked
  /\ ghost' = [ghost EXCEPT !.overtaken = TRUE, !.restarts[k] = @ + 1]
  /\ UNCHANGED <<gate, mode, closing, closed, session, hotspot, registered, moves>>

HandlerEnds ==
  /\ job[Consumer].at = "over"
  /\ compat' = [compat EXCEPT !.restarting = FALSE]
  /\ job' = [job EXCEPT ![Consumer] = NoJob]
  /\ UNCHANGED <<gate, mode, closing, closed, session, binding, events, hotspot, registered,
                 moves, ghost>>

-----------------------------------------------------------------------------
(* The Core.                                                               *)

\* Outside a transition, Snapshot ensures that there is a Core.
SnapshotEnsures ==
  /\ core.host = "none" /\ ~closed
  /\ \A p \in Procs : gate = p => job[p].at \in {"scan", "hotspot", "hotspotWait", "share",
                                                 "shareWait", "act"}
  /\ core' = [NoCore EXCEPT !.host = "plain"]
  /\ UNCHANGED <<control, mode, closing, closed, proxyOwned, endpoint, binding, compat, events,
                 hotspot, registered, moves, ghost>>

Dies(next) ==
  /\ moves < MaxMoves
  /\ moves' = moves + 1
  /\ core' = next
  /\ ghost' = [ghost EXCEPT !.dirty = @ \/ Killed]
  /\ UNCHANGED <<control, mode, closing, closed, proxyOwned, endpoint, binding, compat, events,
                 hotspot, registered>>

CoreDies    == core.host # "none" /\ Dies(NoCore)
SidecarDies == core.tun /\ Dies([core EXCEPT !.state = "failed", !.tun = FALSE])

-----------------------------------------------------------------------------
Init ==
  /\ gate = Free /\ job = [p \in Procs |-> NoJob]
  /\ mode \in Modes
  /\ closing = FALSE /\ closed = FALSE
  /\ core = NoCore /\ proxyOwned = FALSE /\ endpoint = FALSE
  /\ binding = NoBinding
  /\ compat = [applied |-> {}, restarting |-> FALSE]
  /\ events = {} /\ hotspot = NoHotspot /\ registered = Free
  /\ moves = 0
  /\ ghost = GhostInit

StopStep(p) ==
  \/ AskHotspot(p) \/ HotspotStopped(p) \/ DownOk(p) \/ DownFails(p) \/ SettleStop(p) \/ Quit(p)

StartStep(p) ==
  \/ Prepare(p) \/ PrepFails(p) \/ Connect(p) \/ ConnectFails(p) \/ Launch(p) \/ LaunchFails(p)
  \/ Egress(p) \/ EgressFails(p) \/ Commit(p) \/ CommitRefused(p) \/ Undo(p)

Step(p) ==
  \/ Queues(p) \/ TakeGate(p) \/ StopStep(p) \/ StartStep(p)
  \/ SaveMode(p) \/ Repair(p) \/ Share(p) \/ ShareFails(p) \/ Shared(p)

Next ==
  \/ \E p \in Callers, task \in Tasks, m \in Modes : Call(p, task, m)
  \/ \E p \in Procs : Step(p) \/ GivesUp(p) \/ Expires(p)
  \/ WorkerReports \/ ReadReport
  \/ ScheduleRefresh \/ ScanEnds \/ ScanFinds
  \/ \E k \in Kinds : CoreEvent(k) \/ ConsumeIgnored(k) \/ Consume(k)
  \/ HandlerEnds \/ SnapshotEnsures \/ CoreDies \/ SidecarDies

Spec == Init /\ [][Next]_vars

-----------------------------------------------------------------------------
\* Between operations the desktop has what it thinks it has: the proxy points
\* to HypoMux only while a proxy session runs, what runs is what the settings
\* say, and the saved mode is one that came up or was chosen, whichever step
\* of a start failed ("restore the previously working mode on any failure",
\* engine.go:857-860), unless a cleanup failed or the Core ended by itself.
SettledSession ==
  gate = Free /\ ~ghost.dirty =>
    /\ proxyOwned => core.state = "running" /\ core.mode = "proxy"
    /\ core.state = "running" => core.mode = ghost.good
    /\ endpoint => core.state # "stopped"
    /\ ~ghost.lost => mode = ghost.good

Nothing == core.state # "running" /\ ~proxyOwned /\ hotspot.worker \in {"none", "done"}

\* "Explicit Start/Stop wins over a pending automatic recovery. In particular,
\* a late scan may never restart aggregation after the user pressed Stop"
\* (runtime_bindings.go:125-126): after a Stop that succeeded nothing runs and
\* nothing comes back before the user calls Start.
ExplicitStopWins == ghost.quiet => Nothing

\* The same, except for a Stop that a compatibility restart, or a Start that
\* committed while Stop was on its way to the gate, got past.
StopWins == ghost.quiet /\ ~ghost.overtaken => Nothing

\* "DoH/WFP: one controlled restart": between two actions of the user each
\* kind of event restarts the session once at most, in whatever order restarts,
\* refreshes and the user's calls take the gate (engine.go:342-422).
OneCompatRestart == \A k \in Kinds : ghost.restarts[k] <= 1

\* Once Shutdown has closed the client nothing runs and no call brings
\* anything back, not even one that was waiting for the gate.
ShutdownIsFinal ==
  closed => /\ core = NoCore
            /\ ~ghost.dirty => /\ ~proxyOwned
                               /\ hotspot.worker \in {"starting", "on"} => hotspot.cut

\* A hotspot that was told to stop is not shown as running by a late report,
\* and after StopHotspot no refresh brings it back (hotspot.go:256-259).
HotspotStaysOff ==
  /\ hotspot.asked => hotspot.shown \notin {"running", "starting"}
  /\ ghost.muted => hotspot.worker = "none"

\* What starts without the user: one restart of each kind, and nothing after
\* Shutdown.
UserDecides == OneCompatRestart /\ ShutdownIsFinal
=============================================================================
