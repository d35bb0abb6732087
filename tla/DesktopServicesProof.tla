------------------------ MODULE DesktopServicesProof ------------------------
(***************************************************************************)
(* Proofs about the services of the desktop that MCDesktopEngine composes: *)
(* the engine service for any callers, kinds of events and number of calls *)
(* and deaths; the system proxy for whatever the user may set it to; the   *)
(* rules and their lists, whatever they are: that a tag stands for what is *)
(* on the disk, and that what sing-box does with the files is what the     *)
(* settings say of any flow.  The last rests on the order of the rules:    *)
(* both sides take the first that matches, and of two rules with different *)
(* matches exactly one comes first, so the first of a set is the one no    *)
(* other of it precedes, however the set was written down as a list.       *)
(***************************************************************************)
EXTENDS MCDesktopEngine, FiniteSetTheorems, WellFoundedInduction, TLAPS

-----------------------------------------------------------------------------
(* DesktopEngine: the inductive invariant, in named parts.                 *)

Tasked == {"start", "stop", "shutdown", "hotspotOn", "hotspotOff", "save", "repair"}
Modes == Engine!Modes
JobSteps == {"idle", "called", "queued", "scan", "hotspot", "hotspotWait", "down", "settle", "quit",
             "prep", "connect", "launch", "egress", "commit", "undo", "share", "shareWait", "act",
             "over"}
Jobs == [task : {"none", "restartStop", "restartStart", "refresh"} \cup Tasked, at : JobSteps,
         mode : Modes, prev : Modes, ctx : {"live", "cancelled", "expired"},
         err : BOOLEAN, again : BOOLEAN]
Cores == [host : {"none", "plain", "admin"}, state : {"stopped", "running", "failed"},
          mode : Modes, tun : BOOLEAN]
Bindings ==
  {b \in [enabled : BOOLEAN, mode : Modes \cup {"none"}, recovery : {"none", "plain", "hotspot"}] :
     b.enabled => b.mode \in Modes}
Hotspots == [worker : {"none", "starting", "on", "off", "done"},
             said : {"none", "running", "stopped", "failed"},
             shown : {"starting", "running", "stopping", "stopped", "failed"},
             asked : BOOLEAN, cut : BOOLEAN]
Compats == [applied : SUBSET Kinds, restarting : BOOLEAN]
Ghosts == [dirty : BOOLEAN, good : Modes, lost : BOOLEAN, quiet : BOOLEAN, overtaken : BOOLEAN,
           muted : BOOLEAN, restarts : [Kinds -> Nat]]

EngineTypes ==
  /\ gate \in Engine!Procs \cup {Engine!Free} /\ registered \in Callers \cup {Engine!Free}
  /\ job \in [Engine!Procs -> Jobs] /\ mode \in Modes
  /\ core \in Cores /\ binding \in Bindings /\ compat \in Compats /\ hotspot \in Hotspots
  /\ closing \in BOOLEAN /\ closed \in BOOLEAN /\ proxyOwned \in BOOLEAN /\ endpoint \in BOOLEAN
  /\ ghost \in Ghosts

\* The steps between the mode's being read and the end of a start; in all but
\* the first the saved mode may be one that has not come up.
Changing == {"launch", "egress", "commit", "undo"}
Starting == Changing \cup {"connect"}
Launching == Starting \cup {"prep"}
Stopping == {"hotspot", "hotspotWait", "down", "settle"}

\* What each process may be asked to do, and where it is then, with the gate or
\* without it.
TasksOf(p) ==
  IF p = Engine!Consumer THEN {"none", "restartStop", "restartStart"}
  ELSE IF p = Engine!Refresh THEN {"none", "refresh"}
  ELSE {"none"} \cup Tasked
Held(task, at) ==
  \/ task \in {"stop", "shutdown", "restartStop", "refresh"} /\ at \in Stopping
  \/ task \in {"start", "restartStart", "refresh"} /\ at \in Launching
  \/ task \in {"hotspotOn", "refresh"} /\ at \in {"share", "shareWait"}
  \/ task = "hotspotOff" /\ at \in {"hotspot", "hotspotWait"}
  \/ task \in {"save", "repair"} /\ at = "act"
  \/ task = "refresh" /\ at = "scan"
NotHeld(task, at) ==
  \/ task = "none" /\ at \in {"idle", "over"}
  \/ task \notin {"none", "refresh"} /\ at \in {"called", "queued"}
  \/ task = "shutdown" /\ at = "quit"
PlaceInv ==
  /\ \A p \in Engine!Procs :
       /\ job[p].task \in TasksOf(p)
       /\ IF gate = p THEN Held(job[p].task, job[p].at) ELSE NotHeld(job[p].task, job[p].at)
       /\ job[p].at = "over" => p = Engine!Consumer
       /\ job[p].task = "none" => ~job[p].again
       /\ job[p].task = "shutdown" => closing
  /\ closed => closing

\* The holder of the gate is at one of these steps.
Now(steps) == gate # Engine!Free /\ job[gate].at \in steps

\* A handler of a compatibility event keeps its flag up; an event that was
\* counted is one that was applied.
CompatInv ==
  /\ job[Engine!Consumer].at # "idle" => compat.restarting
  /\ \A k \in Kinds : /\ ghost.restarts[k] <= 1
                      /\ ghost.restarts[k] # 0 => k \in compat.applied

\* Whoever starts a worker was asked to, or found one running; after StopHotspot
\* there is nobody left.
HotInv ==
  /\ hotspot.asked => hotspot.shown \notin {"running", "starting"}
  /\ Now({"hotspotWait"}) /\ job[gate].task = "hotspotOff" => binding.recovery # "hotspot"
  /\ Now({"share", "shareWait"}) => job[gate].task = "hotspotOn" \/ job[gate].again
  /\ ghost.muted => /\ hotspot.worker = "none" /\ binding.recovery # "hotspot"
                    /\ ~job[Engine!Refresh].again
                    /\ \A p \in Callers : job[p].task # "hotspotOn"

\* A start knows the mode it replaces.
ModeInv ==
  /\ Now({"connect"}) => job[gate].prev = mode
  /\ Now(Changing) => mode = job[gate].mode /\ (~ghost.lost => job[gate].prev = ghost.good)
  /\ ~Now(Changing) /\ ~ghost.lost => mode = ghost.good

CoreInv ==
  /\ core.host = "none" => core.state = "stopped" /\ core.mode = "proxy"
  /\ core.tun => core.state = "running" /\ core.mode = "tun"
  /\ Now({"egress"}) /\ core.state = "running" => core.mode = job[gate].mode

\* As long as no cleanup failed: what a start has brought up so far, and what
\* is there when none is under way.
SessionInv ==
  ~ghost.dirty =>
    /\ Now({"egress", "commit", "undo"}) =>
         /\ core.mode = job[gate].mode
         /\ core.state = "running" \/ (core.state = "failed" /\ core.mode = "tun")
         /\ proxyOwned => job[gate].mode = "proxy" /\ job[gate].at # "egress"
    /\ ~Now({"egress", "commit", "undo", "settle"}) =>
         /\ proxyOwned => core.state = "running" /\ core.mode = "proxy"
         /\ core.state = "running" => core.mode = ghost.good
    /\ endpoint /\ ~Now({"settle"}) => core.state # "stopped"

\* What a stop has reached as long as nothing of it failed.
StoppedInv ==
  /\ Now({"down", "settle"}) /\ ~job[gate].err => Engine!WorkerGone
  /\ Now({"settle"}) /\ ~job[gate].err => core.state = "stopped"
  /\ \A p \in Engine!Procs : job[p].at = "quit" /\ ~job[p].err =>
       Engine!WorkerGone /\ ~proxyOwned /\ ~endpoint /\ ~Now(Starting)

ClosedInv ==
  closed => /\ core.host = "none"
            /\ ~ghost.dirty => ~proxyOwned /\ Engine!WorkerGone /\ ~Now(Starting)

\* After a Stop nothing is left that could start anything.
QuietInv ==
  ghost.quiet /\ ~ghost.overtaken =>
    /\ Engine!Nothing /\ ~endpoint /\ ~binding.enabled
    /\ job[Engine!Refresh].task = "none" /\ ~compat.restarting
    /\ \A p \in Callers : job[p].task # "start"

\* A Stop on its way leaves no recovery behind, unless a start overtook it
\* before it waited for the gate.
OnItsWay(p) == job[p].task \in {"stop", "shutdown"} /\ job[p].at # "quit" /\ ~job[p].again
RecoveryInv ==
  \A p \in Callers : OnItsWay(p) =>
    /\ binding.recovery = "none"
    /\ job[p].at = "called" => ~binding.enabled
    /\ gate = Engine!Refresh => job[Engine!Refresh].ctx # "live"

EngineInv ==
  /\ EngineTypes /\ PlaceInv /\ CompatInv /\ HotInv /\ ModeInv /\ CoreInv /\ SessionInv
  /\ StoppedInv /\ ClosedInv /\ QuietInv /\ RecoveryInv

-----------------------------------------------------------------------------
(* DesktopEngine: what the operators on jobs do.                           *)

Procs == Engine!Procs

LEMMA ProcsAre ==
  /\ Callers \subseteq Procs /\ Engine!Consumer \in Procs /\ Engine!Refresh \in Procs
  /\ Engine!Consumer \notin Callers /\ Engine!Refresh \notin Callers
  /\ Engine!Consumer # Engine!Refresh
  /\ \A p \in Procs : p # Engine!Free
  /\ \A p \in Procs : p \in Callers \/ p = Engine!Consumer \/ p = Engine!Refresh
BY CallersAssumption DEF Procs, Engine!Procs, Engine!Consumer, Engine!Refresh, Engine!Free

\* What a step leaves of a job that is not its own: a cancellation ends a context.
Rests(q) ==
  /\ job'[q].task = job[q].task /\ job'[q].at = job[q].at
  /\ job'[q].mode = job[q].mode /\ job'[q].prev = job[q].prev /\ job'[q].err = job[q].err
  /\ job'[q].again = job[q].again
  /\ job'[q].ctx = "live" => job[q].ctx = "live"
OthersRest(p) == \A q \in Procs : q # p => Rests(q)

\* A job goes on, and what it is about stays the same.
GoesOn(p, step) ==
  /\ job' \in [Procs -> Jobs] /\ OthersRest(p)
  /\ job'[p].at = step /\ job'[p].task = job[p].task /\ job'[p].mode = job[p].mode
  /\ job'[p].again = job[p].again /\ job'[p].ctx = job[p].ctx

\* A job is over, and with it a hold on the gate.
IsOver(p) ==
  /\ job' \in [Procs -> Jobs] /\ OthersRest(p)
  /\ job'[p].at = (IF p = Engine!Consumer THEN "over" ELSE "idle") /\ job'[p].task = "none"
  /\ job'[p].err = FALSE /\ job'[p].again = FALSE

LEMMA JobUpdated ==
  ASSUME job \in [Procs -> Jobs], NEW p \in Procs, NEW new \in Jobs,
         job' = [job EXCEPT ![p] = new]
  PROVE  job' \in [Procs -> Jobs] /\ job'[p] = new /\ OthersRest(p)
BY DEF OthersRest, Rests

LEMMA GoesIs ==
  ASSUME job \in [Procs -> Jobs], NEW p \in Procs, NEW step \in JobSteps, Engine!Goes(p, step)
  PROVE  GoesOn(p, step) /\ job'[p].prev = job[p].prev /\ job'[p].err = job[p].err
<1> DEFINE new == [job[p] EXCEPT !.at = step]
<1>1. job' = [job EXCEPT ![p] = new]
  BY DEF Engine!Goes
<1>2. /\ new \in Jobs /\ new.at = step /\ new.task = job[p].task /\ new.mode = job[p].mode
      /\ new.prev = job[p].prev /\ new.err = job[p].err /\ new.again = job[p].again
      /\ new.ctx = job[p].ctx
  BY DEF Jobs
<1>. HIDE DEF new
<1>. QED BY <1>1, <1>2, JobUpdated DEF GoesOn

LEMMA FailsIs ==
  ASSUME job \in [Procs -> Jobs], NEW p \in Procs, NEW step \in JobSteps, Engine!Fails(p, step)
  PROVE  GoesOn(p, step) /\ job'[p].prev = job[p].prev /\ job'[p].err = TRUE
<1> DEFINE new == [job[p] EXCEPT !.at = step, !.err = TRUE]
<1>1. job' = [job EXCEPT ![p] = new]
  BY DEF Engine!Fails
<1>2. /\ new \in Jobs /\ new.at = step /\ new.task = job[p].task /\ new.mode = job[p].mode
      /\ new.prev = job[p].prev /\ new.err = TRUE /\ new.again = job[p].again
      /\ new.ctx = job[p].ctx
  BY DEF Jobs
<1>. HIDE DEF new
<1>. QED BY <1>1, <1>2, JobUpdated DEF GoesOn

LEMMA NoJobIs ==
  /\ Engine!NoJob \in Jobs /\ Engine!NoJob.task = "none" /\ Engine!NoJob.at = "idle"
  /\ Engine!NoJob.err = FALSE /\ Engine!NoJob.again = FALSE /\ Engine!NoJob.ctx = "live"
  /\ [Engine!NoJob EXCEPT !.at = "over"] \in Jobs
  /\ [Engine!NoJob EXCEPT !.at = "over"].at = "over"
  /\ [Engine!NoJob EXCEPT !.at = "over"].task = "none"
  /\ [Engine!NoJob EXCEPT !.at = "over"].err = FALSE
  /\ [Engine!NoJob EXCEPT !.at = "over"].again = FALSE
BY DEF Engine!NoJob, Jobs, JobSteps, Modes, Engine!Modes

LEMMA EndedIs ==
  ASSUME job \in [Procs -> Jobs], NEW p \in Procs, job' = Engine!Ended(job, p)
  PROVE  IsOver(p)
<1> DEFINE new == IF p = Engine!Consumer THEN [Engine!NoJob EXCEPT !.at = "over"] ELSE Engine!NoJob
<1>1. job' = [job EXCEPT ![p] = new]
  BY DEF Engine!Ended
<1>2. /\ new \in Jobs /\ new.at = (IF p = Engine!Consumer THEN "over" ELSE "idle")
      /\ new.task = "none" /\ new.err = FALSE /\ new.again = FALSE
  BY NoJobIs
<1>. HIDE DEF new
<1>. QED BY <1>1, <1>2, JobUpdated DEF IsOver

LEMMA ReturnsIs ==
  ASSUME job \in [Procs -> Jobs], registered \in Callers \cup {Engine!Free}, NEW p \in Procs,
         Engine!Returns(p)
  PROVE  /\ IsOver(p) /\ gate' = (IF gate = p THEN Engine!Free ELSE gate)
         /\ registered' \in Callers \cup {Engine!Free}
BY EndedIs DEF Engine!Returns

\* Cancelling ends a context, and nothing else.
Cancelled(jobs, new) ==
  /\ new \in [Procs -> Jobs]
  /\ \A q \in Procs :
       /\ new[q].task = jobs[q].task /\ new[q].at = jobs[q].at
       /\ new[q].mode = jobs[q].mode /\ new[q].prev = jobs[q].prev /\ new[q].err = jobs[q].err
       /\ new[q].again = jobs[q].again
       /\ new[q].ctx = "live" => jobs[q].ctx = "live"

LEMMA CancelIs ==
  ASSUME NEW jobs \in [Procs -> Jobs], NEW q \in Procs
  PROVE  Cancelled(jobs, [jobs EXCEPT ![q].ctx = "cancelled"]) /\ Cancelled(jobs, jobs)
<1> DEFINE new == [jobs[q] EXCEPT !.ctx = "cancelled"]
<1>1. /\ new \in Jobs /\ new.at = jobs[q].at /\ new.task = jobs[q].task
      /\ new.mode = jobs[q].mode /\ new.prev = jobs[q].prev /\ new.err = jobs[q].err
      /\ new.again = jobs[q].again /\ new.ctx = "cancelled"
  BY DEF Jobs
<1>2. [jobs EXCEPT ![q].ctx = "cancelled"] = [jobs EXCEPT ![q] = new]
  OBVIOUS
<1>. HIDE DEF new
<1>. QED BY <1>1, <1>2 DEF Cancelled

LEMMA RefreshCancelledIs ==
  ASSUME NEW jobs \in [Procs -> Jobs]
  PROVE  /\ Cancelled(jobs, Engine!RefreshCancelled(jobs))
         /\ jobs[Engine!Refresh].task = "refresh" =>
              Engine!RefreshCancelled(jobs)[Engine!Refresh].ctx # "live"
<1>1. [jobs EXCEPT ![Engine!Refresh].ctx = "cancelled"][Engine!Refresh].ctx # "live"
  BY ProcsAre DEF Jobs
<1>. QED BY <1>1, CancelIs, ProcsAre DEF Engine!RefreshCancelled

LEMMA StartCancelledIs ==
  ASSUME NEW jobs \in [Procs -> Jobs], registered \in Callers \cup {Engine!Free}
  PROVE  Cancelled(jobs, Engine!HotspotStartCancelled(jobs))
BY CancelIs, ProcsAre DEF Engine!HotspotStartCancelled

LEMMA StopRequestedIs ==
  ASSUME hotspot \in Hotspots
  PROVE  /\ Engine!StopRequested \in Hotspots /\ Engine!StopRequested.asked
         /\ Engine!StopRequested.worker = hotspot.worker
         /\ Engine!StopRequested.said = hotspot.said
         /\ Engine!StopRequested.shown \notin {"running", "starting"}
BY DEF Engine!StopRequested, Hotspots

LEMMA NothingIs ==
  /\ Engine!NoCore \in Cores /\ Engine!NoCore.state = "stopped" /\ Engine!NoCore.tun = FALSE
  /\ Engine!NoCore.host = "none" /\ Engine!NoCore.mode = "proxy"
  /\ Engine!NoHotspot \in Hotspots /\ Engine!NoHotspot.worker = "none"
  /\ Engine!NoHotspot.asked = FALSE
  /\ Engine!NoBinding \in Bindings /\ Engine!NoBinding.enabled = FALSE
  /\ Engine!NoBinding.recovery = "none"
BY DEF Engine!NoCore, Cores, Engine!NoHotspot, Hotspots, Engine!NoBinding, Bindings, Modes,
       Engine!Modes

LEMMA RevokedIs ==
  ASSUME binding \in Bindings
  PROVE  /\ Engine!Revoked \in Bindings /\ Engine!Revoked.enabled = FALSE
         /\ Engine!Revoked.recovery = "none"
BY DEF Engine!Revoked, Bindings

LEMMA NoCoreIs ==
  ASSUME core \in Cores, core.host = "none", core.state = "stopped", core.mode = "proxy", ~core.tun
  PROVE  core = Engine!NoCore
BY DEF Cores, Engine!NoCore

\* A Core that a connection finds or makes.
LEMMA ConnectedIs ==
  ASSUME core \in Cores, NEW elevated \in BOOLEAN
  PROVE  /\ Engine!Connected(elevated) \in Cores /\ Engine!Connected(elevated).host # "none"
         /\ \/ Engine!Connected(elevated) = core
            \/ /\ Engine!Connected(elevated).state = "stopped"
               /\ ~Engine!Connected(elevated).tun
<1>1. \A h \in {"plain", "admin"} :
        /\ [Engine!NoCore EXCEPT !.host = h] \in Cores
        /\ [Engine!NoCore EXCEPT !.host = h].host = h
        /\ [Engine!NoCore EXCEPT !.host = h].state = "stopped"
        /\ [Engine!NoCore EXCEPT !.host = h].tun = FALSE
  BY DEF Engine!NoCore, Cores, Modes, Engine!Modes
<1>. QED BY <1>1 DEF Engine!Connected, Cores

-----------------------------------------------------------------------------
(* DesktopEngine: its steps, one lemma each.                               *)

LEMMA EngineTyped ==
  ASSUME EngineInv
  PROVE  /\ job \in [Procs -> Jobs] /\ registered \in Callers \cup {Engine!Free}
         /\ core \in Cores /\ binding \in Bindings /\ compat \in Compats /\ hotspot \in Hotspots
         /\ ghost \in Ghosts /\ mode \in Modes /\ gate \in Procs \cup {Engine!Free}
BY DEF EngineInv, EngineTypes, Procs

LEMMA AskHotspotSound ==
  ASSUME EngineInv, NEW p \in Procs, Engine!AskHotspot(p)
  PROVE  EngineInv'
<1>1. /\ gate = p /\ job[p].at = "hotspot" /\ Engine!Goes(p, "hotspotWait")
      /\ UNCHANGED <<gate, mode, closing, closed, core, proxyOwned, endpoint, compat, registered,
                     ghost>>
  BY DEF Engine!AskHotspot, Engine!Holds, Engine!session
<1>2. GoesOn(p, "hotspotWait") /\ job'[p].prev = job[p].prev /\ job'[p].err = job[p].err
  BY <1>1, EngineTyped, GoesIs DEF JobSteps
<1>3. /\ hotspot' \in Hotspots /\ hotspot'.worker = hotspot.worker
      /\ hotspot' = hotspot \/ hotspot'.shown \notin {"running", "starting"}
  BY EngineTyped, StopRequestedIs DEF Engine!AskHotspot
<1>4. /\ binding' \in Bindings /\ binding'.enabled = binding.enabled
      /\ binding'.recovery = IF job[p].task = "hotspotOff" /\ binding.recovery = "hotspot"
                             THEN "plain" ELSE binding.recovery
  BY EngineTyped DEF Engine!AskHotspot, Bindings
<1>5. EngineTypes'
  BY <1>1, <1>2, <1>3, <1>4, EngineTyped DEF EngineInv, EngineTypes, GoesOn, Procs
<1>. QED BY <1>1, <1>2, <1>3, <1>4, <1>5, ProcsAre
  DEF EngineInv, PlaceInv, CompatInv, HotInv, ModeInv, CoreInv, SessionInv, StoppedInv, ClosedInv,
      QuietInv, RecoveryInv, OnItsWay, GoesOn, IsOver, OthersRest, Rests, Held, NotHeld, TasksOf,
      Tasked, Launching, Starting, Changing, Stopping, Procs, Now, Engine!WorkerGone,
      Engine!Nothing

LEMMA HotspotStoppedSound ==
  ASSUME EngineInv, NEW p \in Procs, Engine!HotspotStopped(p)
  PROVE  EngineInv'
<1> DEFINE clean == \/ hotspot.worker = "none"
                    \/ hotspot.worker = "done" /\ hotspot.shown = "stopped"
           others == {q \in Callers \ {p} : job[q].task = "hotspotOn"}
<1>1. /\ gate = p /\ job[p].at = "hotspotWait"
      /\ UNCHANGED <<mode, closing, closed, core, proxyOwned, endpoint, binding, compat>>
  BY DEF Engine!HotspotStopped, Engine!Holds, Engine!session
<1>2. clean \in BOOLEAN /\ (clean => Engine!WorkerGone)
  BY DEF Engine!WorkerGone
<1>3. CASE job[p].task # "hotspotOff"
  <2> DEFINE new == [job[p] EXCEPT !.at = "down", !.err = ~clean]
  <2>1. /\ job' = [job EXCEPT ![p] = new]
        /\ UNCHANGED <<gate, registered, hotspot, ghost>>
    BY <1>3 DEF Engine!HotspotStopped
  <2>. HIDE DEF clean
  <2>2. /\ new \in Jobs /\ new.at = "down" /\ new.task = job[p].task /\ new.mode = job[p].mode
        /\ new.prev = job[p].prev /\ new.err = ~clean /\ new.again = job[p].again
        /\ new.ctx = job[p].ctx
    BY ZenonT(40), <1>2, EngineTyped DEF Jobs, JobSteps
  <2>. HIDE DEF new
  <2>3. GoesOn(p, "down") /\ job'[p].prev = job[p].prev /\ job'[p].err = ~clean
    BY <2>1, <2>2, EngineTyped, JobUpdated DEF GoesOn
  <2>4. ~job'[p].err => Engine!WorkerGone
    BY <1>2, <2>3
  <2>. HIDE DEF others
  <2>5. EngineTypes'
    BY <1>1, <2>1, <2>3 DEF EngineInv, EngineTypes, GoesOn, Procs
  <2>. QED BY <1>1, <1>3, <2>1, <2>3, <2>4, <2>5, ProcsAre
    DEF EngineInv, PlaceInv, CompatInv, HotInv, ModeInv, CoreInv, SessionInv, StoppedInv,
        ClosedInv, QuietInv, RecoveryInv, OnItsWay, GoesOn, IsOver, OthersRest, Rests, Held,
        NotHeld, TasksOf, Tasked, Launching, Starting, Changing, Stopping, Procs, Now,
        Engine!WorkerGone, Engine!Nothing
<1>4. CASE job[p].task = "hotspotOff"
  <2>1. /\ IsOver(p) /\ gate' = Engine!Free /\ registered' \in Callers \cup {Engine!Free}
    BY <1>1, <1>4, EngineTyped, ReturnsIs DEF Engine!HotspotStopped
  <2>2. /\ hotspot' = IF clean THEN Engine!NoHotspot ELSE hotspot
        /\ ghost' = [ghost EXCEPT !.muted = clean /\ others = {}]
    BY <1>4 DEF Engine!HotspotStopped
  <2>. HIDE DEF clean
  <2>3. /\ hotspot' \in Hotspots
        /\ hotspot' = hotspot \/ (hotspot'.worker = "none" /\ ~hotspot'.asked)
        /\ ghost'.muted => /\ hotspot'.worker = "none"
                            /\ \A q \in Callers : q # p => job[q].task # "hotspotOn"
    BY <2>2, EngineTyped, NothingIs DEF Ghosts
  <2>4. /\ ghost' \in Ghosts
        /\ ghost'.dirty = ghost.dirty /\ ghost'.good = ghost.good /\ ghost'.lost = ghost.lost
        /\ ghost'.quiet = ghost.quiet /\ ghost'.overtaken = ghost.overtaken
        /\ ghost'.restarts = ghost.restarts
    BY <2>2, EngineTyped DEF Ghosts
  <2>. HIDE DEF others
  <2>5. EngineTypes'
    BY <1>1, <2>1, <2>3, <2>4, EngineTyped DEF EngineInv, EngineTypes, IsOver, Procs
  <2>6. HotInv'
    BY <1>1, <1>4, <2>1, <2>3, <2>4, ProcsAre
      DEF EngineInv, PlaceInv, CompatInv, HotInv, ModeInv, CoreInv, SessionInv, StoppedInv,
          ClosedInv, QuietInv, RecoveryInv, OnItsWay, GoesOn, IsOver, OthersRest, Rests, Held,
          NotHeld, TasksOf, Tasked, Launching, Starting, Changing, Stopping, Procs, Now,
          Engine!WorkerGone, Engine!Nothing
  <2>. QED BY <1>1, <1>4, <2>1, <2>3, <2>4, <2>5, <2>6, ProcsAre
    DEF EngineInv, PlaceInv, CompatInv, ModeInv, CoreInv, SessionInv, StoppedInv, ClosedInv,
        QuietInv, RecoveryInv, OnItsWay, GoesOn, IsOver, OthersRest, Rests, Held, NotHeld,
        TasksOf, Tasked, Launching, Starting, Changing, Stopping, Procs, Now, Engine!WorkerGone,
        Engine!Nothing
<1>. QED BY <1>3, <1>4

LEMMA DownOkSound ==
  ASSUME EngineInv, NEW p \in Procs, Engine!DownOk(p)
  PROVE  EngineInv'
<1> DEFINE c == [core EXCEPT !.state = "stopped", !.tun = FALSE,
                             !.host = IF @ = "none" THEN "plain" ELSE @]
<1>1. /\ gate = p /\ job[p].at = "down" /\ ~closed /\ Engine!Goes(p, "settle") /\ core' = c
      /\ UNCHANGED <<gate, mode, closing, closed, proxyOwned, endpoint, binding, compat, hotspot,
                     registered, ghost>>
  BY DEF Engine!DownOk, Engine!Holds
<1>2. GoesOn(p, "settle") /\ job'[p].prev = job[p].prev /\ job'[p].err = job[p].err
  BY <1>1, EngineTyped, GoesIs DEF JobSteps
<1>3. c \in Cores /\ c.state = "stopped" /\ c.tun = FALSE /\ c.host # "none"
  BY EngineTyped DEF Cores
<1>. HIDE DEF c
<1>4. EngineTypes'
  BY <1>1, <1>2, <1>3 DEF EngineInv, EngineTypes, GoesOn, Procs
<1>. QED BY <1>1, <1>2, <1>3, <1>4, ProcsAre
  DEF EngineInv, PlaceInv, CompatInv, HotInv, ModeInv, CoreInv, SessionInv, StoppedInv, ClosedInv,
      QuietInv, RecoveryInv, OnItsWay, GoesOn, IsOver, OthersRest, Rests, Held, NotHeld, TasksOf,
      Tasked, Launching, Starting, Changing, Stopping, Procs, Now, Engine!WorkerGone,
      Engine!Nothing

LEMMA DownFailsSound ==
  ASSUME EngineInv, NEW p \in Procs, Engine!DownFails(p)
  PROVE  EngineInv'
<1> DEFINE c == [core EXCEPT !.tun = FALSE]
<1>1. /\ gate = p /\ job[p].at = "down" /\ Engine!Fails(p, "settle") /\ core' \in {core, c}
      /\ UNCHANGED <<gate, mode, closing, closed, proxyOwned, endpoint, binding, compat, hotspot,
                     registered, ghost>>
  BY DEF Engine!DownFails, Engine!Holds
<1>2. GoesOn(p, "settle") /\ job'[p].prev = job[p].prev /\ job'[p].err = TRUE
  BY <1>1, EngineTyped, FailsIs DEF JobSteps
<1>3. c \in Cores /\ c.host = core.host /\ c.state = core.state /\ c.mode = core.mode /\ ~c.tun
  BY EngineTyped DEF Cores
<1>. HIDE DEF c
<1>4. EngineTypes'
  BY <1>1, <1>2, <1>3 DEF EngineInv, EngineTypes, GoesOn, Procs
<1>. QED BY <1>1, <1>2, <1>3, <1>4, ProcsAre
  DEF EngineInv, PlaceInv, CompatInv, HotInv, ModeInv, CoreInv, SessionInv, StoppedInv, ClosedInv,
      QuietInv, RecoveryInv, OnItsWay, GoesOn, IsOver, OthersRest, Rests, Held, NotHeld, TasksOf,
      Tasked, Launching, Starting, Changing, Stopping, Procs, Now, Engine!WorkerGone,
      Engine!Nothing

\* What a stop leaves of the fields of the session.
SettledBy(p, restored) ==
  /\ gate = p /\ job[p].at = "settle"
  /\ proxyOwned' = (proxyOwned /\ ~restored) /\ endpoint' = FALSE
  /\ compat' \in Compats /\ compat'.restarting = compat.restarting
  /\ compat'.applied = compat.applied \/ Engine!ByUser
  /\ binding' \in Bindings
  /\ binding'.recovery \in {"none", binding.recovery}
  /\ binding.recovery = "none" \/ ~binding.enabled => ~binding'.enabled
  /\ ghost' \in Ghosts /\ ghost'.dirty = Engine!StopFailed(p, restored)
  /\ ghost'.good = ghost.good /\ ghost'.lost = ghost.lost /\ ghost'.muted = ghost.muted
  /\ ghost'.restarts = Engine!CountsReset(p)
  /\ IF p \in Callers
     THEN /\ ghost'.quiet => /\ ~Engine!StopFailed(p, restored)
                             /\ \A q \in Callers : job[q].task # "start"
          /\ ghost'.overtaken = (job[p].again \/ compat.restarting)
     ELSE ghost'.quiet = ghost.quiet /\ ghost'.overtaken = ghost.overtaken
  /\ UNCHANGED <<mode, closing, closed, core, hotspot>>

LEMMA SettleIs ==
  ASSUME EngineInv, NEW p \in Procs, NEW restored \in BOOLEAN,
         gate = p, job[p].at = "settle",
         proxyOwned' = (proxyOwned /\ ~restored), endpoint' = FALSE,
         compat' = Engine!FlagsReset, binding' = Engine!Forgotten,
         ghost' = [ghost EXCEPT
           !.dirty = Engine!StopFailed(p, restored),
           !.quiet = IF p \in Callers THEN ~Engine!StopFailed(p, restored)
                                           /\ \A q \in Callers : job[q].task # "start" ELSE @,
           !.overtaken = IF p \in Callers THEN job[p].again \/ compat.restarting ELSE @,
           !.restarts = Engine!CountsReset(p)],
         UNCHANGED <<mode, closing, closed, core, hotspot>>
  PROVE  SettledBy(p, restored)
<1> DEFINE calm == \A q \in Callers : job[q].task # "start"
           failed == Engine!StopFailed(p, restored)
           counts == Engine!CountsReset(p)
           again == job[p].again \/ compat.restarting
           g == [ghost EXCEPT !.dirty = failed,
                              !.quiet = IF p \in Callers THEN ~failed /\ calm ELSE @,
                              !.overtaken = IF p \in Callers THEN again ELSE @,
                              !.restarts = counts]
<1>1. failed \in BOOLEAN /\ calm \in BOOLEAN /\ again \in BOOLEAN
  BY EngineTyped DEF Engine!StopFailed, Jobs
<1>2. counts \in [Kinds -> Nat]
  BY EngineTyped DEF Engine!CountsReset, Ghosts
<1>3. /\ compat' \in Compats /\ compat'.restarting = compat.restarting
      /\ compat'.applied = compat.applied \/ Engine!ByUser
  BY EngineTyped DEF Engine!FlagsReset, Compats
<1>4. /\ binding' \in Bindings
      /\ binding'.recovery \in {"none", binding.recovery}
      /\ binding.recovery = "none" \/ ~binding.enabled => ~binding'.enabled
  BY EngineTyped, NothingIs DEF Engine!Forgotten
<1>5. ghost' = g
  OBVIOUS
<1>. HIDE DEF failed, calm, counts, again
<1>6. /\ g \in Ghosts /\ g.dirty = failed /\ g.good = ghost.good /\ g.lost = ghost.lost
      /\ g.muted = ghost.muted /\ g.restarts = counts
      /\ IF p \in Callers THEN g.quiet = (~failed /\ calm) /\ g.overtaken = again
         ELSE g.quiet = ghost.quiet /\ g.overtaken = ghost.overtaken
  BY <1>1, <1>2, EngineTyped DEF Ghosts
<1>. HIDE DEF g
<1>. QED BY <1>3, <1>4, <1>5, <1>6 DEF SettledBy, failed, calm, counts, again

\* What goes on when a stop is over.
LEMMA AfterStopIs ==
  ASSUME EngineInv, NEW p \in Procs, gate = p, job[p].at = "settle",
         NEW err \in BOOLEAN, Engine!AfterStop(p, err)
  PROVE  /\ job' \in [Procs -> Jobs] /\ OthersRest(p)
         /\ registered' \in Callers \cup {Engine!Free}
         /\ \/ gate' = Engine!Free /\ IsOver(p)
            \/ /\ gate' = Engine!Free /\ job[p].task = "shutdown"
               /\ GoesOn(p, "quit") /\ job'[p].err = err
            \/ /\ gate' = Engine!Free /\ job[p].task = "restartStop"
               /\ job'[p].task = "restartStart" /\ job'[p].at = "called"
            \/ /\ gate' = gate /\ job[p].task = "refresh" /\ ~err
               /\ GoesOn(p, "prep")
<1>1. job[p].task \in {"stop", "shutdown", "restartStop", "refresh"}
  BY
    DEF EngineInv, PlaceInv, GoesOn, IsOver, OthersRest, Rests, Held, NotHeld, TasksOf, Tasked,
        Launching, Starting, Changing, Stopping, Procs, Now, Engine!WorkerGone
<1>2. CASE Engine!Returns(p)
  BY <1>2, EngineTyped, ReturnsIs DEF IsOver
<1>3. CASE job[p].task = "shutdown"
  <2> DEFINE new == [job[p] EXCEPT !.at = "quit", !.err = err]
  <2>1. /\ job' = [job EXCEPT ![p] = new] /\ gate' = Engine!Free /\ registered' = registered
    BY <1>3 DEF Engine!AfterStop
  <2>2. /\ new \in Jobs /\ new.at = "quit" /\ new.task = job[p].task /\ new.mode = job[p].mode
        /\ new.err = err /\ new.again = job[p].again /\ new.ctx = job[p].ctx
    BY EngineTyped DEF Jobs, JobSteps
  <2>. HIDE DEF new
  <2>. QED BY <1>3, <2>1, <2>2, EngineTyped, JobUpdated DEF GoesOn
<1>4. CASE job[p].task = "restartStop"
  <2> DEFINE new == [Engine!NoJob EXCEPT !.task = "restartStart", !.at = "called",
                                         !.mode = "tun", !.err = err]
  <2>1. /\ job' = [job EXCEPT ![p] = new] /\ gate' = Engine!Free /\ registered' = registered
    BY <1>4 DEF Engine!AfterStop
  <2>2. new \in Jobs /\ new.at = "called" /\ new.task = "restartStart"
    BY DEF Engine!NoJob, Jobs, JobSteps, Modes, Engine!Modes
  <2>. HIDE DEF new
  <2>. QED BY <1>4, <2>1, <2>2, EngineTyped, JobUpdated
<1>5. CASE job[p].task = "refresh" /\ ~Engine!Returns(p)
  <2>1. ~err /\ Engine!Goes(p, "prep") /\ gate' = gate /\ registered' = registered
    BY <1>5 DEF Engine!AfterStop
  <2>. QED BY <1>5, <2>1, EngineTyped, GoesIs DEF JobSteps, GoesOn
<1>6. CASE job[p].task = "stop"
  BY <1>2, <1>6 DEF Engine!AfterStop
<1>. QED BY <1>1, <1>2, <1>3, <1>4, <1>5, <1>6

\* A stop that reports no error has brought everything down, whatever was dirty.
LEMMA SettleStopSound ==
  ASSUME EngineInv, NEW p \in Procs, Engine!SettleStop(p)
  PROVE  EngineInv'
<1>1. PICK restored \in BOOLEAN :
        SettledBy(p, restored) /\ Engine!AfterStop(p, Engine!StopFailed(p, restored))
  BY SettleIs DEF Engine!SettleStop, Engine!Holds
<1> DEFINE err == Engine!StopFailed(p, restored)
<1>2. gate = p /\ job[p].at = "settle"
  BY <1>1 DEF SettledBy
<1>3. err = (job[p].err \/ ~restored) /\ err \in BOOLEAN
  BY EngineTyped DEF Engine!StopFailed, Jobs
<1>4. ~err => /\ ~proxyOwned' /\ Engine!WorkerGone' /\ core'.state = "stopped"
              /\ ~ghost'.dirty
  BY <1>1, <1>3, ProcsAre
    DEF SettledBy, EngineInv, PlaceInv, GoesOn, IsOver, OthersRest, Rests, Held, NotHeld, TasksOf,
        Tasked, Launching, Starting, Changing, Stopping, Procs, Now, Engine!WorkerGone, StoppedInv
<1>5. ghost'.dirty = err /\ endpoint' = FALSE
  BY <1>1 DEF SettledBy
<1>. HIDE DEF err
<1>6. /\ job' \in [Procs -> Jobs] /\ OthersRest(p)
      /\ registered' \in Callers \cup {Engine!Free}
      /\ \/ gate' = Engine!Free /\ IsOver(p)
         \/ /\ gate' = Engine!Free /\ job[p].task = "shutdown"
            /\ GoesOn(p, "quit") /\ job'[p].err = err
         \/ /\ gate' = Engine!Free /\ job[p].task = "restartStop"
            /\ job'[p].task = "restartStart" /\ job'[p].at = "called"
         \/ /\ gate' = gate /\ job[p].task = "refresh" /\ ~err
            /\ GoesOn(p, "prep")
  BY <1>1, <1>2, <1>3, AfterStopIs DEF err
<1>7. EngineTypes'
  BY <1>1, <1>6 DEF SettledBy, EngineInv, EngineTypes, GoesOn, Procs
<1>8. PlaceInv'
  BY <1>1, <1>2, <1>6, ProcsAre
    DEF SettledBy, EngineInv, PlaceInv, GoesOn, IsOver, OthersRest, Rests, Held, NotHeld, TasksOf,
        Tasked, Launching, Starting, Changing, Stopping, Procs, Now, Engine!WorkerGone
<1>9. CompatInv'
  BY <1>1, <1>2, <1>6, ProcsAre
       DEF SettledBy, EngineInv, PlaceInv, GoesOn, IsOver, OthersRest, Rests, Held, NotHeld,
           TasksOf, Tasked, Launching, Starting, Changing, Stopping, Procs, Now,
           Engine!WorkerGone, CompatInv, Engine!ByUser, Engine!CountsReset
<1>10. ModeInv' /\ HotInv'
  BY <1>1, <1>2, <1>6, ProcsAre
    DEF SettledBy, EngineInv, PlaceInv, GoesOn, IsOver, OthersRest, Rests, Held, NotHeld, TasksOf,
        Tasked, Launching, Starting, Changing, Stopping, Procs, Now, Engine!WorkerGone, ModeInv,
        HotInv, Changing
<1>11. CoreInv'
  BY <1>1, <1>2, <1>6, ProcsAre
    DEF SettledBy, EngineInv, PlaceInv, GoesOn, IsOver, OthersRest, Rests, Held, NotHeld, TasksOf,
        Tasked, Launching, Starting, Changing, Stopping, Procs, Now, Engine!WorkerGone, CoreInv
<1>12. SessionInv'
  BY <1>1, <1>2, <1>4, <1>5, <1>6, ProcsAre
    DEF SettledBy, EngineInv, PlaceInv, GoesOn, IsOver, OthersRest, Rests, Held, NotHeld, TasksOf,
        Tasked, Launching, Starting, Changing, Stopping, Procs, Now, Engine!WorkerGone, SessionInv
<1>13. StoppedInv'
  <2>1. ~Now({"down", "settle"})' /\ ~Now(Starting)'
    BY <1>1, <1>2, <1>6, ProcsAre DEF SettledBy, Now, GoesOn, Starting, Changing
  <2>2. ASSUME NEW q \in Procs, job'[q].at = "quit", ~job'[q].err
        PROVE  Engine!WorkerGone' /\ ~proxyOwned'
    <3>1. CASE q = p
      BY <1>3, <1>4, <1>6, <2>2, <3>1 DEF IsOver, GoesOn
    <3>2. CASE q # p
      BY <1>1, <1>6, <2>2, <3>2
         DEF SettledBy, OthersRest, Rests, EngineInv, StoppedInv, Engine!WorkerGone, Procs
    <3>. QED BY <3>1, <3>2
  <2>. QED BY <1>5, <2>1, <2>2 DEF StoppedInv, Now, Procs
<1>14. ClosedInv'
  BY <1>1, <1>2, <1>4, <1>5, <1>6, ProcsAre
    DEF SettledBy, EngineInv, PlaceInv, GoesOn, IsOver, OthersRest, Rests, Held, NotHeld, TasksOf,
        Tasked, Launching, Starting, Changing, Stopping, Procs, Now, Engine!WorkerGone, ClosedInv
<1>15. RecoveryInv'
  BY <1>1, <1>2, <1>6, ProcsAre
    DEF SettledBy, EngineInv, PlaceInv, GoesOn, IsOver, OthersRest, Rests, Held, NotHeld, TasksOf,
        Tasked, Launching, Starting, Changing, Stopping, Procs, Now, Engine!WorkerGone,
        RecoveryInv, OnItsWay
<1>16. QuietInv'
  BY ZenonT(40), <1>1, <1>2, <1>4, <1>5, <1>6, ProcsAre
    DEF SettledBy, EngineInv, PlaceInv, GoesOn, IsOver, OthersRest, Rests, Held, NotHeld, TasksOf,
        Tasked, Launching, Starting, Changing, Stopping, Procs, Now, Engine!WorkerGone, QuietInv,
        CompatInv, RecoveryInv, OnItsWay, Engine!Nothing
<1>. QED BY <1>7, <1>8, <1>9, <1>10, <1>11, <1>12, <1>13, <1>14, <1>15, <1>16 DEF EngineInv

\* The end of Shutdown: what its Stop brought down is not brought up meanwhile,
\* and if it brought down less than everything that shows.
LEMMA QuitSound ==
  ASSUME EngineInv, NEW p \in Procs, Engine!Quit(p)
  PROVE  EngineInv'
<1>1. /\ job[p].at = "quit" /\ closed' = TRUE /\ core' = Engine!NoCore
      /\ ghost' = [ghost EXCEPT !.dirty = @ \/ job[p].err]
      /\ UNCHANGED <<mode, closing, proxyOwned, endpoint, binding, compat, hotspot>>
  BY DEF Engine!Quit
<1>2. gate # p /\ job[p].task = "shutdown"
  BY <1>1, ProcsAre
    DEF EngineInv, PlaceInv, GoesOn, IsOver, OthersRest, Rests, Held, NotHeld, TasksOf, Tasked,
        Launching, Starting, Changing, Stopping, Procs, Now, Engine!WorkerGone
<1>3. IsOver(p) /\ gate' = gate /\ registered' \in Callers \cup {Engine!Free}
  BY <1>2, EngineTyped, ReturnsIs DEF Engine!Quit
<1>4. /\ ghost' \in Ghosts /\ ghost'.dirty = (ghost.dirty \/ job[p].err)
      /\ ghost'.good = ghost.good /\ ghost'.lost = ghost.lost
      /\ ghost'.quiet = ghost.quiet /\ ghost'.overtaken = ghost.overtaken
      /\ ghost'.muted = ghost.muted /\ ghost'.restarts = ghost.restarts
  BY <1>1, EngineTyped DEF Ghosts, Jobs
<1>5. EngineTypes'
  BY <1>1, <1>3, <1>4, NothingIs DEF EngineInv, EngineTypes, IsOver, Procs
<1>6. ClosedInv' /\ SessionInv'
  BY ZenonT(40), <1>1, <1>2, <1>3, <1>4, NothingIs, EngineTyped, ProcsAre
    DEF EngineInv, PlaceInv, GoesOn, IsOver, OthersRest, Rests, Held, NotHeld, TasksOf, Tasked,
        Launching, Starting, Changing, Stopping, Procs, Now, Engine!WorkerGone, StoppedInv,
        ClosedInv, SessionInv
<1>7. StoppedInv'
  BY <1>1, <1>2, <1>3, <1>4, NothingIs, EngineTyped, ProcsAre
    DEF EngineInv, PlaceInv, GoesOn, IsOver, OthersRest, Rests, Held, NotHeld, TasksOf, Tasked,
        Launching, Starting, Changing, Stopping, Procs, Now, Engine!WorkerGone, StoppedInv
<1>. QED BY <1>1, <1>2, <1>3, <1>4, <1>5, <1>6, <1>7, NothingIs, EngineTyped, ProcsAre
  DEF EngineInv, PlaceInv, CompatInv, HotInv, ModeInv, CoreInv, QuietInv, RecoveryInv, OnItsWay,
      GoesOn, IsOver, OthersRest, Rests, Held, NotHeld, TasksOf, Tasked, Launching, Starting,
      Changing, Stopping, Procs, Now, Engine!WorkerGone, Engine!Nothing

LEMMA TakeGateSound ==
  ASSUME EngineInv, NEW p \in Procs, Engine!TakeGate(p)
  PROVE  EngineInv'
<1> DEFINE step == Engine!FirstStep(job[p].task)
<1>1. /\ job[p].at = "queued" /\ gate = Engine!Free /\ gate' = p /\ Engine!Goes(p, step)
      /\ UNCHANGED <<mode, closing, closed, core, proxyOwned, endpoint, binding, compat, hotspot,
                     registered, ghost>>
  BY DEF Engine!TakeGate, Engine!session
<1>2. job[p].task \in {"restartStop", "restartStart"} \cup Tasked
  BY <1>1, ProcsAre
    DEF EngineInv, PlaceInv, GoesOn, IsOver, OthersRest, Rests, Held, NotHeld, TasksOf, Tasked,
        Launching, Starting, Changing, Stopping, Procs, Now, Engine!WorkerGone
<1>3. /\ step \in {"hotspot", "prep", "share", "act"} /\ Held(job[p].task, step)
      /\ step = "share" => job[p].task = "hotspotOn"
  BY <1>2 DEF Engine!FirstStep, Tasked, Held, Stopping, Launching
<1>. HIDE DEF step
<1>4. GoesOn(p, step) /\ job'[p].prev = job[p].prev /\ job'[p].err = job[p].err
  BY <1>1, <1>3, EngineTyped, GoesIs DEF JobSteps
<1>5. EngineTypes'
  BY <1>1, <1>4 DEF EngineInv, EngineTypes, GoesOn, Procs
<1>. QED BY <1>1, <1>2, <1>3, <1>4, <1>5, EngineTyped, ProcsAre
  DEF EngineInv, PlaceInv, CompatInv, HotInv, ModeInv, CoreInv, SessionInv, StoppedInv, ClosedInv,
      QuietInv, RecoveryInv, OnItsWay, GoesOn, IsOver, OthersRest, Rests, Held, NotHeld, TasksOf,
      Tasked, Launching, Starting, Changing, Stopping, Procs, Now, Engine!WorkerGone,
      Engine!Nothing

LEMMA GivesUpSound ==
  ASSUME EngineInv, NEW p \in Procs, Engine!GivesUp(p)
  PROVE  EngineInv'
<1>1. /\ job[p].at = "queued"
      /\ UNCHANGED <<mode, closing, closed, core, proxyOwned, endpoint, binding, compat, hotspot,
                     ghost>>
  BY DEF Engine!GivesUp, Engine!session
<1>2. gate # p
  BY <1>1, ProcsAre
    DEF EngineInv, PlaceInv, GoesOn, IsOver, OthersRest, Rests, Held, NotHeld, TasksOf, Tasked,
        Launching, Starting, Changing, Stopping, Procs, Now, Engine!WorkerGone
<1>3. /\ job' \in [Procs -> Jobs] /\ OthersRest(p)
      /\ gate' = gate /\ registered' \in Callers \cup {Engine!Free}
      /\ \/ /\ job[p].task = "restartStop" /\ job'[p].task = "restartStart"
            /\ job'[p].at = "called"
         \/ job[p].task = "shutdown" /\ GoesOn(p, "quit") /\ job'[p].err = TRUE
         \/ IsOver(p)
  <2>1. CASE job[p].task = "restartStop"
    <3> DEFINE new == [job[p] EXCEPT !.task = "restartStart", !.at = "called", !.err = TRUE]
    <3>1. job' = [job EXCEPT ![p] = new] /\ gate' = gate /\ registered' = registered
      BY <2>1 DEF Engine!GivesUp
    <3>2. new \in Jobs /\ new.task = "restartStart" /\ new.at = "called"
      BY ZenonT(40), EngineTyped DEF Jobs, JobSteps
    <3>. HIDE DEF new
    <3>. QED BY <2>1, <3>1, <3>2, EngineTyped, JobUpdated
  <2>2. CASE job[p].task = "shutdown"
    BY <2>2, EngineTyped, FailsIs DEF Engine!GivesUp, JobSteps, GoesOn
  <2>3. CASE job[p].task \notin {"restartStop", "shutdown"}
    BY <1>2, <2>3, EngineTyped, ReturnsIs DEF Engine!GivesUp, IsOver
  <2>. QED BY <2>1, <2>2, <2>3
<1>4. EngineTypes'
  BY <1>1, <1>3 DEF EngineInv, EngineTypes, Procs
<1>5. PlaceInv' /\ CompatInv'
  BY <1>1, <1>2, <1>3, EngineTyped, ProcsAre
    DEF EngineInv, PlaceInv, GoesOn, IsOver, OthersRest, Rests, Held, NotHeld, TasksOf, Tasked,
        Launching, Starting, Changing, Stopping, Procs, Now, Engine!WorkerGone, CompatInv
<1>6. HotInv'
  BY <1>1, <1>2, <1>3, EngineTyped, ProcsAre
    DEF EngineInv, PlaceInv, GoesOn, IsOver, OthersRest, Rests, Held, NotHeld, TasksOf, Tasked,
        Launching, Starting, Changing, Stopping, Procs, Now, Engine!WorkerGone, HotInv
<1>7. StoppedInv' /\ ClosedInv'
  BY <1>1, <1>2, <1>3, EngineTyped, ProcsAre
    DEF EngineInv, PlaceInv, GoesOn, IsOver, OthersRest, Rests, Held, NotHeld, TasksOf, Tasked,
        Launching, Starting, Changing, Stopping, Procs, Now, Engine!WorkerGone, StoppedInv,
        ClosedInv
<1>8. QuietInv' /\ RecoveryInv'
  BY <1>1, <1>2, <1>3, EngineTyped, ProcsAre
    DEF EngineInv, PlaceInv, GoesOn, IsOver, OthersRest, Rests, Held, NotHeld, TasksOf, Tasked,
        Launching, Starting, Changing, Stopping, Procs, Now, Engine!WorkerGone, QuietInv,
        RecoveryInv, OnItsWay, Engine!Nothing
<1>. QED BY <1>1, <1>2, <1>3, <1>4, <1>5, <1>6, <1>7, <1>8, EngineTyped, ProcsAre
  DEF EngineInv, ModeInv, CoreInv, SessionInv, GoesOn, IsOver, OthersRest, Rests, Starting,
      Changing, Procs, Now

LEMMA ExpiresSound ==
  ASSUME EngineInv, NEW p \in Procs, Engine!Expires(p)
  PROVE  EngineInv'
<1> DEFINE new == [job[p] EXCEPT !.ctx = "expired"]
<1>1. /\ gate = p /\ job' = [job EXCEPT ![p] = new]
      /\ UNCHANGED <<gate, mode, closing, closed, core, proxyOwned, endpoint, binding, compat,
                     hotspot, registered, ghost>>
  BY DEF Engine!Expires, Engine!session
<1>2. /\ new \in Jobs /\ new.at = job[p].at /\ new.task = job[p].task /\ new.mode = job[p].mode
      /\ new.prev = job[p].prev /\ new.err = job[p].err /\ new.again = job[p].again
      /\ new.ctx # "live"
  BY EngineTyped DEF Jobs
<1>. HIDE DEF new
<1>3. job' \in [Procs -> Jobs] /\ \A q \in Procs : Rests(q)
  BY <1>1, <1>2, EngineTyped, JobUpdated DEF OthersRest, Rests
<1>4. EngineTypes'
  BY <1>1, <1>3 DEF EngineInv, EngineTypes, Procs
<1>. QED BY <1>1, <1>3, <1>4, EngineTyped, ProcsAre
  DEF EngineInv, PlaceInv, CompatInv, HotInv, ModeInv, CoreInv, SessionInv, StoppedInv, ClosedInv,
      QuietInv, RecoveryInv, OnItsWay, GoesOn, IsOver, OthersRest, Rests, Held, NotHeld, TasksOf,
      Tasked, Launching, Starting, Changing, Stopping, Procs, Now, Engine!WorkerGone,
      Engine!Nothing

LEMMA QueuesSound ==
  ASSUME EngineInv, NEW p \in Procs, Engine!Queues(p)
  PROVE  EngineInv'
<1> DEFINE new == [job[p] EXCEPT !.at = "queued"]
           next == [job EXCEPT ![p] = new]
<1>1. /\ job[p].at = "called"
      /\ \/ job' = Engine!RefreshCancelled(next) /\ binding' = Engine!Revoked
         \/ job' \in {next, Engine!HotspotStartCancelled(next)} /\ UNCHANGED binding
      /\ UNCHANGED <<gate, mode, closing, closed, core, proxyOwned, endpoint, compat, hotspot,
                     registered, ghost>>
  BY DEF Engine!Queues, Engine!session
<1>2. /\ new \in Jobs /\ new.at = "queued" /\ new.task = job[p].task /\ new.mode = job[p].mode
      /\ new.prev = job[p].prev /\ new.err = job[p].err /\ new.again = job[p].again
      /\ new.ctx = job[p].ctx
  BY EngineTyped DEF Jobs, JobSteps
<1>. HIDE DEF new
<1>3. next \in [Procs -> Jobs] /\ next[p] = new /\ \A q \in Procs : q # p => next[q] = job[q]
  BY <1>2, EngineTyped
<1>. HIDE DEF next
<1>4. Cancelled(next, job')
  BY <1>1, <1>3, EngineTyped, RefreshCancelledIs, StartCancelledIs, CancelIs, ProcsAre
<1>5. /\ job' \in [Procs -> Jobs] /\ OthersRest(p) /\ job'[p].at = "queued"
      /\ job'[p].task = job[p].task /\ job'[p].again = job[p].again /\ job'[p].err = job[p].err
      /\ job'[p].ctx = "live" => job[p].ctx = "live"
  BY <1>2, <1>3, <1>4 DEF Cancelled, OthersRest, Rests
<1>6. /\ binding' \in Bindings
      /\ binding' = binding \/ (~binding'.enabled /\ binding'.recovery = "none")
  BY <1>1, EngineTyped, RevokedIs
<1>7. gate # p
  BY <1>1, ProcsAre
    DEF EngineInv, PlaceInv, GoesOn, IsOver, OthersRest, Rests, Held, NotHeld, TasksOf, Tasked,
        Launching, Starting, Changing, Stopping, Procs, Now, Engine!WorkerGone
<1>8. EngineTypes'
  BY <1>1, <1>5, <1>6 DEF EngineInv, EngineTypes, Procs
<1>. QED BY <1>1, <1>5, <1>6, <1>7, <1>8, EngineTyped, ProcsAre
  DEF EngineInv, PlaceInv, CompatInv, HotInv, ModeInv, CoreInv, SessionInv, StoppedInv, ClosedInv,
      QuietInv, RecoveryInv, OnItsWay, GoesOn, IsOver, OthersRest, Rests, Held, NotHeld, TasksOf,
      Tasked, Launching, Starting, Changing, Stopping, Procs, Now, Engine!WorkerGone,
      Engine!Nothing

LEMMA CallSound ==
  ASSUME EngineInv, NEW p \in Callers, NEW task \in Tasks, NEW m \in Modes,
         Engine!Call(p, task, m)
  PROVE  EngineInv'
<1> DEFINE waits == IF task \in {"start", "stop", "shutdown"} THEN "called" ELSE "queued"
           new == [Engine!NoJob EXCEPT !.task = task, !.mode = m, !.at = waits]
           next == [job EXCEPT ![p] = new]
           g == [ghost EXCEPT !.quiet = @ /\ task # "start", !.muted = @ /\ task # "hotspotOn"]
<1>1. /\ job[p] = Engine!NoJob /\ (task = "shutdown" => ~closing)
      /\ closing' = (closing \/ task = "shutdown") /\ ghost' = g
      /\ registered' \in {registered, p}
      /\ binding' = IF task \in {"start", "stop", "shutdown"} THEN Engine!Revoked ELSE binding
      /\ UNCHANGED <<gate, mode, closed, core, proxyOwned, endpoint, compat, hotspot>>
  BY DEF Engine!Call, Engine!session
<1>2. job' = CASE task \in {"start", "stop", "shutdown"} -> Engine!RefreshCancelled(next)
               [] task = "hotspotOff" -> Engine!HotspotStartCancelled(next)
               [] OTHER -> next
  BY DEF Engine!Call
<1>3. task \in Tasked /\ p \in Procs
  BY CallersAssumption, ProcsAre DEF Tasked
<1>4. /\ new \in Jobs /\ new.at = waits /\ new.task = task /\ new.err = FALSE
      /\ new.again = FALSE
  BY <1>3 DEF Engine!NoJob, Jobs, JobSteps, Modes, Engine!Modes
<1>5. /\ g \in Ghosts /\ g.dirty = ghost.dirty /\ g.good = ghost.good /\ g.lost = ghost.lost
      /\ g.quiet = (ghost.quiet /\ task # "start") /\ g.overtaken = ghost.overtaken
      /\ g.muted = (ghost.muted /\ task # "hotspotOn") /\ g.restarts = ghost.restarts
  BY EngineTyped DEF Ghosts
<1>. HIDE DEF new, g
<1>6. waits \in {"called", "queued"} /\ (ghost'.muted => ghost.muted /\ task # "hotspotOn")
  BY <1>1, <1>5
<1>. HIDE DEF waits
<1>7. next \in [Procs -> Jobs] /\ next[p] = new /\ \A q \in Procs : q # p => next[q] = job[q]
  BY <1>3, <1>4, EngineTyped
<1>. HIDE DEF next
<1>8. /\ Cancelled(next, job')
      /\ task \in {"start", "stop", "shutdown"} /\ next[Engine!Refresh].task = "refresh" =>
           job'[Engine!Refresh].ctx # "live"
  BY <1>2, <1>7, EngineTyped, RefreshCancelledIs, StartCancelledIs, CancelIs, ProcsAre
<1>9. /\ job' \in [Procs -> Jobs] /\ OthersRest(p) /\ job'[p].at = waits /\ job'[p].task = task
      /\ ~job'[p].again /\ ~job'[p].err
      /\ task \in {"start", "stop", "shutdown"} /\ job[Engine!Refresh].task = "refresh" =>
           job'[Engine!Refresh].ctx # "live"
  BY <1>3, <1>4, <1>7, <1>8, ProcsAre DEF Cancelled, OthersRest, Rests
<1>10. /\ binding' \in Bindings
      /\ IF task \in {"start", "stop", "shutdown"}
         THEN ~binding'.enabled /\ binding'.recovery = "none" ELSE binding' = binding
  BY <1>1, EngineTyped, RevokedIs
<1>11. gate # p /\ job[p].task = "none" /\ job[p].at = "idle"
  BY <1>1, NoJobIs, ProcsAre
    DEF EngineInv, PlaceInv, GoesOn, IsOver, OthersRest, Rests, Held, NotHeld, TasksOf, Tasked,
        Launching, Starting, Changing, Stopping, Procs, Now, Engine!WorkerGone
<1>12. EngineTypes'
  BY <1>1, <1>5, <1>9, <1>10, ProcsAre DEF EngineInv, EngineTypes, Procs
<1>13. PlaceInv'
  <2>1. ASSUME NEW q \in Procs, q # p
        PROVE  /\ job'[q].task \in TasksOf(q)
               /\ IF gate' = q THEN Held(job'[q].task, job'[q].at)
                  ELSE NotHeld(job'[q].task, job'[q].at)
               /\ job'[q].at = "over" => q = Engine!Consumer
               /\ job'[q].task = "none" => ~job'[q].again
               /\ job'[q].task = "shutdown" => closing'
    BY <1>1, <1>9, <2>1 DEF OthersRest, Rests, EngineInv, PlaceInv, Procs
  <2>2. /\ job'[p].task \in TasksOf(p) /\ NotHeld(job'[p].task, job'[p].at)
        /\ job'[p].at # "over" /\ ~job'[p].again /\ gate' # p
        /\ job'[p].task = "shutdown" => closing'
    BY <1>1, <1>3, <1>9, <1>6, <1>11, ProcsAre DEF TasksOf, NotHeld, Tasked
  <2>. QED BY <1>1, <2>1, <2>2 DEF EngineInv, PlaceInv, Procs
<1>14. HotInv'
  BY <1>1, <1>3, <1>5, <1>6, <1>9, <1>10, <1>11, EngineTyped, ProcsAre
    DEF EngineInv, PlaceInv, GoesOn, IsOver, OthersRest, Rests, Held, NotHeld, TasksOf, Tasked,
        Launching, Starting, Changing, Stopping, Procs, Now, Engine!WorkerGone, HotInv
<1>15. QuietInv'
  BY <1>1, <1>3, <1>5, <1>6, <1>9, <1>10, <1>11, EngineTyped, ProcsAre
    DEF EngineInv, PlaceInv, GoesOn, IsOver, OthersRest, Rests, Held, NotHeld, TasksOf, Tasked,
        Launching, Starting, Changing, Stopping, Procs, Now, Engine!WorkerGone, QuietInv,
        Engine!Nothing
<1>16. RecoveryInv'
  BY <1>1, <1>3, <1>5, <1>6, <1>9, <1>10, <1>11, EngineTyped, ProcsAre
    DEF EngineInv, PlaceInv, GoesOn, IsOver, OthersRest, Rests, Held, NotHeld, TasksOf, Tasked,
        Launching, Starting, Changing, Stopping, Procs, Now, Engine!WorkerGone, RecoveryInv,
        OnItsWay
<1>. QED BY <1>1, <1>3, <1>5, <1>6, <1>9, <1>10, <1>11, <1>12, <1>13, <1>14, <1>15, <1>16,
            EngineTyped, ProcsAre
  DEF EngineInv, CompatInv, ModeInv, CoreInv, SessionInv, StoppedInv, ClosedInv, OnItsWay, GoesOn,
      IsOver, OthersRest, Rests, Held, NotHeld, TasksOf, Tasked, Launching, Starting, Changing,
      Stopping, Procs, Now, Engine!WorkerGone, Engine!Nothing

\* The flags and the counts a start resets.
LEMMA ResetIs ==
  ASSUME EngineInv, NEW p \in Procs,
         compat' \in {compat, Engine!FlagsReset},
         \/ ghost' = ghost /\ compat' = compat
         \/ ghost' = [ghost EXCEPT !.restarts = Engine!CountsReset(p)]
  PROVE  /\ compat' \in Compats /\ compat'.restarting = compat.restarting
         /\ compat'.applied = compat.applied \/ Engine!ByUser
         /\ ghost' \in Ghosts /\ ghost'.dirty = ghost.dirty /\ ghost'.good = ghost.good
         /\ ghost'.lost = ghost.lost /\ ghost'.quiet = ghost.quiet
         /\ ghost'.overtaken = ghost.overtaken /\ ghost'.muted = ghost.muted
         /\ \/ ghost'.restarts = ghost.restarts /\ compat' = compat
            \/ ghost'.restarts = Engine!CountsReset(p)
<1>1. Engine!CountsReset(p) \in [Kinds -> Nat]
  BY EngineTyped DEF Engine!CountsReset, Ghosts
<1>2. /\ compat' \in Compats /\ compat'.restarting = compat.restarting
      /\ compat'.applied = compat.applied \/ Engine!ByUser
  BY EngineTyped DEF Engine!FlagsReset, Compats
<1>. QED BY <1>1, <1>2, EngineTyped DEF Ghosts

\* Nobody's handler or refresh resets flags that still count.
LEMMA ResetCounts ==
  ASSUME EngineInv, NEW p \in Procs, gate = p, job[p].at \in {"prep", "settle"},
         compat'.restarting = compat.restarting,
         compat'.applied = compat.applied \/ Engine!ByUser,
         \/ ghost'.restarts = ghost.restarts /\ compat' = compat
         \/ ghost'.restarts = Engine!CountsReset(p)
  PROVE  \A k \in Kinds : /\ ghost'.restarts[k] <= 1
                          /\ ghost'.restarts[k] # 0 => k \in compat'.applied
BY EngineTyped, ProcsAre DEF EngineInv, CompatInv, PlaceInv, Held, NotHeld, TasksOf, Procs,
   Engine!CountsReset, Engine!ByUser, Ghosts

LEMMA StartPreparedSound ==
  ASSUME EngineInv, NEW p \in Procs, Engine!Prepare(p)
  PROVE  EngineInv'
<1> DEFINE new == [job[p] EXCEPT !.at = "connect", !.prev = mode]
<1>1. /\ gate = p /\ job[p].at = "prep" /\ ~closing /\ job' = [job EXCEPT ![p] = new]
      /\ compat' = Engine!FlagsReset /\ ghost' = [ghost EXCEPT !.restarts = Engine!CountsReset(p)]
      /\ UNCHANGED <<gate, mode, closing, closed, core, proxyOwned, endpoint, binding, hotspot,
                     registered>>
  BY DEF Engine!Prepare, Engine!Holds, Engine!PrepRefuses, Engine!session
<1>2. /\ new \in Jobs /\ new.at = "connect" /\ new.task = job[p].task /\ new.mode = job[p].mode
      /\ new.prev = mode /\ new.err = job[p].err /\ new.again = job[p].again
      /\ new.ctx = job[p].ctx
  BY EngineTyped DEF Jobs, JobSteps
<1>. HIDE DEF new
<1>3. GoesOn(p, "connect") /\ job'[p].prev = mode /\ job'[p].err = job[p].err
  BY <1>1, <1>2, EngineTyped, JobUpdated DEF GoesOn
<1>4. /\ compat' \in Compats /\ compat'.restarting = compat.restarting
      /\ ghost' \in Ghosts /\ ghost'.dirty = ghost.dirty /\ ghost'.good = ghost.good
      /\ ghost'.lost = ghost.lost /\ ghost'.quiet = ghost.quiet
      /\ ghost'.overtaken = ghost.overtaken /\ ghost'.muted = ghost.muted
      /\ \A k \in Kinds : /\ ghost'.restarts[k] <= 1
                          /\ ghost'.restarts[k] # 0 => k \in compat'.applied
  BY <1>1, ResetIs, ResetCounts
<1>5. EngineTypes'
  BY <1>1, <1>3, <1>4 DEF EngineInv, EngineTypes, GoesOn, Procs
<1>6. StoppedInv' /\ ClosedInv'
  BY <1>1, <1>3, <1>4, EngineTyped, ProcsAre
    DEF EngineInv, PlaceInv, GoesOn, IsOver, OthersRest, Rests, Held, NotHeld, TasksOf, Tasked,
        Launching, Starting, Changing, Stopping, Procs, Now, Engine!WorkerGone, StoppedInv,
        ClosedInv
<1>. QED BY <1>1, <1>3, <1>4, <1>5, <1>6, EngineTyped, ProcsAre
  DEF EngineInv, PlaceInv, CompatInv, HotInv, ModeInv, CoreInv, SessionInv, QuietInv, RecoveryInv,
      OnItsWay, GoesOn, IsOver, OthersRest, Rests, Held, NotHeld, TasksOf, Tasked, Launching,
      Starting, Changing, Stopping, Procs, Now, Engine!WorkerGone, Engine!Nothing

LEMMA PrepFailsSound ==
  ASSUME EngineInv, NEW p \in Procs, Engine!PrepFails(p)
  PROVE  EngineInv'
<1>1. /\ gate = p /\ job[p].at = "prep" /\ Engine!Returns(p)
      /\ compat' \in {compat, Engine!FlagsReset}
      /\ \/ ghost' = ghost /\ compat' = compat
         \/ ghost' = [ghost EXCEPT !.restarts = Engine!CountsReset(p)]
      /\ UNCHANGED <<mode, closing, closed, core, proxyOwned, endpoint, binding, hotspot>>
  BY DEF Engine!PrepFails, Engine!Holds, Engine!session
<1>2. IsOver(p) /\ gate' = Engine!Free /\ registered' \in Callers \cup {Engine!Free}
  BY <1>1, EngineTyped, ReturnsIs
<1>3. /\ compat' \in Compats /\ compat'.restarting = compat.restarting
      /\ ghost' \in Ghosts /\ ghost'.dirty = ghost.dirty /\ ghost'.good = ghost.good
      /\ ghost'.lost = ghost.lost /\ ghost'.quiet = ghost.quiet
      /\ ghost'.overtaken = ghost.overtaken /\ ghost'.muted = ghost.muted
      /\ \A k \in Kinds : /\ ghost'.restarts[k] <= 1
                          /\ ghost'.restarts[k] # 0 => k \in compat'.applied
  BY <1>1, ResetIs, ResetCounts
<1>4. EngineTypes'
  BY <1>1, <1>2, <1>3 DEF EngineInv, EngineTypes, IsOver, Procs
<1>. QED BY <1>1, <1>2, <1>3, <1>4, EngineTyped, ProcsAre
  DEF EngineInv, PlaceInv, CompatInv, HotInv, ModeInv, CoreInv, SessionInv, StoppedInv, ClosedInv,
      QuietInv, RecoveryInv, OnItsWay, GoesOn, IsOver, OthersRest, Rests, Held, NotHeld, TasksOf,
      Tasked, Launching, Starting, Changing, Stopping, Procs, Now, Engine!WorkerGone,
      Engine!Nothing

\* What ends a session that ran makes the desktop dirty, and nothing else does.
LEMMA DirtyIs ==
  ASSUME EngineInv, ghost' = [ghost EXCEPT !.dirty = @ \/ Engine!Killed]
  PROVE  /\ ghost' \in Ghosts /\ ghost'.good = ghost.good /\ ghost'.lost = ghost.lost
         /\ ghost'.quiet = ghost.quiet /\ ghost'.overtaken = ghost.overtaken
         /\ ghost'.muted = ghost.muted /\ ghost'.restarts = ghost.restarts
         /\ ~ghost'.dirty =>
              ~ghost.dirty /\ (core'.state = "stopped" => core.state = "stopped")
<1> DEFINE dirty == ghost.dirty \/ Engine!Killed
<1>1. dirty \in BOOLEAN
  OBVIOUS
<1>2. dirty = (ghost.dirty \/ (core.state # "stopped" /\ core'.state = "stopped"))
  BY DEF Engine!Killed
<1>. HIDE DEF dirty
<1>3. ghost' = [ghost EXCEPT !.dirty = dirty]
  BY DEF dirty
<1>. QED BY <1>1, <1>2, <1>3, EngineTyped DEF Ghosts

LEMMA ConnectSound ==
  ASSUME EngineInv, NEW p \in Procs, Engine!Connect(p)
  PROVE  EngineInv'
<1>1. /\ gate = p /\ job[p].at = "connect" /\ ~closed /\ Engine!Goes(p, "launch")
      /\ core' = Engine!Connected(job[p].mode = "tun") /\ mode' = job[p].mode
      /\ ghost' = [ghost EXCEPT !.dirty = @ \/ Engine!Killed]
      /\ UNCHANGED <<gate, closing, closed, proxyOwned, endpoint, binding, compat, hotspot,
                     registered>>
  BY DEF Engine!Connect, Engine!Holds
<1>2. GoesOn(p, "launch") /\ job'[p].prev = job[p].prev /\ job'[p].err = job[p].err
  BY <1>1, EngineTyped, GoesIs DEF JobSteps
<1>3. /\ core' \in Cores /\ core'.host # "none"
      /\ core' = core \/ (core'.state = "stopped" /\ ~core'.tun)
      /\ mode' \in Modes
  BY <1>1, EngineTyped, ConnectedIs DEF Jobs
<1>4. /\ ghost' \in Ghosts /\ ghost'.good = ghost.good /\ ghost'.lost = ghost.lost
      /\ ghost'.quiet = ghost.quiet /\ ghost'.overtaken = ghost.overtaken
      /\ ghost'.muted = ghost.muted /\ ghost'.restarts = ghost.restarts
      /\ ~ghost'.dirty => ~ghost.dirty /\ (core'.state = "stopped" => core.state = "stopped")
  BY <1>1, DirtyIs
<1>5. EngineTypes'
  BY <1>1, <1>2, <1>3, <1>4 DEF EngineInv, EngineTypes, GoesOn, Procs
<1>6. ModeInv' /\ SessionInv'
  BY <1>1, <1>2, <1>3, <1>4, EngineTyped, ProcsAre
    DEF EngineInv, PlaceInv, GoesOn, IsOver, OthersRest, Rests, Held, NotHeld, TasksOf, Tasked,
        Launching, Starting, Changing, Stopping, Procs, Now, Engine!WorkerGone, ModeInv,
        SessionInv
<1>. QED BY <1>1, <1>2, <1>3, <1>4, <1>5, <1>6, EngineTyped, ProcsAre
  DEF EngineInv, PlaceInv, CompatInv, HotInv, CoreInv, StoppedInv, ClosedInv, QuietInv,
      RecoveryInv, OnItsWay, GoesOn, IsOver, OthersRest, Rests, Held, NotHeld, TasksOf, Tasked,
      Launching, Starting, Changing, Stopping, Procs, Now, Engine!WorkerGone, Engine!Nothing

LEMMA ConnectFailsSound ==
  ASSUME EngineInv, NEW p \in Procs, Engine!ConnectFails(p)
  PROVE  EngineInv'
<1>1. /\ gate = p /\ job[p].at = "connect" /\ Engine!Returns(p)
      /\ core' \in {core, Engine!NoCore}
      /\ ghost' = [ghost EXCEPT !.dirty = @ \/ Engine!Killed]
      /\ UNCHANGED <<mode, closing, closed, proxyOwned, endpoint, binding, compat, hotspot>>
  BY DEF Engine!ConnectFails, Engine!Holds
<1>2. IsOver(p) /\ gate' = Engine!Free /\ registered' \in Callers \cup {Engine!Free}
  BY <1>1, EngineTyped, ReturnsIs
<1>3. /\ ghost' \in Ghosts /\ ghost'.good = ghost.good /\ ghost'.lost = ghost.lost
      /\ ghost'.quiet = ghost.quiet /\ ghost'.overtaken = ghost.overtaken
      /\ ghost'.muted = ghost.muted /\ ghost'.restarts = ghost.restarts
      /\ ~ghost'.dirty => ~ghost.dirty /\ (core'.state = "stopped" => core.state = "stopped")
  BY <1>1, DirtyIs
<1>4. EngineTypes'
  BY <1>1, <1>2, <1>3, NothingIs DEF EngineInv, EngineTypes, IsOver, Procs
<1>5. SessionInv'
  BY <1>1, <1>2, <1>3, NothingIs, EngineTyped, ProcsAre
    DEF EngineInv, PlaceInv, GoesOn, IsOver, OthersRest, Rests, Held, NotHeld, TasksOf, Tasked,
        Launching, Starting, Changing, Stopping, Procs, Now, Engine!WorkerGone, SessionInv
<1>. QED BY <1>1, <1>2, <1>3, <1>4, <1>5, NothingIs, EngineTyped, ProcsAre
  DEF EngineInv, PlaceInv, CompatInv, HotInv, ModeInv, CoreInv, StoppedInv, ClosedInv, QuietInv,
      RecoveryInv, OnItsWay, GoesOn, IsOver, OthersRest, Rests, Held, NotHeld, TasksOf, Tasked,
      Launching, Starting, Changing, Stopping, Procs, Now, Engine!WorkerGone, Engine!Nothing

LEMMA LaunchSound ==
  ASSUME EngineInv, NEW p \in Procs, Engine!Launch(p)
  PROVE  EngineInv'
<1> DEFINE c == [core EXCEPT !.state = "running", !.mode = job[p].mode, !.tun = FALSE]
<1>1. /\ gate = p /\ job[p].at = "launch" /\ Engine!Goes(p, "egress") /\ core' = c
      /\ core.host # "none" /\ core.state # "running"
      /\ UNCHANGED <<gate, mode, closing, closed, proxyOwned, endpoint, binding, compat, hotspot,
                     registered, ghost>>
  BY DEF Engine!Launch, Engine!Holds
<1>2. GoesOn(p, "egress") /\ job'[p].prev = job[p].prev /\ job'[p].err = job[p].err
  BY <1>1, EngineTyped, GoesIs DEF JobSteps
<1>3. c \in Cores /\ c.host = core.host /\ c.state = "running" /\ c.mode = job[p].mode /\ ~c.tun
  BY EngineTyped DEF Cores, Jobs
<1>. HIDE DEF c
<1>4. EngineTypes'
  BY <1>1, <1>2, <1>3 DEF EngineInv, EngineTypes, GoesOn, Procs
<1>5. SessionInv'
  BY <1>1, <1>2, <1>3, EngineTyped, ProcsAre
    DEF EngineInv, PlaceInv, GoesOn, IsOver, OthersRest, Rests, Held, NotHeld, TasksOf, Tasked,
        Launching, Starting, Changing, Stopping, Procs, Now, Engine!WorkerGone, SessionInv
<1>. QED BY <1>1, <1>2, <1>3, <1>4, <1>5, EngineTyped, ProcsAre
  DEF EngineInv, PlaceInv, CompatInv, HotInv, ModeInv, CoreInv, StoppedInv, ClosedInv, QuietInv,
      RecoveryInv, OnItsWay, GoesOn, IsOver, OthersRest, Rests, Held, NotHeld, TasksOf, Tasked,
      Launching, Starting, Changing, Stopping, Procs, Now, Engine!WorkerGone, Engine!Nothing

\* The mode a failed start leaves is the one it found, if it could be written.
LEMMA ModeRestoredIs ==
  ASSUME EngineInv, NEW p \in Procs, gate = p, job[p].at \in {"launch", "undo"},
         NEW saved \in BOOLEAN, mode' = IF saved THEN Engine!ModeRestored(p) ELSE mode
  PROVE  mode' \in Modes /\ (saved /\ ~ghost.lost => mode' = ghost.good)
BY EngineTyped, ProcsAre DEF EngineInv, ModeInv, Now, Changing, Engine!ModeRestored, Jobs

LEMMA LaunchFailsSound ==
  ASSUME EngineInv, NEW p \in Procs, Engine!LaunchFails(p)
  PROVE  EngineInv'
<1> DEFINE c == [core EXCEPT !.state = "stopped"]
           dirty == ghost.dirty \/ Engine!Killed
<1>1. PICK saved \in BOOLEAN :
        /\ gate = p /\ job[p].at = "launch" /\ Engine!Returns(p)
        /\ mode' = IF saved THEN Engine!ModeRestored(p) ELSE mode
        /\ core' = core \/ (core.state = "failed" /\ core' = c)
        /\ ghost' = [ghost EXCEPT !.dirty = dirty, !.lost = @ \/ ~saved]
        /\ UNCHANGED <<closing, closed, proxyOwned, endpoint, binding, compat, hotspot>>
  BY DEF Engine!LaunchFails, Engine!Holds
<1>2. IsOver(p) /\ gate' = Engine!Free /\ registered' \in Callers \cup {Engine!Free}
  BY <1>1, EngineTyped, ReturnsIs
<1>3. c \in Cores /\ c.host = core.host /\ c.state = "stopped" /\ c.mode = core.mode
      /\ c.tun = core.tun
  BY EngineTyped DEF Cores
<1>. HIDE DEF c
<1>4. dirty \in BOOLEAN /\ (~dirty => ~ghost.dirty /\ core' = core)
  BY <1>1, <1>3 DEF Engine!Killed
<1>. HIDE DEF dirty
<1>5. /\ ghost' \in Ghosts /\ ghost'.good = ghost.good /\ ghost'.lost = (ghost.lost \/ ~saved)
      /\ ghost'.quiet = ghost.quiet /\ ghost'.overtaken = ghost.overtaken
      /\ ghost'.muted = ghost.muted /\ ghost'.restarts = ghost.restarts
      /\ ghost'.dirty = dirty
  BY <1>1, <1>4, EngineTyped DEF Ghosts
<1>6. mode' \in Modes /\ (~ghost'.lost => mode' = ghost.good)
  BY <1>1, <1>5, ModeRestoredIs
<1>7. EngineTypes'
  BY <1>1, <1>2, <1>3, <1>5, <1>6 DEF EngineInv, EngineTypes, IsOver, Procs
<1>8. SessionInv' /\ ModeInv'
  BY <1>1, <1>2, <1>3, <1>4, <1>5, <1>6, EngineTyped, ProcsAre
    DEF EngineInv, PlaceInv, GoesOn, IsOver, OthersRest, Rests, Held, NotHeld, TasksOf, Tasked,
        Launching, Starting, Changing, Stopping, Procs, Now, Engine!WorkerGone, SessionInv,
        ModeInv
<1>9. CoreInv' /\ QuietInv'
  BY <1>1, <1>2, <1>3, <1>5, EngineTyped, ProcsAre
    DEF EngineInv, PlaceInv, GoesOn, IsOver, OthersRest, Rests, Held, NotHeld, TasksOf, Tasked,
        Launching, Starting, Changing, Stopping, Procs, Now, Engine!WorkerGone, CoreInv, QuietInv,
        Engine!Nothing
<1>. QED BY <1>1, <1>2, <1>3, <1>4, <1>5, <1>7, <1>8, <1>9, EngineTyped, ProcsAre
  DEF EngineInv, PlaceInv, CompatInv, HotInv, StoppedInv, ClosedInv, RecoveryInv, OnItsWay,
      GoesOn, IsOver, OthersRest, Rests, Held, NotHeld, TasksOf, Tasked, Launching, Starting,
      Changing, Stopping, Procs, Now, Engine!WorkerGone, Engine!Nothing

LEMMA EgressSound ==
  ASSUME EngineInv, NEW p \in Procs, Engine!Egress(p)
  PROVE  EngineInv'
<1> DEFINE c == [core EXCEPT !.tun = TRUE]
<1>1. /\ gate = p /\ job[p].at = "egress" /\ Engine!Goes(p, "commit")
      /\ \/ /\ job[p].mode = "proxy" /\ proxyOwned' \in {proxyOwned, TRUE}
            /\ core' = core /\ endpoint' = endpoint
         \/ /\ job[p].mode = "tun" /\ core.host = "admin" /\ core.state = "running"
            /\ core' = c /\ endpoint' = TRUE /\ proxyOwned' = proxyOwned
      /\ UNCHANGED <<gate, mode, closing, closed, binding, compat, hotspot, registered, ghost>>
  BY EngineTyped DEF Engine!Egress, Engine!Holds, Jobs, Modes, Engine!Modes
<1>2. GoesOn(p, "commit") /\ job'[p].prev = job[p].prev /\ job'[p].err = job[p].err
  BY <1>1, EngineTyped, GoesIs DEF JobSteps
<1>3. c \in Cores /\ c.host = core.host /\ c.state = core.state /\ c.mode = core.mode /\ c.tun
  BY EngineTyped DEF Cores
<1>. HIDE DEF c
<1>4. EngineTypes'
  BY <1>1, <1>2, <1>3 DEF EngineInv, EngineTypes, GoesOn, Procs
<1>5. /\ gate # Engine!Free /\ (core.state = "running" => core.mode = job[p].mode)
      /\ core.tun => core.state = "running" /\ core.mode = "tun"
      /\ core.host = "none" => core.state = "stopped" /\ core.mode = "proxy"
  BY <1>1, ProcsAre DEF EngineInv, CoreInv, Now
<1>6. /\ gate' = p /\ gate' # Engine!Free
      /\ job'[gate'].at = "commit" /\ job'[gate'].mode = job[p].mode
  BY <1>1, <1>2, ProcsAre DEF GoesOn
<1>7. SessionInv'
  BY <1>1, <1>3, <1>5, <1>6 DEF EngineInv, SessionInv, Now
<1>8. CoreInv'
  BY <1>1, <1>3, <1>5, <1>6 DEF CoreInv, Now
<1>9. StoppedInv' /\ ClosedInv'
  BY ZenonT(40), <1>1, <1>2, <1>3, EngineTyped, ProcsAre
    DEF EngineInv, PlaceInv, GoesOn, IsOver, OthersRest, Rests, Held, NotHeld, TasksOf, Tasked,
        Launching, Starting, Changing, Stopping, Procs, Now, Engine!WorkerGone, StoppedInv,
        ClosedInv
<1>10. QuietInv'
  BY <1>1, <1>2, <1>3, EngineTyped, ProcsAre
    DEF EngineInv, PlaceInv, GoesOn, IsOver, OthersRest, Rests, Held, NotHeld, TasksOf, Tasked,
        Launching, Starting, Changing, Stopping, Procs, Now, Engine!WorkerGone, QuietInv,
        CompatInv, Engine!Nothing
<1>. QED BY <1>1, <1>2, <1>3, <1>4, <1>7, <1>9, <1>10, <1>8, EngineTyped, ProcsAre
  DEF EngineInv, PlaceInv, CompatInv, HotInv, ModeInv, RecoveryInv, OnItsWay, GoesOn, IsOver,
      OthersRest, Rests, Held, NotHeld, TasksOf, Tasked, Launching, Starting, Changing, Stopping,
      Procs, Now, Engine!WorkerGone, Engine!Nothing

LEMMA EgressFailsSound ==
  ASSUME EngineInv, NEW p \in Procs, Engine!EgressFails(p)
  PROVE  EngineInv'
<1>1. /\ gate = p /\ job[p].at = "egress" /\ Engine!Fails(p, "undo")
      /\ proxyOwned' \in {proxyOwned, TRUE}
      /\ job[p].mode = "tun" => proxyOwned' = proxyOwned
      /\ UNCHANGED <<gate, mode, closing, closed, core, endpoint, binding, compat, hotspot,
                     registered, ghost>>
  BY DEF Engine!EgressFails, Engine!Holds
<1>2. GoesOn(p, "undo") /\ job'[p].prev = job[p].prev /\ job'[p].err = TRUE
  BY <1>1, EngineTyped, FailsIs DEF JobSteps
<1>3. EngineTypes'
  BY <1>1, <1>2 DEF EngineInv, EngineTypes, GoesOn, Procs
<1>4. SessionInv'
  BY <1>1, <1>2, EngineTyped, ProcsAre
    DEF EngineInv, PlaceInv, GoesOn, IsOver, OthersRest, Rests, Held, NotHeld, TasksOf, Tasked,
        Launching, Starting, Changing, Stopping, Procs, Now, Engine!WorkerGone, SessionInv, Jobs,
        Modes, Engine!Modes
<1>5. StoppedInv' /\ ClosedInv'
  BY <1>1, <1>2, EngineTyped, ProcsAre
    DEF EngineInv, PlaceInv, GoesOn, IsOver, OthersRest, Rests, Held, NotHeld, TasksOf, Tasked,
        Launching, Starting, Changing, Stopping, Procs, Now, Engine!WorkerGone, StoppedInv,
        ClosedInv
<1>6. QuietInv'
  BY <1>1, <1>2, EngineTyped, ProcsAre
    DEF EngineInv, PlaceInv, GoesOn, IsOver, OthersRest, Rests, Held, NotHeld, TasksOf, Tasked,
        Launching, Starting, Changing, Stopping, Procs, Now, Engine!WorkerGone, QuietInv,
        CompatInv, Engine!Nothing
<1>. QED BY <1>1, <1>2, <1>3, <1>4, <1>5, <1>6, EngineTyped, ProcsAre
  DEF EngineInv, PlaceInv, CompatInv, HotInv, ModeInv, CoreInv, RecoveryInv, OnItsWay, GoesOn,
      IsOver, OthersRest, Rests, Held, NotHeld, TasksOf, Tasked, Launching, Starting, Changing,
      Stopping, Procs, Now, Engine!WorkerGone, Engine!Nothing

LEMMA CommitRefusedSound ==
  ASSUME EngineInv, NEW p \in Procs, Engine!CommitRefused(p)
  PROVE  EngineInv'
<1>1. /\ gate = p /\ job[p].at = "commit" /\ Engine!Fails(p, "undo")
      /\ UNCHANGED <<gate, mode, closing, closed, core, proxyOwned, endpoint, binding, compat,
                     hotspot, registered, ghost>>
  BY DEF Engine!CommitRefused, Engine!Holds, Engine!session
<1>2. GoesOn(p, "undo") /\ job'[p].prev = job[p].prev /\ job'[p].err = TRUE
  BY <1>1, EngineTyped, FailsIs DEF JobSteps
<1>3. EngineTypes'
  BY <1>1, <1>2 DEF EngineInv, EngineTypes, GoesOn, Procs
<1>. QED BY <1>1, <1>2, <1>3, EngineTyped, ProcsAre
  DEF EngineInv, PlaceInv, CompatInv, HotInv, ModeInv, CoreInv, SessionInv, StoppedInv, ClosedInv,
      QuietInv, RecoveryInv, OnItsWay, GoesOn, IsOver, OthersRest, Rests, Held, NotHeld, TasksOf,
      Tasked, Launching, Starting, Changing, Stopping, Procs, Now, Engine!WorkerGone,
      Engine!Nothing

LEMMA UndoSound ==
  ASSUME EngineInv, NEW p \in Procs, Engine!Undo(p)
  PROVE  EngineInv'
<1> DEFINE c == [core EXCEPT !.state = "stopped", !.tun = FALSE]
<1>1. PICK down, restored, saved \in BOOLEAN :
        /\ gate = p /\ job[p].at = "undo" /\ Engine!Returns(p)
        /\ down => core.host # "none"
        /\ core' = IF down THEN c ELSE core
        /\ proxyOwned' = (proxyOwned /\ ~restored) /\ endpoint' = FALSE
        /\ mode' = IF saved THEN Engine!ModeRestored(p) ELSE mode
        /\ ghost' = [ghost EXCEPT !.dirty = @ \/ (~down /\ core.host # "none") \/ ~restored,
                                  !.lost = @ \/ ~saved]
        /\ UNCHANGED <<closing, closed, binding, compat, hotspot>>
  BY DEF Engine!Undo, Engine!Holds
<1>2. IsOver(p) /\ gate' = Engine!Free /\ registered' \in Callers \cup {Engine!Free}
  BY <1>1, EngineTyped, ReturnsIs
<1>3. c \in Cores /\ c.host = core.host /\ c.state = "stopped" /\ c.mode = core.mode /\ ~c.tun
  BY EngineTyped DEF Cores
<1>. HIDE DEF c
<1>4. /\ ghost' \in Ghosts /\ ghost'.good = ghost.good /\ ghost'.lost = (ghost.lost \/ ~saved)
      /\ ghost'.quiet = ghost.quiet /\ ghost'.overtaken = ghost.overtaken
      /\ ghost'.muted = ghost.muted /\ ghost'.restarts = ghost.restarts
      /\ ~ghost'.dirty => ~ghost.dirty /\ restored /\ (down \/ core.host = "none")
  BY <1>1, EngineTyped DEF Ghosts
<1>5. mode' \in Modes /\ (~ghost'.lost => mode' = ghost.good)
  BY <1>1, <1>4, ModeRestoredIs
<1>6. EngineTypes'
  BY <1>1, <1>2, <1>3, <1>4, <1>5 DEF EngineInv, EngineTypes, IsOver, Procs
<1>7. SessionInv' /\ ModeInv'
  BY <1>1, <1>2, <1>3, <1>4, <1>5, EngineTyped, ProcsAre
    DEF EngineInv, PlaceInv, GoesOn, IsOver, OthersRest, Rests, Held, NotHeld, TasksOf, Tasked,
        Launching, Starting, Changing, Stopping, Procs, Now, Engine!WorkerGone, SessionInv,
        ModeInv, CoreInv
<1>8. CoreInv' /\ QuietInv'
  BY ZenonT(40), <1>1, <1>2, <1>3, <1>4, EngineTyped, ProcsAre
    DEF EngineInv, PlaceInv, GoesOn, IsOver, OthersRest, Rests, Held, NotHeld, TasksOf, Tasked,
        Launching, Starting, Changing, Stopping, Procs, Now, Engine!WorkerGone, CoreInv, QuietInv,
        Engine!Nothing
<1>. QED BY <1>1, <1>2, <1>3, <1>4, <1>6, <1>7, <1>8, EngineTyped, ProcsAre
  DEF EngineInv, PlaceInv, CompatInv, HotInv, StoppedInv, ClosedInv, RecoveryInv, OnItsWay,
      GoesOn, IsOver, OthersRest, Rests, Held, NotHeld, TasksOf, Tasked, Launching, Starting,
      Changing, Stopping, Procs, Now, Engine!WorkerGone, Engine!Nothing

\* What a commit tells those that were called, and where it goes on itself.
LEMMA AfterStartIs ==
  ASSUME EngineInv, NEW p \in Procs, gate = p, job[p].at = "commit",
         Engine!AfterStart(p, [q \in Procs |-> IF job[q].at = "called"
                                               THEN [job[q] EXCEPT !.again = TRUE] ELSE job[q]])
  PROVE  /\ job' \in [Procs -> Jobs] /\ registered' \in Callers \cup {Engine!Free}
         /\ \A q \in Procs : q # p =>
              IF job[q].at = "called"
              THEN /\ job'[q].task = job[q].task /\ job'[q].at = "called" /\ job'[q].again
                   /\ job'[q].err = job[q].err
              ELSE job'[q] = job[q]
         /\ \/ /\ gate' = gate /\ job'[p].at = "share" /\ job'[p].task = "refresh"
               /\ job[p].task = "refresh" /\ job[p].ctx = "live" /\ job'[p].again /\ job[p].again
            \/ /\ gate' = Engine!Free /\ job'[p].task = "none" /\ ~job'[p].again
               /\ job'[p].at = (IF p = Engine!Consumer THEN "over" ELSE "idle") /\ ~job'[p].err
<1> DEFINE told(q) == [job[q] EXCEPT !.again = TRUE]
           jobs == [q \in Procs |-> IF job[q].at = "called" THEN told(q) ELSE job[q]]
           over == IF p = Engine!Consumer THEN [Engine!NoJob EXCEPT !.at = "over"]
                   ELSE Engine!NoJob
           share == [job[p] EXCEPT !.at = "share"]
<1>1. \A q \in Procs : /\ told(q) \in Jobs /\ told(q).task = job[q].task
                       /\ told(q).at = job[q].at /\ told(q).again /\ told(q).err = job[q].err
  BY EngineTyped DEF Jobs
<1>2. /\ over \in Jobs /\ over.task = "none" /\ ~over.again /\ ~over.err
      /\ over.at = (IF p = Engine!Consumer THEN "over" ELSE "idle")
  BY NoJobIs
<1>3. /\ share \in Jobs /\ share.at = "share" /\ share.task = job[p].task
      /\ share.again = job[p].again
  BY EngineTyped DEF Jobs, JobSteps
<1>. HIDE DEF told
<1>4. /\ jobs \in [Procs -> Jobs] /\ jobs[p] = job[p]
      /\ \A q \in Procs : jobs[q] = IF job[q].at = "called" THEN told(q) ELSE job[q]
  BY <1>1, EngineTyped
<1>5. \/ /\ job[p].task = "refresh" /\ job[p].ctx = "live" /\ job[p].again
         /\ job' = [jobs EXCEPT ![p].at = "share"] /\ gate' = gate /\ registered' = registered
      \/ job' = Engine!Ended(jobs, p) /\ gate' = Engine!Free /\ registered' = registered
  BY DEF Engine!AfterStart, Engine!Live, told
<1>. HIDE DEF jobs
<1>6. CASE job' = [jobs EXCEPT ![p].at = "share"] /\ gate' = gate
           /\ job[p].task = "refresh" /\ job[p].ctx = "live" /\ job[p].again
           /\ registered' = registered
  <2>1. job' = [jobs EXCEPT ![p] = share]
    BY <1>4, <1>6
  <2>. HIDE DEF share
  <2>. QED BY <1>1, <1>3, <1>4, <1>6, <2>1, EngineTyped
<1>7. CASE job' = Engine!Ended(jobs, p) /\ gate' = Engine!Free /\ registered' = registered
  <2>1. job' = [jobs EXCEPT ![p] = over]
    BY <1>7 DEF Engine!Ended
  <2>. HIDE DEF over
  <2>. QED BY <1>1, <1>2, <1>4, <1>7, <2>1, EngineTyped
<1>. QED BY <1>5, <1>6, <1>7

\* A start that commits leaves what it brought up, and its mode is good. A Stop
\* it got past knows it; one that waits for the gate has revoked the bindings.
LEMMA CommitSound ==
  ASSUME EngineInv, NEW p \in Procs, Engine!Commit(p)
  PROVE  EngineInv'
<1> DEFINE b == [enabled |-> TRUE, mode |-> job[p].mode,
                 recovery |-> IF job[p].task = "refresh" THEN "none" ELSE binding.recovery]
           g == [ghost EXCEPT !.good = job[p].mode, !.lost = FALSE]
<1>1. /\ gate = p /\ job[p].at = "commit" /\ job[p].ctx = "live" /\ binding' = b /\ ghost' = g
      /\ UNCHANGED <<mode, closing, closed, core, proxyOwned, endpoint, compat, hotspot>>
  BY DEF Engine!Commit, Engine!Holds, Engine!Live, Engine!session
<1>2. /\ job' \in [Procs -> Jobs] /\ registered' \in Callers \cup {Engine!Free}
      /\ \A q \in Procs : q # p =>
           IF job[q].at = "called"
           THEN /\ job'[q].task = job[q].task /\ job'[q].at = "called" /\ job'[q].again
                /\ job'[q].err = job[q].err
           ELSE job'[q] = job[q]
      /\ \/ /\ gate' = gate /\ job'[p].at = "share" /\ job'[p].task = "refresh"
            /\ job[p].task = "refresh" /\ job[p].ctx = "live" /\ job'[p].again /\ job[p].again
         \/ /\ gate' = Engine!Free /\ job'[p].task = "none" /\ ~job'[p].again
            /\ job'[p].at = (IF p = Engine!Consumer THEN "over" ELSE "idle") /\ ~job'[p].err
  BY <1>1, AfterStartIs DEF Engine!Commit, Procs
<1>3. /\ b \in Bindings /\ b.recovery \in {"none", binding.recovery}
  BY EngineTyped DEF Bindings, Jobs
<1>4. /\ g \in Ghosts /\ g.good = job[p].mode /\ g.lost = FALSE /\ g.dirty = ghost.dirty
      /\ g.quiet = ghost.quiet /\ g.overtaken = ghost.overtaken /\ g.muted = ghost.muted
      /\ g.restarts = ghost.restarts
  BY EngineTyped DEF Ghosts, Jobs
<1>. HIDE DEF b, g
<1>5. EngineTypes'
  BY <1>1, <1>2, <1>3, <1>4, ProcsAre DEF EngineInv, EngineTypes, Procs
<1>6. PlaceInv'
  BY <1>1, <1>2, ProcsAre
    DEF EngineInv, PlaceInv, GoesOn, IsOver, OthersRest, Rests, Held, NotHeld, TasksOf, Tasked,
        Launching, Starting, Changing, Stopping, Procs, Now, Engine!WorkerGone
<1>7. HotInv'
  BY <1>1, <1>2, <1>3, <1>4, <1>6, ProcsAre
    DEF EngineInv, PlaceInv, GoesOn, IsOver, OthersRest, Rests, Held, NotHeld, TasksOf, Tasked,
        Launching, Starting, Changing, Stopping, Procs, Now, Engine!WorkerGone, HotInv
<1>8. RecoveryInv'
  BY <1>1, <1>2, <1>3, <1>6, ProcsAre
    DEF EngineInv, PlaceInv, GoesOn, IsOver, OthersRest, Rests, Held, NotHeld, TasksOf, Tasked,
        Launching, Starting, Changing, Stopping, Procs, Now, Engine!WorkerGone, RecoveryInv,
        OnItsWay
<1>9. SessionInv' /\ ModeInv'
  BY <1>1, <1>2, <1>4, ProcsAre
    DEF EngineInv, PlaceInv, GoesOn, IsOver, OthersRest, Rests, Held, NotHeld, TasksOf, Tasked,
        Launching, Starting, Changing, Stopping, Procs, Now, Engine!WorkerGone, SessionInv,
        ModeInv
<1>10. QuietInv'
  BY <1>1, <1>2, <1>4, ProcsAre
    DEF EngineInv, PlaceInv, GoesOn, IsOver, OthersRest, Rests, Held, NotHeld, TasksOf, Tasked,
        Launching, Starting, Changing, Stopping, Procs, Now, Engine!WorkerGone, QuietInv,
        CompatInv
<1>11. StoppedInv' /\ ClosedInv'
  BY <1>1, <1>2, <1>4, ProcsAre
    DEF EngineInv, PlaceInv, GoesOn, IsOver, OthersRest, Rests, Held, NotHeld, TasksOf, Tasked,
        Launching, Starting, Changing, Stopping, Procs, Now, Engine!WorkerGone, StoppedInv,
        ClosedInv
<1>12. CompatInv' /\ CoreInv'
  BY <1>1, <1>2, <1>4, ProcsAre
    DEF EngineInv, PlaceInv, GoesOn, IsOver, OthersRest, Rests, Held, NotHeld, TasksOf, Tasked,
        Launching, Starting, Changing, Stopping, Procs, Now, Engine!WorkerGone, CompatInv, CoreInv
<1>. QED BY <1>5, <1>6, <1>7, <1>8, <1>9, <1>10, <1>11, <1>12 DEF EngineInv

LEMMA SaveModeSound ==
  ASSUME EngineInv, NEW p \in Procs, Engine!SaveMode(p)
  PROVE  EngineInv'
<1> DEFINE g == [ghost EXCEPT !.good = mode', !.lost = FALSE]
<1>1. /\ gate = p /\ job[p].at = "act" /\ Engine!Returns(p)
      /\ mode' = mode \/ (mode' = job[p].mode /\ Engine!Stopped)
      /\ ghost' = IF mode' = mode THEN ghost ELSE g
      /\ UNCHANGED <<closing, closed, core, proxyOwned, endpoint, binding, compat, hotspot>>
  BY DEF Engine!SaveMode, Engine!Holds, Engine!session
<1>2. IsOver(p) /\ gate' = Engine!Free /\ registered' \in Callers \cup {Engine!Free}
  BY <1>1, EngineTyped, ReturnsIs
<1>3. mode' \in Modes
  BY <1>1, EngineTyped DEF Jobs
<1>4. /\ g \in Ghosts /\ g.good = mode' /\ g.lost = FALSE /\ g.dirty = ghost.dirty
      /\ g.quiet = ghost.quiet /\ g.overtaken = ghost.overtaken /\ g.muted = ghost.muted
      /\ g.restarts = ghost.restarts
  BY <1>3, EngineTyped DEF Ghosts
<1>. HIDE DEF g
<1>5. EngineTypes'
  BY <1>1, <1>2, <1>3, <1>4 DEF EngineInv, EngineTypes, IsOver, Procs
<1>6. SessionInv' /\ ModeInv'
  BY <1>1, <1>2, <1>4, EngineTyped, ProcsAre
    DEF EngineInv, PlaceInv, GoesOn, IsOver, OthersRest, Rests, Held, NotHeld, TasksOf, Tasked,
        Launching, Starting, Changing, Stopping, Procs, Now, Engine!WorkerGone, SessionInv,
        ModeInv, CoreInv, Engine!Stopped
<1>. QED BY <1>1, <1>2, <1>4, <1>5, <1>6, EngineTyped, ProcsAre
  DEF EngineInv, PlaceInv, CompatInv, HotInv, CoreInv, StoppedInv, ClosedInv, QuietInv,
      RecoveryInv, OnItsWay, GoesOn, IsOver, OthersRest, Rests, Held, NotHeld, TasksOf, Tasked,
      Launching, Starting, Changing, Stopping, Procs, Now, Engine!WorkerGone, Engine!Nothing

LEMMA RepairSound ==
  ASSUME EngineInv, NEW p \in Procs, Engine!Repair(p)
  PROVE  EngineInv'
<1>1. /\ gate = p /\ job[p].at = "act" /\ Engine!Returns(p)
      /\ core' = core \/ (~closing /\ core' \in {Engine!NoCore, Engine!Connected(TRUE)})
      /\ ghost' = [ghost EXCEPT !.dirty = @ \/ Engine!Killed]
      /\ UNCHANGED <<mode, closing, closed, proxyOwned, endpoint, binding, compat, hotspot>>
  BY DEF Engine!Repair, Engine!Holds
<1>2. IsOver(p) /\ gate' = Engine!Free /\ registered' \in Callers \cup {Engine!Free}
  BY <1>1, EngineTyped, ReturnsIs
<1>3. /\ core' \in Cores
      /\ \/ core' = core
         \/ /\ ~closing /\ core'.state = "stopped" /\ ~core'.tun
            /\ core'.host = "none" => core'.mode = "proxy"
  BY <1>1, EngineTyped, ConnectedIs, NothingIs
<1>4. /\ ghost' \in Ghosts /\ ghost'.good = ghost.good /\ ghost'.lost = ghost.lost
      /\ ghost'.quiet = ghost.quiet /\ ghost'.overtaken = ghost.overtaken
      /\ ghost'.muted = ghost.muted /\ ghost'.restarts = ghost.restarts
      /\ ~ghost'.dirty => ~ghost.dirty /\ (core'.state = "stopped" => core.state = "stopped")
  BY <1>1, DirtyIs
<1>5. EngineTypes'
  BY <1>1, <1>2, <1>3, <1>4 DEF EngineInv, EngineTypes, IsOver, Procs
<1>6. SessionInv' /\ CoreInv'
  BY <1>1, <1>2, <1>3, <1>4, EngineTyped, ProcsAre
    DEF EngineInv, PlaceInv, GoesOn, IsOver, OthersRest, Rests, Held, NotHeld, TasksOf, Tasked,
        Launching, Starting, Changing, Stopping, Procs, Now, Engine!WorkerGone, SessionInv,
        CoreInv
<1>. QED BY <1>1, <1>2, <1>3, <1>4, <1>5, <1>6, EngineTyped, ProcsAre
  DEF EngineInv, PlaceInv, CompatInv, HotInv, ModeInv, StoppedInv, ClosedInv, QuietInv,
      RecoveryInv, OnItsWay, GoesOn, IsOver, OthersRest, Rests, Held, NotHeld, TasksOf, Tasked,
      Launching, Starting, Changing, Stopping, Procs, Now, Engine!WorkerGone, Engine!Nothing

LEMMA ShareSound ==
  ASSUME EngineInv, NEW p \in Procs, Engine!Share(p)
  PROVE  EngineInv'
<1> DEFINE h == [Engine!NoHotspot EXCEPT !.worker = "starting", !.shown = "starting"]
<1>1. /\ gate = p /\ job[p].at = "share" /\ ~closing /\ endpoint /\ core.tun
      /\ Engine!Goes(p, "shareWait") /\ hotspot' = h
      /\ UNCHANGED <<gate, mode, closing, closed, core, proxyOwned, endpoint, binding, compat,
                     registered, ghost>>
  BY DEF Engine!Share, Engine!Holds, Engine!session
<1>2. GoesOn(p, "shareWait") /\ job'[p].prev = job[p].prev /\ job'[p].err = job[p].err
  BY <1>1, EngineTyped, GoesIs DEF JobSteps
<1>3. h \in Hotspots /\ ~h.asked
  BY DEF Engine!NoHotspot, Hotspots
<1>. HIDE DEF h
<1>4. EngineTypes'
  BY <1>1, <1>2, <1>3 DEF EngineInv, EngineTypes, GoesOn, Procs
<1>5. StoppedInv' /\ ClosedInv'
  BY <1>1, <1>2, <1>3, EngineTyped, ProcsAre
    DEF EngineInv, PlaceInv, GoesOn, IsOver, OthersRest, Rests, Held, NotHeld, TasksOf, Tasked,
        Launching, Starting, Changing, Stopping, Procs, Now, Engine!WorkerGone, StoppedInv,
        ClosedInv
<1>6. HotInv' /\ QuietInv'
  BY <1>1, <1>2, <1>3, EngineTyped, ProcsAre
    DEF EngineInv, PlaceInv, GoesOn, IsOver, OthersRest, Rests, Held, NotHeld, TasksOf, Tasked,
        Launching, Starting, Changing, Stopping, Procs, Now, Engine!WorkerGone, HotInv, QuietInv
<1>. QED BY <1>1, <1>2, <1>4, <1>5, <1>6, EngineTyped, ProcsAre
  DEF EngineInv, PlaceInv, CompatInv, ModeInv, CoreInv, SessionInv, RecoveryInv, OnItsWay, GoesOn,
      IsOver, OthersRest, Rests, Held, NotHeld, TasksOf, Tasked, Launching, Starting, Changing,
      Stopping, Procs, Now, Engine!WorkerGone, Engine!Nothing

\* What the hotspot may do while nobody starts it.
HotspotGoesOn ==
  /\ hotspot' \in Hotspots
  /\ Engine!WorkerGone => hotspot'.worker \in {"none", "done"}
  /\ hotspot.worker = "none" => hotspot'.worker = "none"
  /\ hotspot'.asked => hotspot'.shown \notin {"running", "starting"}

LEMMA ShareEndsSound ==
  ASSUME EngineInv, NEW p \in Procs, Engine!ShareFails(p) \/ Engine!Shared(p)
  PROVE  EngineInv'
<1> DEFINE cut == [hotspot EXCEPT !.cut = TRUE]
<1>1. /\ gate = p /\ job[p].at \in {"share", "shareWait"} /\ Engine!Returns(p)
      /\ hotspot' \in {hotspot, Engine!StopRequested, cut}
      /\ UNCHANGED <<mode, closing, closed, core, proxyOwned, endpoint, binding, compat, ghost>>
  BY DEF Engine!ShareFails, Engine!Shared, Engine!Holds, Engine!session
<1>2. IsOver(p) /\ gate' = Engine!Free /\ registered' \in Callers \cup {Engine!Free}
  BY <1>1, EngineTyped, ReturnsIs
<1>3. /\ cut \in Hotspots /\ cut.worker = hotspot.worker /\ cut.asked = hotspot.asked
      /\ cut.shown = hotspot.shown
  BY EngineTyped DEF Hotspots
<1>. HIDE DEF cut
<1>4. HotspotGoesOn
  BY <1>1, <1>3, EngineTyped, StopRequestedIs
     DEF HotspotGoesOn, EngineInv, HotInv, Engine!WorkerGone
<1>5. EngineTypes'
  BY <1>1, <1>2, <1>4 DEF EngineInv, EngineTypes, IsOver, Procs, HotspotGoesOn
<1>. QED BY <1>1, <1>2, <1>4, <1>5, EngineTyped, ProcsAre
  DEF HotspotGoesOn, EngineInv, PlaceInv, CompatInv, HotInv, ModeInv, CoreInv, SessionInv,
      StoppedInv, ClosedInv, QuietInv, RecoveryInv, OnItsWay, GoesOn, IsOver, OthersRest, Rests,
      Held, NotHeld, TasksOf, Tasked, Launching, Starting, Changing, Stopping, Procs, Now,
      Engine!WorkerGone, Engine!Nothing

\* A report changes what is shown, and never to running once a stop was asked for.
LEMMA HotspotReportsSound ==
  ASSUME EngineInv, Engine!WorkerReports \/ Engine!ReadReport
  PROVE  EngineInv'
<1>1. UNCHANGED <<gate, job, mode, closing, closed, core, proxyOwned, endpoint, binding, compat,
                  registered, ghost>>
  BY DEF Engine!WorkerReports, Engine!ReadReport, Engine!session, Engine!control
<1>2. HotspotGoesOn
  <2>1. CASE Engine!ReadReport
    <3> DEFINE shown == Engine!Shown
               h == [hotspot EXCEPT !.said = "none", !.shown = shown]
    <3>1. hotspot.said # "none" /\ hotspot' = h
      BY <2>1 DEF Engine!ReadReport
    <3>2. /\ shown \in {"running", "stopped", "failed", "stopping"}
          /\ hotspot.asked => shown # "running"
      BY <3>1, EngineTyped DEF Engine!Shown, Hotspots
    <3>. HIDE DEF shown
    <3>3. /\ h \in Hotspots /\ h.worker = hotspot.worker /\ h.asked = hotspot.asked
          /\ h.shown = shown
      BY <3>2, EngineTyped DEF Hotspots
    <3>. HIDE DEF h
    <3>. QED BY <3>1, <3>2, <3>3 DEF HotspotGoesOn, Engine!WorkerGone
  <2>2. CASE Engine!WorkerReports
    <3> DEFINE on == [hotspot EXCEPT !.worker = "on", !.said = "running"]
               off(report) == [hotspot EXCEPT !.worker = "off", !.said = report]
               shown == IF hotspot.shown \in {"stopped", "failed"} THEN hotspot.shown ELSE "failed"
               done == [hotspot EXCEPT !.worker = "done", !.shown = shown]
    <3>1. \/ hotspot.worker \in {"starting", "on"} /\ hotspot' = on
          \/ /\ hotspot.worker \in {"starting", "on"}
             /\ \E report \in {"stopped", "failed"} : hotspot' = off(report)
          \/ hotspot.worker = "off" /\ hotspot' = done
      BY <2>2 DEF Engine!WorkerReports
    <3>2. on \in Hotspots /\ on.asked = hotspot.asked /\ on.shown = hotspot.shown
      BY EngineTyped DEF Hotspots
    <3>3. \A report \in {"stopped", "failed"} :
            /\ off(report) \in Hotspots /\ off(report).asked = hotspot.asked
            /\ off(report).shown = hotspot.shown
      BY EngineTyped DEF Hotspots
    <3>4. shown \in {"stopped", "failed"}
      OBVIOUS
    <3>. HIDE DEF shown
    <3>5. done \in Hotspots /\ done.shown = shown /\ done.worker = "done"
      BY <3>4, EngineTyped DEF Hotspots
    <3>. HIDE DEF on, off, done
    <3>. QED BY <3>1, <3>2, <3>3, <3>4, <3>5
            DEF HotspotGoesOn, Engine!WorkerGone, EngineInv, HotInv
  <2>. QED BY <2>1, <2>2
<1>3. EngineTypes'
  BY <1>1, <1>2 DEF EngineInv, EngineTypes, HotspotGoesOn
<1>. QED BY <1>1, <1>2, <1>3
  DEF HotspotGoesOn, EngineInv, PlaceInv, CompatInv, HotInv, ModeInv, CoreInv, SessionInv,
      StoppedInv, ClosedInv, QuietInv, RecoveryInv, OnItsWay, GoesOn, IsOver, OthersRest, Rests,
      Held, NotHeld, TasksOf, Tasked, Launching, Starting, Changing, Stopping, Procs, Now,
      Engine!WorkerGone, Engine!Nothing

\* A refresh begins only where nobody waits, and a Stop that is not there yet has
\* revoked the bindings.
LEMMA ScheduleRefreshSound ==
  ASSUME EngineInv, Engine!ScheduleRefresh
  PROVE  EngineInv'
<1> DEFINE new == [Engine!NoJob EXCEPT !.task = "refresh", !.at = "scan", !.mode = binding.mode]
           r == Engine!Refresh
<1>1. /\ binding.enabled /\ job[r] = Engine!NoJob /\ gate = Engine!Free
      /\ \A q \in Procs : job[q].at # "queued"
      /\ gate' = r /\ job' = [job EXCEPT ![r] = new]
      /\ UNCHANGED <<mode, closing, closed, core, proxyOwned, endpoint, binding, compat, hotspot,
                     registered, ghost>>
  BY DEF Engine!ScheduleRefresh, Engine!session, Engine!Waiting, Procs
<1>2. /\ new \in Jobs /\ new.task = "refresh" /\ new.at = "scan" /\ ~new.again
  <2>1. binding.mode \in Modes
    BY <1>1, EngineTyped DEF Bindings
  <2>. QED BY <2>1 DEF Engine!NoJob, Jobs, JobSteps, Modes, Engine!Modes
<1>. HIDE DEF new
<1>3. /\ job' \in [Procs -> Jobs] /\ OthersRest(r)
      /\ job'[r].task = "refresh" /\ job'[r].at = "scan" /\ ~job'[r].again
      /\ r \in Procs /\ r \notin Callers /\ r # Engine!Consumer /\ r # Engine!Free
  BY <1>1, <1>2, EngineTyped, JobUpdated, ProcsAre
<1>4. EngineTypes'
  BY <1>1, <1>3 DEF EngineInv, EngineTypes, Procs
<1>5. PlaceInv'
  BY <1>1, <1>3, ProcsAre
    DEF EngineInv, PlaceInv, GoesOn, IsOver, OthersRest, Rests, Held, NotHeld, TasksOf, Tasked,
        Launching, Starting, Changing, Stopping, Procs, Now, Engine!WorkerGone
<1>6. RecoveryInv'
  <2>1. \A q \in Callers : OnItsWay(q)' => OnItsWay(q) /\ job[q].at = "called"
    BY <1>1, <1>3, ProcsAre
      DEF EngineInv, PlaceInv, GoesOn, IsOver, OthersRest, Rests, Held, NotHeld, TasksOf, Tasked,
          Launching, Starting, Changing, Stopping, Procs, Now, Engine!WorkerGone, OnItsWay
  <2>2. \A q \in Callers : ~OnItsWay(q)'
    BY <1>1, <2>1 DEF EngineInv, RecoveryInv
  <2>. QED BY <2>2 DEF RecoveryInv
<1>. HIDE DEF r
<1>. QED BY <1>1, <1>3, <1>4, <1>5, <1>6, ProcsAre
  DEF r, EngineInv, CompatInv, HotInv, ModeInv, CoreInv, SessionInv, StoppedInv, ClosedInv,
      QuietInv, OnItsWay, GoesOn, IsOver, OthersRest, Rests, Held, NotHeld, TasksOf, Tasked,
      Launching, Starting, Changing, Stopping, Procs, Now, Engine!WorkerGone, Engine!Nothing

LEMMA ScanEndsSound ==
  ASSUME EngineInv, Engine!ScanEnds
  PROVE  EngineInv'
<1> DEFINE r == Engine!Refresh
<1>1. /\ gate = r /\ job[r].at = "scan" /\ Engine!Returns(r)
      /\ UNCHANGED <<mode, closing, closed, core, proxyOwned, endpoint, binding, compat, hotspot,
                     ghost>>
  BY DEF Engine!ScanEnds, Engine!Holds, Engine!session
<1>2. IsOver(r) /\ gate' = Engine!Free /\ registered' \in Callers \cup {Engine!Free}
  BY <1>1, EngineTyped, ReturnsIs, ProcsAre
<1>3. EngineTypes'
  BY <1>1, <1>2 DEF EngineInv, EngineTypes, IsOver, Procs
<1>. QED BY <1>1, <1>2, <1>3, EngineTyped, ProcsAre
  DEF EngineInv, PlaceInv, CompatInv, HotInv, ModeInv, CoreInv, SessionInv, StoppedInv, ClosedInv,
      QuietInv, RecoveryInv, OnItsWay, GoesOn, IsOver, OthersRest, Rests, Held, NotHeld, TasksOf,
      Tasked, Launching, Starting, Changing, Stopping, Procs, Now, Engine!WorkerGone,
      Engine!Nothing

\* What is to come back is what ran: nothing, after StopHotspot.
LEMMA ScanFindsSound ==
  ASSUME EngineInv, Engine!ScanFinds
  PROVE  EngineInv'
<1> DEFINE r == Engine!Refresh
           wanted == IF binding.recovery # "none" THEN binding.recovery
                     ELSE IF hotspot.worker # "none" /\ hotspot.shown = "running" THEN "hotspot"
                     ELSE "plain"
           again == wanted = "hotspot"
           b == [binding EXCEPT !.recovery = wanted]
           new == [job[r] EXCEPT !.at = "hotspot", !.again = again]
<1>1. /\ gate = r /\ job[r].at = "scan" /\ job[r].ctx = "live" /\ binding.enabled
      /\ binding' = b /\ job' = [job EXCEPT ![r] = new]
      /\ UNCHANGED <<gate, mode, closing, closed, core, proxyOwned, endpoint, compat, hotspot,
                     registered, ghost>>
  BY DEF Engine!ScanFinds, Engine!Holds, Engine!Live, Engine!session
<1>2. /\ wanted \in {"plain", "hotspot"}
      /\ ghost.muted => wanted # "hotspot"
  BY EngineTyped DEF Bindings, EngineInv, HotInv
<1>3. again \in BOOLEAN /\ (again => ~ghost.muted)
  BY <1>2
<1>. HIDE DEF again
<1>4. b \in Bindings /\ b.enabled = binding.enabled /\ b.recovery = wanted
  <2>. HIDE DEF wanted
  <2>. QED BY <1>2, EngineTyped DEF Bindings
<1>5. /\ new \in Jobs /\ new.at = "hotspot" /\ new.task = job[r].task /\ new.mode = job[r].mode
      /\ new.again = again /\ new.ctx = job[r].ctx
  BY ZenonT(40), <1>3, EngineTyped, ProcsAre DEF Jobs, JobSteps
<1>. HIDE DEF wanted, b, new
<1>6. /\ job' \in [Procs -> Jobs] /\ OthersRest(r)
      /\ job'[r].task = job[r].task /\ job'[r].at = "hotspot" /\ job'[r].again = again
      /\ r \in Procs /\ r \notin Callers /\ r # Engine!Consumer /\ r # Engine!Free
  BY <1>1, <1>5, EngineTyped, JobUpdated, ProcsAre
<1>7. EngineTypes'
  BY <1>1, <1>4, <1>6 DEF EngineInv, EngineTypes, Procs
<1>8. PlaceInv'
  BY <1>1, <1>6, ProcsAre
    DEF EngineInv, PlaceInv, GoesOn, IsOver, OthersRest, Rests, Held, NotHeld, TasksOf, Tasked,
        Launching, Starting, Changing, Stopping, Procs, Now, Engine!WorkerGone
<1>9. HotInv'
  BY <1>1, <1>2, <1>3, <1>4, <1>6, <1>8, ProcsAre
    DEF EngineInv, PlaceInv, GoesOn, IsOver, OthersRest, Rests, Held, NotHeld, TasksOf, Tasked,
        Launching, Starting, Changing, Stopping, Procs, Now, Engine!WorkerGone, HotInv
<1>10. RecoveryInv'
  BY <1>1, <1>4, <1>6, <1>8, ProcsAre
    DEF EngineInv, PlaceInv, GoesOn, IsOver, OthersRest, Rests, Held, NotHeld, TasksOf, Tasked,
        Launching, Starting, Changing, Stopping, Procs, Now, Engine!WorkerGone, RecoveryInv,
        OnItsWay
<1>. HIDE DEF r
<1>. QED BY <1>1, <1>4, <1>6, <1>7, <1>8, <1>9, <1>10, ProcsAre
  DEF r, EngineInv, CompatInv, ModeInv, CoreInv, SessionInv, StoppedInv, ClosedInv, QuietInv,
      OnItsWay, GoesOn, IsOver, OthersRest, Rests, Held, NotHeld, TasksOf, Tasked, Launching,
      Starting, Changing, Stopping, Procs, Now, Engine!WorkerGone, Engine!Nothing

-----------------------------------------------------------------------------
(* DesktopEngine: compatibility events, and the Core.                      *)

\* An event that waits is nothing the invariant is about.
LEMMA EngineRests ==
  ASSUME EngineInv,
         UNCHANGED <<gate, job, mode, closing, closed, core, proxyOwned, endpoint, binding, compat,
                     hotspot, registered, ghost>>
  PROVE  EngineInv'
BY
  DEF EngineInv, PlaceInv, CompatInv, HotInv, ModeInv, CoreInv, SessionInv, StoppedInv, ClosedInv,
      QuietInv, RecoveryInv, OnItsWay, GoesOn, IsOver, OthersRest, Rests, Held, NotHeld, TasksOf,
      Tasked, Launching, Starting, Changing, Stopping, Procs, Now, Engine!WorkerGone,
      Engine!Nothing, EngineTypes, Compats

LEMMA EventSound ==
  ASSUME EngineInv, NEW k \in Kinds, Engine!CoreEvent(k) \/ Engine!ConsumeIgnored(k)
  PROVE  EngineInv'
<1>1. UNCHANGED <<gate, job, mode, closing, closed, core, proxyOwned, endpoint, binding, compat,
                  hotspot, registered, ghost>>
  BY DEF Engine!CoreEvent, Engine!ConsumeIgnored, Engine!control, Engine!session
<1>. QED BY <1>1, EngineRests

\* A handler takes a kind that was not applied: its restart is the first one.
LEMMA ConsumeSound ==
  ASSUME EngineInv, NEW k \in Kinds, Engine!Consume(k)
  PROVE  EngineInv'
<1> DEFINE c == Engine!Consumer
           handler == [Engine!NoJob EXCEPT !.task = "restartStop", !.at = "called", !.mode = "tun"]
           new == [job EXCEPT ![c] = handler]
           counts == [ghost.restarts EXCEPT ![k] = @ + 1]
           g == [ghost EXCEPT !.overtaken = TRUE, !.restarts = counts]
           flags == [applied |-> compat.applied \cup {k}, restarting |-> TRUE]
<1>1. /\ job[c] = Engine!NoJob /\ ~closed /\ ~closing /\ k \notin compat.applied
      /\ compat' = flags /\ job' = Engine!RefreshCancelled(new) /\ binding' = Engine!Revoked
      /\ ghost' = g
      /\ UNCHANGED <<gate, mode, closing, closed, core, proxyOwned, endpoint, hotspot, registered>>
  BY DEF Engine!Consume, Engine!Handle, Engine!session
<1>2. /\ handler \in Jobs /\ handler.task = "restartStop" /\ handler.at = "called"
      /\ handler.err = FALSE /\ ~handler.again
  BY DEF Engine!NoJob, Jobs, JobSteps, Modes, Engine!Modes
<1>. HIDE DEF handler
<1>3. /\ new \in [Procs -> Jobs] /\ new[c] = handler
      /\ \A q \in Procs : q # c => new[q] = job[q]
      /\ new[Engine!Refresh] = job[Engine!Refresh]
  BY <1>2, EngineTyped, ProcsAre
<1>. HIDE DEF new
<1>4. Cancelled(new, job')
  BY <1>1, <1>3, RefreshCancelledIs
<1>5. /\ job' \in [Procs -> Jobs] /\ OthersRest(c) /\ job'[c].task = "restartStop"
      /\ job'[c].at = "called" /\ job'[c].err = FALSE /\ ~job'[c].again
      /\ c \in Procs /\ c \notin Callers /\ c # Engine!Refresh /\ c # Engine!Free
  BY <1>2, <1>3, <1>4, ProcsAre DEF Cancelled, OthersRest, Rests
<1>6. /\ counts \in [Kinds -> Nat] /\ \A l \in Kinds : l # k => counts[l] = ghost.restarts[l]
      /\ counts[k] = 1
  BY <1>1, EngineTyped DEF Ghosts, EngineInv, CompatInv
<1>. HIDE DEF counts
<1>7. /\ g \in Ghosts /\ g.dirty = ghost.dirty /\ g.good = ghost.good /\ g.lost = ghost.lost
      /\ g.quiet = ghost.quiet /\ g.overtaken = TRUE /\ g.muted = ghost.muted
      /\ g.restarts = counts
  BY <1>6, EngineTyped DEF Ghosts
<1>8. /\ flags \in Compats /\ flags.restarting = TRUE /\ flags.applied = compat.applied \cup {k}
  BY EngineTyped DEF Compats
<1>9. /\ binding' \in Bindings /\ binding'.recovery = "none" /\ ~binding'.enabled
  BY <1>1, RevokedIs, EngineTyped
<1>. HIDE DEF g, flags
<1>10. EngineTypes'
  BY <1>1, <1>5, <1>7, <1>8, <1>9 DEF EngineInv, EngineTypes, Procs
<1>11. PlaceInv' /\ gate # c
  BY <1>1, <1>5, NoJobIs, ProcsAre
    DEF EngineInv, PlaceInv, GoesOn, IsOver, OthersRest, Rests, Held, NotHeld, TasksOf, Tasked,
        Launching, Starting, Changing, Stopping, Procs, Now, Engine!WorkerGone
<1>12. CompatInv'
  BY <1>1, <1>5, <1>6, <1>7, <1>8 DEF EngineInv, CompatInv
<1>13. RecoveryInv'
  BY <1>1, <1>5, <1>9, <1>11, ProcsAre
    DEF EngineInv, PlaceInv, GoesOn, IsOver, OthersRest, Rests, Held, NotHeld, TasksOf, Tasked,
        Launching, Starting, Changing, Stopping, Procs, Now, Engine!WorkerGone, RecoveryInv,
        OnItsWay
<1>14. HotInv' /\ QuietInv'
  BY <1>1, <1>5, <1>7, <1>9, <1>11, EngineTyped, ProcsAre
    DEF EngineInv, PlaceInv, GoesOn, IsOver, OthersRest, Rests, Held, NotHeld, TasksOf, Tasked,
        Launching, Starting, Changing, Stopping, Procs, Now, Engine!WorkerGone, HotInv, QuietInv
<1>. HIDE DEF c
<1>. QED BY <1>1, <1>5, <1>7, <1>8, <1>9, <1>10, <1>11, <1>12, <1>13, <1>14, EngineTyped, ProcsAre
           DEF c, EngineInv, ModeInv, CoreInv, SessionInv, StoppedInv, ClosedInv, OnItsWay,
               GoesOn, IsOver, OthersRest, Rests, Held, NotHeld, TasksOf, Tasked, Launching,
               Starting, Changing, Stopping, Procs, Now, Engine!WorkerGone, Engine!Nothing

\* The flag falls when the handler is over.
LEMMA HandlerEndsSound ==
  ASSUME EngineInv, Engine!HandlerEnds
  PROVE  EngineInv'
<1> DEFINE c == Engine!Consumer
           flags == [compat EXCEPT !.restarting = FALSE]
<1>1. /\ job[c].at = "over" /\ compat' = flags /\ job' = [job EXCEPT ![c] = Engine!NoJob]
      /\ UNCHANGED <<gate, mode, closing, closed, core, proxyOwned, endpoint, binding, hotspot,
                     registered, ghost>>
  BY DEF Engine!HandlerEnds, Engine!session
<1>2. flags \in Compats /\ flags.restarting = FALSE /\ flags.applied = compat.applied
  BY EngineTyped DEF Compats
<1>3. /\ job' \in [Procs -> Jobs] /\ OthersRest(c) /\ job'[c].task = "none"
      /\ job'[c].at = "idle" /\ job'[c].err = FALSE /\ ~job'[c].again
      /\ c \in Procs /\ c \notin Callers /\ c # Engine!Refresh /\ c # Engine!Free
  BY <1>1, EngineTyped, JobUpdated, NoJobIs, ProcsAre
<1>. HIDE DEF flags
<1>4. EngineTypes'
  BY <1>1, <1>2, <1>3 DEF EngineInv, EngineTypes, Procs
<1>5. PlaceInv' /\ gate # c
  BY <1>1, <1>3, ProcsAre
    DEF EngineInv, PlaceInv, GoesOn, IsOver, OthersRest, Rests, Held, NotHeld, TasksOf, Tasked,
        Launching, Starting, Changing, Stopping, Procs, Now, Engine!WorkerGone
<1>6. CompatInv'
  BY <1>1, <1>2, <1>3 DEF EngineInv, CompatInv
<1>7. QuietInv'
  BY <1>1, <1>2, <1>3, <1>5, ProcsAre
    DEF EngineInv, PlaceInv, GoesOn, IsOver, OthersRest, Rests, Held, NotHeld, TasksOf, Tasked,
        Launching, Starting, Changing, Stopping, Procs, Now, Engine!WorkerGone, QuietInv,
        Engine!Nothing
<1>. HIDE DEF c
<1>. QED BY <1>1, <1>3, <1>4, <1>5, <1>6, <1>7, EngineTyped, ProcsAre
           DEF c, EngineInv, HotInv, ModeInv, CoreInv, SessionInv, StoppedInv, ClosedInv,
               RecoveryInv, OnItsWay, GoesOn, IsOver, OthersRest, Rests, Held, NotHeld, TasksOf,
               Tasked, Launching, Starting, Changing, Stopping, Procs, Now, Engine!WorkerGone,
               Engine!Nothing

\* A Core that a look at the state has made runs nothing.
LEMMA SnapshotSound ==
  ASSUME EngineInv, Engine!SnapshotEnsures
  PROVE  EngineInv'
<1> DEFINE new == [Engine!NoCore EXCEPT !.host = "plain"]
<1>1. /\ core.host = "none" /\ ~closed /\ core' = new
      /\ ~Now({"egress", "commit", "undo", "settle", "launch", "connect"})
      /\ UNCHANGED <<gate, job, mode, closing, closed, proxyOwned, endpoint, binding, compat,
                     hotspot, registered, ghost>>
  BY EngineTyped DEF Engine!SnapshotEnsures, Engine!control, Now, Procs
<1>2. new \in Cores /\ new.state = "stopped" /\ new.mode = "proxy" /\ ~new.tun /\ new.host = "plain"
  BY DEF Engine!NoCore, Cores, Modes, Engine!Modes
<1>. HIDE DEF new
<1>3. core.state = "stopped"
  BY <1>1 DEF EngineInv, CoreInv
<1>4. EngineTypes'
  BY <1>1, <1>2 DEF EngineInv, EngineTypes
<1>. QED BY <1>1, <1>2, <1>3, <1>4, EngineTyped
  DEF EngineInv, PlaceInv, CompatInv, HotInv, ModeInv, CoreInv, SessionInv, StoppedInv, ClosedInv,
      QuietInv, RecoveryInv, OnItsWay, GoesOn, IsOver, OthersRest, Rests, Held, NotHeld, TasksOf,
      Tasked, Launching, Starting, Changing, Stopping, Procs, Now, Engine!WorkerGone,
      Engine!Nothing, Engine!Nothing

\* A Core or a sidecar that dies under a session leaves the desktop dirty.
LEMMA DiesSound ==
  ASSUME EngineInv, Engine!CoreDies \/ Engine!SidecarDies
  PROVE  EngineInv'
<1> DEFINE failed == [core EXCEPT !.state = "failed", !.tun = FALSE]
<1>1. /\ \/ core' = Engine!NoCore
         \/ core.tun /\ core' = failed
      /\ ghost' = [ghost EXCEPT !.dirty = @ \/ Engine!Killed]
      /\ UNCHANGED <<gate, job, mode, closing, closed, proxyOwned, endpoint, binding, compat,
                     hotspot, registered>>
  BY DEF Engine!CoreDies, Engine!SidecarDies, Engine!Dies, Engine!control
<1>2. failed \in Cores /\ failed.state = "failed" /\ failed.mode = core.mode /\ ~failed.tun
      /\ failed.host = core.host
  BY EngineTyped DEF Cores
<1>. HIDE DEF failed
<1>3. /\ ghost' \in Ghosts /\ ghost'.good = ghost.good /\ ghost'.lost = ghost.lost
      /\ ghost'.quiet = ghost.quiet /\ ghost'.overtaken = ghost.overtaken
      /\ ghost'.muted = ghost.muted /\ ghost'.restarts = ghost.restarts
      /\ ~ghost'.dirty => ~ghost.dirty /\ (core'.state = "stopped" => core.state = "stopped")
  BY <1>1, DirtyIs
<1>4. EngineTypes'
  BY <1>1, <1>2, <1>3, NothingIs DEF EngineInv, EngineTypes
<1>5. core.tun => core.state = "running" /\ core.mode = "tun"
  BY DEF EngineInv, CoreInv
<1>6. CoreInv' /\ SessionInv'
  BY <1>1, <1>2, <1>3, <1>5, NothingIs, EngineTyped
    DEF EngineInv, PlaceInv, GoesOn, IsOver, OthersRest, Rests, Held, NotHeld, TasksOf, Tasked,
        Launching, Starting, Changing, Stopping, Procs, Now, Engine!WorkerGone, CoreInv,
        SessionInv
<1>. QED BY <1>1, <1>2, <1>3, <1>4, <1>5, <1>6, NothingIs, EngineTyped
           DEF EngineInv, PlaceInv, CompatInv, HotInv, ModeInv, StoppedInv, ClosedInv, QuietInv,
               RecoveryInv, OnItsWay, GoesOn, IsOver, OthersRest, Rests, Held, NotHeld, TasksOf,
               Tasked, Launching, Starting, Changing, Stopping, Procs, Now, Engine!WorkerGone,
               Engine!Nothing, Engine!Nothing

LEMMA EngineInitSound ==
  ASSUME Engine!Init
  PROVE  EngineInv
<1>1. /\ gate = Engine!Free /\ job = [p \in Procs |-> Engine!NoJob] /\ mode \in Modes
      /\ closing = FALSE /\ closed = FALSE /\ core = Engine!NoCore
      /\ proxyOwned = FALSE /\ endpoint = FALSE /\ binding = Engine!NoBinding
      /\ compat = [applied |-> {}, restarting |-> FALSE] /\ hotspot = Engine!NoHotspot
      /\ registered = Engine!Free /\ ghost = Engine!GhostInit
  BY DEF Engine!Init, Procs, Modes
<1>2. /\ job \in [Procs -> Jobs]
      /\ \A p \in Procs : /\ job[p].task = "none" /\ job[p].at = "idle" /\ job[p].err = FALSE
                          /\ job[p].again = FALSE
  BY <1>1, NoJobIs
<1>3. /\ ghost \in Ghosts /\ ghost.dirty = FALSE /\ ghost.good = mode /\ ghost.lost = FALSE
      /\ ghost.quiet = FALSE /\ ghost.muted = FALSE /\ ghost.restarts = [k \in Kinds |-> 0]
  BY <1>1 DEF Engine!GhostInit, Ghosts
<1>4. compat \in Compats
  BY <1>1 DEF Compats
<1>5. EngineTypes
  BY <1>1, <1>2, <1>3, <1>4, NothingIs DEF EngineTypes, Procs
<1>. QED BY <1>1, <1>2, <1>3, <1>5, NothingIs, ProcsAre
  DEF EngineInv, PlaceInv, CompatInv, HotInv, ModeInv, CoreInv, SessionInv, StoppedInv, ClosedInv,
      QuietInv, RecoveryInv, OnItsWay, GoesOn, IsOver, OthersRest, Rests, Held, NotHeld, TasksOf,
      Tasked, Launching, Starting, Changing, Stopping, Procs, Now, Engine!WorkerGone,
      Engine!Nothing

-----------------------------------------------------------------------------
(* DesktopEngine: the theorems.                                            *)

LEMMA EngineStepSound ==
  ASSUME EngineInv, Engine!Next
  PROVE  EngineInv'
<1>1. ASSUME NEW p \in Callers, NEW task \in Tasks, NEW m \in Engine!Modes, Engine!Call(p, task, m)
      PROVE  EngineInv'
  BY <1>1, CallSound DEF Modes
<1>2. ASSUME NEW p \in Procs, Engine!StopStep(p)
      PROVE  EngineInv'
  BY <1>2, AskHotspotSound, HotspotStoppedSound, DownOkSound, DownFailsSound, SettleStopSound,
     QuitSound DEF Engine!StopStep
<1>3. ASSUME NEW p \in Procs, Engine!StartStep(p)
      PROVE  EngineInv'
  BY <1>3, StartPreparedSound, PrepFailsSound, ConnectSound, ConnectFailsSound, LaunchSound,
     LaunchFailsSound, EgressSound, EgressFailsSound, CommitSound, CommitRefusedSound, UndoSound
     DEF Engine!StartStep
<1>4. ASSUME NEW p \in Procs, Engine!Step(p) \/ Engine!GivesUp(p) \/ Engine!Expires(p)
      PROVE  EngineInv'
  BY <1>2, <1>3, <1>4, QueuesSound, TakeGateSound, GivesUpSound, ExpiresSound, SaveModeSound,
     RepairSound, ShareSound, ShareEndsSound DEF Engine!Step
<1>5. ASSUME NEW k \in Kinds, Engine!CoreEvent(k) \/ Engine!ConsumeIgnored(k) \/ Engine!Consume(k)
      PROVE  EngineInv'
  BY <1>5, EventSound, ConsumeSound
<1>. QED BY <1>1, <1>4, <1>5, HotspotReportsSound, ScheduleRefreshSound, ScanEndsSound,
            ScanFindsSound, HandlerEndsSound, SnapshotSound, DiesSound DEF Engine!Next, Procs

THEOREM EngineInvariant == DesktopSpec => []EngineInv
<1>1. DesktopInit => EngineInv
  BY EngineInitSound DEF DesktopInit
<1>2. EngineInv /\ [DesktopNext]_allVars => EngineInv'
  BY EngineStepSound, EngineRests DEF DesktopNext, allVars, engineVars
<1>. QED BY <1>1, <1>2, PTL DEF DesktopSpec

\* Start, Stop and their rollback (engine.go): between operations the desktop
\* has what it thinks it has, whichever step of a start failed.
THEOREM SessionSettled == DesktopSpec => []SettledSession
<1>1. EngineInv => SettledSession
  BY DEF EngineInv, SessionInv, ModeInv, Now, Changing, SettledSession, Engine!SettledSession
<1>. QED BY <1>1, EngineInvariant, PTL

\* Stop (engine.go) and cancelRuntimeBindingRefresh (runtime_bindings.go): after
\* a Stop that nothing overtook, nothing runs until the user calls Start.
THEOREM StopPrevails == DesktopSpec => []StopWins
<1>1. EngineInv => StopWins
  BY DEF EngineInv, QuietInv, StopWins, Engine!StopWins
<1>. QED BY <1>1, EngineInvariant, PTL

\* handleDNSFallback, handleWFPCompatibility and Shutdown (engine.go): an event
\* restarts the session once, and nothing follows the end of the client.
THEOREM RestartsBounded == DesktopSpec => []UserDecides
<1>1. EngineInv => UserDecides
  <2>1. ASSUME EngineInv PROVE Engine!OneCompatRestart
    BY <2>1 DEF EngineInv, CompatInv, Engine!OneCompatRestart
  <2>2. ASSUME EngineInv PROVE Engine!ShutdownIsFinal
    <3>1. closed => core = Engine!NoCore
      BY <2>2, EngineTyped, NoCoreIs DEF EngineInv, ClosedInv, CoreInv
    <3>. QED BY <2>2, <3>1 DEF EngineInv, ClosedInv, Engine!WorkerGone, Engine!ShutdownIsFinal
  <2>. QED BY <2>1, <2>2 DEF UserDecides, Engine!UserDecides
<1>. QED BY <1>1, EngineInvariant, PTL

\* StopHotspot and observeHotspot (hotspot.go): a hotspot that was told to stop
\* is not shown as running, and no refresh brings it back.
THEOREM HotspotMuted == DesktopSpec => []HotspotStaysOff
<1>1. EngineInv => HotspotStaysOff
  BY DEF EngineInv, HotInv, HotspotStaysOff, Engine!HotspotStaysOff
<1>. QED BY <1>1, EngineInvariant, PTL

-----------------------------------------------------------------------------
(* SystemProxy: the inductive invariant, in named parts.                   *)

\* The marker says that HypoMux has taken the proxy over.
ProxyOwned == marker.state \in {"prepared", "active", "restoring"}

\* What the marker would give back is what the last takeover found, and what a
\* restore started from is that or HypoMux's own.
MarkerInv ==
  /\ ProxyOwned => marker.original = before
  /\ marker.state = "restoring" =>
       \A f \in Proxy!Names : marker.from[f] \in {Proxy!Own, marker.original[f]}

\* As long as nobody else writes, the values are those of an owner, or those
\* from before.
ValuesInv == ~touched => IF ProxyOwned THEN Proxy!Untouched ELSE registry = before

\* Only damage and edits lead to a proxy that is turned off.
DamageInv ==
  /\ marker.state = "corrupt" => touched
  /\ op.at \in {"blank1", "blank2", "blanked"} => touched

\* A takeover has its journal, writes over no edit, and finds what it wrote.
TakingInv ==
  /\ op.at \in {"own1", "own2", "own3", "activate"} =>
       /\ marker.state = "prepared"
       /\ \A f \in Proxy!Names : edits[f] = Proxy!NoEdit
  /\ ~touched =>
       /\ op.at \in {"own2", "own3", "activate"} => registry["enable"] = Proxy!Own
       /\ op.at \in {"own3", "activate"} => registry["server"] = Proxy!Own
       /\ op.at = "activate" => registry["override"] = Proxy!Own

\* So does a restore; the edits it meets are of values that it leaves as they are.
GivingInv ==
  /\ op.at \in {"give1", "give2", "give3", "told"} =>
       /\ marker.state = "restoring"
       /\ \A f \in Proxy!Names : edits[f] # Proxy!NoEdit => registry[f] = marker.original[f]
  /\ ~touched =>
       /\ op.at \in {"give2", "give3", "told"} => registry["enable"] = marker.original["enable"]
       /\ op.at \in {"give3", "told"} => registry["server"] = marker.original["server"]
       /\ op.at = "told" => registry["override"] = marker.original["override"]

ProxyInv ==
  /\ Proxy!TypeOK
  /\ MarkerInv /\ ValuesInv /\ DamageInv /\ TakingInv /\ GivingInv
  /\ Proxy!EditsAreKept

-----------------------------------------------------------------------------
(* SystemProxy: what its records are.                                      *)

ProxyOps == [task : {"none", "enable", "restore"}, at : Proxy!Steps]

\* The invariant speaks of the step of an operation only.
LEMMA ProxyGoesTo ==
  ASSUME op \in ProxyOps, NEW step \in Proxy!Steps, Proxy!GoTo(step)
  PROVE  op' \in ProxyOps /\ op'.at = step
BY DEF ProxyOps, Proxy!GoTo

LEMMA ProxyContinues ==
  ASSUME op \in ProxyOps, Proxy!Continue
  PROVE  op' \in ProxyOps /\ op'.at \in {"take", "idle"}
<1>1. "take" \in Proxy!Steps /\ "idle" \in Proxy!Steps
  BY DEF Proxy!Steps
<1>2. Proxy!Idle \in ProxyOps /\ Proxy!Idle.at = "idle"
  BY <1>1 DEF Proxy!Idle, ProxyOps
<1>. QED BY <1>1, <1>2, ProxyGoesTo DEF Proxy!Continue

LEMMA NoMarkerIs ==
  /\ Proxy!NoMarker \in Proxy!Markers /\ Proxy!NoMarker.state = "none"
BY DEF Proxy!NoMarker, Proxy!Markers, Proxy!Owned, Proxy!Settings, Proxy!Values

\* The names of the values, and what may be written to them.
LEMMA ProxyFields ==
  /\ Proxy!Names = {"enable", "server", "override"}
  /\ Proxy!Fields[1] = "enable" /\ Proxy!Fields[2] = "server" /\ Proxy!Fields[3] = "override"
  /\ Proxy!Owned \in Proxy!Settings
  /\ \A f \in Proxy!Names : Proxy!Owned[f] = Proxy!Own
BY DEF Proxy!Names, Proxy!Fields, Proxy!Owned, Proxy!Settings, Proxy!Values

-----------------------------------------------------------------------------
(* SystemProxy: its steps.                                                 *)

\* Beginning, ending and being interrupted change nothing but the step.
LEMMA ProxyStepOnly ==
  ASSUME ProxyInv, UNCHANGED <<registry, marker, before, touched, edits>>,
         op' \in ProxyOps, op'.at \in {"idle", "read", "take"}
  PROVE  ProxyInv'
BY DEF ProxyInv, Proxy!TypeOK, MarkerInv, ValuesInv, DamageInv, TakingInv, GivingInv, ProxyOps,
       Proxy!EditsAreKept, ProxyOwned, Proxy!Untouched

\* Ownership ends where nothing of it is left, or where somebody else wrote.
LEMMA ProxyMarkerGone ==
  ASSUME ProxyInv, marker' = Proxy!NoMarker, UNCHANGED <<registry, before, touched, edits>>,
         op' \in ProxyOps,
         op'.at \in {"idle", "take", "blank1"}, op'.at = "blank1" => touched,
         ~touched => registry = before
  PROVE  ProxyInv'
BY NoMarkerIs DEF ProxyInv, Proxy!TypeOK, MarkerInv, ValuesInv, DamageInv, TakingInv, GivingInv,
       ProxyOps, Proxy!EditsAreKept, ProxyOwned

LEMMA ProxyTypes ==
  ASSUME ProxyInv
  PROVE  /\ registry \in Proxy!Settings /\ before \in Proxy!Settings
         /\ marker \in Proxy!Markers /\ op \in ProxyOps /\ touched \in BOOLEAN
         /\ edits \in [Proxy!Names -> Choices \cup {Proxy!NoEdit}]
BY DEF ProxyInv, Proxy!TypeOK, ProxyOps

LEMMA BeginSound ==
  ASSUME ProxyInv, NEW task \in {"enable", "restore"}, Proxy!Begin(task)
  PROVE  ProxyInv'
<1>1. op' \in ProxyOps /\ op'.at = "read"
  BY DEF Proxy!Begin, ProxyOps, Proxy!Steps
<1>. QED BY <1>1, ProxyStepOnly DEF Proxy!Begin

LEMMA ReadNoMarkerSound ==
  ASSUME ProxyInv, Proxy!ReadNoMarker
  PROVE  ProxyInv'
BY ProxyTypes, ProxyContinues, ProxyStepOnly DEF Proxy!ReadNoMarker

\* An owner finds that it is none: the values can only be those of an edit.
LEMMA ReadForeignSound ==
  ASSUME ProxyInv, Proxy!ReadForeign
  PROVE  ProxyInv'
<1>1. ~touched => registry = before
  BY DEF ProxyInv, ValuesInv, ProxyOwned, Proxy!ReadForeign
<1>2. op' \in ProxyOps /\ op'.at \in {"idle", "take", "blank1"} /\ op'.at # "blank1"
  BY ProxyTypes, ProxyContinues DEF Proxy!ReadForeign
<1>3. marker' = Proxy!NoMarker /\ UNCHANGED <<registry, before, touched, edits>>
  BY DEF Proxy!ReadForeign
<1>. QED BY <1>1, <1>2, <1>3, ProxyMarkerGone, Zenon

\* The journal names the values that are there; an edit among them was made back
\* to what is to be given back, for it is no value of HypoMux.
LEMMA ReadOwnedSound ==
  ASSUME ProxyInv, Proxy!ReadOwned
  PROVE  ProxyInv'
<1> DEFINE m == [marker EXCEPT !.state = "restoring", !.from = registry]
<1>1. /\ op.at = "read" /\ ProxyOwned /\ Proxy!Untouched
      /\ marker' = IF marker.state = "restoring" THEN marker ELSE m
      /\ Proxy!GoTo("give1")
      /\ UNCHANGED <<registry, before, touched, edits>>
  BY DEF Proxy!ReadOwned, Proxy!At, ProxyOwned
<1>2. op' \in ProxyOps /\ op'.at = "give1"
  BY <1>1, ProxyTypes, ProxyGoesTo DEF Proxy!Steps
<1>3. /\ m \in Proxy!Markers /\ m.state = "restoring" /\ m.original = marker.original
      /\ m.from = registry
  BY ProxyTypes DEF Proxy!Markers
<1>. HIDE DEF m
<1>4. /\ marker' \in Proxy!Markers /\ marker'.state = "restoring"
      /\ marker'.original = marker.original /\ marker'.from \in {marker.from, registry}
      /\ marker.state = "restoring" => marker'.from = marker.from
      /\ marker.state # "restoring" => marker'.from = registry
  BY <1>1, <1>3, ProxyTypes
<1>5. \A f \in Proxy!Names : registry[f] \in {Proxy!Own, marker.original[f]}
  <2>1. CASE marker.state = "restoring"
    BY <1>1, <2>1 DEF Proxy!Untouched, ProxyInv, MarkerInv
  <2>2. CASE marker.state # "restoring"
    BY <1>1, <2>2, ProxyFields DEF Proxy!Untouched
  <2>. QED BY <2>1, <2>2
<1>6. \A f \in Proxy!Names : edits[f] # Proxy!NoEdit => registry[f] = marker.original[f]
  BY <1>5, ProxyTypes, ChoicesAssumption DEF ProxyInv, Proxy!EditsAreKept
<1>7. MarkerInv'
  BY <1>1, <1>4, <1>5 DEF MarkerInv, ProxyInv, ProxyOwned
<1>8. ValuesInv'
  BY <1>1, <1>4 DEF ValuesInv, ProxyOwned, Proxy!Untouched
<1>9. TakingInv' /\ GivingInv'
  BY <1>1, <1>2, <1>4, <1>6 DEF TakingInv, GivingInv
<1>. QED BY <1>1, <1>2, <1>4, <1>7, <1>8, <1>9
        DEF ProxyInv, Proxy!TypeOK, DamageInv, ProxyOps, Proxy!EditsAreKept

\* Giving a value back overwrites no edit: one that is still there is of a value
\* that was given back already.
LEMMA GivingBack ==
  ASSUME ProxyInv, NEW f \in Proxy!Names, NEW step \in {"give2", "give3", "told"},
         op.at \in {"give1", "give2", "give3"},
         registry' = [registry EXCEPT ![f] = marker.original[f]],
         op' \in ProxyOps, op'.at = step,
         UNCHANGED <<marker, before, touched, edits>>,
         \/ op.at = "give1" /\ f = "enable" /\ step = "give2"
         \/ op.at = "give2" /\ f = "server" /\ step = "give3"
         \/ op.at = "give3" /\ f = "override" /\ step = "told"
  PROVE  ProxyInv'
<1>1. /\ marker.state = "restoring"
      /\ \A g \in Proxy!Names : edits[g] # Proxy!NoEdit => registry[g] = marker.original[g]
  BY DEF ProxyInv, GivingInv
<1>2. marker.original \in Proxy!Settings
  BY ProxyTypes DEF Proxy!Markers
<1>3. registry' \in Proxy!Settings
      /\ \A g \in Proxy!Names : registry'[g] = IF g = f THEN marker.original[g] ELSE registry[g]
  BY <1>2, ProxyTypes DEF Proxy!Settings
<1>4. ValuesInv'
  BY <1>1, <1>3 DEF ProxyInv, ValuesInv, ProxyOwned, Proxy!Untouched
<1>5. GivingInv'
  BY <1>1, <1>3, ProxyFields DEF ProxyInv, GivingInv
<1>6. Proxy!EditsAreKept'
  BY <1>1, <1>3 DEF ProxyInv, Proxy!EditsAreKept
<1>. QED BY <1>1, <1>3, <1>4, <1>5, <1>6
        DEF ProxyInv, Proxy!TypeOK, MarkerInv, DamageInv, TakingInv, ProxyOwned, ProxyOps

LEMMA GiveBackSound ==
  ASSUME ProxyInv, NEW i \in 1 .. 3, Proxy!GiveBack(i)
  PROVE  ProxyInv'
<1>1. op \in ProxyOps /\ UNCHANGED <<marker, before, touched, edits>>
  BY ProxyTypes DEF Proxy!GiveBack
<1>2. CASE i = 1
  <2>1. op.at = "give1" /\ registry' = [registry EXCEPT !["enable"] = marker.original["enable"]]
        /\ Proxy!GoTo("give2")
    BY <1>2, ProxyFields DEF Proxy!GiveBack, Proxy!At
  <2>2. op' \in ProxyOps /\ op'.at = "give2"
    BY <1>1, <2>1, ProxyGoesTo DEF Proxy!Steps
  <2>. QED BY <1>1, <2>1, <2>2, GivingBack, ProxyFields
<1>3. CASE i = 2
  <2>1. op.at = "give2" /\ registry' = [registry EXCEPT !["server"] = marker.original["server"]]
        /\ Proxy!GoTo("give3")
    BY <1>3, ProxyFields DEF Proxy!GiveBack, Proxy!At
  <2>2. op' \in ProxyOps /\ op'.at = "give3"
    BY <1>1, <2>1, ProxyGoesTo DEF Proxy!Steps
  <2>. QED BY <1>1, <2>1, <2>2, GivingBack, ProxyFields
<1>4. CASE i = 3
  <2>1. op.at = "give3"
        /\ registry' = [registry EXCEPT !["override"] = marker.original["override"]]
        /\ Proxy!GoTo("told")
    BY <1>4, ProxyFields DEF Proxy!GiveBack, Proxy!At
  <2>2. op' \in ProxyOps /\ op'.at = "told"
    BY <1>1, <2>1, ProxyGoesTo DEF Proxy!Steps
  <2>. QED BY <1>1, <2>1, <2>2, GivingBack, ProxyFields
<1>. QED BY <1>2, <1>3, <1>4

\* Once every value is given back, the proxy is as it was.
LEMMA DropMarkerSound ==
  ASSUME ProxyInv, Proxy!DropMarker
  PROVE  ProxyInv'
<1>1. /\ op.at = "told" /\ marker' = Proxy!NoMarker /\ Proxy!Continue
      /\ UNCHANGED <<registry, before, touched, edits>>
  BY DEF Proxy!DropMarker, Proxy!At
<1>2. marker.state = "restoring" /\ marker.original = before
  BY <1>1 DEF ProxyInv, GivingInv, MarkerInv, ProxyOwned
<1>3. ~touched => \A f \in Proxy!Names : registry[f] = before[f]
  BY <1>1, <1>2, ProxyFields DEF ProxyInv, GivingInv
<1>4. ~touched => registry = before
  BY <1>3, ProxyTypes DEF Proxy!Settings
<1>5. op' \in ProxyOps /\ op'.at \in {"idle", "take", "blank1"} /\ op'.at # "blank1"
  BY <1>1, ProxyTypes, ProxyContinues
<1>. QED BY <1>1, <1>4, <1>5, ProxyMarkerGone, Zenon

LEMMA ReadCorruptSound ==
  ASSUME ProxyInv, Proxy!ReadCorrupt
  PROVE  ProxyInv'
<1>1. touched /\ marker' = Proxy!NoMarker /\ UNCHANGED <<registry, before, touched, edits>>
  BY DEF Proxy!ReadCorrupt, ProxyInv, DamageInv
<1>2. op' \in ProxyOps /\ op'.at \in {"idle", "take", "blank1"}
  BY ProxyTypes, ProxyContinues, ProxyGoesTo DEF Proxy!ReadCorrupt, Proxy!Steps
<1>. QED BY <1>1, <1>2, ProxyMarkerGone

\* Turning off follows damage; what it overwrites is no longer an edit that stays.
LEMMA TurningOff ==
  ASSUME ProxyInv, NEW f \in Proxy!Names, op.at \in {"blank1", "blank2"},
         registry' = [registry EXCEPT ![f] = Proxy!Blank],
         edits' = [edits EXCEPT ![f] = Proxy!NoEdit],
         op' \in ProxyOps, op'.at \in {"blank2", "blanked"},
         UNCHANGED <<marker, before, touched>>
  PROVE  ProxyInv'
<1>1. registry' \in Proxy!Settings
      /\ \A g \in Proxy!Names : registry'[g] = IF g = f THEN Proxy!Blank ELSE registry[g]
  BY ProxyTypes DEF Proxy!Settings, Proxy!Values
<1>2. edits' \in [Proxy!Names -> Choices \cup {Proxy!NoEdit}]
      /\ \A g \in Proxy!Names : edits'[g] = IF g = f THEN Proxy!NoEdit ELSE edits[g]
  BY ProxyTypes
<1>3. touched
  BY DEF ProxyInv, DamageInv
<1>4. Proxy!EditsAreKept'
  BY <1>1, <1>2 DEF ProxyInv, Proxy!EditsAreKept
<1>. QED BY <1>1, <1>2, <1>3, <1>4
        DEF ProxyInv, Proxy!TypeOK, MarkerInv, ValuesInv, DamageInv, TakingInv, GivingInv,
            ProxyOwned, ProxyOps

LEMMA TurnOffSound ==
  ASSUME ProxyInv, NEW i \in 1 .. 2, Proxy!TurnOff(i)
  PROVE  ProxyInv'
<1>1. op \in ProxyOps /\ UNCHANGED <<marker, before, touched>>
  BY ProxyTypes DEF Proxy!TurnOff
<1>2. CASE i = 1
  <2>1. /\ op.at = "blank1" /\ registry' = [registry EXCEPT !["enable"] = Proxy!Blank]
        /\ edits' = [edits EXCEPT !["enable"] = Proxy!NoEdit] /\ Proxy!GoTo("blank2")
    BY <1>2, ProxyFields DEF Proxy!TurnOff, Proxy!At
  <2>2. op' \in ProxyOps /\ op'.at = "blank2"
    BY <1>1, <2>1, ProxyGoesTo DEF Proxy!Steps
  <2>. QED BY <1>1, <2>1, <2>2, TurningOff, ProxyFields
<1>3. CASE i = 2
  <2>1. /\ op.at = "blank2" /\ registry' = [registry EXCEPT !["server"] = Proxy!Blank]
        /\ edits' = [edits EXCEPT !["server"] = Proxy!NoEdit] /\ Proxy!GoTo("blanked")
    BY <1>3, ProxyFields DEF Proxy!TurnOff, Proxy!At
  <2>2. op' \in ProxyOps /\ op'.at = "blanked"
    BY <1>1, <2>1, ProxyGoesTo DEF Proxy!Steps
  <2>. QED BY <1>1, <2>1, <2>2, TurningOff, ProxyFields
<1>. QED BY <1>2, <1>3

LEMMA TurnedOffSound ==
  ASSUME ProxyInv, Proxy!TurnedOff
  PROVE  ProxyInv'
BY ProxyTypes, ProxyContinues, ProxyStepOnly DEF Proxy!TurnedOff

\* The journal of a takeover has everything that is there.
LEMMA PrepareSound ==
  ASSUME ProxyInv, Proxy!Prepare
  PROVE  ProxyInv'
<1>1. /\ marker' = Proxy!Journal /\ before' = registry /\ touched' = FALSE
      /\ edits' = [f \in Proxy!Names |-> Proxy!NoEdit]
      /\ UNCHANGED registry
  BY DEF Proxy!Prepare
<1>2. op' \in ProxyOps /\ op'.at = "own1"
  BY ProxyTypes, ProxyGoesTo DEF Proxy!Prepare, Proxy!Steps
<1>3. /\ Proxy!Journal \in Proxy!Markers /\ Proxy!Journal.state = "prepared"
      /\ Proxy!Journal.original = registry
  BY ProxyTypes, ProxyFields DEF Proxy!Journal, Proxy!Markers
<1>. QED BY <1>1, <1>2, <1>3, ProxyTypes
        DEF ProxyInv, Proxy!TypeOK, MarkerInv, ValuesInv, DamageInv, TakingInv, GivingInv,
            ProxyOwned, ProxyOps, Proxy!Untouched, Proxy!EditsAreKept

\* A value that is taken over was in the journal before it was written.
LEMMA TakingOver ==
  ASSUME ProxyInv, NEW f \in Proxy!Names, NEW step \in {"own2", "own3", "activate"},
         op.at \in {"own1", "own2", "own3"},
         registry' = [registry EXCEPT ![f] = Proxy!Own],
         op' \in ProxyOps, op'.at = step,
         UNCHANGED <<marker, before, touched, edits>>,
         \/ op.at = "own1" /\ f = "enable" /\ step = "own2"
         \/ op.at = "own2" /\ f = "server" /\ step = "own3"
         \/ op.at = "own3" /\ f = "override" /\ step = "activate"
  PROVE  ProxyInv'
<1>1. marker.state = "prepared" /\ \A g \in Proxy!Names : edits[g] = Proxy!NoEdit
  BY DEF ProxyInv, TakingInv
<1>2. registry' \in Proxy!Settings
      /\ \A g \in Proxy!Names : registry'[g] = IF g = f THEN Proxy!Own ELSE registry[g]
  BY ProxyTypes DEF Proxy!Settings, Proxy!Values
<1>3. ValuesInv'
  BY <1>1, <1>2, ProxyFields DEF ProxyInv, ValuesInv, ProxyOwned, Proxy!Untouched
<1>4. TakingInv'
  BY <1>1, <1>2, ProxyFields DEF ProxyInv, TakingInv
<1>. QED BY <1>1, <1>2, <1>3, <1>4
        DEF ProxyInv, Proxy!TypeOK, MarkerInv, DamageInv, GivingInv, ProxyOwned, ProxyOps,
            Proxy!EditsAreKept

LEMMA TakeOverSound ==
  ASSUME ProxyInv, NEW i \in 1 .. 3, Proxy!TakeOver(i)
  PROVE  ProxyInv'
<1>1. op \in ProxyOps /\ UNCHANGED <<marker, before, touched, edits>>
  BY ProxyTypes DEF Proxy!TakeOver
<1>2. CASE i = 1
  <2>1. op.at = "own1" /\ registry' = [registry EXCEPT !["enable"] = Proxy!Own]
        /\ Proxy!GoTo("own2")
    BY <1>2, ProxyFields DEF Proxy!TakeOver, Proxy!At
  <2>2. op' \in ProxyOps /\ op'.at = "own2"
    BY <1>1, <2>1, ProxyGoesTo DEF Proxy!Steps
  <2>. QED BY <1>1, <2>1, <2>2, TakingOver, ProxyFields
<1>3. CASE i = 2
  <2>1. op.at = "own2" /\ registry' = [registry EXCEPT !["server"] = Proxy!Own]
        /\ Proxy!GoTo("own3")
    BY <1>3, ProxyFields DEF Proxy!TakeOver, Proxy!At
  <2>2. op' \in ProxyOps /\ op'.at = "own3"
    BY <1>1, <2>1, ProxyGoesTo DEF Proxy!Steps
  <2>. QED BY <1>1, <2>1, <2>2, TakingOver, ProxyFields
<1>4. CASE i = 3
  <2>1. op.at = "own3" /\ registry' = [registry EXCEPT !["override"] = Proxy!Own]
        /\ Proxy!GoTo("activate")
    BY <1>4, ProxyFields DEF Proxy!TakeOver, Proxy!At
  <2>2. op' \in ProxyOps /\ op'.at = "activate"
    BY <1>1, <2>1, ProxyGoesTo DEF Proxy!Steps
  <2>. QED BY <1>1, <2>1, <2>2, TakingOver, ProxyFields
<1>. QED BY <1>2, <1>3, <1>4

\* What an active marker claims has been written, all of it.
LEMMA ActivateSound ==
  ASSUME ProxyInv, Proxy!Activate
  PROVE  ProxyInv'
<1> DEFINE m == [marker EXCEPT !.state = "active"]
<1>1. /\ op.at = "activate" /\ marker' = m /\ op' = Proxy!Idle
      /\ UNCHANGED <<registry, before, touched, edits>>
  BY DEF Proxy!Activate, Proxy!At
<1>2. m \in Proxy!Markers /\ m.state = "active" /\ m.original = marker.original
  BY ProxyTypes DEF Proxy!Markers
<1>. HIDE DEF m
<1>3. op' \in ProxyOps /\ op'.at = "idle"
  BY <1>1 DEF Proxy!Idle, ProxyOps, Proxy!Steps
<1>4. marker.state = "prepared" /\ (~touched => registry = Proxy!Owned)
  <2>1. ~touched => \A f \in Proxy!Names : registry[f] = Proxy!Owned[f]
    BY <1>1, ProxyFields DEF ProxyInv, TakingInv
  <2>. QED BY <1>1, <2>1, ProxyTypes, ProxyFields DEF ProxyInv, TakingInv, Proxy!Settings
<1>. QED BY <1>1, <1>2, <1>3, <1>4
        DEF ProxyInv, Proxy!TypeOK, MarkerInv, ValuesInv, DamageInv, TakingInv, GivingInv,
            ProxyOwned, ProxyOps, Proxy!Untouched, Proxy!EditsAreKept

LEMMA InterruptedSound ==
  ASSUME ProxyInv, Proxy!Interrupted
  PROVE  ProxyInv'
<1>1. op' \in ProxyOps /\ op'.at = "idle"
  BY DEF Proxy!Interrupted, Proxy!Idle, ProxyOps, Proxy!Steps
<1>. QED BY <1>1, ProxyStepOnly DEF Proxy!Interrupted

\* An edit during an operation may be lost and does not count.
LEMMA UserEditsSound ==
  ASSUME ProxyInv, NEW f \in Proxy!Names, NEW v \in Choices, Proxy!UserEdits(f, v)
  PROVE  ProxyInv'
<1>1. /\ registry' = [registry EXCEPT ![f] = v]
      /\ edits' = [edits EXCEPT ![f] = IF op = Proxy!Idle THEN v ELSE Proxy!NoEdit]
      /\ touched' = TRUE /\ UNCHANGED <<marker, op, before>>
  BY DEF Proxy!UserEdits
<1>2. registry' \in Proxy!Settings
      /\ \A g \in Proxy!Names : registry'[g] = IF g = f THEN v ELSE registry[g]
  BY <1>1, ProxyTypes DEF Proxy!Settings, Proxy!Values
<1>3. edits' \in [Proxy!Names -> Choices \cup {Proxy!NoEdit}]
      /\ \A g \in Proxy!Names : edits'[g] =
           IF g = f THEN (IF op = Proxy!Idle THEN v ELSE Proxy!NoEdit) ELSE edits[g]
  BY <1>1, ProxyTypes
<1>4. Proxy!EditsAreKept'
  BY <1>2, <1>3 DEF ProxyInv, Proxy!EditsAreKept
<1>5. op = Proxy!Idle => op.at = "idle"
  BY DEF Proxy!Idle
<1>6. TakingInv' /\ GivingInv'
  BY <1>1, <1>2, <1>3, <1>5 DEF ProxyInv, TakingInv, GivingInv
<1>. QED BY <1>1, <1>2, <1>3, <1>4, <1>6
        DEF ProxyInv, Proxy!TypeOK, MarkerInv, ValuesInv, DamageInv, ProxyOwned

LEMMA MarkerDamagedSound ==
  ASSUME ProxyInv, Proxy!MarkerDamaged
  PROVE  ProxyInv'
<1> DEFINE m == [Proxy!NoMarker EXCEPT !.state = "corrupt"]
<1>1. /\ marker' = m /\ touched' = TRUE /\ op = Proxy!Idle
      /\ UNCHANGED <<registry, op, before, edits>>
  BY DEF Proxy!MarkerDamaged
<1>2. m \in Proxy!Markers /\ m.state = "corrupt"
  BY NoMarkerIs DEF Proxy!Markers
<1>3. op.at = "idle"
  BY <1>1 DEF Proxy!Idle
<1>. HIDE DEF m
<1>. QED BY <1>1, <1>2, <1>3
        DEF ProxyInv, Proxy!TypeOK, MarkerInv, ValuesInv, DamageInv, TakingInv, GivingInv,
            ProxyOwned, Proxy!EditsAreKept

-----------------------------------------------------------------------------
(* SystemProxy: the theorem.                                               *)

LEMMA ProxyStepSound ==
  ASSUME ProxyInv, Proxy!Next
  PROVE  ProxyInv'
BY BeginSound, ReadNoMarkerSound, ReadForeignSound, ReadOwnedSound, ReadCorruptSound,
   GiveBackSound, TakeOverSound, TurnOffSound, DropMarkerSound, TurnedOffSound, PrepareSound,
   ActivateSound, InterruptedSound, UserEditsSound, MarkerDamagedSound
   DEF Proxy!Next

LEMMA ProxyRests ==
  ASSUME ProxyInv, UNCHANGED proxyVars
  PROVE  ProxyInv'
BY DEF proxyVars, ProxyInv, Proxy!TypeOK, MarkerInv, ValuesInv, DamageInv, TakingInv, GivingInv,
       ProxyOwned, Proxy!Untouched, Proxy!EditsAreKept

LEMMA ProxyInitSound ==
  ASSUME Proxy!Init
  PROVE  ProxyInv
<1>1. registry \in Proxy!Settings
  BY DEF Proxy!Init, Proxy!Settings, Proxy!Values
<1>2. op \in ProxyOps /\ op.at = "idle"
  BY DEF Proxy!Init, Proxy!Idle, ProxyOps, Proxy!Steps
<1>3. edits \in [Proxy!Names -> Choices \cup {Proxy!NoEdit}]
  BY DEF Proxy!Init
<1>. QED BY <1>1, <1>2, <1>3, NoMarkerIs
        DEF Proxy!Init, ProxyInv, Proxy!TypeOK, MarkerInv, ValuesInv, DamageInv, TakingInv,
            GivingInv, ProxyOwned, ProxyOps, Proxy!EditsAreKept

\* Whatever interrupts enableSystemProxy and restoreSystemProxy between two of
\* their writes, the proxy is as the user had it or the marker says how to get
\* there; and no restore overwrites what the user set since.
THEOREM ProxyGivenBack == DesktopSpec => []ProxyIsGivenBack
<1>1. DesktopInit => ProxyInv
  BY ProxyInitSound DEF DesktopInit
<1>2. ProxyInv /\ [DesktopNext]_allVars => ProxyInv'
  BY ProxyStepSound, ProxyRests DEF DesktopNext, allVars
<1>3. ProxyInv => ProxyIsGivenBack
  BY DEF ProxyInv, MarkerInv, ValuesInv, ProxyOwned, ProxyIsGivenBack, Proxy!ProxyIsGivenBack,
         Proxy!RecoveryPossible
<1>. QED BY <1>1, <1>2, <1>3, PTL DEF DesktopSpec

-----------------------------------------------------------------------------
(* RuleSets: a step of any size of it needs no invariant.                  *)

\* What is known of a download is no part of what the user wants.
LEMMA TagIsNoIntent ==
  ASSUME NEW id, NEW tag
  PROVE  Rules!Intent([lists EXCEPT ![id] = [lists[id] EXCEPT !.etag = tag]]) = Rules!Intent(lists)
<1> DEFINE changed == [lists EXCEPT ![id] = [lists[id] EXCEPT !.etag = tag]]
<1>1. ASSUME NEW i \in Rules!Ids
      PROVE  [changed[i] EXCEPT !.etag = 0] = [lists[i] EXCEPT !.etag = 0]
  <2>1. CASE i = id /\ id \in DOMAIN lists
    <3>1. changed[i] = [lists[id] EXCEPT !.etag = tag]
      BY <2>1
    <3>. QED BY <2>1, <3>1
  <2>2. CASE ~(i = id /\ id \in DOMAIN lists)
    <3>1. changed[i] = lists[i]
      BY <2>2
    <3>. QED BY <3>1
  <2>. QED BY <2>1, <2>2
<1>. HIDE DEF changed
<1>2. Rules!Intent(changed) = Rules!Intent(lists)
  BY <1>1 DEF Rules!Intent
<1>. QED BY <1>2 DEF changed

LEMMA SameIsNoIntent ==
  ASSUME NEW id
  PROVE  Rules!Intent([lists EXCEPT ![id] = lists[id]]) = Rules!Intent(lists)
<1> DEFINE same == [lists EXCEPT ![id] = lists[id]]
<1>1. \A i \in Rules!Ids : same[i] = lists[i]
  OBVIOUS
<1>. HIDE DEF same
<1>2. Rules!Intent(same) = Rules!Intent(lists)
  BY <1>1 DEF Rules!Intent
<1>. QED BY <1>2 DEF same

\* The end of a download is the only step that closes one and opens a save. It
\* takes the rules and all lists as they are then, and of its own the tag.
LEMMA FetchKeepsEdits ==
  ASSUME NEW version, Rules!FetchEnds(version)
  PROVE  saving'.rules = rules /\ Rules!Intent(saving'.lists) = Rules!Intent(lists)
<1> DEFINE tagged == [lists EXCEPT ![fetching.id] = [lists[fetching.id] EXCEPT !.etag = version]]
           same == [lists EXCEPT ![fetching.id] = lists[fetching.id]]
<1>1. PICK newLists \in {tagged, same} : \E newSource : Rules!Refreshes(rules, newLists, newSource)
  BY DEF Rules!FetchEnds, Rules!Latest, Rules!AsItIs
<1>2. saving'.rules = rules /\ saving'.lists = newLists
  BY <1>1 DEF Rules!Refreshes
<1>3. Rules!Intent(tagged) = Rules!Intent(lists) /\ Rules!Intent(same) = Rules!Intent(lists)
  BY TagIsNoIntent, SameIsNoIntent
<1>. HIDE DEF tagged, same
<1>. QED BY <1>1, <1>2, <1>3

LEMMA RulesStepKeepsEdits ==
  ASSUME Rules!Next,
         fetching # Rules!NoFetch, saving'.open, ~saving.open, fetching' = Rules!NoFetch
  PROVE  saving'.rules = rules /\ Rules!Intent(saving'.lists) = Rules!Intent(lists)
<1>1. CASE \E v : Rules!FetchEnds(v)
  BY <1>1, FetchKeepsEdits
<1>2. CASE ~\E v : Rules!FetchEnds(v)
  <2>1. fetching' = fetching \/ saving' = saving \/ fetching = Rules!NoFetch
    BY <1>2 DEF Rules!Next, Rules!Step, Rules!SavesRules, Rules!SavesLists, Rules!Commits,
         Rules!CommitFails, Rules!RollbackFails, Rules!FetchBegins, Rules!FetchFails,
         Rules!FetchIsLate, Rules!StartReads, Rules!StartWrites, Rules!StartEnds, Rules!TunEnds
  <2>. QED BY <2>1
<1>. QED BY <1>1, <1>2

\* Update (rule_sets_service.go): a download that ends late saves the rules and
\* lists as they are then; it brings no deleted list back and undoes no edit.
THEOREM UpdatesKeepEdits == DesktopSpec => UpdateKeepsEdits
<1> DEFINE A == fetching # Rules!NoFetch /\ saving'.open /\ ~saving.open
                  /\ fetching' = Rules!NoFetch =>
                saving'.rules = rules /\ Rules!Intent(saving'.lists) = Rules!Intent(lists)
<1>1. [DesktopNext]_allVars => [A]_(Rules!vars)
  <2>1. CASE Rules!Next
    BY <2>1, RulesStepKeepsEdits
  <2>2. CASE UNCHANGED rulesVars
    BY <2>2 DEF rulesVars, Rules!vars, Rules!savedVars, Rules!tunVars
  <2>. QED BY <2>1, <2>2 DEF DesktopNext, allVars, rulesVars
<1>2. [][A]_(Rules!vars) => UpdateKeepsEdits
  BY DEF UpdateKeepsEdits, Rules!UpdateKeepsEdits
<1>. HIDE DEF A
<1>. QED BY <1>1, <1>2, PTL DEF DesktopSpec

-----------------------------------------------------------------------------
(* RuleSets: tags.                                                         *)

Downloads == [url : Addresses, version : Nat]

\* The tags of these lists stand for this content.
Honest(ls, src) ==
  \A id \in Rules!Ids : ls[id].etag # 0 /\ src[id] # Rules!NoSource =>
    src[id].url = ls[id].url /\ src[id].version = ls[id].etag

\* So they do for what is saved and for what would be: whichever way a save ends,
\* lists and content go together.
TagsInv ==
  /\ drafts \in Drafts /\ saving.open \in BOOLEAN
  /\ lists \in [Rules!Ids -> Subscriptions] /\ source \in [Rules!Ids -> Downloads]
  /\ fetching = Rules!NoFetch \/ fetching.id \in Rules!Ids
  /\ ~saving.open => Honest(lists, source)
  /\ saving.open => /\ saving.lists \in [Rules!Ids -> Subscriptions]
                    /\ saving.source \in [Rules!Ids -> Downloads]
                    /\ Honest(saving.lists, source) /\ Honest(lists, saving.source)

LEMMA TagsSuffice ==
  ASSUME TagsInv
  PROVE  Rules!CacheIsHonest
<1>1. ASSUME NEW r \in Downloads
      PROVE  r = [url |-> r.url, version |-> r.version]
  BY DEF Downloads
<1>. QED BY <1>1 DEF TagsInv, Honest, Rules!CacheIsHonest

\* A save or an update opens with lists that are honest about its content.
LEMMA RefreshKeepsTags ==
  ASSUME TagsInv, NEW newRules, NEW newLists \in [Rules!Ids -> Subscriptions],
         NEW newSource \in [Rules!Ids -> Downloads], Honest(newLists, newSource),
         Rules!Refreshes(newRules, newLists, newSource),
         UNCHANGED drafts, fetching' = fetching \/ fetching' = Rules!NoFetch
  PROVE  TagsInv'
<1>1. /\ ~saving.open /\ source' = newSource /\ lists' = lists
      /\ saving' = [open |-> TRUE, rules |-> newRules, lists |-> newLists,
                    published |-> published, source |-> source]
  BY DEF Rules!Refreshes, Rules!savedVars
<1>2. saving'.open = TRUE /\ saving'.lists = newLists /\ saving'.source = source
  BY <1>1
<1>. QED BY <1>1, <1>2 DEF TagsInv

\* A list with another tag.
LEMMA Tagged ==
  ASSUME NEW l \in Subscriptions, NEW tag \in Nat
  PROVE  /\ [l EXCEPT !.etag = tag] \in Subscriptions
         /\ [l EXCEPT !.etag = tag].etag = tag /\ [l EXCEPT !.etag = tag].url = l.url
BY ZenonT(60) DEF Subscriptions

LEMMA NoListIs == Rules!NoList \in Subscriptions /\ Rules!NoList.etag = 0
BY DEF Rules!NoList, Subscriptions, Outbounds, Addresses

\* The page's lists keep the tag of the address they keep.
LEMMA SavesListsKeepsTags ==
  ASSUME TagsInv, NEW ls \in drafts.lists, Rules!SavesLists(ls), UNCHANGED drafts
  PROVE  TagsInv'
<1> DEFINE tag(id) == Rules!TagOf(lists[id], ls[id])
           entry(id) == IF ls[id] = Rules!NoList THEN Rules!NoList
                        ELSE [ls[id] EXCEPT !.etag = tag(id)]
           merged == [id \in Rules!Ids |-> entry(id)]
<1>1. Rules!Refreshes(rules, merged, source) /\ UNCHANGED fetching
  BY DEF Rules!SavesLists
<1>2. ~saving.open /\ ls \in [Rules!Ids -> Subscriptions]
  BY <1>1, DraftsAssumption DEF TagsInv, Rules!Refreshes
<1>3. ASSUME NEW id \in Rules!Ids
      PROVE  /\ entry(id) \in Subscriptions
             /\ entry(id).etag # 0 => entry(id).etag = lists[id].etag /\ entry(id).url = lists[id].url
  <2>1. lists[id] \in Subscriptions /\ ls[id] \in Subscriptions /\ lists[id].etag \in Nat
    BY <1>2 DEF TagsInv, Subscriptions
  <2>2. /\ tag(id) \in Nat
        /\ tag(id) # 0 => tag(id) = lists[id].etag /\ ls[id].url = lists[id].url
    BY <2>1 DEF Rules!TagOf
  <2>. HIDE DEF tag
  <2>3. CASE ls[id] = Rules!NoList
    BY <2>3, NoListIs
  <2>4. CASE ls[id] # Rules!NoList
    BY <2>1, <2>2, <2>4, Tagged
  <2>. QED BY <2>3, <2>4
<1>. HIDE DEF entry
<1>4. merged \in [Rules!Ids -> Subscriptions] /\ \A id \in Rules!Ids : merged[id] = entry(id)
  BY <1>3
<1>. HIDE DEF merged
<1>5. Honest(merged, source)
  BY <1>2, <1>3, <1>4 DEF TagsInv, Honest
<1>. QED BY <1>1, <1>4, <1>5, RefreshKeepsTags DEF TagsInv

\* A download is tagged as what it is.
LEMMA FetchEndsKeepsTags ==
  ASSUME TagsInv, NEW version \in Nat, Rules!FetchEnds(version), UNCHANGED drafts
  PROVE  TagsInv'
<1> DEFINE id == fetching.id
           latest == lists[id]
           tagged == [latest EXCEPT !.etag = version]
           got == [url |-> fetching.list.url, version |-> version]
<1>1. /\ fetching # Rules!NoFetch /\ latest.url = fetching.list.url /\ fetching' = Rules!NoFetch
      /\ \/ Rules!Refreshes(rules, [lists EXCEPT ![id] = tagged], [source EXCEPT ![id] = got])
         \/ Rules!Refreshes(rules, [lists EXCEPT ![id] = latest], source)
  BY DEF Rules!FetchEnds, Rules!SameList, Rules!Latest, Rules!AsItIs
<1>2. /\ id \in Rules!Ids /\ ~saving.open /\ latest \in Subscriptions
      /\ lists \in [Rules!Ids -> Subscriptions] /\ source \in [Rules!Ids -> Downloads]
      /\ Honest(lists, source)
  BY <1>1 DEF TagsInv, Rules!Refreshes
<1>3. /\ tagged \in Subscriptions /\ tagged.etag = version /\ tagged.url = latest.url
  BY <1>2, Tagged
<1>4. /\ got \in Downloads /\ got.version = version /\ got.url = latest.url
  BY <1>1, <1>2 DEF Downloads, Subscriptions
<1>. HIDE DEF id, latest, tagged, got
<1>5. CASE Rules!Refreshes(rules, [lists EXCEPT ![id] = tagged], [source EXCEPT ![id] = got])
  <2>1. /\ [lists EXCEPT ![id] = tagged] \in [Rules!Ids -> Subscriptions]
        /\ [source EXCEPT ![id] = got] \in [Rules!Ids -> Downloads]
        /\ Honest([lists EXCEPT ![id] = tagged], [source EXCEPT ![id] = got])
    BY <1>2, <1>3, <1>4 DEF Honest
  <2>. QED BY <1>1, <1>5, <2>1, RefreshKeepsTags
<1>6. CASE Rules!Refreshes(rules, [lists EXCEPT ![id] = latest], source)
  <2>1. [lists EXCEPT ![id] = latest] = lists
    BY <1>2 DEF latest
  <2>. QED BY <1>1, <1>2, <1>6, <2>1, RefreshKeepsTags
<1>. QED BY <1>1, <1>5, <1>6

\* A save ends with both or with neither.
LEMMA SaveEndsKeepsTags ==
  ASSUME TagsInv, UNCHANGED drafts, Rules!Commits \/ Rules!CommitFails \/ Rules!RollbackFails
  PROVE  TagsInv'
<1>1. /\ saving.open /\ fetching' = fetching /\ saving' = Rules!NoSave
      /\ \/ lists' = saving.lists /\ source' = source
         \/ lists' = lists /\ source' = saving.source
  BY DEF Rules!Commits, Rules!CommitFails, Rules!RollbackFails, Rules!savedVars
<1>2. saving'.open = FALSE
  BY <1>1 DEF Rules!NoSave
<1>. QED BY <1>1, <1>2 DEF TagsInv

\* A start that does not know a list removes its content.
LEMMA StartKeepsTags ==
  ASSUME TagsInv, UNCHANGED drafts, Rules!StartWrites
  PROVE  TagsInv'
<1>1. /\ ~saving.open /\ UNCHANGED <<lists, saving, fetching>>
      /\ source' = [id \in Rules!Ids |-> IF begun.lists[id] = Rules!NoList THEN Rules!NoSource
                                         ELSE source[id]]
  BY DEF Rules!StartWrites, Rules!savedVars
<1>2. Rules!NoSource \in Downloads
  BY DEF Rules!NoSource, Downloads, Addresses
<1>3. source' \in [Rules!Ids -> Downloads]
  BY <1>1, <1>2 DEF TagsInv
<1>4. \A id \in Rules!Ids : source'[id] # Rules!NoSource => source'[id] = source[id]
  BY <1>1
<1>5. Honest(lists, source)'
  BY <1>1, <1>4 DEF TagsInv, Honest
<1>. QED BY <1>1, <1>3, <1>5 DEF TagsInv

LEMMA TagsRest ==
  ASSUME TagsInv, UNCHANGED <<drafts, lists, source, saving>>,
         fetching' = fetching \/ fetching' = Rules!NoFetch \/ fetching'.id \in Rules!Ids
  PROVE  TagsInv'
BY DEF TagsInv, Honest

LEMMA TagsInit ==
  ASSUME Rules!Init
  PROVE  TagsInv
<1>1. /\ Rules!NoSave.open = FALSE /\ Rules!NoSource \in Downloads
  BY DEF Rules!NoSave, Rules!NoSource, Downloads, Addresses
<1>. QED BY <1>1, NoListIs DEF Rules!Init, TagsInv, Honest

LEMMA TagsNext ==
  ASSUME TagsInv, Rules!Next
  PROVE  TagsInv'
<1>0. UNCHANGED drafts /\ Rules!Step
  BY DEF Rules!Next
<1>1. ASSUME NEW r \in drafts.rules, Rules!SavesRules(r)
      PROVE  TagsInv'
  <2>1. Rules!Refreshes(r, lists, source) /\ UNCHANGED fetching
    BY <1>1 DEF Rules!SavesRules
  <2>2. ~saving.open
    BY <2>1 DEF Rules!Refreshes
  <2>. QED BY <1>0, <2>1, <2>2, RefreshKeepsTags DEF TagsInv
<1>2. ASSUME NEW ls \in drafts.lists, Rules!SavesLists(ls)
      PROVE  TagsInv'
  BY <1>0, <1>2, SavesListsKeepsTags
<1>3. CASE Rules!Commits \/ Rules!CommitFails \/ Rules!RollbackFails
  BY <1>0, <1>3, SaveEndsKeepsTags
<1>4. ASSUME NEW id \in Rules!Ids, Rules!FetchBegins(id)
      PROVE  TagsInv'
  <2>1. UNCHANGED <<drafts, lists, source, saving>> /\ fetching'.id = id
    BY <1>0, <1>4 DEF Rules!FetchBegins, Rules!savedVars
  <2>. QED BY <2>1, TagsRest
<1>5. ASSUME NEW v \in UNION {DOMAIN Content[u] : u \in Rules!Urls}, Rules!FetchEnds(v)
      PROVE  TagsInv'
  <2>1. v \in Nat
    BY DraftsAssumption DEF Rules!Urls
  <2>. QED BY <1>0, <1>5, <2>1, FetchEndsKeepsTags
<1>6. CASE Rules!StartWrites
  BY <1>0, <1>6, StartKeepsTags
<1>7. CASE \/ Rules!FetchFails \/ Rules!FetchIsLate \/ Rules!StartReads \/ Rules!StartEnds
           \/ Rules!TunEnds
  BY <1>0, <1>7, TagsRest
     DEF Rules!FetchFails, Rules!FetchIsLate, Rules!StartReads, Rules!StartEnds, Rules!TunEnds,
         Rules!savedVars
<1>. QED BY <1>0, <1>1, <1>2, <1>3, <1>4, <1>5, <1>6, <1>7 DEF Rules!Step

\* SaveRuleSets and Update (rule_sets_service.go): a tag stands for the content on
\* the disk, whichever saves fail and whatever starts remove, for any lists.
THEOREM TagsHonest == DesktopSpec => []TagsAreHonest
<1> DEFINE I == part = "rules" => TagsInv
<1>1. DesktopInit => I
  BY TagsInit DEF DesktopInit
<1>2. I /\ [DesktopNext]_allVars => I'
  <2>1. CASE DesktopNext /\ part = "rules"
    BY <2>1, TagsNext DEF DesktopNext
  <2>2. CASE part # "rules" /\ [DesktopNext]_allVars
    BY <2>2 DEF DesktopNext, allVars
  <2>3. CASE UNCHANGED allVars
    BY <2>3, TagsRest DEF allVars, rulesVars
  <2>. QED BY <2>1, <2>2, <2>3
<1>3. I => TagsAreHonest
  BY TagsSuffice DEF TagsAreHonest
<1>. HIDE DEF I
<1>. QED BY <1>1, <1>2, <1>3, PTL DEF DesktopSpec

-----------------------------------------------------------------------------
(* RuleSets: the order of rules, for one flow.                             *)

LEMMA LeastNumber ==
  ASSUME NEW T \in SUBSET Nat, T # {}
  PROVE  \E m \in T : \A k \in T : m <= k
<1>1. PICK m \in T : \A k \in T : ~(<<k, m>> \in OpToRel(<, Nat))
  BY NatLessThanWellFounded, WFMin
<1>2. \A k \in T : ~(k < m)
  BY <1>1 DEF OpToRel
<1>. QED BY <1>2

LEMMA GreatestNumber ==
  ASSUME NEW n \in Nat, NEW T \in SUBSET (0..n), T # {}
  PROVE  \E m \in T : \A k \in T : k <= m
<1> DEFINE gaps == {n - k : k \in T}
<1>1. gaps \in SUBSET Nat /\ gaps # {}
  <2>1. \A k \in T : n - k \in Nat
    OBVIOUS
  <2>2. PICK k \in T : TRUE
    OBVIOUS
  <2>. QED BY <2>1, <2>2
<1>2. PICK g \in gaps : \A h \in gaps : g <= h
  BY <1>1, LeastNumber
<1>3. PICK m \in T : g = n - m
  BY <1>2
<1>4. ASSUME NEW k \in T
      PROVE  k <= m
  <2>1. g <= n - k
    BY <1>2
  <2>. QED BY <1>3, <2>1
<1>. QED BY <1>4

\* Two prefixes of one path: the shorter is one of the longer, and of one length
\* there is one.
LEMMA PrefixesNest ==
  ASSUME NEW a, NEW b, NEW t, IsPath(a), IsPath(b), IsPath(t),
         Rules!IsPrefix(a, t), Rules!IsPrefix(b, t)
  PROVE  /\ Len(a) <= Len(b) => Rules!IsPrefix(a, b)
         /\ Len(a) = Len(b) => a = b
<1>1. Len(a) <= Len(b) => Rules!IsPrefix(a, b)
  BY DEF Rules!IsPrefix, IsPath
<1>2. ASSUME Len(a) = Len(b)
      PROVE  a = b
  <2>1. /\ a = [i \in 1..Len(a) |-> a[i]] /\ b = [i \in 1..Len(b) |-> b[i]]
        /\ Len(a) \in Nat /\ Len(b) \in Nat
    BY DEF IsPath
  <2>2. \A i \in 1..Len(a) : a[i] = t[i]
    BY <2>1 DEF Rules!IsPrefix, IsPath
  <2>3. \A i \in 1..Len(b) : b[i] = t[i]
    BY <2>1 DEF Rules!IsPrefix, IsPath
  <2>. QED BY <1>2, <2>1, <2>2, <2>3
<1>. QED BY <1>1, <1>2

IsFlow(f) == \A k \in RuleKinds : IsPath(f[k])

\* Rules that match one flow.
Matching(M, f) == \A r \in M : IsRule(r) /\ Rules!Matches(r, f)

LEMMA RankIs ==
  \A k \in RuleKinds : /\ Rules!Rank(k) \in 0..2
                       /\ \A l \in RuleKinds : Rules!Rank(k) = Rules!Rank(l) => k = l
                       /\ Rules!Rank(k) = 2 <=> k = "ip"
BY DEF RuleKinds, Rules!Rank

\* One of them has none before it.
LEMMA BestRule ==
  ASSUME NEW f, IsFlow(f), NEW M, M # {}, Matching(M, f)
  PROVE  \E r \in M : \A d \in M : ~Rules!Before(d, r)
<1>1. \A r \in M : /\ r.priority \in 0..MaxPriority /\ MaxPriority \in Nat
                   /\ r.kind \in RuleKinds /\ Rules!Rank(r.kind) \in 0..2
                   /\ Len(r.value) \in 0..Len(f[r.kind]) /\ Len(f[r.kind]) \in Nat
  <2>1. ASSUME NEW r \in M
        PROVE  /\ r.priority \in 0..MaxPriority /\ MaxPriority \in Nat
               /\ r.kind \in RuleKinds /\ Rules!Rank(r.kind) \in 0..2
               /\ Len(r.value) \in 0..Len(f[r.kind]) /\ Len(f[r.kind]) \in Nat
    <3>1. /\ r.kind \in RuleKinds /\ IsPath(r.value) /\ r.priority \in 0..MaxPriority
          /\ Rules!IsPrefix(r.value, f[r.kind]) /\ IsPath(f[r.kind])
      BY DEF Matching, IsRule, IsFlow, Rules!Matches
    <3>2. Len(r.value) \in Nat /\ Len(f[r.kind]) \in Nat /\ Len(r.value) <= Len(f[r.kind])
      BY <3>1 DEF IsPath, Rules!IsPrefix
    <3>. QED BY <3>1, <3>2, RankIs DEF MaxPriority
  <2>. QED BY <2>1
<1> DEFINE priorities == {r.priority : r \in M}
<1>2. PICK p \in priorities : \A q \in priorities : q <= p
  <2>1. priorities \in SUBSET (0..MaxPriority) /\ priorities # {} /\ MaxPriority \in Nat
    BY <1>1
  <2>. QED BY <2>1, GreatestNumber
<1> DEFINE M1 == {r \in M : r.priority = p}
           ranks == {Rules!Rank(r.kind) : r \in M1}
<1>3. PICK k \in ranks : \A l \in ranks : k <= l
  <2>1. ranks \in SUBSET Nat /\ ranks # {}
    BY <1>1, <1>2
  <2>. QED BY <2>1, LeastNumber
<1> DEFINE M2 == {r \in M1 : Rules!Rank(r.kind) = k}
           depths == {Len(r.value) : r \in M2}
<1>4. PICK s \in M2 : TRUE
  BY <1>3
<1>5. \A r \in M2 : r.kind = s.kind
  BY <1>1, <1>4, RankIs
<1>6. PICK m \in depths : \A l \in depths : l <= m
  <2>1. depths \in SUBSET (0..Len(f[s.kind])) /\ depths # {} /\ Len(f[s.kind]) \in Nat
    BY <1>1, <1>4, <1>5
  <2>. QED BY <2>1, GreatestNumber
<1>7. PICK r \in M2 : Len(r.value) = m
  BY <1>6
<1>8. ASSUME NEW d \in M, Rules!Before(d, r)
      PROVE  FALSE
  <2>1. d.priority \in priorities /\ d.priority <= p /\ r.priority = p
    BY <1>2
  <2>2. d.priority = p
    BY <1>1, <1>8, <2>1 DEF Rules!Before, Rules!ByPriority, Rules!ByKind, Rules!ByDepth
  <2>3. Rules!Rank(d.kind) \in ranks /\ k <= Rules!Rank(d.kind) /\ Rules!Rank(r.kind) = k
    BY <1>3, <2>2
  <2>4. ~Rules!ByPriority(d, r) /\ ~Rules!ByKind(d, r)
    BY <1>1, <2>1, <2>2, <2>3 DEF Rules!ByPriority, Rules!ByKind
  <2>5. d.kind = r.kind /\ Len(d.value) > Len(r.value)
    BY <1>8, <2>4 DEF Rules!Before, Rules!ByDepth
  <2>6. Len(d.value) \in depths
    BY <2>2, <2>3, <2>5
  <2>. QED BY <1>1, <1>6, <1>7, <2>5, <2>6
<1>. QED BY <1>8

\* Of two of them one comes before the other.
LEMMA OneIsBefore ==
  ASSUME NEW f, IsFlow(f), NEW M, Matching(M, f), Rules!Distinct(M), NEW a \in M, NEW b \in M, a # b
  PROVE  Rules!Before(a, b) \/ Rules!Before(b, a)
<1>1. /\ a.priority \in Nat /\ b.priority \in Nat /\ a.kind \in RuleKinds /\ b.kind \in RuleKinds
      /\ IsPath(a.value) /\ IsPath(b.value) /\ IsPath(f[a.kind]) /\ IsPath(f[b.kind])
      /\ Rules!IsPrefix(a.value, f[a.kind]) /\ Rules!IsPrefix(b.value, f[b.kind])
  <2>1. IsRule(a) /\ IsRule(b) /\ Rules!Matches(a, f) /\ Rules!Matches(b, f)
    BY DEF Matching
  <2>2. 0..MaxPriority \subseteq Nat
    BY DEF MaxPriority
  <2>. QED BY <2>1, <2>2 DEF IsRule, IsFlow, Rules!Matches
<1>2. CASE a.priority # b.priority
  BY <1>1, <1>2 DEF Rules!Before, Rules!ByPriority
<1>3. CASE a.priority = b.priority /\ a.kind # b.kind
  <2>1. /\ Rules!Rank(a.kind) \in 0..2 /\ Rules!Rank(b.kind) \in 0..2
        /\ Rules!Rank(a.kind) # Rules!Rank(b.kind)
    BY <1>1, <1>3, RankIs
  <2>. QED BY <1>3, <2>1 DEF Rules!Before, Rules!ByKind
<1>4. CASE a.priority = b.priority /\ a.kind = b.kind
  <2>1. a.value # b.value
    BY <1>4 DEF Rules!Distinct
  <2>2. Len(a.value) # Len(b.value)
    BY <1>1, <1>4, <2>1, PrefixesNest
  <2>3. Len(a.value) \in Nat /\ Len(b.value) \in Nat
    BY <1>1 DEF IsPath
  <2>. QED BY <1>4, <2>2, <2>3 DEF Rules!Before, Rules!ByDepth
<1>. QED BY <1>2, <1>3, <1>4

-----------------------------------------------------------------------------
(* RuleSets: what the files keep of the rules and lists that match a flow. *)

\* The rules E and the lists LL, as the files are compiled from them.
Ruled(E, f) == {c \in E : Rules!Matches(c, f)}
RuleHits(E, f) == {c \in E : Rules!InFile(c, f, E)}
Listing(LL, f) == {l \in LL : Rules!ListMatches(l, f)}
ListedIn(E, LL, f) == {l \in LL : Rules!InListFile(l, f, E, LL)}
IsRuleSet(E) == Rules!Distinct(E) /\ \A r \in E : IsRule(r)

LEMMA RuledIs ==
  ASSUME NEW E, IsRuleSet(E), NEW f
  PROVE  Matching(Ruled(E, f), f) /\ Rules!Distinct(Ruled(E, f))
BY DEF IsRuleSet, Ruled, Matching, Rules!Distinct

\* The first of the rules is in its file; what else is, leaves by the same outbound
\* or is of a kind that is looked at later.
LEMMA FirstRuleHits ==
  ASSUME NEW f, IsFlow(f), NEW E, IsRuleSet(E),
         NEW r \in Ruled(E, f), \A d \in Ruled(E, f) : ~Rules!Before(d, r)
  PROVE  /\ r \in RuleHits(E, f)
         /\ \A c \in RuleHits(E, f) :
              /\ c \in Ruled(E, f) /\ c.priority <= r.priority
              /\ c.outbound = r.outbound \/ Rules!Rank(r.kind) < Rules!Rank(c.kind)
<1>1. r \in RuleHits(E, f)
  BY DEF Ruled, RuleHits, Rules!InFile, Rules!Excepts
<1>2. ASSUME NEW c \in RuleHits(E, f)
      PROVE  /\ c \in Ruled(E, f) /\ c.priority <= r.priority
             /\ c.outbound = r.outbound \/ Rules!Rank(r.kind) < Rules!Rank(c.kind)
  <2>1. c \in Ruled(E, f) /\ ~Rules!Excepts(r, c)
    BY DEF Ruled, RuleHits, Rules!InFile
  <2>2. /\ IsRule(r) /\ IsRule(c) /\ Rules!Matches(r, f) /\ Rules!Matches(c, f)
        /\ r.priority \in Nat /\ c.priority \in Nat
    <3>1. IsRule(r) /\ IsRule(c) /\ Rules!Matches(r, f) /\ Rules!Matches(c, f)
      BY <2>1, RuledIs DEF Matching
    <3>2. 0..MaxPriority \subseteq Nat
      BY DEF MaxPriority
    <3>. QED BY <3>1, <3>2 DEF IsRule
  <2>3. c.priority <= r.priority
    BY <2>1, <2>2 DEF Rules!Before, Rules!ByPriority
  <2>4. ASSUME c.outbound # r.outbound
        PROVE  Rules!Rank(r.kind) < Rules!Rank(c.kind)
    <3>1. c # r
      BY <2>4
    <3>2. Rules!Before(r, c)
      BY <2>1, <3>1, OneIsBefore, RuledIs
    <3>3. ASSUME r.kind = c.kind
          PROVE  Rules!Overlap(r, c)
      <4>1. /\ IsPath(r.value) /\ IsPath(c.value) /\ IsPath(f[r.kind])
            /\ Rules!IsPrefix(r.value, f[r.kind]) /\ Rules!IsPrefix(c.value, f[r.kind])
        BY <2>2, <3>3 DEF IsRule, IsFlow, Rules!Matches
      <4>2. Len(r.value) \in Nat /\ Len(c.value) \in Nat
        BY <4>1 DEF IsPath
      <4>3. Len(r.value) <= Len(c.value) \/ Len(c.value) <= Len(r.value)
        BY <4>2
      <4>. QED BY <3>3, <4>1, <4>3, PrefixesNest DEF Rules!Overlap
    <3>4. r.kind # c.kind /\ ~(r.priority > c.priority)
      BY <2>1, <2>4, <3>2, <3>3 DEF Rules!Excepts
    <3>. QED BY <3>2, <3>4 DEF Rules!Before, Rules!ByPriority, Rules!ByKind, Rules!ByDepth
  <2>. QED BY <2>1, <2>3, <2>4
<1>. QED BY <1>1, <1>2

\* Lists are told apart by their numbers.
IsListSet(LL) == /\ \A l \in LL : l.id \in Rules!Ids /\ l.priority \in Nat
                 /\ \A k, l \in LL : k.id = l.id => k = l

LEMMA ListsAreOrdered ==
  ASSUME NEW LL, IsListSet(LL), NEW k \in LL, NEW l \in LL
  PROVE  /\ k # l => Rules!Higher(k, l) \/ Rules!Higher(l, k)
         /\ ~Rules!Higher(k, l) => k.priority <= l.priority
BY DEF IsListSet, Rules!Higher, Rules!Ids

LEMMA BestList ==
  ASSUME NEW LL, IsListSet(LL), NEW K \in SUBSET LL, K # {}
  PROVE  \E l \in K : \A k \in K : ~Rules!Higher(k, l)
<1>1. \A k, l \in K : /\ k.id \in {1, 2} /\ k.priority \in Nat
                      /\ k.id = l.id => k = l
  BY DEF IsListSet, Rules!Ids
<1>2. PICK a \in K : TRUE
  OBVIOUS
<1>3. CASE \E b \in K : Rules!Higher(b, a)
  <2>1. PICK b \in K : Rules!Higher(b, a)
    BY <1>3
  <2>2. a.id # b.id /\ ~Rules!Higher(a, b) /\ ~Rules!Higher(b, b)
    BY <1>1, <2>1 DEF Rules!Higher
  <2>3. \A k \in K : k = a \/ k = b
    BY <1>1, <2>2
  <2>. QED BY <2>2, <2>3
<1>4. CASE ~\E b \in K : Rules!Higher(b, a)
  BY <1>4
<1>. QED BY <1>3, <1>4

\* A list that nothing outranks is in its file, and what else is leaves by the
\* same outbound.
LEMMA FirstListHits ==
  ASSUME NEW f, NEW E, NEW LL, IsListSet(LL),
         NEW l \in Listing(LL, f), \A k \in Listing(LL, f) : ~Rules!Higher(k, l),
         \A c \in Ruled(E, f) : ~Rules!RanksAhead(c, l)
  PROVE  /\ l \in ListedIn(E, LL, f)
         /\ \A k \in ListedIn(E, LL, f) : k.outbound = l.outbound
<1>1. l \in ListedIn(E, LL, f)
  BY DEF Listing, Ruled, ListedIn, Rules!InListFile, Rules!ManualExcept, Rules!ListExcept
<1>2. ASSUME NEW k \in ListedIn(E, LL, f)
      PROVE  k.outbound = l.outbound
  <2>1. /\ k \in Listing(LL, f)
        /\ ~(Rules!Higher(l, k) /\ l.outbound # k.outbound)
    BY DEF Listing, ListedIn, Rules!InListFile, Rules!ListExcept
  <2>2. k = l \/ Rules!Higher(l, k)
    BY <2>1, ListsAreOrdered DEF Listing
  <2>. QED BY <2>1, <2>2
<1>. QED BY <1>1, <1>2

\* Against a rule that ranks ahead of them, only lists to its own outbound are.
LEMMA RuleOutranksLists ==
  ASSUME NEW f, NEW E, NEW LL, NEW r \in Ruled(E, f),
         \A l \in Listing(LL, f) : Rules!RanksAhead(r, l)
  PROVE  \A k \in ListedIn(E, LL, f) : k.outbound = r.outbound
BY DEF Ruled, Listing, ListedIn, Rules!InListFile, Rules!ManualExcept

\* If any rule ranks ahead of the first list, the first rule does, of all lists.
LEMMA FirstRuleRanksAhead ==
  ASSUME NEW f, IsFlow(f), NEW E, IsRuleSet(E), NEW LL, IsListSet(LL),
         NEW r \in Ruled(E, f), \A d \in Ruled(E, f) : ~Rules!Before(d, r),
         NEW l \in Listing(LL, f), \A k \in Listing(LL, f) : ~Rules!Higher(k, l),
         NEW c \in Ruled(E, f), Rules!RanksAhead(c, l)
  PROVE  /\ \A k \in Listing(LL, f) : Rules!RanksAhead(r, k)
         /\ ~(r.kind = "ip" /\ r.priority = 0)
<1>1. /\ r.priority \in Nat /\ c.priority \in Nat /\ r.kind \in RuleKinds /\ c.kind \in RuleKinds
      /\ l.priority \in Nat
  <2>1. IsRule(r) /\ IsRule(c)
    BY RuledIs DEF Matching
  <2>2. 0..MaxPriority \subseteq Nat
    BY DEF MaxPriority
  <2>. QED BY <2>1, <2>2 DEF IsRule, IsListSet, Listing
<1>2. c.priority <= r.priority
  BY <1>1 DEF Rules!Before, Rules!ByPriority
<1>3. c.priority = r.priority /\ r.kind = "ip" => c.kind = "ip"
  BY <1>1 DEF Rules!Before, Rules!ByKind, Rules!Rank, RuleKinds
<1>4. Rules!RanksAhead(r, l)
  BY <1>1, <1>2, <1>3 DEF Rules!RanksAhead
<1>5. ASSUME NEW k \in Listing(LL, f)
      PROVE  Rules!RanksAhead(r, k)
  <2>1. k.priority <= l.priority /\ k.priority \in Nat
    BY ListsAreOrdered DEF Listing, IsListSet
  <2>. QED BY <1>1, <1>4, <2>1 DEF Rules!RanksAhead
<1>. QED BY <1>1, <1>4, <1>5 DEF Rules!RanksAhead
-----------------------------------------------------------------------------
(* RuleSets: where a flow goes, and where it should.                       *)

\* The files hold the saved rules and lists, and the configuration what they need.
UpToDate ==
  /\ IsRuleSet(Rules!Enabled(rules)) /\ IsListSet(Rules!LiveLists(lists, source))
  /\ published.rules = rules /\ published.lists = Rules!LiveLists(lists, source)
  /\ DOMAIN pinned.declared \subseteq Nat
  /\ Rules!Declared = {[id |-> l.id, outbound |-> l.outbound] : l \in Rules!LiveLists(lists, source)}
  /\ \A r \in Rules!Enabled(rules) : r.outbound \in pinned.outbounds

RulesNow == Rules!Enabled(rules)
ListsNow == Rules!LiveLists(lists, source)

LEMMA UserHitsAre ==
  ASSUME UpToDate, NEW f
  PROVE  Rules!UserHits(f) = RuleHits(RulesNow, f)
BY DEF UpToDate, Rules!UserHits, RuleHits, RulesNow

LEMMA ListHitsAre ==
  ASSUME UpToDate, NEW f
  PROVE  /\ \A i \in Rules!ListHits(f) :
              \E l \in ListedIn(RulesNow, ListsNow, f) : pinned.declared[i].outbound = l.outbound
         /\ ListedIn(RulesNow, ListsNow, f) # {} => Rules!ListHits(f) # {}
         /\ Rules!ListHits(f) \subseteq Nat
<1> DEFINE LL == ListsNow
           In(l) == Rules!InListFile(l, f, RulesNow, LL)
<1>1. Rules!ListHits(f) = {i \in DOMAIN pinned.declared :
                             \E l \in LL : l.id = pinned.declared[i].id /\ In(l)}
  BY DEF UpToDate, Rules!ListHits, ListsNow, RulesNow
<1>2. /\ {pinned.declared[i] : i \in DOMAIN pinned.declared} =
           {[id |-> l.id, outbound |-> l.outbound] : l \in LL}
      /\ DOMAIN pinned.declared \subseteq Nat
      /\ \A k, l \in LL : k.id = l.id => k = l
  BY DEF UpToDate, Rules!Declared, ListsNow, IsListSet
<1>3. ListedIn(RulesNow, ListsNow, f) = {l \in LL : In(l)}
  BY DEF ListedIn
<1>. HIDE DEF LL, In
<1>4. ASSUME NEW i \in Rules!ListHits(f)
      PROVE  \E l \in ListedIn(RulesNow, ListsNow, f) : pinned.declared[i].outbound = l.outbound
  <2>1. i \in DOMAIN pinned.declared
    BY <1>1
  <2>2. PICK k \in LL : pinned.declared[i] = [id |-> k.id, outbound |-> k.outbound]
    BY <1>2, <2>1
  <2>3. PICK l \in LL : l.id = pinned.declared[i].id /\ In(l)
    BY <1>1
  <2>4. l = k
    BY <1>2, <2>2, <2>3
  <2>. QED BY <1>3, <2>2, <2>3, <2>4
<1>5. ASSUME NEW l \in ListedIn(RulesNow, ListsNow, f)
      PROVE  Rules!ListHits(f) # {}
  <2>1. l \in LL /\ In(l)
    BY <1>3
  <2>2. PICK i \in DOMAIN pinned.declared : pinned.declared[i] = [id |-> l.id, outbound |-> l.outbound]
    BY <1>2, <2>1
  <2>. QED BY <1>1, <2>1, <2>2
<1>. QED BY <1>1, <1>2, <1>4, <1>5

\* The outbound of the list that the configuration names first.
FirstListed(f) ==
  {pinned.declared[i].outbound :
     i \in {j \in Rules!ListHits(f) : \A k \in Rules!ListHits(f) : j <= k}}

LEMMA FirstListedIs ==
  ASSUME UpToDate, NEW f, Rules!ListHits(f) # {}, NEW o,
         \A l \in ListedIn(RulesNow, ListsNow, f) : l.outbound = o
  PROVE  FirstListed(f) = {o}
<1>1. \A i \in Rules!ListHits(f) : pinned.declared[i].outbound = o
  BY ListHitsAre
<1>2. PICK i \in Rules!ListHits(f) : \A k \in Rules!ListHits(f) : i <= k
  BY ListHitsAre, LeastNumber
<1>. QED BY <1>1, <1>2 DEF FirstListed

\* The outbound of the file of rules that the configuration names first.
FirstOfRules(H) ==
  {c.outbound : c \in {d \in H : \A e \in H : Rules!Rank(d.kind) <= Rules!Rank(e.kind)}}

LEMMA FirstOfRulesIs ==
  ASSUME NEW H, NEW r \in H, \A c \in H : c.kind \in RuleKinds,
         \A c \in H : c.outbound = r.outbound \/ Rules!Rank(r.kind) < Rules!Rank(c.kind)
  PROVE  FirstOfRules(H) = {r.outbound}
<1> DEFINE ranks == {Rules!Rank(c.kind) : c \in H}
<1>1. \A c \in H : Rules!Rank(c.kind) \in Nat
  BY RankIs
<1>2. ranks \in SUBSET Nat /\ ranks # {}
  BY <1>1
<1>3. PICK m \in ranks : \A k \in ranks : m <= k
  BY <1>2, LeastNumber
<1>4. PICK c \in H : m = Rules!Rank(c.kind)
  BY <1>3
<1>5. \A e \in H : Rules!Rank(c.kind) <= Rules!Rank(e.kind)
  BY <1>3, <1>4
<1>6. ASSUME NEW d \in H, Rules!Rank(d.kind) <= Rules!Rank(r.kind)
      PROVE  d.outbound = r.outbound
  BY <1>1, <1>6
<1>. QED BY <1>5, <1>6 DEF FirstOfRules

LEMMA RoutesToIs ==
  ASSUME UpToDate, NEW f
  PROVE  LET uh == RuleHits(RulesNow, f)
             nics == {c.outbound : c \in {d \in uh : d.outbound \in Nics}}
             bypassed == /\ f.proxy /\ Rules!ListHits(f) = {}
                         /\ \A c \in uh : c.kind = "ip" /\ c.priority = 0
         IN Rules!RoutesTo(f) =
              IF bypassed THEN IF nics # {} THEN nics ELSE {"system-direct"}
              ELSE IF Rules!ListHits(f) # {} THEN FirstListed(f)
              ELSE IF uh # {} THEN FirstOfRules(uh)
              ELSE {"final"}
<1> DEFINE uh == RuleHits(RulesNow, f)
           nics == {c.outbound : c \in {d \in uh : d.outbound \in Nics}}
           bypassed == /\ f.proxy /\ Rules!ListHits(f) = {}
                       /\ \A c \in uh : c.kind = "ip" /\ c.priority = 0
<1>1. Rules!UserHits(f) = uh
  BY UserHitsAre
<1>2. Rules!Bypassed(f) <=> bypassed
  BY <1>1 DEF Rules!Bypassed
<1>3. Rules!RoutesTo(f) =
        IF Rules!Bypassed(f)
        THEN IF nics # {} THEN nics ELSE {"system-direct"}
        ELSE IF Rules!ListHits(f) # {} THEN FirstListed(f)
        ELSE IF uh # {} THEN FirstOfRules(uh)
        ELSE {"final"}
  BY <1>1 DEF Rules!RoutesTo, FirstListed, FirstOfRules
<1>. HIDE DEF uh, nics, bypassed
<1>4. Rules!RoutesTo(f) =
        IF bypassed
        THEN IF nics # {} THEN nics ELSE {"system-direct"}
        ELSE IF Rules!ListHits(f) # {} THEN FirstListed(f)
        ELSE IF uh # {} THEN FirstOfRules(uh)
        ELSE {"final"}
  BY <1>2, <1>3
<1>. QED BY <1>4 DEF uh, nics, bypassed

\* What the settings say, of the first rule and the first list.
FirstRule(f) ==
  {c \in Ruled(RulesNow, f) : /\ \A d \in Ruled(RulesNow, f) : ~Rules!Before(d, c)
                              /\ \A l \in Listing(ListsNow, f) : Rules!RanksAhead(c, l)}
FirstList(f) ==
  {l \in Listing(ListsNow, f) : /\ \A k \in Listing(ListsNow, f) : ~Rules!Higher(k, l)
                                /\ \A c \in Ruled(RulesNow, f) : ~Rules!RanksAhead(c, l)}

LEMMA IntendedIs ==
  ASSUME NEW f
  PROVE  LET yields == FirstList(f) = {} /\ \A c \in FirstRule(f) : c.kind = "ip" /\ c.priority = 0
             chosen == {x.outbound : x \in FirstRule(f) \cup FirstList(f)}
         IN Rules!Intended(f) =
              IF f.proxy /\ yields
              THEN IF chosen \cap Nics # {} THEN chosen ELSE {"system-direct"}
              ELSE IF chosen # {} THEN chosen ELSE {"final"}
BY DEF Rules!Intended, FirstRule, FirstList, Ruled, Listing, RulesNow, ListsNow

\* No rule matches, and no list.
LEMMA NoneDecides ==
  ASSUME UpToDate, NEW f, Ruled(RulesNow, f) = {}, Listing(ListsNow, f) = {}
  PROVE  Rules!RoutesTo(f) = Rules!Intended(f)
<1>1. RuleHits(RulesNow, f) = {} /\ ListedIn(RulesNow, ListsNow, f) = {}
  BY DEF RuleHits, Ruled, Rules!InFile, ListedIn, Listing, Rules!InListFile
<1>2. Rules!ListHits(f) = {}
  BY <1>1, ListHitsAre
<1>3. FirstRule(f) = {} /\ FirstList(f) = {}
  BY DEF FirstRule, FirstList
<1>4. Rules!RoutesTo(f) = IF f.proxy THEN {"system-direct"} ELSE {"final"}
  BY <1>1, <1>2, RoutesToIs
<1>5. Rules!Intended(f) = IF f.proxy THEN {"system-direct"} ELSE {"final"}
  BY <1>3, IntendedIs
<1>. QED BY <1>4, <1>5

\* A list decides.
LEMMA ListDecides ==
  ASSUME UpToDate, NEW f, NEW l \in Listing(ListsNow, f),
         \A k \in Listing(ListsNow, f) : ~Rules!Higher(k, l),
         \A c \in Ruled(RulesNow, f) : ~Rules!RanksAhead(c, l)
  PROVE  Rules!RoutesTo(f) = Rules!Intended(f)
<1>1. /\ l \in ListedIn(RulesNow, ListsNow, f)
      /\ \A k \in ListedIn(RulesNow, ListsNow, f) : k.outbound = l.outbound
  BY FirstListHits DEF UpToDate, RulesNow, ListsNow
<1>2. Rules!ListHits(f) # {} /\ FirstListed(f) = {l.outbound}
  BY <1>1, ListHitsAre, FirstListedIs
<1>3. Rules!RoutesTo(f) = {l.outbound}
  BY <1>2, RoutesToIs
<1>4. FirstRule(f) = {}
  BY DEF FirstRule
<1>5. FirstList(f) = {l}
  <2>1. \A k \in FirstList(f) : k = l
    BY ListsAreOrdered DEF FirstList, UpToDate, ListsNow, Listing
  <2>. QED BY <2>1 DEF FirstList
<1>6. Rules!Intended(f) = {l.outbound}
  BY <1>4, <1>5, IntendedIs
<1>. QED BY <1>3, <1>6

\* A rule decides: it is the first, and ranks ahead of every list that matches.
LEMMA RuleDecides ==
  ASSUME UpToDate, NEW f, IsFlow(f),
         NEW r \in Ruled(RulesNow, f), \A d \in Ruled(RulesNow, f) : ~Rules!Before(d, r),
         \A l \in Listing(ListsNow, f) : Rules!RanksAhead(r, l),
         Listing(ListsNow, f) # {} => ~(r.kind = "ip" /\ r.priority = 0)
  PROVE  Rules!RoutesTo(f) = Rules!Intended(f)
<1> DEFINE uh == RuleHits(RulesNow, f)
           low(c) == c.kind = "ip" /\ c.priority = 0
<1>0. IsRuleSet(RulesNow) /\ IsListSet(ListsNow)
  BY DEF UpToDate, RulesNow, ListsNow
<1>1. /\ r \in uh
      /\ \A c \in uh : /\ c \in Ruled(RulesNow, f) /\ c.priority <= r.priority
                       /\ c.outbound = r.outbound \/ Rules!Rank(r.kind) < Rules!Rank(c.kind)
  BY <1>0, FirstRuleHits
<1>2. \A c \in Ruled(RulesNow, f) : c.kind \in RuleKinds /\ c.priority \in Nat
  <2>1. 0..MaxPriority \subseteq Nat
    BY DEF MaxPriority
  <2>. QED BY <1>0, <2>1 DEF IsRuleSet, Ruled, IsRule
<1>3. FirstOfRules(uh) = {r.outbound}
  <2>1. /\ r \in uh /\ \A c \in uh : c.kind \in RuleKinds
        /\ \A c \in uh : c.outbound = r.outbound \/ Rules!Rank(r.kind) < Rules!Rank(c.kind)
    BY <1>1, <1>2
  <2>. HIDE DEF uh
  <2>. QED BY <2>1, FirstOfRulesIs
<1>4. \A k \in ListedIn(RulesNow, ListsNow, f) : k.outbound = r.outbound
  BY RuleOutranksLists
<1>5. Rules!ListHits(f) # {} => FirstListed(f) = {r.outbound}
  BY <1>4, FirstListedIs
<1>6. FirstRule(f) = {r}
  <2>1. ASSUME NEW c \in FirstRule(f)
        PROVE  c = r
    BY <1>0, <2>1, RuledIs, OneIsBefore DEF FirstRule
  <2>2. r \in FirstRule(f)
    BY DEF FirstRule
  <2>. QED BY <2>1, <2>2
<1>7. FirstList(f) = {}
  BY DEF FirstList
<1>8. Rules!Intended(f) = IF f.proxy /\ low(r)
                          THEN IF r.outbound \in Nics THEN {r.outbound} ELSE {"system-direct"}
                          ELSE {r.outbound}
  <2> DEFINE yields == FirstList(f) = {} /\ \A c \in FirstRule(f) : c.kind = "ip" /\ c.priority = 0
             chosen == {x.outbound : x \in FirstRule(f) \cup FirstList(f)}
  <2>1. Rules!Intended(f) = IF f.proxy /\ yields
                            THEN IF chosen \cap Nics # {} THEN chosen ELSE {"system-direct"}
                            ELSE IF chosen # {} THEN chosen ELSE {"final"}
    BY IntendedIs
  <2>2. (yields <=> low(r)) /\ chosen = {r.outbound}
    BY <1>6, <1>7
  <2>. HIDE DEF yields, chosen, low
  <2>. QED BY <2>1, <2>2
\* The bypass: what has no priority is last, and nothing else matches then.
<1>9. ASSUME low(r)
      PROVE  Rules!ListHits(f) = {} /\ \A c \in uh : low(c) /\ c.outbound = r.outbound
  <2>1. Listing(ListsNow, f) = {}
    BY <1>9
  <2>2. Rules!ListHits(f) = {}
    BY <2>1, ListHitsAre DEF ListedIn, Listing, Rules!InListFile
  <2>3. ASSUME NEW c \in uh
        PROVE  low(c) /\ c.outbound = r.outbound
    <3>1. c \in Ruled(RulesNow, f) /\ c.priority = 0 /\ c.kind \in RuleKinds
      <4>1. c \in Ruled(RulesNow, f) /\ c.priority <= r.priority /\ r.priority = 0
        BY <1>1, <1>9, <2>3
      <4>2. c.priority \in Nat /\ c.kind \in RuleKinds
        BY <1>2, <4>1
      <4>3. c.priority = 0
        BY <4>1, <4>2
      <4>. QED BY <4>1, <4>2, <4>3
    <3>2. ~Rules!ByKind(c, r) /\ r.kind \in RuleKinds
      BY <1>2, <3>1 DEF Rules!Before
    <3>3. Rules!Rank(r.kind) = 2 /\ Rules!Rank(c.kind) \in 0..2
      BY <1>2, <1>9, <3>1, RankIs
    <3>4. Rules!Rank(c.kind) = 2
      BY <1>9, <3>1, <3>2, <3>3 DEF Rules!ByKind
    <3>5. c.kind = "ip"
      BY <3>1, <3>4, RankIs
    <3>. QED BY <1>1, <2>3, <3>1, <3>3, <3>4, <3>5
  <2>. QED BY <2>2, <2>3
<1>10. Rules!RoutesTo(f) = IF f.proxy /\ low(r)
                           THEN IF r.outbound \in Nics THEN {r.outbound} ELSE {"system-direct"}
                           ELSE {r.outbound}
  <2> DEFINE nics == {c.outbound : c \in {d \in uh : d.outbound \in Nics}}
             bypassed == /\ f.proxy /\ Rules!ListHits(f) = {}
                         /\ \A c \in uh : c.kind = "ip" /\ c.priority = 0
  <2>1. Rules!RoutesTo(f) =
          IF bypassed THEN IF nics # {} THEN nics ELSE {"system-direct"}
          ELSE IF Rules!ListHits(f) # {} THEN FirstListed(f)
          ELSE IF uh # {} THEN FirstOfRules(uh)
          ELSE {"final"}
    BY RoutesToIs
  <2>2. CASE f.proxy /\ low(r)
    <3>1. bypassed
      BY <1>9, <2>2
    <3>2. \A c \in uh : c.outbound = r.outbound
      BY <1>9, <2>2
    <3>3. nics = IF r.outbound \in Nics THEN {r.outbound} ELSE {}
      BY <1>1, <3>2
    <3>. HIDE DEF bypassed, nics
    <3>. QED BY <2>1, <2>2, <3>1, <3>3
  <2>3. CASE ~(f.proxy /\ low(r))
    <3>1. ~bypassed /\ uh # {}
      BY <1>1, <2>3
    <3>. HIDE DEF bypassed, nics
    <3>. QED BY <1>3, <1>5, <2>1, <2>3, <3>1
  <2>. QED BY <2>2, <2>3
<1>. QED BY <1>8, <1>10

\* RoutesTo and Intended agree on every flow.
LEMMA FlowsFollow ==
  ASSUME UpToDate, NEW f, IsFlow(f)
  PROVE  Rules!RoutesTo(f) = Rules!Intended(f)
<1>0. IsRuleSet(RulesNow) /\ IsListSet(ListsNow)
  BY DEF UpToDate, RulesNow, ListsNow
<1>1. CASE Listing(ListsNow, f) = {}
  <2>1. CASE Ruled(RulesNow, f) = {}
    BY <1>1, <2>1, NoneDecides
  <2>2. CASE Ruled(RulesNow, f) # {}
    <3>1. PICK r \in Ruled(RulesNow, f) : \A d \in Ruled(RulesNow, f) : ~Rules!Before(d, r)
      BY <1>0, <2>2, RuledIs, BestRule
    <3>. QED BY <1>1, <3>1, RuleDecides
  <2>. QED BY <2>1, <2>2
<1>2. CASE Listing(ListsNow, f) # {}
  <2>1. PICK l \in Listing(ListsNow, f) : \A k \in Listing(ListsNow, f) : ~Rules!Higher(k, l)
    BY <1>0, <1>2, BestList DEF Listing
  <2>2. CASE \A c \in Ruled(RulesNow, f) : ~Rules!RanksAhead(c, l)
    BY <2>1, <2>2, ListDecides
  <2>3. CASE \E c \in Ruled(RulesNow, f) : Rules!RanksAhead(c, l)
    <3>1. PICK c \in Ruled(RulesNow, f) : Rules!RanksAhead(c, l)
      BY <2>3
    <3>2. PICK r \in Ruled(RulesNow, f) : \A d \in Ruled(RulesNow, f) : ~Rules!Before(d, r)
      BY <1>0, <3>1, RuledIs, BestRule
    <3>3. /\ \A k \in Listing(ListsNow, f) : Rules!RanksAhead(r, k)
          /\ ~(r.kind = "ip" /\ r.priority = 0)
      BY <1>0, <2>1, <3>1, <3>2, FirstRuleRanksAhead
    <3>. QED BY <3>2, <3>3, RuleDecides
  <2>. QED BY <2>2, <2>3
<1>. QED BY <1>1, <1>2
-----------------------------------------------------------------------------
(* RuleSets: the lists that count.                                         *)

LEMMA LiveIs ==
  ASSUME NEW ls, NEW id, ls[id] \in Subscriptions, NEW src
  PROVE  Rules!IsLive(ls, src, id) <=> ~ls[id].disabled /\ src[id] # Rules!NoSource
BY DEF Rules!IsLive, Rules!NoList

LEMMA CompiledIs ==
  ASSUME NEW ls, NEW src, NEW id, NEW o
  PROVE  LET l == Rules!Compiled(ls, src, id, o)
         IN l.id = id /\ l.outbound = o /\ l.priority = ls[id].priority
BY DEF Rules!Compiled

LEMMA LiveListsAre ==
  ASSUME NEW ls \in [Rules!Ids -> Subscriptions], NEW src
  PROVE  /\ IsListSet(Rules!LiveLists(ls, src))
         /\ \A l \in Rules!LiveLists(ls, src) :
              /\ l.id \in Rules!Ids /\ Rules!IsLive(ls, src, l.id)
              /\ l = Rules!Compiled(ls, src, l.id, l.outbound) /\ l.outbound = ls[l.id].outbound
         /\ \A id \in Rules!Ids : Rules!IsLive(ls, src, id) =>
              Rules!Compiled(ls, src, id, ls[id].outbound) \in Rules!LiveLists(ls, src)
<1> DEFINE LL == Rules!LiveLists(ls, src)
<1>1. ASSUME NEW l \in LL
      PROVE  /\ l.id \in Rules!Ids /\ Rules!IsLive(ls, src, l.id) /\ l.priority \in Nat
             /\ l = Rules!Compiled(ls, src, l.id, l.outbound) /\ l.outbound = ls[l.id].outbound
  <2>1. PICK id \in Rules!Ids : /\ Rules!IsLive(ls, src, id)
                                /\ l = Rules!Compiled(ls, src, id, ls[id].outbound)
    BY DEF Rules!LiveLists
  <2>2. l.id = id /\ l.outbound = ls[id].outbound /\ l.priority = ls[id].priority
    BY <2>1, CompiledIs
  <2>3. ls[id].priority \in Nat
    BY DEF Subscriptions
  <2>. QED BY <2>1, <2>2, <2>3
<1>2. \A id \in Rules!Ids : Rules!IsLive(ls, src, id) =>
        Rules!Compiled(ls, src, id, ls[id].outbound) \in LL
  BY DEF Rules!LiveLists
<1>. HIDE DEF LL
<1>3. IsListSet(LL)
  <2>1. ASSUME NEW k \in LL, NEW l \in LL, k.id = l.id
        PROVE  k = l
    BY <1>1, <2>1
  <2>. QED BY <1>1, <2>1 DEF IsListSet
<1>. QED BY <1>1, <1>2, <1>3 DEF LL

LEMMA RulesCardinality == \A S : Rules!Cardinality(S) = Cardinality(S)
BY DEF Rules!Cardinality, Cardinality

LEMMA NoMoreThanTwo ==
  ASSUME NEW LL, IsListSet(LL)
  PROVE  \/ LL = {} /\ Cardinality(LL) = 0
         \/ \E a : LL = {a} /\ Cardinality(LL) = 1
         \/ \E a, b : LL = {a, b} /\ Rules!Higher(a, b) /\ Cardinality(LL) = 2
<1>1. \A k, l \in LL : k.id \in {1, 2} /\ (k.id = l.id => k = l)
  BY DEF IsListSet, Rules!Ids
<1>2. CASE LL = {}
  BY <1>2, FS_EmptySet
<1>3. ASSUME NEW a \in LL, LL \ {a} = {}
      PROVE  LL = {a} /\ Cardinality(LL) = 1
  <2>1. LL = {a}
    BY <1>3
  <2>. QED BY <2>1, FS_Singleton
<1>4. ASSUME NEW a \in LL, NEW b \in LL, Rules!Higher(a, b)
      PROVE  LL = {a, b} /\ Cardinality(LL) = 2
  <2>1. a.id # b.id
    BY <1>1, <1>4 DEF Rules!Higher, IsListSet
  <2>2. LL = {a, b} /\ a # b
    BY <1>1, <2>1
  <2>3. IsFiniteSet({a}) /\ Cardinality({a}) = 1 /\ b \notin {a} /\ LL = {a} \cup {b}
    BY <2>2, FS_Singleton
  <2>. QED BY <2>2, <2>3, FS_AddElement
<1>5. CASE \E a \in LL : LL \ {a} # {}
  <2>1. PICK a \in LL, b \in LL : a # b
    BY <1>5
  <2>2. Rules!Higher(a, b) \/ Rules!Higher(b, a)
    BY <2>1, ListsAreOrdered
  <2>. QED BY <1>4, <2>2
<1>. QED BY <1>2, <1>3, <1>5

\* The order in which a start declares its lists names each of them.
Ordered(LL, s) ==
  /\ s \in [1..Cardinality(LL) -> LL]
  /\ \A i, j \in DOMAIN s : i < j => Rules!Higher(s[i], s[j])

LEMMA OrderExists ==
  ASSUME NEW LL, IsListSet(LL)
  PROVE  \E s : Ordered(LL, s)
<1>1. CASE LL = {} /\ Cardinality(LL) = 0
  <2>1. [i \in 1..0 |-> 0] \in [1..0 -> LL] /\ DOMAIN [i \in 1..0 |-> 0] = {}
    OBVIOUS
  <2>. QED BY <1>1, <2>1 DEF Ordered
<1>2. ASSUME NEW a, LL = {a}, Cardinality(LL) = 1
      PROVE  \E s : Ordered(LL, s)
  <2> DEFINE s == [i \in 1..1 |-> a]
  <2>1. s \in [1..1 -> LL] /\ \A i, j \in DOMAIN s : ~(i < j)
    BY <1>2
  <2>. QED BY <1>2, <2>1 DEF Ordered
<1>3. ASSUME NEW a, NEW b, LL = {a, b}, Rules!Higher(a, b), Cardinality(LL) = 2
      PROVE  \E s : Ordered(LL, s)
  <2> DEFINE s == [i \in 1..2 |-> IF i = 1 THEN a ELSE b]
  <2>1. s \in [1..2 -> LL]
    BY <1>3
  <2>2. \A i, j \in DOMAIN s : i < j => s[i] = a /\ s[j] = b
    OBVIOUS
  <2>. QED BY <1>3, <2>1, <2>2 DEF Ordered
<1>. QED BY <1>1, <1>2, <1>3, NoMoreThanTwo

LEMMA OrderNamesAll ==
  ASSUME NEW LL, IsListSet(LL), NEW s, Ordered(LL, s)
  PROVE  DOMAIN s \subseteq Nat /\ {s[i] : i \in DOMAIN s} = LL
<1>1. \A k \in LL : ~Rules!Higher(k, k)
  BY DEF IsListSet, Rules!Higher, Rules!Ids
<1>2. DOMAIN s = 1..Cardinality(LL)
  BY DEF Ordered
<1>3. CASE LL = {} /\ Cardinality(LL) = 0
  BY <1>2, <1>3 DEF Ordered
<1>4. ASSUME NEW a, LL = {a}, Cardinality(LL) = 1
      PROVE  DOMAIN s \subseteq Nat /\ {s[i] : i \in DOMAIN s} = LL
  <2>1. DOMAIN s = {1} /\ s[1] = a
    BY <1>2, <1>4 DEF Ordered
  <2>. QED BY <1>4, <2>1
<1>5. ASSUME NEW a, NEW b, LL = {a, b}, Cardinality(LL) = 2
      PROVE  DOMAIN s \subseteq Nat /\ {s[i] : i \in DOMAIN s} = LL
  <2>1. DOMAIN s = {1, 2} /\ s[1] \in LL /\ s[2] \in LL
    BY <1>2, <1>5 DEF Ordered
  <2>2. s[1] # s[2]
    BY <1>1, <2>1 DEF Ordered
  <2>. QED BY <1>5, <2>1, <2>2
<1>. QED BY <1>3, <1>4, <1>5, NoMoreThanTwo
-----------------------------------------------------------------------------
(* RuleSets: the files.                                                    *)

\* What files hold while the configuration has declared these lists.
KeptFrom(D, ls, src) ==
  {Rules!Compiled(ls, src, d.id, d.outbound) : d \in {e \in D : Rules!IsLive(ls, src, e.id)}}
Declaring(LL) == {[id |-> l.id, outbound |-> l.outbound] : l \in LL}

\* These files were compiled from these rules, lists and contents, unless some could
\* not be put back or the start that wrote them was overtaken.
InForce(files, rs, ls, src) ==
  pinned.exists /\ ~files.torn /\ ~files.late =>
    files.rules = rs /\ files.lists = KeptFrom(Rules!Declared, ls, src)

\* They are in force for what is saved, and during a save for what would be; what
\* would come back is in force for what is saved.
RoutesInv ==
  /\ TagsInv
  /\ IsRuleSet(rules) /\ (saving.open => IsRuleSet(saving.rules))
  /\ DOMAIN pinned.declared \subseteq Nat
  /\ tun \in {"written", "running"} => pinned.exists
  /\ tun \in {"starting", "written"} => begun.lists \in [Rules!Ids -> Subscriptions]
  /\ ~saving.open => InForce(published, rules, lists, source)
  /\ saving.open => /\ InForce(published, saving.rules, saving.lists, source)
                    /\ InForce(saving.published, rules, lists, saving.source)

LEMMA KeptIs ==
  ASSUME NEW LL, NEW ls, NEW src,
         \A l \in LL : Rules!IsLive(ls, src, l.id) /\ l = Rules!Compiled(ls, src, l.id, l.outbound)
  PROVE  KeptFrom(Declaring(LL), ls, src) = LL
<1>1. ASSUME NEW x \in KeptFrom(Declaring(LL), ls, src)
      PROVE  x \in LL
  <2>1. PICK l \in LL : x = Rules!Compiled(ls, src, l.id, l.outbound)
    BY DEF KeptFrom, Declaring
  <2>. QED BY <2>1
<1>2. ASSUME NEW l \in LL
      PROVE  l \in KeptFrom(Declaring(LL), ls, src)
  <2> DEFINE d == [id |-> l.id, outbound |-> l.outbound]
  <2>1. d \in Declaring(LL) /\ d.id = l.id /\ d.outbound = l.outbound
    BY DEF Declaring
  <2>. HIDE DEF d
  <2>2. Rules!Compiled(ls, src, d.id, d.outbound) = l /\ Rules!IsLive(ls, src, d.id)
    BY <2>1
  <2>. QED BY <2>1, <2>2 DEF KeptFrom
<1>. QED BY <1>1, <1>2

LEMMA RoutesSuffice ==
  ASSUME RoutesInv
  PROVE  Rules!RoutesAsSaved
<1> SUFFICES ASSUME tun = "running", ~saving.open, ~published.torn, ~published.late,
                    ~Rules!RestartRequired
             PROVE  Rules!Aligned
  BY DEF Rules!RoutesAsSaved
<1> DEFINE LL == Rules!LiveLists(lists, source)
<1>1. /\ Rules!Declared = Declaring(LL)
      /\ \A r \in Rules!Enabled(rules) : r.outbound \in pinned.outbounds
  BY DEF Rules!RestartRequired, Declaring
<1>2. lists \in [Rules!Ids -> Subscriptions]
  BY DEF RoutesInv, TagsInv
<1>3. /\ IsListSet(LL)
      /\ \A l \in LL : Rules!IsLive(lists, source, l.id)
                       /\ l = Rules!Compiled(lists, source, l.id, l.outbound)
  BY <1>2, LiveListsAre
<1>4. published.rules = rules /\ published.lists = KeptFrom(Rules!Declared, lists, source)
  BY DEF RoutesInv, InForce
<1>5. published.lists = LL
  BY <1>1, <1>3, <1>4, KeptIs
<1>6. IsRuleSet(Rules!Enabled(rules))
  BY DEF RoutesInv, IsRuleSet, Rules!Enabled, Rules!Distinct
<1>7. UpToDate
  BY <1>1, <1>3, <1>4, <1>5, <1>6 DEF UpToDate, RoutesInv, Declaring
<1>8. \A f \in Flows : IsFlow(f)
  BY DraftsAssumption DEF IsFlow
<1>. QED BY <1>7, <1>8, FlowsFollow DEF Rules!Aligned

-----------------------------------------------------------------------------
(* RuleSets: the steps.                                                    *)

\* What a save or an update writes is in force for what it is about to save.
LEMMA RefreshKeepsRoutes ==
  ASSUME RoutesInv, TagsInv', NEW newRules, IsRuleSet(newRules), NEW newLists, NEW newSource,
         Rules!Refreshes(newRules, newLists, newSource)
  PROVE  RoutesInv'
<1>1. /\ ~saving.open /\ source' = newSource /\ UNCHANGED <<rules, lists, pinned, tun, begun>>
      /\ published' = IF pinned.exists
                      THEN [rules |-> newRules, lists |-> Rules!Kept(newLists, newSource),
                            late |-> FALSE, torn |-> FALSE]
                      ELSE published
      /\ saving' = [open |-> TRUE, rules |-> newRules, lists |-> newLists,
                    published |-> published, source |-> source]
  BY DEF Rules!Refreshes, Rules!savedVars, Rules!tunVars
<1>2. /\ saving'.open = TRUE /\ saving'.rules = newRules /\ saving'.lists = newLists
      /\ saving'.published = published /\ saving'.source = source
  BY <1>1
<1>3. Rules!Declared' = Rules!Declared
  BY <1>1 DEF Rules!Declared
<1>4. pinned.exists => /\ published'.rules = newRules
                       /\ published'.lists = KeptFrom(Rules!Declared, newLists, newSource)
  BY <1>1 DEF Rules!Kept, KeptFrom
<1>5. InForce(published, saving.rules, saving.lists, source)'
  BY <1>1, <1>2, <1>3, <1>4 DEF InForce
<1>6. InForce(saving.published, rules, lists, saving.source)'
  BY <1>1, <1>2, <1>3 DEF InForce, RoutesInv
<1>. QED BY <1>1, <1>2, <1>5, <1>6 DEF RoutesInv

\* A save ends with the files of what is saved.
LEMMA SaveEndsKeepsRoutes ==
  ASSUME RoutesInv, TagsInv', Rules!Commits \/ Rules!CommitFails \/ Rules!RollbackFails
  PROVE  RoutesInv'
<1>1. /\ saving.open /\ UNCHANGED <<pinned, tun, begun>> /\ saving' = Rules!NoSave
      /\ saving'.open = FALSE
  BY DEF Rules!Commits, Rules!CommitFails, Rules!RollbackFails, Rules!savedVars, Rules!tunVars,
         Rules!NoSave
<1>2. Rules!Declared' = Rules!Declared
  BY <1>1 DEF Rules!Declared
<1>3. InForce(published, rules, lists, source)' /\ IsRuleSet(rules')
  <2>1. CASE Rules!Commits
    <3>1. rules' = saving.rules /\ lists' = saving.lists /\ UNCHANGED <<source, published>>
      BY <2>1 DEF Rules!Commits
    <3>. QED BY <1>1, <1>2, <3>1 DEF InForce, RoutesInv
  <2>2. CASE Rules!CommitFails
    <3>1. published' = saving.published /\ source' = saving.source /\ UNCHANGED <<rules, lists>>
      BY <2>2 DEF Rules!CommitFails, Rules!Restored, Rules!savedVars
    <3>. QED BY <1>1, <1>2, <3>1 DEF InForce, RoutesInv
  <2>3. CASE Rules!RollbackFails
    <3>1. published' = [published EXCEPT !.torn = TRUE] /\ UNCHANGED <<rules, lists>>
      BY <2>3 DEF Rules!RollbackFails, Rules!savedVars
    <3>2. published'.torn = TRUE
      BY <3>1
    <3>. QED BY <3>1, <3>2 DEF InForce, RoutesInv
  <2>. QED BY <2>1, <2>2, <2>3
<1>. QED BY <1>1, <1>3 DEF RoutesInv

LEMMA RoutesRest ==
  ASSUME RoutesInv, TagsInv',
         UNCHANGED <<rules, lists, source, published, pinned, saving>>,
         tun' \in {"written", "running"} => tun \in {"written", "running"},
         tun' \in {"starting", "written"} => begun'.lists \in [Rules!Ids -> Subscriptions]
  PROVE  RoutesInv'
<1>1. Rules!Declared' = Rules!Declared
  BY DEF Rules!Declared
<1>. QED BY <1>1 DEF RoutesInv, InForce

LEMMA IntentIs ==
  ASSUME NEW ls \in [Rules!Ids -> Subscriptions]
  PROVE  /\ Rules!Intent(ls) \in [Rules!Ids -> Subscriptions]
         /\ \A id \in Rules!Ids : /\ Rules!Intent(ls)[id].disabled = ls[id].disabled
                                  /\ Rules!Intent(ls)[id].priority = ls[id].priority
<1>1. ASSUME NEW id \in Rules!Ids
      PROVE  LET l == [ls[id] EXCEPT !.etag = 0]
             IN l \in Subscriptions /\ l.disabled = ls[id].disabled /\ l.priority = ls[id].priority
  <2>1. ls[id] \in Subscriptions
    OBVIOUS
  <2>. QED BY <2>1, ZenonT(60) DEF Subscriptions
<1>. QED BY <1>1 DEF Rules!Intent

\* A start writes the files and the configuration from what it has read.
LEMMA StartKeepsRoutes ==
  ASSUME RoutesInv, TagsInv', Rules!StartWrites
  PROVE  RoutesInv'
<1> DEFINE live == Rules!LiveLists(begun.lists, source)
           order == CHOOSE s \in [1..Rules!Cardinality(live) -> live] :
                      \A i, j \in DOMAIN s : i < j => Rules!Higher(s[i], s[j])
           late == begun.rules # rules \/ begun.lists # Rules!Intent(lists)
<1>1. /\ ~saving.open /\ tun \in {"starting", "written"} /\ tun' = "written"
      /\ UNCHANGED <<rules, lists, saving, begun>>
      /\ published' = [rules |-> begun.rules, lists |-> live, torn |-> FALSE, late |-> late]
      /\ \E o : pinned' = [exists |-> TRUE, outbounds |-> o,
                           declared |-> [i \in DOMAIN order |->
                                           [id |-> order[i].id, outbound |-> order[i].outbound]]]
      /\ source' = [id \in Rules!Ids |-> IF begun.lists[id] = Rules!NoList THEN Rules!NoSource
                                         ELSE source[id]]
  BY DEF Rules!StartWrites, Rules!savedVars
<1>2. begun.lists \in [Rules!Ids -> Subscriptions] /\ lists \in [Rules!Ids -> Subscriptions]
  BY <1>1 DEF RoutesInv, TagsInv
<1>3. /\ IsListSet(live)
      /\ \A l \in live : /\ l.id \in Rules!Ids /\ Rules!IsLive(begun.lists, source, l.id)
                         /\ l = Rules!Compiled(begun.lists, source, l.id, l.outbound)
  BY <1>2, LiveListsAre
<1>4. DOMAIN order \subseteq Nat /\ {order[i] : i \in DOMAIN order} = live
  <2>1. \E s \in [1..Rules!Cardinality(live) -> live] :
           \A i, j \in DOMAIN s : i < j => Rules!Higher(s[i], s[j])
    BY <1>3, OrderExists, RulesCardinality DEF Ordered
  <2>2. Ordered(live, order)
    BY <2>1, RulesCardinality DEF Ordered
  <2>3. IsListSet(live)
    BY <1>3
  <2>. HIDE DEF order, live
  <2>. QED BY <2>2, <2>3, OrderNamesAll
<1>. HIDE DEF order, live
<1>5. /\ pinned'.exists = TRUE /\ DOMAIN pinned'.declared = DOMAIN order
      /\ \A i \in DOMAIN order : pinned'.declared[i] = [id |-> order[i].id, outbound |-> order[i].outbound]
  BY <1>1
<1>6. Rules!Declared' = Declaring(live)
  <2>1. Rules!Declared' = {[id |-> order[i].id, outbound |-> order[i].outbound] : i \in DOMAIN order}
    BY <1>5 DEF Rules!Declared
  <2>. QED BY <1>4, <2>1 DEF Declaring
<1>7. ASSUME begun.lists = Rules!Intent(lists), NEW l \in live
      PROVE  Rules!IsLive(lists, source', l.id) /\ l = Rules!Compiled(lists, source', l.id, l.outbound)
  <2>1. PICK id \in Rules!Ids : id = l.id
    BY <1>3
  <2>2. /\ begun.lists[id] # Rules!NoList /\ ~begun.lists[id].disabled /\ source[id] # Rules!NoSource
    BY <1>3, <2>1 DEF Rules!IsLive
  <2>3. source'[id] = source[id]
    BY <1>1, <2>2
  <2>4. lists[id].disabled = begun.lists[id].disabled /\ lists[id].priority = begun.lists[id].priority
    BY <1>2, <1>7, IntentIs
  <2>5. Rules!IsLive(lists, source', id)
    BY <1>2, <2>2, <2>3, <2>4, LiveIs
  <2>6. Rules!Compiled(lists, source', id, l.outbound) = Rules!Compiled(begun.lists, source, id, l.outbound)
    BY <2>3, <2>4 DEF Rules!Compiled
  <2>. QED BY <1>3, <2>1, <2>5, <2>6
<1>8. InForce(published, rules, lists, source)'
  <2>1. published'.rules = begun.rules /\ published'.lists = live /\ published'.late = late
    BY <1>1
  <2>2. ASSUME ~late
        PROVE  /\ published'.rules = rules'
               /\ published'.lists = KeptFrom(Rules!Declared', lists', source')
    <3>1. begun.rules = rules /\ begun.lists = Rules!Intent(lists)
      BY <2>2
    <3>2. KeptFrom(Declaring(live), lists, source') = live
      BY <1>7, <3>1, KeptIs
    <3>. QED BY <1>1, <1>6, <2>1, <3>1, <3>2
  <2>. QED BY <2>1, <2>2 DEF InForce
<1>. QED BY <1>1, <1>2, <1>4, <1>5, <1>8 DEF RoutesInv

LEMMA RoutesInit ==
  ASSUME Rules!Init
  PROVE  RoutesInv
<1>1. /\ Rules!NoSave.open = FALSE /\ Rules!NoPin.exists = FALSE /\ DOMAIN Rules!NoPin.declared \subseteq Nat
  BY DEF Rules!NoSave, Rules!NoPin
<1>2. IsRuleSet({})
  BY DEF IsRuleSet, Rules!Distinct
<1>. QED BY <1>1, <1>2, TagsInit DEF Rules!Init, RoutesInv, InForce

LEMMA RoutesNext ==
  ASSUME RoutesInv, Rules!Next
  PROVE  RoutesInv'
<1>0. UNCHANGED drafts /\ Rules!Step /\ TagsInv' /\ IsRuleSet(rules) /\ drafts \in Drafts
  BY TagsNext DEF Rules!Next, RoutesInv, TagsInv
<1>1. ASSUME NEW r \in drafts.rules, Rules!SavesRules(r)
      PROVE  RoutesInv'
  <2>1. IsRuleSet(r)
    BY <1>0, DraftsAssumption DEF IsRuleSet
  <2>. QED BY <1>0, <1>1, <2>1, RefreshKeepsRoutes DEF Rules!SavesRules
<1>2. ASSUME NEW ls \in drafts.lists, Rules!SavesLists(ls)
      PROVE  RoutesInv'
  <2>1. PICK merged : Rules!Refreshes(rules, merged, source)
    BY <1>2 DEF Rules!SavesLists
  <2>. QED BY <1>0, <2>1, RefreshKeepsRoutes
<1>3. CASE Rules!Commits \/ Rules!CommitFails \/ Rules!RollbackFails
  BY <1>0, <1>3, SaveEndsKeepsRoutes
<1>4. ASSUME NEW v, Rules!FetchEnds(v)
      PROVE  RoutesInv'
  <2>1. \E newLists, newSource : Rules!Refreshes(rules, newLists, newSource)
    BY <1>4 DEF Rules!FetchEnds
  <2>. QED BY <1>0, <2>1, RefreshKeepsRoutes
<1>5. CASE Rules!StartWrites
  BY <1>0, <1>5, StartKeepsRoutes
<1>6. CASE Rules!StartReads
  <2>1. /\ UNCHANGED <<rules, lists, source, published, pinned, saving>> /\ tun' = "starting"
        /\ begun' = [rules |-> rules, lists |-> Rules!Intent(lists)]
    BY <1>6 DEF Rules!StartReads, Rules!savedVars
  <2>2. begun'.lists = Rules!Intent(lists)
    BY <2>1
  <2>3. Rules!Intent(lists) \in [Rules!Ids -> Subscriptions]
    BY IntentIs DEF RoutesInv, TagsInv
  <2>. QED BY <1>0, <2>1, <2>2, <2>3, RoutesRest
<1>7. CASE Rules!StartEnds
  BY <1>0, <1>7, RoutesRest DEF Rules!StartEnds, Rules!savedVars
<1>8. CASE Rules!TunEnds
  BY <1>0, <1>8, RoutesRest DEF Rules!TunEnds, Rules!savedVars
<1>9. CASE Rules!FetchFails \/ Rules!FetchIsLate \/ \E id \in Rules!Ids : Rules!FetchBegins(id)
  <2>1. UNCHANGED <<rules, lists, source, published, pinned, saving, tun, begun>>
    BY <1>9 DEF Rules!FetchFails, Rules!FetchIsLate, Rules!FetchBegins, Rules!savedVars, Rules!tunVars
  <2>2. tun \in {"starting", "written"} => begun.lists \in [Rules!Ids -> Subscriptions]
    BY DEF RoutesInv
  <2>. QED BY <1>0, <2>1, <2>2, RoutesRest
<1>. QED BY <1>0, <1>1, <1>2, <1>3, <1>4, <1>5, <1>6, <1>7, <1>8, <1>9 DEF Rules!Step

\* compileSingBoxRules, Publish, Rollback, buildMihomoTUNConfig (singbox_rules.go,
\* tun_config.go): for any rules, lists, contents and flows, what sing-box does with
\* the files is what the settings say, whichever saves, updates and starts have
\* failed or met, unless the page asks for a restart; and a tag stands for what is on
\* the disk.
THEOREM RulesFollowed == DesktopSpec => []RulesInForce
<1> DEFINE I == part = "rules" => RoutesInv
<1>1. DesktopInit => I
  BY RoutesInit DEF DesktopInit
<1>2. I /\ [DesktopNext]_allVars => I'
  <2>1. CASE DesktopNext /\ part = "rules"
    BY <2>1, RoutesNext DEF DesktopNext
  <2>2. CASE part # "rules" /\ [DesktopNext]_allVars
    BY <2>2 DEF DesktopNext, allVars
  <2>3. CASE UNCHANGED allVars
    <3>1. UNCHANGED <<part, drafts, rules, lists, source, published, pinned, saving, fetching, tun, begun>>
      BY <2>3 DEF allVars, rulesVars
    <3>2. RoutesInv => TagsInv'
      BY <3>1, TagsRest DEF RoutesInv
    <3>3. RoutesInv => (tun \in {"starting", "written"} => begun.lists \in [Rules!Ids -> Subscriptions])
      BY DEF RoutesInv
    <3>. QED BY <3>1, <3>2, <3>3, RoutesRest
  <2>. QED BY <2>1, <2>2, <2>3
<1>3. I => RulesInForce
  BY RoutesSuffice, TagsSuffice DEF RulesInForce, RoutesAsSaved, TagsAreHonest, RoutesInv
<1>. HIDE DEF I
<1>. QED BY <1>1, <1>2, <1>3, PTL DEF DesktopSpec
=============================================================================
