---------------------------- MODULE EngineClient ----------------------------
(***************************************************************************)
(* The desktop's connection to the Core                                    *)
(* (desktop/internal/engineclient/client.go, launcher.go).                 *)
(*                                                                         *)
(* Any goroutine of the desktop starts a Core, sends a request over the    *)
(* current one, kills it or shuts the client down. One start runs at a     *)
(* time (startGate) and one write (writeGate); mu is held for a few lines  *)
(* only, so that every action below is one critical section or one         *)
(* blocking step, and a goroutine may be overtaken between any two. Each   *)
(* Core has a reader and a watcher of its process that may end the session *)
(* on their own.                                                           *)
(*                                                                         *)
(* The Core is external: it may answer late or never, stop at any time,    *)
(* and it does stop once its transport is closed. Kill adds nothing to     *)
(* that (an elevated Core cannot be terminated, privileged_windows.go) and *)
(* is not modelled; nor are events, which touch no state of the client.    *)
(*                                                                         *)
(* Requests are numbered once and for all (sequence), and a goroutine has  *)
(* at most one: a request is named by the goroutine that waits for it, and *)
(* what concerns a request nobody waits for any more is forgotten.         *)
(***************************************************************************)
EXTENDS Naturals

CONSTANTS
  Threads,     \* the goroutines that call the client
  Calls,       \* Calls[t]: what thread t may call
  MaxCores     \* bound: Cores launched

Operations == {"ensure", "elevate", "request", "shutdown", "kill", "close"}
Cores   == 1 .. MaxCores
NoCore  == 0
Nobody  == 0                    \* the holder of a free gate
Actors  == Threads \cup Cores   \* a Core stands for its reader and its watcher

ASSUME CallsAssumption   == Calls \in [Threads -> SUBSET Operations]
ASSUME BoundsAssumption  == MaxCores \in Nat
ASSUME ThreadsAssumption == Threads \cap Nat = {}

VARIABLES
  \* Client, and the channel of every request
  closed, startGate, writeGate, session, hello, pending, reply,
  \* the goroutines: where they are, in which call, the Core a start launched
  \* and what that said of itself, the Core a request goes to
  pc, op, mine, negotiated, target,
  \* killCurrent and failSession past their critical section
  tearing,
  \* the Cores, and the requests that the current one has received
  launched, open, running, asked

linkVars   == <<session, hello, pending>>
answerVars == <<reply, asked>>
threadVars == <<pc, op, mine, negotiated, target>>
coreVars   == <<launched, open, running>>
vars == <<closed, startGate, writeGate, linkVars, answerVars, threadVars, tearing, coreVars>>

PCs == {"idle", "gate", "launch", "register", "refused", "failed", "lookup", "queue",
        "write", "sent", "broken", "await", "publish", "kill", "torn"}
Hellos == {"none", "normal", "elevated"}
Replies == {"empty", "answer", "disconnected"}
Starts == {"ensure", "elevate", "fallback"}
Teardowns == [stage : {"none", "close", "fail"}, core : Cores \cup {NoCore}, waiters : SUBSET Threads]
NoTeardown == [stage |-> "none", core |-> NoCore, waiters |-> {}]

\* hello is what the connected Core said, so it goes with it.
TypeOK ==
  /\ closed \in BOOLEAN
  /\ startGate \in Threads \cup {Nobody} /\ writeGate \in Threads \cup {Nobody}
  /\ session \in Cores \cup {NoCore} /\ hello \in Hellos
  /\ session = NoCore => hello = "none"
  /\ pending \subseteq Threads /\ reply \in [Threads -> Replies]
  /\ pc \in [Threads -> PCs] /\ op \in [Threads -> Operations \cup Starts \cup {"none"}]
  /\ negotiated \in [Threads -> Hellos]
  /\ mine \in [Threads -> Cores \cup {NoCore}] /\ target \in [Threads -> Cores \cup {NoCore}]
  /\ tearing \in [Actors -> Teardowns]
  /\ launched \in 0 .. MaxCores /\ open \subseteq Cores /\ running \subseteq Cores
  /\ asked \subseteq Threads

Init ==
  /\ closed = FALSE
  /\ startGate = Nobody /\ writeGate = Nobody
  /\ session = NoCore /\ hello = "none"
  /\ pending = {} /\ reply = [t \in Threads |-> "empty"]
  /\ pc = [t \in Threads |-> "idle"] /\ op = [t \in Threads |-> "none"]
  /\ negotiated = [t \in Threads |-> "none"]
  /\ mine = [t \in Threads |-> NoCore] /\ target = [t \in Threads |-> NoCore]
  /\ tearing = [a \in Actors |-> NoTeardown]
  /\ launched = 0 /\ open = {} /\ running = {} /\ asked = {}

-----------------------------------------------------------------------------
\* Steps that several actions share.

GoTo(t, p) == pc' = [pc EXCEPT ![t] = p]

\* The call of t returns.
Return(t) ==
  /\ GoTo(t, "idle")
  /\ op' = [op EXCEPT ![t] = "none"]
  /\ mine' = [mine EXCEPT ![t] = NoCore]
  /\ negotiated' = [negotiated EXCEPT ![t] = "none"]

\* Request is over: its caller goes on at p with h, or returns when it only
\* wanted the request.
EndRequest(t, p, h) ==
  /\ target' = [target EXCEPT ![t] = NoCore]
  /\ asked' = asked \ {t}
  /\ tearing' = [a \in Actors |-> [tearing[a] EXCEPT !.waiters = @ \ {t}]]
  /\ reply' = [reply EXCEPT ![t] = "empty"]
  /\ IF op[t] = "request"
       THEN Return(t)
       ELSE /\ GoTo(t, p)
            /\ negotiated' = [negotiated EXCEPT ![t] = h]
            /\ UNCHANGED <<op, mine>>

\* Request fails: a start and a shutdown go on with killCurrent.
FailRequest(t) == EndRequest(t, "kill", "none")

\* The critical section that killCurrent and failSession have in common.
DropSession(a) ==
  /\ tearing' = [tearing EXCEPT ![a] = [stage |-> "close", core |-> session, waiters |-> pending]]
  /\ session' = NoCore /\ hello' = "none" /\ pending' = {} /\ asked' = {}

-----------------------------------------------------------------------------
\* Ensure and EnsureElevated.

BeginEnsure(t) ==
  /\ pc[t] = "idle" /\ ~closed
  /\ \E o \in Calls[t] \cap Starts : op' = [op EXCEPT ![t] = o]
  /\ GoTo(t, "gate")
  /\ UNCHANGED <<closed, startGate, writeGate, linkVars, answerVars, mine,
                 negotiated, target, tearing, coreVars>>

Suits(t, h) == IF op[t] = "ensure" THEN h # "none" ELSE h = "elevated"
Reusable(t) == session # NoCore /\ Suits(t, hello)

\* The Core that is connected will do.
ReuseCore(t) ==
  /\ pc[t] = "gate" /\ startGate = Nobody
  /\ Reusable(t)
  /\ Return(t)
  /\ UNCHANGED <<closed, startGate, writeGate, linkVars, answerVars, target,
                 tearing, coreVars>>

\* Defect: the Core that will not do is left connected.
BeginStartKillsNothing(t) ==
  /\ pc[t] = "gate" /\ startGate = Nobody
  /\ ~Reusable(t)
  /\ startGate' = t
  /\ GoTo(t, "launch")
  /\ UNCHANGED <<closed, writeGate, linkVars, answerVars, op, mine, negotiated,
                 target, tearing, coreVars>>

\* It will not, or none is: a Core that will not do is killed first.
BeginStart(t) ==
  /\ pc[t] = "gate" /\ startGate = Nobody
  /\ ~Reusable(t)
  /\ startGate' = t
  /\ GoTo(t, IF session = NoCore THEN "launch" ELSE "kill")
  /\ UNCHANGED <<closed, writeGate, linkVars, answerVars, op, mine, negotiated,
                 target, tearing, coreVars>>

GateExpires(t) ==
  /\ pc[t] = "gate"
  /\ Return(t)
  /\ UNCHANGED <<closed, startGate, writeGate, linkVars, answerVars, target,
                 tearing, coreVars>>

LaunchCore(t) ==
  /\ pc[t] = "launch" /\ launched < MaxCores
  /\ launched' = launched + 1
  /\ open' = open \cup {launched + 1} /\ running' = running \cup {launched + 1}
  /\ mine' = [mine EXCEPT ![t] = launched + 1]
  /\ GoTo(t, "register")
  /\ UNCHANGED <<closed, startGate, writeGate, linkVars, answerVars, op, negotiated,
                 target, tearing>>

LaunchFails(t) ==
  /\ pc[t] = "launch"
  /\ startGate' = Nobody
  /\ Return(t)
  /\ UNCHANGED <<closed, writeGate, linkVars, answerVars, target, tearing, coreVars>>

\* Defect: a start under way does not look whether the client was closed.
RegisterThoughClosed(t) ==
  /\ pc[t] = "register"
  /\ session = NoCore
  /\ session' = mine[t] /\ pending' = {} /\ hello' = "none"
  /\ GoTo(t, "lookup")
  /\ UNCHANGED <<closed, startGate, writeGate, answerVars, op, mine, negotiated,
                 target, tearing, coreVars>>

\* negotiateSession: the critical section that connects the client.
Register(t) ==
  /\ pc[t] = "register"
  /\ ~closed /\ session = NoCore
  /\ session' = mine[t] /\ pending' = {} /\ hello' = "none"
  /\ GoTo(t, "lookup")
  /\ UNCHANGED <<closed, startGate, writeGate, answerVars, op, mine, negotiated,
                 target, tearing, coreVars>>

RefuseRegister(t) ==
  /\ pc[t] = "register"
  /\ closed \/ session # NoCore
  /\ GoTo(t, "refused")
  /\ UNCHANGED <<closed, startGate, writeGate, linkVars, answerVars, op, mine,
                 negotiated, target, tearing, coreVars>>

\* Defect: the Core that was launched in vain is not ended.
EndRefusedLeavesCore(t) ==
  /\ pc[t] = "refused"
  /\ GoTo(t, "failed")
  /\ UNCHANGED <<closed, startGate, writeGate, linkVars, answerVars, op, mine,
                 negotiated, target, tearing, coreVars>>

EndRefused(t) ==
  /\ pc[t] = "refused"
  /\ open' = open \ {mine[t]}
  /\ GoTo(t, "failed")
  /\ UNCHANGED <<closed, startGate, writeGate, linkVars, answerVars, op, mine,
                 negotiated, target, tearing, launched, running>>

Publish(t) ==
  /\ pc[t] = "publish"
  /\ hello' = IF session = mine[t] THEN negotiated[t] ELSE hello
  /\ startGate' = Nobody
  /\ Return(t)
  /\ UNCHANGED <<closed, writeGate, session, pending, answerVars, target, tearing,
                 coreVars>>

\* A negotiation with the service failed: one more launch, past the service.
\* Whether the launcher allows it depends on the service, which is external.
Fallback(t) ==
  /\ pc[t] = "failed" /\ op[t] = "elevate"
  /\ op' = [op EXCEPT ![t] = "fallback"]
  /\ GoTo(t, "launch")
  /\ UNCHANGED <<closed, startGate, writeGate, linkVars, answerVars, mine,
                 negotiated, target, tearing, coreVars>>

GiveUp(t) ==
  /\ pc[t] = "failed"
  /\ startGate' = Nobody
  /\ Return(t)
  /\ UNCHANGED <<closed, writeGate, linkVars, answerVars, target, tearing, coreVars>>

-----------------------------------------------------------------------------
\* Request, also the one for engine.hello that a start sends.

BeginRequest(t) ==
  /\ pc[t] = "idle"
  /\ \E o \in Calls[t] \cap {"request", "shutdown"} : op' = [op EXCEPT ![t] = o]
  /\ GoTo(t, "lookup")
  /\ UNCHANGED <<closed, startGate, writeGate, linkVars, answerVars, mine,
                 negotiated, target, tearing, coreVars>>

SendRequest(t) ==
  /\ pc[t] = "lookup" /\ session # NoCore
  /\ pending' = pending \cup {t}
  /\ target' = [target EXCEPT ![t] = session]
  /\ GoTo(t, "queue")
  /\ UNCHANGED <<closed, startGate, writeGate, session, hello, answerVars, op, mine,
                 negotiated, tearing, coreVars>>

\* No Core is connected, or the request of a caller cannot be encoded.
RequestRefused(t) ==
  /\ pc[t] = "lookup"
  /\ session = NoCore \/ op[t] \notin Starts
  /\ FailRequest(t)
  /\ UNCHANGED <<closed, startGate, writeGate, linkVars, coreVars>>

BeginWrite(t) ==
  /\ pc[t] = "queue" /\ writeGate = Nobody
  /\ writeGate' = t
  /\ GoTo(t, "write")
  /\ UNCHANGED <<closed, startGate, linkVars, answerVars, op, mine, negotiated,
                 target, tearing, coreVars>>

RemovePending(t) == pending' = pending \ {t}

\* The context of t ends while it waits for the gate, or for its answer.
RequestExpires(t) ==
  /\ pc[t] \in {"queue", "await"}
  /\ RemovePending(t)
  /\ FailRequest(t)
  /\ UNCHANGED <<closed, startGate, writeGate, session, hello, coreVars>>

\* The goroutine that writes: to a Core that reads, ...
Deliver(t) ==
  /\ pc[t] = "write" /\ target[t] \in open \cap running
  /\ asked' = IF target[t] = session THEN asked \cup {t} ELSE asked
  /\ GoTo(t, "sent")
  /\ UNCHANGED <<closed, startGate, writeGate, linkVars, reply, op, mine,
                 negotiated, target, tearing, coreVars>>

\* ... or to a transport that is closed at either end.
BreakWrite(t) ==
  /\ pc[t] = "write" /\ target[t] \notin open \cap running
  /\ GoTo(t, "broken")
  /\ UNCHANGED <<closed, startGate, writeGate, linkVars, answerVars, op, mine,
                 negotiated, target, tearing, coreVars>>

WriteSucceeds(t) ==
  /\ pc[t] = "sent"
  /\ writeGate' = Nobody
  /\ GoTo(t, "await")
  /\ UNCHANGED <<closed, startGate, linkVars, answerVars, op, mine, negotiated,
                 target, tearing, coreVars>>

WriteFails(t) ==
  /\ pc[t] = "broken"
  /\ writeGate' = Nobody
  /\ RemovePending(t)
  /\ FailRequest(t)
  /\ UNCHANGED <<closed, startGate, session, hello, coreVars>>

\* Defect: a write that blocks is waited for.
WriteExpiresAfterWrite(t) ==
  /\ pc[t] \in {"sent", "broken"}
  /\ GoTo(t, "kill")
  /\ UNCHANGED <<closed, startGate, writeGate, linkVars, answerVars, op, mine,
                 negotiated, target, tearing, coreVars>>

\* The select may see the end of the context although the write has ended.
WriteExpires(t) ==
  /\ pc[t] \in {"write", "sent", "broken"}
  /\ GoTo(t, "kill")
  /\ UNCHANGED <<closed, startGate, writeGate, linkVars, answerVars, op, mine,
                 negotiated, target, tearing, coreVars>>

\* What the Core says of itself, "none" when its protocol is another one,
\* decides whether a start keeps it.
TakeAnswer(t) ==
  /\ pc[t] = "await" /\ reply[t] = "answer"
  /\ \E h \in IF op[t] \in Starts THEN Hellos ELSE {"none"} :
       IF op[t] \in Starts /\ Suits(t, h) THEN EndRequest(t, "publish", h) ELSE FailRequest(t)
  /\ UNCHANGED <<closed, startGate, writeGate, linkVars, coreVars>>

TakeDisconnect(t) ==
  /\ pc[t] = "await" /\ reply[t] = "disconnected"
  /\ FailRequest(t)
  /\ UNCHANGED <<closed, startGate, writeGate, linkVars, coreVars>>

-----------------------------------------------------------------------------
\* Kill and Close; killCurrent and failSession.

BeginKill(t) ==
  /\ pc[t] = "idle" /\ "kill" \in Calls[t]
  /\ op' = [op EXCEPT ![t] = "kill"]
  /\ GoTo(t, "kill")
  /\ UNCHANGED <<closed, startGate, writeGate, linkVars, answerVars, mine,
                 negotiated, target, tearing, coreVars>>

Close(t) ==
  /\ pc[t] = "idle" /\ "close" \in Calls[t] /\ ~closed
  /\ closed' = TRUE
  /\ op' = [op EXCEPT ![t] = "close"]
  /\ GoTo(t, "kill")
  /\ UNCHANGED <<startGate, writeGate, linkVars, answerVars, mine, negotiated,
                 target, tearing, coreVars>>

KillCurrent(t) ==
  /\ pc[t] = "kill"
  /\ DropSession(t)
  /\ GoTo(t, "torn")
  /\ UNCHANGED <<closed, startGate, writeGate, reply, op, mine, negotiated, target,
                 coreVars>>

\* The reader found the end of the output, or a line beyond 1 MiB, or the
\* watcher saw the process end.
FailSession(c) ==
  /\ session = c
  /\ DropSession(c)
  /\ UNCHANGED <<closed, startGate, writeGate, reply, threadVars, coreVars>>

CloseTransport(a) ==
  /\ tearing[a].stage = "close"
  /\ open' = open \ {tearing[a].core}
  /\ tearing' = [tearing EXCEPT ![a].stage = "fail"]
  /\ UNCHANGED <<closed, startGate, writeGate, linkVars, answerVars, threadVars,
                 launched, running>>

\* Defect: the requests of the session are dropped without a reply.
FailRepliesSilently(a) ==
  /\ tearing[a].stage = "fail"
  /\ tearing' = [tearing EXCEPT ![a] = NoTeardown]
  /\ UNCHANGED <<closed, startGate, writeGate, linkVars, answerVars, threadVars,
                 coreVars>>

FailReplies(a) ==
  /\ tearing[a].stage = "fail"
  /\ reply' = [t \in Threads |-> IF t \in tearing[a].waiters THEN "disconnected" ELSE reply[t]]
  /\ tearing' = [tearing EXCEPT ![a] = NoTeardown]
  /\ UNCHANGED <<closed, startGate, writeGate, linkVars, asked, threadVars, coreVars>>

\* After a write that expired: the gate is free again, the request has failed.
KillReturnsToWrite(t) ==
  /\ pc[t] = "torn" /\ tearing[t].stage = "none"
  /\ writeGate = t
  /\ writeGate' = Nobody
  /\ FailRequest(t)
  /\ UNCHANGED <<closed, startGate, linkVars, coreVars>>

\* A start that replaced a Core launches its own; one that negotiated has failed.
KillReturnsToStart(t) ==
  /\ pc[t] = "torn" /\ tearing[t].stage = "none"
  /\ writeGate # t /\ op[t] \in Starts
  /\ GoTo(t, IF mine[t] = NoCore THEN "launch" ELSE "failed")
  /\ UNCHANGED <<closed, startGate, writeGate, linkVars, answerVars, op, mine,
                 negotiated, target, tearing, coreVars>>

KillReturns(t) ==
  /\ pc[t] = "torn" /\ tearing[t].stage = "none"
  /\ writeGate # t /\ op[t] \notin Starts
  /\ Return(t)
  /\ UNCHANGED <<closed, startGate, writeGate, linkVars, answerVars, target,
                 tearing, coreVars>>

-----------------------------------------------------------------------------
\* The Core, and the reader of its answers.

CoreStops(c) ==
  /\ c \in running
  /\ running' = running \ {c}
  /\ UNCHANGED <<closed, startGate, writeGate, linkVars, answerVars, threadVars,
                 tearing, launched, open>>

\* Defect: the request stays in pending when its answer is delivered.
ReadReplyKeepsPending(c) ==
  /\ session = c
  /\ \E t \in asked :
       /\ asked' = asked \ {t}
       /\ pending' = pending
       /\ reply' = IF t \in pending THEN [reply EXCEPT ![t] = "answer"] ELSE reply
  /\ UNCHANGED <<closed, startGate, writeGate, session, hello, threadVars, tearing,
                 coreVars>>

\* The Core's answer to a request it has received reaches the reader, perhaps
\* after the Core has stopped. The reader of a session that is over discards it.
ReadReply(c) ==
  /\ session = c
  /\ \E t \in asked :
       /\ asked' = asked \ {t}
       /\ pending' = pending \ {t}
       /\ reply' = IF t \in pending THEN [reply EXCEPT ![t] = "answer"] ELSE reply
  /\ UNCHANGED <<closed, startGate, writeGate, session, hello, threadVars, tearing,
                 coreVars>>

-----------------------------------------------------------------------------
EnsureStep(t) ==
  \/ BeginEnsure(t) \/ ReuseCore(t) \/ BeginStart(t) \/ GateExpires(t)
  \/ LaunchCore(t) \/ LaunchFails(t) \/ Register(t) \/ RefuseRegister(t)
  \/ EndRefused(t) \/ Publish(t) \/ Fallback(t) \/ GiveUp(t)

RequestStep(t) ==
  \/ BeginRequest(t) \/ SendRequest(t) \/ RequestRefused(t) \/ BeginWrite(t)
  \/ RequestExpires(t) \/ Deliver(t) \/ BreakWrite(t) \/ WriteSucceeds(t)
  \/ WriteFails(t) \/ WriteExpires(t) \/ TakeAnswer(t) \/ TakeDisconnect(t)

KillStep(t) ==
  \/ BeginKill(t) \/ Close(t) \/ KillCurrent(t)
  \/ KillReturnsToWrite(t) \/ KillReturnsToStart(t) \/ KillReturns(t)

Next ==
  \/ \E t \in Threads : EnsureStep(t) \/ RequestStep(t) \/ KillStep(t)
  \/ \E a \in Actors : CloseTransport(a) \/ FailReplies(a)
  \/ \E c \in Cores : FailSession(c) \/ ReadReply(c) \/ CoreStops(c)

Spec == Init /\ [][Next]_vars

(***************************************************************************)
(* Fairness. A goroutine that is in a call goes on, and every wait of a    *)
(* start and of a write ends with its context: negotiateSession gives the  *)
(* hello five seconds, Launch ends with the context, the callers bring     *)
(* deadlines. Nothing is assumed of the deadline of a request that waits   *)
(* for its answer, nor of a Core, except that it stops once its transport  *)
(* is closed (the Core serves its input until that ends). The reader or    *)
(* the watcher notices a Core that has stopped.                            *)
(***************************************************************************)
Proceed(t) ==
  \/ ReuseCore(t) \/ BeginStart(t) \/ GateExpires(t) \/ LaunchCore(t) \/ LaunchFails(t)
  \/ Register(t) \/ RefuseRegister(t) \/ EndRefused(t) \/ Publish(t) \/ Fallback(t) \/ GiveUp(t)
  \/ SendRequest(t) \/ RequestRefused(t) \/ BeginWrite(t)
  \/ RequestExpires(t) /\ (pc[t] = "queue" \/ op[t] \in Starts)
  \/ BreakWrite(t) \/ WriteSucceeds(t) \/ WriteFails(t) \/ WriteExpires(t)
  \/ TakeAnswer(t) \/ TakeDisconnect(t)
  \/ KillCurrent(t) \/ CloseTransport(t) \/ FailReplies(t)
  \/ KillReturnsToWrite(t) \/ KillReturnsToStart(t) \/ KillReturns(t)

\* Each of these happens once at most, so that one condition does for all.
Settle(c) ==
  \/ c \notin open /\ CoreStops(c)
  \/ c \notin running /\ FailSession(c)
  \/ CloseTransport(c) \/ FailReplies(c)

Fairness ==
  /\ \A t \in Threads : WF_vars(Proceed(t))
  /\ \A c \in Cores : WF_vars(Settle(c))

FairSpec == Spec /\ Fairness

-----------------------------------------------------------------------------
\* Exactly one answer is on its way to a request that waits: it is in pending
\* and its Core is the current one, or its reply is there, or a teardown that
\* is under way has it; and a request that is over is in neither map. With two
\* the reader would block for ever on a full channel, with none the caller
\* would wait for its deadline (client.go:483-545).
Waiting(t) == pc[t] \in {"queue", "write", "sent", "broken", "await"}
Sources(t) == {a \in Actors : t \in tearing[a].waiters}
OneAnswerEach ==
  \A t \in Threads :
    /\ t \in pending => /\ target[t] = session /\ session # NoCore
                       /\ reply[t] = "empty" /\ Sources(t) = {}
    /\ \A a, b \in Sources(t) : a = b /\ reply[t] = "empty"
    /\ Waiting(t) => t \in pending \/ reply[t] # "empty" \/ Sources(t) # {}

\* A Core whose transport is open is the current one, or the start that
\* launched it still has it at hand, or a teardown is about to close it:
\* whatever start, Kill, Close and failure overtake each other, no Core is left
\* that nobody will end (client.go:152-158, 280-293).
NoForgottenCore ==
  \A c \in open :
    \/ c = session
    \/ \E t \in Threads : startGate = t /\ mine[t] = c /\ pc[t] \in {"register", "refused"}
    \/ \E a \in Actors : tearing[a].stage = "close" /\ tearing[a].core = c

\* startGate keeps starts apart: a start that has launched its Core never finds
\* another one connected (client.go:288-293 cannot happen), and what it kills
\* when the negotiation fails is its own Core (client.go:309-320), though
\* killCurrent takes whatever is connected.
StartsDoNotCollide ==
  \A t \in Threads :
    /\ pc[t] = "register" => session = NoCore
    /\ op[t] \in Starts /\ mine[t] # NoCore => tearing[t].core \in {mine[t], NoCore}

\* A start always comes to its end and leaves the gate to the next one, even
\* if its Core never reads or never answers (client.go:196-201, 425-431).
GateFreed == []<>(startGate = Nobody)

\* A request whose Core has stopped, or whose transport was closed, returns
\* without waiting for its deadline (client.go:300-304, 519-545).
DeadCoreAnswers ==
  \A t \in Threads : []<>~(pc[t] = "await" /\ target[t] \notin open \cap running)

\* After Close, and whatever start was under way then, no Core is left running
\* (client.go:143-160; TestCloseDuringInFlightEnsureTerminatesLaunchedCore).
ClosedLeavesNoCore == <>[](closed => running = {})
=============================================================================
