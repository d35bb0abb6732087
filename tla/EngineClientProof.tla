------------------------- MODULE EngineClientProof -------------------------
(***************************************************************************)
(* Proofs about EngineClient, for any number of goroutines with any calls  *)
(* and any number of Cores, and about CoreHost, for any number of services *)
(* and launches. MCEngineLink composes the two.                            *)
(***************************************************************************)
EXTENDS MCEngineLink, TLAPS

-----------------------------------------------------------------------------
(* The inductive invariant, in named parts.                                *)

\* startGate is held by the one start that is past it, and an idle goroutine
\* is in no call.
CallInv ==
  \A t \in Threads :
    /\ startGate = t <=> op[t] \in Starts /\ pc[t] # "gate"
    /\ pc[t] \in {"gate", "launch", "register", "refused", "failed", "publish"} => op[t] \in Starts
    /\ pc[t] = "idle" => op[t] = "none"

\* A goroutine has a target as long as its request is not over, and then only
\* can a reply reach it; past the queue it holds writeGate until the write
\* ends, and what killCurrent has taken over is in pending no more.
TargetInv ==
  \A t \in Threads :
    /\ target[t] # NoCore => Waiting(t) \/ pc[t] \in {"kill", "torn"}
    /\ target[t] = NoCore => ~Waiting(t) /\ reply[t] = "empty" /\ Sources(t) = {}
    /\ pc[t] \in {"write", "sent", "broken"} => writeGate = t
    /\ pc[t] \in {"kill", "torn"} /\ target[t] # NoCore => writeGate = t
    /\ pc[t] = "torn" => t \notin pending

\* While a start holds the gate, the connected Core is its own or, until the
\* start has killed it, the one that was there before.
StartInv ==
  \A t \in Threads :
    IF startGate = t
      THEN /\ pc[t] \in {"launch", "register", "refused", "failed", "torn"} => session = NoCore
           /\ pc[t] \notin {"launch", "kill", "torn"} => mine[t] # NoCore
           /\ mine[t] # NoCore => session \in {mine[t], NoCore}
           /\ mine[t] <= launched
      ELSE mine[t] = NoCore

\* A teardown of a thread belongs to its killCurrent; a Core's reader and
\* watcher tear down at most once, their own session, when it is over.
TearInv ==
  /\ \A a \in Actors : tearing[a].stage = "none" => tearing[a] = NoTeardown
  /\ \A t \in Threads :
       /\ pc[t] # "torn" => tearing[t].stage = "none"
       /\ mine[t] # NoCore => tearing[t].core \in {mine[t], NoCore}
  /\ \A c \in Cores : tearing[c].stage # "none" =>
       /\ c <= launched /\ session # c
       /\ \A t \in Threads : pc[t] = "register" => mine[t] # c

\* What exists was launched.
LaunchedInv == session <= launched /\ open \subseteq 1 .. launched

IndInv ==
  /\ TypeOK
  /\ CallInv
  /\ TargetInv
  /\ StartInv
  /\ TearInv
  /\ LaunchedInv
  /\ OneAnswerEach
  /\ NoForgottenCore

-----------------------------------------------------------------------------
USE DEF Cores, NoCore, Nobody, Actors, Starts

\* What EndRequest does to a teardown that may hold the request.
LEMMA WithoutWaiter ==
  ASSUME NEW r \in Teardowns, NEW t
  PROVE  LET s == [r EXCEPT !.waiters = @ \ {t}]
         IN  /\ s \in Teardowns
             /\ s.stage = r.stage /\ s.core = r.core /\ s.waiters = r.waiters \ {t}
             /\ r = NoTeardown => s = NoTeardown
<1> DEFINE s == [r EXCEPT !.waiters = @ \ {t}]
<1>1. s.stage = r.stage /\ s.core = r.core /\ s.waiters = r.waiters \ {t}
  BY DEF Teardowns
<1>2. s \in Teardowns
  BY DEF Teardowns
<1>3. ASSUME r = NoTeardown PROVE s = NoTeardown
  BY <1>3 DEF NoTeardown, Teardowns
<1>. QED BY <1>1, <1>2, <1>3

\* The six actions that end a request, whatever comes next for its caller.
LEMMA RequestEnds ==
  ASSUME IndInv, NEW t \in Threads, NEW p \in {"kill", "publish"}, NEW h \in Hellos,
         pc[t] \in {"lookup", "queue", "broken", "await", "torn"},
         pc[t] = "torn" => writeGate = t /\ tearing[t].stage = "none",
         p = "publish" => pc[t] = "await" /\ op[t] \in Starts,
         EndRequest(t, p, h),
         pending' = pending \ {t},
         writeGate' = writeGate \/ (writeGate = t /\ writeGate' = Nobody),
         UNCHANGED <<closed, startGate, session, hello, coreVars>>
  PROVE  IndInv'
<1>1. \A a \in Actors :
        /\ tearing'[a] \in Teardowns
        /\ tearing'[a].stage = tearing[a].stage /\ tearing'[a].core = tearing[a].core
        /\ tearing'[a].waiters = tearing[a].waiters \ {t}
        /\ tearing[a] = NoTeardown => tearing'[a] = NoTeardown
  <2> TAKE a \in Actors
  <2>1. tearing[a] \in Teardowns /\ tearing'[a] = [tearing[a] EXCEPT !.waiters = @ \ {t}]
    BY DEF IndInv, TypeOK, EndRequest
  <2>. QED BY <2>1, WithoutWaiter
<1>2. TypeOK'
  <2>1. tearing' \in [Actors -> Teardowns]
    BY <1>1 DEF EndRequest
  <2>2. /\ pc' \in [Threads -> PCs] /\ op' \in [Threads -> Operations \cup Starts \cup {"none"}]
        /\ mine' \in [Threads -> Cores \cup {NoCore}] /\ negotiated' \in [Threads -> Hellos]
    BY DEF IndInv, TypeOK, EndRequest, Return, GoTo, PCs, Hellos
  <2>3. /\ target' \in [Threads -> Cores \cup {NoCore}] /\ reply' \in [Threads -> Replies]
        /\ asked' \subseteq Threads /\ pending' \subseteq Threads
        /\ writeGate' \in Threads \cup {Nobody}
    BY DEF IndInv, TypeOK, EndRequest, Replies
  <2>. QED BY <2>1, <2>2, <2>3 DEF IndInv, TypeOK, coreVars
<1>3. CallInv'
  BY DEF IndInv, TypeOK, CallInv, EndRequest, Return, GoTo
<1>4. TargetInv'
  BY <1>1 DEF IndInv, TypeOK, CallInv, TargetInv, OneAnswerEach, Waiting, Sources, EndRequest, Return, GoTo
<1>5. StartInv'
  BY DEF IndInv, TypeOK, CallInv, StartInv, EndRequest, Return, GoTo, coreVars
<1>6. TearInv'
  <2>1. \A u \in Threads :
          /\ mine'[u] \in {mine[u], NoCore}
          /\ pc'[u] # "torn" => pc[u] # "torn" \/ u = t
          /\ pc'[u] = "register" => pc[u] = "register"
    BY DEF IndInv, TypeOK, EndRequest, Return, GoTo
  <2>2. tearing[t].stage = "none"
    BY DEF IndInv, TearInv
  <2>. QED BY <1>1, <2>1, <2>2 DEF IndInv, TearInv, coreVars
<1>7. LaunchedInv'
  BY DEF IndInv, LaunchedInv, coreVars
<1>8. OneAnswerEach'
  BY <1>1 DEF IndInv, TypeOK, TargetInv, OneAnswerEach, Waiting, Sources, EndRequest, Return, GoTo
<1>9. NoForgottenCore'
  BY <1>1 DEF IndInv, TypeOK, CallInv, StartInv, NoForgottenCore, EndRequest, Return, GoTo, coreVars
<1>. QED BY <1>2, <1>3, <1>4, <1>5, <1>6, <1>7, <1>8, <1>9 DEF IndInv

-----------------------------------------------------------------------------
(* Ensure and EnsureElevated.                                              *)

LEMMA BeginEnsureKeeps ==
  ASSUME IndInv, NEW t \in Threads, BeginEnsure(t)
  PROVE  IndInv'
<1>1. TypeOK'
  BY DEF IndInv, TypeOK, PCs, Operations, BeginEnsure, GoTo, linkVars, answerVars, coreVars
<1>2. CallInv'
  BY DEF IndInv, TypeOK, CallInv, BeginEnsure, GoTo
<1>3. TargetInv'
  BY DEF IndInv, TargetInv, Waiting, Sources, BeginEnsure, GoTo, linkVars, answerVars
<1>4. StartInv'
  BY DEF IndInv, StartInv, BeginEnsure, GoTo, linkVars, coreVars
<1>5. TearInv'
  BY DEF IndInv, TearInv, BeginEnsure, GoTo, linkVars, coreVars
<1>6. OneAnswerEach'
  BY DEF IndInv, OneAnswerEach, Waiting, Sources, BeginEnsure, GoTo, linkVars, answerVars
<1>7. NoForgottenCore'
  BY DEF IndInv, NoForgottenCore, BeginEnsure, GoTo, linkVars, coreVars
<1>8. LaunchedInv'
  BY DEF IndInv, LaunchedInv, BeginEnsure, linkVars, answerVars, coreVars
<1>. QED BY <1>1, <1>2, <1>3, <1>4, <1>5, <1>6, <1>7, <1>8 DEF IndInv

LEMMA ReuseCoreKeeps ==
  ASSUME IndInv, NEW t \in Threads, ReuseCore(t)
  PROVE  IndInv'
<1>1. TypeOK'
  BY DEF IndInv, TypeOK, PCs, Hellos, Operations, ReuseCore, GoTo, Return, linkVars, answerVars,
      coreVars
<1>2. CallInv'
  BY DEF IndInv, TypeOK, CallInv, ReuseCore, GoTo, Return
<1>3. TargetInv'
  BY DEF IndInv, TargetInv, Waiting, Sources, ReuseCore, GoTo, Return, linkVars, answerVars
<1>4. StartInv'
  BY DEF IndInv, CallInv, StartInv, ReuseCore, GoTo, Return, linkVars, coreVars
<1>5. TearInv'
  BY DEF IndInv, TearInv, ReuseCore, GoTo, Return, linkVars, coreVars
<1>6. OneAnswerEach'
  BY DEF IndInv, OneAnswerEach, Waiting, Sources, ReuseCore, GoTo, Return, linkVars, answerVars
<1>7. NoForgottenCore'
  BY DEF IndInv, NoForgottenCore, ReuseCore, GoTo, Return, linkVars, coreVars
<1>8. LaunchedInv'
  BY DEF IndInv, LaunchedInv, ReuseCore, linkVars, answerVars, coreVars
<1>. QED BY <1>1, <1>2, <1>3, <1>4, <1>5, <1>6, <1>7, <1>8 DEF IndInv

LEMMA BeginStartKeeps ==
  ASSUME IndInv, NEW t \in Threads, BeginStart(t)
  PROVE  IndInv'
<1>1. TypeOK'
  BY DEF IndInv, TypeOK, PCs, BeginStart, GoTo, linkVars, answerVars, coreVars
<1>2. CallInv'
  BY ThreadsAssumption DEF IndInv, TypeOK, CallInv, BeginStart, GoTo
<1>3. TargetInv'
  BY DEF IndInv, TargetInv, Waiting, Sources, BeginStart, GoTo, linkVars, answerVars
<1>4. StartInv'
  BY ThreadsAssumption DEF IndInv, TypeOK, StartInv, BeginStart, GoTo, linkVars, coreVars
<1>5. TearInv'
  BY DEF IndInv, TearInv, BeginStart, GoTo, linkVars, coreVars
<1>6. OneAnswerEach'
  BY DEF IndInv, OneAnswerEach, Waiting, Sources, BeginStart, GoTo, linkVars, answerVars
<1>7. NoForgottenCore'
  BY ThreadsAssumption DEF IndInv, NoForgottenCore, BeginStart, linkVars, coreVars
<1>8. LaunchedInv'
  BY DEF IndInv, LaunchedInv, BeginStart, linkVars, answerVars, coreVars
<1>. QED BY <1>1, <1>2, <1>3, <1>4, <1>5, <1>6, <1>7, <1>8 DEF IndInv

LEMMA GateExpiresKeeps ==
  ASSUME IndInv, NEW t \in Threads, GateExpires(t)
  PROVE  IndInv'
<1>1. TypeOK'
  BY DEF IndInv, TypeOK, PCs, Hellos, Operations, GateExpires, GoTo, Return, linkVars,
      answerVars, coreVars
<1>2. CallInv'
  BY DEF IndInv, TypeOK, CallInv, GateExpires, GoTo, Return
<1>3. TargetInv'
  BY DEF IndInv, TargetInv, Waiting, Sources, GateExpires, GoTo, Return, linkVars, answerVars
<1>4. StartInv'
  BY DEF IndInv, CallInv, StartInv, GateExpires, GoTo, Return, linkVars, coreVars
<1>5. TearInv'
  BY DEF IndInv, TearInv, GateExpires, GoTo, Return, linkVars, coreVars
<1>6. OneAnswerEach'
  BY DEF IndInv, OneAnswerEach, Waiting, Sources, GateExpires, GoTo, Return, linkVars,
      answerVars
<1>7. NoForgottenCore'
  BY DEF IndInv, NoForgottenCore, GateExpires, GoTo, Return, linkVars, coreVars
<1>8. LaunchedInv'
  BY DEF IndInv, LaunchedInv, GateExpires, linkVars, answerVars, coreVars
<1>. QED BY <1>1, <1>2, <1>3, <1>4, <1>5, <1>6, <1>7, <1>8 DEF IndInv

LEMMA LaunchCoreKeeps ==
  ASSUME IndInv, NEW t \in Threads, LaunchCore(t)
  PROVE  IndInv'
<1>1. TypeOK'
  <2>1. launched + 1 \in Cores
    BY BoundsAssumption DEF IndInv, TypeOK, LaunchCore
  <2>. QED BY <2>1 DEF IndInv, TypeOK, PCs, LaunchCore, GoTo, linkVars, answerVars
<1>2. CallInv'
  BY BoundsAssumption DEF IndInv, CallInv, LaunchCore, GoTo
<1>3. TargetInv'
  BY BoundsAssumption DEF IndInv, TargetInv, Waiting, Sources, LaunchCore, GoTo, linkVars,
      answerVars
<1>4. StartInv'
  BY BoundsAssumption DEF IndInv, TypeOK, CallInv, StartInv, LaunchCore, linkVars
<1>5. TearInv'
  <2>1. mine'[t] = launched + 1 /\ tearing[t].stage = "none"
    BY DEF IndInv, TypeOK, TearInv, LaunchCore
  <2>2. tearing[t].core = NoCore
    BY <2>1 DEF IndInv, TearInv, NoTeardown
  <2>3. \A u \in Threads :
          /\ pc'[u] # "torn" => tearing[u].stage = "none"
          /\ mine'[u] # NoCore => tearing[u].core \in {mine'[u], NoCore}
    BY <2>1, <2>2 DEF IndInv, TypeOK, TearInv, LaunchCore, GoTo
  <2>4. ASSUME NEW c \in Cores, tearing[c].stage # "none"
        PROVE  /\ c <= launched + 1 /\ session # c
               /\ \A u \in Threads : pc'[u] = "register" => mine'[u] # c
    BY <2>1, <2>4, BoundsAssumption DEF IndInv, TypeOK, TearInv, LaunchCore, GoTo
  <2>. QED BY <2>3, <2>4 DEF IndInv, TearInv, LaunchCore, linkVars
<1>6. LaunchedInv'
  BY BoundsAssumption DEF IndInv, TypeOK, LaunchedInv, LaunchCore, linkVars
<1>7. OneAnswerEach'
  BY BoundsAssumption DEF IndInv, OneAnswerEach, Waiting, Sources, LaunchCore, GoTo, linkVars,
      answerVars
<1>8. NoForgottenCore'
  BY BoundsAssumption DEF IndInv, TypeOK, CallInv, NoForgottenCore, LaunchCore, GoTo, linkVars
<1>. QED BY <1>1, <1>2, <1>3, <1>4, <1>5, <1>6, <1>7, <1>8 DEF IndInv

LEMMA LaunchFailsKeeps ==
  ASSUME IndInv, NEW t \in Threads, LaunchFails(t)
  PROVE  IndInv'
<1>1. TypeOK'
  BY DEF IndInv, TypeOK, PCs, Hellos, Operations, LaunchFails, GoTo, Return, linkVars,
      answerVars, coreVars
<1>2. CallInv'
  BY ThreadsAssumption DEF IndInv, TypeOK, CallInv, LaunchFails, GoTo, Return
<1>3. TargetInv'
  BY DEF IndInv, TargetInv, Waiting, Sources, LaunchFails, GoTo, Return, linkVars, answerVars
<1>4. StartInv'
  BY ThreadsAssumption DEF IndInv, TypeOK, CallInv, StartInv, LaunchFails, Return
<1>5. TearInv'
  BY DEF IndInv, TearInv, LaunchFails, GoTo, Return, linkVars, coreVars
<1>6. OneAnswerEach'
  BY DEF IndInv, OneAnswerEach, Waiting, Sources, LaunchFails, GoTo, Return, linkVars,
      answerVars
<1>7. NoForgottenCore'
  BY DEF IndInv, CallInv, NoForgottenCore, LaunchFails, linkVars, coreVars
<1>8. LaunchedInv'
  BY DEF IndInv, LaunchedInv, LaunchFails, linkVars, answerVars, coreVars
<1>. QED BY <1>1, <1>2, <1>3, <1>4, <1>5, <1>6, <1>7, <1>8 DEF IndInv

LEMMA RegisterKeeps ==
  ASSUME IndInv, NEW t \in Threads, Register(t)
  PROVE  IndInv'
<1>1. TypeOK'
  BY DEF IndInv, TypeOK, PCs, Hellos, Register, GoTo, answerVars, coreVars
<1>2. CallInv'
  BY DEF IndInv, CallInv, Register, GoTo
<1>3. TargetInv'
  BY DEF IndInv, TargetInv, Waiting, Sources, Register, GoTo, answerVars
<1>4. StartInv'
  BY DEF IndInv, TypeOK, StartInv, Register, GoTo, coreVars
<1>5. TearInv'
  BY DEF IndInv, TearInv, Register, GoTo, coreVars
<1>6. LaunchedInv'
  BY DEF IndInv, StartInv, LaunchedInv, Register, coreVars
<1>7. OneAnswerEach'
  BY DEF IndInv, OneAnswerEach, Waiting, Sources, Register, GoTo, answerVars
<1>8. NoForgottenCore'
  BY DEF IndInv, TypeOK, NoForgottenCore, Register, GoTo, coreVars
<1>. QED BY <1>1, <1>2, <1>3, <1>4, <1>5, <1>6, <1>7, <1>8 DEF IndInv

LEMMA RefuseRegisterKeeps ==
  ASSUME IndInv, NEW t \in Threads, RefuseRegister(t)
  PROVE  IndInv'
<1>1. TypeOK'
  BY DEF IndInv, TypeOK, PCs, RefuseRegister, GoTo, linkVars, answerVars, coreVars
<1>2. CallInv'
  BY DEF IndInv, CallInv, RefuseRegister, GoTo
<1>3. TargetInv'
  BY DEF IndInv, TargetInv, Waiting, Sources, RefuseRegister, GoTo, linkVars, answerVars
<1>4. StartInv'
  BY DEF IndInv, StartInv, RefuseRegister, GoTo, linkVars, coreVars
<1>5. TearInv'
  BY DEF IndInv, TearInv, RefuseRegister, GoTo, linkVars, coreVars
<1>6. OneAnswerEach'
  BY DEF IndInv, OneAnswerEach, Waiting, Sources, RefuseRegister, GoTo, linkVars, answerVars
<1>7. NoForgottenCore'
  BY DEF IndInv, NoForgottenCore, RefuseRegister, GoTo, linkVars, coreVars
<1>8. LaunchedInv'
  BY DEF IndInv, LaunchedInv, RefuseRegister, linkVars, answerVars, coreVars
<1>. QED BY <1>1, <1>2, <1>3, <1>4, <1>5, <1>6, <1>7, <1>8 DEF IndInv

LEMMA EndRefusedKeeps ==
  ASSUME IndInv, NEW t \in Threads, EndRefused(t)
  PROVE  IndInv'
<1>1. TypeOK'
  BY DEF IndInv, TypeOK, PCs, EndRefused, GoTo, linkVars, answerVars
<1>2. CallInv'
  BY DEF IndInv, CallInv, EndRefused, GoTo
<1>3. TargetInv'
  BY DEF IndInv, TargetInv, Waiting, Sources, EndRefused, GoTo, linkVars, answerVars
<1>4. StartInv'
  BY DEF IndInv, StartInv, EndRefused, GoTo, linkVars
<1>5. TearInv'
  BY DEF IndInv, TearInv, EndRefused, GoTo, linkVars
<1>6. LaunchedInv'
  BY DEF IndInv, LaunchedInv, EndRefused, linkVars
<1>7. OneAnswerEach'
  BY DEF IndInv, OneAnswerEach, Waiting, Sources, EndRefused, GoTo, linkVars, answerVars
<1>8. NoForgottenCore'
  BY DEF IndInv, NoForgottenCore, EndRefused, GoTo, linkVars
<1>. QED BY <1>1, <1>2, <1>3, <1>4, <1>5, <1>6, <1>7, <1>8 DEF IndInv

LEMMA PublishKeeps ==
  ASSUME IndInv, NEW t \in Threads, Publish(t)
  PROVE  IndInv'
<1>1. TypeOK'
  <2>1. mine[t] # NoCore
    BY DEF IndInv, TypeOK, CallInv, StartInv, Publish
  <2>2. hello' \in Hellos /\ (session = NoCore => hello' = "none")
    BY <2>1 DEF IndInv, TypeOK, Publish
  <2>3. /\ pc' \in [Threads -> PCs] /\ op' \in [Threads -> Operations \cup Starts \cup {"none"}]
        /\ mine' \in [Threads -> Cores \cup {NoCore}] /\ negotiated' \in [Threads -> Hellos]
    BY DEF IndInv, TypeOK, PCs, Hellos, Publish, Return, GoTo
  <2>. QED BY <2>2, <2>3 DEF IndInv, TypeOK, Publish, answerVars, coreVars
<1>2. CallInv'
  BY ThreadsAssumption DEF IndInv, TypeOK, CallInv, Publish, GoTo, Return
<1>3. TargetInv'
  BY DEF IndInv, TargetInv, Waiting, Sources, Publish, GoTo, Return, answerVars
<1>4. StartInv'
  BY ThreadsAssumption DEF IndInv, TypeOK, CallInv, StartInv, Publish, Return
<1>5. TearInv'
  BY DEF IndInv, TearInv, Publish, GoTo, Return, coreVars
<1>6. OneAnswerEach'
  BY DEF IndInv, OneAnswerEach, Waiting, Sources, Publish, GoTo, Return, answerVars
<1>7. NoForgottenCore'
  BY DEF IndInv, CallInv, NoForgottenCore, Publish, coreVars
<1>8. LaunchedInv'
  BY DEF IndInv, LaunchedInv, Publish, answerVars, coreVars
<1>. QED BY <1>1, <1>2, <1>3, <1>4, <1>5, <1>6, <1>7, <1>8 DEF IndInv

LEMMA FallbackKeeps ==
  ASSUME IndInv, NEW t \in Threads, Fallback(t)
  PROVE  IndInv'
<1>1. TypeOK'
  BY DEF IndInv, TypeOK, PCs, Operations, Fallback, GoTo, linkVars, answerVars, coreVars
<1>2. CallInv'
  BY DEF IndInv, CallInv, Fallback, GoTo
<1>3. TargetInv'
  BY DEF IndInv, TargetInv, Waiting, Sources, Fallback, GoTo, linkVars, answerVars
<1>4. StartInv'
  BY DEF IndInv, StartInv, Fallback, GoTo, linkVars, coreVars
<1>5. TearInv'
  BY DEF IndInv, TearInv, Fallback, GoTo, linkVars, coreVars
<1>6. OneAnswerEach'
  BY DEF IndInv, OneAnswerEach, Waiting, Sources, Fallback, GoTo, linkVars, answerVars
<1>7. NoForgottenCore'
  BY DEF IndInv, NoForgottenCore, Fallback, GoTo, linkVars, coreVars
<1>8. LaunchedInv'
  BY DEF IndInv, LaunchedInv, Fallback, linkVars, answerVars, coreVars
<1>. QED BY <1>1, <1>2, <1>3, <1>4, <1>5, <1>6, <1>7, <1>8 DEF IndInv

LEMMA GiveUpKeeps ==
  ASSUME IndInv, NEW t \in Threads, GiveUp(t)
  PROVE  IndInv'
<1>1. TypeOK'
  BY DEF IndInv, TypeOK, PCs, Hellos, Operations, GiveUp, GoTo, Return, linkVars, answerVars,
      coreVars
<1>2. CallInv'
  BY ThreadsAssumption DEF IndInv, TypeOK, CallInv, GiveUp, GoTo, Return
<1>3. TargetInv'
  BY DEF IndInv, TargetInv, Waiting, Sources, GiveUp, GoTo, Return, linkVars, answerVars
<1>4. StartInv'
  BY ThreadsAssumption DEF IndInv, TypeOK, CallInv, StartInv, GiveUp, Return
<1>5. TearInv'
  BY DEF IndInv, TearInv, GiveUp, GoTo, Return, linkVars, coreVars
<1>6. OneAnswerEach'
  BY DEF IndInv, OneAnswerEach, Waiting, Sources, GiveUp, GoTo, Return, linkVars, answerVars
<1>7. NoForgottenCore'
  BY DEF IndInv, CallInv, NoForgottenCore, GiveUp, linkVars, coreVars
<1>8. LaunchedInv'
  BY DEF IndInv, LaunchedInv, GiveUp, linkVars, answerVars, coreVars
<1>. QED BY <1>1, <1>2, <1>3, <1>4, <1>5, <1>6, <1>7, <1>8 DEF IndInv

-----------------------------------------------------------------------------
(* Request.                                                                *)

LEMMA BeginRequestKeeps ==
  ASSUME IndInv, NEW t \in Threads, BeginRequest(t)
  PROVE  IndInv'
<1>1. TypeOK'
  BY DEF IndInv, TypeOK, PCs, Operations, BeginRequest, GoTo, linkVars, answerVars, coreVars
<1>2. CallInv'
  BY DEF IndInv, TypeOK, CallInv, BeginRequest, GoTo
<1>3. TargetInv'
  BY DEF IndInv, TargetInv, Waiting, Sources, BeginRequest, GoTo, linkVars, answerVars
<1>4. StartInv'
  BY DEF IndInv, StartInv, BeginRequest, GoTo, linkVars, coreVars
<1>5. TearInv'
  BY DEF IndInv, TearInv, BeginRequest, GoTo, linkVars, coreVars
<1>6. OneAnswerEach'
  BY DEF IndInv, OneAnswerEach, Waiting, Sources, BeginRequest, GoTo, linkVars, answerVars
<1>7. NoForgottenCore'
  BY DEF IndInv, NoForgottenCore, BeginRequest, GoTo, linkVars, coreVars
<1>8. LaunchedInv'
  BY DEF IndInv, LaunchedInv, BeginRequest, linkVars, answerVars, coreVars
<1>. QED BY <1>1, <1>2, <1>3, <1>4, <1>5, <1>6, <1>7, <1>8 DEF IndInv

LEMMA SendRequestKeeps ==
  ASSUME IndInv, NEW t \in Threads, SendRequest(t)
  PROVE  IndInv'
<1>1. TypeOK'
  BY DEF IndInv, TypeOK, PCs, SendRequest, GoTo, answerVars, coreVars
<1>2. CallInv'
  BY DEF IndInv, CallInv, SendRequest, GoTo
<1>3. TargetInv'
  BY DEF IndInv, TypeOK, TargetInv, Waiting, Sources, SendRequest, GoTo, answerVars
<1>4. StartInv'
  BY DEF IndInv, StartInv, SendRequest, GoTo, coreVars
<1>5. TearInv'
  BY DEF IndInv, TearInv, SendRequest, GoTo, coreVars
<1>6. OneAnswerEach'
  BY DEF IndInv, TypeOK, TargetInv, OneAnswerEach, Waiting, Sources, SendRequest, GoTo,
      answerVars
<1>7. NoForgottenCore'
  BY DEF IndInv, NoForgottenCore, SendRequest, GoTo, coreVars
<1>8. LaunchedInv'
  BY DEF IndInv, LaunchedInv, SendRequest, answerVars, coreVars
<1>. QED BY <1>1, <1>2, <1>3, <1>4, <1>5, <1>6, <1>7, <1>8 DEF IndInv

LEMMA RequestRefusedKeeps ==
  ASSUME IndInv, NEW t \in Threads, RequestRefused(t)
  PROVE  IndInv'
<1>1. t \notin pending
  BY DEF IndInv, TypeOK, TargetInv, OneAnswerEach, Waiting, RequestRefused
<1>. QED BY <1>1, RequestEnds DEF RequestRefused, FailRequest, Hellos, linkVars

LEMMA BeginWriteKeeps ==
  ASSUME IndInv, NEW t \in Threads, BeginWrite(t)
  PROVE  IndInv'
<1>1. TypeOK'
  BY DEF IndInv, TypeOK, PCs, BeginWrite, GoTo, linkVars, answerVars, coreVars
<1>2. CallInv'
  BY DEF IndInv, CallInv, BeginWrite, GoTo
<1>3. TargetInv'
  BY ThreadsAssumption DEF IndInv, TargetInv, Waiting, Sources, BeginWrite, GoTo, linkVars,
      answerVars
<1>4. StartInv'
  BY DEF IndInv, StartInv, BeginWrite, GoTo, linkVars, coreVars
<1>5. TearInv'
  BY DEF IndInv, TearInv, BeginWrite, GoTo, linkVars, coreVars
<1>6. OneAnswerEach'
  BY DEF IndInv, OneAnswerEach, Waiting, Sources, BeginWrite, GoTo, linkVars, answerVars
<1>7. NoForgottenCore'
  BY DEF IndInv, NoForgottenCore, BeginWrite, GoTo, linkVars, coreVars
<1>8. LaunchedInv'
  BY DEF IndInv, LaunchedInv, BeginWrite, linkVars, answerVars, coreVars
<1>. QED BY <1>1, <1>2, <1>3, <1>4, <1>5, <1>6, <1>7, <1>8 DEF IndInv

LEMMA RequestExpiresKeeps ==
  ASSUME IndInv, NEW t \in Threads, RequestExpires(t)
  PROVE  IndInv'
BY RequestEnds DEF RequestExpires, FailRequest, RemovePending, Hellos

LEMMA DeliverKeeps ==
  ASSUME IndInv, NEW t \in Threads, Deliver(t)
  PROVE  IndInv'
<1>1. TypeOK'
  BY DEF IndInv, TypeOK, PCs, Deliver, GoTo, linkVars, coreVars
<1>2. CallInv'
  BY DEF IndInv, CallInv, Deliver, GoTo
<1>3. TargetInv'
  BY DEF IndInv, TargetInv, Waiting, Sources, Deliver, GoTo, linkVars
<1>4. StartInv'
  BY DEF IndInv, StartInv, Deliver, GoTo, linkVars, coreVars
<1>5. TearInv'
  BY DEF IndInv, TearInv, Deliver, GoTo, linkVars, coreVars
<1>6. OneAnswerEach'
  BY DEF IndInv, OneAnswerEach, Waiting, Sources, Deliver, GoTo, linkVars
<1>7. NoForgottenCore'
  BY DEF IndInv, NoForgottenCore, Deliver, GoTo, linkVars, coreVars
<1>8. LaunchedInv'
  BY DEF IndInv, LaunchedInv, Deliver, linkVars, coreVars
<1>. QED BY <1>1, <1>2, <1>3, <1>4, <1>5, <1>6, <1>7, <1>8 DEF IndInv

LEMMA BreakWriteKeeps ==
  ASSUME IndInv, NEW t \in Threads, BreakWrite(t)
  PROVE  IndInv'
<1>1. TypeOK'
  BY DEF IndInv, TypeOK, PCs, BreakWrite, GoTo, linkVars, answerVars, coreVars
<1>2. CallInv'
  BY DEF IndInv, CallInv, BreakWrite, GoTo
<1>3. TargetInv'
  BY DEF IndInv, TargetInv, Waiting, Sources, BreakWrite, GoTo, linkVars, answerVars
<1>4. StartInv'
  BY DEF IndInv, StartInv, BreakWrite, GoTo, linkVars, coreVars
<1>5. TearInv'
  BY DEF IndInv, TearInv, BreakWrite, GoTo, linkVars, coreVars
<1>6. OneAnswerEach'
  BY DEF IndInv, OneAnswerEach, Waiting, Sources, BreakWrite, GoTo, linkVars, answerVars
<1>7. NoForgottenCore'
  BY DEF IndInv, NoForgottenCore, BreakWrite, GoTo, linkVars, coreVars
<1>8. LaunchedInv'
  BY DEF IndInv, LaunchedInv, BreakWrite, linkVars, answerVars, coreVars
<1>. QED BY <1>1, <1>2, <1>3, <1>4, <1>5, <1>6, <1>7, <1>8 DEF IndInv

LEMMA WriteSucceedsKeeps ==
  ASSUME IndInv, NEW t \in Threads, WriteSucceeds(t)
  PROVE  IndInv'
<1>1. TypeOK'
  BY DEF IndInv, TypeOK, PCs, WriteSucceeds, GoTo, linkVars, answerVars, coreVars
<1>2. CallInv'
  BY DEF IndInv, CallInv, WriteSucceeds, GoTo
<1>3. TargetInv'
  BY DEF IndInv, TypeOK, TargetInv, Waiting, Sources, WriteSucceeds, GoTo, linkVars, answerVars
<1>4. StartInv'
  BY DEF IndInv, StartInv, WriteSucceeds, GoTo, linkVars, coreVars
<1>5. TearInv'
  BY DEF IndInv, TearInv, WriteSucceeds, GoTo, linkVars, coreVars
<1>6. OneAnswerEach'
  BY DEF IndInv, OneAnswerEach, Waiting, Sources, WriteSucceeds, GoTo, linkVars, answerVars
<1>7. NoForgottenCore'
  BY DEF IndInv, NoForgottenCore, WriteSucceeds, GoTo, linkVars, coreVars
<1>8. LaunchedInv'
  BY DEF IndInv, LaunchedInv, WriteSucceeds, linkVars, answerVars, coreVars
<1>. QED BY <1>1, <1>2, <1>3, <1>4, <1>5, <1>6, <1>7, <1>8 DEF IndInv

LEMMA WriteFailsKeeps ==
  ASSUME IndInv, NEW t \in Threads, WriteFails(t)
  PROVE  IndInv'
<1>1. writeGate = t
  BY DEF IndInv, TargetInv, WriteFails
<1>. QED BY <1>1, RequestEnds DEF WriteFails, FailRequest, RemovePending, Hellos

LEMMA WriteExpiresKeeps ==
  ASSUME IndInv, NEW t \in Threads, WriteExpires(t)
  PROVE  IndInv'
<1>1. TypeOK'
  BY DEF IndInv, TypeOK, PCs, WriteExpires, GoTo, linkVars, answerVars, coreVars
<1>2. CallInv'
  BY DEF IndInv, CallInv, WriteExpires, GoTo
<1>3. TargetInv'
  BY DEF IndInv, TargetInv, Waiting, Sources, WriteExpires, GoTo, linkVars, answerVars
<1>4. StartInv'
  BY DEF IndInv, StartInv, WriteExpires, GoTo, linkVars, coreVars
<1>5. TearInv'
  BY DEF IndInv, TearInv, WriteExpires, GoTo, linkVars, coreVars
<1>6. OneAnswerEach'
  BY DEF IndInv, OneAnswerEach, Waiting, Sources, WriteExpires, GoTo, linkVars, answerVars
<1>7. NoForgottenCore'
  BY DEF IndInv, NoForgottenCore, WriteExpires, GoTo, linkVars, coreVars
<1>8. LaunchedInv'
  BY DEF IndInv, LaunchedInv, WriteExpires, linkVars, answerVars, coreVars
<1>. QED BY <1>1, <1>2, <1>3, <1>4, <1>5, <1>6, <1>7, <1>8 DEF IndInv

LEMMA TakeAnswerKeeps ==
  ASSUME IndInv, NEW t \in Threads, TakeAnswer(t)
  PROVE  IndInv'
<1>1. t \notin pending
  BY DEF IndInv, OneAnswerEach, TakeAnswer
<1>2. PICK h \in Hellos : IF op[t] \in Starts /\ Suits(t, h) THEN EndRequest(t, "publish", h)
                                                          ELSE FailRequest(t)
  BY DEF TakeAnswer, Hellos
<1>3. CASE op[t] \in Starts /\ EndRequest(t, "publish", h)
  BY <1>1, <1>3, RequestEnds DEF TakeAnswer, linkVars
<1>4. CASE FailRequest(t)
  BY <1>1, <1>4, RequestEnds DEF TakeAnswer, FailRequest, Hellos, linkVars
<1>. QED BY <1>2, <1>3, <1>4

LEMMA TakeDisconnectKeeps ==
  ASSUME IndInv, NEW t \in Threads, TakeDisconnect(t)
  PROVE  IndInv'
<1>1. t \notin pending
  BY DEF IndInv, OneAnswerEach, TakeDisconnect
<1>. QED BY <1>1, RequestEnds DEF TakeDisconnect, FailRequest, Hellos, linkVars

-----------------------------------------------------------------------------
(* Kill, Close, killCurrent.                                               *)

LEMMA BeginKillKeeps ==
  ASSUME IndInv, NEW t \in Threads, BeginKill(t)
  PROVE  IndInv'
<1>1. TypeOK'
  BY DEF IndInv, TypeOK, PCs, Operations, BeginKill, GoTo, linkVars, answerVars, coreVars
<1>2. CallInv'
  BY DEF IndInv, TypeOK, CallInv, BeginKill, GoTo
<1>3. TargetInv'
  BY DEF IndInv, TargetInv, Waiting, Sources, BeginKill, GoTo, linkVars, answerVars
<1>4. StartInv'
  BY DEF IndInv, StartInv, BeginKill, GoTo, linkVars, coreVars
<1>5. TearInv'
  BY DEF IndInv, TearInv, BeginKill, GoTo, linkVars, coreVars
<1>6. OneAnswerEach'
  BY DEF IndInv, OneAnswerEach, Waiting, Sources, BeginKill, GoTo, linkVars, answerVars
<1>7. NoForgottenCore'
  BY DEF IndInv, NoForgottenCore, BeginKill, GoTo, linkVars, coreVars
<1>8. LaunchedInv'
  BY DEF IndInv, LaunchedInv, BeginKill, linkVars, answerVars, coreVars
<1>. QED BY <1>1, <1>2, <1>3, <1>4, <1>5, <1>6, <1>7, <1>8 DEF IndInv

LEMMA CloseKeeps ==
  ASSUME IndInv, NEW t \in Threads, Close(t)
  PROVE  IndInv'
<1>1. TypeOK'
  BY DEF IndInv, TypeOK, PCs, Operations, Close, GoTo, linkVars, answerVars, coreVars
<1>2. CallInv'
  BY DEF IndInv, TypeOK, CallInv, Close, GoTo
<1>3. TargetInv'
  BY DEF IndInv, TargetInv, Waiting, Sources, Close, GoTo, linkVars, answerVars
<1>4. StartInv'
  BY DEF IndInv, StartInv, Close, GoTo, linkVars, coreVars
<1>5. TearInv'
  BY DEF IndInv, TearInv, Close, GoTo, linkVars, coreVars
<1>6. OneAnswerEach'
  BY DEF IndInv, OneAnswerEach, Waiting, Sources, Close, GoTo, linkVars, answerVars
<1>7. NoForgottenCore'
  BY DEF IndInv, NoForgottenCore, Close, GoTo, linkVars, coreVars
<1>8. LaunchedInv'
  BY DEF IndInv, LaunchedInv, Close, linkVars, answerVars, coreVars
<1>. QED BY <1>1, <1>2, <1>3, <1>4, <1>5, <1>6, <1>7, <1>8 DEF IndInv

LEMMA KillCurrentKeeps ==
  ASSUME IndInv, NEW t \in Threads, KillCurrent(t)
  PROVE  IndInv'
<1>1. TypeOK'
  BY DEF IndInv, TypeOK, PCs, Hellos, Teardowns, KillCurrent, GoTo, DropSession, coreVars
<1>2. CallInv'
  BY DEF IndInv, CallInv, KillCurrent, GoTo, DropSession
<1>3. TargetInv'
  BY DEF IndInv, TargetInv, OneAnswerEach, Waiting, Sources, KillCurrent, GoTo, DropSession
<1>4. StartInv'
  BY DEF IndInv, StartInv, KillCurrent, GoTo, DropSession, coreVars
<1>5. TearInv'
  BY ThreadsAssumption DEF IndInv, TypeOK, StartInv, TearInv, KillCurrent, GoTo, DropSession,
      coreVars
<1>6. LaunchedInv'
  BY DEF IndInv, TypeOK, LaunchedInv, KillCurrent, DropSession, coreVars
<1>7. OneAnswerEach'
  BY DEF IndInv, TypeOK, TearInv, OneAnswerEach, Waiting, Sources, KillCurrent, GoTo,
      DropSession
<1>8. NoForgottenCore'
  BY DEF IndInv, TypeOK, TearInv, NoForgottenCore, KillCurrent, GoTo, DropSession, coreVars
<1>. QED BY <1>1, <1>2, <1>3, <1>4, <1>5, <1>6, <1>7, <1>8 DEF IndInv

LEMMA KillReturnsToWriteKeeps ==
  ASSUME IndInv, NEW t \in Threads, KillReturnsToWrite(t)
  PROVE  IndInv'
<1>1. t \notin pending
  BY DEF IndInv, TargetInv, KillReturnsToWrite
<1>. QED BY <1>1, RequestEnds DEF KillReturnsToWrite, FailRequest, Hellos, linkVars

LEMMA KillReturnsToStartKeeps ==
  ASSUME IndInv, NEW t \in Threads, KillReturnsToStart(t)
  PROVE  IndInv'
<1>1. TypeOK'
  BY DEF IndInv, TypeOK, PCs, KillReturnsToStart, GoTo, linkVars, answerVars, coreVars
<1>2. CallInv'
  BY DEF IndInv, CallInv, KillReturnsToStart, GoTo
<1>3. TargetInv'
  BY DEF IndInv, TargetInv, Waiting, Sources, KillReturnsToStart, GoTo, linkVars, answerVars
<1>4. StartInv'
  BY DEF IndInv, StartInv, KillReturnsToStart, GoTo, linkVars, coreVars
<1>5. TearInv'
  BY DEF IndInv, TearInv, KillReturnsToStart, GoTo, linkVars, coreVars
<1>6. OneAnswerEach'
  BY DEF IndInv, OneAnswerEach, Waiting, Sources, KillReturnsToStart, GoTo, linkVars, answerVars
<1>7. NoForgottenCore'
  BY DEF IndInv, NoForgottenCore, KillReturnsToStart, GoTo, linkVars, coreVars
<1>8. LaunchedInv'
  BY DEF IndInv, LaunchedInv, KillReturnsToStart, linkVars, answerVars, coreVars
<1>. QED BY <1>1, <1>2, <1>3, <1>4, <1>5, <1>6, <1>7, <1>8 DEF IndInv

LEMMA KillReturnsKeeps ==
  ASSUME IndInv, NEW t \in Threads, KillReturns(t)
  PROVE  IndInv'
<1>1. TypeOK'
  BY DEF IndInv, TypeOK, PCs, Hellos, Operations, KillReturns, GoTo, Return, linkVars,
      answerVars, coreVars
<1>2. CallInv'
  BY DEF IndInv, TypeOK, CallInv, KillReturns, GoTo, Return
<1>3. TargetInv'
  BY DEF IndInv, TargetInv, Waiting, Sources, KillReturns, GoTo, Return, linkVars, answerVars
<1>4. StartInv'
  BY DEF IndInv, CallInv, StartInv, KillReturns, GoTo, Return, linkVars, coreVars
<1>5. TearInv'
  BY DEF IndInv, TearInv, KillReturns, GoTo, Return, linkVars, coreVars
<1>6. OneAnswerEach'
  BY DEF IndInv, OneAnswerEach, Waiting, Sources, KillReturns, GoTo, Return, linkVars,
      answerVars
<1>7. NoForgottenCore'
  BY DEF IndInv, NoForgottenCore, KillReturns, GoTo, Return, linkVars, coreVars
<1>8. LaunchedInv'
  BY DEF IndInv, LaunchedInv, KillReturns, linkVars, answerVars, coreVars
<1>. QED BY <1>1, <1>2, <1>3, <1>4, <1>5, <1>6, <1>7, <1>8 DEF IndInv

-----------------------------------------------------------------------------
(* Teardowns, readers and watchers, and the Core.                         *)

LEMMA CloseTransportKeeps ==
  ASSUME IndInv, NEW a \in Actors, CloseTransport(a)
  PROVE  IndInv'
<1>1. TypeOK'
  BY DEF IndInv, TypeOK, Teardowns, CloseTransport, linkVars, answerVars, threadVars
<1>2. TargetInv'
  BY DEF IndInv, TargetInv, Waiting, Sources, CloseTransport, linkVars, answerVars, threadVars
<1>3. TearInv'
  BY DEF IndInv, TearInv, CloseTransport, linkVars, threadVars
<1>4. LaunchedInv'
  BY DEF IndInv, LaunchedInv, CloseTransport, linkVars
<1>5. OneAnswerEach'
  BY DEF IndInv, OneAnswerEach, Waiting, Sources, CloseTransport, linkVars, answerVars,
      threadVars
<1>6. NoForgottenCore'
  BY DEF IndInv, NoForgottenCore, CloseTransport, linkVars, threadVars
<1>7. CallInv' /\ StartInv'
  BY DEF IndInv, CallInv, StartInv, CloseTransport, linkVars, answerVars, threadVars
<1>. QED BY <1>1, <1>2, <1>3, <1>4, <1>5, <1>6, <1>7 DEF IndInv

LEMMA FailRepliesKeeps ==
  ASSUME IndInv, NEW a \in Actors, FailReplies(a)
  PROVE  IndInv'
<1>1. TypeOK'
  BY DEF IndInv, TypeOK, Replies, Teardowns, NoTeardown, FailReplies, linkVars, threadVars,
      coreVars
<1>2. TargetInv'
  BY DEF IndInv, TargetInv, NoTeardown, Waiting, Sources, FailReplies, linkVars, threadVars
<1>3. TearInv'
  BY DEF IndInv, TearInv, NoTeardown, FailReplies, linkVars, threadVars, coreVars
<1>4. OneAnswerEach'
  BY DEF IndInv, TypeOK, OneAnswerEach, NoTeardown, Waiting, Sources, FailReplies, linkVars,
      threadVars
<1>5. NoForgottenCore'
  BY DEF IndInv, NoForgottenCore, FailReplies, linkVars, threadVars, coreVars
<1>6. CallInv' /\ StartInv' /\ LaunchedInv'
  BY DEF IndInv, CallInv, StartInv, LaunchedInv, FailReplies, linkVars, threadVars, coreVars
<1>. QED BY <1>1, <1>2, <1>3, <1>4, <1>5, <1>6 DEF IndInv

LEMMA FailSessionKeeps ==
  ASSUME IndInv, NEW c \in Cores, FailSession(c)
  PROVE  IndInv'
<1>1. TypeOK'
  BY DEF IndInv, TypeOK, Hellos, Teardowns, FailSession, DropSession, threadVars, coreVars
<1>2. TargetInv'
  BY DEF IndInv, TargetInv, OneAnswerEach, Waiting, Sources, FailSession, DropSession,
      threadVars
<1>3. StartInv'
  BY DEF IndInv, StartInv, FailSession, DropSession, threadVars, coreVars
<1>4. TearInv'
  BY ThreadsAssumption DEF IndInv, StartInv, TearInv, LaunchedInv, FailSession, DropSession,
      threadVars, coreVars
<1>5. LaunchedInv'
  BY DEF IndInv, TypeOK, LaunchedInv, FailSession, DropSession, coreVars
<1>6. OneAnswerEach'
  BY DEF IndInv, TypeOK, TearInv, OneAnswerEach, NoTeardown, Waiting, Sources, FailSession,
      DropSession, threadVars
<1>7. NoForgottenCore'
  BY DEF IndInv, TypeOK, TearInv, NoForgottenCore, FailSession, DropSession, threadVars,
      coreVars
<1>8. CallInv'
  BY DEF IndInv, CallInv, FailSession, DropSession, threadVars, coreVars
<1>. QED BY <1>1, <1>2, <1>3, <1>4, <1>5, <1>6, <1>7, <1>8 DEF IndInv

LEMMA ReadReplyKeeps ==
  ASSUME IndInv, NEW c \in Cores, ReadReply(c)
  PROVE  IndInv'
<1>1. TypeOK'
  BY DEF IndInv, TypeOK, Replies, ReadReply, threadVars, coreVars
<1>2. TargetInv'
  BY DEF IndInv, TargetInv, OneAnswerEach, Waiting, Sources, ReadReply, threadVars
<1>3. OneAnswerEach'
  BY DEF IndInv, TypeOK, OneAnswerEach, Waiting, Sources, ReadReply, threadVars
<1>4. CallInv' /\ StartInv' /\ TearInv' /\ LaunchedInv' /\ NoForgottenCore'
  BY DEF IndInv, CallInv, StartInv, TearInv, LaunchedInv, NoForgottenCore, ReadReply,
      threadVars, coreVars
<1>. QED BY <1>1, <1>2, <1>3, <1>4 DEF IndInv

LEMMA CoreStopsKeeps ==
  ASSUME IndInv, NEW c \in Cores, CoreStops(c)
  PROVE  IndInv'
<1>1. TypeOK'
  BY DEF IndInv, TypeOK, CoreStops, linkVars, answerVars, threadVars
<1>2. CallInv' /\ TargetInv' /\ StartInv' /\ TearInv' /\ LaunchedInv' /\ OneAnswerEach' /\ NoForgottenCore'
  BY DEF IndInv, CallInv, TargetInv, StartInv, TearInv, LaunchedInv, OneAnswerEach,
      NoForgottenCore, Waiting, Sources, CoreStops, linkVars, answerVars, threadVars
<1>. QED BY <1>1, <1>2 DEF IndInv

-----------------------------------------------------------------------------
(* The invariant holds in every behaviour.                                 *)

LEMMA InitHolds == Init => IndInv
<1>. SUFFICES ASSUME Init PROVE IndInv
  OBVIOUS
<1>1. TypeOK
  <2>1. NoTeardown \in Teardowns
    BY DEF NoTeardown, Teardowns
  <2>2. tearing \in [Actors -> Teardowns]
    BY <2>1 DEF Init
  <2>3. /\ pc \in [Threads -> PCs] /\ op \in [Threads -> Operations \cup Starts \cup {"none"}]
        /\ negotiated \in [Threads -> Hellos] /\ reply \in [Threads -> Replies]
        /\ mine \in [Threads -> Cores \cup {NoCore}] /\ target \in [Threads -> Cores \cup {NoCore}]
    BY DEF Init, PCs, Hellos, Replies
  <2>4. launched \in 0 .. MaxCores /\ hello \in Hellos
    BY BoundsAssumption DEF Init, Hellos
  <2>. QED BY <2>2, <2>3, <2>4 DEF Init, TypeOK
<1>2. CallInv /\ TargetInv
  BY ThreadsAssumption DEF Init, CallInv, TargetInv, Waiting, Sources, NoTeardown
<1>3. StartInv /\ TearInv
  BY ThreadsAssumption DEF Init, StartInv, TearInv, NoTeardown
<1>4. LaunchedInv /\ OneAnswerEach /\ NoForgottenCore
  BY DEF Init, LaunchedInv, OneAnswerEach, NoForgottenCore, Waiting, Sources, NoTeardown
<1>. QED BY <1>1, <1>2, <1>3, <1>4 DEF IndInv

LEMMA StutterKeeps == IndInv /\ UNCHANGED vars => IndInv'
<1>. SUFFICES ASSUME IndInv, UNCHANGED vars PROVE IndInv'
  OBVIOUS
<1>. USE DEF vars, linkVars, answerVars, threadVars, coreVars
<1>1. TypeOK' /\ CallInv'
  BY DEF IndInv, TypeOK, CallInv
<1>2. TargetInv' /\ OneAnswerEach'
  BY DEF IndInv, TargetInv, OneAnswerEach, Waiting, Sources
<1>3. StartInv' /\ TearInv' /\ LaunchedInv' /\ NoForgottenCore'
  BY DEF IndInv, StartInv, TearInv, LaunchedInv, NoForgottenCore
<1>. QED BY <1>1, <1>2, <1>3 DEF IndInv

LEMMA NextKeeps == IndInv /\ Next => IndInv'
<1>. SUFFICES ASSUME IndInv, Next PROVE IndInv'
  OBVIOUS
<1>1. ASSUME NEW t \in Threads, EnsureStep(t) PROVE IndInv'
  BY <1>1, BeginEnsureKeeps, ReuseCoreKeeps, BeginStartKeeps, GateExpiresKeeps, LaunchCoreKeeps,
      LaunchFailsKeeps, RegisterKeeps, RefuseRegisterKeeps, EndRefusedKeeps, PublishKeeps,
      FallbackKeeps, GiveUpKeeps DEF EnsureStep
<1>2. ASSUME NEW t \in Threads, RequestStep(t) PROVE IndInv'
  BY <1>2, BeginRequestKeeps, SendRequestKeeps, RequestRefusedKeeps, BeginWriteKeeps,
      RequestExpiresKeeps, DeliverKeeps, BreakWriteKeeps, WriteSucceedsKeeps, WriteFailsKeeps,
      WriteExpiresKeeps, TakeAnswerKeeps, TakeDisconnectKeeps DEF RequestStep
<1>3. ASSUME NEW t \in Threads, KillStep(t) PROVE IndInv'
  BY <1>3, BeginKillKeeps, CloseKeeps, KillCurrentKeeps, KillReturnsToWriteKeeps,
      KillReturnsToStartKeeps, KillReturnsKeeps DEF KillStep
<1>4. ASSUME NEW a \in Actors, CloseTransport(a) \/ FailReplies(a) PROVE IndInv'
  BY <1>4, CloseTransportKeeps, FailRepliesKeeps
<1>5. ASSUME NEW c \in Cores, FailSession(c) \/ ReadReply(c) \/ CoreStops(c) PROVE IndInv'
  BY <1>5, FailSessionKeeps, ReadReplyKeeps, CoreStopsKeeps
<1>. QED BY <1>1, <1>2, <1>3, <1>4, <1>5 DEF Next

\* However calls, Cores and teardowns interleave, IndInv holds.
THEOREM Invariance == Spec => []IndInv
<1>1. Init => IndInv
  BY InitHolds
<1>2. IndInv /\ [Next]_vars => IndInv'
  BY NextKeeps, StutterKeeps
<1>. QED BY <1>1, <1>2, PTL DEF Spec

\* The fields of the client and the local variables of its callers have their
\* types, and hello goes with its session (client.go:60-75).
THEOREM TypeCorrect == Spec => []TypeOK
<1>1. IndInv => TypeOK
  BY DEF IndInv
<1>. QED BY <1>1, Invariance, PTL

\* Each request that waits has exactly one answer on its way, for any number of
\* goroutines, Cores and teardowns that overtake each other (client.go:483-545).
THEOREM OneAnswer == Spec => []OneAnswerEach
<1>1. IndInv => OneAnswerEach
  BY DEF IndInv
<1>. QED BY <1>1, Invariance, PTL

\* No Core is left that nobody will end (client.go:152-158, 280-293).
THEOREM NoCoreForgotten == Spec => []NoForgottenCore
<1>1. IndInv => NoForgottenCore
  BY DEF IndInv
<1>. QED BY <1>1, Invariance, PTL

\* A start finds no other Core connected when it registers its own, and kills
\* none but its own when it fails (client.go:288-320).
THEOREM StartsApart == Spec => []StartsDoNotCollide
<1>1. IndInv => StartsDoNotCollide
  BY DEF IndInv, CallInv, StartInv, TearInv, StartsDoNotCollide
<1>. QED BY <1>1, Invariance, PTL

-----------------------------------------------------------------------------
(* CoreHost: what a refusal rests on.                                      *)

Services == [state : {"stopped", "running", "stopping"}, pid : Nat]
Serving  == [at : {"ended", "load", "listen", "check", "serve", "hung"}, policy : Host!Policies]
DesktopSteps == Host!Launching \cup {"idle", "service", "runas"}
Desktops == [at : DesktopSteps, pid : Nat, refused : Nat, compatible : BOOLEAN]
Clients  == {"nobody", "desktop", "other", "gone"}
HostTypes == scm \in Services /\ host \in Serving /\ client \in Clients
             /\ policy \in Host!Policies /\ desktop \in Desktops

\* The steps of a launch for which a Core is elevated.
FallenBack == {"trust", "elevate", "accept", "answer", "greet", "runas"}

\* The desktop is at the pipe of the process it found, which serves it if it
\* said so, and has not refused it.
ClientInv ==
  client = "desktop" =>
    /\ desktop.at \in {"hello", "service"} /\ desktop.refused = 0
    /\ scm.state # "stopped" /\ scm.pid = desktop.pid
    /\ desktop.at = "service" => host.at = "serve"

\* Who was refused was so by the process it had found, whose number is not used
\* again, and got no answer that would let it fall back.
RefusedInv ==
  /\ desktop.pid <= scm.pid
  /\ desktop.at \in {"query", "dial", "hello"} => desktop.compatible
  /\ desktop.refused # 0 =>
       /\ desktop.refused = desktop.pid /\ desktop.compatible
       /\ desktop.at \in FallenBack \cup {"hello", "failed", "idle"}
       /\ desktop.at \in FallenBack => scm.state # "running" \/ scm.pid # desktop.refused

HostInv == HostTypes /\ ClientInv /\ RefusedInv

\* A step of the service: a process that runs is the same one, or a later one.
LEMMA ServiceMoves ==
  ASSUME HostInv, UNCHANGED desktop, policy' \in Host!Policies,
         scm' \in Services, host' \in Serving, client' \in Clients,
         \/ scm'.pid = scm.pid /\ (scm'.state = "running" => scm.state = "running")
         \/ scm'.pid > scm.pid,
         client' = "desktop" =>
           /\ client = "desktop" /\ scm'.state # "stopped" /\ scm'.pid = scm.pid
           /\ host.at = "serve" => host'.at = "serve"
  PROVE  HostInv'
<1>0. scm.pid \in Nat /\ scm'.pid \in Nat /\ desktop.pid \in Nat
  BY DEF HostInv, HostTypes, Services, Desktops
<1>1. HostTypes'
  BY DEF HostInv, HostTypes
<1>2. ClientInv'
  BY DEF HostInv, ClientInv
<1>3. RefusedInv'
  BY <1>0 DEF HostInv, RefusedInv
<1>. QED BY <1>1, <1>2, <1>3 DEF HostInv

\* A step of the desktop that leaves the service's pipe, or is not at it: a Core
\* is elevated only where a refusal does not stand.
LEMMA DesktopMoves ==
  ASSUME HostInv, UNCHANGED <<scm, host, policy>>, client' \in Clients \ {"desktop"},
         desktop' \in Desktops, desktop'.pid = desktop.pid, desktop'.refused = desktop.refused,
         desktop.refused # 0 =>
           /\ desktop'.compatible = desktop.compatible
           /\ desktop'.at \in FallenBack \cup {"failed", "idle"},
         desktop'.at \notin {"query", "dial", "hello"},
         desktop'.at \in FallenBack => desktop.at \in FallenBack \/ Host!MayFallBack
  PROVE  HostInv'
<1>1. HostTypes'
  BY DEF HostInv, HostTypes
<1>2. ClientInv'
  BY DEF ClientInv
<1>3. RefusedInv'
  BY DEF HostInv, RefusedInv, Host!MayFallBack, Host!Running
<1>. QED BY <1>1, <1>2, <1>3 DEF HostInv

LEMMA DesktopGoes ==
  ASSUME HostInv, NEW step \in DesktopSteps, Host!GoTo(step)
  PROVE  /\ desktop' \in Desktops /\ desktop'.at = step /\ desktop'.pid = desktop.pid
         /\ desktop'.refused = desktop.refused /\ desktop'.compatible = desktop.compatible
<1>1. desktop \in Desktops
  BY DEF HostInv, HostTypes
<1>2. desktop' = [desktop EXCEPT !.at = step]
  BY DEF Host!GoTo
<1>. QED BY <1>1, <1>2, ZenonT(60) DEF Desktops

LEMMA ServingGoes ==
  ASSUME HostInv, NEW step \in {"ended", "load", "listen", "check", "serve", "hung"},
         Host!HostGoTo(step)
  PROVE  host' \in Serving /\ host'.at = step
<1>1. host \in Serving
  BY DEF HostInv, HostTypes
<1>2. host' = [host EXCEPT !.at = step]
  BY DEF Host!HostGoTo
<1>. QED BY <1>1, <1>2, ZenonT(60) DEF Serving

LEMMA ServiceExits ==
  ASSUME HostInv, UNCHANGED <<policy, desktop>>, Host!Exits
  PROVE  HostInv'
<1>1. scm \in Services /\ policy \in Host!Policies
  BY DEF HostInv, HostTypes
<1>2. /\ scm' = [scm EXCEPT !.state = "stopped"] /\ client' = "nobody"
      /\ host' \in Serving
  BY ServingGoes DEF Host!Exits, Host!Nobody
<1>3. scm' \in Services /\ scm'.state = "stopped" /\ scm'.pid = scm.pid
  BY <1>1, <1>2, ZenonT(60) DEF Services
<1>. QED BY <1>1, <1>2, <1>3, ServiceMoves DEF Clients

\* The service's own steps.
LEMMA ServiceStepsSound ==
  ASSUME HostInv,
         \/ Host!Starts \/ Host!LoadsPolicy \/ Host!Connected \/ Host!StopsListening
         \/ Host!Accepts \/ Host!SessionEnds \/ Host!SessionHangs \/ Host!StopRequested
         \/ Host!StopTimesOut \/ Host!Killed \/ Host!PolicyChanges \/ Host!OtherConnects
  PROVE  HostInv'
<1>0. /\ scm \in Services /\ host \in Serving /\ client \in Clients /\ policy \in Host!Policies
      /\ scm.pid \in Nat
  BY DEF HostInv, HostTypes, Services
<1>1. CASE Host!Starts
  <2>1. scm' \in Services /\ scm'.pid = scm.pid + 1
    BY <1>0, <1>1 DEF Host!Starts, Services
  <2>2. scm.state = "stopped" /\ UNCHANGED <<client, policy, desktop>> /\ host' \in Serving
    BY <1>1, ServingGoes DEF Host!Starts
  <2>3. scm'.pid > scm.pid
    BY <1>0, <2>1
  <2>4. client # "desktop"
    BY <2>2 DEF HostInv, ClientInv
  <2>. QED BY <1>0, <2>1, <2>2, <2>3, <2>4, ServiceMoves
<1>2. CASE Host!LoadsPolicy
  <2>1. CASE Host!Exits
    BY <1>2, <2>1, ServiceExits DEF Host!LoadsPolicy
  <2>2. CASE ~Host!Exits
    <3>1. /\ host' = [at |-> "listen", policy |-> policy] /\ client' = "nobody"
          /\ UNCHANGED <<scm, policy, desktop>>
      BY <1>2, <2>2 DEF Host!LoadsPolicy, Host!Nobody
    <3>2. host' \in Serving
      BY <1>0, <3>1 DEF Serving
    <3>. QED BY <1>0, <3>1, <3>2, ServiceMoves DEF Clients
  <2>. QED BY <2>1, <2>2
<1>3. CASE Host!Connected
  <2>1. /\ host.at = "listen" /\ UNCHANGED <<scm, client, policy, desktop>> /\ host' \in Serving
    BY <1>3, ServingGoes DEF Host!Connected, Host!HostAt
  <2>2. scm'.state = "stopped" => client # "desktop"
    BY <2>1 DEF HostInv, ClientInv
  <2>. QED BY <1>0, <2>1, <2>2, ServiceMoves
<1>4. CASE Host!StopsListening \/ Host!StopTimesOut \/ Host!Killed
  BY <1>4, ServiceExits DEF Host!StopsListening, Host!StopTimesOut, Host!Killed
<1>5. CASE Host!Accepts
  <2>1. /\ UNCHANGED <<scm, client, policy, desktop>> /\ host' \in Serving /\ host'.at = "serve"
    BY <1>5, ServingGoes DEF Host!Accepts
  <2>2. scm'.state = "stopped" => client # "desktop"
    BY <2>1 DEF HostInv, ClientInv
  <2>. QED BY <1>0, <2>1, <2>2, ServiceMoves
<1>6. CASE Host!SessionEnds
  <2>1. CASE Host!Exits
    BY <1>6, <2>1, ServiceExits DEF Host!SessionEnds
  <2>2. CASE ~Host!Exits
    <3>1. /\ client' = "nobody" /\ UNCHANGED <<scm, policy, desktop>> /\ Host!HostGoTo("load")
      BY <1>6, <2>2 DEF Host!SessionEnds, Host!Nobody
    <3>2. host' \in Serving
      BY <3>1, ServingGoes
    <3>. QED BY <1>0, <3>1, <3>2, ServiceMoves DEF Clients
  <2>. QED BY <2>1, <2>2
<1>7. CASE Host!SessionHangs
  <2>1. client' = "gone" /\ UNCHANGED <<scm, policy, desktop>> /\ host' \in Serving
    BY <1>7, ServingGoes DEF Host!SessionHangs
  <2>. QED BY <1>0, <2>1, ServiceMoves DEF Clients
<1>8. CASE Host!StopRequested
  <2>1. /\ scm' = [scm EXCEPT !.state = "stopping"] /\ UNCHANGED <<host, client, policy, desktop>>
    BY <1>8 DEF Host!StopRequested
  <2>2. scm' \in Services /\ scm'.state = "stopping" /\ scm'.pid = scm.pid
    BY <1>0, <2>1, ZenonT(60) DEF Services
  <2>. QED BY <1>0, <2>1, <2>2, ServiceMoves
<1>9. CASE Host!PolicyChanges \/ Host!OtherConnects
  <2>1. /\ policy' \in Host!Policies /\ client' \in {client, "other"}
        /\ UNCHANGED <<scm, host, desktop>>
    BY <1>0, <1>9 DEF Host!PolicyChanges, Host!OtherConnects
  <2>2. scm'.state = "stopped" => client # "desktop"
    BY <2>1 DEF HostInv, ClientInv
  <2>. QED BY <1>0, <2>1, <2>2, ServiceMoves DEF Clients
<1>. QED BY <1>1, <1>2, <1>3, <1>4, <1>5, <1>6, <1>7, <1>8, <1>9

\* The refusal itself, of a desktop that waits for the answer to its hello.
LEMMA RejectsSound ==
  ASSUME HostInv, Host!Rejects
  PROVE  HostInv'
<1>1. /\ host.at = "check" /\ client' = "nobody" /\ UNCHANGED <<scm, policy>>
      /\ desktop' = IF client = "desktop" THEN [desktop EXCEPT !.refused = scm.pid] ELSE desktop
      /\ host' \in Serving
  BY ServingGoes DEF Host!Rejects, Host!HostAt, Host!Nobody
<1>2. desktop \in Desktops /\ scm \in Services /\ scm.pid \in Nat
  BY DEF HostInv, HostTypes, Services
<1>3. CASE client = "desktop"
  <2>1. desktop' = [desktop EXCEPT !.refused = scm.pid]
    BY <1>1, <1>3
  <2>2. /\ desktop' \in Desktops /\ desktop'.at = desktop.at /\ desktop'.pid = desktop.pid
        /\ desktop'.refused = scm.pid /\ desktop'.compatible = desktop.compatible
    BY <1>2, <2>1, ZenonT(60) DEF Desktops
  <2>3. desktop.at = "hello" /\ scm.pid = desktop.pid
    BY <1>1, <1>3 DEF HostInv, ClientInv
  <2>4. HostTypes' /\ ClientInv'
    BY <1>1, <2>2 DEF HostInv, HostTypes, ClientInv, Clients
  <2>5. desktop.compatible
    BY <2>3 DEF HostInv, RefusedInv
  <2>6. RefusedInv'
    BY <1>1, <2>2, <2>3, <2>5 DEF HostInv, RefusedInv, FallenBack
  <2>. QED BY <2>4, <2>6 DEF HostInv
<1>4. CASE client # "desktop"
  BY <1>1, <1>2, <1>4, ServiceMoves DEF HostInv, HostTypes, Clients
<1>. QED BY <1>3, <1>4

\* The desktop's steps that are no part of a dial.
LEMMA DesktopStepsSound ==
  ASSUME HostInv,
         \/ Host!LaunchFails \/ Host!StaysDown \/ Host!FallsBack \/ Host!TrustsPath
         \/ Host!Elevates \/ Host!CoreConnects \/ Host!DesktopRefuses \/ Host!Answers
         \/ Host!CoreGreets \/ Host!Abandons
  PROVE  HostInv'
<1>1. PICK step \in FallenBack \cup {"idle"} :
        /\ Host!GoTo(step) /\ UNCHANGED <<scm, host, client, policy>>
        /\ desktop.at \notin {"hello", "service"}
        /\ step \in FallenBack => desktop.at \in FallenBack \/ Host!MayFallBack
  BY DEF FallenBack, Host!Desktop, Host!serviceVars, Host!LaunchFails, Host!StaysDown,
         Host!FallsBack, Host!TrustsPath, Host!Elevates, Host!CoreConnects, Host!DesktopRefuses,
         Host!Answers, Host!CoreGreets, Host!Abandons
<1>2. /\ desktop' \in Desktops /\ desktop'.at = step /\ desktop'.pid = desktop.pid
      /\ desktop'.refused = desktop.refused /\ desktop'.compatible = desktop.compatible
  BY <1>1, DesktopGoes DEF FallenBack, DesktopSteps, Host!Launching
<1>3. client' \in Clients \ {"desktop"}
  BY <1>1 DEF HostInv, HostTypes, ClientInv
<1>. QED BY <1>1, <1>2, <1>3, DesktopMoves DEF FallenBack

LEMMA HangUp ==
  ASSUME HostInv, Host!HangsUp
  PROVE  client' \in Clients \ {"desktop"}
BY DEF HostInv, HostTypes, Clients, Host!HangsUp

\* The steps that leave the service's pipe.
LEMMA LeavesSound ==
  ASSUME HostInv, Host!GreetingFails \/ Host!Disconnects
  PROVE  HostInv'
<1>1. PICK step \in {"failed", "idle"} :
        Host!GoTo(step) /\ Host!HangsUp /\ UNCHANGED <<scm, host, policy>>
  BY DEF Host!GreetingFails, Host!Disconnects
<1>2. /\ desktop' \in Desktops /\ desktop'.at = step /\ desktop'.pid = desktop.pid
      /\ desktop'.refused = desktop.refused /\ desktop'.compatible = desktop.compatible
  BY <1>1, DesktopGoes DEF DesktopSteps, Host!Launching
<1>. QED BY <1>1, <1>2, HangUp, DesktopMoves DEF FallenBack

\* A launch that begins was refused by nobody.
LEMMA BeginsLaunchSound ==
  ASSUME HostInv, Host!BeginsLaunch
  PROVE  HostInv'
<1>1. /\ desktop' = [at |-> "query", pid |-> 0, refused |-> 0, compatible |-> TRUE]
      /\ desktop.at = "idle" /\ UNCHANGED <<scm, host, client, policy>>
  BY DEF Host!BeginsLaunch, Host!Desktop, Host!serviceVars, Host!NoPid
<1>2. HostTypes'
  BY <1>1 DEF HostInv, HostTypes, Desktops, DesktopSteps, Host!Launching
<1>3. client # "desktop"
  BY <1>1 DEF HostInv, ClientInv
<1>4. scm.pid \in Nat
  BY DEF HostInv, HostTypes, Services
<1>. QED BY <1>1, <1>2, <1>3, <1>4 DEF HostInv, ClientInv, RefusedInv

LEMMA QueriesSound ==
  ASSUME HostInv, Host!Queries
  PROVE  HostInv'
<1> DEFINE step == IF Host!Running THEN "dial" ELSE "trust"
           found == IF Host!Running THEN scm.pid ELSE 0
<1>1. /\ desktop' = [desktop EXCEPT !.at = step, !.pid = found]
      /\ desktop.at = "query" /\ UNCHANGED <<scm, host, client, policy>>
  BY DEF Host!Queries, Host!Desktop, Host!serviceVars, Host!NoPid
<1>2. desktop \in Desktops /\ scm.pid \in Nat
  BY DEF HostInv, HostTypes, Services
<1>3. step \in DesktopSteps /\ step \in {"dial", "trust"} /\ found \in Nat /\ found <= scm.pid
  BY <1>2 DEF DesktopSteps, Host!Launching
<1>. HIDE DEF step, found
<1>4. /\ desktop' \in Desktops /\ desktop'.at = step /\ desktop'.pid = found
      /\ desktop'.refused = desktop.refused /\ desktop'.compatible = desktop.compatible
  BY <1>1, <1>2, <1>3, ZenonT(60) DEF Desktops
<1>5. client # "desktop" /\ desktop.refused = 0 /\ desktop.compatible
  BY <1>1 DEF HostInv, ClientInv, RefusedInv, FallenBack
<1>6. HostTypes'
  BY <1>1, <1>4 DEF HostInv, HostTypes
<1>. QED BY <1>1, <1>3, <1>4, <1>5, <1>6 DEF HostInv, ClientInv, RefusedInv

\* The pipe is dialled of the process that was found, or left at once.
LEMMA DialsSound ==
  ASSUME HostInv, Host!Dials
  PROVE  HostInv'
<1>1. /\ desktop.at = "dial" /\ scm.state # "stopped" /\ UNCHANGED <<scm, host, policy>>
      /\ \/ scm.pid = desktop.pid /\ client' = "desktop" /\ Host!GoTo("hello")
         \/ client' = "gone" /\ Host!GoTo("idle")
  BY DEF Host!Dials, Host!Desktop, Host!HostAt
<1>2. desktop.refused = 0 /\ desktop.compatible
  BY <1>1 DEF HostInv, RefusedInv, FallenBack
<1>3. CASE scm.pid = desktop.pid /\ client' = "desktop" /\ Host!GoTo("hello")
  <2>1. /\ desktop' \in Desktops /\ desktop'.at = "hello" /\ desktop'.pid = desktop.pid
        /\ desktop'.refused = desktop.refused /\ desktop'.compatible = desktop.compatible
    BY <1>3, DesktopGoes DEF DesktopSteps, Host!Launching
  <2>2. HostTypes'
    BY <1>1, <1>3, <2>1 DEF HostInv, HostTypes, Clients
  <2>. QED BY <1>1, <1>2, <1>3, <2>1, <2>2 DEF HostInv, ClientInv, RefusedInv
<1>4. CASE client' = "gone" /\ Host!GoTo("idle")
  <2>1. /\ desktop' \in Desktops /\ desktop'.at = "idle" /\ desktop'.pid = desktop.pid
        /\ desktop'.refused = desktop.refused /\ desktop'.compatible = desktop.compatible
    BY <1>4, DesktopGoes DEF DesktopSteps
  <2>. QED BY <1>1, <1>4, <2>1, DesktopMoves DEF Clients, FallenBack
<1>. QED BY <1>1, <1>3, <1>4

\* The service's answer: it serves, or is of another version.
LEMMA GreetsSound ==
  ASSUME HostInv, Host!Greets
  PROVE  HostInv'
<1>1. /\ desktop.at = "hello" /\ client = "desktop" /\ host.at = "serve"
      /\ UNCHANGED <<scm, host, policy>>
      /\ \/ Host!GoTo("service") /\ UNCHANGED client
         \/ /\ desktop' = [desktop EXCEPT !.at = "failed", !.compatible = FALSE]
            /\ Host!HangsUp
  BY DEF Host!Greets, Host!Desktop, Host!HostAt
<1>2. /\ desktop.refused = 0 /\ scm.state # "stopped" /\ scm.pid = desktop.pid
      /\ desktop \in Desktops
  BY <1>1 DEF HostInv, ClientInv, HostTypes
<1>3. CASE Host!GoTo("service") /\ UNCHANGED client
  <2>1. /\ desktop' \in Desktops /\ desktop'.at = "service" /\ desktop'.pid = desktop.pid
        /\ desktop'.refused = desktop.refused
    BY <1>3, DesktopGoes DEF DesktopSteps
  <2>2. HostTypes'
    BY <1>1, <1>3, <2>1 DEF HostInv, HostTypes
  <2>. QED BY <1>1, <1>2, <1>3, <2>1, <2>2 DEF HostInv, ClientInv, RefusedInv
<1>4. CASE desktop' = [desktop EXCEPT !.at = "failed", !.compatible = FALSE] /\ Host!HangsUp
  <2>1. "failed" \in DesktopSteps
    BY DEF DesktopSteps, Host!Launching
  <2>2. /\ desktop' \in Desktops /\ desktop'.at = "failed" /\ desktop'.pid = desktop.pid
        /\ desktop'.refused = desktop.refused
    BY <1>2, <1>4, <2>1, ZenonT(60) DEF Desktops
  <2>. QED BY <1>1, <1>2, <1>4, <2>2, HangUp, DesktopMoves DEF FallenBack
<1>. QED BY <1>1, <1>3, <1>4

-----------------------------------------------------------------------------
(* CoreHost: the theorem.                                                  *)

LEMMA HostInit ==
  ASSUME Host!Init
  PROVE  HostInv
BY DEF Host!Init, HostInv, HostTypes, ClientInv, RefusedInv, Services, Serving, Desktops,
       DesktopSteps, Clients, FallenBack, Host!Nobody, Host!NoPid, Host!Policies

LEMMA HostRests ==
  ASSUME HostInv, UNCHANGED <<scm, host, client, policy, desktop>>
  PROVE  HostInv'
BY DEF HostInv, HostTypes, ClientInv, RefusedInv

LEMMA HostNext ==
  ASSUME HostInv, Host!Next
  PROVE  HostInv'
<1>1. CASE \/ Host!Starts \/ Host!LoadsPolicy \/ Host!Connected \/ Host!StopsListening
           \/ Host!Accepts \/ Host!SessionEnds \/ Host!SessionHangs \/ Host!StopRequested
           \/ Host!StopTimesOut \/ Host!Killed \/ Host!PolicyChanges \/ Host!OtherConnects
  BY <1>1, ServiceStepsSound
<1>2. CASE Host!Rejects \/ Host!BeginsLaunch \/ Host!Queries \/ Host!Dials \/ Host!Greets
  BY <1>2, RejectsSound, BeginsLaunchSound, QueriesSound, DialsSound, GreetsSound
<1>3. CASE Host!GreetingFails \/ Host!Disconnects
  BY <1>3, LeavesSound
<1>4. CASE \/ Host!LaunchFails \/ Host!StaysDown \/ Host!FallsBack \/ Host!TrustsPath
           \/ Host!Elevates \/ Host!CoreConnects \/ Host!DesktopRefuses \/ Host!Answers
           \/ Host!CoreGreets \/ Host!Abandons
  BY <1>4, DesktopStepsSound
<1>5. CASE Host!CoreRefuses \/ Host!CoreTimesOut \/ Host!CoreEnds \/ Host!CoreDies
  BY <1>5, HostRests
     DEF Host!CoreRefuses, Host!CoreTimesOut, Host!CoreEnds, Host!CoreDies, Host!serviceVars
<1>. QED BY <1>1, <1>2, <1>3, <1>4, <1>5 DEF Host!Next, Host!HostStep

\* A service that refused this desktop is not got around by a Core the desktop
\* elevates, however often services and launches begin (service_windows.go:117-120).
THEOREM RefusalKept == LinkSpec => []RefusalStands
<1>1. LinkInit => HostInv
  BY HostInit DEF LinkInit
<1>2. HostInv /\ [LinkNext]_allVars => HostInv'
  BY HostNext, HostRests DEF LinkNext, allVars, hostVars
<1>3. HostInv => RefusalStands
  BY DEF HostInv, RefusedInv, FallenBack, RefusalStands, Host!RefusalStands, Host!NoPid,
         Host!Running
<1>. QED BY <1>1, <1>2, <1>3, PTL DEF LinkSpec
=============================================================================
