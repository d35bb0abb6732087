---------------------------- MODULE ProxySessions ----------------------------
(***************************************************************************)
(* The TCP side of the proxy of the Core (engine/internal/proxy: server.go,*)
(* registry.go, http.go, socks.go): listeners, the sessions of the clients *)
(* and the two goroutines that relay each of them, and Stop, which closes  *)
(* what the registry knows of and waits for the rest.                      *)
(*                                                                         *)
(* A session is a tunnel (SOCKS, CONNECT), that ends as its peers do, or   *)
(* one HTTP exchange, that the Core frames itself and ends by deadlines it *)
(* sets on the connections. What the peers send is left to them, and which *)
(* link a session dials through is the subject of AdapterPool.             *)
(***************************************************************************)
EXTENDS Naturals

CONSTANT Sessions

VARIABLES
  server,     \* running, and the steps of Stop
  listening,
  ctxLive,    \* the context of the server
  session,    \* what each session does
  conn,       \* its two connections
  late        \* history: sessions that had dialled, but not attached, at CloseAll

vars == <<server, listening, ctxLive, session, conn, late>>

NoSession == [at |-> "none", kind |-> "tunnel", upgrade |-> FALSE, registered |-> FALSE,
              up |-> "idle", down |-> "idle", decision |-> "none"]

\* cutRead, upCutRead and upCutWrite: a deadline that has passed.
NoConn == [client |-> "none", upstream |-> "none", attached |-> FALSE,
           cutRead |-> FALSE, upCutRead |-> FALSE, upCutWrite |-> FALSE]

TypeOK ==
  /\ server \in {"new", "running", "flagged", "closed", "waiting", "stopped", "timedOut"}
  /\ listening \in BOOLEAN /\ ctxLive \in BOOLEAN
  /\ session \in [Sessions ->
       [at : {"none", "accepted", "request", "dial", "dialed", "reply", "relay", "ending",
              "finished", "over"},
        kind : {"tunnel", "http"}, upgrade : BOOLEAN, registered : BOOLEAN,
        up : {"idle", "send", "await", "tunnel", "end"},
        down : {"idle", "head", "answer", "body", "tunnel", "end"},
        decision : {"none", "yes", "no"}]]
  /\ conn \in [Sessions ->
       [client : {"none", "open", "gone", "closed"}, upstream : {"none", "open", "gone", "closed"},
        attached : BOOLEAN, cutRead : BOOLEAN, upCutRead : BOOLEAN, upCutWrite : BOOLEAN]]
  /\ late \subseteq Sessions

At(s, step) == session[s].at = step
GoTo(s, step) == session' = [session EXCEPT ![s].at = step]
ClientHere(s)   == conn[s].client = "open"
UpstreamHere(s) == conn[s].upstream = "open"
StopsHere == <<server, listening, ctxLive, late>>

-----------------------------------------------------------------------------
(* The server.                                                             *)

\* Start, startChannelListeners: a port that cannot be had undoes it.
Start ==
  /\ server = "new"
  /\ \/ server' = "running" /\ listening' = TRUE /\ ctxLive' = TRUE
     \/ UNCHANGED <<server, listening, ctxLive>>
  /\ UNCHANGED <<session, conn, late>>

\* Stop: running is reset and the context cancelled under the mutex.
StopFlag ==
  /\ server = "running"
  /\ server' = "flagged" /\ ctxLive' = FALSE
  /\ UNCHANGED <<listening, session, conn, late>>

StopListening ==
  /\ server = "flagged"
  /\ server' = "closed" /\ listening' = FALSE
  /\ UNCHANGED <<ctxLive, session, conn, late>>

\* registry.CloseAll: every registered session, with the upstream it has by now.
CloseAll ==
  /\ server = "closed"
  /\ server' = "waiting"
  /\ conn' = [s \in Sessions |->
       IF ~session[s].registered THEN conn[s]
       ELSE [conn[s] EXCEPT !.client = "closed",
                            !.upstream = IF conn[s].attached THEN "closed" ELSE @]]
  /\ late' = {s \in Sessions : At(s, "dialed")}
  /\ UNCHANGED <<listening, ctxLive, session>>

AllOver == \A s \in Sessions : session[s].at \in {"none", "over"}

StopReturns ==
  /\ server = "waiting"
  /\ server' = IF AllOver THEN "stopped" ELSE "timedOut"
  /\ UNCHANGED <<listening, ctxLive, session, conn, late>>

-----------------------------------------------------------------------------
(* A session up to its relay.                                              *)

Accept(s) ==
  /\ listening /\ At(s, "none")
  /\ GoTo(s, "accepted")
  /\ conn' = [conn EXCEPT ![s].client = "open"]
  /\ UNCHANGED StopsHere

\* Defect: the accept loop does not look at running.
BeginAnyway == TRUE

\* Under the read lock: what is registered is registered before Stop's CloseAll.
MayBegin == server = "running"

Begin(s) ==
  /\ At(s, "accepted")
  /\ IF MayBegin
     THEN /\ session' = [session EXCEPT ![s].at = "request", ![s].registered = TRUE]
          /\ UNCHANGED conn
     ELSE /\ GoTo(s, "over")
          /\ conn' = [conn EXCEPT ![s].client = "closed"]
  /\ UNCHANGED StopsHere

\* handleSOCKS, handleHTTP: the request is understood,
Request(s) == \E kind \in {"tunnel", "http"}, upgrade \in BOOLEAN :
  /\ At(s, "request") /\ ClientHere(s)
  /\ kind = "tunnel" => ~upgrade
  /\ session' = [session EXCEPT ![s].at = "dial", ![s].kind = kind, ![s].upgrade = upgrade]
  /\ UNCHANGED <<StopsHere, conn>>

\* or not, or the client has gone, or takes more than the time for a header.
RequestFails(s) ==
  /\ At(s, "request")
  /\ GoTo(s, "ending")
  /\ UNCHANGED <<StopsHere, conn>>

Dialed(s) ==
  /\ At(s, "dial") /\ ctxLive
  /\ GoTo(s, "dialed")
  /\ conn' = [conn EXCEPT ![s].upstream = "open"]
  /\ UNCHANGED StopsHere

DialFails(s) ==
  /\ At(s, "dial")
  /\ GoTo(s, "ending")
  /\ UNCHANGED <<StopsHere, conn>>

\* registry.Attach, AttachDirect
Attach(s) ==
  /\ At(s, "dialed")
  /\ GoTo(s, "reply")
  /\ conn' = [conn EXCEPT ![s].attached = TRUE]
  /\ UNCHANGED StopsHere

\* A tunnel is confirmed to its client first; then the relay starts.
Reply(s) ==
  LET tunnel == session[s].kind = "tunnel"
      refused == tunnel /\ ~ClientHere(s) IN
  /\ At(s, "reply")
  /\ session' = [session EXCEPT ![s] =
       IF refused THEN [@ EXCEPT !.at = "ending"]
       ELSE [@ EXCEPT !.at = "relay", !.up = IF tunnel THEN "tunnel" ELSE "send",
                                      !.down = IF tunnel THEN "tunnel" ELSE "head"]]
  /\ conn' = IF refused THEN [conn EXCEPT ![s].upstream = "closed"] ELSE conn
  /\ UNCHANGED StopsHere

-----------------------------------------------------------------------------
(* The relay: up and down are goroutines of their own.                     *)

Up(s, step)   == At(s, "relay") /\ session[s].up = step
Down(s, step) == At(s, "relay") /\ session[s].down = step
CanReadClient(s)    == ClientHere(s) /\ ~conn[s].cutRead
CanReadUpstream(s)  == UpstreamHere(s) /\ ~conn[s].upCutRead
CanWriteUpstream(s) == UpstreamHere(s) /\ ~conn[s].upCutWrite

\* Request.Write: the request has been sent with its body, or
UpSent(s) ==
  /\ Up(s, "send") /\ CanWriteUpstream(s)
  /\ session' = [session EXCEPT ![s].up = "await"]
  /\ UNCHANGED <<StopsHere, conn>>

\* reading the body or writing it fails, and the download must not wait.
UpFails(s) ==
  /\ Up(s, "send")
  /\ ~CanReadClient(s) \/ ~CanWriteUpstream(s)
  /\ session' = [session EXCEPT ![s].up = "end"]
  /\ conn' = [conn EXCEPT ![s].cutRead = TRUE, ![s].upCutRead = TRUE]
  /\ UNCHANGED StopsHere

UpDecided(s) ==
  /\ Up(s, "await") /\ session[s].decision # "none"
  /\ session' = [session EXCEPT ![s].up =
       IF session[s].decision = "yes" /\ session[s].upgrade THEN "tunnel" ELSE "end"]
  /\ UNCHANGED <<StopsHere, conn>>

\* Bytes are copied until the client ends, or the upstream does not take them.
UpTunnelEnds(s) ==
  /\ Up(s, "tunnel")
  /\ ~CanReadClient(s) \/ ~CanWriteUpstream(s)
  /\ session' = [session EXCEPT ![s].up = "end"]
  /\ UNCHANGED <<StopsHere, conn>>

\* The deferred end of a download: "must not wait for the client to send more
\* request body bytes". answer: the write to the client failed, and the
\* upstream is closed.
DownEnds(s, answer) ==
  /\ session' = [session EXCEPT ![s].down = "end",
                   ![s].decision = IF @ = "none" THEN "no" ELSE @]
  /\ conn' = [conn EXCEPT ![s].cutRead = TRUE, ![s].upCutWrite = TRUE,
                          ![s].upstream = IF answer = "lost" THEN "closed" ELSE @]

\* A header: an interim response, a final one, or the switch of protocols.
DownHeader(s) ==
  /\ Down(s, "head") /\ CanReadUpstream(s)
  /\ session' = [session EXCEPT ![s].down = "answer"]
  /\ UNCHANGED <<StopsHere, conn>>

\* An upgrade nobody asked for, a bad header, or none.
DownFails(s) ==
  /\ Down(s, "head")
  /\ DownEnds(s, "given")
  /\ UNCHANGED StopsHere

\* The header is written first.
DownAnswers(s) ==
  /\ Down(s, "answer") /\ ClientHere(s)
  /\ session' \in {[session EXCEPT ![s].down = "head"], [session EXCEPT ![s].down = "body"]}
       \cup (IF session[s].upgrade
             THEN {[session EXCEPT ![s].down = "tunnel", ![s].decision = "yes"]} ELSE {})
  /\ UNCHANGED <<StopsHere, conn>>

\* Once the client does not take the answer its body is not drained.
DownLost(s) ==
  /\ Down(s, "answer") \/ Down(s, "body")
  /\ ~ClientHere(s)
  /\ DownEnds(s, "lost")
  /\ UNCHANGED StopsHere

DownComplete(s) ==
  /\ Down(s, "body")
  /\ DownEnds(s, "given")
  /\ UNCHANGED StopsHere

DownTunnelEnds(s) ==
  /\ Down(s, "tunnel")
  /\ ~CanReadUpstream(s) \/ ~ClientHere(s)
  /\ IF session[s].kind = "http" THEN DownEnds(s, "given")
     ELSE session' = [session EXCEPT ![s].down = "end"] /\ UNCHANGED conn
  /\ UNCHANGED StopsHere

RelayEnds(s) ==
  /\ Up(s, "end") /\ Down(s, "end")
  /\ GoTo(s, "ending")
  /\ conn' = [conn EXCEPT ![s].upstream = "closed"]
  /\ UNCHANGED StopsHere

\* registry.Finish
Finish(s) ==
  /\ At(s, "ending")
  /\ session' = [session EXCEPT ![s].at = "finished", ![s].registered = FALSE]
  /\ UNCHANGED <<StopsHere, conn>>

Done(s) ==
  /\ At(s, "finished")
  /\ GoTo(s, "over")
  /\ conn' = [conn EXCEPT ![s].client = "closed"]
  /\ UNCHANGED StopsHere

ClientLeaves(s) ==
  /\ ClientHere(s)
  /\ conn' = [conn EXCEPT ![s].client = "gone"]
  /\ UNCHANGED <<StopsHere, session>>

UpstreamLeaves(s) ==
  /\ UpstreamHere(s)
  /\ conn' = [conn EXCEPT ![s].upstream = "gone"]
  /\ UNCHANGED <<StopsHere, session>>

-----------------------------------------------------------------------------
Init ==
  /\ server = "new" /\ listening = FALSE /\ ctxLive = FALSE
  /\ session = [s \in Sessions |-> NoSession]
  /\ conn = [s \in Sessions |-> NoConn]
  /\ late = {}

ServerStep == Start \/ StopFlag \/ StopListening \/ CloseAll \/ StopReturns

\* Up to the relay a session waits for its client and for the network.
Opening(s) ==
  \/ Accept(s) \/ Begin(s) \/ Request(s) \/ RequestFails(s) \/ Dialed(s) \/ DialFails(s)
  \/ Attach(s) \/ Reply(s)

Relaying(s) ==
  \/ UpSent(s) \/ UpFails(s) \/ UpDecided(s) \/ UpTunnelEnds(s)
  \/ DownHeader(s) \/ DownFails(s) \/ DownAnswers(s) \/ DownLost(s) \/ DownComplete(s)
  \/ DownTunnelEnds(s) \/ RelayEnds(s) \/ Finish(s) \/ Done(s)

Peers(s) == ClientLeaves(s) \/ UpstreamLeaves(s)

Next ==
  \/ ServerStep
  \/ \E s \in Sessions : Opening(s) \/ Relaying(s) \/ Peers(s)

Spec == Init /\ [][Next]_vars

-----------------------------------------------------------------------------
\* After CloseAll every session has lost its client, whenever its connection
\* was accepted, and its upstream too, but for a session that had dialled and
\* not attached yet, which CloseAll could not know of; and a Stop that reports
\* success leaves no connection and no goroutine (server.go:236-268).
StopReachesSessions ==
  server \in {"waiting", "stopped", "timedOut"} =>
    /\ ~listening
    /\ \A s \in Sessions :
         /\ session[s].at \notin {"none", "accepted", "finished"} => ~ClientHere(s)
         /\ UpstreamHere(s) => s \in late
         /\ server = "stopped" => session[s].at \in {"none", "over"} /\ ~session[s].registered
=============================================================================
