---------------------------- MODULE UdpAssociation ----------------------------
(***************************************************************************)
(* A SOCKS UDP association of the proxy (engine/internal/proxy/udp.go): the*)
(* goroutine that serves the datagrams of the client, which opens a flow to*)
(* each destination, a goroutine of each flow that returns its answers, and*)
(* the watcher of the TCP connection that keeps the association alive.     *)
(*                                                                         *)
(* A flow is closed by whoever finds it useless: serve, its own receiver or*)
(* the end of the association. The first to come does it, in three steps,  *)
(* and the others wait for it. The time a flow has been silent or idle is a*)
(* choice; Flows bounds the flows of a behaviour.                          *)
(***************************************************************************)
EXTENDS Naturals, FiniteSets

CONSTANTS Addrs, Ports, Adapters, Flows, FlowLimit, None

VARIABLES
  control, ctxLive,  \* the TCP connection of the client; the context of the server
  relay,             \* the socket the client sends to is open
  lockedPort,        \* of the client, from its first datagram on
  serve,             \* what the serving goroutine does
  table,             \* the flow of each destination
  flow,
  swept              \* registry.CloseAll has run

vars == <<control, ctxLive, relay, lockedPort, serve, table, flow, swept>>

Job(step, a, f, excluded, tries) ==
  [at |-> step, addr |-> a, flow |-> f, excluded |-> excluded, tries |-> tries]
NoJob == Job("read", None, None, {}, 0)
NoFlow == [stage |-> "none", addr |-> None, adapter |-> None, port |-> None,
           open |-> FALSE, silent |-> FALSE, idle |-> FALSE, counted |-> FALSE]

TypeOK ==
  /\ control \in BOOLEAN /\ ctxLive \in BOOLEAN /\ relay \in BOOLEAN /\ swept \in BOOLEAN
  /\ lockedPort \in Ports \cup {None}
  /\ serve \in [at : {"read", "retire", "fail", "dial", "insert", "ended", "closing", "over"},
                addr : Addrs \cup {None}, flow : Flows \cup {None},
                excluded : SUBSET Adapters, tries : 0..2]
  /\ table \in [Addrs -> Flows \cup {None}]
  /\ flow \in [Flows ->
       [stage : {"none", "created", "open", "closing", "cut", "removed", "finished"},
        addr : Addrs \cup {None}, adapter : Adapters \cup {None}, port : Ports \cup {None},
        open : BOOLEAN, silent : BOOLEAN, idle : BOOLEAN, counted : BOOLEAN]]

Serving(step) == serve.at = step
Entries == {a \in Addrs : table[a] # None}
Closed(f) == flow[f].stage = "finished"
Socket == <<control, ctxLive, relay, swept>>

-----------------------------------------------------------------------------
(* A flow.                                                                 *)

\* closeOnce: the first closes, whoever else calls close waits.
Closing(f) == [flow EXCEPT ![f].stage = IF @ = "open" THEN "closing" ELSE @]

\* Defect: the entry goes before the connection.
CloseForgotFirst(f) ==
  /\ \/ /\ flow[f].stage = "closing"
        /\ flow' = [flow EXCEPT ![f].stage = "cut"]
        /\ table' = [a \in Addrs |-> IF table[a] = f THEN None ELSE table[a]]
     \/ /\ flow[f].stage = "cut"
        /\ flow' = [flow EXCEPT ![f].stage = "removed", ![f].open = FALSE]
        /\ UNCHANGED table
     \/ /\ flow[f].stage = "removed"
        /\ flow' = [flow EXCEPT ![f].stage = "finished", ![f].counted = FALSE]
        /\ UNCHANGED table
  /\ UNCHANGED <<Socket, lockedPort, serve>>

\* The lease and the connection, the entry if it is this flow's, the registry.
Close(f) ==
  /\ \/ /\ flow[f].stage = "closing"
        /\ flow' = [flow EXCEPT ![f].stage = "cut", ![f].open = FALSE]
        /\ UNCHANGED table
     \/ /\ flow[f].stage = "cut"
        /\ flow' = [flow EXCEPT ![f].stage = "removed"]
        /\ table' = [a \in Addrs |-> IF table[a] = f THEN None ELSE table[a]]
     \/ /\ flow[f].stage = "removed"
        /\ flow' = [flow EXCEPT ![f].stage = "finished", ![f].counted = FALSE]
        /\ UNCHANGED table
  /\ UNCHANGED <<Socket, lockedPort, serve>>

\* The receive loop: an answer is passed on, and the flow is in use. Once the
\* relay is closed it cannot be, which ends the flow.
Answer(f) ==
  /\ flow[f].stage = "open" /\ flow[f].open
  /\ flow' = IF relay THEN [flow EXCEPT ![f].silent = FALSE, ![f].idle = FALSE]
             ELSE Closing(f)
  /\ UNCHANGED <<Socket, lockedPort, serve, table>>

\* Its read fails, or finds at a deadline that nobody used the flow.
ReceiveEnds(f) ==
  /\ flow[f].stage = "open"
  /\ flow' = Closing(f)
  /\ UNCHANGED <<Socket, lockedPort, serve, table>>

TimePasses(f) ==
  /\ flow[f].stage = "open"
  /\ \/ ~flow[f].silent /\ flow' = [flow EXCEPT ![f].silent = TRUE]
     \/ flow[f].silent /\ ~flow[f].idle /\ flow' = [flow EXCEPT ![f].idle = TRUE]
  /\ UNCHANGED <<Socket, lockedPort, serve, table>>

-----------------------------------------------------------------------------
(* The serving goroutine.                                                  *)

\* Another address, what is not a datagram of SOCKS, and another port are
\* dropped; the first port that sends a datagram is the one.
Mine(port) == lockedPort \in {None, port}

\* forward to a flow there is: it is written to, or, if it is silent and the
\* probes say so, retired; a datagram that was written is never sent again.
Forward(a, port) ==
  /\ Serving("read") /\ control /\ ctxLive /\ relay /\ Mine(port)
  /\ table[a] # None
  /\ lockedPort' = port
  /\ LET f == table[a] IN
     \/ /\ flow[f].open
        /\ flow' = [flow EXCEPT ![f].idle = FALSE]
        /\ UNCHANGED serve
     \/ /\ flow' = Closing(f)
        /\ serve' = Job("fail", None, f, {}, 0)
     \/ /\ flow[f].silent
        /\ flow' = Closing(f)
        /\ serve' = Job("retire", a, f, {flow[f].adapter}, 0)
  /\ UNCHANGED <<Socket, table>>

Room == Cardinality(Entries) < FlowLimit
Attempts(excluded) == IF Cardinality(Adapters \ excluded) > 2 THEN 2
                      ELSE Cardinality(Adapters \ excluded)
Dialling(a, excluded) == Job("dial", a, None, excluded, Attempts(excluded))

\* forward to a new destination; unsupported or cooling families are excluded.
Open(a, port, unfit) ==
  /\ Serving("read") /\ control /\ ctxLive /\ relay /\ Mine(port)
  /\ table[a] = None
  /\ lockedPort' = port
  /\ serve' = IF Room THEN Dialling(a, unfit) ELSE serve
  /\ UNCHANGED <<Socket, table, flow>>

\* flow.close has returned.
CloseReturns ==
  /\ serve.at \in {"retire", "fail"} /\ Closed(serve.flow)
  /\ serve' = IF Serving("retire") /\ Room THEN Dialling(serve.addr, serve.excluded) ELSE NoJob
  /\ UNCHANGED <<Socket, lockedPort, table, flow>>

\* createFlow, one adapter: the translation, the bind, the dial or the first
\* write fails, and the next adapter is tried.
AttemptFails(ad) ==
  /\ Serving("dial") /\ serve.tries > 0 /\ ad \in Adapters \ serve.excluded
  /\ serve' = [serve EXCEPT !.excluded = @ \cup {ad}, !.tries = @ - 1]
  /\ UNCHANGED <<Socket, lockedPort, table, flow>>

GivesUp ==
  /\ Serving("dial")
  /\ serve' = NoJob
  /\ UNCHANGED <<Socket, lockedPort, table, flow>>

\* The flow is leased, and in the registry, before it is in the table.
Dialed(ad, f) ==
  /\ Serving("dial") /\ serve.tries > 0 /\ ad \in Adapters \ serve.excluded /\ ctxLive
  /\ flow[f].stage = "none" /\ lockedPort # None
  /\ flow' = [flow EXCEPT ![f] = [NoFlow EXCEPT !.stage = "created", !.addr = serve.addr,
                !.adapter = ad, !.port = lockedPort, !.open = TRUE, !.counted = TRUE]]
  /\ serve' = Job("insert", None, f, {}, 0)
  /\ UNCHANGED <<Socket, lockedPort, table>>

\* Only this goroutine inserts and closes the table: the code's second look at
\* it finds what the first did.
Insert ==
  /\ Serving("insert")
  /\ table' = [table EXCEPT ![flow[serve.flow].addr] = serve.flow]
  /\ flow' = [flow EXCEPT ![serve.flow].stage = "open"]
  /\ serve' = NoJob
  /\ UNCHANGED <<Socket, lockedPort>>

\* The control connection or the server has ended, or the relay is closed: the
\* loop looks at every datagram and every sweep interval.
ServeEnds ==
  /\ Serving("read")
  /\ ~control \/ ~ctxLive \/ ~relay
  /\ serve' = Job("ended", None, None, {}, 0)
  /\ UNCHANGED <<Socket, lockedPort, table, flow>>

\* The deferred close of the association: the flows of the table, one by one.
CloseFlows ==
  /\ Serving("ended")
  /\ relay' = FALSE
  /\ serve' = [serve EXCEPT !.at = "closing"]
  /\ flow' = [f \in Flows |-> IF flow[f].stage = "open" THEN Closing(f)[f] ELSE flow[f]]
  /\ UNCHANGED <<control, ctxLive, swept, lockedPort, table>>

AssociationOver ==
  /\ Serving("closing") /\ Entries = {}
  /\ serve' = [serve EXCEPT !.at = "over"]
  /\ UNCHANGED <<Socket, lockedPort, table, flow>>

-----------------------------------------------------------------------------
(* Around it.                                                              *)

ControlEnds == control /\ control' = FALSE
               /\ UNCHANGED <<ctxLive, relay, swept, lockedPort, serve, table, flow>>

ServerStops == ctxLive /\ ctxLive' = FALSE
               /\ UNCHANGED <<control, relay, swept, lockedPort, serve, table, flow>>

\* registry.CloseAll: the client of a flow is the relay.
CloseAll ==
  /\ ~ctxLive /\ ~swept
  /\ swept' = TRUE /\ control' = FALSE
  /\ relay' = (relay /\ \A f \in Flows : ~flow[f].counted)
  /\ flow' = [f \in Flows |-> IF flow[f].counted THEN [flow[f] EXCEPT !.open = FALSE] ELSE flow[f]]
  /\ UNCHANGED <<ctxLive, lockedPort, serve, table>>

Watch ==
  /\ relay /\ (~control \/ ~ctxLive)
  /\ relay' = FALSE
  /\ UNCHANGED <<control, ctxLive, swept, lockedPort, serve, table, flow>>

Init ==
  /\ control = TRUE /\ ctxLive = TRUE /\ relay = TRUE /\ swept = FALSE
  /\ lockedPort = None /\ serve = NoJob
  /\ table = [a \in Addrs |-> None]
  /\ flow = [f \in Flows |-> NoFlow]

Serve ==
  \/ \E a \in Addrs, port \in Ports : Forward(a, port) \/ \E unfit \in SUBSET Adapters : Open(a, port, unfit)
  \/ CloseReturns \/ (\E ad \in Adapters : AttemptFails(ad) \/ \E f \in Flows : Dialed(ad, f))
  \/ GivesUp \/ Insert \/ ServeEnds \/ CloseFlows \/ AssociationOver

Next ==
  \/ Serve \/ ControlEnds \/ ServerStops \/ CloseAll \/ Watch
  \/ \E f \in Flows : Close(f) \/ Answer(f) \/ ReceiveEnds(f) \/ TimePasses(f)

Spec == Init /\ [][Next]_vars

-----------------------------------------------------------------------------
\* However its receiver, the serving goroutine and the end of the association
\* close a flow, no more connections are open than the limit allows, two never
\* lead to one destination, and none is left once the association is over
\* (udp.go:197-258, 523-552: a closing flow frees its place in the table only
\* after it has closed its connection).
ConnectionsAreAccounted ==
  LET live == {f \in Flows : flow[f].open} IN
  /\ Cardinality(live) <= FlowLimit
  /\ \A f, g \in live : flow[f].addr = flow[g].addr => f = g
  /\ Serving("over") => live = {}
=============================================================================
