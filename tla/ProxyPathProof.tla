----------------------------- MODULE ProxyPathProof -----------------------------
(***************************************************************************)
(* Proofs about the parts of the proxy that serve flows, each by an        *)
(* inductive invariant over its own variables, which the steps of the      *)
(* others leave alone; for any number of sessions, flows, lookups,         *)
(* addresses, jobs and adapters, and any value of their limits.            *)
(*                                                                         *)
(* UdpAssociation: an open connection is listed in the table under its own *)
(* address, or is the one the serving goroutine is about to list (Placed). *)
(* As only that goroutine lists, what it found when it looked at the table *)
(* is still so when it inserts (JobInv).                                   *)
(*                                                                         *)
(* ProxySessions: the registry knows a session from its request to its end *)
(* (Registered), so that all Stop leaves behind is of late sessions        *)
(* (Cleared).                                                              *)
(*                                                                         *)
(* DnsResolver: who waits for a lookup waits for one of its own name that  *)
(* counts it (WaitInv), and only the lookup in flight may be joined        *)
(* (FlightInv).                                                            *)
(*                                                                         *)
(* SteamCdn: the counters are the cardinalities of the sets of sessions and*)
(* jobs of this generation (CountInv, ProbeInv), and what a session has of *)
(* upstreams follows from where it is (TransferInv).                       *)
(*                                                                         *)
(* MCScheduler: the credits of the links cancel each other out, so that    *)
(* with at most three of them what one may take follows from what the third*)
(* may owe (CreditInv, OneRound); for any weights.                         *)
(***************************************************************************)
EXTENDS MCProxy, FiniteSetTheorems, TLAPS

-----------------------------------------------------------------------------
(* UdpAssociation: the inductive invariant, in named parts.                *)

\* What is assumed of the constants of an association.
Sound == None \notin Flows /\ FlowLimit \in Nat /\ IsFiniteSet(Adapters)

UdpJobs == [at : {"read", "retire", "fail", "dial", "insert", "ended", "closing", "over"},
            addr : Addrs \cup {None}, flow : Flows \cup {None},
            excluded : SUBSET (Adapters \cup {None}), tries : Nat]
UdpFlow == [stage : {"none", "created", "open", "closing", "cut", "removed", "finished"},
            addr : Addrs \cup {None}, adapter : Adapters \cup {None}, port : Ports \cup {None},
            open : BOOLEAN, silent : BOOLEAN, idle : BOOLEAN, counted : BOOLEAN]
UdpTypes == /\ table \in [Addrs -> Flows \cup {None}]
            /\ flow \in [Flows -> UdpFlow] /\ serve \in UdpJobs
            /\ lockedPort \in Ports \cup {None}

\* An open connection has its entry, or is about to get it.
Placed == \A f \in Flows : flow[f].open =>
            \/ flow[f].stage \in {"open", "closing"} /\ flow[f].addr \in Addrs /\ table[flow[f].addr] = f
            \/ flow[f].stage = "created" /\ Serving("insert") /\ serve.flow = f

\* An entry is that of a flow to its address which is not over.
Listed == \A a \in Addrs : table[a] # None =>
            flow[table[a]].addr = a /\ flow[table[a]].stage \in {"open", "closing", "cut"}

\* What the serving goroutine relies on at each point.
JobInv ==
  /\ Serving("retire") => /\ serve.flow \in Flows /\ serve.addr \in Addrs
                          /\ table[serve.addr] \in {serve.flow, None}
  /\ Serving("dial") => serve.addr \in Addrs /\ table[serve.addr] = None /\ Room
  /\ Serving("insert") => /\ serve.flow \in Flows /\ flow[serve.flow].stage = "created"
                          /\ flow[serve.flow].addr \in Addrs
                          /\ table[flow[serve.flow].addr] = None /\ Room
  /\ Serving("over") => Entries = {}
Bounded == IsFiniteSet(Entries) /\ Cardinality(Entries) <= FlowLimit
UdpInv == UdpTypes /\ Placed /\ Listed /\ JobInv /\ Bounded

-----------------------------------------------------------------------------
\* The connections that are open are as many places: those of the table, and
\* one more that there is room for.
LEMMA PlacesSuffice ==
  ASSUME Sound, UdpInv
  PROVE  ConnectionsAreAccounted
<1> DEFINE live == {f \in Flows : flow[f].open}
           places == IF Serving("insert") THEN Entries \cup {flow[serve.flow].addr} ELSE Entries
           place == [f \in live |-> flow[f].addr]
<1>1. \A f \in live : flow[f].addr \in places
  BY DEF Sound, UdpInv, UdpTypes, Placed, Entries
<1>2. \A f, g \in live : flow[f].addr = flow[g].addr => f = g
  BY DEF Sound, UdpInv, Placed, JobInv
<1>3. IsFiniteSet(places) /\ Cardinality(places) <= FlowLimit /\ Cardinality(places) \in Nat
  <2>1. CASE ~Serving("insert") BY <2>1, FS_CardinalityType DEF UdpInv, Bounded
  <2>2. CASE Serving("insert")
    <3>1. IsFiniteSet(Entries) /\ Cardinality(Entries) < FlowLimit /\ Cardinality(Entries) \in Nat
      BY <2>2, FS_CardinalityType DEF UdpInv, Bounded, JobInv, Room
    <3>2. IsFiniteSet(places) /\ Cardinality(places) \in {Cardinality(Entries), Cardinality(Entries) + 1}
      BY <2>2, <3>1, FS_AddElement
    <3> QED BY <3>1, <3>2 DEF Sound
  <2> QED BY <2>1, <2>2
<1>4. Cardinality(live) <= FlowLimit
  <2>1. place \in Injection(live, places) BY <1>1, <1>2 DEF Injection, IsInjective
  <2>2. IsFiniteSet(live) /\ Cardinality(live) <= Cardinality(places) BY <1>3, <2>1, FS_Injection
  <2>3. Cardinality(live) \in Nat BY <2>2, FS_CardinalityType
  <2> QED BY <1>3, <2>2, <2>3 DEF Sound
<1>5. Serving("over") => live = {}
  BY DEF Sound, UdpInv, UdpTypes, Placed, JobInv, Entries, Serving
<1> QED BY <1>2, <1>4, <1>5 DEF ConnectionsAreAccounted

\* A smaller table keeps its bounds.
LEMMA FewerEntries ==
  ASSUME Sound, Bounded, Entries' \subseteq Entries
  PROVE  Bounded' /\ (Room => Room')
<1>1. /\ IsFiniteSet(Entries') /\ Cardinality(Entries') <= Cardinality(Entries)
  BY FS_Subset DEF Bounded
<1>2. Cardinality(Entries') \in Nat /\ Cardinality(Entries) \in Nat
  BY <1>1, FS_CardinalityType DEF Bounded
<1> QED BY <1>1, <1>2 DEF Bounded, Room, Sound

\* Flows that only begin to be closed, lose their connection or change their
\* marks: the table and the goroutine that serves stay.
LEMMA FlowsMove ==
  ASSUME Sound, UdpInv, UNCHANGED <<table, serve, lockedPort>>, flow' \in [Flows -> UdpFlow],
         \A f \in Flows :
           /\ flow'[f].addr = flow[f].addr
           /\ flow'[f].open => flow[f].open
           /\ \/ flow'[f].stage = flow[f].stage
              \/ flow[f].stage = "open" /\ flow'[f].stage = "closing"
  PROVE  UdpInv'
<1>1. UdpTypes' BY DEF UdpInv, UdpTypes
<1>2. Placed' BY DEF UdpInv, Placed, Serving
<1>3. Listed' BY DEF UdpInv, Listed, UdpTypes, Sound
<1>4. Entries' = Entries BY DEF Entries
<1>5. JobInv' BY <1>4 DEF UdpInv, JobInv, Serving, Room
<1>6. Bounded' BY <1>4 DEF UdpInv, Bounded
<1> QED BY <1>1, <1>2, <1>3, <1>5, <1>6 DEF UdpInv

\* The goroutine that serves moves to a point of which JobInv asks nothing.
LEMMA JobMoves ==
  ASSUME Sound, UdpInv, UNCHANGED <<table, flow>>, lockedPort' \in Ports \cup {None},
         serve' \in UdpJobs, ~Serving("insert"),
         serve'.at \in {"read", "fail", "ended", "closing"}
  PROVE  UdpInv'
<1>1. UdpTypes' BY DEF UdpInv, UdpTypes
<1>2. Placed' BY DEF UdpInv, Placed, Serving
<1>3. Listed' BY DEF UdpInv, Listed
<1>4. Entries' = Entries BY DEF Entries
<1>5. JobInv' BY DEF JobInv, Serving
<1>6. Bounded' BY <1>4 DEF UdpInv, Bounded
<1> QED BY <1>1, <1>2, <1>3, <1>5, <1>6 DEF UdpInv

-----------------------------------------------------------------------------
\* The three steps of a close: the connection goes first, then the entry, so that
\* what is open stays placed.
LEMMA CloseStep ==
  ASSUME Sound, UdpInv, NEW f \in Flows, Close(f)
  PROVE  UdpInv'
<1>1. /\ flow \in [Flows -> UdpFlow] /\ table \in [Addrs -> Flows \cup {None}] BY DEF UdpInv, UdpTypes
<1>2. UNCHANGED <<serve, lockedPort>> BY DEF Close
<1>3. CASE /\ flow[f].stage = "closing" /\ UNCHANGED table
           /\ flow' = [flow EXCEPT ![f].stage = "cut", ![f].open = FALSE]
  <2> DEFINE new == [flow[f] EXCEPT !.stage = "cut", !.open = FALSE]
  <2>0. new \in UdpFlow /\ new.stage = "cut" /\ new.addr = flow[f].addr /\ ~new.open
    <3>1. flow[f] \in UdpFlow BY <1>1
    <3> QED BY <3>1 DEF UdpFlow
  <2>new. flow' = [flow EXCEPT ![f] = new] BY <1>3
  <2> HIDE DEF new
  <2>1. /\ flow' \in [Flows -> UdpFlow] /\ flow'[f].stage = "cut" /\ ~flow'[f].open
        /\ flow'[f].addr = flow[f].addr /\ \A g \in Flows \ {f} : flow'[g] = flow[g]
    BY <1>1, <2>0, <2>new
  <2>2. UdpTypes' BY <1>2, <1>3, <2>1 DEF UdpInv, UdpTypes
  <2>3. Placed' BY <1>2, <1>3, <2>1 DEF UdpInv, Placed, Serving
  <2>4. Listed' BY <1>1, <1>3, <2>1 DEF UdpInv, Listed, Sound
  <2>5. Entries' = Entries BY <1>3 DEF Entries
  <2>6. JobInv' BY <1>2, <1>3, <2>1, <2>5 DEF UdpInv, JobInv, Serving, Room
  <2>7. Bounded' BY <2>5 DEF UdpInv, Bounded
  <2> QED BY <2>2, <2>3, <2>4, <2>6, <2>7 DEF UdpInv
<1>4. CASE /\ flow[f].stage = "cut"
           /\ flow' = [flow EXCEPT ![f].stage = "removed"]
           /\ table' = [a \in Addrs |-> IF table[a] = f THEN None ELSE table[a]]
  <2>1. /\ flow' \in [Flows -> UdpFlow] /\ flow'[f].stage = "removed" /\ flow'[f].open = flow[f].open
        /\ flow'[f].addr = flow[f].addr /\ \A g \in Flows \ {f} : flow'[g] = flow[g]
    BY <1>1, <1>4 DEF UdpFlow
  <2>2. /\ table' \in [Addrs -> Flows \cup {None}]
        /\ \A a \in Addrs : table'[a] = IF table[a] = f THEN None ELSE table[a]
    BY <1>1, <1>4
  <2>3. UdpTypes' BY <1>2, <2>1, <2>2 DEF UdpInv, UdpTypes
  <2>4. ~flow[f].open BY <1>4 DEF UdpInv, Placed
  <2>5. Placed' BY <1>2, <2>1, <2>2, <2>4 DEF UdpInv, Placed, Serving
  <2>6. Listed' BY <1>1, <2>1, <2>2 DEF UdpInv, Listed, Sound
  <2>7. Entries' \subseteq Entries BY <2>2 DEF Entries
  <2>8. Bounded' /\ (Room => Room') BY <2>7, FewerEntries DEF UdpInv
  <2>9. JobInv' BY <1>2, <1>4, <2>1, <2>2, <2>7, <2>8 DEF UdpInv, JobInv, Serving
  <2> QED BY <2>3, <2>5, <2>6, <2>8, <2>9 DEF UdpInv
<1>5. CASE /\ flow[f].stage = "removed" /\ UNCHANGED table
           /\ flow' = [flow EXCEPT ![f].stage = "finished", ![f].counted = FALSE]
  <2> DEFINE new == [flow[f] EXCEPT !.stage = "finished", !.counted = FALSE]
  <2>0. new \in UdpFlow /\ new.stage = "finished" /\ new.addr = flow[f].addr /\ new.open = flow[f].open
    <3>1. flow[f] \in UdpFlow BY <1>1
    <3> QED BY <3>1 DEF UdpFlow
  <2>new. flow' = [flow EXCEPT ![f] = new] BY <1>5
  <2> HIDE DEF new
  <2>1. /\ flow' \in [Flows -> UdpFlow] /\ flow'[f].stage = "finished" /\ flow'[f].open = flow[f].open
        /\ flow'[f].addr = flow[f].addr /\ \A g \in Flows \ {f} : flow'[g] = flow[g]
    BY <1>1, <2>0, <2>new
  <2>2. UdpTypes' BY <1>2, <1>5, <2>1 DEF UdpInv, UdpTypes
  <2>3. ~flow[f].open BY <1>5 DEF UdpInv, Placed
  <2>4. Placed' BY <1>2, <1>5, <2>1, <2>3 DEF UdpInv, Placed, Serving
  <2>5. Listed' BY <1>1, <1>5, <2>1 DEF UdpInv, Listed, Sound
  <2>6. Entries' = Entries BY <1>5 DEF Entries
  <2>7. JobInv' BY <1>2, <1>5, <2>1, <2>6 DEF UdpInv, JobInv, Serving, Room
  <2>8. Bounded' BY <2>6 DEF UdpInv, Bounded
  <2> QED BY <2>2, <2>4, <2>5, <2>7, <2>8 DEF UdpInv
<1> QED BY <1>3, <1>4, <1>5 DEF Close

\* closeOnce changes no address and opens nothing.
LEMMA ClosingIsMild ==
  ASSUME flow \in [Flows -> UdpFlow], NEW f \in Flows
  PROVE  /\ Closing(f) \in [Flows -> UdpFlow]
         /\ \A g \in Flows :
              /\ Closing(f)[g].addr = flow[g].addr /\ Closing(f)[g].open = flow[g].open
              /\ \/ Closing(f)[g].stage = flow[g].stage
                 \/ flow[g].stage = "open" /\ Closing(f)[g].stage = "closing"
  BY DEF Closing, UdpFlow

\* Answers and time only change the marks of a flow.
Marked(f, mark, idle) == {[flow EXCEPT ![f].silent = mark], [flow EXCEPT ![f].idle = mark],
                          [flow EXCEPT ![f].silent = mark, ![f].idle = idle]}

\* The marks change no address and open nothing.
LEMMA MarksAreMild ==
  ASSUME flow \in [Flows -> UdpFlow], NEW f \in Flows, NEW mark \in BOOLEAN, NEW idle \in BOOLEAN
  PROVE  \A marked \in Marked(f, mark, idle) :
           /\ marked \in [Flows -> UdpFlow]
           /\ \A g \in Flows : /\ marked[g].addr = flow[g].addr /\ marked[g].open = flow[g].open
                               /\ marked[g].stage = flow[g].stage
<1> DEFINE Mild(r) == r \in UdpFlow /\ r.addr = flow[f].addr /\ r.open = flow[f].open
                      /\ r.stage = flow[f].stage
<1>1. ASSUME NEW r, Mild(r)
      PROVE  /\ [flow EXCEPT ![f] = r] \in [Flows -> UdpFlow]
             /\ \A g \in Flows : /\ [flow EXCEPT ![f] = r][g].addr = flow[g].addr
                                 /\ [flow EXCEPT ![f] = r][g].open = flow[g].open
                                 /\ [flow EXCEPT ![f] = r][g].stage = flow[g].stage
  BY <1>1
<1>2. ASSUME NEW r, r \in UdpFlow, NEW b \in BOOLEAN
      PROVE  /\ [r EXCEPT !.silent = b] \in UdpFlow /\ [r EXCEPT !.idle = b] \in UdpFlow
             /\ \A m \in {[r EXCEPT !.silent = b], [r EXCEPT !.idle = b]} :
                  m.addr = r.addr /\ m.open = r.open /\ m.stage = r.stage
  BY <1>2 DEF UdpFlow
<1> DEFINE s == [flow[f] EXCEPT !.silent = mark]
           i == [flow[f] EXCEPT !.idle = mark]
           t == [s EXCEPT !.idle = idle]
<1>3. flow[f] \in UdpFlow OBVIOUS
<1>4. Mild(s) /\ Mild(i) BY <1>2, <1>3
<1>5. Mild(t)
  <2> HIDE DEF s
  <2> QED BY <1>2, <1>4
<1>6. /\ [flow EXCEPT ![f].silent = mark] = [flow EXCEPT ![f] = s]
      /\ [flow EXCEPT ![f].idle = mark] = [flow EXCEPT ![f] = i]
  OBVIOUS
<1>7. [flow EXCEPT ![f].silent = mark, ![f].idle = idle] = [flow EXCEPT ![f] = t] OBVIOUS
<1> HIDE DEF s, i, t
<1>8. [flow EXCEPT ![f] = s] \in [Flows -> UdpFlow] BY <1>1, <1>4
<1> QED BY <1>1, <1>4, <1>5, <1>6, <1>7 DEF Marked

\* The receiver of a flow, and time.
LEMMA FlowSteps ==
  ASSUME Sound, UdpInv, NEW f \in Flows, Answer(f) \/ ReceiveEnds(f) \/ TimePasses(f)
  PROVE  UdpInv'
<1>1. flow \in [Flows -> UdpFlow] BY DEF UdpInv, UdpTypes
<1>2. UNCHANGED <<table, serve, lockedPort>> BY DEF Answer, ReceiveEnds, TimePasses
<1>3. CASE flow' = Closing(f) BY <1>1, <1>2, <1>3, ClosingIsMild, FlowsMove
<1>4. CASE flow' = [flow EXCEPT ![f].silent = FALSE, ![f].idle = FALSE]
  <2>1. /\ flow' \in [Flows -> UdpFlow]
        /\ \A g \in Flows : /\ flow'[g].addr = flow[g].addr /\ flow'[g].open = flow[g].open
                            /\ flow'[g].stage = flow[g].stage
    <3>1. flow' \in Marked(f, FALSE, FALSE) BY <1>4 DEF Marked
    <3> QED BY <1>1, <3>1, MarksAreMild
  <2> QED BY <1>2, <2>1, FlowsMove
<1>5. CASE flow' = [flow EXCEPT ![f].silent = TRUE] \/ flow' = [flow EXCEPT ![f].idle = TRUE]
  <2>1. /\ flow' \in [Flows -> UdpFlow]
        /\ \A g \in Flows : /\ flow'[g].addr = flow[g].addr /\ flow'[g].open = flow[g].open
                            /\ flow'[g].stage = flow[g].stage
    <3>1. flow' \in Marked(f, TRUE, TRUE) BY <1>5 DEF Marked
    <3> QED BY <1>1, <3>1, MarksAreMild
  <2> QED BY <1>2, <2>1, FlowsMove
<1> QED BY <1>3, <1>4, <1>5 DEF Answer, ReceiveEnds, TimePasses

\* A datagram to a flow there is: the flow may begin to be closed, and the
\* goroutine waits for that.
LEMMA ForwardStep ==
  ASSUME Sound, UdpInv, NEW a \in Addrs, NEW port \in Ports, Forward(a, port)
  PROVE  UdpInv'
<1> DEFINE f == table[a]
<1>1. /\ flow \in [Flows -> UdpFlow] /\ f \in Flows /\ UNCHANGED table
      /\ Serving("read") /\ lockedPort' \in Ports \cup {None}
  BY DEF Forward, UdpInv, UdpTypes
<1>2. CASE flow' = [flow EXCEPT ![f].idle = FALSE] /\ UNCHANGED serve
  <2>1. /\ flow' \in [Flows -> UdpFlow]
        /\ \A g \in Flows : /\ flow'[g].addr = flow[g].addr /\ flow'[g].open = flow[g].open
                            /\ flow'[g].stage = flow[g].stage
    <3>1. flow' \in Marked(f, FALSE, FALSE) BY <1>2 DEF Marked
    <3> QED BY <1>1, <3>1, MarksAreMild
  <2>2. UdpTypes' BY <1>1, <1>2, <2>1 DEF UdpInv, UdpTypes
  <2>3. Placed' BY <1>1, <1>2, <2>1 DEF UdpInv, Placed, Serving
  <2>4. Listed' BY <1>1, <2>1 DEF UdpInv, Listed, UdpTypes, Sound
  <2>5. Entries' = Entries BY <1>1 DEF Entries
  <2>6. JobInv' BY <1>1, <1>2 DEF JobInv, Serving
  <2>7. Bounded' BY <2>5 DEF UdpInv, Bounded
  <2> QED BY <2>2, <2>3, <2>4, <2>6, <2>7 DEF UdpInv
<1>3. CASE /\ flow' = Closing(f)
           /\ \/ serve' = Job("fail", None, f, {}, 0)
              \/ serve' = Job("retire", a, f, {flow[f].adapter}, 0)
  <2>1. /\ flow' \in [Flows -> UdpFlow]
        /\ \A g \in Flows : /\ flow'[g].addr = flow[g].addr /\ flow'[g].open = flow[g].open
                            /\ \/ flow'[g].stage = flow[g].stage
                               \/ flow[g].stage = "open" /\ flow'[g].stage = "closing"
    BY <1>1, <1>3, ClosingIsMild
  <2>2. /\ serve' \in UdpJobs /\ serve'.at \in {"fail", "retire"}
        /\ serve'.at = "retire" => serve'.flow = f /\ serve'.addr = a
    <3>1. flow[f].adapter \in Adapters \cup {None} BY <1>1 DEF UdpFlow
    <3>2. {flow[f].adapter} \in SUBSET (Adapters \cup {None}) BY <3>1
    <3> QED BY <1>1, <1>3, <3>2 DEF Job, UdpJobs
  <2>3. UdpTypes' BY <1>1, <2>1, <2>2 DEF UdpInv, UdpTypes
  <2>4. Placed' BY <1>1, <2>1 DEF UdpInv, Placed, Serving
  <2>5. Listed' BY <1>1, <2>1 DEF UdpInv, Listed, UdpTypes, Sound
  <2>6. Entries' = Entries BY <1>1 DEF Entries
  <2>7. JobInv' BY <1>1, <2>2 DEF JobInv, Serving
  <2>8. Bounded' BY <2>6 DEF UdpInv, Bounded
  <2> QED BY <2>3, <2>4, <2>5, <2>7, <2>8 DEF UdpInv
<1>4. \/ flow' = [flow EXCEPT ![f].idle = FALSE] /\ UNCHANGED serve
      \/ flow' = Closing(f) /\ serve' = Job("fail", None, f, {}, 0)
      \/ flow' = Closing(f) /\ serve' = Job("retire", a, f, {flow[f].adapter}, 0)
  BY Zenon DEF Forward
<1> QED BY <1>2, <1>3, <1>4

-----------------------------------------------------------------------------
\* The goroutine that serves goes on to dial an address without an entry.
LEMMA DiallingStep ==
  ASSUME Sound, UdpInv, UNCHANGED <<table, flow>>, lockedPort' \in Ports \cup {None}, ~Serving("insert"),
         NEW a \in Addrs, table[a] = None, Room,
         NEW excluded \in SUBSET (Adapters \cup {None}), NEW tries \in Nat,
         serve' = Job("dial", a, None, excluded, tries)
  PROVE  UdpInv'
<1>1. serve' \in UdpJobs /\ serve'.at = "dial" /\ serve'.addr = a BY DEF UdpJobs, Job
<1>2. UdpTypes' BY <1>1 DEF UdpInv, UdpTypes
<1>3. Placed' BY DEF UdpInv, Placed, Serving
<1>4. Listed' BY DEF UdpInv, Listed
<1>5. Entries' = Entries BY DEF Entries
<1>6. JobInv' BY <1>1, <1>5 DEF JobInv, Serving, Room
<1>7. Bounded' BY <1>5 DEF UdpInv, Bounded
<1> QED BY <1>2, <1>3, <1>4, <1>6, <1>7 DEF UdpInv

\* The number of attempts is one.
LEMMA AttemptsAreCounted ==
  ASSUME Sound, NEW excluded
  PROVE  Attempts(excluded) \in Nat
<1>1. IsFiniteSet(Adapters \ excluded) BY FS_Subset DEF Sound
<1>2. Cardinality(Adapters \ excluded) \in Nat BY <1>1, FS_CardinalityType
<1> QED BY <1>2 DEF Attempts

\* A datagram to an address without an entry: it is dialled if there is room.
LEMMA OpenStep ==
  ASSUME Sound, UdpInv, NEW a \in Addrs, NEW port \in Ports, NEW unfit \in SUBSET Adapters, Open(a, port, unfit)
  PROVE  UdpInv'
<1>1. /\ Serving("read") /\ table[a] = None /\ lockedPort' \in Ports \cup {None}
      /\ UNCHANGED <<table, flow>> /\ serve \in UdpJobs
  BY DEF Open, UdpInv, UdpTypes
<1>2. CASE Room /\ serve' = Dialling(a, unfit)
  <2>1. serve' = Job("dial", a, None, unfit, Attempts(unfit)) BY <1>2 DEF Dialling
  <2> QED BY <1>1, <1>2, <2>1, AttemptsAreCounted, DiallingStep DEF Serving
<1>3. CASE serve' = serve BY <1>1, <1>3, JobMoves DEF Serving
<1> QED BY <1>2, <1>3 DEF Open

\* A flow that is closed has left the table, so that its address may be dialled.
LEMMA CloseReturnsStep ==
  ASSUME Sound, UdpInv, CloseReturns
  PROVE  UdpInv'
<1>1. /\ serve.at \in {"retire", "fail"} /\ UNCHANGED <<table, flow>> /\ ~Serving("insert")
      /\ serve \in UdpJobs /\ lockedPort' \in Ports \cup {None}
  BY DEF CloseReturns, UdpInv, UdpTypes, Serving
<1>2. CASE Serving("retire") /\ Room /\ serve' = Dialling(serve.addr, serve.excluded)
  <2>1. serve.addr \in Addrs /\ table[serve.addr] = None
    BY <1>2 DEF UdpInv, JobInv, Listed, CloseReturns, Closed
  <2>2. serve.excluded \in SUBSET (Adapters \cup {None}) BY <1>1 DEF UdpJobs
  <2>3. serve' = Job("dial", serve.addr, None, serve.excluded, Attempts(serve.excluded))
    BY <1>2 DEF Dialling
  <2> QED BY <1>1, <1>2, <2>1, <2>2, <2>3, AttemptsAreCounted, DiallingStep
<1>3. CASE serve' = NoJob
  <2>1. serve' \in UdpJobs /\ serve'.at = "read" BY <1>3 DEF NoJob, Job, UdpJobs
  <2> QED BY <1>1, <2>1, JobMoves
<1> QED BY <1>2, <1>3 DEF CloseReturns

\* The next adapter is tried for the same address.
LEMMA AttemptFailsStep ==
  ASSUME Sound, UdpInv, NEW ad \in Adapters, AttemptFails(ad)
  PROVE  UdpInv'
<1> DEFINE excluded == serve.excluded \cup {ad}
           tries == serve.tries - 1
<1>1. /\ Serving("dial") /\ serve.tries > 0 /\ UNCHANGED <<table, flow>>
      /\ serve \in UdpJobs /\ lockedPort' \in Ports \cup {None}
  BY DEF AttemptFails, UdpInv, UdpTypes
<1>2. excluded \in SUBSET (Adapters \cup {None}) /\ tries \in Nat BY <1>1 DEF UdpJobs
<1>3. serve' = [serve EXCEPT !.excluded = excluded, !.tries = tries] BY DEF AttemptFails
<1> HIDE DEF excluded, tries
<1>4. serve' \in UdpJobs /\ serve'.at = "dial" /\ serve'.addr = serve.addr
  BY <1>1, <1>2, <1>3 DEF UdpJobs, Serving
<1>5. UdpTypes' BY <1>1, <1>4 DEF UdpInv, UdpTypes
<1>6. Placed' BY <1>1 DEF UdpInv, Placed, Serving
<1>7. Listed' BY <1>1 DEF UdpInv, Listed
<1>8. Entries' = Entries BY <1>1 DEF Entries
<1>9. JobInv' BY <1>1, <1>4, <1>8 DEF UdpInv, JobInv, Serving, Room
<1>10. Bounded' BY <1>8 DEF UdpInv, Bounded
<1> QED BY <1>5, <1>6, <1>7, <1>9, <1>10 DEF UdpInv

\* The connection is made for an address that has none.
LEMMA DialedStep ==
  ASSUME Sound, UdpInv, NEW ad \in Adapters, NEW f \in Flows, Dialed(ad, f)
  PROVE  UdpInv'
<1> DEFINE made == [NoFlow EXCEPT !.stage = "created", !.addr = serve.addr,
                     !.adapter = ad, !.port = lockedPort, !.open = TRUE, !.counted = TRUE]
<1>1. /\ Serving("dial") /\ UNCHANGED <<table, lockedPort>> /\ flow[f].stage = "none"
      /\ flow' = [flow EXCEPT ![f] = made] /\ serve' = Job("insert", None, f, {}, 0)
  BY DEF Dialed
<1>2. flow \in [Flows -> UdpFlow] /\ serve.addr \in Addrs /\ table[serve.addr] = None /\ Room
  BY <1>1 DEF UdpInv, UdpTypes, JobInv
<1>3. made \in UdpFlow /\ made.stage = "created" /\ made.addr = serve.addr
  BY <1>2 DEF NoFlow, UdpFlow, UdpInv, UdpTypes
<1> HIDE DEF made
<1>4. /\ flow' \in [Flows -> UdpFlow] /\ flow'[f].stage = "created" /\ flow'[f].addr = serve.addr
      /\ \A g \in Flows \ {f} : flow'[g] = flow[g]
  BY <1>1, <1>2, <1>3
<1>5. serve' \in UdpJobs /\ serve'.at = "insert" /\ serve'.flow = f BY <1>1 DEF Job, UdpJobs
<1>6. UdpTypes' BY <1>1, <1>4, <1>5 DEF UdpInv, UdpTypes
<1>7. Placed'
  <2> SUFFICES ASSUME NEW g \in Flows, flow'[g].open
               PROVE  \/ /\ flow'[g].stage \in {"open", "closing"} /\ flow'[g].addr \in Addrs
                         /\ table'[flow'[g].addr] = g
                      \/ flow'[g].stage = "created" /\ Serving("insert")' /\ serve'.flow = g
    BY DEF Placed
  <2>1. CASE g = f BY <1>4, <1>5, <2>1 DEF Serving
  <2>2. CASE g # f BY <1>1, <1>4, <2>2 DEF UdpInv, Placed, Serving
  <2> QED BY <2>1, <2>2
<1>8. Listed' BY <1>1, <1>4 DEF UdpInv, Listed, UdpTypes, Sound
<1>9. Entries' = Entries BY <1>1 DEF Entries
<1>10. JobInv' BY <1>1, <1>2, <1>4, <1>5, <1>9 DEF JobInv, Serving, Room
<1>11. Bounded' BY <1>9 DEF UdpInv, Bounded
<1> QED BY <1>6, <1>7, <1>8, <1>10, <1>11 DEF UdpInv

\* The place found free is still free: nobody else inserts.
LEMMA InsertStep ==
  ASSUME Sound, UdpInv, Insert
  PROVE  UdpInv'
<1> DEFINE f == serve.flow
           a == flow[serve.flow].addr
<1>1. /\ f \in Flows /\ a \in Addrs /\ flow[f].stage = "created" /\ table[a] = None /\ Room
      /\ flow \in [Flows -> UdpFlow] /\ table \in [Addrs -> Flows \cup {None}]
  BY DEF Insert, UdpInv, UdpTypes, JobInv
<1>2. /\ Serving("insert") /\ UNCHANGED lockedPort /\ serve' = NoJob
      /\ table' = [table EXCEPT ![a] = f] /\ flow' = [flow EXCEPT ![f].stage = "open"]
  BY DEF Insert
<1>3. /\ flow' \in [Flows -> UdpFlow] /\ flow'[f].stage = "open" /\ flow'[f].addr = a
      /\ \A g \in Flows \ {f} : flow'[g] = flow[g]
  BY <1>1, <1>2 DEF UdpFlow
<1>4. serve' \in UdpJobs /\ serve'.at = "read" BY <1>2 DEF NoJob, Job, UdpJobs
<1>5. UdpTypes' BY <1>1, <1>2, <1>3, <1>4 DEF UdpInv, UdpTypes
<1>6. Placed'
  <2> SUFFICES ASSUME NEW g \in Flows, flow'[g].open
               PROVE  /\ flow'[g].stage \in {"open", "closing"} /\ flow'[g].addr \in Addrs
                      /\ table'[flow'[g].addr] = g
    BY DEF Placed
  <2>1. CASE g = f BY <1>1, <1>2, <1>3, <2>1
  <2>2. CASE g # f
    <3>1. flow'[g] = flow[g] BY <1>3, <2>2
    <3>2. flow[g].stage \in {"open", "closing"} /\ flow[g].addr \in Addrs /\ table[flow[g].addr] = g
      BY <2>2, <3>1 DEF UdpInv, Placed
    <3>3. flow[g].addr # a BY <1>1, <3>2 DEF Sound
    <3> QED BY <1>1, <1>2, <3>1, <3>2, <3>3
  <2> QED BY <2>1, <2>2
<1>7. Listed'
  <2> SUFFICES ASSUME NEW b \in Addrs, table'[b] # None
               PROVE  flow'[table'[b]].addr = b /\ flow'[table'[b]].stage \in {"open", "closing", "cut"}
    BY DEF Listed
  <2>1. CASE b = a BY <1>1, <1>2, <1>3, <2>1
  <2>2. CASE b # a
    <3>1. table'[b] = table[b] /\ table[b] \in Flows BY <1>1, <1>2, <2>2
    <3>2. flow[table[b]].addr = b /\ flow[table[b]].stage \in {"open", "closing", "cut"}
      BY <3>1 DEF UdpInv, Listed, Sound
    <3> QED BY <1>1, <1>3, <3>1, <3>2
  <2> QED BY <2>1, <2>2
<1>8. JobInv' BY <1>4 DEF JobInv, Serving
<1>9. Bounded'
  <2>1. Entries' = Entries \cup {a} BY <1>1, <1>2 DEF Entries, Sound
  <2>2. IsFiniteSet(Entries) /\ Cardinality(Entries) \in Nat /\ Cardinality(Entries) < FlowLimit
    BY <1>1, FS_CardinalityType DEF UdpInv, Bounded, Room
  <2>3. /\ IsFiniteSet(Entries') /\ Cardinality(Entries') \in {Cardinality(Entries), Cardinality(Entries) + 1}
    BY <2>1, <2>2, FS_AddElement
  <2> QED BY <2>2, <2>3 DEF Bounded, Sound
<1> QED BY <1>5, <1>6, <1>7, <1>8, <1>9 DEF UdpInv

\* The end of the association: it is over once the table is empty.
LEMMA EndSteps ==
  ASSUME Sound, UdpInv, GivesUp \/ ServeEnds \/ CloseFlows \/ AssociationOver
  PROVE  UdpInv'
<1>1. serve \in UdpJobs /\ flow \in [Flows -> UdpFlow] BY DEF UdpInv, UdpTypes
<1>2. CASE GivesUp
  <2>1. serve' \in UdpJobs /\ serve'.at = "read" BY <1>2 DEF GivesUp, NoJob, Job, UdpJobs
  <2> QED BY <1>2, <2>1, JobMoves DEF GivesUp, Serving, UdpInv, UdpTypes
<1>3. CASE ServeEnds
  <2>1. serve' \in UdpJobs /\ serve'.at = "ended" BY <1>3 DEF ServeEnds, Job, UdpJobs
  <2> QED BY <1>3, <2>1, JobMoves DEF ServeEnds, Serving, UdpInv, UdpTypes
<1>4. CASE CloseFlows
  <2>1. /\ flow' \in [Flows -> UdpFlow]
        /\ \A g \in Flows : /\ flow'[g].addr = flow[g].addr /\ flow'[g].open = flow[g].open
                            /\ \/ flow'[g].stage = flow[g].stage
                               \/ flow[g].stage = "open" /\ flow'[g].stage = "closing"
    BY <1>1, <1>4, ClosingIsMild DEF CloseFlows
  <2>2. /\ serve' \in UdpJobs /\ serve'.at = "closing" /\ UNCHANGED <<table, lockedPort>>
        /\ serve.at = "ended"
    BY <1>1, <1>4 DEF CloseFlows, UdpJobs, Serving
  <2>3. UdpTypes' BY <2>1, <2>2 DEF UdpInv, UdpTypes
  <2>4. Placed' BY <2>1, <2>2 DEF UdpInv, Placed, Serving
  <2>5. Listed' BY <2>1, <2>2 DEF UdpInv, Listed, UdpTypes, Sound
  <2>6. Entries' = Entries BY <2>2 DEF Entries
  <2>7. JobInv' BY <2>2 DEF JobInv, Serving
  <2>8. Bounded' BY <2>6 DEF UdpInv, Bounded
  <2> QED BY <2>3, <2>4, <2>5, <2>7, <2>8 DEF UdpInv
<1>5. CASE AssociationOver
  <2>1. /\ serve' \in UdpJobs /\ serve'.at = "over" /\ UNCHANGED <<table, flow, lockedPort>>
        /\ serve.at = "closing" /\ Entries = {}
    BY <1>1, <1>5 DEF AssociationOver, UdpJobs, Serving
  <2>2. UdpTypes' BY <2>1 DEF UdpInv, UdpTypes
  <2>3. Placed' BY <2>1 DEF UdpInv, Placed, Serving
  <2>4. Listed' BY <2>1 DEF UdpInv, Listed
  <2>5. Entries' = Entries BY <2>1 DEF Entries
  <2>6. JobInv' BY <2>1, <2>5 DEF JobInv, Serving
  <2>7. Bounded' BY <2>5 DEF UdpInv, Bounded
  <2> QED BY <2>2, <2>3, <2>4, <2>6, <2>7 DEF UdpInv
<1> QED BY <1>2, <1>3, <1>4, <1>5

\* The client, the server and the watcher of the control connection.
LEMMA AroundSteps ==
  ASSUME Sound, UdpInv, ControlEnds \/ ServerStops \/ CloseAll \/ Watch
  PROVE  UdpInv'
<1>1. flow \in [Flows -> UdpFlow] BY DEF UdpInv, UdpTypes
<1>2. UNCHANGED <<table, serve, lockedPort>> BY DEF ControlEnds, ServerStops, CloseAll, Watch
<1>3. CASE UNCHANGED flow BY <1>1, <1>2, <1>3, FlowsMove
<1>4. CASE flow' = [f \in Flows |-> IF flow[f].counted THEN [flow[f] EXCEPT !.open = FALSE] ELSE flow[f]]
  <2>1. ASSUME NEW r \in UdpFlow
        PROVE  LET cut == [r EXCEPT !.open = FALSE]
               IN  cut \in UdpFlow /\ cut.addr = r.addr /\ cut.stage = r.stage /\ ~cut.open
    BY DEF UdpFlow
  <2>2. ASSUME NEW g \in Flows
        PROVE  /\ flow'[g] \in UdpFlow /\ flow'[g].addr = flow[g].addr /\ flow'[g].stage = flow[g].stage
               /\ flow'[g].open => flow[g].open
    <3>1. flow[g] \in UdpFlow BY <1>1
    <3>2. CASE ~flow[g].counted BY <1>4, <3>1, <3>2
    <3>3. CASE flow[g].counted
      <4>1. flow'[g] = [flow[g] EXCEPT !.open = FALSE] BY <1>4, <3>3
      <4> QED BY <2>1, <3>1, <4>1
    <3> QED BY <3>2, <3>3
  <2>3. flow' \in [Flows -> UdpFlow] BY <1>4, <2>2
  <2> QED BY <1>2, <2>2, <2>3, FlowsMove
<1> QED BY <1>3, <1>4 DEF ControlEnds, ServerStops, CloseAll, Watch

-----------------------------------------------------------------------------
(* UdpAssociation: the theorem.                                            *)

LEMMA UdpInit ==
  ASSUME Sound, Init
  PROVE  UdpInv
<1>1. /\ lockedPort = None /\ serve = NoJob
      /\ table = [a \in Addrs |-> None] /\ flow = [f \in Flows |-> NoFlow]
  BY DEF Init
<1>2. NoFlow \in UdpFlow /\ ~NoFlow.open /\ NoJob \in UdpJobs /\ NoJob.at = "read"
  BY DEF NoFlow, UdpFlow, NoJob, Job, UdpJobs
<1>3. UdpTypes BY <1>1, <1>2 DEF UdpTypes
<1>4. Placed /\ Listed BY <1>1, <1>2 DEF Placed, Listed
<1>5. JobInv BY <1>1, <1>2 DEF JobInv, Serving
<1>6. Entries = {} BY <1>1 DEF Entries
<1>7. Bounded BY <1>6, FS_EmptySet DEF Bounded, Sound
<1> QED BY <1>3, <1>4, <1>5, <1>7 DEF UdpInv

LEMMA UdpNext ==
  ASSUME Sound, UdpInv, [Next]_vars
  PROVE  UdpInv'
<1>1. ASSUME NEW a \in Addrs, NEW port \in Ports, Forward(a, port) PROVE UdpInv' BY <1>1, ForwardStep
<1>2. ASSUME NEW a \in Addrs, NEW port \in Ports, NEW unfit \in SUBSET Adapters, Open(a, port, unfit)
      PROVE  UdpInv'
  BY <1>2, OpenStep
<1>3. CASE CloseReturns BY <1>3, CloseReturnsStep
<1>4. ASSUME NEW ad \in Adapters, AttemptFails(ad) PROVE UdpInv' BY <1>4, AttemptFailsStep
<1>5. ASSUME NEW ad \in Adapters, NEW f \in Flows, Dialed(ad, f) PROVE UdpInv' BY <1>5, DialedStep
<1>6. CASE Insert BY <1>6, InsertStep
<1>7. CASE GivesUp \/ ServeEnds \/ CloseFlows \/ AssociationOver BY <1>7, EndSteps
<1>8. CASE ControlEnds \/ ServerStops \/ CloseAll \/ Watch BY <1>8, AroundSteps
<1>9. ASSUME NEW f \in Flows, Close(f) PROVE UdpInv' BY <1>9, CloseStep
<1>10. ASSUME NEW f \in Flows, Answer(f) \/ ReceiveEnds(f) \/ TimePasses(f) PROVE UdpInv'
  BY <1>10, FlowSteps
<1>11. CASE UNCHANGED vars
  <2>1. UNCHANGED <<table, flow, serve, lockedPort>> BY <1>11 DEF vars
  <2> QED BY <2>1, FlowsMove DEF UdpInv, UdpTypes
<1> QED BY <1>1, <1>2, <1>3, <1>4, <1>5, <1>6, <1>7, <1>8, <1>9, <1>10, <1>11 DEF Next, Serve

\* However many flows are open, dialled, retired, cut and forgotten at once, an
\* association has no more connections than its limit, one to a destination,
\* and none once it is over (udp.go:197-258, 523-552).
THEOREM AssociationKeepsItsLimit == ProxySpec => []ConnectionsAreAccounted
<1>0. Sound
  BY ProxyAssumption DEF Sound, Bs
<1>1. ProxyInit => UdpInv
  BY <1>0, UdpInit DEF ProxyInit
<1>2. UdpInv /\ [ProxyNext]_allVars => UdpInv'
  BY <1>0, UdpNext DEF ProxyNext, allVars, Schedules, Relays, Forwards, Resolves, Transfers
<1>3. UdpInv => ConnectionsAreAccounted
  BY <1>0, PlacesSuffice
<1>. QED BY <1>1, <1>2, <1>3, PTL DEF ProxySpec

-----------------------------------------------------------------------------
(* ProxySessions: the inductive invariant, in named parts.                 *)

TcpSession ==
  [at : {"none", "accepted", "request", "dial", "dialed", "reply", "relay", "ending", "finished",
         "over"},
   kind : {"tunnel", "http"}, upgrade : BOOLEAN, registered : BOOLEAN,
   up : {"idle", "send", "await", "tunnel", "end"},
   down : {"idle", "head", "answer", "body", "tunnel", "end"}, decision : {"none", "yes", "no"}]
TcpConn ==
  [client : {"none", "open", "gone", "closed"}, upstream : {"none", "open", "gone", "closed"},
   attached : BOOLEAN, cutRead : BOOLEAN, upCutRead : BOOLEAN, upCutWrite : BOOLEAN]
TcpTypes == session \in [As -> TcpSession] /\ conn \in [As -> TcpConn]

\* Stop has closed what the registry knew.
Swept == server \in {"waiting", "stopped", "timedOut"}

\* Nobody is let in, and nobody dials, once Stop has begun.
ServerInv ==
  /\ listening => server \in {"running", "flagged"}
  /\ serverLive => server = "running"

\* The registry knows a session from its request to its end, and the upstream
\* that is attached; an upstream is open while a session has it.
Registered(s) ==
  /\ session[s].registered <=>
       session[s].at \in {"request", "dial", "dialed", "reply", "relay", "ending"}
  /\ conn[s].upstream = "open" => session[s].at \in {"dialed", "reply", "relay"}
  /\ session[s].at \in {"reply", "relay"} => conn[s].attached
  /\ session[s].at \in {"none", "over"} => conn[s].client # "open"

\* What Stop leaves of a session.
Cleared(s) ==
  /\ session[s].registered => conn[s].client # "open"
  /\ conn[s].upstream = "open" => s \in late
  /\ server = "stopped" => session[s].at \in {"none", "over"}

TcpInv ==
  /\ TcpTypes /\ ServerInv
  /\ \A s \in As : Registered(s) /\ (Swept => Cleared(s))

-----------------------------------------------------------------------------
(* ProxySessions: its steps.                                               *)

\* A step of one session: what it and its connections are in then.
SessionStep(s, at, registered) ==
  /\ session' \in [As -> TcpSession] /\ \A r \in As : r # s => session'[r] = session[r]
  /\ session'[s].at = at /\ session'[s].registered = registered
ConnStep(s, client, upstream, attached) ==
  /\ conn' \in [As -> TcpConn] /\ \A r \in As : r # s => conn'[r] = conn[r]
  /\ conn'[s].client = client /\ conn'[s].upstream = upstream /\ conn'[s].attached = attached

LEMMA TcpStepSound ==
  ASSUME TcpInv, NEW s \in As, UNCHANGED Tcp!StopsHere,
         NEW at, NEW registered, SessionStep(s, at, registered),
         NEW client, NEW upstream, NEW attached, ConnStep(s, client, upstream, attached),
         Registered(s)', Swept => Cleared(s)'
  PROVE  TcpInv'
<1>1. TcpTypes' /\ ServerInv' /\ (Swept' <=> Swept)
  BY DEF TcpInv, TcpTypes, ServerInv, Swept, SessionStep, ConnStep, Tcp!StopsHere
<1>2. \A r \in As : r # s => /\ Registered(r)' <=> Registered(r)
                             /\ Cleared(r)' <=> Cleared(r)
  BY DEF SessionStep, ConnStep, Registered, Cleared, Tcp!StopsHere
<1>. QED BY <1>1, <1>2 DEF TcpInv

LEMMA SessionStays ==
  ASSUME TcpInv, NEW s \in As, UNCHANGED session
  PROVE  SessionStep(s, session[s].at, session[s].registered)
BY DEF TcpInv, TcpTypes, SessionStep

LEMMA ConnStays ==
  ASSUME TcpInv, NEW s \in As, UNCHANGED conn
  PROVE  ConnStep(s, conn[s].client, conn[s].upstream, conn[s].attached)
BY DEF TcpInv, TcpTypes, ConnStep

LEMMA SessionBecomes ==
  ASSUME TcpInv, NEW s \in As, NEW new \in TcpSession, session' = [session EXCEPT ![s] = new]
  PROVE  SessionStep(s, new.at, new.registered)
BY DEF TcpInv, TcpTypes, SessionStep

LEMMA ConnBecomes ==
  ASSUME TcpInv, NEW s \in As, NEW new \in TcpConn, conn' = [conn EXCEPT ![s] = new]
  PROVE  ConnStep(s, new.client, new.upstream, new.attached)
BY DEF TcpInv, TcpTypes, ConnStep

TcpSteps == {"none", "accepted", "request", "dial", "dialed", "reply", "relay", "ending", "finished",
             "over"}

LEMMA SessionGoesTo ==
  ASSUME TcpInv, NEW s \in As, NEW step \in TcpSteps, Tcp!GoTo(s, step)
  PROVE  SessionStep(s, step, session[s].registered)
<1> DEFINE new == [session[s] EXCEPT !.at = step]
<1>1. session[s] \in TcpSession
  BY DEF TcpInv, TcpTypes
<1>2. new \in TcpSession /\ new.at = step /\ new.registered = session[s].registered
  BY <1>1, ZenonT(40) DEF TcpSession, TcpSteps
<1>3. session' = [session EXCEPT ![s] = new]
  BY DEF Tcp!GoTo
<1>. HIDE DEF new
<1>. QED BY <1>2, <1>3, SessionBecomes

\* What the goroutines of a relay are in does not matter to Stop.
LEMMA SessionRelays ==
  ASSUME TcpInv, NEW s \in As,
         NEW up \in {"idle", "send", "await", "tunnel", "end"},
         NEW down \in {"idle", "head", "answer", "body", "tunnel", "end"},
         NEW decision \in {"none", "yes", "no"},
         \/ session' = [session EXCEPT ![s].up = up]
         \/ session' = [session EXCEPT ![s].down = down]
         \/ session' = [session EXCEPT ![s].down = down, ![s].decision = decision]
  PROVE  SessionStep(s, session[s].at, session[s].registered)
<1>1. session[s] \in TcpSession
  BY DEF TcpInv, TcpTypes
<1>2. CASE session' = [session EXCEPT ![s].up = up]
  <2> DEFINE new == [session[s] EXCEPT !.up = up]
  <2>1. new \in TcpSession /\ new.at = session[s].at /\ new.registered = session[s].registered
    BY <1>1, ZenonT(40) DEF TcpSession
  <2>2. session' = [session EXCEPT ![s] = new]
    BY <1>2
  <2>. HIDE DEF new
  <2>. QED BY <2>1, <2>2, SessionBecomes
<1>3. CASE session' = [session EXCEPT ![s].down = down]
  <2> DEFINE new == [session[s] EXCEPT !.down = down]
  <2>1. new \in TcpSession /\ new.at = session[s].at /\ new.registered = session[s].registered
    BY <1>1, ZenonT(40) DEF TcpSession
  <2>2. session' = [session EXCEPT ![s] = new]
    BY <1>3
  <2>. HIDE DEF new
  <2>. QED BY <2>1, <2>2, SessionBecomes
<1>4. CASE session' = [session EXCEPT ![s].down = down, ![s].decision = decision]
  <2> DEFINE new == [session[s] EXCEPT !.down = down, !.decision = decision]
  <2>1. new \in TcpSession /\ new.at = session[s].at /\ new.registered = session[s].registered
    BY <1>1, ZenonT(40) DEF TcpSession
  <2>2. session' = [session EXCEPT ![s] = new]
    BY <1>4
  <2>. HIDE DEF new
  <2>. QED BY <2>1, <2>2, SessionBecomes
<1>. QED BY <1>2, <1>3, <1>4

LEMMA ClientIs ==
  ASSUME TcpInv, NEW s \in As, NEW state \in {"open", "gone", "closed"},
         conn' = [conn EXCEPT ![s].client = state]
  PROVE  ConnStep(s, state, conn[s].upstream, conn[s].attached)
<1> DEFINE new == [conn[s] EXCEPT !.client = state]
<1>1. conn[s] \in TcpConn
  BY DEF TcpInv, TcpTypes
<1>2. /\ new \in TcpConn /\ new.client = state /\ new.upstream = conn[s].upstream
      /\ new.attached = conn[s].attached
  BY <1>1, ZenonT(40) DEF TcpConn
<1>3. conn' = [conn EXCEPT ![s] = new]
  OBVIOUS
<1>. HIDE DEF new
<1>. QED BY <1>2, <1>3, ConnBecomes

LEMMA UpstreamIs ==
  ASSUME TcpInv, NEW s \in As, NEW state \in {"open", "gone", "closed"},
         conn' = [conn EXCEPT ![s].upstream = state]
  PROVE  ConnStep(s, conn[s].client, state, conn[s].attached)
<1> DEFINE new == [conn[s] EXCEPT !.upstream = state]
<1>1. conn[s] \in TcpConn
  BY DEF TcpInv, TcpTypes
<1>2. /\ new \in TcpConn /\ new.client = conn[s].client /\ new.upstream = state
      /\ new.attached = conn[s].attached
  BY <1>1, ZenonT(40) DEF TcpConn
<1>3. conn' = [conn EXCEPT ![s] = new]
  OBVIOUS
<1>. HIDE DEF new
<1>. QED BY <1>2, <1>3, ConnBecomes

LEMMA AcceptSound ==
  ASSUME TcpInv, NEW s \in As, Tcp!Accept(s)
  PROVE  TcpInv'
<1>1. /\ listening /\ session[s].at = "none" /\ Tcp!GoTo(s, "accepted")
      /\ conn' = [conn EXCEPT ![s].client = "open"] /\ UNCHANGED Tcp!StopsHere
  BY DEF Tcp!Accept, Tcp!At
<1>2. /\ SessionStep(s, "accepted", session[s].registered)
      /\ ConnStep(s, "open", conn[s].upstream, conn[s].attached)
  BY <1>1, SessionGoesTo, ClientIs DEF TcpSteps
<1>3. ~Swept
  BY <1>1 DEF TcpInv, ServerInv, Swept
<1>4. Registered(s)'
  BY <1>1, <1>2 DEF TcpInv, Registered, SessionStep, ConnStep
<1>. QED BY <1>1, <1>2, <1>3, <1>4, TcpStepSound

\* Who is not let in is closed at once.
LEMMA BeginSound ==
  ASSUME TcpInv, NEW s \in As, Tcp!Begin(s)
  PROVE  TcpInv'
<1>1. session[s].at = "accepted" /\ UNCHANGED Tcp!StopsHere /\ ~session[s].registered
  BY DEF Tcp!Begin, Tcp!At, TcpInv, Registered
<1>2. CASE server = "running"
  <2> DEFINE new == [session[s] EXCEPT !.at = "request", !.registered = TRUE]
  <2>1. session' = [session EXCEPT ![s] = new] /\ UNCHANGED conn
    BY <1>2 DEF Tcp!Begin, Tcp!MayBegin
  <2>2. session[s] \in TcpSession
    BY DEF TcpInv, TcpTypes
  <2>3. new \in TcpSession /\ new.at = "request" /\ new.registered = TRUE
    BY <2>2, ZenonT(40) DEF TcpSession
  <2>. HIDE DEF new
  <2>4. /\ SessionStep(s, "request", TRUE)
        /\ ConnStep(s, conn[s].client, conn[s].upstream, conn[s].attached)
    BY <2>1, <2>3, SessionBecomes, ConnStays
  <2>5. Registered(s)'
    BY <1>1, <2>4 DEF TcpInv, Registered, SessionStep, ConnStep
  <2>. QED BY <1>1, <1>2, <2>4, <2>5, TcpStepSound DEF Swept
<1>3. CASE server # "running"
  <2>1. Tcp!GoTo(s, "over") /\ conn' = [conn EXCEPT ![s].client = "closed"]
    BY <1>3 DEF Tcp!Begin, Tcp!MayBegin
  <2>2. /\ SessionStep(s, "over", session[s].registered)
        /\ ConnStep(s, "closed", conn[s].upstream, conn[s].attached)
    BY <2>1, SessionGoesTo, ClientIs DEF TcpSteps
  <2>3. Registered(s)' /\ Cleared(s)'
    BY <1>1, <2>2 DEF TcpInv, Registered, Cleared, SessionStep, ConnStep
  <2>. QED BY <1>1, <2>2, <2>3, TcpStepSound
<1>. QED BY <1>2, <1>3

\* Steps of a registered session that leave it registered: after CloseAll it
\* keeps what it has lost, and dials no more.
LEMMA OpenSound ==
  ASSUME TcpInv, NEW s \in As, UNCHANGED Tcp!StopsHere,
         session[s].at \in {"request", "dial", "dialed", "reply", "relay"},
         NEW at \in {"dial", "dialed", "reply", "relay", "ending"},
         SessionStep(s, at, session[s].registered),
         NEW upstream, NEW attached, ConnStep(s, conn[s].client, upstream, attached),
         upstream = "open" => /\ conn[s].upstream = "open" \/ ~Swept
                              /\ at \in {"dialed", "reply", "relay"},
         at \in {"reply", "relay"} => attached
  PROVE  TcpInv'
<1>1. Registered(s)'
  BY DEF TcpInv, Registered, SessionStep, ConnStep
<1>2. ASSUME Swept
      PROVE  Cleared(s)'
  BY <1>2 DEF TcpInv, Registered, Cleared, Swept, SessionStep, ConnStep, Tcp!StopsHere
<1>. QED BY <1>1, <1>2, TcpStepSound

LEMMA RequestSound ==
  ASSUME TcpInv, NEW s \in As, Tcp!Request(s)
  PROVE  TcpInv'
<1>1. PICK kind \in {"tunnel", "http"}, upgrade \in BOOLEAN :
        /\ session[s].at = "request"
        /\ session' = [session EXCEPT ![s].at = "dial", ![s].kind = kind, ![s].upgrade = upgrade]
        /\ UNCHANGED <<Tcp!StopsHere, conn>>
  BY DEF Tcp!Request, Tcp!At
<1> DEFINE new == [session[s] EXCEPT !.at = "dial", !.kind = kind, !.upgrade = upgrade]
<1>2. session' = [session EXCEPT ![s] = new]
  BY <1>1
<1>3. session[s] \in TcpSession
  BY DEF TcpInv, TcpTypes
<1>4. new \in TcpSession /\ new.at = "dial" /\ new.registered = session[s].registered
  BY <1>3, ZenonT(60) DEF TcpSession
<1>. HIDE DEF new
<1>5. /\ SessionStep(s, "dial", session[s].registered)
      /\ ConnStep(s, conn[s].client, conn[s].upstream, conn[s].attached)
  BY <1>1, <1>2, <1>4, SessionBecomes, ConnStays
<1>6. conn[s].upstream # "open"
  BY <1>1 DEF TcpInv, Registered
<1>. QED BY <1>1, <1>5, <1>6, OpenSound

LEMMA FailsSound ==
  ASSUME TcpInv, NEW s \in As, Tcp!RequestFails(s) \/ Tcp!DialFails(s)
  PROVE  TcpInv'
<1>1. /\ session[s].at \in {"request", "dial"} /\ Tcp!GoTo(s, "ending")
      /\ UNCHANGED <<Tcp!StopsHere, conn>>
  BY DEF Tcp!RequestFails, Tcp!DialFails, Tcp!At
<1>2. /\ SessionStep(s, "ending", session[s].registered)
      /\ ConnStep(s, conn[s].client, conn[s].upstream, conn[s].attached)
  BY <1>1, SessionGoesTo, ConnStays DEF TcpSteps
<1>3. conn[s].upstream # "open"
  BY <1>1 DEF TcpInv, Registered
<1>. QED BY <1>1, <1>2, <1>3, OpenSound

\* Only a live context lets a dial end well.
LEMMA DialedSound ==
  ASSUME TcpInv, NEW s \in As, Tcp!Dialed(s)
  PROVE  TcpInv'
<1>1. /\ session[s].at = "dial" /\ serverLive /\ Tcp!GoTo(s, "dialed")
      /\ conn' = [conn EXCEPT ![s].upstream = "open"] /\ UNCHANGED Tcp!StopsHere
  BY DEF Tcp!Dialed, Tcp!At
<1>2. /\ SessionStep(s, "dialed", session[s].registered)
      /\ ConnStep(s, conn[s].client, "open", conn[s].attached)
  BY <1>1, SessionGoesTo, UpstreamIs DEF TcpSteps
<1>3. ~Swept
  BY <1>1 DEF TcpInv, ServerInv, Swept
<1>. QED BY <1>1, <1>2, <1>3, OpenSound

LEMMA AttachSound ==
  ASSUME TcpInv, NEW s \in As, Tcp!Attach(s)
  PROVE  TcpInv'
<1> DEFINE new == [conn[s] EXCEPT !.attached = TRUE]
<1>1. /\ session[s].at = "dialed" /\ Tcp!GoTo(s, "reply")
      /\ conn' = [conn EXCEPT ![s] = new] /\ UNCHANGED Tcp!StopsHere
  BY DEF Tcp!Attach, Tcp!At
<1>2. conn[s] \in TcpConn
  BY DEF TcpInv, TcpTypes
<1>3. /\ new \in TcpConn /\ new.client = conn[s].client /\ new.upstream = conn[s].upstream
      /\ new.attached = TRUE
  BY <1>2, ZenonT(40) DEF TcpConn
<1>. HIDE DEF new
<1>4. /\ SessionStep(s, "reply", session[s].registered)
      /\ ConnStep(s, conn[s].client, conn[s].upstream, TRUE)
  BY <1>1, <1>3, SessionGoesTo, ConnBecomes DEF TcpSteps
<1>. QED BY <1>1, <1>4, OpenSound

LEMMA ReplySound ==
  ASSUME TcpInv, NEW s \in As, Tcp!Reply(s)
  PROVE  TcpInv'
<1> DEFINE tunnel  == session[s].kind = "tunnel"
           refused == tunnel /\ ~Tcp!ClientHere(s)
           up   == IF tunnel THEN "tunnel" ELSE "send"
           down == IF tunnel THEN "tunnel" ELSE "head"
           new  == [session[s] EXCEPT !.at = "relay", !.up = up, !.down = down]
<1>1. session[s].at = "reply" /\ UNCHANGED Tcp!StopsHere /\ conn[s].attached
  BY DEF Tcp!Reply, Tcp!At, TcpInv, Registered
<1>2. CASE refused
  <2>1. Tcp!GoTo(s, "ending") /\ conn' = [conn EXCEPT ![s].upstream = "closed"]
    BY <1>2 DEF Tcp!Reply, Tcp!GoTo
  <2>2. /\ SessionStep(s, "ending", session[s].registered)
        /\ ConnStep(s, conn[s].client, "closed", conn[s].attached)
    BY <2>1, SessionGoesTo, UpstreamIs DEF TcpSteps
  <2>. QED BY <1>1, <2>2, OpenSound
<1>3. CASE ~refused
  <2>1. session' = [session EXCEPT ![s] = new] /\ UNCHANGED conn
    BY <1>3 DEF Tcp!Reply
  <2>2. up \in {"send", "tunnel"} /\ down \in {"head", "tunnel"}
    OBVIOUS
  <2>3. session[s] \in TcpSession
    BY DEF TcpInv, TcpTypes
  <2>. HIDE DEF up, down
  <2>4. new \in TcpSession /\ new.at = "relay" /\ new.registered = session[s].registered
    BY <2>2, <2>3, ZenonT(60) DEF TcpSession
  <2>. HIDE DEF new
  <2>5. /\ SessionStep(s, "relay", session[s].registered)
        /\ ConnStep(s, conn[s].client, conn[s].upstream, conn[s].attached)
    BY <2>1, <2>4, SessionBecomes, ConnStays
  <2>. QED BY <1>1, <2>5, OpenSound DEF TcpInv, Registered
<1>. QED BY <1>2, <1>3
\* A relay has an upstream that is attached, and may close it.
LEMMA RelaySound ==
  ASSUME TcpInv, NEW s \in As, UNCHANGED Tcp!StopsHere, session[s].at = "relay",
         NEW at \in {"relay", "ending"}, SessionStep(s, at, session[s].registered),
         NEW upstream \in {conn[s].upstream, "closed"},
         ConnStep(s, conn[s].client, upstream, conn[s].attached),
         at = "ending" => upstream = "closed"
  PROVE  TcpInv'
BY OpenSound DEF TcpInv, Registered

\* The deadlines that one direction sets for the other are not connections.
LEMMA RelayConn ==
  ASSUME TcpInv, NEW s \in As, NEW upstream \in {conn[s].upstream, "closed"},
         \/ conn' = [conn EXCEPT ![s].cutRead = TRUE, ![s].upCutRead = TRUE]
              /\ upstream = conn[s].upstream
         \/ conn' = [conn EXCEPT ![s].cutRead = TRUE, ![s].upCutWrite = TRUE,
                                 ![s].upstream = upstream]
  PROVE  ConnStep(s, conn[s].client, upstream, conn[s].attached)
<1>1. conn[s] \in TcpConn /\ upstream \in {"none", "open", "gone", "closed"}
  BY DEF TcpInv, TcpTypes, TcpConn
<1>2. CASE conn' = [conn EXCEPT ![s].cutRead = TRUE, ![s].upCutRead = TRUE]
             /\ upstream = conn[s].upstream
  <2> DEFINE new == [conn[s] EXCEPT !.cutRead = TRUE, !.upCutRead = TRUE]
  <2>1. /\ new \in TcpConn /\ new.client = conn[s].client /\ new.upstream = conn[s].upstream
        /\ new.attached = conn[s].attached
    BY <1>1, ZenonT(40) DEF TcpConn
  <2>2. conn' = [conn EXCEPT ![s] = new]
    BY <1>2
  <2>. HIDE DEF new
  <2>. QED BY <1>2, <2>1, <2>2, ConnBecomes
<1>3. CASE conn' = [conn EXCEPT ![s].cutRead = TRUE, ![s].upCutWrite = TRUE,
                                ![s].upstream = upstream]
  <2> DEFINE new == [conn[s] EXCEPT !.cutRead = TRUE, !.upCutWrite = TRUE, !.upstream = upstream]
  <2>1. /\ new \in TcpConn /\ new.client = conn[s].client /\ new.upstream = upstream
        /\ new.attached = conn[s].attached
    BY <1>1, ZenonT(40) DEF TcpConn
  <2>2. conn' = [conn EXCEPT ![s] = new]
    BY <1>3
  <2>. HIDE DEF new
  <2>. QED BY <2>1, <2>2, ConnBecomes
<1>. QED BY <1>2, <1>3

LEMMA DownEndsSound ==
  ASSUME TcpInv, NEW s \in As, NEW answer \in {"given", "lost"}, Tcp!DownEnds(s, answer),
         UNCHANGED Tcp!StopsHere, session[s].at = "relay"
  PROVE  TcpInv'
<1> DEFINE decision == IF session[s].decision = "none" THEN "no" ELSE session[s].decision
           upstream == IF answer = "lost" THEN "closed" ELSE conn[s].upstream
<1>1. decision \in {"none", "yes", "no"} /\ upstream \in {conn[s].upstream, "closed"}
  BY DEF TcpInv, TcpTypes, TcpSession
<1>2. /\ session' = [session EXCEPT ![s].down = "end", ![s].decision = decision]
      /\ conn' = [conn EXCEPT ![s].cutRead = TRUE, ![s].upCutWrite = TRUE,
                              ![s].upstream = upstream]
  BY DEF Tcp!DownEnds
<1>. HIDE DEF decision, upstream
<1>3. "end" \in {"idle", "head", "answer", "body", "tunnel", "end"}
      /\ "end" \in {"idle", "send", "await", "tunnel", "end"}
  OBVIOUS
<1>4. SessionStep(s, session[s].at, session[s].registered)
  BY <1>1, <1>2, <1>3, SessionRelays
<1>5. ConnStep(s, conn[s].client, upstream, conn[s].attached)
  BY <1>1, <1>2, RelayConn
<1>. QED BY <1>1, <1>4, <1>5, RelaySound

\* Steps of one direction that leave the connections alone.
LEMMA DirectionSound ==
  ASSUME TcpInv, NEW s \in As, session[s].at = "relay", UNCHANGED <<Tcp!StopsHere, conn>>,
         NEW up \in {"idle", "send", "await", "tunnel", "end"},
         NEW down \in {"idle", "head", "answer", "body", "tunnel", "end"},
         NEW decision \in {"none", "yes", "no"},
         \/ session' = [session EXCEPT ![s].up = up]
         \/ session' = [session EXCEPT ![s].down = down]
         \/ session' = [session EXCEPT ![s].down = down, ![s].decision = decision]
  PROVE  TcpInv'
<1>1. SessionStep(s, session[s].at, session[s].registered)
  BY SessionRelays
<1>2. ConnStep(s, conn[s].client, conn[s].upstream, conn[s].attached)
  BY ConnStays
<1>. QED BY <1>1, <1>2, RelaySound

LEMMA UpSound ==
  ASSUME TcpInv, NEW s \in As,
         Tcp!UpSent(s) \/ Tcp!UpFails(s) \/ Tcp!UpDecided(s) \/ Tcp!UpTunnelEnds(s)
  PROVE  TcpInv'
<1>1. /\ session[s].at = "relay" /\ UNCHANGED Tcp!StopsHere
      /\ \E up \in {"await", "tunnel", "end"} : session' = [session EXCEPT ![s].up = up]
      /\ \/ UNCHANGED conn
         \/ conn' = [conn EXCEPT ![s].cutRead = TRUE, ![s].upCutRead = TRUE]
  BY DEF Tcp!UpSent, Tcp!UpFails, Tcp!UpDecided, Tcp!UpTunnelEnds, Tcp!Up, Tcp!At
<1>2. SessionStep(s, session[s].at, session[s].registered)
  BY <1>1, SessionRelays
<1>3. ConnStep(s, conn[s].client, conn[s].upstream, conn[s].attached)
  BY <1>1, RelayConn, ConnStays
<1>. QED BY <1>1, <1>2, <1>3, RelaySound

LEMMA DownSound ==
  ASSUME TcpInv, NEW s \in As,
         \/ Tcp!DownHeader(s) \/ Tcp!DownFails(s) \/ Tcp!DownAnswers(s) \/ Tcp!DownLost(s)
         \/ Tcp!DownComplete(s) \/ Tcp!DownTunnelEnds(s)
  PROVE  TcpInv'
<1>1. CASE \/ Tcp!DownFails(s) \/ Tcp!DownLost(s) \/ Tcp!DownComplete(s)
           \/ Tcp!DownTunnelEnds(s) /\ session[s].kind = "http"
  <2>1. /\ session[s].at = "relay" /\ UNCHANGED Tcp!StopsHere
        /\ Tcp!DownEnds(s, "given") \/ Tcp!DownEnds(s, "lost")
    BY <1>1 DEF Tcp!DownFails, Tcp!DownLost, Tcp!DownComplete, Tcp!DownTunnelEnds, Tcp!Down, Tcp!At
  <2>. QED BY <2>1, DownEndsSound
<1>2. CASE Tcp!DownHeader(s) \/ (Tcp!DownTunnelEnds(s) /\ session[s].kind # "http")
  <2>1. /\ session[s].at = "relay" /\ UNCHANGED <<Tcp!StopsHere, conn>>
        /\ \/ session' = [session EXCEPT ![s].down = "answer"]
           \/ session' = [session EXCEPT ![s].down = "end"]
    BY <1>2 DEF Tcp!DownHeader, Tcp!DownTunnelEnds, Tcp!Down, Tcp!At
  <2>. QED BY <2>1, DirectionSound
<1>3. CASE Tcp!DownAnswers(s)
  <2>1. /\ session[s].at = "relay" /\ UNCHANGED <<Tcp!StopsHere, conn>>
        /\ \/ session' = [session EXCEPT ![s].down = "head"]
           \/ session' = [session EXCEPT ![s].down = "body"]
           \/ session' = [session EXCEPT ![s].down = "tunnel", ![s].decision = "yes"]
    BY <1>3 DEF Tcp!DownAnswers, Tcp!Down, Tcp!At
  <2>. QED BY <2>1, DirectionSound
<1>. QED BY <1>1, <1>2, <1>3

LEMMA RelayEndsSound ==
  ASSUME TcpInv, NEW s \in As, Tcp!RelayEnds(s)
  PROVE  TcpInv'
<1>1. /\ session[s].at = "relay" /\ UNCHANGED Tcp!StopsHere /\ Tcp!GoTo(s, "ending")
      /\ conn' = [conn EXCEPT ![s].upstream = "closed"]
  BY DEF Tcp!RelayEnds, Tcp!Up, Tcp!At
<1>2. /\ SessionStep(s, "ending", session[s].registered)
      /\ ConnStep(s, conn[s].client, "closed", conn[s].attached)
  BY <1>1, SessionGoesTo, UpstreamIs DEF TcpSteps
<1>. QED BY <1>1, <1>2, RelaySound

LEMMA FinishSound ==
  ASSUME TcpInv, NEW s \in As, Tcp!Finish(s)
  PROVE  TcpInv'
<1> DEFINE new == [session[s] EXCEPT !.at = "finished", !.registered = FALSE]
<1>1. /\ session[s].at = "ending" /\ UNCHANGED <<Tcp!StopsHere, conn>>
      /\ session' = [session EXCEPT ![s] = new]
  BY DEF Tcp!Finish, Tcp!At
<1>2. session[s] \in TcpSession
  BY DEF TcpInv, TcpTypes
<1>3. new \in TcpSession /\ new.at = "finished" /\ new.registered = FALSE
  BY <1>2, ZenonT(40) DEF TcpSession
<1>. HIDE DEF new
<1>4. /\ SessionStep(s, "finished", FALSE)
      /\ ConnStep(s, conn[s].client, conn[s].upstream, conn[s].attached)
  BY <1>1, <1>3, SessionBecomes, ConnStays
<1>5. Registered(s)'
  BY <1>1, <1>4 DEF TcpInv, Registered, SessionStep, ConnStep
<1>6. ASSUME Swept
      PROVE  Cleared(s)'
  BY <1>1, <1>4, <1>6 DEF TcpInv, Registered, Cleared, SessionStep, ConnStep, Tcp!StopsHere
<1>. QED BY <1>1, <1>4, <1>5, <1>6, TcpStepSound

LEMMA DoneSound ==
  ASSUME TcpInv, NEW s \in As, Tcp!Done(s)
  PROVE  TcpInv'
<1>1. /\ session[s].at = "finished" /\ UNCHANGED Tcp!StopsHere /\ Tcp!GoTo(s, "over")
      /\ conn' = [conn EXCEPT ![s].client = "closed"]
  BY DEF Tcp!Done, Tcp!At
<1>2. /\ SessionStep(s, "over", session[s].registered)
      /\ ConnStep(s, "closed", conn[s].upstream, conn[s].attached)
  BY <1>1, SessionGoesTo, ClientIs DEF TcpSteps
<1>3. Registered(s)' /\ Cleared(s)'
  BY <1>1, <1>2 DEF TcpInv, Registered, Cleared, SessionStep, ConnStep
<1>. QED BY <1>1, <1>2, <1>3, TcpStepSound

LEMMA PeersSound ==
  ASSUME TcpInv, NEW s \in As, Tcp!ClientLeaves(s) \/ Tcp!UpstreamLeaves(s)
  PROVE  TcpInv'
<1>1. UNCHANGED <<Tcp!StopsHere, session>>
  BY DEF Tcp!ClientLeaves, Tcp!UpstreamLeaves
<1>2. SessionStep(s, session[s].at, session[s].registered)
  BY <1>1, SessionStays
<1>3. \/ ConnStep(s, "gone", conn[s].upstream, conn[s].attached)
      \/ ConnStep(s, conn[s].client, "gone", conn[s].attached)
  BY ClientIs, UpstreamIs DEF Tcp!ClientLeaves, Tcp!UpstreamLeaves
<1>4. Registered(s)'
  BY <1>2, <1>3 DEF TcpInv, Registered, SessionStep, ConnStep
<1>5. ASSUME Swept
      PROVE  Cleared(s)'
  BY <1>1, <1>2, <1>3, <1>5 DEF TcpInv, Cleared, SessionStep, ConnStep, Tcp!StopsHere
<1>. QED BY <1>1, <1>2, <1>3, <1>4, <1>5, TcpStepSound

-----------------------------------------------------------------------------
(* ProxySessions: the server.                                              *)

LEMMA StopStepsSound ==
  ASSUME TcpInv, Tcp!Start \/ Tcp!StopFlag \/ Tcp!StopListening
  PROVE  TcpInv'
<1>1. /\ UNCHANGED <<session, conn, late>> /\ ~Swept /\ ~Swept' /\ ServerInv'
  BY DEF Tcp!Start, Tcp!StopFlag, Tcp!StopListening, TcpInv, ServerInv, Swept
<1>2. TcpTypes' /\ \A s \in As : Registered(s)'
  BY <1>1 DEF TcpInv, TcpTypes, Registered
<1>. QED BY <1>1, <1>2 DEF TcpInv

\* CloseAll leaves an upstream to those that have not attached it.
LEMMA CloseAllSound ==
  ASSUME TcpInv, Tcp!CloseAll
  PROVE  TcpInv'
<1> DEFINE closed(s) == [conn[s] EXCEPT !.client = "closed",
                          !.upstream = IF conn[s].attached THEN "closed" ELSE @]
<1>1. /\ server' = "waiting" /\ UNCHANGED <<listening, serverLive, session>>
      /\ ~listening /\ ~serverLive /\ ~Swept
      /\ conn' = [s \in As |-> IF ~session[s].registered THEN conn[s] ELSE closed(s)]
      /\ late' = {s \in As : session[s].at = "dialed"}
  BY DEF Tcp!CloseAll, Tcp!At, TcpInv, ServerInv, Swept
<1>2. ASSUME NEW s \in As
      PROVE  /\ conn[s] \in TcpConn
             /\ closed(s) \in TcpConn /\ closed(s).client = "closed"
             /\ closed(s).attached = conn[s].attached
             /\ closed(s).upstream = IF conn[s].attached THEN "closed" ELSE conn[s].upstream
  <2> DEFINE upstream == IF conn[s].attached THEN "closed" ELSE conn[s].upstream
  <2>1. conn[s] \in TcpConn
    BY DEF TcpInv, TcpTypes
  <2>2. upstream \in {"none", "open", "gone", "closed"}
    BY <2>1 DEF TcpConn
  <2>3. closed(s) = [conn[s] EXCEPT !.client = "closed", !.upstream = upstream]
    OBVIOUS
  <2> HIDE DEF upstream, closed
  <2>4. [conn[s] EXCEPT !.client = "closed", !.upstream = upstream] \in TcpConn
    BY <2>1, <2>2, ZenonT(40) DEF TcpConn
  <2>5. /\ closed(s).client = "closed" /\ closed(s).upstream = upstream
        /\ closed(s).attached = conn[s].attached
    BY <2>1, <2>3, ZenonT(40) DEF TcpConn
  <2>. QED BY <2>1, <2>3, <2>4, <2>5 DEF upstream
<1>. HIDE DEF closed
<1>3. ServerInv' /\ TcpTypes'
  BY <1>1, <1>2 DEF TcpInv, TcpTypes, ServerInv
<1>4. ASSUME NEW s \in As
      PROVE  Registered(s)' /\ Cleared(s)'
  BY <1>1, <1>2 DEF TcpInv, Registered, Cleared
<1>. QED BY <1>3, <1>4 DEF TcpInv

LEMMA StopReturnsSound ==
  ASSUME TcpInv, Tcp!StopReturns
  PROVE  TcpInv'
<1>1. /\ UNCHANGED <<listening, serverLive, session, conn, late>> /\ Swept
      /\ server' \in {"stopped", "timedOut"} /\ server = "waiting"
      /\ server' = "stopped" => \A s \in As : session[s].at \in {"none", "over"}
  BY DEF Tcp!StopReturns, Tcp!AllOver, Swept
<1>2. ServerInv' /\ TcpTypes'
  BY <1>1 DEF TcpInv, TcpTypes, ServerInv
<1>3. ASSUME NEW s \in As
      PROVE  Registered(s)' /\ Cleared(s)'
  BY <1>1 DEF TcpInv, Registered, Cleared
<1>. QED BY <1>2, <1>3 DEF TcpInv

-----------------------------------------------------------------------------
(* ProxySessions: the theorem.                                             *)

LEMMA TcpInit ==
  ASSUME Tcp!Init
  PROVE  TcpInv
<1>1. Tcp!NoSession \in TcpSession
  BY DEF Tcp!NoSession, TcpSession
<1>2. Tcp!NoConn \in TcpConn
  BY DEF Tcp!NoConn, TcpConn
<1>3. TcpTypes /\ ServerInv /\ ~Swept
  BY <1>1, <1>2 DEF Tcp!Init, TcpTypes, ServerInv, Swept
<1>4. ASSUME NEW s \in As
      PROVE  Registered(s)
  BY DEF Tcp!Init, Registered, Tcp!NoSession, Tcp!NoConn
<1>. QED BY <1>3, <1>4 DEF TcpInv

LEMMA TcpNext ==
  ASSUME TcpInv, Tcp!Next
  PROVE  TcpInv'
<1>1. CASE Tcp!ServerStep
  BY <1>1, StopStepsSound, CloseAllSound, StopReturnsSound DEF Tcp!ServerStep
<1>2. ASSUME NEW s \in As, Tcp!Opening(s)
      PROVE  TcpInv'
  BY <1>2, AcceptSound, BeginSound, RequestSound, FailsSound, DialedSound, AttachSound, ReplySound
     DEF Tcp!Opening
<1>3. ASSUME NEW s \in As, Tcp!Relaying(s)
      PROVE  TcpInv'
  BY <1>3, UpSound, DownSound, RelayEndsSound, FinishSound, DoneSound DEF Tcp!Relaying
<1>4. ASSUME NEW s \in As, Tcp!Peers(s)
      PROVE  TcpInv'
  BY <1>4, PeersSound DEF Tcp!Peers
<1>. QED BY <1>1, <1>2, <1>3, <1>4 DEF Tcp!Next

LEMMA TcpRests ==
  ASSUME TcpInv, UNCHANGED tcpVars
  PROVE  TcpInv'
BY DEF tcpVars, TcpInv, TcpTypes, ServerInv, Swept, Registered, Cleared

\* Stop (server.go:236-268): after CloseAll every session has lost its client,
\* and its upstream but for one that had dialled and not attached; a Stop that
\* reports success leaves nothing.
THEOREM StopIsThorough == ProxySpec => []StopReachesSessions
<1>1. ProxyInit => TcpInv
  BY TcpInit DEF ProxyInit
<1>2. TcpInv /\ [ProxyNext]_allVars => TcpInv'
  BY TcpNext, TcpRests
     DEF ProxyNext, allVars, Schedules, Relays, Forwards, Resolves, Transfers
<1>3. TcpInv => StopReachesSessions
  BY DEF TcpInv, StopReachesSessions, Tcp!StopReachesSessions, ServerInv, Swept, Registered,
         Cleared, Tcp!ClientHere, Tcp!UpstreamHere, TcpTypes, TcpSession
<1>. QED BY <1>1, <1>2, <1>3, PTL DEF ProxySpec

-----------------------------------------------------------------------------
(* DnsResolver: the inductive invariant, in named parts.                   *)

DnsKeys == {"ordinary", "legacy"}
Working == {"network", "doh", "legacy", "dot"}
Lookup ==
  [at : Working \cup {"none", "publish", "done"}, key : DnsKeys \cup {None},
   ctx : {"live", "deadline", "cancelled"}, out : {"none", "answer", "failed", "deadline", "cancelled"},
   ttl : BOOLEAN, batches : Nat]
Asker == [key : DnsKeys \cup {None}, call : Bs \cup {None}]
DnsTypes ==
  /\ lookup \in [Bs -> Lookup] /\ inflight \in [DnsKeys -> Bs \cup {None}]
  /\ caller \in [As -> Asker] /\ root \in BOOLEAN /\ plain \in BOOLEAN

\* A lookup that runs is for a name; only a context that was cancelled ends it
\* so; and it asks in the clear only where the policy has that.
LookupInv(l) ==
  /\ lookup[l].at # "none" => lookup[l].key \in DnsKeys
  /\ lookup[l].out = "cancelled" => lookup[l].ctx = "cancelled"
  /\ lookup[l].at \in {"network", "legacy"} /\ lookup[l].key = "ordinary" =>
       config.policy \in {"auto", "off", "system"}

\* What can be joined runs, for that name, and nobody has cancelled it.
FlightInv(k) ==
  inflight[k] # None =>
    /\ lookup[inflight[k]].at \in Working \cup {"publish"} /\ lookup[inflight[k]].key = k
    /\ root => lookup[inflight[k]].ctx # "cancelled"

\* Who waits, waits for the lookup that others would join, or has its answer.
WaitInv(c) ==
  caller[c].call # None =>
    LET l == caller[c].call IN
    /\ lookup[l].at # "none" /\ lookup[l].key = caller[c].key
    /\ root => lookup[l].ctx # "cancelled"
    /\ lookup[l].at # "done" => inflight[caller[c].key] = l

DnsInv ==
  /\ DnsTypes /\ ~plain
  /\ \A l \in Bs : LookupInv(l)
  /\ \A k \in DnsKeys : FlightInv(k)
  /\ \A c \in As : WaitInv(c)

LEMMA DnsInvSuffices ==
  ASSUME DnsInv
  PROVE  LookupsAreSound
<1>1. ASSUME NEW c \in As, caller[c].call # None
      PROVE  LET l == caller[c].call IN
             /\ lookup[l].key = caller[c].key
             /\ root => lookup[l].ctx # "cancelled" /\ lookup[l].out # "cancelled"
             /\ \A d \in As : caller[d].key = caller[c].key /\ caller[d].call \in Dns!Running
                               /\ l \in Dns!Running
                                => caller[d].call = l
  <2>1. caller[c].call \in Bs
    BY <1>1 DEF DnsInv, DnsTypes, Asker
  <2>2. ASSUME NEW d \in As, caller[d].key = caller[c].key, caller[d].call \in Dns!Running,
               caller[c].call \in Dns!Running
        PROVE  caller[d].call = caller[c].call
    <3>1. caller[d].call # None
      BY <2>2, ProxyAssumption DEF Dns!Running
    <3>. QED BY <1>1, <2>2, <3>1 DEF DnsInv, WaitInv, Dns!Running
  <2>. QED BY <1>1, <2>1, <2>2 DEF DnsInv, WaitInv, LookupInv
<1>. QED BY <1>1 DEF DnsInv, LookupsAreSound, Dns!LookupsAreSound, Dns!SharedLookupIsSound,
                     Dns!EncryptedOnly

-----------------------------------------------------------------------------
(* DnsResolver: the lookups.                                               *)

\* A lookup at work that goes on, or is about to be published.
LEMMA LookupGoesOn ==
  ASSUME DnsInv, NEW l \in Bs, lookup[l].at \in Working,
         NEW new \in Lookup, lookup' = [lookup EXCEPT ![l] = new],
         new.at \in Working \cup {"publish"}, new.key = lookup[l].key,
         new.ctx = lookup[l].ctx \/ new.ctx = "deadline",
         new.out = "cancelled" => new.ctx = "cancelled",
         new.at \in {"network", "legacy"} /\ new.key = "ordinary" =>
           config.policy \in {"auto", "off", "system"},
         UNCHANGED <<Dns!Shared, plain>>
  PROVE  DnsInv'
<1>1. UNCHANGED <<config, root, inflight, caller, plain>>
  BY DEF Dns!Shared
<1>2. DnsTypes'
  BY <1>1 DEF DnsInv, DnsTypes
<1>3. lookup'[l] = new /\ \A m \in Bs : m # l => lookup'[m] = lookup[m]
  BY DEF DnsInv, DnsTypes
<1>4. \A m \in Bs : LookupInv(m)'
  BY <1>1, <1>3 DEF DnsInv, LookupInv, Working
<1>5. \A k \in DnsKeys : FlightInv(k)'
  BY <1>1, <1>3 DEF DnsInv, DnsTypes, FlightInv
<1>6. ASSUME NEW c \in As
      PROVE  WaitInv(c)'
  <2>1. caller[c].call # None => caller[c].call \in Bs
    BY DEF DnsInv, DnsTypes, Asker
  <2>. QED BY <1>1, <1>3, <2>1 DEF DnsInv, WaitInv, Working
<1>. QED BY <1>1, <1>2, <1>4, <1>5, <1>6 DEF DnsInv

LEMMA LookupEnds ==
  ASSUME DnsInv, NEW l \in Bs, lookup[l].at \in Working,
         NEW out \in {"answer", "failed", "deadline", "cancelled"}, NEW ttl \in BOOLEAN,
         Dns!Ends(l, out, ttl), out = "cancelled" => lookup[l].ctx = "cancelled",
         UNCHANGED <<Dns!Shared, plain>>
  PROVE  DnsInv'
<1> DEFINE new == [lookup[l] EXCEPT !.at = "publish", !.out = out, !.ttl = ttl]
<1>1. lookup[l] \in Lookup
  BY DEF DnsInv, DnsTypes
<1>2. new \in Lookup
  BY <1>1, ZenonT(60) DEF Lookup
<1>3. new.at = "publish" /\ new.key = lookup[l].key /\ new.ctx = lookup[l].ctx /\ new.out = out
  BY <1>1, ZenonT(60) DEF Lookup
<1>4. lookup' = [lookup EXCEPT ![l] = new]
  BY DEF Dns!Ends
<1>. HIDE DEF new
<1>. QED BY <1>2, <1>3, <1>4, LookupGoesOn

LEMMA LookupMoves ==
  ASSUME DnsInv, NEW l \in Bs, lookup[l].at \in Working, NEW stage \in Working, Dns!Moves(l, stage),
         stage = "legacy" => config.policy = "auto", stage # "network",
         UNCHANGED <<Dns!Shared, plain>>
  PROVE  DnsInv'
<1> DEFINE new == [lookup[l] EXCEPT !.at = stage]
<1>1. lookup[l] \in Lookup
  BY DEF DnsInv, DnsTypes
<1>2. new \in Lookup
  BY <1>1, ZenonT(60) DEF Lookup
<1>3. new.at = stage /\ new.key = lookup[l].key /\ new.ctx = lookup[l].ctx /\ new.out = lookup[l].out
  BY <1>1, ZenonT(60) DEF Lookup
<1>4. lookup' = [lookup EXCEPT ![l] = new]
  BY DEF Dns!Moves
<1>. HIDE DEF new
<1>5. lookup[l].out = "cancelled" => lookup[l].ctx = "cancelled"
  BY DEF DnsInv, LookupInv
<1>. QED BY <1>2, <1>3, <1>4, <1>5, LookupGoesOn

LEMMA AnswersSound ==
  ASSUME DnsInv, NEW l \in Bs, NEW ttl \in BOOLEAN,
         Dns!DoHAnswers(l, ttl) \/ Dns!LegacyAnswers(l, ttl) \/ Dns!DoTAnswers(l, ttl)
  PROVE  DnsInv'
<1>1. lookup[l].at \in Working /\ Dns!Ends(l, "answer", ttl) /\ UNCHANGED Dns!Shared
  BY DEF Dns!DoHAnswers, Dns!LegacyAnswers, Dns!DoTAnswers, Dns!At, Working
<1>2. UNCHANGED plain
  <2>1. CASE Dns!LegacyAnswers(l, ttl)
    BY <2>1 DEF Dns!LegacyAnswers, DnsInv, DnsTypes, LookupInv
  <2>2. CASE ~Dns!LegacyAnswers(l, ttl)
    BY <2>2 DEF Dns!DoHAnswers, Dns!DoTAnswers
  <2>. QED BY <2>1, <2>2
<1>. QED BY <1>1, <1>2, LookupEnds

LEMMA FailuresSound ==
  ASSUME DnsInv, NEW l \in Bs,
         Dns!DoHFails(l) \/ Dns!NetworkFails(l) \/ Dns!LegacyFails(l) \/ Dns!DoTFails(l)
  PROVE  DnsInv'
<1>1. lookup[l].at \in Working /\ UNCHANGED <<Dns!Shared, plain>>
  BY DEF Dns!DoHFails, Dns!NetworkFails, Dns!LegacyFails, Dns!DoTFails, Dns!At, Working
<1>2. \/ Dns!Ends(l, "failed", FALSE)
      \/ Dns!Moves(l, "legacy") /\ config.policy = "auto"
      \/ Dns!Moves(l, "doh")
  BY DEF Dns!DoHFails, Dns!NetworkFails, Dns!LegacyFails, Dns!DoTFails, Dns!FallsBack
<1>3. CASE Dns!Ends(l, "failed", FALSE)
  BY <1>1, <1>3, LookupEnds
<1>4. CASE Dns!Moves(l, "legacy") /\ config.policy = "auto"
  BY <1>1, <1>4, LookupMoves DEF Working
<1>5. CASE Dns!Moves(l, "doh")
  BY <1>1, <1>5, LookupMoves DEF Working
<1>. QED BY <1>2, <1>3, <1>4, <1>5

LEMMA CutSound ==
  ASSUME DnsInv, NEW l \in Bs, Dns!Cut(l)
  PROVE  DnsInv'
<1>1. /\ lookup[l].at \in Working /\ lookup[l].ctx # "live" /\ UNCHANGED <<Dns!Shared, plain>>
      /\ Dns!Ends(l, lookup[l].ctx, FALSE)
  BY DEF Dns!Cut, Working
<1>2. lookup[l].ctx \in {"deadline", "cancelled"}
  BY <1>1 DEF DnsInv, DnsTypes, Lookup
<1>. QED BY <1>1, <1>2, LookupEnds

LEMMA BatchFailsSound ==
  ASSUME DnsInv, NEW l \in Bs, Dns!BatchFails(l)
  PROVE  DnsInv'
<1> DEFINE left == lookup[l].batches - 1
           new == [lookup[l] EXCEPT !.batches = left]
<1>1. /\ lookup[l].at = "doh" /\ lookup[l].batches > 1 /\ UNCHANGED <<Dns!Shared, plain>>
      /\ lookup' = [lookup EXCEPT ![l] = new]
  BY DEF Dns!BatchFails, Dns!At
<1>2. lookup[l] \in Lookup /\ lookup[l].batches \in Nat
  BY DEF DnsInv, DnsTypes, Lookup
<1>3. left \in Nat
  BY <1>1, <1>2
<1>. HIDE DEF left
<1>4. new \in Lookup
  BY <1>2, <1>3, ZenonT(60) DEF Lookup
<1>5. /\ new.at = lookup[l].at /\ new.key = lookup[l].key /\ new.ctx = lookup[l].ctx
      /\ new.out = lookup[l].out
  BY <1>2, ZenonT(60) DEF Lookup
<1>. HIDE DEF new
<1>6. lookup[l].out = "cancelled" => lookup[l].ctx = "cancelled"
  BY DEF DnsInv, LookupInv
<1>. QED BY <1>1, <1>4, <1>5, <1>6, LookupGoesOn DEF Working

LEMMA DeadlineSound ==
  ASSUME DnsInv, NEW l \in Bs, Dns!Deadline(l)
  PROVE  DnsInv'
<1> DEFINE new == [lookup[l] EXCEPT !.ctx = "deadline"]
<1>1. lookup[l] \in Lookup
  BY DEF DnsInv, DnsTypes
<1>2. /\ lookup[l].at \in Working /\ lookup[l].ctx = "live" /\ UNCHANGED <<Dns!Shared, plain>>
      /\ lookup' = [lookup EXCEPT ![l] = new]
  BY <1>1 DEF Dns!Deadline, Dns!Running, Dns!At, Working, Lookup
<1>3. new \in Lookup
  BY <1>1, ZenonT(60) DEF Lookup
<1>4. /\ new.at = lookup[l].at /\ new.key = lookup[l].key /\ new.ctx = "deadline"
      /\ new.out = lookup[l].out
  BY <1>1, ZenonT(60) DEF Lookup
<1>. HIDE DEF new
<1>5. lookup[l].out # "cancelled"
  BY <1>2 DEF DnsInv, LookupInv
<1>6. lookup[l].at \in {"network", "legacy"} /\ lookup[l].key = "ordinary" =>
        config.policy \in {"auto", "off", "system"}
  BY DEF DnsInv, LookupInv
<1>. QED BY <1>2, <1>3, <1>4, <1>5, <1>6, LookupGoesOn

LEMMA FreeLookup == Dns!NoLookup \in Lookup /\ Dns!NoLookup.at = "none" /\ Dns!NoLookup.out = "none"
BY ProxyAssumption DEF Dns!NoLookup, Lookup

\* The end of a lookup: nobody can join it any more, and who waits has it.
LEMMA PublishSound ==
  ASSUME DnsInv, NEW l \in Bs, Dns!Publish(l)
  PROVE  DnsInv'
<1> DEFINE k == lookup[l].key
           done == [lookup[l] EXCEPT !.at = "done"]
           new == IF Dns!Waiters(l) = {} THEN Dns!NoLookup ELSE done
<1>1. lookup[l].at = "publish" /\ UNCHANGED <<config, root, caller, plain>>
  BY DEF Dns!Publish, Dns!At
<1>2. lookup[l] \in Lookup /\ k \in DnsKeys
  BY <1>1 DEF DnsInv, DnsTypes, LookupInv
<1>3. /\ lookup' = [lookup EXCEPT ![l] = new]
      /\ inflight' = IF inflight[k] = l THEN [inflight EXCEPT ![k] = None] ELSE inflight
  BY DEF Dns!Publish, Dns!OwnEntry
<1>4. done \in Lookup
  BY <1>2, ZenonT(60) DEF Lookup
<1>5. /\ done.at = "done" /\ done.key = k /\ done.ctx = lookup[l].ctx /\ done.out = lookup[l].out
  BY <1>2, ZenonT(60) DEF Lookup
<1>. HIDE DEF done
<1>6. /\ new \in Lookup /\ new.at \in {"none", "done"}
      /\ new.at = "none" => new.out = "none" /\ Dns!Waiters(l) = {}
      /\ new.at = "done" => new.key = k /\ new.ctx = lookup[l].ctx /\ new.out = lookup[l].out
  BY <1>4, <1>5, FreeLookup
<1>. HIDE DEF new
<1>7. DnsTypes'
  BY <1>1, <1>3, <1>6 DEF DnsInv, DnsTypes
<1>8. lookup'[l] = new /\ \A m \in Bs : m # l => lookup'[m] = lookup[m]
  BY <1>3, <1>6 DEF DnsInv, DnsTypes
<1>9. \A j \in DnsKeys : inflight'[j] = IF inflight[j] = l /\ j = k THEN None ELSE inflight[j]
  BY <1>3 DEF DnsInv, DnsTypes
<1>10. \A j \in DnsKeys : inflight[j] = l => j = k
  BY ProxyAssumption DEF DnsInv, FlightInv
<1>11. \A m \in Bs : LookupInv(m)'
  BY <1>1, <1>2, <1>6, <1>8 DEF DnsInv, LookupInv
<1>12. ASSUME NEW j \in DnsKeys
       PROVE  FlightInv(j)'
  <2>1. inflight[j] \in Bs \cup {None}
    BY DEF DnsInv, DnsTypes
  <2>. QED BY <1>1, <1>8, <1>9, <1>10, <2>1 DEF DnsInv, FlightInv
<1>13. ASSUME NEW c \in As
       PROVE  WaitInv(c)'
  <2>1. caller[c].call # None => caller[c].call \in Bs /\ caller[c].key \in DnsKeys
    BY DEF DnsInv, DnsTypes, Asker, WaitInv, LookupInv
  <2>2. CASE caller[c].call = l
    <3>1. new.at = "done"
      BY <1>6, <2>2 DEF Dns!Waiters
    <3>. QED BY <1>1, <1>6, <1>8, <2>2, <3>1 DEF DnsInv, WaitInv
  <2>3. CASE caller[c].call # l
    BY <1>1, <1>8, <1>9, <2>1, <2>3 DEF DnsInv, WaitInv
  <2>. QED BY <2>2, <2>3
<1>. QED BY <1>1, <1>7, <1>11, <1>12, <1>13 DEF DnsInv

-----------------------------------------------------------------------------
(* DnsResolver: the callers, and the end of the server.                    *)

\* What a lookup begins with suits the policy.
LEMMA FirstStageIs ==
  ASSUME NEW k \in DnsKeys
  PROVE  /\ Dns!FirstStage(k) \in Working
         /\ k = "ordinary" /\ Dns!FirstStage(k) \in {"network", "legacy"} =>
              config.policy \in {"auto", "off", "system"}
BY DEF Dns!FirstStage, Dns!Encrypts, DnsKeys, Working

LEMMA AskSound ==
  ASSUME DnsInv, NEW c \in As, NEW k \in DnsKeys, NEW l \in Bs, Dns!Ask(c, k, l)
  PROVE  DnsInv'
<1> DEFINE ctx == IF root THEN "live" ELSE "cancelled"
           stage == Dns!FirstStage(k)
           new == [Dns!NoLookup EXCEPT !.at = stage, !.key = k, !.ctx = ctx]
           asker == [key |-> k, call |-> l]
<1>1. /\ caller[c].call = None /\ caller' = [caller EXCEPT ![c] = asker]
      /\ UNCHANGED <<config, root, plain>>
  BY DEF Dns!Ask, Dns!Idle
<1>2. asker \in Asker /\ asker.key = k /\ asker.call = l
  BY DEF Asker
<1>. HIDE DEF asker
<1>3. caller'[c] = asker /\ \A d \in As : d # c => caller'[d] = caller[d]
  BY <1>1, <1>2 DEF DnsInv, DnsTypes
<1>4. caller' \in [As -> Asker]
  BY <1>1, <1>2 DEF DnsInv, DnsTypes
<1>5. CASE inflight[k] # None
  <2>1. l = inflight[k] /\ UNCHANGED <<inflight, lookup>>
    BY <1>5 DEF Dns!Ask
  <2>2. DnsTypes'
    BY <1>1, <1>4, <2>1 DEF DnsInv, DnsTypes
  <2>3. /\ \A m \in Bs : LookupInv(m)'
        /\ \A j \in DnsKeys : FlightInv(j)'
    BY <1>1, <2>1 DEF DnsInv, LookupInv, FlightInv
  <2>4. WaitInv(c)'
    BY <1>1, <1>2, <1>3, <1>5, <2>1 DEF DnsInv, FlightInv, WaitInv, Working
  <2>5. \A d \in As : d # c => WaitInv(d)'
    BY <1>1, <1>3, <2>1 DEF DnsInv, WaitInv
  <2>. QED BY <1>1, <2>2, <2>3, <2>4, <2>5 DEF DnsInv
<1>6. CASE inflight[k] = None
  <2>1. /\ lookup[l].at = "none" /\ inflight' = [inflight EXCEPT ![k] = l]
        /\ lookup' = [lookup EXCEPT ![l] = new]
    BY <1>6 DEF Dns!Ask, Dns!At
  <2>2. /\ stage \in Working
        /\ k = "ordinary" /\ stage \in {"network", "legacy"} =>
             config.policy \in {"auto", "off", "system"}
    BY FirstStageIs
  <2>3. ctx \in {"live", "cancelled"} /\ (root => ctx = "live")
    OBVIOUS
  <2>. HIDE DEF ctx, stage
  <2>4. new \in Lookup
    BY <2>2, <2>3, FreeLookup, ZenonT(60) DEF Lookup
  <2>5. new.at = stage /\ new.key = k /\ new.ctx = ctx /\ new.out = "none"
    BY FreeLookup, ZenonT(60) DEF Lookup
  <2>. HIDE DEF new
  <2>6. DnsTypes'
    BY <1>1, <1>4, <2>1, <2>4 DEF DnsInv, DnsTypes
  <2>7. /\ lookup'[l] = new /\ \A m \in Bs : m # l => lookup'[m] = lookup[m]
        /\ inflight'[k] = l /\ \A j \in DnsKeys : j # k => inflight'[j] = inflight[j]
    BY <2>1 DEF DnsInv, DnsTypes
  <2>8. \A m \in Bs : LookupInv(m)'
    BY <1>1, <2>2, <2>5, <2>7 DEF DnsInv, LookupInv
  <2>9. ASSUME NEW j \in DnsKeys
        PROVE  FlightInv(j)'
    <3>1. inflight[j] \in Bs \cup {None}
      BY DEF DnsInv, DnsTypes
    <3>2. inflight[j] # l
      BY <2>1, ProxyAssumption DEF DnsInv, FlightInv, Working
    <3>. QED BY <1>1, <2>2, <2>3, <2>5, <2>7, <3>1, <3>2 DEF DnsInv, FlightInv
  <2>10. WaitInv(c)'
    BY <1>1, <1>2, <1>3, <2>2, <2>3, <2>5, <2>7 DEF WaitInv, Working
  <2>11. ASSUME NEW d \in As, d # c
         PROVE  WaitInv(d)'
    <3>1. caller[d].call # None =>
            /\ caller[d].call \in Bs /\ caller[d].call # l /\ caller[d].key \in DnsKeys
            /\ lookup[caller[d].call].at # "done" => caller[d].key # k
      BY <1>6, <2>1, ProxyAssumption DEF DnsInv, DnsTypes, Asker, WaitInv, LookupInv
    <3>. QED BY <1>1, <1>3, <2>7, <2>11, <3>1 DEF DnsInv, WaitInv
  <2>. QED BY <1>1, <2>6, <2>8, <2>9, <2>10, <2>11 DEF DnsInv
<1>. QED BY <1>5, <1>6

\* Who leaves as the last cancels what nobody can join then.
LEMMA LeaveSound ==
  ASSUME DnsInv, NEW c \in As, Dns!Leave(c)
  PROVE  DnsInv'
<1> DEFINE l == caller[c].call
           k == caller[c].key
           ctx == IF lookup[l].ctx = "live" THEN "cancelled" ELSE lookup[l].ctx
           cut == [lookup[l] EXCEPT !.ctx = ctx]
           new == IF lookup[l].at = "done" THEN Dns!NoLookup ELSE cut
<1>1. /\ l # None /\ caller' = [caller EXCEPT ![c] = Dns!NoCaller]
      /\ UNCHANGED <<config, root, plain>>
  BY DEF Dns!Leave, Dns!Idle
<1>2. l \in Bs /\ k \in DnsKeys /\ lookup[l].key = k /\ lookup[l] \in Lookup
  BY <1>1 DEF DnsInv, DnsTypes, Asker, WaitInv, LookupInv
<1>3. Dns!NoCaller \in Asker /\ Dns!NoCaller.call = None
  BY DEF Dns!NoCaller, Asker
<1>4. /\ caller' \in [As -> Asker] /\ caller'[c].call = None
      /\ \A d \in As : d # c => caller'[d] = caller[d]
  BY <1>1, <1>3 DEF DnsInv, DnsTypes
<1>5. CASE Dns!Waiters(l) # {c}
  <2>1. UNCHANGED <<lookup, inflight>>
    BY <1>5 DEF Dns!Leave
  <2>2. DnsTypes'
    BY <1>1, <1>4, <2>1 DEF DnsInv, DnsTypes
  <2>3. /\ \A m \in Bs : LookupInv(m)'
        /\ \A j \in DnsKeys : FlightInv(j)'
    BY <1>1, <2>1 DEF DnsInv, LookupInv, FlightInv
  <2>4. \A d \in As : WaitInv(d)'
    BY <1>1, <1>4, <2>1 DEF DnsInv, WaitInv
  <2>. QED BY <1>1, <2>2, <2>3, <2>4 DEF DnsInv
<1>6. CASE Dns!Waiters(l) = {c}
  <2>1. /\ inflight' = IF inflight[k] = l THEN [inflight EXCEPT ![k] = None] ELSE inflight
        /\ lookup' = [lookup EXCEPT ![l] = new]
    BY <1>6 DEF Dns!Leave, Dns!Unlisted, Dns!At
  <2>2. ctx \in {"deadline", "cancelled"}
    BY <1>2 DEF Lookup
  <2>. HIDE DEF ctx
  <2>3. cut \in Lookup
    BY <1>2, <2>2, ZenonT(60) DEF Lookup
  <2>4. cut.at = lookup[l].at /\ cut.key = k /\ cut.ctx = ctx /\ cut.out = lookup[l].out
    BY <1>2, ZenonT(60) DEF Lookup
  <2>5. lookup[l].out = "cancelled" => ctx = "cancelled"
    BY <1>2 DEF ctx, DnsInv, LookupInv
  <2>. HIDE DEF cut
  <2>6. /\ new \in Lookup
        /\ \/ new.at = "none" /\ new.out = "none"
           \/ /\ new.at = lookup[l].at /\ new.key = k
              /\ new.out = "cancelled" => new.ctx = "cancelled"
    BY <2>3, <2>4, <2>5, FreeLookup
  <2>. HIDE DEF new
  <2>7. DnsTypes'
    BY <1>1, <1>4, <2>1, <2>6 DEF DnsInv, DnsTypes
  <2>8. /\ lookup'[l] = new /\ \A m \in Bs : m # l => lookup'[m] = lookup[m]
        /\ \A j \in DnsKeys : inflight'[j] = IF inflight[j] = l /\ j = k THEN None ELSE inflight[j]
    BY <1>2, <2>1 DEF DnsInv, DnsTypes
  <2>9. \A m \in Bs : LookupInv(m)'
    BY <1>1, <1>2, <2>6, <2>8 DEF DnsInv, LookupInv
  <2>10. ASSUME NEW j \in DnsKeys
         PROVE  FlightInv(j)'
    <3>1. inflight[j] \in Bs \cup {None} /\ (inflight[j] = l => j = k)
      BY <1>1, <1>2 DEF DnsInv, DnsTypes, FlightInv
    <3>. QED BY <1>1, <2>8, <3>1 DEF DnsInv, FlightInv
  <2>11. ASSUME NEW d \in As
         PROVE  WaitInv(d)'
    <3>1. CASE d = c
      BY <1>4, <3>1 DEF WaitInv
    <3>2. CASE d # c
      <4>1. caller[d].call # l
        BY <1>6, <3>2 DEF Dns!Waiters
      <4>2. caller[d].call # None => caller[d].call \in Bs /\ caller[d].key \in DnsKeys
        BY DEF DnsInv, DnsTypes, Asker, WaitInv, LookupInv
      <4>. QED BY <1>1, <1>4, <2>8, <3>2, <4>1, <4>2 DEF DnsInv, WaitInv
    <3>. QED BY <3>1, <3>2
  <2>. QED BY <1>1, <2>7, <2>9, <2>10, <2>11 DEF DnsInv
<1>. QED BY <1>5, <1>6

\* What the end of the server cancels it may.
LEMMA RootEndsSound ==
  ASSUME DnsInv, Dns!RootEnds
  PROVE  DnsInv'
<1> DEFINE cut(l) == [lookup[l] EXCEPT !.ctx = "cancelled"]
<1>1. root' = FALSE /\ UNCHANGED <<config, inflight, caller, plain>>
  BY DEF Dns!RootEnds
<1>2. lookup' = [l \in Bs |-> IF l \in Dns!Running /\ lookup[l].ctx = "live"
                               THEN cut(l) ELSE lookup[l]]
  BY DEF Dns!RootEnds
<1>3. ASSUME NEW l \in Bs
      PROVE  /\ lookup[l] \in Lookup /\ cut(l) \in Lookup
             /\ cut(l).at = lookup[l].at /\ cut(l).key = lookup[l].key
             /\ cut(l).ctx = "cancelled" /\ cut(l).out = lookup[l].out
  <2>1. lookup[l] \in Lookup
    BY DEF DnsInv, DnsTypes
  <2>2. cut(l) \in Lookup
    BY <2>1, ZenonT(60) DEF Lookup
  <2>3. /\ cut(l).at = lookup[l].at /\ cut(l).key = lookup[l].key
        /\ cut(l).ctx = "cancelled" /\ cut(l).out = lookup[l].out
    BY <2>1, ZenonT(60) DEF Lookup
  <2>. QED BY <2>1, <2>2, <2>3
<1>. HIDE DEF cut
<1>4. \A l \in Bs : /\ lookup'[l] \in Lookup
                    /\ lookup'[l].at = lookup[l].at /\ lookup'[l].key = lookup[l].key
                    /\ lookup'[l].out = lookup[l].out
                    /\ lookup'[l].ctx \in {lookup[l].ctx, "cancelled"}
  BY <1>2, <1>3
<1>5. DnsTypes'
  BY <1>1, <1>2, <1>4 DEF DnsInv, DnsTypes
<1>6. /\ \A l \in Bs : LookupInv(l)'
      /\ \A k \in DnsKeys : FlightInv(k)'
  BY <1>1, <1>4 DEF DnsInv, DnsTypes, LookupInv, FlightInv
<1>7. ASSUME NEW c \in As
      PROVE  WaitInv(c)'
  <2>1. caller[c].call # None => caller[c].call \in Bs
    BY DEF DnsInv, DnsTypes, Asker
  <2>. QED BY <1>1, <1>4, <2>1 DEF DnsInv, WaitInv
<1>. QED BY <1>1, <1>5, <1>6, <1>7 DEF DnsInv

LEMMA ExpiresSound ==
  ASSUME DnsInv, UNCHANGED <<config, root, lookup, inflight, caller, plain>>
  PROVE  DnsInv'
BY DEF DnsInv, DnsTypes, LookupInv, FlightInv, WaitInv

-----------------------------------------------------------------------------
(* DnsResolver: the theorem.                                               *)

LEMMA DnsInit ==
  ASSUME Dns!Init
  PROVE  DnsInv
<1>1. Dns!NoCaller \in Asker /\ Dns!NoCaller.call = None
  BY DEF Dns!NoCaller, Asker
<1>2. DnsTypes /\ ~plain
  BY <1>1, FreeLookup DEF Dns!Init, DnsTypes, DnsKeys
<1>3. /\ \A l \in Bs : LookupInv(l)
      /\ \A k \in DnsKeys : FlightInv(k)
      /\ \A c \in As : WaitInv(c)
  BY <1>1, FreeLookup DEF Dns!Init, LookupInv, FlightInv, WaitInv, DnsKeys
<1>. QED BY <1>2, <1>3 DEF DnsInv

LEMMA DnsNext ==
  ASSUME DnsInv, Dns!Next
  PROVE  DnsInv'
<1>1. ASSUME NEW l \in Bs, NEW ttl \in BOOLEAN,
             Dns!DoHAnswers(l, ttl) \/ Dns!LegacyAnswers(l, ttl) \/ Dns!DoTAnswers(l, ttl)
      PROVE  DnsInv'
  BY <1>1, AnswersSound
<1>2. ASSUME NEW l \in Bs,
             \/ Dns!BatchFails(l) \/ Dns!DoHFails(l) \/ Dns!NetworkFails(l) \/ Dns!LegacyFails(l)
             \/ Dns!DoTFails(l) \/ Dns!Cut(l) \/ Dns!Deadline(l) \/ Dns!Publish(l)
      PROVE  DnsInv'
  BY <1>2, BatchFailsSound, FailuresSound, CutSound, DeadlineSound, PublishSound
<1>3. ASSUME NEW c \in As, (\E k \in DnsKeys, l \in Bs : Dns!Ask(c, k, l)) \/ Dns!Leave(c)
      PROVE  DnsInv'
  BY <1>3, AskSound, LeaveSound
<1>4. CASE (\E k \in DnsKeys : Dns!Expires(k)) \/ Dns!RootEnds
  <2>1. ASSUME NEW k \in DnsKeys, Dns!Expires(k)
        PROVE  DnsInv'
    BY <2>1, ExpiresSound DEF Dns!Expires
  <2>. QED BY <1>4, <2>1, RootEndsSound
<1>. QED BY <1>1, <1>2, <1>3, <1>4 DEF Dns!Next, DnsKeys

LEMMA DnsRests ==
  ASSUME DnsInv, UNCHANGED dnsVars
  PROVE  DnsInv'
BY ExpiresSound DEF dnsVars

\* resolve, runLookup (resolver.go): one caller that gives up harms no other,
\* and a name a provider was chosen for is never asked in the clear.
THEOREM LookupsShared == ProxySpec => []LookupsAreSound
<1>1. ProxyInit => DnsInv
  BY DnsInit DEF ProxyInit
<1>2. DnsInv /\ [ProxyNext]_allVars => DnsInv'
  BY DnsNext, DnsRests
     DEF ProxyNext, allVars, Schedules, Relays, Forwards, Resolves, Transfers
<1>3. DnsInv => LookupsAreSound
  BY DnsInvSuffices
<1>. QED BY <1>1, <1>2, <1>3, PTL DEF ProxySpec

-----------------------------------------------------------------------------
(* SteamCdn: the inductive invariant, in named parts.                      *)

Transfer ==
  [at : {"none", "connected", "reserved", "dialed", "ready", "relay", "moved", "ending", "over"},
   ip : Bs \cup {None}, gen : Nat, trial : BOOLEAN, original : BOOLEAN, replacement : BOOLEAN]
Traffic == [trials : Nat, active : Nat]
ProbeJob == [gen : Nat, on : BOOLEAN]
SteamTypes ==
  /\ cdn \in [enabled : BOOLEAN, gen : Nat]
  /\ transfer \in [As -> Transfer] /\ traffic \in [Bs -> Traffic]
  /\ probe \in [Cs -> ProbeJob] /\ probing \in Nat

\* A session has an address from its trial to its end, or to the failure of the
\* trial; it has the upstream of that address once it has moved, and its own
\* before, as long as Stop has not closed the sessions.
Serves == accelerator # "closed"
HasTrial(t) == t.at \in {"reserved", "dialed", "moved"}
                 \/ (t.at \in {"ready", "relay", "ending"} /\ t.trial)
Upstream(t) ==
  /\ t.ip # None <=> HasTrial(t)
  /\ t.trial => t.at \in {"moved", "ready", "relay", "ending"}
  /\ t.at = "moved" => t.trial /\ (t.replacement <=> Serves)
  /\ t.at = "none" => ~t.original /\ ~t.replacement
  /\ t.at \in {"connected", "reserved", "dialed"} => (t.original <=> Serves)
  /\ t.at \in {"connected", "reserved"} => ~t.replacement
  /\ t.at = "dialed" => t.replacement
  /\ t.at \in {"ready", "relay"} => IF t.trial THEN ~t.original /\ (t.replacement <=> Serves)
                                               ELSE ~t.replacement /\ (t.original <=> Serves)
TransferInv == \A s \in As : Upstream(transfer[s]) /\ transfer[s].gen <= cdn.gen

\* What the counters count.
Holders(i)  == {s \in As : transfer[s].ip = i /\ transfer[s].gen = cdn.gen}
Carriers(i) == {s \in Holders(i) : transfer[s].at = "relay"}
CountInv ==
  cdn.enabled =>
    \A i \in Bs : /\ traffic[i].trials = Cardinality(Holders(i))
                  /\ traffic[i].active = Cardinality(Carriers(i))
                  /\ traffic[i].trials <= MaxTrials

JobsNow == {j \in Cs : probe[j].on /\ probe[j].gen = cdn.gen}
ProbeInv ==
  /\ probing = Cardinality(JobsNow)
  /\ \A j \in Cs : probe[j].on => probe[j].gen <= cdn.gen

SteamInv == SteamTypes /\ TransferInv /\ CountInv /\ ProbeInv

\* The module counts as this one does.
LEMMA SameCardinality == \A S : Steam!Cardinality(S) = Cardinality(S)
BY DEF Steam!Cardinality, Cardinality

LEMMA SteamInvSuffices ==
  ASSUME SteamInv
  PROVE  TransfersAreSound
<1>1. Steam!OneUpstream
  BY DEF SteamInv, TransferInv, Upstream, Serves, Steam!OneUpstream
<1>2. Steam!CountersFollowSessions
  BY SameCardinality
     DEF SteamInv, CountInv, ProbeInv, Holders, Carriers, JobsNow, Steam!At,
         Steam!CountersFollowSessions
<1>. QED BY <1>1, <1>2 DEF TransfersAreSound, Steam!TransfersAreSound

-----------------------------------------------------------------------------
(* SteamCdn: counting.                                                     *)

LEMMA OneMore ==
  ASSUME NEW S, IsFiniteSet(S), NEW x, x \notin S
  PROVE  Cardinality(S \cup {x}) = Cardinality(S) + 1 /\ Cardinality(S) \in Nat
BY FS_AddElement, FS_CardinalityType

LEMMA OneLess ==
  ASSUME NEW S, IsFiniteSet(S), NEW x \in S
  PROVE  /\ Cardinality(S \ {x}) = Cardinality(S) - 1 /\ Cardinality(S) \in Nat
         /\ Cardinality(S) # 0
<1>1. Cardinality(S \ {x}) = Cardinality(S) - 1 /\ Cardinality(S) \in Nat
  BY FS_RemoveElement, FS_CardinalityType
<1>2. Cardinality(S) # 0
  BY FS_EmptySet
<1>. QED BY <1>1, <1>2

LEMMA FewHolders ==
  ASSUME NEW i
  PROVE  IsFiniteSet(Holders(i)) /\ IsFiniteSet(Carriers(i))
BY ProxyAssumption, FS_Subset DEF Holders, Carriers

\* A step of one session, of whose address the counters may change.
TransferStep(s, t) ==
  /\ transfer' \in [As -> Transfer] /\ transfer'[s] = t
  /\ \A r \in As : r # s => transfer'[r] = transfer[r]
TrafficStep(i, trials, active) ==
  /\ traffic' \in [Bs -> Traffic] /\ traffic'[i].trials = trials /\ traffic'[i].active = active
  /\ \A k \in Bs : k # i => traffic'[k] = traffic[k]
Rest == <<accelerator, cdn, probing, probe>>

LEMMA TransferStepSound ==
  ASSUME SteamInv, NEW s \in As, NEW t \in Transfer, TransferStep(s, t), UNCHANGED Rest,
         traffic' \in [Bs -> Traffic], Upstream(t), t.gen <= cdn.gen, CountInv'
  PROVE  SteamInv'
<1>1. SteamTypes' /\ ProbeInv'
  BY DEF SteamInv, SteamTypes, ProbeInv, JobsNow, Rest, TransferStep
<1>2. TransferInv'
  BY DEF SteamInv, TransferInv, Upstream, HasTrial, Serves, Rest, TransferStep
<1>. QED BY <1>1, <1>2 DEF SteamInv

LEMMA TransferBecomes ==
  ASSUME SteamInv, NEW s \in As, NEW t \in Transfer, transfer' = [transfer EXCEPT ![s] = t]
  PROVE  TransferStep(s, t)
BY DEF SteamInv, SteamTypes, TransferStep

LEMMA TrialsBecome ==
  ASSUME SteamInv, NEW i \in Bs, NEW n \in Nat, traffic' = [traffic EXCEPT ![i].trials = n]
  PROVE  TrafficStep(i, n, traffic[i].active)
<1> DEFINE rec == [traffic[i] EXCEPT !.trials = n]
<1>1. traffic[i] \in Traffic
  BY DEF SteamInv, SteamTypes
<1>2. rec \in Traffic /\ rec.trials = n /\ rec.active = traffic[i].active
  BY <1>1, ZenonT(40) DEF Traffic
<1>3. traffic' = [traffic EXCEPT ![i] = rec]
  OBVIOUS
<1>. HIDE DEF rec
<1>. QED BY <1>2, <1>3 DEF SteamInv, SteamTypes, TrafficStep

LEMMA ActiveBecomes ==
  ASSUME SteamInv, NEW i \in Bs, NEW n \in Nat, traffic' = [traffic EXCEPT ![i].active = n]
  PROVE  TrafficStep(i, traffic[i].trials, n)
<1> DEFINE rec == [traffic[i] EXCEPT !.active = n]
<1>1. traffic[i] \in Traffic
  BY DEF SteamInv, SteamTypes
<1>2. rec \in Traffic /\ rec.active = n /\ rec.trials = traffic[i].trials
  BY <1>1, ZenonT(40) DEF Traffic
<1>3. traffic' = [traffic EXCEPT ![i] = rec]
  OBVIOUS
<1>. HIDE DEF rec
<1>. QED BY <1>2, <1>3 DEF SteamInv, SteamTypes, TrafficStep

\* Nobody is counted anew.
LEMMA CountsKept ==
  ASSUME SteamInv, NEW s \in As, NEW t \in Transfer, TransferStep(s, t),
         UNCHANGED <<cdn, traffic>>,
         \A i \in Bs : /\ s \in Holders(i)' <=> s \in Holders(i)
                       /\ s \in Carriers(i)' <=> s \in Carriers(i)
  PROVE  CountInv'
<1>1. ASSUME NEW i \in Bs
      PROVE  Holders(i)' = Holders(i) /\ Carriers(i)' = Carriers(i)
  <2>1. \A r \in As : r # s => (r \in Holders(i)' <=> r \in Holders(i))
                            /\ (r \in Carriers(i)' <=> r \in Carriers(i))
    BY DEF TransferStep, Holders, Carriers
  <2>2. /\ Holders(i)' \subseteq As /\ Holders(i) \subseteq As
        /\ Carriers(i)' \subseteq As /\ Carriers(i) \subseteq As
    BY DEF Holders, Carriers
  <2>3. (s \in Holders(i)' <=> s \in Holders(i)) /\ (s \in Carriers(i)' <=> s \in Carriers(i))
    OBVIOUS
  <2>4. Holders(i)' = Holders(i)
    BY <2>1, <2>2, <2>3
  <2>5. Carriers(i)' = Carriers(i)
    BY <2>1, <2>2, <2>3
  <2>. QED BY <2>4, <2>5
<1>. QED BY <1>1 DEF SteamInv, CountInv

\* A trial begins, which is admissible.
LEMMA TrialBegins ==
  ASSUME SteamInv, NEW s \in As, NEW t \in Transfer, TransferStep(s, t), UNCHANGED cdn,
         NEW i \in Bs, transfer[s].ip = None, t.ip = i, t.gen = cdn.gen, t.at # "relay",
         TrafficStep(i, traffic[i].trials + 1, traffic[i].active),
         traffic[i].trials + 1 <= MaxTrials
  PROVE  CountInv'
<1>1. Holders(i)' = Holders(i) \cup {s} /\ s \notin Holders(i) /\ Carriers(i)' = Carriers(i)
  BY ProxyAssumption DEF TransferStep, Holders, Carriers
<1>2. \A k \in Bs : k # i => Holders(k)' = Holders(k) /\ Carriers(k)' = Carriers(k)
  BY ProxyAssumption DEF TransferStep, Holders, Carriers
<1>3. Cardinality(Holders(i)') = Cardinality(Holders(i)) + 1
  BY <1>1, FewHolders, OneMore
<1>. QED BY <1>1, <1>2, <1>3 DEF SteamInv, CountInv, TrafficStep

\* A trial ends: it is returned, unless there was a reset since it began.
LEMMA TrialEnds ==
  ASSUME SteamInv, NEW s \in As, NEW t \in Transfer, TransferStep(s, t), UNCHANGED cdn,
         transfer[s].ip \in Bs, t.ip = None, transfer[s].at # "relay",
         traffic' = Steam!Released(s)
  PROVE  CountInv' /\ traffic' \in [Bs -> Traffic]
<1>0. PICK i \in Bs : i = transfer[s].ip
  OBVIOUS
<1>1. traffic \in [Bs -> Traffic] /\ traffic[i] \in Traffic /\ traffic[i].trials \in Nat
  BY DEF SteamInv, SteamTypes, Traffic
<1>2. CASE Steam!Current(s) /\ traffic[i].trials > 0
  <2>1. traffic' = [traffic EXCEPT ![i].trials = traffic[i].trials - 1]
    BY <1>0, <1>2 DEF Steam!Released
  <2>2. TrafficStep(i, traffic[i].trials - 1, traffic[i].active)
    <3>1. traffic[i].trials - 1 \in Nat
      BY <1>1, <1>2
    <3>. QED BY <2>1, <3>1, TrialsBecome
  <2>3. Holders(i)' = Holders(i) \ {s} /\ s \in Holders(i) /\ Carriers(i)' = Carriers(i)
    BY <1>0, <1>2, ProxyAssumption DEF TransferStep, Holders, Carriers, Steam!Current
  <2>4. \A k \in Bs : k # i => Holders(k)' = Holders(k) /\ Carriers(k)' = Carriers(k)
    BY <1>0, ProxyAssumption DEF TransferStep, Holders, Carriers
  <2>5. Cardinality(Holders(i)') = Cardinality(Holders(i)) - 1
    BY <2>3, FewHolders, OneLess
  <2>6. CountInv'
    <3>1. ASSUME cdn.enabled
          PROVE  /\ traffic'[i].trials = Cardinality(Holders(i)')
                 /\ traffic'[i].active = Cardinality(Carriers(i)')
                 /\ traffic'[i].trials <= MaxTrials
      <4>1. /\ traffic[i].trials = Cardinality(Holders(i)) /\ traffic[i].trials <= MaxTrials
            /\ traffic[i].active = Cardinality(Carriers(i))
        BY <3>1 DEF SteamInv, CountInv
      <4>. QED BY <1>1, <2>2, <2>3, <2>5, <4>1, ProxyAssumption DEF TrafficStep
    <3>. QED BY <2>2, <2>4, <3>1 DEF SteamInv, CountInv, TrafficStep
  <2>. QED BY <2>2, <2>6 DEF TrafficStep
<1>3. CASE ~(Steam!Current(s) /\ traffic[i].trials > 0)
  <2>1. UNCHANGED traffic
    BY <1>0, <1>3 DEF Steam!Released
  <2>2. ASSUME cdn.enabled
        PROVE  s \notin Holders(i)
    <3>1. ASSUME s \in Holders(i)
          PROVE  FALSE
      <4>1. Steam!Current(s)
        BY <2>2, <3>1 DEF Holders, Steam!Current
      <4>2. traffic[i].trials = Cardinality(Holders(i)) /\ Cardinality(Holders(i)) # 0
        BY <2>2, <3>1, FewHolders, OneLess DEF SteamInv, CountInv
      <4>. QED BY <1>1, <1>3, <4>1, <4>2
    <3>. QED BY <3>1
  <2>3. ASSUME cdn.enabled, NEW k \in Bs
        PROVE  /\ s \in Holders(k)' <=> s \in Holders(k)
               /\ s \in Carriers(k)' <=> s \in Carriers(k)
    BY <1>0, <2>2, <2>3, ProxyAssumption DEF TransferStep, Holders, Carriers
  <2>4. CountInv'
    <3>1. CASE cdn.enabled
      BY <2>1, <2>3, <3>1, CountsKept
    <3>2. CASE ~cdn.enabled
      BY <3>2 DEF CountInv
    <3>. QED BY <3>1, <3>2
  <2>. QED BY <1>1, <2>1, <2>4
<1>. QED BY <1>2, <1>3

-----------------------------------------------------------------------------
(* SteamCdn: the sessions.                                                 *)

\* A step of a session that leaves it what it has, or has not, counted.
LEMMA SessionMoves ==
  ASSUME SteamInv, NEW s \in As, NEW t \in Transfer, transfer' = [transfer EXCEPT ![s] = t],
         UNCHANGED <<Rest, traffic>>, Upstream(t), t.gen <= cdn.gen,
         t.ip = transfer[s].ip, t.gen = transfer[s].gen \/ t.ip = None,
         transfer[s].at # "relay", t.at # "relay"
  PROVE  SteamInv'
<1>1. TransferStep(s, t)
  BY TransferBecomes
<1>2. UNCHANGED cdn
  BY DEF Rest
<1>3. \A i \in Bs : /\ s \in Holders(i)' <=> s \in Holders(i)
                    /\ s \in Carriers(i)' <=> s \in Carriers(i)
  BY <1>1, <1>2, ProxyAssumption DEF TransferStep, Holders, Carriers
<1>4. CountInv'
  BY <1>1, <1>2, <1>3, CountsKept
<1>. QED BY <1>1, <1>4, TransferStepSound DEF SteamInv, SteamTypes

LEMMA TransferIs ==
  ASSUME SteamInv, NEW s \in As
  PROVE  /\ transfer[s] \in Transfer /\ Upstream(transfer[s]) /\ transfer[s].gen <= cdn.gen
         /\ transfer[s].gen \in Nat /\ cdn.gen \in Nat
BY DEF SteamInv, SteamTypes, TransferInv, Transfer

LEMMA TransferConnectSound ==
  ASSUME SteamInv, NEW s \in As, Steam!Connect(s)
  PROVE  SteamInv'
<1> DEFINE t == [transfer[s] EXCEPT !.at = "connected", !.original = TRUE]
<1>1. /\ transfer[s].at = "none" /\ accelerator = "on" /\ UNCHANGED <<Rest, traffic>>
      /\ transfer' = [transfer EXCEPT ![s] = t]
  BY DEF Steam!Connect, Steam!At, Steam!Learning, Rest
<1>2. transfer[s] \in Transfer /\ Upstream(transfer[s]) /\ transfer[s].gen <= cdn.gen
  BY TransferIs
<1>3. t \in Transfer
  BY <1>2, ZenonT(60) DEF Transfer
<1>4. /\ t.at = "connected" /\ t.original = TRUE /\ t.ip = transfer[s].ip
      /\ t.gen = transfer[s].gen /\ t.trial = transfer[s].trial
      /\ t.replacement = transfer[s].replacement
  BY <1>2, ZenonT(60) DEF Transfer
<1>. HIDE DEF t
<1>5. Upstream(t)
  BY <1>1, <1>2, <1>4 DEF Upstream, HasTrial, Serves
<1>. QED BY <1>1, <1>2, <1>3, <1>4, <1>5, SessionMoves

LEMMA KeepOriginalSound ==
  ASSUME SteamInv, NEW s \in As, Steam!KeepOriginal(s)
  PROVE  SteamInv'
<1> DEFINE t == [transfer[s] EXCEPT !.at = "ready", !.gen = cdn.gen]
<1>1. /\ transfer[s].at = "connected" /\ UNCHANGED <<Rest, traffic>>
      /\ transfer' = [transfer EXCEPT ![s] = t]
  BY DEF Steam!KeepOriginal, Steam!At, Steam!Learning, Rest
<1>2. transfer[s] \in Transfer /\ Upstream(transfer[s]) /\ cdn.gen \in Nat
  BY TransferIs
<1>3. t \in Transfer
  BY <1>2, ZenonT(60) DEF Transfer
<1>4. /\ t.at = "ready" /\ t.original = transfer[s].original /\ t.ip = transfer[s].ip
      /\ t.gen = cdn.gen /\ t.trial = transfer[s].trial
      /\ t.replacement = transfer[s].replacement
  BY <1>2, ZenonT(60) DEF Transfer
<1>. HIDE DEF t
<1>5. Upstream(t) /\ t.ip = None
  BY <1>1, <1>2, <1>4 DEF Upstream, HasTrial, Serves
<1>6. t.gen <= cdn.gen
  BY <1>2, <1>4
<1>. QED BY <1>1, <1>3, <1>4, <1>5, <1>6, SessionMoves

LEMMA TrialDialedSound ==
  ASSUME SteamInv, NEW s \in As, Steam!Dialed(s)
  PROVE  SteamInv'
<1> DEFINE t == [transfer[s] EXCEPT !.at = "dialed", !.replacement = TRUE]
<1>1. /\ transfer[s].at = "reserved" /\ UNCHANGED <<Rest, traffic>>
      /\ transfer' = [transfer EXCEPT ![s] = t]
  BY DEF Steam!Dialed, Steam!At, Steam!Learning, Rest
<1>2. transfer[s] \in Transfer /\ Upstream(transfer[s]) /\ transfer[s].gen <= cdn.gen
  BY TransferIs
<1>3. t \in Transfer
  BY <1>2, ZenonT(60) DEF Transfer
<1>4. /\ t.at = "dialed" /\ t.original = transfer[s].original /\ t.ip = transfer[s].ip
      /\ t.gen = transfer[s].gen /\ t.trial = transfer[s].trial /\ t.replacement = TRUE
  BY <1>2, ZenonT(60) DEF Transfer
<1>. HIDE DEF t
<1>5. Upstream(t)
  BY <1>1, <1>2, <1>4 DEF Upstream, HasTrial, Serves
<1>. QED BY <1>1, <1>2, <1>3, <1>4, <1>5, SessionMoves

LEMMA CloseOriginalSound ==
  ASSUME SteamInv, NEW s \in As, Steam!CloseOriginal(s)
  PROVE  SteamInv'
<1> DEFINE t == [transfer[s] EXCEPT !.at = "ready", !.original = FALSE]
<1>1. /\ transfer[s].at = "moved" /\ UNCHANGED <<Rest, traffic>>
      /\ transfer' = [transfer EXCEPT ![s] = t]
  BY DEF Steam!CloseOriginal, Steam!At, Steam!Learning, Rest
<1>2. transfer[s] \in Transfer /\ Upstream(transfer[s]) /\ transfer[s].gen <= cdn.gen
  BY TransferIs
<1>3. t \in Transfer
  BY <1>2, ZenonT(60) DEF Transfer
<1>4. /\ t.at = "ready" /\ t.original = FALSE /\ t.ip = transfer[s].ip
      /\ t.gen = transfer[s].gen /\ t.trial = transfer[s].trial
      /\ t.replacement = transfer[s].replacement
  BY <1>2, ZenonT(60) DEF Transfer
<1>. HIDE DEF t
<1>5. Upstream(t)
  BY <1>1, <1>2, <1>4 DEF Upstream, HasTrial, Serves
<1>. QED BY <1>1, <1>2, <1>3, <1>4, <1>5, SessionMoves

\* The trial is reserved under the counters it was admitted by.
LEMMA UseTrialSound ==
  ASSUME SteamInv, NEW s \in As, NEW i \in Bs, Steam!UseTrial(s, i)
  PROVE  SteamInv'
<1> DEFINE t == [transfer[s] EXCEPT !.at = "reserved", !.ip = i, !.gen = cdn.gen]
           n == traffic[i].trials + 1
<1>1. /\ transfer[s].at = "connected" /\ UNCHANGED Rest
      /\ transfer' = [transfer EXCEPT ![s] = t] /\ traffic' = [traffic EXCEPT ![i].trials = n]
      /\ \/ traffic[i].trials < MaxTrials
         \/ traffic[i].trials = 0
  BY DEF Steam!UseTrial, Steam!At, Steam!Learning, Steam!Admissible, Rest
<1>2. transfer[s] \in Transfer /\ Upstream(transfer[s]) /\ cdn.gen \in Nat
  BY TransferIs
<1>3. traffic[i].trials \in Nat
  BY DEF SteamInv, SteamTypes, Traffic
<1>4. t \in Transfer
  BY <1>2, ZenonT(60) DEF Transfer
<1>5. /\ t.at = "reserved" /\ t.original = transfer[s].original /\ t.ip = i
      /\ t.gen = cdn.gen /\ t.trial = transfer[s].trial
      /\ t.replacement = transfer[s].replacement
  BY <1>2, ZenonT(60) DEF Transfer
<1>. HIDE DEF t
<1>6. Upstream(t) /\ transfer[s].ip = None /\ t.gen <= cdn.gen
  BY <1>1, <1>2, <1>5, ProxyAssumption DEF Upstream, HasTrial, Serves
<1>7. n \in Nat /\ n <= MaxTrials
  BY <1>1, <1>3, ProxyAssumption
<1>8. TransferStep(s, t) /\ TrafficStep(i, n, traffic[i].active)
  BY <1>1, <1>4, <1>7, TransferBecomes, TrialsBecome
<1>9. CountInv'
  BY <1>1, <1>4, <1>5, <1>6, <1>7, <1>8, TrialBegins DEF Rest
<1>. QED BY <1>1, <1>4, <1>6, <1>8, <1>9, TransferStepSound DEF TrafficStep

\* A session that gives its trial back.
LEMMA TrialReturned ==
  ASSUME SteamInv, NEW s \in As, NEW t \in Transfer, transfer' = [transfer EXCEPT ![s] = t],
         UNCHANGED Rest, Upstream(t), t.gen <= cdn.gen,
         transfer[s].ip \in Bs, t.ip = None, transfer[s].at # "relay",
         traffic' = Steam!Released(s)
  PROVE  SteamInv'
<1>1. TransferStep(s, t)
  BY TransferBecomes
<1>2. CountInv' /\ traffic' \in [Bs -> Traffic]
  BY <1>1, TrialEnds DEF Rest
<1>. QED BY <1>1, <1>2, TransferStepSound

LEMMA TrialFailsSound ==
  ASSUME SteamInv, NEW s \in As, Steam!DialFails(s)
  PROVE  SteamInv'
<1> DEFINE t == [transfer[s] EXCEPT !.at = "ready", !.ip = None]
<1>1. /\ transfer[s].at = "reserved" /\ UNCHANGED Rest
      /\ transfer' = [transfer EXCEPT ![s] = t] /\ traffic' = Steam!Released(s)
  BY DEF Steam!DialFails, Steam!At, Rest
<1>2. transfer[s] \in Transfer /\ Upstream(transfer[s]) /\ transfer[s].gen <= cdn.gen
  BY TransferIs
<1>3. t \in Transfer
  BY <1>2, ZenonT(60) DEF Transfer
<1>4. /\ t.at = "ready" /\ t.original = transfer[s].original /\ t.ip = None
      /\ t.gen = transfer[s].gen /\ t.trial = transfer[s].trial
      /\ t.replacement = transfer[s].replacement
  BY <1>2, ZenonT(60) DEF Transfer
<1>. HIDE DEF t
<1>5. Upstream(t) /\ transfer[s].ip \in Bs
  BY <1>1, <1>2, <1>4 DEF Upstream, HasTrial, Serves, Transfer
<1>. QED BY <1>1, <1>2, <1>3, <1>4, <1>5, TrialReturned

LEMMA SwitchSound ==
  ASSUME SteamInv, NEW s \in As, Steam!Switch(s)
  PROVE  SteamInv'
<1>1. transfer[s].at = "dialed" /\ UNCHANGED Rest
  BY DEF Steam!Switch, Steam!At, Steam!Learning, Rest
<1>2. transfer[s] \in Transfer /\ Upstream(transfer[s]) /\ transfer[s].gen <= cdn.gen
  BY TransferIs
<1>3. CASE Steam!Usable(s)
  <2> DEFINE t == [transfer[s] EXCEPT !.at = "moved", !.trial = TRUE]
  <2>1. transfer' = [transfer EXCEPT ![s] = t] /\ UNCHANGED traffic /\ accelerator = "on"
    BY <1>3 DEF Steam!Switch, Steam!Usable
  <2>2. t \in Transfer
    BY <1>2, ZenonT(60) DEF Transfer
  <2>3. /\ t.at = "moved" /\ t.original = transfer[s].original /\ t.ip = transfer[s].ip
        /\ t.gen = transfer[s].gen /\ t.trial = TRUE
        /\ t.replacement = transfer[s].replacement
    BY <1>2, ZenonT(60) DEF Transfer
  <2>. HIDE DEF t
  <2>4. Upstream(t)
    BY <1>1, <1>2, <2>1, <2>3 DEF Upstream, HasTrial, Serves
  <2>. QED BY <1>1, <1>2, <2>1, <2>2, <2>3, <2>4, SessionMoves
<1>4. CASE ~Steam!Usable(s)
  <2> DEFINE t == [transfer[s] EXCEPT !.at = "ready", !.ip = None, !.replacement = FALSE]
  <2>1. transfer' = [transfer EXCEPT ![s] = t] /\ traffic' = Steam!Released(s)
    BY <1>4 DEF Steam!Switch
  <2>2. t \in Transfer
    BY <1>2, ZenonT(60) DEF Transfer
  <2>3. /\ t.at = "ready" /\ t.original = transfer[s].original /\ t.ip = None
        /\ t.gen = transfer[s].gen /\ t.trial = transfer[s].trial /\ t.replacement = FALSE
    BY <1>2, ZenonT(60) DEF Transfer
  <2>. HIDE DEF t
  <2>4. Upstream(t) /\ transfer[s].ip \in Bs
    BY <1>1, <1>2, <2>3 DEF Upstream, HasTrial, Serves, Transfer
  <2>. QED BY <1>1, <1>2, <2>1, <2>2, <2>3, <2>4, TrialReturned
<1>. QED BY <1>3, <1>4

\* A transfer begins, and is counted for its address unless there was a reset.
LEMMA TransferCounted ==
  ASSUME SteamInv, NEW s \in As, NEW t \in Transfer, TransferStep(s, t), UNCHANGED cdn,
         transfer[s].ip \in Bs, t.ip = transfer[s].ip, t.gen = transfer[s].gen,
         transfer[s].at # "relay", t.at = "relay", Steam!Current(s),
         TrafficStep(t.ip, traffic[t.ip].trials, traffic[t.ip].active + 1)
  PROVE  CountInv'
<1>0. PICK i \in Bs : i = transfer[s].ip /\ t.ip = i
  OBVIOUS
<1>1. Carriers(i)' = Carriers(i) \cup {s} /\ s \notin Carriers(i) /\ Holders(i)' = Holders(i)
  BY <1>0 DEF TransferStep, Holders, Carriers, Steam!Current
<1>2. \A k \in Bs : k # i => Holders(k)' = Holders(k) /\ Carriers(k)' = Carriers(k)
  BY <1>0 DEF TransferStep, Holders, Carriers
<1>3. Cardinality(Carriers(i)') = Cardinality(Carriers(i)) + 1
  BY <1>1, FewHolders, OneMore
<1>4. TrafficStep(i, traffic[i].trials, traffic[i].active + 1)
  BY <1>0
<1>5. ASSUME cdn.enabled
      PROVE  /\ traffic'[i].trials = Cardinality(Holders(i)')
             /\ traffic'[i].active = Cardinality(Carriers(i)')
             /\ traffic'[i].trials <= MaxTrials
  <2>1. /\ traffic[i].trials = Cardinality(Holders(i)) /\ traffic[i].trials <= MaxTrials
        /\ traffic[i].active = Cardinality(Carriers(i))
    BY <1>5 DEF SteamInv, CountInv
  <2>. QED BY <1>1, <1>3, <1>4, <2>1 DEF TrafficStep
<1>. QED BY <1>2, <1>4, <1>5 DEF SteamInv, CountInv, TrafficStep

\* A transfer ends that was counted.
LEMMA TransferDiscounted ==
  ASSUME SteamInv, NEW s \in As, NEW t \in Transfer, TransferStep(s, t), UNCHANGED cdn,
         transfer[s].ip \in Bs, t.ip = transfer[s].ip, t.gen = transfer[s].gen,
         transfer[s].at = "relay", t.at # "relay", Steam!Current(s),
         TrafficStep(t.ip, traffic[t.ip].trials, traffic[t.ip].active - 1)
  PROVE  CountInv'
<1>0. PICK i \in Bs : i = transfer[s].ip /\ t.ip = i
  OBVIOUS
<1>1. Carriers(i)' = Carriers(i) \ {s} /\ s \in Carriers(i) /\ Holders(i)' = Holders(i)
  BY <1>0 DEF TransferStep, Holders, Carriers, Steam!Current
<1>2. \A k \in Bs : k # i => Holders(k)' = Holders(k) /\ Carriers(k)' = Carriers(k)
  BY <1>0 DEF TransferStep, Holders, Carriers
<1>3. Cardinality(Carriers(i)') = Cardinality(Carriers(i)) - 1
  BY <1>1, FewHolders, OneLess
<1>4. TrafficStep(i, traffic[i].trials, traffic[i].active - 1)
  BY <1>0
<1>5. ASSUME cdn.enabled
      PROVE  /\ traffic'[i].trials = Cardinality(Holders(i)')
             /\ traffic'[i].active = Cardinality(Carriers(i)')
             /\ traffic'[i].trials <= MaxTrials
  <2>1. /\ traffic[i].trials = Cardinality(Holders(i)) /\ traffic[i].trials <= MaxTrials
        /\ traffic[i].active = Cardinality(Carriers(i))
    BY <1>5 DEF SteamInv, CountInv
  <2>. QED BY <1>1, <1>3, <1>4, <2>1 DEF TrafficStep
<1>. QED BY <1>2, <1>4, <1>5 DEF SteamInv, CountInv, TrafficStep

\* Nothing is counted for a session without an address, or from before a reset.
LEMMA Uncounted ==
  ASSUME SteamInv, NEW s \in As, NEW t \in Transfer, TransferStep(s, t), UNCHANGED <<cdn, traffic>>,
         t.ip = transfer[s].ip, t.gen = transfer[s].gen,
         transfer[s].ip = None \/ ~Steam!Current(s)
  PROVE  CountInv'
<1>1. CASE cdn.enabled
  <2>1. \A i \in Bs : s \notin Holders(i) /\ s \notin Holders(i)'
    BY <1>1, ProxyAssumption DEF TransferStep, Holders, Steam!Current
  <2>2. \A i \in Bs : s \notin Carriers(i) /\ s \notin Carriers(i)'
    BY <2>1 DEF Carriers
  <2>. QED BY <2>1, <2>2, CountsKept
<1>2. CASE ~cdn.enabled
  BY <1>2 DEF CountInv
<1>. QED BY <1>1, <1>2 DEF SteamInv, SteamTypes

LEMMA TransferBeginsSound ==
  ASSUME SteamInv, NEW s \in As, Steam!Relay(s)
  PROVE  SteamInv'
<1> DEFINE t == [transfer[s] EXCEPT !.at = "relay"]
<1>1. /\ transfer[s].at = "ready" /\ UNCHANGED Rest
      /\ transfer' = [transfer EXCEPT ![s] = t]
  BY DEF Steam!Relay, Steam!At, Steam!Learning, Rest
<1>2. transfer[s] \in Transfer /\ Upstream(transfer[s]) /\ transfer[s].gen <= cdn.gen
  BY TransferIs
<1>3. t \in Transfer
  BY <1>2, ZenonT(60) DEF Transfer
<1>4. /\ t.at = "relay" /\ t.original = transfer[s].original /\ t.ip = transfer[s].ip
      /\ t.gen = transfer[s].gen /\ t.trial = transfer[s].trial
      /\ t.replacement = transfer[s].replacement
  BY <1>2, ZenonT(60) DEF Transfer
<1>. HIDE DEF t
<1>5. Upstream(t)
  BY <1>1, <1>2, <1>4 DEF Upstream, HasTrial, Serves
<1>6. TransferStep(s, t) /\ UNCHANGED cdn
  BY <1>1, <1>3, TransferBecomes DEF Rest
<1>7. CountInv' /\ traffic' \in [Bs -> Traffic]
  <2>1. CASE transfer[s].ip # None /\ Steam!Current(s)
    <3>1. PICK i \in Bs : i = transfer[s].ip
      BY <1>2, <2>1 DEF Transfer
    <3>2. traffic' = [traffic EXCEPT ![i].active = traffic[i].active + 1]
      BY <2>1, <3>1 DEF Steam!Relay, Steam!Counted
    <3>3. traffic[i].active + 1 \in Nat
      BY DEF SteamInv, SteamTypes, Traffic
    <3>4. TrafficStep(i, traffic[i].trials, traffic[i].active + 1)
      BY <3>2, <3>3, ActiveBecomes
    <3>5. CountInv'
      BY <1>1, <1>3, <1>4, <1>6, <2>1, <3>1, <3>4, TransferCounted
    <3>. QED BY <3>4, <3>5 DEF TrafficStep
  <2>2. CASE ~(transfer[s].ip # None /\ Steam!Current(s))
    <3>1. UNCHANGED traffic
      BY <2>2 DEF Steam!Relay, Steam!Counted
    <3>. QED BY <1>3, <1>4, <1>6, <2>2, <3>1, Uncounted DEF SteamInv, SteamTypes
  <2>. QED BY <2>1, <2>2
<1>. QED BY <1>1, <1>2, <1>3, <1>4, <1>5, <1>6, <1>7, TransferStepSound

LEMMA TransferEndsSound ==
  ASSUME SteamInv, NEW s \in As, NEW failed \in BOOLEAN, NEW pause \in BOOLEAN,
         Steam!Transferred(s, failed, pause)
  PROVE  SteamInv'
<1> DEFINE t == [transfer[s] EXCEPT !.at = "ending", !.original = FALSE, !.replacement = FALSE]
<1>1. /\ transfer[s].at = "relay" /\ UNCHANGED Rest
      /\ transfer' = [transfer EXCEPT ![s] = t]
  BY DEF Steam!Transferred, Steam!At, Rest
<1>2. transfer[s] \in Transfer /\ Upstream(transfer[s]) /\ transfer[s].gen <= cdn.gen
  BY TransferIs
<1>3. t \in Transfer
  BY <1>2, ZenonT(60) DEF Transfer
<1>4. /\ t.at = "ending" /\ t.original = FALSE /\ t.ip = transfer[s].ip
      /\ t.gen = transfer[s].gen /\ t.trial = transfer[s].trial /\ t.replacement = FALSE
  BY <1>2, ZenonT(60) DEF Transfer
<1>. HIDE DEF t
<1>5. Upstream(t)
  BY <1>1, <1>2, <1>4 DEF Upstream, HasTrial, Serves
<1>6. TransferStep(s, t) /\ UNCHANGED cdn
  BY <1>1, <1>3, TransferBecomes DEF Rest
<1>7. CountInv' /\ traffic' \in [Bs -> Traffic]
  <2>1. CASE transfer[s].ip # None /\ Steam!Current(s)
    <3>1. PICK i \in Bs : i = transfer[s].ip
      BY <1>2, <2>1 DEF Transfer
    <3>2. traffic[i].active \in Nat /\ traffic[i].active # 0
      <4>1. s \in Carriers(i) /\ cdn.enabled
        BY <1>1, <2>1, <3>1 DEF Carriers, Holders, Steam!Current
      <4>2. Cardinality(Carriers(i)) # 0
        BY <4>1, FewHolders, OneLess
      <4>3. traffic[i].active = Cardinality(Carriers(i))
        BY <4>1 DEF SteamInv, CountInv
      <4>. QED BY <4>2, <4>3 DEF SteamInv, SteamTypes, Traffic
    <3>3. traffic' = [traffic EXCEPT ![i].active = traffic[i].active - 1]
      BY <2>1, <3>1, <3>2, ProxyAssumption DEF Steam!Transferred, Steam!Counted
    <3>4. traffic[i].active - 1 \in Nat
      BY <3>2
    <3>5. TrafficStep(i, traffic[i].trials, traffic[i].active - 1)
      BY <3>3, <3>4, ActiveBecomes
    <3>6. CountInv'
      BY <1>1, <1>3, <1>4, <1>6, <2>1, <3>1, <3>5, TransferDiscounted
    <3>. QED BY <3>5, <3>6 DEF TrafficStep
  <2>2. CASE ~(transfer[s].ip # None /\ Steam!Current(s))
    <3>1. UNCHANGED traffic
      BY <2>2 DEF Steam!Transferred, Steam!Counted
    <3>. QED BY <1>3, <1>4, <1>6, <2>2, <3>1, Uncounted DEF SteamInv, SteamTypes
  <2>. QED BY <2>1, <2>2
<1>. QED BY <1>1, <1>2, <1>3, <1>4, <1>5, <1>6, <1>7, TransferStepSound

LEMMA SessionOverSound ==
  ASSUME SteamInv, NEW s \in As, Steam!Ends(s)
  PROVE  SteamInv'
<1> DEFINE t == [Steam!NoSession EXCEPT !.at = "over"]
<1>1. /\ transfer[s].at = "ending" /\ UNCHANGED Rest
      /\ transfer' = [transfer EXCEPT ![s] = t]
      /\ traffic' = IF transfer[s].trial THEN Steam!Released(s) ELSE traffic
  BY DEF Steam!Ends, Steam!At, Steam!Learning, Rest
<1>2. /\ transfer[s] \in Transfer /\ Upstream(transfer[s]) /\ cdn.gen \in Nat
  BY TransferIs
<1>3. /\ t \in Transfer /\ t.at = "over" /\ ~t.original /\ t.ip = None
      /\ t.gen = 0 /\ ~t.trial /\ ~t.replacement
  BY DEF Steam!NoSession, Transfer
<1>. HIDE DEF t
<1>4. Upstream(t) /\ t.gen <= cdn.gen
  BY <1>2, <1>3 DEF Upstream, HasTrial
<1>5. CASE transfer[s].trial
  <2>1. transfer[s].ip \in Bs
    BY <1>1, <1>2, <1>5 DEF Upstream, HasTrial, Transfer
  <2>. QED BY <1>1, <1>3, <1>4, <1>5, <2>1, TrialReturned
<1>6. CASE ~transfer[s].trial
  <2>1. transfer[s].ip = None
    BY <1>1, <1>2, <1>6 DEF Upstream, HasTrial
  <2>. QED BY <1>1, <1>3, <1>4, <1>6, <2>1, SessionMoves
<1>. QED BY <1>5, <1>6

-----------------------------------------------------------------------------
(* SteamCdn: resets, probes and Stop.                                      *)

\* A reset starts a generation nobody is of.
LEMMA ResetSound ==
  ASSUME SteamInv, NEW enabled \in BOOLEAN, Steam!Configure(enabled)
  PROVE  SteamInv'
<1>1. /\ cdn' = [enabled |-> enabled, gen |-> cdn.gen + 1]
      /\ traffic' = [i \in Bs |-> Steam!NoTraffic] /\ probing' = 0
      /\ UNCHANGED <<accelerator, probe, transfer>>
  BY DEF Steam!Configure
<1>2. cdn.gen \in Nat /\ cdn'.gen = cdn.gen + 1
  BY <1>1 DEF SteamInv, SteamTypes
<1>3. SteamTypes'
  BY <1>1, <1>2 DEF SteamInv, SteamTypes, Steam!NoTraffic, Traffic
<1>4. ASSUME NEW s \in As
      PROVE  transfer[s].gen # cdn'.gen /\ transfer[s].gen <= cdn'.gen /\ Upstream(transfer[s])'
  <2>1. /\ transfer[s].gen \in Nat /\ transfer[s].gen <= cdn.gen /\ Upstream(transfer[s])
    BY TransferIs
  <2>. QED BY <1>1, <1>2, <2>1 DEF Upstream, HasTrial, Serves
<1>5. ASSUME NEW j \in Cs
      PROVE  probe[j].on => probe[j].gen # cdn'.gen /\ probe[j].gen <= cdn'.gen
  <2>1. probe[j].gen \in Nat
    BY DEF SteamInv, SteamTypes, ProbeJob
  <2>2. probe[j].on => probe[j].gen <= cdn.gen
    BY DEF SteamInv, ProbeInv
  <2>. QED BY <1>2, <2>1, <2>2
<1>6. TransferInv'
  BY <1>1, <1>4 DEF TransferInv
<1>7. CountInv'
  <2>1. \A i \in Bs : Holders(i)' = {} /\ Carriers(i)' = {}
    BY <1>1, <1>4 DEF Holders, Carriers
  <2>2. \A i \in Bs : traffic'[i].trials = 0 /\ traffic'[i].active = 0
    BY <1>1 DEF Steam!NoTraffic
  <2>3. Cardinality({}) = 0 /\ 0 <= MaxTrials
    BY FS_EmptySet, ProxyAssumption
  <2>. QED BY <2>1, <2>2, <2>3 DEF CountInv
<1>8. ProbeInv'
  <2>1. JobsNow' = {}
    BY <1>1, <1>5 DEF JobsNow
  <2>. QED BY <1>1, <1>5, <2>1, FS_EmptySet DEF ProbeInv
<1>. QED BY <1>3, <1>6, <1>7, <1>8 DEF SteamInv

\* What a job of a probe does to the sessions and their counters: nothing.
LEMMA ProbeSound ==
  ASSUME SteamInv, UNCHANGED <<accelerator, cdn, traffic, transfer>>,
         probe' \in [Cs -> ProbeJob], probing' \in Nat, ProbeInv'
  PROVE  SteamInv'
<1>1. SteamTypes'
  BY DEF SteamInv, SteamTypes
<1>2. TransferInv' /\ CountInv'
  BY DEF SteamInv, TransferInv, CountInv, Upstream, HasTrial, Serves, Holders, Carriers
<1>. QED BY <1>1, <1>2 DEF SteamInv

LEMMA FewJobs == IsFiniteSet(JobsNow)
BY ProxyAssumption, FS_Subset DEF JobsNow

LEMMA DiscoverSound ==
  ASSUME SteamInv, NEW j \in Cs, Steam!Discover(j)
  PROVE  SteamInv'
<1>1. /\ ~probe[j].on /\ probing' = probing + 1
      /\ probe' = [probe EXCEPT ![j] = [gen |-> cdn.gen, on |-> TRUE]]
      /\ UNCHANGED <<accelerator, cdn, traffic, transfer>>
  BY DEF Steam!Discover
<1>2. /\ cdn.gen \in Nat /\ probing \in Nat /\ probe \in [Cs -> ProbeJob]
  BY DEF SteamInv, SteamTypes
<1>3. probe' \in [Cs -> ProbeJob]
  BY <1>1, <1>2 DEF ProbeJob
<1>4. JobsNow' = JobsNow \cup {j} /\ j \notin JobsNow
  BY <1>1, <1>2 DEF JobsNow
<1>5. Cardinality(JobsNow') = probing + 1
  BY <1>4, FewJobs, OneMore DEF SteamInv, ProbeInv
<1>6. \A k \in Cs : probe'[k].on => probe'[k].gen <= cdn'.gen
  BY <1>1, <1>2 DEF SteamInv, ProbeInv
<1>. QED BY <1>1, <1>2, <1>3, <1>5, <1>6, ProbeSound DEF ProbeInv

LEMMA ProbeEndsSound ==
  ASSUME SteamInv, NEW j \in Cs, Steam!JobEnds(j)
  PROVE  SteamInv'
<1>1. /\ probe[j].on
      /\ probing' = probing - (IF probe[j].gen = cdn.gen THEN 1 ELSE 0)
      /\ probe' = [probe EXCEPT ![j] = Steam!NoJob]
      /\ UNCHANGED <<accelerator, cdn, traffic, transfer>>
  BY DEF Steam!JobEnds
<1>2. /\ cdn.gen \in Nat /\ probing \in Nat /\ probe \in [Cs -> ProbeJob]
      /\ probing = Cardinality(JobsNow)
  BY DEF SteamInv, SteamTypes, ProbeInv
<1>3. Steam!NoJob \in ProbeJob /\ ~Steam!NoJob.on
  BY DEF Steam!NoJob, ProbeJob
<1>4. probe' \in [Cs -> ProbeJob] /\ probe'[j] = Steam!NoJob
      /\ \A k \in Cs : k # j => probe'[k] = probe[k]
  BY <1>1, <1>2, <1>3
<1>5. JobsNow' = JobsNow \ {j} /\ (j \in JobsNow <=> probe[j].gen = cdn.gen)
  BY <1>1, <1>3, <1>4 DEF JobsNow
<1>6. probing' = Cardinality(JobsNow') /\ probing' \in Nat
  <2>1. CASE j \in JobsNow
    <3>1. /\ Cardinality(JobsNow') = Cardinality(JobsNow) - 1
          /\ Cardinality(JobsNow) # 0
      BY <1>5, <2>1, FewJobs, OneLess
    <3>. QED BY <1>1, <1>2, <1>5, <2>1, <3>1
  <2>2. CASE j \notin JobsNow
    <3>1. JobsNow' = JobsNow
      BY <1>5, <2>2
    <3>. QED BY <1>1, <1>2, <1>5, <2>2, <3>1
  <2>. QED BY <2>1, <2>2
<1>7. \A k \in Cs : probe'[k].on => probe'[k].gen <= cdn'.gen
  BY <1>1, <1>3, <1>4 DEF SteamInv, ProbeInv
<1>. QED BY <1>1, <1>4, <1>6, <1>7, ProbeSound DEF ProbeInv

\* Stop cancels first, and no session loses anything by it.
LEMMA SteamCancelSound ==
  ASSUME SteamInv, Steam!Cancel
  PROVE  SteamInv'
<1>1. Serves' = Serves /\ UNCHANGED <<cdn, traffic, probing, probe, transfer>>
  BY DEF Steam!Cancel, Serves
<1>2. SteamTypes' /\ CountInv' /\ ProbeInv'
  BY <1>1 DEF SteamInv, SteamTypes, CountInv, ProbeInv, Holders, Carriers, JobsNow
<1>3. TransferInv'
  BY <1>1 DEF SteamInv, TransferInv, Upstream, HasTrial
<1>. QED BY <1>2, <1>3 DEF SteamInv

\* Then it closes the upstream each session has by then.
LEMMA SteamCloseSound ==
  ASSUME SteamInv, Steam!CloseAll
  PROVE  SteamInv'
<1> DEFINE shut(s) == IF transfer[s].trial THEN [transfer[s] EXCEPT !.replacement = FALSE]
                      ELSE [transfer[s] EXCEPT !.original = FALSE]
<1>1. /\ Serves /\ ~Serves' /\ UNCHANGED <<cdn, traffic, probing, probe>>
      /\ transfer' = [s \in As |-> shut(s)]
  BY DEF Steam!CloseAll, Steam!Learning, Serves
<1>2. ASSUME NEW s \in As
      PROVE  /\ shut(s) \in Transfer
             /\ shut(s).at = transfer[s].at /\ shut(s).ip = transfer[s].ip
             /\ shut(s).gen = transfer[s].gen /\ shut(s).trial = transfer[s].trial
             /\ IF transfer[s].trial
                THEN shut(s).replacement = FALSE /\ shut(s).original = transfer[s].original
                ELSE shut(s).replacement = transfer[s].replacement /\ shut(s).original = FALSE
  <2>1. transfer[s] \in Transfer
    BY TransferIs
  <2>2. CASE transfer[s].trial
    <3>1. [transfer[s] EXCEPT !.replacement = FALSE] \in Transfer
      BY <2>1, ZenonT(60) DEF Transfer
    <3>2. LET t == [transfer[s] EXCEPT !.replacement = FALSE] IN
          /\ t.at = transfer[s].at /\ t.ip = transfer[s].ip /\ t.gen = transfer[s].gen
          /\ t.trial = transfer[s].trial /\ t.original = transfer[s].original
          /\ t.replacement = FALSE
      BY <2>1, ZenonT(60) DEF Transfer
    <3>. QED BY <2>2, <3>1, <3>2
  <2>3. CASE ~transfer[s].trial
    <3>1. [transfer[s] EXCEPT !.original = FALSE] \in Transfer
      BY <2>1, ZenonT(60) DEF Transfer
    <3>2. LET t == [transfer[s] EXCEPT !.original = FALSE] IN
          /\ t.at = transfer[s].at /\ t.ip = transfer[s].ip /\ t.gen = transfer[s].gen
          /\ t.trial = transfer[s].trial /\ t.replacement = transfer[s].replacement
          /\ t.original = FALSE
      BY <2>1, ZenonT(60) DEF Transfer
    <3>. QED BY <2>3, <3>1, <3>2
  <2>. QED BY <2>2, <2>3
<1>. HIDE DEF shut
<1>3. SteamTypes' /\ ProbeInv'
  BY <1>1, <1>2 DEF SteamInv, SteamTypes, ProbeInv, JobsNow
<1>4. ASSUME NEW s \in As
      PROVE  Upstream(transfer[s])' /\ (transfer[s].gen <= cdn.gen)'
  <2>1. Upstream(transfer[s]) /\ transfer[s].gen <= cdn.gen /\ transfer[s] \in Transfer
    BY TransferIs
  <2>2. transfer'[s] = shut(s) /\ cdn' = cdn
    BY <1>1
  <2>3. PICK t \in Transfer : t = shut(s)
    BY <1>2
  <2>4. ~Serves' /\ Serves /\ t.at = transfer[s].at /\ t.ip = transfer[s].ip
        /\ t.gen = transfer[s].gen /\ t.trial = transfer[s].trial
        /\ IF transfer[s].trial
           THEN t.replacement = FALSE /\ t.original = transfer[s].original
           ELSE t.replacement = transfer[s].replacement /\ t.original = FALSE
    BY <1>1, <1>2, <2>3
  <2>5. Upstream(t)'
    BY <2>1, <2>4 DEF Upstream, HasTrial, Transfer
  <2>. QED BY <2>1, <2>2, <2>3, <2>4, <2>5
<1>5. CountInv'
  <2>1. \A i \in Bs : Holders(i)' = Holders(i) /\ Carriers(i)' = Carriers(i)
    BY <1>1, <1>2 DEF Holders, Carriers
  <2>. QED BY <1>1, <2>1 DEF SteamInv, CountInv
<1>. QED BY <1>3, <1>4, <1>5 DEF SteamInv, TransferInv

\* What is learned of the addresses changes nothing that is counted or owned.
LEMMA LearningSound ==
  ASSUME SteamInv, UNCHANGED <<accelerator, cdn, traffic, probing, probe, transfer>>
  PROVE  SteamInv'
<1>1. SteamTypes' /\ ProbeInv'
  BY DEF SteamInv, SteamTypes, ProbeInv, JobsNow
<1>. QED BY <1>1, ProbeSound DEF SteamInv, SteamTypes

-----------------------------------------------------------------------------
(* SteamCdn: the theorem.                                                  *)

LEMMA SteamInit ==
  ASSUME Steam!Init
  PROVE  SteamInv
<1>1. /\ cdn = [enabled |-> TRUE, gen |-> 0] /\ probing = 0
      /\ traffic = [i \in Bs |-> Steam!NoTraffic] /\ probe = [j \in Cs |-> Steam!NoJob]
      /\ transfer = [s \in As |-> Steam!NoSession]
  BY DEF Steam!Init
<1>2. /\ Steam!NoSession \in Transfer /\ Upstream(Steam!NoSession)
      /\ Steam!NoSession.gen = 0 /\ Steam!NoSession.ip = None
  BY DEF Steam!NoSession, Transfer, Upstream, HasTrial
<1>3. SteamTypes
  BY <1>1, <1>2 DEF SteamTypes, Steam!NoTraffic, Traffic, Steam!NoJob, ProbeJob
<1>4. TransferInv
  BY <1>1, <1>2 DEF TransferInv
<1>5. CountInv
  <2>1. \A i \in Bs : Holders(i) = {} /\ Carriers(i) = {}
    BY <1>1, <1>2, ProxyAssumption DEF Holders, Carriers
  <2>. QED BY <1>1, <2>1, FS_EmptySet, ProxyAssumption DEF CountInv, Steam!NoTraffic
<1>6. ProbeInv
  <2>1. JobsNow = {}
    BY <1>1 DEF JobsNow, Steam!NoJob
  <2>. QED BY <1>1, <2>1, FS_EmptySet DEF ProbeInv, Steam!NoJob
<1>. QED BY <1>3, <1>4, <1>5, <1>6 DEF SteamInv

LEMMA SteamNext ==
  ASSUME SteamInv, Steam!Next
  PROVE  SteamInv'
<1>1. ASSUME NEW s \in As,
             \/ Steam!Connect(s) \/ (\E i \in Bs : Steam!UseTrial(s, i)) \/ Steam!KeepOriginal(s)
             \/ Steam!Dialed(s) \/ Steam!DialFails(s) \/ Steam!Switch(s) \/ Steam!CloseOriginal(s)
             \/ Steam!Relay(s) \/ Steam!Ends(s)
             \/ (\E failed, pause \in BOOLEAN : Steam!Transferred(s, failed, pause))
      PROVE  SteamInv'
  BY <1>1, TransferConnectSound, UseTrialSound, KeepOriginalSound, TrialDialedSound, TrialFailsSound,
     SwitchSound, CloseOriginalSound, TransferBeginsSound, SessionOverSound, TransferEndsSound
<1>2. ASSUME NEW j \in Cs, Steam!Discover(j) \/ Steam!JobEnds(j)
      PROVE  SteamInv'
  BY <1>2, DiscoverSound, ProbeEndsSound
<1>3. CASE (\E enabled \in BOOLEAN : Steam!Configure(enabled)) \/ Steam!Cancel \/ Steam!CloseAll
  BY <1>3, ResetSound, SteamCancelSound, SteamCloseSound
<1>4. CASE \/ \E i \in Bs : Steam!Prune(i) \/ \E p, c \in BOOLEAN : Steam!Evaluate(i, p, c)
           \/ \E j \in Cs, i \in Bs, same \in BOOLEAN : Steam!Answered(j, i, same)
           \/ Steam!PauseEnds
  BY <1>4, LearningSound DEF Steam!Prune, Steam!Evaluate, Steam!Answered, Steam!PauseEnds
<1>. QED BY <1>1, <1>2, <1>3, <1>4 DEF Steam!Next

\* releaseTrial, trafficChange, prepareSteamCDN (steam_cdn.go,
\* steam_observed_probe.go): the counters that admit trials and probes follow the
\* sessions and jobs through every reset, and a transfer has one upstream.
THEOREM TransfersCounted == ProxySpec => []TransfersAreSound
<1>1. ProxyInit => SteamInv
  BY SteamInit DEF ProxyInit
<1>2. SteamInv /\ [ProxyNext]_allVars => SteamInv'
  BY SteamNext, LearningSound
     DEF ProxyNext, allVars, steamVars, Schedules, Relays, Forwards, Resolves, Transfers
<1>3. SteamInv => TransfersAreSound
  BY SteamInvSuffices
<1>. QED BY <1>1, <1>2, <1>3, PTL DEF ProxySpec

-----------------------------------------------------------------------------
(* The scheduler: sums over the links.                                     *)

Links == {"a", "b", "c"}

\* What the members of a set of links add up to.
Part(w, S, x) == IF x \in S THEN w[x] ELSE 0
Sum3(w, S) == Part(w, S, "a") + Part(w, S, "b") + Part(w, S, "c")
\* How many of the links are in it.
One(S, x) == IF x \in S THEN 1 ELSE 0
Size3(S) == One(S, "a") + One(S, "b") + One(S, "c")

LEMMA SumOneLess ==
  ASSUME NEW w \in [Links -> Int], NEW S \in SUBSET Links, NEW x \in S
  PROVE  /\ Sum3(w, S) = w[x] + Sum3(w, S \ {x})
         /\ Size3(S) = 1 + Size3(S \ {x})
BY DEF Links, Sum3, Part, Size3, One

\* The recursion of the library's fold has one solution on the parts of a set of
\* three.
LEMMA SumIsSum3 ==
  ASSUME NEW w \in [Links -> Int], NEW S \in SUBSET Links
  PROVE  Sched!SumFunctionOnSet(w, S) = Sum3(w, S)
<1> DEFINE pick(s) == CHOOSE x \in s : TRUE
           body(g, s) == IF s = {} THEN 0 ELSE w[pick(s)] + g[s \ {pick(s)}]
           iter == CHOOSE g : g = [s \in SUBSET S |-> body(g, s)]
           explicit == [s \in SUBSET S |-> Sum3(w, s)]
<1>1. \A s \in SUBSET S : s # {} => pick(s) \in s
  OBVIOUS
<1>. HIDE DEF pick
<1>2. ASSUME NEW s \in SUBSET S
      PROVE  Sum3(w, s) = body(explicit, s)
  <2>1. CASE s = {}
    BY <2>1 DEF Sum3, Part
  <2>2. CASE s # {}
    <3>1. pick(s) \in s /\ s \ {pick(s)} \in SUBSET S
      BY <1>1, <2>2
    <3>. QED BY <2>2, <3>1, SumOneLess
  <2>. QED BY <2>1, <2>2
<1>3. explicit = [s \in SUBSET S |-> body(explicit, s)]
  BY <1>2
<1>4. iter = [s \in SUBSET S |-> body(iter, s)]
  BY <1>3
<1>. HIDE DEF iter
<1>5. ASSUME NEW s \in SUBSET S
      PROVE  iter[s] = body(iter, s)
  BY <1>4
<1>6. \A s \in SUBSET S : Size3(s) = 0 => iter[s] = Sum3(w, s)
  <2>1. ASSUME NEW s \in SUBSET S, Size3(s) = 0
        PROVE  s = {}
    BY <2>1 DEF Size3, One, Links
  <2>2. iter[{}] = 0 /\ Sum3(w, {}) = 0
    BY <1>5 DEF Sum3, Part
  <2>. QED BY <2>1, <2>2
<1>7. ASSUME NEW n \in {0, 1, 2}, \A s \in SUBSET S : Size3(s) = n => iter[s] = Sum3(w, s)
      PROVE  \A s \in SUBSET S : Size3(s) = n + 1 => iter[s] = Sum3(w, s)
  <2>1. ASSUME NEW s \in SUBSET S, Size3(s) = n + 1
        PROVE  iter[s] = Sum3(w, s)
    <3>1. s # {}
      BY <2>1 DEF Size3, One
    <3>2. pick(s) \in s /\ s \ {pick(s)} \in SUBSET S
      BY <1>1, <3>1
    <3>3. /\ Sum3(w, s) = w[pick(s)] + Sum3(w, s \ {pick(s)})
          /\ Size3(s) = 1 + Size3(s \ {pick(s)})
      BY <3>2, SumOneLess
    <3>4. Size3(s \ {pick(s)}) = n
      BY <2>1, <3>3 DEF Size3, One
    <3>5. iter[s \ {pick(s)}] = Sum3(w, s \ {pick(s)})
      BY <1>7, <3>2, <3>4
    <3>. QED BY <1>5, <3>1, <3>3, <3>5
  <2>. QED BY <2>1
<1>8. \A s \in SUBSET S : Size3(s) \in {0, 1, 2, 3}
  BY DEF Size3, One
<1>9. iter[S] = Sum3(w, S)
  BY <1>6, <1>7, <1>8
<1>10. Sched!SumFunctionOnSet(w, S) = iter[S]
  BY DEF Sched!SumFunctionOnSet, Sched!FoldFunctionOnSet, Sched!MapThenFoldSet, iter, pick
<1>. QED BY <1>9, <1>10

LEMMA LinksCounted == Cardinality(Links) = 3 /\ IsFiniteSet(Links)
<1>1. IsFiniteSet({}) /\ Cardinality({}) = 0
  BY FS_EmptySet
<1>2. IsFiniteSet({"c"}) /\ Cardinality({"c"}) = 1
  BY <1>1, FS_AddElement
<1>3. IsFiniteSet({"b", "c"}) /\ Cardinality({"b", "c"}) = 2
  <2>1. {"b", "c"} = {"c"} \cup {"b"} /\ "b" \notin {"c"}
    OBVIOUS
  <2>. QED BY <1>2, <2>1, FS_AddElement
<1>4. {"a", "b", "c"} = {"b", "c"} \cup {"a"} /\ "a" \notin {"b", "c"}
  OBVIOUS
<1>. QED BY <1>3, <1>4, FS_AddElement DEF Links

LEMMA PoolIs ==
  ASSUME NEW p \in Sched!Pools
  PROVE  \E n \in 1..3 : p \in [1..n -> Links]
<1>1. Cardinality({"a", "b", "c"}) = 3
  BY LinksCounted DEF Links
<1>2. PICK n \in 1..3 : p \in [1..n -> {"a", "b", "c"}]
  <2>1. p \in UNION {[1..n -> {"a", "b", "c"}] : n \in 1..Cardinality({"a", "b", "c"})}
    BY DEF Sched!Pools, Sched!Cardinality, Cardinality
  <2>. QED BY <1>1, <2>1
<1>. QED BY <1>2 DEF Links

LEMMA FirstBest ==
  ASSUME NEW P \in SUBSET (1..3), P # {}, NEW v, \A i \in P : v[i] \in Int
  PROVE  \E i \in P : \A j \in P : v[i] > v[j] \/ (v[i] = v[j] /\ i <= j)
<1> DEFINE Ahead(i, j) == v[i] > v[j] \/ (v[i] = v[j] /\ i <= j)
<1>1. /\ \A i, j \in P : Ahead(i, j) \/ Ahead(j, i)
      /\ \A i, j, k \in P : Ahead(i, j) /\ Ahead(j, k) => Ahead(i, k)
  OBVIOUS
<1>2. \A j \in P : j = 1 \/ j = 2 \/ j = 3
  OBVIOUS
<1>. HIDE DEF Ahead
<1>3. \E i \in P : \A j \in P : Ahead(i, j)
  <2>1. \A a, b \in P : \E i \in P : Ahead(i, a) /\ Ahead(i, b)
    BY <1>1
  <2>2. \A a, b, c \in P : \E i \in P : Ahead(i, a) /\ Ahead(i, b) /\ Ahead(i, c)
    BY <1>1, <2>1
  <2>3. PICK p \in P : TRUE
    OBVIOUS
  <2> DEFINE at(k) == IF k \in P THEN k ELSE p
  <2>4. PICK i \in P : Ahead(i, at(1)) /\ Ahead(i, at(2)) /\ Ahead(i, at(3))
    <3>1. at(1) \in P /\ at(2) \in P /\ at(3) \in P
      OBVIOUS
    <3>. QED BY <2>2, <3>1
  <2>. QED BY <1>2, <2>4
<1>. QED BY <1>3 DEF Ahead

\* The first candidate with the greatest credit is one of them and has it.
LEMMA RichestIs ==
  ASSUME pool \in Sched!Pools, NEW S \in SUBSET Sched!Range(pool), S # {},
         Sched!Raised(S) \in [Links -> Int]
  PROVE  /\ Sched!Richest(S) \in S
         /\ \A x \in S : Sched!Raised(S)[x] <= Sched!Raised(S)[Sched!Richest(S)]
<1> DEFINE r == Sched!Raised(S)
           places == Sched!Places(S)
           Best(i) == \A j \in places : r[pool[i]] > r[pool[j]] \/ (r[pool[i]] = r[pool[j]] /\ i <= j)
<1>1. PICK n \in 1..3 : pool \in [1..n -> Links]
  BY PoolIs
<1>2. \A x \in S : \E i \in places : pool[i] = x
  BY DEF Sched!Places, Sched!Range
<1>3. places \subseteq 1..n /\ places # {} /\ \A i \in places : pool[i] \in S /\ pool[i] \in Links
  BY <1>1, <1>2 DEF Sched!Places
<1>. HIDE DEF places
<1>4. \A i \in places : r[pool[i]] \in Int
  BY <1>3
<1>. HIDE DEF r
<1>5. \E i \in places : Best(i)
  <2> DEFINE v == [i \in places |-> r[pool[i]]]
  <2>1. places \in SUBSET (1..3) /\ \A i \in places : v[i] \in Int
    BY <1>3, <1>4
  <2>2. \E i \in places : \A j \in places : v[i] > v[j] \/ (v[i] = v[j] /\ i <= j)
    BY <1>3, <2>1, FirstBest
  <2>. QED BY <2>2
<1>6. Sched!Richest(S) = pool[CHOOSE i \in places : Best(i)]
  BY DEF Sched!Richest, r, places
<1>7. PICK i \in places : Best(i) /\ Sched!Richest(S) = pool[i]
  BY <1>5, <1>6
<1>8. \A x \in S : r[x] <= r[pool[i]]
  <2>1. ASSUME NEW x \in S
        PROVE  r[x] <= r[pool[i]]
    <3>1. PICK j \in places : pool[j] = x
      BY <1>2
    <3>. QED BY <1>4, <1>7, <3>1
  <2>. QED BY <2>1
<1>. QED BY <1>3, <1>7, <1>8 DEF r

-----------------------------------------------------------------------------
(* The scheduler: the inductive invariant.                                 *)

TotalNow == Sum3(weight, Sched!Range(pool))

\* Credits are those of the links of the pool and cancel each other out; since a
\* link was chosen it has been given its weight as often as it was a candidate.
CreditInv ==
  /\ pool \in Sched!Pools /\ weight \in [Links -> LinkWeights]
  /\ credit \in [Links -> Int] /\ waited \in [Links -> Nat]
  /\ \A x \in Links \ Sched!Range(pool) : credit[x] = 0 /\ waited[x] = 0
  /\ credit["a"] + credit["b"] + credit["c"] = 0
  /\ \A x \in Links : /\ -TotalNow < credit[x] /\ credit[x] < TotalNow
                      /\ waited[x] * weight[x] < TotalNow + credit[x]

LEMMA PoolRange ==
  ASSUME NEW p \in Sched!Pools
  PROVE  Sched!Range(p) \in SUBSET Links /\ Sched!Range(p) # {}
<1>1. PICK n \in 1..3 : p \in [1..n -> Links]
  BY PoolIs
<1>2. 1 \in DOMAIN p
  BY <1>1
<1>. QED BY <1>1, <1>2 DEF Sched!Range

LEMMA WeightIs ==
  ASSUME NEW w \in [Links -> LinkWeights]
  PROVE  w \in [Links -> Nat \ {0}] /\ w \in [Links -> Int]
<1>1. \A x \in Links : w[x] \in Nat \ {0}
  BY ProxyAssumption
<1>. QED BY <1>1

\* A pool weighs something.
LEMMA TotalIs ==
  ASSUME NEW w \in [Links -> Nat \ {0}], NEW R \in SUBSET Links, R # {}
  PROVE  Sum3(w, R) \in Int /\ Sum3(w, R) > 0
<1> DEFINE p(x) == Part(w, R, x)
<1>1. \A x \in Links : p(x) \in Nat /\ (x \in R => p(x) > 0)
  BY DEF Part
<1>2. "a" \in R \/ "b" \in R \/ "c" \in R
  BY DEF Links
<1>3. Sum3(w, R) = p("a") + p("b") + p("c")
  BY DEF Sum3
<1>. HIDE DEF p
<1>. QED BY <1>1, <1>2, <1>3 DEF Links

LEMMA WeightsAre ==
  ASSUME CreditInv
  PROVE  /\ weight \in [Links -> Nat \ {0}] /\ weight \in [Links -> Int]
         /\ Sched!Range(pool) \in SUBSET Links /\ Sched!Range(pool) # {}
         /\ TotalNow \in Int /\ TotalNow > 0
         /\ Sched!Total = TotalNow
<1>1. weight \in [Links -> Nat \ {0}] /\ weight \in [Links -> Int]
  BY WeightIs DEF CreditInv
<1>2. Sched!Range(pool) \in SUBSET Links /\ Sched!Range(pool) # {}
  BY PoolRange DEF CreditInv
<1>3. Sched!Total = TotalNow
  BY <1>1, <1>2, SumIsSum3 DEF Sched!Total, TotalNow
<1>. QED BY <1>1, <1>2, <1>3, TotalIs DEF TotalNow

LEMMA CreditSuffices ==
  ASSUME CreditInv
  PROVE  Sched!SharesAreFair
<1>1. ASSUME NEW x \in Links
      PROVE  waited[x] * weight[x] < 2 * TotalNow
  <2>1. /\ waited[x] * weight[x] < TotalNow + credit[x] /\ credit[x] < TotalNow
        /\ credit[x] \in Int /\ waited[x] \in Int /\ weight[x] \in Int
    BY <1>1, WeightsAre DEF CreditInv
  <2>2. waited[x] * weight[x] \in Int
    BY <2>1
  <2>. QED BY <2>1, <2>2, WeightsAre
<1>. QED BY <1>1, WeightsAre
     DEF Sched!SharesAreFair, Sched!CreditBounded, Sched!WeightedNeverStarves, CreditInv, Links

\* What a weighted selection from several candidates does to the credits.
LEMMA PaidIs ==
  ASSUME CreditInv, NEW S \in SUBSET Sched!Range(pool), S # {}
  PROVE  /\ Sched!Raised(S) = [x \in Links |-> credit[x] + Part(weight, S, x)]
         /\ Sched!Raised(S) \in [Links -> Int]
         /\ Sched!Richest(S) \in S
         /\ \A x \in S : credit[x] + weight[x] <= credit[Sched!Richest(S)] + weight[Sched!Richest(S)]
         /\ Sched!Paid(S, Sched!Richest(S)) =
              [x \in Links |-> IF x = Sched!Richest(S)
                               THEN credit[x] + weight[x] - Sum3(weight, S)
                               ELSE credit[x] + Part(weight, S, x)]
<1>1. S \in SUBSET Links /\ weight \in [Links -> Int] /\ credit \in [Links -> Int]
  BY WeightsAre DEF CreditInv
<1>2. Sched!Raised(S) = [x \in Links |-> credit[x] + Part(weight, S, x)]
  BY DEF Sched!Raised, Part, Links
<1>3. Sched!Raised(S) \in [Links -> Int]
  BY <1>1, <1>2 DEF Part
<1>4. /\ Sched!Richest(S) \in S
      /\ \A x \in S : Sched!Raised(S)[x] <= Sched!Raised(S)[Sched!Richest(S)]
  BY <1>3, RichestIs DEF CreditInv
<1>5. \A x \in S : Sched!Raised(S)[x] = credit[x] + weight[x]
  BY <1>1, <1>2 DEF Part
<1>6. Sched!SumFunctionOnSet(weight, S) = Sum3(weight, S)
  BY <1>1, SumIsSum3
<1>7. Sched!Paid(S, Sched!Richest(S)) =
        [x \in Links |-> IF x = Sched!Richest(S) THEN Sched!Raised(S)[x] - Sum3(weight, S)
                         ELSE Sched!Raised(S)[x]]
  BY <1>2, <1>6 DEF Sched!Paid
<1>8. \A x \in S : credit[x] + weight[x] <= credit[Sched!Richest(S)] + weight[Sched!Richest(S)]
  BY <1>4, <1>5
<1>9. Sched!Paid(S, Sched!Richest(S)) =
        [x \in Links |-> IF x = Sched!Richest(S) THEN credit[x] + weight[x] - Sum3(weight, S)
                         ELSE credit[x] + Part(weight, S, x)]
  <2>1. \A x \in Links : Sched!Raised(S)[x] = credit[x] + Part(weight, S, x)
    BY <1>2
  <2>2. PICK y \in S : y = Sched!Richest(S)
    BY <1>4
  <2>3. Sched!Raised(S)[y] = credit[y] + weight[y]
    BY <1>5
  <2> DEFINE old(i) == IF i = y THEN Sched!Raised(S)[i] - Sum3(weight, S) ELSE Sched!Raised(S)[i]
             new(i) == IF i = y THEN credit[i] + weight[i] - Sum3(weight, S)
                       ELSE credit[i] + Part(weight, S, i)
  <2>4. \A i \in Links : old(i) = new(i)
    <3>1. weight[y] \in Int /\ credit[y] \in Int /\ Sum3(weight, S) \in Int
      BY <1>1 DEF Sum3, Part, Links
    <3>2. old(y) = new(y)
      BY <2>3, <3>1
    <3>3. \A i \in Links : i # y => old(i) = new(i)
      BY <2>1
    <3>. QED BY <3>2, <3>3
  <2>5. Sched!Paid(S, y) = [i \in Links |-> old(i)]
    BY <1>7, <2>2
  <2>. HIDE DEF old, new
  <2>6. Sched!Paid(S, y) = [i \in Links |-> new(i)]
    BY <2>4, <2>5
  <2>. QED BY <2>2, <2>6 DEF new
<1>. QED BY <1>2, <1>3, <1>4, <1>8, <1>9

\* The arithmetic of one selection from two or three of at most three links: x is
\* taken, y and z are the others, p, q and r what each was given, and t is the
\* weight of the pool.
LEMMA OneRound ==
  ASSUME NEW cx \in Int, NEW cy \in Int, NEW cz \in Int, cx + cy + cz = 0,
         NEW p \in Nat, NEW q \in Nat, NEW r \in Nat, NEW t \in Nat, p + q + r <= t,
         -t < cx, -t < cy, -t < cz, cx < t, cy < t, cz < t, t > 0, p > 0,
         q = 0 \/ cy + q <= cx + p, r = 0 \/ cz + r <= cx + p
  PROVE  /\ -t < cx - q - r /\ cx - q - r < t
         /\ -t < cy + q /\ cy + q < t
         /\ -t < cz + r /\ cz + r < t
<1>1. /\ cx - q - r < t /\ -t < cy + q /\ -t < cz + r
  OBVIOUS
<1>2. cy + q < t
  OBVIOUS
<1>3. cz + r < t
  OBVIOUS
<1>4. -t < cx - q - r
  OBVIOUS
<1>. QED BY <1>1, <1>2, <1>3, <1>4

\* Names for the links: the one that is taken, and the others.
LEMMA OthersOf ==
  ASSUME NEW x \in Links
  PROVE  \E y, z \in Links : x # y /\ x # z /\ y # z /\ Links = {x, y, z}
<1>1. CASE x = "a"
  <2>1. Links = {x, "b", "c"}
    BY <1>1 DEF Links
  <2>. QED BY <1>1, <2>1 DEF Links
<1>2. CASE x = "b"
  <2>1. Links = {x, "a", "c"}
    BY <1>2 DEF Links
  <2>. QED BY <1>2, <2>1 DEF Links
<1>3. CASE x = "c"
  <2>1. Links = {x, "a", "b"}
    BY <1>3 DEF Links
  <2>. QED BY <1>3, <2>1 DEF Links
<1>. QED BY <1>1, <1>2, <1>3 DEF Links

LEMMA Sum3Any ==
  ASSUME NEW w \in [Links -> Int], NEW S, NEW x \in Links, NEW y \in Links, NEW z \in Links,
         x # y, x # z, y # z
  PROVE  Sum3(w, S) = Part(w, S, x) + Part(w, S, y) + Part(w, S, z)
<1>1. \A i \in Links : Part(w, S, i) \in Int
  BY DEF Part
<1> DEFINE p(i) == Part(w, S, i)
<1>2. /\ p("a") \in Int /\ p("b") \in Int /\ p("c") \in Int
      /\ Sum3(w, S) = p("a") + p("b") + p("c")
  BY <1>1 DEF Sum3, Links
<1>. HIDE DEF p
<1>3. p(x) + p(y) + p(z) = p("a") + p("b") + p("c")
  BY <1>2 DEF Links
<1>. QED BY <1>2, <1>3 DEF p

LEMMA CreditSumAny ==
  ASSUME NEW c \in [Links -> Int], NEW x \in Links, NEW y \in Links, NEW z \in Links,
         x # y, x # z, y # z
  PROVE  c[x] + c[y] + c[z] = c["a"] + c["b"] + c["c"]
<1>1. c["a"] \in Int /\ c["b"] \in Int /\ c["c"] \in Int
  BY DEF Links
<1>. QED BY <1>1 DEF Links

\* A weighted selection keeps the credits within a round.
LEMMA PaidKeepsBounds ==
  ASSUME CreditInv, NEW S \in SUBSET Sched!Range(pool), S # {},
         NEW new, new = Sched!Paid(S, Sched!Richest(S))
  PROVE  /\ new \in [Links -> Int]
         /\ new["a"] + new["b"] + new["c"] = 0
         /\ \A x \in Links \ Sched!Range(pool) : new[x] = 0
         /\ \A x \in Links : -TotalNow < new[x] /\ new[x] < TotalNow
         /\ \A x \in Links : x # Sched!Richest(S) => new[x] = credit[x] + Part(weight, S, x)
<1> DEFINE t == TotalNow
<1>1. /\ weight \in [Links -> Nat \ {0}] /\ weight \in [Links -> Int] /\ credit \in [Links -> Int]
      /\ Sched!Range(pool) \in SUBSET Links /\ t \in Nat /\ t > 0 /\ S \in SUBSET Links
  BY WeightsAre DEF CreditInv
<1>2. PICK x \in S : x = Sched!Richest(S)
  BY PaidIs
<1>3. PICK y \in Links, z \in Links : x # y /\ x # z /\ y # z /\ Links = {x, y, z}
  BY <1>1, <1>2, OthersOf
<1>4. x \in Links /\ y \in Links /\ z \in Links
  BY <1>1, <1>2
<1> DEFINE p == weight[x]
           q == Part(weight, S, y)
           r == Part(weight, S, z)
<1>5. /\ p \in Nat /\ q \in Nat /\ r \in Nat /\ p > 0 /\ Part(weight, S, x) = p
  BY <1>1, <1>2, <1>4 DEF Part
<1>6. Sum3(weight, S) = p + q + r
  BY <1>1, <1>4, <1>3, <1>5, Sum3Any
<1>7. p + q + r <= t
  <2> DEFINE R == Sched!Range(pool)
             pp == Part(weight, R, x)
             qq == Part(weight, R, y)
             rr == Part(weight, R, z)
  <2>1. t = pp + qq + rr
    BY <1>1, <1>3, <1>4, Sum3Any DEF TotalNow
  <2>2. /\ pp \in Nat /\ qq \in Nat /\ rr \in Nat /\ p <= pp /\ q <= qq /\ r <= rr
    BY <1>1, <1>2, <1>4 DEF Part
  <2>. HIDE DEF pp, qq, rr, p, q, r, t
  <2>. QED BY <1>5, <2>1, <2>2
<1>8. /\ credit[x] + credit[y] + credit[z] = 0
      /\ credit[x] \in Int /\ credit[y] \in Int /\ credit[z] \in Int
  BY <1>1, <1>3, <1>4, CreditSumAny DEF CreditInv
<1>9. /\ -t < credit[x] /\ -t < credit[y] /\ -t < credit[z]
      /\ credit[x] < t /\ credit[y] < t /\ credit[z] < t
  BY <1>4 DEF CreditInv
<1>10. q = 0 \/ credit[y] + q <= credit[x] + p
  BY <1>2, PaidIs DEF Part
<1>11. r = 0 \/ credit[z] + r <= credit[x] + p
  BY <1>2, PaidIs DEF Part
<1>12. new = [i \in Links |-> IF i = x THEN credit[i] + weight[i] - Sum3(weight, S)
                             ELSE credit[i] + Part(weight, S, i)]
  BY <1>2, PaidIs
<1>13. new[x] = credit[x] + p - (p + q + r) /\ new[y] = credit[y] + q /\ new[z] = credit[z] + r
  BY <1>3, <1>4, <1>6, <1>12
<1>14. \A i \in Links : i # x => new[i] = credit[i] + Part(weight, S, i)
  BY <1>12
<1>15. \A i \in Links \ Sched!Range(pool) : new[i] = 0
  <2>1. ASSUME NEW i \in Links \ Sched!Range(pool)
        PROVE  new[i] = 0
    <3>1. i # x /\ credit[i] = 0 /\ Part(weight, S, i) = 0
      BY <1>2 DEF CreditInv, Part
    <3>. QED BY <1>14, <3>1
  <2>. QED BY <2>1
<1>. HIDE DEF p, q, r, t
<1>16. new[x] = credit[x] - q - r
  BY <1>5, <1>8, <1>13
<1>17. /\ -t < new[x] /\ new[x] < t /\ -t < new[y] /\ new[y] < t /\ -t < new[z] /\ new[z] < t
  <2> DEFINE cx == credit[x]
             cy == credit[y]
             cz == credit[z]
  <2>1. /\ cx \in Int /\ cy \in Int /\ cz \in Int /\ cx + cy + cz = 0
        /\ -t < cx /\ -t < cy /\ -t < cz /\ cx < t /\ cy < t /\ cz < t
        /\ q = 0 \/ cy + q <= cx + p
        /\ r = 0 \/ cz + r <= cx + p
        /\ new[x] = cx - q - r /\ new[y] = cy + q /\ new[z] = cz + r
    BY <1>8, <1>9, <1>10, <1>11, <1>13, <1>16
  <2>2. p \in Nat /\ q \in Nat /\ r \in Nat /\ t \in Nat /\ p + q + r <= t /\ t > 0 /\ p > 0
    BY <1>1, <1>5, <1>7
  <2>. HIDE DEF cx, cy, cz
  <2>3. /\ -t < cx - q - r /\ cx - q - r < t
        /\ -t < cy + q /\ cy + q < t
        /\ -t < cz + r /\ cz + r < t
    BY <2>1, <2>2, OneRound
  <2>. QED BY <2>1, <2>3
<1>18. /\ new[x] \in Int /\ new[y] \in Int /\ new[z] \in Int /\ new[x] + new[y] + new[z] = 0
  BY <1>5, <1>8, <1>13, <1>16
<1>19. new \in [Links -> Int]
  BY <1>3, <1>12, <1>18
<1>20. new["a"] + new["b"] + new["c"] = 0
  BY <1>3, <1>4, <1>18, <1>19, CreditSumAny
<1>21. \A i \in Links : -t < new[i] /\ new[i] < t
  BY <1>3, <1>17
<1>. QED BY <1>2, <1>14, <1>15, <1>19, <1>20, <1>21 DEF t

-----------------------------------------------------------------------------
(* The scheduler: the steps.                                               *)

\* A selection that pays: who was passed over is given its weight once more.
LEMMA SelectKeepsCredit ==
  ASSUME CreditInv, NEW S \in SUBSET Sched!Range(pool), S # {}, NEW chosen,
         Sched!SelectFor(S, chosen)
  PROVE  CreditInv'
<1>1. UNCHANGED <<pool, weight>> /\ TotalNow' = TotalNow
  BY DEF Sched!SelectFor, Sched!Select, TotalNow
<1>2. CASE strategy = "weighted" /\ Sched!Cardinality(S) > 1
  <2>1. Sched!SelectWeighted(S, chosen) /\ waited' = Sched!Counted(waited, S, chosen)
    BY <1>2 DEF Sched!SelectFor, Sched!Select
  <2>2. chosen = Sched!Richest(S) /\ credit' = Sched!Paid(S, chosen)
    BY <2>1 DEF Sched!SelectWeighted
  <2>3. chosen \in S /\ S \in SUBSET Links
    BY <2>2, PaidIs, WeightsAre
  <2>4. /\ credit' \in [Links -> Int]
        /\ credit'["a"] + credit'["b"] + credit'["c"] = 0
        /\ \A x \in Links \ Sched!Range(pool) : credit'[x] = 0
        /\ \A x \in Links : -TotalNow < credit'[x] /\ credit'[x] < TotalNow
        /\ \A x \in Links : x # chosen => credit'[x] = credit[x] + Part(weight, S, x)
    BY <2>2, PaidKeepsBounds
  <2>5. waited' = [x \in Links |-> IF x = chosen THEN 0
                                  ELSE IF x \in S /\ waited[x] < MaxWait THEN waited[x] + 1
                                  ELSE waited[x]]
    BY <2>1 DEF Sched!Counted, Links
  <2>6. waited' \in [Links -> Nat]
    BY <2>5 DEF CreditInv
  <2>7. \A x \in Links \ Sched!Range(pool) : waited'[x] = 0
    BY <2>5 DEF CreditInv
  <2>8. ASSUME NEW x \in Links
        PROVE  waited'[x] * weight[x] < TotalNow + credit'[x]
    <3>1. /\ weight[x] \in Nat /\ waited[x] \in Nat /\ credit[x] \in Int /\ TotalNow \in Int
          /\ credit'[x] \in Int /\ -TotalNow < credit'[x]
          /\ waited[x] * weight[x] < TotalNow + credit[x]
      BY <2>4, WeightsAre DEF CreditInv
    <3>2. CASE x = chosen
      <4>1. waited'[x] * weight[x] = 0
        BY <2>5, <3>1, <3>2
      <4>. QED BY <3>1, <4>1
    <3>3. CASE x # chosen /\ x \notin S
      <4>1. credit'[x] = credit[x] /\ waited'[x] = waited[x]
        BY <2>4, <2>5, <3>1, <3>3 DEF Part
      <4>. QED BY <3>1, <4>1
    <3>4. CASE x # chosen /\ x \in S
      <4>1. credit'[x] = credit[x] + weight[x] /\ waited'[x] \in {waited[x], waited[x] + 1}
        BY <2>4, <2>5, <3>1, <3>4 DEF Part
      <4>2. (waited[x] + 1) * weight[x] = waited[x] * weight[x] + weight[x]
        BY <3>1
      <4>3. waited[x] * weight[x] \in Int
        BY <3>1
      <4>4. waited'[x] * weight[x] <= waited[x] * weight[x] + weight[x]
        BY <3>1, <4>1, <4>2, <4>3
      <4>5. waited'[x] * weight[x] \in Int
        BY <3>1, <4>1
      <4>. QED BY <3>1, <4>1, <4>3, <4>4, <4>5
    <3>. QED BY <3>2, <3>3, <3>4
  <2>. QED BY <1>1, <2>4, <2>6, <2>7, <2>8 DEF CreditInv
<1>3. CASE ~(strategy = "weighted" /\ Sched!Cardinality(S) > 1)
  <2>1. credit' = credit /\ waited' = waited
    BY <1>3 DEF Sched!SelectFor, Sched!Select, Sched!SelectRotation
  <2>. QED BY <1>1, <2>1 DEF CreditInv
<1>. QED BY <1>2, <1>3

\* An update starts again with no credit.
LEMMA FreshCredit ==
  ASSUME pool' \in Sched!Pools, weight' \in [Links -> LinkWeights],
         credit' = [x \in Links |-> 0], waited' = [x \in Links |-> 0]
  PROVE  CreditInv'
<1>1. TotalNow' \in Int /\ TotalNow' > 0
  BY PoolRange, WeightIs, TotalIs DEF TotalNow
<1>2. /\ credit' \in [Links -> Int] /\ waited' \in [Links -> Nat]
      /\ \A x \in Links : credit'[x] = 0 /\ waited'[x] = 0
      /\ credit'["a"] = 0 /\ credit'["b"] = 0 /\ credit'["c"] = 0
  BY DEF Links
<1>3. \A x \in Links : weight'[x] \in Nat
  BY WeightIs
<1>4. \A x \in Links : waited'[x] * weight'[x] = 0
  BY <1>2, <1>3
<1>5. \A t \in Int : t > 0 => \A x \in Links : /\ -t < credit'[x] /\ credit'[x] < t
                                               /\ waited'[x] * weight'[x] < t + credit'[x]
  BY <1>2, <1>4
<1>6. \A x \in Links : /\ -TotalNow' < credit'[x] /\ credit'[x] < TotalNow'
                       /\ waited'[x] * weight'[x] < TotalNow' + credit'[x]
  BY <1>1, <1>5
<1>. QED BY <1>2, <1>6 DEF CreditInv

LEMMA UpdateKeepsCredit ==
  ASSUME CreditInv, NEW p \in Sched!Pools, NEW w \in [Links -> LinkWeights], NEW s,
         Sched!Updating(p, w, s)
  PROVE  CreditInv'
<1>1. /\ pool' = p /\ credit' = [x \in Links |-> 0] /\ waited' = [x \in Links |-> 0]
      /\ weight' = [x \in Links |-> IF x \in Sched!Range(p) THEN w[x] ELSE weight[x]]
  BY DEF Sched!Updating, Sched!Update, Links
<1>2. weight' \in [Links -> LinkWeights]
  BY <1>1 DEF CreditInv
<1>. QED BY <1>1, <1>2, FreshCredit

LEMMA SchedulerNext ==
  ASSUME CreditInv, Sched!Next
  PROVE  CreditInv'
<1>0. pool \in Sched!Pools /\ weight \in [Links -> LinkWeights]
      /\ Sched!Range(pool) \in SUBSET Links
  BY WeightsAre DEF CreditInv
<1>1. ASSUME NEW S \in SUBSET Sched!Range(pool), S # {}, NEW chosen \in S, Sched!SelectFor(S, chosen)
      PROVE  CreditInv'
  BY <1>1, SelectKeepsCredit
<1>2. ASSUME NEW p \in Sched!Pools, Sched!Updating(p, weight, strategy)
      PROVE  CreditInv'
  BY <1>0, <1>2, UpdateKeepsCredit
<1>3. ASSUME NEW a \in Sched!Range(pool), NEW n \in LinkWeights,
             Sched!Updating(pool, [weight EXCEPT ![a] = n], strategy)
      PROVE  CreditInv'
  <2>1. [weight EXCEPT ![a] = n] \in [Links -> LinkWeights]
    BY <1>0
  <2>. QED BY <1>0, <1>3, <2>1, UpdateKeepsCredit
<1>4. ASSUME NEW s \in Sched!Strategies, Sched!Updating(pool, weight, s)
      PROVE  CreditInv'
  BY <1>0, <1>4, UpdateKeepsCredit
<1>. QED BY <1>1, <1>2, <1>3, <1>4 DEF Sched!Next

LEMMA SchedulerRest ==
  ASSUME CreditInv, UNCHANGED poolVars
  PROVE  CreditInv'
BY DEF CreditInv, poolVars, TotalNow

LEMMA SchedulerStarts ==
  ASSUME Sched!Init
  PROVE  CreditInv
<1>1. /\ pool \in Sched!Pools /\ weight \in [Links -> LinkWeights]
      /\ credit = [x \in Links |-> 0] /\ waited = [x \in Links |-> 0]
  BY DEF Sched!Init, Sched!SchedulerInit, Links
<1>2. TotalNow \in Int /\ TotalNow > 0
  BY <1>1, PoolRange, WeightIs, TotalIs DEF TotalNow
<1>3. /\ credit \in [Links -> Int] /\ waited \in [Links -> Nat]
      /\ \A x \in Links : credit[x] = 0 /\ waited[x] = 0
      /\ credit["a"] = 0 /\ credit["b"] = 0 /\ credit["c"] = 0
  BY <1>1 DEF Links
<1>4. \A x \in Links : weight[x] \in Nat
  BY <1>1, WeightIs
<1>5. \A x \in Links : /\ -TotalNow < credit[x] /\ credit[x] < TotalNow
                       /\ waited[x] * weight[x] < TotalNow + credit[x]
  BY <1>2, <1>3, <1>4
<1>. QED BY <1>1, <1>3, <1>5 DEF CreditInv

\* selectWeighted (scheduler.go): with at most three links no claim or debt
\* exceeds a round of the pool and no candidate waits for more than two, for any
\* weights and any sequence of candidate lists.
THEOREM LinksGetTheirShare == ProxySpec => []FairShares
<1> DEFINE I == part = "scheduler" => CreditInv
<1>1. ProxyInit => I
  BY SchedulerStarts DEF ProxyInit
<1>2. I /\ [ProxyNext]_allVars => I'
  BY SchedulerNext, SchedulerRest
     DEF ProxyNext, allVars, Schedules, Relays, Forwards, Resolves, Transfers
<1>3. I => FairShares
  BY CreditSuffices DEF FairShares
<1>. HIDE DEF I
<1>. QED BY <1>1, <1>2, <1>3, PTL DEF ProxySpec
=============================================================================
