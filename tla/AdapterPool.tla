----------------------------- MODULE AdapterPool -----------------------------
(***************************************************************************)
(* engine/internal/proxy/dial.go: TCP flows that share the scheduler and    *)
(* the health table while the desktop changes the pool, the quarantine     *)
(* policy and the quarantines themselves.                                  *)
(*                                                                         *)
(* A destination is a domain or a literal address; a literal stands for    *)
(* its network (timeoutTargetKey) and is named by its family. What the     *)
(* network does to a dial is free, except that nothing connects to a dead  *)
(* destination or to a literal the link has no address family for.         *)
(***************************************************************************)
EXTENDS AdapterHealth, AdapterScheduler

CONSTANTS
  Flows,     \* goroutines in dialUpstream
  Supports,  \* per adapter: the families it has a source address of
  Literals   \* the families of the literal destinations

ASSUME SupportsAssumption ==
  /\ Supports \in [Adapters -> (SUBSET Families) \ {{}}]
  /\ Literals \subseteq Families

VARIABLES
  flow,  \* per flow: its local variables in dialUpstream
  dead   \* the destinations that never answer (chosen once)

vars == <<healthVars, schedulerVars, flow, dead>>

Destinations == Domains \cup Literals

\* The aggregation channel, and one channel per adapter.
Channels == {"aggregation"} \cup Adapters

Idle == [pc |-> "idle"]

\* excluded, lost (comparativeFailures) and late (timedOut): adapters;
\* todo: adapters whose family is still to be looked up; left: attempts.
Dialling == [pc : {"exclude", "select", "dial"}, dest : Destinations, channel : Channels,
             excluded : SUBSET Adapters, todo : Seq(Adapters), left : 0 .. Cardinality(Adapters),
             lost : SUBSET Adapters, late : SUBSET Adapters, via : Adapters \cup {"none"}]

\* A flow that has connected has these left to record.
Blamed == [pc : {"blame"}, dest : Destinations, lost : SUBSET Adapters, late : SUBSET Adapters]

TypeOK ==
  /\ HealthTypeOK
  /\ SchedulerTypeOK
  /\ flow \in [Flows -> Dialling \cup Blamed \cup {Idle}]
  /\ dead \in SUBSET Destinations

Members(channel) == IF channel = "aggregation" THEN pool ELSE <<channel>>

Init ==
  /\ SchedulerInit
  /\ \E on, isolated \in BOOLEAN, seeds \in [Adapters -> [Domains -> 0 .. QuarantineTTL]] :
       NewHealthTable(Adapters, on, isolated, seeds)
  /\ flow = [f \in Flows |-> Idle]
  /\ dead \in SUBSET Destinations

-----------------------------------------------------------------------------
(* A flow.                                                                 *)

\* With nothing left to try the flow ends in an error.
Selecting(r) == IF r.left = 0 THEN Idle ELSE [r EXCEPT !.pc = "select", !.left = Smaller(2, @)]

\* The pool is read once. If one usable link has its family ready, every link
\* is looked up again, one by one (excludeCoolingFamilies).
Start(f) ==
  /\ flow[f].pc = "idle"
  /\ \E d \in Destinations, ch \in Channels :
       LET members == Range(Members(ch))
           unable  == IF d \in Literals THEN Unable(members, Supports, d) ELSE {}
           usable  == members \ unable
           ready   == d \in Literals /\ \E a \in usable : ~FamilyCooling(a, Supports, d)
           r       == [pc |-> "exclude", dest |-> d, channel |-> ch, excluded |-> unable,
                       todo |-> IF ready THEN Members(ch) ELSE <<>>, left |-> Cardinality(usable),
                       lost |-> {}, late |-> {}, via |-> "none"]
       IN flow' = [flow EXCEPT ![f] = IF ready THEN r ELSE Selecting(r)]
  /\ UNCHANGED <<healthVars, schedulerVars, dead>>

\* The answer may differ from the one that made the flow look.
ExcludeCooling(f) ==
  /\ flow[f].pc = "exclude"
  /\ LET r    == flow[f]
         a    == Head(r.todo)
         skip == FamilyCooling(a, Supports, r.dest) /\ a \notin r.excluded
         seen == [r EXCEPT !.todo = Tail(@), !.excluded = IF skip THEN @ \cup {a} ELSE @,
                           !.left = IF skip THEN @ - 1 ELSE @]
     IN flow' = [flow EXCEPT ![f] = IF seen.todo = <<>> THEN Selecting(seen) ELSE seen]
  /\ UNCHANGED <<healthVars, schedulerVars, dead>>

\* acquireTCP on the pool as it is now. A channel of one link has a scheduler
\* of its own, with nothing to schedule.
Acquire(f) ==
  /\ flow[f].pc = "select"
  /\ LET r == flow[f]
         S == Candidates(Members(r.channel), r.excluded, r.dest)
     IN /\ PruneDomains(Eligible(Members(r.channel), r.excluded))
        /\ \/ /\ S = {}
              /\ flow' = [flow EXCEPT ![f] = Idle]
              /\ UNCHANGED schedulerVars
           \/ \E a \in S :
                /\ IF r.channel = "aggregation" THEN Select(S, a) ELSE UNCHANGED schedulerVars
                /\ flow' = [flow EXCEPT ![f].pc = "dial", ![f].via = a, ![f].left = @ - 1,
                                        ![f].excluded = @ \cup {a}]
  /\ UNCHANGED <<known, link, famCooling, isolation, expiryOn, dead>>

CanConnect(r) ==
  /\ r.dest \notin dead
  /\ r.dest \in Literals => Reaches(Supports[r.via], r.dest)

\* What a flow that has connected still has to record.
Blaming(d, lost, late) ==
  IF lost \cup late = {} THEN Idle
  ELSE [pc |-> "blame", dest |-> d, lost |-> lost, late |-> late]

\* Other addresses of the destination may have failed on the way.
DialSucceeds(f) ==
  /\ flow[f].pc = "dial"
  /\ CanConnect(flow[f])
  /\ \E good \in Supports[flow[f].via] : \E bad \in SUBSET (Supports[flow[f].via] \ {good}) :
       RecordFamilies(flow[f].via, {good}, bad)
  /\ RecordSuccess(flow[f].via, flow[f].dest)
  /\ flow' = [flow EXCEPT ![f] = Blaming(@.dest, @.lost, @.late)]
  /\ UNCHANGED <<schedulerVars, dead>>

\* Defect: a flow that connected nowhere reports its timeouts all the same.
AfterFailureBlames(failed) ==
  IF failed.left = 0 THEN Blaming(failed.dest, failed.lost, failed.late) ELSE failed

\* A flow that connected nowhere ends in an error, and what it saw is dropped.
AfterFailure(failed) == IF failed.left = 0 THEN Idle ELSE failed

\* A local error of a link with one family is the link's own; any other
\* failure is only held against it if another link does better. Both can be
\* said of one failure, which joins the errors of several addresses.
DialFails(f) ==
  /\ flow[f].pc = "dial"
  /\ \E bad \in SUBSET Supports[flow[f].via], local, timeout \in BOOLEAN :
       LET r       == flow[f]
           charged == local /\ Cardinality(Supports[r.via]) = 1
           failed  == [r EXCEPT !.pc = "select", !.via = "none",
                        !.lost = IF ~charged /\ r.dest \in Domains THEN @ \cup {r.via} ELSE @,
                        !.late = IF timeout THEN @ \cup {r.via} ELSE @]
       IN /\ RecordFamilies(r.via, {}, bad)
          /\ IF charged THEN RecordLocalFailure(r.via)
                        ELSE UNCHANGED <<known, link, isolation, domVars>>
          /\ flow' = [flow EXCEPT ![f] = AfterFailure(failed)]
  /\ UNCHANGED <<schedulerVars, dead>>

\* recordComparativeDomainFailure and then recordComparativeTimeout, each a
\* critical section of its own, after the success was recorded.
Blame(f) ==
  /\ flow[f].pc = "blame"
  /\ LET r == flow[f] IN
     \/ \E a \in r.lost :
          /\ RecordDomainFailure(a, r.dest)
          /\ flow' = [flow EXCEPT ![f] = Blaming(r.dest, r.lost \ {a}, r.late)]
     \/ \E a \in r.late :
          /\ r.lost = {}
          /\ RecordComparativeTimeout(a, r.dest)
          /\ flow' = [flow EXCEPT ![f] = Blaming(r.dest, r.lost, r.late \ {a})]
  /\ UNCHANGED <<schedulerVars, dead>>

-----------------------------------------------------------------------------
(* The desktop, and time.                                                  *)

\* scheduler.update: adapters the table has not seen become known.
UpdateScheduling ==
  /\ \E p \in Pools : Update(p, weight, strategy) /\ known' = known \cup Range(p)
  /\ UNCHANGED <<link, famCooling, isolation, domVars, flow, dead>>

\* The desktop sends one change at a time: the policy, the removal of one
\* record, or of all (desktop domain_quarantine.go, blocked_domains.go).
UpdateQuarantines ==
  /\ \/ \E on \in BOOLEAN : UpdateDomainQuarantines(on, FALSE, {})
     \/ UpdateDomainQuarantines(expiryOn, TRUE, {})
     \/ \E pair \in Adapters \X Domains : UpdateDomainQuarantines(expiryOn, FALSE, {pair})
  /\ UNCHANGED <<known, link, famCooling, isolation, schedulerVars, flow, dead>>

\* snapshot, for telemetry.
Telemetry ==
  /\ PruneDomains(known)
  /\ UNCHANGED <<known, link, famCooling, isolation, expiryOn, schedulerVars, flow, dead>>

Tick == TimePasses /\ UNCHANGED <<schedulerVars, flow, dead>>

Next ==
  \/ \E f \in Flows :
       Start(f) \/ ExcludeCooling(f) \/ Acquire(f) \/ DialSucceeds(f) \/ DialFails(f) \/ Blame(f)
  \/ UpdateScheduling
  \/ UpdateQuarantines
  \/ Telemetry
  \/ Tick

Spec == Init /\ [][Next]_vars

-----------------------------------------------------------------------------
\* "Domain isolation must not turn a destination into a total outage", and "if
\* every link is cooling down, keep one recovery path available"
\* (health.go:190-194): whatever a flow has tried and whatever other flows
\* have recorded, a link of the pool that it has not tried can be selected.
SelectionNeverFails ==
  \A excluded \in SUBSET Adapters, d \in Destinations :
    Range(pool) \ excluded # {} => Candidates(pool, excluded, d) # {}

\* The table of the links leaves every flow a link, and its index of deadlines
\* has what the table has, through every outcome, removal and update.
TableIsSound == SelectionNeverFails /\ IndexMirrorsDomains

\* "Timeouts seen on every adapter, such as an unreachable destination, never
\* reach this method" (health.go:215-216): a destination that never answers
\* quarantines no link and counts against none.
DeadDestinationsBlameNobody ==
  \A a \in Adapters, d \in dead :
    /\ d \notin link[a].targets
    /\ d \in Domains => dom[a][d].evidence # 1

\* "With automatic expiry disabled, a confirmed quarantine lasts until the user
\* removes it" (health.go:269-271): no success, failure or tick ends it.
Ended(a, d) == ~expiryOn /\ Confirmed(dom[a][d]) /\ ~Confirmed(dom'[a][d])
ConfirmedOutlivesTraffic ==
  [][\A a \in Adapters, d \in Domains : Ended(a, d) => UpdateQuarantines]_vars

\* "Prefer a working family on another selected NIC, but retain recovery
\* attempts when every matching NIC is cooling down" (dial.go:116-117): a flow
\* that some link can carry does not end without an attempt.
RecoveryAttemptRetained ==
  [][\A f \in Flows :
       flow[f].pc = "exclude" => flow'[f].pc # "idle"]_vars
=============================================================================
