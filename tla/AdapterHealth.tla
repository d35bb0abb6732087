---------------------------- MODULE AdapterHealth ----------------------------
(***************************************************************************)
(* engine/internal/proxy/health.go and family_health.go: what the engine   *)
(* remembers of its links, and which of them a new flow may use.           *)
(*                                                                         *)
(* Every operation here is one critical section of h.mu. The cooldown of a *)
(* link is the time that is left, in ticks; the counters matter only up to *)
(* their thresholds and stop there. The cooldown of one address family of  *)
(* a link has no reader that compares it with another one, so only whether *)
(* it is over is kept, and it may end at any time.                         *)
(***************************************************************************)
EXTENDS DomainQuarantine

CONSTANTS
  Targets,          \* what timeoutTargetKey can return
  Backoff,          \* adapterFailureBackoff, in ticks
  TimeoutFailures,  \* adapterTimeoutFailureThreshold
  TimeoutTargets    \* adapterTimeoutTargetThreshold

ASSUME BackoffAssumption ==
  /\ Backoff \in Seq(Nat \ {0})
  /\ Backoff # <<>>
  /\ TimeoutFailures \in Nat \ {0}
  /\ TimeoutTargets \in Nat \ {0}

VARIABLES
  known,       \* the adapters that have a state in h.adapters
  link,        \* per adapter: failures, timeouts, targets, left
  famCooling,  \* the pairs (adapter, family) that are cooling down
  isolation    \* h.domainIsolation

healthVars == <<known, link, famCooling, isolation, domVars>>

Families == {"ipv4", "ipv6"}

Links == [failures : 0 .. Len(Backoff), timeouts : 0 .. TimeoutFailures,
          targets : SUBSET Targets, left : Nat]

Fresh == [failures |-> 0, timeouts |-> 0, targets |-> {}, left |-> 0]

HealthTypeOK ==
  /\ known \in SUBSET Adapters
  /\ link \in [Adapters -> Links]
  /\ famCooling \in SUBSET (Adapters \X Families)
  /\ isolation \in BOOLEAN
  /\ DomTypeOK

\* newHealthTableConfigured
NewHealthTable(adapters, on, isolated, seeds) ==
  /\ known = adapters
  /\ link = [a \in Adapters |-> Fresh]
  /\ famCooling = {}
  /\ isolation = isolated
  /\ expiryOn = on
  /\ dom = Seeded(seeds, on)

-----------------------------------------------------------------------------
(* Outcomes. The two that follow a dial leave famCooling to RecordFamilies. *)

\* coolDownLocked: the backoff grows with the consecutive failures.
CoolDown(h) ==
  LET n == Smaller(h.failures + 1, Len(Backoff)) IN
  [h EXCEPT !.failures = n, !.left = Backoff[n]]

RecordLocalFailure(a) ==
  /\ link' = IF a \in known THEN [link EXCEPT ![a] = CoolDown(@)] ELSE link
  /\ UNCHANGED <<known, isolation, domVars>>

\* One more comparative timeout towards t: the link cools down once there are
\* enough of them towards enough destinations, and the counter stays.
TimedOut(h, t) ==
  LET counted == [h EXCEPT !.timeouts = Smaller(@ + 1, TimeoutFailures),
                           !.targets = IF Cardinality(@) < TimeoutTargets
                                         THEN @ \cup {t} ELSE @]
  IN IF \/ counted.timeouts < TimeoutFailures
        \/ Cardinality(counted.targets) < TimeoutTargets
       THEN counted ELSE CoolDown(counted)

RecordComparativeTimeout(a, t) ==
  /\ link' = IF a \in known THEN [link EXCEPT ![a] = TimedOut(@, t)] ELSE link
  /\ UNCHANGED <<known, famCooling, isolation, domVars>>

\* A literal target has no domain and clears none.
RecordSuccess(a, d) ==
  /\ IF a \in known
       THEN /\ link' = [link EXCEPT ![a] = Fresh]
            /\ dom' = IF d \in Domains THEN [dom EXCEPT ![a][d] = Succeeded(@)] ELSE dom
       ELSE UNCHANGED <<link, dom>>
  /\ UNCHANGED <<known, isolation, expiryOn>>

RecordDomainFailure(a, d) ==
  /\ IF isolation /\ d \in Domains /\ a \in known
       THEN RecordComparativeDomainFailure(a, d)
       ELSE UNCHANGED domVars
  /\ UNCHANGED <<known, link, famCooling, isolation>>

\* recordFamily for the families that a dial used.
RecordFamilies(a, good, bad) ==
  famCooling' = (famCooling \ ({a} \X good)) \cup ({a} \X bad)

-----------------------------------------------------------------------------
(* Choice.                                                                 *)

Quarantined(a, d) == isolation /\ d \in Domains /\ InForce(Pruned(dom[a][d]))

\* earliestCooldown: the first link, in the order of the pool, of those that
\* recover first. A single link is returned as it is.
EarliestCooldown(order, S) ==
  LET first == CHOOSE i \in DOMAIN order :
        /\ order[i] \in S
        /\ \A j \in DOMAIN order : order[j] \in S =>
             \/ link[order[i]].left < link[order[j]].left
             \/ link[order[i]].left = link[order[j]].left /\ i <= j
  IN IF Cardinality(S) < 2 THEN S ELSE {order[first]}

Eligible(order, excluded) ==
  {a \in known : a \notin excluded /\ \E i \in DOMAIN order : order[i] = a}

\* candidates: the healthy links; then quarantined ones, so that isolation is
\* never an outage; then the link that recovers first.
Candidates(order, excluded, d) ==
  LET all      == Eligible(order, excluded)
      fallback == {a \in all : link[a].left = 0}
      recovery == {a \in all : ~Quarantined(a, d)}
      healthy  == fallback \cap recovery
  IN IF healthy # {} THEN healthy
     ELSE IF fallback # {} THEN fallback
     ELSE EarliestCooldown(order, IF recovery # {} THEN recovery ELSE all)

\* The destination's family as the adapter would use it: an IPv6-only link
\* reaches an IPv4 literal through NAT64.
ActualFamily(supports, fam) ==
  IF fam = "ipv4" /\ supports = {"ipv6"} THEN "ipv6" ELSE fam

Reaches(supports, fam) == fam \in supports \/ (fam = "ipv4" /\ "ipv6" \in supports)

\* The links a flow to a literal of the given family excludes at once.
Unable(adapters, supports, fam) == {a \in adapters : ~Reaches(supports[a], fam)}

FamilyCooling(a, supports, fam) == <<a, ActualFamily(supports[a], fam)>> \in famCooling

-----------------------------------------------------------------------------
(* Time.                                                                   *)

TimePasses ==
  /\ link' = [a \in Adapters |-> [link[a] EXCEPT !.left = IF @ = 0 THEN 0 ELSE @ - 1]]
  /\ DomainsAge
  /\ famCooling' \in SUBSET famCooling
  /\ UNCHANGED <<known, isolation, expiryOn>>
=============================================================================
