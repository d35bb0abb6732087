-------------------------- MODULE DomainQuarantine --------------------------
(***************************************************************************)
(* The domain half of engine/internal/proxy/health.go, with the deadline   *)
(* heap of engine/internal/expiry/index.go that prunes it.                 *)
(*                                                                         *)
(* A failure of one adapter that another adapter overcame for the same     *)
(* domain is evidence; two pieces of evidence quarantine the pair. An      *)
(* adapter's domains are a map of entries and a heap of deadlines: a cell  *)
(* holds both sides of one pair, so that the two can disagree.             *)
(*                                                                         *)
(* Deadlines are the time that is left, in ticks. One hundred years, which *)
(* is how the code writes "never", is Permanent and does not tick away.    *)
(* The evidence counter matters only up to the threshold and stops there.  *)
(***************************************************************************)
EXTENDS AdapterNames

CONSTANTS
  Domains,         \* normalized domain names
  EvidenceTTL,     \* domainEvidenceTTL
  QuarantineTTL    \* domainQuarantineTTL

ASSUME TTLAssumption ==
  /\ EvidenceTTL \in Nat \ {0}
  /\ QuarantineTTL \in Nat \ {0}
  /\ EvidenceTTL <= QuarantineTTL

VARIABLES
  dom,       \* per adapter and domain: the cell
  expiryOn   \* h.domainIsolationExpiry

domVars == <<dom, expiryOn>>

domainFailureThreshold == 2

Permanent  == QuarantineTTL + 1
NotIndexed == QuarantineTTL + 2
Deadlines  == 0 .. Permanent

\* evidence and left: the entry of state.domains (no entry: no evidence);
\* due: the deadline under which state.domainExpiry holds the domain.
Cells == [evidence : 0 .. domainFailureThreshold, left : Deadlines,
          due : Deadlines \cup {NotIndexed}]

Absent == [evidence |-> 0, left |-> 0, due |-> NotIndexed]

DomTypeOK ==
  /\ dom \in [Adapters -> [Domains -> Cells]]
  /\ expiryOn \in BOOLEAN

Smaller(m, n) == IF m <= n THEN m ELSE n

Confirmed(c) == c.evidence >= domainFailureThreshold

\* domainQuarantined, once the isolation switch and the domain are known.
InForce(c) == Confirmed(c) /\ c.left > 0

Lifetime(on) == IF on THEN QuarantineTTL ELSE Permanent

\* An entry with the given evidence that expires after the given time, put
\* into the map and into the heap.
Entry(n, t) == [evidence |-> n, left |-> t, due |-> t]

-----------------------------------------------------------------------------
(* What each operation does to one cell.                                   *)

\* pruneExpiredDomains removes what the heap says is due.
Pruned(c) == IF c.due = 0 THEN Absent ELSE c

\* Defect: the heap is not told about the renewed deadline.
FailedKeepsIndex(c) ==
  LET old == Pruned(c)
      n   == IF old.left = 0 THEN 1 ELSE Smaller(old.evidence + 1, domainFailureThreshold)
  IN [Entry(n, IF n < domainFailureThreshold THEN EvidenceTTL ELSE Lifetime(expiryOn))
        EXCEPT !.due = IF old.due = NotIndexed THEN @ ELSE old.due]

\* recordComparativeDomainFailure: an entry that is absent or past its
\* deadline starts again.
Failed(c) ==
  LET old == Pruned(c)
      n   == IF old.left = 0 THEN 1 ELSE Smaller(old.evidence + 1, domainFailureThreshold)
  IN Entry(n, IF n < domainFailureThreshold THEN EvidenceTTL ELSE Lifetime(expiryOn))

\* Defect: a success also ends a quarantine that only the user may end.
SucceededAlways(c) == Absent

\* recordSuccess: without automatic expiry a confirmed quarantine stays.
Succeeded(c) == IF Confirmed(c) /\ ~expiryOn THEN c ELSE Absent

\* Defect: quarantines that exist keep the lifetime of the old policy.
RelimitedNot(c, on) == Pruned(c)

\* updateDomainQuarantines when the expiry policy changes.
Relimited(c, on) ==
  LET old == Pruned(c)
      t   == IF on THEN Smaller(old.left, QuarantineTTL) ELSE Permanent
  IN IF Confirmed(old) THEN Entry(old.evidence, t) ELSE old

Sooner(t) == IF t \in {0, Permanent, NotIndexed} THEN t ELSE t - 1

Aged(c) == [evidence |-> c.evidence, left |-> Sooner(c.left), due |-> Sooner(c.due)]

-----------------------------------------------------------------------------
(* Operations on the table.                                                *)

\* A table that was built from the given seeds: pairs and the time they have
\* left. normalizeConfig drops what is expired and makes every seed permanent
\* when expiry is off.
Seeded(seeds, on) ==
  [a \in Adapters |-> [d \in Domains |->
     LET left == seeds[a][d] IN
     IF left = 0 THEN Absent
     ELSE Entry(domainFailureThreshold, IF on THEN left ELSE Permanent)]]

RecordComparativeDomainFailure(a, d) ==
  /\ dom' = [dom EXCEPT ![a][d] = Failed(@)]
  /\ UNCHANGED expiryOn

\* The order is the code's: policy, then clear, then removals.
UpdateDomainQuarantines(on, clear, remove) ==
  /\ expiryOn' = on
  /\ dom' = [a \in Adapters |-> [d \in Domains |->
       IF clear \/ <<a, d>> \in remove THEN Absent
       ELSE IF on # expiryOn THEN Relimited(dom[a][d], on) ELSE dom[a][d]]]

\* candidates and snapshot prune the adapters they look at.
PruneDomains(looked) ==
  dom' = [a \in Adapters |-> IF a \in looked THEN [d \in Domains |-> Pruned(dom[a][d])]
                                             ELSE dom[a]]

DomainsAge == dom' = [a \in Adapters |-> [d \in Domains |-> Aged(dom[a][d])]]

-----------------------------------------------------------------------------
\* The heap holds exactly the domains that have an entry, under the deadline
\* of the entry: an entry the heap forgot would never be pruned, one it kept
\* would prune a renewed quarantine (health.go writes the two separately in
\* five places).
IndexMirrorsDomains ==
  \A a \in Adapters, d \in Domains :
    LET c == dom[a][d] IN
    IF c.evidence = 0 THEN c.due = NotIndexed ELSE c.due = c.left

\* A confirmed quarantine has the lifetime of the policy in force: permanent
\* while expiry is off, bounded while it is on, whichever of the two was in
\* force when it was confirmed, seeded or renewed.
PolicyApplies ==
  \A a \in Adapters, d \in Domains :
    Confirmed(dom[a][d]) =>
      IF expiryOn THEN dom[a][d].left <= QuarantineTTL ELSE dom[a][d].left = Permanent
=============================================================================
