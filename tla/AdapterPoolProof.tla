-------------------------- MODULE AdapterPoolProof --------------------------
(***************************************************************************)
(* Proofs about AdapterPool, for any adapters, domains, lifetimes, weights *)
(* and flows: the table of the links is sound, and the dead destinations   *)
(* of some flows are held against no link.                                 *)
(***************************************************************************)
EXTENDS AdapterPool, TLAPS

-----------------------------------------------------------------------------
(* The inductive invariant, in named parts.                                *)

\* The heap of deadlines has what the map has, for one pair.
Mirrored(c) == IF c.evidence = 0 THEN c.due = NotIndexed ELSE c.due = c.left

\* A confirmed quarantine has the lifetime of the given policy, for one pair.
Obeys(c, on) == Confirmed(c) => IF on THEN c.left <= QuarantineTTL ELSE c.left = Permanent

\* Whatever is in the table has the form that the operations give it.
CellsInv ==
  /\ expiryOn \in BOOLEAN
  /\ dom \in [Adapters -> [Domains -> Cells]]
  /\ \A a \in Adapters, d \in Domains : Mirrored(dom[a][d]) /\ Obeys(dom[a][d], expiryOn)

\* The table knows every link of the pool.
PoolInv == pool \in Pools /\ Range(pool) \subseteq known /\ known \subseteq Adapters

\* What is still to be recorded was seen on the way to a destination that
\* answered in the end.
FlowInv ==
  /\ flow = [f \in Flows |-> flow[f]]
  /\ \A f \in Flows : /\ "pc" \in DOMAIN flow[f]
                      /\ flow[f].pc = "blame" => flow[f].dest \notin dead

\* There is no half of a quarantine of a dead destination.
EvidenceInv == \A a \in Adapters, d \in dead \cap Domains : dom[a][d].evidence # 1

\* Nor does a dead destination count towards the cooldown of a link.
TargetsInv ==
  /\ link = [a \in Adapters |-> link[a]]
  /\ \A a \in Adapters : "targets" \in DOMAIN link[a] /\ link[a].targets \cap dead = {}

\* The first two parts are the table's own, the others come from the flows.
IndInv == CellsInv /\ PoolInv /\ FlowInv /\ EvidenceInv /\ TargetsInv

-----------------------------------------------------------------------------
(* What the operations do to one cell.                                     *)

\* The numbers that the lemmas below compare.
LEMMA Numbers ==
  /\ QuarantineTTL \in Nat /\ EvidenceTTL \in Nat /\ EvidenceTTL <= QuarantineTTL
  /\ EvidenceTTL # 0 /\ QuarantineTTL # 0
  /\ NotIndexed = QuarantineTTL + 2 /\ Permanent = QuarantineTTL + 1
  /\ Deadlines = 0 .. QuarantineTTL + 1
  /\ domainFailureThreshold = 2
BY TTLAssumption DEF NotIndexed, Permanent, Deadlines, domainFailureThreshold

\* A pair without an entry is sound under either policy.
LEMMA AbsentCell ==
  /\ Absent \in Cells /\ Mirrored(Absent) /\ \A on : Obeys(Absent, on)
  /\ ~Confirmed(Absent) /\ Absent.evidence = 0
BY Numbers DEF Absent, Cells, Mirrored, Obeys, Confirmed

\* An entry is written into the map and into the heap alike.
LEMMA EntryCell ==
  ASSUME NEW n \in 1 .. 2, NEW t \in Deadlines
  PROVE  /\ Entry(n, t) \in Cells /\ Mirrored(Entry(n, t))
         /\ Entry(n, t).evidence = n /\ Entry(n, t).left = t
         /\ Confirmed(Entry(n, t)) <=> n = 2
BY Numbers DEF Entry, Cells, Mirrored, Confirmed

\* Pruning leaves a cell alone or empties it; a permanent quarantine stays.
LEMMA PrunedCell ==
  ASSUME NEW c \in Cells, NEW on \in BOOLEAN, Mirrored(c), Obeys(c, on)
  PROVE  /\ Pruned(c) \in Cells /\ Mirrored(Pruned(c)) /\ Obeys(Pruned(c), on)
         /\ Pruned(c) \in {c, Absent}
         /\ Confirmed(c) /\ ~on => Pruned(c) = c /\ c.left = Permanent
<1>1. Confirmed(c) /\ ~on => c.due = Permanent /\ c.left = Permanent
  BY Numbers DEF Cells, Mirrored, Obeys, Confirmed
<1>. QED BY <1>1, AbsentCell, Numbers DEF Pruned

\* A failure leaves one piece of evidence, or a quarantine of the lifetime in
\* force; it ends none that is permanent.
LEMMA FailedCell ==
  ASSUME NEW c \in Cells, expiryOn \in BOOLEAN, Mirrored(c), Obeys(c, expiryOn)
  PROVE  /\ Failed(c) \in Cells /\ Mirrored(Failed(c)) /\ Obeys(Failed(c), expiryOn)
         /\ Confirmed(c) /\ ~expiryOn => Confirmed(Failed(c))
<1> DEFINE old == Pruned(c)
           n   == IF old.left = 0 THEN 1 ELSE Smaller(old.evidence + 1, domainFailureThreshold)
           t   == IF n < domainFailureThreshold THEN EvidenceTTL ELSE Lifetime(expiryOn)
<1>1. old \in Cells /\ Mirrored(old)
      /\ (Confirmed(c) /\ ~expiryOn => old = c /\ c.left = Permanent)
  BY PrunedCell
<1>2. n \in 1 .. 2
  BY <1>1, Numbers DEF Smaller, Cells
<1>3. t \in Deadlines /\ (n = 2 => IF expiryOn THEN t <= QuarantineTTL ELSE t = Permanent)
  BY <1>2, Numbers DEF Lifetime
<1>4. Confirmed(c) /\ ~expiryOn => n = 2
  BY <1>1, Numbers DEF Smaller, Cells, Confirmed
<1>5. Failed(c) = Entry(n, t)
  BY DEF Failed
<1>. HIDE DEF n, t
<1>. QED BY <1>2, <1>3, <1>4, <1>5, EntryCell DEF Obeys

\* A success empties the cell, unless its quarantine is permanent.
LEMMA SucceededCell ==
  ASSUME NEW c \in Cells, expiryOn \in BOOLEAN, Mirrored(c), Obeys(c, expiryOn)
  PROVE  /\ Succeeded(c) \in {c, Absent}
         /\ Confirmed(c) /\ ~expiryOn => Succeeded(c) = c
BY DEF Succeeded

\* A change of the policy gives every confirmed quarantine the new lifetime.
LEMMA RelimitedCell ==
  ASSUME NEW c \in Cells, NEW on \in BOOLEAN, Mirrored(c), expiryOn \in BOOLEAN,
         Obeys(c, expiryOn)
  PROVE  /\ Relimited(c, on) \in Cells /\ Mirrored(Relimited(c, on)) /\ Obeys(Relimited(c, on), on)
         /\ c.evidence # 1 => Relimited(c, on).evidence # 1
<1> DEFINE old == Pruned(c)
           t   == IF on THEN Smaller(old.left, QuarantineTTL) ELSE Permanent
<1>1. old \in Cells /\ Mirrored(old) /\ old \in {c, Absent}
  BY PrunedCell
<1>2. t \in Deadlines /\ IF on THEN t <= QuarantineTTL ELSE t = Permanent
  BY <1>1, Numbers DEF Smaller, Cells
<1>3. CASE Confirmed(old)
  <2>1. old.evidence = 2
    BY <1>1, <1>3, Numbers DEF Confirmed, Cells
  <2>2. Relimited(c, on) = Entry(2, t)
    BY <1>3, <2>1 DEF Relimited
  <2>. HIDE DEF t
  <2>. QED BY <1>2, <2>2, EntryCell DEF Obeys
<1>4. CASE ~Confirmed(old)
  BY <1>1, <1>4, AbsentCell DEF Relimited, Obeys
<1>. QED BY <1>3, <1>4

\* Time moves both sides of a cell, and neither while it is permanent.
LEMMA AgedCell ==
  ASSUME NEW c \in Cells, NEW on \in BOOLEAN, Mirrored(c), Obeys(c, on)
  PROVE  /\ Aged(c) \in Cells /\ Mirrored(Aged(c)) /\ Obeys(Aged(c), on)
         /\ Aged(c).evidence = c.evidence
BY Numbers DEF Aged, Sooner, Cells, Mirrored, Obeys, Confirmed

-----------------------------------------------------------------------------
(* What a step may do to the table.                                        *)

\* No pair of the given domains gets its first piece of evidence.
NoNewEvidence(names) ==
  \A a \in Adapters, d \in names : dom[a][d].evidence # 1 => dom'[a][d].evidence # 1

\* A permanent quarantine survives.
PermanentStays ==
  \A a \in Adapters, d \in Domains :
    Confirmed(dom[a][d]) /\ ~expiryOn => Confirmed(dom'[a][d])

\* A cell of a sound table is sound.
LEMMA CellOf ==
  ASSUME CellsInv, NEW a \in Adapters, NEW d \in Domains
  PROVE  /\ expiryOn \in BOOLEAN /\ dom[a][d] \in Cells
         /\ Mirrored(dom[a][d]) /\ Obeys(dom[a][d], expiryOn)
BY DEF CellsInv

\* A table that is not written to stays sound.
LEMMA TableUntouched ==
  ASSUME CellsInv, UNCHANGED domVars
  PROVE  CellsInv' /\ NoNewEvidence(Domains) /\ PermanentStays
BY DEF CellsInv, domVars, NoNewEvidence, PermanentStays, Obeys, Confirmed

\* recordComparativeDomainFailure writes one cell.
LEMMA FailureOnTable ==
  ASSUME CellsInv, NEW a \in Adapters, NEW d \in Domains, RecordComparativeDomainFailure(a, d)
  PROVE  CellsInv' /\ NoNewEvidence(Domains \ {d}) /\ PermanentStays
<1>1. \A x \in Adapters, y \in Domains :
        dom'[x][y] = IF x = a /\ y = d THEN Failed(dom[x][y]) ELSE dom[x][y]
  BY DEF RecordComparativeDomainFailure, CellsInv
<1>2. ASSUME NEW x \in Adapters, NEW y \in Domains
      PROVE  /\ dom'[x][y] \in Cells /\ Mirrored(dom'[x][y]) /\ Obeys(dom'[x][y], expiryOn)
             /\ Confirmed(dom[x][y]) /\ ~expiryOn => Confirmed(dom'[x][y])
             /\ y # d => dom'[x][y] = dom[x][y]
  BY <1>1, CellOf, FailedCell
<1>3. dom' \in [Adapters -> [Domains -> Cells]]
  <2>1. Failed(dom[a][d]) \in Cells
    BY CellOf, FailedCell
  <2>2. dom' = [dom EXCEPT ![a] = [dom[a] EXCEPT ![d] = Failed(dom[a][d])]]
    BY DEF RecordComparativeDomainFailure
  <2>. QED BY <2>1, <2>2 DEF CellsInv
<1>4. UNCHANGED expiryOn
  BY DEF RecordComparativeDomainFailure
<1>. QED BY <1>2, <1>3, <1>4 DEF CellsInv, NoNewEvidence, PermanentStays

\* recordSuccess empties one cell, or none.
LEMMA SuccessOnTable ==
  ASSUME CellsInv, known \subseteq Adapters, NEW a, NEW d, RecordSuccess(a, d)
  PROVE  CellsInv' /\ NoNewEvidence(Domains) /\ PermanentStays
<1>1. CASE a \in known /\ d \in Domains
  <2>1. /\ dom' = [dom EXCEPT ![a] = [dom[a] EXCEPT ![d] = Succeeded(dom[a][d])]]
        /\ UNCHANGED expiryOn
    BY <1>1 DEF RecordSuccess
  <2>2. ASSUME NEW x \in Adapters, NEW y \in Domains
        PROVE  /\ dom'[x][y] \in {dom[x][y], Absent}
               /\ Confirmed(dom[x][y]) /\ ~expiryOn => Confirmed(dom'[x][y])
    <3>1. dom'[x][y] = IF x = a /\ y = d THEN Succeeded(dom[x][y]) ELSE dom[x][y]
      BY <2>1 DEF CellsInv
    <3>. QED BY <3>1, CellOf, SucceededCell
  <2>3. Succeeded(dom[a][d]) \in Cells
    BY <1>1, CellOf, SucceededCell, AbsentCell
  <2>4. dom' \in [Adapters -> [Domains -> Cells]]
    BY <2>1, <2>3 DEF CellsInv
  <2>. QED BY <2>1, <2>2, <2>4, AbsentCell DEF CellsInv, NoNewEvidence, PermanentStays
<1>2. CASE ~(a \in known /\ d \in Domains)
  BY <1>2, TableUntouched DEF RecordSuccess, domVars
<1>. QED BY <1>1, <1>2

\* updateDomainQuarantines: a new policy reaches every pair at once.
LEMMA UpdateOnTable ==
  ASSUME CellsInv, NEW on \in BOOLEAN, NEW clear, NEW remove,
         UpdateDomainQuarantines(on, clear, remove)
  PROVE  CellsInv' /\ NoNewEvidence(Domains)
<1>1. /\ expiryOn' = on
      /\ dom' = [a \in Adapters |-> [d \in Domains |->
           IF clear \/ <<a, d>> \in remove THEN Absent
           ELSE IF on # expiryOn THEN Relimited(dom[a][d], on) ELSE dom[a][d]]]
  BY DEF UpdateDomainQuarantines
<1>2. ASSUME NEW a \in Adapters, NEW d \in Domains
      PROVE  /\ dom'[a][d] \in Cells /\ Mirrored(dom'[a][d]) /\ Obeys(dom'[a][d], on)
             /\ dom[a][d].evidence # 1 => dom'[a][d].evidence # 1
  <2>1. dom'[a][d] = IF clear \/ <<a, d>> \in remove THEN Absent
                     ELSE IF on # expiryOn THEN Relimited(dom[a][d], on) ELSE dom[a][d]
    BY <1>1
  <2>. QED BY <2>1, CellOf, RelimitedCell, AbsentCell
<1>3. dom' \in [Adapters -> [Domains -> Cells]]
  <2>1. dom' = [a \in Adapters |-> [d \in Domains |-> dom'[a][d]]]
    BY <1>1
  <2>. QED BY <1>2, <2>1
<1>. QED BY <1>1, <1>2, <1>3 DEF CellsInv, NoNewEvidence

\* candidates and snapshot drop what is due, and only that.
LEMMA PruneOnTable ==
  ASSUME CellsInv, NEW looked, PruneDomains(looked), UNCHANGED expiryOn
  PROVE  CellsInv' /\ NoNewEvidence(Domains) /\ PermanentStays
<1>1. ASSUME NEW a \in Adapters, NEW d \in Domains
      PROVE  /\ dom'[a][d] \in Cells /\ Mirrored(dom'[a][d]) /\ Obeys(dom'[a][d], expiryOn)
             /\ dom'[a][d] \in {dom[a][d], Absent}
             /\ Confirmed(dom[a][d]) /\ ~expiryOn => Confirmed(dom'[a][d])
  <2>1. dom'[a][d] = IF a \in looked THEN Pruned(dom[a][d]) ELSE dom[a][d]
    BY DEF PruneDomains
  <2>. QED BY <2>1, CellOf, PrunedCell
<1>2. dom' \in [Adapters -> [Domains -> Cells]]
  <2>1. \A a \in Adapters : dom'[a] = [d \in Domains |-> dom'[a][d]]
    BY DEF PruneDomains, CellsInv
  <2>2. dom' = [a \in Adapters |-> dom'[a]]
    BY DEF PruneDomains
  <2>. QED BY <1>1, <2>1, <2>2
<1>. QED BY <1>1, <1>2, AbsentCell DEF CellsInv, NoNewEvidence, PermanentStays

\* Time ends no permanent quarantine.
LEMMA TimeOnTable ==
  ASSUME CellsInv, DomainsAge, UNCHANGED expiryOn
  PROVE  CellsInv' /\ NoNewEvidence(Domains) /\ PermanentStays
<1>1. ASSUME NEW a \in Adapters, NEW d \in Domains
      PROVE  /\ dom'[a][d] \in Cells /\ Mirrored(dom'[a][d]) /\ Obeys(dom'[a][d], expiryOn)
             /\ dom'[a][d].evidence = dom[a][d].evidence
  <2>1. dom'[a][d] = Aged(dom[a][d])
    BY DEF DomainsAge
  <2>. QED BY <2>1, CellOf, AgedCell
<1>2. dom' = [a \in Adapters |-> [d \in Domains |-> dom'[a][d]]]
  BY DEF DomainsAge
<1>3. dom' \in [Adapters -> [Domains -> Cells]]
  BY <1>1, <1>2
<1>. QED BY <1>1, <1>3 DEF CellsInv, NoNewEvidence, PermanentStays, Confirmed

-----------------------------------------------------------------------------
(* What the operations do to the links.                                    *)

\* A cooldown keeps the targets of a link; a timeout adds one at most.
LEMMA CoolDownRecord ==
  ASSUME NEW h, "targets" \in DOMAIN h
  PROVE  "targets" \in DOMAIN CoolDown(h) /\ CoolDown(h).targets = h.targets
BY DEF CoolDown

LEMMA TimedOutRecord ==
  ASSUME NEW h, NEW t, "targets" \in DOMAIN h
  PROVE  /\ "targets" \in DOMAIN TimedOut(h, t)
         /\ TimedOut(h, t).targets \subseteq h.targets \cup {t}
<1> DEFINE u == IF Cardinality(h.targets) < TimeoutTargets THEN h.targets \cup {t} ELSE h.targets
           n == Smaller(h.timeouts + 1, TimeoutFailures)
           counted == [h EXCEPT !.timeouts = n, !.targets = u]
<1>1. "targets" \in DOMAIN counted /\ counted.targets = u
  OBVIOUS
<1>2. TimedOut(h, t) \in {counted, CoolDown(counted)}
  BY DEF TimedOut
<1>3. u \subseteq h.targets \cup {t}
  OBVIOUS
<1>. HIDE DEF counted, u
<1>. QED BY <1>1, <1>2, <1>3, CoolDownRecord

\* A step that changes none of what the invariant says of the links keeps it.
LEMMA LinksUntouched ==
  ASSUME TargetsInv, UNCHANGED <<link, dead>>
  PROVE  TargetsInv'
BY DEF TargetsInv

\* Nor does one that gives a link no dead target.
LEMMA LinkChanges ==
  ASSUME TargetsInv, NEW a, NEW h, link' = [link EXCEPT ![a] = h], UNCHANGED dead,
         a \in Adapters => "targets" \in DOMAIN h /\ h.targets \cap dead = {}
  PROVE  TargetsInv'
BY DEF TargetsInv

\* A local failure and a success add no target; a comparative timeout adds the
\* destination that another link reached.
LEMMA LocalFailureOnLinks ==
  ASSUME TargetsInv, NEW a, RecordLocalFailure(a), UNCHANGED dead
  PROVE  TargetsInv'
<1>1. CASE a \in known
  <2> DEFINE h == CoolDown(link[a])
  <2>1. link' = [link EXCEPT ![a] = h]
    BY <1>1 DEF RecordLocalFailure
  <2>2. a \in Adapters => "targets" \in DOMAIN h /\ h.targets \cap dead = {}
    BY CoolDownRecord DEF TargetsInv
  <2>. HIDE DEF h
  <2>. QED BY <2>1, <2>2, LinkChanges
<1>2. CASE a \notin known
  BY <1>2, LinksUntouched DEF RecordLocalFailure
<1>. QED BY <1>1, <1>2

LEMMA SuccessOnLinks ==
  ASSUME TargetsInv, NEW a, NEW d, RecordSuccess(a, d), UNCHANGED dead
  PROVE  TargetsInv'
<1>1. "targets" \in DOMAIN Fresh /\ Fresh.targets \cap dead = {}
  BY DEF Fresh
<1>2. CASE a \in known
  BY <1>1, <1>2, LinkChanges DEF RecordSuccess
<1>3. CASE a \notin known
  BY <1>3, LinksUntouched DEF RecordSuccess
<1>. QED BY <1>2, <1>3

LEMMA TimeoutOnLinks ==
  ASSUME TargetsInv, NEW a, NEW t, t \notin dead, RecordComparativeTimeout(a, t), UNCHANGED dead
  PROVE  TargetsInv'
<1>1. CASE a \in known
  <2> DEFINE h == TimedOut(link[a], t)
  <2>1. link' = [link EXCEPT ![a] = h]
    BY <1>1 DEF RecordComparativeTimeout
  <2>2. a \in Adapters => "targets" \in DOMAIN h /\ h.targets \cap dead = {}
    BY TimedOutRecord DEF TargetsInv
  <2>. HIDE DEF h
  <2>. QED BY <2>1, <2>2, LinkChanges
<1>2. CASE a \notin known
  BY <1>2, LinksUntouched DEF RecordComparativeTimeout
<1>. QED BY <1>1, <1>2

LEMMA TimeOnLinks ==
  ASSUME TargetsInv, TimePasses, UNCHANGED dead
  PROVE  TargetsInv'
<1>1. ASSUME NEW x \in Adapters
      PROVE  "targets" \in DOMAIN link'[x] /\ link'[x].targets = link[x].targets
  <2> DEFINE n == IF link[x].left = 0 THEN 0 ELSE link[x].left - 1
  <2>1. link'[x] = [link[x] EXCEPT !.left = n]
    BY DEF TimePasses
  <2>. HIDE DEF n
  <2>. QED BY <2>1 DEF TargetsInv
<1>2. link' = [x \in Adapters |-> link'[x]]
  BY DEF TimePasses
<1>. QED BY <1>1, <1>2 DEF TargetsInv

-----------------------------------------------------------------------------
(* What the steps do to the flows and to the pool.                         *)

\* Whatever follows the choice of the links is no blame.
LEMMA SelectingBlames ==
  ASSUME NEW r, "pc" \in DOMAIN r
  PROVE  "pc" \in DOMAIN Selecting(r) /\ Selecting(r).pc # "blame"
BY DEF Selecting, Idle

LEMMA BlamingBlames ==
  ASSUME NEW d, NEW lost, NEW late
  PROVE  /\ "pc" \in DOMAIN Blaming(d, lost, late)
         /\ Blaming(d, lost, late).pc = "blame" => Blaming(d, lost, late).dest = d
BY DEF Blaming, Idle

LEMMA IdleBlames == "pc" \in DOMAIN Idle /\ Idle.pc # "blame"
BY DEF Idle

\* A flow that moves on keeps the others where they are.
LEMMA FlowMoves ==
  ASSUME FlowInv, NEW f \in Flows, NEW r, flow' = [flow EXCEPT ![f] = r], UNCHANGED dead,
         "pc" \in DOMAIN r, r.pc = "blame" => r.dest \notin dead
  PROVE  FlowInv'
BY DEF FlowInv

LEMMA FlowsUntouched ==
  ASSUME FlowInv, UNCHANGED <<flow, dead>>
  PROVE  FlowInv'
BY DEF FlowInv

\* No destination that died has got a first piece of evidence.
LEMMA EvidenceKept ==
  ASSUME EvidenceInv, UNCHANGED dead, NEW names, dead \cap Domains \subseteq names,
         NoNewEvidence(names)
  PROVE  EvidenceInv'
BY DEF EvidenceInv, NoNewEvidence

LEMMA PoolUntouched ==
  ASSUME PoolInv, UNCHANGED <<pool, known>>
  PROVE  PoolInv'
BY DEF PoolInv

\* The links of a pool are adapters.
LEMMA PoolOfAdapters ==
  ASSUME NEW p \in Pools
  PROVE  Range(p) \subseteq Adapters
BY DEF Pools, Range

-----------------------------------------------------------------------------
(* The steps of a flow.                                                    *)

\* Until it has connected a flow writes to no table but the one of families.
LEMMA StartSound ==
  ASSUME IndInv, NEW f \in Flows, Start(f)
  PROVE  IndInv' /\ PermanentStays
<1>1. PICK r : "pc" \in DOMAIN r /\ r.pc # "blame" /\ flow' = [flow EXCEPT ![f] = r]
  <2>1. PICK d \in Destinations, ch \in Channels :
          LET members == Range(Members(ch))
              unable  == IF d \in Literals THEN Unable(members, Supports, d) ELSE {}
              usable  == members \ unable
              ready   == d \in Literals /\ \E a \in usable : ~FamilyCooling(a, Supports, d)
              r       == [pc |-> "exclude", dest |-> d, channel |-> ch, excluded |-> unable,
                          todo |-> IF ready THEN Members(ch) ELSE <<>>,
                          left |-> Cardinality(usable),
                          lost |-> {}, late |-> {}, via |-> "none"]
          IN flow' = [flow EXCEPT ![f] = IF ready THEN r ELSE Selecting(r)]
    BY DEF Start
  <2> DEFINE members == Range(Members(ch))
             unable  == IF d \in Literals THEN Unable(members, Supports, d) ELSE {}
             usable  == members \ unable
             ready   == d \in Literals /\ \E a \in usable : ~FamilyCooling(a, Supports, d)
             todo    == IF ready THEN Members(ch) ELSE <<>>
             size    == Cardinality(usable)
             r       == [pc |-> "exclude", dest |-> d, channel |-> ch, excluded |-> unable,
                         todo |-> todo, left |-> size, lost |-> {}, late |-> {}, via |-> "none"]
  <2>2. flow' = [flow EXCEPT ![f] = IF ready THEN r ELSE Selecting(r)]
    BY <2>1
  <2>. HIDE DEF members, unable, usable, ready, todo, size
  <2>3. "pc" \in DOMAIN r /\ r.pc # "blame"
    OBVIOUS
  <2>. HIDE DEF r
  <2>4. "pc" \in DOMAIN Selecting(r) /\ Selecting(r).pc # "blame"
    BY <2>3, SelectingBlames
  <2>. QED BY <2>2, <2>3, <2>4
<1>2. UNCHANGED <<healthVars, schedulerVars, dead>>
  BY DEF Start
<1>3. CellsInv' /\ NoNewEvidence(Domains) /\ PermanentStays
  BY <1>2, TableUntouched DEF IndInv, healthVars
<1>4. FlowInv'
  BY <1>1, <1>2, FlowMoves DEF IndInv
<1>. QED BY <1>2, <1>3, <1>4, PoolUntouched, EvidenceKept, LinksUntouched
        DEF IndInv, healthVars, schedulerVars

LEMMA ExcludeCoolingSound ==
  ASSUME IndInv, NEW f \in Flows, ExcludeCooling(f)
  PROVE  IndInv' /\ PermanentStays
<1>1. PICK r : "pc" \in DOMAIN r /\ r.pc # "blame" /\ flow' = [flow EXCEPT ![f] = r]
  <2> DEFINE r    == flow[f]
             a    == Head(r.todo)
             skip == FamilyCooling(a, Supports, r.dest) /\ a \notin r.excluded
             seen == [r EXCEPT !.todo = Tail(@), !.excluded = IF skip THEN @ \cup {a} ELSE @,
                               !.left = IF skip THEN @ - 1 ELSE @]
  <2>1. flow' = [flow EXCEPT ![f] = IF seen.todo = <<>> THEN Selecting(seen) ELSE seen]
    BY DEF ExcludeCooling
  <2>2. "pc" \in DOMAIN seen /\ seen.pc = "exclude"
    BY DEF ExcludeCooling, IndInv, FlowInv
  <2> DEFINE moved == IF seen.todo = <<>> THEN Selecting(seen) ELSE seen
  <2>. HIDE DEF seen
  <2>3. "pc" \in DOMAIN moved /\ moved.pc # "blame"
    BY <2>2, SelectingBlames
  <2>. QED BY <2>1, <2>3
<1>2. UNCHANGED <<healthVars, schedulerVars, dead>>
  BY DEF ExcludeCooling
<1>3. CellsInv' /\ NoNewEvidence(Domains) /\ PermanentStays
  BY <1>2, TableUntouched DEF IndInv, healthVars
<1>4. FlowInv'
  BY <1>1, <1>2, FlowMoves DEF IndInv
<1>. QED BY <1>2, <1>3, <1>4, PoolUntouched, EvidenceKept, LinksUntouched
        DEF IndInv, healthVars, schedulerVars

\* A selection prunes what it looks at and leaves the pool as it is.
LEMMA AcquireSound ==
  ASSUME IndInv, NEW f \in Flows, Acquire(f)
  PROVE  IndInv' /\ PermanentStays
<1> DEFINE S == Candidates(Members(flow[f].channel), flow[f].excluded, flow[f].dest)
<1>1. /\ PruneDomains(Eligible(Members(flow[f].channel), flow[f].excluded))
      /\ UNCHANGED <<known, link, famCooling, isolation, expiryOn, dead>>
  BY DEF Acquire
<1>2. \/ flow' = [flow EXCEPT ![f] = Idle] /\ UNCHANGED schedulerVars
      \/ \E a \in S :
           /\ IF flow[f].channel = "aggregation" THEN Select(S, a) ELSE UNCHANGED schedulerVars
           /\ flow' = [flow EXCEPT ![f].pc = "dial", ![f].via = a, ![f].left = @ - 1,
                                   ![f].excluded = @ \cup {a}]
  BY DEF Acquire
<1>3. UNCHANGED pool
  BY <1>2 DEF Select, schedulerVars
<1>4. FlowInv'
  <2>1. CASE flow' = [flow EXCEPT ![f] = Idle]
    BY <1>1, <2>1, FlowMoves, IdleBlames DEF IndInv
  <2>2. ASSUME NEW a,
               flow' = [flow EXCEPT ![f].pc = "dial", ![f].via = a, ![f].left = @ - 1,
                                    ![f].excluded = @ \cup {a}]
        PROVE  FlowInv'
    <3> DEFINE r == [flow[f] EXCEPT !.pc = "dial", !.via = a, !.left = @ - 1,
                                    !.excluded = @ \cup {a}]
    <3>1. flow' = [flow EXCEPT ![f] = r]
      BY <2>2 DEF IndInv, FlowInv
    <3>2. "pc" \in DOMAIN r /\ r.pc = "dial"
      BY DEF IndInv, FlowInv
    <3>. HIDE DEF r
    <3>. QED BY <1>1, <3>1, <3>2, FlowMoves DEF IndInv
  <2>. QED BY <1>2, <2>1, <2>2
<1>5. CellsInv' /\ NoNewEvidence(Domains) /\ PermanentStays
  BY <1>1, PruneOnTable DEF IndInv
<1>. QED BY <1>1, <1>3, <1>4, <1>5, PoolUntouched, EvidenceKept, LinksUntouched DEF IndInv

\* A flow connects only to a destination that is not dead.
LEMMA DialSucceedsSound ==
  ASSUME IndInv, NEW f \in Flows, DialSucceeds(f)
  PROVE  IndInv' /\ PermanentStays
<1> DEFINE r == Blaming(flow[f].dest, flow[f].lost, flow[f].late)
<1>1. /\ CanConnect(flow[f])
      /\ RecordSuccess(flow[f].via, flow[f].dest)
      /\ flow' = [flow EXCEPT ![f] = r]
      /\ UNCHANGED <<schedulerVars, dead>>
  BY DEF DialSucceeds
<1>2. FlowInv'
  <2>1. "pc" \in DOMAIN r /\ (r.pc = "blame" => r.dest \notin dead)
    BY <1>1, BlamingBlames DEF CanConnect
  <2>. HIDE DEF r
  <2>. QED BY <1>1, <2>1, FlowMoves DEF IndInv
<1>3. CellsInv' /\ NoNewEvidence(Domains) /\ PermanentStays
  BY <1>1, SuccessOnTable DEF IndInv, PoolInv
<1>4. UNCHANGED <<pool, known>>
  BY <1>1 DEF RecordSuccess, schedulerVars
<1>. HIDE DEF r
<1>. QED BY <1>1, <1>2, <1>3, <1>4, PoolUntouched, EvidenceKept, SuccessOnLinks DEF IndInv

\* A flow that fails charges its own link at most, and blames nobody.
LEMMA DialFailsSound ==
  ASSUME IndInv, NEW f \in Flows, DialFails(f)
  PROVE  IndInv' /\ PermanentStays
<1>1. PICK bad \in SUBSET Supports[flow[f].via], local \in BOOLEAN, timeout \in BOOLEAN :
        LET r       == flow[f]
            charged == local /\ Cardinality(Supports[r.via]) = 1
            failed  == [r EXCEPT !.pc = "select", !.via = "none",
                         !.lost = IF ~charged /\ r.dest \in Domains THEN @ \cup {r.via} ELSE @,
                         !.late = IF timeout THEN @ \cup {r.via} ELSE @]
        IN /\ RecordFamilies(r.via, {}, bad)
           /\ IF charged THEN RecordLocalFailure(r.via)
                         ELSE UNCHANGED <<known, link, isolation, domVars>>
           /\ flow' = [flow EXCEPT ![f] = AfterFailure(failed)]
  BY DEF DialFails
<1>2. UNCHANGED <<schedulerVars, dead>>
  BY DEF DialFails
<1>3. \/ RecordLocalFailure(flow[f].via)
      \/ UNCHANGED <<known, link, isolation, domVars>>
  BY <1>1
<1>4. FlowInv'
  <2> DEFINE r       == flow[f]
             charged == local /\ Cardinality(Supports[r.via]) = 1
             lost    == IF ~charged /\ r.dest \in Domains THEN r.lost \cup {r.via} ELSE r.lost
             late    == IF timeout THEN r.late \cup {r.via} ELSE r.late
             failed  == [r EXCEPT !.pc = "select", !.via = "none", !.lost = lost, !.late = late]
  <2>1. flow' = [flow EXCEPT ![f] = AfterFailure(failed)]
    BY <1>1
  <2>. HIDE DEF lost, late
  <2>2. "pc" \in DOMAIN failed /\ failed.pc = "select"
    BY DEF IndInv, FlowInv
  <2>. HIDE DEF failed
  <2>3. "pc" \in DOMAIN AfterFailure(failed) /\ AfterFailure(failed).pc # "blame"
    BY <2>2, IdleBlames DEF AfterFailure
  <2>. QED BY <1>2, <2>1, <2>3, FlowMoves DEF IndInv
<1>5. UNCHANGED <<known, domVars, pool>>
  BY <1>2, <1>3 DEF RecordLocalFailure, schedulerVars
<1>6. CellsInv' /\ NoNewEvidence(Domains) /\ PermanentStays
  BY <1>5, TableUntouched DEF IndInv
<1>7. TargetsInv'
  BY <1>2, <1>3, LocalFailureOnLinks, LinksUntouched DEF IndInv
<1>. QED BY <1>2, <1>4, <1>5, <1>6, <1>7, PoolUntouched, EvidenceKept DEF IndInv

\* What a flow blames on a link it has seen on the way to a live destination.
LEMMA BlameSound ==
  ASSUME IndInv, NEW f \in Flows, Blame(f)
  PROVE  IndInv' /\ PermanentStays
<1>1. flow[f].dest \notin dead /\ UNCHANGED <<schedulerVars, dead>>
  BY DEF Blame, IndInv, FlowInv
<1>2. CASE \E a \in flow[f].lost :
             /\ RecordDomainFailure(a, flow[f].dest)
             /\ flow' = [flow EXCEPT ![f] =
                           Blaming(flow[f].dest, flow[f].lost \ {a}, flow[f].late)]
  <2>1. PICK a \in flow[f].lost :
          /\ RecordDomainFailure(a, flow[f].dest)
          /\ flow' = [flow EXCEPT ![f] =
                        Blaming(flow[f].dest, flow[f].lost \ {a}, flow[f].late)]
    BY <1>2
  <2> DEFINE r == Blaming(flow[f].dest, flow[f].lost \ {a}, flow[f].late)
  <2>2. FlowInv'
    <3>1. "pc" \in DOMAIN r /\ (r.pc = "blame" => r.dest \notin dead)
      BY <1>1, BlamingBlames
    <3>2. flow' = [flow EXCEPT ![f] = r]
      BY <2>1
    <3>. HIDE DEF r
    <3>. QED BY <1>1, <3>1, <3>2, FlowMoves DEF IndInv
  <2>3. CellsInv' /\ NoNewEvidence(Domains \ {flow[f].dest}) /\ PermanentStays
    <3>1. CASE isolation /\ flow[f].dest \in Domains /\ a \in known
      BY <2>1, <3>1, FailureOnTable DEF RecordDomainFailure, IndInv, PoolInv
    <3>2. CASE ~(isolation /\ flow[f].dest \in Domains /\ a \in known)
      BY <2>1, <3>2, TableUntouched DEF RecordDomainFailure, IndInv, NoNewEvidence
    <3>. QED BY <3>1, <3>2
  <2>4. UNCHANGED <<pool, known, link>>
    BY <1>1, <2>1 DEF RecordDomainFailure, schedulerVars
  <2>5. EvidenceInv'
    BY <1>1, <2>3, EvidenceKept DEF IndInv
  <2>. QED BY <1>1, <2>2, <2>3, <2>4, <2>5, PoolUntouched, LinksUntouched DEF IndInv
<1>3. CASE \E a \in flow[f].late :
             /\ RecordComparativeTimeout(a, flow[f].dest)
             /\ flow' = [flow EXCEPT ![f] =
                           Blaming(flow[f].dest, flow[f].lost, flow[f].late \ {a})]
  <2>1. PICK a \in flow[f].late :
          /\ RecordComparativeTimeout(a, flow[f].dest)
          /\ flow' = [flow EXCEPT ![f] =
                        Blaming(flow[f].dest, flow[f].lost, flow[f].late \ {a})]
    BY <1>3
  <2> DEFINE r == Blaming(flow[f].dest, flow[f].lost, flow[f].late \ {a})
  <2>2. FlowInv'
    <3>1. "pc" \in DOMAIN r /\ (r.pc = "blame" => r.dest \notin dead)
      BY <1>1, BlamingBlames
    <3>2. flow' = [flow EXCEPT ![f] = r]
      BY <2>1
    <3>. HIDE DEF r
    <3>. QED BY <1>1, <3>1, <3>2, FlowMoves DEF IndInv
  <2>3. UNCHANGED <<pool, known, domVars>>
    BY <1>1, <2>1 DEF RecordComparativeTimeout, schedulerVars
  <2>4. CellsInv' /\ NoNewEvidence(Domains) /\ PermanentStays
    BY <2>3, TableUntouched DEF IndInv
  <2>5. TargetsInv'
    BY <1>1, <2>1, TimeoutOnLinks DEF IndInv
  <2>. QED BY <1>1, <2>2, <2>3, <2>4, <2>5, PoolUntouched, EvidenceKept DEF IndInv
<1>. QED BY <1>2, <1>3 DEF Blame

-----------------------------------------------------------------------------
(* The steps of the desktop, and time.                                     *)

\* An update of the pool makes its links known and leaves the table alone.
LEMMA UpdateSchedulingSound ==
  ASSUME IndInv, UpdateScheduling
  PROVE  IndInv' /\ PermanentStays
<1>1. PICK p \in Pools : pool' = p /\ known' = known \cup Range(p)
  BY DEF UpdateScheduling, Update
<1>2. UNCHANGED <<link, famCooling, isolation, domVars, flow, dead>>
  BY DEF UpdateScheduling
<1>3. PoolInv'
  BY <1>1, PoolOfAdapters DEF IndInv, PoolInv
<1>4. CellsInv' /\ NoNewEvidence(Domains) /\ PermanentStays
  BY <1>2, TableUntouched DEF IndInv
<1>. QED BY <1>2, <1>3, <1>4, FlowsUntouched, EvidenceKept, LinksUntouched DEF IndInv

\* An update of the quarantines may end one that is permanent, and no other
\* step does.
LEMMA UpdateQuarantinesSound ==
  ASSUME IndInv, UpdateQuarantines
  PROVE  IndInv'
<1>1. UNCHANGED <<known, link, famCooling, isolation, schedulerVars, flow, dead>>
  BY DEF UpdateQuarantines
<1>2. PICK on \in BOOLEAN, clear \in BOOLEAN, remove \in SUBSET (Adapters \X Domains) :
        UpdateDomainQuarantines(on, clear, remove)
  <2>1. expiryOn \in BOOLEAN
    BY DEF IndInv, CellsInv
  <2>2. \/ \E on \in BOOLEAN : UpdateDomainQuarantines(on, FALSE, {})
        \/ UpdateDomainQuarantines(expiryOn, TRUE, {})
        \/ \E pair \in Adapters \X Domains : UpdateDomainQuarantines(expiryOn, FALSE, {pair})
    BY DEF UpdateQuarantines
  <2>3. /\ {} \in SUBSET (Adapters \X Domains)
        /\ \A pair \in Adapters \X Domains : {pair} \in SUBSET (Adapters \X Domains)
    OBVIOUS
  <2>. QED BY <2>1, <2>2, <2>3, Zenon
<1>3. CellsInv' /\ NoNewEvidence(Domains)
  BY <1>2, UpdateOnTable DEF IndInv
<1>. QED BY <1>1, <1>3, PoolUntouched, FlowsUntouched, EvidenceKept, LinksUntouched
        DEF IndInv, schedulerVars

LEMMA TelemetrySound ==
  ASSUME IndInv, Telemetry
  PROVE  IndInv' /\ PermanentStays
<1>1. /\ PruneDomains(known)
      /\ UNCHANGED <<known, link, famCooling, isolation, expiryOn, schedulerVars, flow, dead>>
  BY DEF Telemetry
<1>2. CellsInv' /\ NoNewEvidence(Domains) /\ PermanentStays
  BY <1>1, PruneOnTable DEF IndInv
<1>. QED BY <1>1, <1>2, PoolUntouched, FlowsUntouched, EvidenceKept, LinksUntouched
        DEF IndInv, schedulerVars

LEMMA TickSound ==
  ASSUME IndInv, Tick
  PROVE  IndInv' /\ PermanentStays
<1>1. TimePasses /\ UNCHANGED <<schedulerVars, flow, dead>>
  BY DEF Tick
<1>2. CellsInv' /\ NoNewEvidence(Domains) /\ PermanentStays
  BY <1>1, TimeOnTable DEF IndInv, TimePasses
<1>3. UNCHANGED <<pool, known>>
  BY <1>1 DEF TimePasses, schedulerVars
<1>. QED BY <1>1, <1>2, <1>3, PoolUntouched, FlowsUntouched, EvidenceKept, TimeOnLinks
        DEF IndInv

\* The parts that every step keeps.
LEMMA StepSound ==
  ASSUME IndInv, [Next]_vars
  PROVE  IndInv' /\ (UpdateQuarantines \/ PermanentStays)
<1>1. ASSUME NEW f \in Flows, Start(f) \/ ExcludeCooling(f) \/ Acquire(f)
                              \/ DialSucceeds(f) \/ DialFails(f) \/ Blame(f)
      PROVE  IndInv' /\ PermanentStays
  BY <1>1, StartSound, ExcludeCoolingSound, AcquireSound, DialSucceedsSound, DialFailsSound,
     BlameSound
<1>2. CASE UNCHANGED vars
  <2>1. CellsInv' /\ PermanentStays
    BY <1>2, TableUntouched DEF IndInv, vars, healthVars
  <2>. QED BY <1>2, <2>1, PoolUntouched, FlowsUntouched, LinksUntouched
          DEF IndInv, EvidenceInv, vars, healthVars, schedulerVars, domVars
<1>. QED BY <1>1, <1>2, UpdateSchedulingSound, UpdateQuarantinesSound, TelemetrySound, TickSound
        DEF Next

\* Seeds are quarantines that were confirmed, of the lifetime of the policy.
LEMMA InitSound ==
  ASSUME Init
  PROVE  IndInv
<1>1. PICK on \in BOOLEAN, isolated \in BOOLEAN,
           seeds \in [Adapters -> [Domains -> 0 .. QuarantineTTL]] :
        NewHealthTable(Adapters, on, isolated, seeds)
  BY DEF Init
<1>2. /\ known = Adapters /\ link = [a \in Adapters |-> Fresh]
      /\ expiryOn = on /\ dom = Seeded(seeds, on)
  BY <1>1 DEF NewHealthTable
<1>3. ASSUME NEW a \in Adapters, NEW d \in Domains
      PROVE  /\ dom[a][d] \in Cells /\ Mirrored(dom[a][d]) /\ Obeys(dom[a][d], on)
             /\ dom[a][d].evidence # 1
  <2> DEFINE t == IF on THEN seeds[a][d] ELSE Permanent
  <2>1. dom[a][d] = IF seeds[a][d] = 0 THEN Absent ELSE Entry(2, t)
    BY <1>2, Numbers DEF Seeded
  <2>2. t \in Deadlines /\ IF on THEN t <= QuarantineTTL ELSE t = Permanent
    BY Numbers
  <2>. HIDE DEF t
  <2>. QED BY <2>1, <2>2, AbsentCell, EntryCell DEF Obeys
<1>4. dom \in [Adapters -> [Domains -> Cells]]
  <2>1. \A a \in Adapters : dom[a] = [d \in Domains |-> dom[a][d]]
    BY <1>2 DEF Seeded
  <2>2. dom = [a \in Adapters |-> dom[a]]
    BY <1>2 DEF Seeded
  <2>. QED BY <1>3, <2>1, <2>2
<1>5. CellsInv
  BY <1>2, <1>3, <1>4 DEF CellsInv
<1>6. PoolInv
  BY <1>2, PoolOfAdapters DEF Init, SchedulerInit, PoolInv
<1>7. FlowInv
  BY IdleBlames DEF Init, FlowInv
<1>8. EvidenceInv
  BY <1>3 DEF EvidenceInv
<1>9. TargetsInv
  BY <1>2 DEF TargetsInv, Fresh
<1>. QED BY <1>5, <1>6, <1>7, <1>8, <1>9 DEF IndInv

\* The invariant holds in every behaviour of the pool.
LEMMA Inductive == Spec => []IndInv
BY InitSound, StepSound, PTL DEF Spec

-----------------------------------------------------------------------------
(* What a reader should know of.                                           *)

\* earliestCooldown returns a link if there is one.
LEMMA EarliestIsThere ==
  ASSUME NEW order, NEW S, S # {}
  PROVE  EarliestCooldown(order, S) # {}
BY DEF EarliestCooldown

\* While the table knows the pool, a link that was not tried can be selected.
LEMMA SelectionFinds ==
  ASSUME PoolInv
  PROVE  SelectionNeverFails
<1>1. SUFFICES ASSUME NEW excluded \in SUBSET Adapters, NEW d \in Destinations,
                      Range(pool) \ excluded # {}
               PROVE  Candidates(pool, excluded, d) # {}
  BY DEF SelectionNeverFails
<1> DEFINE all      == Eligible(pool, excluded)
           fallback == {a \in all : link[a].left = 0}
           recovery == {a \in all : ~Quarantined(a, d)}
           healthy  == fallback \cap recovery
<1>2. all # {}
  BY <1>1 DEF PoolInv, Eligible, Range
<1>3. Candidates(pool, excluded, d) =
        IF healthy # {} THEN healthy
        ELSE IF fallback # {} THEN fallback
        ELSE EarliestCooldown(pool, IF recovery # {} THEN recovery ELSE all)
  BY DEF Candidates
<1>. HIDE DEF all, fallback, recovery, healthy
<1>. QED BY <1>2, <1>3, EarliestIsThere

\* candidates (health.go:157-202) always finds a link for a flow that has not
\* tried the whole pool, and the heap of deadlines never forgets or keeps an
\* entry of the map, whatever the order of outcomes, removals and updates.
THEOREM TableSound == Spec => []TableIsSound
<1>1. IndInv => TableIsSound
  <2>1. CellsInv => IndexMirrorsDomains
    BY DEF CellsInv, IndexMirrorsDomains, Mirrored
  <2>. QED BY <2>1, SelectionFinds DEF IndInv, TableIsSound
<1>. QED BY <1>1, Inductive, PTL

\* A confirmed quarantine has the lifetime of the policy that is in force now
\* (updateDomainQuarantines, recordComparativeDomainFailure, normalizeConfig).
THEOREM LifetimeFollowsPolicy == Spec => []PolicyApplies
<1>1. IndInv => PolicyApplies
  BY DEF IndInv, CellsInv, PolicyApplies, Obeys
<1>. QED BY <1>1, Inductive, PTL

\* A destination that never answers reaches neither recordComparativeTimeout nor
\* recordComparativeDomainFailure.
THEOREM DeadBlameNobody == Spec => []DeadDestinationsBlameNobody
<1>1. IndInv => DeadDestinationsBlameNobody
  BY DEF IndInv, EvidenceInv, TargetsInv, DeadDestinationsBlameNobody
<1>. QED BY <1>1, Inductive, PTL

\* While automatic expiry is off, no success, failure, prune or tick ends a
\* confirmed quarantine: only an update from the desktop does.
THEOREM QuarantineOutlivesTraffic == Spec => ConfirmedOutlivesTraffic
<1>1. IndInv /\ [Next]_vars =>
        [\A a \in Adapters, d \in Domains : Ended(a, d) => UpdateQuarantines]_vars
  BY StepSound DEF Ended, PermanentStays
<1>. QED BY <1>1, Inductive, PTL DEF Spec, ConfirmedOutlivesTraffic
=============================================================================
