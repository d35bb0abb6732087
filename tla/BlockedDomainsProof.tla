------------------------ MODULE BlockedDomainsProof ------------------------
(***************************************************************************)
(* Proofs about BlockedDomains, for any adapters, domains, lifetimes and   *)
(* number of removals.                                                     *)
(***************************************************************************)
EXTENDS BlockedDomains, TLAPS

-----------------------------------------------------------------------------
(* The inductive invariant, in named parts.                                *)

\* Without an engine there is no table that could hold a quarantine.
EngineInv == ~running => dom = NoQuarantines

\* The engine has no confirmed quarantine of a removed pair, not even one that
\* is past its deadline.
EngineForgets ==
  \A a \in Adapters, d \in Domains : <<a, d>> \in gone => ~Confirmed(dom[a][d])

\* The gate of a removal holds its pairs and counts as a removal to come; no
\* one else's gate holds any.
GateInv == IF gate.by = "remove" THEN removals < MaxRemovals ELSE gate.pairs = {}

\* The desktop has no record of a pair whose removal is complete.
RecordsForget ==
  \A p \in gone \ gate.pairs : entries[p] = NoRecord /\ file[p] = NoRecord

\* A token is never from the future, ...
TokenInv == sample.token <= removals

\* ... and a sample that will be applied was taken after the last removal.
SampleForgets ==
  sample.phase = "answered" /\ Current =>
    \A p \in gone \ gate.pairs : sample.seen[p] = NoRecord

IndInv ==
  /\ TypeOK
  /\ EngineInv
  /\ EngineForgets
  /\ GateInv
  /\ RecordsForget
  /\ TokenInv
  /\ SampleForgets
  /\ NothingOnlyInMemory

-----------------------------------------------------------------------------
(* What the operations on cells and records return.                        *)

LEMMA Numbers ==
  /\ QuarantineTTL \in Nat /\ EvidenceTTL \in Nat /\ EvidenceTTL <= QuarantineTTL
  /\ QuarantineTTL # 0
  /\ NoRecord = QuarantineTTL + 2 /\ NotIndexed = QuarantineTTL + 2
  /\ Permanent = QuarantineTTL + 1 /\ Deadlines = 0 .. QuarantineTTL + 1
  /\ MaxRemovals \in Nat
BY TTLAssumption, MaxRemovalsAssumption DEF NoRecord, NotIndexed, Permanent, Deadlines

LEMMA EnforcedRecord ==
  ASSUME NEW t \in Deadlines \cup {NoRecord}
  PROVE  /\ Enforced(t) \in Deadlines \cup {NoRecord}
         /\ t = NoRecord => Enforced(t) = NoRecord
BY Numbers DEF Enforced

LEMMA ReplacedRecord ==
  ASSUME NEW t \in Deadlines \cup {NoRecord}, NEW u \in Deadlines \cup {NoRecord},
         useExpiry \in BOOLEAN
  PROVE  /\ Replaced(t, u) \in Deadlines \cup {NoRecord}
         /\ u = NoRecord /\ t = NoRecord => Replaced(t, u) = NoRecord
         /\ ~useExpiry /\ t # NoRecord => Replaced(t, u) # NoRecord
BY Numbers DEF Replaced

LEMMA SoonerDeadline ==
  ASSUME NEW t \in Deadlines \cup {NoRecord}
  PROVE  /\ Sooner(t) \in Deadlines \cup {NoRecord}
         /\ t \in Deadlines => Sooner(t) \in Deadlines
         /\ Sooner(t) = NoRecord <=> t = NoRecord
BY Numbers DEF Sooner

LEMMA CellType ==
  /\ Absent \in Cells /\ ~Confirmed(Absent) /\ ~InForce(Absent)
  /\ \A n \in 0 .. domainFailureThreshold, t \in Deadlines : Entry(n, t) \in Cells
BY Numbers DEF Absent, Cells, Confirmed, InForce, Entry, domainFailureThreshold

LEMMA PrunedCell ==
  ASSUME NEW c \in Cells
  PROVE  Pruned(c) \in Cells /\ (~Confirmed(c) => ~Confirmed(Pruned(c)))
BY CellType DEF Pruned

LEMMA SucceededCell ==
  ASSUME NEW c \in Cells
  PROVE  Succeeded(c) \in Cells /\ (~Confirmed(c) => ~Confirmed(Succeeded(c)))
BY CellType DEF Succeeded

LEMMA AgedCell ==
  ASSUME NEW c \in Cells
  PROVE  Aged(c) \in Cells /\ (~Confirmed(c) => ~Confirmed(Aged(c)))
BY SoonerDeadline, Numbers DEF Aged, Cells, Confirmed

LEMMA RelimitedCell ==
  ASSUME NEW c \in Cells, NEW on \in BOOLEAN
  PROVE  Relimited(c, on) \in Cells /\ (~Confirmed(c) => ~Confirmed(Relimited(c, on)))
<1>1. Pruned(c) \in Cells /\ (~Confirmed(c) => ~Confirmed(Pruned(c)))
  BY PrunedCell
<1>2. Smaller(Pruned(c).left, QuarantineTTL) \in Deadlines /\ Permanent \in Deadlines
      /\ Pruned(c).evidence \in 0 .. domainFailureThreshold
  BY <1>1, Numbers DEF Smaller, Cells
<1>. QED BY <1>1, <1>2, CellType DEF Relimited

LEMMA FailedCell ==
  ASSUME NEW c \in Cells
  PROVE  Failed(c) \in Cells
<1>1. Pruned(c) \in Cells
  BY PrunedCell
<1>2. Lifetime(expiryOn) \in Deadlines /\ EvidenceTTL \in Deadlines
  BY Numbers DEF Lifetime
<1>3. Smaller(Pruned(c).evidence + 1, domainFailureThreshold)
        \in 0 .. domainFailureThreshold
  BY <1>1 DEF Smaller, Cells, domainFailureThreshold
<1>4. 1 \in 0 .. domainFailureThreshold
  BY DEF domainFailureThreshold
<1>. QED BY <1>1, <1>2, <1>3, <1>4, CellType DEF Failed

-----------------------------------------------------------------------------
(* What the operations on the table and on the records preserve.           *)

LEMMA UpdateKeepsForgetting ==
  ASSUME DomTypeOK, NEW on \in BOOLEAN, NEW remove \in SUBSET Pairs,
         UpdateDomainQuarantines(on, FALSE, remove)
  PROVE  /\ DomTypeOK'
         /\ \A a \in Adapters, d \in Domains :
              <<a, d>> \in remove \/ ~Confirmed(dom[a][d]) => ~Confirmed(dom'[a][d])
<1>1. \A a \in Adapters, d \in Domains :
        /\ dom'[a][d] \in Cells
        /\ <<a, d>> \in remove \/ ~Confirmed(dom[a][d]) => ~Confirmed(dom'[a][d])
  <2>1. SUFFICES ASSUME NEW a \in Adapters, NEW d \in Domains
                 PROVE  /\ dom'[a][d] \in Cells
                        /\ <<a, d>> \in remove \/ ~Confirmed(dom[a][d])
                             => ~Confirmed(dom'[a][d])
    OBVIOUS
  <2>2. dom[a][d] \in Cells
    BY DEF DomTypeOK
  <2>3. dom'[a][d] = IF <<a, d>> \in remove THEN Absent
                    ELSE IF on # expiryOn THEN Relimited(dom[a][d], on) ELSE dom[a][d]
    BY DEF UpdateDomainQuarantines
  <2>. QED BY <2>2, <2>3, CellType, RelimitedCell
<1>2. dom' = [a \in Adapters |-> [d \in Domains |-> dom'[a][d]]]
  BY DEF UpdateDomainQuarantines
<1>3. dom' \in [Adapters -> [Domains -> Cells]]
  BY <1>1, <1>2
<1>. QED BY <1>1, <1>3 DEF DomTypeOK, UpdateDomainQuarantines

LEMMA EngineDropsForgets ==
  ASSUME DomTypeOK, EngineInv, running \in BOOLEAN, NEW pairs \in SUBSET Pairs,
         EngineDrops(pairs)
  PROVE  /\ DomTypeOK'
         /\ ~running => dom' = dom
         /\ \A a \in Adapters, d \in Domains :
              <<a, d>> \in pairs \/ ~Confirmed(dom[a][d]) => ~Confirmed(dom'[a][d])
<1>1. CASE running
  BY <1>1, UpdateKeepsForgetting DEF EngineDrops, DomTypeOK
<1>2. CASE ~running
  <2>1. dom = NoQuarantines /\ UNCHANGED domVars
    BY <1>2 DEF EngineDrops, EngineInv
  <2>2. \A a \in Adapters, d \in Domains : ~Confirmed(dom[a][d])
    BY <2>1, CellType DEF NoQuarantines
  <2>. QED BY <2>1, <2>2 DEF domVars, DomTypeOK
<1>. QED BY <1>1, <1>2

\* Listing takes no record away that the file does not lose too, adds none, and
\* leaves what is absent absent.
LEMMA ListKeeps ==
  ASSUME entries \in Records, file \in Records, NothingOnlyInMemory,
         NEW saved \in BOOLEAN, List(saved)
  PROVE  /\ entries' \in Records /\ file' \in Records
         /\ NothingOnlyInMemory'
         /\ \A p \in Pairs : entries[p] = NoRecord => entries'[p] = NoRecord
         /\ \A p \in Pairs : entries[p] = NoRecord /\ file[p] = NoRecord
                              => file'[p] = NoRecord
<1>1. [p \in Pairs |-> Enforced(entries[p])] \in Records
  BY EnforcedRecord DEF Records
<1>2. entries' \in Records /\ file' \in Records
  BY <1>1 DEF List, Listed
<1>3. \A p \in Pairs : entries[p] = NoRecord => entries'[p] = NoRecord
  BY EnforcedRecord DEF List, Listed, Records
<1>4. file' = entries' \/ (entries' = entries /\ file' = file)
  BY DEF List
<1>. QED BY <1>2, <1>3, <1>4 DEF NothingOnlyInMemory, Stored

LEMMA ReplaceKeeps ==
  ASSUME TypeOK, NothingOnlyInMemory, NEW saved \in BOOLEAN, ReplaceRuntime(saved)
  PROVE  /\ entries' \in Records /\ file' \in Records
         /\ NothingOnlyInMemory'
         /\ \A p \in Pairs :
              entries[p] = NoRecord /\ file[p] = NoRecord /\ sample.seen[p] = NoRecord
                => entries'[p] = NoRecord /\ file'[p] = NoRecord
         /\ ~useExpiry => Stored(entries) \subseteq Stored(entries')
<1>. DEFINE next == [p \in Pairs |-> Replaced(entries[p], sample.seen[p])]
<1>1. entries \in Records /\ file \in Records /\ sample.seen \in Records
      /\ useExpiry \in BOOLEAN
  BY DEF TypeOK, SampleStates
<1>2. next \in Records
  BY <1>1, ReplacedRecord DEF Records
<1>3. \/ entries' = next /\ file' = next
      \/ entries' = entries /\ file' = file
  BY DEF ReplaceRuntime
<1>4. \A p \in Pairs : entries[p] = NoRecord /\ sample.seen[p] = NoRecord
                       => next[p] = NoRecord
  BY <1>1, ReplacedRecord DEF Records
<1>5. ~useExpiry => \A p \in Pairs : entries[p] # NoRecord => next[p] # NoRecord
  BY <1>1, ReplacedRecord DEF Records
<1>. HIDE DEF next
<1>. QED BY <1>1, <1>2, <1>3, <1>4, <1>5 DEF NothingOnlyInMemory, Stored

LEMMA AgeKeeps ==
  ASSUME NEW r \in Records
  PROVE  /\ AgedRecords(r) \in Records
         /\ \A p \in Pairs : AgedRecords(r)[p] = NoRecord <=> r[p] = NoRecord
BY SoonerDeadline DEF AgedRecords, Records

-----------------------------------------------------------------------------
(* The invariant is inductive.                                             *)

LEMMA InitIndInv == ASSUME Init PROVE IndInv
<1>1. NoRecords \in Records
  BY Numbers DEF NoRecords, Records
<1>2. NoQuarantines \in [Adapters -> [Domains -> Cells]]
  BY CellType DEF NoQuarantines
<1>3. Free \in GateStates /\ Idle \in SampleStates /\ Free.pairs = {}
      /\ Free.by # "remove" /\ Idle.phase = "idle" /\ Idle.token = 0
  BY <1>1, Numbers DEF Free, GateStates, Idle, SampleStates
<1>4. TypeOK
  <2>1. expiryOn \in BOOLEAN /\ running \in BOOLEAN /\ useExpiry \in BOOLEAN
    BY DEF Init
  <2>2. removals \in 0 .. MaxRemovals /\ gone \subseteq Pairs
    BY Numbers DEF Init
  <2>3. dom \in [Adapters -> [Domains -> Cells]] /\ entries \in Records /\ file \in Records
        /\ gate \in GateStates /\ sample \in SampleStates
    BY <1>1, <1>2, <1>3 DEF Init
  <2>. QED BY <2>1, <2>2, <2>3 DEF TypeOK, DomTypeOK
<1>5. EngineInv /\ EngineForgets /\ GateInv /\ RecordsForget /\ NothingOnlyInMemory
  BY <1>3 DEF Init, EngineInv, EngineForgets, GateInv, RecordsForget, NothingOnlyInMemory
<1>6. TokenInv /\ SampleForgets
  BY <1>3 DEF Init, TokenInv, SampleForgets
<1>. QED BY <1>4, <1>5, <1>6 DEF IndInv

\* The user's switch and the steps that touch nothing but the gate or the
\* sample in flight.
LEMMA QuietSteps ==
  ASSUME IndInv, ToggleExpiry \/ StartBegins \/ StartFails \/ AskTelemetry \/ TelemetryFails
  PROVE  IndInv'
<1>1. Idle \in SampleStates /\ Free \in GateStates /\ Free.by # "remove" /\ Free.pairs = {}
  BY Numbers DEF Idle, SampleStates, NoRecords, Records, Free, GateStates
<1>2. CASE ToggleExpiry
  BY <1>2 DEF ToggleExpiry, IndInv, TypeOK, DomTypeOK, domVars, EngineInv, EngineForgets,
     GateInv, RecordsForget, TokenInv, SampleForgets, Current, NothingOnlyInMemory, Stored
<1>3. CASE StartBegins \/ StartFails
  <2>1. gate' \in GateStates /\ gate.pairs = {} /\ gate'.pairs = {} /\ gate'.by # "remove"
    <3>1. useExpiry \in BOOLEAN
      BY DEF IndInv, TypeOK
    <3>2. [by |-> "start", policy |-> useExpiry, pairs |-> {}] \in GateStates
      BY <3>1 DEF GateStates
    <3>3. gate.by # "remove"
      BY <1>3 DEF StartBegins, StartFails, Free
    <3>. QED BY <1>1, <1>3, <3>2, <3>3 DEF StartBegins, StartFails, IndInv, GateInv
  <2>. QED BY <1>3, <2>1 DEF StartBegins, StartFails, IndInv, TypeOK, DomTypeOK, domVars,
     EngineInv, EngineForgets, GateInv, RecordsForget, TokenInv, SampleForgets, Current,
     NothingOnlyInMemory, Stored
<1>4. CASE AskTelemetry \/ TelemetryFails
  <2>1. sample' \in SampleStates /\ sample'.phase # "answered" /\ sample'.token <= removals
    <3>1. useExpiry \in BOOLEAN /\ removals \in 0 .. MaxRemovals
      BY DEF IndInv, TypeOK
    <3>2. Idle.policy \in BOOLEAN /\ Idle.seen \in Records
      BY <1>1 DEF SampleStates
    <3>3. [phase |-> "asked", token |-> removals, expiry |-> useExpiry,
           policy |-> Idle.policy, seen |-> Idle.seen] \in SampleStates
      BY <3>1, <3>2 DEF SampleStates
    <3>4. Idle.phase = "idle" /\ Idle.token = 0
      BY DEF Idle
    <3>. QED BY <1>1, <1>4, <3>1, <3>3, <3>4, Numbers DEF AskTelemetry, TelemetryFails
  <2>. QED BY <1>4, <2>1 DEF AskTelemetry, TelemetryFails, IndInv, TypeOK, DomTypeOK, domVars,
     EngineInv, EngineForgets, GateInv, RecordsForget, TokenInv, SampleForgets, Current,
     NothingOnlyInMemory, Stored
<1>. QED BY <1>2, <1>3, <1>4

LEMMA ListRecordsStep == ASSUME IndInv, ListRecords PROVE IndInv'
<1>1. PICK saved \in BOOLEAN : List(saved)
  BY DEF ListRecords
<1>2. /\ entries' \in Records /\ file' \in Records
      /\ NothingOnlyInMemory'
      /\ \A p \in Pairs : entries[p] = NoRecord => entries'[p] = NoRecord
      /\ \A p \in Pairs : entries[p] = NoRecord /\ file[p] = NoRecord => file'[p] = NoRecord
  BY <1>1, ListKeeps DEF IndInv, TypeOK
<1>3. RecordsForget'
  BY <1>2 DEF RecordsForget, ListRecords, IndInv, TypeOK
<1>. QED BY <1>2, <1>3 DEF ListRecords, IndInv, TypeOK, DomTypeOK, domVars, EngineInv,
     EngineForgets, GateInv, TokenInv, SampleForgets, Current

\* The request that removes: the engine forgets first, the records follow.
LEMMA EvictStep ==
  ASSUME IndInv, NEW pairs \in SUBSET Pairs, EvictRuntime(pairs)
  PROVE  IndInv'
<1>1. /\ DomTypeOK' /\ (~running => dom' = dom)
      /\ \A a \in Adapters, d \in Domains :
           <<a, d>> \in pairs \/ ~Confirmed(dom[a][d]) => ~Confirmed(dom'[a][d])
  BY EngineDropsForgets DEF EvictRuntime, IndInv, TypeOK
<1>2. gate.pairs = {} /\ gate' \in GateStates /\ gate'.by = "remove" /\ gate'.pairs = pairs
  BY DEF EvictRuntime, Free, GateStates
<1>3. EngineForgets' /\ EngineInv'
  BY <1>1 DEF EngineForgets, EngineInv, EvictRuntime, IndInv, NoQuarantines
<1>4. RecordsForget' /\ SampleForgets' /\ GateInv'
  BY <1>2 DEF RecordsForget, SampleForgets, GateInv, Current, EvictRuntime, IndInv
<1>. QED BY <1>1, <1>2, <1>3, <1>4 DEF EvictRuntime, IndInv, TypeOK, TokenInv,
     NothingOnlyInMemory, Stored

LEMMA EvictFailsStep ==
  ASSUME IndInv, NEW pairs \in SUBSET Pairs, EvictRuntimeFails(pairs)
  PROVE  IndInv'
<1>1. /\ DomTypeOK'
      /\ \A a \in Adapters, d \in Domains : ~Confirmed(dom[a][d]) => ~Confirmed(dom'[a][d])
  BY EngineDropsForgets DEF EvictRuntimeFails, IndInv, TypeOK, domVars, DomTypeOK
<1>2. EngineForgets' /\ EngineInv'
  BY <1>1 DEF EngineForgets, EngineInv, EvictRuntimeFails, IndInv
<1>. QED BY <1>1, <1>2 DEF EvictRuntimeFails, desktopVars, IndInv, TypeOK, GateInv,
     RecordsForget, TokenInv, SampleForgets, Current, NothingOnlyInMemory, Stored

LEMMA CommitStep == ASSUME IndInv, CommitRemoval PROVE IndInv'
<1>1. PICK saved \in BOOLEAN :
        /\ file' = IF saved THEN entries' ELSE file
        /\ gone' = IF saved THEN gone ELSE gone \ gate.pairs
  BY DEF CommitRemoval
<1>2. entries' \in Records /\ file' \in Records
  BY <1>1 DEF CommitRemoval, IndInv, TypeOK, Records
<1>3. \A p \in Pairs : entries'[p] = IF p \in gate.pairs THEN NoRecord ELSE entries[p]
  BY DEF CommitRemoval
<1>4. gate' = Free /\ gate' \in GateStates /\ gate'.pairs = {} /\ gate'.by # "remove"
  BY DEF CommitRemoval, Free, GateStates
<1>5. NothingOnlyInMemory'
  BY <1>1, <1>3 DEF NothingOnlyInMemory, Stored, IndInv
<1>6. RecordsForget'
  BY <1>1, <1>3, <1>4 DEF RecordsForget, IndInv, TypeOK
<1>7. removals' = removals + 1 /\ removals' # sample.token /\ sample.token <= removals'
  BY Numbers DEF CommitRemoval, IndInv, TypeOK, TokenInv, SampleStates
<1>8. SampleForgets' /\ TokenInv' /\ GateInv'
  BY <1>4, <1>7 DEF CommitRemoval, SampleForgets, TokenInv, GateInv, Current
<1>9. EngineForgets' /\ EngineInv'
  BY <1>1 DEF CommitRemoval, EngineForgets, EngineInv, IndInv, domVars
<1>10. removals' \in 0 .. MaxRemovals
  BY Numbers DEF CommitRemoval, IndInv, TypeOK, GateInv
<1>. QED BY <1>1, <1>2, <1>4, <1>5, <1>6, <1>8, <1>9, <1>10
     DEF CommitRemoval, IndInv, TypeOK, DomTypeOK, domVars

\* No seed makes a confirmed quarantine of a removed pair.
LEMMA EngineStartsStep == ASSUME IndInv, EngineStarts PROVE IndInv'
<1>1. PICK saved \in BOOLEAN : List(saved)
  BY DEF EngineStarts
<1>2. /\ entries' \in Records /\ file' \in Records
      /\ NothingOnlyInMemory'
      /\ \A p \in Pairs : entries[p] = NoRecord => entries'[p] = NoRecord
      /\ \A p \in Pairs : entries[p] = NoRecord /\ file[p] = NoRecord => file'[p] = NoRecord
  BY <1>1, ListKeeps DEF IndInv, TypeOK
<1>3. gate.by # "remove" /\ gate.pairs = {} /\ gate.policy \in BOOLEAN
  BY DEF EngineStarts, IndInv, TypeOK, GateInv, GateStates
<1>4. gate' \in GateStates /\ gate'.by # "remove" /\ gate'.pairs = {}
  BY DEF EngineStarts, Free, GateStates
<1>5. \A a \in Adapters, d \in Domains :
        /\ dom'[a][d] \in Cells
        /\ entries'[<<a, d>>] = NoRecord => dom'[a][d] = Absent
  <2>1. SUFFICES ASSUME NEW a \in Adapters, NEW d \in Domains
                 PROVE  /\ dom'[a][d] \in Cells
                        /\ entries'[<<a, d>>] = NoRecord => dom'[a][d] = Absent
    OBVIOUS
  <2>. DEFINE t == SeedOf(entries'[<<a, d>>], gate.policy)
  <2>2. entries'[<<a, d>>] \in Deadlines \cup {NoRecord}
    BY <1>2 DEF Records, Pairs
  <2>3. t \in Deadlines /\ (entries'[<<a, d>>] = NoRecord => t = 0)
    BY <2>2, Numbers DEF SeedOf
  <2>4. dom'[a][d] = IF t = 0 THEN Absent
                    ELSE Entry(domainFailureThreshold, IF gate.policy THEN t ELSE Permanent)
    BY DEF EngineStarts, Seeded
  <2>5. Permanent \in Deadlines /\ domainFailureThreshold \in 0 .. domainFailureThreshold
    BY Numbers DEF domainFailureThreshold
  <2>. HIDE DEF t
  <2>. QED BY <2>3, <2>4, <2>5, CellType
<1>6. dom' = [a \in Adapters |-> [d \in Domains |-> dom'[a][d]]]
  BY DEF EngineStarts, Seeded
<1>7. DomTypeOK'
  BY <1>3, <1>5, <1>6 DEF EngineStarts, DomTypeOK
<1>8. RecordsForget'
  BY <1>2, <1>3, <1>4 DEF EngineStarts, RecordsForget, IndInv, TypeOK
<1>9. EngineForgets'
  BY <1>2, <1>3, <1>5, CellType DEF EngineStarts, EngineForgets, RecordsForget, IndInv, TypeOK, Pairs
<1>10. EngineInv' /\ GateInv' /\ TokenInv' /\ SampleForgets'
  BY <1>3, <1>4 DEF EngineStarts, EngineInv, GateInv, TokenInv, SampleForgets, Current, IndInv
<1>. QED BY <1>2, <1>4, <1>7, <1>8, <1>9, <1>10 DEF EngineStarts, IndInv, TypeOK

LEMMA EngineGoneForgets ==
  ASSUME EngineGone
  PROVE  DomTypeOK' /\ EngineInv' /\ EngineForgets' /\ running' \in BOOLEAN
<1>1. NoQuarantines \in [Adapters -> [Domains -> Cells]]
      /\ \A a \in Adapters, d \in Domains : ~Confirmed(NoQuarantines[a][d])
  BY CellType DEF NoQuarantines
<1>. QED BY <1>1 DEF EngineGone, DomTypeOK, EngineInv, EngineForgets

LEMMA EngineEndsStep == ASSUME IndInv, EngineEnds PROVE IndInv'
BY EngineGoneForgets DEF EngineEnds, desktopVars, IndInv, TypeOK, GateInv, RecordsForget,
   TokenInv, SampleForgets, Current, NothingOnlyInMemory, Stored

LEMMA DesktopRestartsStep == ASSUME IndInv, DesktopRestarts PROVE IndInv'
<1>1. PICK readable \in BOOLEAN :
        entries' = IF readable THEN [p \in Pairs |-> Enforced(file[p])] ELSE NoRecords
  BY DEF DesktopRestarts
<1>2. /\ entries' \in Records
      /\ \A p \in Pairs : file[p] = NoRecord => entries'[p] = NoRecord
  BY <1>1, EnforcedRecord DEF NoRecords, Records, IndInv, TypeOK
<1>3. Free \in GateStates /\ Free.by # "remove" /\ Free.pairs = {}
      /\ Idle \in SampleStates /\ Idle.phase # "answered" /\ Idle.token = 0
  BY Numbers DEF Free, GateStates, Idle, SampleStates, NoRecords, Records
<1>4. NothingOnlyInMemory'
  BY <1>2 DEF DesktopRestarts, NothingOnlyInMemory, Stored
<1>5. RecordsForget'
  BY <1>2, <1>3 DEF DesktopRestarts, RecordsForget, IndInv, TypeOK
<1>6. GateInv' /\ TokenInv' /\ SampleForgets'
  BY <1>3 DEF DesktopRestarts, GateInv, TokenInv, SampleForgets
<1>7. removals' \in 0 .. MaxRemovals
  BY Numbers DEF DesktopRestarts
<1>. QED BY <1>2, <1>3, <1>4, <1>5, <1>6, <1>7, EngineGoneForgets
     DEF DesktopRestarts, IndInv, TypeOK

\* A sample holds what is in force, so nothing that was removed.
LEMMA TelemetryAnswersStep == ASSUME IndInv, TelemetryAnswers PROVE IndInv'
<1>1. \A a \in Adapters, d \in Domains :
        /\ dom[a][d] \in Cells /\ dom'[a][d] \in Cells
        /\ ~Confirmed(dom[a][d]) => ~Confirmed(dom'[a][d])
  BY PrunedCell DEF TelemetryAnswers, PruneDomains, IndInv, TypeOK, DomTypeOK
<1>2. dom' \in [Adapters -> [Domains -> Cells]]
  BY PrunedCell DEF TelemetryAnswers, PruneDomains, IndInv, TypeOK, DomTypeOK
<1>3. \A p \in Pairs : InForceNow[p] \in Deadlines \cup {NoRecord}
  <2>1. SUFFICES ASSUME NEW a \in Adapters, NEW d \in Domains
                 PROVE  InForceNow[<<a, d>>] \in Deadlines \cup {NoRecord}
    BY DEF Pairs
  <2>2. dom[a][d].left \in Deadlines
    BY <1>1 DEF Cells
  <2>. QED BY <2>2 DEF InForceNow, Pairs
<1>4. \A p \in gone : InForceNow[p] = NoRecord
  <2>1. SUFFICES ASSUME NEW a \in Adapters, NEW d \in Domains, <<a, d>> \in gone
                 PROVE  InForceNow[<<a, d>>] = NoRecord
    BY DEF Pairs, IndInv, TypeOK
  <2>2. ~InForce(dom[a][d])
    BY <2>1 DEF IndInv, EngineForgets, InForce
  <2>. QED BY <2>2 DEF InForceNow, Pairs
<1>5. InForceNow \in Records
  BY <1>3 DEF InForceNow, Records
<1>6. sample' \in SampleStates
  <2>1. sample.token \in 0 .. MaxRemovals /\ sample.expiry \in BOOLEAN /\ expiryOn \in BOOLEAN
    BY DEF IndInv, TypeOK, DomTypeOK, SampleStates
  <2>2. [phase |-> "answered", token |-> sample.token, expiry |-> sample.expiry,
         policy |-> expiryOn, seen |-> InForceNow] \in SampleStates
    BY <1>5, <2>1 DEF SampleStates
  <2>. QED BY <2>2 DEF TelemetryAnswers
<1>7. SampleForgets' /\ TokenInv'
  BY <1>4 DEF TelemetryAnswers, SampleForgets, TokenInv, IndInv
<1>8. EngineForgets' /\ EngineInv'
  BY <1>1 DEF TelemetryAnswers, EngineForgets, EngineInv, IndInv
<1>. QED BY <1>2, <1>6, <1>7, <1>8 DEF TelemetryAnswers, IndInv, TypeOK, DomTypeOK, GateInv,
     RecordsForget, NothingOnlyInMemory, Stored

LEMMA SyncPolicyStep ==
  ASSUME IndInv, NEW delivered \in BOOLEAN, SyncPolicy(delivered)
  PROVE  IndInv'
<1>1. Idle \in SampleStates /\ Idle.phase # "answered" /\ Idle.token = 0
  BY Numbers DEF Idle, SampleStates, NoRecords, Records
<1>2. /\ DomTypeOK'
      /\ ~running => dom' = dom
      /\ \A a \in Adapters, d \in Domains : ~Confirmed(dom[a][d]) => ~Confirmed(dom'[a][d])
  <2>1. DomTypeOK /\ sample.expiry \in BOOLEAN
    BY DEF IndInv, TypeOK, SampleStates
  <2>2. CASE delivered /\ running
    BY <2>1, <2>2, UpdateKeepsForgetting DEF SyncPolicy
  <2>3. CASE ~(delivered /\ running)
    BY <2>1, <2>3 DEF SyncPolicy, domVars, DomTypeOK
  <2>. QED BY <2>2, <2>3
<1>3. EngineForgets' /\ EngineInv'
  BY <1>2 DEF SyncPolicy, EngineForgets, EngineInv, IndInv
<1>4. removals \in Nat
  BY Numbers DEF IndInv, TypeOK
<1>5. SampleForgets' /\ TokenInv'
  BY <1>1, <1>4 DEF SyncPolicy, SampleForgets, TokenInv
<1>. QED BY <1>1, <1>2, <1>3, <1>5 DEF SyncPolicy, IndInv, TypeOK, GateInv,
     RecordsForget, NothingOnlyInMemory, Stored

\* What is applied was asked for after the last removal, or is dropped.
LEMMA ApplySampleStep == ASSUME IndInv, ApplySample PROVE IndInv'
<1>1. Idle \in SampleStates /\ Idle.phase # "answered" /\ Idle.token = 0
  BY Numbers DEF Idle, SampleStates, NoRecords, Records
<1>2. /\ entries' \in Records /\ file' \in Records
      /\ NothingOnlyInMemory'
      /\ RecordsForget'
  <2>1. CASE Current
    <3>1. PICK saved \in BOOLEAN : ReplaceRuntime(saved)
      BY <2>1 DEF ApplySample
    <3>2. \A p \in gone \ gate.pairs : entries[p] = NoRecord /\ file[p] = NoRecord
                                         /\ sample.seen[p] = NoRecord
      BY <2>1 DEF ApplySample, IndInv, RecordsForget, SampleForgets
    <3>. QED BY <3>1, <3>2, ReplaceKeeps DEF ApplySample, RecordsForget, IndInv, TypeOK
  <2>2. CASE ~Current
    BY <2>2 DEF ApplySample, IndInv, TypeOK, RecordsForget, NothingOnlyInMemory, Stored
  <2>. QED BY <2>1, <2>2
<1>3. removals \in Nat
  BY Numbers DEF IndInv, TypeOK
<1>4. SampleForgets' /\ TokenInv'
  BY <1>1, <1>3 DEF ApplySample, SampleForgets, TokenInv
<1>. QED BY <1>1, <1>2, <1>4 DEF ApplySample, IndInv, TypeOK, DomTypeOK, domVars, EngineInv,
     EngineForgets, GateInv

\* Traffic: only failures that confirm a pair anew let it back in.
LEMMA DomainFailsStep ==
  ASSUME IndInv, NEW a \in Adapters, NEW d \in Domains, DomainFails(a, d)
  PROVE  IndInv'
<1>1. dom \in [Adapters -> [Domains -> Cells]]
  BY DEF IndInv, TypeOK, DomTypeOK
<1>2. dom' = [dom EXCEPT ![a][d] = Failed(dom[a][d])] /\ Failed(dom[a][d]) \in Cells
  BY <1>1, FailedCell DEF DomainFails, RecordComparativeDomainFailure
<1>3. dom' \in [Adapters -> [Domains -> Cells]]
  BY <1>1, <1>2
<1>4. \A b \in Adapters, e \in Domains : <<b, e>> # <<a, d>> => dom'[b][e] = dom[b][e]
  BY <1>1, <1>2
<1>5. gone' \subseteq gone /\ (Confirmed(dom'[a][d]) => <<a, d>> \notin gone')
  BY DEF DomainFails
<1>6. EngineForgets'
  BY <1>4, <1>5 DEF EngineForgets, IndInv
<1>7. EngineInv' /\ RecordsForget' /\ SampleForgets'
  BY <1>5 DEF DomainFails, desktopVars, EngineInv, RecordsForget, SampleForgets, Current, IndInv
<1>. QED BY <1>3, <1>5, <1>6, <1>7 DEF DomainFails, RecordComparativeDomainFailure, desktopVars,
     IndInv, TypeOK, DomTypeOK, GateInv, TokenInv, NothingOnlyInMemory, Stored

LEMMA DomainSucceedsStep ==
  ASSUME IndInv, NEW a \in Adapters, NEW d \in Domains, DomainSucceeds(a, d)
  PROVE  IndInv'
<1>1. dom \in [Adapters -> [Domains -> Cells]]
  BY DEF IndInv, TypeOK, DomTypeOK
<1>2. /\ dom' = [dom EXCEPT ![a][d] = Succeeded(dom[a][d])]
      /\ Succeeded(dom[a][d]) \in Cells
      /\ ~Confirmed(dom[a][d]) => ~Confirmed(Succeeded(dom[a][d]))
  BY <1>1, SucceededCell DEF DomainSucceeds
<1>3. dom' \in [Adapters -> [Domains -> Cells]]
  BY <1>1, <1>2
<1>4. \A b \in Adapters, e \in Domains : ~Confirmed(dom[b][e]) => ~Confirmed(dom'[b][e])
  BY <1>1, <1>2
<1>5. EngineForgets' /\ EngineInv'
  BY <1>4 DEF DomainSucceeds, EngineForgets, EngineInv, IndInv
<1>. QED BY <1>3, <1>5 DEF DomainSucceeds, desktopVars, IndInv, TypeOK, DomTypeOK, GateInv,
     RecordsForget, TokenInv, SampleForgets, Current, NothingOnlyInMemory, Stored

LEMMA TickStep == ASSUME IndInv, Tick PROVE IndInv'
<1>1. entries \in Records /\ file \in Records /\ sample \in SampleStates
      /\ sample.seen \in Records
  BY DEF IndInv, TypeOK, SampleStates
<1>2. /\ entries' \in Records /\ file' \in Records
      /\ \A p \in Pairs : entries'[p] = NoRecord <=> entries[p] = NoRecord
      /\ \A p \in Pairs : file'[p] = NoRecord <=> file[p] = NoRecord
  BY <1>1, AgeKeeps DEF Tick
<1>3. /\ sample' \in SampleStates /\ sample'.phase = sample.phase
      /\ sample'.token = sample.token
      /\ \A p \in Pairs : sample'.seen[p] = NoRecord <=> sample.seen[p] = NoRecord
  <2>1. sample' = [sample EXCEPT !.seen = AgedRecords(sample.seen)]
    BY DEF Tick
  <2>2. AgedRecords(sample.seen) \in Records
    BY <1>1, AgeKeeps
  <2>3. sample'.seen = AgedRecords(sample.seen) /\ sample'.phase = sample.phase
        /\ sample'.token = sample.token /\ sample' \in SampleStates
    BY <1>1, <2>1, <2>2 DEF SampleStates
  <2>. QED BY <1>1, <2>3, AgeKeeps
<1>4. /\ dom' \in [Adapters -> [Domains -> Cells]]
      /\ \A a \in Adapters, d \in Domains : ~Confirmed(dom[a][d]) => ~Confirmed(dom'[a][d])
  BY AgedCell DEF Tick, DomainsAge, IndInv, TypeOK, DomTypeOK
<1>5. EngineInv'
  <2>1. Aged(Absent) = Absent
    BY Numbers DEF Aged, Absent, Sooner
  <2>. QED BY <2>1 DEF Tick, DomainsAge, EngineInv, NoQuarantines, IndInv
<1>6. EngineForgets'
  BY <1>4 DEF Tick, EngineForgets, IndInv
<1>7. RecordsForget' /\ NothingOnlyInMemory'
  BY <1>2 DEF Tick, RecordsForget, NothingOnlyInMemory, Stored, IndInv, TypeOK
<1>8. SampleForgets' /\ TokenInv'
  BY <1>3 DEF Tick, SampleForgets, TokenInv, Current, IndInv, TypeOK
<1>. QED BY <1>2, <1>3, <1>4, <1>5, <1>6, <1>7, <1>8 DEF Tick, IndInv, TypeOK, DomTypeOK, GateInv

LEMMA NextIndInv == ASSUME IndInv, [Next]_vars PROVE IndInv'
<1>1. CASE ToggleExpiry \/ StartBegins \/ StartFails \/ AskTelemetry \/ TelemetryFails
  BY <1>1, QuietSteps
<1>2. CASE ListRecords
  BY <1>2, ListRecordsStep
<1>3. CASE Remove
  <2>1. PICK p \in Pairs : EvictRuntime({p}) \/ EvictRuntimeFails({p})
    BY <1>3 DEF Remove
  <2>. QED BY <2>1, EvictStep, EvictFailsStep
<1>4. CASE Clear
  BY <1>4, EvictStep, EvictFailsStep DEF Clear
<1>5. CASE CommitRemoval
  BY <1>5, CommitStep
<1>6. CASE EngineStarts
  BY <1>6, EngineStartsStep
<1>7. CASE EngineEnds
  BY <1>7, EngineEndsStep
<1>8. CASE DesktopRestarts
  BY <1>8, DesktopRestartsStep
<1>9. CASE TelemetryAnswers
  BY <1>9, TelemetryAnswersStep
<1>10. CASE ApplySample
  BY <1>10, ApplySampleStep
<1>11. CASE \E delivered \in BOOLEAN : SyncPolicy(delivered)
  BY <1>11, SyncPolicyStep
<1>12. CASE \E a \in Adapters, d \in Domains : DomainFails(a, d) \/ DomainSucceeds(a, d)
  BY <1>12, DomainFailsStep, DomainSucceedsStep
<1>13. CASE Tick
  BY <1>13, TickStep
<1>14. CASE UNCHANGED vars
  BY <1>14 DEF vars, domVars, desktopVars, IndInv, TypeOK, DomTypeOK, EngineInv, EngineForgets,
     GateInv, RecordsForget, TokenInv, SampleForgets, Current, NothingOnlyInMemory, Stored
<1>. QED BY <1>1, <1>2, <1>3, <1>4, <1>5, <1>6, <1>7, <1>8, <1>9, <1>10, <1>11, <1>12, <1>13,
     <1>14 DEF Next

-----------------------------------------------------------------------------
(* The theorems.                                                           *)

\* The inductive invariant holds in every reachable state.
THEOREM Invariance == Spec => []IndInv
<1>1. Init => IndInv
  BY InitIndInv
<1>2. IndInv /\ [Next]_vars => IndInv'
  BY NextIndInv
<1>. QED BY <1>1, <1>2, PTL DEF Spec

\* A record the user removed stays removed from the engine's table, the
\* records and the file until new failures confirm it, for any number of
\* adapters and domains (commitRemoval, replaceRuntimeSample).
THEOREM RemovalIsFinal == Spec => []RemovedStaysRemoved
<1>1. IndInv => RemovedStaysRemoved
  <2>1. SUFFICES ASSUME IndInv, NEW p \in gone
                 PROVE  /\ ~InForce(dom[p[1]][p[2]])
                        /\ p \notin gate.pairs => entries[p] = NoRecord /\ file[p] = NoRecord
    BY DEF RemovedStaysRemoved
  <2>2. PICK a \in Adapters, d \in Domains : p = <<a, d>>
    BY <2>1 DEF IndInv, TypeOK, Pairs
  <2>3. ~InForce(dom[a][d])
    BY <2>1, <2>2 DEF IndInv, EngineForgets, InForce
  <2>. QED BY <2>1, <2>2, <2>3 DEF IndInv, RecordsForget
<1>. QED BY <1>1, Invariance, PTL

\* Ending the desktop loses no record it shows: whatever writes failed, each
\* one is in the file (replaceRuntimeLocked, List, load).
THEOREM ShownIsSaved == Spec => []NothingOnlyInMemory
<1>1. IndInv => NothingOnlyInMemory
  BY DEF IndInv
<1>. QED BY <1>1, Invariance, PTL

\* While automatic expiry is off, no sample, start or passing of time takes a
\* record away (replaceRuntimeLocked, enforceExpiryLocked).
THEOREM OffKeepsRecords == Spec => RecordsKeptWhileOff
<1>1. IndInv /\ [Next]_vars =>
        [~useExpiry /\ removals' = removals =>
           Stored(entries) \subseteq Stored(entries') \/ DesktopRestarts]_vars
  <2>1. SUFFICES ASSUME IndInv, Next, ~useExpiry, removals' = removals, ~DesktopRestarts
                 PROVE  Stored(entries) \subseteq Stored(entries')
    OBVIOUS
  <2>2. \A saved \in BOOLEAN : List(saved) => entries' = entries
    <3>1. entries = [p \in Pairs |-> Enforced(entries[p])]
      BY <2>1 DEF IndInv, TypeOK, Records, Enforced
    <3>. QED BY <3>1 DEF List, Listed
  <2>3. CASE ListRecords \/ EngineStarts
    BY <2>2, <2>3 DEF ListRecords, EngineStarts, Stored
  <2>4. CASE Remove \/ Clear
    BY <2>4 DEF Remove, Clear, EvictRuntime, EvictRuntimeFails, desktopVars, Stored
  <2>5. CASE CommitRemoval
    BY <2>1, <2>5, Numbers DEF CommitRemoval, IndInv, TypeOK
  <2>6. CASE ApplySample
    BY <2>1, <2>6, ReplaceKeeps DEF ApplySample, IndInv, Stored
  <2>7. CASE Tick
    BY <2>1, <2>7, AgeKeeps DEF Tick, Stored, IndInv, TypeOK
  <2>8. CASE ToggleExpiry \/ StartBegins \/ StartFails \/ AskTelemetry \/ TelemetryFails
             \/ TelemetryAnswers \/ EngineEnds
    BY <2>8 DEF ToggleExpiry, StartBegins, StartFails, AskTelemetry, TelemetryFails,
       TelemetryAnswers, EngineEnds, desktopVars, Stored
  <2>9. CASE \E delivered \in BOOLEAN : SyncPolicy(delivered)
    BY <2>9 DEF SyncPolicy, Stored
  <2>10. CASE \E a \in Adapters, d \in Domains : DomainFails(a, d) \/ DomainSucceeds(a, d)
    BY <2>10 DEF DomainFails, DomainSucceeds, desktopVars, Stored
  <2>. QED BY <2>1, <2>3, <2>4, <2>5, <2>6, <2>7, <2>8, <2>9, <2>10 DEF Next
<1>. QED BY <1>1, Invariance, PTL DEF Spec, RecordsKeptWhileOff
=============================================================================
