--------------------------- MODULE BlockedDomains ---------------------------
(***************************************************************************)
(* The desktop's record of quarantined domains                             *)
(* (desktop/internal/services/blocked_domains.go, domain_quarantine.go,    *)
(* the parts of engine.go that use them) and the engine's quarantine table *)
(* it mirrors (DomainQuarantine).                                          *)
(*                                                                         *)
(* The records live in memory and in a file. They seed the engine when it  *)
(* starts, telemetry samples write the engine's quarantines back, and the  *)
(* user removes some of them or turns automatic expiry on and off at any   *)
(* time. The user, the poller that samples and the engine interleave at    *)
(* every request; lifecycleGate keeps a start and a removal apart.         *)
(*                                                                         *)
(* As in DomainQuarantine a deadline is the time that is left; a file      *)
(* holds absolute times, so time passes for it too. Domain isolation       *)
(* (blocked_domain_bypass) is on, every adapter with a record is selected, *)
(* and the core knows domain_quarantine.update.                            *)
(***************************************************************************)
EXTENDS DomainQuarantine

CONSTANT MaxRemovals  \* bound: removals between two starts of the desktop

ASSUME MaxRemovalsAssumption == MaxRemovals \in Nat

VARIABLES
  running,    \* the engine has a proxy with the quarantine table
  entries,    \* service.entries
  file,       \* blocked_domains.json
  useExpiry,  \* settings.BlockedDomainExpiry
  removals,   \* service.removals
  gate,       \* lifecycleGate: its holder and what the holder remembers
  sample,     \* the Snapshot call in flight
  gone        \* history: pairs removed by the user and not confirmed since

desktopVars == <<entries, file, useExpiry, removals, gate, sample>>
vars == <<domVars, running, desktopVars, gone>>

Pairs    == Adapters \X Domains
NoRecord == QuarantineTTL + 2
Records  == [Pairs -> Deadlines \cup {NoRecord}]
Stored(records) == {p \in Pairs : records[p] # NoRecord}
NoRecords == [p \in Pairs |-> NoRecord]

\* by "start": policy is the setting startLocked read first;
\* by "remove": the engine has dropped pairs, the records still hold them.
GateStates == [by : {"nobody", "start", "remove"}, policy : BOOLEAN, pairs : SUBSET Pairs]
Free       == [by |-> "nobody", policy |-> TRUE, pairs |-> {}]

\* token and expiry are read before the request, policy and seen are the answer.
SampleStates == [phase : {"idle", "asked", "answered"}, token : 0 .. MaxRemovals,
                 expiry : BOOLEAN, policy : BOOLEAN, seen : Records]
Idle == [phase |-> "idle", token |-> 0, expiry |-> TRUE, policy |-> TRUE, seen |-> NoRecords]

TypeOK ==
  /\ DomTypeOK
  /\ running \in BOOLEAN
  /\ entries \in Records /\ file \in Records
  /\ useExpiry \in BOOLEAN
  /\ removals \in 0 .. MaxRemovals
  /\ gate \in GateStates
  /\ sample \in SampleStates
  /\ gone \subseteq Pairs

-----------------------------------------------------------------------------
(* What the service does to its records.                                   *)

\* enforceExpiryLocked on one record.
Enforced(t) ==
  IF ~useExpiry \/ t \in 1 .. QuarantineTTL \/ t = NoRecord THEN t
  ELSE IF t = 0 THEN NoRecord ELSE QuarantineTTL

\* List: a failed save restores what expiry changed.
Listed(saved) == IF saved THEN [p \in Pairs |-> Enforced(entries[p])] ELSE entries

List(saved) ==
  /\ entries' = Listed(saved)
  /\ file' = IF entries' # entries THEN entries' ELSE file

\* Defect: a sample replaces the records under either policy.
ReplacedAlways(stored, sampled) ==
  IF sampled \in {0, NoRecord} THEN NoRecord ELSE sampled

\* replaceRuntimeLocked on one record, from its stored and its sampled deadline.
Replaced(stored, sampled) ==
  CASE ~useExpiry -> IF sampled = NoRecord THEN stored ELSE sampled
    [] useExpiry /\ sampled \in {0, NoRecord} -> NoRecord
    [] useExpiry /\ sampled = Permanent ->
         IF stored \in 1 .. QuarantineTTL THEN stored ELSE QuarantineTTL
    [] OTHER -> sampled

\* Defect: a failed save leaves the new records in memory.
ReplaceRuntimeKeeps(saved) ==
  /\ entries' = [p \in Pairs |-> Replaced(entries[p], sample.seen[p])]
  /\ file' = IF entries' # entries /\ saved THEN entries' ELSE file

\* replaceRuntimeLocked: a failed save keeps the previous records.
ReplaceRuntime(saved) ==
  LET next == [p \in Pairs |-> Replaced(entries[p], sample.seen[p])] IN
  IF saved /\ next # entries THEN entries' = next /\ file' = next
                             ELSE UNCHANGED <<entries, file>>

\* Defect: samples are applied whatever was removed meanwhile.
CurrentAlways == TRUE

\* replaceRuntimeSample drops a sample requested before a removal.
Current == sample.token = removals

-----------------------------------------------------------------------------
(* The user.                                                               *)

ToggleExpiry ==
  /\ useExpiry' = ~useExpiry
  /\ UNCHANGED <<domVars, running, entries, file, removals, gate, sample, gone>>

ListRecords == \E saved \in BOOLEAN :
  /\ List(saved)
  /\ UNCHANGED <<domVars, running, useExpiry, removals, gate, sample, gone>>

\* The part of the engine's table that an update may change.
EngineDrops(pairs) ==
  IF running THEN UpdateDomainQuarantines(expiryOn, FALSE, pairs) ELSE UNCHANGED domVars

\* Remove and Clear, up to commit: evictDomainQuarantines takes the gate and
\* evictAndCommit asks a running engine first.
EvictRuntime(pairs) ==
  /\ gate = Free
  /\ removals < MaxRemovals
  /\ EngineDrops(pairs)
  /\ gate' = [by |-> "remove", policy |-> TRUE, pairs |-> pairs]
  /\ gone' = gone \cup pairs
  /\ UNCHANGED <<running, entries, file, useExpiry, removals, sample>>

\* The request failed, or only its answer was lost: the records are kept.
EvictRuntimeFails(pairs) ==
  /\ gate = Free
  /\ running
  /\ EngineDrops(pairs) \/ UNCHANGED domVars
  /\ UNCHANGED <<running, desktopVars, gone>>

\* commit of commitRemoval. A failed save is reported to the user, who then
\* has no promise about the file.
CommitRemoval == \E saved \in BOOLEAN :
  /\ gate.by = "remove"
  /\ removals' = removals + 1
  /\ entries' = [p \in Pairs |-> IF p \in gate.pairs THEN NoRecord ELSE entries[p]]
  /\ file' = IF saved THEN entries' ELSE file
  /\ gate' = Free
  /\ gone' = IF saved THEN gone ELSE gone \ gate.pairs
  /\ UNCHANGED <<domVars, running, useExpiry, sample>>

Remove == \E p \in Pairs : EvictRuntime({p}) \/ EvictRuntimeFails({p})
Clear  == EvictRuntime(Pairs) \/ EvictRuntimeFails(Pairs)

\* Start takes the gate; startLocked reads the settings long before it lists
\* the records.
StartBegins ==
  /\ gate = Free
  /\ gate' = [by |-> "start", policy |-> useExpiry, pairs |-> {}]
  /\ UNCHANGED <<domVars, running, entries, file, useExpiry, removals, sample, gone>>

\* The deadline a record is seeded with: List marks it permanent when expiry
\* is off by then, normalizeConfig when it was off at the beginning.
SeedOf(t, policy) ==
  CASE t = NoRecord -> 0
    [] t # NoRecord /\ (~useExpiry \/ ~policy) -> Permanent
    [] OTHER -> t

EngineStarts == \E saved \in BOOLEAN :
  /\ gate.by = "start" /\ ~running
  /\ List(saved)
  /\ dom' = Seeded([a \in Adapters |-> [d \in Domains |->
                      SeedOf(entries'[<<a, d>>], gate.policy)]], gate.policy)
  /\ expiryOn' = gate.policy
  /\ running' = TRUE
  /\ gate' = Free
  /\ UNCHANGED <<useExpiry, removals, sample, gone>>

StartFails ==
  /\ gate.by = "start"
  /\ gate' = Free
  /\ UNCHANGED <<domVars, running, entries, file, useExpiry, removals, sample, gone>>

NoQuarantines == [a \in Adapters |-> [d \in Domains |-> Absent]]

EngineGone ==
  /\ running' = FALSE
  /\ dom' = NoQuarantines
  /\ expiryOn' = TRUE

\* engine.stop, or the core dies: its table is gone.
EngineEnds ==
  /\ running
  /\ EngineGone
  /\ UNCHANGED <<desktopVars, gone>>

\* The desktop ends, its core with it, and starts again: load reads the file
\* (no records when it cannot) and enforces expiry without saving.
DesktopRestarts == \E readable \in BOOLEAN :
  /\ EngineGone
  /\ entries' = IF readable THEN [p \in Pairs |-> Enforced(file[p])] ELSE NoRecords
  /\ removals' = 0
  /\ gate' = Free
  /\ sample' = Idle
  /\ gone' = gone \ gate.pairs
  /\ UNCHANGED <<file, useExpiry>>

-----------------------------------------------------------------------------
(* The poller: Snapshot and syncDomainQuarantines.                         *)

\* Snapshot returns early while an engine starts and when none runs.
AskTelemetry ==
  /\ sample.phase = "idle"
  /\ running /\ gate.by # "start"
  /\ sample' = [phase |-> "asked", token |-> removals, expiry |-> useExpiry,
                policy |-> Idle.policy, seen |-> Idle.seen]
  /\ UNCHANGED <<domVars, running, entries, file, useExpiry, removals, gate, gone>>

\* The quarantines and their deadlines that healthTable.snapshot reports.
InForceNow == [p \in Pairs |-> LET c == dom[p[1]][p[2]] IN
                              IF InForce(c) THEN c.left ELSE NoRecord]

\* engine.telemetry: healthTable.snapshot prunes, then reports what is in force.
TelemetryAnswers ==
  /\ sample.phase = "asked"
  /\ running
  /\ PruneDomains(Adapters)
  /\ sample' = [phase |-> "answered", token |-> sample.token, expiry |-> sample.expiry,
                policy |-> expiryOn, seen |-> InForceNow]
  /\ UNCHANGED <<expiryOn, running, entries, file, useExpiry, removals, gate, gone>>

TelemetryFails ==
  /\ sample.phase = "asked"
  /\ sample' = Idle
  /\ UNCHANGED <<domVars, running, entries, file, useExpiry, removals, gate, gone>>

\* Defect: a policy of FALSE is omitted from the request.
SyncPolicyOmitsFalse(delivered) ==
  /\ sample.phase = "answered"
  /\ sample.policy # sample.expiry
  /\ sample' = Idle
  /\ IF delivered /\ running /\ sample.expiry
     THEN UpdateDomainQuarantines(TRUE, FALSE, {}) ELSE UNCHANGED domVars
  /\ UNCHANGED <<running, entries, file, useExpiry, removals, gate, gone>>

\* The engine applies another policy than the one the poller read: tell it,
\* and drop the sample.
SyncPolicy(delivered) ==
  /\ sample.phase = "answered"
  /\ sample.policy # sample.expiry
  /\ sample' = Idle
  /\ IF delivered /\ running THEN UpdateDomainQuarantines(sample.expiry, FALSE, {})
                             ELSE UNCHANGED domVars
  /\ UNCHANGED <<running, entries, file, useExpiry, removals, gate, gone>>

ApplySample == \E saved \in BOOLEAN :
  /\ sample.phase = "answered"
  /\ sample.policy = sample.expiry
  /\ sample' = Idle
  /\ IF Current THEN ReplaceRuntime(saved) ELSE UNCHANGED <<entries, file>>
  /\ UNCHANGED <<domVars, running, useExpiry, removals, gate, gone>>

-----------------------------------------------------------------------------
(* The engine's traffic, and time.                                         *)

\* gone forgets a pair that new failures confirm.
DomainFails(a, d) ==
  /\ running
  /\ RecordComparativeDomainFailure(a, d)
  /\ gone' = IF Confirmed(dom'[a][d]) THEN gone \ {<<a, d>>} ELSE gone
  /\ UNCHANGED <<running, desktopVars>>

DomainSucceeds(a, d) ==
  /\ running
  /\ dom' = [dom EXCEPT ![a][d] = Succeeded(@)]
  /\ UNCHANGED <<expiryOn, running, desktopVars, gone>>

AgedRecords(records) == [p \in Pairs |-> Sooner(records[p])]

Tick ==
  /\ DomainsAge
  /\ entries' = AgedRecords(entries)
  /\ file' = AgedRecords(file)
  /\ sample' = [sample EXCEPT !.seen = AgedRecords(@)]
  /\ UNCHANGED <<expiryOn, running, useExpiry, removals, gate, gone>>

-----------------------------------------------------------------------------
Init ==
  /\ dom = NoQuarantines /\ expiryOn = TRUE /\ running = FALSE
  /\ entries = NoRecords /\ file = NoRecords
  /\ useExpiry \in BOOLEAN
  /\ removals = 0 /\ gate = Free /\ sample = Idle /\ gone = {}

Next ==
  \/ ToggleExpiry \/ ListRecords \/ Remove \/ Clear \/ CommitRemoval
  \/ StartBegins \/ EngineStarts \/ StartFails \/ EngineEnds \/ DesktopRestarts
  \/ AskTelemetry \/ TelemetryAnswers \/ TelemetryFails \/ ApplySample
  \/ \E delivered \in BOOLEAN : SyncPolicy(delivered)
  \/ \E a \in Adapters, d \in Domains : DomainFails(a, d) \/ DomainSucceeds(a, d)
  \/ Tick

\* The window polls on a timer; a start and a removal have time limits
\* (75 s and 5 s); requests to a running engine do not fail for ever.
Fairness ==
  /\ SF_vars(AskTelemetry) /\ SF_vars(TelemetryAnswers)
  /\ WF_vars(ApplySample) /\ SF_vars(SyncPolicy(TRUE))
  /\ WF_vars(CommitRemoval) /\ WF_vars(StartFails \/ EngineStarts)

Spec == Init /\ [][Next]_vars /\ Fairness

-----------------------------------------------------------------------------
\* A removed pair does not come back, in the engine or in the records, until
\* new failures confirm it ("old telemetry cannot write them back",
\* blocked_domains.go:131): not through a sample that was in flight, nor
\* through the seeds of an engine that starts meanwhile, nor by a restart.
RemovedStaysRemoved ==
  \A p \in gone :
    /\ ~InForce(dom[p[1]][p[2]])
    /\ p \notin gate.pairs => entries[p] = NoRecord /\ file[p] = NoRecord

\* Every record the desktop shows is in the file, whichever of its writes
\* failed: ending the desktop loses none.
NothingOnlyInMemory == Stored(entries) \subseteq Stored(file)

\* While automatic expiry is off only the user takes records away
\* (blocked_domains.go:176-179): no sample, no engine that stopped or was
\* started under the other policy does.
RecordsKeptWhileOff ==
  [][~useExpiry /\ removals' = removals => Stored(entries) \subseteq Stored(entries')
                                           \/ DesktopRestarts]_vars

\* The engine ends up with the policy of the settings, whenever the switch was
\* thrown, whatever update was lost and whichever policy it was started with
\* (domain_quarantine.go:15-18).
PolicyReachesEngine ==
  \A e \in BOOLEAN : <>[](running /\ useExpiry = e) => <>[](expiryOn = e)

\* Once engine and settings agree that quarantines expire, each one will:
\* "covers an update that failed earlier or an engine started before the
\* change" (domain_quarantine.go:17-18).
AgreedPolicyApplies ==
  running /\ useExpiry /\ expiryOn =>
    \A a \in Adapters, d \in Domains :
      InForce(dom[a][d]) => dom[a][d].left <= QuarantineTTL
=============================================================================
