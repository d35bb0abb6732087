----------------------------- MODULE DnsResolver -----------------------------
(***************************************************************************)
(* The DNS resolver of the Core for one adapter (engine/internal/dns:      *)
(* resolver.go): callers that share one lookup of a name, its cache, the   *)
(* order of the transports each policy allows, and the count of failures   *)
(* that asks the desktop for a restart with traditional DNS.               *)
(*                                                                         *)
(* A transport answers, fails or is silent until the deadline: the races of*)
(* the endpoints in it are left out. A key is one name looked up in one    *)
(* way; a lookup nobody sees any more is used again. MaxFailures bounds    *)
(* the counts.                                                             *)
(***************************************************************************)
EXTENDS Naturals, FiniteSets

CONSTANTS Callers, Keys, Lookups, Policies, Threshold, Batches, MaxCache,
          MaxFailures, None

VARIABLES
  config,     \* the policy, and whether the link is IPv6 only with its own DNS
  root,       \* the context of the server
  cache,
  lookup, inflight,
  caller,
  failures,   \* strictFailures and fallbackEmitted of the adapter
  plain       \* history: a provider policy asked traditional DNS

vars == <<config, root, cache, lookup, inflight, caller, failures, plain>>

Providers == {"alidns", "dnspod", "google"}
NoLookup == [at |-> "none", key |-> None, ctx |-> "live", out |-> "none",
             ttl |-> FALSE, batches |-> Batches]
NoCaller == [key |-> None, call |-> None]

TypeOK ==
  /\ config \in [policy : Policies, ownDNS : BOOLEAN]
  /\ root \in BOOLEAN /\ plain \in BOOLEAN
  /\ cache \in [Keys -> {"no", "fresh", "stale"}]
  /\ lookup \in [Lookups -> [at : {"none", "network", "doh", "legacy", "dot", "publish", "done"},
                             key : Keys \cup {None}, ctx : {"live", "deadline", "cancelled"},
                             out : {"none", "answer", "failed", "deadline", "cancelled"},
                             ttl : BOOLEAN, batches : 1..Batches]]
  /\ inflight \in [Keys -> Lookups \cup {None}]
  /\ caller \in [Callers -> [key : Keys \cup {None}, call : Lookups \cup {None}]]
  /\ failures \in [count : 0..MaxFailures, emitted : BOOLEAN]

Waiters(l) == {c \in Callers : caller[c].call = l}
At(l, stage) == lookup[l].at = stage
Running == {l \in Lookups : lookup[l].at \notin {"none", "done"}}

-----------------------------------------------------------------------------
(* The transports of a lookup.                                             *)

Encrypts == config.policy \notin {"off", "system"}

FirstStage(k) ==
  CASE k = "legacy"  -> "legacy"
    [] k = "network" -> "network"
    [] config.policy = "dot" -> "dot"
    [] config.policy = "auto" /\ config.ownDNS -> "network"
    [] Encrypts -> "doh"
    [] OTHER -> "legacy"

Ends(l, out, ttl) ==
  lookup' = [lookup EXCEPT ![l].at = "publish", ![l].out = out, ![l].ttl = ttl]
Moves(l, stage) == lookup' = [lookup EXCEPT ![l].at = stage]
Shared == <<config, root, cache, inflight, caller>>
More(n) == IF config.policy \in Providers /\ n < MaxFailures THEN n + 1 ELSE n

\* An answer may still be taken as the context ends: the code selects.
DoHAnswers(l, ttl) ==
  /\ At(l, "doh")
  /\ Ends(l, "answer", ttl)
  /\ failures' = [count |-> 0, emitted |-> FALSE]
  /\ UNCHANGED <<Shared, plain>>

\* The network's own servers, or those of the settings, by UDP or by TCP.
LegacyAnswers(l, ttl) ==
  /\ lookup[l].at \in {"network", "legacy"}
  /\ Ends(l, "answer", ttl)
  /\ plain' = (plain \/ (lookup[l].key = "ordinary"
                         /\ config.policy \notin {"auto", "off", "system"}))
  /\ UNCHANGED <<Shared, failures>>

DoTAnswers(l, ttl) ==
  /\ At(l, "dot")
  /\ Ends(l, "answer", ttl)
  /\ UNCHANGED <<Shared, failures, plain>>

\* The endpoints race two by two; the silence of a batch that is not the last
\* leaves the next its part of the time.
BatchFails(l) ==
  /\ At(l, "doh") /\ lookup[l].ctx = "live" /\ lookup[l].batches > 1
  /\ lookup' = [lookup EXCEPT ![l].batches = @ - 1]
  /\ UNCHANGED <<Shared, failures, plain>>

FallsBack == config.policy = "auto"

\* recordStrictFailure: custom servers never ask for the restart.
CountFailure ==
  LET n == More(failures.count) IN
  failures' = [count |-> n, emitted |-> failures.emitted \/ n >= Threshold]

\* The last batch has failed and there is time left: so it is in auto, that
\* keeps half of it for the fallback, even if the endpoints were silent.
DoHFails(l) ==
  /\ At(l, "doh") /\ lookup[l].ctx = "live" /\ lookup[l].batches = 1
  /\ IF FallsBack THEN Moves(l, "legacy") /\ UNCHANGED <<failures>>
     ELSE Ends(l, "failed", FALSE) /\ CountFailure
  /\ UNCHANGED <<Shared, plain>>

NetworkFails(l) ==
  /\ At(l, "network") /\ lookup[l].ctx = "live"
  /\ IF lookup[l].key = "ordinary" THEN Moves(l, "doh") ELSE Ends(l, "failed", FALSE)
  /\ UNCHANGED <<Shared, failures, plain>>

LegacyFails(l) ==
  /\ At(l, "legacy") /\ lookup[l].ctx = "live"
  /\ Ends(l, "failed", FALSE)
  /\ UNCHANGED <<Shared, failures, plain>>

DoTFails(l) ==
  /\ At(l, "dot") /\ lookup[l].ctx = "live"
  /\ Ends(l, "failed", FALSE)
  /\ UNCHANGED <<Shared, failures, plain>>

\* The context has ended: whatever the stage was, that is the error.
Cut(l) ==
  /\ lookup[l].at \in {"network", "doh", "legacy", "dot"} /\ lookup[l].ctx # "live"
  /\ Ends(l, lookup[l].ctx, FALSE)
  /\ UNCHANGED <<Shared, failures, plain>>

Deadline(l) ==
  /\ l \in Running /\ ~At(l, "publish") /\ lookup[l].ctx = "live"
  /\ lookup' = [lookup EXCEPT ![l].ctx = "deadline"]
  /\ UNCHANGED <<Shared, failures, plain>>

OwnEntry(k, l) == inflight[k] = l

\* makeCacheRoomLocked: what has expired goes first, then what expires first.
Rooms(k) ==
  LET kept == {j \in Keys : cache[j] = "fresh"} IN
  IF Cardinality(kept) < MaxCache THEN {kept} ELSE {kept \ {j} : j \in kept}

\* The end of runLookup: cached, taken out of inflight and published at once.
Publish(l) ==
  /\ At(l, "publish")
  /\ LET k == lookup[l].key IN
     /\ IF lookup[l].out = "answer" /\ lookup[l].ttl
        THEN \E kept \in Rooms(k) :
               cache' = [j \in Keys |-> IF j \in kept \cup {k} THEN "fresh" ELSE "no"]
        ELSE UNCHANGED cache
     /\ inflight' = IF OwnEntry(k, l) THEN [inflight EXCEPT ![k] = None] ELSE inflight
     /\ lookup' = IF Waiters(l) = {} THEN [lookup EXCEPT ![l] = NoLookup]
                  ELSE [lookup EXCEPT ![l].at = "done"]
  /\ UNCHANGED <<config, root, caller, failures, plain>>

-----------------------------------------------------------------------------
(* The callers.                                                            *)

Idle(c) == caller[c].call = None

\* A hit changes nothing; a miss joins the lookup there is, or starts one.
Ask(c, k, l) ==
  /\ Idle(c) /\ cache[k] # "fresh"
  /\ IF inflight[k] # None THEN l = inflight[k] /\ UNCHANGED <<inflight, lookup>>
     ELSE /\ At(l, "none")
          /\ inflight' = [inflight EXCEPT ![k] = l]
          /\ lookup' = [lookup EXCEPT ![l] = [NoLookup EXCEPT !.at = FirstStage(k), !.key = k,
                          !.ctx = IF root THEN "live" ELSE "cancelled"]]
  /\ cache' = [cache EXCEPT ![k] = "no"]
  /\ caller' = [caller EXCEPT ![c] = [key |-> k, call |-> l]]
  /\ UNCHANGED <<config, root, failures, plain>>

\* Defect: the last to leave cancels the lookup, and it can still be joined.
StaysJoinable(k, l) == inflight
Unlisted(k, l) == IF inflight[k] = l THEN [inflight EXCEPT ![k] = None] ELSE inflight

\* The answer, the end of the caller's context, or of the server's; whoever is
\* the last cancels the lookup and takes it out of inflight.
Leave(c) ==
  /\ ~Idle(c)
  /\ LET l == caller[c].call
         last == Waiters(l) = {c} IN
     /\ caller' = [caller EXCEPT ![c] = NoCaller]
     /\ inflight' = IF last THEN Unlisted(caller[c].key, l) ELSE inflight
     /\ lookup' = IF ~last THEN lookup
                  ELSE IF At(l, "done") THEN [lookup EXCEPT ![l] = NoLookup]
                  ELSE [lookup EXCEPT ![l].ctx = IF @ = "live" THEN "cancelled" ELSE @]
  /\ UNCHANGED <<config, root, cache, failures, plain>>

Expires(k) ==
  /\ cache[k] = "fresh"
  /\ cache' = [cache EXCEPT ![k] = "stale"]
  /\ UNCHANGED <<config, root, lookup, inflight, caller, failures, plain>>

RootEnds ==
  /\ root /\ root' = FALSE
  /\ lookup' = [l \in Lookups |-> IF l \in Running /\ lookup[l].ctx = "live"
                                  THEN [lookup[l] EXCEPT !.ctx = "cancelled"] ELSE lookup[l]]
  /\ UNCHANGED <<config, cache, inflight, caller, failures, plain>>

-----------------------------------------------------------------------------
Init ==
  /\ config \in [policy : Policies, ownDNS : BOOLEAN]
  /\ root = TRUE /\ plain = FALSE
  /\ cache = [k \in Keys |-> "no"]
  /\ lookup = [l \in Lookups |-> NoLookup]
  /\ inflight = [k \in Keys |-> None]
  /\ caller = [c \in Callers |-> NoCaller]
  /\ failures = [count |-> 0, emitted |-> FALSE]

Next ==
  \/ \E l \in Lookups : \/ \E ttl \in BOOLEAN : DoHAnswers(l, ttl) \/ LegacyAnswers(l, ttl) \/ DoTAnswers(l, ttl)
                        \/ BatchFails(l) \/ DoHFails(l) \/ NetworkFails(l) \/ LegacyFails(l)
                        \/ DoTFails(l) \/ Cut(l) \/ Deadline(l) \/ Publish(l)
  \/ \E c \in Callers : \/ \E k \in Keys, l \in Lookups : Ask(c, k, l)
                        \/ Leave(c)
  \/ (\E k \in Keys : Expires(k)) \/ RootEnds

Spec == Init /\ [][Next]_vars

-----------------------------------------------------------------------------
\* One caller that gives up harms no other: while somebody waits for a lookup
\* nothing but its own deadline or the end of the server has cancelled it, and
\* a name is never looked up twice at once for callers that still wait
\* (resolver.go:202-219, 305-309).
SharedLookupIsSound ==
  \A c \in Callers : caller[c].call # None =>
    LET l == caller[c].call IN
    /\ lookup[l].key = caller[c].key
    /\ root => lookup[l].ctx # "cancelled" /\ lookup[l].out # "cancelled"
    /\ \A d \in Callers : caller[d].key = caller[c].key /\ caller[d].call \in Running /\ l \in Running
                            => caller[d].call = l

\* The name of a host a provider or a custom server was chosen for is never
\* sent in the clear, whatever fails (resolver.go:385-388: only auto falls back).
EncryptedOnly == ~plain

\* What callers get: the answer of their own lookup, by a way the settings allow.
LookupsAreSound == SharedLookupIsSound /\ EncryptedOnly
=============================================================================
