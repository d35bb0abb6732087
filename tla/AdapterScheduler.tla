-------------------------- MODULE AdapterScheduler --------------------------
(***************************************************************************)
(* engine/internal/proxy/scheduler.go: which link of the pool a new flow   *)
(* gets. Every operation is one critical section of s.mu.                  *)
(*                                                                         *)
(* The link list of a flow is the pool after the health, family and retry  *)
(* filters, so it may differ from one selection to the next; this module   *)
(* takes any nonempty part of the pool. What the latency and performance   *)
(* tables prefer is a free choice: they keep none of the state below.      *)
(***************************************************************************)
EXTENDS AdapterNames, Integers, Functions

CONSTANT
  Weights     \* the weights a user may set (100 is the code's maximum)

ASSUME WeightAssumption == Weights \subseteq Nat \ {0}

VARIABLES
  pool,      \* s.adapters: names in the order of the configuration
  weight,    \* the weight of each adapter
  strategy,  \* s.strategy; s.weighted is strategy = "weighted"
  next,      \* s.next
  credit     \* s.currentWeight (no entry: 0)

schedulerVars == <<pool, weight, strategy, next, credit>>

Strategies == {"round-robin", "weighted", "adaptive-throughput", "latency-first"}

Pools == {p \in UNION {[1..n -> Adapters] : n \in 1 .. Cardinality(Adapters)} : IsInjective(p)}

SchedulerTypeOK ==
  /\ pool \in Pools
  /\ weight \in [Adapters -> Weights]
  /\ strategy \in Strategies
  /\ next \in 0 .. Cardinality(Adapters) - 1
  /\ credit \in [Adapters -> Int]

SchedulerInit ==
  /\ pool \in Pools
  /\ weight \in [Adapters -> Weights]
  /\ strategy \in Strategies
  /\ next = 0
  /\ credit = [a \in Adapters |-> 0]

\* The candidates in the order of the pool.
Listed(S) == SelectSeq(pool, LAMBDA a : a \in S)

-----------------------------------------------------------------------------
(* The weighted strategy.                                                  *)

Raised(S) == [a \in Adapters |-> credit[a] + (IF a \in S THEN weight[a] ELSE 0)]

\* Where the candidates are in the pool.
Places(S) == {i \in DOMAIN pool : pool[i] \in S}

\* Defect: the first candidate that has the credit of a turn is served.
RichestFirst(S) ==
  LET list == Listed(S)
  IN IF Raised(S)[list[1]] > 0 THEN list[1] ELSE list[Len(list)]

\* The first candidate, in the order of the pool, with the greatest credit.
Richest(S) ==
  pool[CHOOSE i \in Places(S) : \A j \in Places(S) :
         \/ Raised(S)[pool[i]] > Raised(S)[pool[j]]
         \/ Raised(S)[pool[i]] = Raised(S)[pool[j]] /\ i <= j]

\* The selected link pays what all candidates received.
Paid(S, a) == [Raised(S) EXCEPT ![a] = @ - SumFunctionOnSet(weight, S)]

SelectWeighted(S, chosen) ==
  /\ chosen = Richest(S)
  /\ credit' = Paid(S, chosen)
  /\ next' = next

-----------------------------------------------------------------------------
(* Rotation, and the strategies that fall back to it.                      *)

\* The index is reduced by the length of this list: a later list of another
\* length continues from an index that means something else.
Rotated(S) == Listed(S)[(next % Cardinality(S)) + 1]

SelectRotation(S) ==
  /\ next' = (next + 1) % Cardinality(S)
  /\ credit' = credit

\* acquireTCP and acquireUDP: a list of one link leaves everything alone;
\* latency-first picks by its own table; the adaptive strategy learns and
\* chooses only for the whole pool, after the rotation has moved.
Select(S, chosen) ==
  /\ chosen \in S
  /\ UNCHANGED <<pool, weight, strategy>>
  /\ \/ /\ Cardinality(S) = 1 \/ strategy = "latency-first"
        /\ UNCHANGED <<next, credit>>
     \/ /\ Cardinality(S) > 1
        /\ strategy = "weighted"
        /\ SelectWeighted(S, chosen)
     \/ /\ Cardinality(S) > 1
        /\ strategy \in {"round-robin", "adaptive-throughput"}
        /\ chosen = Rotated(S) \/ (strategy = "adaptive-throughput" /\ S = Range(pool))
        /\ SelectRotation(S)

\* scheduler.update: rotation and credit start again.
Update(p, w, s) ==
  /\ pool' = p
  /\ weight' = [a \in Adapters |-> IF a \in Range(p) THEN w[a] ELSE weight[a]]
  /\ strategy' = s
  /\ next' = 0
  /\ credit' = [a \in Adapters |-> 0]
=============================================================================
