----------------------------- MODULE MCScheduler -----------------------------
(***************************************************************************)
(* The scheduler on its own, under every sequence of candidate lists, with *)
(* counters that record how long a link has been passed over.              *)
(***************************************************************************)
EXTENDS AdapterScheduler

CONSTANTS MaxWait  \* where the counters stop

VARIABLE waited  \* per adapter: weighted selections it was a candidate of, since it was chosen

vars == <<schedulerVars, waited>>

\* The counters after chosen was taken from S.
Counted(counter, S, chosen) ==
  [a \in Adapters |->
     IF a = chosen THEN 0
     ELSE IF a \in S /\ counter[a] < MaxWait THEN counter[a] + 1
     ELSE counter[a]]

Init ==
  /\ SchedulerInit
  /\ waited = [a \in Adapters |-> 0]

SelectFor(S, chosen) ==
  /\ Select(S, chosen)
  /\ waited' = IF strategy = "weighted" /\ Cardinality(S) > 1
                 THEN Counted(waited, S, chosen) ELSE waited

Updating(p, w, s) ==
  /\ Update(p, w, s)
  /\ waited' = [a \in Adapters |-> 0]

\* An update changes one part of the configuration at a time; the initial
\* states are all configurations, so this leaves none out.
Next ==
  \/ \E S \in SUBSET Range(pool) : S # {} /\ \E chosen \in S : SelectFor(S, chosen)
  \/ \E p \in Pools : Updating(p, weight, strategy)
  \/ \E a \in Range(pool), n \in Weights : Updating(pool, [weight EXCEPT ![a] = n], strategy)
  \/ \E s \in Strategies : Updating(pool, weight, s)

Spec == Init /\ [][Next]_vars

TypeOK ==
  /\ SchedulerTypeOK
  /\ waited \in [Adapters -> 0 .. MaxWait]

-----------------------------------------------------------------------------
Total == SumFunctionOnSet(weight, Range(pool))

\* Health, family and retry filters shorten the candidate list of one flow at
\* a time, in any order; even so no link of a pool of up to three runs up a claim,
\* or a debt, of a full round of the pool: nobody gets a burst when a filter is
\* lifted. Of four, with weights as far apart as 1 and 10, one may.
CreditBounded == \A a \in Adapters : -Total < credit[a] /\ credit[a] < Total

\* With it, a link that keeps being a candidate is chosen within two rounds of
\* the pool, however the lists around it change.
WeightedNeverStarves == \A a \in Adapters : waited[a] * weight[a] < 2 * Total

\* Every link gets its share, no more and not much later.
SharesAreFair == CreditBounded /\ WeightedNeverStarves
=============================================================================
