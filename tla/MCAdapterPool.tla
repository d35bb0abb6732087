---------------------------- MODULE MCAdapterPool ----------------------------
(***************************************************************************)
(* Two interchangeable links, and a domain or a literal address.           *)
(***************************************************************************)
EXTENDS AdapterPool, TLC

CONSTANTS nic1, nic2, site, flow1, flow2

OneBackoff == <<1>>

SingleStack == [x \in {nic1, nic2} |-> {"ipv4"}]

Symmetry == Permutations({nic1, nic2}) \cup Permutations({flow1, flow2})

\* latency-first leaves the choice among the candidates open, and so covers
\* what every other strategy may choose.
AnyChoice == strategy = "latency-first"

\* A pool that isolates domains meets a domain. What a dial does to the families
\* matters to nobody then, so it may as well leave no trace, and timeouts are the
\* other pool's. One that does not isolate them meets a literal address, one flow
\* after the other.
DomainsOnly ==
  /\ famCooling = {}
  /\ \A x \in Flows : flow[x].pc # "idle" => flow[x].dest \in Domains
  /\ \A x \in Flows : flow[x].pc \in {"select", "dial", "blame"} => flow[x].late = {}
LiteralsOnly ==
  /\ \E x \in Flows : flow[x].pc = "idle"
  /\ \A x \in Flows : flow[x].pc # "idle" => flow[x].dest \in Literals
  /\ ~expiryOn /\ \A a \in Adapters, d \in Domains : ~InForce(dom[a][d])
OneKind == AnyChoice /\ IF isolation THEN DomainsOnly ELSE LiteralsOnly
=============================================================================
