------------------------------- MODULE MCProxy -------------------------------
(***************************************************************************)
(* The parts of the proxy that serve flows, each on its own: the scheduler,*)
(* the sessions, a UDP association, name lookups and the Steam CDN         *)
(* accelerator. A behaviour is of one of them; the others stay where they  *)
(* are.                                                                    *)
(***************************************************************************)
EXTENDS UdpAssociation, TLC

CONSTANTS
  Threshold, Batches, MaxCache, MaxFailures,  \* of DnsResolver
  MaxGen, MaxTrials, MaxGroup, MaxProbes,     \* of SteamCdn
  LinkWeights, MaxWait                        \* of the scheduler

\* Pairs of interchangeable values: sessions, callers or addresses; lookups,
\* flows or addresses; probe jobs or ports.
As == Addrs
Bs == Flows
Cs == Ports
Symmetry == Permutations(As) \cup Permutations(Bs) \cup Permutations(Cs)

\* What is counted is finite, None is nothing, and an address may be tried at all.
ASSUME ProxyAssumption ==
  /\ IsFiniteSet(As) /\ IsFiniteSet(Cs) /\ IsFiniteSet(Adapters)
  /\ None \notin Bs
  /\ FlowLimit \in Nat /\ MaxTrials \in Nat \ {0} /\ Batches \in Nat \ {0}
  /\ LinkWeights \subseteq Nat \ {0} /\ MaxWait \in Nat

VARIABLES
  part,
  pool, weight, strategy, next, credit, waited,
  server, listening, serverLive, session, conn, late,
  config, root, cache, lookup, inflight, caller, failures, plain,
  accelerator, cdn, entry, traffic, paused, probing, probe, transfer

poolVars  == <<pool, weight, strategy, next, credit, waited>>
tcpVars   == <<server, listening, serverLive, session, conn, late>>
dnsVars   == <<config, root, cache, lookup, inflight, caller, failures, plain>>
steamVars == <<accelerator, cdn, entry, traffic, paused, probing, probe, transfer>>
allVars   == <<part, vars, poolVars, tcpVars, dnsVars, steamVars>>

\* Three links, every part of the pool as a candidate list.
Sched == INSTANCE MCScheduler WITH
  Adapters <- {"a", "b", "c"}, Weights <- LinkWeights

Tcp == INSTANCE ProxySessions WITH Sessions <- As, ctxLive <- serverLive

Dns == INSTANCE DnsResolver WITH
  Callers <- As, Lookups <- Bs, Keys <- {"ordinary", "legacy"},
  Policies <- {"auto", "off", "alidns", "custom", "dot"}

Steam == INSTANCE SteamCdn WITH
  Sessions <- As, IPs <- Bs, Jobs <- Cs, server <- accelerator, session <- transfer

-----------------------------------------------------------------------------
ProxyInit ==
  /\ part \in {"scheduler", "tcp", "udp", "dns", "steam"}
  /\ IF part = "scheduler" THEN Sched!Init
     ELSE /\ pool = <<>> /\ weight = <<>> /\ strategy = "weighted" /\ next = 0
          /\ credit = <<>> /\ waited = <<>>
  /\ Tcp!Init /\ Init /\ Dns!Init /\ Steam!Init
  /\ part # "dns" => config.policy = "off" /\ ~config.ownDNS

Schedules == part = "scheduler" /\ Sched!Next /\ UNCHANGED <<part, tcpVars, vars, dnsVars, steamVars>>
Relays    == part = "tcp"   /\ Tcp!Next   /\ UNCHANGED <<part, poolVars, vars, dnsVars, steamVars>>
Forwards  == part = "udp"   /\ Next       /\ UNCHANGED <<part, poolVars, tcpVars, dnsVars, steamVars>>
Resolves  == part = "dns"   /\ Dns!Next   /\ UNCHANGED <<part, poolVars, tcpVars, vars, steamVars>>
Transfers == part = "steam" /\ Steam!Next /\ UNCHANGED <<part, poolVars, tcpVars, vars, dnsVars>>

ProxyNext == Schedules \/ Relays \/ Forwards \/ Resolves \/ Transfers

ProxySpec == ProxyInit /\ [][ProxyNext]_allVars

-----------------------------------------------------------------------------
\* MCScheduler: no link runs up a claim or a debt of a whole round, and none
\* that stays a candidate waits for more than two.
FairShares == part = "scheduler" => Sched!SharesAreFair

\* ProxySessions: once Stop has closed what the registry knows, only sessions
\* that dialled without having attached keep an upstream.
StopReachesSessions == Tcp!StopReachesSessions

\* DnsResolver: whoever waits for a lookup is answered by a live lookup of the
\* name that was asked, in the clear only where the policy falls back to that.
LookupsAreSound == Dns!LookupsAreSound

\* SteamCdn: trials and probes are counted, and a transfer has one upstream.
TransfersAreSound == Steam!TransfersAreSound
=============================================================================
