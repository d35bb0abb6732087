------------------------------- MODULE SteamCdn -------------------------------
(***************************************************************************)
(* The Steam download accelerator of the proxy (engine/internal/proxy:     *)
(* steam_cdn.go, steam_observed_probe.go, steam_evaluation.go): for one    *)
(* adapter and host, the addresses that probes have validated, the sessions*)
(* that try one instead of the address they connected to, the evaluation of*)
(* what they measure, and the reset that starts all of it anew.            *)
(*                                                                         *)
(* Speeds, samples and the times of windows and cool-downs are choices: an *)
(* address earns its preference and loses it at any evaluation. MaxGen     *)
(* bounds the resets; MaxTrials and MaxGroup are 4 and 2 in the code.      *)
(***************************************************************************)
EXTENDS Naturals, FiniteSets

CONSTANTS Sessions, IPs, MaxGen, MaxTrials, MaxGroup, MaxProbes, Jobs, None

VARIABLES
  server,      \* on, its context cancelled, its sessions closed
  cdn,         \* enabled and generation
  entry,       \* what is known of each address
  traffic,     \* the trials and the transfers of each
  paused,      \* too many failures in the route: no trial for a while
  probing,     \* the counter of probe jobs
  probe,       \* the jobs: the generation of each, and the address it is at
  session

vars == <<server, cdn, entry, traffic, paused, probing, probe, session>>

NoEntry   == [known |-> FALSE, validated |-> FALSE, preferred |-> FALSE, cooling |-> FALSE]
NoTraffic == [trials |-> 0, active |-> 0]
NoSession == [at |-> "none", ip |-> None, gen |-> 0, trial |-> FALSE,
              original |-> FALSE, replacement |-> FALSE]
NoJob == [gen |-> 0, on |-> FALSE]

TypeOK ==
  /\ server \in {"on", "cancelled", "closed"}
  /\ cdn \in [enabled : BOOLEAN, gen : 0..MaxGen]
  /\ entry \in [IPs -> [known : BOOLEAN, validated : BOOLEAN, preferred : BOOLEAN, cooling : BOOLEAN]]
  /\ traffic \in [IPs -> [trials : 0..Cardinality(Sessions), active : 0..Cardinality(Sessions)]]
  /\ paused \in BOOLEAN /\ probing \in 0..MaxProbes
  /\ probe \in [Jobs -> [gen : 0..MaxGen, on : BOOLEAN]]
  /\ session \in [Sessions ->
       [at : {"none", "connected", "reserved", "dialed", "ready", "relay", "moved", "ending", "over"},
        ip : IPs \cup {None}, gen : 0..MaxGen, trial : BOOLEAN,
        original : BOOLEAN, replacement : BOOLEAN]]

At(s, step) == session[s].at = step
Current(s) == cdn.enabled /\ session[s].gen = cdn.gen
Learning == <<entry, paused, probing, probe>>

-----------------------------------------------------------------------------
(* configure, prune and the probes.                                        *)

\* Everything learned goes; what runs for an earlier generation runs on.
Configure(enabled) ==
  /\ cdn.gen < MaxGen
  /\ cdn' = [enabled |-> enabled, gen |-> cdn.gen + 1]
  /\ entry' = [i \in IPs |-> NoEntry] /\ traffic' = [i \in IPs |-> NoTraffic]
  /\ paused' = FALSE /\ probing' = 0
  /\ UNCHANGED <<server, probe, session>>

Used(i) == traffic[i].trials > 0 \/ traffic[i].active > 0

\* An entry has expired: it is only marked while something still uses it.
Prune(i) ==
  /\ entry[i].known
  /\ entry' = [entry EXCEPT ![i] = IF Used(i) THEN [@ EXCEPT !.validated = FALSE, !.preferred = FALSE]
                                   ELSE NoEntry]
  /\ UNCHANGED <<server, cdn, traffic, paused, probing, probe, session>>

\* A chunk request was seen, or a connection made: a job looks for addresses.
Discover(j) ==
  /\ cdn.enabled /\ server = "on" /\ probing < MaxProbes /\ ~probe[j].on
  /\ probing' = probing + 1
  /\ probe' = [probe EXCEPT ![j] = [gen |-> cdn.gen, on |-> TRUE]]
  /\ UNCHANGED <<server, cdn, entry, traffic, paused, session>>

Fresh(j) == cdn.enabled /\ probe[j].gen = cdn.gen

\* An address the job has asked for the same bytes, or for its certificate, is
\* admitted if it gave them, or barred if it gave others.
Answered(j, i, same) ==
  /\ probe[j].on /\ Fresh(j)
  /\ entry' = IF same THEN [entry EXCEPT ![i].known = TRUE, ![i].validated = TRUE]
              ELSE [entry EXCEPT ![i].validated = FALSE, ![i].preferred = FALSE]
  /\ UNCHANGED <<server, cdn, traffic, paused, probing, probe, session>>

JobEnds(j) ==
  /\ probe[j].on
  /\ probing' = probing - (IF probe[j].gen = cdn.gen THEN 1 ELSE 0)
  /\ probe' = [probe EXCEPT ![j] = NoJob]
  /\ UNCHANGED <<server, cdn, entry, traffic, paused, session>>

\* The evaluation of an address, each window and before each choice.
Evaluate(i, preferred, cooling) ==
  /\ cdn.enabled /\ entry[i].validated
  /\ ~(preferred /\ (cooling \/ paused))
  /\ entry' = [entry EXCEPT ![i].preferred = preferred, ![i].cooling = cooling]
  /\ UNCHANGED <<server, cdn, traffic, paused, probing, probe, session>>

PauseEnds ==
  /\ paused /\ paused' = FALSE
  /\ UNCHANGED <<server, cdn, entry, traffic, probing, probe, session>>

-----------------------------------------------------------------------------
(* A session.                                                              *)

\* The connection a dial has made and attached.
Connect(s) ==
  /\ At(s, "none") /\ server = "on"
  /\ session' = [session EXCEPT ![s].at = "connected", ![s].original = TRUE]
  /\ UNCHANGED <<server, cdn, traffic, Learning>>

GroupTrials ==
  LET trials(i) == IF entry[i].preferred THEN 0 ELSE traffic[i].trials
      Sum[S \in SUBSET IPs] == IF S = {} THEN 0
                               ELSE LET i == CHOOSE i \in S : TRUE IN trials(i) + Sum[S \ {i}] IN
  Sum[IPs]

\* useTrial: who may be tried; the trial is reserved before it is dialled.
Admissible(i) ==
  /\ entry[i].validated /\ ~entry[i].cooling /\ ~paused
  /\ IF entry[i].preferred THEN traffic[i].trials < MaxTrials
     ELSE traffic[i].trials = 0 /\ GroupTrials < MaxGroup

UseTrial(s, i) ==
  /\ At(s, "connected") /\ cdn.enabled /\ Admissible(i)
  /\ traffic' = [traffic EXCEPT ![i].trials = @ + 1]
  /\ session' = [session EXCEPT ![s].at = "reserved", ![s].ip = i, ![s].gen = cdn.gen]
  /\ UNCHANGED <<server, cdn, Learning>>

\* No trial: not a host of Steam, the control stream, or nothing admissible.
KeepOriginal(s) ==
  /\ At(s, "connected")
  /\ session' = [session EXCEPT ![s].at = "ready", ![s].gen = cdn.gen]
  /\ UNCHANGED <<server, cdn, traffic, Learning>>

Dialed(s) ==
  /\ At(s, "reserved") /\ server = "on"
  /\ session' = [session EXCEPT ![s].at = "dialed", ![s].replacement = TRUE]
  /\ UNCHANGED <<server, cdn, traffic, Learning>>

\* Defect: a reset does not keep an old session from returning its trial.
ReleasedAnyway(s) ==
  IF traffic[session[s].ip].trials > 0
  THEN [traffic EXCEPT ![session[s].ip].trials = @ - 1] ELSE traffic

Released(s) ==
  IF Current(s) /\ traffic[session[s].ip].trials > 0
  THEN [traffic EXCEPT ![session[s].ip].trials = @ - 1] ELSE traffic

\* outcome(false): the address cools down; the original goes on.
DialFails(s) ==
  /\ At(s, "reserved")
  /\ entry' = IF Current(s) /\ entry[session[s].ip].known
              THEN [entry EXCEPT ![session[s].ip].cooling = TRUE, ![session[s].ip].preferred = FALSE]
              ELSE entry
  /\ traffic' = Released(s)
  /\ session' = [session EXCEPT ![s].at = "ready", ![s].ip = None]
  /\ UNCHANGED <<server, cdn, paused, probing, probe>>

Usable(s) == Current(s) /\ server = "on"

\* Under both mutexes: the replacement is the upstream, then the original is
\* closed; or the replacement is, because all this was for nothing.
Switch(s) ==
  /\ At(s, "dialed")
  /\ IF Usable(s)
     THEN /\ session' = [session EXCEPT ![s].at = "moved", ![s].trial = TRUE]
          /\ UNCHANGED traffic
     ELSE /\ session' = [session EXCEPT ![s].at = "ready", ![s].ip = None, ![s].replacement = FALSE]
          /\ traffic' = Released(s)
  /\ UNCHANGED <<server, cdn, Learning>>

CloseOriginal(s) ==
  /\ At(s, "moved")
  /\ session' = [session EXCEPT ![s].at = "ready", ![s].original = FALSE]
  /\ UNCHANGED <<server, cdn, traffic, Learning>>

Counted(s, change) ==
  IF session[s].ip # None /\ Current(s)
  THEN [traffic EXCEPT ![session[s].ip].active = change] ELSE traffic

\* relayTransfers: trafficChange as it starts and as it ends.
Relay(s) ==
  /\ At(s, "ready")
  /\ traffic' = Counted(s, IF session[s].ip = None THEN 0 ELSE traffic[session[s].ip].active + 1)
  /\ session' = [session EXCEPT ![s].at = "relay"]
  /\ UNCHANGED <<server, cdn, Learning>>

\* finishTransfer, accountTransfer: a failure of the upstream cools it down,
\* and several pause the route.
Transferred(s, failed, pause) ==
  LET i == session[s].ip
      blamed == failed /\ session[s].trial /\ Current(s) IN
  /\ At(s, "relay") /\ (pause => blamed)
  /\ entry' = IF blamed /\ entry[i].known
              THEN [entry EXCEPT ![i].cooling = TRUE, ![i].preferred = FALSE] ELSE entry
  /\ paused' = (paused \/ pause)
  /\ traffic' = Counted(s, IF i = None \/ traffic[i].active = 0 THEN 0 ELSE traffic[i].active - 1)
  /\ session' = [session EXCEPT ![s].at = "ending", ![s].original = FALSE, ![s].replacement = FALSE]
  /\ UNCHANGED <<server, cdn, probing, probe>>

\* handleClient's deferred calls: the trial is returned last.
Ends(s) ==
  /\ At(s, "ending")
  /\ traffic' = IF session[s].trial THEN Released(s) ELSE traffic
  /\ session' = [session EXCEPT ![s] = [NoSession EXCEPT !.at = "over"]]
  /\ UNCHANGED <<server, cdn, Learning>>

\* Server.Stop cancels, then closes the upstream each session has by then.
Cancel == server = "on" /\ server' = "cancelled"
          /\ UNCHANGED <<cdn, entry, traffic, paused, probing, probe, session>>

CloseAll ==
  /\ server = "cancelled" /\ server' = "closed"
  /\ session' = [s \in Sessions |->
       IF session[s].trial THEN [session[s] EXCEPT !.replacement = FALSE]
       ELSE [session[s] EXCEPT !.original = FALSE]]
  /\ UNCHANGED <<cdn, traffic, Learning>>

-----------------------------------------------------------------------------
Init ==
  /\ server = "on" /\ cdn = [enabled |-> TRUE, gen |-> 0]
  /\ entry = [i \in IPs |-> NoEntry] /\ traffic = [i \in IPs |-> NoTraffic]
  /\ paused = FALSE /\ probing = 0
  /\ probe = [j \in Jobs |-> NoJob]
  /\ session = [s \in Sessions |-> NoSession]

Next ==
  \/ \E enabled \in BOOLEAN : Configure(enabled)
  \/ \E i \in IPs : Prune(i) \/ \E p, c \in BOOLEAN : Evaluate(i, p, c)
  \/ \E j \in Jobs : \/ Discover(j) \/ JobEnds(j)
                     \/ \E i \in IPs, same \in BOOLEAN : Answered(j, i, same)
  \/ \E s \in Sessions : \/ Connect(s) \/ (\E i \in IPs : UseTrial(s, i)) \/ KeepOriginal(s)
                         \/ Dialed(s) \/ DialFails(s) \/ Switch(s) \/ CloseOriginal(s) \/ Relay(s)
                         \/ (\E failed, pause \in BOOLEAN : Transferred(s, failed, pause))
                         \/ Ends(s)
  \/ PauseEnds \/ Cancel \/ CloseAll

Spec == Init /\ [][Next]_vars

-----------------------------------------------------------------------------
\* The counters that admit trials and probes are those of the sessions and the
\* jobs of this generation, through every reset, expiry and failure, so that an
\* address is never tried by more sessions than it may be, and none is barred
\* for sessions that have ended (steam_observed_probe.go:212-295).
CountersFollowSessions ==
  LET holders(i) == {s \in Sessions : session[s].ip = i /\ session[s].gen = cdn.gen} IN
  cdn.enabled =>
    /\ \A i \in IPs : /\ traffic[i].trials = Cardinality(holders(i))
                      /\ traffic[i].active = Cardinality({s \in holders(i) : At(s, "relay")})
                      /\ traffic[i].trials <= MaxTrials
    /\ probing = Cardinality({j \in Jobs : probe[j].on /\ probe[j].gen = cdn.gen})

\* "prepareSteamCDN retains the working original connection until a verified
\* candidate connects" (steam_cdn.go:710-711): a session that relays owns one
\* upstream, and none once Stop has closed the sessions, whenever that was.
OneUpstream ==
  \A s \in Sessions : session[s].at \in {"ready", "relay"} =>
    /\ ~(session[s].original /\ session[s].replacement)
    /\ server # "closed" => session[s].original \/ session[s].replacement
    /\ server = "closed" => ~session[s].original /\ ~session[s].replacement

\* What a transfer may rely on: admission by true counts, and one upstream.
TransfersAreSound == CountersFollowSessions /\ OneUpstream
=============================================================================
