# A TLA+ model of HypoMux

HypoMux splits the traffic of one Windows machine over several network links. A Go process, the
*Core* (`src/engine`), runs local proxy channels, dials every flow through one of the selected links
and manages a sing-box process (the *sidecar*) that owns the default route. A desktop process
(`src/desktop`, Wails with a React front end) starts the Core, sends it requests over a pipe and
stores the user's choices.

This directory holds TLA+ modules that model the Core (its lifecycle, the choice of links, TCP and UDP
flows, DNS, the Steam accelerator), the desktop (its connection to the Core, the engine service,
settings, rules, blocked domains, system proxy, updater, assistant) and the installer, TLC
configurations that check them on small instances, and proofs, checked by TLAPS, that hold for every
value of the constants. `PROJECT.json` maps every definition to the lines it stands for, lists the
runs, the defects each property detects, the hazards, and the theorems.

- [Inventory](#inventory) · [Modules](#modules) · [Runs](#runs) · [Fairness](#fairness) ·
  [Proofs](#proofs) · [Findings](#findings) · [Not modelled](#not-modelled) · [Plan](#plan)

## Inventory

What keeps state and takes part in an interaction; `PROJECT.json` has the complete list with sources.

| Component | State | Operations | What is hard | What makes it correct |
|---|---|---|---|---|
| Engine runtime (`engine/internal/runtime`) | state, sequence number | `Transition` | its errors are mostly discarded by the callers | only legal transitions; the state tells whether the pool serves |
| TUN supervisor (`engine/internal/tun`) | status, current run, generations; per run a process and a waiter goroutine | `Activate`, `Stop`, `waitProcess` | a process may die at any point; its waiter cleans up on its own while callers time out | one sidecar; a live one is watched; an old run's end never overwrites a newer run |
| Engine server (`engine/internal/server`) | proxy pool, mode, active generation, WFP exemption | `engine.start/stop`, `tun.activate/deactivate`, `host.shutdown`, the exit handler | a callback from the waiter takes the mutex the requests hold; retries; partial failures | a route never leads to a closed pool; requests return |
| Adapter health (`proxy/health.go`, `family_health.go`, `expiry`) | cooldown per link, evidence and quarantines per link and domain, cooldown per family | outcomes, comparisons, policy changes, removals, candidate selection | every flow writes, the desktop changes policy live, time passes | isolation is never an outage; quarantines follow the policy |
| Scheduler (`proxy/scheduler.go`, `scheduling.go`) | pool, strategy, rotation index, weighted credit | `Select`, `acquireTCP`, `acquireUDP`, `update` | candidate lists differ from flow to flow | fair shares, nobody starves |
| Flows (`proxy/dial.go`, `dual_stack.go`) | local variables of `dialUpstream` | failover over two links, recording outcomes | snapshots that are stale when used | only comparisons count against a link |
| Proxy server, registry (`proxy/server.go`, `registry.go`, `http.go`, `socks.go`) | listeners, sessions with two relaying goroutines, tracked connections | accept, request, attach, relay, half-close, `CloseAll`, `Stop` | a connection accepted or attached after everything was closed | `Stop` ends every session it can know of |
| UDP relay (`proxy/udp.go`) | flow table with a limit and idle deadlines, per flow a receiver | first datagram, send, answer, expire, sweep | three goroutines close the same flow | bounded flows, no orphan sockets |
| DNS resolver (`engine/internal/dns`) | cache, lookups in flight, failure counts | ask, join, leave, transports in order, publish | callers share a lookup and its context; deadlines | a caller gets its own answer, never in the clear against the policy |
| Steam CDN (`proxy/steam_*.go`) | validated addresses, trials, transfers, probes, generation | discover, try, switch, evaluate, reset | generation checks against late results | admission by true counts; one upstream per transfer |
| Engine host (`cmd/hypomux-engine`), launcher (`engineclient/launcher.go`, `*_windows.go`) | service state, one pipe instance, an elevated Core | serve, refuse, fall back to elevation, give up | the desktop cannot end an elevated process | a refusal stands; no elevated Core stays behind |
| Engine client (`desktop/internal/engineclient`) | current session, hello, pending requests, two gates | `Ensure`, `EnsureElevated`, `Request`, `Kill`, `Close`, the reader and the watcher of each Core | starts, kills and failures overtake each other; writes that block; reply channels of size one | one answer for each request; no Core that nobody will end; a gate is always given back |
| Engine service (`services/engine.go`, `runtime_bindings.go`, `hotspot.go`) | lifecycle gate, mode, binding recovery, compatibility flags, hotspot worker | `Start`, `Stop`, `Shutdown`, `SaveScheduling`, hotspot, compatibility restarts, refresh of stale bindings | automatic restarts race with the user's calls | what the user asked for last is what is |
| Blocked domains (`services/blocked_domains.go`) | stored records, removal counter | telemetry sample, remove, clear, expire | a stale sample after a removal; a failed save | a removed record stays removed |
| System proxy (`services/system_proxy_*.go`) | three registry values, a marker file | take over, restore, recover | a crash between two writes, edits of the user | what the user had comes back, what he set since stays |
| Rules and lists (`services/routing.go`, `rule_sets*.go`, `singbox_rules.go`, `tun_config.go`) | settings, downloaded lists, compiled files, the running configuration | save, update, start | files are replaced under a running sing-box; downloads and starts work on old settings | flows leave as the saved rules say |
| Settings (`services/settings.go`) | file, memory, copy of a migration, autostart entry | update, migrate, roll back, repair | writes that fail between two steps, an unreadable file | memory and file agree; nothing is overwritten unread |
| Updater (`services/updater*.go`) | offer, download, helper process | check, download, install | sources that contradict each other; two processes that wait for each other | what runs is what was verified, after the desktop has gone |
| Setup transaction (`desktop/internal/setup`, `project.nsi`) | journal, backups, staged files, service | prepare, apply, commit, recover | power loss anywhere | one release or the other |
| AI assistant (`services/ai_*.go`) | conversation, tool calls, lease, MCP server | ask, confirm, execute, cancel, switch off | settings change between what is shown and what is done | nothing runs that the user did not allow |

The Core serves requests one at a time, in one goroutine; every flow has goroutines of its own; each
sidecar has a waiter. They meet in four mutexes: `lifecycleMu` of the server, `mu`/`stopMu` of the
supervisor, `mu` of each scheduler and of the health table. In the desktop every change of a session
goes through `lifecycleGate`, every change of the settings through the mutex of the settings service.
One critical section is one action.

## Modules

### The lifecycle of the Core

| Module | Models | State and actions |
|---|---|---|
| `EngineRuntime` | `runtime.go` | `engine`, `seq`; `Transition(to)`: a refused transition changes nothing, an accepted one counts up |
| `TunSupervisor` | `supervisor.go`, `cleanup_windows.go` as seen from it | per run `proc`, `wpc` (where `waitProcess` is), `intentional`, `cleanErr`; the caller of `Activate`/`Stop` with its program counter `cpc`. Every critical section of `s.mu` and every blocking call is an action. The process, the device table and error texts are nondeterministic |
| `EngineServer` | `server.go` | `rpc`: where the request loop is; `proxy`, `mode`, `active`, `exemption`; a call into the supervisor is `Invoke`d and the loop waits until it `Returned`. The exit handler is `HandleTunUnexpectedExit`, its late event `EmitTunExit` |
| `EgressLifecycle` | the promise: the pool opens before the sidecar and closes after it, a generation is used once | refined by `EngineServer` (`EgressRefined`) |
| `EngineServerProof` | theorems about `EngineServer` | |

Requests that only read are left out, as are log events and `tun.state_changed`. Runs are named by
their generation.

### The choice of a link

| Module | Models | State and actions |
|---|---|---|
| `AdapterNames` | the set of adapters, shared by the next three | |
| `DomainQuarantine` | domain half of `health.go`, `expiry/index.go` | a cell per link and domain joins the map entry (`evidence`, `left`) and the heap entry (`due`), so that they can differ; `Failed`, `Succeeded`, `Relimited`, `Pruned` say what one operation does to a cell |
| `AdapterHealth` | `health.go`, `family_health.go` | `link` (failures, timeouts, their targets, cooldown), `famCooling`, `isolation`; `Candidates` is the selection of `candidates` |
| `AdapterScheduler` | `scheduler.go`, `scheduling.go` | `pool`, `weight`, `strategy`, `next`, `credit`; `Select(S, chosen)`, `Update` |
| `AdapterPool` | `dial.go`, what one dial of `dual_stack.go` reports, `domain_quarantine.go` of the server | per flow a record of the local variables of `dialUpstream`; `Start`, `ExcludeCooling`, `Acquire`, `DialSucceeds`, `DialFails`, `Blame`, and the desktop's updates, telemetry and time |
| `AdapterPoolProof` | theorems about `AdapterPool` and `DomainQuarantine` | |

Time is the number of ticks that are left until a deadline. The 100 years that stand for "never" in
the code are a deadline that does not tick. Counters stop at the threshold beyond which the code does
not tell them apart. A link's family cooldown is compared with nothing, so only whether it is over is
kept. What latency and throughput tables prefer is a free choice among the candidates. A literal
address stands for its network, as in `timeoutTargetKey`; a destination may be dead, and then nothing
connects to it.

### The desktop's connection to the Core

| Module | Models | State and actions |
|---|---|---|
| `EngineClient` | `engineclient/client.go`, the fallback of `launcher.go` | `closed`, `startGate`, `writeGate`, `session`, `hello`, `pending` are the client's fields; `reply` is each request's channel. A goroutine is in a call (`op`) at a program counter (`pc`) with the local variables of `ensureMode` (`mine`, `negotiated`) and of `Request` (`target`). `tearing` is what `killCurrent` or `failSession` still have to do after their critical section: close the transport, then fail the replies. `launched`, `open`, `running`, `asked` are the Cores |
| `EngineClientProof` | theorems about `EngineClient` and `CoreHost` | |

`Ensure` and `EnsureElevated` are `BeginEnsure` to `Publish`, `Fallback` or `GiveUp`; the request for
`engine.hello` within a start takes the same actions as any other (`SendRequest` to `TakeAnswer`) and
returns to the start. A write that expires goes through `KillCurrent` while its goroutine still holds
`writeGate`. Request ids grow and are never reused, so that a request is named by the goroutine that
waits for it. The Core is external: it receives what is written while it runs, answers late or never,
and stops at any time. `Process.Kill` is
not modelled, as an elevated Core cannot be terminated and a closed transport ends every Core. Events
pass through the client without touching its state.

### The desktop's records

| Module | Models | State and actions |
|---|---|---|
| `BlockedDomains` | `services/blocked_domains.go`, `services/domain_quarantine.go`, their callers in `services/engine.go`; extends `DomainQuarantine`, the engine's side | `entries` and `file`, `useExpiry`, `removals`; `gate` is lifecycleGate with what its holder remembers, `sample` the `Snapshot` call in flight. A removal is `EvictRuntime` (the engine) and `CommitRemoval` (the records); a start is `StartBegins` (reads the settings) and `EngineStarts` (lists the records, seeds the engine); a sample is `AskTelemetry`, `TelemetryAnswers` and `ApplySample` or `SyncPolicy`. Every write may fail, every request may be lost, desktop and engine may end at any point |
| `BlockedDomainsProof` | theorems about `BlockedDomains` | |

One poller is modelled: concurrent `Snapshot` calls only apply their samples in some order. A restart
of the desktop is one step: nothing but time could pass between its end and its start, and time may
pass before it. `gone` is a history variable: the pairs removed by a call that reported success and
not confirmed by new failures since.

### The flows

| Module | Models | State and actions |
|---|---|---|
| `ProxySessions` | `server.go`, `registry.go`, `http.go`, `socks.go` | `server` (the steps of `Stop`), per session where its goroutines are (`session`) and its two connections (`conn`); accepting, registering and attaching are separate actions, as each takes the registry's mutex by itself. `late` is a history variable: who had dialled and not attached when `CloseAll` ran |
| `UdpAssociation` | `udp.go` | the serving goroutine (`serve`), the table (`table`), per flow its receiver and the three steps of `close` (`flow`). Silence and idleness of a flow are choices |
| `DnsResolver` | `resolver.go`, the order of transports of `doh_transport.go`, `dot.go`, `custom_doh.go` | `lookup` and `inflight` (the shared calls), `caller`, `cache`, `failures` of the adapter. The context of a lookup ends with its last waiter, its deadline or the server |
| `SteamCdn` | `steam_cdn.go`, `steam_observed_probe.go`, `steam_evaluation.go` | `entry` per address, `traffic` (trials and transfers), `probe` jobs, `session`; every answer carries the generation it was asked under. What is measured is a choice |
| `ProxyPathProof` | theorems about `UdpAssociation`, `ProxySessions`, `DnsResolver` and `SteamCdn`, composed in `MCProxy` | |

### The desktop

| Module | Models | State and actions |
|---|---|---|
| `CoreHost` | `cmd/hypomux-engine` (service, policy, pipe), `launcher.go`, `privileged_windows.go`, `service_windows.go` | `scm` and `host` (the service and its loop), `client` (who is at the pipe), `desktop` (a launch), `core` (an elevated process). Other programs may occupy the pipe, the policy may change, the process may be killed |
| `DesktopEngine` | `engine.go`, `runtime_bindings.go`, `hotspot.go`, `SaveScheduling` | `gate` is lifecycleGate; `job` is what each process does: two callers, the event consumer with its compatibility restart, the refresh. A start is `Prepare`, `Connect`, `Launch`, `Egress` and `Commit`, each of which may fail into `Undo` or `PrepFails`; a stop is `AskHotspot`, `DownOk` or `DownFails` and `SettleStop`, a shutdown adds `Quit`. What happens outside the gate interleaves with each step |
| `SystemProxy` | `system_proxy_*.go` | `registry`, `marker`, `op`: one action per registry write or write of the marker; `Interrupted` ends the operation anywhere |
| `RuleSets` (scenarios in `RuleScenarios`) | `routing.go`, `rule_sets*.go`, `singbox_rules.go`, `tun_config.go` | settings (`rules`, `lists`), `source` (downloads), `published` (what the files were compiled from), `pinned` (what the main configuration declares). `RoutesTo` computes where a flow leaves from files and configuration as sing-box evaluates them, `Intended` from the settings as the page orders them: the same result is what the priorities, exceptions and carve-outs of the compiler are for |
| `Settings` | `settings.go`, `dns_settings.go` | `file`, `copy`, `memory`, `registry`; one action per commit, with its failure; `pending` is an operation between its two steps |
| `Updater` | `updater*.go` | `answers` (a check), `mirror` (a download), `app` and `helper` (an installation) |
| `SetupTransaction` | `setup/*.go`, the machine-wide part of `project.nsi` | `file`, `backup`, `staged`, `journal` (the disk), `service` and `policy`, `helper` and `installer` at their steps. A copy truncates first, so one that is cut short leaves a torn file |
| `AiAssistant` | `ai_service.go`, `ai_lifecycle.go`, `ai_mcp.go`, `ai_tools.go`, the saves of `settings.go` they race with | `calls` at their steps, `operation` (the lock), `exclusive` (who wants the lease for writing), `settings` as counts of edits: what a call has seen is compared by number |
| `DesktopServicesProof` | theorems about `DesktopEngine`, `SystemProxy` and `RuleSets` | |
| `DesktopFilesProof` | theorems about `Settings`, `Updater` and `SetupTransaction` | |
| `AiAssistantProof` | a theorem about `AiAssistant` | |

Abstractions worth knowing: `RuleSets` gives a flow one path per kind (one address, one process), has the
fake-IP policy on, ties between lists broken by their id, restoring a source file always succeeds, and
manifests of older versions do not occur. In `SetupTransaction` power loss ends every process at once
and the installer never dies alone; a user installation, which has no service, takes a subset of the
steps. `DesktopEngine` sees the Core as its client does (`EngineServer` and `EngineClient` model what is behind
it) and the system proxy as taken over or not (`SystemProxy`). In `ProxySessions` what the peers send is
their choice, and which link is dialled is `AdapterPool`'s subject.

### Composition

`EngineServer` composes the runtime, the supervisor and the server's own steps, `AdapterPool` the scheduler,
the health table and the flows, `BlockedDomains` the desktop's records with the engine's `DomainQuarantine`.
The MC modules put further modules next to each other, as a run per module would say no more: a variable
`part` says to which of them a behaviour belongs, the others rest. They share nothing, so that every behaviour
of each module is one of the composition.

## Runs

Six runs pass; six violate a statement of the repository (see [Findings](#findings)).

| Run | Question | Bounds, and why they are enough |
|---|---|---|
| `engine_safety` | Do the request loop, the supervisor, two waiters and the exit handler keep the lifecycle invariants in every order, and implement `EgressLifecycle`? | Two generations: an old run that ends late next to a new one, and a retry after a failed activation. Four requests: start, activate, stop or deactivate, and one more on what is left. The proofs cover all other values |
| `engine_link` | Client, host and server of the link between desktop and Core: has each request one answer, is there no Core nobody will end, does a refusal of the service stand; and does what has to end (gates, requests of a dead Core, closed clients, elevated Cores, requests of the server, dead sidecars) end? | Client: two goroutines that may do everything between them, as every race of `client.go` is between two goroutines, or one and a reader or watcher; two Cores, one that is replaced and one that follows. Host: two starts of the service, so that the one that refused may be another than the one that runs, and two launches. Server: one generation and three requests, as each wait is for one run and the waits do not nest |
| `adapter_pool` | Is isolation never an outage, does a quarantine follow the policy, do only comparisons count, do confirmed quarantines outlive traffic? | Two links, the least that can be compared. With isolation two flows to one domain, whose records interleave; without it literal addresses with timeouts, one flow after the other, as several only write the same table in the order successive ones do. One evidence tick and two quarantine ticks, so that deadlines of both kinds can pass each other |
| `proxy_path` | Scheduler, TCP sessions, a UDP association, name lookups, the Steam accelerator: fair shares, an end for every session, bounded sockets, the right answer, admission by true counts? | Scheduler: three links, weights 1 and 3 (`LinkWeights`), all candidate lists; the waiting counter stops at 20 (`MaxWait`), above the claimed bound of two rounds of the heaviest pool (18); the credit takes finitely many values, so the search is complete for these weights, and the proof has any other. Otherwise two of each: sessions, flows (limit one, so that closing one makes room for the next), callers that share a lookup, addresses and transfers, with one reset |
| `desktop_engine` | The engine service, the system proxy, rules and lists, the assistant: do sessions settle as the user wants, does what was taken over come back, are the saved rules in force, is a tag that of the content, do tools keep to what was allowed? | Two callers with every task, the event consumer and the refresh; three moves (calls, deaths, events): enough for a call, another that overtakes it and what the Core does meanwhile; every guard the mutants drop is missed within them. Proxy: two values a user sets. Rules: the users of `RuleScenarios`, each one interaction between priorities, kinds, lists and outbounds. Assistant: the conversation and one external client, two edits of a part of the settings |
| `desktop_files` | Blocked domains, settings, updater, installer: do failed writes, lost requests, deaths and power loss leave everything as promised? | Records: one adapter and one domain, as records of different pairs share only the writes and the removal counter, and three of their properties are proved for any number, as are all those of the other parts; two removals, one while a sample is in flight, one more of what came back. Updater: a source on each of the two channels, that may contradict each other (the proof has any number), three versions, two mirrors. Setup: three files, one of which is not in the payload, two releases, two installations, the second of which finds what the first left |
| `engine_event_order` | (violated) Are `engine.state_changed` events in order? | two generations |
| `recovery_attempt` | (violated) Does a flow that found a family ready keep an attempt? | two flows |
| `never_expires` | (violated) Once engine and settings agree that quarantines expire, does each one have a deadline? | one pair, no removals |
| `stop_wins` | (violated) Does nothing run after a Stop that succeeded? | as `desktop_engine`, without hotspot |
| `rules_aligned` | (violated) Are the published files those of the saved settings, whenever a start reads them? | the scenarios of `RuleScenarios` |
| `copy_kept` | (violated) Does a failed migration leave the copy of the one that applied? | one changed preference |

`CONSTRAINT` formulas choose a part of the configurations (`OneKind`: the strategy that leaves every
choice open, domains in a pool that isolates them and literals in one that does not) or of the
inputs (`FewEdits`); the comments say which. `CHECK_DEADLOCK FALSE` is set where a behaviour may come to
rest because its bounds are used up or a process has ended for good.

**What the properties rest on.** `TableIsSound` needs the three fallbacks of `candidates` and that a live
update makes every adapter known to the table, and it relates two structures (the map and the heap) that five
operations write separately. `PolicyApplies` and `ConfirmedOutlivesTraffic` relate records made under one
policy to another one that came later; the first assumes seeds within the quarantine lifetime, which shows
what the engine keeps by itself: `never_expires` shows that the desktop does not always keep to that.
`FairShares` joins two claims: no link's claim or debt reaches the sum of the weights, although the strategy
was designed for lists that do not change, and every candidate is chosen within two rounds. Both hold for
pools of up to three links, of any weights; with four links of weights 1, 1, 1 and 10 TLC finds selections
after which a claim reaches the sum. `SettledSession` excuses a session whose cleanup failed or whose Core
died by itself (`dirty`, `lost`), as the code reports both and leaves the rest to the next call. `StopWins`
excuses a Stop that a start committed past; what follows then is the finding `stop_wins`. `RulesInForce`
excuses a start that a save overtook (`rules_aligned`) and a page that asks for a restart.
`StopReachesSessions` excuses the upstream of a session that had dialled and not yet attached, which ends with
its client instead.

## Fairness

In `engine_link` the server's part assumes weak fairness of the request loop and of the supervisor's
caller (goroutines that can run do run), and of the waiter together with the death of a process that was
killed (the operating system reaps it). No request has to arrive, no context has to be cancelled and
no sidecar has to exit by itself. Where a call has a deadline the deadline is an action that may win
or lose; where it has none (`tun.deactivate`), the property shows that the code needs none.

The client's part assumes that a goroutine within a call proceeds and that every wait of a start and of
a write ends with its context (`negotiateSession` sets five seconds for the hello, `Launch` ends with its
context, callers bring deadlines); nothing is assumed of the deadline of a caller that waits for its
answer, so `DeadCoreAnswers` shows that it needs none once the Core is gone. A Core stops after its
transport was closed (its request loop ends with its input), and the reader or the watcher notices a
Core that has stopped. A Core that is alive and silent may stay so for ever.

The host's part assumes that the service's goroutines run, that its timers fire, and that an elevated
Core notices the end of its pipe. Nothing is assumed of the desktop, of a session's cleanup or of who
connects: `NoneStranded` holds because of the Core's own timeouts.

`desktop_files` assumes, for the records, that the window keeps polling (a timer; strong fairness, as a
start makes `Snapshot` return early now and then), that requests to a running engine do not fail for
ever (strong fairness of the answer and of the update), and that a start and a removal end (they have
time limits). Writes may fail for ever. `PolicyReachesEngine` asks for the policy only while the engine
keeps running and the switch is left alone. Settings, updater and installer have no fairness: their
properties are about safety.

## Proofs

`EngineServerProof` proves, for every number of generations and requests (`MaxGenAssumption`,
`MaxRequestsAssumption`: positive numbers), that `Spec` implies the type invariant and the four safety
invariants of `engine_safety`, and that it implements `EgressLifecycle`.

None of the invariants is inductive. `IndInv` adds what each party relies on while it waits:

- `RunInv`: a live process is the newest generation, and its waiter still waits for it;
- `CallerInv`: what `Activate` and `Stop` know between two critical sections, such as that nothing is
  alive before a process is spawned;
- `CallInv`: the loop calls the supervisor only where it says so, with the operation of that point;
- `SidecarInv`: what the loop knows of a live sidecar at each of its points, above all that nothing is
  alive after a `Stop` returned, in time or not;
- `PoolInv`, `ModeInv`: how the engine state, the pool and the mode go together at each point.

`SidecarHasPool` needs all of them: the pool is closed at a point of the loop where the supervisor's
`Stop` has returned, and that nothing is alive there is a fact about the supervisor's caller, which in
turn rests on the waiters. The proof has one lemma per party and conjunct; the refinement takes the
steps one by one and maps each to a step of `EgressLifecycle` or a stutter.

`BlockedDomainsProof` proves three of the four properties of the records in `desktop_files` for every set of
adapters and domains, every lifetime and every number of removals (`TTLAssumption`, `MaxRemovalsAssumption`).
`RemovedStaysRemoved` is not inductive: what a sample in flight holds decides whether the next step breaks it.
The strengthening follows a removed pair through every place it could return from:

- `EngineForgets`: the engine has no confirmed quarantine of it, not even an expired one, as a policy
  update could renew that;
- `SampleForgets`, `TokenInv`: a sample that will be applied (its token is the current count) does not
  hold it; one that may hold it carries an older token, and the count only grows;
- `RecordsForget`, `GateInv`: memory and file do not hold it once the removal is complete, so a start,
  which needs the same gate, cannot seed it;
- `EngineInv`: without an engine there is no table; `NothingOnlyInMemory` itself.

The proof has lemmas on cells and records (what aging, pruning, policy changes, listing and replacing
preserve) and one lemma per action.

`EngineClientProof` proves the type invariant and the three safety properties of the client in `engine_link` for
every set of goroutines, every choice of calls and every number of Cores (`ThreadsAssumption` only keeps
names of goroutines apart from numbers). The strengthening says who owns what:

- `CallInv`: `startGate` is held by the one start that is past it;
- `TargetInv`: a goroutine has a target exactly as long as its request is not over, holds `writeGate`
  while it writes, and what `killCurrent` took over is no longer in `pending`;
- `StartInv`: while a start is past its kill, the connected Core is its own or none;
- `TearInv`: a teardown belongs to a `killCurrent`, or to the reader and watcher of a Core, whose session
  is over then and does not come back;
- `LaunchedInv`: what exists was launched.

`OneAnswerEach` needs `TargetInv` and `TearInv`: the reply that a teardown owes is the only one, because
the critical section that took the request out of `pending` also ended the session that could answer it.
`NoForgottenCore` needs `StartInv`: registering overwrites `session`, and nothing is lost because it was
empty. The lemma `RequestEnds` stands for the six actions that end a request; the other lemmas are one
per action, with one step for each part that the action can disturb.

It also proves `RefusalStands` of `CoreHost`, for any number of services and launches. `ClientInv`: the desktop
is at the service's pipe only between its dial and the end of the connection, at that of the process it
found, and is served when it was greeted, so that only a launch that waits for the answer to its hello can be
refused. `RefusedInv`: who was refused was so by the process it had found, and got no answer of another
version, so that the fallback finds that process gone; and process numbers are not used again.

`ProxyPathProof` proves the five properties of `proxy_path` for every number of sessions, flows, lookups,
addresses and probe jobs, every finite set of adapters, any weights and any limits (`ProxyAssumption`: what is
counted is finite, limits are numbers, weights positive ones). Each part has its own invariant, as its steps
leave the others alone:

- `ConnectionsAreAccounted`: `Placed` gives each open connection a place, the entry of its address or the place
  the serving goroutine found free before it dialled (`JobInv`: it is still free when it inserts, as nobody
  else inserts). `Listed` keeps the address of an entry that of its flow, so that a closed flow has left the
  table before its address is dialled again. The places are within the limit (`Bounded`), and the connections
  inject into them.
- `StopReachesSessions`: `Registered` says when the registry knows a session and its upstream, `ServerInv` that
  nothing is accepted or dialled once Stop has begun; `Cleared` then says that what Stop leaves open belongs
  to a session that had dialled and not yet attached (`late`).
- `LookupsAreSound`: `WaitInv` ties each caller to a lookup of its name that is in flight or done, `FlightInv`
  keeps what can be joined from being cancelled, since the last caller to leave removes it in the same critical
  section; `LookupInv` says where a lookup may ask in the clear.
- `TransfersAreSound`: `CountInv` and `ProbeInv` equate each counter with the cardinality of a set of sessions
  or jobs of the current generation. A reset empties these sets along with the counters, and what is
  returned later is of an older generation. `Upstream` says, for each step of a session, whether it has an
  address and which connections it owns, before and after Stop.
- `FairShares`, for the three links of the model: `CreditInv` says that the credits cancel each other out and that
  those outside the pool have none, that each is less than the total weight on either side, and that a link which
  was a candidate `n` times since it was chosen has been given its weight `n` times: `n * weight < total + credit`.
  The last is what bounds the waiting, since a credit is less than the total. `OneRound` is the arithmetic of one
  selection: who is passed over held no more than the one that is taken, and the credits sum to zero, so
  with at most two others none of them reaches the total; with three others one can.

`AiAssistantProof` proves `ToolsKeepBounds` for any number of external clients, edits and rounds.
`Allowed` says that a call which is not cancelled belongs to a time when AI is on, so that it may enter
the gate; `OneEdits` that one rule tool holds the lock of the rules, so that what another one writes is
not what it was compared with.

`AdapterPoolProof` proves four of the properties of `adapter_pool` for any finite set of links, any domains,
flows and lifetimes (`AdaptersAssumption`, `TTLAssumption`, `SupportsAssumption`, `BackoffAssumption`,
`WeightAssumption`). `CellsInv` and `PoolInv` are the table's own: every cell obeys the policy and mirrors
its index, every link of the pool is known. What keeps a dead destination from blaming anybody is a fact
about the flows: `FlowInv` says that one which still has a failure to record has reached its destination,
and `EvidenceInv` and `TargetsInv` follow. The proof has one lemma per operation on a cell, and one per
action of the flows, whose four parts are independent.

`DesktopFilesProof` proves the properties of settings, updater and installer in `desktop_files`, for any values of
the settings, any mirrors, sources and versions, any files, releases and number of installations
(`UpdaterAssumption`, `SetupAssumption`: the sources are finitely many, versions and releases are
numbers). `SettingsAreKept` is nearly inductive. `HandoverInv` says what the helper has behind it at each
step, `AnswersInv` that an answer of the stable source is no prerelease. The installer needs most:
`JournalInv` says that the journal of an unfinished installation holds a whole old release with its
service; `HelperInv` how far backup, copy and undo have come, and that the Core is off (`CoreOff`)
while files are written; `CoreInv` that nothing starts the Core by itself unless the files are whole, which is
what power loss relies on; `InstallerInv` that the installer's own steps come between apply and commit.

`DesktopServicesProof` proves all properties of the engine service, of the system proxy and of the rules in
`desktop_engine`, for any callers, choices of the user, rules, lists, contents and flows (`CallersAssumption`
keeps names apart, `ChoicesAssumption` lets what the user sets be told from what HypoMux sets,
`DraftsAssumption` says what `normalizeRule` and the checks of the lists let pass: fields of their types,
priorities up to 999, no two rules with the same match). For the engine service `EngineInv` has ten parts
beyond the types:

- `PlaceInv`: exactly the holder of the gate is at a step that needs it, and each process does what it may;
- `ModeInv`, `CoreInv`, `SessionInv`: what a start has brought up at each of its steps, and what is there when
  none is under way, as long as no cleanup failed;
- `StoppedInv`, `ClosedInv`: what a stop and a shutdown have reached as long as nothing of them failed;
- `QuietInv`, `RecoveryInv`: after a Stop no process is left that could start anything. A Stop on its way has
  cancelled the recovery already, and what a refresh still does at the gate has lost its context;
- `CompatInv`, `HotInv`: a handler of a compatibility event keeps its flag up; whoever starts a hotspot was
  asked to or found one running.

`StopWins` needs nearly all of them: that a Stop without an error has stopped the Core is a fact of
`SessionInv` about the call, which holds the gate by `PlaceInv`. `ProxyInv` follows the marker through
takeover and return: the values are those of an owner or those from before (`ValuesInv`), and at each step the
fields written so far are known (`TakingInv`, `GivingInv`). `UpdateKeepsEdits` needs no invariant: the
lookup, the comparison and the merge of a download are one critical section.

`RulesInForce` has two halves. For `TagsAreHonest`, `TagsInv` says the same of both outcomes of an open save: the
new lists go with the new content, the old with the old. For `RoutesAsSaved`, `RoutesInv` says the same of
the files: during a save those on the disk are in force for what is being saved and those that would come back for
what is saved (`InForce`), unless some are torn or a start came late. So a TUN that runs and needs no
restart has files and a configuration of exactly the saved rules and lists (`UpToDate`). That these files
route as intended (`FlowsFollow`) is about the order alone:

- `BestRule`, `BestList`, `OneIsBefore`: rules that match one flow are in a strict order, as prefixes of one path
  that are of the same length are equal (`PrefixesNest`), so each set of them has exactly one first; the lists
  are ordered by priority and number. `FirstRuleRanksAhead`: if any rule ranks ahead of the
  first list, the first rule ranks ahead of all lists.
- `FirstRuleHits`, `FirstListHits`: the first rule or list of a flow has the flow in its file, and what else
  has it there leads to the same outbound or, for rules, is of a kind that the configuration asks later.
  Exceptions are only cut out where outbounds differ, so a file may keep flows it is not the first for.
- `OrderExists`, `OrderNamesAll`: the lists can be put in order and the order that a start chooses
  names each once, so that the first file that matches is the list of the highest rank.
- `NoneDecides`, `ListDecides`, `RuleDecides`: the three cases of which of rules and lists comes first, each with
  the bypass of known proxies.

`DesktopServicesProof`, `DesktopFilesProof`, `ProxyPathProof` and the proof of `RefusalStands` are about the
compositions that the runs check (`DesktopSpec`, `FilesSpec`, `ProxySpec`, `LinkSpec`), so the sets and bounds
they range over are constants of `MCDesktopEngine`, `MCDesktopFiles`, `MCProxy` and `MCEngineLink`, with
values in the configurations.

Only model-checked: liveness (fairness and `ENABLED` are out of the prover's reach), and `FairShares` beyond three
links, which does not hold. Every invariant and every other action property that a passing run checks is a theorem.

## Findings

- `engine_event_order`: the exit handler emits its snapshot after it released the mutex, so an older
  state may follow a newer one (the manifest promises ordered delivery).
- `recovery_attempt`: the family table is read twice under separate locks; a failure recorded in
  between leaves a flow without any attempt.
- `never_expires`: an engine can run with automatic expiry on and a quarantine of a hundred years,
  because a failed write, or a switch thrown during a start, seeds it so; engine and settings agree, so
  no later sample corrects it.
- `stop_wins`: a Stop cancels the automatic recovery before it waits for the gate; a Start in flight may
  re-enable it and leave a recovery behind, which starts the aggregation again after the Stop succeeded.
- `rules_aligned`: a start publishes rule files from settings it read long before; a save that comes in
  between is overwritten in the files while the settings keep it.
- `copy_kept`: a second migration replaces the copy of the first before its commit, which may fail; a
  rollback then restores what the first migration wrote.

Four more disagreements the models show, without a run of their own:

- a failed engine whose WFP exemption cannot be closed is stopped all the same (`server.go`, the end of
  `engine.stop`), and later stops do not retry;
- with three links, a constrained flow with two candidates moves and resets the rotation of unconstrained
  flows (`scheduler.go:100`); one link can be passed over for as long as the two kinds alternate. With two
  links, as in the test, it cannot happen;
- a write whose context ends (`WriteExpires` of `EngineClient`) calls `killCurrent`, which takes whatever
  is connected. Meanwhile the session of the write may have been replaced, and the new one is killed with
  its requests; the comment there (`client.go:428`) says that the writer belongs to the killed session.
  `OneAnswerEach` holds all the same: each request of the new session gets its error;
- a lookup that ends by its deadline is not counted as a failure (`resolver.go:364`), so that under a policy without
  fallback a link on which every query is silent asks for no restart with traditional DNS.

Hazards of the code that no property covers: the cleanup of a run removes the device by name and may
overlap the next activation (`supervisor.go:543`); a flow selects from a pool that changed since it read
it (`dial.go:28`); a select may see the end of the context although a write has ended
(`client.go:427`); the reader delivers events of a Core that was replaced (`client.go:492`); a caller
that ensured a Core sends to whichever is connected later (`engine.go:924`); a failed first load of the
blocked domains is ignored (`blocked_domains.go:59`); a start removes orphaned rule-set files another
process may still read (`singbox_rules.go:389`); a wanted start at boot may rest on stale settings
(`settings.go:408`); an installation that began stays the operation in progress until the desktop exits
(`updater.go:546`); a tool that changes no rules runs although other settings changed since it was shown
(`ai_service.go:458`).

## Not modelled

- Read-only requests, displayed counters, logs, error wording, protocol framing and the fields of the
  API: nothing depends on them but the page.
- Measurements (adaptive weights, latency, throughput, MTU, NAT, diagnostics): numbers, which the models
  of their users take as a free choice. The race of addresses within one dial: `AdapterPool` takes its
  outcome.
- Windows calls (WFP filters, routes, adapters, registry, service manager) beyond success or failure, and
  the rendering of sing-box's configuration beyond the rules (`RuleSets`).
- Startup privilege, Wi-Fi, tray, appearance, adapter and process lists, support log: each is a call to
  the system or to the window toolkit without state that another part relies on.
- The front end: it keeps copies of what the services return. Release tooling runs at build time.
- Within modelled components: the providers' formats, retries and redaction of the assistant and its
  history; a user installation; transports' endpoint races; HTTP framing; the UDP profile.

## Plan

1. *Done*: lifecycle of the Core, choice of links, engine client, blocked domains; proofs of the first,
   the third and the fourth.
2. *Done*: the flows, the engine service, the host, the journals (system proxy, settings, setup,
   updater), rules and lists, the assistant.
   Proofs of the UDP association and of the assistant's tools.
3. *Done*: proofs of the links' table, of the settings, the updater and the installer, of the engine service
   and of the system proxy.
4. *Done*: proofs of the proxy's sessions, lookups and transfers, and of what a refusal by the service rests on.
5. *Done*: proofs of the scheduler's shares and of the rules in force.
6. *Next*: the TUN network observer with the connectivity probe, and the composition of `DesktopEngine`
   with `EngineServer`, whose states are too many for one run together.
