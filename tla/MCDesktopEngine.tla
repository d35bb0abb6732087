--------------------------- MODULE MCDesktopEngine ---------------------------
(***************************************************************************)
(* The engine service of the desktop with what it calls, the system proxy  *)
(* and the rule sets, and the assistant, whose tools call it, each on its  *)
(* own. A behaviour is of one of them; the others stay where they start.   *)
(***************************************************************************)
EXTENDS AiAssistant, RuleScenarios, TLC

CONSTANTS
  Callers, Tasks, Kinds, MaxMoves,  \* of DesktopEngine
  Choices,                          \* of SystemProxy
  Flows, Drafts, Content, Nics, Reserved  \* of RuleSets

CallersSymmetry == Permutations(Callers)

VARIABLES
  part,
  gate, job, mode, closing, closed, core, proxyOwned, endpoint, binding, compat,
  events, hotspot, registered, moves, ghost,
  registry, marker, op, before, touched, edits,
  drafts, rules, lists, source, published, pinned, saving, fetching, tun, begun

engineVars == <<gate, job, mode, closing, closed, core, proxyOwned, endpoint, binding, compat,
                events, hotspot, registered, moves, ghost>>
proxyVars == <<registry, marker, op, before, touched, edits>>
rulesVars == <<drafts, rules, lists, source, published, pinned, saving, fetching, tun, begun>>
allVars   == <<engineVars, proxyVars, rulesVars, vars, part>>

Engine == INSTANCE DesktopEngine

Proxy == INSTANCE SystemProxy
Rules == INSTANCE RuleSets

\* A goroutine that calls the service is none of its own.
ASSUME CallersAssumption ==
  /\ Callers \cap {Engine!Consumer, Engine!Refresh, Engine!Free} = {}
  /\ Tasks \subseteq {"start", "stop", "shutdown", "hotspotOn", "hotspotOff", "save", "repair"}

\* What the user sets can be told from what HypoMux sets.
ASSUME ChoicesAssumption == Choices # {} /\ Proxy!Own \notin Choices

\* What the page sends are rules, of which no two have the same match, and lists;
\* versions of a content are numbered.
MaxPriority == 999
RuleKinds   == {"process", "domain", "ip"}
IsPath(v)   == v \in Seq({v[i] : i \in DOMAIN v})
IsRule(r)   == r.kind \in RuleKinds /\ IsPath(r.value) /\ r.priority \in 0..MaxPriority
Outbounds == Nics \cup Reserved \cup {"none"}
Addresses == DOMAIN Content \cup {"none"}
Subscriptions ==
  [outbound : Outbounds, priority : Nat, disabled : BOOLEAN, url : Addresses, etag : Nat]
ASSUME DraftsAssumption ==
  /\ \A d \in Drafts : /\ \A set \in d.rules : Rules!Distinct(set) /\ \A r \in set : IsRule(r)
                       /\ d.lists \subseteq [Rules!Ids -> Subscriptions]
  /\ \A f \in Flows : \A k \in RuleKinds : IsPath(f[k])
  /\ \A u \in DOMAIN Content : DOMAIN Content[u] \subseteq Nat

-----------------------------------------------------------------------------
\* What rests is in one of its initial states, the rules, which are large, in none.
DesktopInit ==
  /\ part \in {"engine", "proxy", "rules", "assistant"}
  /\ Engine!Init /\ Proxy!Init /\ Init
  /\ IF part = "rules" THEN Rules!Init
     ELSE /\ drafts = {} /\ rules = {} /\ lists = {} /\ source = {} /\ published = {} /\ pinned = {}
          /\ saving = {} /\ fetching = Rules!NoFetch /\ tun = "stopped" /\ begun = {}
  /\ part # "engine" => mode = "proxy"
  /\ part # "proxy"  => \A name \in DOMAIN registry : registry[name] = CHOOSE v \in Choices : TRUE

DesktopNext ==
  /\ UNCHANGED part
  /\ \/ part = "engine"    /\ Engine!Next /\ UNCHANGED <<proxyVars, rulesVars, vars>>
     \/ part = "proxy"     /\ Proxy!Next  /\ UNCHANGED <<engineVars, rulesVars, vars>>
     \/ part = "rules"     /\ Rules!Next  /\ UNCHANGED <<engineVars, proxyVars, vars>>
     \/ part = "assistant" /\ Next        /\ UNCHANGED <<engineVars, proxyVars, rulesVars>>

DesktopSpec == DesktopInit /\ [][DesktopNext]_allVars

\* The assistant meets an open application, clients that may write, and edits
\* of the rules or of the rest after the first of each, not both.
FewEdits ==
  /\ available # "closed" /\ mcp # "read-only"
  /\ ~(settings.rest = 2 /\ settings.rules = 2)

-----------------------------------------------------------------------------
\* DesktopEngine: between operations the desktop has what it thinks it has.
SettledSession == Engine!SettledSession

\* DesktopEngine: after a Stop that succeeded, and that no start overtook,
\* nothing comes back by itself.
StopWins == Engine!StopWins

\* DesktopEngine: one restart of each kind without the user, none after Shutdown.
UserDecides == Engine!UserDecides

\* DesktopEngine: no late report and no refresh brings a stopped hotspot back.
HotspotStaysOff == Engine!HotspotStaysOff

\* SystemProxy: what the user set is neither lost nor overwritten, and can be
\* given back whenever the machine loses power.
ProxyIsGivenBack == Proxy!ProxyIsGivenBack

\* RuleSets: flows leave as the settings say, a tag stands for what is on the
\* disk, and a late download undoes no edit.
RoutesAsSaved    == part = "rules" => Rules!RoutesAsSaved
TagsAreHonest    == part = "rules" => Rules!CacheIsHonest
RulesInForce     == RoutesAsSaved /\ TagsAreHonest
UpdateKeepsEdits == Rules!UpdateKeepsEdits
=============================================================================
