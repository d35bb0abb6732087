-------------------------------- MODULE RuleSets -------------------------------
(***************************************************************************)
(* Routing rules and subscribed lists of the desktop                       *)
(* (desktop/internal/services/routing.go, rule_sets*.go, singbox_rules.go, *)
(* tun_config.go).                                                         *)
(*                                                                         *)
(* The user orders manual rules and subscribed lists by priority.  A TUN   *)
(* start compiles them into files, one per kind of match and outbound and  *)
(* one per list, and into a main configuration that refers to the files in *)
(* a fixed order and is not changed while the TUN runs.  A save or an      *)
(* update of a list compiles the files again, sing-box reloads them, and   *)
(* only then are the settings saved; the files come back if that fails.    *)
(* An update downloads without a lock, a start reads the settings long     *)
(* before it writes the files.                                             *)
(*                                                                         *)
(* A match is a kind and a path: of a domain the labels from the top, of a *)
(* network the bits of the prefix, of a process its name.  A flow has one  *)
(* path of every kind.                                                     *)
(***************************************************************************)
EXTENDS Naturals, FiniteSets, SequencesExt

CONSTANTS
  Flows,      \* the connections looked at: [process, domain, ip, proxy]
  Drafts,     \* each the manual rules and subscriptions one user goes between
  Content,    \* Content[url][version]: the matches of a subscription
  Nics,       \* the outbounds that are adapters
  Reserved    \* the outbounds a start always writes files for

VARIABLES
  drafts,     \* those of this user
  rules,      \* the saved manual rules
  lists,      \* the saved subscriptions
  source,     \* the downloaded content of each subscription
  published,  \* what the files were compiled from
  pinned,     \* what the main configuration declares
  saving,     \* a save or update between its files and its settings
  fetching,   \* a download
  tun, begun  \* the TUN, and the settings its start has read

savedVars == <<rules, lists>>
tunVars   == <<tun, begun>>
vars == <<drafts, savedVars, source, published, pinned, saving, fetching, tunVars>>

Ids      == 1..2
Urls     == DOMAIN Content
NoList   == [outbound |-> "none", priority |-> 0, disabled |-> TRUE, url |-> "none", etag |-> 0]
NoSource == [url |-> "none", version |-> 0]
Nothing  == [rules |-> {}, lists |-> {}, late |-> FALSE, torn |-> FALSE]
NoPin    == [outbounds |-> {}, declared |-> <<>>, exists |-> FALSE]
NoSave   == [open |-> FALSE]
NoStart  == [rules |-> {}, lists |-> <<>>]
NoFetch  == [id |-> 0, list |-> NoList]

\* A save drops a rule that repeats the match of another.
Distinct(set) == \A a, b \in set : a.kind = b.kind /\ a.value = b.value => a = b

TypeOK ==
  /\ drafts \in Drafts /\ rules \in drafts.rules
  /\ Distinct(rules) /\ (saving.open => Distinct(saving.rules))
  /\ DOMAIN lists = Ids /\ DOMAIN source = Ids
  /\ \A id \in Ids : /\ source[id] = NoSource \/ source[id].url \in Urls
                     /\ lists[id] = NoList \/ lists[id].url \in Urls
  /\ published.late \in BOOLEAN /\ published.torn \in BOOLEAN
  /\ saving.open \in BOOLEAN
  /\ fetching.id \in Ids \cup {0}
  /\ tun \in {"stopped", "starting", "written", "running"}

Init ==
  /\ drafts \in Drafts
  /\ rules = {} /\ lists = [id \in Ids |-> NoList]
  /\ source = [id \in Ids |-> NoSource]
  /\ published = Nothing /\ pinned = NoPin
  /\ saving = NoSave /\ fetching = NoFetch
  /\ tun = "stopped" /\ begun = NoStart

-----------------------------------------------------------------------------
(* The order of rules and lists: the first that matches decides.           *)

Matches(m, f) == IsPrefix(m.value, f[m.kind])
Overlap(a, b) == a.kind = b.kind /\ (IsPrefix(a.value, b.value) \/ IsPrefix(b.value, a.value))
Rank(kind)    == CASE kind = "process" -> 0 [] kind = "domain" -> 1 [] OTHER -> 2
Enabled(set)  == {r \in set : ~r.disabled}

\* sortCandidates: priority, kind, and the exception ahead of what it excepts.
ByPriority(a, b) == a.priority > b.priority
ByKind(a, b)     == a.priority = b.priority /\ Rank(a.kind) < Rank(b.kind)
ByDepth(a, b)    == a.priority = b.priority /\ a.kind = b.kind /\ Len(a.value) > Len(b.value)
Before(a, b)     == ByPriority(a, b) \/ ByKind(a, b) \/ ByDepth(a, b)

Higher(k, l)     == k.priority > l.priority \/ (k.priority = l.priority /\ k.id < l.id)
RanksAhead(r, l) == IF r.kind = "ip" THEN r.priority > l.priority ELSE r.priority >= l.priority
ListMatches(l, f) == \E m \in l.payload : Matches(m, f)

-----------------------------------------------------------------------------
(* Compiling. A file holds a match with the exceptions that outrank it.    *)

Excepts(e, c) ==
  /\ Before(e, c) /\ e.outbound # c.outbound
  /\ (e.kind # c.kind /\ e.priority > c.priority) \/ Overlap(e, c)
InFile(c, f, set) == Matches(c, f) /\ ~\E e \in set : Excepts(e, c) /\ Matches(e, f)

ManualExcept(l, f, set) == \E e \in set : e.outbound # l.outbound /\ RanksAhead(e, l) /\ Matches(e, f)
NoListExcept(l, f, all) == FALSE  \* defect: other lists are not carved out
ListExcept(l, f, all)   == \E k \in all : Higher(k, l) /\ k.outbound # l.outbound /\ ListMatches(k, f)
InListFile(l, f, set, all) ==
  ListMatches(l, f) /\ ~ManualExcept(l, f, set) /\ ~ListExcept(l, f, all)

Compiled(ls, src, id, outbound) ==
  [id |-> id, outbound |-> outbound, priority |-> ls[id].priority,
   payload |-> Content[src[id].url][src[id].version]]
IsLive(ls, src, id) == ls[id] # NoList /\ ~ls[id].disabled /\ src[id] # NoSource
LiveLists(ls, src)  == {Compiled(ls, src, id, ls[id].outbound) : id \in {i \in Ids : IsLive(ls, src, i)}}

\* While a configuration is pinned only its lists count, to its outbounds.
Declared == {pinned.declared[i] : i \in DOMAIN pinned.declared}
Kept(ls, src) == {Compiled(ls, src, d.id, d.outbound) : d \in {e \in Declared : IsLive(ls, src, e.id)}}

-----------------------------------------------------------------------------
(* What sing-box does with the pinned configuration and the files.         *)

ListHits(f) ==
  {i \in DOMAIN pinned.declared :
     \E l \in published.lists : /\ l.id = pinned.declared[i].id
                                /\ InListFile(l, f, Enabled(published.rules), published.lists)}
UserHits(f) ==
  {c \in Enabled(published.rules) : /\ c.outbound \in pinned.outbounds
                                    /\ InFile(c, f, Enabled(published.rules))}

\* The bypass of known proxies yields to all but IP rules without a priority.
Bypassed(f) ==
  /\ f.proxy /\ ListHits(f) = {}
  /\ \A c \in UserHits(f) : c.kind = "ip" /\ c.priority = 0

RoutesTo(f) ==
  LET lh == ListHits(f)
      uh == UserHits(f)
      nics == {c.outbound : c \in {d \in uh : d.outbound \in Nics}}
  IN IF Bypassed(f) THEN IF nics # {} THEN nics ELSE {"system-direct"}
     ELSE IF lh # {} THEN {pinned.declared[i].outbound : i \in {j \in lh : \A k \in lh : j <= k}}
     ELSE IF uh # {} THEN {c.outbound : c \in {d \in uh : \A e \in uh : Rank(d.kind) <= Rank(e.kind)}}
     ELSE {"final"}

\* The outbound of the first that matches, by the saved order alone.
Intended(f) ==
  LET ms == {c \in Enabled(rules) : Matches(c, f)}
      ls == {l \in LiveLists(lists, source) : ListMatches(l, f)}
      firstRule == {c \in ms : /\ \A d \in ms : ~Before(d, c)
                               /\ \A l \in ls : RanksAhead(c, l)}
      firstList == {l \in ls : /\ \A k \in ls : ~Higher(k, l)
                               /\ \A c \in ms : ~RanksAhead(c, l)}
      yields == firstList = {} /\ \A c \in firstRule : c.kind = "ip" /\ c.priority = 0
      chosen == {x.outbound : x \in firstRule \cup firstList}
  IN IF f.proxy /\ yields
     THEN IF chosen \cap Nics # {} THEN chosen ELSE {"system-direct"}
     ELSE IF chosen # {} THEN chosen ELSE {"final"}

\* singBoxRuleSetRestartRequirement: lists or outbounds the configuration lacks.
RestartRequired ==
  \/ Declared # {[id |-> l.id, outbound |-> l.outbound] : l \in LiveLists(lists, source)}
  \/ \E r \in Enabled(rules) : r.outbound \notin pinned.outbounds

-----------------------------------------------------------------------------
(* Saving. *)

\* The files, then the settings; only the settings before the first start.
Refreshes(newRules, newLists, newSource) ==
  /\ ~saving.open
  /\ source' = newSource
  /\ published' = IF pinned.exists
                  THEN [rules |-> newRules, lists |-> Kept(newLists, newSource), late |-> FALSE, torn |-> FALSE]
                  ELSE published
  /\ saving' = [open |-> TRUE, rules |-> newRules, lists |-> newLists,
                published |-> published, source |-> source]
  /\ UNCHANGED <<savedVars, pinned, tunVars>>

SavesRules(r) ==
  /\ r # rules
  /\ Refreshes(r, lists, source)
  /\ UNCHANGED fetching

\* The page sends the lists; what is known of the download is the service's.
TagOf(old, new) == IF old.url = new.url THEN old.etag ELSE 0
SavesLists(ls) ==
  LET merged == [id \in Ids |-> IF ls[id] = NoList THEN NoList
                                ELSE [ls[id] EXCEPT !.etag = TagOf(lists[id], ls[id])]]
  IN /\ merged # lists
     /\ Refreshes(rules, merged, source)
     /\ UNCHANGED fetching

Commits ==
  /\ saving.open
  /\ rules' = saving.rules /\ lists' = saving.lists
  /\ saving' = NoSave
  /\ UNCHANGED <<source, published, pinned, fetching, tunVars>>

Restored   == saving.published
CommitFails ==
  /\ saving.open
  /\ published' = Restored /\ source' = saving.source
  /\ saving' = NoSave
  /\ UNCHANGED <<savedVars, pinned, fetching, tunVars>>

\* Some files of a failed save cannot be put back.
RollbackFails ==
  /\ saving.open /\ pinned.exists
  /\ published' = [published EXCEPT !.torn = TRUE] /\ source' = saving.source
  /\ saving' = NoSave
  /\ UNCHANGED <<savedVars, pinned, fetching, tunVars>>

-----------------------------------------------------------------------------
(* Updating a subscription. *)

\* The tag is only sent while the content it belongs to is still there.
FetchBegins(id) ==
  /\ fetching = NoFetch /\ lists[id] # NoList
  /\ fetching' = [id |-> id,
                  list |-> IF source[id] = NoSource THEN [lists[id] EXCEPT !.etag = 0] ELSE lists[id]]
  /\ UNCHANGED <<savedVars, source, published, pinned, saving, tunVars>>

FetchFails ==
  /\ fetching # NoFetch
  /\ fetching' = NoFetch
  /\ UNCHANGED <<savedVars, source, published, pinned, saving, tunVars>>

\* The lists are read again: this one may be gone or have another address.
AsRead   == fetching.list  \* defect: the list as it was before the download
AsItIs   == lists[fetching.id]
Latest   == AsItIs
SameList == Latest # NoList /\ Latest.url = fetching.list.url
FetchEnds(version) ==
  LET id == fetching.id
      modified == fetching.list.etag # version
  IN /\ fetching # NoFetch /\ SameList
     /\ version \in DOMAIN Content[fetching.list.url]
     /\ IF modified
        THEN Refreshes(rules, [lists EXCEPT ![id] = [Latest EXCEPT !.etag = version]],
                       [source EXCEPT ![id] = [url |-> fetching.list.url, version |-> version]])
        ELSE Refreshes(rules, [lists EXCEPT ![id] = Latest], source)
     /\ fetching' = NoFetch

FetchIsLate ==
  /\ fetching # NoFetch /\ ~saving.open
  /\ ~SameList
  /\ fetching' = NoFetch
  /\ UNCHANGED <<savedVars, source, published, pinned, saving, tunVars>>

-----------------------------------------------------------------------------
(* The TUN. *)

\* What the user wants of the lists.
Intent(ls) == [id \in Ids |-> [ls[id] EXCEPT !.etag = 0]]

StartReads ==
  /\ tun = "stopped"
  /\ tun' = "starting" /\ begun' = [rules |-> rules, lists |-> Intent(lists)]
  /\ UNCHANGED <<savedVars, source, published, pinned, saving, fetching>>

\* All the files anew, and those of lists the start does not know removed; the
\* configuration without IPv6 is written with a second round of the same.
StartWrites ==
  /\ tun \in {"starting", "written"} /\ ~saving.open
  /\ LET live == LiveLists(begun.lists, source)
         order == CHOOSE s \in [1..Cardinality(live) -> live] :
                    \A i, j \in DOMAIN s : i < j => Higher(s[i], s[j])
     IN /\ published' = [rules |-> begun.rules, lists |-> live, torn |-> FALSE,
                         late |-> begun.rules # rules \/ begun.lists # Intent(lists)]
        /\ pinned' = [exists |-> TRUE,
                      outbounds |-> Reserved \cup {r.outbound : r \in Enabled(begun.rules)}
                                             \cup {l.outbound : l \in live},
                      declared |-> [i \in DOMAIN order |-> [id |-> order[i].id, outbound |-> order[i].outbound]]]
  /\ source' = [id \in Ids |-> IF begun.lists[id] = NoList THEN NoSource ELSE source[id]]
  /\ tun' = "written"
  /\ UNCHANGED <<savedVars, saving, fetching, begun>>

StartEnds ==
  /\ tun = "written"
  /\ tun' = "running" /\ begun' = NoStart
  /\ UNCHANGED <<savedVars, source, published, pinned, saving, fetching>>

\* A start that fails, or a stop.
TunEnds ==
  /\ tun # "stopped"
  /\ tun' = "stopped" /\ begun' = NoStart
  /\ UNCHANGED <<savedVars, source, published, pinned, saving, fetching>>

Step ==
  \/ \E r \in drafts.rules : SavesRules(r)
  \/ \E ls \in drafts.lists : SavesLists(ls)
  \/ Commits \/ CommitFails \/ RollbackFails
  \/ \E id \in Ids : FetchBegins(id)
  \/ \E v \in UNION {DOMAIN Content[u] : u \in Urls} : FetchEnds(v)
  \/ FetchFails \/ FetchIsLate
  \/ StartReads \/ StartWrites \/ StartEnds \/ TunEnds

Next == Step /\ UNCHANGED drafts

Spec == Init /\ [][Next]_vars

-----------------------------------------------------------------------------
(* A flow leaves by the outbound of the first rule or list that matches it *)
(* in the order of the settings, through files that were compiled one by   *)
(* one and reloaded under a configuration of an earlier start, unless the  *)
(* page asks for a restart, a file could not be put back, or the start was *)
(* overtaken by a save (singbox_rules.go:147, 314, 437, 511, 628).         *)
Aligned == \A f \in Flows : RoutesTo(f) = Intended(f)
RoutesAsSaved ==
  tun = "running" /\ ~saving.open /\ ~published.torn /\ ~published.late /\ ~RestartRequired => Aligned

(* The same with nothing said of starts (singbox_rules.go:428-431).        *)
RulesStayAligned ==
  tun = "running" /\ ~saving.open /\ ~published.torn /\ ~RestartRequired => Aligned

(* A tag stands for the content on the disk, so that "not modified" is     *)
(* never believed of something else (rule_sets_service.go:119-131, 166-176,*)
(* 213-234).                                                               *)
CacheIsHonest ==
  \A id \in Ids : lists[id].etag # 0 /\ source[id] # NoSource /\ ~saving.open =>
    source[id] = [url |-> lists[id].url, version |-> lists[id].etag]

(* A download that ends late brings no deleted list back and undoes no     *)
(* edit of one (rule_sets_service.go:197-207).                             *)
UpdateKeepsEdits ==
  [][fetching # NoFetch /\ saving'.open /\ ~saving.open /\ fetching' = NoFetch =>
       saving'.rules = rules /\ Intent(saving'.lists) = Intent(lists)]_vars
=============================================================================
