----------------------------- MODULE SystemProxy -----------------------------
(***************************************************************************)
(* The system proxy of Windows and the marker file that records HypoMux's  *)
(* ownership of it (desktop/internal/services/system_proxy_*.go).          *)
(*                                                                         *)
(* The settings are three registry values, written one by one. Taking over *)
(* saves what it found in the marker first; restoring journals in it where *)
(* it started from. The desktop and the installer (--recover-network) both *)
(* restore; a byte-range lock, which the system drops with its process,    *)
(* keeps them apart, so that there is one operation at a time and it is    *)
(* the pair of its task and its next step. The user edits the values at    *)
(* any time. A lock that cannot be had within two seconds is left out.     *)
(***************************************************************************)
EXTENDS Naturals, Sequences

CONSTANT Choices  \* what the user may set a value to

VARIABLES
  registry,  \* the three values
  marker,    \* the file proxy-owned
  op,        \* the operation that holds the lock
  before,    \* history: what the last takeover found
  touched,   \* history: the user edited since, or the marker was damaged
  edits      \* history: the edits made between operations since

vars == <<registry, marker, op, before, touched, edits>>

Fields == <<"enable", "server", "override">>
Names  == {"enable", "server", "override"}
Own    == "own"
Blank  == "blank"  \* ProxyEnable 0, ProxyServer ""
Values == Choices \cup {Own, Blank}
Settings == [Names -> Values]
Owned  == [f \in Names |-> Own]

NoEdit   == "none"
NoMarker == [state |-> "none", original |-> Owned, from |-> Owned]
Markers  == [state : {"none", "prepared", "active", "restoring", "corrupt"},
             original : Settings, from : Settings]
Idle == [task |-> "none", at |-> "idle"]
Steps == {"idle", "read", "give1", "give2", "give3", "told", "blank1", "blank2", "blanked",
          "take", "own1", "own2", "own3", "activate"}

TypeOK ==
  /\ registry \in Settings /\ before \in Settings
  /\ marker \in Markers
  /\ op \in [task : {"none", "enable", "restore"}, at : Steps]
  /\ touched \in BOOLEAN
  /\ edits \in [Names -> Choices \cup {NoEdit}]

-----------------------------------------------------------------------------
At(step)   == op.at = step
GoTo(step) == op' = [op EXCEPT !.at = step]

\* enableSystemProxy restores first and then takes over; a restore ends.
Continue == IF op.task = "enable" THEN GoTo("take") ELSE op' = Idle

Begin(task) ==
  /\ op = Idle
  /\ op' = [task |-> task, at |-> "read"]
  /\ UNCHANGED <<registry, marker, before, touched, edits>>

\* proxyRestoreValuesMatch, and the exact comparison with an active marker.
Untouched ==
  LET from == IF marker.state = "restoring" THEN marker.from ELSE Owned IN
  IF marker.state = "active" THEN registry = from
  ELSE \A f \in Names : registry[f] \in {from[f], marker.original[f]}

ReadNoMarker ==
  /\ At("read") /\ marker.state = "none"
  /\ Continue
  /\ UNCHANGED <<registry, marker, before, touched, edits>>

\* The user or another program changed the proxy: ownership ends.
ReadForeign ==
  /\ At("read") /\ marker.state \in {"prepared", "active", "restoring"}
  /\ ~Untouched
  /\ marker' = NoMarker
  /\ Continue
  /\ UNCHANGED <<registry, before, touched, edits>>

\* The journal is committed before the first registry write.
ReadOwned ==
  /\ At("read") /\ marker.state \in {"prepared", "active", "restoring"}
  /\ Untouched
  /\ marker' = IF marker.state = "restoring" THEN marker
               ELSE [marker EXCEPT !.state = "restoring", !.from = registry]
  /\ GoTo("give1")
  /\ UNCHANGED <<registry, before, touched, edits>>

\* One value is given back.
GiveBack(i) ==
  /\ At(<<"give1", "give2", "give3">>[i])
  /\ registry' = [registry EXCEPT ![Fields[i]] = marker.original[Fields[i]]]
  /\ GoTo(<<"give2", "give3", "told">>[i])
  /\ UNCHANGED <<marker, before, touched, edits>>

\* Windows has been notified; the marker goes last.
DropMarker ==
  /\ At("told")
  /\ marker' = NoMarker
  /\ Continue
  /\ UNCHANGED <<registry, before, touched, edits>>

\* recoverCorruptProxyMarker: the marker is set aside, and the proxy is turned
\* off only when its server is one of HypoMux.
ReadCorrupt ==
  /\ At("read") /\ marker.state = "corrupt"
  /\ marker' = NoMarker
  /\ IF registry["server"] = Own THEN GoTo("blank1") ELSE Continue
  /\ UNCHANGED <<registry, before, touched, edits>>

TurnOff(i) ==
  /\ At(<<"blank1", "blank2">>[i])
  /\ registry' = [registry EXCEPT ![Fields[i]] = Blank]
  /\ edits' = [edits EXCEPT ![Fields[i]] = NoEdit]
  /\ GoTo(<<"blank2", "blanked">>[i])
  /\ UNCHANGED <<marker, before, touched>>

TurnedOff ==
  /\ At("blanked")
  /\ Continue
  /\ UNCHANGED <<registry, marker, before, touched, edits>>

\* Defect: the marker claims all three values before one is written.
ClaimsAll == [state |-> "active", original |-> registry, from |-> Owned]

\* enableSystemProxy: what is there now is what will be given back.
Journal == [state |-> "prepared", original |-> registry, from |-> Owned]
Prepare ==
  /\ At("take")
  /\ marker' = Journal
  /\ before' = registry
  /\ touched' = FALSE
  /\ edits' = [f \in Names |-> NoEdit]
  /\ GoTo("own1")
  /\ UNCHANGED registry

TakeOver(i) ==
  /\ At(<<"own1", "own2", "own3">>[i])
  /\ registry' = [registry EXCEPT ![Fields[i]] = Own]
  /\ GoTo(<<"own2", "own3", "activate">>[i])
  /\ UNCHANGED <<marker, before, touched, edits>>

Activate ==
  /\ At("activate")
  /\ marker' = [marker EXCEPT !.state = "active"]
  /\ op' = Idle
  /\ UNCHANGED <<registry, before, touched, edits>>

\* A step fails and its error is returned, or the process ends.
Interrupted ==
  /\ op # Idle
  /\ op' = Idle
  /\ UNCHANGED <<registry, marker, before, touched, edits>>

\* The user, or another program. Only an edit between operations can count on
\* being seen; one that sets a value to what it is changes nothing.
UserEdits(f, v) ==
  /\ registry[f] # v
  /\ registry' = [registry EXCEPT ![f] = v]
  /\ edits' = [edits EXCEPT ![f] = IF op = Idle THEN v ELSE NoEdit]
  /\ touched' = TRUE
  /\ UNCHANGED <<marker, op, before>>

MarkerDamaged ==
  /\ op = Idle /\ marker.state # "none"
  /\ marker' = [NoMarker EXCEPT !.state = "corrupt"]
  /\ touched' = TRUE
  /\ UNCHANGED <<registry, op, before, edits>>

-----------------------------------------------------------------------------
Init ==
  /\ registry \in [Names -> Choices]
  /\ before = registry
  /\ marker = NoMarker /\ op = Idle
  /\ touched = FALSE
  /\ edits = [f \in Names |-> NoEdit]

Next ==
  \/ Begin("enable") \/ Begin("restore")
  \/ ReadNoMarker \/ ReadForeign \/ ReadOwned \/ ReadCorrupt
  \/ \E i \in 1 .. 3 : GiveBack(i) \/ TakeOver(i)
  \/ \E i \in 1 .. 2 : TurnOff(i)
  \/ DropMarker \/ TurnedOff \/ Prepare \/ Activate
  \/ Interrupted
  \/ \E f \in Names, v \in Choices : UserEdits(f, v)
  \/ MarkerDamaged

Spec == Init /\ [][Next]_vars

-----------------------------------------------------------------------------
\* At every step, whatever fails or ends between two writes, the proxy is as
\* the user had it or the marker says how to get there: the next restore gives
\* everything back ("Commit the journal before the first registry write",
\* system_proxy_restore_windows.go:101).
RecoveryPossible ==
  ~touched /\ registry # before =>
    /\ marker.state \in {"prepared", "active", "restoring"}
    /\ marker.original = before
    /\ Untouched

\* What the user set while no operation was under way stays until the next
\* takeover: "even a user edit back to an original value ends ownership"
\* (system_proxy_restore_windows.go:91-93).
EditsAreKept == \A f \in Names : edits[f] # NoEdit => registry[f] = edits[f]

\* What the user set is neither lost nor overwritten.
ProxyIsGivenBack == RecoveryPossible /\ EditsAreKept
=============================================================================
