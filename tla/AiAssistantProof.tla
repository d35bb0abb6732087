--------------------------- MODULE AiAssistantProof ---------------------------
(***************************************************************************)
(* Proof that the tools of the assistant keep to what the user allows, for *)
(* any number of external clients, of edits and of rounds. A call that was *)
(* not cancelled belongs to a time when AI is on (Allowed); what executes  *)
(* keeps the lease, and one rule tool at a time edits (OneEdits).          *)
(***************************************************************************)
EXTENDS AiAssistant, TLAPS

Saved == [enabled : BOOLEAN, rules : Nat, rest : Nat]
Call  == [at : {"idle", "registered", "asking", "waiting", "approved", "gate", "running", "editing"},
          tool : Tools, cancelled : BOOLEAN, seen : Saved \cup {None}, reply : {None, "yes", "no"}]

Types    == settings \in Saved /\ calls \in [Calls -> Call]
Allowed  == /\ available = "on" => settings.enabled
            /\ \A c \in Calls : ~At(c, "idle") /\ ~calls[c].cancelled => settings.enabled
OneEdits == \A c, d \in Calls : At(c, "editing") /\ At(d, "editing") => c = d
IInv     == Types /\ Allowed /\ OneEdits /\ ToolsKeepBounds

-----------------------------------------------------------------------------
\* A call that ends is idle, and the others stay as they are.
LEMMA EndsKeeps ==
  ASSUME Types, NEW c \in Calls, Ends(c)
  PROVE  /\ calls' \in [Calls -> Call]
         /\ calls'[c].at = "idle"
         /\ \A d \in Calls \ {c} : calls'[d] = calls[d]
  BY DEF Types, Ends, Idle, Call, Tools, None

\* Where only an ordinary call moves, and no settings do.
LEMMA OneCallMoves ==
  ASSUME IInv, NEW c \in Calls,
         UNCHANGED <<settings, available>>,
         calls' \in [Calls -> Call],
         \A d \in Calls \ {c} : calls'[d] = calls[d],
         calls'[c].at = "idle" \/ calls'[c].cancelled \/ settings.enabled,
         Executing(c)' => settings.enabled,
         At(c, "editing")' => /\ ~Editing \/ At(c, "editing")
                              /\ settings.rules = calls'[c].seen.rules
  PROVE  IInv'
<1>1. Types' BY DEF IInv, Types
<1>2. Allowed' BY DEF IInv, Allowed, At
<1>3. OneEdits' BY DEF IInv, OneEdits, At, Editing
<1>4. ToolsKeepBounds'
  BY DEF IInv, ToolsKeepBounds, NoToolWhenDisabled, EditsRulesShown, Executing, At
<1> QED BY <1>1, <1>2, <1>3, <1>4 DEF IInv

\* Where no call moves, and at most the rest of the settings does.
LEMMA NoCallMoves ==
  ASSUME IInv, UNCHANGED calls, settings' \in Saved,
         settings'.enabled = settings.enabled,
         settings'.rules = settings.rules \/ ~Editing,
         available' = "on" => available = "on"
  PROVE  IInv'
<1>1. Types' BY DEF IInv, Types
<1>2. Allowed' BY DEF IInv, Allowed, At
<1>3. OneEdits' BY DEF IInv, OneEdits, At
<1>4. ToolsKeepBounds'
  BY DEF IInv, ToolsKeepBounds, NoToolWhenDisabled, EditsRulesShown, Executing, At, Editing
<1> QED BY <1>1, <1>2, <1>3, <1>4 DEF IInv

\* Where calls are only cancelled or forgotten, and no settings change.
LEMMA CallsCancelled ==
  ASSUME IInv, UNCHANGED settings,
         calls' \in [Calls -> Call],
         available' = "on" => available = "on",
         \A c \in Calls : /\ calls'[c].at = calls[c].at
                          /\ calls'[c].seen = calls[c].seen \/ calls[c].at = "idle"
                          /\ calls[c].cancelled /\ calls[c].at # "idle" => calls'[c].cancelled
  PROVE  IInv'
<1>1. Types' BY DEF IInv, Types
<1>2. Allowed' BY DEF IInv, Allowed, At, Types, Call
<1>3. OneEdits' BY DEF IInv, OneEdits, At
<1>4. ToolsKeepBounds'
  BY DEF IInv, ToolsKeepBounds, NoToolWhenDisabled, EditsRulesShown, Executing, At
<1> QED BY <1>1, <1>2, <1>3, <1>4 DEF IInv

-----------------------------------------------------------------------------
\* Every call under way is cancelled when AI is switched off or the desktop ends.
LEMMA AllStopped ==
  ASSUME IInv, StopsAll
  PROVE  /\ calls' \in [Calls -> Call]
         /\ \A c \in Calls : /\ calls'[c].at = calls[c].at
                             /\ calls'[c].seen = calls[c].seen \/ calls[c].at = "idle"
                             /\ calls[c].at # "idle" => calls'[c].cancelled
<1> DEFINE new(c) == IF At(c, "idle") THEN Idle
       ELSE [calls[c] EXCEPT !.cancelled = TRUE,
                             !.reply = IF At(c, "waiting") /\ @ = None THEN "no" ELSE @]
<1>1. calls' = [c \in Calls |-> new(c)] BY DEF StopsAll
<1>2. ASSUME NEW c \in Calls
      PROVE  /\ new(c) \in Call
             /\ new(c).at = calls[c].at
             /\ new(c).seen = calls[c].seen \/ calls[c].at = "idle"
             /\ calls[c].at # "idle" => new(c).cancelled
  <2>1. calls[c] \in Call BY DEF IInv, Types
  <2>2. CASE At(c, "idle") BY <2>1, <2>2 DEF At, Idle, Call, Tools, None
  <2>3. CASE ~At(c, "idle") BY <2>1, <2>3 DEF At, Call, None
  <2> QED BY <2>2, <2>3
<1> QED BY <1>1, <1>2

\* Ends is a move of one call to rest.
LEMMA EndKeepsIInv ==
  ASSUME IInv, NEW c \in Calls, Ends(c), UNCHANGED <<settings, available>>
  PROVE  IInv'
<1>1. Types BY DEF IInv
<1>2. /\ calls' \in [Calls -> Call]
      /\ calls'[c].at = "idle"
      /\ \A d \in Calls \ {c} : calls'[d] = calls[d]
  BY <1>1, EndsKeeps
<1>3. ~Executing(c)' /\ ~At(c, "editing")' BY <1>2 DEF Executing, At
<1> QED BY <1>2, <1>3, OneCallMoves

\* A call that goes on keeps what it has seen.
LEMMA MoveKeepsIInv ==
  ASSUME IInv, NEW c \in Calls, ~At(c, "idle"), UNCHANGED <<settings, available>>,
         NEW pc \in {"registered", "asking", "waiting", "approved", "gate"}, Moves(c, pc)
  PROVE  IInv'
<1>1. calls \in [Calls -> Call] BY DEF IInv, Types
<1>2. /\ calls' \in [Calls -> Call]
      /\ \A d \in Calls \ {c} : calls'[d] = calls[d]
      /\ calls'[c].at = pc /\ calls'[c].cancelled = calls[c].cancelled
  BY <1>1 DEF Moves, Call
<1>3. ~Executing(c)' /\ ~At(c, "editing")' BY <1>2 DEF Executing, At
<1>4. calls'[c].cancelled \/ settings.enabled BY <1>2 DEF IInv, Allowed
<1> QED BY <1>2, <1>3, <1>4, OneCallMoves

\* The conversation itself touches no call, and cancelling it only its own.
LEMMA ChatSteps ==
  ASSUME IInv, Send \/ ModelCalls \/ ChatEnds \/ Cancel \/ Refused
  PROVE  IInv'
<1>1. CASE Cancel
  <2>1. Chat \in Calls BY DEF Calls
  <2>2. calls \in [Calls -> Call] BY DEF IInv, Types
  <2> DEFINE mark == calls[Chat].cancelled \/ calls[Chat].at # "idle"
             new == [calls[Chat] EXCEPT !.cancelled = mark]
  <2>3. /\ new \in Call /\ new.at = calls[Chat].at /\ new.seen = calls[Chat].seen
        /\ calls[Chat].cancelled => new.cancelled
    <3>1. calls[Chat] \in Call /\ mark \in BOOLEAN BY <2>1, <2>2
    <3>2. calls[Chat].cancelled => mark OBVIOUS
    <3> HIDE DEF mark
    <3> QED BY <3>1, <3>2 DEF Call
  <2>4. calls' = [calls EXCEPT ![Chat] = new] BY <1>1 DEF Cancel
  <2> HIDE DEF new, mark
  <2>5. /\ calls' \in [Calls -> Call]
        /\ \A c \in Calls : /\ calls'[c].at = calls[c].at
                            /\ calls'[c].seen = calls[c].seen
                            /\ calls[c].cancelled => calls'[c].cancelled
    BY <2>1, <2>2, <2>3, <2>4
  <2> QED BY <1>1, <2>5, CallsCancelled DEF Cancel, deskVars
<1>2. CASE Send \/ ModelCalls \/ ChatEnds \/ Refused
  <2>1. UNCHANGED <<settings, available, calls>> BY <1>2 DEF Send, ModelCalls, ChatEnds, Refused, deskVars
  <2> QED BY <2>1, NoCallMoves DEF IInv, Types
<1> QED BY <1>1, <1>2

\* A call registers only while AI is on.
LEMMA RegistersStep ==
  ASSUME IInv, NEW c \in Calls, NEW tool \in Tools, Registers(c, tool)
  PROVE  IInv'
<1>1. calls \in [Calls -> Call] BY DEF IInv, Types
<1>2. /\ calls' \in [Calls -> Call]
      /\ \A d \in Calls \ {c} : calls'[d] = calls[d]
      /\ calls'[c].at = "registered"
  BY <1>1 DEF Registers, Call, Idle, None
<1>3. ~Executing(c)' /\ ~At(c, "editing")' BY <1>2 DEF Executing, At
<1>4. settings.enabled BY DEF IInv, Allowed, Registers
<1>5. UNCHANGED <<settings, available>> BY DEF Registers, deskVars
<1> QED BY <1>2, <1>3, <1>4, <1>5, OneCallMoves

\* A call reads the settings it will be compared with, or ends.
LEMMA PreparesStep ==
  ASSUME IInv, NEW c \in Calls, Prepares(c)
  PROVE  IInv'
<1>1. UNCHANGED <<settings, available>> BY DEF Prepares, deskVars
<1>2. CASE available # "on" BY <1>1, <1>2, EndKeepsIInv DEF Prepares
<1>3. CASE available = "on"
  <2>1. calls \in [Calls -> Call] /\ settings \in Saved BY DEF IInv, Types
  <2>2. PICK seen \in Saved \cup {None}, pc \in {"gate", "asking", "approved"} :
          calls' = [calls EXCEPT ![c].seen = seen, ![c].at = pc]
    <3> DEFINE seen == IF Writes(c) THEN settings ELSE None
               pc   == IF ~Writes(c) THEN "gate" ELSE IF NeedsApproval(c) THEN "asking" ELSE "approved"
    <3>1. calls' = [calls EXCEPT ![c].seen = seen, ![c].at = pc] BY <1>3 DEF Prepares
    <3>2. seen \in Saved \cup {None} /\ pc \in {"gate", "asking", "approved"} BY <2>1
    <3> QED BY <3>1, <3>2
  <2>3. /\ calls' \in [Calls -> Call]
        /\ \A d \in Calls \ {c} : calls'[d] = calls[d]
        /\ calls'[c].at = pc
    <3> DEFINE new == [calls[c] EXCEPT !.seen = seen, !.at = pc]
    <3>1. new \in Call /\ new.at = pc
      <4>1. calls[c] \in Call BY <2>1
      <4> QED BY <4>1 DEF Call
    <3>2. calls' = [calls EXCEPT ![c] = new] BY <2>2
    <3> HIDE DEF new
    <3> QED BY <2>1, <3>1, <3>2
  <2>4. ~Executing(c)' /\ ~At(c, "editing")' BY <2>3 DEF Executing, At
  <2>5. settings.enabled BY <1>3 DEF IInv, Allowed
  <2> QED BY <1>1, <2>3, <2>4, <2>5, OneCallMoves
<1> QED BY <1>2, <1>3

\* Before the gate a call waits for the user and for the lock.
LEMMA WaitingSteps ==
  ASSUME IInv, NEW c \in Calls,
         Asks(c) \/ Answered(c) \/ Locks(c) \/ (\E answer \in {"yes", "no"} : Decide(c, answer))
  PROVE  IInv'
<1>1. CASE Asks(c)
  <2>1. UNCHANGED <<settings, available>> /\ ~At(c, "idle") BY <1>1 DEF Asks, deskVars, At
  <2>2. Ends(c) \/ Moves(c, "waiting") BY <1>1 DEF Asks
  <2> QED BY <2>1, <2>2, EndKeepsIInv, MoveKeepsIInv
<1>2. CASE Answered(c)
  <2>1. UNCHANGED <<settings, available>> BY <1>2 DEF Answered, deskVars
  <2>2. CASE Ends(c) BY <2>1, <2>2, EndKeepsIInv
  <2>3. CASE calls' = [calls EXCEPT ![c].at = "approved", ![c].reply = None]
    <3>1. calls \in [Calls -> Call] BY DEF IInv, Types
    <3>2. /\ calls' \in [Calls -> Call]
          /\ \A d \in Calls \ {c} : calls'[d] = calls[d]
          /\ calls'[c].at = "approved" /\ calls'[c].cancelled = calls[c].cancelled
      <4> DEFINE new == [calls[c] EXCEPT !.at = "approved", !.reply = None]
      <4>1. new \in Call /\ new.at = "approved" /\ new.cancelled = calls[c].cancelled
        <5>1. calls[c] \in Call BY <3>1
        <5> QED BY <5>1 DEF Call
      <4>2. calls' = [calls EXCEPT ![c] = new] BY <2>3
      <4> HIDE DEF new
      <4> QED BY <3>1, <4>1, <4>2
    <3>3. ~Executing(c)' /\ ~At(c, "editing")' BY <3>2 DEF Executing, At
    <3>4. calls'[c].cancelled \/ settings.enabled BY <1>2, <3>2 DEF IInv, Allowed, Answered, At
    <3> QED BY <2>1, <3>2, <3>3, <3>4, OneCallMoves
  <2> QED BY <1>2, <2>2, <2>3 DEF Answered
<1>3. CASE Locks(c)
  <2>1. UNCHANGED <<settings, available>> /\ ~At(c, "idle") BY <1>3 DEF Locks, deskVars, At
  <2>2. Ends(c) \/ Moves(c, "gate") BY <1>3 DEF Locks
  <2> QED BY <2>1, <2>2, EndKeepsIInv, MoveKeepsIInv
<1>4. ASSUME NEW answer \in {"yes", "no"}, Decide(c, answer) PROVE IInv'
  <2>1. calls \in [Calls -> Call] BY DEF IInv, Types
  <2>2. /\ calls' \in [Calls -> Call]
        /\ \A d \in Calls : /\ calls'[d].at = calls[d].at
                            /\ calls'[d].seen = calls[d].seen
                            /\ calls'[d].cancelled = calls[d].cancelled
    BY <1>4, <2>1 DEF Decide, Call
  <2> QED BY <1>4, <2>2, CallsCancelled DEF Decide, deskVars
<1> QED BY <1>1, <1>2, <1>3, <1>4

\* Behind the gate: a call that is not cancelled found AI switched on, and no
\* change can come in between.
LEMMA EntersStep ==
  ASSUME IInv, NEW c \in Calls, Enters(c)
  PROVE  IInv'
<1>1. UNCHANGED <<settings, available>> BY DEF Enters, deskVars
<1>2. CASE Ends(c) BY <1>1, <1>2, EndKeepsIInv
<1>3. CASE ~calls[c].cancelled /\ Moves(c, "running")
  <2>1. calls \in [Calls -> Call] BY DEF IInv, Types
  <2>2. /\ calls' \in [Calls -> Call]
        /\ \A d \in Calls \ {c} : calls'[d] = calls[d]
        /\ calls'[c].at = "running"
    BY <1>3, <2>1 DEF Moves, Call
  <2>3. settings.enabled BY <1>3 DEF IInv, Allowed, Enters, At
  <2>4. ~At(c, "editing")' BY <2>2 DEF At
  <2> QED BY <1>1, <2>2, <2>3, <2>4, OneCallMoves
<1> QED BY <1>2, <1>3 DEF Enters, GivesUp, Stopped

\* A rule tool goes on only with the settings it has shown, alone.
LEMMA RuleReadsStep ==
  ASSUME IInv, NEW c \in Calls, RuleReads(c)
  PROVE  IInv'
<1>1. UNCHANGED <<settings, available>> BY DEF RuleReads, deskVars
<1>2. CASE Ends(c) BY <1>1, <1>2, EndKeepsIInv
<1>3. CASE settings = calls[c].seen /\ Moves(c, "editing")
  <2>1. calls \in [Calls -> Call] BY DEF IInv, Types
  <2>2. /\ calls' \in [Calls -> Call]
        /\ \A d \in Calls \ {c} : calls'[d] = calls[d]
        /\ calls'[c].at = "editing" /\ calls'[c].seen = calls[c].seen
    BY <1>3, <2>1 DEF Moves, Call
  <2>3. settings.enabled BY DEF IInv, ToolsKeepBounds, NoToolWhenDisabled, Executing, RuleReads, At
  <2>4. ~Editing /\ settings.rules = calls'[c].seen.rules BY <1>3, <2>2 DEF RuleReads
  <2> QED BY <1>1, <2>2, <2>3, <2>4, OneCallMoves
<1> QED BY <1>2, <1>3 DEF RuleReads, StillShown, SameAsShown

\* A tool that ends may have changed the rest of the settings, or, if it held
\* the lock of the rules, the rules.
LEMMA ToolEnds ==
  ASSUME IInv, NEW c \in Calls, Executes(c) \/ RuleWrites(c)
  PROVE  IInv'
<1>1. Types BY DEF IInv
<1>2. Ends(c) /\ UNCHANGED available BY DEF Executes, RuleWrites
<1>3. /\ calls' \in [Calls -> Call]
      /\ calls'[c].at = "idle"
      /\ \A d \in Calls \ {c} : calls'[d] = calls[d]
  BY <1>1, <1>2, EndsKeeps
<1>4. /\ settings' \in Saved /\ settings'.enabled = settings.enabled
      /\ settings'.rules = settings.rules \/ At(c, "editing")
  BY <1>1 DEF Executes, RuleWrites, Types, Saved
<1>5. Types' BY <1>3, <1>4 DEF Types
<1>6. Allowed' BY <1>2, <1>3, <1>4 DEF IInv, Allowed, At
<1>7. OneEdits' BY <1>3 DEF IInv, OneEdits, At
<1>8. NoToolWhenDisabled'
  BY <1>3, <1>4 DEF IInv, ToolsKeepBounds, NoToolWhenDisabled, Executing
<1>9. EditsRulesShown'
  <2> SUFFICES ASSUME NEW d \in Calls, At(d, "editing")'
               PROVE  settings'.rules = calls'[d].seen.rules
    BY DEF EditsRulesShown
  <2>1. d # c /\ calls'[d] = calls[d] /\ At(d, "editing") BY <1>3 DEF At
  <2>2. ~At(c, "editing") BY <2>1 DEF IInv, OneEdits
  <2> QED BY <1>4, <2>1, <2>2 DEF IInv, ToolsKeepBounds, EditsRulesShown
<1> QED BY <1>5, <1>6, <1>7, <1>8, <1>9 DEF IInv, ToolsKeepBounds

\* A call whose time is over is cancelled, and goes on to notice it.
LEMMA TimesOutStep ==
  ASSUME IInv, NEW c \in Calls, TimesOut(c)
  PROVE  IInv'
<1>1. calls \in [Calls -> Call] BY DEF IInv, Types
<1>2. /\ calls' \in [Calls -> Call]
      /\ \A d \in Calls : /\ calls'[d].at = calls[d].at
                          /\ calls'[d].seen = calls[d].seen
                          /\ calls[d].cancelled => calls'[d].cancelled
  BY <1>1 DEF TimesOut, Call
<1> QED BY <1>2, CallsCancelled DEF TimesOut, deskVars

\* The pages, and what only concerns the external server.
LEMMA PageSteps ==
  ASSUME IInv,
         \/ SavesPreference \/ LoadsRules \/ SavesRules
         \/ \E change \in {"enable", "disable", "migrate"} : WantsLease(change)
         \/ CommitFails
         \/ \E m \in {"read-only", "full"} : EnableMCP(m)
  PROVE  IInv'
<1>1. settings \in Saved BY DEF IInv, Types
<1>2. UNCHANGED <<calls, available>>
  BY DEF SavesPreference, LoadsRules, SavesRules, WantsLease, CommitFails, EnableMCP
<1>3. /\ settings' \in Saved /\ settings'.enabled = settings.enabled
      /\ settings'.rules = settings.rules \/ ~Editing
  BY <1>1 DEF SavesPreference, LoadsRules, SavesRules, WantsLease, CommitFails, EnableMCP, deskVars, Saved
<1> QED BY <1>2, <1>3, NoCallMoves

\* The calls of external clients are cancelled with their server.
LEMMA DisableMCPStep ==
  ASSUME IInv, DisableMCP
  PROVE  IInv'
<1>1. calls \in [Calls -> Call] BY DEF IInv, Types
<1>2. /\ calls' \in [Calls -> Call]
      /\ \A d \in Calls : /\ calls'[d].at = calls[d].at
                          /\ calls'[d].seen = calls[d].seen
                          /\ calls[d].cancelled => calls'[d].cancelled
  BY <1>1 DEF DisableMCP, Call
<1> QED BY <1>2, CallsCancelled DEF DisableMCP, deskVars

\* The end of the desktop cancels every call.
LEMMA ShutdownStep ==
  ASSUME IInv, Shutdown
  PROVE  IInv'
<1>1. StopsAll /\ available' = "closed" /\ UNCHANGED settings BY DEF Shutdown, deskVars
<1> QED BY <1>1, AllStopped, CallsCancelled

\* The lease: nothing executes, so the settings may change, and all that is
\* under way when AI is switched off is cancelled.
LEMMA CommitsStep ==
  ASSUME IInv, Commits
  PROVE  IInv'
<1>1. settings \in Saved /\ calls \in [Calls -> Call] BY DEF IInv, Types
<1>2. \A c \in Calls : ~Executing(c) /\ ~At(c, "editing") BY DEF Commits, Executing, At
<1>3. CASE exclusive = "disable"
  <2>1. StopsAll /\ settings' = [settings EXCEPT !.enabled = FALSE] /\ available' # "on"
    BY <1>3 DEF Commits
  <2>2. /\ calls' \in [Calls -> Call]
        /\ \A c \in Calls : calls'[c].at = calls[c].at /\ (calls[c].at # "idle" => calls'[c].cancelled)
    BY <2>1, AllStopped
  <2>3. Types' BY <1>1, <2>1, <2>2 DEF Types, Saved
  <2>4. Allowed' BY <2>1, <2>2 DEF Allowed, At
  <2>5. \A c \in Calls : ~Executing(c)' /\ ~At(c, "editing")' BY <1>2, <2>2 DEF Executing, At
  <2> QED BY <2>3, <2>4, <2>5 DEF IInv, OneEdits, ToolsKeepBounds, NoToolWhenDisabled, EditsRulesShown
<1>4. CASE exclusive # "disable"
  <2>1. /\ UNCHANGED calls /\ settings' \in Saved
        /\ settings.enabled => settings'.enabled
        /\ available' = "on" => available = "on" \/ settings'.enabled
    <3>1. CASE settings' = [settings EXCEPT !.rules = @ + 1, !.rest = @ + 1] /\ UNCHANGED <<available, calls>>
      <4> DEFINE rules == settings.rules + 1
                 rest  == settings.rest + 1
      <4>0. rules \in Nat /\ rest \in Nat BY <1>1 DEF Saved
      <4>3. settings' = [settings EXCEPT !.rules = rules, !.rest = rest] BY <3>1
      <4> HIDE DEF rules, rest
      <4>1. settings' \in Saved BY <1>1, <4>0, <4>3 DEF Saved
      <4>2. settings'.enabled = settings.enabled BY <1>1, <4>3 DEF Saved
      <4> QED BY <3>1, <4>1, <4>2
    <3>2. CASE settings' = [settings EXCEPT !.enabled = TRUE] /\ UNCHANGED calls
      <4>1. settings' \in Saved BY <1>1, <3>2 DEF Saved
      <4>2. settings'.enabled = TRUE BY <1>1, <3>2 DEF Saved
      <4> QED BY <3>2, <4>1, <4>2
    <3> QED BY <1>4, <3>1, <3>2 DEF Commits
  <2>2. Types' BY <1>1, <2>1 DEF Types
  <2>3. Allowed' BY <2>1 DEF IInv, Allowed, At
  <2>4. \A c \in Calls : ~Executing(c)' /\ ~At(c, "editing")' BY <1>2, <2>1 DEF Executing, At
  <2> QED BY <2>2, <2>3, <2>4 DEF IInv, OneEdits, ToolsKeepBounds, NoToolWhenDisabled, EditsRulesShown
<1> QED BY <1>3, <1>4

-----------------------------------------------------------------------------
\* Switching AI off, a cancelled context, a saved page and other clients leave
\* no tool running that the user has not allowed, and none that edits rules
\* the user was not shown (ai_service.go:458-472, ai_tools.go:446-451).
THEOREM ToolsStayInBounds == Spec => []ToolsKeepBounds
<1>1. Init => IInv
  <2> SUFFICES ASSUME Init PROVE IInv OBVIOUS
  <2>1. /\ settings = [enabled |-> TRUE, rules |-> 1, rest |-> 1]
        /\ calls = [c \in Calls |-> Idle]
    BY DEF Init
  <2>2. \A c \in Calls : calls[c] \in Call /\ calls[c].at = "idle"
    BY <2>1 DEF Idle, Call, Tools, None
  <2>3. Types BY <2>1, <2>2 DEF Types, Saved
  <2>4. \A c \in Calls : At(c, "idle") /\ ~Executing(c) /\ ~At(c, "editing")
    BY <2>2 DEF At, Executing
  <2> QED BY <2>1, <2>3, <2>4
          DEF IInv, Allowed, OneEdits, ToolsKeepBounds, NoToolWhenDisabled, EditsRulesShown
<1>2. IInv /\ [Next]_vars => IInv'
  <2> SUFFICES ASSUME IInv, [Next]_vars PROVE IInv' OBVIOUS
  <2>1. CASE Send \/ ModelCalls \/ ChatEnds \/ Cancel \/ Refused BY <2>1, ChatSteps
  <2>2. ASSUME NEW c \in Calls, NEW tool \in Tools, Registers(c, tool) PROVE IInv'
    BY <2>2, RegistersStep
  <2>3. ASSUME NEW c \in Calls, Prepares(c) PROVE IInv' BY <2>3, PreparesStep
  <2>4. ASSUME NEW c \in Calls,
               Asks(c) \/ Answered(c) \/ Locks(c) \/ (\E answer \in {"yes", "no"} : Decide(c, answer))
        PROVE  IInv'
    BY <2>4, WaitingSteps
  <2>5. ASSUME NEW c \in Calls, Enters(c) PROVE IInv' BY <2>5, EntersStep
  <2>6. ASSUME NEW c \in Calls, Executes(c) \/ RuleWrites(c) PROVE IInv' BY <2>6, ToolEnds
  <2>7. ASSUME NEW c \in Calls, RuleReads(c) PROVE IInv' BY <2>7, RuleReadsStep
  <2>8. ASSUME NEW c \in Calls, TimesOut(c) PROVE IInv' BY <2>8, TimesOutStep
  <2>9. CASE \/ SavesPreference \/ LoadsRules \/ SavesRules
             \/ \E change \in {"enable", "disable", "migrate"} : WantsLease(change)
             \/ CommitFails
             \/ \E m \in {"read-only", "full"} : EnableMCP(m)
    BY <2>9, PageSteps
  <2>10. CASE Commits BY <2>10, CommitsStep
  <2>11. CASE DisableMCP BY <2>11, DisableMCPStep
  <2>12. CASE Shutdown BY <2>12, ShutdownStep
  <2>13. CASE UNCHANGED vars
    <3>1. UNCHANGED <<calls, settings, available>> BY <2>13 DEF vars, deskVars
    <3> QED BY <3>1, NoCallMoves DEF IInv, Types
  <2> QED BY <2>1, <2>2, <2>3, <2>4, <2>5, <2>6, <2>7, <2>8, <2>9, <2>10, <2>11, <2>12, <2>13 DEF Next
<1>3. IInv => ToolsKeepBounds BY DEF IInv
<1> QED BY <1>1, <1>2, <1>3, PTL DEF Spec
=============================================================================
