------------------------------ MODULE AiAssistant ------------------------------
(***************************************************************************)
(* The tools of the AI assistant and of external MCP clients               *)
(* (desktop/internal/services/ai_service.go, ai_lifecycle.go, ai_mcp.go,   *)
(* ai_tools.go) next to the pages that change the same settings.           *)
(*                                                                         *)
(* A tool call is registered with a context, shows what it will do, waits  *)
(* for the user where it must, takes the lock of the operations, compares  *)
(* the settings with those it has shown, and runs with a read lease on the *)
(* availability of AI.  Switching AI off and migrating old settings take   *)
(* that lease for writing; an ordinary save does not.  A rule tool reads,  *)
(* changes and writes the rules under the lock that the rule page takes.   *)
(*                                                                         *)
(* Not modelled: the providers' formats and retries, redaction, and the    *)
(* history, which only grows.                                              *)
(***************************************************************************)
EXTENDS Naturals, FiniteSets

CONSTANTS
  Chat,       \* the call of the conversation, one at a time
  Clients,    \* the calls MCP lets run at once
  MaxEdits,   \* bound on the changes of each part of the settings
  MaxRounds   \* the requests to the model in a conversation

VARIABLES
  settings,   \* AI enabled, and which edit the rules and the rest are
  draft,      \* the rules the rule page has loaded, 0 when none
  exclusive,  \* a change that wants the lease for writing
  available,  \* what the assistant knows: "on", "disabled", "closed"
  mcp,        \* the server for external clients
  chat,       \* the conversation: state, round, and whether it was stopped
  calls,      \* the tool calls
  operation   \* the call that holds the lock of the operations

deskVars == <<settings, draft, exclusive>>
vars == <<deskVars, available, mcp, chat, calls, operation>>

None  == "none"
Calls == {Chat} \cup Clients
Tools == {"read", "rule", "schedule", "stop"}
Idle  == [at |-> "idle", tool |-> "read", cancelled |-> FALSE, seen |-> None, reply |-> None]
Quiet == [state |-> "idle", round |-> 0, cancelled |-> FALSE]

TypeOK ==
  /\ settings \in [enabled : BOOLEAN, rules : 1..MaxEdits, rest : 1..MaxEdits]
  /\ draft \in 0..MaxEdits
  /\ exclusive \in {None, "enable", "disable", "migrate"}
  /\ available \in {"on", "disabled", "closed"}
  /\ mcp \in {"off", "read-only", "full"}
  /\ chat \in [state : {"idle", "asking", "calling"}, round : 0..MaxRounds, cancelled : BOOLEAN]
  /\ \A c \in Calls :
       /\ calls[c].at \in {"idle", "registered", "asking", "waiting", "approved", "gate", "running", "editing"}
       /\ calls[c].tool \in Tools /\ calls[c].reply \in {None, "yes", "no"}
  /\ operation \in Calls \cup {None}

Init ==
  /\ settings = [enabled |-> TRUE, rules |-> 1, rest |-> 1]
  /\ draft = 0 /\ exclusive = None /\ available = "on" /\ mcp = "off"
  /\ chat = Quiet /\ calls = [c \in Calls |-> Idle] /\ operation = None

-----------------------------------------------------------------------------
At(c, pc)       == calls[c].at = pc
Moves(c, pc)    == calls' = [calls EXCEPT ![c].at = pc]
Writes(c)       == calls[c].tool # "read"

\* Of the assistant's own calls only the disruptive ones wait for the user.
NeedsApproval(c) == Writes(c) /\ (c # Chat \/ calls[c].tool = "stop")
Executing(c)    == calls[c].at \in {"running", "editing"}
Editing         == \E c \in Calls : At(c, "editing")  \* the lock of rule changes is held

Ends(c) ==
  /\ calls' = [calls EXCEPT ![c] = Idle]
  /\ operation' = IF operation = c THEN None ELSE operation
  /\ chat' = IF c = Chat THEN [chat EXCEPT !.state = "asking"] ELSE chat

-----------------------------------------------------------------------------
(* The conversation. *)

Send ==
  /\ available = "on" /\ chat.state = "idle"
  /\ chat' = [state |-> "asking", round |-> 1, cancelled |-> FALSE]
  /\ UNCHANGED <<deskVars, available, mcp, calls, operation>>

\* The model answers with calls, which run one after the other.
ModelCalls ==
  /\ chat.state = "asking" /\ ~chat.cancelled /\ chat.round < MaxRounds
  /\ chat' = [chat EXCEPT !.state = "calling", !.round = @ + 1]
  /\ UNCHANGED <<deskVars, available, mcp, calls, operation>>

\* An answer without calls, a failure, a timeout, or the summary at the limit.
ChatEnds ==
  /\ chat.state = "asking"
  /\ chat' = Quiet
  /\ UNCHANGED <<deskVars, available, mcp, calls, operation>>

Cancel ==
  /\ chat.state # "idle"
  /\ chat' = [chat EXCEPT !.cancelled = TRUE]
  /\ calls' = [calls EXCEPT ![Chat].cancelled = @ \/ calls[Chat].at # "idle"]
  /\ UNCHANGED <<deskVars, available, mcp, operation>>

-----------------------------------------------------------------------------
(* A tool call. *)

Registers(c, tool) ==
  /\ At(c, "idle") /\ available = "on"
  /\ IF c = Chat THEN chat.state = "calling" /\ ~chat.cancelled
     ELSE mcp = "full" \/ (mcp = "read-only" /\ tool = "read")
  /\ calls' = [calls EXCEPT ![c] = [Idle EXCEPT !.at = "registered", !.tool = tool]]
  /\ UNCHANGED <<deskVars, available, mcp, chat, operation>>

\* A call that is refused before it is registered.
Refused ==
  /\ chat.state = "calling" /\ At(Chat, "idle")
  /\ chat.cancelled \/ available # "on"
  /\ chat' = [chat EXCEPT !.state = "asking"]
  /\ UNCHANGED <<deskVars, available, mcp, calls, operation>>

\* What a write shows is bound to the settings as they are now.
Prepares(c) ==
  /\ At(c, "registered")
  /\ IF available # "on" THEN Ends(c)
     ELSE /\ calls' = [calls EXCEPT ![c].seen = IF Writes(c) THEN settings ELSE None,
                                    ![c].at = IF ~Writes(c) THEN "gate"
                                              ELSE IF NeedsApproval(c) THEN "asking" ELSE "approved"]
          /\ UNCHANGED <<chat, operation>>
  /\ UNCHANGED <<deskVars, available, mcp>>

Asks(c) ==
  /\ At(c, "asking")
  /\ IF available # "on" \/ calls[c].cancelled THEN Ends(c)
     ELSE Moves(c, "waiting") /\ UNCHANGED <<chat, operation>>
  /\ UNCHANGED <<deskVars, available, mcp>>

Decide(c, answer) ==
  /\ available = "on" /\ At(c, "waiting") /\ calls[c].reply = None
  /\ calls' = [calls EXCEPT ![c].reply = answer]
  /\ UNCHANGED <<deskVars, available, mcp, chat, operation>>

\* The answer and the end of the context may both be there.
Answered(c) ==
  /\ At(c, "waiting")
  /\ \/ calls[c].cancelled /\ Ends(c)
     \/ calls[c].reply = "no" /\ Ends(c)
     \/ /\ calls[c].reply = "yes"
        /\ calls' = [calls EXCEPT ![c].at = "approved", ![c].reply = None]
        /\ UNCHANGED <<chat, operation>>
  /\ UNCHANGED <<deskVars, available, mcp>>

Locks(c) ==
  /\ At(c, "approved") /\ operation = None
  /\ IF settings # calls[c].seen THEN Ends(c)
     ELSE operation' = c /\ Moves(c, "gate") /\ UNCHANGED chat
  /\ UNCHANGED <<deskVars, available, mcp>>

\* A change that waits for the lease keeps new calls out. Cancellation is
\* looked at again behind the gate.
Stopped(c)      == calls[c].cancelled
GivesUp(c)      == Stopped(c)
Enters(c) ==
  /\ At(c, "gate") /\ exclusive = None
  /\ IF GivesUp(c) THEN Ends(c) ELSE Moves(c, "running") /\ UNCHANGED <<chat, operation>>
  /\ UNCHANGED <<deskVars, available, mcp>>

\* A tool that only reads, fails, or changes nothing that is saved.
Executes(c) ==
  /\ At(c, "running") /\ calls[c].tool # "rule"
  /\ Ends(c)
  /\ settings' = settings \/ (calls[c].tool = "schedule" /\ settings.rest < MaxEdits
                               /\ settings' = [settings EXCEPT !.rest = @ + 1])
  /\ UNCHANGED <<draft, exclusive, available, mcp>>

\* patchAIRule compares the settings again, behind the lock of the rules.
SameAsShown(c) == settings = calls[c].seen
Trusts(c)      == TRUE  \* defect: only the operation's own check
StillShown(c)  == SameAsShown(c)
RuleReads(c) ==
  /\ At(c, "running") /\ calls[c].tool = "rule" /\ ~Editing
  /\ IF StillShown(c) THEN Moves(c, "editing") /\ UNCHANGED <<chat, operation>> ELSE Ends(c)
  /\ UNCHANGED <<deskVars, available, mcp>>

RuleWrites(c) ==
  /\ At(c, "editing")
  /\ Ends(c)
  /\ settings' = settings \/ (settings.rules < MaxEdits /\ settings' = [settings EXCEPT !.rules = @ + 1])
  /\ UNCHANGED <<draft, exclusive, available, mcp>>

\* The context of a call ends by its timeout.
TimesOut(c) ==
  /\ calls[c].at \notin {"idle", "editing"} /\ ~calls[c].cancelled
  /\ calls' = [calls EXCEPT ![c].cancelled = TRUE]
  /\ UNCHANGED <<deskVars, available, mcp, chat, operation>>

-----------------------------------------------------------------------------
(* The pages. *)

SavesPreference ==
  /\ settings.rest < MaxEdits
  /\ settings' = [settings EXCEPT !.rest = @ + 1]
  /\ UNCHANGED <<draft, exclusive, available, mcp, chat, calls, operation>>

LoadsRules ==
  /\ draft' = settings.rules
  /\ UNCHANGED <<settings, exclusive, available, mcp, chat, calls, operation>>

\* SaveOrderedChecked: the draft must be of the rules as they are.
SavesRules ==
  /\ draft # 0 /\ ~Editing
  /\ draft' = 0
  /\ IF draft = settings.rules /\ settings.rules < MaxEdits
     THEN settings' = [settings EXCEPT !.rules = @ + 1] ELSE UNCHANGED settings
  /\ UNCHANGED <<exclusive, available, mcp, chat, calls, operation>>

WantsLease(change) ==
  /\ exclusive = None
  /\ exclusive' = change
  /\ UNCHANGED <<settings, draft, available, mcp, chat, calls, operation>>

\* stopLocked: contexts, approvals and the external server.
StopsAll ==
  /\ calls' = [c \in Calls |->
       IF At(c, "idle") THEN Idle
       ELSE [calls[c] EXCEPT !.cancelled = TRUE,
                             !.reply = IF At(c, "waiting") /\ @ = None THEN "no" ELSE @]]
  /\ chat' = [chat EXCEPT !.cancelled = @ \/ chat.state # "idle"]
  /\ mcp' = "off"

\* With the lease; switching AI reaches the assistant in the same commit.
Commits ==
  /\ exclusive # None /\ \A c \in Calls : ~Executing(c)
  /\ exclusive' = None
  /\ \/ /\ exclusive = "migrate" /\ settings.rules < MaxEdits /\ settings.rest < MaxEdits
        /\ settings' = [settings EXCEPT !.rules = @ + 1, !.rest = @ + 1]
        /\ UNCHANGED <<available, mcp, chat, calls>>
     \/ /\ exclusive = "enable" /\ ~settings.enabled
        /\ settings' = [settings EXCEPT !.enabled = TRUE]
        /\ available' = IF available = "closed" THEN "closed" ELSE "on"
        /\ UNCHANGED <<mcp, chat, calls>>
     \/ /\ exclusive = "disable" /\ settings.enabled
        /\ settings' = [settings EXCEPT !.enabled = FALSE]
        /\ available' = IF available = "closed" THEN "closed" ELSE "disabled"
        /\ StopsAll
  /\ UNCHANGED <<draft, operation>>

\* The settings cannot be written, or nothing changes.
CommitFails ==
  /\ exclusive # None /\ \A c \in Calls : ~Executing(c)
  /\ exclusive' = None
  /\ UNCHANGED <<settings, draft, available, mcp, chat, calls, operation>>

EnableMCP(mode) ==
  /\ available = "on" /\ mcp = "off"
  /\ mcp' = mode
  /\ UNCHANGED <<deskVars, available, chat, calls, operation>>

DisableMCP ==
  /\ mcp # "off"
  /\ mcp' = "off"
  /\ calls' = [c \in Calls |-> IF c = Chat \/ At(c, "idle") THEN calls[c]
                               ELSE [calls[c] EXCEPT !.cancelled = TRUE]]
  /\ UNCHANGED <<deskVars, available, chat, operation>>

Shutdown ==
  /\ available # "closed"
  /\ available' = "closed" /\ StopsAll
  /\ UNCHANGED <<deskVars, operation>>

Next ==
  \/ Send \/ ModelCalls \/ ChatEnds \/ Cancel \/ Refused
  \/ \E c \in Calls : \/ \E t \in Tools : Registers(c, t)
                      \/ Prepares(c) \/ Asks(c) \/ Answered(c) \/ Locks(c) \/ Enters(c)
                      \/ Executes(c) \/ RuleReads(c) \/ RuleWrites(c) \/ TimesOut(c)
                      \/ \E answer \in {"yes", "no"} : Decide(c, answer)
  \/ SavesPreference \/ LoadsRules \/ SavesRules
  \/ \E change \in {"enable", "disable", "migrate"} : WantsLease(change)
  \/ Commits \/ CommitFails
  \/ \E mode \in {"read-only", "full"} : EnableMCP(mode)
  \/ DisableMCP \/ Shutdown

Spec == Init /\ [][Next]_vars

-----------------------------------------------------------------------------
(* No tool runs once switching AI off has been committed, although calls   *)
(* of every stage were under way and AI may have been switched on and off  *)
(* in between (settings.go:91-93, ai_service.go:464-472).                  *)
NoToolWhenDisabled == \A c \in Calls : Executing(c) => settings.enabled

(* A rule tool changes the very rules it has shown to the user: no save of *)
(* the rule page, no other call and no migration comes in between          *)
(* (ai_tools.go:446-451, settings.go:187-193).                             *)
EditsRulesShown == \A c \in Calls : At(c, "editing") => settings.rules = calls[c].seen.rules
(* What a tool does is what the user still allows, to what the user saw.   *)
ToolsKeepBounds == NoToolWhenDisabled /\ EditsRulesShown
=============================================================================
