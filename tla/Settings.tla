-------------------------------- MODULE Settings -------------------------------
(***************************************************************************)
(* The settings file of the desktop                                        *)
(* (desktop/internal/services/settings.go, dns_settings.go).               *)
(*                                                                         *)
(* Every change builds the next settings from those in memory, validates   *)
(* them, writes a temporary file, renames it over settings.json and only   *)
(* then replaces the memory.  A start loads the file, or migrates the      *)
(* configuration of the old version when there is none; when either cannot *)
(* be read nothing may be written.  A migration asked for by the user      *)
(* keeps a copy of the file for a rollback, and switching the start at     *)
(* boot changes the registry before the file.  The desktop may die between *)
(* any two steps, and the Task Manager changes the registry behind it.     *)
(*                                                                         *)
(* Preferences are one value; the home page's and the DNS settings are     *)
(* among them.                                                             *)
(***************************************************************************)
EXTENDS Naturals, FiniteSets

CONSTANTS Preferences,  \* values of the ordinary preferences
          Default, Legacy  \* those of a new and of a migrated installation

VARIABLES
  file, copy,       \* settings.json, and the copy of it a migration keeps
  legacy,           \* the configuration of the old version
  memory,           \* the settings as the services see them
  loaded,           \* whether the desktop runs, and could load its settings
  migration,        \* whether one applied, and whether it kept a copy
  registry,         \* the entry that starts the desktop at boot
  pending,          \* an operation between its two steps
  before            \* history: the preferences ahead of the applied migration

appVars  == <<memory, loaded, migration, pending>>
diskVars == <<file, copy>>
vars == <<diskVars, legacy, appVars, registry, before>>

Absent   == [state |-> "absent"]
Unusable == [state |-> "unusable"]
Readable == [state |-> "readable"]
Nothing  == [op |-> "none"]
Values   == Preferences \cup {Default, Legacy}
Contents == [preferences : Values, strict : BOOLEAN, wfp : {"unknown", "failed", "healthy"},
             atBoot : BOOLEAN, engineAtBoot : BOOLEAN]
DefaultSettings == [preferences |-> Default, strict |-> FALSE, wfp |-> "unknown",
                    atBoot |-> FALSE, engineAtBoot |-> FALSE]
LegacySettings  == [DefaultSettings EXCEPT !.preferences = Legacy, !.strict = TRUE, !.wfp = "failed"]
NoMigration     == [applied |-> FALSE, copied |-> FALSE]

TypeOK ==
  /\ file \in Contents \cup {Absent, Unusable} /\ copy \in Contents \cup {Absent, Unusable}
  /\ legacy \in {Absent, Unusable, Readable}
  /\ memory \in Contents /\ before \in Values \cup {"none"}
  /\ loaded \in {"no", "yes", "failed"}
  /\ migration \in [applied : BOOLEAN, copied : BOOLEAN]
  /\ registry \in BOOLEAN
  /\ pending.op \in {"none", "boot", "migrate"}

Init ==
  /\ file \in {Absent, Unusable, DefaultSettings} /\ copy = Absent
  /\ legacy \in {Absent, Unusable, Readable}
  /\ memory = DefaultSettings
  /\ loaded = "no" /\ migration = NoMigration
  /\ registry = FALSE /\ pending = Nothing /\ before = "none"

-----------------------------------------------------------------------------
(* Commits. *)

Refuses  == loaded = "failed"
WritesAnyway == FALSE  \* defect: the failed load is forgotten
MayNotWrite  == Refuses

Kept(next)    == memory' = next
Commit(next)  == ~MayNotWrite /\ file' = next /\ Kept(next)
CommitFails   == UNCHANGED <<file, memory>>

Free == loaded # "no" /\ pending = Nothing

Valid(next) == next.engineAtBoot => next.atBoot

\* What the page asks for, but not what belongs to the device.
Merged(next) ==
  [next EXCEPT !.wfp = IF next.strict /\ ~memory.strict THEN "unknown" ELSE memory.wfp]

-----------------------------------------------------------------------------
(* Starting. *)

LoadFile ==
  /\ file \notin {Absent, Unusable}
  /\ memory' = file /\ loaded' = "yes" /\ migration' = NoMigration
  /\ UNCHANGED <<file, before>>

LoadNothing ==
  /\ file = Absent /\ legacy = Absent
  /\ memory' = DefaultSettings /\ loaded' = "yes" /\ migration' = NoMigration
  /\ UNCHANGED <<file, before>>

LoadFails ==
  /\ file = Unusable \/ (file = Absent /\ legacy # Absent)
  /\ memory' = DefaultSettings /\ loaded' = "failed" /\ migration' = NoMigration
  /\ UNCHANGED <<file, before>>

FirstMigration ==
  /\ file = Absent /\ legacy = Readable
  /\ file' = LegacySettings /\ memory' = LegacySettings /\ loaded' = "yes"
  /\ migration' = [applied |-> TRUE, copied |-> FALSE] /\ before' = Default

Start ==
  /\ loaded = "no"
  /\ LoadFile \/ LoadNothing \/ LoadFails \/ FirstMigration
  /\ UNCHANGED <<copy, legacy, registry, pending>>

\* A crash, or the end of the desktop: the main program ends after LoadFails.
Ends ==
  /\ loaded # "no"
  /\ loaded' = "no" /\ pending' = Nothing /\ migration' = NoMigration /\ before' = "none"
  /\ UNCHANGED <<diskVars, legacy, memory, registry>>

-----------------------------------------------------------------------------
(* The pages and the engine. *)

\* UpdateFields changes the named fields of the settings as they are now.
UpdateFields ==
  /\ Free
  /\ \E p \in Preferences, s \in BOOLEAN :
       LET next == [memory EXCEPT !.preferences = p, !.strict = s]
       IN Valid(next) /\ (Commit(Merged(next)) \/ CommitFails)
  /\ UNCHANGED <<copy, legacy, loaded, migration, pending, registry, before>>

\* Update replaces everything by what a page has loaded, perhaps long ago.
Update ==
  /\ Free
  /\ \E next \in Contents : Valid(next) /\ (Commit(Merged(next)) \/ CommitFails)
  /\ UNCHANGED <<copy, legacy, loaded, migration, pending, registry, before>>

\* A start of the TUN remembers whether strict routing worked.
RemembersWFP ==
  /\ Free
  /\ \E w \in {"failed", "healthy"} : Commit([memory EXCEPT !.wfp = w]) \/ CommitFails
  /\ UNCHANGED <<copy, legacy, loaded, migration, pending, registry, before>>

-----------------------------------------------------------------------------
(* The start at boot: the registry, then the file. *)

SetAutostart(on) ==
  /\ Free
  /\ registry' = on
  /\ pending' = [op |-> "boot", on |-> on, was |-> registry]
  /\ UNCHANGED <<diskVars, legacy, memory, loaded, migration, before>>

\* The registry cannot be restored if that fails as well.
AutostartEnds ==
  /\ pending.op = "boot"
  /\ \/ /\ Commit([memory EXCEPT !.atBoot = pending.on, !.engineAtBoot = @ /\ pending.on])
        /\ UNCHANGED registry
     \/ CommitFails /\ registry' \in {pending.was, registry}
  /\ pending' = Nothing
  /\ UNCHANGED <<copy, legacy, loaded, migration, before>>

SetAutoStartEngine(on) ==
  /\ Free /\ (on => registry)
  /\ Commit([memory EXCEPT !.engineAtBoot = on, !.atBoot = @ \/ on]) \/ CommitFails
  /\ UNCHANGED <<copy, legacy, loaded, migration, pending, registry, before>>

TaskManager ==
  /\ registry' = ~registry
  /\ UNCHANGED <<diskVars, legacy, appVars, before>>

-----------------------------------------------------------------------------
(* The migration asked for by the user, and its rollback. *)

\* The copy is written over the earlier one.
MigrateLegacy ==
  /\ Free /\ legacy = Readable
  /\ IF file = Absent THEN UNCHANGED <<copy, migration>>
     ELSE copy' = file /\ migration' = [migration EXCEPT !.copied = TRUE]
  /\ pending' = [op |-> "migrate", copied |-> file # Absent]
  /\ UNCHANGED <<file, legacy, memory, loaded, registry, before>>

MigrateEnds ==
  /\ pending.op = "migrate"
  /\ \/ /\ Commit(LegacySettings)
        /\ migration' = [migration EXCEPT !.applied = TRUE]
        /\ before' = memory.preferences
        /\ UNCHANGED copy
     \/ /\ CommitFails
        /\ IF pending.copied /\ ~migration.applied
           THEN copy' = Absent /\ migration' = NoMigration ELSE UNCHANGED <<copy, migration>>
        /\ UNCHANGED before
  /\ pending' = Nothing
  /\ UNCHANGED <<legacy, loaded, registry>>

RollbackLegacy ==
  /\ Free /\ migration.applied
  /\ migration.copied => copy \notin {Absent, Unusable}
  /\ \/ /\ Commit(IF migration.copied THEN copy ELSE DefaultSettings)
        /\ migration' = [migration EXCEPT !.applied = FALSE] /\ before' = "none"
     \/ CommitFails /\ UNCHANGED <<migration, before>>
  /\ UNCHANGED <<copy, legacy, loaded, pending, registry>>

\* The user repairs or removes a file, as the message of LoadFails asks.
Repairs ==
  /\ loaded = "no"
  /\ \/ file = Unusable /\ file' \in {Absent, DefaultSettings} /\ UNCHANGED legacy
     \/ legacy = Unusable /\ legacy' \in {Absent, Readable} /\ UNCHANGED file
  /\ UNCHANGED <<copy, appVars, registry, before>>

Next ==
  \/ Start \/ Ends \/ UpdateFields \/ Update \/ RemembersWFP
  \/ \E on \in BOOLEAN : SetAutostart(on) \/ SetAutoStartEngine(on)
  \/ AutostartEnds \/ TaskManager
  \/ MigrateLegacy \/ MigrateEnds \/ RollbackLegacy \/ Repairs

Spec == Init /\ [][Next]_vars

-----------------------------------------------------------------------------
(* While a file cannot be read no operation of the desktop replaces it,    *)
(* nor puts settings beside an old configuration that could not be taken   *)
(* over (settings.go:121-128, 509-535, 806-808).                           *)
UnreadableIsKept == [][loaded = "failed" => file' = file]_vars

(* What the services act on is what a start would load: a crash loses no   *)
(* change that was answered with success and brings back none that failed  *)
(* (settings.go:793-865).                                                  *)
MemoryIsDurable ==
  loaded = "yes" => file = memory \/ (file = Absent /\ memory = DefaultSettings)

(* A migration that fails leaves the copy of one that applied, so that a   *)
(* rollback restores what was there before it (settings.go:212-214).       *)
CopyIsKept ==
  migration.applied /\ pending = Nothing =>
    IF migration.copied THEN copy.preferences = before ELSE before = Default
(* Whatever fails, the file is what the services act on, or what it was    *)
(* when it could not be read.                                              *)
SettingsAreKept == UnreadableIsKept /\ []MemoryIsDurable
=============================================================================
