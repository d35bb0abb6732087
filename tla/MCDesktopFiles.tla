---------------------------- MODULE MCDesktopFiles ----------------------------
(***************************************************************************)
(* The parts of the desktop that keep files and go on with them after a    *)
(* crash, each on its own: the records of blocked domains, the settings,   *)
(* the updater and the installer. A behaviour is of one of them; the       *)
(* others stay where they are.                                             *)
(***************************************************************************)
EXTENDS BlockedDomains

CONSTANTS
  Preferences, Default, Legacy,           \* of Settings
  Stable, Preview, Versions, Prereleases,
  RunningVersion, Manifests, Mirrors,     \* of Updater
  Files, Payload,
  SetupReleases, MaxInstalls              \* of SetupTransaction

\* A channel has finitely many sources, a version is positive.
ASSUME UpdaterAssumption ==
  /\ IsFiniteSet(Stable) /\ IsFiniteSet(Preview)
  /\ Versions \subseteq Nat \ {0} /\ RunningVersion \in Nat

\* A release is a positive number; the first file is the executable of the
\* Core, which is part of the payload, and the release found is called 1.
ASSUME SetupAssumption ==
  /\ Files \in Nat /\ Payload \subseteq 1 .. Files /\ 1 \in Payload
  /\ SetupReleases \subseteq Nat \ {0} /\ 1 \in SetupReleases
  /\ MaxInstalls \in Nat

VARIABLES
  part,
  settingsFile, copy, legacy, memory, loaded, migration, autostart, pending, before,
  asked, answers, offered, operation, mirror, broken, download, app, helper,
  release, backup, staged, journal, service, policy, setup, installer, previous, installs

settingsVars == <<settingsFile, copy, legacy, memory, loaded, migration, autostart, pending, before>>
updaterVars  == <<asked, answers, offered, operation, mirror, broken, download, app, helper>>
setupVars    == <<release, backup, staged, journal, service, policy, setup, installer, previous, installs>>
allVars == <<part, vars, settingsVars, updaterVars, setupVars>>

Settings == INSTANCE Settings WITH
  file <- settingsFile, registry <- autostart
Updater == INSTANCE Updater WITH
  Current <- RunningVersion, Contents <- Manifests, file <- download
Setup == INSTANCE SetupTransaction WITH
  Releases <- SetupReleases, file <- release, helper <- setup, found <- previous

-----------------------------------------------------------------------------
\* What rests is in one of its initial states.
FilesInit ==
  /\ part \in {"records", "settings", "updater", "setup"}
  /\ Init /\ Settings!Init /\ Updater!Init /\ Setup!Init
  /\ part # "records"  => useExpiry
  /\ part # "settings" => settingsFile = Settings!Absent /\ legacy = Settings!Absent
  /\ part # "setup"    => policy = 0 /\ service.runs = Setup!Stopped /\ service.start = "missing"

\* The three others may come to rest.
FilesNext ==
  \/ part = "records"  /\ Next /\ UNCHANGED <<part, settingsVars, updaterVars, setupVars>>
  \/ part = "settings" /\ (Settings!Next \/ UNCHANGED settingsVars) /\ UNCHANGED <<part, vars, updaterVars, setupVars>>
  \/ part = "updater"  /\ (Updater!Next \/ UNCHANGED updaterVars) /\ UNCHANGED <<part, vars, settingsVars, setupVars>>
  \/ part = "setup"    /\ (Setup!Next \/ UNCHANGED setupVars) /\ UNCHANGED <<part, vars, settingsVars, updaterVars>>

FilesFairness ==
  /\ SF_vars(part = "records" /\ AskTelemetry) /\ SF_vars(part = "records" /\ TelemetryAnswers)
  /\ WF_vars(part = "records" /\ ApplySample)  /\ SF_vars(part = "records" /\ SyncPolicy(TRUE))
  /\ WF_vars(part = "records" /\ CommitRemoval)
  /\ WF_vars(part = "records" /\ (StartFails \/ EngineStarts))

FilesSpec == FilesInit /\ [][FilesNext]_allVars /\ FilesFairness

-----------------------------------------------------------------------------
\* Settings: a file that cannot be read is not replaced, and what the services
\* see is in the file.
SettingsAreKept == Settings!SettingsAreKept

\* Updater: the helper runs what was verified, once the desktop has gone, and
\* no release is offered that another source contradicts.
HandoverIsSafe == Updater!HandoverIsSafe
OfferIsAgreed  == Updater!OfferIsAgreed

\* SetupTransaction: whatever ends an installation, it is one release or the
\* other, with a service that fits.
InstallationIsWhole == Setup!InstallationIsWhole
=============================================================================
