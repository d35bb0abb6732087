-------------------------------- MODULE Updater --------------------------------
(***************************************************************************)
(* The updater of the desktop (desktop/internal/services/updater*.go).     *)
(*                                                                         *)
(* A check asks every source of the channel at the same time. A download   *)
(* tries one mirror after the other. An installation copies the desktop as *)
(* a helper, which locks and verifies the installer, tells the desktop     *)
(* that it is ready, waits for it to exit and runs the installer. One      *)
(* download or installation happens at a time, a check at any time. Other  *)
(* programs may change or remove the downloaded file, and any wait of the  *)
(* two processes for each other may end first.                             *)
(*                                                                         *)
(* A release is a version and what its manifest says; manifests come with  *)
(* a valid signature, or their source has failed.                          *)
(***************************************************************************)
EXTENDS Naturals, FiniteSets

CONSTANTS
  Stable, Preview,  \* the sources of the two channels
  Versions,         \* the versions that sources announce, natural numbers
  Prereleases,      \* those that are prereleases
  Current,          \* the version that runs
  Contents,         \* what manifests of one version may say
  Mirrors           \* the number of download mirrors of a release

VARIABLES
  asked,      \* the sources a running check asked
  answers,    \* what they answered
  offered,    \* the release offered to the user
  operation,  \* the download or installation that runs
  mirror,     \* the mirror being tried
  broken,     \* a mirror of this download sent another file
  file,       \* the downloaded installer
  app,        \* the desktop process, in an installation
  helper      \* the update helper

checkVars == <<asked, answers, offered>>
fetchVars == <<mirror, broken>>
vars == <<checkVars, operation, fetchVars, file, app, helper>>

Sources  == Stable \cup Preview
Releases == [version : Versions, content : Contents]
NoRelease(why) == [version |-> 0, content |-> why]
Waiting  == NoRelease("waiting")
Failed   == NoRelease("failed")
NoOffer  == NoRelease("none")
Waits    == {"none", "waiting", "quitting", "exited"}
Steps    == {"none", "lock", "verify", "ready", "waits", "installs", "ended"}

TypeOK ==
  /\ asked \subseteq Sources
  /\ answers \in [Sources -> Releases \cup {Waiting, Failed}]
  /\ offered \in Releases \cup {NoOffer}
  /\ operation \in {"none", "download", "install"}
  /\ mirror \in 0..Mirrors + 1 /\ broken \in BOOLEAN
  /\ file \in {"none", "genuine", "altered"}
  /\ app \in Waits
  /\ helper \in [at : Steps, told : {"nothing", "ready", "error"}, locked : BOOLEAN]

NoHelper == [at |-> "none", told |-> "nothing", locked |-> FALSE]

Init ==
  /\ asked = {} /\ answers = [s \in Sources |-> Failed]
  /\ offered = NoOffer
  /\ operation = "none" /\ mirror = 0 /\ broken = FALSE
  /\ file = "none" /\ app = "none"
  /\ helper = NoHelper

Alive == app # "exited"

-----------------------------------------------------------------------------
(* The check. *)

Asks(channel) ==
  /\ Alive /\ asked = {}
  /\ asked' = channel
  /\ answers' = [s \in Sources |-> IF s \in channel THEN Waiting ELSE Failed]
  /\ UNCHANGED <<offered, operation, fetchVars, file, app, helper>>

\* A stable source must not announce a prerelease.
SourceAnswers(s) ==
  /\ s \in asked /\ answers[s] = Waiting
  /\ \E r \in Releases \cup {Failed} :
       answers' = [answers EXCEPT ![s] =
                     IF r # Failed /\ s \in Stable /\ r.version \in Prereleases THEN Failed ELSE r]
  /\ UNCHANGED <<asked, offered, operation, fetchVars, file, app, helper>>

\* selectLatestRelease: the latest, when all that announce it say the same.
Candidates == {answers[s] : s \in Sources} \ {Failed}
Latest     == {r \in Candidates : \A other \in Candidates : other.version <= r.version}
FirstWins  == Latest # {}  \* defect: the first source is believed
Agreed     == Cardinality(Latest) = 1
Decides ==
  /\ asked # {} /\ \A s \in asked : answers[s] # Waiting
  /\ offered' \in IF Agreed /\ \A r \in Latest : r.version > Current THEN Latest ELSE {NoOffer}
  /\ asked' = {}
  /\ UNCHANGED <<answers, operation, fetchVars, file, app, helper>>

-----------------------------------------------------------------------------
(* The download. *)

BeginsDownload ==
  /\ Alive /\ offered # NoOffer
  /\ operation = "none"
  /\ operation' = "download"
  /\ mirror' = 1 /\ broken' = FALSE
  /\ file' = "none"
  /\ UNCHANGED <<checkVars, app, helper>>

\* The mirror does not answer, stalls, or sends too little.
MirrorFails ==
  /\ operation = "download" /\ mirror <= Mirrors
  /\ mirror' = mirror + 1
  /\ UNCHANGED <<checkVars, operation, broken, file, app, helper>>

\* The digest or the Authenticode signature of its file is wrong.
MirrorDiffers ==
  /\ operation = "download" /\ mirror <= Mirrors
  /\ mirror' = mirror + 1 /\ broken' = TRUE
  /\ UNCHANGED <<checkVars, operation, file, app, helper>>

\* A good file does not count once another mirror sent a wrong one.
MirrorDelivers ==
  /\ operation = "download" /\ mirror <= Mirrors
  /\ file' = IF broken THEN "none" ELSE "genuine"
  /\ operation' = "none"
  /\ UNCHANGED <<checkVars, fetchVars, app, helper>>

DownloadFails ==
  /\ operation = "download" /\ mirror > Mirrors
  /\ operation' = "none"
  /\ UNCHANGED <<checkVars, fetchVars, file, app, helper>>

-----------------------------------------------------------------------------
(* The installation: the desktop. *)

\* launchInstallerAfterExit verifies the file before it starts the helper.
BeginsInstall ==
  /\ app = "none" /\ operation = "none"
  /\ file = "genuine"
  /\ operation' = "install" /\ app' = "waiting"
  /\ helper' = [NoHelper EXCEPT !.at = "lock"]
  /\ UNCHANGED <<checkVars, fetchVars, file>>

SeesReady ==
  /\ app = "waiting" /\ helper.told = "ready"
  /\ app' = "quitting"
  /\ helper' = [helper EXCEPT !.told = "nothing"]
  /\ UNCHANGED <<checkVars, operation, fetchVars, file>>

SeesFailure ==
  /\ app = "waiting"
  /\ helper.told = "error" \/ helper.at = "ended"
  /\ app' = "none" /\ operation' = "none"
  /\ UNCHANGED <<checkVars, fetchVars, file, helper>>

\* After a minute the helper is killed and the desktop goes on.
GivesUp ==
  /\ app = "waiting"
  /\ app' = "none" /\ operation' = "none"
  /\ helper' = [NoHelper EXCEPT !.at = "ended"]
  /\ UNCHANGED <<checkVars, fetchVars, file>>

\* The desktop cleans the network up and exits; that may take forever.
Quits ==
  /\ app = "quitting"
  /\ app' = "exited" /\ asked' = {}
  /\ UNCHANGED <<answers, offered, operation, fetchVars, file, helper>>

-----------------------------------------------------------------------------
(* The installation: the helper. *)

HelperFails(step) ==
  /\ helper.at = step
  /\ helper' = [at |-> "ended", told |-> IF step \in {"lock", "verify"} THEN "error" ELSE helper.told,
                locked |-> FALSE]
  /\ UNCHANGED <<checkVars, operation, fetchVars, file, app>>

\* Nobody can change or remove the file from here on.
Locks ==
  /\ helper.at = "lock" /\ file # "none"
  /\ helper' = [helper EXCEPT !.at = "verify", !.locked = TRUE]
  /\ UNCHANGED <<checkVars, operation, fetchVars, file, app>>

Verifies ==
  /\ helper.at = "verify" /\ file = "genuine"
  /\ helper' = [helper EXCEPT !.at = "waits", !.told = "ready"]
  /\ UNCHANGED <<checkVars, operation, fetchVars, file, app>>

\* The wait for the desktop ends after three minutes, and so does the helper.
AnyWait  == TRUE  \* defect: the installer runs when the wait is over
Released == app = "exited"
RunsInstaller ==
  /\ helper.at = "waits" /\ Released
  /\ helper' = [helper EXCEPT !.at = "installs"]
  /\ UNCHANGED <<checkVars, operation, fetchVars, file, app>>

Installed ==
  /\ helper.at = "installs"
  /\ helper' = [helper EXCEPT !.at = "ended", !.locked = FALSE]
  /\ file' \in {"none", file}
  /\ UNCHANGED <<checkVars, operation, fetchVars, app>>

\* Other programs, and the cleaning of temporary files.
FileChanges ==
  /\ ~helper.locked /\ file # "none"
  /\ file' \in {"altered", "none"}
  /\ UNCHANGED <<checkVars, operation, fetchVars, app, helper>>

Next ==
  \/ Asks(Stable) \/ Asks(Sources) \/ \E s \in Sources : SourceAnswers(s)
  \/ Decides
  \/ BeginsDownload \/ MirrorFails \/ MirrorDiffers \/ MirrorDelivers \/ DownloadFails
  \/ BeginsInstall \/ SeesReady \/ SeesFailure \/ GivesUp \/ Quits
  \/ \E step \in {"lock", "verify", "waits", "installs"} : HelperFails(step)
  \/ Locks \/ Verifies \/ RunsInstaller \/ Installed
  \/ FileChanges

Spec == Init /\ [][Next]_vars

-----------------------------------------------------------------------------
(* What runs is what was verified, and only once the desktop has cleaned   *)
(* up and gone, whatever happened to the file, and whoever stopped waiting *)
(* (updater_windows.go:60-88, 131-171).                                    *)
HandoverIsSafe == helper.at = "installs" => file = "genuine" /\ app = "exited"

(* No release is offered that another source contradicts, that is no news, *)
(* or that is a prerelease on the stable channel                           *)
(* (updater.go:149-212, 346-369).                                          *)
OfferIsAgreed ==
  [][offered' # offered /\ offered' # NoOffer =>
       /\ offered'.version > Current
       /\ \A s \in asked : answers[s] # Failed =>
            answers[s].version < offered'.version \/ answers[s] = offered'
       /\ asked = Stable => offered'.version \notin Prereleases]_vars
=============================================================================
