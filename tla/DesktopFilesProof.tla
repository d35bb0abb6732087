-------------------------- MODULE DesktopFilesProof --------------------------
(***************************************************************************)
(* Proofs about the parts of the desktop that MCDesktopFiles composes: the *)
(* settings, the updater and the installer, for whatever the sizes of      *)
(* their sets.                                                             *)
(***************************************************************************)
EXTENDS MCDesktopFiles, FiniteSetTheorems, TLAPS

-----------------------------------------------------------------------------
(* Settings.                                                               *)

\* A commit replaces the file and what the services see together, and not after
\* a load that failed.
LEMMA CommitIsBoth ==
  ASSUME NEW next, Settings!Commit(next) \/ Settings!CommitFails
  PROVE  /\ loaded = "failed" => settingsFile' = settingsFile
         /\ settingsFile' = memory' \/ UNCHANGED <<settingsFile, memory>>
BY DEF Settings!Commit, Settings!CommitFails, Settings!MayNotWrite, Settings!Refuses, Settings!Kept

LEMMA SettingsStep ==
  ASSUME Settings!MemoryIsDurable, Settings!Next
  PROVE  Settings!MemoryIsDurable' /\ (loaded = "failed" => settingsFile' = settingsFile)
<1>1. CASE Settings!Start
  BY <1>1 DEF Settings!Start, Settings!LoadFile, Settings!LoadNothing, Settings!LoadFails,
              Settings!FirstMigration, Settings!MemoryIsDurable
<1>2. CASE Settings!Ends
  BY <1>2 DEF Settings!Ends, Settings!MemoryIsDurable, Settings!diskVars
<1>3. CASE Settings!UpdateFields
  BY <1>3, CommitIsBoth DEF Settings!UpdateFields, Settings!MemoryIsDurable
<1>4. CASE Settings!Update
  BY <1>4, CommitIsBoth DEF Settings!Update, Settings!MemoryIsDurable
<1>5. CASE Settings!RemembersWFP
  BY <1>5, CommitIsBoth DEF Settings!RemembersWFP, Settings!MemoryIsDurable
<1>6. ASSUME NEW on \in BOOLEAN, Settings!SetAutostart(on)
      PROVE  Settings!MemoryIsDurable' /\ (loaded = "failed" => settingsFile' = settingsFile)
  BY <1>6 DEF Settings!SetAutostart, Settings!MemoryIsDurable, Settings!diskVars
<1>7. ASSUME NEW on \in BOOLEAN, Settings!SetAutoStartEngine(on)
      PROVE  Settings!MemoryIsDurable' /\ (loaded = "failed" => settingsFile' = settingsFile)
  BY <1>7, CommitIsBoth DEF Settings!SetAutoStartEngine, Settings!MemoryIsDurable
<1>8. CASE Settings!AutostartEnds
  BY <1>8, CommitIsBoth DEF Settings!AutostartEnds, Settings!MemoryIsDurable
<1>9. CASE Settings!TaskManager
  BY <1>9 DEF Settings!TaskManager, Settings!MemoryIsDurable, Settings!diskVars, Settings!appVars
<1>10. CASE Settings!MigrateLegacy
  BY <1>10 DEF Settings!MigrateLegacy, Settings!MemoryIsDurable
<1>11. CASE Settings!MigrateEnds
  BY <1>11, CommitIsBoth DEF Settings!MigrateEnds, Settings!MemoryIsDurable
<1>12. CASE Settings!RollbackLegacy
  BY <1>12, CommitIsBoth DEF Settings!RollbackLegacy, Settings!MemoryIsDurable
<1>13. CASE Settings!Repairs
  BY <1>13 DEF Settings!Repairs, Settings!MemoryIsDurable, Settings!appVars
<1>. QED BY <1>1, <1>2, <1>3, <1>4, <1>5, <1>6, <1>7, <1>8, <1>9, <1>10, <1>11, <1>12, <1>13
        DEF Settings!Next

\* commitLocked and what calls it: no operation replaces a file that could not be
\* loaded, and what the services act on is what a start would load.
THEOREM SettingsSurvive == FilesSpec => SettingsAreKept
<1>1. FilesInit => Settings!MemoryIsDurable
  BY DEF FilesInit, Settings!Init, Settings!MemoryIsDurable
<1>2. Settings!MemoryIsDurable /\ [FilesNext]_allVars => Settings!MemoryIsDurable'
  BY SettingsStep DEF FilesNext, allVars, settingsVars, Settings!MemoryIsDurable
<1>3. Settings!MemoryIsDurable /\ [FilesNext]_allVars
        => [loaded = "failed" => settingsFile' = settingsFile]_(Settings!vars)
  BY SettingsStep DEF FilesNext, allVars, settingsVars, Settings!vars, Settings!diskVars,
                      Settings!appVars
<1>. QED BY <1>1, <1>2, <1>3, PTL
        DEF FilesSpec, SettingsAreKept, Settings!SettingsAreKept, Settings!UnreadableIsKept

-----------------------------------------------------------------------------
(* Updater: the handover.                                                  *)

Helpers == [at : Updater!Steps, told : {"nothing", "ready", "error"}, locked : BOOLEAN]
AtWork  == {"lock", "verify", "waits", "installs"}

\* While the helper works the desktop does nothing else with the file; from the
\* verification on nobody does; and only a desktop that has gone is replaced.
HandoverInv ==
  /\ helper \in Helpers
  /\ helper.at \in AtWork => operation = "install"
  /\ helper.told = "error" => helper.at = "ended"
  /\ helper.at \in AtWork \ {"lock"} => helper.locked
  /\ helper.at \in {"waits", "installs"} => download = "genuine"
  /\ helper.at = "installs" => app = "exited"

\* What the helper was told or tells is no step of it.
LEMMA HelperWith ==
  ASSUME helper \in Helpers
  PROVE  /\ \A step \in Updater!Steps :
              LET h == [helper EXCEPT !.at = step]
              IN h \in Helpers /\ h.at = step /\ h.told = helper.told /\ h.locked = helper.locked
         /\ LET h == [helper EXCEPT !.told = "nothing"]
            IN h \in Helpers /\ h.at = helper.at /\ h.told = "nothing" /\ h.locked = helper.locked
         /\ LET h == [helper EXCEPT !.at = "verify", !.locked = TRUE]
            IN h \in Helpers /\ h.at = "verify" /\ h.told = helper.told /\ h.locked
         /\ LET h == [helper EXCEPT !.at = "waits", !.told = "ready"]
            IN h \in Helpers /\ h.at = "waits" /\ h.told = "ready" /\ h.locked = helper.locked
         /\ LET h == [helper EXCEPT !.at = "ended", !.locked = FALSE]
            IN h \in Helpers /\ h.at = "ended" /\ h.told = helper.told
BY DEF Helpers, Updater!Steps

LEMMA NewHelper ==
  ASSUME NEW step \in Updater!Steps
  PROVE  LET h == [Updater!NoHelper EXCEPT !.at = step]
         IN h \in Helpers /\ h.at = step /\ h.told = "nothing"
BY DEF Updater!NoHelper, Helpers, Updater!Steps

\* A download that runs is not an installation.
LEMMA DownloadKeepsHandover ==
  ASSUME HandoverInv, UNCHANGED <<app, helper>>,
         \/ operation \in {"none", "download"}
         \/ UNCHANGED operation /\ (UNCHANGED download \/ ~helper.locked)
  PROVE  HandoverInv'
BY DEF HandoverInv, AtWork

LEMMA InstallKeepsHandover ==
  ASSUME HandoverInv,
         \/ Updater!BeginsInstall \/ Updater!SeesReady \/ Updater!SeesFailure
         \/ Updater!GivesUp \/ Updater!Quits
  PROVE  HandoverInv'
<1>1. CASE Updater!BeginsInstall
  BY <1>1, NewHelper DEF Updater!BeginsInstall, HandoverInv, AtWork, Updater!Steps
<1>2. CASE Updater!SeesReady
  BY <1>2, HelperWith DEF Updater!SeesReady, HandoverInv, AtWork
<1>3. CASE Updater!SeesFailure
  BY <1>3 DEF Updater!SeesFailure, HandoverInv, AtWork
<1>4. CASE Updater!GivesUp
  BY <1>4, NewHelper DEF Updater!GivesUp, HandoverInv, AtWork, Updater!Steps
<1>5. CASE Updater!Quits
  BY <1>5 DEF Updater!Quits, HandoverInv, AtWork
<1>. QED BY <1>1, <1>2, <1>3, <1>4, <1>5

LEMMA HelperKeepsHandover ==
  ASSUME HandoverInv,
         \/ \E step \in AtWork : Updater!HelperFails(step)
         \/ Updater!Locks \/ Updater!Verifies \/ Updater!RunsInstaller \/ Updater!Installed
  PROVE  HandoverInv'
<1>1. ASSUME NEW step \in AtWork, Updater!HelperFails(step)
      PROVE  HandoverInv'
  <2>1. helper' \in Helpers /\ helper'.at = "ended"
    BY <1>1 DEF Updater!HelperFails, HandoverInv, Helpers, Updater!Steps
  <2>. QED BY <2>1 DEF HandoverInv, AtWork
<1>2. CASE Updater!Locks
  BY <1>2, HelperWith DEF Updater!Locks, HandoverInv, AtWork
<1>3. CASE Updater!Verifies
  BY <1>3, HelperWith DEF Updater!Verifies, HandoverInv, AtWork
<1>4. CASE Updater!RunsInstaller
  <2>1. helper'.at = "installs" /\ helper' \in Helpers /\ helper'.told = helper.told
        /\ helper'.locked = helper.locked
    BY <1>4, HelperWith DEF Updater!RunsInstaller, HandoverInv, Updater!Steps
  <2>. QED BY <1>4, <2>1 DEF Updater!RunsInstaller, Updater!Released, HandoverInv, AtWork
<1>5. CASE Updater!Installed
  BY <1>5, HelperWith DEF Updater!Installed, HandoverInv, AtWork
<1>. QED BY <1>1, <1>2, <1>3, <1>4, <1>5

LEMMA UpdaterKeepsHandover ==
  ASSUME HandoverInv, Updater!Next
  PROVE  HandoverInv'
<1>1. CASE \/ Updater!Asks(Stable) \/ Updater!Asks(Updater!Sources)
           \/ \E s \in Updater!Sources : Updater!SourceAnswers(s)
           \/ Updater!Decides
  BY <1>1, DownloadKeepsHandover DEF Updater!Asks, Updater!SourceAnswers, Updater!Decides
<1>2. CASE \/ Updater!BeginsDownload \/ Updater!MirrorFails \/ Updater!MirrorDiffers
           \/ Updater!MirrorDelivers \/ Updater!DownloadFails
  BY <1>2, DownloadKeepsHandover
     DEF Updater!BeginsDownload, Updater!MirrorFails, Updater!MirrorDiffers,
         Updater!MirrorDelivers, Updater!DownloadFails
<1>3. CASE Updater!FileChanges
  BY <1>3, DownloadKeepsHandover DEF Updater!FileChanges
<1>. QED BY <1>1, <1>2, <1>3, InstallKeepsHandover, HelperKeepsHandover DEF Updater!Next, AtWork

\* launchInstallerAfterExit and runUpdateHelper: what runs is what was verified,
\* and only once the desktop has gone.
THEOREM HandoverSafe == FilesSpec => []HandoverIsSafe
<1>1. FilesInit => HandoverInv
  BY DEF FilesInit, Updater!Init, Updater!NoHelper, HandoverInv, Helpers, Updater!Steps, AtWork
<1>2. HandoverInv /\ [FilesNext]_allVars => HandoverInv'
  BY UpdaterKeepsHandover DEF FilesNext, allVars, updaterVars, HandoverInv
<1>3. HandoverInv => HandoverIsSafe
  BY DEF HandoverInv, HandoverIsSafe, Updater!HandoverIsSafe
<1>. QED BY <1>1, <1>2, <1>3, PTL DEF FilesSpec

-----------------------------------------------------------------------------
(* Updater: the offer.                                                     *)

Answers == [Updater!Sources -> Updater!Releases \cup {Updater!Waiting, Updater!Failed}]

\* Nobody answers who was not asked, and no stable source with a prerelease.
AnswersInv ==
  /\ asked \subseteq Updater!Sources /\ answers \in Answers
  /\ asked # {} => \A s \in Updater!Sources \ asked : answers[s] = Updater!Failed
  /\ \A s \in Stable : answers[s] \in Updater!Releases => answers[s].version \notin Prereleases

LEMMA NoRelease ==
  /\ Updater!Waiting \notin Updater!Releases /\ Updater!Failed \notin Updater!Releases
  /\ Updater!NoOffer \notin Updater!Releases /\ Updater!Waiting # Updater!Failed
BY UpdaterAssumption DEF Updater!Waiting, Updater!Failed, Updater!NoOffer, Updater!NoRelease,
                         Updater!Releases

LEMMA UpdaterKeepsAnswers ==
  ASSUME AnswersInv, Updater!Next
  PROVE  AnswersInv'
<1>1. ASSUME NEW channel \in {Stable, Updater!Sources}, Updater!Asks(channel)
      PROVE  AnswersInv'
  <2>1. answers' \in Answers /\ \A s \in Updater!Sources :
          answers'[s] = IF s \in channel THEN Updater!Waiting ELSE Updater!Failed
    BY <1>1 DEF Updater!Asks, Answers
  <2>. QED BY <1>1, <2>1, NoRelease DEF Updater!Asks, AnswersInv, Updater!Sources
<1>2. ASSUME NEW s \in Updater!Sources, Updater!SourceAnswers(s)
      PROVE  AnswersInv'
  <2>1. PICK r \in Updater!Releases \cup {Updater!Failed} :
          answers' = [answers EXCEPT ![s] =
            IF r # Updater!Failed /\ s \in Stable /\ r.version \in Prereleases
            THEN Updater!Failed ELSE r]
    BY <1>2 DEF Updater!SourceAnswers
  <2>2. answers' \in Answers /\ \A q \in Updater!Sources : answers'[q] =
          IF q # s THEN answers[q]
          ELSE IF r # Updater!Failed /\ s \in Stable /\ r.version \in Prereleases
               THEN Updater!Failed ELSE r
    BY <2>1 DEF AnswersInv, Answers
  <2>3. s \in asked /\ UNCHANGED asked
    BY <1>2 DEF Updater!SourceAnswers
  <2>. QED BY <2>2, <2>3, NoRelease DEF AnswersInv, Updater!Sources
<1>3. CASE Updater!Decides
  BY <1>3 DEF Updater!Decides, AnswersInv
<1>4. CASE Updater!Quits
  BY <1>4 DEF Updater!Quits, AnswersInv
<1>5. CASE UNCHANGED <<asked, answers>>
  BY <1>5 DEF AnswersInv
<1>. QED BY <1>1, <1>2, <1>3, <1>4, <1>5
        DEF Updater!Next, Updater!checkVars, Updater!BeginsDownload, Updater!MirrorFails,
            Updater!MirrorDiffers, Updater!MirrorDelivers, Updater!DownloadFails,
            Updater!BeginsInstall, Updater!SeesReady, Updater!SeesFailure, Updater!GivesUp,
            Updater!HelperFails, Updater!Locks, Updater!Verifies, Updater!RunsInstaller,
            Updater!Installed, Updater!FileChanges

\* What the module counts with is the operator the library proves facts about.
LEMMA SameCardinality == \A S : Updater!Cardinality(S) = Cardinality(S)
BY DEF Updater!Cardinality, Cardinality

\* What the sources announce is finite, so one release alone is the latest when
\* their number is one.
LEMMA AgreedIsOne ==
  ASSUME AnswersInv, Updater!Agreed
  PROVE  \A a, b \in Updater!Latest : a = b
<1> DEFINE Said == {answers[s] : s \in Updater!Sources}
<1>1. IsFiniteSet(Updater!Sources)
  BY FS_Union, UpdaterAssumption DEF Updater!Sources
<1>2. answers \in Surjection(Updater!Sources, Said)
  BY DEF AnswersInv, Answers, Surjection
<1>3. IsFiniteSet(Said)
  BY <1>1, <1>2, FS_Surjection
<1>4. IsFiniteSet(Updater!Latest)
  BY <1>3, FS_Subset DEF Updater!Latest, Updater!Candidates
<1>5. Cardinality(Updater!Latest) = 1
  BY SameCardinality DEF Updater!Agreed
<1>6. \E r : Updater!Latest = {r}
  BY <1>4, <1>5, FS_Singleton
<1>. QED BY <1>6

\* The one step that offers something.
LEMMA DecisionIsAgreed ==
  ASSUME AnswersInv, Updater!Decides, offered' # Updater!NoOffer
  PROVE  /\ offered'.version > RunningVersion
         /\ \A s \in asked : answers[s] # Updater!Failed =>
              answers[s].version < offered'.version \/ answers[s] = offered'
         /\ asked = Stable => offered'.version \notin Prereleases
<1>1. /\ asked # {} /\ \A s \in asked : answers[s] # Updater!Waiting
      /\ Updater!Agreed /\ offered' \in Updater!Latest
      /\ \A r \in Updater!Latest : r.version > RunningVersion
  BY DEF Updater!Decides
<1>2. \A s \in Updater!Sources : answers[s] # Updater!Failed =>
        /\ s \in asked /\ answers[s] \in Updater!Releases
        /\ answers[s].version \in Nat
        /\ answers[s] \in Updater!Candidates
  BY <1>1, UpdaterAssumption DEF AnswersInv, Answers, Updater!Releases, Updater!Candidates
<1>3. PICK source \in Updater!Sources :
        offered' = answers[source] /\ answers[source] # Updater!Failed
  BY <1>1 DEF Updater!Latest, Updater!Candidates
<1>4. \A s \in asked : answers[s] # Updater!Failed =>
        answers[s].version < offered'.version \/ answers[s] = offered'
  <2>. SUFFICES ASSUME NEW s \in asked, answers[s] # Updater!Failed,
                       ~(answers[s].version < offered'.version)
                PROVE  answers[s] = offered'
    OBVIOUS
  <2>1. s \in Updater!Sources
    BY DEF AnswersInv
  <2>2. answers[s].version <= offered'.version
    BY <1>1, <1>2, <2>1 DEF Updater!Latest
  <2>3. answers[s].version = offered'.version
    BY <1>2, <1>3, <2>1, <2>2
  <2>4. answers[s] \in Updater!Latest
    BY <1>1, <1>2, <2>1, <2>3 DEF Updater!Latest
  <2>. QED BY <1>1, <2>4, AgreedIsOne
<1>5. asked = Stable => offered'.version \notin Prereleases
  BY <1>2, <1>3 DEF AnswersInv
<1>. QED BY <1>1, <1>4, <1>5

LEMMA OnlyDecisionsOffer ==
  ASSUME Updater!Next, offered' # offered
  PROVE  Updater!Decides
BY DEF Updater!Next, Updater!checkVars, Updater!Asks, Updater!SourceAnswers,
       Updater!BeginsDownload, Updater!MirrorFails, Updater!MirrorDiffers,
       Updater!MirrorDelivers, Updater!DownloadFails, Updater!BeginsInstall,
       Updater!SeesReady, Updater!SeesFailure, Updater!GivesUp, Updater!Quits,
       Updater!HelperFails, Updater!Locks, Updater!Verifies, Updater!RunsInstaller,
       Updater!Installed, Updater!FileChanges

\* checkForUpdate and selectLatestRelease: nothing is offered that another source
\* contradicts, that is not newer, or that the channel does not allow.
THEOREM OfferAgreed == FilesSpec => OfferIsAgreed
<1>1. FilesInit => AnswersInv
  BY NoRelease DEF FilesInit, Updater!Init, AnswersInv, Answers, Updater!Sources
<1>2. AnswersInv /\ [FilesNext]_allVars => AnswersInv'
  BY UpdaterKeepsAnswers DEF FilesNext, allVars, updaterVars, AnswersInv
<1>3. AnswersInv /\ [FilesNext]_allVars =>
        [offered' # offered /\ offered' # Updater!NoOffer =>
           /\ offered'.version > RunningVersion
           /\ \A s \in asked : answers[s] # Updater!Failed =>
                answers[s].version < offered'.version \/ answers[s] = offered'
           /\ asked = Stable => offered'.version \notin Prereleases]_(Updater!vars)
  BY OnlyDecisionsOffer, DecisionIsAgreed DEF FilesNext, allVars, updaterVars
<1>. QED BY <1>1, <1>2, <1>3, PTL DEF FilesSpec, OfferIsAgreed, Updater!OfferIsAgreed

-----------------------------------------------------------------------------
(* SetupTransaction: the inductive invariant, in named parts.              *)

Whole(files)  == \E r \in SetupReleases \cup {Setup!Absent} : \A i \in Payload : files[i] = r
SetupFiles    == [Setup!Items -> Setup!Images]
SetupJournals == [phase : Setup!Settled \cup Setup!Unfinished,
                  old : SetupFiles, new : SetupReleases,
                  system : Setup!Systems]
SetupHelpers  == [op : Setup!Operations \cup {"none"}, at : Setup!Steps \cup {"idle"}, item : Nat,
                  failed : BOOLEAN]
Installers    == [does : Setup!Installing \cup {"none"}, active : BOOLEAN, release : SetupReleases]

SetupTypes ==
  /\ release \in SetupFiles /\ backup \in SetupFiles /\ staged \in SetupFiles
  /\ journal \in SetupJournals
  /\ service \in Setup!Services /\ policy \in Setup!Images /\ previous \in Setup!Systems
  /\ setup \in SetupHelpers /\ installer \in Installers

\* What a journal that is not over can give back.
JournalInv ==
  /\ Setup!BackupsLast /\ Setup!AllOrNothing
  /\ journal.phase \in Setup!Unfinished =>
       /\ Whole(journal.old)
       /\ journal.system.service.start = previous.service.start
       /\ journal.system.policy = previous.policy

\* Nothing starts the Core by itself unless the files are whole.
CoreInv ==
  /\ Setup!CoreIsWhole
  /\ service.start \in {"auto", "manual"} => Whole(release)

CoreOff  == service.start \in {"missing", "disabled"} /\ service.runs = Setup!Stopped
Applying == journal.phase = "applying" /\ \A i \in Payload : staged[i] = journal.new
Undoing  == setup.op \in {"rollback", "recover", "begin"} /\ journal.phase = "rolling-back"
Restoring == {"unregister", "register", "configure", "restart", "record"}

\* How far the helper has come.
HelperInv ==
  /\ setup.at # "idle" => installer.does = setup.op /\ setup.op \in Setup!Operations
  /\ setup.at = "backup" =>
       /\ setup.op = "begin" /\ journal.phase \in Setup!Settled
       /\ service.start = previous.service.start /\ policy = previous.policy
       /\ \A i \in Setup!Items : i < setup.item => backup[i] = release[i]
  /\ setup.at \in {"quiesce", "stop"} => (setup.op = "apply" /\ Applying) \/ Undoing
  /\ setup.at = "stop" => service.start \in {"missing", "disabled"}
  /\ setup.at = "copy" =>
       /\ setup.op = "apply" /\ Applying /\ CoreOff
       /\ \A i \in Payload : i < setup.item => release[i] = journal.new
  /\ setup.at = "undo" =>
       /\ Undoing /\ CoreOff
       /\ \A i \in Setup!Items : i < setup.item => release[i] = journal.old[i]
  /\ setup.at \in Restoring => Undoing /\ release = journal.old
  /\ setup.at \in {"configure", "restart", "record"} => policy = journal.system.policy
  /\ setup.at = "restart" =>
       service.start = IF /\ journal.system.service.start = "disabled"
                          /\ journal.system.service.runs # Setup!Stopped
                       THEN "manual" ELSE journal.system.service.start
  /\ setup.at = "record" => service.start = journal.system.service.start
  /\ setup.at = "cleanup" => setup.op = "commit" /\ journal.phase = "committed"

\* How far the installer has come.
InstallerInv ==
  /\ installer.does = "stop" => journal.phase = "prepared"
  /\ installer.does \in {"configure", "invalidate", "pin", "start", "write"} =>
       journal.phase = "applying" /\ \A i \in Payload : release[i] = journal.new

SetupInv == SetupTypes /\ JournalInv /\ CoreInv /\ HelperInv /\ InstallerInv

-----------------------------------------------------------------------------
(* SetupTransaction: what its records are.                                 *)

LEMMA SetupGoesTo ==
  ASSUME setup \in SetupHelpers, NEW step \in Setup!Steps, Setup!GoTo(step)
  PROVE  /\ setup' \in SetupHelpers /\ setup'.at = step /\ setup'.op = setup.op
         /\ setup'.item = 1
BY DEF SetupHelpers, Setup!GoTo

LEMMA SetupStepsTo ==
  ASSUME setup \in SetupHelpers, NEW step \in Setup!Steps, setup' = [setup EXCEPT !.at = step]
  PROVE  /\ setup' \in SetupHelpers /\ setup'.at = step /\ setup'.op = setup.op
         /\ setup'.failed = setup.failed
BY DEF SetupHelpers

LEMMA SetupNextItem ==
  ASSUME setup \in SetupHelpers, Setup!NextItem
  PROVE  /\ setup' \in SetupHelpers /\ setup'.at = setup.at /\ setup'.op = setup.op
         /\ setup'.item = setup.item + 1
BY DEF SetupHelpers, Setup!NextItem

LEMMA SetupIdle ==
  /\ Setup!Idle \in SetupHelpers /\ Setup!Idle.at = "idle"
  /\ "idle" \notin Setup!Steps
BY DEF SetupHelpers, Setup!Idle, Setup!Steps

\* What an installer does next.
LEMMA InstallerGoes ==
  ASSUME installer \in Installers, NEW next \in Setup!Installing \cup {"none"},
         \/ installer' = [installer EXCEPT !.does = next]
         \/ \E active \in BOOLEAN : installer' = [installer EXCEPT !.does = next, !.active = active]
  PROVE  installer' \in Installers /\ installer'.does = next
BY DEF Installers

LEMMA SetupFails ==
  ASSUME installer \in Installers, Setup!Fails
  PROVE  /\ setup' = Setup!Idle
         /\ installer' \in Installers /\ installer'.does \in {"rollback", "none"}
<1> DEFINE next == IF installer.active THEN "rollback" ELSE "none"
<1>1. next \in {"rollback", "none"} /\ next \in Setup!Installing \cup {"none"}
  BY DEF Setup!Installing, Setup!Operations
<1>2. setup' = Setup!Idle /\ installer' = [installer EXCEPT !.does = next, !.active = FALSE]
  BY DEF Setup!Fails
<1>. HIDE DEF next
<1>. QED BY <1>1, <1>2, InstallerGoes

LEMMA SetupSucceeds ==
  ASSUME installer \in Installers, Setup!Succeeds
  PROVE  /\ setup' = Setup!Idle
         /\ installer' \in Installers
         /\ installer.does = "recover" => installer'.does = "begin"
         /\ installer.does = "begin" => installer'.does = "stop"
         /\ installer.does = "apply" => installer'.does = "configure"
         /\ installer.does \in {"commit", "rollback"} => installer'.does = "none"
<1> DEFINE active == (installer.does = "begin") \/ (installer.active /\ installer.does # "commit")
<1>1. /\ Setup!After \in Setup!Installing \cup {"none"}
      /\ installer.does = "recover" => Setup!After = "begin"
      /\ installer.does = "begin" => Setup!After = "stop"
      /\ installer.does = "apply" => Setup!After = "configure"
      /\ installer.does \in {"commit", "rollback"} => Setup!After = "none"
  BY DEF Setup!After, Setup!Installing, Setup!Operations
<1>2. active \in BOOLEAN
  OBVIOUS
<1>3. /\ setup' = Setup!Idle
      /\ installer' = [installer EXCEPT !.does = Setup!After, !.active = active]
  BY DEF Setup!Succeeds, Installers
<1>. HIDE DEF active
<1>. QED BY <1>1, <1>2, <1>3, InstallerGoes

LEMMA JournalWith ==
  ASSUME journal \in SetupJournals, NEW phase \in Setup!Settled \cup Setup!Unfinished,
         journal' = [journal EXCEPT !.phase = phase]
  PROVE  /\ journal' \in SetupJournals /\ journal'.phase = phase /\ journal'.old = journal.old
         /\ journal'.new = journal.new /\ journal'.system = journal.system
BY DEF SetupJournals

LEMMA JournalFields ==
  ASSUME journal \in SetupJournals
  PROVE  /\ journal.phase \in Setup!Settled \cup Setup!Unfinished /\ journal.old \in SetupFiles
         /\ journal.new \in SetupReleases /\ journal.system \in Setup!Systems
         /\ journal.system.service \in Setup!Services /\ journal.system.policy \in Setup!Images
         /\ journal.system.service.start \in Setup!Starts
         /\ journal.system.service.runs \in Setup!Images
BY DEF SetupJournals, Setup!Systems, Setup!Services

LEMMA ServiceRuns ==
  ASSUME service \in Setup!Services, NEW image \in Setup!Images,
         service' = [service EXCEPT !.runs = image]
  PROVE  service' \in Setup!Services /\ service'.runs = image /\ service'.start = service.start
BY DEF Setup!Services

LEMMA SetupImages ==
  /\ SetupReleases \subseteq Setup!Images /\ Setup!Absent \in Setup!Images
  /\ Setup!Torn \in Setup!Images /\ Setup!Stopped \in Setup!Images
  /\ Payload \subseteq Setup!Items /\ 1 \in Setup!Items /\ 1 \in Payload
BY SetupAssumption DEF Setup!Images, Setup!Stopped, Setup!Items

\* The two kinds of phases exclude each other.
LEMMA SetupPhases ==
  ASSUME NEW p
  PROVE  /\ p \in {"prepared", "applying", "rolling-back"} <=> p \in Setup!Unfinished
         /\ p \in {"none", "committed", "rolled-back"} <=> p \in Setup!Settled
         /\ p \in Setup!Settled => p \notin Setup!Unfinished
BY DEF Setup!Unfinished, Setup!Settled

LEMMA DisabledIs ==
  ASSUME service \in Setup!Services
  PROVE  /\ Setup!Disabled \in Setup!Services
         /\ Setup!Disabled.start \in {"missing", "disabled"}
         /\ Setup!Disabled.runs = service.runs
BY DEF Setup!Disabled, Setup!Services, Setup!Starts

-----------------------------------------------------------------------------
(* SetupTransaction: what steps leave alone.                               *)

LEMMA JournalKept ==
  ASSUME JournalInv, UNCHANGED <<release, backup, journal, previous, policy>>,
         service'.start = service.start
  PROVE  JournalInv'
BY DEF JournalInv, Setup!BackupsLast, Setup!AllOrNothing, Whole

\* While a transaction is open what the service is does not matter.
LEMMA OpenJournalKept ==
  ASSUME JournalInv, UNCHANGED <<backup, journal, previous>>,
         journal.phase \in Setup!Unfinished
  PROVE  JournalInv'
BY SetupPhases DEF JournalInv, Setup!BackupsLast, Setup!AllOrNothing, Whole

LEMMA CoreKept ==
  ASSUME CoreInv, UNCHANGED release,
         service'.start \in {service.start, "disabled", "missing"},
         service'.runs \in {service.runs, Setup!Stopped}
  PROVE  CoreInv'
BY DEF CoreInv, Setup!CoreIsWhole, Whole

\* A Core that is off does not see its files change.
LEMMA CoreOffKept ==
  ASSUME CoreOff, UNCHANGED service
  PROVE  CoreInv' /\ CoreOff'
BY DEF CoreOff, CoreInv, Setup!CoreIsWhole

LEMMA HelperRests ==
  ASSUME setup'.at = "idle"
  PROVE  HelperInv'
BY DEF HelperInv, Restoring

LEMMA InstallerElsewhere ==
  ASSUME installer'.does \notin {"stop", "configure", "invalidate", "pin", "start", "write"}
  PROVE  InstallerInv'
BY DEF InstallerInv

\* The installer waits for its helper.
LEMMA InstallerWaits ==
  ASSUME HelperInv, setup.at # "idle", UNCHANGED installer
  PROVE  InstallerInv'
BY InstallerElsewhere DEF HelperInv, Setup!Operations

\* A failure, of the helper or of its caller, leaves everything as it is.
LEMMA FailureSound ==
  ASSUME SetupInv, Setup!Fails, UNCHANGED <<staged, service, policy, previous, journal>>,
         release' \in SetupFiles, backup' \in SetupFiles, JournalInv', CoreInv'
  PROVE  SetupInv'
<1>1. /\ setup' \in SetupHelpers /\ setup'.at = "idle"
      /\ installer' \in Installers /\ installer'.does \in {"rollback", "none"}
  BY SetupFails, SetupIdle DEF SetupInv, SetupTypes
<1>. QED BY <1>1, HelperRests, InstallerElsewhere DEF SetupInv, SetupTypes

LEMMA GivesUpSound ==
  ASSUME SetupInv, Setup!GivesUp
  PROVE  SetupInv'
<1>1. /\ Setup!Fails
      /\ UNCHANGED <<release, backup, staged, journal, service, policy, previous>>
  BY DEF Setup!GivesUp, Setup!store, Setup!core
<1>2. JournalInv' /\ CoreInv'
  BY <1>1, JournalKept, CoreKept DEF SetupInv
<1>. QED BY <1>1, <1>2, FailureSound DEF SetupInv, SetupTypes

LEMMA RunSound ==
  ASSUME SetupInv, Setup!Run
  PROVE  SetupInv'
<1> DEFINE h == [Setup!Idle EXCEPT !.op = installer.does, !.at = "load"]
<1>1. /\ installer.does \in Setup!Operations /\ setup' = h
      /\ UNCHANGED <<release, backup, staged, journal, service, policy, installer, previous>>
  BY DEF Setup!Run, Setup!store, Setup!core
<1>2. h \in SetupHelpers /\ h.at = "load" /\ h.op = installer.does
  BY <1>1 DEF Setup!Idle, SetupHelpers, Setup!Steps
<1>. HIDE DEF h
<1>3. JournalInv' /\ CoreInv'
  BY <1>1, JournalKept, CoreKept DEF SetupInv
<1>4. HelperInv'
  BY <1>1, <1>2 DEF HelperInv, Restoring
<1>5. InstallerInv'
  BY <1>1, InstallerElsewhere DEF Setup!Operations
<1>. QED BY <1>1, <1>2, <1>3, <1>4, <1>5 DEF SetupInv, SetupTypes

-----------------------------------------------------------------------------
(* SetupTransaction: begin.                                                *)

LEMMA CleansUpSound ==
  ASSUME SetupInv, Setup!CleansUp
  PROVE  SetupInv'
<1>1. /\ setup.at = "load" /\ setup.op \in {"recover", "begin"}
      /\ journal.phase \in Setup!Settled
      /\ UNCHANGED <<release, journal, service, policy>>
      /\ \/ /\ backup' = [i \in Setup!Items |-> Setup!Absent]
            /\ staged' = [i \in Setup!Items |-> Setup!Absent]
         \/ UNCHANGED <<backup, staged>>
  BY DEF Setup!CleansUp, Setup!Loads, Setup!At, Setup!core
<1>2. backup' \in SetupFiles /\ staged' \in SetupFiles
  BY <1>1, SetupImages DEF SetupInv, SetupTypes, SetupFiles
<1>3. CoreInv'
  BY <1>1, CoreKept DEF SetupInv
<1>4. JournalInv' /\ previous' \in Setup!Systems
  <2>1. \/ UNCHANGED previous
        \/ previous' = Setup!System
    BY DEF Setup!CleansUp
  <2>2. /\ Setup!System \in Setup!Systems
        /\ Setup!System.service = service /\ Setup!System.policy = policy
    BY DEF Setup!System, Setup!Systems, SetupInv, SetupTypes
  <2>3. \/ UNCHANGED previous
        \/ previous'.service = service /\ previous'.policy = policy
    BY <2>1, <2>2
  <2>. QED BY <1>1, <2>1, <2>2, <2>3, SetupPhases
          DEF SetupInv, SetupTypes, JournalInv, Setup!BackupsLast, Setup!AllOrNothing, Whole
<1>5. CASE setup.op = "begin"
  <2>1. Setup!GoTo("backup") /\ previous' = Setup!System /\ UNCHANGED installer
    BY <1>5 DEF Setup!CleansUp
  <2>2. previous'.service = service /\ previous'.policy = policy
    BY <2>1 DEF Setup!System
  <2>3. /\ setup' \in SetupHelpers /\ setup'.at = "backup" /\ setup'.op = setup.op
        /\ setup'.item = 1
    BY <2>1, SetupGoesTo DEF SetupInv, SetupTypes, Setup!Steps
  <2>4. \A i \in Setup!Items : ~(i < 1)
    BY SetupAssumption DEF Setup!Items
  <2>5. HelperInv'
    BY <1>1, <1>5, <2>1, <2>2, <2>3, <2>4 DEF SetupInv, HelperInv, Restoring
  <2>6. InstallerInv'
    BY <1>1, <2>1, InstallerWaits DEF SetupInv
  <2>. QED BY <1>1, <1>2, <1>3, <1>4, <2>1, <2>3, <2>5, <2>6 DEF SetupInv, SetupTypes
<1>6. CASE setup.op = "recover"
  <2>1. Setup!Succeeds /\ installer.does = "recover"
    BY <1>1, <1>6 DEF Setup!CleansUp, SetupInv, HelperInv
  <2>2. /\ setup' \in SetupHelpers /\ setup'.at = "idle"
        /\ installer' \in Installers /\ installer'.does = "begin"
    BY <2>1, SetupSucceeds, SetupIdle DEF SetupInv, SetupTypes
  <2>3. HelperInv' /\ InstallerInv'
    BY <2>2, HelperRests, InstallerElsewhere
  <2>. QED BY <1>1, <1>2, <1>3, <1>4, <2>2, <2>3 DEF SetupInv, SetupTypes
<1>. QED BY <1>1, <1>5, <1>6

\* One more file is in its backup.
LEMMA BacksUpSound ==
  ASSUME SetupInv, Setup!BacksUp
  PROVE  SetupInv'
<1>1. /\ setup.at = "backup" /\ setup.op = "begin" /\ setup.item <= Files
      /\ backup' = [backup EXCEPT ![setup.item] = release[setup.item]]
      /\ staged' = [staged EXCEPT ![setup.item] =
           IF setup.item \in Payload THEN installer.release ELSE staged[setup.item]]
      /\ Setup!NextItem
      /\ UNCHANGED <<release, journal, service, policy, installer, previous>>
  BY DEF Setup!BacksUp, Setup!At, Setup!More, Setup!core
<1>2. backup' \in SetupFiles /\ staged' \in SetupFiles
  BY <1>1, SetupImages DEF SetupInv, SetupTypes, SetupFiles, Installers
<1>3. /\ setup' \in SetupHelpers /\ setup'.at = "backup" /\ setup'.op = "begin"
      /\ setup'.item = setup.item + 1
  BY <1>1, SetupNextItem DEF SetupInv, SetupTypes
<1>4. /\ journal.phase \in Setup!Settled
      /\ service.start = previous.service.start /\ policy = previous.policy
      /\ \A i \in Setup!Items : i < setup.item => backup[i] = release[i]
  BY <1>1 DEF SetupInv, HelperInv
<1>5. \A i \in Setup!Items : i < setup'.item => backup'[i] = release[i]
  BY <1>1, <1>3, <1>4 DEF SetupInv, SetupTypes, SetupFiles, SetupHelpers, Setup!Items
<1>6. HelperInv'
  BY <1>1, <1>3, <1>4, <1>5 DEF SetupInv, HelperInv, Restoring
<1>7. JournalInv'
  BY <1>1, <1>4, SetupPhases
     DEF SetupInv, JournalInv, Setup!BackupsLast, Setup!AllOrNothing, Whole
<1>8. CoreInv' /\ InstallerInv'
  BY <1>1, CoreKept, InstallerWaits DEF SetupInv
<1>. QED BY <1>1, <1>2, <1>3, <1>6, <1>7, <1>8 DEF SetupInv, SetupTypes

\* A cut backup is that of a transaction which has not begun.
LEMMA BackupCutSound ==
  ASSUME SetupInv, Setup!BackupCut
  PROVE  SetupInv'
<1>1. /\ setup.at = "backup" /\ Setup!Fails
      /\ \/ backup' = [backup EXCEPT ![setup.item] = Setup!Torn] /\ UNCHANGED staged
         \/ staged' = [staged EXCEPT ![setup.item] = Setup!Torn] /\ UNCHANGED backup
      /\ UNCHANGED <<release, journal, service, policy, previous>>
  BY DEF Setup!BackupCut, Setup!At, Setup!core
<1>2. backup' \in SetupFiles /\ staged' \in SetupFiles
  BY <1>1, SetupImages DEF SetupInv, SetupTypes, SetupFiles
<1>3. journal.phase \in Setup!Settled
  BY <1>1 DEF SetupInv, HelperInv
<1>4. JournalInv' /\ CoreInv'
  BY <1>1, <1>3, SetupPhases, CoreKept
     DEF SetupInv, JournalInv, Setup!BackupsLast, Setup!AllOrNothing, Whole
<1>5. /\ setup' \in SetupHelpers /\ setup'.at = "idle"
      /\ installer' \in Installers /\ installer'.does \in {"rollback", "none"}
  BY <1>1, SetupFails, SetupIdle DEF SetupInv, SetupTypes
<1>. QED BY <1>1, <1>2, <1>4, <1>5, HelperRests, InstallerElsewhere DEF SetupInv, SetupTypes

\* The journal is written once every backup is there.
LEMMA PreparesSound ==
  ASSUME SetupInv, Setup!Prepares
  PROVE  SetupInv'
<1> DEFINE j == [phase |-> "prepared", old |-> release, new |-> installer.release,
                 system |-> Setup!System]
<1>1. /\ setup.at = "backup" /\ setup.op = "begin" /\ ~(setup.item <= Files)
      /\ journal' = j /\ Setup!Succeeds
      /\ UNCHANGED <<release, backup, staged, service, policy, previous>>
  BY DEF Setup!Prepares, Setup!At, Setup!More, Setup!core
<1>2. /\ Setup!System \in Setup!Systems
      /\ Setup!System.service = service /\ Setup!System.policy = policy
  BY DEF Setup!System, Setup!Systems, SetupInv, SetupTypes
<1>3. /\ j \in SetupJournals /\ j.phase = "prepared" /\ j.old = release
      /\ j.system.service = service /\ j.system.policy = policy
  BY <1>2 DEF SetupJournals, Setup!Unfinished, SetupInv, SetupTypes, Installers
<1>. HIDE DEF j
<1>4. /\ journal.phase \in Setup!Settled
      /\ service.start = previous.service.start /\ policy = previous.policy
      /\ \A i \in Setup!Items : backup[i] = release[i]
  BY <1>1, SetupAssumption
     DEF SetupInv, HelperInv, Setup!Items, SetupTypes, SetupHelpers
<1>5. /\ setup' \in SetupHelpers /\ setup'.at = "idle"
      /\ installer' \in Installers /\ installer'.does = "stop"
  BY <1>1, SetupSucceeds, SetupIdle DEF SetupInv, SetupTypes, HelperInv
<1>6. JournalInv'
  BY <1>1, <1>3, <1>4, SetupPhases
     DEF SetupInv, JournalInv, Setup!BackupsLast, Setup!AllOrNothing, Whole
<1>7. InstallerInv' /\ HelperInv' /\ CoreInv'
  BY <1>1, <1>3, <1>5, HelperRests, CoreKept DEF SetupInv, InstallerInv
<1>. QED BY <1>1, <1>3, <1>5, <1>6, <1>7 DEF SetupInv, SetupTypes

-----------------------------------------------------------------------------
(* SetupTransaction: apply and commit.                                     *)

LEMMA StartsApplyingSound ==
  ASSUME SetupInv, Setup!StartsApplying
  PROVE  SetupInv'
<1>1. /\ setup.at = "load" /\ setup.op = "apply" /\ journal.phase = "prepared"
      /\ \A i \in Payload : staged[i] = journal.new
      /\ journal' = [journal EXCEPT !.phase = "applying"]
      /\ Setup!GoTo("quiesce")
      /\ UNCHANGED <<release, backup, staged, service, policy, installer, previous>>
  BY DEF Setup!StartsApplying, Setup!Loads, Setup!At, Setup!core
<1>2. /\ journal' \in SetupJournals /\ journal'.phase = "applying"
      /\ journal'.old = journal.old /\ journal'.new = journal.new
      /\ journal'.system = journal.system
  BY <1>1, JournalWith, SetupPhases DEF SetupInv, SetupTypes
<1>3. setup' \in SetupHelpers /\ setup'.at = "quiesce" /\ setup'.op = "apply"
  BY <1>1, SetupGoesTo DEF SetupInv, SetupTypes, Setup!Steps
<1>4. JournalInv'
  BY <1>1, <1>2, SetupPhases
     DEF SetupInv, JournalInv, Setup!BackupsLast, Setup!AllOrNothing, Whole
<1>5. HelperInv'
  BY <1>1, <1>2, <1>3 DEF SetupInv, HelperInv, Restoring, Applying
<1>6. InstallerInv' /\ CoreInv'
  BY <1>1, InstallerWaits, CoreKept DEF SetupInv
<1>. QED BY <1>1, <1>2, <1>3, <1>4, <1>5, <1>6 DEF SetupInv, SetupTypes

LEMMA DisablesSound ==
  ASSUME SetupInv, Setup!Disables
  PROVE  SetupInv'
<1>1. /\ setup.at = "quiesce" /\ service' = Setup!Disabled /\ Setup!GoTo("stop")
      /\ UNCHANGED <<release, backup, staged, journal, policy, installer, previous>>
  BY DEF Setup!Disables, Setup!store
<1>2. /\ service' \in Setup!Services /\ service'.start \in {"missing", "disabled"}
      /\ service'.runs = service.runs
  BY <1>1, DisabledIs DEF SetupInv, SetupTypes
<1>3. setup' \in SetupHelpers /\ setup'.at = "stop" /\ setup'.op = setup.op
  BY <1>1, SetupGoesTo DEF SetupInv, SetupTypes, Setup!Steps
<1>4. (setup.op = "apply" /\ Applying) \/ Undoing
  BY <1>1 DEF SetupInv, HelperInv
<1>5. HelperInv'
  BY <1>1, <1>2, <1>3, <1>4 DEF SetupInv, HelperInv, Restoring, Applying, Undoing
<1>6. JournalInv'
  BY <1>1, <1>4, OpenJournalKept, SetupPhases DEF SetupInv, Applying, Undoing
<1>7. InstallerInv' /\ CoreInv'
  BY <1>1, <1>2, InstallerWaits, CoreKept DEF SetupInv
<1>. QED BY <1>1, <1>2, <1>3, <1>5, <1>6, <1>7 DEF SetupInv, SetupTypes

\* From here on the Core is off until its files are whole.
LEMMA StopsSound ==
  ASSUME SetupInv, Setup!Stops
  PROVE  SetupInv'
<1> DEFINE next == IF setup.op = "apply" THEN "copy" ELSE "undo"
<1>1. /\ setup.at = "stop" /\ service' = [service EXCEPT !.runs = Setup!Stopped]
      /\ Setup!GoTo(next)
      /\ UNCHANGED <<release, backup, staged, journal, policy, installer, previous>>
  BY DEF Setup!Stops, Setup!store
<1>2. /\ next \in Setup!Steps
      /\ setup.op = "apply" => next = "copy"
      /\ setup.op # "apply" => next = "undo"
  BY DEF Setup!Steps
<1>. HIDE DEF next
<1>3. /\ setup' \in SetupHelpers /\ setup'.at = next /\ setup'.op = setup.op
      /\ setup'.item = 1
  BY <1>1, <1>2, SetupGoesTo DEF SetupInv, SetupTypes
<1>4. /\ service' \in Setup!Services /\ service'.runs = Setup!Stopped
      /\ service'.start = service.start
  BY <1>1, ServiceRuns, SetupImages DEF SetupInv, SetupTypes
<1>5. (setup.op = "apply" /\ Applying) \/ Undoing
  BY <1>1 DEF SetupInv, HelperInv
<1>6. CoreOff'
  BY <1>1, <1>4 DEF SetupInv, HelperInv, CoreOff
<1>7. \A i \in Setup!Items : ~(i < 1)
  BY SetupAssumption DEF Setup!Items
<1>8. Undoing => setup.op # "apply"
  BY DEF Undoing
<1>9. HelperInv'
  <2>1. CASE setup.op = "apply"
    <3>1. Applying'
      BY <1>1, <1>5, <1>8, <2>1 DEF Applying
    <3>. QED BY <1>1, <1>2, <1>3, <1>6, <1>7, <2>1, <3>1, SetupImages
            DEF SetupInv, HelperInv, Restoring
  <2>2. CASE setup.op # "apply"
    <3>1. Undoing'
      BY <1>1, <1>3, <1>5, <2>2 DEF Undoing
    <3>. QED BY <1>1, <1>2, <1>3, <1>6, <1>7, <2>2, <3>1
            DEF SetupInv, HelperInv, Restoring
  <2>. QED BY <2>1, <2>2
<1>10. JournalInv' /\ InstallerInv' /\ CoreInv'
  BY <1>1, <1>4, JournalKept, InstallerWaits, CoreKept DEF SetupInv
<1>. QED BY <1>1, <1>3, <1>4, <1>9, <1>10 DEF SetupInv, SetupTypes

\* One more file of the payload is the new one.
LEMMA ReplacesSound ==
  ASSUME SetupInv, Setup!Replaces
  PROVE  SetupInv'
<1>1. /\ setup.at = "copy" /\ setup.item <= Files
      /\ release' = IF setup.item \in Payload
                    THEN [release EXCEPT ![setup.item] = staged[setup.item]] ELSE release
      /\ Setup!NextItem
      /\ UNCHANGED <<backup, staged, journal, service, policy, installer, previous>>
  BY DEF Setup!Replaces, Setup!At, Setup!More, Setup!store, Setup!core
<1>2. /\ setup.op = "apply" /\ Applying /\ CoreOff
      /\ \A i \in Payload : i < setup.item => release[i] = journal.new
  BY <1>1 DEF SetupInv, HelperInv
<1>3. /\ setup' \in SetupHelpers /\ setup'.at = "copy" /\ setup'.op = "apply"
      /\ setup'.item = setup.item + 1
  BY <1>1, <1>2, SetupNextItem DEF SetupInv, SetupTypes
<1>4. release' \in SetupFiles
  BY <1>1 DEF SetupInv, SetupTypes, SetupFiles
<1>5. \A i \in Payload : i < setup'.item => release'[i] = journal.new
  BY <1>1, <1>2, <1>3, SetupAssumption, SetupImages
     DEF SetupInv, SetupTypes, SetupFiles, SetupHelpers, Applying
<1>6. CoreInv' /\ CoreOff'
  BY <1>1, <1>2, CoreOffKept
<1>7. HelperInv'
  BY <1>1, <1>2, <1>3, <1>5, <1>6 DEF HelperInv, Restoring, Applying, SetupInv
<1>8. JournalInv' /\ InstallerInv'
  BY <1>1, <1>2, OpenJournalKept, SetupPhases, InstallerWaits DEF SetupInv, Applying
<1>. QED BY <1>1, <1>3, <1>4, <1>6, <1>7, <1>8 DEF SetupInv, SetupTypes

\* A file is torn only while the Core is off and the journal open.
LEMMA TornSound ==
  ASSUME SetupInv, Setup!Fails, CoreOff, journal.phase \in Setup!Unfinished,
         setup.item \in Setup!Items, release' = [release EXCEPT ![setup.item] = Setup!Torn],
         UNCHANGED <<backup, staged, journal, service, policy, previous>>
  PROVE  SetupInv'
<1>1. release' \in SetupFiles
  BY SetupImages DEF SetupInv, SetupTypes, SetupFiles
<1>2. JournalInv' /\ CoreInv'
  BY OpenJournalKept, CoreOffKept DEF SetupInv
<1>. QED BY <1>1, <1>2, FailureSound DEF SetupInv, SetupTypes

LEMMA ReplaceCutSound ==
  ASSUME SetupInv, Setup!ReplaceCut
  PROVE  SetupInv'
<1>1. /\ setup.at = "copy" /\ setup.item \in Payload
      /\ release' = [release EXCEPT ![setup.item] = Setup!Torn] /\ Setup!Fails
      /\ UNCHANGED <<backup, staged, journal, service, policy, previous>>
  BY DEF Setup!ReplaceCut, Setup!At, Setup!store, Setup!core
<1>2. CoreOff /\ journal.phase \in Setup!Unfinished
  BY <1>1, SetupPhases DEF SetupInv, HelperInv, Applying
<1>. QED BY <1>1, <1>2, TornSound, SetupImages

LEMMA AppliedSound ==
  ASSUME SetupInv, Setup!Applied
  PROVE  SetupInv'
<1>1. /\ setup.at = "copy" /\ setup.op = "apply" /\ ~(setup.item <= Files) /\ Setup!Succeeds
      /\ UNCHANGED <<release, backup, staged, journal, service, policy, previous>>
  BY DEF Setup!Applied, Setup!At, Setup!More, Setup!store, Setup!core
<1>2. journal.phase = "applying" /\ \A i \in Payload : release[i] = journal.new
  BY <1>1, SetupAssumption DEF SetupInv, HelperInv, Applying, SetupTypes, SetupHelpers
<1>3. /\ setup' \in SetupHelpers /\ setup'.at = "idle"
      /\ installer' \in Installers /\ installer'.does = "configure"
  BY <1>1, SetupSucceeds, SetupIdle DEF SetupInv, SetupTypes, HelperInv
<1>4. InstallerInv'
  BY <1>1, <1>2, <1>3 DEF InstallerInv
<1>5. JournalInv' /\ CoreInv' /\ HelperInv'
  BY <1>1, <1>3, JournalKept, CoreKept, HelperRests DEF SetupInv
<1>. QED BY <1>1, <1>3, <1>4, <1>5 DEF SetupInv, SetupTypes

\* What is committed is of one release.
LEMMA CommitsSound ==
  ASSUME SetupInv, Setup!Commits
  PROVE  SetupInv'
<1>1. /\ setup.at = "load" /\ setup.op = "commit" /\ journal.phase = "applying"
      /\ \A i \in Payload : release[i] = journal.new
      /\ journal' = [journal EXCEPT !.phase = "committed"]
      /\ Setup!GoTo("cleanup")
      /\ UNCHANGED <<release, backup, staged, service, policy, installer, previous>>
  BY DEF Setup!Commits, Setup!Loads, Setup!At, Setup!core
<1>2. /\ journal' \in SetupJournals /\ journal'.phase = "committed"
      /\ journal'.new = journal.new /\ journal.new \in SetupReleases
  BY <1>1, JournalWith, JournalFields, SetupPhases DEF SetupInv, SetupTypes
<1>3. setup' \in SetupHelpers /\ setup'.at = "cleanup" /\ setup'.op = "commit"
  BY <1>1, SetupGoesTo DEF SetupInv, SetupTypes, Setup!Steps
<1>4. JournalInv'
  BY <1>1, <1>2, SetupPhases DEF JournalInv, Setup!BackupsLast, Setup!AllOrNothing
<1>5. HelperInv'
  BY <1>1, <1>2, <1>3 DEF SetupInv, HelperInv, Restoring
<1>6. InstallerInv' /\ CoreInv'
  BY <1>1, InstallerWaits, CoreKept DEF SetupInv
<1>. QED BY <1>1, <1>2, <1>3, <1>4, <1>5, <1>6 DEF SetupInv, SetupTypes

\* Only then the backups go.
LEMMA CleanedSound ==
  ASSUME SetupInv, Setup!Cleaned
  PROVE  SetupInv'
<1>1. /\ setup.at = "cleanup" /\ Setup!Succeeds
      /\ backup' = [i \in Setup!Items |-> Setup!Absent]
      /\ staged' = [i \in Setup!Items |-> Setup!Absent]
      /\ UNCHANGED <<release, journal, service, policy, previous>>
  BY DEF Setup!Cleaned, Setup!At, Setup!core
<1>2. backup' \in SetupFiles /\ staged' \in SetupFiles
  BY <1>1, SetupImages DEF SetupFiles
<1>3. journal.phase = "committed" /\ installer.does = "commit"
  BY <1>1 DEF SetupInv, HelperInv
<1>4. /\ setup' \in SetupHelpers /\ setup'.at = "idle"
      /\ installer' \in Installers /\ installer'.does = "none"
  BY <1>1, <1>3, SetupSucceeds, SetupIdle DEF SetupInv, SetupTypes
<1>5. JournalInv'
  BY <1>1, <1>3, SetupPhases
     DEF SetupInv, JournalInv, Setup!BackupsLast, Setup!AllOrNothing
<1>6. CoreInv' /\ HelperInv' /\ InstallerInv'
  BY <1>1, <1>4, CoreKept, HelperRests, InstallerElsewhere DEF SetupInv
<1>. QED BY <1>1, <1>2, <1>4, <1>5, <1>6 DEF SetupInv, SetupTypes

-----------------------------------------------------------------------------
(* SetupTransaction: rollback.                                             *)

LEMMA NothingToUndoSound ==
  ASSUME SetupInv, Setup!NothingToUndo
  PROVE  SetupInv'
<1>1. /\ setup.at = "load" /\ setup.op = "rollback" /\ Setup!Succeeds
      /\ UNCHANGED <<release, backup, staged, journal, service, policy, previous>>
  BY DEF Setup!NothingToUndo, Setup!Loads, Setup!At, Setup!store, Setup!core
<1>2. /\ setup' \in SetupHelpers /\ setup'.at = "idle"
      /\ installer' \in Installers /\ installer'.does = "none"
  BY <1>1, SetupSucceeds, SetupIdle DEF SetupInv, SetupTypes, HelperInv
<1>3. JournalInv' /\ CoreInv' /\ HelperInv' /\ InstallerInv'
  BY <1>1, <1>2, JournalKept, CoreKept, HelperRests, InstallerElsewhere DEF SetupInv
<1>. QED BY <1>1, <1>2, <1>3 DEF SetupInv, SetupTypes

LEMMA StartsRollbackSound ==
  ASSUME SetupInv, Setup!StartsRollback
  PROVE  SetupInv'
<1>1. /\ setup.at = "load" /\ setup.op \in {"rollback", "recover", "begin"}
      /\ journal.phase \in Setup!Unfinished
      /\ journal' = [journal EXCEPT !.phase = "rolling-back"]
      /\ Setup!GoTo("quiesce")
      /\ UNCHANGED <<release, backup, staged, service, policy, installer, previous>>
  BY DEF Setup!StartsRollback, Setup!RollingBack, Setup!At, Setup!core
<1>2. /\ journal' \in SetupJournals /\ journal'.phase = "rolling-back"
      /\ journal'.old = journal.old /\ journal'.system = journal.system
  BY <1>1, JournalWith, SetupPhases DEF SetupInv, SetupTypes
<1>3. setup' \in SetupHelpers /\ setup'.at = "quiesce" /\ setup'.op = setup.op
  BY <1>1, SetupGoesTo DEF SetupInv, SetupTypes, Setup!Steps
<1>4. JournalInv'
  BY <1>1, <1>2, SetupPhases
     DEF SetupInv, JournalInv, Setup!BackupsLast, Setup!AllOrNothing, Whole
<1>5. HelperInv'
  BY <1>1, <1>2, <1>3 DEF SetupInv, HelperInv, Restoring, Undoing
<1>6. InstallerInv' /\ CoreInv'
  BY <1>1, InstallerWaits, CoreKept DEF SetupInv
<1>. QED BY <1>1, <1>2, <1>3, <1>4, <1>5, <1>6 DEF SetupInv, SetupTypes

\* The Core does not stop, and nothing is given back that is there already.
LEMMA StopFailsSound ==
  ASSUME SetupInv, Setup!StopFails
  PROVE  SetupInv'
<1> DEFINE h == [setup EXCEPT !.at = "unregister", !.failed = TRUE]
<1>1. /\ setup.at = "stop" /\ setup.op # "apply" /\ release = journal.old /\ setup' = h
      /\ UNCHANGED <<release, backup, staged, journal, service, policy, installer, previous>>
  BY DEF Setup!StopFails, Setup!Unchanged, Setup!store, Setup!core
<1>2. h \in SetupHelpers /\ h.at = "unregister" /\ h.op = setup.op
  BY DEF SetupInv, SetupTypes, SetupHelpers, Setup!Steps
<1>. HIDE DEF h
<1>3. Undoing'
  BY <1>1, <1>2 DEF SetupInv, HelperInv, Undoing
<1>4. HelperInv'
  BY <1>1, <1>2, <1>3 DEF SetupInv, HelperInv, Restoring
<1>5. JournalInv' /\ InstallerInv' /\ CoreInv'
  BY <1>1, JournalKept, InstallerWaits, CoreKept DEF SetupInv
<1>. QED BY <1>1, <1>2, <1>4, <1>5 DEF SetupInv, SetupTypes

\* One more file is the old one.
LEMMA UndoesSound ==
  ASSUME SetupInv, Setup!Undoes
  PROVE  SetupInv'
<1>1. /\ setup.at = "undo" /\ setup.item <= Files
      /\ release' = [release EXCEPT ![setup.item] = journal.old[setup.item]]
      /\ Setup!NextItem
      /\ UNCHANGED <<backup, staged, journal, service, policy, installer, previous>>
  BY DEF Setup!Undoes, Setup!GivesBack, Setup!More, Setup!store, Setup!core
<1>2. /\ Undoing /\ CoreOff
      /\ \A i \in Setup!Items : i < setup.item => release[i] = journal.old[i]
  BY <1>1 DEF SetupInv, HelperInv
<1>3. /\ setup' \in SetupHelpers /\ setup'.at = "undo" /\ setup'.op = setup.op
      /\ setup'.item = setup.item + 1
  BY <1>1, SetupNextItem DEF SetupInv, SetupTypes
<1>4. release' \in SetupFiles
  BY <1>1, JournalFields DEF SetupInv, SetupTypes, SetupFiles
<1>5. \A i \in Setup!Items : i < setup'.item => release'[i] = journal.old[i]
  BY <1>1, <1>2, <1>3, SetupAssumption
     DEF SetupInv, SetupTypes, SetupFiles, SetupHelpers, Setup!Items
<1>6. CoreInv' /\ CoreOff'
  BY <1>1, <1>2, CoreOffKept
<1>7. Undoing'
  BY <1>1, <1>2, <1>3 DEF Undoing
<1>8. HelperInv'
  BY <1>1, <1>2, <1>3, <1>5, <1>6, <1>7 DEF HelperInv, Restoring, SetupInv
<1>9. JournalInv' /\ InstallerInv'
  BY <1>1, <1>2, OpenJournalKept, SetupPhases, InstallerWaits DEF SetupInv, Undoing
<1>. QED BY <1>1, <1>3, <1>4, <1>6, <1>8, <1>9 DEF SetupInv, SetupTypes

LEMMA UndoCutSound ==
  ASSUME SetupInv, Setup!UndoCut
  PROVE  SetupInv'
<1>1. /\ setup.at = "undo" /\ setup.item <= Files
      /\ release' = [release EXCEPT ![setup.item] = Setup!Torn] /\ Setup!Fails
      /\ UNCHANGED <<backup, staged, journal, service, policy, previous>>
  BY DEF Setup!UndoCut, Setup!More, Setup!store, Setup!core
<1>2. CoreOff /\ journal.phase \in Setup!Unfinished
  BY <1>1, SetupPhases DEF SetupInv, HelperInv, Undoing
<1>3. CASE setup.item \in Setup!Items
  BY <1>1, <1>2, <1>3, TornSound
<1>4. CASE setup.item \notin Setup!Items
  <2>1. release' = release
    BY <1>1, <1>4 DEF SetupInv, SetupTypes, SetupFiles
  <2>. QED BY <1>1, <1>2, <2>1, OpenJournalKept, CoreOffKept, FailureSound
          DEF SetupInv, SetupTypes
<1>. QED BY <1>3, <1>4

\* Every file is the old one.
LEMMA UndoneSound ==
  ASSUME SetupInv, Setup!Undone
  PROVE  SetupInv'
<1>1. /\ setup.at = "undo" /\ ~(setup.item <= Files) /\ Setup!GoTo("unregister")
      /\ UNCHANGED <<release, backup, staged, journal, service, policy, installer, previous>>
  BY DEF Setup!Undone, Setup!More, Setup!store, Setup!core
<1>2. Undoing /\ \A i \in Setup!Items : release[i] = journal.old[i]
  BY <1>1, SetupAssumption DEF SetupInv, HelperInv, SetupTypes, SetupHelpers, Setup!Items
<1>3. release = journal.old
  BY <1>2, JournalFields DEF SetupInv, SetupTypes, SetupFiles
<1>4. setup' \in SetupHelpers /\ setup'.at = "unregister" /\ setup'.op = setup.op
  BY <1>1, SetupGoesTo DEF SetupInv, SetupTypes, Setup!Steps
<1>5. Undoing'
  BY <1>1, <1>2, <1>4 DEF Undoing
<1>6. HelperInv'
  BY <1>1, <1>3, <1>4, <1>5 DEF SetupInv, HelperInv, Restoring
<1>7. JournalInv' /\ InstallerInv' /\ CoreInv'
  BY <1>1, JournalKept, InstallerWaits, CoreKept DEF SetupInv
<1>. QED BY <1>1, <1>4, <1>6, <1>7 DEF SetupInv, SetupTypes

-----------------------------------------------------------------------------
(* SetupTransaction: the service is restored.                              *)

\* The steps of a restore have the old files under them.
LEMMA RestoreStep ==
  ASSUME SetupInv, setup.at \in Restoring, NEW step \in Restoring,
         setup' = [setup EXCEPT !.at = step],
         UNCHANGED <<release, backup, staged, journal, installer, previous>>,
         service' \in Setup!Services, policy' \in Setup!Images,
         CoreInv'
  PROVE  /\ SetupTypes' /\ JournalInv' /\ InstallerInv'
         /\ setup'.at = step /\ Undoing' /\ release' = journal'.old
<1>1. Undoing /\ release = journal.old /\ setup.at # "idle"
  BY DEF SetupInv, HelperInv, Restoring
<1>2. setup' \in SetupHelpers /\ setup'.at = step /\ setup'.op = setup.op
  BY SetupStepsTo DEF SetupInv, SetupTypes, Setup!Steps, Restoring
<1>3. JournalInv' /\ InstallerInv'
  BY <1>1, OpenJournalKept, SetupPhases, InstallerWaits DEF SetupInv, Undoing
<1>4. Undoing'
  BY <1>1, <1>2 DEF Undoing
<1>. QED BY <1>1, <1>2, <1>3, <1>4 DEF SetupInv, SetupTypes

LEMMA UnregistersSound ==
  ASSUME SetupInv, Setup!Unregisters
  PROVE  SetupInv'
<1>1. /\ setup.at = "unregister" /\ policy' = Setup!Absent
      /\ setup' = [setup EXCEPT !.at = "register"]
      /\ UNCHANGED <<release, backup, staged, journal, service, installer, previous>>
  BY DEF Setup!Unregisters, Setup!store
<1>2. CoreInv' /\ policy' \in Setup!Images /\ service' \in Setup!Services
  BY <1>1, CoreKept, SetupImages DEF SetupInv, SetupTypes
<1>3. /\ SetupTypes' /\ JournalInv' /\ InstallerInv'
      /\ setup'.at = "register" /\ Undoing' /\ release' = journal'.old
  BY <1>1, <1>2, RestoreStep DEF Restoring
<1>4. setup'.op = setup.op /\ UNCHANGED installer
  BY <1>1, SetupStepsTo DEF SetupInv, SetupTypes, Setup!Steps
<1>5. HelperInv'
  BY <1>1, <1>3, <1>4 DEF SetupInv, HelperInv, Restoring
<1>. QED BY <1>2, <1>3, <1>5 DEF SetupInv

LEMMA RegistersSound ==
  ASSUME SetupInv, Setup!Registers
  PROVE  SetupInv'
<1>1. /\ setup.at = "register" /\ policy' = journal.system.policy
      /\ setup' = [setup EXCEPT !.at = "configure"]
      /\ UNCHANGED <<release, backup, staged, journal, service, installer, previous>>
  BY DEF Setup!Registers, Setup!store
<1>2. CoreInv' /\ policy' \in Setup!Images /\ service' \in Setup!Services
  BY <1>1, CoreKept, JournalFields DEF SetupInv, SetupTypes
<1>3. /\ SetupTypes' /\ JournalInv' /\ InstallerInv'
      /\ setup'.at = "configure" /\ Undoing' /\ release' = journal'.old
  BY <1>1, <1>2, RestoreStep DEF Restoring
<1>4. setup'.op = setup.op /\ UNCHANGED installer
  BY <1>1, SetupStepsTo DEF SetupInv, SetupTypes, Setup!Steps
<1>5. HelperInv'
  BY <1>1, <1>3, <1>4 DEF SetupInv, HelperInv, Restoring
<1>. QED BY <1>2, <1>3, <1>5 DEF SetupInv

\* The service may start again: the files under it are whole.
LEMMA ConfiguresSound ==
  ASSUME SetupInv, Setup!Configures
  PROVE  SetupInv'
<1> DEFINE was   == journal.system.service
           start == IF was.start = "disabled" /\ was.runs # Setup!Stopped THEN "manual"
                    ELSE was.start
           runs  == IF was.start = "missing" THEN Setup!Stopped ELSE service.runs
           svc   == [service EXCEPT !.start = start, !.runs = runs]
<1>1. /\ setup.at = "configure" /\ service' = svc
      /\ setup' = [setup EXCEPT !.at = "restart"]
      /\ UNCHANGED <<release, backup, staged, journal, policy, installer, previous>>
  BY DEF Setup!Configures, Setup!Was, Setup!store
<1>2. start \in Setup!Starts /\ runs \in {service.runs, Setup!Stopped}
  BY JournalFields DEF SetupInv, SetupTypes, Setup!Starts
<1>3. runs \in Setup!Images
  BY <1>2, SetupImages DEF SetupInv, SetupTypes, Setup!Services
<1>. HIDE DEF start, runs
<1>4. svc \in Setup!Services /\ svc.start = start /\ svc.runs = runs
  BY <1>2, <1>3 DEF SetupInv, SetupTypes, Setup!Services
<1>. HIDE DEF svc
<1>5. Whole(release) /\ policy = journal.system.policy
  BY <1>1, SetupPhases DEF SetupInv, HelperInv, JournalInv, Restoring, Undoing
<1>6. CoreInv'
  BY <1>1, <1>2, <1>4, <1>5 DEF SetupInv, CoreInv, Setup!CoreIsWhole, Whole
<1>7. /\ SetupTypes' /\ JournalInv' /\ InstallerInv'
      /\ setup'.at = "restart" /\ Undoing' /\ release' = journal'.old
  BY <1>1, <1>4, <1>6, RestoreStep DEF Restoring, SetupInv, SetupTypes
<1>8. setup'.op = setup.op /\ UNCHANGED installer
  BY <1>1, SetupStepsTo DEF SetupInv, SetupTypes, Setup!Steps
<1>9. HelperInv'
  BY <1>1, <1>4, <1>5, <1>7, <1>8 DEF SetupInv, HelperInv, Restoring, start
<1>. QED BY <1>6, <1>7, <1>9 DEF SetupInv

\* What is started is whole, and what was disabled is disabled again.
LEMMA RestartsSound ==
  ASSUME SetupInv, Setup!Restarts
  PROVE  SetupInv'
<1> DEFINE was   == journal.system.service
           runs  == IF was.runs # Setup!Stopped /\ service.runs = Setup!Stopped
                    THEN Setup!Image ELSE service.runs
           start == IF was.start = "disabled" THEN "disabled" ELSE service.start
           svc   == [service EXCEPT !.runs = runs, !.start = start]
<1>1. /\ setup.at = "restart" /\ service' = svc
      /\ setup' = [setup EXCEPT !.at = "record"]
      /\ UNCHANGED <<release, backup, staged, journal, policy, installer, previous>>
  BY DEF Setup!Restarts, Setup!Was, Setup!store
<1>2. start \in Setup!Starts /\ runs \in {service.runs, Setup!Image} /\ runs \in Setup!Images
  BY SetupImages DEF SetupInv, SetupTypes, Setup!Starts, Setup!Services, Setup!Image, SetupFiles
<1>3. start = was.start
  BY <1>1 DEF SetupInv, HelperInv
<1>4. start \in {service.start, "disabled"}
  OBVIOUS
<1>. HIDE DEF start, runs
<1>5. svc \in Setup!Services /\ svc.start = start /\ svc.runs = runs
  BY <1>2 DEF SetupInv, SetupTypes, Setup!Services
<1>. HIDE DEF svc
<1>6. Whole(release) /\ policy = journal.system.policy
  BY <1>1, SetupPhases DEF SetupInv, HelperInv, JournalInv, Restoring, Undoing
<1>7. \A i \in Payload : release[i] = Setup!Image
  BY <1>6, SetupImages DEF Whole, Setup!Image
<1>8. CoreInv'
  BY <1>1, <1>2, <1>5, <1>6, <1>7 DEF SetupInv, CoreInv, Setup!CoreIsWhole, Whole
<1>9. /\ SetupTypes' /\ JournalInv' /\ InstallerInv'
      /\ setup'.at = "record" /\ Undoing' /\ release' = journal'.old
  BY <1>1, <1>5, <1>8, RestoreStep DEF Restoring, SetupInv, SetupTypes
<1>10. setup'.op = setup.op /\ UNCHANGED installer
  BY <1>1, SetupStepsTo DEF SetupInv, SetupTypes, Setup!Steps
<1>11. HelperInv'
  BY <1>1, <1>3, <1>5, <1>6, <1>9, <1>10 DEF SetupInv, HelperInv, Restoring
<1>. QED BY <1>8, <1>9, <1>11 DEF SetupInv

\* What is recorded as rolled back has been given back.
LEMMA RecordsSound ==
  ASSUME SetupInv, Setup!Records
  PROVE  SetupInv'
<1>1. /\ setup.at = "record" /\ journal' = [journal EXCEPT !.phase = "rolled-back"]
      /\ Setup!RolledBack
      /\ UNCHANGED <<release, backup, staged, service, policy, previous>>
  BY DEF Setup!Records, Setup!core
<1>2. /\ Undoing /\ release = journal.old /\ policy = journal.system.policy
      /\ service.start = journal.system.service.start /\ installer.does = setup.op
  BY <1>1 DEF SetupInv, HelperInv, Restoring
<1>3. /\ journal' \in SetupJournals /\ journal'.phase = "rolled-back"
      /\ journal'.old = journal.old
  BY <1>1, JournalWith, SetupPhases DEF SetupInv, SetupTypes
<1>4. JournalInv'
  BY <1>1, <1>2, <1>3, SetupPhases
     DEF SetupInv, JournalInv, Setup!BackupsLast, Setup!AllOrNothing, Undoing, Whole
<1>5. CoreInv'
  BY <1>1, CoreKept DEF SetupInv
<1>6. CASE setup.op = "begin"
  <2>1. Setup!GoTo("load") /\ UNCHANGED installer
    BY <1>1, <1>6 DEF Setup!RolledBack
  <2>2. setup' \in SetupHelpers /\ setup'.at = "load" /\ setup'.op = setup.op
    BY <2>1, SetupGoesTo DEF SetupInv, SetupTypes, Setup!Steps
  <2>3. HelperInv' /\ InstallerInv'
    BY <1>1, <2>1, <2>2, InstallerWaits DEF SetupInv, HelperInv, Restoring
  <2>. QED BY <1>1, <1>3, <1>4, <1>5, <2>1, <2>2, <2>3 DEF SetupInv, SetupTypes
<1>7. CASE setup.op # "begin"
  <2>1. Setup!Succeeds /\ installer.does \in {"recover", "rollback"}
    BY <1>1, <1>2, <1>7 DEF Setup!RolledBack, Undoing
  <2>2. /\ setup' \in SetupHelpers /\ setup'.at = "idle"
        /\ installer' \in Installers /\ installer'.does \in {"begin", "none"}
    BY <2>1, SetupSucceeds, SetupIdle DEF SetupInv, SetupTypes
  <2>3. HelperInv' /\ InstallerInv'
    BY <2>2, HelperRests, InstallerElsewhere
  <2>. QED BY <1>1, <1>3, <1>4, <1>5, <2>2, <2>3 DEF SetupInv, SetupTypes
<1>. QED BY <1>6, <1>7

-----------------------------------------------------------------------------
(* SetupTransaction: the installer and the Core.                           *)

LEMMA OpensSound ==
  ASSUME SetupInv, NEW r \in SetupReleases, Setup!Opens(r)
  PROVE  SetupInv'
<1> DEFINE does == IF journal.phase \in Setup!Unfinished THEN "recover" ELSE "begin"
<1>1. /\ installer.does = "none"
      /\ installer' = [does |-> does, active |-> FALSE, release |-> r]
      /\ UNCHANGED <<release, backup, staged, journal, service, policy, setup, previous>>
  BY DEF Setup!Opens, Setup!store, Setup!core
<1>2. does \in {"recover", "begin"}
  OBVIOUS
<1>. HIDE DEF does
<1>3. installer' \in Installers /\ installer'.does \in {"recover", "begin"}
  BY <1>1, <1>2 DEF Installers, Setup!Installing, Setup!Operations
<1>4. setup.at = "idle"
  BY <1>1 DEF SetupInv, HelperInv, Setup!Operations
<1>5. JournalInv' /\ CoreInv' /\ HelperInv' /\ InstallerInv'
  BY <1>1, <1>3, <1>4, JournalKept, CoreKept, HelperRests, InstallerElsewhere DEF SetupInv
<1>. QED BY <1>1, <1>3, <1>5 DEF SetupInv, SetupTypes

\* The installer works while no helper does.
LEMMA InstallerStep ==
  ASSUME SetupInv, NEW step \in Setup!Installing \ Setup!Operations,
         NEW next \in Setup!Installing, Setup!Installs(step, next)
  PROVE  /\ installer.does = step /\ setup.at = "idle"
         /\ installer' \in Installers /\ installer'.does = next
<1>1. installer.does = step /\ installer' = [installer EXCEPT !.does = next]
  BY DEF Setup!Installs
<1>. QED BY <1>1, InstallerGoes DEF SetupInv, SetupTypes, HelperInv

LEMMA InstallFailsSound ==
  ASSUME SetupInv, Setup!InstallFails
  PROVE  SetupInv'
<1>1. /\ installer.does \in Setup!Installing \ Setup!Operations
      /\ installer' = [installer EXCEPT !.does = "rollback", !.active = FALSE]
      /\ UNCHANGED <<release, backup, staged, journal, service, policy, setup, previous>>
  BY DEF Setup!InstallFails, Setup!store, Setup!core
<1>2. installer' \in Installers /\ installer'.does = "rollback"
  BY <1>1, InstallerGoes DEF SetupInv, SetupTypes, Setup!Installing, Setup!Operations
<1>3. setup.at = "idle"
  BY <1>1 DEF SetupInv, HelperInv
<1>4. JournalInv' /\ CoreInv' /\ HelperInv' /\ InstallerInv'
  BY <1>1, <1>2, <1>3, JournalKept, CoreKept, HelperRests, InstallerElsewhere DEF SetupInv
<1>. QED BY <1>1, <1>2, <1>4 DEF SetupInv, SetupTypes

LEMMA StopsCoreSound ==
  ASSUME SetupInv, Setup!StopsCore \/ Setup!CoreStays
  PROVE  SetupInv'
<1>1. /\ \/ Setup!Installs("stop", "apply")
            /\ service' = [Setup!Disabled EXCEPT !.runs = Setup!Stopped]
         \/ Setup!Installs("stop", "rollback") /\ service' = Setup!Disabled
      /\ UNCHANGED <<release, backup, staged, journal, policy, setup, previous>>
  BY DEF Setup!StopsCore, Setup!CoreStays, Setup!store
<1>2. /\ installer.does = "stop" /\ setup.at = "idle"
      /\ installer' \in Installers /\ installer'.does \in {"apply", "rollback"}
  BY <1>1, InstallerStep DEF Setup!Installing, Setup!Operations
<1>3. /\ service' \in Setup!Services /\ service'.start \in {"missing", "disabled"}
      /\ service'.runs \in {service.runs, Setup!Stopped}
  BY <1>1, DisabledIs, SetupImages DEF SetupInv, SetupTypes, Setup!Services
<1>4. JournalInv' /\ CoreInv'
  BY <1>1, <1>2, <1>3, OpenJournalKept, CoreKept, SetupPhases DEF SetupInv, InstallerInv
<1>5. HelperInv' /\ InstallerInv'
  BY <1>1, <1>2, HelperRests, InstallerElsewhere
<1>. QED BY <1>1, <1>2, <1>3, <1>4, <1>5 DEF SetupInv, SetupTypes

\* The new release is installed and whole: its service may run.
LEMMA InstallerConfigures ==
  ASSUME SetupInv,
         NEW step \in {"configure", "invalidate", "pin", "start"},
         NEW next \in {"invalidate", "pin", "start", "write"},
         Setup!Installs(step, next),
         UNCHANGED <<release, backup, staged, journal, setup, previous>>,
         service' \in Setup!Services, policy' \in Setup!Images,
         service'.runs \in {service.runs, Setup!Stopped, Setup!Image}
  PROVE  SetupInv'
<1>1. /\ installer.does = step /\ setup.at = "idle"
      /\ installer' \in Installers /\ installer'.does = next
  BY InstallerStep DEF Setup!Installing, Setup!Operations
<1>2. journal.phase = "applying" /\ \A i \in Payload : release[i] = journal.new
  BY <1>1 DEF SetupInv, InstallerInv
<1>3. journal.new \in SetupReleases
  BY JournalFields DEF SetupInv, SetupTypes
<1>4. \A i \in Payload : release[i] = Setup!Image
  BY <1>2, SetupImages DEF Setup!Image
<1>5. CoreInv'
  BY <1>2, <1>3, <1>4 DEF SetupInv, CoreInv, Setup!CoreIsWhole, Whole
<1>6. JournalInv'
  BY <1>2, OpenJournalKept, SetupPhases DEF SetupInv
<1>7. InstallerInv' /\ HelperInv'
  BY <1>1, <1>2, HelperRests DEF InstallerInv
<1>. QED BY <1>1, <1>5, <1>6, <1>7 DEF SetupInv, SetupTypes

LEMMA ConfiguresServiceSound ==
  ASSUME SetupInv,
         \/ Setup!ConfiguresService \/ Setup!InvalidatesPolicy
         \/ Setup!PinsPolicy \/ Setup!StartsService
  PROVE  SetupInv'
<1>. Setup!Image \in Setup!Images
  BY SetupImages DEF SetupInv, SetupTypes, SetupFiles, Setup!Image
<1>1. CASE Setup!ConfiguresService
  <2>1. service' \in Setup!Services /\ service'.runs = Setup!Stopped
    BY <1>1, SetupImages DEF Setup!ConfiguresService, Setup!Services, Setup!Starts
  <2>. QED BY <1>1, <2>1, InstallerConfigures
          DEF Setup!ConfiguresService, Setup!store, SetupInv, SetupTypes
<1>2. CASE Setup!InvalidatesPolicy
  BY <1>2, InstallerConfigures, SetupImages
     DEF Setup!InvalidatesPolicy, Setup!store, SetupInv, SetupTypes
<1>3. CASE Setup!PinsPolicy
  BY <1>3, InstallerConfigures DEF Setup!PinsPolicy, Setup!store, SetupInv, SetupTypes
<1>4. CASE Setup!StartsService
  <2>1. service' \in Setup!Services /\ service'.runs = Setup!Image
    BY <1>4, ServiceRuns DEF Setup!StartsService, SetupInv, SetupTypes
  <2>. QED BY <1>4, <2>1, InstallerConfigures
          DEF Setup!StartsService, Setup!store, SetupInv, SetupTypes
<1>. QED BY <1>1, <1>2, <1>3, <1>4

\* The rest of the files is none of the payload.
LEMMA WritesRestSound ==
  ASSUME SetupInv, Setup!WritesRest
  PROVE  SetupInv'
<1>1. /\ Setup!Installs("write", "commit")
      /\ UNCHANGED <<backup, staged, journal, service, policy, setup, previous>>
  BY DEF Setup!WritesRest, Setup!store, Setup!core
<1>2. PICK r \in {installer.release, Setup!Torn} :
        release' = [i \in Setup!Items |-> IF i \in Payload THEN release[i] ELSE r]
  BY DEF Setup!WritesRest
<1>3. /\ installer.does = "write" /\ setup.at = "idle"
      /\ installer' \in Installers /\ installer'.does = "commit"
  BY <1>1, InstallerStep DEF Setup!Installing, Setup!Operations
<1>4. r \in Setup!Images
  BY SetupImages DEF SetupInv, SetupTypes, Installers
<1>5. release' \in SetupFiles /\ \A i \in Payload : release'[i] = release[i]
  BY <1>2, <1>4, SetupImages DEF SetupInv, SetupTypes, SetupFiles
<1>6. CoreInv'
  BY <1>1, <1>5 DEF SetupInv, CoreInv, Setup!CoreIsWhole, Whole
<1>7. JournalInv'
  BY <1>1, <1>3, OpenJournalKept, SetupPhases DEF SetupInv, InstallerInv
<1>8. InstallerInv' /\ HelperInv'
  BY <1>1, <1>3, InstallerElsewhere, HelperRests
<1>. QED BY <1>1, <1>3, <1>5, <1>6, <1>7, <1>8 DEF SetupInv, SetupTypes

\* Whoever starts and stops the Core, its start type and the files stay.
LEMMA CoreRunsSound ==
  ASSUME SetupInv, CoreInv', service' \in Setup!Services, service'.start = service.start,
         CoreOff => CoreOff',
         UNCHANGED <<release, backup, staged, journal, policy, setup, installer, previous>>
  PROVE  SetupInv'
<1>1. JournalInv' /\ InstallerInv'
  BY JournalKept DEF SetupInv, InstallerInv
<1>2. HelperInv'
  BY DEF SetupInv, HelperInv, Restoring, Applying, Undoing
<1>. QED BY <1>1, <1>2 DEF SetupInv, SetupTypes

LEMMA CoreStartsSound ==
  ASSUME SetupInv, Setup!CoreStarts
  PROVE  SetupInv'
<1>1. /\ service.start \in {"auto", "manual"}
      /\ service' = [service EXCEPT !.runs = Setup!Image]
      /\ UNCHANGED <<release, backup, staged, journal, policy, setup, installer, previous>>
  BY DEF Setup!CoreStarts, Setup!store
<1>2. Setup!Image \in Setup!Images
  BY SetupImages DEF SetupInv, SetupTypes, SetupFiles, Setup!Image
<1>3. /\ service' \in Setup!Services /\ service'.runs = Setup!Image
      /\ service'.start = service.start
  BY <1>1, <1>2, ServiceRuns DEF SetupInv, SetupTypes
<1>4. \A i \in Payload : release[i] = Setup!Image
  BY <1>1, SetupImages DEF SetupInv, CoreInv, Whole, Setup!Image
<1>5. CoreInv'
  BY <1>1, <1>3, <1>4 DEF SetupInv, CoreInv, Setup!CoreIsWhole, Whole
<1>6. ~CoreOff
  BY <1>1 DEF CoreOff
<1>. QED BY <1>1, <1>3, <1>5, <1>6, CoreRunsSound

LEMMA CoreStopsSound ==
  ASSUME SetupInv, Setup!CoreStops
  PROVE  SetupInv'
<1>1. /\ service' = [service EXCEPT !.runs = Setup!Stopped]
      /\ UNCHANGED <<release, backup, staged, journal, policy, setup, installer, previous>>
  BY DEF Setup!CoreStops, Setup!store
<1>2. /\ service' \in Setup!Services /\ service'.runs = Setup!Stopped
      /\ service'.start = service.start
  BY <1>1, SetupImages, ServiceRuns DEF SetupInv, SetupTypes
<1>3. CoreInv' /\ (CoreOff => CoreOff')
  BY <1>1, <1>2, CoreKept DEF SetupInv, CoreOff
<1>. QED BY <1>1, <1>2, <1>3, CoreRunsSound

LEMMA PowerLossSound ==
  ASSUME SetupInv, Setup!PowerLoss
  PROVE  SetupInv'
<1>1. /\ setup' = Setup!Idle
      /\ installer' = [installer EXCEPT !.does = "none", !.active = FALSE]
      /\ service' = [service EXCEPT !.runs = Setup!Stopped]
      /\ UNCHANGED <<release, backup, staged, journal, policy, previous>>
  BY DEF Setup!PowerLoss, Setup!store
<1>2. /\ service' \in Setup!Services /\ service'.runs = Setup!Stopped
      /\ service'.start = service.start
  BY <1>1, SetupImages, ServiceRuns DEF SetupInv, SetupTypes
<1>3. installer' \in Installers /\ installer'.does = "none"
  BY <1>1, InstallerGoes DEF SetupInv, SetupTypes
<1>4. setup' \in SetupHelpers /\ setup'.at = "idle"
  BY <1>1, SetupIdle
<1>5. JournalInv' /\ CoreInv' /\ HelperInv' /\ InstallerInv'
  BY <1>1, <1>2, <1>3, <1>4, JournalKept, CoreKept, HelperRests, InstallerElsewhere
     DEF SetupInv
<1>. QED BY <1>1, <1>2, <1>3, <1>4, <1>5 DEF SetupInv, SetupTypes

-----------------------------------------------------------------------------
(* SetupTransaction: the theorem.                                          *)

LEMMA SetupStepSound ==
  ASSUME SetupInv, Setup!Next
  PROVE  SetupInv'
<1>1. CASE Setup!HelperSteps
  BY <1>1, RunSound, GivesUpSound, CleansUpSound, BacksUpSound, BackupCutSound, PreparesSound,
     StartsApplyingSound, DisablesSound, StopsSound, ReplacesSound, ReplaceCutSound,
     AppliedSound, CommitsSound, CleanedSound, NothingToUndoSound, StartsRollbackSound,
     StopFailsSound, UndoesSound, UndoCutSound, UndoneSound, UnregistersSound,
     RegistersSound, ConfiguresSound, RestartsSound, RecordsSound
     DEF Setup!HelperSteps
<1>. QED BY <1>1, OpensSound, InstallFailsSound, StopsCoreSound, ConfiguresServiceSound,
        WritesRestSound, CoreStartsSound, CoreStopsSound, PowerLossSound
        DEF Setup!Next

LEMMA SetupRests ==
  ASSUME SetupInv, UNCHANGED setupVars
  PROVE  SetupInv'
<1>1. UNCHANGED <<release, backup, staged, journal, service, policy, setup, installer, previous>>
  BY DEF setupVars
<1>. QED BY <1>1, CoreKept, CoreRunsSound DEF SetupInv, SetupTypes, CoreOff

LEMMA SetupInitSound ==
  ASSUME Setup!Init
  PROVE  SetupInv
<1>1. PICK r \in {0, 1}, start \in {"auto", "disabled"}, up \in BOOLEAN :
        /\ release = [i \in Setup!Items |-> r] /\ policy = r
        /\ service = [start |-> IF r = 0 THEN "missing" ELSE start,
                      runs |-> IF up THEN r ELSE Setup!Stopped]
  BY DEF Setup!Init
<1>2. /\ backup = [i \in Setup!Items |-> Setup!Absent]
      /\ staged = [i \in Setup!Items |-> Setup!Absent]
      /\ journal = Setup!NoJournal /\ setup = Setup!Idle
      /\ installer = Setup!NotInstalling /\ previous = Setup!System
  BY DEF Setup!Init
<1>3. r \in Setup!Images /\ r \in SetupReleases \cup {Setup!Absent}
  BY SetupAssumption DEF Setup!Images, Setup!Absent
<1>4. /\ service \in Setup!Services /\ service.runs \in {r, Setup!Stopped}
  BY <1>1, <1>3, SetupImages DEF Setup!Services, Setup!Starts
<1>5. release \in SetupFiles /\ backup \in SetupFiles /\ staged \in SetupFiles
  BY <1>1, <1>2, <1>3, SetupImages DEF SetupFiles
<1>6. (CHOOSE x \in SetupReleases : TRUE) \in SetupReleases
  BY SetupAssumption
<1>7. journal \in SetupJournals /\ journal.phase = "none"
  BY <1>2, <1>6, SetupImages
     DEF Setup!NoJournal, SetupJournals, SetupFiles, Setup!Settled, Setup!Systems,
         Setup!Services, Setup!Starts
<1>8. installer \in Installers /\ installer.does = "none"
  BY <1>2, <1>6 DEF Setup!NotInstalling, Installers
<1>9. previous \in Setup!Systems
  BY <1>1, <1>2, <1>3, <1>4 DEF Setup!System, Setup!Systems
<1>10. SetupTypes
  BY <1>1, <1>2, <1>3, <1>4, <1>5, <1>7, <1>8, <1>9, SetupIdle DEF SetupTypes
<1>11. \A i \in Payload : release[i] = r
  BY <1>1, SetupImages
<1>12. Whole(release)
  BY <1>3, <1>11 DEF Whole
<1>13. JournalInv
  BY <1>3, <1>7, <1>11, SetupPhases DEF JournalInv, Setup!BackupsLast, Setup!AllOrNothing
<1>14. CoreInv
  BY <1>4, <1>11, <1>12 DEF CoreInv, Setup!CoreIsWhole
<1>15. HelperInv /\ InstallerInv
  BY <1>2, <1>8, SetupIdle DEF HelperInv, InstallerInv, Restoring
<1>. QED BY <1>10, <1>13, <1>14, <1>15 DEF SetupInv

\* Begin, Apply, Commit and Rollback of the installer's helper: whatever is cut
\* short, what is installed is one release or can be made so, and no service runs
\* a mixture.
THEOREM InstallationWhole == FilesSpec => []InstallationIsWhole
<1>1. FilesInit => SetupInv
  BY SetupInitSound DEF FilesInit
<1>2. SetupInv /\ [FilesNext]_allVars => SetupInv'
  BY SetupStepSound, SetupRests DEF FilesNext, allVars
<1>3. SetupInv => InstallationIsWhole
  BY DEF SetupInv, JournalInv, CoreInv, InstallationIsWhole, Setup!InstallationIsWhole
<1>. QED BY <1>1, <1>2, <1>3, PTL DEF FilesSpec
=============================================================================
