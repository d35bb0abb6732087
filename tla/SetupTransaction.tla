--------------------------- MODULE SetupTransaction ---------------------------
(***************************************************************************)
(* The file transaction of the installer (desktop/internal/setup), the     *)
(* Core service it stops and restores, and the part of the machine-wide    *)
(* installer (project.nsi) that drives it.                                 *)
(*                                                                         *)
(* The helper is one process per operation, kept alone by a mutex: it      *)
(* backs up and stages every file, journals each phase, replaces the files *)
(* one by one, and rolls back from the journal. It may fail at any call,   *)
(* be killed by the timeout of the installer, or lose power; so may the    *)
(* installer. A copy truncates its target first: one that is cut short     *)
(* leaves a torn file, and one that fails ends its helper. Meanwhile the   *)
(* desktop, or the boot of an automatic service, starts the Core whenever  *)
(* its configuration allows it.                                            *)
(*                                                                         *)
(* A file is the release it belongs to. The uninstaller is a file of the   *)
(* journal too, written by the installer itself and not from the payload.  *)
(***************************************************************************)
EXTENDS Integers

CONSTANTS
  Files,       \* the number of files of a release
  Payload,     \* the files that come from the payload
  Releases,    \* the releases, positive integers
  MaxInstalls  \* bound: how often the installer is opened

VARIABLES
  file,       \* the installed files
  backup,     \* the files old-i of the transaction's folder
  staged,     \* the files new-i
  journal,    \* journal.json
  service,    \* the Core service: its start type, and what its process runs
  policy,     \* the release the Core service policy pins
  helper,     \* the helper process
  installer,  \* what the installer does, and the release it brings
  found,      \* history: the service and policy before the last transaction
  installs    \* how often the installer was opened

store == <<backup, staged, journal>>
core  == <<service, policy>>
vars  == <<file, store, core, helper, installer, found, installs>>

Items  == 1..Files
Absent == 0
Torn   == -1
Images == Releases \cup {Absent, Torn}
Stopped == Absent  \* the process of a service that does not run
Starts == {"missing", "auto", "manual", "disabled"}
Services == [start : Starts, runs : Images]

Settled    == {"none", "committed", "rolled-back"}
Unfinished == {"prepared", "applying", "rolling-back"}
Systems == [service : Services, policy : Images]
NoJournal == [phase |-> "none", old |-> [i \in Items |-> Absent],
              new |-> CHOOSE r \in Releases : TRUE,
              system |-> [service |-> [start |-> "missing", runs |-> Stopped],
                          policy |-> Absent]]

Idle == [op |-> "none", at |-> "idle", item |-> 0, failed |-> FALSE]
Operations == {"recover", "begin", "apply", "commit", "rollback"}
Steps == {"load", "backup", "quiesce", "stop", "copy", "cleanup",
          "undo", "unregister", "register", "configure", "restart", "record"}
Installing == Operations \cup {"stop", "configure", "invalidate", "pin", "start", "write"}
NotInstalling == [does |-> "none", active |-> FALSE, release |-> CHOOSE r \in Releases : TRUE]

TypeOK ==
  /\ file \in [Items -> Images] /\ backup \in [Items -> Images] /\ staged \in [Items -> Images]
  /\ journal \in [phase : Settled \cup Unfinished, old : [Items -> Images], new : Releases,
                  system : Systems]
  /\ service \in Services /\ policy \in Images
  /\ helper = Idle \/ helper \in [op : Operations, at : Steps, item : 0..Files + 1,
                                  failed : BOOLEAN]
  /\ installer \in [does : Installing \cup {"none"}, active : BOOLEAN, release : Releases]
  /\ found \in Systems
  /\ installs \in 0..MaxInstalls

-----------------------------------------------------------------------------
(* The helper. *)

System == [service |-> service, policy |-> policy]

At(op, step) == helper.op = op /\ helper.at = step
GoTo(step) == helper' = [helper EXCEPT !.at = step, !.item = 1]
NextItem == helper' = [helper EXCEPT !.item = @ + 1]
More == helper.item <= Files

\* The installer calls the helper and waits for it.
Run ==
  /\ helper = Idle /\ installer.does \in Operations
  /\ helper' = [Idle EXCEPT !.op = installer.does, !.at = "load"]
  /\ UNCHANGED <<file, store, core, installer, found, installs>>

\* The installer reads the exit code: a failure rolls back, once begin is done.
Fails ==
  /\ helper' = Idle
  /\ installer' = [installer EXCEPT !.does = IF installer.active THEN "rollback" ELSE "none",
                                    !.active = FALSE]

After == CASE installer.does = "recover" -> "begin"
           [] installer.does = "begin"   -> "stop"
           [] installer.does = "apply"   -> "configure"
           [] OTHER -> "none"
Succeeds ==
  /\ helper' = Idle
  /\ installer' = [installer EXCEPT !.does = After,
                     !.active = (installer.does = "begin") \/ (@ /\ installer.does # "commit")]

Loads(op) == At(op, "load")

\* Any call of the helper may fail or be cut off by the timeout.
GivesUp ==
  /\ helper # Idle
  /\ Fails
  /\ UNCHANGED <<file, store, core, found, installs>>

\* Recover, the first thing begin does. A completed journal is only cleaned.
CleansUp ==
  /\ \E op \in {"recover", "begin"} : Loads(op)
  /\ journal.phase \in Settled
  /\ \/ backup' = [i \in Items |-> Absent] /\ staged' = [i \in Items |-> Absent]
     \/ UNCHANGED <<backup, staged>>  \* removals that fail are ignored
  /\ IF helper.op = "begin"
     THEN GoTo("backup") /\ found' = System /\ UNCHANGED installer
     ELSE Succeeds /\ UNCHANGED found
  /\ UNCHANGED <<file, journal, core, installs>>

\* Begin: one file is backed up, its payload staged, and both are verified.
BacksUp ==
  /\ At("begin", "backup") /\ More
  /\ backup' = [backup EXCEPT ![helper.item] = file[helper.item]]
  /\ staged' = [staged EXCEPT ![helper.item] =
                  IF helper.item \in Payload THEN installer.release ELSE @]
  /\ NextItem
  /\ UNCHANGED <<file, journal, core, installer, found, installs>>

BackupCut ==
  /\ At("begin", "backup") /\ More
  /\ \/ file[helper.item] # Absent /\ backup' = [backup EXCEPT ![helper.item] = Torn] /\ UNCHANGED staged
     \/ helper.item \in Payload /\ staged' = [staged EXCEPT ![helper.item] = Torn] /\ UNCHANGED backup
  /\ Fails
  /\ UNCHANGED <<file, journal, core, found, installs>>

\* Snapshot, and the journal that makes the transaction real.
Prepares ==
  /\ At("begin", "backup") /\ ~More
  /\ journal' = [phase |-> "prepared", old |-> file, new |-> installer.release, system |-> System]
  /\ Succeeds
  /\ UNCHANGED <<file, backup, staged, core, found, installs>>

\* Apply: the staged payload is verified before anything changes.
StartsApplying ==
  /\ Loads("apply")
  /\ journal.phase = "prepared"
  /\ \A i \in Payload : staged[i] = journal.new
  /\ journal' = [journal EXCEPT !.phase = "applying"]
  /\ GoTo("quiesce")
  /\ UNCHANGED <<file, backup, staged, core, installer, found, installs>>

\* Quiesce disables the service first, so that nothing starts it again.
Disabled == IF service.start = "missing" THEN service ELSE [service EXCEPT !.start = "disabled"]
Disables ==
  /\ helper.at = "quiesce"
  /\ service' = Disabled
  /\ GoTo("stop")
  /\ UNCHANGED <<file, store, policy, installer, found, installs>>

Stops ==
  /\ helper.at = "stop"
  /\ service' = [service EXCEPT !.runs = Stopped]
  /\ GoTo(IF helper.op = "apply" THEN "copy" ELSE "undo")
  /\ UNCHANGED <<file, store, policy, installer, found, installs>>

\* One file is replaced; one that is the new one already is left alone.
Replaces ==
  /\ At("apply", "copy") /\ More
  /\ file' = IF helper.item \in Payload THEN [file EXCEPT ![helper.item] = staged[helper.item]]
             ELSE file
  /\ NextItem
  /\ UNCHANGED <<store, core, installer, found, installs>>

ReplaceCut ==
  /\ At("apply", "copy") /\ More
  /\ helper.item \in Payload /\ file[helper.item] # journal.new
  /\ file' = [file EXCEPT ![helper.item] = Torn]
  /\ Fails
  /\ UNCHANGED <<store, core, found, installs>>

Applied ==
  /\ At("apply", "copy") /\ ~More
  /\ Succeeds
  /\ UNCHANGED <<file, store, core, found, installs>>

\* Defect: the backups go before the journal says committed.
CleansFirst ==
  /\ Loads("commit")
  /\ journal.phase = "applying"
  /\ \A i \in Payload : file[i] = journal.new
  /\ backup' = [i \in Items |-> Absent]
  /\ GoTo("cleanup")
  /\ UNCHANGED <<file, staged, journal, core, installer, found, installs>>

\* Commit verifies what is installed; the cleanup after it may not happen.
Commits ==
  /\ Loads("commit")
  /\ journal.phase = "applying"
  /\ \A i \in Payload : file[i] = journal.new
  /\ journal' = [journal EXCEPT !.phase = "committed"]
  /\ GoTo("cleanup")
  /\ UNCHANGED <<file, backup, staged, core, installer, found, installs>>

Cleaned ==
  /\ At("commit", "cleanup")
  /\ backup' = [i \in Items |-> Absent] /\ staged' = [i \in Items |-> Absent]
  /\ Succeeds
  /\ UNCHANGED <<file, journal, core, found, installs>>

-----------------------------------------------------------------------------
(* Rollback, asked for or on recovery. *)

RollingBack(step) == \E op \in {"rollback", "recover", "begin"} : At(op, step)

\* A recovery inside begin goes on with begin.
RolledBack ==
  IF helper.op = "begin" THEN GoTo("load") /\ UNCHANGED installer ELSE Succeeds

NothingToUndo ==
  /\ Loads("rollback") /\ journal.phase \in Settled
  /\ Succeeds
  /\ UNCHANGED <<file, store, core, found, installs>>

\* Every backup is verified before one file is overwritten.
StartsRollback ==
  /\ RollingBack("load") /\ journal.phase \in Unfinished
  /\ \A i \in Items : journal.old[i] # Absent => backup[i] = journal.old[i]
  /\ journal' = [journal EXCEPT !.phase = "rolling-back"]
  /\ GoTo("quiesce")
  /\ UNCHANGED <<file, backup, staged, core, installer, found, installs>>

\* The Core does not stop. What the service was is restored only when every
\* file is still the old one; the rollback fails in either case.
Unchanged == file = journal.old
StopFails ==
  /\ helper.at = "stop" /\ helper.op # "apply"
  /\ Unchanged
  /\ helper' = [helper EXCEPT !.at = "unregister", !.failed = TRUE]
  /\ UNCHANGED <<file, store, core, installer, found, installs>>

\* One file is given back; one that was not there is removed.
GivesBack(i) == journal.old[i]
Undoes ==
  /\ helper.at = "undo" /\ More
  /\ file' = [file EXCEPT ![helper.item] = GivesBack(helper.item)]
  /\ NextItem
  /\ UNCHANGED <<store, core, installer, found, installs>>

UndoCut ==
  /\ helper.at = "undo" /\ More
  /\ journal.old[helper.item] \notin {Absent, file[helper.item]}
  /\ file' = [file EXCEPT ![helper.item] = Torn]
  /\ Fails
  /\ UNCHANGED <<store, core, found, installs>>

Undone ==
  /\ helper.at = "undo" /\ ~More
  /\ GoTo("unregister")
  /\ UNCHANGED <<file, store, core, installer, found, installs>>

\* Restore: the policy key is deleted, then imported again.
Unregisters ==
  /\ helper.at = "unregister"
  /\ policy' = Absent
  /\ helper' = [helper EXCEPT !.at = "register"]
  /\ UNCHANGED <<file, store, service, installer, found, installs>>

Registers ==
  /\ helper.at = "register"
  /\ policy' = journal.system.policy
  /\ helper' = [helper EXCEPT !.at = "configure"]
  /\ UNCHANGED <<file, store, service, installer, found, installs>>

\* The service is deleted when there was none; one that ran is started even
\* when it was disabled.
Was == journal.system.service
Configures ==
  /\ helper.at = "configure"
  /\ Was.start # "missing" => service.start # "missing"
  /\ service' = [service EXCEPT !.start =
                   IF Was.start = "disabled" /\ Was.runs # Stopped THEN "manual" ELSE Was.start,
                   !.runs = IF Was.start = "missing" THEN Stopped ELSE @]
  /\ helper' = [helper EXCEPT !.at = "restart"]
  /\ UNCHANGED <<file, store, policy, installer, found, installs>>

Image == file[1]  \* the executable of the Core
Restarts ==
  /\ helper.at = "restart"
  /\ Was.runs # Stopped => Image \notin {Absent, Torn}
  /\ service' = [service EXCEPT !.runs = IF Was.runs # Stopped /\ @ = Stopped THEN Image ELSE @,
                                !.start = IF Was.start = "disabled" THEN "disabled" ELSE @]
  /\ helper' = [helper EXCEPT !.at = "record"]
  /\ UNCHANGED <<file, store, policy, installer, found, installs>>

Records ==
  /\ helper.at = "record" /\ ~helper.failed
  /\ journal' = [journal EXCEPT !.phase = "rolled-back"]
  /\ RolledBack
  /\ UNCHANGED <<file, backup, staged, core, found, installs>>

-----------------------------------------------------------------------------
(* The installer, and what else happens to the Core. *)

\* An unfinished journal is recovered before the user can go on.
Opens(r) ==
  /\ installer.does = "none" /\ installs < MaxInstalls
  /\ installer' = [does |-> IF journal.phase \in Unfinished THEN "recover" ELSE "begin",
                   active |-> FALSE, release |-> r]
  /\ installs' = installs + 1
  /\ UNCHANGED <<file, store, core, helper, found>>

Installs(step, next) == installer.does = step /\ installer' = [installer EXCEPT !.does = next]

InstallFails ==
  /\ installer.does \in Installing \ Operations
  /\ installer' = [installer EXCEPT !.does = "rollback", !.active = FALSE]
  /\ UNCHANGED <<file, store, core, helper, found, installs>>

\* StopCoreServiceForUpgrade: disabled, then stopped; it may not stop.
StopsCore ==
  /\ Installs("stop", "apply")
  /\ service' = [Disabled EXCEPT !.runs = Stopped]
  /\ UNCHANGED <<file, store, policy, helper, found, installs>>

CoreStays ==
  /\ Installs("stop", "rollback")
  /\ service' = Disabled
  /\ UNCHANGED <<file, store, policy, helper, found, installs>>

\* install-service: the service is stopped and made automatic, its policy
\* invalidated and then written, and the service started.
ConfiguresService ==
  /\ Installs("configure", "invalidate")
  /\ service' = [start |-> "auto", runs |-> Stopped]
  /\ UNCHANGED <<file, store, policy, helper, found, installs>>

InvalidatesPolicy ==
  /\ Installs("invalidate", "pin")
  /\ policy' = Torn
  /\ UNCHANGED <<file, store, service, helper, found, installs>>

PinsPolicy ==
  /\ Installs("pin", "start")
  /\ policy' = Image
  /\ UNCHANGED <<file, store, service, helper, found, installs>>

StartsService ==
  /\ Installs("start", "write")
  /\ service' = [service EXCEPT !.runs = Image]
  /\ UNCHANGED <<file, store, policy, helper, found, installs>>

\* The files that are not of the payload are written by the installer.
WritesRest ==
  /\ Installs("write", "commit")
  /\ \E r \in {installer.release, Torn} :
       file' = [i \in Items |-> IF i \in Payload THEN file[i] ELSE r]
  /\ UNCHANGED <<store, core, helper, found, installs>>

\* The boot, the recovery actions of the service, or the desktop starts it.
CoreStarts ==
  /\ service.start \in {"auto", "manual"} /\ service.runs = Stopped
  /\ Image \notin {Absent, Torn}
  /\ service' = [service EXCEPT !.runs = Image]
  /\ UNCHANGED <<file, store, policy, helper, installer, found, installs>>

CoreStops ==
  /\ service.runs # Stopped
  /\ service' = [service EXCEPT !.runs = Stopped]
  /\ UNCHANGED <<file, store, policy, helper, installer, found, installs>>

PowerLoss ==
  /\ installer.does # "none"
  /\ helper' = Idle
  /\ installer' = [installer EXCEPT !.does = "none", !.active = FALSE]
  /\ service' = [service EXCEPT !.runs = Stopped]
  /\ UNCHANGED <<file, store, policy, found, installs>>

\* Nothing is installed, or one release with its service.
Init ==
  /\ \E r \in {0, 1}, start \in {"auto", "disabled"}, running \in BOOLEAN :
       /\ file = [i \in Items |-> r]
       /\ policy = r
       /\ service = [start |-> IF r = 0 THEN "missing" ELSE start,
                     runs |-> IF running THEN r ELSE Stopped]
  /\ backup = [i \in Items |-> Absent] /\ staged = [i \in Items |-> Absent]
  /\ journal = NoJournal
  /\ helper = Idle /\ installer = NotInstalling
  /\ found = System
  /\ installs = 0

HelperSteps ==
  \/ Run \/ GivesUp \/ CleansUp
  \/ BacksUp \/ BackupCut \/ Prepares
  \/ StartsApplying \/ Disables \/ Stops \/ Replaces \/ ReplaceCut \/ Applied
  \/ Commits \/ Cleaned
  \/ NothingToUndo \/ StartsRollback \/ StopFails \/ Undoes \/ UndoCut \/ Undone
  \/ Unregisters \/ Registers \/ Configures \/ Restarts \/ Records

Next ==
  \/ HelperSteps
  \/ \E r \in Releases : Opens(r)
  \/ InstallFails \/ StopsCore \/ CoreStays
  \/ ConfiguresService \/ InvalidatesPolicy \/ PinsPolicy \/ StartsService \/ WritesRest
  \/ CoreStarts \/ CoreStops \/ PowerLoss

Spec == Init /\ [][Next]_vars

-----------------------------------------------------------------------------
(* A transaction that is not over can be undone: every file it found is in *)
(* its backup, whatever was cut short, and however often the installer was *)
(* opened since (transaction.go:172-173, 360-372).                         *)
BackupsLast ==
  journal.phase \in Unfinished =>
    \A i \in Items : journal.old[i] # Absent => backup[i] = journal.old[i]

(* All or nothing: once a journal is completed the files are of one        *)
(* release, and a transaction that was rolled back has given back what it  *)
(* found, the start type of the service and its policy included            *)
(* (transaction.go:336-340, 374-445, platform_windows.go:418-556).         *)
AllOrNothing ==
  /\ journal.phase \in Settled =>
       \E r \in Releases \cup {Absent} : \A i \in Payload : file[i] = r
  /\ journal.phase = "rolled-back" =>
       /\ file = journal.old
       /\ service.start = found.service.start /\ policy = found.policy

(* The Core never runs while its files are of two releases, or torn: it is *)
(* disabled as long as they may be, and is restored only to files that are *)
(* whole (transaction.go:385-403, platform_windows.go:365-417).            *)
CoreIsWhole ==
  service.runs # Stopped => \A i \in Payload : file[i] = service.runs
(* Whatever ends an installation, and whenever: it is one release or the   *)
(* other, or can be made so, and no service runs a mixture.                *)
InstallationIsWhole == BackupsLast /\ AllOrNothing /\ CoreIsWhole
=============================================================================
