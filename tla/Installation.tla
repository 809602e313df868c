---------------------------- MODULE Installation ----------------------------
(* deploy/install-launchd.sh and deploy/service_transaction.py: installers    *)
(* replace the binary, the property list and the capability manifest of the   *)
(* service under a lock, start it through launchd, watch it become ready and  *)
(* otherwise put back what was there.  launchd keeps the service alive, so it *)
(* starts, fails and publishes its documents while an installer works.  Any   *)
(* phase may fail or be interrupted at any point, any installer be killed.    *)
EXTENDS Integers, FiniteSets

CONSTANTS
  Installers,     \* invocations of the script
  NoInstaller,
  Versions,       \* contents of the installed artifacts
  Absent,         \* no such file
  Modes,          \* ways the script is invoked in this instance
  MaxRuns         \* bound on the runs of the service

ASSUME InstallationAssumption ==
  /\ NoInstaller \notin Installers /\ Absent \notin Versions
  /\ Modes \subseteq {"install", "qualified", "uninstall"} /\ MaxRuns \in Nat

Artifacts == {"binary", "plist", "manifest"}
NoRun == 0

VARIABLES
  installed,    \* artifact -> its content
  good,         \* history: what the last transaction that came to its end left
  lock,         \* install.lock: does it exist, and whose token is in it
  pc,           \* installer -> phase
  mode,         \* installer -> how it was invoked
  undoing,      \* installer -> is cleanup running its phases
  todo,         \* installer -> the artifact that publish or restore writes next
  backup,       \* installer -> the artifacts saved by prepare
  candidate,    \* installer -> what it publishes
  excluded,     \* installer -> runs whose documents do not count
  baseline,     \* installer -> runs of the documents uninstall may remove
  watch,        \* installer -> its last start: the runs before it, the run it expects
                \* and those it saw ready
  launchd,      \* is the service "absent", "loaded" or "leaving"; will it be respawned
  process,      \* the running service
  runs,         \* runs so far
  readiness,    \* readiness.json
  bootstrap     \* bootstrap-status.json

files == <<installed, good>>
script == <<pc, mode, undoing, todo, backup, candidate>>
notes == <<excluded, baseline, watch>>
documents == <<readiness, bootstrap>>
service == <<launchd, process, runs, readiness, bootstrap>>
vars == <<files, lock, script, notes, service>>

NoProcess == [run |-> NoRun, code |-> Absent, sha |-> Absent, phase |-> "new"]
NoReadiness == [run |-> NoRun, sha |-> Absent, ready |-> FALSE, fresh |-> FALSE]
NoBootstrap == [run |-> NoRun, sha |-> Absent, failed |-> FALSE]
NoWatch == [since |-> 0, expected |-> NoRun, seen |-> {}]

\* Nothing was ever installed, the service is installed and about to run, or it
\* was uninstalled, which leaves the binary; some invocations and runs are past.
Init ==
  /\ \E v \in Versions, manifest \in Versions \cup {Absent} :
       installed \in { [a \in Artifacts |-> Absent],
                       [binary |-> v, plist |-> Absent, manifest |-> manifest],
                       [binary |-> v, plist |-> v, manifest |-> manifest] }
  /\ good = installed
  /\ launchd = IF installed["plist"] = Absent THEN [state |-> "absent", again |-> FALSE]
               ELSE [state |-> "loaded", again |-> TRUE]
  /\ lock = [held |-> FALSE, owner |-> NoInstaller]
  /\ pc \in [Installers -> {"idle", "ended"}] /\ mode \in [Installers -> Modes]
  /\ undoing = [i \in Installers |-> FALSE] /\ todo = [i \in Installers |-> "none"]
  /\ backup = [i \in Installers |-> [a \in Artifacts |-> Absent]]
  /\ candidate = [i \in Installers |-> Absent]
  /\ excluded = [i \in Installers |-> {}]
  /\ baseline = [i \in Installers |-> [readiness |-> NoRun, bootstrap |-> NoRun]]
  /\ watch = [i \in Installers |-> NoWatch]
  /\ process = NoProcess /\ runs \in 0 .. MaxRuns /\ readiness = NoReadiness /\ bootstrap = NoBootstrap

----------------------------------------------------------------------------
(* What the phases of the script share.                                       *)
At(i, phase) == pc[i] = phase
Goes(i, phase) == pc' = [pc EXCEPT ![i] = phase]

\* The artifacts a transaction writes, in the order it writes them.
Written(i) == IF mode[i] = "qualified" THEN Artifacts ELSE {"binary", "plist"}
Following(i, artifact) ==
  CASE artifact = "binary" -> "plist"
    [] artifact = "plist" /\ mode[i] = "qualified" -> "manifest"
    [] OTHER -> "none"

HadPlist(i) == backup[i]["plist"] # Absent
Nonces == {readiness.run, bootstrap.run} \ {NoRun}
Digest == installed["binary"]

\* Phases between which the shell has ROLLBACK=1.
Changing == {"publish", "start", "await", "poll", "commit", "committed"}
Phases == {"acquired", "capture", "stop", "stopping", "uninstall", "restore"} \cup Changing

\* A phase fails, its time runs out, or the script is interrupted in it or after
\* it: cleanup rolls back if anything may have been changed, and keeps the lock
\* and the recovery material if that fails too.
AbandonsQuietly(i) ==
  IF pc[i] \in Changing /\ ~undoing[i]
  THEN Goes(i, "capture") /\ undoing' = [undoing EXCEPT ![i] = TRUE]
  ELSE Goes(i, "release") /\ UNCHANGED undoing
Abandons(i) ==
  IF undoing[i] THEN Goes(i, "retained") /\ UNCHANGED undoing
  ELSE IF pc[i] \in Changing
       THEN Goes(i, "capture") /\ undoing' = [undoing EXCEPT ![i] = TRUE]
       ELSE Goes(i, "release") /\ UNCHANGED undoing
Fails(i) ==
  /\ pc[i] \in Phases /\ Abandons(i)
  /\ UNCHANGED <<files, lock, mode, todo, backup, candidate, notes, service>>

\* A child of the phase could not be reaped: nothing more is touched.
Retains(i) ==
  /\ pc[i] \in Phases /\ Goes(i, "retained")
  /\ UNCHANGED <<files, lock, mode, undoing, todo, backup, candidate, notes, service>>

\* SIGKILL: no trap runs.
Killed(i) ==
  /\ pc[i] \notin {"idle", "retained", "ended", "killed"} /\ Goes(i, "killed")
  /\ UNCHANGED <<files, lock, mode, undoing, todo, backup, candidate, notes, service>>

----------------------------------------------------------------------------
(* The lock: a directory, made and removed atomically, with the owner's token. *)
Acquire(i) ==
  /\ At(i, "idle")
  /\ \/ ~lock.held /\ lock' = [lock EXCEPT !.held = TRUE] /\ Goes(i, "made")
     \/ lock.held /\ Goes(i, "ended") /\ UNCHANGED lock
  /\ UNCHANGED <<files, mode, undoing, todo, backup, candidate, notes, service>>

WriteOwner(i) ==
  /\ At(i, "made")
  /\ \/ lock' = [lock EXCEPT !.owner = i] /\ Goes(i, "acquired")
     \/ lock' = [lock EXCEPT !.held = FALSE] /\ Goes(i, "ended")
     \/ \E owner \in {i, NoInstaller} : lock' = [lock EXCEPT !.owner = owner] /\ Goes(i, "ended")
  /\ UNCHANGED <<files, mode, undoing, todo, backup, candidate, notes, service>>

\* The owner's file goes first; if the directory cannot go it is put back.
Release(i) ==
  /\ At(i, "release")
  /\ \/ lock' = [lock EXCEPT !.owner = NoInstaller] /\ Goes(i, "releasing")
     \/ UNCHANGED lock /\ Goes(i, "ended")
  /\ UNCHANGED <<files, mode, undoing, todo, backup, candidate, notes, service>>

RemoveLock(i) ==
  /\ At(i, "releasing") /\ Goes(i, "ended")
  /\ \/ lock' = [lock EXCEPT !.held = FALSE]
     \/ lock' = [lock EXCEPT !.owner = i]
     \/ UNCHANGED lock
  /\ UNCHANGED <<files, mode, undoing, todo, backup, candidate, notes, service>>

----------------------------------------------------------------------------
(* Phases that leave the installed artifacts alone.                           *)
Prepare(i) ==
  /\ At(i, "acquired") /\ mode[i] # "uninstall" /\ Goes(i, "capture")
  /\ excluded' = [excluded EXCEPT ![i] = Nonces]
  /\ backup' = [backup EXCEPT ![i] = [a \in Artifacts |->
                 IF a \in Written(i) THEN installed[a] ELSE Absent]]
  /\ \E v \in Versions : candidate' = [candidate EXCEPT ![i] = v]
  /\ UNCHANGED <<files, lock, mode, undoing, todo, baseline, watch, service>>

UninstallPrepare(i) ==
  /\ At(i, "acquired") /\ mode[i] = "uninstall" /\ Goes(i, "stop")
  /\ baseline' = [baseline EXCEPT ![i] =
       [readiness |-> readiness.run, bootstrap |-> bootstrap.run]]
  /\ UNCHANGED <<files, lock, mode, undoing, todo, backup, candidate, excluded, watch, service>>

\* More than two runs to exclude cannot be remembered: the phase fails.
Capture(i) ==
  /\ At(i, "capture")
  /\ LET all == excluded[i] \cup Nonces
     IN \/ /\ Cardinality(all) <= 2 /\ excluded' = [excluded EXCEPT ![i] = all]
           /\ Goes(i, "stop") /\ UNCHANGED undoing
        \/ /\ Cardinality(all) > 2 /\ Abandons(i) /\ UNCHANGED excluded
  /\ UNCHANGED <<files, lock, mode, todo, backup, candidate, baseline, watch, service>>

\* bootout, unless the service is not loaded.
Stop(i) ==
  /\ At(i, "stop") /\ Goes(i, "stopping")
  /\ launchd' = IF launchd.state = "absent" THEN launchd
                ELSE [state |-> "leaving", again |-> FALSE]
  /\ UNCHANGED <<files, lock, mode, undoing, todo, backup, candidate, notes>>
  /\ UNCHANGED <<process, runs, documents>>

\* The record is gone, and with it the process.
Stopped(i) ==
  /\ At(i, "stopping") /\ launchd.state = "absent"
  /\ IF mode[i] = "uninstall" THEN Goes(i, "uninstall") /\ UNCHANGED todo
     ELSE /\ Goes(i, IF undoing[i] THEN "restore" ELSE "publish")
          /\ todo' = [todo EXCEPT ![i] = "binary"]
  /\ UNCHANGED <<files, lock, mode, undoing, backup, candidate, notes, service>>

----------------------------------------------------------------------------
(* Phases that change them.                                                   *)
Writes(i, contents) ==
  /\ todo[i] # "none"
  /\ installed' = [installed EXCEPT ![todo[i]] = contents[todo[i]]]
  /\ todo' = [todo EXCEPT ![i] = Following(i, todo[i])]
  /\ UNCHANGED <<good, pc, lock, mode, undoing, backup, candidate, notes, service>>

Publish(i) ==
  /\ At(i, "publish")
  /\ \/ Writes(i, [a \in Artifacts |-> candidate[i]])
     \/ /\ todo[i] = "none" /\ Goes(i, "start")
        /\ UNCHANGED <<files, lock, mode, undoing, todo, backup, candidate, notes, service>>

Restore(i) ==
  /\ At(i, "restore")
  /\ \/ Writes(i, backup[i])
     \/ /\ todo[i] = "none" /\ Goes(i, IF HadPlist(i) THEN "start" ELSE "rolled_back")
        /\ UNCHANGED <<files, lock, mode, undoing, todo, backup, candidate, notes, service>>

\* The documents of the run that was stopped, then the property list.
Uninstall(i) ==
  /\ At(i, "uninstall") /\ Goes(i, "release")
  /\ readiness' = IF readiness.run = baseline[i].readiness THEN NoReadiness ELSE readiness
  /\ bootstrap' = IF bootstrap.run = baseline[i].bootstrap THEN NoBootstrap ELSE bootstrap
  /\ \/ installed' = [installed EXCEPT !["plist"] = Absent] /\ good' = installed'
     \/ UNCHANGED files
  /\ UNCHANGED <<lock, mode, undoing, todo, backup, candidate, notes, launchd, process, runs>>

----------------------------------------------------------------------------
(* Starting and watching the service: bootstrap and wait_ready.               *)

\* From here on only a document published later is fresh.
Start(i) ==
  /\ At(i, "start") /\ launchd.state = "absent" /\ installed["binary"] # Absent
  /\ launchd' = [state |-> "loaded", again |-> TRUE]
  /\ readiness' = [readiness EXCEPT !.fresh = FALSE]
  /\ watch' = [watch EXCEPT ![i] = [NoWatch EXCEPT !.since = runs]]
  /\ Goes(i, "await")
  /\ UNCHANGED <<files, lock, mode, undoing, todo, backup, candidate, excluded, baseline>>
  /\ UNCHANGED <<process, runs, bootstrap>>

\* A document of a failed start of the same binary.
Failure(i) ==
  bootstrap.failed /\ bootstrap.sha = Digest /\ bootstrap.run \notin excluded[i]

Blames(i) ==
  /\ \/ At(i, "await") /\ Failure(i)
     \/ At(i, "poll") /\ Failure(i) /\ bootstrap.run = watch[i].expected
  /\ Abandons(i)
  /\ UNCHANGED <<files, lock, mode, todo, backup, candidate, notes, service>>

TakesPid(i) ==
  /\ At(i, "await") /\ ~Failure(i) /\ process.run # NoRun
  /\ watch' = [watch EXCEPT ![i].expected = process.run] /\ Goes(i, "poll")
  /\ UNCHANGED <<files, lock, mode, undoing, todo, backup, candidate, excluded, baseline, service>>

\* launchd and the document agree on one run, ready and of the installed binary.
Ready(i) ==
  /\ process.run = readiness.run /\ process.run # NoRun
  /\ readiness.ready /\ readiness.fresh /\ readiness.sha = Digest

ExpectedAnyRun(i) == Ready(i) /\ readiness.run \notin excluded[i]
Expected(i) ==
  /\ Ready(i) /\ readiness.run = watch[i].expected /\ readiness.run \notin excluded[i]
  /\ ~(Failure(i) /\ bootstrap.run = watch[i].expected)

\* The first valid observation pins the run; the last comes five seconds later.
Poll(i) ==
  /\ At(i, "poll") /\ Expected(i)
  /\ watch' = [watch EXCEPT ![i].seen = @ \cup {[run |-> process.run, code |-> process.code]}]
  /\ IF watch[i].seen = {} THEN UNCHANGED pc
     ELSE Goes(i, IF undoing[i] THEN "rolled_back" ELSE "commit")
  /\ UNCHANGED <<files, lock, mode, undoing, todo, backup, candidate, excluded, baseline, service>>

\* A qualified candidate is checked once more before the journal says committed.
Commit(i) ==
  /\ At(i, "commit") /\ Goes(i, "committed")
  /\ mode[i] = "qualified" =>
       /\ Ready(i) /\ readiness.run = watch[i].expected
       /\ Digest = candidate[i] /\ installed["manifest"] = candidate[i]
  /\ UNCHANGED <<files, lock, mode, undoing, todo, backup, candidate, notes, service>>

\* ROLLBACK=0: the candidate stays.
Succeeds(i) ==
  /\ At(i, "committed") /\ Goes(i, "ready") /\ good' = installed
  /\ UNCHANGED <<installed, lock, mode, undoing, todo, backup, candidate, notes, service>>

Reports(i) ==
  /\ pc[i] \in {"ready", "rolled_back"} /\ Goes(i, "release")
  /\ UNCHANGED <<files, lock, mode, undoing, todo, backup, candidate, notes, service>>

----------------------------------------------------------------------------
(* launchd, external, and the managed service.                                *)
others == <<files, lock, script, notes>>

\* launchd starts the service when it is loaded and after it failed.
Spawn ==
  /\ launchd.state = "loaded" /\ launchd.again /\ process = NoProcess
  /\ runs < MaxRuns /\ installed["binary"] # Absent
  /\ runs' = runs + 1
  /\ process' = [NoProcess EXCEPT !.run = runs + 1, !.code = installed["binary"]]
  /\ UNCHANGED <<others, launchd, documents>>

Forgets ==
  /\ launchd.state = "leaving" /\ process = NoProcess
  /\ launchd' = [launchd EXCEPT !.state = "absent"]
  /\ UNCHANGED <<others, process, runs, documents>>

\* The service hashes its executable, then says that it is starting.
Begin ==
  /\ process.run # NoRun /\ process.phase = "new"
  /\ process' = [process EXCEPT !.sha = installed["binary"], !.phase = "begun"]
  /\ bootstrap' = [run |-> process.run, sha |-> process'.sha, failed |-> FALSE]
  /\ UNCHANGED <<others, launchd, runs, readiness>>

BootstrapFailure ==
  /\ process.run # NoRun /\ process.phase = "begun"
  /\ process' = [process EXCEPT !.phase = "failed"]
  /\ bootstrap' = [run |-> process.run, sha |-> process.sha, failed |-> TRUE]
  /\ UNCHANGED <<others, launchd, runs, readiness>>

\* Once it is ready the service removes its own bootstrap document.
PublishReadiness(ready) ==
  /\ process.run # NoRun /\ process.phase \in {"begun", "serving"}
  /\ process' = [process EXCEPT !.phase = "serving"]
  /\ readiness' = [run |-> process.run, sha |-> process.sha, ready |-> ready, fresh |-> TRUE]
  /\ bootstrap' = IF ready /\ bootstrap.run = process.run THEN NoBootstrap ELSE bootstrap
  /\ UNCHANGED <<others, launchd, runs>>

\* The service dies and launchd will start it again if it is still loaded, or
\* it ends and removes its own documents.
Exit(clean) ==
  /\ process.run # NoRun /\ (clean => process.phase = "serving")
  /\ process' = NoProcess
  /\ launchd' = [launchd EXCEPT !.again = ~clean /\ launchd.state = "loaded"]
  /\ readiness' = IF clean /\ readiness.run = process.run THEN NoReadiness ELSE readiness
  /\ bootstrap' = IF clean /\ bootstrap.run = process.run THEN NoBootstrap ELSE bootstrap
  /\ UNCHANGED <<others, runs>>

----------------------------------------------------------------------------
Installer(i) ==
  \/ Acquire(i) \/ WriteOwner(i) \/ Release(i) \/ RemoveLock(i)
  \/ Prepare(i) \/ UninstallPrepare(i) \/ Capture(i) \/ Stop(i) \/ Stopped(i)
  \/ Publish(i) \/ Restore(i) \/ Uninstall(i)
  \/ Start(i) \/ Blames(i) \/ TakesPid(i) \/ Poll(i) \/ Commit(i) \/ Succeeds(i) \/ Reports(i)
  \/ Fails(i) \/ Retains(i) \/ Killed(i)

Service ==
  \/ Spawn \/ Forgets \/ Begin \/ BootstrapFailure
  \/ \E ready \in BOOLEAN : PublishReadiness(ready)
  \/ \E clean \in BOOLEAN : Exit(clean)

Next == Service \/ \E i \in Installers : Installer(i)
Spec == Init /\ [][Next]_vars

----------------------------------------------------------------------------
TypeOK ==
  /\ installed \in [Artifacts -> Versions \cup {Absent}]
  /\ good \in [Artifacts -> Versions \cup {Absent}]
  /\ lock \in [held : BOOLEAN, owner : Installers \cup {NoInstaller}]
  /\ undoing \in [Installers -> BOOLEAN] /\ todo \in [Installers -> Artifacts \cup {"none"}]
  /\ backup \in [Installers -> [Artifacts -> Versions \cup {Absent}]]
  /\ launchd \in [state : {"absent", "loaded", "leaving"}, again : BOOLEAN]

\* Whatever fails and whoever is killed: while an installed artifact differs
\* from what the last finished transaction left, an installer holds the lock,
\* so that no other begins, and what was there before is in its backup.
\* (install-launchd.sh, cleanup; service_transaction.py, prepare and restore.)
Recoverable ==
  \A a \in Artifacts : installed[a] # good[a] =>
     \E i \in Installers : /\ lock = [held |-> TRUE, owner |-> i]
                           /\ a \in Written(i) /\ backup[i][a] = good[a]

\* "ready" and "rollback_ready" speak of one run, seen ready at the first and
\* the last observation: it was started after the artifacts were published or
\* restored, and it executes the binary they contain.
ReportsAreTrue ==
  \A i \in Installers :
     At(i, "ready") \/ (At(i, "rolled_back") /\ HadPlist(i)) =>
        \E r \in (watch[i].since + 1) .. MaxRuns :
           watch[i].seen = {[run |-> r, code |-> IF undoing[i] THEN backup[i]["binary"]
                                                 ELSE candidate[i]]}
=============================================================================
