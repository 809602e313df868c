------------------------- MODULE InstallationProofs -------------------------
(* What TLAPS proves of Installation for any installers, versions and runs of *)
(* the service: whatever fails and whoever is killed, what an installer       *)
(* replaced can be put back, and what it reports is true.  IInv is inductive, *)
(* RInv is with it; there is a lemma per step of an installer.                *)
EXTENDS Installation, TLAPS

\* Phases in which an installer owns the lock.
Holding == Phases \cup {"ready", "rolled_back", "release"}
Stages == Holding \cup {"idle", "made", "releasing", "retained", "ended", "killed"}
Saving == {"capture", "stop", "stopping", "publish", "start", "await", "poll",
           "commit", "committed", "restore"}
Contents == Versions \cup {Absent}

Types ==
  /\ installed \in [Artifacts -> Contents] /\ good \in [Artifacts -> Contents]
  /\ lock \in [held : BOOLEAN, owner : Installers \cup {NoInstaller}]
  /\ pc \in [Installers -> Stages] /\ mode \in [Installers -> Modes]
  /\ undoing \in [Installers -> BOOLEAN] /\ todo \in [Installers -> Artifacts \cup {"none"}]
  /\ backup \in [Installers -> [Artifacts -> Contents]]
  /\ candidate \in [Installers -> Contents]

\* The installer at work owns the lock, and one at most is making or removing it.
Locked ==
  /\ \A i \in Installers :
       /\ pc[i] \in Holding => lock = [held |-> TRUE, owner |-> i]
       /\ pc[i] \in {"made", "releasing"} => lock = [held |-> TRUE, owner |-> NoInstaller]
  /\ \A i, j \in Installers :
       pc[i] \in {"made", "releasing"} /\ pc[j] \in {"made", "releasing"} => i = j
  /\ ~lock.held => lock.owner = NoInstaller

\* Nothing differs from what the last finished transaction left before the
\* artifacts are written, after they are restored, and when nobody has the lock.
Untouched ==
  /\ lock.owner = NoInstaller => installed = good
  /\ \A i \in Installers :
       \/ pc[i] \in {"acquired", "uninstall", "ready", "rolled_back", "release"}
       \/ pc[i] \in {"capture", "stop", "stopping"} /\ (~undoing[i] \/ mode[i] = "uninstall")
       \/ pc[i] \in {"start", "await", "poll"} /\ undoing[i]
       => installed = good

\* What an installer may write is in its backup; it writes nothing else.
Backed ==
  \A i \in Installers : pc[i] \in Saving /\ mode[i] # "uninstall" =>
     \A a \in Artifacts : IF a \in Written(i) THEN backup[i][a] = good[a]
                          ELSE installed[a] = good[a]

\* Artifacts are restored in order.
Restored(i) ==
  {a \in Written(i) : \/ todo[i] = "none"
                      \/ todo[i] = "plist" /\ a = "binary"
                      \/ todo[i] = "manifest" /\ a # "manifest"}

Progress ==
  \A i \in Installers :
     /\ pc[i] = "publish" => ~undoing[i]
     /\ pc[i] \in {"publish", "restore"} => todo[i] \in Written(i) \cup {"none"}
     /\ pc[i] = "restore" => undoing[i] /\ \A a \in Restored(i) : installed[a] = good[a]
     /\ mode[i] = "uninstall" => pc[i] \notin Saving \ {"stop", "stopping"}

IInv == Types /\ Locked /\ Untouched /\ Backed /\ Progress /\ Recoverable

----------------------------------------------------------------------------
USE InstallationAssumption DEF Artifacts, Holding, Phases, Changing, Saving, Contents, Stages

\* A phase an installer goes to is one.
LEMMA GoesIsTyped ==
  ASSUME Types, NEW i \in Installers, NEW p \in Stages, Goes(i, p)
  PROVE  pc' \in [Installers -> Stages]
BY DEF Types, Goes

\* So are those an attempt that is given up goes to.
LEMMA AbandonsIsTyped ==
  ASSUME Types, NEW i \in Installers, Abandons(i)
  PROVE  /\ pc' \in [Installers -> Stages]
         /\ undoing' \in [Installers -> BOOLEAN]
<1>1. \E p \in Stages : Goes(i, p) BY DEF Abandons
<1>2. pc' \in [Installers -> Stages] BY <1>1, GoesIsTyped
<1>3. undoing' \in [Installers -> BOOLEAN]
  <2>1. undoing' = undoing \/ undoing' = [undoing EXCEPT ![i] = TRUE] BY DEF Abandons
  <2> QED BY <2>1 DEF Types
<1> QED BY <1>2, <1>3

\* A service installed, or none.
LEMMA Inits == Init => IInv
<1> SUFFICES ASSUME Init PROVE IInv OBVIOUS
<1>1. Types BY DEF Init, Types
<1>2. Locked BY DEF Init, Locked
<1>3. Untouched BY DEF Init, Untouched
<1>4. Backed BY DEF Init, Backed
<1>5. Progress BY DEF Init, Progress
<1>6. Recoverable BY DEF Init, Recoverable
<1> QED BY <1>1, <1>2, <1>3, <1>4, <1>5, <1>6 DEF IInv

\* The service and launchd touch nothing an installer relies on.
LEMMA ServiceSteps == ASSUME IInv, UNCHANGED others PROVE IInv'
BY DEF IInv, Types, Locked, Untouched, Backed, Progress, Restored, Recoverable, Written,
       others, files, script, notes

\* create_dir makes the lock, or there is one.
LEMMA AcquireStep == ASSUME IInv, NEW i \in Installers, Acquire(i) PROVE IInv'
<1> USE DEF IInv, Types, Acquire, At, Goes
<1>1. Types' BY DEF files
<1>2. Locked' BY DEF Locked
<1>3. Untouched' BY DEF Untouched, files
<1>4. Backed' BY DEF Backed, Written, files
<1>5. Progress' BY DEF Progress, Restored, Written, files
<1>6. Recoverable' BY DEF Recoverable, Written, Untouched, Locked, files
<1> QED BY <1>1, <1>2, <1>3, <1>4, <1>5, <1>6

\* The owner is recorded in the lock.
LEMMA WriteOwnerStep == ASSUME IInv, NEW i \in Installers, WriteOwner(i) PROVE IInv'
<1> USE DEF IInv, Types, WriteOwner, At, Goes, files
<1>0. lock = [held |-> TRUE, owner |-> NoInstaller] BY DEF Locked
<1>a. CASE lock' = [lock EXCEPT !.owner = i] /\ Goes(i, "acquired")
  <2>1. lock' = [held |-> TRUE, owner |-> i] BY ONLY <1>0, <1>a
  <2>2. Types' BY <1>a, <2>1
  <2>3. \A j \in Installers \ {i} : pc'[j] \notin Holding \cup {"made", "releasing"}
    <3>1. \A j \in Installers \ {i} : pc'[j] = pc[j] BY <1>a
    <3>2. pc[i] = "made" OBVIOUS
    <3>3. \A j \in Installers \ {i} : pc[j] \notin Holding \cup {"made", "releasing"}
      BY ONLY <1>0, <3>2, IInv, NoInstaller \notin Installers DEF IInv, Locked
    <3> QED BY ONLY <3>1, <3>3
  <2>4. Locked'
    <3>1. pc'[i] = "acquired" BY <1>a
    <3> QED BY ONLY <2>1, <2>3, <3>1 DEF Locked
  <2>5. Untouched' BY <1>a, <2>1 DEF Locked, Untouched
  <2> QED BY <1>a, <2>1, <2>2, <2>4, <2>5
          DEF Locked, Untouched, Backed, Progress, Restored, Recoverable, Written
<1>b. CASE lock' = [lock EXCEPT !.held = FALSE] /\ Goes(i, "ended")
  <2>1. lock' = [held |-> FALSE, owner |-> NoInstaller] BY ONLY <1>0, <1>b
  <2>2. Types' BY <1>b, <2>1
  <2>3. Locked' BY <1>b, <2>1 DEF Locked
  <2> QED BY <1>b, <2>1, <2>2, <2>3
          DEF Locked, Untouched, Backed, Progress, Restored, Recoverable, Written
<1>c. CASE \E owner \in {i, NoInstaller} : lock' = [lock EXCEPT !.owner = owner] /\ Goes(i, "ended")
  <2>1. PICK owner \in {i, NoInstaller} : lock' = [held |-> TRUE, owner |-> owner] BY ONLY <1>0,
      <1>c
  <2>2. Types' BY <1>c, <2>1
  <2>3. Locked' BY <1>c, <2>1 DEF Locked
  <2> QED BY <1>c, <2>1, <2>2, <2>3
          DEF Locked, Untouched, Backed, Progress, Restored, Recoverable, Written
<1> QED BY <1>a, <1>b, <1>c

\* The owner record is removed.
LEMMA ReleaseStep == ASSUME IInv, NEW i \in Installers, Release(i) PROVE IInv'
<1> USE DEF IInv, Types, Release, At, Goes, files
<1>1. Types' OBVIOUS
<1>2. Locked' BY SMTT(30) DEF Locked
<1>3. Untouched' BY DEF Locked, Untouched, Progress
<1>4. Backed' BY DEF Locked, Untouched, Backed, Progress, Written
<1>5. Progress' BY DEF Locked, Untouched, Backed, Progress, Restored, Written
<1>6. Recoverable' BY DEF Recoverable, Written, Untouched, Locked
<1> QED BY <1>1, <1>2, <1>3, <1>4, <1>5, <1>6

\* The lock goes once its owner record is gone.
LEMMA RemoveLockStep == ASSUME IInv, NEW i \in Installers, RemoveLock(i) PROVE IInv'
<1> USE DEF IInv, Types, RemoveLock, At, Goes, files
<1>1. Types' OBVIOUS
<1>2. Locked' BY DEF Locked
<1>3. Untouched' BY DEF Locked, Untouched, Progress
<1>4. Backed' BY DEF Locked, Untouched, Backed, Progress, Written
<1>5. Progress' BY DEF Locked, Untouched, Backed, Progress, Restored, Written
<1>6. Recoverable' BY DEF Recoverable, Written, Untouched, Locked
<1> QED BY <1>1, <1>2, <1>3, <1>4, <1>5, <1>6

\* The backup is made before anything is written.
LEMMA PrepareStep == ASSUME IInv, NEW i \in Installers, Prepare(i) PROVE IInv'
<1> USE DEF IInv, Types, Prepare, At, Goes, files
<1>1. Types' OBVIOUS
<1>2. Locked' BY DEF Locked
<1>3. Untouched' BY DEF Locked, Untouched, Progress
<1>4. Backed' BY DEF Locked, Untouched, Backed, Progress, Written
<1>5. Progress' BY DEF Locked, Untouched, Backed, Progress, Restored, Written
<1>6. Recoverable' BY DEF Recoverable, Written, Untouched, Locked
<1> QED BY <1>1, <1>2, <1>3, <1>4, <1>5, <1>6

\* An uninstall notes the documents it may remove.
LEMMA UninstallPrepareStep == ASSUME IInv, NEW i \in Installers, UninstallPrepare(i) PROVE IInv'
<1> USE DEF IInv, Types, UninstallPrepare, At, Goes, files
<1>1. Types' OBVIOUS
<1>2. Locked' BY DEF Locked
<1>3. Untouched' BY DEF Locked, Untouched, Progress
<1>4. Backed' BY DEF Locked, Untouched, Backed, Progress, Written
<1>5. Progress' BY DEF Locked, Untouched, Backed, Progress, Restored, Written
<1>6. Recoverable' BY DEF Recoverable, Written, Untouched, Locked
<1> QED BY <1>1, <1>2, <1>3, <1>4, <1>5, <1>6

\* The runs that may not count as the new one are noted.
LEMMA CaptureStep == ASSUME IInv, NEW i \in Installers, Capture(i) PROVE IInv'
<1> USE DEF IInv, Types, Capture, At, Goes, Abandons, files
<1>1. Types' OBVIOUS
<1>2. Locked' BY DEF Locked
<1>3. Untouched' BY DEF Locked, Untouched, Progress
<1>4. Backed' BY DEF Locked, Untouched, Backed, Progress, Written
<1>5. Progress' BY DEF Locked, Untouched, Backed, Progress, Restored, Written
<1>6. Recoverable' BY DEF Recoverable, Written, Untouched, Locked
<1> QED BY <1>1, <1>2, <1>3, <1>4, <1>5, <1>6

\* The service is asked to stop.
LEMMA StopStep == ASSUME IInv, NEW i \in Installers, Stop(i) PROVE IInv'
<1> USE DEF IInv, Types, Stop, At, Goes, files
<1>1. Types' OBVIOUS
<1>2. Locked' BY DEF Locked
<1>3. Untouched' BY DEF Locked, Untouched, Progress
<1>4. Backed' BY DEF Locked, Untouched, Backed, Progress, Written
<1>5. Progress' BY DEF Locked, Untouched, Backed, Progress, Restored, Written
<1>6. Recoverable' BY DEF Recoverable, Written, Untouched, Locked
<1> QED BY <1>1, <1>2, <1>3, <1>4, <1>5, <1>6

\* The service has stopped, or that failed.
LEMMA StoppedStep == ASSUME IInv, NEW i \in Installers, Stopped(i) PROVE IInv'
<1> USE DEF IInv, Types, Stopped, At, Goes, files
<1>1. Types'
  <2>1. \E p \in Stages : Goes(i, p) BY DEF Stopped
  <2>2. pc' \in [Installers -> Stages] BY <2>1, GoesIsTyped
  <2>3. todo' = todo \/ todo' = [todo EXCEPT ![i] = "binary"] BY DEF Stopped
  <2>4. todo' \in [Installers -> Artifacts \cup {"none"}] BY ONLY IInv, <2>3 DEF IInv, Types, Artifacts
  <2>5. UNCHANGED <<files, lock, mode, undoing, backup, candidate>> BY DEF Stopped
  <2> QED BY ONLY IInv, <2>2, <2>4, <2>5 DEF IInv, Types, files
<1>2. Locked' BY DEF Locked
<1>3. Untouched' BY DEF Locked, Untouched, Progress
<1>4. Backed' BY DEF Locked, Untouched, Backed, Progress, Written
<1>5. Progress'
  <2> USE DEF IInv, Types, Stopped, At, Goes, files
  <2>1. CASE mode[i] = "uninstall"
    <3>1. Goes(i, "uninstall") /\ UNCHANGED todo BY <2>1
    <3> QED BY <2>1, <3>1 DEF Progress, Restored, Written
  <2>2. CASE mode[i] # "uninstall"
    <3>1. /\ todo' = [todo EXCEPT ![i] = "binary"]
          /\ Goes(i, IF undoing[i] THEN "restore" ELSE "publish") /\ UNCHANGED undoing
      BY <2>2
    <3>2. Restored(i)' = {} BY <3>1 DEF Restored, Written
    <3> QED BY <2>2, <3>1, <3>2 DEF Progress, Restored, Written
  <2> QED BY <2>1, <2>2
<1>6. Recoverable' BY DEF Recoverable, Written, Untouched, Locked
<1> QED BY <1>1, <1>2, <1>3, <1>4, <1>5, <1>6

\* What is written next is among what the transaction writes.
LEMMA FollowingIsWritten ==
  ASSUME NEW i \in Installers, NEW a \in Written(i)
  PROVE  Following(i, a) \in Written(i) \cup {"none"}
BY DEF Following, Written

\* Artifacts are replaced one by one, each from the candidate.
LEMMA PublishStep == ASSUME IInv, NEW i \in Installers, Publish(i) PROVE IInv'
<1> USE DEF IInv, Types, Publish, At, Goes, files
<1>0. lock = [held |-> TRUE, owner |-> i] /\ mode[i] # "uninstall" /\ ~undoing[i]
  BY DEF Locked, Progress
<1>a. CASE todo[i] = "none"
  <2>1. UNCHANGED <<files, lock, mode, undoing, todo, backup, candidate>> /\ Goes(i, "start")
    BY <1>a DEF Writes
  <2> HIDE DEF Publish
  <2> QED BY <1>0, <2>1 DEF Publish, Locked, Untouched, Backed, Progress, Restored, Recoverable,
      Written
<1>b. CASE todo[i] # "none"
  <2>1. /\ installed' = [installed EXCEPT ![todo[i]] = candidate[i]]
        /\ todo' = [todo EXCEPT ![i] = Following(i, todo[i])]
        /\ UNCHANGED <<good, lock, pc, mode, undoing, backup, candidate>>
    BY <1>b DEF Writes, Progress
  <2>2. todo[i] \in Written(i) /\ todo'[i] \in Written(i) \cup {"none"}
    BY <1>b, <2>1, FollowingIsWritten DEF Progress
  <2> HIDE DEF Publish
  <2>3. Types' BY <2>1, <2>2 DEF Written
  <2>4. Locked' BY <2>1 DEF Locked
  <2>5. Untouched' BY <1>0, <2>1 DEF Publish, Locked, Untouched
  <2>6. Backed'
    <3>1. \A j \in Installers : pc'[j] \in Saving => j = i BY <1>0, <2>1 DEF Locked
    <3>2. \A a \in Artifacts : IF a \in Written(i) THEN backup[i][a] = good[a]
                                                 ELSE installed[a] = good[a]
      BY <1>0 DEF Publish, Backed
    <3>3. \A a \in Artifacts : a # todo[i] => installed'[a] = installed[a] BY <2>1
    <3>4. Written(i)' = Written(i) BY <2>1 DEF Written
    <3>5. \A a \in Artifacts : IF a \in Written(i)' THEN backup'[i][a] = good'[a]
                                                  ELSE installed'[a] = good'[a]
      BY <2>1, <2>2, <3>2, <3>3, <3>4
    <3> HIDE DEF Saving
    <3> QED BY <3>1, <3>5 DEF Backed
  <2>7. Progress' BY <1>0, <2>1, <2>2 DEF Publish, Locked, Progress, Written
  <2>8. Recoverable'
    <3>1. \A a \in Artifacts : a \in Written(i) \/ installed'[a] = good'[a]
      BY <1>0, <2>1, <2>2 DEF Publish, Backed
    <3>2. \A a \in Written(i) : backup'[i][a] = good'[a]
      BY <1>0, <2>1 DEF Publish, Backed, Written
    <3>3. lock' = [held |-> TRUE, owner |-> i] /\ Written(i)' = Written(i)
      BY <1>0, <2>1 DEF Written
    <3>4. \A a \in Artifacts : installed'[a] # good'[a] =>
             lock' = [held |-> TRUE, owner |-> i] /\ a \in Written(i)' /\ backup'[i][a] = good'[a]
      BY ONLY <3>1, <3>2, <3>3
    <3> QED BY ONLY <3>4, i \in Installers DEF Recoverable
  <2> QED BY <2>3, <2>4, <2>5, <2>6, <2>7, <2>8
<1> QED BY <1>a, <1>b

\* Artifacts are put back one by one, each from the backup.
LEMMA RestoreStep == ASSUME IInv, NEW i \in Installers, Restore(i) PROVE IInv'
<1> USE DEF IInv, Types, Restore, At, Goes, files
<1>0. lock = [held |-> TRUE, owner |-> i] /\ mode[i] # "uninstall"
  BY DEF Locked, Progress
<1>a. CASE todo[i] = "none"
  <2>1. /\ UNCHANGED <<files, lock, mode, undoing, todo, backup, candidate>>
        /\ (Goes(i, "start") /\ undoing[i]) \/ Goes(i, "rolled_back")
    BY <1>a DEF Writes, Progress
  <2>2. installed = good
    <3>1. \A a \in Artifacts : installed[a] = good[a]
      BY <1>0, <1>a DEF Progress, Restored, Backed
    <3> QED BY <3>1
  <2> HIDE DEF Restore
  <2>3. Types' BY <2>1
  <2>4. Locked' BY <1>0, <2>1 DEF Restore, Locked
  <2>5. Untouched' BY <1>0, <2>1, <2>2 DEF Restore, Locked, Untouched
  <2>6. Backed' BY <2>1 DEF Restore, Backed, Written
  <2>7. Progress' BY <1>0, <2>1 DEF Restore, Locked, Progress, Restored, Written
  <2>8. Recoverable' BY <2>1, <2>2 DEF Recoverable
  <2> QED BY <2>3, <2>4, <2>5, <2>6, <2>7, <2>8
<1>b. CASE todo[i] # "none"
  <2>1. /\ installed' = [installed EXCEPT ![todo[i]] = backup[i][todo[i]]]
        /\ todo' = [todo EXCEPT ![i] = Following(i, todo[i])]
        /\ UNCHANGED <<good, lock, pc, mode, undoing, backup, candidate>>
    BY <1>b DEF Writes, Progress
  <2>2. todo[i] \in Written(i) /\ todo'[i] \in Written(i) \cup {"none"}
    BY <1>b, <2>1, FollowingIsWritten DEF Progress
  <2>3. backup[i][todo[i]] = good[todo[i]] BY <1>0, <2>2 DEF Backed, Written
  <2> HIDE DEF Restore
  <2>4. Types' BY <2>1, <2>2 DEF Written
  <2>5. Locked' BY <2>1 DEF Locked
  <2>6. Untouched' BY <1>0, <2>1 DEF Restore, Locked, Untouched
  <2>7. Backed' BY <1>0, <2>1, <2>2 DEF Restore, Locked, Backed, Written
  <2>8. \A a \in Restored(i)' : installed'[a] = good'[a]
    BY <2>1, <2>2, <2>3 DEF Restore, Progress, Restored, Following, Written
  <2>9. Progress'
    <3>1. \A j \in Installers \ {i} : pc[j] \notin Holding BY <1>0 DEF Locked
    <3> QED BY <1>0, <2>1, <2>2, <2>8, <3>1 DEF Restore, Progress, Written
  <2>10. Recoverable'
    <3>1. \A a \in Artifacts : a \in Written(i) \/ installed'[a] = good'[a]
      BY <1>0, <2>1, <2>2 DEF Restore, Backed
    <3>2. \A a \in Written(i) : backup'[i][a] = good'[a]
      BY <1>0, <2>1 DEF Restore, Backed, Written
    <3>3. lock' = [held |-> TRUE, owner |-> i] /\ Written(i)' = Written(i)
      BY <1>0, <2>1 DEF Written
    <3>4. \A a \in Artifacts : installed'[a] # good'[a] =>
             lock' = [held |-> TRUE, owner |-> i] /\ a \in Written(i)' /\ backup'[i][a] = good'[a]
      BY ONLY <3>1, <3>2, <3>3
    <3> QED BY ONLY <3>4, i \in Installers DEF Recoverable
  <2> QED BY <2>4, <2>5, <2>6, <2>7, <2>9, <2>10
<1> QED BY <1>a, <1>b

\* The plist goes, and the documents noted.
LEMMA UninstallStep == ASSUME IInv, NEW i \in Installers, Uninstall(i) PROVE IInv'
<1> USE DEF IInv, Types, Uninstall, At, Goes, files
<1>1. Types' OBVIOUS
<1>2. Locked' BY DEF Locked
<1>3. Untouched' BY DEF Locked, Untouched, Progress
<1>4. Backed' BY DEF Locked, Untouched, Backed, Progress, Written
<1>5. Progress' BY DEF Locked, Untouched, Backed, Progress, Restored, Written
<1>6. Recoverable' BY DEF Recoverable, Written, Untouched, Locked
<1> QED BY <1>1, <1>2, <1>3, <1>4, <1>5, <1>6

\* launchd is given the service.
LEMMA StartStep == ASSUME IInv, NEW i \in Installers, Start(i) PROVE IInv'
<1> USE DEF IInv, Types, Start, At, Goes, files
<1>1. Types' OBVIOUS
<1>2. Locked' BY DEF Locked
<1>3. Untouched' BY DEF Locked, Untouched, Progress
<1>4. Backed' BY DEF Locked, Untouched, Backed, Progress, Written
<1>5. Progress' BY DEF Locked, Untouched, Backed, Progress, Restored, Written
<1>6. Recoverable' BY DEF Recoverable, Written, Untouched, Locked
<1> QED BY <1>1, <1>2, <1>3, <1>4, <1>5, <1>6

\* A run that reports its failure is blamed, and the change undone.
LEMMA BlamesStep == ASSUME IInv, NEW i \in Installers, Blames(i) PROVE IInv'
<1> USE DEF IInv, Types, Blames, At, Goes, Abandons, files
<1>1. Types'
  <2>1. /\ pc' \in [Installers -> Stages] /\ undoing' \in [Installers -> BOOLEAN]
        /\ UNCHANGED <<files, lock, mode, todo, backup, candidate>>
    BY AbandonsIsTyped DEF Blames
  <2> QED BY ONLY IInv, <2>1 DEF IInv, Types, files
<1>2. Locked' BY DEF Locked
<1>3. Untouched' BY DEF Locked, Untouched, Progress
<1>4. Backed' BY DEF Locked, Untouched, Backed, Progress, Written
<1>5. Progress' BY DEF Locked, Untouched, Backed, Progress, Restored, Written
<1>6. Recoverable' BY DEF Recoverable, Written, Untouched, Locked
<1> QED BY <1>1, <1>2, <1>3, <1>4, <1>5, <1>6

\* The run to wait for is the one launchd names.
LEMMA TakesPidStep == ASSUME IInv, NEW i \in Installers, TakesPid(i) PROVE IInv'
<1> USE DEF IInv, Types, TakesPid, At, Goes, files
<1>1. Types' OBVIOUS
<1>2. Locked' BY DEF Locked
<1>3. Untouched' BY DEF Locked, Untouched, Progress
<1>4. Backed' BY DEF Locked, Untouched, Backed, Progress, Written
<1>5. Progress' BY DEF Locked, Untouched, Backed, Progress, Restored, Written
<1>6. Recoverable' BY DEF Recoverable, Written, Untouched, Locked
<1> QED BY <1>1, <1>2, <1>3, <1>4, <1>5, <1>6

\* A readiness document is read.
LEMMA PollStep == ASSUME IInv, NEW i \in Installers, Poll(i) PROVE IInv'
<1> USE DEF IInv, Types, Poll, At, Goes, files
<1>1. Types' OBVIOUS
<1>2. Locked' BY DEF Locked
<1>3. Untouched' BY DEF Locked, Untouched, Progress
<1>4. Backed' BY DEF Locked, Untouched, Backed, Progress, Written
<1>5. Progress' BY DEF Locked, Untouched, Backed, Progress, Restored, Written
<1>6. Recoverable' BY DEF Recoverable, Written, Untouched, Locked
<1> QED BY <1>1, <1>2, <1>3, <1>4, <1>5, <1>6

\* A change is committed when the run it awaited is ready.
LEMMA CommitStep == ASSUME IInv, NEW i \in Installers, Commit(i) PROVE IInv'
<1> USE DEF IInv, Types, Commit, At, Goes, files
<1>1. Types' OBVIOUS
<1>2. Locked' BY DEF Locked
<1>3. Untouched' BY DEF Locked, Untouched, Progress
<1>4. Backed' BY DEF Locked, Untouched, Backed, Progress, Written
<1>5. Progress' BY DEF Locked, Untouched, Backed, Progress, Restored, Written
<1>6. Recoverable' BY DEF Recoverable, Written, Untouched, Locked
<1> QED BY <1>1, <1>2, <1>3, <1>4, <1>5, <1>6

\* Success is told after the commit.
LEMMA SucceedsStep == ASSUME IInv, NEW i \in Installers, Succeeds(i) PROVE IInv'
<1> USE DEF IInv, Types, Succeeds, At, Goes, files
<1>1. Types' OBVIOUS
<1>2. Locked' BY DEF Locked
<1>3. Untouched' BY DEF Locked, Untouched, Progress
<1>4. Backed' BY DEF Locked, Untouched, Backed, Progress, Written
<1>5. Progress' BY DEF Locked, Untouched, Backed, Progress, Restored, Written
<1>6. Recoverable' BY DEF Recoverable, Written, Untouched, Locked
<1> QED BY <1>1, <1>2, <1>3, <1>4, <1>5, <1>6

\* What is told is followed by the release.
LEMMA ReportsStep == ASSUME IInv, NEW i \in Installers, Reports(i) PROVE IInv'
<1> USE DEF IInv, Types, Reports, At, Goes, files
<1>1. Types' OBVIOUS
<1>2. Locked' BY DEF Locked
<1>3. Untouched' BY DEF Locked, Untouched, Progress
<1>4. Backed' BY DEF Locked, Untouched, Backed, Progress, Written
<1>5. Progress' BY DEF Locked, Untouched, Backed, Progress, Restored, Written
<1>6. Recoverable' BY DEF Recoverable, Written, Untouched, Locked
<1> QED BY <1>1, <1>2, <1>3, <1>4, <1>5, <1>6

\* A failure begins the rollback, or retains the transaction.
LEMMA FailsStep == ASSUME IInv, NEW i \in Installers, Fails(i) PROVE IInv'
<1> USE DEF IInv, Types, Fails, At, Goes, Abandons, files
<1>1. Types'
  <2>1. /\ pc' \in [Installers -> Stages] /\ undoing' \in [Installers -> BOOLEAN]
        /\ UNCHANGED <<files, lock, mode, todo, backup, candidate>>
    BY AbandonsIsTyped DEF Fails
  <2> QED BY ONLY IInv, <2>1 DEF IInv, Types, files
<1>2. Locked' BY DEF Locked
<1>3. Untouched' BY DEF Locked, Untouched, Progress
<1>4. Backed' BY DEF Locked, Untouched, Backed, Progress, Written
<1>5. Progress' BY DEF Locked, Untouched, Backed, Progress, Restored, Written
<1>6. Recoverable' BY DEF Recoverable, Written, Untouched, Locked
<1> QED BY <1>1, <1>2, <1>3, <1>4, <1>5, <1>6

\* A rollback that fails retains backup and lock.
LEMMA RetainsStep == ASSUME IInv, NEW i \in Installers, Retains(i) PROVE IInv'
<1> USE DEF IInv, Types, Retains, At, Goes, files
<1>1. Types' OBVIOUS
<1>2. Locked' BY DEF Locked
<1>3. Untouched' BY DEF Locked, Untouched, Progress
<1>4. Backed' BY DEF Locked, Untouched, Backed, Progress, Written
<1>5. Progress' BY DEF Locked, Untouched, Backed, Progress, Restored, Written
<1>6. Recoverable' BY DEF Recoverable, Written, Untouched, Locked
<1> QED BY <1>1, <1>2, <1>3, <1>4, <1>5, <1>6

\* A killed installer leaves everything as it is.
LEMMA KilledStep == ASSUME IInv, NEW i \in Installers, Killed(i) PROVE IInv'
<1> USE DEF IInv, Types, Killed, At, Goes, files
<1>1. Types' OBVIOUS
<1>2. Locked' BY DEF Locked
<1>3. Untouched' BY DEF Locked, Untouched, Progress
<1>4. Backed' BY DEF Locked, Untouched, Backed, Progress, Written
<1>5. Progress' BY DEF Locked, Untouched, Backed, Progress, Restored, Written
<1>6. Recoverable' BY DEF Recoverable, Written, Untouched, Locked
<1> QED BY <1>1, <1>2, <1>3, <1>4, <1>5, <1>6

\* Every step of an installer.
LEMMA InstallerSteps == ASSUME IInv, NEW i \in Installers, Installer(i) PROVE IInv'
<1>1. CASE Acquire(i) BY <1>1, AcquireStep
<1>2. CASE WriteOwner(i) BY <1>2, WriteOwnerStep
<1>3. CASE Release(i) BY <1>3, ReleaseStep
<1>4. CASE RemoveLock(i) BY <1>4, RemoveLockStep
<1>5. CASE Prepare(i) BY <1>5, PrepareStep
<1>6. CASE UninstallPrepare(i) BY <1>6, UninstallPrepareStep
<1>7. CASE Capture(i) BY <1>7, CaptureStep
<1>8. CASE Stop(i) BY <1>8, StopStep
<1>9. CASE Stopped(i) BY <1>9, StoppedStep
<1>10. CASE Publish(i) BY <1>10, PublishStep
<1>11. CASE Restore(i) BY <1>11, RestoreStep
<1>12. CASE Uninstall(i) BY <1>12, UninstallStep
<1>13. CASE Start(i) BY <1>13, StartStep
<1>14. CASE Blames(i) BY <1>14, BlamesStep
<1>15. CASE TakesPid(i) BY <1>15, TakesPidStep
<1>16. CASE Poll(i) BY <1>16, PollStep
<1>17. CASE Commit(i) BY <1>17, CommitStep
<1>18. CASE Succeeds(i) BY <1>18, SucceedsStep
<1>19. CASE Reports(i) BY <1>19, ReportsStep
<1>20. CASE Fails(i) BY <1>20, FailsStep
<1>21. CASE Retains(i) BY <1>21, RetainsStep
<1>22. CASE Killed(i) BY <1>22, KilledStep
<1> QED BY <1>1, <1>2, <1>3, <1>4, <1>5, <1>6, <1>7, <1>8, <1>9, <1>10, <1>11, <1>12, <1>13,
    <1>14, <1>15, <1>16, <1>17, <1>18, <1>19, <1>20, <1>21, <1>22 DEF Installer

\* Every step keeps it.
LEMMA Inductive == IInv /\ [Next]_vars => IInv'
<1> SUFFICES ASSUME IInv, [Next]_vars PROVE IInv' OBVIOUS
<1>1. CASE Service
  <2>1. UNCHANGED others
    BY <1>1 DEF Service, Spawn, Forgets, Begin, BootstrapFailure, PublishReadiness, Exit, others
  <2> QED BY <2>1, ServiceSteps
<1>2. CASE \E i \in Installers : Installer(i) BY <1>2, InstallerSteps
<1>3. CASE UNCHANGED vars
  <2>1. UNCHANGED others BY <1>3 DEF vars, others, script, notes
  <2> QED BY <2>1, ServiceSteps
<1> QED BY <1>1, <1>2, <1>3 DEF Next

\* Installers, launchd and the service may fail, be interrupted or be killed at
\* any point (install-launchd.sh's traps and cleanup): what an unfinished
\* transaction replaced is in the backup of the installer whose lock keeps every
\* other one out.
THEOREM RecoverableHolds == Spec => []Recoverable
<1>1. IInv => Recoverable BY DEF IInv
<1> QED BY <1>1, Inits, Inductive, PTL DEF Spec

\* Two installers are never at work at once (service_transaction.py, acquire).
THEOREM OneInstaller ==
  Spec => [](\A i, j \in Installers : pc[i] \in Holding /\ pc[j] \in Holding => i = j)
<1>1. IInv => \A i, j \in Installers : pc[i] \in Holding /\ pc[j] \in Holding => i = j
  <2> SUFFICES ASSUME IInv, NEW i \in Installers, NEW j \in Installers,
                      pc[i] \in Holding, pc[j] \in Holding
               PROVE  i = j
    OBVIOUS
  <2>1. lock.owner = i /\ lock.owner = j BY DEF IInv, Locked
  <2> QED BY <2>1
<1> QED BY <1>1, Inits, Inductive, PTL DEF Spec

----------------------------------------------------------------------------
(* What an installer reports.                                                 *)
Target(i) == IF undoing[i] THEN backup[i]["binary"] ELSE candidate[i]
Observation == [run : Nat, code : Contents]
Watch == [since : Nat, expected : Nat, seen : SUBSET Observation]

RunTypes ==
  /\ runs \in 0 .. MaxRuns
  /\ process \in [run : Nat, code : Contents, sha : Contents,
                  phase : {"new", "begun", "failed", "serving"}]
  /\ process.run <= runs
  /\ launchd \in [state : {"absent", "loaded", "leaving"}, again : BOOLEAN]
  /\ watch \in [Installers -> Watch]

\* What launchd has forgotten does not run.
NoneLeft == launchd.state = "absent" => process = NoProcess

\* From its start to its report an installer watches only runs started since,
\* which execute what it installed.
Started(i) == pc[i] \in {"await", "poll", "commit", "committed"}
Tracked(i) ==
  /\ pc[i] = "publish" /\ todo[i] # "binary" => installed["binary"] = candidate[i]
  /\ pc[i] = "start" => installed["binary"] = Target(i)
  /\ Started(i) => /\ installed["binary"] = Target(i) /\ watch[i].since <= runs
                   /\ process.run # NoRun => process.run > watch[i].since /\ process.code = Target(i)
  /\ pc[i] = "await" => watch[i].seen = {}
  /\ pc[i] = "poll" => /\ watch[i].expected \in (watch[i].since + 1) .. runs
                       /\ watch[i].seen \subseteq {[run |-> watch[i].expected, code |-> Target(i)]}
  /\ \/ pc[i] \in {"commit", "committed", "ready"}
     \/ pc[i] = "rolled_back" /\ HadPlist(i)
     => /\ watch[i].expected \in (watch[i].since + 1) .. runs
        /\ watch[i].seen = {[run |-> watch[i].expected, code |-> Target(i)]}
  /\ pc[i] \in {"commit", "committed", "ready"} => ~undoing[i]
  /\ pc[i] = "rolled_back" => undoing[i]

BootstrapType == bootstrap.run \in Nat

RInv == RunTypes /\ BootstrapType /\ NoneLeft /\ \A i \in Installers : Tracked(i)

\* Nothing has run, nothing is tracked.
LEMMA RunInits == Init => RInv
<1> SUFFICES ASSUME Init PROVE RInv OBVIOUS
<1>1. RunTypes /\ BootstrapType
  BY DEF Init, RunTypes, BootstrapType, NoProcess, NoWatch, NoBootstrap, NoRun, Observation, Watch
<1>2. NoneLeft BY DEF Init, NoneLeft
<1>3. \A i \in Installers : Tracked(i) BY DEF Init, Tracked, Started
<1> QED BY <1>1, <1>2, <1>3 DEF RInv

\* A run that begins executes the binary installed then; no other step of the
\* service changes which runs there are but its end.
LEMMA RunServiceSteps == ASSUME IInv, RInv, Service PROVE RInv'
<1> USE DEF RInv, RunTypes, NoneLeft, NoRun, NoProcess
<1>0. UNCHANGED <<installed, pc, todo, undoing, backup, candidate, watch>> /\ IInv'
  BY ServiceSteps DEF Service, Spawn, Forgets, Begin, BootstrapFailure, PublishReadiness, Exit,
     others, files, script, notes
<1> DEFINE Follows ==
      /\ runs <= runs' /\ RunTypes' /\ NoneLeft'
      /\ process'.run # NoRun => \/ process'.run = process.run /\ process'.code = process.code
                                 \/ process'.run = runs + 1 /\ process'.code = installed["binary"]
<1>1. Follows
  <2>1. CASE Spawn
    <3>1. process' = [run |-> runs + 1, code |-> installed["binary"], sha |-> Absent, phase |-> "new"]
      BY <2>1 DEF Spawn
    <3>2. installed["binary"] \in Contents BY DEF IInv, Types
    <3>3. runs' = runs + 1 /\ runs' <= MaxRuns /\ UNCHANGED launchd /\ launchd.state = "loaded"
      BY <2>1 DEF Spawn
    <3> QED BY <1>0, <3>1, <3>2, <3>3
  <2>2. CASE Forgets BY <1>0, <2>2 DEF Forgets
  <2>3. CASE Begin
    <3>1. process' = [run |-> process.run, code |-> process.code, sha |-> installed["binary"], phase |-> "begun"]
      BY <2>3 DEF Begin
    <3>2. installed["binary"] \in Contents BY DEF IInv, Types
    <3>3. UNCHANGED <<launchd, runs>> /\ process # NoProcess BY <2>3 DEF Begin
    <3> QED BY <1>0, <3>1, <3>2, <3>3
  <2>4. CASE BootstrapFailure
    <3>1. process' = [run |-> process.run, code |-> process.code, sha |-> process.sha, phase |-> "failed"]
      BY <2>4 DEF BootstrapFailure
    <3>2. UNCHANGED <<launchd, runs>> /\ process # NoProcess BY <2>4 DEF BootstrapFailure
    <3> QED BY <1>0, <3>1, <3>2
  <2>5. CASE \E ready \in BOOLEAN : PublishReadiness(ready)
    <3>1. process' = [run |-> process.run, code |-> process.code, sha |-> process.sha, phase |-> "serving"]
      BY <2>5 DEF PublishReadiness
    <3>2. UNCHANGED <<launchd, runs>> /\ process # NoProcess BY <2>5 DEF PublishReadiness
    <3> QED BY <1>0, <3>1, <3>2
  <2>6. CASE \E clean \in BOOLEAN : Exit(clean)
    <3>1. PICK clean \in BOOLEAN : Exit(clean) BY <2>6
    <3>2. process' = NoProcess /\ UNCHANGED runs BY <3>1 DEF Exit
    <3>3. launchd' \in [state : {"absent", "loaded", "leaving"}, again : BOOLEAN]
      BY <3>1 DEF Exit
    <3> QED BY <1>0, <3>2, <3>3
  <2> QED BY <2>1, <2>2, <2>3, <2>4, <2>5, <2>6 DEF Service
<1>2. ASSUME NEW i \in Installers PROVE Tracked(i)'
  <2>1. Tracked(i) OBVIOUS
  <2>2. Target(i)' = Target(i) /\ HadPlist(i)' = HadPlist(i) BY <1>0 DEF Target, HadPlist
  <2>3. /\ runs \in Int /\ runs' \in Int /\ process.run \in Int
        /\ watch[i].since \in Int /\ watch[i].expected \in Int
    BY <1>1 DEF Watch
  <2>4. runs <= runs' /\ UNCHANGED <<installed, pc, todo, undoing, watch, candidate>> BY <1>0, <1>1
  <2>5. Started(i) => (process'.run # NoRun => process'.run > watch[i].since /\ process'.code = Target(i))
    BY <1>1, <2>1, <2>3 DEF Tracked
  <2> HIDE DEF RInv, RunTypes, NoneLeft, Follows
  <2> QED BY <2>1, <2>2, <2>3, <2>4, <2>5 DEF Tracked, Started
<1>3. BootstrapType'
  BY DEF BootstrapType, NoBootstrap, Service, Spawn, Forgets, Begin, BootstrapFailure,
     PublishReadiness, Exit, documents
<1> QED BY <1>1, <1>2, <1>3

\* What another installer waits for is not disturbed.
LEMMA OthersTracked ==
  ASSUME IInv, RInv, NEW k \in Installers, Installer(k), NEW i \in Installers, i # k
  PROVE  Tracked(i)'
<1>1. CASE pc[i] \notin Holding
  <2>1. pc'[i] = pc[i]
    BY DEF IInv, Types, Installer, Goes, Abandons, Acquire, WriteOwner, Release, RemoveLock,
       Prepare, UninstallPrepare, Capture, Stop, Stopped, Publish, Restore, Writes, Uninstall, Start,
       Blames, TakesPid, Poll, Commit, Succeeds, Reports, Fails, Retains, Killed
  <2> QED BY <1>1, <2>1 DEF Tracked, Started
<1>2. CASE pc[i] \in Holding
  <2>1. pc[k] \notin Holding \cup {"made", "releasing"}
    BY <1>2 DEF IInv, Locked
  <2>2. Acquire(k)
    BY <2>1 DEF Installer, At, Acquire, WriteOwner, Release, RemoveLock,
       Prepare, UninstallPrepare, Capture, Stop, Stopped, Publish, Restore, Uninstall, Start,
       Blames, TakesPid, Poll, Commit, Succeeds, Reports, Fails, Retains, Killed, IInv, Types
  <2>3. pc'[i] = pc[i] /\ UNCHANGED <<installed, todo, undoing, backup, candidate, watch, process, runs>>
    BY <2>2 DEF Acquire, Goes, IInv, Types, files, notes, service
  <2> QED BY <2>3 DEF RInv, Tracked, Started, Target, HadPlist
<1> QED BY <1>1, <1>2

\* The steps that neither publish nor watch leave nothing to track.
Aside(i) ==
  \/ Acquire(i) \/ WriteOwner(i) \/ Release(i) \/ RemoveLock(i) \/ Prepare(i)
  \/ UninstallPrepare(i) \/ Capture(i) \/ Stop(i) \/ Uninstall(i) \/ Blames(i)
  \/ Reports(i) \/ Fails(i) \/ Retains(i) \/ Killed(i)

\* An installer that neither starts nor waits tracks nothing.
LEMMA AsideTracked == ASSUME IInv, NEW i \in Installers, Aside(i) PROVE Tracked(i)'
<1>1. pc'[i] \in {"ended", "made", "acquired", "release", "releasing", "capture", "stop",
                  "stopping", "retained", "killed"}
  BY DEF IInv, Types, Aside, Goes, Abandons, Acquire, WriteOwner, Release, RemoveLock, Prepare,
     UninstallPrepare, Capture, Stop, Uninstall, Blames, Reports, Fails, Retains, Killed
<1> QED BY <1>1 DEF Tracked, Started

\* An installer's own steps keep what it waits for.
LEMMA OwnTracked == ASSUME IInv, RInv, NEW i \in Installers, Installer(i) PROVE Tracked(i)'
<1> USE DEF IInv, Types, At, Goes, files
<1>0. Tracked(i) /\ IInv' BY InstallerSteps DEF RInv
<1>1. /\ runs \in 0 .. MaxRuns /\ process.run \in Nat /\ process.run <= runs
      /\ watch[i].since \in Nat /\ watch[i].expected \in Nat
      /\ watch \in [Installers -> Watch]
  BY DEF RInv, RunTypes, Watch
<1>2. CASE Aside(i) BY <1>2, AsideTracked
<1>3. CASE Stopped(i) BY <1>3 DEF Stopped, Tracked, Started
<1>4. CASE Publish(i) BY <1>0, <1>4, FollowingIsWritten
        DEF Publish, Writes, Following, Locked, Progress, Tracked, Started, Target
<1>5. CASE Restore(i)
  <2>1. CASE pc'[i] = "restore" BY <2>1 DEF Tracked, Started
  <2>2. CASE pc'[i] = "start"
    <3>1. UNCHANGED <<files, mode, undoing, backup>> /\ undoing[i] /\ pc[i] = "restore"
      BY <1>5, <2>2 DEF Restore, Writes, Progress
    <3>2. backup[i]["binary"] = good["binary"] BY <3>1 DEF Backed, Progress, Written
    <3>3. installed' = good' BY <1>0, <2>2, <3>1 DEF Untouched
    <3> QED BY <2>2, <3>1, <3>2, <3>3 DEF Tracked, Started, Target
  <2>3. CASE pc'[i] = "rolled_back"
    <3>1. ~HadPlist(i) /\ UNCHANGED <<undoing, backup>> /\ undoing[i]
      BY <1>5, <2>3 DEF Restore, Writes, Progress
    <3> QED BY <2>3, <3>1 DEF Tracked, Started, HadPlist
  <2> QED BY <1>5, <2>1, <2>2, <2>3 DEF Restore, Writes
<1>6. CASE Start(i)
  <2>1. /\ pc'[i] = "await" /\ watch'[i].since = runs /\ watch'[i].seen = {}
        /\ UNCHANGED <<installed, undoing, backup, candidate, process, runs>> /\ process.run = NoRun
    BY <1>1, <1>6 DEF Start, NoWatch, RInv, NoneLeft, NoProcess
  <2>2. installed["binary"] = Target(i) BY <1>0, <1>6 DEF Tracked, Start
  <2> QED BY <1>1, <2>1, <2>2 DEF Tracked, Started, Target
<1>7. CASE TakesPid(i)
  <2>1. /\ pc[i] = "await" /\ pc'[i] = "poll" /\ process.run # NoRun
        /\ watch'[i].since = watch[i].since /\ watch'[i].seen = watch[i].seen
        /\ watch'[i].expected = process.run
        /\ UNCHANGED <<installed, undoing, backup, candidate, process, runs>>
    BY <1>1, <1>7 DEF TakesPid, service
  <2>2. Target(i)' = Target(i) BY <2>1 DEF Target
  <2> QED BY <1>0, <1>1, <2>1, <2>2 DEF Tracked, Started
<1>8. CASE Poll(i)
  <2>1. /\ pc[i] = "poll" /\ process.run = watch[i].expected /\ process.run # NoRun
        /\ watch'[i].since = watch[i].since /\ watch'[i].expected = watch[i].expected
        /\ watch'[i].seen = watch[i].seen \cup {[run |-> process.run, code |-> process.code]}
        /\ IF watch[i].seen = {} THEN UNCHANGED pc
           ELSE Goes(i, IF undoing[i] THEN "rolled_back" ELSE "commit")
        /\ UNCHANGED <<installed, undoing, backup, candidate, process, runs>>
    BY <1>1, <1>8 DEF Poll, Expected, Ready, service
  <2>2. Target(i)' = Target(i) BY <2>1 DEF Target
  <2>3. process.code = Target(i) BY <1>0, <2>1 DEF Tracked, Started
  <2> QED BY <1>0, <1>1, <2>1, <2>2, <2>3 DEF Tracked, Started
<1>9. CASE Commit(i)
  <2>1. /\ pc[i] = "commit" /\ pc'[i] = "committed"
        /\ UNCHANGED <<installed, undoing, backup, candidate, watch, process, runs>>
    BY <1>9 DEF Commit, notes, service
  <2>2. Target(i)' = Target(i) BY <2>1 DEF Target
  <2> QED BY <1>0, <2>1, <2>2 DEF Tracked, Started
<1>10. CASE Succeeds(i)
  <2>1. /\ pc[i] = "committed" /\ pc'[i] = "ready"
        /\ UNCHANGED <<installed, undoing, backup, candidate, watch, process, runs>>
    BY <1>10 DEF Succeeds, notes, service
  <2>2. Target(i)' = Target(i) BY <2>1 DEF Target
  <2> QED BY <1>0, <2>1, <2>2 DEF Tracked, Started
<1> QED BY <1>2, <1>3, <1>4, <1>5, <1>6, <1>7, <1>8, <1>9, <1>10 DEF Installer, Aside

\* Every step of an installer.
LEMMA RunInstallerSteps == ASSUME IInv, RInv, NEW i \in Installers, Installer(i) PROVE RInv'
<1> USE DEF RInv, RunTypes, NoneLeft, NoRun
<1>1. RunTypes' /\ NoneLeft'
  <2>0. i \in Installers /\ watch \in [Installers -> Watch] /\ watch[i] \in Watch OBVIOUS
  <2>1. CASE Stop(i) BY <2>1 DEF Stop, notes
  <2>2. CASE Uninstall(i) BY <2>2 DEF Uninstall, notes
  <2>3. CASE Start(i) BY <2>3 DEF Start, NoWatch, Watch
  <2>4. CASE Blames(i) \/ TakesPid(i) \/ Poll(i)
    <3>1. UNCHANGED service BY <2>4 DEF Blames, TakesPid, Poll
    <3>2. ASSUME Blames(i) PROVE watch' \in [Installers -> Watch]
      BY ONLY <2>0, <3>2 DEF Blames, notes
    <3>3. ASSUME TakesPid(i) PROVE watch' \in [Installers -> Watch]
      <4> DEFINE new == [watch[i] EXCEPT !.expected = process.run]
      <4>1. watch' = [watch EXCEPT ![i] = new] BY ONLY <3>3 DEF TakesPid
      <4>2. process.run \in Nat OBVIOUS
      <4>3. new \in Watch BY ONLY <2>0, <4>2 DEF Watch
      <4> HIDE DEF new
      <4> QED BY ONLY <2>0, <4>1, <4>3
    <3>4. ASSUME Poll(i) PROVE watch' \in [Installers -> Watch]
      <4> DEFINE new == [watch[i] EXCEPT !.seen = @ \cup {[run |-> process.run, code |-> process.code]}]
      <4>1. watch' = [watch EXCEPT ![i] = new] BY ONLY <3>4 DEF Poll
      <4>2. [run |-> process.run, code |-> process.code] \in Observation BY DEF Observation
      <4>3. new \in Watch BY ONLY <2>0, <4>2 DEF Watch
      <4> HIDE DEF new
      <4> QED BY ONLY <2>0, <4>1, <4>3
    <3>5. watch' \in [Installers -> Watch] BY <2>4, <3>2, <3>3, <3>4
    <3> QED BY <3>1, <3>5 DEF service, Watch
  <2>5. CASE ~(Stop(i) \/ Uninstall(i) \/ Start(i) \/ Blames(i) \/ TakesPid(i) \/ Poll(i))
    <3>1. UNCHANGED <<watch, process, runs, launchd>>
      BY <2>5 DEF Installer, Acquire, WriteOwner, Release, RemoveLock, Prepare, UninstallPrepare,
         Capture, Stopped, Publish, Restore, Writes, Commit, Succeeds, Reports, Fails, Retains,
         Killed, notes, service
    <3> QED BY <3>1
  <2> QED BY <2>1, <2>2, <2>3, <2>4, <2>5
<1>2. BootstrapType'
  BY DEF BootstrapType, NoBootstrap, Installer, Acquire, WriteOwner, Release, RemoveLock, Prepare,
     UninstallPrepare, Capture, Stop, Stopped, Publish, Restore, Writes, Uninstall, Start, Blames,
     TakesPid, Poll, Commit, Succeeds, Reports, Fails, Retains, Killed, service, documents
<1>3. ASSUME NEW j \in Installers PROVE Tracked(j)'
  BY OthersTracked, OwnTracked
<1> QED BY <1>1, <1>2, <1>3

\* Every step.
LEMMA RunInductive == IInv /\ RInv /\ [Next]_vars => RInv'
<1> SUFFICES ASSUME IInv, RInv, [Next]_vars PROVE RInv' OBVIOUS
<1>1. CASE Service BY <1>1, RunServiceSteps
<1>2. CASE \E i \in Installers : Installer(i) BY <1>2, RunInstallerSteps
<1>3. CASE UNCHANGED vars
  BY <1>3 DEF RInv, RunTypes, BootstrapType, NoneLeft, Tracked, Started, Target, HadPlist,
     vars, files, script, notes, service
<1> QED BY <1>1, <1>2, <1>3 DEF Next

\* Whatever the service and launchd do meanwhile (service_readiness.py,
\* wait_ready): "ready" and "rollback_ready" speak of one run, seen ready twice,
\* which was started after the artifacts were in place and executes them.
THEOREM ReportsAreTrueHolds == Spec => []ReportsAreTrue
<1>1. RInv => ReportsAreTrue
  <2> SUFFICES ASSUME RInv, NEW i \in Installers,
                      At(i, "ready") \/ (At(i, "rolled_back") /\ HadPlist(i))
               PROVE  \E r \in (watch[i].since + 1) .. MaxRuns :
                        watch[i].seen = {[run |-> r, code |-> IF undoing[i] THEN backup[i]["binary"]
                                                              ELSE candidate[i]]}
    BY DEF ReportsAreTrue
  <2>1. Tracked(i) /\ runs <= MaxRuns /\ runs \in Nat /\ watch[i].since \in Nat BY DEF RInv,
      RunTypes, Watch
  <2>2. watch[i].expected \in (watch[i].since + 1) .. MaxRuns BY <2>1 DEF Tracked, At
  <2> QED BY <2>1, <2>2 DEF Tracked, At, Target
<1> QED BY <1>1, Inits, Inductive, RunInits, RunInductive, PTL DEF Spec
=============================================================================
