------------------------- MODULE VoiceConsentStore -------------------------
(***************************************************************************)
(* The consent ledger of one voice guild and its writer                    *)
(* (voice_consent.rs, voice_consent_store.rs).  Every accepted choice is a *)
(* blocking job; jobs take the writer mutex in turn and run the flush loop, *)
(* whose steps between two lock sections interleave with new choices, with *)
(* I/O errors and with crashes.                                            *)
(*                                                                         *)
(* The directory holds two names that matter: the ledger file and the      *)
(* "pending" marker.  disk is what a running process sees; survives is, for *)
(* each name, the set of states a power loss may leave, since a creation,  *)
(* rename or unlink is certain only after the directory was synced.        *)
(***************************************************************************)
EXTENDS Naturals, FiniteSets

CONSTANTS
  Users,        \* members who make choices
  MaxEvent,     \* bound: Discord event ids are 1..MaxEvent
  MaxChanges,   \* bound: choices handled in one process lifetime
  MaxFaults,    \* bound: failed I/O operations and refused jobs
  MaxRestarts,  \* bound: process kills and power losses
  NoFile        \* the ledger file does not exist

ASSUME BoundAssumption ==
  /\ MaxEvent \in Nat \ {0}
  /\ MaxChanges \in Nat
  /\ MaxFaults \in Nat
  /\ MaxRestarts \in Nat
  /\ NoFile \notin [Users -> [last : Nat, grant : Nat]]

VARIABLES
  ledger, revision, saved_revision, available,   \* State, under its mutex
  waiting,      \* jobs that have not yet taken the writer mutex
  writer,       \* the flush holding the writer mutex, or Idle
  flushed,      \* jobs whose flush returned Ok and whose reply is not sent
  disk,         \* the directory as the process sees it
  survives,     \* per name, the states a power loss may leave
  withdrawn,    \* per member, the latest withdrawal whose marker is durable
  floor,        \* event ids up to here belong to earlier processes
  changes, faults, restarts                      \* counters of the bounds

memory == <<ledger, revision, saved_revision, available>>
jobs == <<waiting, writer, flushed>>
files == <<disk, survives>>
bounds == <<floor, changes, faults, restarts>>
vars == <<memory, jobs, files, withdrawn, bounds>>

Promise == INSTANCE VoiceConsentPromise WITH
  choices <- ledger,
  usable <- {u \in Users : /\ available
                           /\ revision = saved_revision
                           /\ ledger[u].grant # 0},
  withdrawn <- withdrawn

Events == 0..MaxEvent
Ledger == Promise!Ledger
NoChoices == Promise!NoChoices
Job == [user : Users, event : Events, withdraws : BOOLEAN]

\* where the loop of flush stands between two of its critical sections
FlushSteps == {"snapshot", "mark", "sync_mark", "replace", "sync_replace",
               "unlink", "sync_unlink", "settle", "poison", "invalidate"}
Idle == [at |-> "idle"]

-----------------------------------------------------------------------------
(* The ledger *)

Choices == {"agree", "withdraw", "withdraw_spoken"}

\* A spoken withdrawal carries the local clock and is moved past the last choice.
EffectiveEvent(u, e, c) ==
  IF c = "withdraw_spoken" /\ e <= ledger[u].last THEN ledger[u].last + 1 ELSE e

AcceptedInAnyOrder(u, e, c) == TRUE

Accepted(u, e, c) == c = "withdraw_spoken" \/ e > ledger[u].last

Applied(u, e, c) ==
  [ledger EXCEPT ![u] = [last |-> e, grant |-> IF c = "agree" THEN e ELSE 0]]

AgreesUnsaved(u) == available /\ ledger[u].grant # 0

Agrees(u) == available /\ revision = saved_revision /\ ledger[u].grant # 0

-----------------------------------------------------------------------------
(* The directory *)

Sees(d) == disk' = d /\ survives' = [pending |-> survives.pending \cup {d.pending},
                                      file |-> survives.file \cup {d.file}]

\* sync_dir: what the process sees is what a power loss leaves.
Synced(d) == disk' = d /\ survives' = [pending |-> {d.pending}, file |-> {d.file}]

Fault == faults < MaxFaults /\ faults' = faults + 1

Init ==
  /\ ledger = NoChoices /\ revision = 0 /\ saved_revision = 0 /\ available = TRUE
  /\ waiting = {} /\ writer = Idle /\ flushed = {}
  /\ disk = [pending |-> FALSE, file |-> NoFile]
  /\ survives = [pending |-> {FALSE}, file |-> {NoFile}]
  /\ withdrawn = [u \in Users |-> 0]
  /\ floor = 0 /\ changes = 0 /\ faults = 0 /\ restarts = 0

-----------------------------------------------------------------------------
(* ConsentStore::change *)

\* The event a member's click or spoken word carries; delivery order is free.
Handled(e, c) ==
  /\ changes < MaxChanges /\ changes' = changes + 1
  /\ e > floor \/ c = "withdraw_spoken"
  /\ UNCHANGED <<floor, restarts>>

Change(u, e, c) ==
  /\ Handled(e, c)
  /\ available /\ Accepted(u, e, c)
  /\ LET event == EffectiveEvent(u, e, c)
     IN  /\ event <= MaxEvent
         /\ ledger' = Applied(u, event, c)
         /\ waiting' = waiting \cup {[user |-> u, event |-> event,
                                      withdraws |-> c # "agree"]}
  /\ revision' = revision + 1
  /\ UNCHANGED <<saved_revision, available, writer, flushed, files, withdrawn, faults>>

\* The service is draining and refuses the job: the choice is in the desired
\* ledger, nobody will save it, and the store denies from here on.
ChangeRefused(u, e, c) ==
  /\ Handled(e, c)
  /\ Fault
  /\ IF available /\ Accepted(u, e, c)
       THEN LET event == EffectiveEvent(u, e, c)
            IN  event <= MaxEvent /\ ledger' = Applied(u, event, c) /\ revision' = revision + 1
       ELSE UNCHANGED <<ledger, revision>>
  /\ available' = FALSE
  /\ UNCHANGED <<saved_revision, jobs, files, withdrawn>>

-----------------------------------------------------------------------------
(* ConsentStore::flush, one action per stretch without a lock boundary *)

Goto(step) == writer' = [writer EXCEPT !.at = step] /\ UNCHANGED <<waiting, flushed>>
ReturnOk == writer' = Idle /\ flushed' = flushed \cup {writer.job} /\ UNCHANGED waiting
ReturnErr == writer' = Idle /\ UNCHANGED <<waiting, flushed>>
Flushing(step) == writer.at = step /\ UNCHANGED <<floor, changes, restarts>>

\* The marker of this write is durable: its withdrawals bind every later process.
Bind(l) == withdrawn' = [u \in Users |-> IF l[u].grant = 0 /\ l[u].last > withdrawn[u]
                                          THEN l[u].last ELSE withdrawn[u]]

TakeWriter(job) ==
  /\ writer = Idle
  /\ job \in waiting
  /\ waiting' = waiting \ {job}
  /\ writer' = [at |-> "snapshot", job |-> job, ledger |-> NoChoices, revision |-> 0]
  /\ UNCHANGED <<memory, flushed, files, withdrawn, bounds>>

Snapshot ==
  /\ Flushing("snapshot")
  /\ \/ ~available /\ ReturnErr
     \/ available /\ revision = saved_revision /\ ReturnOk
     \/ /\ available /\ revision # saved_revision
        /\ writer' = [writer EXCEPT !.at = "mark", !.ledger = ledger, !.revision = revision]
        /\ UNCHANGED <<waiting, flushed>>
  /\ UNCHANGED <<memory, files, withdrawn, faults>>

Mark ==
  /\ Flushing("mark")
  /\ \/ disk.pending /\ Goto("replace") /\ Bind(writer.ledger) /\ UNCHANGED <<files, faults>>
     \/ /\ ~disk.pending
        /\ \/ Sees([disk EXCEPT !.pending = TRUE]) /\ Goto("sync_mark") /\ UNCHANGED faults
           \/ Fault /\ UNCHANGED files /\ Goto("poison")
        /\ UNCHANGED withdrawn
  /\ UNCHANGED memory

SyncMark ==
  /\ Flushing("sync_mark")
  /\ \/ Synced(disk) /\ Goto("replace") /\ Bind(writer.ledger) /\ UNCHANGED faults
     \/ Fault /\ UNCHANGED <<files, withdrawn>> /\ Goto("poison")
  /\ UNCHANGED memory

\* The synced temporary file is renamed over the ledger.
Replace ==
  /\ Flushing("replace")
  /\ \/ Sees([disk EXCEPT !.file = writer.ledger]) /\ Goto("sync_replace") /\ UNCHANGED faults
     \/ Fault /\ UNCHANGED files /\ Goto("poison")
  /\ UNCHANGED <<memory, withdrawn>>

SyncReplace ==
  /\ Flushing("sync_replace")
  /\ \/ Synced(disk) /\ Goto("unlink") /\ UNCHANGED faults
     \/ Fault /\ UNCHANGED files /\ Goto("poison")
  /\ UNCHANGED <<memory, withdrawn>>

\* Under the state mutex: a choice made meanwhile keeps the marker and loops.
Unlink ==
  /\ Flushing("unlink")
  /\ \/ revision # writer.revision /\ Goto("snapshot") /\ UNCHANGED <<available, files, faults>>
     \/ /\ revision = writer.revision
        /\ Sees([disk EXCEPT !.pending = FALSE])
        /\ Goto("sync_unlink")
        /\ UNCHANGED <<available, faults>>
     \/ /\ revision = writer.revision
        /\ Fault /\ available' = FALSE /\ ReturnErr /\ UNCHANGED files
  /\ UNCHANGED <<ledger, revision, saved_revision, withdrawn>>

SyncUnlink ==
  /\ Flushing("sync_unlink")
  /\ \/ Synced(disk) /\ Goto("settle") /\ UNCHANGED <<available, faults>>
     \/ Fault /\ available' = FALSE /\ ReturnErr /\ UNCHANGED files
  /\ UNCHANGED <<ledger, revision, saved_revision, withdrawn>>

SettleOrStop ==
  /\ Flushing("settle")
  /\ revision = writer.revision /\ saved_revision' = writer.revision /\ ReturnOk
  /\ UNCHANGED <<ledger, revision, available, files, withdrawn, faults>>

Settle ==
  /\ Flushing("settle")
  /\ \/ revision = writer.revision /\ saved_revision' = writer.revision /\ ReturnOk
     \/ revision # writer.revision /\ Goto("snapshot") /\ UNCHANGED saved_revision
  /\ UNCHANGED <<ledger, revision, available, files, withdrawn, faults>>

\* save failed: deny, then try to remove the old ledger as a second barrier.
Poison ==
  /\ Flushing("poison")
  /\ available' = FALSE
  /\ Goto("invalidate")
  /\ UNCHANGED <<ledger, revision, saved_revision, files, withdrawn, faults>>

InvalidateAndGoOn ==
  /\ Flushing("invalidate")
  /\ ReturnOk
  /\ Synced([disk EXCEPT !.file = NoFile])
  /\ UNCHANGED <<memory, withdrawn, faults>>

Invalidate ==
  /\ Flushing("invalidate")
  /\ ReturnErr
  /\ \/ Synced([disk EXCEPT !.file = NoFile]) /\ UNCHANGED faults
     \/ Fault /\ Sees([disk EXCEPT !.file = NoFile])   \* removed, sync failed
     \/ Fault /\ Synced(disk)                          \* not removed, sync done
     \/ Fault /\ UNCHANGED files                       \* neither
  /\ UNCHANGED <<memory, withdrawn>>

\* The job re-reads the ledger and replies whether its choice is still the latest.
Reply(job) ==
  /\ job \in flushed
  /\ flushed' = flushed \ {job}
  /\ UNCHANGED <<memory, waiting, writer, files, withdrawn, bounds>>

-----------------------------------------------------------------------------
(* A kill keeps what the process saw; a power loss keeps a surviving state. *)
(* ConsentStore::load then reads the directory.                             *)

LoadDespiteMarker(d) ==
  /\ available' = TRUE
  /\ ledger' = IF d.file = NoFile THEN NoChoices ELSE d.file
  /\ revision' = 0 /\ saved_revision' = 0

Load(d) ==
  /\ available' = ~d.pending
  /\ ledger' = IF d.pending \/ d.file = NoFile THEN NoChoices ELSE d.file
  /\ revision' = 0 /\ saved_revision' = 0

NewProcess ==
  /\ restarts < MaxRestarts /\ restarts' = restarts + 1
  /\ waiting' = {} /\ writer' = Idle /\ flushed' = {}
  /\ changes' = 0
  /\ LET seen == {floor} \cup {ledger[u].last : u \in Users}
     IN  \E last \in seen : (\A x \in seen : x <= last) /\ floor' = last
  /\ UNCHANGED <<withdrawn, faults>>

Kill == NewProcess /\ Load(disk) /\ UNCHANGED files

PowerLoss ==
  /\ NewProcess
  /\ \E p \in survives.pending, f \in survives.file :
       LET d == [pending |-> p, file |-> f] IN Load(d) /\ Synced(d)

FlushStep == \/ \E job \in waiting : TakeWriter(job)
             \/ Snapshot \/ Mark \/ SyncMark \/ Replace \/ SyncReplace
             \/ Unlink \/ SyncUnlink \/ Settle \/ Poison \/ Invalidate
             \/ \E job \in flushed : Reply(job)

Next ==
  \/ \E u \in Users, e \in Events, c \in Choices : Change(u, e, c) \/ ChangeRefused(u, e, c)
  \/ FlushStep
  \/ Kill
  \/ PowerLoss

\* A blocking job, once started, runs to its end; the mutex queue is served.
Spec == Init /\ [][Next]_vars /\ WF_vars(FlushStep)

-----------------------------------------------------------------------------
(* Properties *)

WriterType ==
  [at : FlushSteps, job : Job, ledger : Ledger, revision : 0..MaxChanges] \cup {Idle}

\* An agreement that authorises audio is newer than every withdrawal of its member
\* whose write had begun, whatever crashed, failed or was written in between
\* (README.md:342: an interrupted write blocks receipt loading).
NoRevivedConsent == \A u \in Users : Agrees(u) => ledger[u].grant > withdrawn[u]

\* No grant becomes usable until the ledger holding it is durable
\* (voice_consent_store.rs:2-3): every ledger a power loss can leave has it.
DurableBeforeUsable ==
  \A u \in Users : Agrees(u) => \A f \in survives.file : f # NoFile /\ f[u] = ledger[u]

\* A member is told "saved" only of a withdrawal that binds every later process.
SavedMeansBinding ==
  [][\A job \in flushed \ flushed' :
       (restarts' = restarts /\ job.withdraws /\ ledger[job.user].last = job.event)
         => withdrawn[job.user] >= job.event]_vars

\* Every accepted choice is answered, or its process dies; the flush loop ends.
EveryChoiceAnswered ==
  \A u \in Users, e \in Events :
    (\E job \in waiting : job.user = u /\ job.event = e)
      ~> ~ \E job \in waiting \cup flushed \cup (IF writer = Idle THEN {} ELSE {writer.job}) :
             job.user = u /\ job.event = e

\* The store implements the promise the voice session relies on.
KeepsPromise == Promise!Spec
=============================================================================
