---------------------- MODULE VoiceConsentStoreProofs ----------------------
(***************************************************************************)
(* What TLAPS proves of VoiceConsentStore for any members, events, faults  *)
(* and restarts: no agreement is revived, none is used before it is        *)
(* durable, a member is told that a withdrawal is saved only when it binds *)
(* every later process, and the store implements VoiceConsentPromise.      *)
(* Inv is inductive; there is a lemma per action or group of actions.      *)
(***************************************************************************)
EXTENDS VoiceConsentStore, TLAPS

\* From the snapshot on the flush has a ledger; from "replace" on its marker is
\* durable; from "unlink" on its ledger is.
Writing == {"mark", "sync_mark", "replace", "sync_replace", "unlink", "sync_unlink", "settle"}
Marked == {"replace", "sync_replace", "unlink", "sync_unlink", "settle"}
Placed == {"unlink", "sync_unlink", "settle"}

Flushes == [at : FlushSteps, job : Job, ledger : Ledger, revision : Nat]

Directory == [pending : BOOLEAN, file : Ledger \cup {NoFile}]
Survivors == [pending : SUBSET BOOLEAN, file : SUBSET (Ledger \cup {NoFile})]

Types ==
  /\ ledger \in Ledger /\ revision \in Nat /\ saved_revision \in Nat /\ available \in BOOLEAN
  /\ waiting \subseteq Job /\ flushed \subseteq Job /\ writer \in Flushes \cup {Idle}
  /\ disk \in Directory /\ survives \in Survivors
  /\ withdrawn \in [Users -> Events] /\ floor \in Events

\* A receipt is of its member's latest choice; the latest choice, when it is a
\* withdrawal, is binding.
Receipts(l) == \A u \in Users : l[u].grant \in {0, l[u].last}
Honours(l) == \A u \in Users : l[u].grant # 0 => l[u].grant > withdrawn[u]
Binding(l) == \A u \in Users : l[u].grant = 0 => withdrawn[u] >= l[u].last

\* Memory honours every binding withdrawal; when all is saved, what is relied on
\* is durable and what was withdrawn is binding.
MemoryIsSound ==
  /\ Receipts(ledger) /\ Honours(ledger) /\ saved_revision <= revision
  /\ \A u \in Users : withdrawn[u] <= floor \/ withdrawn[u] <= ledger[u].last
  /\ available /\ revision = saved_revision => Binding(ledger) /\ DurableBeforeUsable

\* Whatever a kill or a power loss leaves, if it can be loaded it honours every
\* binding withdrawal.
DirectoryIsSound ==
  /\ disk.pending \in survives.pending /\ disk.file \in survives.file
  /\ \A f \in survives.file : f # NoFile =>
       Receipts(f) /\ Binding(f) /\ (FALSE \in survives.pending => Honours(f))
  /\ ~disk.pending /\ disk.file # NoFile => survives.file = {disk.file}

\* Choices of l came before those of memory.
Precedes(l) ==
  \A u \in Users : l[u].last <= ledger[u].last /\ (l[u].last = ledger[u].last => l[u] = ledger[u])

WriteIsSound ==
  writer.at \in Writing =>
    /\ saved_revision < writer.revision /\ writer.revision <= revision
    /\ Receipts(writer.ledger) /\ Precedes(writer.ledger)
    /\ revision = writer.revision => ledger = writer.ledger

\* What each step of the flush knows of the directory; a stale marker is durable.
PlaceIsSound ==
  /\ writer.at \in Marked => Binding(writer.ledger)
  /\ writer.at \in Placed => survives.file = {writer.ledger}
  /\ writer.at = "sync_replace" => disk.file = writer.ledger
  /\ writer.at \in {"replace", "sync_replace", "unlink"} => disk.pending /\ survives.pending = {TRUE}
  /\ writer.at = "sync_mark" => disk.pending
  /\ writer.at \in {"sync_unlink", "settle"} => ~disk.pending
  /\ writer.at = "invalidate" => ~available
  /\ disk.pending /\ (available \/ writer.at = "mark") /\ writer.at \notin {"sync_mark", "poison"}
       => survives.pending = {TRUE}

\* A job's choice is its member's latest or was superseded; when its flush
\* returned, a withdrawal that is the latest choice is binding.
Running == waiting \cup flushed \cup (IF writer = Idle THEN {} ELSE {writer.job})
JobsAreSound ==
  /\ \A job \in Running :
       /\ job.event <= ledger[job.user].last
       /\ job.withdraws /\ ledger[job.user].last = job.event => ledger[job.user].grant = 0
  /\ \A job \in flushed :
       job.withdraws /\ ledger[job.user].last = job.event => withdrawn[job.user] >= job.event

Inv == Types /\ MemoryIsSound /\ DirectoryIsSound /\ WriteIsSound /\ PlaceIsSound /\ JobsAreSound

-----------------------------------------------------------------------------
USE BoundAssumption
    DEF memory, jobs, files, bounds, Events, Ledger, Promise!Ledger, Promise!Choice,
        Promise!Events, NoChoices, Promise!NoChoices, Job, FlushSteps, Idle, Choices

\* A store whose files were never written.
LEMMA Inits == Init => Inv
<1> SUFFICES ASSUME Init PROVE Inv OBVIOUS
<1> USE DEF Init
<1>1. Types BY DEF Types, Directory, Survivors
<1>2. MemoryIsSound BY DEF MemoryIsSound, Receipts, Honours, Binding, DurableBeforeUsable, Agrees
<1>3. DirectoryIsSound BY DEF DirectoryIsSound
<1>4. WriteIsSound BY DEF WriteIsSound, Writing
<1>5. PlaceIsSound BY DEF PlaceIsSound, Marked, Placed
<1>6. JobsAreSound BY DEF JobsAreSound, Running
<1> QED BY <1>1, <1>2, <1>3, <1>4, <1>5, <1>6 DEF Inv

\* A flush under way has its types.
LEMMA WriterTypes ==
  ASSUME Types, writer.at # "idle"
  PROVE  /\ writer \in Flushes /\ writer # Idle /\ writer.at \in FlushSteps
         /\ writer.job \in Job /\ writer.ledger \in Ledger /\ writer.revision \in Nat
<1>1. writer # Idle /\ writer \in Flushes BY DEF Types
<1> QED BY <1>1 DEF Flushes

\* The jobs a store owes an answer are jobs.
LEMMA RunningTypes == ASSUME Types PROVE Running \subseteq Job
<1>1. CASE writer = Idle BY <1>1 DEF Types, Running
<1>2. CASE writer # Idle BY <1>2 DEF Types, Running, Flushes
<1> QED BY <1>1, <1>2

\* A newer choice: the receipt, if it is one, is newer than every binding withdrawal.
LEMMA Supersedes ==
  ASSUME Inv, NEW u \in Users, NEW event \in Events, NEW c \in Choices,
         event > ledger[u].last, c = "agree" => event > withdrawn[u],
         ledger' = Applied(u, event, c), revision' = revision + 1,
         available' => available,
         UNCHANGED <<saved_revision, writer, flushed, disk, survives, withdrawn, floor>>
  PROVE  /\ ledger' \in Ledger /\ ledger'[u].last = event /\ (c # "agree" => ledger'[u].grant = 0)
         /\ revision' \in Nat
         /\ MemoryIsSound' /\ DirectoryIsSound' /\ WriteIsSound' /\ PlaceIsSound'
         /\ \A job \in Running :
              /\ job.event <= ledger'[job.user].last
              /\ job.withdraws /\ ledger'[job.user].last = job.event => ledger'[job.user].grant = 0
         /\ \A job \in flushed :
              job.withdraws /\ ledger'[job.user].last = job.event => withdrawn[job.user] >= job.event
<1> DEFINE choice == [last |-> event, grant |-> IF c = "agree" THEN event ELSE 0]
<1>1. ledger' = [ledger EXCEPT ![u] = choice] BY DEF Applied
<1>2. ledger'[u] = choice BY <1>1 DEF Inv, Types
<1>3. ledger' \in Ledger
  <2>1. choice \in [last : Events, grant : Events] OBVIOUS
  <2> HIDE DEF choice
  <2> QED BY <1>1, <2>1 DEF Inv, Types
<1>4. MemoryIsSound' BY <1>1 DEF Inv, Types, MemoryIsSound, Receipts, Honours
<1>5. DirectoryIsSound' BY DEF Inv, DirectoryIsSound, Receipts, Binding, Honours
<1>6. WriteIsSound'
  <2> SUFFICES ASSUME writer.at \in Writing PROVE WriteIsSound' BY DEF WriteIsSound
  <2>1. writer.ledger \in Ledger /\ writer.revision \in Nat BY WriterTypes DEF Inv, Writing
  <2>2. Precedes(writer.ledger)' BY <1>1, <2>1 DEF Inv, Types, WriteIsSound, Precedes
  <2>3. writer.revision < revision' /\ saved_revision < writer.revision
    BY <2>1 DEF Inv, Types, WriteIsSound
  <2> QED BY <2>1, <2>2, <2>3 DEF Inv, Types, WriteIsSound, Receipts
<1>7. PlaceIsSound' BY DEF Inv, PlaceIsSound, Binding
<1>8. ASSUME NEW job \in Running
      PROVE  /\ job.event <= ledger'[job.user].last
             /\ ledger'[job.user].last = job.event => ledger'[job.user] = ledger[job.user]
  <2>1. job.event <= ledger[job.user].last /\ job.user \in Users /\ job.event \in Events
    BY RunningTypes DEF Inv, JobsAreSound
  <2> QED BY <1>1, <2>1 DEF Inv, Types
<1>9. flushed \subseteq Running BY DEF Running
<1> QED BY <1>2, <1>3, <1>4, <1>5, <1>6, <1>7, <1>8, <1>9 DEF Inv, Types, JobsAreSound

\* The event a choice is recorded at is newer than all it supersedes.
LEMMA Effective ==
  ASSUME Inv, NEW u \in Users, NEW e \in Events, NEW c \in Choices, Handled(e, c),
         Accepted(u, e, c), EffectiveEvent(u, e, c) <= MaxEvent
  PROVE  /\ EffectiveEvent(u, e, c) \in Events /\ EffectiveEvent(u, e, c) > ledger[u].last
         /\ c = "agree" => EffectiveEvent(u, e, c) > withdrawn[u]
BY DEF Inv, Types, MemoryIsSound, Handled, Accepted, EffectiveEvent

\* change_consent records in memory; nothing on the disk moves.
LEMMA ChangeKeeps ==
  ASSUME Inv, NEW u \in Users, NEW e \in Events, NEW c \in Choices, Change(u, e, c)
  PROVE  Inv'
<1> DEFINE event == EffectiveEvent(u, e, c)
           new == [user |-> u, event |-> event, withdraws |-> c # "agree"]
<1>1. /\ event \in Events /\ event > ledger[u].last /\ (c = "agree" => event > withdrawn[u])
      /\ ledger' = Applied(u, event, c) /\ waiting' = waiting \cup {new}
      /\ revision' = revision + 1
      /\ UNCHANGED <<saved_revision, available, writer, flushed, disk, survives, withdrawn, floor>>
  BY Effective DEF Change, Handled
<1> HIDE DEF event
<1>2. new \in Job /\ new.user = u /\ new.event = event /\ (new.withdraws = (c # "agree")) BY <1>1
<1> HIDE DEF new
<1>3. Types' BY <1>1, <1>2, Supersedes DEF Inv, Types
<1>4. JobsAreSound'
  <2>1. Running' = Running \cup {new} BY <1>1 DEF Running
  <2>2. ledger'[new.user].last = new.event /\ (new.withdraws => ledger'[new.user].grant = 0)
    BY <1>1, <1>2, Supersedes
  <2>3. new.event <= ledger'[new.user].last BY <1>2, <2>2
  <2> QED BY <1>1, <2>1, <2>2, <2>3, Supersedes DEF JobsAreSound
<1> QED BY <1>1, <1>3, <1>4, Supersedes DEF Inv

\* A choice refused at a fault denies, whatever it recorded.
LEMMA ChangeRefusedKeeps ==
  ASSUME Inv, NEW u \in Users, NEW e \in Events, NEW c \in Choices, ChangeRefused(u, e, c)
  PROVE  Inv'
<1> DEFINE event == EffectiveEvent(u, e, c)
<1>1. /\ available' = FALSE
      /\ UNCHANGED <<saved_revision, waiting, writer, flushed, disk, survives, withdrawn, floor>>
  BY DEF ChangeRefused, Handled, Fault
<1>2. UNCHANGED Running BY <1>1 DEF Running
<1>3. CASE UNCHANGED <<ledger, revision>>
  <2>1. Types' BY <1>1, <1>3 DEF Inv, Types
  <2>2. MemoryIsSound'
    BY <1>1, <1>3 DEF Inv, MemoryIsSound, Receipts, Honours
  <2>3. DirectoryIsSound' BY <1>1 DEF Inv, DirectoryIsSound, Receipts, Binding, Honours
  <2>4. WriteIsSound' BY <1>1, <1>3 DEF Inv, WriteIsSound, Receipts, Precedes
  <2>5. PlaceIsSound' BY <1>1 DEF Inv, PlaceIsSound, Binding
  <2>6. JobsAreSound' BY <1>1, <1>2, <1>3 DEF Inv, JobsAreSound
  <2> QED BY <2>1, <2>2, <2>3, <2>4, <2>5, <2>6 DEF Inv
<1>4. CASE Accepted(u, e, c) /\ event <= MaxEvent /\ ledger' = Applied(u, event, c)
           /\ revision' = revision + 1
  <2>1. event \in Events /\ event > ledger[u].last /\ (c = "agree" => event > withdrawn[u])
    BY <1>4, Effective DEF ChangeRefused
  <2> HIDE DEF event
  <2>2. Types' BY <1>1, <1>4, <2>1, Supersedes DEF Inv, Types
  <2>3. JobsAreSound' BY <1>1, <1>2, <1>4, <2>1, Supersedes DEF JobsAreSound
  <2> QED BY <1>1, <1>4, <2>1, <2>2, <2>3, Supersedes DEF Inv
<1> QED BY <1>3, <1>4 DEF ChangeRefused

-----------------------------------------------------------------------------
(* The flush loop *)

\* A flush goes to its next step.
LEMMA Goes ==
  ASSUME Types, writer.at # "idle", NEW step \in FlushSteps, Goto(step)
  PROVE  /\ writer' \in Flushes /\ writer' # Idle /\ writer'.at = step
         /\ writer'.job = writer.job /\ writer'.ledger = writer.ledger
         /\ writer'.revision = writer.revision
         /\ UNCHANGED <<waiting, flushed, Running>>
<1>1. /\ writer' \in Flushes /\ writer' # Idle /\ writer'.at = step
      /\ writer'.job = writer.job /\ writer'.ledger = writer.ledger
      /\ writer'.revision = writer.revision /\ UNCHANGED <<waiting, flushed>>
  BY WriterTypes DEF Goto, Flushes
<1> QED BY <1>1, WriterTypes DEF Running

\* A flush that returns has answered its job or denied.
LEMMA Returns ==
  ASSUME Types, writer.at # "idle", ReturnOk \/ ReturnErr
  PROVE  /\ writer' = Idle /\ writer'.at = "idle" /\ UNCHANGED waiting
         /\ Running' \subseteq Running /\ flushed' \subseteq flushed \cup {writer.job}
         /\ flushed' \subseteq Job
BY WriterTypes DEF ReturnOk, ReturnErr, Running, Types

\* The fields of a directory have their types.
LEMMA Directories == disk \in Directory => disk.pending \in BOOLEAN /\ disk.file \in Ledger \cup {NoFile}
BY DEF Directory

\* After a sync one directory survives a power loss.
LEMMA SyncedDirectory ==
  ASSUME NEW d \in Directory, Synced(d)
  PROVE  disk' = d /\ survives' \in Survivors /\ survives'.pending = {d.pending} /\ survives'.file = {d.file}
BY DEF Synced, Directory, Survivors

\* Before it, the old and the new may.
LEMMA SeenDirectory ==
  ASSUME Types, NEW d \in Directory, Sees(d)
  PROVE  /\ disk' = d /\ survives' \in Survivors
         /\ survives'.pending = survives.pending \cup {d.pending}
         /\ survives'.file = survives.file \cup {d.file}
<1>1. survives.pending \subseteq BOOLEAN /\ survives.file \subseteq Ledger \cup {NoFile}
  BY DEF Types, Survivors
<1>2. d.pending \in BOOLEAN /\ d.file \in Ledger \cup {NoFile} BY DEF Directory
<1>3. survives.pending \cup {d.pending} \in SUBSET BOOLEAN
      /\ survives.file \cup {d.file} \in SUBSET (Ledger \cup {NoFile})
  BY <1>1, <1>2
<1> QED BY <1>3 DEF Sees, Survivors

\* The pending marker alone is written.
LEMMA Marking ==
  ASSUME disk \in Directory, NEW p \in BOOLEAN
  PROVE  LET d == [disk EXCEPT !.pending = p]
         IN  d \in Directory /\ d.pending = p /\ d.file = disk.file
BY DEF Directory

\* The ledger file alone is written.
LEMMA Placing ==
  ASSUME disk \in Directory, NEW f \in Ledger \cup {NoFile}
  PROVE  LET d == [disk EXCEPT !.file = f]
         IN  d \in Directory /\ d.file = f /\ d.pending = disk.pending
BY DEF Directory

\* Jobs stay sound while memory's ledger stays and withdrawals only become binding.
LEMMA JobsStay ==
  ASSUME Inv, UNCHANGED ledger, Running' \subseteq Running,
         withdrawn' \in [Users -> Events], \A u \in Users : withdrawn'[u] >= withdrawn[u],
         \A job \in flushed' \ flushed :
           job.withdraws /\ ledger[job.user].last = job.event => withdrawn[job.user] >= job.event
  PROVE  JobsAreSound'
<1>1. flushed' \subseteq Running' BY DEF Running
<1>2. ASSUME NEW job \in flushed', job.withdraws, ledger[job.user].last = job.event
      PROVE  withdrawn'[job.user] >= job.event
  <2>1. job \in Job BY <1>1, RunningTypes DEF Inv
  <2>2. withdrawn[job.user] >= job.event BY <1>2 DEF Inv, JobsAreSound
  <2> QED BY <2>1, <2>2 DEF Inv, Types
<1> QED BY <1>1, <1>2 DEF Inv, JobsAreSound

\* While a write is under way its revision is not saved: nothing is relied on.
LEMMA Unsettled ==
  ASSUME Inv, writer.at \in Writing
  PROVE  revision # saved_revision
BY WriterTypes DEF Inv, Types, WriteIsSound, Writing

\* One flush holds the writer lock.
LEMMA TakeWriterKeeps ==
  ASSUME Inv, NEW job \in waiting, TakeWriter(job)
  PROVE  Inv'
<1> USE DEF TakeWriter
<1>1. writer' \in Flushes /\ writer' # Idle /\ writer'.at = "snapshot" /\ writer'.job = job
  BY DEF Inv, Types, Flushes
<1>2. Running' = Running BY <1>1 DEF Running
<1>3. Types' BY <1>1 DEF Inv, Types
<1>4. MemoryIsSound' BY DEF Inv, MemoryIsSound, Receipts, Honours, Binding, DurableBeforeUsable, Agrees
<1>5. DirectoryIsSound' BY DEF Inv, DirectoryIsSound, Receipts, Binding, Honours
<1>6. WriteIsSound' BY <1>1 DEF WriteIsSound, Writing
<1>7. PlaceIsSound' BY <1>1 DEF Inv, PlaceIsSound, Marked, Placed
<1>8. JobsAreSound' BY <1>2 DEF Inv, JobsAreSound
<1> QED BY <1>3, <1>4, <1>5, <1>6, <1>7, <1>8 DEF Inv

\* The snapshot is of the memory at its revision.
LEMMA SnapshotKeeps == ASSUME Inv, Snapshot PROVE Inv'
<1>1. Types /\ writer.at = "snapshot" /\ UNCHANGED <<memory, files, withdrawn, floor>>
  BY DEF Inv, Snapshot, Flushing
<1>2. MemoryIsSound'
  BY <1>1 DEF Inv, MemoryIsSound, Receipts, Honours, Binding, DurableBeforeUsable, Agrees
<1>3. DirectoryIsSound' BY <1>1 DEF Inv, DirectoryIsSound, Receipts, Binding, Honours
<1>4. CASE ~available /\ ReturnErr
  <2>1. writer'.at = "idle" /\ Running' \subseteq Running /\ UNCHANGED flushed /\ Types'
    BY <1>1, <1>4, Returns DEF Types, ReturnErr
  <2>2. WriteIsSound' BY <2>1 DEF WriteIsSound, Writing
  <2>3. PlaceIsSound' BY <1>1, <1>4, <2>1 DEF Inv, PlaceIsSound, Marked, Placed
  <2>4. JobsAreSound' BY <1>1, <2>1, JobsStay DEF Inv, Types
  <2> QED BY <1>2, <1>3, <2>1, <2>2, <2>3, <2>4 DEF Inv
<1>5. CASE available /\ revision = saved_revision /\ ReturnOk
  <2>1. writer'.at = "idle" /\ Running' \subseteq Running /\ Types' /\ flushed' = flushed \cup {writer.job}
    BY <1>1, <1>5, Returns DEF Types, ReturnOk
  <2>2. WriteIsSound' BY <2>1 DEF WriteIsSound, Writing
  <2>3. PlaceIsSound' BY <1>1, <2>1 DEF Inv, PlaceIsSound, Marked, Placed
  <2>4. writer.job \in Running /\ writer.job \in Job BY <1>1, WriterTypes DEF Running
  <2>5. writer.job.withdraws /\ ledger[writer.job.user].last = writer.job.event =>
          withdrawn[writer.job.user] >= writer.job.event
    BY <1>5, <2>4 DEF Inv, Types, MemoryIsSound, Binding, JobsAreSound
  <2>6. JobsAreSound' BY <1>1, <2>1, <2>5, JobsStay DEF Inv, Types
  <2> QED BY <1>2, <1>3, <2>1, <2>2, <2>3, <2>6 DEF Inv
<1>6. CASE /\ available /\ revision # saved_revision
           /\ writer' = [writer EXCEPT !.at = "mark", !.ledger = ledger, !.revision = revision]
           /\ UNCHANGED <<waiting, flushed>>
  <2>1. /\ writer' \in Flushes /\ writer' # Idle /\ writer'.at = "mark" /\ writer'.job = writer.job
        /\ writer'.ledger = ledger /\ writer'.revision = revision
    BY <1>1, <1>6, WriterTypes DEF Types, Flushes
  <2>2. Running' = Running BY <1>1, <1>6, <2>1, WriterTypes DEF Running
  <2>3. Types' BY <1>1, <1>6, <2>1 DEF Types
  <2>4. WriteIsSound'
    <3>1. saved_revision < revision BY <1>6 DEF Inv, Types, MemoryIsSound
    <3>2. Receipts(ledger) /\ Precedes(ledger) BY DEF Inv, Types, MemoryIsSound, Precedes
    <3> QED BY <1>1, <2>1, <3>1, <3>2 DEF Inv, Types, WriteIsSound, Receipts, Precedes
  <2>5. PlaceIsSound' BY <1>1, <1>6, <2>1 DEF Inv, PlaceIsSound, Marked, Placed
  <2>6. JobsAreSound' BY <1>1, <1>6, <2>2, JobsStay DEF Inv, Types
  <2> QED BY <1>2, <1>3, <2>3, <2>4, <2>5, <2>6 DEF Inv
<1> QED BY <1>4, <1>5, <1>6 DEF Snapshot

\* A withdrawal that a write makes binding is older than every later receipt.
LEMMA Binds ==
  ASSUME Inv, writer.at \in Writing, Bind(writer.ledger), UNCHANGED <<ledger, floor>>
  PROVE  /\ withdrawn' \in [Users -> Events] /\ \A u \in Users : withdrawn'[u] >= withdrawn[u]
         /\ \A u \in Users : withdrawn'[u] <= floor' \/ withdrawn'[u] <= ledger'[u].last
         /\ Honours(ledger)'
         /\ \A u \in Users : writer.ledger[u].grant = 0 => withdrawn'[u] >= writer.ledger[u].last
         /\ \A f \in Ledger : Binding(f) => Binding(f)'
<1>1. writer.ledger \in Ledger BY WriterTypes DEF Inv, Writing
<1>2. withdrawn' \in [Users -> Events] /\ \A u \in Users : withdrawn'[u] >= withdrawn[u]
  BY <1>1 DEF Inv, Types, Bind
<1>3. \A u \in Users : withdrawn'[u] <= floor' \/ withdrawn'[u] <= ledger'[u].last
  BY <1>1 DEF Inv, Types, MemoryIsSound, WriteIsSound, Precedes, Bind
<1>4. Honours(ledger)'
  <2> SUFFICES ASSUME NEW u \in Users, ledger[u].grant # 0 PROVE ledger[u].grant > withdrawn'[u]
    BY DEF Honours
  <2>1. ledger[u].grant = ledger[u].last /\ ledger[u].grant > withdrawn[u]
    BY DEF Inv, MemoryIsSound, Receipts, Honours
  <2>2. /\ writer.ledger[u].last <= ledger[u].last
        /\ writer.ledger[u].last = ledger[u].last => writer.ledger[u] = ledger[u]
    BY DEF Inv, WriteIsSound, Precedes
  <2>3. ledger[u].last \in Events /\ writer.ledger[u].last \in Events BY <1>1 DEF Inv, Types
  <2>4. writer.ledger[u].grant = 0 => writer.ledger[u].last < ledger[u].last
    BY <2>1, <2>2, <2>3
  <2> QED BY <1>1, <2>1, <2>4 DEF Bind
<1>5. ASSUME NEW u \in Users, writer.ledger[u].grant = 0 PROVE withdrawn'[u] >= writer.ledger[u].last
  BY <1>1, <1>5 DEF Inv, Types, Bind
<1>6. ASSUME NEW f \in Ledger, Binding(f) PROVE Binding(f)'
  BY <1>2, <1>6 DEF Inv, Types, Binding
<1> QED BY <1>2, <1>3, <1>4, <1>5, <1>6

\* The marker is durable before the ledger file is replaced.
LEMMA MarkKeeps == ASSUME Inv, Mark \/ SyncMark PROVE Inv'
<1>1. Types /\ writer.at \in {"mark", "sync_mark"} /\ writer.at \in Writing
      /\ UNCHANGED <<memory, floor>> /\ revision # saved_revision
  BY Unsettled DEF Inv, Mark, SyncMark, Flushing, Writing
<1>2. writer.ledger \in Ledger BY <1>1, WriterTypes
<1>3. CASE /\ Goto("replace") /\ Bind(writer.ledger) /\ disk.pending /\ UNCHANGED disk
           /\ survives' \in Survivors /\ survives'.pending = {TRUE}
           /\ survives'.file = survives.file \/ survives'.file = {disk.file}
  <2>1. /\ writer' \in Flushes /\ writer'.at = "replace" /\ writer'.ledger = writer.ledger
        /\ writer'.revision = writer.revision /\ UNCHANGED <<waiting, flushed, Running>>
    BY <1>1, <1>3, Goes
  <2>2. survives'.file \subseteq survives.file /\ disk.file \in survives'.file
    BY <1>3 DEF Inv, DirectoryIsSound
  <2>3. Types'
    <3>1. withdrawn' \in [Users -> Events] BY <1>1, <1>3, Binds
    <3> QED BY <1>1, <1>3, <2>1, <3>1 DEF Types
  <2>4. MemoryIsSound' BY <1>1, <1>3, Binds DEF Inv, MemoryIsSound, Receipts
  <2>5. DirectoryIsSound'
    <3>1. ASSUME NEW f \in survives.file, f # NoFile PROVE Receipts(f) /\ Binding(f)'
      BY <1>1, <1>3, <3>1, Binds DEF Inv, Types, Survivors, DirectoryIsSound
    <3> QED BY <1>3, <2>2, <3>1 DEF Inv, DirectoryIsSound, Receipts
  <2>6. WriteIsSound' BY <1>1, <2>1 DEF Inv, WriteIsSound, Writing, Receipts, Precedes
  <2>7. Binding(writer.ledger)' BY <1>1, <1>3, <2>1, Binds DEF Binding
  <2>8. PlaceIsSound' BY <1>1, <1>3, <2>1, <2>7 DEF Inv, PlaceIsSound, Marked, Placed, Binding
  <2>9. JobsAreSound' BY <1>1, <1>3, <2>1, Binds, JobsStay
  <2> QED BY <2>3, <2>4, <2>5, <2>6, <2>8, <2>9 DEF Inv
<1>4. CASE /\ \/ Goto("poison") /\ UNCHANGED files
              \/ Goto("sync_mark") /\ Sees([disk EXCEPT !.pending = TRUE])
           /\ UNCHANGED withdrawn
  <2>1. /\ writer' \in Flushes /\ writer'.at \in {"sync_mark", "poison"}
        /\ writer'.ledger = writer.ledger /\ writer'.revision = writer.revision
        /\ UNCHANGED <<waiting, flushed, Running>>
    BY <1>1, <1>4, Goes
  <2>2. /\ disk' \in Directory /\ survives' \in Survivors
        /\ disk'.pending = disk.pending \/ disk'.pending = TRUE
        /\ disk'.file = disk.file /\ survives'.file = survives.file
        /\ writer'.at = "sync_mark" => disk'.pending
        /\ survives'.pending = survives.pending \/ survives'.pending = survives.pending \cup {TRUE}
        /\ disk'.pending \in survives'.pending
    <3>1. CASE Goto("poison") /\ UNCHANGED files
      BY <1>1, <3>1, Goes DEF Inv, Types, DirectoryIsSound
    <3>2. CASE Goto("sync_mark") /\ Sees([disk EXCEPT !.pending = TRUE])
      <4> DEFINE d == [disk EXCEPT !.pending = TRUE]
      <4>1. d \in Directory /\ d.pending = TRUE /\ d.file = disk.file
        BY <1>1, Marking DEF Types
      <4> HIDE DEF d
      <4>2. /\ disk' = d /\ survives' \in Survivors
            /\ survives'.pending = survives.pending \cup {TRUE}
            /\ survives'.file = survives.file \cup {disk.file}
        BY <1>1, <3>2, <4>1, SeenDirectory DEF d
      <4> QED BY <3>2, <4>1, <4>2 DEF Inv, DirectoryIsSound
    <3> QED BY <1>4, <3>1, <3>2
  <2>3. Types' BY <1>1, <1>4, <2>1, <2>2 DEF Types
  <2>4. MemoryIsSound' BY <1>1, <1>4 DEF Inv, MemoryIsSound, Receipts, Honours
  <2>5. DirectoryIsSound' BY <1>4, <2>2 DEF Inv, DirectoryIsSound, Receipts, Binding, Honours
  <2>6. WriteIsSound' BY <1>1, <2>1 DEF Inv, WriteIsSound, Receipts, Precedes, Writing
  <2>7. PlaceIsSound' BY <1>1, <2>1, <2>2 DEF PlaceIsSound, Marked, Placed
  <2>8. JobsAreSound' BY <1>1, <1>4, <2>1, JobsStay DEF Types
  <2> QED BY <2>3, <2>4, <2>5, <2>6, <2>7, <2>8 DEF Inv
<1>5. CASE Mark
  <2>1. disk.pending => survives.pending = {TRUE}
    BY <1>5 DEF Mark, Flushing, Inv, PlaceIsSound
  <2> QED BY <1>1, <1>3, <1>4, <1>5, <2>1 DEF Mark, Types
<1>6. CASE SyncMark
  <2>1. disk.pending BY <1>6 DEF SyncMark, Flushing, Inv, PlaceIsSound
  <2>2. Synced(disk) => /\ UNCHANGED disk /\ survives' \in Survivors
                        /\ survives'.pending = {TRUE} /\ survives'.file = {disk.file}
    BY <1>1, <2>1, SyncedDirectory, Directories DEF Types
  <2> QED BY <1>3, <1>4, <1>6, <2>1, <2>2 DEF SyncMark
<1> QED BY <1>5, <1>6

\* Memory stays sound when nothing in it changes and nothing is relied on.
LEMMA MemoryStays ==
  ASSUME Inv, UNCHANGED <<ledger, revision, saved_revision, withdrawn, floor>>,
         ~available' \/ revision # saved_revision
  PROVE  MemoryIsSound'
BY DEF Inv, MemoryIsSound, Receipts, Honours

\* A write under way stays what it was when memory stays.
LEMMA WriteStays ==
  ASSUME Inv, UNCHANGED <<ledger, revision, saved_revision>>,
         writer'.at \in Writing => writer.at \in Writing /\ writer'.ledger = writer.ledger
                                   /\ writer'.revision = writer.revision
  PROVE  WriteIsSound'
BY DEF Inv, WriteIsSound, Receipts, Precedes

\* The ledger file is replaced under the marker.
LEMMA ReplaceKeeps == ASSUME Inv, Replace \/ SyncReplace PROVE Inv'
<1>1. Types /\ writer.at \in {"replace", "sync_replace"} /\ writer.at \in Writing
      /\ UNCHANGED <<memory, withdrawn, floor>> /\ revision # saved_revision
  BY Unsettled DEF Inv, Replace, SyncReplace, Flushing, Writing
<1>2. writer.ledger \in Ledger BY <1>1, WriterTypes
<1>3. disk.pending /\ survives.pending = {TRUE} /\ Binding(writer.ledger) /\ Receipts(writer.ledger)
  BY <1>1 DEF Inv, PlaceIsSound, WriteIsSound, Marked
<1>4. /\ writer' \in Flushes /\ writer'.at \in {"sync_replace", "unlink", "poison"}
      /\ writer'.ledger = writer.ledger /\ writer'.revision = writer.revision
      /\ UNCHANGED <<waiting, flushed, Running>>
  BY <1>1, Goes DEF Replace, SyncReplace
<1>5. /\ disk' \in Directory /\ survives' \in Survivors /\ disk'.pending /\ survives'.pending = {TRUE}
      /\ survives'.file \subseteq survives.file \cup {writer.ledger} /\ disk'.file \in survives'.file
      /\ writer'.at = "sync_replace" => disk'.file = writer.ledger
      /\ writer'.at = "unlink" => survives'.file = {writer.ledger}
  <2>1. CASE Goto("poison") /\ UNCHANGED files
    BY <1>1, <1>3, <2>1, Goes DEF Inv, Types, DirectoryIsSound
  <2>2. CASE Goto("sync_replace") /\ Sees([disk EXCEPT !.file = writer.ledger])
    <3> DEFINE d == [disk EXCEPT !.file = writer.ledger]
    <3>1. d \in Directory /\ d.file = writer.ledger /\ d.pending = disk.pending
      BY <1>1, <1>2, Placing DEF Types
    <3> HIDE DEF d
    <3>2. /\ disk' = d /\ survives' \in Survivors
          /\ survives'.pending = survives.pending \cup {disk.pending}
          /\ survives'.file = survives.file \cup {writer.ledger}
      BY <1>1, <2>2, <3>1, SeenDirectory DEF d
    <3>3. writer'.at = "sync_replace" BY <1>1, <2>2, Goes
    <3>4. disk.pending = TRUE BY <1>1, <1>3, Directories DEF Types
    <3> QED BY <1>3, <3>1, <3>2, <3>3, <3>4
  <2>3. CASE Goto("unlink") /\ Synced(disk) /\ writer.at = "sync_replace"
    <3>1. disk.file = writer.ledger /\ writer'.at = "unlink" /\ disk.pending = TRUE
      BY <1>1, <1>3, <2>3, Goes, Directories DEF Inv, PlaceIsSound, Types
    <3>2. disk' = disk /\ survives' \in Survivors /\ survives'.pending = {TRUE}
          /\ survives'.file = {writer.ledger}
      BY <1>1, <2>3, <3>1, SyncedDirectory DEF Types
    <3> QED BY <1>1, <3>1, <3>2 DEF Types
  <2> QED BY <2>1, <2>2, <2>3 DEF Replace, SyncReplace, Flushing
<1>6. Types' BY <1>1, <1>4, <1>5 DEF Types
<1>7. MemoryIsSound' BY <1>1, MemoryStays
<1>8. DirectoryIsSound'
  BY <1>1, <1>3, <1>5 DEF Inv, DirectoryIsSound, Receipts, Binding
<1>9. WriteIsSound' BY <1>1, <1>4, WriteStays
<1>10. PlaceIsSound' BY <1>1, <1>3, <1>4, <1>5 DEF PlaceIsSound, Marked, Placed, Binding
<1>11. JobsAreSound' BY <1>1, <1>4, JobsStay DEF Types
<1> QED BY <1>6, <1>7, <1>8, <1>9, <1>10, <1>11 DEF Inv

\* The marker goes only after the new file is durable.
LEMMA UnlinkKeeps == ASSUME Inv, Unlink \/ SyncUnlink PROVE Inv'
<1>1. Types /\ writer.at \in {"unlink", "sync_unlink"} /\ writer.at \in Writing
      /\ UNCHANGED <<ledger, revision, saved_revision, withdrawn, floor>>
      /\ revision # saved_revision /\ available' \in {available, FALSE}
  BY Unsettled DEF Inv, Unlink, SyncUnlink, Flushing, Writing
<1>2. survives.file = {writer.ledger} /\ Binding(writer.ledger) /\ Receipts(writer.ledger)
      /\ writer.ledger \in Ledger
  BY <1>1, WriterTypes DEF Inv, PlaceIsSound, WriteIsSound, Marked, Placed
<1>3. /\ writer' \in Flushes \cup {Idle} /\ writer'.at \in {"snapshot", "sync_unlink", "settle", "idle"}
      /\ writer'.at \in Writing => writer'.ledger = writer.ledger /\ writer'.revision = writer.revision
      /\ UNCHANGED <<waiting, flushed>> /\ Running' \subseteq Running
  BY <1>1, Goes, Returns DEF Unlink, SyncUnlink, ReturnErr, Writing
<1>4. /\ disk' \in Directory /\ survives' \in Survivors /\ survives'.file = {writer.ledger}
      /\ disk'.file = writer.ledger /\ disk'.pending \in survives'.pending
      /\ FALSE \in survives'.pending => FALSE \in survives.pending \/ ledger = writer.ledger
      /\ writer'.at \in {"sync_unlink", "settle"} => ~disk'.pending
      /\ disk'.pending /\ available' => survives'.pending = {TRUE}
  <2>1. disk.file = writer.ledger /\ disk.pending \in survives.pending /\ disk \in Directory
        /\ survives \in Survivors /\ disk.pending \in BOOLEAN
    BY <1>1, <1>2, Directories DEF Inv, DirectoryIsSound, Types
  <2>2. CASE Goto("snapshot") /\ UNCHANGED <<available, files>>
    BY <1>1, <1>2, <2>1, <2>2, Goes DEF Inv, PlaceIsSound
  <2>3. CASE Goto("sync_unlink") /\ revision = writer.revision /\ Sees([disk EXCEPT !.pending = FALSE])
    <3> DEFINE d == [disk EXCEPT !.pending = FALSE]
    <3>1. d \in Directory /\ d.file = writer.ledger /\ d.pending = FALSE
      BY <2>1, Marking
    <3> HIDE DEF d
    <3>2. /\ disk' = d /\ survives' \in Survivors
          /\ survives'.pending = survives.pending \cup {FALSE}
          /\ survives'.file = survives.file \cup {writer.ledger}
      BY <1>1, <2>3, <3>1, SeenDirectory DEF d
    <3>3. ledger = writer.ledger BY <1>1, <2>3 DEF Inv, WriteIsSound
    <3> QED BY <1>2, <3>1, <3>2, <3>3
  <2>4. CASE Goto("settle") /\ Synced(disk) /\ writer.at = "sync_unlink"
    <3>1. disk.pending = FALSE BY <2>1, <2>4 DEF Inv, PlaceIsSound
    <3>2. disk' = disk /\ survives' \in Survivors /\ survives'.pending = {FALSE}
          /\ survives'.file = {writer.ledger}
      BY <2>1, <2>4, <3>1, SyncedDirectory
    <3> QED BY <2>1, <3>1, <3>2
  <2>5. CASE available' = FALSE /\ ReturnErr /\ UNCHANGED files
    BY <1>1, <1>2, <2>1, <2>5, Returns
  <2> QED BY <2>2, <2>3, <2>4, <2>5 DEF Unlink, SyncUnlink, Flushing
<1>5. Types' BY <1>1, <1>3, <1>4 DEF Types
<1>6. MemoryIsSound' BY <1>1, MemoryStays
<1>7. DirectoryIsSound'
  <2>1. writer.ledger # NoFile BY <1>2
  <2>2. FALSE \in survives'.pending => Honours(writer.ledger)
    <3>1. CASE FALSE \in survives.pending BY <1>2, <2>1, <3>1 DEF Inv, DirectoryIsSound
    <3>2. CASE ledger = writer.ledger BY <3>2 DEF Inv, MemoryIsSound
    <3> QED BY <1>4, <3>1, <3>2
  <2> QED BY <1>1, <1>2, <1>4, <2>2 DEF DirectoryIsSound, Receipts, Binding, Honours
<1>8. WriteIsSound' BY <1>1, <1>3, WriteStays
<1>9. PlaceIsSound' BY <1>1, <1>2, <1>3, <1>4 DEF PlaceIsSound, Marked, Placed, Binding, Writing
<1>10. JobsAreSound' BY <1>1, <1>3, JobsStay DEF Types
<1> QED BY <1>5, <1>6, <1>7, <1>8, <1>9, <1>10 DEF Inv

\* Saved is what the snapshot saved.
LEMMA SettleKeeps == ASSUME Inv, Settle PROVE Inv'
<1>1. Types /\ writer.at = "settle" /\ writer.at \in Writing
      /\ UNCHANGED <<ledger, revision, available, files, withdrawn, floor>>
      /\ revision # saved_revision
  BY Unsettled DEF Inv, Settle, Flushing, Writing
<1>2. survives.file = {writer.ledger} /\ Binding(writer.ledger) /\ writer.ledger \in Ledger
  BY <1>1, WriterTypes DEF Inv, PlaceIsSound, Marked, Placed
<1>3. DirectoryIsSound' BY <1>1 DEF Inv, DirectoryIsSound, Receipts, Binding, Honours
<1>4. CASE Goto("snapshot") /\ UNCHANGED saved_revision
  <2>1. /\ writer' \in Flushes /\ writer'.at = "snapshot" /\ UNCHANGED <<waiting, flushed, Running>>
    BY <1>1, <1>4, Goes
  <2>2. Types' BY <1>1, <1>4, <2>1 DEF Types
  <2>3. MemoryIsSound' BY <1>1, <1>4, MemoryStays
  <2>4. WriteIsSound' BY <2>1 DEF WriteIsSound, Writing
  <2>5. PlaceIsSound' BY <1>1, <2>1 DEF Inv, PlaceIsSound, Marked, Placed
  <2>6. JobsAreSound' BY <1>1, <2>1, JobsStay DEF Types
  <2> QED BY <1>3, <2>2, <2>3, <2>4, <2>5, <2>6 DEF Inv
<1>5. CASE revision = writer.revision /\ saved_revision' = writer.revision /\ ReturnOk
  <2>1. /\ writer' = Idle /\ writer'.at = "idle" /\ UNCHANGED waiting
        /\ Running' \subseteq Running /\ flushed' = flushed \cup {writer.job} /\ flushed' \subseteq Job
    BY <1>1, <1>5, Returns DEF ReturnOk
  <2>2. Types' BY <1>1, <1>5, <2>1 DEF Types
  <2>3. ledger = writer.ledger BY <1>1, <1>5 DEF Inv, WriteIsSound
  <2>4. \A f \in survives.file : f # NoFile /\ f = ledger BY <1>2, <2>3
  <2>5. MemoryIsSound'
    <3>1. (Binding(ledger) /\ DurableBeforeUsable)'
      BY <1>1, <1>2, <2>3, <2>4 DEF Binding, DurableBeforeUsable
    <3> QED BY <1>1, <1>5, <2>2, <3>1 DEF Inv, Types, MemoryIsSound, Receipts, Honours
  <2>6. WriteIsSound' BY <2>1 DEF WriteIsSound, Writing
  <2>7. PlaceIsSound' BY <1>1, <2>1 DEF Inv, PlaceIsSound, Marked, Placed
  <2>8. writer.job \in Running /\ writer.job \in Job BY <1>1, WriterTypes DEF Running
  <2>9. writer.job.withdraws /\ ledger[writer.job.user].last = writer.job.event =>
          withdrawn[writer.job.user] >= writer.job.event
    BY <1>2, <2>3, <2>8 DEF Inv, Types, Binding, JobsAreSound
  <2>10. JobsAreSound' BY <1>1, <2>1, <2>9, JobsStay DEF Types
  <2> QED BY <1>3, <2>2, <2>5, <2>6, <2>7, <2>10 DEF Inv
<1> QED BY <1>4, <1>5 DEF Settle

\* Denying, then removing what could be loaded, disturbs nothing that is relied on.
LEMMA PoisonKeeps == ASSUME Inv, Poison \/ Invalidate PROVE Inv'
<1>1. Types /\ writer.at \in {"poison", "invalidate"} /\ writer.at # "idle"
      /\ UNCHANGED <<ledger, revision, saved_revision, withdrawn, floor>>
      /\ available' = FALSE
  BY DEF Inv, Types, Poison, Invalidate, Flushing, PlaceIsSound
<1>2. /\ writer' \in Flushes \cup {Idle} /\ writer'.at \in {"invalidate", "idle"}
      /\ UNCHANGED <<waiting, flushed>> /\ Running' \subseteq Running
  BY <1>1, Goes, Returns DEF Poison, Invalidate, ReturnErr
<1>3. /\ disk' \in Directory /\ survives' \in Survivors /\ disk'.pending = disk.pending
      /\ survives'.pending \subseteq survives.pending
      /\ survives'.file \subseteq survives.file \cup {NoFile}
      /\ disk'.pending \in survives'.pending /\ disk'.file \in survives'.file
      /\ ~disk'.pending /\ disk'.file # NoFile => survives'.file = {disk'.file}
  <2>1. disk \in Directory /\ survives \in Survivors /\ disk.pending \in survives.pending
        /\ disk.file \in survives.file
    BY <1>1 DEF Types, Inv, DirectoryIsSound
  <2> DEFINE d == [disk EXCEPT !.file = NoFile]
  <2>2. d \in Directory /\ d.file = NoFile /\ d.pending = disk.pending BY <2>1, Placing
  <2> HIDE DEF d
  <2>3. CASE UNCHANGED files BY <2>1, <2>3 DEF Inv, DirectoryIsSound
  <2>4. CASE Synced(disk)
    <3>1. disk' = disk /\ survives' \in Survivors /\ survives'.pending = {disk.pending}
          /\ survives'.file = {disk.file}
      BY <2>1, <2>4, SyncedDirectory
    <3> QED BY <2>1, <3>1
  <2>5. CASE Synced(d)
    <3>1. disk' = d /\ survives' \in Survivors /\ survives'.pending = {disk.pending}
          /\ survives'.file = {NoFile}
      BY <2>2, <2>5, SyncedDirectory
    <3> QED BY <2>1, <2>2, <3>1
  <2>6. CASE Sees(d)
    <3>1. disk' = d /\ survives' \in Survivors
          /\ survives'.pending = survives.pending \cup {disk.pending}
          /\ survives'.file = survives.file \cup {NoFile}
      BY <1>1, <2>2, <2>6, SeenDirectory
    <3> QED BY <2>1, <2>2, <3>1
  <2> QED BY <2>3, <2>4, <2>5, <2>6 DEF Poison, Invalidate, d
<1>4. Types' BY <1>1, <1>2, <1>3 DEF Types
<1>5. MemoryIsSound' BY <1>1, MemoryStays
<1>6. DirectoryIsSound' BY <1>1, <1>3 DEF Inv, DirectoryIsSound, Receipts, Binding, Honours
<1>7. WriteIsSound' BY <1>2, WriteStays, <1>1 DEF Writing
<1>8. PlaceIsSound' BY <1>1, <1>2, <1>3 DEF PlaceIsSound, Marked, Placed
<1>9. JobsAreSound' BY <1>1, <1>2, JobsStay DEF Types
<1> QED BY <1>4, <1>5, <1>6, <1>7, <1>8, <1>9 DEF Inv

\* An answer makes the withdrawals it saved binding.
LEMMA ReplyKeeps == ASSUME Inv, NEW job \in flushed, Reply(job) PROVE Inv'
<1>1. UNCHANGED <<memory, waiting, writer, files, withdrawn, floor>> /\ flushed' \subseteq flushed
      /\ Running' \subseteq Running
  BY DEF Reply, Running
<1>2. Types' BY <1>1 DEF Inv, Types
<1>3. MemoryIsSound'
  BY <1>1 DEF Inv, MemoryIsSound, Receipts, Honours, Binding, DurableBeforeUsable, Agrees
<1>4. DirectoryIsSound' BY <1>1 DEF Inv, DirectoryIsSound, Receipts, Binding, Honours
<1>5. WriteIsSound' BY <1>1, WriteStays
<1>6. PlaceIsSound' BY <1>1 DEF Inv, PlaceIsSound, Binding
<1>7. JobsAreSound' BY <1>1, JobsStay DEF Inv, Types
<1> QED BY <1>2, <1>3, <1>4, <1>5, <1>6, <1>7 DEF Inv

-----------------------------------------------------------------------------
(* Kills and power losses *)

\* A new process over any directory that could have survived.
LEMMA RestartedWith ==
  ASSUME Inv, disk' \in Directory, survives' \in Survivors,
         survives'.pending \subseteq survives.pending, survives'.file \subseteq survives.file,
         disk'.pending \in survives'.pending, disk'.file \in survives'.file,
         ~disk'.pending /\ disk'.file # NoFile => survives'.file = {disk'.file},
         UNCHANGED withdrawn, waiting' = {}, flushed' = {}, writer' = Idle, writer'.at = "idle",
         available' = ~disk'.pending, revision' = 0, saved_revision' = 0,
         floor' \in Events, floor' >= floor, \A u \in Users : floor' >= ledger[u].last,
         ledger' \in Ledger, Receipts(ledger)', Honours(ledger)', Binding(ledger)',
         DurableBeforeUsable'
  PROVE  Inv'
<1>1. Types' BY DEF Inv, Types
<1>2. \A u \in Users : withdrawn'[u] <= floor' BY DEF Inv, Types, MemoryIsSound
<1>3. MemoryIsSound' BY <1>2 DEF MemoryIsSound
<1>4. DirectoryIsSound' BY DEF Inv, DirectoryIsSound, Receipts, Binding, Honours
<1>5. WriteIsSound' BY DEF WriteIsSound, Writing
<1>6. PlaceIsSound' BY DEF PlaceIsSound, Marked, Placed
<1>7. Running' = {} BY DEF Running
<1>8. JobsAreSound' BY <1>7 DEF JobsAreSound
<1> QED BY <1>1, <1>3, <1>4, <1>5, <1>6, <1>8 DEF Inv

\* The next process loads a state that survived, or denies.
LEMMA LoadKeeps ==
  ASSUME Inv, NEW d \in Directory, NewProcess, Load(d), disk' = d, survives' \in Survivors,
         survives'.pending \subseteq survives.pending, survives'.file \subseteq survives.file,
         d.pending \in survives'.pending, d.file \in survives'.file,
         ~d.pending /\ d.file # NoFile => survives'.file = {d.file}
  PROVE  Inv'
<1>1. /\ UNCHANGED withdrawn /\ waiting' = {} /\ flushed' = {} /\ writer' = Idle
      /\ writer'.at = "idle" /\ available' = ~d.pending /\ revision' = 0 /\ saved_revision' = 0
  BY DEF NewProcess, Load
<1>2. floor' \in Events /\ floor' >= floor /\ \A u \in Users : floor' >= ledger[u].last
  BY DEF NewProcess, Inv, Types
<1>3. d.pending \in BOOLEAN /\ d.file \in Ledger \cup {NoFile} BY DEF Directory
<1>4. CASE d.pending \/ d.file = NoFile
  <2>1. ledger' = NoChoices BY <1>4 DEF Load
  <2>2. /\ ledger' \in Ledger /\ Receipts(ledger)' /\ Honours(ledger)' /\ Binding(ledger)'
        /\ DurableBeforeUsable'
    BY <1>1, <2>1 DEF Inv, Types, Receipts, Honours, Binding, DurableBeforeUsable, Agrees
  <2> QED BY <2>2, <1>1, <1>2, RestartedWith
<1>5. CASE ~d.pending /\ d.file # NoFile
  <2>1. ledger' = d.file /\ ledger' \in Ledger /\ survives'.file = {ledger'} BY <1>3, <1>5 DEF Load
  <2>2. FALSE \in survives.pending /\ d.file \in survives.file BY <1>3, <1>5
  <2>3. Receipts(d.file) /\ Honours(d.file) /\ Binding(d.file)
    BY <1>5, <2>2 DEF Inv, DirectoryIsSound
  <2>4. Receipts(ledger)' /\ Honours(ledger)' /\ Binding(ledger)'
    BY <1>1, <2>1, <2>3 DEF Receipts, Honours, Binding
  <2>5. DurableBeforeUsable' BY <1>5, <2>1 DEF DurableBeforeUsable
  <2> QED BY <2>1, <2>4, <2>5, <1>1, <1>2, RestartedWith
<1> QED BY <1>3, <1>4, <1>5

\* A kill keeps the directory seen, a power loss one that may survive.
LEMMA RestartKeeps == ASSUME Inv, Kill \/ PowerLoss PROVE Inv'
<1>1. CASE Kill
  BY <1>1, LoadKeeps DEF Kill, Inv, Types, DirectoryIsSound
<1>2. CASE PowerLoss
  <2>1. PICK p \in survives.pending, f \in survives.file :
          Load([pending |-> p, file |-> f]) /\ Synced([pending |-> p, file |-> f])
    BY <1>2 DEF PowerLoss
  <2> DEFINE d == [pending |-> p, file |-> f]
  <2>2. d \in Directory /\ d.pending = p /\ d.file = f BY DEF Inv, Types, Directory, Survivors
  <2>3. NewProcess /\ Load(d) /\ Synced(d) BY <1>2, <2>1 DEF PowerLoss
  <2> HIDE DEF d
  <2>4. disk' = d /\ survives' \in Survivors /\ survives'.pending = {p} /\ survives'.file = {f}
    BY <2>2, <2>3, SyncedDirectory
  <2> QED BY <2>2, <2>3, <2>4, LoadKeeps
<1> QED BY <1>1, <1>2

-----------------------------------------------------------------------------
(* The theorems *)

\* Every step.
LEMMA NextKeeps == Inv /\ [Next]_vars => Inv'
<1> SUFFICES ASSUME Inv, [Next]_vars PROVE Inv' OBVIOUS
<1>1. ASSUME NEW u \in Users, NEW e \in Events, NEW c \in Choices,
             Change(u, e, c) \/ ChangeRefused(u, e, c)
      PROVE  Inv'
  BY <1>1, ChangeKeeps, ChangeRefusedKeeps
<1>2. ASSUME FlushStep PROVE Inv'
  BY <1>2, TakeWriterKeeps, SnapshotKeeps, MarkKeeps, ReplaceKeeps, UnlinkKeeps, SettleKeeps,
     PoisonKeeps, ReplyKeeps
  DEF FlushStep
<1>3. CASE UNCHANGED vars
  <2> USE <1>3 DEF vars
  <2>1. Types' BY DEF Inv, Types
  <2>2. MemoryIsSound'
    BY DEF Inv, MemoryIsSound, Receipts, Honours, Binding, DurableBeforeUsable, Agrees
  <2>3. DirectoryIsSound' BY DEF Inv, DirectoryIsSound, Receipts, Binding, Honours
  <2>4. WriteIsSound' BY WriteStays
  <2>5. PlaceIsSound' BY DEF Inv, PlaceIsSound, Binding
  <2>6. UNCHANGED Running BY DEF Running
  <2>7. JobsAreSound' BY <2>6 DEF Inv, JobsAreSound
  <2> QED BY <2>1, <2>2, <2>3, <2>4, <2>5, <2>7 DEF Inv
<1> QED BY <1>1, <1>2, <1>3, RestartKeeps DEF Next

\* Memory, directory, the write under way and the jobs owed an answer stay sound over
\* kills, power losses and failing files (voice_consent.rs).
THEOREM StoreIsSound == Spec => []Inv
BY Inits, NextKeeps, PTL DEF Spec

\* No crash, failure or interleaving brings back an agreement that a binding
\* withdrawal ended (README.md:342): memory honours every binding withdrawal.
THEOREM NothingRevived == Spec => []NoRevivedConsent
<1>1. Inv => NoRevivedConsent BY DEF Inv, MemoryIsSound, Honours, NoRevivedConsent, Agrees
<1> QED BY <1>1, StoreIsSound, PTL

\* An agreement is relied on only when every ledger a power loss can leave holds
\* it (voice_consent_store.rs:2-3).
THEOREM UsedWhenDurable == Spec => []DurableBeforeUsable
<1>1. Inv => DurableBeforeUsable
  BY DEF Inv, MemoryIsSound, DurableBeforeUsable, Agrees
<1> QED BY <1>1, StoreIsSound, PTL

\* When a job's flush returned, the withdrawal it reports as saved is binding.
THEOREM SavedIsBinding == Spec => SavedMeansBinding
<1>1. Inv => \A job \in flushed : (job.withdraws /\ ledger[job.user].last = job.event)
                                     => withdrawn[job.user] >= job.event
  BY DEF Inv, JobsAreSound
<1>2. Inv => [\A job \in flushed \ flushed' :
                (restarts' = restarts /\ job.withdraws /\ ledger[job.user].last = job.event)
                  => withdrawn[job.user] >= job.event]_vars
  BY <1>1
<1> QED BY <1>2, StoreIsSound, PTL DEF SavedMeansBinding

-----------------------------------------------------------------------------
(* The store implements the promise *)

Usable == {u \in Users : available /\ revision = saved_revision /\ ledger[u].grant # 0}

\* A step of the files alone is no step of the promise.
LEMMA Stutters ==
  ASSUME UNCHANGED <<ledger, withdrawn>>, Usable' = Usable
  PROVE  UNCHANGED Promise!vars
BY DEF Promise!vars, Usable

\* While memory is not durable, or denies, nobody is usable.
LEMMA Denying ==
  ASSUME ~available \/ revision # saved_revision
  PROVE  Usable = {}
BY DEF Usable

\* A recorded choice is a decision of the promise.
LEMMA Decides ==
  ASSUME NEW u \in Users, NEW event \in Events, NEW c \in Choices, event > ledger[u].last,
         c = "agree" => event > withdrawn[u], ledger' = Applied(u, event, c),
         Usable' = {}, UNCHANGED withdrawn
  PROVE  Promise!Next
<1>1. Promise!Decide(u, event, c = "agree") BY DEF Promise!Decide, Applied, Usable
<1>2. (c = "agree") \in BOOLEAN OBVIOUS
<1> QED BY <1>1, <1>2 DEF Promise!Next

\* So is what change_consent does, refused or not.
LEMMA ChangeDecides ==
  ASSUME Inv, NEW u \in Users, NEW e \in Events, NEW c \in Choices,
         Change(u, e, c) \/ ChangeRefused(u, e, c)
  PROVE  Promise!Next
<1> DEFINE event == EffectiveEvent(u, e, c)
<1>1. UNCHANGED withdrawn /\ Handled(e, c) BY DEF Change, ChangeRefused
<1>2. Usable' = {}
  <2>1. CASE Change(u, e, c)
    <3>1. revision' # saved_revision' BY <2>1 DEF Inv, Types, MemoryIsSound, Change
    <3> QED BY <3>1 DEF Usable
  <2>2. CASE ChangeRefused(u, e, c) BY <2>2 DEF ChangeRefused, Usable
  <2> QED BY <2>1, <2>2
<1>3. CASE Accepted(u, e, c) /\ event <= MaxEvent /\ ledger' = Applied(u, event, c)
  <2>1. event \in Events /\ event > ledger[u].last /\ (c = "agree" => event > withdrawn[u])
    BY <1>1, <1>3, Effective
  <2> HIDE DEF event
  <2> QED BY <1>1, <1>2, <1>3, <2>1, Decides
<1>4. CASE UNCHANGED ledger
  <2>1. Promise!Fail BY <1>1, <1>2, <1>4 DEF Promise!Fail, Usable
  <2> QED BY <2>1 DEF Promise!Next
<1> QED BY <1>3, <1>4 DEF Change, ChangeRefused

\* Only a durable marker, a settled write and a failed one show outside the store.
LEMMA FlushKeepsPromise ==
  ASSUME Inv, FlushStep
  PROVE  Promise!Next \/ UNCHANGED Promise!vars
<1>1. CASE UNCHANGED <<memory, withdrawn>>
  <2>1. Usable' = Usable BY <1>1 DEF Usable
  <2> QED BY <1>1, <2>1, Stutters
<1>2. CASE (Mark \/ SyncMark) /\ Bind(writer.ledger)
  <2>1. writer.at \in Writing /\ UNCHANGED <<memory, floor>>
    BY <1>2 DEF Mark, SyncMark, Flushing, Writing
  <2>2. /\ withdrawn' \in [Users -> Events] /\ \A u \in Users : withdrawn'[u] >= withdrawn[u]
        /\ Honours(ledger)'
    BY <1>2, <2>1, Binds
  <2>3. Usable' = Usable BY <2>1 DEF Usable
  <2>4. Promise!Bind
    BY <2>1, <2>2, <2>3 DEF Promise!Bind, Promise!Honours, Promise!Granted, Honours, Usable
  <2> QED BY <2>4 DEF Promise!Next
<1>3. CASE Unlink \/ SyncUnlink
  <2>1. writer.at \in Writing /\ UNCHANGED <<ledger, revision, saved_revision, withdrawn>>
    BY <1>3 DEF Unlink, SyncUnlink, Flushing, Writing
  <2>2. revision # saved_revision BY <2>1, Unsettled
  <2>3. Usable = {} /\ Usable' = {} BY <2>1, <2>2 DEF Usable
  <2> QED BY <2>1, <2>3, Stutters
<1>4. CASE Settle /\ revision = writer.revision /\ saved_revision' = writer.revision
  <2>1. UNCHANGED <<ledger, revision, available, withdrawn>> BY <1>4 DEF Settle
  <2>2. CASE available
    <3>1. Promise!Settle BY <1>4, <2>1, <2>2 DEF Promise!Settle, Promise!Granted
    <3> QED BY <3>1 DEF Promise!Next
  <2>3. CASE ~available
    <3>1. Usable = {} /\ Usable' = {} BY <2>1, <2>3 DEF Usable
    <3> QED BY <2>1, <3>1, Stutters
  <2> QED BY <2>2, <2>3
<1>5. CASE Poison
  <2>1. Promise!Fail BY <1>5 DEF Poison, Promise!Fail
  <2> QED BY <2>1 DEF Promise!Next
<1>6. CASE \/ \E job \in waiting : TakeWriter(job)
           \/ \E job \in flushed : Reply(job)
           \/ Snapshot \/ Replace \/ SyncReplace \/ Invalidate
  BY <1>1, <1>6 DEF TakeWriter, Reply, Snapshot, Replace, SyncReplace, Invalidate
<1>7. CASE Mark \/ SyncMark BY <1>1, <1>2, <1>7 DEF Mark, SyncMark
<1>8. CASE Settle BY <1>1, <1>4, <1>8 DEF Settle
<1> QED BY <1>3, <1>5, <1>6, <1>7, <1>8 DEF FlushStep

\* A new process is a restart of the promise.
LEMMA RestartRestarts ==
  ASSUME Inv, Inv', Kill \/ PowerLoss
  PROVE  Promise!Next
<1>1. UNCHANGED withdrawn /\ revision' = 0 /\ saved_revision' = 0 /\ available' \in BOOLEAN
  BY DEF Kill, PowerLoss, NewProcess, Load, Inv, Types
<1>2. ledger' \in Ledger /\ Promise!Honours(ledger')
  BY <1>1 DEF Inv, Types, MemoryIsSound, Honours, Promise!Honours, Promise!Granted
<1>3. Usable' \in {{}, Promise!Granted(ledger')}
  <2>1. CASE available' BY <1>1, <2>1 DEF Usable, Promise!Granted
  <2>2. CASE ~available' BY <2>2 DEF Usable
  <2> QED BY <2>1, <2>2
<1>4. Promise!Restart BY <1>1, <1>2, <1>3 DEF Promise!Restart, Usable
<1> QED BY <1>4 DEF Promise!Next

\* Whatever the disk, the threads and the crashes do, the voice session may rely
\* on VoiceConsentPromise (voice_consent_store.rs:1-5).
THEOREM PromiseKept == Spec => KeepsPromise
<1>1. Init => Promise!Init
  BY DEF Init, Promise!Init
<1>2. Inv /\ Inv' /\ [Next]_vars => [Promise!Next]_Promise!vars
  <2> SUFFICES ASSUME Inv, Inv', [Next]_vars PROVE Promise!Next \/ UNCHANGED Promise!vars
    OBVIOUS
  <2>1. CASE UNCHANGED vars BY <2>1, Stutters DEF vars, Usable
  <2> QED BY <2>1, ChangeDecides, FlushKeepsPromise, RestartRestarts DEF Next
<1> QED BY <1>1, <1>2, StoreIsSound, PTL DEF Spec, KeepsPromise, Promise!Spec

-----------------------------------------------------------------------------
(* What the promise is worth                                               *)

\* The promise never relies on an agreement that a binding withdrawal has ended
\* (Ledger::agrees).
LEMMA PromiseIsSafe == Promise!Spec => []Promise!OnlyLiveAgreements
<1> USE DEF Promise!OnlyLiveAgreements, Promise!Granted, Promise!Honours
<1>1. Promise!Init => Promise!OnlyLiveAgreements BY DEF Promise!Init, Promise!NoChoices
<1>2. Promise!OnlyLiveAgreements /\ [Promise!Next]_Promise!vars => Promise!OnlyLiveAgreements'
  <2> SUFFICES ASSUME Promise!OnlyLiveAgreements, [Promise!Next]_Promise!vars
               PROVE  Promise!OnlyLiveAgreements'
    OBVIOUS
  <2>1. ASSUME NEW u \in Users, NEW e \in Promise!Events, NEW agree \in BOOLEAN,
               Promise!Decide(u, e, agree)
        PROVE  Promise!OnlyLiveAgreements'
    BY <2>1 DEF Promise!Decide
  <2>2. CASE Promise!Settle BY <2>2 DEF Promise!Settle
  <2>3. CASE Promise!Bind BY <2>3 DEF Promise!Bind
  <2>4. CASE Promise!Fail BY <2>4 DEF Promise!Fail
  <2>5. CASE Promise!Restart BY <2>5 DEF Promise!Restart
  <2>6. CASE UNCHANGED Promise!vars BY <2>6 DEF Promise!vars
  <2> QED BY <2>1, <2>2, <2>3, <2>4, <2>5, <2>6 DEF Promise!Next
<1> QED BY <1>1, <1>2, PTL DEF Promise!Spec

\* What the store promises, it does: the audio of a member is used only on a live agreement,
\* newer than every withdrawal that was confirmed, whatever failed in between.
THEOREM LiveAgreementsOnly == Spec => []Promise!OnlyLiveAgreements
BY PromiseIsSafe, PromiseKept, PTL DEF KeepsPromise
=============================================================================
