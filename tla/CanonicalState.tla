--------------------------- MODULE CanonicalState ---------------------------
(***************************************************************************)
(* The canonical state document and those who write it: operations that    *)
(* commit a change, the scheduled snapshot, an erasure, handlers that      *)
(* change memory and leave writing to others, the single retained writer   *)
(* (service/persistence.rs, persist.rs), and the shutdown of the service   *)
(* (service.rs, startup.rs), across crashes and failing file operations.   *)
(*                                                                         *)
(* A document is what it holds: the committed changes ("work") and the     *)
(* notes handlers made (memory, rewards, brains).  canonical_base, the     *)
(* digest of the document a memory image descends from, is the document.   *)
(***************************************************************************)
EXTENDS Naturals, Sequences, FiniteSets

CONSTANTS
  Commits,     \* operations that commit a work change (commit_work_owned)
  Snapshots,   \* scheduled snapshots (request_persistence)
  Erasures,    \* erasures of notes (commit_learning_erasure)
  Handlers,    \* operations that only change memory
  Nobody,      \* no task
  FinalWrite,  \* the root's final write
  MaxFaults,   \* bound on failing file operations
  MaxCrashes   \* bound on crashes

Tasks == Commits \cup Snapshots \cup Erasures \cup Handlers

ASSUME CanonicalAssumption ==
  /\ Commits \cap Handlers = {} /\ Commits \cap Erasures = {} /\ Commits \cap Snapshots = {}
  /\ Snapshots \cap Erasures = {} /\ Snapshots \cap Handlers = {}
  /\ Erasures \cap Handlers = {}
  /\ Nobody \notin Tasks /\ FinalWrite \notin Tasks /\ Nobody # FinalWrite
  /\ MaxFaults \in Nat /\ MaxCrashes \in Nat

VARIABLES
  phase,           \* ServicePhase: running, draining, frozen
  root,            \* where the shutdown sequence is
  outcome,         \* FinalPersistOutcome
  work, notes,     \* the Stores in memory
  base,            \* their canonical_base
  claim,           \* work_recall_disk: the work the projection on disk shows
  preparation,     \* holder of persistence_preparation
  task,            \* per operation, its state and the snapshot it submitted
  accepting,       \* the writer takes requests
  queue,           \* submitted writes; the writer works on the first
  writer,          \* where the writer is in that write
  disk, durable,   \* the document: as read now, as it survives a crash
  projection,      \* the work the projection file shows
  acked, erased,   \* history: changes and erasures whose success was returned
  faults, crashes  \* see MaxFaults, MaxCrashes

service == <<phase, root, outcome>>
memory == <<work, notes, base, claim>>
tasks == <<preparation, task>>
write == <<accepting, queue, writer>>
files == <<disk, durable, projection>>
history == <<acked, erased>>
bounds == <<faults, crashes>>
vars == <<service, memory, tasks, write, files, history, bounds>>

Document(w, n) == [work |-> w, notes |-> n]
Empty == Document({}, {})
NoClaim == [known |-> FALSE, work |-> {}]
Claims(w) == [known |-> TRUE, work |-> w]
NotSubmitted == [at |-> "idle", doc |-> Empty, gone |-> {}]

Init ==
  /\ phase = "running" /\ root = "serving" /\ outcome = "none"
  /\ work = {} /\ notes = {} /\ base = Empty /\ claim = NoClaim
  /\ preparation = Nobody /\ task = [t \in Tasks |-> NotSubmitted]
  /\ accepting = TRUE /\ queue = <<>> /\ writer = "idle"
  /\ disk = Empty /\ durable = Empty /\ projection = {}
  /\ acked = {} /\ erased = {} /\ faults = 0 /\ crashes = 0

At(t, step) == task[t].at = step
Goto(t, step) == task' = [task EXCEPT ![t].at = step]

-----------------------------------------------------------------------------
(* Operations *)

\* The registry admits under the lock that shutdown closes it with.
Admit(t) ==
  /\ phase = "running" /\ At(t, "idle") /\ Goto(t, "admitted")
  /\ UNCHANGED <<service, memory, preparation, write, files, history, bounds>>

\* A handler changes memory; it may be aborted before, at an await.
Note(h) ==
  /\ h \in Handlers /\ At(h, "admitted") /\ Goto(h, "done")
  /\ notes' = notes \cup {h}
  /\ UNCHANGED <<service, work, base, claim, preparation, write, files, history, bounds>>

Prepare(t) ==
  /\ t \notin Handlers /\ At(t, "admitted")
  /\ preparation = Nobody /\ preparation' = t
  /\ Goto(t, "preparing")
  /\ UNCHANGED <<service, memory, write, files, history, bounds>>

\* Memory forgets the notes before anything is written.
Forgotten(t) == IF t \in Erasures THEN notes ELSE {}

Snapshot(t) ==
  Document(IF t \in Commits THEN work \cup {t} ELSE work, notes \ Forgotten(t))

ComposeOnly(t) ==
  /\ preparation = t /\ At(t, "preparing")
  /\ task' = [task EXCEPT ![t] = [at |-> "composed", doc |-> Snapshot(t),
                                  gone |-> Forgotten(t)]]
  /\ UNCHANGED <<service, memory, preparation, write, files, history, bounds>>

\* snapshot_without_proposals or prepare_gated_snapshot
Compose(t) ==
  /\ preparation = t /\ At(t, "preparing")
  /\ notes' = notes \ Forgotten(t)
  /\ task' = [task EXCEPT ![t] = [at |-> "composed", doc |-> Snapshot(t),
                                  gone |-> Forgotten(t)]]
  /\ UNCHANGED <<service, work, base, claim, preparation, write, files, history, bounds>>

Submit(t) ==
  /\ preparation = t /\ At(t, "composed")
  /\ IF accepting
       THEN /\ Goto(t, "waiting") /\ UNCHANGED preparation
            /\ queue' = Append(queue, [by |-> t, doc |-> task[t].doc, base |-> base])
       ELSE Goto(t, "done") /\ preparation' = Nobody /\ UNCHANGED queue
  /\ UNCHANGED <<service, memory, accepting, writer, files, history, bounds>>

\* The change or the erasure itself is refused: nothing is submitted.
Refuse(t) ==
  /\ t \in Commits \cup Erasures /\ preparation = t /\ At(t, "preparing")
  /\ Goto(t, "done") /\ preparation' = Nobody
  /\ UNCHANGED <<service, memory, write, files, history, bounds>>

Answered(t) == preparation = t /\ \E result \in {"failed", "written", "projected"} : At(t, result)
Leaves(t) == Goto(t, "done") /\ preparation' = Nobody

PublishEverything(t) ==
  /\ t \in Commits /\ Answered(t) /\ Leaves(t)
  /\ IF At(t, "failed") THEN UNCHANGED <<memory, history>>
     ELSE /\ work' = task[t].doc.work /\ notes' = task[t].doc.notes
          /\ claim' = IF At(t, "projected") THEN Claims(work') ELSE NoClaim
          /\ acked' = acked \cup {t} /\ UNCHANGED <<base, erased>>
  /\ UNCHANGED <<service, write, files, bounds>>

\* Only the work is published: notes have moved while the writer was busy.
PublishCommit(t) ==
  /\ t \in Commits /\ Answered(t) /\ Leaves(t)
  /\ IF At(t, "failed") THEN UNCHANGED <<memory, history>>
     ELSE /\ work' = task[t].doc.work
          /\ claim' = IF At(t, "projected") THEN Claims(work') ELSE NoClaim
          /\ acked' = acked \cup {t} /\ UNCHANGED <<notes, base, erased>>
  /\ UNCHANGED <<service, write, files, bounds>>

ObserveAnything(t) ==
  /\ t \in Snapshots /\ Answered(t) /\ Leaves(t)
  /\ claim' = Claims(work)
  /\ UNCHANGED <<service, work, notes, base, write, files, history, bounds>>

\* observe_work_projection
ObserveSnapshot(t) ==
  /\ t \in Snapshots /\ Answered(t) /\ Leaves(t)
  /\ claim' = CASE At(t, "failed") -> claim
                [] At(t, "projected") /\ task[t].doc.work = work -> Claims(work)
                [] OTHER -> NoClaim
  /\ UNCHANGED <<service, work, notes, base, write, files, history, bounds>>

\* The file itself is read back; exactly what was submitted becomes the base.  The
\* reading may fail, and then nothing is promised.
CompleteErasure(t) ==
  /\ t \in Erasures /\ Answered(t) /\ Leaves(t)
  /\ \E exact \in {disk = task[t].doc, FALSE} :
       /\ base' = IF exact THEN disk ELSE base
       /\ erased' = IF exact /\ ~At(t, "failed") THEN erased \cup task[t].gone ELSE erased
  /\ UNCHANGED <<service, work, notes, claim, write, files, acked, bounds>>

TaskStep(t) ==
  \/ Note(t) \/ Prepare(t) \/ Refuse(t) \/ Compose(t) \/ Submit(t)
  \/ PublishCommit(t) \/ ObserveSnapshot(t) \/ CompleteErasure(t)

-----------------------------------------------------------------------------
(* The writer: write_snapshot_observed and publish_bytes                     *)

Request == Head(queue)
Fault == faults < MaxFaults /\ faults' = faults + 1

\* The writer is done with the request and tells whoever still waits for it.
Reply(result) ==
  /\ queue' = Tail(queue) /\ writer' = "idle" /\ UNCHANGED accepting
  /\ IF Request.by = FinalWrite
       THEN /\ root' = IF root = "writing" THEN result ELSE root
            /\ UNCHANGED <<phase, outcome, task>>
       ELSE Goto(Request.by, result) /\ UNCHANGED service

Busy == queue # <<>> /\ UNCHANGED <<preparation, history, crashes>>

TakeUnchecked ==
  /\ Busy /\ writer = "idle" /\ writer' = "checked"
  /\ UNCHANGED <<service, task, accepting, queue, memory, files, faults>>

TakeWhileAccepting ==
  /\ Busy /\ writer = "idle" /\ (accepting \/ Request.by = FinalWrite)
  /\ IF disk = Request.base
       THEN writer' = "checked" /\ UNCHANGED <<service, task, accepting, queue>>
       ELSE Reply("failed")
  /\ UNCHANGED <<memory, files, faults>>

\* The document on disk is the one the snapshot descends from.
Take ==
  /\ Busy /\ writer = "idle"
  /\ IF disk = Request.base
       THEN writer' = "checked" /\ UNCHANGED <<service, task, accepting, queue>>
       ELSE Reply("failed")
  /\ UNCHANGED <<memory, files, faults>>

\* Only the final write has a deadline, and it passed while the request was queued.
Expire ==
  /\ Busy /\ writer = "idle" /\ Request.by = FinalWrite /\ Reply("expired")
  /\ UNCHANGED <<memory, files, faults>>

\* Anything before the rename fails and leaves the old document.
FailWrite ==
  /\ Busy /\ writer = "checked" /\ Fault /\ Reply("failed")
  /\ UNCHANGED <<memory, files>>

Rename ==
  /\ Busy /\ writer = "checked" /\ writer' = "renamed"
  /\ disk' = Request.doc
  /\ UNCHANGED <<service, task, accepting, queue, memory, durable, projection, faults>>

\* The rename happened, the directory could not be synced: reported as a failure.
FailSync ==
  /\ Busy /\ writer = "renamed" /\ Fault /\ Reply("failed")
  /\ UNCHANGED <<memory, files>>

ReplyBeforeSync ==
  /\ Busy /\ writer = "renamed" /\ writer' = "published" /\ base' = disk
  /\ UNCHANGED <<service, task, accepting, queue, work, notes, claim, files, faults>>

\* Synced; the callback moves the base of memory to the document on disk.
Sync ==
  /\ Busy /\ writer = "renamed" /\ writer' = "published"
  /\ durable' = disk /\ base' = disk
  /\ UNCHANGED <<service, task, accepting, queue, work, notes, claim, disk, projection, faults>>

\* The written document could not be read back: memory keeps its old base.
SyncUnread ==
  /\ Busy /\ writer = "renamed" /\ Fault /\ writer' = "published"
  /\ durable' = disk
  /\ UNCHANGED <<service, task, accepting, queue, memory, disk, projection>>

Project ==
  /\ Busy /\ writer = "published"
  /\ projection' = Request.doc.work /\ Reply("projected")
  /\ UNCHANGED <<memory, disk, durable, faults>>

\* The projection may or may not have been replaced; the document is committed.
FailProjection ==
  /\ Busy /\ writer = "published" /\ Fault /\ Reply("written")
  /\ projection' \in {projection, Request.doc.work}
  /\ UNCHANGED <<memory, disk, durable>>

WriterStep ==
  Take \/ Expire \/ FailWrite \/ Rename \/ FailSync \/ Sync \/ SyncUnread \/ Project \/ FailProjection

-----------------------------------------------------------------------------
(* Shutdown: startup.rs, after the first trigger                             *)

Outstanding == {t \in Tasks : task[t].at \notin {"idle", "done"}}

BeginDraining ==
  /\ phase = "running"
  /\ phase' = "draining" /\ root' = "reaping"
  /\ UNCHANGED <<outcome, memory, tasks, write, files, history, bounds>>

\* cancel_and_reap: handlers are cancelled, those that write are retained.
Abort(h) ==
  /\ h \in Handlers /\ root = "reaping" /\ At(h, "admitted") /\ Goto(h, "done")
  /\ UNCHANGED <<service, memory, preparation, write, files, history, bounds>>

ReapAll ==
  /\ root = "reaping" /\ Outstanding = {} /\ root' = "joined"
  /\ UNCHANGED <<phase, outcome, memory, tasks, write, files, history, bounds>>

\* The stage ends when nothing is outstanding, or when its time is up.
Reap ==
  /\ root = "reaping"
  /\ root' = IF Outstanding = {} THEN "joined" ELSE "timed_out"
  /\ UNCHANGED <<phase, outcome, memory, tasks, write, files, history, bounds>>

FreezeAnyway ==
  /\ root \in {"joined", "timed_out"} /\ accepting' = FALSE
  /\ IF queue = <<>>
       THEN phase' = "frozen" /\ root' = "final" /\ UNCHANGED outcome
       ELSE root' = "ended" /\ outcome' = "not_started" /\ UNCHANGED phase
  /\ UNCHANGED <<memory, tasks, queue, writer, files, history, bounds>>

\* close_admission and try_freeze
Freeze ==
  /\ root \in {"joined", "timed_out"} /\ accepting' = FALSE
  /\ IF root = "joined" /\ queue = <<>>
       THEN phase' = "frozen" /\ root' = "final" /\ UNCHANGED outcome
       ELSE root' = "ended" /\ outcome' = "not_started" /\ UNCHANGED phase
  /\ UNCHANGED <<memory, tasks, queue, writer, files, history, bounds>>

\* The final snapshot goes through the same queue, or its time is up.
FinalSnapshot ==
  /\ root = "final"
  /\ \/ /\ root' = "writing" /\ UNCHANGED outcome
        /\ queue' = Append(queue, [by |-> FinalWrite, doc |-> Document(work, notes),
                                   base |-> base])
     \/ root' = "ended" /\ outcome' = "not_started" /\ UNCHANGED queue
  /\ UNCHANGED <<phase, memory, tasks, accepting, writer, files, history, bounds>>

\* The report arrives, or the root stops waiting for it.
FinalReport ==
  /\ \/ root \in {"failed", "written", "projected"} /\ outcome' = root
     \/ root = "expired" /\ outcome' = "not_started"
     \/ root = "writing" /\ outcome' = "incomplete"
  /\ root' = "ended"
  /\ UNCHANGED <<phase, memory, tasks, write, files, history, bounds>>

RootStep == Reap \/ Freeze \/ FinalSnapshot \/ FinalReport

-----------------------------------------------------------------------------
\* The process dies, or exits, and is started again from what is on disk: an
\* unsynced rename may or may not have survived.
Crash ==
  /\ crashes < MaxCrashes /\ crashes' = crashes + 1
  /\ disk' \in {disk, durable} /\ durable' = disk'
  /\ work' = disk'.work /\ notes' = disk'.notes /\ base' = disk'
  /\ claim' = IF projection = disk'.work THEN Claims(projection) ELSE NoClaim
  /\ phase' = "running" /\ root' = "serving" /\ outcome' = "none"
  /\ preparation' = Nobody
  /\ task' = [t \in Tasks |-> IF At(t, "idle") THEN NotSubmitted
                                               ELSE [NotSubmitted EXCEPT !.at = "done"]]
  /\ accepting' = TRUE /\ queue' = <<>> /\ writer' = "idle"
  /\ UNCHANGED <<projection, history, faults>>

Next ==
  \/ \E t \in Tasks : Admit(t) \/ TaskStep(t) \/ Abort(t)
  \/ WriterStep \/ BeginDraining \/ RootStep \/ Crash

Writers == Tasks \ Handlers

\* The runtime polls the operations that write, the writer thread runs and the
\* stages of shutdown have deadlines; a handler may hang on the network, and
\* admission, the trigger of a shutdown, aborts and crashes are free.
Fairness ==
  /\ \A t \in Writers : WF_vars(TaskStep(t))
  /\ WF_vars(WriterStep) /\ WF_vars(RootStep)

Spec == Init /\ [][Next]_vars /\ Fairness

-----------------------------------------------------------------------------
(* Properties *)

Documents == [work : SUBSET Commits, notes : SUBSET Handlers]

\* Types of the state.
TypeOK ==
  /\ phase \in {"running", "draining", "frozen"}
  /\ root \in {"serving", "reaping", "joined", "timed_out", "final", "writing", "failed",
               "expired", "written", "projected", "ended"}
  /\ outcome \in {"none", "not_started", "incomplete", "failed", "written", "projected"}
  /\ work \subseteq Commits /\ notes \subseteq Handlers /\ base \in Documents
  /\ claim \in [known : BOOLEAN, work : SUBSET Commits]
  /\ preparation \in Tasks \cup {Nobody}
  /\ task \in [Tasks -> [at : {"idle", "admitted", "preparing", "composed", "waiting", "failed",
                               "written", "projected", "done"},
                         doc : Documents, gone : SUBSET Handlers]]
  /\ accepting \in BOOLEAN /\ writer \in {"idle", "checked", "renamed", "published"}
  /\ queue \in Seq([by : Tasks \cup {FinalWrite}, doc : Documents, base : Documents])
  /\ disk \in Documents /\ durable \in Documents /\ projection \subseteq Commits
  /\ acked \subseteq Commits /\ erased \subseteq Handlers
  /\ faults \in 0..MaxFaults /\ crashes \in 0..MaxCrashes

\* A change whose success was returned survives every crash, whatever is written
\* after it by snapshots that were prepared before it (work_commit.rs:8-10).
AckedSurvives == acked \subseteq durable.work

\* Memory shows a change only when no crash can undo it.
ShownIsDurable == work \subseteq durable.work

\* A successful erasure is final: what it removed is not in memory, and neither a
\* later write nor a crash brings it back.
ErasedStaysErased == erased \cap (notes \cup durable.notes \cup disk.notes) = {}

\* Publishing a commit does not roll back what handlers did to memory while the
\* writer was busy; only an erasure and a crash take notes away.
NotesAreKept ==
  [][notes \subseteq notes' \/ crashes' # crashes
     \/ \E t \in Erasures : At(t, "preparing") /\ ~At(t, "preparing")']_vars

\* Shutdown reports that the final document was written only when everything in
\* memory, by whoever, is in it for good.
CleanShutdownKeepsAll ==
  outcome \in {"written", "projected"} => durable = Document(work, notes)

\* What is said to be projected is what the projection shows, whenever nobody is
\* at work to change it.
ClaimIsTrue ==
  claim.known /\ preparation = Nobody /\ queue = <<>> => projection = claim.work

\* A write whose effect was uncertain is not overwritten by one prepared without
\* it: until a restart or an erasure settles it, the file loses no change.
UncertainWriteIsKept == [][crashes' = crashes => disk.work \subseteq disk'.work]_vars

\* Every operation that writes and was admitted gets an answer, also when the
\* service stops while its write is queued.
AdmittedEnds == \A t \in Writers : At(t, "admitted") ~> At(t, "done")

\* The shutdown sequence comes to its end, whatever is outstanding.
ShutdownEnds == (phase = "draining") ~> (root = "ended" \/ phase = "running")
=============================================================================
