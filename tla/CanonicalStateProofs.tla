------------------------ MODULE CanonicalStateProofs ------------------------
(***************************************************************************)
(* What TLAPS proves of CanonicalState for every set of operations and any *)
(* number of faults and crashes: acknowledged commits survive, erased      *)
(* notes stay erased, a clean shutdown has written all of memory, notes    *)
(* are not rolled back and an uncertain write is not overwritten.  Inv is  *)
(* inductive, and BaseIsMemory is with it; there is a lemma per action or  *)
(* group of actions.                                                       *)
(***************************************************************************)
EXTENDS CanonicalState, SequenceTheorems, TLAPS

\* An operation holds the preparation from Prepare until it leaves, and from
\* Compose on it has a snapshot.
Holding == {"preparing", "composed", "waiting", "failed", "written", "projected"}
WithSnapshot == {"composed", "waiting", "failed", "written", "projected"}
Written == {"written", "projected"}
\* Where the root is once the service is frozen and before it has ended.
Finishing == {"final", "writing", "failed", "expired", "written", "projected"}

DoneHandlers == {h \in Handlers : task[h].at = "done"}
Requests == [by : Tasks \cup {FinalWrite}, doc : Documents, base : Documents]

OneHolder == \A t \in Tasks : task[t].at \in Holding => preparation = t

\* At most one write is queued: the holder's, or the final one of a frozen service.
OneRequest ==
  queue # <<>> =>
    /\ Len(queue) = 1
    /\ Request.by \in Tasks =>
         task[Request.by].at = "waiting" /\ Request.doc = task[Request.by].doc
    /\ Request.by = FinalWrite => phase = "frozen" /\ Request.doc = Document(work, notes)

\* Nobody is at work once the service is frozen, and nothing is queued but the
\* final write.
FrozenIsQuiet ==
  /\ phase = "running" => root = "serving"
  /\ outcome # "none" => root = "ended"
  /\ root \in {"reaping", "joined"} => phase = "draining"
  /\ root = "joined" => Outstanding = {}
  /\ root \in Finishing \/ outcome \in Written => phase = "frozen"
  /\ phase = "frozen" => ~accepting /\ Outstanding = {}
  /\ root = "final" \/ root \in Written \/ outcome \in Written => queue = <<>>

\* What the writer has done to the files so far.
WriterIsIn ==
  /\ writer \in {"renamed", "published"} => queue # <<>> /\ disk = Request.doc
  /\ writer = "published" => durable = disk
  /\ \A t \in Tasks : task[t].at \in Written => disk = task[t].doc /\ durable = disk

\* Snapshots and files descend from the work in memory, which holds all that was
\* acknowledged.
NothingLost ==
  /\ acked \subseteq work /\ work \subseteq disk.work /\ work \subseteq durable.work
  /\ \A t \in Tasks : task[t].at \in WithSnapshot =>
       work \subseteq task[t].doc.work /\ (t \in Commits => t \in task[t].doc.work)

\* A note is made once, and no image of memory holds one that was erased.
NothingRevived ==
  /\ notes \cup disk.notes \cup durable.notes \cup erased \subseteq DoneHandlers
  /\ erased \cap (notes \cup disk.notes \cup durable.notes) = {}
  /\ \A t \in Tasks : task[t].at \in WithSnapshot =>
       /\ task[t].doc.notes \cup task[t].gone \subseteq DoneHandlers
       /\ erased \cap task[t].doc.notes = {}
       /\ t \in Erasures => task[t].doc.notes = {} /\ task[t].gone \cap notes = {}

CleanEnd == root \in Written \/ outcome \in Written => durable = Document(work, notes)

Inv ==
  /\ TypeOK /\ OneHolder /\ OneRequest /\ FrozenIsQuiet /\ WriterIsIn
  /\ NothingLost /\ NothingRevived /\ CleanEnd

-----------------------------------------------------------------------------
\* A queue of one request is empty when that is answered.
LEMMA AnsweredQueue ==
  ASSUME NEW R, NEW q \in Seq(R), q # <<>>, Len(q) = 1
  PROVE  Head(q) \in R /\ Tail(q) = <<>> /\ Tail(q) \in Seq(R)
<1>1. Head(q) \in R
  OBVIOUS
<1>2. Tail(q) \in Seq(R) /\ Len(Tail(q)) = 0
  OBVIOUS
<1>3. Tail(q) = <<>>
  BY <1>2, EmptySeq
<1> QED
  BY <1>1, <1>2, <1>3

\* An empty queue holds one request when that is appended.
LEMMA AppendedQueue ==
  ASSUME NEW R, NEW q \in Seq(R), q = <<>>, NEW r \in R
  PROVE  /\ Append(q, r) # <<>> /\ Len(Append(q, r)) = 1
         /\ Head(Append(q, r)) = r /\ Append(q, r) \in Seq(R)
<1>1. Append(q, r) \in Seq(R) /\ Len(Append(q, r)) = 1 /\ Append(q, r)[1] = r
  OBVIOUS
<1>2. Append(q, r) # <<>> /\ Head(Append(q, r)) = r
  BY <1>1
<1> QED
  BY <1>1, <1>2

USE DEF service, memory, tasks, write, files, history, bounds, At, Goto, Request

\* The request the writer works on is the only one.
LEMMA AnsweredRequest ==
  ASSUME Inv, queue # <<>>
  PROVE  Request \in Requests /\ Tail(queue) = <<>> /\ Tail(queue) \in Seq(Requests)
<1>1. queue \in Seq(Requests) /\ Len(queue) = 1
  BY DEF Inv, TypeOK, Requests, OneRequest
<1> QED
  BY <1>1, AnsweredQueue

\* As long as an operation is at work the service is not frozen: what is queued is
\* an operation's write, and nothing has been reported.
LEMMA AtWork ==
  ASSUME Inv, NEW t \in Tasks, task[t].at \notin {"idle", "done"}
  PROVE  /\ phase # "frozen" /\ root # "joined" /\ root \notin Finishing
         /\ root \notin Written /\ outcome \notin Written
         /\ queue # <<>> => Request.by \in Tasks /\ Request.by # FinalWrite
<1>1. t \in Outstanding
  BY DEF Outstanding
<1>2. phase # "frozen" /\ root # "joined"
  BY <1>1 DEF Inv, FrozenIsQuiet
<1>3. queue # <<>> => Request.by \in Tasks \cup {FinalWrite}
  BY AnsweredRequest DEF Requests
<1> QED
  BY <1>2, <1>3 DEF Inv, FrozenIsQuiet, OneRequest, Written, Finishing

\* While the holder is not waiting for the writer, nothing is queued.
LEMMA HolderFindsNoRequest ==
  ASSUME Inv, NEW t \in Tasks, task[t].at \in Holding \ {"waiting"}
  PROVE  /\ queue = <<>> /\ preparation = t
         /\ \A u \in Tasks \ {t} : task[u].at \notin Holding
<1>1. preparation = t /\ \A u \in Tasks \ {t} : task[u].at \notin Holding
  BY DEF Inv, OneHolder
<1>2. queue # <<>> => Request.by \in Tasks
  BY AtWork DEF Holding
<1>3. queue # <<>> => task[Request.by].at = "waiting"
  BY <1>2 DEF Inv, OneRequest
<1> QED
  BY <1>1, <1>2, <1>3 DEF Holding
-----------------------------------------------------------------------------
(* Operations                                                                *)

\* Admission, refusals, aborted handlers: nothing is written and no snapshot made.
LEMMA MovingOnKeeps ==
  ASSUME Inv, NEW t \in Tasks, Admit(t) \/ Prepare(t) \/ Refuse(t) \/ Abort(t)
  PROVE  Inv'
BY AtWork, CanonicalAssumption
   DEF Admit, Prepare, Refuse, Abort, Inv, TypeOK, OneHolder, Holding, OneRequest,
       FrozenIsQuiet, Outstanding, Written, WriterIsIn, NothingLost, WithSnapshot,
       NothingRevived, DoneHandlers, CleanEnd, Tasks

\* A note is made by a handler that is not done yet.
LEMMA NoteKeeps ==
  ASSUME Inv, NEW t \in Tasks, Note(t)
  PROVE  Inv'
BY AtWork, CanonicalAssumption
   DEF Note, Inv, TypeOK, Documents, OneHolder, Holding, OneRequest, FrozenIsQuiet,
       Outstanding, Written, WriterIsIn, NothingLost, WithSnapshot, NothingRevived,
       DoneHandlers, CleanEnd, Tasks

\* A snapshot holds all work in memory and no erased note.
LEMMA ComposeKeeps ==
  ASSUME Inv, NEW t \in Tasks, Compose(t)
  PROVE  Inv'
BY AtWork, CanonicalAssumption
   DEF Compose, Snapshot, Forgotten, Document, Inv, TypeOK, Documents, OneHolder, Holding,
       OneRequest, FrozenIsQuiet, Outstanding, Written, WriterIsIn, NothingLost,
       WithSnapshot, NothingRevived, DoneHandlers, CleanEnd, Tasks

\* The holder's request enters an empty queue.
LEMMA SubmitKeeps ==
  ASSUME Inv, NEW t \in Tasks, Submit(t)
  PROVE  Inv'
<1>1. /\ task[t].at = "composed" /\ preparation = t /\ queue = <<>>
      /\ \A u \in Tasks \ {t} : task[u].at \notin Holding
  BY HolderFindsNoRequest DEF Submit, Holding
<1>2. CASE ~accepting
  <2>1. /\ task' = [task EXCEPT ![t].at = "done"] /\ preparation' = Nobody
        /\ UNCHANGED <<service, memory, write, files, history, bounds>>
    BY <1>2 DEF Submit
  <2>2. TypeOK' /\ OneHolder' /\ OneRequest' /\ FrozenIsQuiet' /\ WriterIsIn' /\ CleanEnd'
    BY <1>1, <2>1 DEF Inv, TypeOK, OneHolder, Holding, OneRequest, FrozenIsQuiet, Outstanding,
       Written, WriterIsIn, CleanEnd
  <2>3. NothingLost' /\ NothingRevived'
    BY <1>1, <2>1 DEF Inv, TypeOK, NothingLost, WithSnapshot, NothingRevived, DoneHandlers
  <2> QED
    BY <2>2, <2>3 DEF Inv
<1>3. CASE accepting
  <2> DEFINE request == [by |-> t, doc |-> task[t].doc, base |-> base]
  <2>1. queue \in Seq(Requests) /\ request \in Requests
    BY DEF Inv, TypeOK, Requests, Documents
  <2>a. queue' = Append(queue, request)
    BY <1>3 DEF Submit
  <2>2. /\ queue' # <<>> /\ Len(queue') = 1 /\ Head(queue') = request
        /\ queue' \in Seq(Requests)
    <3> HIDE DEF request
    <3> QED
      BY <1>1, <2>1, <2>a, AppendedQueue
  <2>3. task' = [task EXCEPT ![t].at = "waiting"] /\ preparation' = preparation
    BY <1>3 DEF Submit
  <2>4. UNCHANGED <<service, memory, accepting, writer, files, history, bounds>>
    BY DEF Submit
  <2>5. request.by = t /\ request.doc = task[t].doc
    OBVIOUS
  <2> HIDE DEF request
  <2>6. TypeOK'
    BY <2>2, <2>3, <2>4 DEF Inv, TypeOK, Requests
  <2>7. OneHolder' /\ FrozenIsQuiet' /\ NothingLost' /\ NothingRevived' /\ CleanEnd'
    BY <1>1, <2>3, <2>4, AtWork
       DEF Inv, TypeOK, OneHolder, Holding, FrozenIsQuiet, Finishing, Outstanding, Written,
           NothingLost, WithSnapshot, NothingRevived, DoneHandlers, CleanEnd
  <2>8. OneRequest' /\ WriterIsIn'
    BY <1>1, <2>2, <2>3, <2>4, <2>5, CanonicalAssumption
       DEF Inv, TypeOK, OneRequest, WriterIsIn, Written
  <2> QED
    BY <2>6, <2>7, <2>8 DEF Inv
<1> QED
  BY <1>2, <1>3

\* A commit publishes the work of its own snapshot, which is on disk for good.
LEMMA PublishCommitKeeps ==
  ASSUME Inv, NEW t \in Tasks, PublishCommit(t)
  PROVE  Inv'
<1>1. /\ preparation = t /\ queue = <<>> /\ task[t].at \in {"failed", "written", "projected"}
      /\ \A u \in Tasks \ {t} : task[u].at \notin Holding
  BY HolderFindsNoRequest DEF PublishCommit, Answered, Holding
<1>2. task' = [task EXCEPT ![t].at = "done"] /\ preparation' = Nobody
  BY DEF PublishCommit, Leaves
<1>3. UNCHANGED <<service, notes, base, write, files, erased, bounds>>
  BY DEF PublishCommit
<1>4. \/ UNCHANGED <<work, claim, acked>>
      \/ /\ task[t].at \in Written /\ work' = task[t].doc.work
         /\ acked' = acked \cup {t} /\ t \in Commits
  BY <1>1 DEF PublishCommit, Written
<1>5. task[t].doc.work \subseteq Commits
  BY DEF Inv, TypeOK, Documents
<1>6. claim' \in [known : BOOLEAN, work : SUBSET Commits]
  <2>1. NoClaim \in [known : BOOLEAN, work : SUBSET Commits]
    BY DEF NoClaim
  <2>2. \A w \in SUBSET Commits : Claims(w) \in [known : BOOLEAN, work : SUBSET Commits]
    BY DEF Claims
  <2>3. claim' = claim \/ claim' = NoClaim \/ claim' = Claims(task[t].doc.work)
    BY DEF PublishCommit
  <2> QED
    BY <1>5, <2>1, <2>2, <2>3 DEF Inv, TypeOK
<1>7. TypeOK'
  BY <1>1, <1>2, <1>3, <1>4, <1>5, <1>6 DEF Inv, TypeOK
<1>8. OneHolder' /\ OneRequest' /\ FrozenIsQuiet' /\ CleanEnd' /\ WriterIsIn'
  BY <1>1, <1>2, <1>3, AtWork
     DEF Inv, TypeOK, OneHolder, Holding, OneRequest, FrozenIsQuiet, Finishing, Outstanding,
         Written, CleanEnd, WriterIsIn
<1>9. NothingLost' /\ NothingRevived'
  BY <1>1, <1>2, <1>3, <1>4
     DEF Inv, TypeOK, Holding, WriterIsIn, NothingLost, WithSnapshot, NothingRevived,
         DoneHandlers, Written
<1> QED
  BY <1>7, <1>8, <1>9 DEF Inv

\* Only the claim changes.
LEMMA ObserveSnapshotKeeps ==
  ASSUME Inv, NEW t \in Tasks, ObserveSnapshot(t)
  PROVE  Inv'
BY AtWork, CanonicalAssumption
   DEF ObserveSnapshot, Answered, Leaves, Claims, NoClaim, Inv, TypeOK, Documents,
       OneHolder, Holding, OneRequest, FrozenIsQuiet, Outstanding, Written, WriterIsIn,
       NothingLost, WithSnapshot, NothingRevived, DoneHandlers, CleanEnd, Tasks

\* What is declared erased is in no file: the files are the erasure's own snapshot.
LEMMA CompleteErasureKeeps ==
  ASSUME Inv, NEW t \in Tasks, CompleteErasure(t)
  PROVE  Inv'
BY AtWork, CanonicalAssumption
   DEF CompleteErasure, Answered, Leaves, Inv, TypeOK, Documents, OneHolder, Holding,
       OneRequest, FrozenIsQuiet, Outstanding, Written, WriterIsIn, NothingLost,
       WithSnapshot, NothingRevived, DoneHandlers, CleanEnd, Tasks

-----------------------------------------------------------------------------
(* The writer                                                                *)

\* What the writer works on is as good as memory: it holds all work and no erased
\* note, and no operation has been answered yet.
LEMMA RequestIsSound ==
  ASSUME Inv, queue # <<>>
  PROVE  /\ work \subseteq Request.doc.work
         /\ Request.doc.notes \subseteq DoneHandlers /\ erased \cap Request.doc.notes = {}
         /\ root \notin Written /\ outcome \notin Written
         /\ \A t \in Tasks : task[t].at \notin Written
         /\ Request.by # FinalWrite => Request.by \in Tasks /\ task[Request.by].at = "waiting"
<1>1. Request.by \in Tasks \cup {FinalWrite}
  BY AnsweredRequest DEF Requests
<1>2. root \notin Written /\ outcome \notin Written
  BY DEF Inv, FrozenIsQuiet
<1>3. \A t \in Tasks : task[t].at \notin Written
  BY HolderFindsNoRequest DEF Holding, Written
<1>4. CASE Request.by \in Tasks
  BY <1>2, <1>3, <1>4
     DEF Inv, OneRequest, NothingLost, NothingRevived, WithSnapshot
<1>5. CASE Request.by = FinalWrite
  BY <1>2, <1>3, <1>5 DEF Inv, OneRequest, Document, NothingRevived
<1> QED
  BY <1>1, <1>4, <1>5

\* Every answer keeps the invariant, when a write is reported only after it was
\* published, and a missed deadline only to the root.
LEMMA ReplyKeeps ==
  ASSUME Inv, queue # <<>>, NEW result \in {"failed", "expired", "written", "projected"},
         Reply(result), result \in Written => writer = "published",
         result = "expired" => Request.by = FinalWrite,
         UNCHANGED <<memory, preparation, history, crashes, disk, durable>>,
         projection' \subseteq Commits, faults' \in 0..MaxFaults
  PROVE  Inv'
<1>1. queue' = <<>> /\ queue' \in Seq(Requests) /\ writer' = "idle" /\ accepting' = accepting
  BY AnsweredRequest DEF Reply
<1>2. CASE Request.by = FinalWrite
  <2>1. /\ root' = (IF root = "writing" THEN result ELSE root)
        /\ UNCHANGED <<phase, outcome, task>>
    BY <1>2 DEF Reply
  <2>2. phase = "frozen" /\ Request.doc = Document(work, notes)
    BY <1>2 DEF Inv, OneRequest
  <2>3. TypeOK'
    BY <1>1, <2>1 DEF Inv, TypeOK, Requests
  <2>4. OneHolder' /\ OneRequest' /\ WriterIsIn' /\ NothingLost' /\ NothingRevived'
    BY <1>1, <2>1
       DEF Inv, OneHolder, OneRequest, WriterIsIn, NothingLost, NothingRevived, DoneHandlers
  <2>5. FrozenIsQuiet'
    BY <1>1, <2>1, <2>2 DEF Inv, FrozenIsQuiet, Outstanding, Written, Finishing
  <2>6. CleanEnd'
    BY <2>1, <2>2, RequestIsSound DEF Inv, WriterIsIn, CleanEnd
  <2> QED
    BY <2>3, <2>4, <2>5, <2>6 DEF Inv
<1>3. CASE Request.by # FinalWrite
  <2> DEFINE u == Request.by
  <2>1. u \in Tasks /\ task[u].at = "waiting" /\ Request.doc = task[u].doc
    BY <1>3, RequestIsSound DEF Inv, OneRequest
  <2>2. /\ task' = [task EXCEPT ![u].at = result] /\ UNCHANGED service
        /\ result \in {"failed", "written", "projected"}
    BY <1>3 DEF Reply
  <2> HIDE DEF u
  <2>3. TypeOK'
    BY <1>1, <2>1, <2>2 DEF Inv, TypeOK, Requests
  <2>4. OneHolder' /\ OneRequest' /\ FrozenIsQuiet' /\ CleanEnd'
    BY <1>1, <2>1, <2>2, RequestIsSound
       DEF Inv, TypeOK, OneHolder, Holding, OneRequest, FrozenIsQuiet, Outstanding, CleanEnd,
           Finishing, Written
  <2>5. WriterIsIn'
    BY <1>1, <2>1, <2>2 DEF Inv, TypeOK, WriterIsIn, Written
  <2>6. NothingLost' /\ NothingRevived'
    BY <1>1, <2>1, <2>2
       DEF Inv, TypeOK, NothingLost, NothingRevived, WithSnapshot, DoneHandlers
  <2> QED
    BY <2>3, <2>4, <2>5, <2>6 DEF Inv
<1> QED
  BY <1>2, <1>3

\* The writer counts its faults, up to their bound.
LEMMA WriterCounts ==
  ASSUME Inv, WriterStep
  PROVE  faults' \in 0..MaxFaults /\ crashes' = crashes
<1>1. faults' = faults \/ Fault
  BY DEF WriterStep, Take, Expire, FailWrite, Rename, FailSync, Sync, SyncUnread, Project,
         FailProjection
<1>2. crashes' = crashes
  BY DEF WriterStep, Take, Expire, FailWrite, Rename, FailSync, Sync, SyncUnread, Project,
         FailProjection, Busy
<1> QED
  BY <1>1, <1>2, CanonicalAssumption DEF Inv, TypeOK, Fault

\* The steps of the writer inside a request: to begin, to replace the file, to sync.
LEMMA WritingKeeps ==
  ASSUME Inv, \/ Take /\ disk = Request.base
              \/ Rename \/ Sync \/ SyncUnread
  PROVE  Inv'
<1>1. /\ queue # <<>> /\ UNCHANGED <<service, task, accepting, queue, preparation, history>>
      /\ UNCHANGED <<work, notes, claim, projection>>
      /\ Request \in Requests
  BY AnsweredRequest DEF Take, Rename, Sync, SyncUnread, Busy
<1>2. /\ \/ writer' = "checked" /\ UNCHANGED <<disk, durable, base>>
         \/ writer' = "renamed" /\ disk' = Request.doc /\ UNCHANGED <<durable, base>>
         \/ /\ writer = "renamed" /\ writer' = "published" /\ UNCHANGED disk
            /\ durable' = disk /\ base' \in {base, disk}
  BY DEF Take, Rename, Sync, SyncUnread, Busy
<1>3. TypeOK'
  <2>1. faults' \in 0..MaxFaults /\ crashes' = crashes
    BY WriterCounts DEF WriterStep
  <2> QED
    BY <1>1, <1>2, <2>1 DEF Inv, TypeOK, Requests
<1>4. WriterIsIn'
  BY <1>1, <1>2, RequestIsSound DEF Inv, WriterIsIn
<1>5. OneHolder' /\ OneRequest' /\ FrozenIsQuiet' /\ CleanEnd'
  BY <1>1, RequestIsSound DEF Inv, OneHolder, OneRequest, FrozenIsQuiet, Outstanding, CleanEnd
<1>6. NothingLost' /\ NothingRevived'
  BY <1>1, <1>2, RequestIsSound DEF Inv, NothingLost, NothingRevived, DoneHandlers, WriterIsIn
<1> QED
  BY <1>3, <1>4, <1>5, <1>6 DEF Inv

\* All steps of the writer.
LEMMA WriterKeeps ==
  ASSUME Inv, WriterStep
  PROVE  Inv'
<1>1. CASE Take
  <2>1. CASE disk = Request.base
    BY <1>1, <2>1, WritingKeeps
  <2>2. CASE disk # Request.base
    BY <1>1, <2>2, ReplyKeeps, WriterCounts DEF WriterStep, Take, Busy, Written, Inv, TypeOK
  <2> QED
    BY <2>1, <2>2
<1>2. CASE Expire
  BY <1>2, ReplyKeeps, WriterCounts DEF WriterStep, Expire, Busy, Written, Inv, TypeOK
<1>3. CASE FailWrite
  BY <1>3, ReplyKeeps, WriterCounts DEF WriterStep, FailWrite, Busy, Written, Inv, TypeOK
<1>4. CASE FailSync
  BY <1>4, ReplyKeeps, WriterCounts DEF WriterStep, FailSync, Busy, Written, Inv, TypeOK
<1>5. CASE Project
  <2>1. Request.doc.work \subseteq Commits
    BY <1>5, AnsweredRequest DEF Project, Busy, Requests, Documents
  <2> QED
    BY <1>5, <2>1, ReplyKeeps, WriterCounts DEF WriterStep, Project, Busy, Written
<1>6. CASE FailProjection
  <2>1. Request.doc.work \subseteq Commits
    BY <1>6, AnsweredRequest DEF FailProjection, Busy, Requests, Documents
  <2> QED
    BY <1>6, <2>1, ReplyKeeps, WriterCounts
       DEF WriterStep, FailProjection, Busy, Written, Inv, TypeOK
<1>7. CASE Rename \/ Sync \/ SyncUnread
  BY <1>7, WritingKeeps
<1> QED
  BY <1>1, <1>2, <1>3, <1>4, <1>5, <1>6, <1>7 DEF WriterStep

-----------------------------------------------------------------------------
(* Shutdown and crash                                                        *)

\* Draining, and the end of its stage: joined means that nobody is outstanding.
LEMMA DrainingKeeps ==
  ASSUME Inv, BeginDraining \/ Reap
  PROVE  Inv'
BY DEF BeginDraining, Reap, Inv, TypeOK, OneHolder, OneRequest, FrozenIsQuiet, Outstanding,
       Finishing, Written, WriterIsIn, NothingLost, NothingRevived, DoneHandlers, CleanEnd

\* The service freezes only once it is joined and nothing is queued.
LEMMA FreezeKeeps ==
  ASSUME Inv, Freeze
  PROVE  Inv'
<1>1. /\ UNCHANGED <<memory, tasks, queue, writer, files, history, bounds>>
      /\ root \in {"joined", "timed_out"} /\ ~accepting'
      /\ \/ /\ root = "joined" /\ queue = <<>> /\ phase' = "frozen" /\ root' = "final"
            /\ UNCHANGED outcome
         \/ root' = "ended" /\ outcome' = "not_started" /\ UNCHANGED phase
  BY DEF Freeze
<1>2. accepting' \in BOOLEAN
  BY Zenon DEF Freeze
<1>3. TypeOK'
  BY <1>1, <1>2 DEF Inv, TypeOK
<1>4. FrozenIsQuiet'
  BY <1>1 DEF Inv, FrozenIsQuiet, Outstanding, Finishing, Written
<1>5. OneHolder' /\ OneRequest' /\ WriterIsIn' /\ NothingLost' /\ NothingRevived'
  BY <1>1 DEF Inv, OneHolder, OneRequest, WriterIsIn, NothingLost, NothingRevived, DoneHandlers
<1>6. CleanEnd'
  BY <1>1 DEF Inv, CleanEnd, Written
<1> QED
  BY <1>3, <1>4, <1>5, <1>6 DEF Inv

\* The final snapshot is of memory as it is, and memory stays so.
LEMMA FinalSnapshotKeeps ==
  ASSUME Inv, FinalSnapshot
  PROVE  Inv'
<1> DEFINE request == [by |-> FinalWrite, doc |-> Document(work, notes), base |-> base]
<1>1. /\ UNCHANGED <<phase, memory, tasks, accepting, writer, files, history, bounds>>
      /\ root = "final" /\ queue = <<>> /\ phase = "frozen"
  BY DEF FinalSnapshot, Inv, FrozenIsQuiet, Finishing
<1>2. CASE queue' = Append(queue, request) /\ root' = "writing" /\ outcome' = outcome
  <2>1. queue \in Seq(Requests) /\ request \in Requests
    BY DEF Inv, TypeOK, Requests, Documents, Document
  <2>2. request.by = FinalWrite /\ request.doc = Document(work, notes)
    OBVIOUS
  <2> HIDE DEF request
  <2>3. /\ queue' # <<>> /\ Len(queue') = 1 /\ Head(queue') = request
        /\ queue' \in Seq(Requests)
    BY <1>1, <1>2, <2>1, AppendedQueue
  <2>4. TypeOK'
    BY <1>1, <1>2, <2>3 DEF Inv, TypeOK, Requests
  <2>5. OneRequest'
    BY <1>1, <2>2, <2>3, CanonicalAssumption DEF OneRequest, Document
  <2>6. FrozenIsQuiet' /\ CleanEnd'
    BY <1>1, <1>2 DEF Inv, FrozenIsQuiet, Outstanding, Finishing, Written, CleanEnd, Document
  <2>7. OneHolder' /\ WriterIsIn' /\ NothingLost' /\ NothingRevived'
    BY <1>1, <2>3 DEF Inv, OneHolder, WriterIsIn, NothingLost, NothingRevived, DoneHandlers
  <2> QED
    BY <2>4, <2>5, <2>6, <2>7 DEF Inv
<1>3. CASE root' = "ended" /\ outcome' = "not_started" /\ UNCHANGED queue
  BY <1>1, <1>3
     DEF Inv, TypeOK, OneHolder, OneRequest, FrozenIsQuiet, Outstanding, Finishing, Written,
         WriterIsIn, NothingLost, NothingRevived, DoneHandlers, CleanEnd
<1> QED
  BY <1>2, <1>3 DEF FinalSnapshot

\* The root reports what the writer told it, or that it stopped waiting.
LEMMA FinalReportKeeps ==
  ASSUME Inv, FinalReport
  PROVE  Inv'
BY DEF FinalReport, Inv, TypeOK, OneHolder, OneRequest, FrozenIsQuiet, Outstanding, Finishing,
       Written, WriterIsIn, NothingLost, NothingRevived, DoneHandlers, CleanEnd

\* Either document that a crash may leave holds what was acknowledged and nothing
\* that was erased; operations under way are over.
LEMMA CrashKeeps ==
  ASSUME Inv, Crash
  PROVE  Inv'
<1>1. /\ disk' \in {disk, durable} /\ durable' = disk'
      /\ work' = disk'.work /\ notes' = disk'.notes /\ base' = disk'
      /\ phase' = "running" /\ root' = "serving" /\ outcome' = "none"
      /\ preparation' = Nobody /\ accepting' = TRUE /\ queue' = <<>> /\ writer' = "idle"
      /\ UNCHANGED <<projection, acked, erased>>
  BY DEF Crash
<1>2. \A t \in Tasks : /\ task'[t].at \in {"idle", "done"}
                       /\ task[t].at = "done" => task'[t].at = "done"
  BY DEF Crash, NotSubmitted
<1>3. NotSubmitted \in [at : {"idle"}, doc : Documents, gone : SUBSET Handlers]
  BY DEF NotSubmitted, Empty, Document, Documents
<1>4. task' \in [Tasks -> [at : {"idle", "admitted", "preparing", "composed", "waiting",
                                 "failed", "written", "projected", "done"},
                           doc : Documents, gone : SUBSET Handlers]]
  BY <1>3 DEF Crash
<1>5. claim' \in [known : BOOLEAN, work : SUBSET Commits]
  <2>1. NoClaim \in [known : BOOLEAN, work : SUBSET Commits]
    BY DEF NoClaim
  <2>2. Claims(projection) \in [known : BOOLEAN, work : SUBSET Commits]
    BY DEF Claims, Inv, TypeOK
  <2>3. claim' = NoClaim \/ claim' = Claims(projection)
    BY DEF Crash
  <2> QED
    BY <2>1, <2>2, <2>3
<1>6. TypeOK'
  <2>1. crashes' \in 0..MaxCrashes /\ faults' = faults
    BY CanonicalAssumption DEF Crash, Inv, TypeOK
  <2> QED
    BY <1>1, <1>4, <1>5, <2>1 DEF Inv, TypeOK, Documents
<1>7. OneHolder' /\ OneRequest' /\ WriterIsIn' /\ CleanEnd' /\ FrozenIsQuiet'
  BY <1>1, <1>2 DEF OneHolder, Holding, OneRequest, WriterIsIn, Written, CleanEnd,
     FrozenIsQuiet, Finishing
<1>8. DoneHandlers \subseteq DoneHandlers'
  BY <1>2 DEF DoneHandlers, Tasks
<1>9. NothingLost' /\ NothingRevived'
  BY <1>1, <1>2, <1>8 DEF Inv, NothingLost, NothingRevived, WithSnapshot
<1> QED
  BY <1>6, <1>7, <1>9 DEF Inv

-----------------------------------------------------------------------------
(* The invariant, and what follows from it                                   *)

\* Every state of the service, whatever fails and whenever it crashes, is one that
\* Inv describes.
THEOREM CanonicalIsInvariant == Spec => []Inv
<1>1. Init => Inv
  BY CanonicalAssumption
     DEF Init, Inv, TypeOK, Documents, Empty, Document, NoClaim, NotSubmitted, OneHolder,
         Holding, OneRequest, FrozenIsQuiet, Finishing, Written, WriterIsIn, NothingLost,
         WithSnapshot, NothingRevived, CleanEnd
<1>2. Inv /\ [Next]_vars => Inv'
  <2> SUFFICES ASSUME Inv, [Next]_vars PROVE Inv'
    OBVIOUS
  <2>1. ASSUME NEW t \in Tasks, Admit(t) \/ TaskStep(t) \/ Abort(t) PROVE Inv'
    BY <2>1, MovingOnKeeps, NoteKeeps, ComposeKeeps, SubmitKeeps, PublishCommitKeeps,
       ObserveSnapshotKeeps, CompleteErasureKeeps DEF TaskStep
  <2>2. CASE WriterStep
    BY <2>2, WriterKeeps
  <2>3. CASE BeginDraining \/ RootStep
    BY <2>3, DrainingKeeps, FreezeKeeps, FinalSnapshotKeeps, FinalReportKeeps DEF RootStep
  <2>4. CASE Crash
    BY <2>4, CrashKeeps
  <2>5. CASE UNCHANGED vars
    BY <2>5 DEF vars, Inv, TypeOK, OneHolder, OneRequest, FrozenIsQuiet, Outstanding,
       WriterIsIn, NothingLost, NothingRevived, DoneHandlers, CleanEnd
  <2> QED
    BY <2>1, <2>2, <2>3, <2>4, <2>5 DEF Next
<1> QED
  BY <1>1, <1>2, PTL DEF Spec

\* Memory, snapshots, requests and files hold documents of this service's
\* operations and nothing else.
THEOREM CanonicalTypes == Spec => []TypeOK
<1>1. Inv => TypeOK
  BY DEF Inv
<1> QED
  BY <1>1, CanonicalIsInvariant, PTL

\* A commit whose success was returned is in the document that survives a crash,
\* whatever was prepared before it and is written after it.
THEOREM AcknowledgedSurvives == Spec => []AckedSurvives
<1>1. Inv => AckedSurvives
  BY DEF Inv, NothingLost, AckedSurvives
<1> QED
  BY <1>1, CanonicalIsInvariant, PTL

\* What an erasure reported as removed is in neither memory nor the file again,
\* after any snapshot, failed write or crash.
THEOREM NothingErasedReturns == Spec => []ErasedStaysErased
<1>1. Inv => ErasedStaysErased
  BY DEF Inv, NothingRevived, ErasedStaysErased
<1> QED
  BY <1>1, CanonicalIsInvariant, PTL

\* A shutdown that reports its final write as done leaves all of memory in the
\* durable document.
THEOREM CleanShutdownIsComplete == Spec => []CleanShutdownKeepsAll
<1>1. Inv => CleanShutdownKeepsAll
  BY DEF Inv, CleanEnd, Written, CleanShutdownKeepsAll
<1> QED
  BY <1>1, CanonicalIsInvariant, PTL

\* No member is shown a change that a crash could still undo: memory is published
\* after the document that holds the change is durable.
THEOREM ShownSurvives == Spec => []ShownIsDurable
<1>1. Inv => ShownIsDurable
  BY DEF Inv, NothingLost, ShownIsDurable
<1> QED
  BY <1>1, CanonicalIsInvariant, PTL

-----------------------------------------------------------------------------
(* What a write descends from                                                *)

\* The base of memory holds nothing that memory lacks, except between the write of
\* a snapshot and its publication; and every request descends from its base.
BaseIsMemory ==
  /\ (\A t \in Tasks : task[t].at \notin Holding) => base.work \subseteq work
  /\ \A t \in Tasks :
       /\ task[t].at \in {"preparing", "composed", "failed"} => base.work \subseteq work
       /\ task[t].at \in WithSnapshot =>
            /\ base.work \subseteq task[t].doc.work
            /\ t \notin Commits => task[t].doc.work = work
  /\ queue = <<>> => writer = "idle"
  /\ queue # <<>> /\ writer # "published" => base.work \subseteq work
  /\ queue # <<>> => Request.base.work \subseteq Request.doc.work
  /\ queue # <<>> /\ writer = "checked" => disk = Request.base

\* Operations up to the submission: the holder's snapshot is made of memory.
LEMMA PreparingKeepsBase ==
  ASSUME Inv, BaseIsMemory, NEW t \in Tasks,
         Admit(t) \/ Note(t) \/ Prepare(t) \/ Refuse(t) \/ Abort(t) \/ Compose(t)
  PROVE  BaseIsMemory'
<1>1. preparation = Nobody => \A u \in Tasks : task[u].at \notin Holding
  BY CanonicalAssumption DEF Inv, OneHolder
<1>2. UNCHANGED <<work, base, write, disk>>
  BY DEF Admit, Note, Prepare, Refuse, Abort, Compose
<1>3. CASE Admit(t) \/ Note(t) \/ Abort(t)
  BY <1>2, <1>3 DEF Admit, Note, Abort, Inv, TypeOK, BaseIsMemory, Holding, WithSnapshot
<1>6. CASE Refuse(t)
  BY <1>2, <1>6, HolderFindsNoRequest
     DEF Refuse, Inv, TypeOK, BaseIsMemory, Holding, WithSnapshot
<1>4. CASE Prepare(t)
  BY <1>1, <1>2, <1>4 DEF Prepare, Inv, TypeOK, BaseIsMemory, Holding, WithSnapshot
<1>5. CASE Compose(t)
  BY <1>2, <1>5
     DEF Compose, Snapshot, Document, Inv, TypeOK, BaseIsMemory, Holding, WithSnapshot
<1> QED
  BY <1>3, <1>4, <1>5, <1>6

\* The request carries the base that its snapshot was made over.
LEMMA SubmitKeepsBase ==
  ASSUME Inv, BaseIsMemory, NEW t \in Tasks, Submit(t)
  PROVE  BaseIsMemory'
<1>1. /\ task[t].at = "composed" /\ queue = <<>> /\ writer = "idle"
      /\ \A u \in Tasks \ {t} : task[u].at \notin Holding
      /\ UNCHANGED <<work, base, writer, disk>>
  BY HolderFindsNoRequest DEF Submit, Holding, BaseIsMemory
<1>2. CASE ~accepting
  BY <1>1, <1>2 DEF Submit, Inv, TypeOK, BaseIsMemory, Holding, WithSnapshot
<1>3. CASE accepting
  <2> DEFINE request == [by |-> t, doc |-> task[t].doc, base |-> base]
  <2>1. queue' = Append(queue, request) /\ task' = [task EXCEPT ![t].at = "waiting"]
    BY <1>3 DEF Submit
  <2>2. queue \in Seq(Requests) /\ request \in Requests
    BY DEF Inv, TypeOK, Requests, Documents
  <2>3. request.base = base /\ request.doc = task[t].doc
    OBVIOUS
  <2> HIDE DEF request
  <2>4. queue' # <<>> /\ Head(queue') = request
    BY <1>1, <2>1, <2>2, AppendedQueue
  <2> QED
    BY <1>1, <2>1, <2>3, <2>4 DEF Inv, TypeOK, BaseIsMemory, Holding, WithSnapshot
<1> QED
  BY <1>2, <1>3

\* Whoever publishes or observes makes memory hold all of its base again.
LEMMA LeavingKeepsBase ==
  ASSUME Inv, BaseIsMemory, NEW t \in Tasks,
         PublishCommit(t) \/ ObserveSnapshot(t) \/ CompleteErasure(t)
  PROVE  BaseIsMemory'
<1>1. /\ task[t].at \in {"failed", "written", "projected"} /\ queue = <<>>
      /\ \A u \in Tasks \ {t} : task[u].at \notin Holding
      /\ task' = [task EXCEPT ![t].at = "done"] /\ UNCHANGED <<write, disk>>
  BY HolderFindsNoRequest
     DEF PublishCommit, ObserveSnapshot, CompleteErasure, Answered, Leaves, Holding
<1>2. base'.work \subseteq work'
  <2>1. CASE PublishCommit(t) \/ ObserveSnapshot(t)
    BY <1>1, <2>1, CanonicalAssumption
       DEF PublishCommit, ObserveSnapshot, BaseIsMemory, WithSnapshot
  <2>2. CASE CompleteErasure(t)
    <3>1. base' \in {base, task[t].doc} /\ UNCHANGED work /\ t \notin Commits
      BY <2>2, CanonicalAssumption DEF CompleteErasure
    <3> QED
      BY <1>1, <3>1 DEF BaseIsMemory, WithSnapshot
  <2> QED
    BY <2>1, <2>2
<1>3. \A u \in Tasks : task'[u].at \notin Holding
  BY <1>1 DEF Inv, TypeOK, Holding
<1> QED
  BY <1>1, <1>2, <1>3 DEF BaseIsMemory, Holding, WithSnapshot

\* The writer moves the base to the document it wrote, and to no other.
LEMMA WriterKeepsBase ==
  ASSUME Inv, BaseIsMemory, WriterStep
  PROVE  BaseIsMemory'
<1>1. /\ queue # <<>> /\ work' = work /\ Tail(queue) = <<>>
      /\ \A t \in Tasks : task[t].at \notin Written
  BY AnsweredRequest, RequestIsSound
     DEF WriterStep, Take, Expire, FailWrite, Rename, FailSync, Sync, SyncUnread, Project,
         FailProjection, Busy
<1>2. ASSUME NEW result \in {"failed", "expired", "written", "projected"}, Reply(result),
             base' = base, result \notin Written => writer # "published",
             result = "expired" => Request.by = FinalWrite
      PROVE  BaseIsMemory'
  <2>1. queue' = <<>> /\ writer' = "idle"
    BY <1>1, <1>2 DEF Reply
  <2>2. CASE Request.by = FinalWrite
    <3>1. task' = task /\ phase = "frozen"
      BY <1>1, <1>2, <2>2 DEF Reply, Inv, OneRequest
    <3> QED
      BY <1>1, <1>2, <2>1, <3>1 DEF BaseIsMemory, Inv, FrozenIsQuiet, Outstanding, WithSnapshot,
         Holding, WriterIsIn, OneRequest
  <2>3. CASE Request.by # FinalWrite
    <3> DEFINE u == Request.by
    <3>1. /\ u \in Tasks /\ task[u].at = "waiting"
          /\ task' = [task EXCEPT ![u].at = result]
      BY <1>1, <1>2, <2>3, RequestIsSound DEF Reply
    <3>2. result = "failed" => base.work \subseteq work
      BY <1>1, <1>2 DEF BaseIsMemory, Written
    <3> HIDE DEF u
    <3> QED
      BY <1>1, <1>2, <2>1, <2>3, <3>1, <3>2 DEF Inv, TypeOK, BaseIsMemory, Holding, WithSnapshot
  <2> QED
    BY <2>2, <2>3
<1>3. ASSUME UNCHANGED <<task, queue, base>>,
             \/ writer' = "checked" /\ disk' = disk /\ disk = Request.base /\ writer = "idle"
             \/ writer' = "renamed" /\ writer = "checked"
      PROVE  BaseIsMemory'
  BY <1>1, <1>3 DEF BaseIsMemory
<1>7. ASSUME UNCHANGED <<task, queue>>, writer = "renamed", writer' = "published",
             base' \in {base, disk}
      PROVE  BaseIsMemory'
  <2>1. CASE base' = base
    BY <1>1, <1>7, <2>1 DEF BaseIsMemory
  <2>2. CASE base' = disk /\ Request.by = FinalWrite
    <3>1. disk.work = work /\ \A t \in Tasks : task[t].at \in {"idle", "done"}
      BY <1>1, <1>7, <2>2
         DEF Inv, OneRequest, WriterIsIn, FrozenIsQuiet, Outstanding, Document
    <3> QED
      BY <1>1, <1>7, <2>2, <3>1 DEF BaseIsMemory, WithSnapshot
  <2>3. CASE base' = disk /\ Request.by # FinalWrite
    <3> DEFINE u == Request.by
    <3>1. /\ u \in Tasks /\ task[u].at = "waiting" /\ disk = task[u].doc
          /\ \A t \in Tasks \ {u} : task[t].at \notin Holding
      BY <1>1, <1>7, <2>3, RequestIsSound DEF Inv, OneRequest, OneHolder, WriterIsIn, Holding
    <3> HIDE DEF u
    <3> QED
      BY <1>1, <1>7, <2>3, <3>1 DEF BaseIsMemory, WithSnapshot, Holding
  <2> QED
    BY <1>7, <2>1, <2>2, <2>3
<1>4. CASE Take \/ Expire \/ FailWrite \/ FailSync
  BY <1>2, <1>3, <1>4 DEF Take, Expire, FailWrite, FailSync, Written
<1>5. CASE Project \/ FailProjection
  BY <1>2, <1>5 DEF Project, FailProjection, Written
<1>6. CASE Rename \/ Sync \/ SyncUnread
  BY <1>3, <1>6, <1>7 DEF Rename, Sync, SyncUnread
<1> QED
  BY <1>4, <1>5, <1>6 DEF WriterStep

\* The final write descends from the base of a memory that nobody changes any more.
LEMMA ServiceKeepsBase ==
  ASSUME Inv, BaseIsMemory, BeginDraining \/ RootStep \/ Crash
  PROVE  BaseIsMemory'
<1>1. CASE FinalSnapshot /\ root' = "writing"
  <2> DEFINE request == [by |-> FinalWrite, doc |-> Document(work, notes), base |-> base]
  <2>1. /\ queue = <<>> /\ writer = "idle" /\ UNCHANGED <<work, base, task, writer, disk>>
        /\ \A t \in Tasks : task[t].at \notin Holding
        /\ queue' = Append(queue, request)
    BY <1>1 DEF FinalSnapshot, Inv, FrozenIsQuiet, Finishing, Outstanding, Holding, BaseIsMemory
  <2>2. queue \in Seq(Requests) /\ request \in Requests
    BY DEF Inv, TypeOK, Requests, Documents, Document
  <2>3. request.base = base /\ request.doc.work = work
    BY DEF Document
  <2> HIDE DEF request
  <2>4. queue' # <<>> /\ Head(queue') = request
    BY <2>1, <2>2, AppendedQueue
  <2> QED
    BY <2>1, <2>3, <2>4 DEF BaseIsMemory, Holding, WithSnapshot
<1>2. CASE Crash
  BY <1>2 DEF Crash, NotSubmitted, BaseIsMemory, WithSnapshot, Holding
<1>3. CASE UNCHANGED <<work, base, task, queue, writer, disk>>
  BY <1>3 DEF BaseIsMemory
<1> QED
  BY <1>1, <1>2, <1>3
     DEF BeginDraining, RootStep, Reap, Freeze, FinalSnapshot, FinalReport

\* With Inv, the base is inductive.
THEOREM BaseIsInvariant == Spec => []BaseIsMemory
<1>1. Init => BaseIsMemory
  BY DEF Init, BaseIsMemory, Holding, WithSnapshot, NotSubmitted, Empty, Document
<1>2. Inv /\ BaseIsMemory /\ [Next]_vars => BaseIsMemory'
  <2> SUFFICES ASSUME Inv, BaseIsMemory, [Next]_vars PROVE BaseIsMemory'
    OBVIOUS
  <2>1. ASSUME NEW t \in Tasks, Admit(t) \/ TaskStep(t) \/ Abort(t) PROVE BaseIsMemory'
    BY <2>1, PreparingKeepsBase, SubmitKeepsBase, LeavingKeepsBase DEF TaskStep
  <2>2. CASE WriterStep
    BY <2>2, WriterKeepsBase
  <2>3. CASE BeginDraining \/ RootStep \/ Crash
    BY <2>3, ServiceKeepsBase
  <2>4. CASE UNCHANGED vars
    BY <2>4 DEF vars, BaseIsMemory
  <2> QED
    BY <2>1, <2>2, <2>3, <2>4 DEF Next
<1> QED
  BY <1>1, <1>2, CanonicalIsInvariant, PTL DEF Spec

\* A write that failed after the rename leaves its change in the file; no later
\* write takes it out, for none descends from a document without it.
THEOREM UncertainWriteStays == Spec => UncertainWriteIsKept
<1>1. Inv /\ BaseIsMemory /\ [Next]_vars
        => (crashes' = crashes => disk.work \subseteq disk'.work) \/ UNCHANGED vars
  <2> SUFFICES ASSUME BaseIsMemory, [Next]_vars, crashes' = crashes, disk' # disk, Inv
               PROVE  disk.work \subseteq disk'.work
    OBVIOUS
  <2>1. CASE Rename
    BY <2>1 DEF Rename, Busy, BaseIsMemory
  <2>2. ~Crash
    BY DEF Crash, Inv, TypeOK
  <2> QED
    BY <2>1, <2>2
       DEF Next, TaskStep, WriterStep, RootStep, vars, Admit, Note, Prepare, Refuse, Abort,
           Compose, Submit, PublishCommit, ObserveSnapshot, CompleteErasure, Take, Expire,
           FailWrite, FailSync, Sync, SyncUnread, Project, FailProjection, BeginDraining, Reap,
           Freeze, FinalSnapshot, FinalReport
<1> QED
  BY <1>1, CanonicalIsInvariant, BaseIsInvariant, PTL DEF Spec, UncertainWriteIsKept

\* Publishing what was committed leaves alone what handlers put into memory while
\* the writer was busy: only an erasure, when it composes, and a restart take notes
\* out of memory.
THEOREM NotesStay == Spec => NotesAreKept
<1>1. Inv /\ [Next]_vars
        => \/ notes \subseteq notes' \/ crashes' # crashes
           \/ \E t \in Erasures : At(t, "preparing") /\ ~At(t, "preparing")'
  <2> SUFFICES ASSUME Inv, [Next]_vars, ~(notes \subseteq notes'), crashes' = crashes
               PROVE  \E t \in Erasures : At(t, "preparing") /\ ~At(t, "preparing")'
    OBVIOUS
  <2>1. ~Crash
    BY DEF Crash, Inv, TypeOK
  <2>2. \E t \in Tasks : Compose(t)
    BY <2>1
       DEF Next, TaskStep, WriterStep, RootStep, vars, Admit, Note, Prepare, Refuse, Abort,
           Submit, PublishCommit, ObserveSnapshot, CompleteErasure, Take, Expire, FailWrite,
           Rename, FailSync, Sync, SyncUnread, Project, FailProjection, BeginDraining, Reap,
           Freeze, FinalSnapshot, FinalReport
  <2>3. PICK t \in Tasks : Compose(t)
    BY <2>2
  <2>4. t \in Erasures /\ task[t].at = "preparing"
    BY <2>3 DEF Compose, Forgotten
  <2>5. task'[t].at = "composed"
    BY <2>3 DEF Compose, Inv, TypeOK
  <2> QED
    BY <2>4, <2>5
<1> QED
  BY <1>1, CanonicalIsInvariant, PTL DEF Spec, NotesAreKept

-----------------------------------------------------------------------------
(* What the projection shows                                                 *)

\* A known claim is about the work in memory.  The projection shows that work,
\* except between the write of a commit and its publication.
ClaimFollows ==
  /\ claim.known => /\ claim.work = work
                    /\ projection = work \/ \E t \in Commits : task[t].at \in Written
  /\ \A t \in Tasks : task[t].at = "projected" => projection = task[t].doc.work

\* Operations up to the submission touch neither.
LEMMA PreparingKeepsClaim ==
  ASSUME Inv, ClaimFollows, NEW t \in Tasks,
         Admit(t) \/ Note(t) \/ Prepare(t) \/ Refuse(t) \/ Abort(t) \/ Compose(t) \/ Submit(t)
  PROVE  ClaimFollows'
<1>1. UNCHANGED <<work, claim, projection>> /\ task[t].at \notin Written
  BY DEF Admit, Note, Prepare, Refuse, Abort, Compose, Submit, Written
<1>2. \A u \in Tasks \ {t} : task'[u] = task[u]
  BY DEF Admit, Note, Prepare, Refuse, Abort, Compose, Submit, Inv, TypeOK
<1>3. task'[t].at \notin Written
  BY DEF Admit, Note, Prepare, Refuse, Abort, Compose, Submit, Inv, TypeOK, Written
<1> QED
  BY <1>1, <1>2, <1>3 DEF ClaimFollows, Written, Tasks

\* A claim is made for the work that the projection was just seen to show.
LEMMA LeavingKeepsClaim ==
  ASSUME Inv, BaseIsMemory, ClaimFollows, NEW t \in Tasks,
         PublishCommit(t) \/ ObserveSnapshot(t) \/ CompleteErasure(t)
  PROVE  ClaimFollows'
<1>1. /\ task[t].at \in {"failed", "written", "projected"} /\ UNCHANGED projection
      /\ task' = [task EXCEPT ![t].at = "done"]
      /\ \A u \in Tasks \ {t} : task[u].at \notin Holding
  BY HolderFindsNoRequest
     DEF PublishCommit, ObserveSnapshot, CompleteErasure, Answered, Leaves, Holding
<1>2. \A u \in Tasks : task'[u].at \notin Written
  BY <1>1 DEF Inv, TypeOK, Holding, Written
<1>3. t \notin Commits => \A u \in Commits : task[u].at \notin Written
  BY <1>1 DEF Holding, Written, Tasks
<1>4. task[t].at = "projected" => projection = task[t].doc.work
  BY DEF ClaimFollows
<1>5. claim'.known => claim'.work = work' /\ projection' = work'
  <2>1. CASE PublishCommit(t)
    <3>1. CASE task[t].at = "failed"
      BY <1>1, <2>1, <3>1 DEF PublishCommit, ClaimFollows, Holding, Written, Tasks
    <3>2. CASE task[t].at # "failed"
      BY <1>1, <1>4, <2>1, <3>2 DEF PublishCommit, NoClaim, Claims
    <3> QED
      BY <3>1, <3>2
  <2>2. CASE ObserveSnapshot(t)
    <3>1. t \notin Commits /\ UNCHANGED work
      BY <2>2, CanonicalAssumption DEF ObserveSnapshot
    <3>2. CASE task[t].at = "failed"
      BY <1>1, <1>3, <2>2, <3>1, <3>2 DEF ObserveSnapshot, ClaimFollows
    <3>3. CASE task[t].at = "projected" /\ task[t].doc.work = work
      BY <1>1, <1>4, <2>2, <3>1, <3>3 DEF ObserveSnapshot, Claims
    <3>4. CASE task[t].at # "failed" /\ ~(task[t].at = "projected" /\ task[t].doc.work = work)
      BY <2>2, <3>4 DEF ObserveSnapshot, NoClaim
    <3> QED
      BY <3>2, <3>3, <3>4
  <2>3. CASE CompleteErasure(t)
    BY <1>1, <1>3, <2>3, CanonicalAssumption DEF CompleteErasure, ClaimFollows
  <2> QED
    BY <2>1, <2>2, <2>3
<1> QED
  BY <1>2, <1>5 DEF ClaimFollows, Written

\* The writer shows the work of its request, which is memory's or a commit's.
LEMMA WriterKeepsClaim ==
  ASSUME Inv, BaseIsMemory, ClaimFollows, WriterStep
  PROVE  ClaimFollows'
<1>1. queue # <<>> /\ UNCHANGED <<work, claim>> /\ \A t \in Tasks : task[t].at \notin Written
  BY RequestIsSound
     DEF WriterStep, Take, Expire, FailWrite, Rename, FailSync, Sync, SyncUnread, Project,
         FailProjection, Busy
<1>2. claim.known => claim.work = work /\ projection = work
  BY <1>1 DEF ClaimFollows, Tasks
<1>3. CASE Take \/ Expire \/ FailWrite \/ Rename \/ FailSync \/ Sync \/ SyncUnread
  <2>1. projection' = projection /\ (task' = task \/ Reply("failed") \/ Reply("expired"))
    BY <1>3 DEF Take, Expire, FailWrite, Rename, FailSync, Sync, SyncUnread
  <2>2. Request.by # FinalWrite => Request.by \in Tasks
    BY <1>1, RequestIsSound
  <2>3. task' = task \/ \E u \in Tasks, result \in {"failed", "expired"} :
                           task' = [task EXCEPT ![u].at = result]
    BY <2>1, <2>2 DEF Reply
  <2>4. \A t \in Tasks : task'[t].at \notin Written
    BY <1>1, <2>3 DEF Inv, TypeOK, Written
  <2> QED
    BY <1>1, <1>2, <2>1, <2>4 DEF ClaimFollows, Written
<1>4. CASE Project \/ FailProjection
  <2>1. PICK result \in Written : Reply(result) /\ (result = "projected" => projection' = Request.doc.work)
    BY <1>4 DEF Project, FailProjection, Written
  <2>2. projection' \in {projection, Request.doc.work}
    BY <1>4 DEF Project, FailProjection
  <2>3. CASE Request.by = FinalWrite
    <3>1. task' = task /\ Request.doc.work = work
      BY <1>1, <2>1, <2>3 DEF Reply, Inv, OneRequest, Document
    <3> QED
      BY <1>1, <1>2, <2>2, <3>1 DEF ClaimFollows, Written
  <2>4. CASE Request.by # FinalWrite
    <3> DEFINE u == Request.by
    <3>1. /\ u \in Tasks /\ task[u].at = "waiting" /\ Request.doc = task[u].doc
          /\ task' = [task EXCEPT ![u].at = result]
      BY <1>1, <2>1, <2>4, RequestIsSound DEF Reply, Inv, OneRequest
    <3>2. u \notin Commits => Request.doc.work = work
      BY <3>1 DEF BaseIsMemory, WithSnapshot
    <3> HIDE DEF u
    <3>3. task'[u].at = result /\ task'[u].doc = task[u].doc /\ \A t \in Tasks \ {u} : task'[t] = task[t]
      BY <3>1 DEF Inv, TypeOK
    <3>4. \A t \in Tasks : task'[t].at = "projected" => projection' = task'[t].doc.work
      BY <1>1, <2>1, <3>1, <3>3 DEF Written
    <3>5. u \in Commits \/ (claim.known => projection' = work)
      BY <1>2, <2>2, <3>2
    <3> QED
      BY <1>1, <1>2, <2>1, <3>3, <3>4, <3>5 DEF ClaimFollows
  <2> QED
    BY <2>3, <2>4
<1> QED
  BY <1>3, <1>4 DEF WriterStep

\* What memory says of the projection is so whenever nobody is at work: the recall
\* of work (work_recall_disk) may trust the claim.
THEOREM ClaimHolds == Spec => []ClaimIsTrue
<1>1. Init => ClaimFollows
  BY DEF Init, ClaimFollows, NoClaim, NotSubmitted
<1>2. Inv /\ BaseIsMemory /\ ClaimFollows /\ [Next]_vars => ClaimFollows'
  <2> SUFFICES ASSUME Inv, BaseIsMemory, ClaimFollows, [Next]_vars PROVE ClaimFollows'
    OBVIOUS
  <2>1. ASSUME NEW t \in Tasks, Admit(t) \/ TaskStep(t) \/ Abort(t) PROVE ClaimFollows'
    BY <2>1, PreparingKeepsClaim, LeavingKeepsClaim DEF TaskStep
  <2>2. CASE WriterStep
    BY <2>2, WriterKeepsClaim
  <2>3. CASE BeginDraining \/ RootStep \/ UNCHANGED vars
    BY <2>3 DEF BeginDraining, RootStep, Reap, Freeze, FinalSnapshot, FinalReport, vars, ClaimFollows
  <2>4. CASE Crash
    BY <2>4 DEF Crash, NotSubmitted, NoClaim, Claims, ClaimFollows
  <2> QED
    BY <2>1, <2>2, <2>3, <2>4 DEF Next
<1>3. Inv /\ ClaimFollows => ClaimIsTrue
  BY CanonicalAssumption
     DEF Inv, OneHolder, Holding, Written, ClaimFollows, ClaimIsTrue, Tasks
<1> QED
  BY <1>1, <1>2, <1>3, CanonicalIsInvariant, BaseIsInvariant, PTL DEF Spec
=============================================================================
