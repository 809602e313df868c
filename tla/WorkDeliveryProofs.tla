------------------------- MODULE WorkDeliveryProofs -------------------------
(***************************************************************************)
(* What TLAPS proves of WorkDelivery for any tasks, policies, invocations, *)
(* hours, edits, failures and restarts: nothing is told twice, what is     *)
(* written can be loaded, receipts are true, and a message goes out only   *)
(* as the policy of the moment allows.  Inv is inductive.                  *)
(***************************************************************************)
EXTENDS WorkDelivery, Integers, FiniteSetTheorems, SequenceTheorems, WellFoundedInduction, TLAPS

Ref == [task : Tasks, revision : Nat]
Fired == [task : Tasks, revision : Nat, at : Nat]
Policy == [enabled : BOOLEAN, revision : Nat, terms : Terms]
Batch ==
  [kind : {"briefing", "reminder", "changes"}, refs : SUBSET Ref, coverage : SUBSET Fired,
   key : Int, day : Nat, policy : Policy, project : Nat, revisions : SUBSET Ref]
Receipt == [at : Nat, state : {"attempting", "sent", "review_required"}, batch : Batch]
Task == [revision : Nat, open : BOOLEAN, snoozed_until : Nat, remind_at : Nat,
         reminder_revision : Nat]
Document ==
  [tasks : [Tasks -> Task], project : [revision : Nat, members : {1, 2}], policy : Policy,
   told : [Tasks -> BOOLEAN], covered : SUBSET Ref, deliveries : Seq(Receipt)]

Owns == {"reserving", "settling"}
Holds == {"authorized", "reserving", "rechecking", "sent", "settling"}
Run ==
  [at : {"idle", "authorizing"} \cup Holds, members : {None, 1, 2}, batch : Batch \cup {NoBatch},
   id : Nat, answer : BOOLEAN]
Message == [id : Nat, batch : Batch]

Types ==
  /\ store \in Document /\ durable \in Document
  /\ commit \in [by : Runners \cup {User}, doc : Document] \cup {NoCommit}
  /\ diverged \in BOOLEAN /\ running \in Runners \cup {Nobody} /\ run \in [Runners -> Run]
  /\ inbox \in Seq(Message) /\ now \in Nat
  /\ edits \in Nat /\ faults \in Nat /\ crashes \in Nat

\* A batch has items, and those of its reminders are among them.
Whole(b) == b.refs # {} /\ {c.task : c \in b.coverage} \subseteq {ref.task : ref \in b.refs}

\* What the receipts of a document say of it: a content that was told and still is
\* current is covered.
Recorded(d, r) ==
  /\ Whole(r.batch) /\ r.batch.day = DayOf(r.at)
  /\ \A ref \in r.batch.refs :
       /\ ref.revision <= d.tasks[ref.task].revision
       /\ ref.revision = d.tasks[ref.task].revision => ref \in d.covered

\* Two batches of which the second tells nothing the first has told.
Apart(first, second) ==
  /\ first.coverage \cap second.coverage = {}
  /\ (first.kind = "briefing" /\ second.kind = "briefing") =>
       (first.key # second.key /\ first.day # second.day)
  /\ second.kind = "changes" => first.refs \cap second.refs = {}

Sound(d) ==
  /\ \A i \in DOMAIN d.deliveries : Recorded(d, d.deliveries[i])
  /\ \A i, j \in DOMAIN d.deliveries :
       i < j => Apart(d.deliveries[i].batch, d.deliveries[j].batch)

\* Every attempt of d is one of e.
Extends(e, d) ==
  \A i \in DOMAIN d.deliveries :
    i \in DOMAIN e.deliveries /\ e.deliveries[i].batch = d.deliveries[i].batch

Told(id) == \E m \in Messages : m.id = id
ReceiptsHold(d) == \A i \in DOMAIN d.deliveries : d.deliveries[i].state = "sent" => Told(i)

\* What is in memory, on disk and on its way there.
DocumentsAreSound ==
  /\ Sound(store) /\ Sound(durable) /\ Extends(durable, store)
  /\ ReceiptsHold(store) /\ ReceiptsHold(durable)
  /\ commit # NoCommit =>
       Sound(commit.doc) /\ Extends(commit.doc, store) /\ ReceiptsHold(commit.doc)
  /\ diverged => faults > 0

\* What Discord accepted is on record, in the order of the attempts.
InboxIsRecorded ==
  /\ \A i \in DOMAIN inbox :
       /\ inbox[i].id \in DOMAIN store.deliveries
       /\ inbox[i].batch = store.deliveries[inbox[i].id].batch
  /\ \A i, j \in DOMAIN inbox : i < j => inbox[i].id < inbox[j].id

\* The last attempt of d is r's, within the limit of its day; it has not been sent.
Attempt(r, d) ==
  /\ Len(d.deliveries) > 0 /\ d.deliveries[Len(d.deliveries)].batch = run[r].batch
  /\ Attempts(d, run[r].batch.day) <= run[r].batch.policy.terms.daily_limit
  /\ \A m \in Messages : m.id < Len(d.deliveries)

\* One invocation works at a time; what it knows of its attempt.
RunIsSound(r) ==
  /\ run[r].at # "idle" => running = r
  /\ run[r].at \in Holds => run[r].batch \in Batch
  /\ run[r].at \notin {"rechecking", "sent", "settling"} => run[r].id = None
  /\ run[r].at \in Owns => commit # NoCommit /\ commit.by = r
  /\ run[r].at = "reserving" =>
       /\ Attempt(r, commit.doc) /\ Len(commit.doc.deliveries) = Len(store.deliveries) + 1
       /\ \A i \in DOMAIN store.deliveries : commit.doc.deliveries[i] = store.deliveries[i]
  /\ run[r].at = "rechecking" => Attempt(r, store) /\ run[r].id = Len(store.deliveries)
  /\ run[r].at \in {"sent", "settling"} => run[r].id \in DOMAIN store.deliveries
  /\ run[r].at = "sent" /\ run[r].answer => Told(run[r].id)
  /\ run[r].at = "settling" =>
       /\ Len(commit.doc.deliveries) = Len(store.deliveries)
       /\ \A i \in DOMAIN store.deliveries \ {run[r].id} :
            commit.doc.deliveries[i] = store.deliveries[i]
       /\ commit.doc.deliveries[run[r].id].state # "attempting"

CommitIsOwned ==
  commit # NoCommit =>
    IF commit.by = User THEN commit.doc.deliveries = store.deliveries
    ELSE run[commit.by].at \in Owns

\* An attempt is left open only while a runner holds it, or after a failure.
OpenIsHeld ==
  \A i \in DOMAIN store.deliveries :
    store.deliveries[i].state = "attempting" => faults > 0 \/ \E r \in Runners : run[r].id = i

Inv ==
  /\ Types /\ DocumentsAreSound /\ InboxIsRecorded /\ CommitIsOwned /\ OpenIsHeld
  /\ \A r \in Runners : RunIsSound(r)

-----------------------------------------------------------------------------
(* Numbers, days and documents                                             *)

USE DeliveryAssumption DEF None

\* A nonempty set of numbers has a least one.
LEMMA Least ==
  ASSUME NEW some \in SUBSET Nat, some # {}
  PROVE  \E k \in some : \A j \in some : ~(j < k)
<1>1. \E k \in some : \A j \in some : ~(<<j, k>> \in OpToRel(<, Nat))
  BY NatLessThanWellFounded, WFMin
<1> QED BY <1>1 DEF OpToRel

\* A batch of some tasks is of some of them.
LEMMA LowestIsSome ==
  ASSUME NEW some \in SUBSET Tasks, some # {}
  PROVE  Lowest(some) # {} /\ Lowest(some) \subseteq some
<1>1. PICK k \in some : \A j \in some : ~(j < k) BY Least
<1>2. {j \in some : j < k} = {} BY <1>1
<1>3. Cardinality({j \in some : j < k}) = 0 BY <1>2, FS_EmptySet
<1>4. k \in Lowest(some) BY <1>3 DEF Lowest
<1> QED BY <1>4 DEF Lowest

\* A day is a number.
LEMMA Days == ASSUME NEW t \in Nat PROVE DayOf(t) \in Nat
BY DEF DayOf

\* The types of the receipts a document holds.
LEMMA Deliveries ==
  ASSUME NEW d \in Document
  PROVE  /\ Len(d.deliveries) \in Nat /\ DOMAIN d.deliveries = 1 .. Len(d.deliveries)
         /\ \A i \in DOMAIN d.deliveries : d.deliveries[i] \in Receipt
<1>1. d.deliveries \in Seq(Receipt) BY DEF Document
<1> QED BY <1>1, LenProperties, ElementOfSeq

\* The attempts of a day can be counted.
LEMMA AttemptsAreFinite ==
  ASSUME NEW d \in Document, NEW day
  PROVE  /\ IsFiniteSet({i \in DOMAIN d.deliveries : DayOf(d.deliveries[i].at) = day})
         /\ Attempts(d, day) \in Nat
<1>1. IsFiniteSet(1 .. Len(d.deliveries)) BY Deliveries, FS_Interval
<1>2. {i \in DOMAIN d.deliveries : DayOf(d.deliveries[i].at) = day} \in SUBSET (1 .. Len(d.deliveries))
  BY Deliveries
<1>3. IsFiniteSet({i \in DOMAIN d.deliveries : DayOf(d.deliveries[i].at) = day})
  BY <1>1, <1>2, FS_Subset
<1> QED BY <1>3, FS_CardinalityType DEF Attempts

-----------------------------------------------------------------------------
(* Planning                                                                *)

\* What a plan promises: it has items and only their reminders, of current revisions, and tells
\* nothing that a receipt of the document has told.
Fresh(d, t, b) ==
  /\ b \in Batch /\ Whole(b) /\ b.day = DayOf(t) /\ b.policy = d.policy
  /\ \A ref \in b.refs : ref.revision = d.tasks[ref.task].revision
  /\ \A r \in Receipts(d) : Apart(r.batch, b)
  /\ Attempts(d, DayOf(t)) < b.policy.terms.daily_limit

\* The references of some tasks, at their current revisions.
LEMMA RefsOfSome ==
  ASSUME NEW d, NEW some
  PROVE  /\ some # {} => Refs(d, some) # {}
         /\ \A k \in some : \E ref \in Refs(d, some) : ref.task = k
         /\ \A ref \in Refs(d, some) :
              /\ ref.task \in some /\ ref.revision = d.tasks[ref.task].revision
              /\ Refs(d, {ref.task}) = {ref}
<1>1. \A k \in some : [task |-> k, revision |-> d.tasks[k].revision] \in Refs(d, some) BY DEF Refs
<1>2. \A k : Refs(d, {k}) = {[task |-> k, revision |-> d.tasks[k].revision]} BY DEF Refs
<1>3. ASSUME NEW ref \in Refs(d, some)
      PROVE  /\ ref.task \in some /\ ref.revision = d.tasks[ref.task].revision
             /\ Refs(d, {ref.task}) = {ref}
  <2>1. PICK k \in some : ref = [task |-> k, revision |-> d.tasks[k].revision] BY DEF Refs
  <2> QED BY <1>2, <2>1
<1>4. some # {} => Refs(d, some) # {} BY <1>1
<1> QED BY <1>1, <1>3, <1>4

\* A plan of some tasks that are awake.
LEMMA PlannedIsBatch ==
  ASSUME NEW d \in Document, NEW t \in Nat, NEW kind \in {"briefing", "reminder", "changes"},
         NEW some \in SUBSET Tasks, some # {}
  PROVE  LET b == Planned(d, t, kind, some)
         IN  /\ b \in Batch /\ Whole(b) /\ b.day = DayOf(t) /\ b.policy = d.policy
             /\ b.kind = kind /\ b.refs = Refs(d, Lowest(some)) /\ b.coverage \subseteq Coverage(d, t)
             /\ \A ref \in b.refs : ref.revision = d.tasks[ref.task].revision
             /\ kind = "briefing" => b.key = Occurrence(d.policy.terms, t)
<1> DEFINE b == Planned(d, t, kind, some)
           items == Lowest(some)
<1>1. items # {} /\ items \subseteq some BY LowestIsSome
<1>2. \A x \in SUBSET Tasks : Refs(d, x) \in SUBSET Ref BY SMTT(30) DEF Refs, Ref, Document, Task
<1>3. Coverage(d, t) \in SUBSET Fired
  BY SMTT(30) DEF Coverage, Due, Open, Awake, Reminder, Fired, Document, Task
<1>4. Occurrence(d.policy.terms, t) \in Int BY Days DEF Occurrence
<1>5. d.policy \in Policy /\ d.project.revision \in Nat BY DEF Document
<1>6. /\ b.kind = kind /\ b.refs = Refs(d, items) /\ b.day = DayOf(t) /\ b.policy = d.policy
      /\ b.coverage = {c \in Coverage(d, t) : c.task \in items}
      /\ b.key = IF kind = "briefing" THEN Occurrence(d.policy.terms, t) ELSE None
  BY DEF Planned
<1> HIDE DEF b, items
<1>7. b \in Batch
  <2>1. items \in SUBSET Tasks /\ items \cap Open(d, t) \in SUBSET Tasks BY <1>1
  <2>2. Refs(d, items) \in SUBSET Ref /\ Refs(d, items \cap Open(d, t)) \in SUBSET Ref
    BY <1>2, <2>1
  <2>3. {c \in Coverage(d, t) : c.task \in items} \in SUBSET Fired BY <1>3
  <2>4. (IF kind = "briefing" THEN Occurrence(d.policy.terms, t) ELSE None) \in Int BY <1>4
  <2> QED BY <1>5, <2>2, <2>3, <2>4, Days DEF b, items, Planned, Batch
<1>8. Whole(b)
  <2>1. b.refs # {} BY <1>1, <1>6, RefsOfSome
  <2>2. \A c \in b.coverage : \E ref \in b.refs : ref.task = c.task BY <1>6, RefsOfSome
  <2> QED BY <2>1, <2>2 DEF Whole
<1>9. \A ref \in b.refs : ref.revision = d.tasks[ref.task].revision
  <2>1. ASSUME NEW ref \in Refs(d, items) PROVE ref.revision = d.tasks[ref.task].revision
    <3> PICK k \in items : ref = [task |-> k, revision |-> d.tasks[k].revision] BY DEF Refs
    <3> QED OBVIOUS
  <2> QED BY <1>6, <2>1
<1> QED BY <1>6, <1>7, <1>8, <1>9 DEF b, items

\* next_batch tells nothing twice and keeps the limit of the day.
LEMMA PlanIsFresh ==
  ASSUME NEW d \in Document, NEW t \in Nat, Sound(d), NextBatch(d, t) # NoBatch
  PROVE  Fresh(d, t, NextBatch(d, t))
<1> DEFINE b == NextBatch(d, t)
           reminded == {c.task : c \in Coverage(d, t)}
<1>1. ~(Attempts(d, DayOf(t)) >= d.policy.terms.daily_limit) BY DEF NextBatch
<1>2. Attempts(d, DayOf(t)) < d.policy.terms.daily_limit
  <2>1. d.policy.terms.daily_limit \in Nat BY DEF Document, Policy
  <2>2. Attempts(d, DayOf(t)) \in Nat BY AttemptsAreFinite
  <2> QED BY <1>1, <2>1, <2>2
<1>3. \A r \in Receipts(d) : r.batch.coverage \cap Coverage(d, t) = {} BY DEF Coverage
<1>r. \A r \in Receipts(d) : Recorded(d, r) BY DEF Receipts, Sound
<1> HIDE DEF b, reminded
<1>4. CASE b = Planned(d, t, "briefing", Open(d, t)) /\ BriefingDue(d, t)
  <2>1. Open(d, t) \in SUBSET Tasks /\ Open(d, t) # {} BY <1>4 DEF Open, Awake, BriefingDue
  <2>2. /\ b \in Batch /\ Whole(b) /\ b.day = DayOf(t) /\ b.policy = d.policy /\ b.kind = "briefing"
        /\ b.coverage \subseteq Coverage(d, t) /\ b.key = Occurrence(d.policy.terms, t)
        /\ \A ref \in b.refs : ref.revision = d.tasks[ref.task].revision
    BY <1>4, <2>1, PlannedIsBatch
  <2>3. \A r \in Receipts(d) : r.batch.key # b.key /\ (r.batch.kind = "briefing" => r.batch.day # b.day)
    BY <1>4, <1>r, <2>2 DEF BriefingDue, Recorded
  <2>4. \A r \in Receipts(d) : Apart(r.batch, b) BY <1>3, <2>2, <2>3 DEF Apart
  <2> QED BY <1>2, <2>2, <2>4 DEF Fresh, b
<1>5. CASE b = Planned(d, t, "reminder", reminded) /\ reminded # {}
  <2>1. reminded \in SUBSET Tasks BY DEF reminded, Coverage, Due, Open, Awake, Reminder
  <2>2. /\ b \in Batch /\ Whole(b) /\ b.day = DayOf(t) /\ b.policy = d.policy /\ b.kind = "reminder"
        /\ b.coverage \subseteq Coverage(d, t)
        /\ \A ref \in b.refs : ref.revision = d.tasks[ref.task].revision
    BY <1>5, <2>1, PlannedIsBatch
  <2>3. \A r \in Receipts(d) : Apart(r.batch, b) BY <1>3, <2>2 DEF Apart
  <2> QED BY <1>2, <2>2, <2>3 DEF Fresh, b
<1>6. CASE b = Planned(d, t, "changes", Changes(d, t)) /\ Changes(d, t) # {}
  <2>1. Changes(d, t) \in SUBSET Tasks BY DEF Changes, Awake
  <2>2. /\ b \in Batch /\ Whole(b) /\ b.day = DayOf(t) /\ b.policy = d.policy /\ b.kind = "changes"
        /\ b.coverage \subseteq Coverage(d, t) /\ b.refs = Refs(d, Lowest(Changes(d, t)))
        /\ \A ref \in b.refs : ref.revision = d.tasks[ref.task].revision
    BY <1>6, <2>1, PlannedIsBatch
  <2>3. b.refs \cap d.covered = {}
    <3>1. Lowest(Changes(d, t)) \subseteq Changes(d, t) BY <1>6, <2>1, LowestIsSome
    <3>2. \A k \in Changes(d, t) : Refs(d, {k}) \cap d.covered = {} BY DEF Changes
    <3>3. \A ref \in Refs(d, Lowest(Changes(d, t))) :
            ref.task \in Lowest(Changes(d, t)) /\ Refs(d, {ref.task}) = {ref}
      BY RefsOfSome
    <3> QED BY <2>2, <3>1, <3>2, <3>3
  <2>4. \A r \in Receipts(d) : r.batch.refs \cap b.refs = {} BY <1>r, <2>2, <2>3 DEF Recorded
  <2>5. \A r \in Receipts(d) : Apart(r.batch, b) BY <1>3, <2>2, <2>4 DEF Apart
  <2> QED BY <1>2, <2>2, <2>5 DEF Fresh, b
<1> QED BY <1>4, <1>5, <1>6 DEF b, reminded, NextBatch

-----------------------------------------------------------------------------
(* What commits do to a document                                           *)

\* Neither a receipt's state nor a newer revision makes a document tell anything twice.
LEMMA SameAttempts ==
  ASSUME NEW d \in Document, NEW e \in Document, Sound(d), e.covered = d.covered,
         DOMAIN e.deliveries = DOMAIN d.deliveries,
         \A i \in DOMAIN d.deliveries : /\ e.deliveries[i].batch = d.deliveries[i].batch
                                        /\ e.deliveries[i].at = d.deliveries[i].at,
         \A k \in Tasks : e.tasks[k].revision >= d.tasks[k].revision
  PROVE  Sound(e)
<1>1. ASSUME NEW i \in DOMAIN d.deliveries PROVE Recorded(e, e.deliveries[i])
  <2>1. Recorded(d, d.deliveries[i]) /\ d.deliveries[i].batch.refs \in SUBSET Ref
    BY Deliveries DEF Sound, Receipt, Batch
  <2>2. \A k \in Tasks : e.tasks[k].revision \in Nat /\ d.tasks[k].revision \in Nat
    BY DEF Document, Task
  <2> DEFINE b == d.deliveries[i].batch
  <2>3. e.deliveries[i].batch = b /\ e.deliveries[i].at = d.deliveries[i].at OBVIOUS
  <2>4. \A ref \in b.refs :
          /\ ref.revision <= e.tasks[ref.task].revision
          /\ ref.revision = e.tasks[ref.task].revision => ref \in e.covered
    <3> TAKE ref \in b.refs
    <3>1. ref.task \in Tasks /\ ref.revision \in Nat BY <2>1 DEF Ref
    <3>2. /\ ref.revision <= d.tasks[ref.task].revision
          /\ ref.revision = d.tasks[ref.task].revision => ref \in d.covered
      BY <2>1 DEF Recorded
    <3>3. /\ d.tasks[ref.task].revision <= e.tasks[ref.task].revision
          /\ d.tasks[ref.task].revision \in Nat /\ e.tasks[ref.task].revision \in Nat
      BY <2>2, <3>1
    <3>4. ref.revision <= e.tasks[ref.task].revision BY <3>1, <3>2, <3>3
    <3>5. ref.revision = e.tasks[ref.task].revision => ref.revision = d.tasks[ref.task].revision
      BY <3>1, <3>2, <3>3
    <3> QED BY <3>2, <3>4, <3>5
  <2> HIDE DEF b
  <2>5. Whole(b) /\ b.day = DayOf(d.deliveries[i].at) BY <2>1 DEF Recorded, b
  <2> QED BY <2>3, <2>4, <2>5 DEF Recorded
<1>2. \A i, j \in DOMAIN e.deliveries :
        i < j => Apart(e.deliveries[i].batch, e.deliveries[j].batch)
  BY DEF Sound
<1> QED BY <1>1, <1>2 DEF Sound

\* reserve_resolved_batch adds one attempt, which tells nothing again.
LEMMA ReservedIs ==
  ASSUME NEW d \in Document, NEW t \in Nat, NEW b, Sound(d), Fresh(d, t, b)
  PROVE  LET e == Reserved(d, t, b)
             last == Len(d.deliveries) + 1
         IN  /\ e \in Document /\ Len(e.deliveries) = last
             /\ e.deliveries[last] = [at |-> t, state |-> "attempting", batch |-> b]
             /\ \A i \in DOMAIN d.deliveries : e.deliveries[i] = d.deliveries[i]
             /\ Sound(e) /\ Attempts(e, b.day) <= b.policy.terms.daily_limit
<1> DEFINE e == Reserved(d, t, b)
           last == Len(d.deliveries) + 1
           receipt == [at |-> t, state |-> "attempting", batch |-> b]
           items == {ref.task : ref \in b.refs}
<1>1. b \in Batch /\ receipt \in Receipt BY DEF Fresh, Receipt
<1>2. d.deliveries \in Seq(Receipt) /\ DOMAIN d.deliveries = 1 .. Len(d.deliveries)
  BY Deliveries DEF Document
<1>3. e.deliveries = Append(d.deliveries, receipt) BY DEF Reserved, Document
<1>4. /\ e.deliveries \in Seq(Receipt) /\ Len(e.deliveries) = last /\ DOMAIN e.deliveries = 1 .. last
      /\ e.deliveries[last] = receipt
      /\ \A i \in DOMAIN d.deliveries : e.deliveries[i] = d.deliveries[i]
  BY <1>1, <1>2, <1>3
<1>5. /\ e.covered = {ref \in d.covered : ref.task \notin items} \cup b.refs
      /\ e.tasks = d.tasks /\ e.project = d.project /\ e.policy = d.policy
      /\ e.told = [k \in Tasks |-> IF k \in items THEN d.tasks[k].open ELSE d.told[k]]
      /\ e = [d EXCEPT !.deliveries = e.deliveries, !.told = e.told, !.covered = e.covered]
  BY DEF Reserved, Document
<1> HIDE DEF e, receipt
<1>6. e \in Document
  <2>1. e.covered \in SUBSET Ref BY <1>1, <1>5 DEF Document, Batch
  <2>2. e.told \in [Tasks -> BOOLEAN] BY <1>5 DEF Document, Task
  <2> QED BY <1>4, <1>5, <2>1, <2>2 DEF Document
<1>7. Recorded(e, e.deliveries[last])
  <2>1. \A k \in Tasks : d.tasks[k].revision \in Nat BY DEF Document, Task
  <2>2. b.refs \in SUBSET Ref BY <1>1 DEF Batch
  <2>3. e.deliveries[last].batch = b /\ e.deliveries[last].at = t BY <1>4 DEF receipt
  <2>4. \A ref \in b.refs : ref.revision = d.tasks[ref.task].revision BY DEF Fresh
  <2>5. \A ref \in b.refs : ref.revision <= e.tasks[ref.task].revision /\ ref \in e.covered
    BY <1>5, <2>1, <2>2, <2>4 DEF Ref
  <2> QED BY <2>3, <2>5 DEF Recorded, Fresh
<1>8. ASSUME NEW i \in DOMAIN d.deliveries PROVE Recorded(e, e.deliveries[i])
  <2>1. Recorded(d, d.deliveries[i]) BY DEF Sound
  <2>2. \A ref \in d.deliveries[i].batch.refs :
          ref.task \in items /\ ref.revision = d.tasks[ref.task].revision => ref \in b.refs
    <3>1. d.deliveries[i].batch.refs \in SUBSET Ref BY Deliveries DEF Receipt, Batch
    <3>2. \A ref \in b.refs : ref \in Ref /\ ref.revision = d.tasks[ref.task].revision
      BY <1>1 DEF Fresh, Batch
    <3> QED BY <3>1, <3>2 DEF Ref
  <2> QED BY <1>4, <1>5, <2>1, <2>2 DEF Recorded
<1>9. ASSUME NEW i \in DOMAIN d.deliveries PROVE Apart(d.deliveries[i].batch, b)
  BY DEF Fresh, Receipts
<1>10. Sound(e)
  <2>1. \A i \in DOMAIN e.deliveries : i = last \/ i \in DOMAIN d.deliveries BY <1>2, <1>4
  <2>2. \A i, j \in DOMAIN e.deliveries : i < j => i \in DOMAIN d.deliveries
    BY <1>2, <1>4, Deliveries
  <2>3. \A i \in DOMAIN e.deliveries : Recorded(e, e.deliveries[i]) BY <1>7, <1>8, <2>1
  <2>4. ASSUME NEW i \in DOMAIN e.deliveries, NEW j \in DOMAIN e.deliveries, i < j
        PROVE  Apart(e.deliveries[i].batch, e.deliveries[j].batch)
    <3>1. i \in DOMAIN d.deliveries /\ e.deliveries[i] = d.deliveries[i] BY <1>4, <2>2, <2>4
    <3>2. CASE j = last BY <1>4, <1>9, <3>1, <3>2 DEF receipt
    <3>3. CASE j \in DOMAIN d.deliveries BY <1>4, <2>4, <3>1, <3>3 DEF Sound
    <3> QED BY <2>1, <3>2, <3>3
  <2> QED BY <2>3, <2>4 DEF Sound
<1>11. Attempts(e, b.day) <= b.policy.terms.daily_limit
  <2> DEFINE before == {i \in DOMAIN d.deliveries : DayOf(d.deliveries[i].at) = b.day}
             after == {i \in DOMAIN e.deliveries : DayOf(e.deliveries[i].at) = b.day}
  <2>1. b.day = DayOf(t) /\ Attempts(d, b.day) < b.policy.terms.daily_limit BY DEF Fresh
  <2>2. after = before \cup {last} BY <1>2, <1>4, <2>1 DEF receipt
  <2>3. IsFiniteSet(before) /\ Cardinality(before) \in Nat
    BY AttemptsAreFinite, FS_CardinalityType
  <2>4. last \notin before BY <1>2, Deliveries
  <2>6. Cardinality(before) = Attempts(d, b.day) /\ Cardinality(after) = Attempts(e, b.day)
    BY DEF Attempts
  <2> HIDE DEF before, after
  <2>5. Cardinality(after) = Cardinality(before) + 1 BY <2>2, <2>3, <2>4, FS_AddElement
  <2>7. b.policy.terms.daily_limit \in Nat BY <1>1 DEF Batch, Policy
  <2> QED BY <2>1, <2>3, <2>5, <2>6, <2>7
<1> QED BY <1>4, <1>6, <1>10, <1>11 DEF e, receipt

\* settle_delivery changes the state of one receipt.
LEMMA SettledIs ==
  ASSUME NEW d \in Document, NEW id \in DOMAIN d.deliveries, NEW answer \in BOOLEAN, Sound(d)
  PROVE  LET e == Settled(d, id, answer)
         IN  /\ e \in Document /\ Sound(e) /\ Len(e.deliveries) = Len(d.deliveries)
             /\ DOMAIN e.deliveries = DOMAIN d.deliveries
             /\ e.deliveries[id].batch = d.deliveries[id].batch
             /\ e.deliveries[id].state = (IF answer THEN "sent" ELSE "review_required")
             /\ \A i \in DOMAIN d.deliveries \ {id} : e.deliveries[i] = d.deliveries[i]
<1> DEFINE e == Settled(d, id, answer)
           receipt == [d.deliveries[id] EXCEPT !.state = IF answer THEN "sent" ELSE "review_required"]
<1>1. d.deliveries \in Seq(Receipt) /\ id \in 1 .. Len(d.deliveries) /\ d.deliveries[id] \in Receipt
  BY Deliveries DEF Document
<1>2. /\ receipt \in Receipt /\ receipt.batch = d.deliveries[id].batch /\ receipt.at = d.deliveries[id].at
      /\ receipt.state = IF answer THEN "sent" ELSE "review_required"
  BY <1>1 DEF Receipt
<1>3. e = [d EXCEPT !.deliveries = [d.deliveries EXCEPT ![id] = receipt]]
  BY DEF Settled, Document
<1> HIDE DEF receipt
<1>4. /\ [d.deliveries EXCEPT ![id] = receipt] \in Seq(Receipt)
      /\ Len([d.deliveries EXCEPT ![id] = receipt]) = Len(d.deliveries)
      /\ \A j \in 1 .. Len(d.deliveries) :
           [d.deliveries EXCEPT ![id] = receipt][j] = IF j = id THEN receipt ELSE d.deliveries[j]
  BY <1>1, <1>2, ExceptSeq
<1>5. e.deliveries = [d.deliveries EXCEPT ![id] = receipt] /\ e.covered = d.covered /\ e.tasks = d.tasks
  BY <1>3 DEF Document
<1>6. e \in Document BY <1>3, <1>4 DEF Document
<1> HIDE DEF e
<1>7. DOMAIN e.deliveries = DOMAIN d.deliveries BY <1>5, <1>4, <1>6, Deliveries
<1>8. Sound(e)
  <2>1. \A i \in DOMAIN d.deliveries : /\ e.deliveries[i].batch = d.deliveries[i].batch
                                       /\ e.deliveries[i].at = d.deliveries[i].at
    BY <1>2, <1>4, <1>5, Deliveries
  <2>2. \A k \in Tasks : e.tasks[k].revision >= d.tasks[k].revision
    BY <1>5 DEF Document, Task
  <2> QED BY <1>5, <1>6, <1>7, <2>1, <2>2, SameAttempts
<1> QED BY <1>2, <1>4, <1>5, <1>6, <1>7, <1>8, Deliveries DEF e

\* A loaded document holds no open attempt.
LEMMA LoadedIs ==
  ASSUME NEW d \in Document, Sound(d)
  PROVE  LET e == Loaded(d)
         IN  /\ e \in Document /\ Sound(e) /\ DOMAIN e.deliveries = DOMAIN d.deliveries
             /\ \A i \in DOMAIN d.deliveries :
                  /\ e.deliveries[i].batch = d.deliveries[i].batch
                  /\ e.deliveries[i].state # "attempting"
                  /\ e.deliveries[i].state = "sent" => d.deliveries[i].state = "sent"
<1> DEFINE e == Loaded(d)
           Closed(r) == IF r.state = "attempting" THEN [r EXCEPT !.state = "review_required"] ELSE r
           closed == [i \in 1 .. Len(d.deliveries) |-> Closed(d.deliveries[i])]
<1>1. /\ d.deliveries \in Seq(Receipt) /\ DOMAIN d.deliveries = 1 .. Len(d.deliveries)
      /\ \A i \in DOMAIN d.deliveries : d.deliveries[i] \in Receipt
      /\ Len(d.deliveries) \in Nat
  BY Deliveries DEF Document
<1>2. \A r \in Receipt : /\ Closed(r) \in Receipt /\ Closed(r).batch = r.batch /\ Closed(r).at = r.at
                         /\ Closed(r).state # "attempting"
                         /\ Closed(r).state = "sent" => r.state = "sent"
  BY DEF Receipt
<1>3. e = [d EXCEPT !.deliveries = closed] BY <1>1 DEF Loaded, Document
<1> HIDE DEF Closed
<1>4. closed \in Seq(Receipt) /\ Len(closed) = Len(d.deliveries) BY <1>1, <1>2
<1>5. e \in Document /\ e.deliveries = closed /\ e.covered = d.covered /\ e.tasks = d.tasks
  BY <1>3, <1>4 DEF Document
<1>6. DOMAIN e.deliveries = DOMAIN d.deliveries BY <1>1, <1>5
<1>7. \A i \in DOMAIN d.deliveries : e.deliveries[i] = Closed(d.deliveries[i]) BY <1>1, <1>5
<1> HIDE DEF e, closed
<1>8. \A i \in DOMAIN d.deliveries :
        /\ e.deliveries[i].batch = d.deliveries[i].batch /\ e.deliveries[i].at = d.deliveries[i].at
        /\ e.deliveries[i].state # "attempting"
        /\ e.deliveries[i].state = "sent" => d.deliveries[i].state = "sent"
  BY <1>1, <1>2, <1>7
<1>9. \A k \in Tasks : e.tasks[k].revision >= d.tasks[k].revision
  BY <1>5 DEF Document, Task
<1>10. Sound(e) BY <1>5, <1>6, <1>8, <1>9, SameAttempts
<1> QED BY <1>5, <1>6, <1>8, <1>10 DEF e

-----------------------------------------------------------------------------
(* The state                                                               *)

\* The first document has told nothing.
LEMMA Inits == Init => Inv
<1> SUFFICES ASSUME Init PROVE Inv OBVIOUS
<1>1. PICK terms \in Terms : store = FirstStore(terms) BY DEF Init
<1>2. /\ store.deliveries = <<>> /\ store \in Document
  <2>1. FirstHour \in Nat BY DEF FirstHour
  <2>2. FirstTask \in Task BY <2>1 DEF FirstTask, Task
  <2>3. \A d : \A some \in SUBSET Tasks : d.tasks = [k \in Tasks |-> FirstTask] => Refs(d, some) \subseteq Ref
    BY <2>2 DEF Refs, Ref, Task
  <2>4. store.covered \subseteq Ref
    BY <1>1, <2>3 DEF FirstStore
  <2>5. /\ store.tasks \in [Tasks -> Task] /\ store.policy \in Policy
        /\ store.project \in [revision : Nat, members : {1, 2}]
        /\ store.told \in [Tasks -> BOOLEAN] /\ store.deliveries = <<>>
        /\ store = [tasks |-> store.tasks, project |-> store.project, policy |-> store.policy,
                    told |-> store.told, covered |-> store.covered, deliveries |-> store.deliveries]
    BY <1>1, <2>2 DEF FirstStore, Policy
  <2> QED BY <2>4, <2>5, EmptySeq DEF Document
<1>3. DOMAIN store.deliveries = {} BY <1>2, EmptySeq, Deliveries
<1>4. inbox = <<>> /\ inbox \in Seq(Message) /\ DOMAIN inbox = {} BY EmptySeq, LenProperties DEF Init
<1>5. Types
  <2>1. AtRest \in Run BY DEF AtRest, Run
  <2>2. now \in Nat /\ edits \in Nat /\ faults \in Nat /\ crashes \in Nat BY DEF Init, FirstHour
  <2>3. diverged \in BOOLEAN /\ running \in Runners \cup {Nobody} /\ run \in [Runners -> Run]
    BY <2>1 DEF Init
  <2>4. commit = NoCommit /\ durable = store BY DEF Init
  <2> QED BY <1>2, <1>4, <2>2, <2>3, <2>4 DEF Types
<1>6. DocumentsAreSound
  BY <1>3 DEF Init, DocumentsAreSound, Sound, Extends, ReceiptsHold
<1>7. InboxIsRecorded /\ CommitIsOwned /\ OpenIsHeld
  BY <1>3, <1>4 DEF Init, InboxIsRecorded, CommitIsOwned, OpenIsHeld
<1>8. \A r \in Runners : RunIsSound(r) BY DEF Init, AtRest, RunIsSound, Holds, Owns
<1> QED BY <1>5, <1>6, <1>7, <1>8 DEF Inv

\* The one invocation that works.
LEMMA OthersAreIdle ==
  ASSUME Inv, NEW r \in Runners, run[r].at # "idle"
  PROVE  running = r /\ \A q \in Runners \ {r} : run[q].at = "idle" /\ run[q].id = None
BY DEF Inv, RunIsSound

\* A runner with nothing at hand is sound.
LEMMA IdleIsSound ==
  ASSUME NEW q \in Runners, run'[q].at = "idle", run'[q].id = None
  PROVE  RunIsSound(q)'
BY DEF RunIsSound, Holds, Owns

\* The types of the messages sent.
LEMMA MessageTypes ==
  ASSUME Types
  PROVE  DOMAIN inbox = 1 .. Len(inbox) /\ Len(inbox) \in Nat /\ \A m \in Messages : m \in Message
<1>1. inbox \in Seq(Message) BY DEF Types
<1> QED BY <1>1, LenProperties, ElementOfSeq DEF Messages

\* A commit under way.
LEMMA CommitTypes ==
  ASSUME Types, commit # NoCommit
  PROVE  commit.by \in Runners \cup {User} /\ commit.doc \in Document
BY DEF Types

\* An attempt on record stays on record, with its message.
LEMMA InboxCarries ==
  ASSUME InboxIsRecorded, inbox' = inbox, Extends(store', store)
  PROVE  InboxIsRecorded'
BY DEF InboxIsRecorded, Extends

\* A runner without a commit, while the receipts stay.
LEMMA RunStays ==
  ASSUME NEW r \in Runners, RunIsSound(r), run[r].at \notin Owns, run'[r] = run[r],
         running' = running, store'.deliveries = store.deliveries, inbox' = inbox
  PROVE  RunIsSound(r)'
<1>1. Messages' = Messages BY DEF Messages
<1>2. Attempt(r, store)' <=> Attempt(r, store) BY <1>1 DEF Attempt, Attempts
<1>3. Told(run[r].id)' <=> Told(run[r].id) BY <1>1 DEF Told
<1> HIDE DEF Attempt, Told
<1> QED BY <1>2, <1>3 DEF RunIsSound, Owns

-----------------------------------------------------------------------------
(* Members, the clock and restarts                                         *)

\* An edit leaves the receipts alone, and a task's revision only grows.
LEMMA EditIs ==
  ASSUME Inv, Member
  PROVE  \E e \in Document :
           /\ commit = NoCommit /\ commit' = [by |-> User, doc |-> e]
           /\ e.deliveries = store.deliveries /\ e.covered = store.covered
           /\ \A k \in Tasks : e.tasks[k].revision >= store.tasks[k].revision
<1> DEFINE Edit(e) == /\ e \in Document /\ commit = NoCommit /\ commit' = [by |-> User, doc |-> e]
                      /\ e.deliveries = store.deliveries /\ e.covered = store.covered
                      /\ \A k \in Tasks : e.tasks[k].revision >= store.tasks[k].revision
<1>1. store \in Document /\ now \in Nat BY DEF Inv, Types
<1>2. store.tasks \in [Tasks -> Task] /\ \A k \in Tasks : store.tasks[k] \in Task
  BY <1>1 DEF Document
<1>t. ASSUME NEW t \in Task
      PROVE  /\ t.revision \in Nat /\ t.open \in BOOLEAN /\ t.reminder_revision \in Nat
             /\ t = [revision |-> t.revision, open |-> t.open, snoozed_until |-> t.snoozed_until,
                     remind_at |-> t.remind_at, reminder_revision |-> t.reminder_revision]
  BY DEF Task
<1>3. ASSUME NEW k \in Tasks, NEW change \in Task, change.revision >= store.tasks[k].revision,
             Write(User, Edited(k, change))
      PROVE  \E e : Edit(e)
  <2> DEFINE task == [change EXCEPT !.revision = @ + 1]
             e == Edited(k, change)
  <2>1. task \in Task /\ task.revision >= store.tasks[k].revision
    BY <1>2, <1>3 DEF Task
  <2>2. e = [store EXCEPT !.tasks = [store.tasks EXCEPT ![k] = task]] BY <1>1 DEF Edited, Document
  <2> HIDE DEF e, task
  <2>3. e \in Document /\ e.deliveries = store.deliveries /\ e.covered = store.covered
    BY <1>1, <2>1, <2>2 DEF Document
  <2>4. e.tasks = [store.tasks EXCEPT ![k] = task] BY <1>1, <2>2 DEF Document
  <2>5. \A j \in Tasks : e.tasks[j].revision >= store.tasks[j].revision
    <3> TAKE j \in Tasks
    <3>1. e.tasks[j] = IF j = k THEN task ELSE store.tasks[j] BY <1>2, <2>4
    <3>2. store.tasks[j].revision \in Nat BY <1>2, <1>t
    <3> QED BY <2>1, <3>1, <3>2
  <2>6. commit = NoCommit /\ commit' = [by |-> User, doc |-> e] BY <1>3 DEF Write, e
  <2> QED BY <2>3, <2>5, <2>6
<1>4. ASSUME NEW k \in Tasks, UpdateTask(k) PROVE \E e : Edit(e)
  <2> DEFINE change == [store.tasks[k] EXCEPT !.open = ~@, !.snoozed_until = None]
  <2>1. change \in Task /\ change.revision >= store.tasks[k].revision
    <3>1. store.tasks[k] \in Task /\ store.tasks[k].revision \in Nat BY <1>2, <1>t
    <3>2. change.revision = store.tasks[k].revision BY <3>1 DEF Task
    <3>3. (~store.tasks[k].open) \in BOOLEAN OBVIOUS
    <3>4. change \in Task BY <3>1, <3>3 DEF Task
    <3> QED BY <3>1, <3>2, <3>4
  <2>2. Write(User, Edited(k, change)) BY <1>4 DEF UpdateTask
  <2> QED BY <1>3, <2>1, <2>2
<1>5. ASSUME NEW k \in Tasks, SetReminder(k) PROVE \E e : Edit(e)
  <2> DEFINE change == [store.tasks[k] EXCEPT !.remind_at = now, !.reminder_revision = @ + 1]
  <2>1. change \in Task /\ change.revision >= store.tasks[k].revision
    <3>1. store.tasks[k] \in Task /\ store.tasks[k].revision \in Nat BY <1>2, <1>t
    <3>2. change.revision = store.tasks[k].revision BY <3>1 DEF Task
    <3>3. store.tasks[k].reminder_revision + 1 \in Nat BY <3>1, <1>t
    <3>4. change \in Task BY <1>1, <3>1, <3>3 DEF Task
    <3> QED BY <3>1, <3>2, <3>4
  <2>2. Write(User, Edited(k, change)) BY <1>5 DEF SetReminder
  <2> QED BY <1>3, <2>1, <2>2
<1>6. ASSUME NEW k \in Tasks, SnoozeTask(k) PROVE \E e : Edit(e)
  <2> DEFINE snoozed == [store.tasks[k] EXCEPT !.snoozed_until = now + 1]
             rearmed == [snoozed EXCEPT !.revision = @ + 1, !.remind_at = now + 1,
                                        !.reminder_revision = @ + 1]
             change == IF snoozed.remind_at \in {None, now + 1} THEN snoozed ELSE rearmed
  <2>1. snoozed \in Task /\ snoozed.revision = store.tasks[k].revision BY <1>1, <1>2 DEF Task
  <2>2. rearmed \in Task /\ rearmed.revision = snoozed.revision + 1
    <3> HIDE DEF snoozed
    <3>1. /\ snoozed.revision + 1 \in Nat /\ snoozed.reminder_revision + 1 \in Nat
          /\ now + 1 \in Nat
      BY <1>1, <1>t, <2>1
    <3> QED BY <2>1, <3>1 DEF Task
  <2>3. change \in Task /\ change.revision >= store.tasks[k].revision
    BY <1>2, <1>t, <2>1, <2>2
  <2>4. Write(User, Edited(k, change)) BY <1>6 DEF SnoozeTask
  <2> QED BY <1>3, <2>3, <2>4
<1>7. ASSUME SetMember PROVE \E e : Edit(e)
  <2>1. PICK n \in {1, 2} : Write(User, [store EXCEPT !.project =
                              [revision |-> store.project.revision + 1, members |-> n]])
    BY <1>1, <1>7 DEF SetMember, Document
  <2> DEFINE e == [store EXCEPT !.project = [revision |-> store.project.revision + 1, members |-> n]]
  <2>2. /\ e \in Document /\ e.deliveries = store.deliveries /\ e.covered = store.covered
        /\ e.tasks = store.tasks
    <3>1. store.project.revision + 1 \in Nat BY <1>1 DEF Document
    <3> QED BY <1>1, <3>1 DEF Document
  <2>3. \A k \in Tasks : e.tasks[k].revision >= store.tasks[k].revision
    BY <1>2, <2>2 DEF Task
  <2>4. commit = NoCommit /\ commit' = [by |-> User, doc |-> e] BY <2>1 DEF Write
  <2> QED BY <2>2, <2>3, <2>4
<1>8. ASSUME ConfigureAutomation PROVE \E e : Edit(e)
  <2>1. PICK on \in BOOLEAN, terms \in Terms :
          Write(User, [store EXCEPT !.policy = [enabled |-> on, terms |-> terms,
                                                revision |-> store.policy.revision + 1]])
    BY <1>1, <1>8 DEF ConfigureAutomation, Document
  <2> DEFINE policy == [enabled |-> on, terms |-> terms, revision |-> store.policy.revision + 1]
             e == [store EXCEPT !.policy = policy]
  <2>2. policy \in Policy BY <1>1 DEF Document, Policy
  <2>3. /\ e \in Document /\ e.deliveries = store.deliveries /\ e.covered = store.covered
        /\ e.tasks = store.tasks
    BY <1>1, <2>2 DEF Document
  <2>4. \A k \in Tasks : e.tasks[k].revision >= store.tasks[k].revision
    BY <1>2, <2>3 DEF Task
  <2>5. commit = NoCommit /\ commit' = [by |-> User, doc |-> e] BY <2>1 DEF Write
  <2> QED BY <2>3, <2>4, <2>5
<1>9. \E e : Edit(e) BY <1>4, <1>5, <1>6, <1>7, <1>8 DEF Member
<1> QED BY <1>9

\* Members start commits that leave the receipts alone.
LEMMA MemberKeeps == ASSUME Inv, Member PROVE Inv'
<1>1. PICK e \in Document :
        /\ commit = NoCommit /\ commit' = [by |-> User, doc |-> e]
        /\ e.deliveries = store.deliveries /\ e.covered = store.covered
        /\ \A k \in Tasks : e.tasks[k].revision >= store.tasks[k].revision
  BY EditIs
<1>2. /\ UNCHANGED <<store, durable, diverged, running, run, inbox, now, faults, crashes>>
      /\ edits' = edits + 1
  BY DEF Member
<1>3. Types'
  <2>1. edits' \in Nat BY <1>2 DEF Inv, Types
  <2>2. commit' \in [by : Runners \cup {User}, doc : Document] BY <1>1
  <2> QED BY <1>2, <2>1, <2>2 DEF Inv, Types
<1>4. DocumentsAreSound'
  <2>1. store \in Document /\ Sound(store) BY DEF Inv, Types, DocumentsAreSound
  <2>2. Sound(e) BY <1>1, <2>1, SameAttempts
  <2>3. commit'.doc = e BY <1>1
  <2>4. Messages' = Messages BY <1>2 DEF Messages
  <2>5. Extends(e, store) /\ ReceiptsHold(e)'
    BY <1>1, <2>4 DEF Inv, DocumentsAreSound, Extends, ReceiptsHold, Told
  <2>6. ReceiptsHold(store)' /\ ReceiptsHold(durable)'
    BY <1>2, <2>4 DEF Inv, DocumentsAreSound, ReceiptsHold, Told
  <2> QED BY <1>2, <2>2, <2>3, <2>5, <2>6 DEF Inv, DocumentsAreSound
<1>5. InboxIsRecorded' BY <1>2 DEF Inv, InboxIsRecorded
<1>6. CommitIsOwned' BY <1>1, <1>2 DEF CommitIsOwned
<1>7. OpenIsHeld' BY <1>2 DEF Inv, OpenIsHeld
<1>8. \A r \in Runners : RunIsSound(r)'
  <2> TAKE r \in Runners
  <2>1. RunIsSound(r) /\ run[r].at \notin Owns BY <1>1 DEF Inv, RunIsSound
  <2> QED BY <1>2, <2>1, RunStays
<1> QED BY <1>3, <1>4, <1>5, <1>6, <1>7, <1>8 DEF Inv

\* Time passes, or nothing happens.
LEMMA StillKeeps ==
  ASSUME Inv, now' \in Nat,
         UNCHANGED <<store, durable, commit, diverged, running, run, inbox, bounds>>
  PROVE  Inv'
<1>1. UNCHANGED <<store, durable, commit, diverged, running, run, inbox, edits, faults, crashes>>
  BY DEF bounds
<1>2. Types' BY <1>1 DEF Inv, Types
<1>3. DocumentsAreSound' BY <1>1 DEF Inv, DocumentsAreSound, ReceiptsHold, Told, Messages
<1>4. InboxIsRecorded' /\ CommitIsOwned' /\ OpenIsHeld'
  BY <1>1 DEF Inv, InboxIsRecorded, CommitIsOwned, OpenIsHeld
<1>5. \A r \in Runners : RunIsSound(r)'
  <2> TAKE r \in Runners
  <2>1. RunIsSound(r) BY DEF Inv
  <2> QED BY <1>1, <2>1 DEF RunIsSound, Attempt, Attempts, Told, Messages
<1> QED BY <1>2, <1>3, <1>4, <1>5 DEF Inv

\* What is on disk after a crash holds every attempt that was made, closed.
LEMMA CrashKeeps == ASSUME Inv, Crash PROVE Inv'
<1>1. /\ store' = Loaded(durable') /\ commit' = NoCommit /\ diverged' = FALSE
      /\ running' = Nobody /\ run' = [r \in Runners |-> AtRest]
      /\ UNCHANGED <<inbox, now, edits, faults>> /\ crashes' = crashes + 1
  BY DEF Crash
<1>2. /\ durable' \in Document /\ Sound(durable') /\ Extends(durable', store)
      /\ ReceiptsHold(durable')
  <2>1. durable' = durable \/ (commit # NoCommit /\ durable' = commit.doc) BY DEF Crash
  <2>2. CASE durable' = durable BY <2>2 DEF Inv, Types, DocumentsAreSound
  <2>3. CASE commit # NoCommit /\ durable' = commit.doc
    BY <2>3, CommitTypes DEF Inv, DocumentsAreSound
  <2> QED BY <2>1, <2>2, <2>3
<1>3. /\ store' \in Document /\ Sound(store') /\ DOMAIN store'.deliveries = DOMAIN durable'.deliveries
      /\ \A i \in DOMAIN durable'.deliveries :
           /\ store'.deliveries[i].batch = durable'.deliveries[i].batch
           /\ store'.deliveries[i].state # "attempting"
           /\ store'.deliveries[i].state = "sent" => durable'.deliveries[i].state = "sent"
  BY <1>1, <1>2, LoadedIs
<1>4. Types'
  <2>1. AtRest \in Run BY DEF AtRest, Run
  <2>2. crashes' \in Nat BY <1>1 DEF Inv, Types
  <2>3. run' \in [Runners -> Run] /\ running' \in Runners \cup {Nobody} /\ diverged' \in BOOLEAN
    BY <1>1, <2>1
  <2> QED BY <1>1, <1>2, <1>3, <2>2, <2>3 DEF Inv, Types
<1>5. DocumentsAreSound'
  <2>1. Messages' = Messages BY <1>1 DEF Messages
  <2>2. ReceiptsHold(durable)' BY <1>2, <2>1 DEF ReceiptsHold, Told
  <2>3. ReceiptsHold(store)' BY <1>2, <1>3, <2>1 DEF ReceiptsHold, Told
  <2>4. Extends(durable', store') BY <1>3 DEF Extends
  <2> QED BY <1>1, <1>2, <1>3, <2>2, <2>3, <2>4 DEF DocumentsAreSound
<1>6. InboxIsRecorded'
  <2>1. Extends(store', store) BY <1>2, <1>3 DEF Extends
  <2> QED BY <1>1, <2>1, InboxCarries DEF Inv
<1>7. CommitIsOwned' /\ OpenIsHeld' BY <1>1, <1>3 DEF CommitIsOwned, OpenIsHeld
<1>8. \A r \in Runners : RunIsSound(r)' BY <1>1, IdleIsSound DEF AtRest
<1> QED BY <1>4, <1>5, <1>6, <1>7, <1>8 DEF Inv

-----------------------------------------------------------------------------
(* The attempt                                                             *)

\* What a runner's step that changes no document leaves as it is.
LEMMA DocumentsStay ==
  ASSUME Inv, UNCHANGED <<store, durable, commit, diverged, faults>>, Messages \subseteq Messages'
  PROVE  DocumentsAreSound'
<1>1. \A d : ReceiptsHold(d) => ReceiptsHold(d)' BY DEF ReceiptsHold, Told
<1> QED BY <1>1 DEF Inv, DocumentsAreSound, ReceiptsHold, Told

\* A commit in flight is a member's while every runner that might own one does not.
LEMMA CommitStays ==
  ASSUME Inv, NEW r \in Runners, run[r].at \notin Owns, run' \in [Runners -> Run],
         \A q \in Runners \ {r} : run'[q] = run[q], commit' = commit, store' = store
  PROVE  CommitIsOwned'
BY DEF Inv, Types, CommitIsOwned

\* An invocation begins when none is at work.
LEMMA StartKeeps == ASSUME Inv, NEW r \in Runners, Start(r) PROVE Inv'
<1> DEFINE begun == [AtRest EXCEPT !.at = "authorizing", !.members = store.project.members]
<1>1. /\ running = Nobody /\ running' = r /\ run' = [run EXCEPT ![r] = begun]
      /\ UNCHANGED <<store, durable, commit, diverged, inbox, now, edits, faults, crashes>>
  BY DEF Start, Unmoved, bounds
<1>2. begun \in Run /\ begun.at = "authorizing" /\ begun.id = None
  BY DEF AtRest, Run, Inv, Types, Document
<1>3. run \in [Runners -> Run] BY DEF Inv, Types
<1> HIDE DEF begun
<1>4. \A q \in Runners : run[q].at = "idle" /\ run[q].id = None
  BY <1>1, OthersAreIdle DEF Inv, RunIsSound
<1>5. Types'
  <2>1. run' \in [Runners -> Run] /\ running' \in Runners \cup {Nobody} BY <1>1, <1>2, <1>3
  <2> QED BY <1>1, <2>1 DEF Inv, Types
<1>6. DocumentsAreSound' BY <1>1, DocumentsStay DEF Messages
<1>7. InboxIsRecorded' BY <1>1 DEF Inv, InboxIsRecorded
<1>8. CommitIsOwned' BY <1>1, <1>2, <1>3, <1>4, <1>5, CommitStays DEF Owns, Types
<1>9. OpenIsHeld' BY <1>1, <1>3, <1>4, Deliveries DEF Inv, Types, OpenIsHeld
<1>10. \A q \in Runners : RunIsSound(q)'
  <2> TAKE q \in Runners
  <2>1. CASE q = r BY <1>1, <1>2, <1>3, <2>1 DEF RunIsSound, Holds, Owns
  <2>2. CASE q # r
    <3>1. run'[q].at = "idle" /\ run'[q].id = None BY <1>1, <1>3, <1>4, <2>2
    <3> QED BY <3>1, IdleIsSound
  <2> QED BY <2>1, <2>2
<1> QED BY <1>5, <1>6, <1>7, <1>8, <1>9, <1>10 DEF Inv

\* What every step of the runner at work keeps: the others stay idle.
LEMMA RunnerAlone ==
  ASSUME Inv, NEW r \in Runners, run[r].at # "idle", NEW mine \in Run, run' = [run EXCEPT ![r] = mine],
         RunIsSound(r)'
  PROVE  \A q \in Runners : RunIsSound(q)'
<1> SUFFICES ASSUME NEW q \in Runners, q # r PROVE RunIsSound(q)' OBVIOUS
<1>1. run[q].at = "idle" /\ run[q].id = None BY OthersAreIdle
<1>2. run'[q] = run[q] BY DEF Inv, Types
<1> QED BY <1>1, <1>2, IdleIsSound

\* A runner that gives up held no attempt, or holds it no more after a failure.
LEMMA QuitIsSound ==
  ASSUME Inv, NEW r \in Runners, run[r].at # "idle", Quits(r)
  PROVE  /\ run' \in [Runners -> Run] /\ running' = Nobody /\ \A q \in Runners : RunIsSound(q)'
         /\ \A q \in Runners \ {r} : run'[q] = run[q]
<1>1. AtRest \in Run /\ AtRest.at = "idle" /\ AtRest.id = None BY DEF AtRest, Run
<1>2. run \in [Runners -> Run] BY DEF Inv, Types
<1>3. run'[r] = AtRest BY <1>2 DEF Quits
<1>4. RunIsSound(r)' BY <1>1, <1>3, IdleIsSound
<1> QED BY <1>1, <1>2, <1>4, RunnerAlone DEF Quits

\* Access is proved, and the plan is made.
LEMMA AuthorizeKeeps == ASSUME Inv, NEW r \in Runners, Authorize(r) PROVE Inv'
<1> DEFINE b == NextBatch(store, now)
           planned == [run[r] EXCEPT !.at = "authorized", !.batch = b]
<1>1. /\ run[r].at = "authorizing"
      /\ UNCHANGED <<store, durable, commit, diverged, inbox, now, edits, faults, crashes>>
  BY DEF Authorize, Unmoved, bounds
<1>2. run \in [Runners -> Run] /\ run[r] \in Run /\ run[r].id = None /\ running = r
  BY <1>1 DEF Inv, Types, RunIsSound
<1>3. /\ run' \in [Runners -> Run] /\ running' \in Runners \cup {Nobody}
      /\ run'[r].id = None /\ \A q \in Runners \ {r} : run'[q] = run[q]
      /\ \A q \in Runners : RunIsSound(q)'
  <2>1. CASE b # NoBatch /\ run' = [run EXCEPT ![r].at = "authorized", ![r].batch = b] /\ running' = running
    <3>1. store \in Document /\ now \in Nat /\ Sound(store) BY DEF Inv, Types, DocumentsAreSound
    <3>2. b \in Batch BY <2>1, <3>1, PlanIsFresh DEF Fresh
    <3> HIDE DEF b
    <3>3. run' = [run EXCEPT ![r] = planned] BY <1>2, <2>1
    <3>4. planned \in Run /\ planned.at = "authorized" /\ planned.batch = b /\ planned.id = None
      BY <1>2, <3>2 DEF Run, Holds
    <3> HIDE DEF planned
    <3>5. run'[r] = planned BY <1>2, <3>3
    <3>6. RunIsSound(r)' BY <1>2, <2>1, <3>2, <3>4, <3>5 DEF RunIsSound, Owns
    <3>7. \A q \in Runners : RunIsSound(q)' BY <1>1, <3>3, <3>4, <3>6, RunnerAlone
    <3> QED BY <1>2, <2>1, <3>3, <3>4, <3>5, <3>7
  <2>2. CASE Quits(r)
    <3>1. run'[r].id = None BY <1>2, <2>2 DEF Quits, AtRest
    <3> QED BY <1>1, <2>2, <3>1, QuitIsSound
  <2> QED BY <2>1, <2>2 DEF Authorize
<1>4. Types' BY <1>1, <1>3 DEF Inv, Types
<1>5. DocumentsAreSound' BY <1>1, DocumentsStay DEF Messages
<1>6. InboxIsRecorded' BY <1>1 DEF Inv, InboxIsRecorded
<1>7. CommitIsOwned' BY <1>1, <1>3, CommitStays DEF Owns
<1>8. OpenIsHeld'
  <2>1. \A q \in Runners : run'[q].id = run[q].id BY <1>2, <1>3
  <2> QED BY <1>1, <2>1 DEF Inv, OpenIsHeld
<1> QED BY <1>3, <1>4, <1>5, <1>6, <1>7, <1>8 DEF Inv

\* The attempt is reserved: the plan is still the plan, so it tells nothing again.
LEMMA ReserveKeeps == ASSUME Inv, NEW r \in Runners, Reserve(r) PROVE Inv'
<1>b. PICK b : b = run[r].batch OBVIOUS
<1>e. PICK e : e = Reserved(store, now, b) OBVIOUS
<1>m. PICK mine : mine = [run[r] EXCEPT !.at = "reserving"] OBVIOUS
<1>1. /\ run[r].at = "authorized" /\ commit = NoCommit
      /\ UNCHANGED <<store, durable, diverged, inbox, now, edits, faults, crashes>>
  BY DEF Reserve, Unmoved, bounds
<1>2. /\ run \in [Runners -> Run] /\ run[r] \in Run /\ run[r].id = None /\ running = r
      /\ b \in Batch
  BY <1>1, <1>b DEF Inv, Types, RunIsSound, Holds
<1>3. store \in Document /\ now \in Nat /\ Sound(store) BY DEF Inv, Types, DocumentsAreSound
<1>4. CASE Quits(r) /\ commit' = commit
  <2>1. run'[r].id = None BY <1>2, <1>4 DEF Quits, AtRest
  <2>2. /\ run' \in [Runners -> Run] /\ running' = Nobody /\ \A q \in Runners : RunIsSound(q)'
        /\ \A q \in Runners \ {r} : run'[q] = run[q]
    BY <1>1, <1>4, QuitIsSound
  <2>3. Types' BY <1>1, <1>4, <2>2 DEF Inv, Types
  <2>4. DocumentsAreSound' BY <1>1, <1>4, DocumentsStay DEF Messages
  <2>5. InboxIsRecorded' BY <1>1 DEF Inv, InboxIsRecorded
  <2>6. CommitIsOwned' BY <1>1, <1>4 DEF CommitIsOwned
  <2>7. OpenIsHeld'
    <3>1. \A q \in Runners : run'[q].id = run[q].id BY <1>2, <2>1, <2>2
    <3> QED BY <1>1, <3>1 DEF Inv, OpenIsHeld
  <2> QED BY <2>2, <2>3, <2>4, <2>5, <2>6, <2>7 DEF Inv
<1>5. CASE /\ NextBatch(store, now) = b /\ Write(r, e)
           /\ run' = [run EXCEPT ![r].at = "reserving"] /\ running' = running
  <2>1. Fresh(store, now, b)
    <3>1. b # NoBatch BY <1>2 DEF Batch, NoBatch
    <3> QED BY <1>3, <1>5, <3>1, PlanIsFresh
  <2> DEFINE last == Len(store.deliveries) + 1
  <2>2. /\ e \in Document /\ Len(e.deliveries) = last
        /\ e.deliveries[last] = [at |-> now, state |-> "attempting", batch |-> b]
        /\ \A i \in DOMAIN store.deliveries : e.deliveries[i] = store.deliveries[i]
        /\ Sound(e) /\ Attempts(e, b.day) <= b.policy.terms.daily_limit
    BY <1>3, <1>e, <2>1, ReservedIs
  <2>3. commit' = [by |-> r, doc |-> e] BY <1>5 DEF Write
  <2>4. run' = [run EXCEPT ![r] = mine] BY <1>2, <1>5, <1>m
  <2>5. mine \in Run /\ mine.at = "reserving" /\ mine.batch = b /\ mine.id = None
    BY <1>2, <1>b, <1>m DEF Run, Holds
  <2>6. run' \in [Runners -> Run] /\ run'[r] = mine BY <1>2, <2>4, <2>5
  <2>d. /\ DOMAIN e.deliveries = 1 .. last /\ DOMAIN store.deliveries = 1 .. Len(store.deliveries)
        /\ Len(store.deliveries) \in Nat
    BY <1>3, <2>2, Deliveries
  <2>7. Types'
    <3>1. commit' \in [by : Runners \cup {User}, doc : Document] BY <2>2, <2>3
    <3> QED BY <1>1, <1>5, <2>6, <3>1 DEF Inv, Types
  <2>8. DocumentsAreSound'
    <3>1. Messages' = Messages BY <1>1 DEF Messages
    <3>2. ReceiptsHold(store)' /\ ReceiptsHold(durable)'
      BY <1>1, <3>1 DEF Inv, DocumentsAreSound, ReceiptsHold, Told
    <3>3. Extends(e, store) BY <2>2, <2>d DEF Extends
    <3>4. ReceiptsHold(e)'
      <4>1. \A i \in DOMAIN e.deliveries : i = last \/ i \in DOMAIN store.deliveries BY <2>d
      <4>2. \A i \in DOMAIN e.deliveries : e.deliveries[i].state = "sent" => Told(i)
        BY <2>2, <4>1 DEF Inv, DocumentsAreSound, ReceiptsHold
      <4> QED BY <3>1, <4>2 DEF ReceiptsHold, Told
    <3> QED BY <1>1, <2>2, <2>3, <3>2, <3>3, <3>4 DEF Inv, DocumentsAreSound
  <2>9. InboxIsRecorded' BY <1>1 DEF Inv, InboxIsRecorded
  <2>10. CommitIsOwned' BY <2>3, <2>5, <2>6 DEF CommitIsOwned, Owns
  <2>11. OpenIsHeld'
    <3>1. \A q \in Runners : run'[q].id = run[q].id BY <1>2, <2>4, <2>5
    <3> QED BY <1>1, <3>1 DEF Inv, OpenIsHeld
  <2>12. RunIsSound(r)'
    <3>1. \A m \in Messages : m.id < last
      <4>1. \A m \in Messages : m.id \in DOMAIN store.deliveries
        BY DEF Inv, InboxIsRecorded, Messages
      <4> QED BY <2>d, <4>1
    <3>2. Messages' = Messages BY <1>1 DEF Messages
    <3>3. Attempt(r, e)'
      <4>1. run'[r].batch = b BY <2>5, <2>6
      <4>2. Len(e.deliveries) > 0 BY <2>2, <2>d
      <4>3. e.deliveries[Len(e.deliveries)].batch = b BY <2>2
      <4>4. \A m \in Messages' : m.id < Len(e.deliveries) BY <2>2, <3>1, <3>2
      <4> QED BY <2>2, <4>1, <4>2, <4>3, <4>4 DEF Attempt
    <3>4. commit' # NoCommit BY <2>3 DEF NoCommit
    <3>5. commit'.by = r /\ commit'.doc = e BY <2>3
    <3>6. Attempt(r, commit.doc)' BY <3>3, <3>5 DEF Attempt, Attempts
    <3> QED BY <1>1, <1>2, <1>5, <2>2, <2>5, <2>6, <3>4, <3>5, <3>6 DEF RunIsSound, Owns, Holds
  <2>13. \A q \in Runners : RunIsSound(q)' BY <1>1, <2>4, <2>5, <2>12, RunnerAlone
  <2> QED BY <2>7, <2>8, <2>9, <2>10, <2>11, <2>13 DEF Inv
<1> QED BY <1>4, <1>5, <1>b, <1>e DEF Reserve

\* The message goes out at most once, for the last attempt on record.
LEMMA SendKeeps == ASSUME Inv, NEW r \in Runners, Send(r) PROVE Inv'
<1>b. PICK b : b = run[r].batch OBVIOUS
<1>i. PICK id : id = run[r].id OBVIOUS
<1>m. PICK m : m = [id |-> id, batch |-> b] OBVIOUS
<1>1. /\ run[r].at = "rechecking" /\ running' = running
      /\ UNCHANGED <<store, durable, commit, diverged, now, edits, faults, crashes>>
  BY DEF Send, Unmoved, bounds
<1>2. /\ run \in [Runners -> Run] /\ run[r] \in Run /\ running = r /\ b \in Batch
      /\ Attempt(r, store) /\ id = Len(store.deliveries)
  BY <1>1, <1>b, <1>i DEF Inv, Types, RunIsSound, Holds
<1>3. /\ DOMAIN store.deliveries = 1 .. Len(store.deliveries) /\ Len(store.deliveries) \in Nat
      /\ inbox \in Seq(Message)
  BY Deliveries DEF Inv, Types
<1>4. /\ id \in DOMAIN store.deliveries /\ store.deliveries[id].batch = b /\ m \in Message
      /\ \A n \in Messages : n.id < id
  BY <1>2, <1>3, <1>b, <1>m DEF Attempt, Message
<1>5. PICK answer \in BOOLEAN :
        /\ run' = [run EXCEPT ![r].at = "sent", ![r].answer = answer]
        /\ (inbox' = inbox /\ answer = FALSE) \/ inbox' = Append(inbox, m)
  <2>1. \/ Answers(r, FALSE) /\ inbox' = inbox
        \/ inbox' = Append(inbox, m) /\ \E answer \in BOOLEAN : Answers(r, answer)
    BY <1>b, <1>i, <1>m DEF Send, Delivered
  <2> QED BY <2>1 DEF Answers
<1>n. PICK mine : mine = [run[r] EXCEPT !.at = "sent", !.answer = answer] OBVIOUS
<1>6. /\ mine \in Run /\ mine.at = "sent" /\ mine.answer = answer /\ mine.id = id /\ mine.batch = b
  BY <1>2, <1>b, <1>i, <1>n DEF Run, Holds
<1>7. run' = [run EXCEPT ![r] = mine] BY <1>2, <1>5, <1>n
<1>8. run' \in [Runners -> Run] /\ run'[r] = mine /\ \A q \in Runners \ {r} : run'[q] = run[q]
  BY <1>2, <1>6, <1>7
<1>9. /\ inbox' \in Seq(Message) /\ Messages \subseteq Messages'
      /\ answer => m \in Messages'
      /\ \A i \in DOMAIN inbox' :
           \/ i \in DOMAIN inbox /\ inbox'[i] = inbox[i]
           \/ i = Len(inbox) + 1 /\ inbox'[i] = m
  <2>1. CASE inbox' = inbox /\ answer = FALSE BY <1>3, <2>1 DEF Messages
  <2>2. CASE inbox' = Append(inbox, m)
    <3>1. /\ inbox' \in Seq(Message) /\ DOMAIN inbox' = 1 .. Len(inbox) + 1
          /\ DOMAIN inbox = 1 .. Len(inbox) /\ Len(inbox) \in Nat /\ inbox'[Len(inbox) + 1] = m
          /\ \A i \in 1 .. Len(inbox) : inbox'[i] = inbox[i]
      BY <1>3, <1>4, <2>2, AppendProperties, LenProperties
    <3>2. Messages \subseteq Messages' /\ m \in Messages' BY <3>1 DEF Messages
    <3> QED BY <3>1, <3>2
  <2> QED BY <1>5, <2>1, <2>2
<1>10. Types' BY <1>1, <1>8, <1>9 DEF Inv, Types
<1>11. DocumentsAreSound' BY <1>1, <1>9, DocumentsStay
<1>12. InboxIsRecorded'
  <2>1. /\ \A i \in DOMAIN inbox : /\ inbox[i].id \in DOMAIN store.deliveries
                                   /\ inbox[i].batch = store.deliveries[inbox[i].id].batch
        /\ \A i, j \in DOMAIN inbox : i < j => inbox[i].id < inbox[j].id
        /\ \A i \in DOMAIN inbox : inbox[i].id < id
    BY <1>4 DEF Inv, InboxIsRecorded, Messages
  <2>2. m.id = id /\ m.batch = b BY <1>m
  <2>3. DOMAIN inbox = 1 .. Len(inbox) /\ Len(inbox) \in Nat BY <1>3, LenProperties
  <2>4. ASSUME NEW i \in DOMAIN inbox'
        PROVE  /\ inbox'[i].id \in DOMAIN store'.deliveries
               /\ inbox'[i].batch = store'.deliveries[inbox'[i].id].batch
    BY <1>1, <1>4, <1>9, <2>1, <2>2
  <2>5. ASSUME NEW i \in DOMAIN inbox', NEW j \in DOMAIN inbox', i < j
        PROVE  inbox'[i].id < inbox'[j].id
    BY <1>9, <2>1, <2>2, <2>3, <2>5
  <2> QED BY <2>4, <2>5 DEF InboxIsRecorded
<1>13. CommitIsOwned' BY <1>1, <1>8, CommitStays DEF Owns
<1>14. OpenIsHeld'
  <2>1. \A q \in Runners : run'[q].id = run[q].id BY <1>i, <1>6, <1>8
  <2> QED BY <1>1, <2>1 DEF Inv, OpenIsHeld
<1>15. RunIsSound(r)'
  <2>1. answer => Told(id)' BY <1>9, <1>m DEF Told
  <2> QED BY <1>1, <1>2, <1>4, <1>6, <1>8, <2>1 DEF RunIsSound, Owns, Told
<1>16. \A q \in Runners : RunIsSound(q)' BY <1>1, <1>6, <1>7, <1>15, RunnerAlone
<1> QED BY <1>10, <1>11, <1>12, <1>13, <1>14, <1>16 DEF Inv

\* The receipt is settled by what Discord answered.
LEMMA SettleKeeps == ASSUME Inv, NEW r \in Runners, Settle(r) PROVE Inv'
<1>i. PICK id : id = run[r].id OBVIOUS
<1>a. PICK answer : answer = run[r].answer OBVIOUS
<1>e. PICK e : e = Settled(store, id, answer) OBVIOUS
<1>m. PICK mine : mine = [run[r] EXCEPT !.at = "settling"] OBVIOUS
<1>1. /\ run[r].at = "sent" /\ commit = NoCommit /\ commit' = [by |-> r, doc |-> e]
      /\ run' = [run EXCEPT ![r].at = "settling"]
      /\ UNCHANGED <<store, durable, diverged, running, inbox, now, edits, faults, crashes>>
  BY <1>a, <1>e, <1>i DEF Settle, Write, Unmoved, bounds
<1>2. /\ run \in [Runners -> Run] /\ run[r] \in Run /\ running = r /\ run[r].batch \in Batch
      /\ id \in DOMAIN store.deliveries /\ answer \in BOOLEAN /\ (answer => Told(id))
  BY <1>1, <1>a, <1>i DEF Inv, Types, RunIsSound, Holds, Run
<1>3. store \in Document /\ Sound(store) BY DEF Inv, Types, DocumentsAreSound
<1>4. /\ e \in Document /\ Sound(e) /\ Len(e.deliveries) = Len(store.deliveries)
      /\ DOMAIN e.deliveries = DOMAIN store.deliveries
      /\ e.deliveries[id].batch = store.deliveries[id].batch
      /\ e.deliveries[id].state = (IF answer THEN "sent" ELSE "review_required")
      /\ \A i \in DOMAIN store.deliveries \ {id} : e.deliveries[i] = store.deliveries[i]
  BY <1>2, <1>3, <1>e, SettledIs
<1>5. /\ mine \in Run /\ mine.at = "settling" /\ mine.id = id /\ mine.batch = run[r].batch
  BY <1>2, <1>i, <1>m DEF Run, Holds
<1>6. run' = [run EXCEPT ![r] = mine] BY <1>1, <1>2, <1>m
<1>7. run' \in [Runners -> Run] /\ run'[r] = mine /\ \A q \in Runners \ {r} : run'[q] = run[q]
  BY <1>2, <1>5, <1>6
<1>8. Types'
  <2>1. commit' \in [by : Runners \cup {User}, doc : Document] BY <1>1, <1>4
  <2> QED BY <1>1, <1>7, <2>1 DEF Inv, Types
<1>9. DocumentsAreSound'
  <2>1. Messages' = Messages BY <1>1 DEF Messages
  <2>2. ReceiptsHold(store)' /\ ReceiptsHold(durable)'
    BY <1>1, <2>1 DEF Inv, DocumentsAreSound, ReceiptsHold, Told
  <2>3. Extends(e, store) BY <1>4 DEF Extends
  <2>4. ReceiptsHold(e)'
    <3>1. \A i \in DOMAIN e.deliveries : e.deliveries[i].state = "sent" => Told(i)
      BY <1>2, <1>4 DEF Inv, DocumentsAreSound, ReceiptsHold
    <3> QED BY <2>1, <3>1 DEF ReceiptsHold, Told
  <2> QED BY <1>1, <1>4, <2>2, <2>3, <2>4 DEF Inv, DocumentsAreSound
<1>10. InboxIsRecorded' BY <1>1 DEF Inv, InboxIsRecorded
<1>11. CommitIsOwned' BY <1>1, <1>5, <1>7 DEF CommitIsOwned, Owns
<1>12. OpenIsHeld'
  <2>1. \A q \in Runners : run'[q].id = run[q].id BY <1>i, <1>5, <1>7
  <2> QED BY <1>1, <2>1 DEF Inv, OpenIsHeld
<1>13. RunIsSound(r)'
  <2>1. commit'.by = r /\ commit'.doc = e /\ commit' # NoCommit BY <1>1 DEF NoCommit
  <2>2. e.deliveries[id].state # "attempting" BY <1>2, <1>4
  <2>3. /\ \A i \in DOMAIN store'.deliveries \ {run'[r].id} : commit'.doc.deliveries[i] = store'.deliveries[i]
        /\ Len(commit'.doc.deliveries) = Len(store'.deliveries)
        /\ commit'.doc.deliveries[run'[r].id].state # "attempting"
        /\ run'[r].id \in DOMAIN store'.deliveries
    BY <1>1, <1>2, <1>4, <1>5, <1>7, <2>1, <2>2
  <2>4. running' = r /\ run'[r].at = "settling" /\ run'[r].batch \in Batch
    BY <1>1, <1>2, <1>5, <1>7
  <2> QED BY <2>1, <2>3, <2>4 DEF RunIsSound, Owns, Holds
<1>14. \A q \in Runners : RunIsSound(q)' BY <1>1, <1>5, <1>6, <1>13, RunnerAlone
<1> QED BY <1>8, <1>9, <1>10, <1>11, <1>12, <1>14 DEF Inv

-----------------------------------------------------------------------------
(* The end of a commit                                                     *)

\* A runner that quits while no receipt it holds is left open, or after a failure.
LEMMA OpenAfterQuit ==
  ASSUME Inv, NEW r \in Runners, run[r].at # "idle", Quits(r),
         faults' \in Nat, faults' >= faults,
         DOMAIN store'.deliveries = DOMAIN store.deliveries,
         \A i \in DOMAIN store.deliveries \ {run[r].id} :
           store'.deliveries[i].state = store.deliveries[i].state,
         run[r].id \in DOMAIN store.deliveries =>
           faults' > 0 \/ store'.deliveries[run[r].id].state # "attempting"
  PROVE  OpenIsHeld'
<1> SUFFICES ASSUME NEW i \in DOMAIN store.deliveries, store'.deliveries[i].state = "attempting"
             PROVE  faults' > 0
  BY DEF OpenIsHeld
<1>1. CASE i = run[r].id BY <1>1
<1>2. CASE i # run[r].id
  <2>1. store.deliveries[i].state = "attempting" BY <1>2
  <2>2. faults > 0 \/ \E q \in Runners : run[q].id = i BY <2>1 DEF Inv, OpenIsHeld
  <2>3. i # None BY Deliveries DEF Inv, Types
  <2>4. \A q \in Runners : run[q].id # i BY <1>2, <2>3, OthersAreIdle
  <2>5. faults \in Nat BY DEF Inv, Types
  <2> QED BY <2>2, <2>4, <2>5
<1> QED BY <1>1, <1>2

\* The owner of a commit is the runner that waits for it.
LEMMA Owner ==
  ASSUME Inv, commit # NoCommit
  PROVE  /\ commit.by = User => \A r \in Runners : run[r].at \notin Owns
         /\ commit.by # User => commit.by \in Runners /\ run[commit.by].at \in Owns
BY CommitTypes DEF Inv, RunIsSound, CommitIsOwned

\* A commit that ends well shows the document that was written.
LEMMA CommittedKeeps == ASSUME Inv, Committed PROVE Inv'
<1>d. PICK doc : doc = commit.doc OBVIOUS
<1>1. /\ commit # NoCommit /\ ~diverged /\ store' = doc /\ durable' = doc /\ commit' = NoCommit
      /\ UNCHANGED <<diverged, inbox, now, edits, faults, crashes>>
  BY <1>d DEF Committed, Return, bounds
<1>2. doc \in Document /\ Sound(doc) /\ Extends(doc, store) /\ ReceiptsHold(doc)
  BY <1>1, <1>d, CommitTypes DEF Inv, DocumentsAreSound
<1>3. DocumentsAreSound'
  <2>1. Messages' = Messages BY <1>1 DEF Messages
  <2>2. ReceiptsHold(doc)' BY <1>2, <2>1 DEF ReceiptsHold, Told
  <2>3. Extends(doc, doc) BY DEF Extends
  <2>4. ReceiptsHold(store)' /\ ReceiptsHold(durable)' BY <1>1, <2>2 DEF ReceiptsHold
  <2> QED BY <1>1, <1>2, <2>3, <2>4 DEF Inv, DocumentsAreSound
<1>4. InboxIsRecorded' BY <1>1, <1>2, InboxCarries DEF Inv
<1>5. CommitIsOwned' BY <1>1 DEF CommitIsOwned
<1>t. ASSUME run' \in [Runners -> Run], running' \in Runners \cup {Nobody} PROVE Types'
  BY <1>1, <1>2, <1>t DEF Inv, Types
<1>6. CASE commit.by = User
  <2>1. running' = running /\ run' = run BY <1>6 DEF Committed, Return
  <2>2. doc.deliveries = store.deliveries BY <1>1, <1>6, <1>d DEF Inv, CommitIsOwned
  <2>3. \A r \in Runners : run[r].at \notin Owns BY <1>1, <1>6, Owner
  <2>4. OpenIsHeld' BY <1>1, <2>1, <2>2 DEF Inv, OpenIsHeld
  <2>5. \A r \in Runners : RunIsSound(r)' BY <1>1, <2>1, <2>2, <2>3, RunStays DEF Inv
  <2>6. Types' BY <1>t, <2>1 DEF Inv, Types
  <2> QED BY <1>3, <1>4, <1>5, <2>4, <2>5, <2>6 DEF Inv
<1>7. CASE commit.by # User
  <2>r. PICK r \in Runners : r = commit.by BY <1>1, <1>7, Owner
  <2>1. run[r].at \in Owns /\ run[r].at # "idle" BY <1>1, <1>7, <2>r, Owner DEF Owns
  <2>2. Continue(r, TRUE) BY <1>7, <2>r DEF Committed, Return
  <2>3. /\ run \in [Runners -> Run] /\ run[r] \in Run /\ run[r].batch \in Batch /\ running = r
    BY <2>1 DEF Inv, Types, RunIsSound, Owns, Holds
  <2>4. /\ DOMAIN doc.deliveries = 1 .. Len(doc.deliveries) /\ Len(doc.deliveries) \in Nat
        /\ DOMAIN store.deliveries = 1 .. Len(store.deliveries) /\ Len(store.deliveries) \in Nat
    BY <1>2, Deliveries DEF Inv, Types
  <2>5. CASE run[r].at = "reserving"
    <3>1. /\ Attempt(r, doc) /\ Len(doc.deliveries) = Len(store.deliveries) + 1
          /\ \A i \in DOMAIN store.deliveries : doc.deliveries[i] = store.deliveries[i]
          /\ run[r].id = None
      BY <1>d, <2>5 DEF Inv, RunIsSound
    <3>m. PICK mine : mine = [run[r] EXCEPT !.at = "rechecking", !.id = Len(doc.deliveries)] OBVIOUS
    <3>2. /\ mine \in Run /\ mine.at = "rechecking" /\ mine.id = Len(doc.deliveries)
          /\ mine.batch = run[r].batch
      BY <2>3, <2>4, <3>m DEF Run, Holds
    <3>3. run' = [run EXCEPT ![r] = mine] /\ running' = running
      BY <1>d, <2>2, <2>3, <2>5, <3>m DEF Continue
    <3>4. run' \in [Runners -> Run] /\ run'[r] = mine /\ \A q \in Runners \ {r} : run'[q] = run[q]
      BY <2>3, <3>2, <3>3
    <3>5. Types' BY <1>t, <2>3, <3>3, <3>4 DEF Inv, Types
    <3>6. OpenIsHeld'
      <4> SUFFICES ASSUME NEW i \in DOMAIN doc.deliveries, doc.deliveries[i].state = "attempting",
                          i # Len(doc.deliveries)
                   PROVE  faults > 0
        BY <1>1, <3>2, <3>4 DEF OpenIsHeld
      <4>1. i \in DOMAIN store.deliveries /\ store.deliveries[i].state = "attempting"
        BY <2>4, <3>1
      <4>2. \A q \in Runners : run[q].id = None BY <2>1, <3>1, OthersAreIdle
      <4>3. i # None BY <2>4, <4>1
      <4> QED BY <4>1, <4>2, <4>3 DEF Inv, OpenIsHeld
    <3>7. RunIsSound(r)'
      <4>1. Messages' = Messages /\ run'[r].batch = run[r].batch BY <1>1, <3>2, <3>4 DEF Messages
      <4>2. Attempt(r, store)' BY <1>1, <3>1, <4>1 DEF Attempt, Attempts
      <4> QED BY <1>1, <2>3, <3>2, <3>3, <3>4, <4>1, <4>2 DEF RunIsSound, Owns, Holds
    <3>8. \A q \in Runners : RunIsSound(q)' BY <2>1, <3>2, <3>3, <3>7, RunnerAlone
    <3> QED BY <1>3, <1>4, <1>5, <3>5, <3>6, <3>8 DEF Inv
  <2>6. CASE run[r].at = "settling"
    <3>1. Quits(r) BY <2>2, <2>6 DEF Continue, Quits
    <3>2. /\ run' \in [Runners -> Run] /\ running' = Nobody /\ \A q \in Runners : RunIsSound(q)'
      BY <2>1, <3>1, QuitIsSound
    <3>3. Types' BY <1>t, <3>2
    <3>4. /\ Len(doc.deliveries) = Len(store.deliveries)
          /\ \A i \in DOMAIN store.deliveries \ {run[r].id} : doc.deliveries[i] = store.deliveries[i]
          /\ doc.deliveries[run[r].id].state # "attempting"
      BY <1>d, <2>6 DEF Inv, RunIsSound
    <3>5. OpenIsHeld'
      <4>1. faults' \in Nat /\ faults' >= faults BY <1>1 DEF Inv, Types
      <4>2. DOMAIN store'.deliveries = DOMAIN store.deliveries BY <1>1, <2>4, <3>4
      <4> QED BY <1>1, <2>1, <3>1, <3>4, <4>1, <4>2, OpenAfterQuit
    <3> QED BY <1>3, <1>4, <1>5, <3>2, <3>3, <3>5 DEF Inv
  <2> QED BY <2>1, <2>5, <2>6 DEF Owns
<1> QED BY <1>6, <1>7

\* A commit that fails may be on disk all the same; nothing in memory follows from it.
LEMMA CommitFailsKeeps == ASSUME Inv, CommitFails PROVE Inv'
<1>1. /\ commit # NoCommit /\ commit' = NoCommit
      /\ UNCHANGED <<store, inbox, now, edits, crashes>>
  BY DEF CommitFails, Return
<1>2. /\ durable' \in {durable, commit.doc} /\ faults' \in Nat /\ faults' > 0 /\ faults' >= faults
      /\ diverged' \in BOOLEAN
  <2>1. faults \in Nat /\ diverged \in BOOLEAN /\ (diverged => faults > 0)
    BY DEF Inv, Types, DocumentsAreSound
  <2>2. CASE diverged /\ UNCHANGED <<durable, diverged, faults>> BY <2>1, <2>2
  <2>3. CASE faults' = faults + 1 /\ durable' \in {durable, commit.doc} /\ diverged' = (durable' # durable)
    BY <2>1, <2>3
  <2> QED BY <2>2, <2>3 DEF CommitFails
<1>3. /\ durable' \in Document /\ Sound(durable') /\ Extends(durable', store) /\ ReceiptsHold(durable')
  <2>1. CASE durable' = durable BY <2>1 DEF Inv, Types, DocumentsAreSound
  <2>2. CASE durable' = commit.doc BY <1>1, <2>2, CommitTypes DEF Inv, DocumentsAreSound
  <2> QED BY <1>2, <2>1, <2>2
<1>4. DocumentsAreSound'
  <2>1. Messages' = Messages BY <1>1 DEF Messages
  <2>2. ReceiptsHold(store)' /\ ReceiptsHold(durable)'
    BY <1>1, <1>3, <2>1 DEF Inv, DocumentsAreSound, ReceiptsHold, Told
  <2> QED BY <1>1, <1>2, <1>3, <2>2 DEF Inv, DocumentsAreSound
<1>5. InboxIsRecorded' BY <1>1 DEF Inv, InboxIsRecorded
<1>6. CommitIsOwned' BY <1>1 DEF CommitIsOwned
<1>7. OpenIsHeld' BY <1>2 DEF OpenIsHeld
<1>8. /\ run' \in [Runners -> Run] /\ running' \in Runners \cup {Nobody}
      /\ \A r \in Runners : RunIsSound(r)'
  <2>1. CASE commit.by = User
    <3>1. running' = running /\ run' = run BY <2>1 DEF CommitFails, Return
    <3>2. \A r \in Runners : run[r].at \notin Owns BY <1>1, <2>1, Owner
    <3>3. \A r \in Runners : RunIsSound(r)' BY <1>1, <3>1, <3>2, RunStays DEF Inv
    <3> QED BY <3>1, <3>3 DEF Inv, Types
  <2>2. CASE commit.by # User
    <3>r. PICK r \in Runners : r = commit.by BY <1>1, <2>2, Owner
    <3>1. run[r].at # "idle" BY <1>1, <2>2, <3>r, Owner DEF Owns
    <3>2. Quits(r) BY <2>2, <3>r DEF CommitFails, Return, Continue, Quits
    <3> QED BY <3>1, <3>2, QuitIsSound
  <2> QED BY <2>1, <2>2
<1>9. Types' BY <1>1, <1>2, <1>3, <1>8 DEF Inv, Types
<1> QED BY <1>4, <1>5, <1>6, <1>7, <1>8, <1>9 DEF Inv

-----------------------------------------------------------------------------
(* What holds of every behaviour                                           *)

\* Every step keeps the invariant.
LEMMA StepKeeps == Inv /\ [Next]_vars => Inv'
<1> SUFFICES ASSUME Inv, [Next]_vars PROVE Inv' OBVIOUS
<1>1. CASE Member BY <1>1, MemberKeeps
<1>2. CASE Committed BY <1>2, CommittedKeeps
<1>3. CASE CommitFails BY <1>3, CommitFailsKeeps
<1>4. CASE Tick BY <1>4, StillKeeps DEF Tick, Inv, Types
<1>5. CASE Crash BY <1>5, CrashKeeps
<1>6. ASSUME NEW r \in Runners, Start(r) \/ RunnerStep(r) PROVE Inv'
  BY <1>6, StartKeeps, AuthorizeKeeps, ReserveKeeps, SendKeeps, SettleKeeps DEF RunnerStep
<1>7. CASE UNCHANGED vars BY <1>7, StillKeeps DEF vars, Inv, Types
<1> QED BY <1>1, <1>2, <1>3, <1>4, <1>5, <1>6, <1>7 DEF Next

\* The state is well-formed: documents, receipts and what each deliver_work holds keep
\* their shapes, and Inv ties what was sent to what is on record.
THEOREM DeliveryIsSound == Spec => []Inv
<1> QED BY Inits, StepKeeps, PTL DEF Spec

\* next_batch, reserve_resolved_batch and mark_interrupted_deliveries together: no reminder,
\* no briefing and no change is told twice, whatever fails between them.
THEOREM NothingIsToldTwice == Spec => []ToldOnce
<1>1. Inv => ToldOnce
  <2> SUFFICES ASSUME Inv, NEW i \in DOMAIN inbox, NEW j \in DOMAIN inbox, i < j
               PROVE  inbox[i].id # inbox[j].id /\ Apart(inbox[i].batch, inbox[j].batch)
    BY DEF ToldOnce, Apart
  <2>1. /\ inbox[i].id \in DOMAIN store.deliveries /\ inbox[j].id \in DOMAIN store.deliveries
        /\ inbox[i].id < inbox[j].id
        /\ inbox[i].batch = store.deliveries[inbox[i].id].batch
        /\ inbox[j].batch = store.deliveries[inbox[j].id].batch
    BY DEF Inv, InboxIsRecorded
  <2>2. Apart(inbox[i].batch, inbox[j].batch) BY <2>1 DEF Inv, DocumentsAreSound, Sound
  <2>3. DOMAIN store.deliveries \subseteq Nat BY Deliveries DEF Inv, Types
  <2> QED BY <2>1, <2>2, <2>3
<1> QED BY <1>1, DeliveryIsSound, PTL

\* Whatever deliver_work and the members write, validate_delivery_state accepts it when the
\* service starts again.
THEOREM DiskIsReloadable == Spec => []Reloadable
<1>1. Inv => Reloadable
  BY DEF Inv, DocumentsAreSound, Sound, Recorded, Whole, Reloadable, Receipts
<1> QED BY <1>1, DeliveryIsSound, PTL

\* settle_delivery and mark_interrupted_deliveries: sent means accepted by Discord, and an
\* attempt is open only while deliver_work has it, or after the disk failed.
THEOREM ReceiptsTellTheTruth == Spec => []ReceiptsAreTrue
<1>1. Inv => ReceiptsAreTrue
  BY DEF Inv, DocumentsAreSound, ReceiptsHold, Told, OpenIsHeld, ReceiptsAreTrue
<1> QED BY <1>1, DeliveryIsSound, PTL

\* The messages of a day are among the attempts of that day.
LEMMA SentAreAttempts ==
  ASSUME Inv, NEW day
  PROVE  /\ Cardinality({i \in DOMAIN inbox : inbox[i].batch.day = day}) <= Attempts(store, day)
         /\ Cardinality({i \in DOMAIN inbox : inbox[i].batch.day = day}) \in Nat
<1> DEFINE sent == {i \in DOMAIN inbox : inbox[i].batch.day = day}
           tried == {i \in DOMAIN store.deliveries : DayOf(store.deliveries[i].at) = day}
           id == [i \in sent |-> inbox[i].id]
<1>1. ASSUME NEW i \in sent PROVE id[i] \in tried
  <2>1. /\ inbox[i].id \in DOMAIN store.deliveries
        /\ inbox[i].batch = store.deliveries[inbox[i].id].batch
    BY DEF Inv, InboxIsRecorded
  <2>2. Recorded(store, store.deliveries[inbox[i].id])
    BY <2>1 DEF Inv, DocumentsAreSound, Sound
  <2> QED BY <2>1, <2>2 DEF Recorded
<1>2. ASSUME NEW i \in sent, NEW j \in sent, i # j PROVE id[i] # id[j]
  <2>1. DOMAIN inbox \subseteq Nat BY MessageTypes DEF Inv
  <2>2. i < j \/ j < i BY <1>2, <2>1
  <2>3. inbox[i].id < inbox[j].id \/ inbox[j].id < inbox[i].id
    BY <2>2 DEF Inv, InboxIsRecorded
  <2>4. inbox[i].id \in Nat /\ inbox[j].id \in Nat
    BY Deliveries DEF Inv, InboxIsRecorded, Types
  <2> QED BY <2>3, <2>4
<1>3. id \in Injection(sent, tried)
  <2>1. id \in [sent -> tried] BY <1>1
  <2>2. \A i, j \in sent : id[i] = id[j] => i = j BY <1>2
  <2> HIDE DEF id, sent, tried
  <2> QED BY <2>1, <2>2 DEF Injection, IsInjective
<1>4. IsFiniteSet(tried) BY AttemptsAreFinite DEF Inv, Types
<1>5. Cardinality(tried) = Attempts(store, day) BY DEF Attempts
<1> HIDE DEF id, sent, tried
<1>6. Cardinality(sent) <= Cardinality(tried) /\ Cardinality(sent) \in Nat
  BY <1>3, <1>4, FS_Injection, FS_CardinalityType
<1> QED BY <1>5, <1>6 DEF sent

\* deliver_work's last look before it sends: the policy, the quiet hours, the limit of the
\* day and the audience are those of the moment, not those of the plan.
THEOREM SendingIsAllowed == Spec => SentAsAllowed
<1> DEFINE Allowed ==
      inbox' # inbox =>
        LET m == inbox'[Len(inbox')].batch
        IN  /\ store.policy = m.policy /\ store.policy.enabled
            /\ Cardinality({i \in DOMAIN inbox' : inbox'[i].batch.day = DayOf(now)})
                 <= store.policy.terms.daily_limit
            /\ ~Quiet(store.policy.terms, HourOf(now))
            /\ store.project.members = run[running].members
<1>1. ASSUME Inv, Inv', [Next]_vars PROVE Allowed
  <2> SUFFICES ASSUME inbox' # inbox PROVE Allowed OBVIOUS
  <2>1. PICK r \in Runners : Send(r)
    BY <1>1 DEF Next, Member, Committed, CommitFails, Tick, Crash, Start, RunnerStep, Authorize,
                Reserve, Settle, vars
  <2>2. /\ run[r].at = "rechecking" /\ store.project.members = run[r].members
        /\ StillValid(store, now, run[r].batch) /\ store' = store
        /\ inbox' = Append(inbox, [id |-> run[r].id, batch |-> run[r].batch])
    BY <2>1 DEF Send, Delivered, Unmoved
  <2>3. running = r /\ Attempt(r, store) BY <1>1, <2>2 DEF Inv, RunIsSound
  <2>4. inbox'[Len(inbox')].batch = run[r].batch
    <3>1. inbox \in Seq(Message) /\ inbox' \in Seq(Message) BY <1>1 DEF Inv, Types
    <3>2. Len(inbox') = Len(inbox) + 1 BY <2>2, <3>1
    <3> QED BY <2>2, <3>1, <3>2
  <2>5. /\ store.policy = run[r].batch.policy /\ store.policy.enabled
        /\ ~Quiet(store.policy.terms, HourOf(now)) /\ DayOf(now) = run[r].batch.day
    BY <2>2 DEF StillValid, StillAllowed
  <2>6. Cardinality({i \in DOMAIN inbox' : inbox'[i].batch.day = DayOf(now)})
          <= store.policy.terms.daily_limit
    <3>1. PICK day : day = DayOf(now) OBVIOUS
    <3>2. (/\ Cardinality({i \in DOMAIN inbox : inbox[i].batch.day = day}) <= Attempts(store, day)
           /\ Cardinality({i \in DOMAIN inbox : inbox[i].batch.day = day}) \in Nat)'
      BY <1>1, SentAreAttempts, PTL
    <3>3. Attempts(store, day) <= store.policy.terms.daily_limit BY <2>3, <2>5, <3>1 DEF Attempt
    <3>4. Attempts(store, day) \in Nat /\ store.policy.terms.daily_limit \in Nat
      BY <1>1, AttemptsAreFinite DEF Inv, Types, Document, Policy
    <3>n. PICK n : n = Cardinality({i \in DOMAIN inbox' : inbox'[i].batch.day = day}) OBVIOUS
    <3>5. n <= Attempts(store', day) /\ n \in Nat BY <3>2, <3>n
    <3>6. Attempts(store', day) = Attempts(store, day) BY <2>2
    <3>7. n <= store.policy.terms.daily_limit BY <3>3, <3>4, <3>5, <3>6
    <3> QED BY <3>1, <3>7, <3>n
  <2> QED BY <2>2, <2>3, <2>4, <2>5, <2>6
<1> QED BY <1>1, DeliveryIsSound, PTL DEF Spec, SentAsAllowed
=============================================================================
