---------------------------- MODULE WorkDelivery ----------------------------
(***************************************************************************)
(* Delivery of work reminders, briefings and changes of one scope to       *)
(* Discord: planning (work/schedule.rs), the attempt, which is reserved in *)
(* the canonical state before anything is sent and settled after           *)
(* (runtime/work_delivery.rs, work/delivery_lifecycle.rs), against members *)
(* who edit the work meanwhile, permissions that vanish, a disk that       *)
(* fails, answers that are lost and restarts.                              *)
(*                                                                         *)
(* A task's content is its status; titles and the like behave the same.    *)
(* Hours are the unit of time.  Commits are CanonicalState's: one at a     *)
(* time, durable before they show, and refused once memory and the         *)
(* document on disk have parted.                                           *)
(***************************************************************************)
EXTENDS Naturals, Sequences, FiniteSets

CONSTANTS
  Tasks,        \* the scope's tasks, numbers in the order of urgency
  Runners,      \* invocations of deliver_work
  Nobody,       \* no runner
  User,         \* a member, as the owner of a commit
  Terms,        \* policies to choose from
  Day,          \* hours of a day
  MaxItems,     \* items of one batch
  MaxNow,       \* bound on time
  MaxEdits,     \* bound on edits by members
  MaxFaults,    \* bound on failing commits
  MaxCrashes    \* bound on restarts

ASSUME DeliveryAssumption ==
  /\ Tasks \subseteq Nat /\ Nobody \notin Runners /\ User \notin Runners
  /\ Day \in Nat \ {0} /\ MaxItems \in Nat \ {0} /\ MaxNow \in Nat
  /\ Terms \subseteq [quiet_start : 0..Day - 1, quiet_end : 0..Day - 1,
                      briefing_hour : 0..Day - 1, daily_limit : Nat \ {0}]

VARIABLES
  store,       \* the WorkStore in memory
  durable,     \* the WorkStore on disk
  commit,      \* the commit being written
  diverged,    \* the disk holds a document memory does not descend from
  running,     \* work_delivery_running
  run,         \* per runner, where it is and what it holds
  inbox,       \* history: what Discord accepted
  now,         \* hours
  edits,       \* edits so far
  faults,      \* failed commits so far
  crashes      \* restarts so far

bounds == <<edits, faults, crashes>>
vars == <<store, durable, commit, diverged, running, run, inbox, now, bounds>>

None == 0
NoBatch == [kind |-> "none"]
NoCommit == [by |-> Nobody]
AtRest == [at |-> "idle", members |-> None, batch |-> NoBatch, id |-> None, answer |-> FALSE]

FirstHour == 2 * Day

\* The reminder is set for the first hour.
FirstTask == [revision |-> 1, open |-> TRUE, snoozed_until |-> None, remind_at |-> FirstHour,
              reminder_revision |-> 1]

Refs(d, some) == {[task |-> k, revision |-> d.tasks[k].revision] : k \in some}

\* Automation has been switched on: what is there already is no news.
FirstStore(terms) ==
  LET d == [tasks |-> [k \in Tasks |-> FirstTask],
            project |-> [revision |-> 1, members |-> 1],
            policy |-> [enabled |-> TRUE, revision |-> 1, terms |-> terms],
            told |-> [k \in Tasks |-> TRUE], covered |-> {}, deliveries |-> <<>>]
  IN  [d EXCEPT !.covered = Refs(d, Tasks)]

Init ==
  /\ \E terms \in Terms : store = FirstStore(terms)
  /\ durable = store /\ commit = NoCommit /\ diverged = FALSE
  /\ running = Nobody /\ run = [r \in Runners |-> AtRest]
  /\ inbox = <<>> /\ now = FirstHour
  /\ edits = 0 /\ faults = 0 /\ crashes = 0

-----------------------------------------------------------------------------
(* Planning                                                                  *)

DayOf(t) == t \div Day
HourOf(t) == t % Day

Quiet(terms, hour) ==
  CASE terms.quiet_start < terms.quiet_end ->
         hour >= terms.quiet_start /\ hour < terms.quiet_end
    [] terms.quiet_start > terms.quiet_end ->
         hour >= terms.quiet_start \/ hour < terms.quiet_end
    [] OTHER -> FALSE

Receipts(d) == {d.deliveries[i] : i \in DOMAIN d.deliveries}
AttemptsSent(d, day) ==
  Cardinality({i \in DOMAIN d.deliveries : /\ DayOf(d.deliveries[i].at) = day
                                           /\ d.deliveries[i].state = "sent"})
Attempts(d, day) == Cardinality({i \in DOMAIN d.deliveries : DayOf(d.deliveries[i].at) = day})

Awake(d, t) == {k \in Tasks : d.tasks[k].snoozed_until <= t}
Open(d, t) == {k \in Awake(d, t) : d.tasks[k].open}

\* The day whose briefing is due: an evening briefing inside overnight quiet hours
\* becomes eligible the next morning.
Occurrence(terms, t) ==
  IF /\ HourOf(t) < terms.briefing_hour /\ terms.quiet_start > terms.quiet_end
     /\ terms.briefing_hour >= terms.quiet_start
    THEN DayOf(t) - 1 ELSE DayOf(t)

BriefingDue(d, t) ==
  LET day == Occurrence(d.policy.terms, t)
  IN  /\ Open(d, t) # {} /\ t >= day * Day + d.policy.terms.briefing_hour
      /\ \A r \in Receipts(d) :
           r.batch.key # day /\ ~(r.batch.kind = "briefing" /\ DayOf(r.at) = DayOf(t))

Reminder(d, k) == [task |-> k, revision |-> d.tasks[k].reminder_revision,
                   at |-> d.tasks[k].remind_at]

Due(d, t) == {Reminder(d, k) : k \in {k \in Open(d, t) : d.tasks[k].remind_at \in 1..t}}
Undelivered(d, t) ==
  {c \in Due(d, t) : \A r \in Receipts(d) : c \in r.batch.coverage => r.state # "sent"}
Coverage(d, t) == {c \in Due(d, t) : \A r \in Receipts(d) : c \notin r.batch.coverage}

Changes(d, t) == {k \in Awake(d, t) : /\ d.told[k] # d.tasks[k].open
                                      /\ Refs(d, {k}) \cap d.covered = {}}

Lowest(some) == {k \in some : Cardinality({j \in some : j < k}) < MaxItems}

PlannedCoveringAll(d, t, kind, some) ==
  LET items == Lowest(some)
  IN  [kind |-> kind, refs |-> Refs(d, items), coverage |-> Coverage(d, t),
       key |-> IF kind = "briefing" THEN Occurrence(d.policy.terms, t) ELSE None,
       day |-> DayOf(t), policy |-> d.policy, project |-> d.project.revision,
       revisions |-> Refs(d, items \cap Open(d, t))]

Planned(d, t, kind, some) ==
  LET items == Lowest(some)
  IN  [kind |-> kind, refs |-> Refs(d, items),
       coverage |-> {c \in Coverage(d, t) : c.task \in items},
       key |-> IF kind = "briefing" THEN Occurrence(d.policy.terms, t) ELSE None,
       day |-> DayOf(t), policy |-> d.policy, project |-> d.project.revision,
       revisions |-> Refs(d, items \cap Open(d, t))]

\* next_batch
NextBatch(d, t) ==
  LET reminded == {c.task : c \in Coverage(d, t)}
  IN  IF \/ ~d.policy.enabled \/ Quiet(d.policy.terms, HourOf(t))
         \/ Attempts(d, DayOf(t)) >= d.policy.terms.daily_limit THEN NoBatch
      ELSE IF BriefingDue(d, t) THEN Planned(d, t, "briefing", Open(d, t))
      ELSE IF reminded # {} THEN Planned(d, t, "reminder", reminded)
      ELSE IF Changes(d, t) # {} THEN Planned(d, t, "changes", Changes(d, t))
      ELSE NoBatch

\* validate_reserved_batch
StillAllowed(d, t, batch) ==
  /\ d.policy = batch.policy /\ d.policy.enabled
  /\ d.project.revision = batch.project
  /\ ~Quiet(batch.policy.terms, HourOf(t)) /\ DayOf(t) = batch.day

StillValid(d, t, batch) ==
  /\ StillAllowed(d, t, batch)
  /\ \A ref \in batch.revisions : d.tasks[ref.task].revision = ref.revision

\* reserve_resolved_batch
Reserved(d, t, batch) ==
  LET items == {ref.task : ref \in batch.refs}
  IN  [d EXCEPT
        !.deliveries = Append(@, [at |-> t, state |-> "attempting", batch |-> batch]),
        !.told = [k \in Tasks |-> IF k \in items THEN d.tasks[k].open ELSE @[k]],
        !.covered = {ref \in @ : ref.task \notin items} \cup batch.refs]

SettledAsSent(d, id, answer) == [d EXCEPT !.deliveries[id].state = "sent"]

\* settle_delivery
Settled(d, id, answer) ==
  [d EXCEPT !.deliveries[id].state = IF answer THEN "sent" ELSE "review_required"]

\* mark_interrupted_deliveries, when a document is loaded
Loaded(d) ==
  [d EXCEPT !.deliveries = [i \in DOMAIN @ |->
     IF @[i].state = "attempting" THEN [@[i] EXCEPT !.state = "review_required"] ELSE @[i]]]

-----------------------------------------------------------------------------
(* Commits                                                                   *)

Write(owner, document) ==
  /\ commit = NoCommit
  /\ commit' = [by |-> owner, doc |-> document]

\* Where a runner goes when its commit ends.
Continue(r, ok) ==
  IF run[r].at = "reserving" /\ ok
    THEN /\ run' = [run EXCEPT ![r].at = "rechecking", ![r].id = Len(commit.doc.deliveries)]
         /\ UNCHANGED running
    ELSE run' = [run EXCEPT ![r] = AtRest] /\ running' = Nobody

Return(ok) ==
  /\ commit' = NoCommit
  /\ IF commit.by = User THEN UNCHANGED <<running, run>> ELSE Continue(commit.by, ok)

Committed ==
  /\ commit # NoCommit /\ ~diverged
  /\ store' = commit.doc /\ durable' = commit.doc
  /\ Return(TRUE)
  /\ UNCHANGED <<diverged, inbox, now, bounds>>

\* A failed write may have changed the file all the same; after that every write
\* is refused.
CommitFails ==
  /\ commit # NoCommit
  /\ \/ diverged /\ UNCHANGED <<durable, diverged, faults>>
     \/ /\ ~diverged /\ faults < MaxFaults /\ faults' = faults + 1
        /\ durable' \in {durable, commit.doc}
        /\ diverged' = (durable' # durable)
  /\ Return(FALSE)
  /\ UNCHANGED <<store, inbox, now, edits, crashes>>

-----------------------------------------------------------------------------
(* Members                                                                   *)

Edited(k, change) == [store EXCEPT !.tasks[k] = [change EXCEPT !.revision = @ + 1]]

\* update_task with a status, which ends a snooze
UpdateTask(k) ==
  Write(User, Edited(k, [store.tasks[k] EXCEPT !.open = ~@, !.snoozed_until = None]))

\* set_reminder
SetReminder(k) ==
  /\ store.tasks[k].remind_at # now
  /\ Write(User, Edited(k, [store.tasks[k] EXCEPT !.remind_at = now,
                                                  !.reminder_revision = @ + 1]))

\* snooze_task: update_task, and set_reminder if there is a reminder
SnoozeTask(k) ==
  LET snoozed == [store.tasks[k] EXCEPT !.snoozed_until = now + 1]
      rearmed == [snoozed EXCEPT !.revision = @ + 1, !.remind_at = now + 1,
                                 !.reminder_revision = @ + 1]
  IN  Write(User, Edited(k, IF snoozed.remind_at \in {None, now + 1}
                              THEN snoozed ELSE rearmed))

SetMember ==
  \E n \in {1, 2} \ {store.project.members} :
    Write(User, [store EXCEPT !.project = [revision |-> @.revision + 1, members |-> n]])

ConfigureAutomation ==
  \E on \in BOOLEAN, terms \in Terms :
    /\ <<on, terms>> # <<store.policy.enabled, store.policy.terms>>
    /\ Write(User, [store EXCEPT !.policy = [enabled |-> on, terms |-> terms,
                                             revision |-> @.revision + 1]])

Member ==
  /\ (\E k \in Tasks : UpdateTask(k) \/ SetReminder(k) \/ SnoozeTask(k))
       \/ SetMember \/ ConfigureAutomation
  /\ edits < MaxEdits /\ edits' = edits + 1
  /\ UNCHANGED <<store, durable, diverged, running, run, inbox, now, faults, crashes>>

-----------------------------------------------------------------------------
(* deliver_work                                                              *)

Quits(r) == run' = [run EXCEPT ![r] = AtRest] /\ running' = Nobody
Unmoved == UNCHANGED <<store, durable, diverged, now, bounds>>

Start(r) ==
  /\ running = Nobody /\ NextBatch(store, now) # NoBatch
  /\ running' = r
  /\ run' = [run EXCEPT ![r] = [AtRest EXCEPT !.at = "authorizing",
                                              !.members = store.project.members]]
  /\ UNCHANGED <<commit, inbox>> /\ Unmoved

\* Discord grants access, or denies it, times out or the service is stopping.
Authorize(r) ==
  /\ run[r].at = "authorizing"
  /\ \/ /\ NextBatch(store, now) # NoBatch
        /\ run' = [run EXCEPT ![r].at = "authorized", ![r].batch = NextBatch(store, now)]
        /\ UNCHANGED running
     \/ Quits(r)
  /\ UNCHANGED <<commit, inbox>> /\ Unmoved

\* In the commit: the audience that was proved, and the same plan again.
Reserve(r) ==
  /\ run[r].at = "authorized" /\ commit = NoCommit
  /\ IF /\ store.project.members = run[r].members
        /\ NextBatch(store, now) = run[r].batch
       THEN /\ Write(r, Reserved(store, now, run[r].batch))
            /\ run' = [run EXCEPT ![r].at = "reserving"] /\ UNCHANGED running
       ELSE Quits(r) /\ UNCHANGED commit
  /\ UNCHANGED inbox /\ Unmoved

Answers(r, answer) == run' = [run EXCEPT ![r].at = "sent", ![r].answer = answer]
Delivered(r) == inbox' = Append(inbox, [id |-> run[r].id, batch |-> run[r].batch])

\* Access is proved and the plan compared once more, then the message goes out;
\* it may arrive although its answer does not.
Send(r) ==
  /\ run[r].at = "rechecking"
  /\ \/ Answers(r, FALSE) /\ UNCHANGED inbox
     \/ /\ store.project.members = run[r].members
        /\ StillValid(store, now, run[r].batch)
        /\ Delivered(r) /\ \E answer \in BOOLEAN : Answers(r, answer)
  /\ UNCHANGED <<commit, running>> /\ Unmoved

SettleAnswered(r) ==
  /\ run[r].at = "sent" /\ run[r].answer /\ commit = NoCommit
  /\ Write(r, Settled(store, run[r].id, run[r].answer))
  /\ run' = [run EXCEPT ![r].at = "settling"]
  /\ UNCHANGED <<running, inbox>> /\ Unmoved

Settle(r) ==
  /\ run[r].at = "sent" /\ commit = NoCommit
  /\ Write(r, Settled(store, run[r].id, run[r].answer))
  /\ run' = [run EXCEPT ![r].at = "settling"]
  /\ UNCHANGED <<running, inbox>> /\ Unmoved

RunnerStep(r) == Authorize(r) \/ Reserve(r) \/ Send(r) \/ Settle(r)

-----------------------------------------------------------------------------
Tick ==
  /\ now < MaxNow /\ now' = now + 1
  /\ UNCHANGED <<store, durable, commit, diverged, running, run, inbox, bounds>>

\* Restarted from the disk, which a commit in flight may have reached.
Crash ==
  /\ crashes < MaxCrashes /\ crashes' = crashes + 1
  /\ durable' \in {durable} \cup (IF commit # NoCommit /\ ~diverged THEN {commit.doc} ELSE {})
  /\ store' = Loaded(durable') /\ commit' = NoCommit /\ diverged' = FALSE
  /\ running' = Nobody /\ run' = [r \in Runners |-> AtRest]
  /\ UNCHANGED <<inbox, now, edits, faults>>

Next ==
  \/ Member \/ Committed \/ CommitFails \/ Tick \/ Crash
  \/ \E r \in Runners : Start(r) \/ RunnerStep(r)

\* Every call has a deadline and the writer answers; members, the clock, the
\* scheduler and crashes are free.
Fairness == WF_vars(Committed \/ CommitFails) /\ \A r \in Runners : WF_vars(RunnerStep(r))

Spec == Init /\ [][Next]_vars /\ Fairness

-----------------------------------------------------------------------------
(* Properties *)

Messages == {inbox[i] : i \in DOMAIN inbox}

\* Nothing is told twice, whatever was lost or restarted: no reminder, no briefing
\* of a day or on a day, and no change of a task that was told before.
ToldOnce ==
  \A i, j \in DOMAIN inbox : i < j =>
    LET first == inbox[i].batch
        second == inbox[j].batch
    IN  /\ inbox[i].id # inbox[j].id
        /\ first.coverage \cap second.coverage = {}
        /\ (first.kind = "briefing" /\ second.kind = "briefing") =>
             (first.key # second.key /\ first.day # second.day)
        /\ second.kind = "changes" => first.refs \cap second.refs = {}

\* Whatever is written can be loaded again: the loader refuses a document whose
\* receipts name a future revision, or a reminder that their message left out
\* (work/loading.rs, validate_delivery_state), and the service would not start.
Reloadable ==
  \A r \in Receipts(durable) :
    /\ r.batch.refs # {}
    /\ \A ref \in r.batch.refs : ref.revision <= durable.tasks[ref.task].revision
    /\ {c.task : c \in r.batch.coverage} \subseteq {ref.task : ref \in r.batch.refs}

\* A receipt that says sent is true, and a receipt is left open only while its
\* attempt is under way or after the disk failed.
ReceiptsAreTrue ==
  \A d \in {store, durable} : \A i \in DOMAIN d.deliveries :
    /\ d.deliveries[i].state = "sent" => (\E m \in Messages : m.id = i)
    /\ (d = store /\ d.deliveries[i].state = "attempting") =>
         (faults > 0 \/ \E r \in Runners : run[r].id = i)

\* A message goes out within the day's limit, under the policy and to the members
\* it was planned for, outside quiet hours.
SentAsAllowed ==
  [][inbox' # inbox =>
       LET m == inbox'[Len(inbox')].batch
       IN  /\ store.policy = m.policy /\ store.policy.enabled
           /\ Cardinality({i \in DOMAIN inbox' : inbox'[i].batch.day = DayOf(now)})
                <= store.policy.terms.daily_limit
           /\ ~Quiet(store.policy.terms, HourOf(now))
           /\ store.project.members = run[running].members]_vars

\* work_delivery.rs:104-105: what goes out is compared with the current revisions of
\* its sources.
SentIsCurrent ==
  [][inbox' # inbox => \A ref \in inbox'[Len(inbox')].batch.refs :
                          store.tasks[ref.task].revision = ref.revision]_vars

Unsettled == {i \in DOMAIN store.deliveries : store.deliveries[i].state = "attempting"}

\* Every attempt is settled, whatever Discord answers, unless the disk fails.
AttemptsSettle == Unsettled # {} ~> (Unsettled = {} \/ faults > 0)
=============================================================================
