# abbey-bot: a verification development

TLA+ models of the parts of abbey-bot whose correctness depends on the order of
events: who may be heard in a voice channel, whose facts a reply may use, what the
canonical state document holds after a failure, what the service tells its members
unasked, what a cleared card leaves behind, and what an interrupted installation
leaves on the machine. The models are translated from the source; TLC checks them on
small instances and TLAPS proves the most important properties for all of them.

`PROJECT.json` lists the components, runs, mutants, hazards and theorems, and for
every definition the lines it stands for. This file explains how they fit
together. Paths below are relative to `src/src`, those under `deploy/` and `docs/` to `src`.

## 1. The system

abbey-bot is one Tokio process: a Discord gateway client, a Telegram and a Slack
adapter, slash commands, a scheduler, and a set of stores that are kept in memory
and written to a state directory. It has no database and no peers; its
concurrency is that of tasks which interleave at every `.await` and at every lock,
of one blocking writer thread, of an external ledger behind a child process, and of
Discord, which delivers gateway payloads and interaction events in no particular order
with respect to REST calls. launchd keeps the process alive, and a shell script
replaces what launchd runs.

### Components, their state and operations

| Component | State | Operations | Modelled in |
|---|---|---|---|
| Voice consent store (`voice_consent.rs`, `voice_consent_store.rs`) | per guild a ledger of choices by event id, `revision`, `saved_revision`, `available`; on disk the ledger and a `pending` marker | change, flush (mark, replace, unlink), poison, invalidate, load | `VoiceConsentStore`, its promise `VoiceConsentPromise` |
| Voice runtime (`voice_session.rs`, `voice_session/*.rs`) | phase, epoch, participants, mode, actor control; under their own locks the activation authority (media gate, generation, pending start, attested roster, bound and retired Discord sessions), the transition lock, the desired mode | reserve, begin, bind, activate, revoke, pause, actor failure, mode switch, consent change, drain | `VoiceSession` |
| Voice commands, gateway events, the call's actor (`commands_voice.rs`, `commands_voice/*.rs`, `voice_local.rs`) | local variables across awaits; the Songbird call | `/voice join`, `leave`, `mode`, `agree`, `withdraw`; auto-listen; voice-state payloads; the receive loop | `VoiceCall` |
| Voice registry (`voice_registry.rs`) | runtimes by guild, start reservations, configuration, draining | reserve, cancel, publish, retire, drain | reservations and draining in `VoiceCall` |
| Canonical state and its writer (`persist.rs`, `service/persistence.rs`, `runtime/work_commit.rs`, `runtime/learning_erasure.rs`) | `Stores` in memory with `canonical_base`, the preparation mutex, the writer's queue, the state document and the projections | commit, scheduled snapshot, erasure, write, publish, load | `CanonicalState` |
| Service lifecycle (`service.rs`, `service/*.rs`, `startup.rs`) | phase, admitted operations with abort policies, shutdown stages and their deadlines | admit, drain, reap, freeze, final write | `CanonicalState` |
| Work delivery (`work/schedule.rs`, `work/delivery*.rs`, `runtime/work_delivery.rs`, `gateway/work_delivery.rs`) | `WorkStore`: tasks, project, policy, contents told, covered revisions, receipts; `work_delivery_running` | plan, authorize, reserve, recheck, send, settle, mark interrupted | `WorkDelivery` |
| Work records (`work.rs`, `work/*.rs`, `commands_work.rs`) | projects, goals, tasks, decisions, preferences with revisions | edits by members | the edits delivery depends on, in `WorkDelivery` |
| Personal memory (`personal_memory.rs`, `persist/personal_memory.rs`, `runtime/personal_memory_commit*`) | facts and consent of each member, an epoch, a journal of withdrawals and activations beside the document, fences in memory, an uninstalled publication | allow, withdraw, remember, confirm, forget; replay, reconcile, recover; permits of replies | `PersonalMemory` |
| Engagement (`engagement*`, `runtime/engagement_*`, `gateway/engagement_*`, `commands_engage/*`) | profiles, approvals, community settings, candidates, charges, the erasure ledger | observe, propose, reserve, generate, prove, send, settle, erase, recover | `Engagement` |
| Continuity (`work/continuity.rs`, `commands_work/continuity.rs`, `runtime/continuity_*.rs`) | proposals and grants, cards in the canonical document, fences, pending changes, orphans, forget memos | propose, confirm, clear, erase, reconcile, quote | `Continuity` |
| Installation (`deploy/install-launchd.sh`, `deploy/service_*.py`) | installed artifacts, backups, the lock, launchd's job, the service's documents | install, install a qualified candidate, uninstall, watch, roll back | `Installation` |
| Memory service, gates and review (`runtime/memory_service.rs`, `memory_gate.rs`, `memory_review.rs`, `episode_gate.rs`, `checkpoint_gate.rs`) | facts, proposals, receipts, a queue of candidates; an external ledger | remember, supersede, forget, drain | its edits of facts in `PersonalMemory`; the ledger's answers in `Continuity` |
| Work recall (`work/recall*.rs`, `runtime/work_recall.rs`) | admitted payloads and tombstones, the projection on disk | admit, forget, project, invalidate | the projection claim in `CanonicalState` |
| Provider circuit (`provider.rs`, `provider/circuit.rs`) | availability, permits and times | reserve, complete, restore | not modelled: a small sequential machine whose inputs are the timing of remote providers |
| Action approval (`action_approval.rs`) | proposals with approver, expiry, fingerprint, state | propose, confirm, begin, finish | not modelled: confirmed and begun inside one lock section each |
| Community operations, server plans (`community_ops.rs`, `server.rs`) | policies, files, a plan being applied | validate, transact, apply | not modelled: sequential, under one lock or without state |
| Replies (`generation.rs`, `pipeline.rs`, `engine.rs`, `llm.rs`) | a reply being streamed; the queue of events | accept, generate, edit in place, cancel | not modelled, but for the permits and cards a reply holds (`PersonalMemory`, `Continuity`) |
| Brains (`brain/`) | weights, pending rewards | act, settle | not modelled: floating-point arithmetic; its persistence is the notes of `CanonicalState` |
| Music (`music.rs`, `player_control.rs`, `audio_tap.rs`) | owner of the player | play, stop, tap | not modelled |
| Speech, gateway adapters, vector store, command texts, routing heuristics, guild settings, environment | - | - | not modelled: I/O, formats, rendering or sequential rules that their unit tests cover |

### How they interact

* A voice start reserves a token (registry and activation authority), checks
  permissions by REST, takes the runtime's transition lock, posts a notice, joins by
  Songbird, verifies the roster and only then opens the media gate. Between any two
  of these awaits the gateway delivers members who join or leave, the bot being
  moved, lost permissions; members agree or withdraw by button or by voice; someone
  calls leave or switches the mode; the service drains.
* The receive loop and every event handler ask the gate, under one short lock,
  whether audio may be heard; closing the gate is immediate, tearing the call down
  is a later task.
* The runtime asks the consent store whether a member's agreement is saved. A
  change of consent that stops a session is applied to the gate before the store
  writes.
* Work commits, scheduled snapshots, erasures, personal-memory transactions and
  continuity changes take the preparation mutex, build a complete document, queue it to
  the retained writer and publish to memory what was written. Handlers change memory
  without it. While the personal-memory journal holds anything, the writer refuses
  every other document (`service/persistence.rs:275`).
* Work delivery and engagement use two such commits around a send: the reservation
  before, the settlement after.
* A reply captures permits to use a member's facts and, if there is one, a continuity
  card; both are checked again before anything is shown. Withdrawals, clears and
  erasures close them at once, and the files follow.
* The erasure of a member's learning starts with the cards linked to the member, goes
  through the engagement ledger and ends with one canonical write.
* At shutdown the root closes admission, cancels handlers, waits for what must not
  be cancelled, freezes the service and queues one final document.
* The installer stops the service through launchd, replaces its files and watches the
  documents in which the new process says that it starts, fails or is ready.

### What is hard, and what makes each part correct

* Consent to audio: three file operations per write, each of which may fail or be the
  last before a power loss; choices out of order; a withdrawal accepted while an
  agreement is being written. Correct when no agreement that was withdrawn
  authorises audio again, and "saved" is said only of what binds every later process.
* Voice runtime and calls: stops and starts race, teardown is asynchronous and may hit a
  newer call, payloads arrive late. Correct when the gate is open only for the current
  epoch, for members who were announced and still agree, in the mode they were told,
  through the bound call; when no start that was overtaken opens it; and when a closed
  gate is followed by the end of its call and of no other.
* Canonical state: memory moves while the disk is written; a rename may have
  happened although the write failed. Correct when acknowledged changes survive,
  erased ones do not come back, uncertain writes are not overwritten and a clean
  shutdown has written everything.
* Personal memory: a withdrawal is admitted while another transaction is between its
  journal, two writes of the document and the projection. Correct when a withdrawn
  member is not used, not even after a restart, permits do not outlive a withdrawal and
  a confirmed change is what the next process loads.
* Work delivery and engagement: an answer may be lost, a restart may fall between send
  and settlement, members edit, stop, erase or come back meanwhile. Correct when nothing
  is told twice, receipts and budgets are true, and what goes out is still allowed and
  agreed to when it goes out.
* Continuity: a card lives in a ledger and in the document, and either change may fail or
  only its answer. Correct when what was reported as removed is not quoted again and no
  admitted receipt is out of reach of a later clear.
* Installation: any phase may fail, be interrupted or be killed while the service
  respawns. Correct when what was there before can be put back, and a report of success
  speaks of the run and the binary that were watched.

## 2. The modules

| Module | Code it stands for | Role |
|---|---|---|
| `VoiceConsentPromise` | `voice_consent.rs`, the contract in the head of `voice_consent_store.rs` | abstract specification of the consent store |
| `VoiceConsentStore` | `voice_consent.rs`, `voice_consent_store.rs` | the ledger, its flusher and its directory; implements `VoiceConsentPromise` |
| `VoiceRuntime` | `voice_session.rs` | the state the two modules below share, and what is promised of it |
| `VoiceSession` | `voice_session.rs`, `voice_session/activation.rs`, `voice_session/ownership.rs` | every method of `VoiceRuntime` as one action |
| `VoiceCall` | `commands_voice/*.rs`, `voice_local.rs`, `voice_registry.rs` | the tasks that call the methods, between awaits; implements `VoiceSession` |
| `CanonicalState` | `persist.rs`, `service/persistence.rs`, `runtime/work_commit.rs`, `runtime/learning_erasure.rs`, `service.rs`, `startup.rs` | commits, snapshots, erasures, the writer, shutdown, crashes |
| `WorkDelivery` | `work/schedule.rs`, `work/delivery_lifecycle.rs`, `work/loading.rs`, `runtime/work_delivery.rs`, `gateway/work_delivery.rs` | planning and the attempt against edits, lost answers and restarts |
| `PersonalMemory` | `personal_memory.rs`, `persist/personal_memory.rs`, `runtime/personal_memory_commit*` | consent and facts across journal, document and projection |
| `Engagement` | `engagement*`, `runtime/engagement_*`, `gateway/engagement_*` | unsolicited contact against members who move, erase and return |
| `Continuity` | `runtime/continuity_commit.rs`, `runtime/continuity_context.rs`, `work/continuity.rs`, `commands_work/continuity.rs` | one card in the document and the ledger, its fences and its readers |
| `Installation` | `deploy/install-launchd.sh`, `deploy/service_transaction.py`, `deploy/service_readiness.py` and their helpers | installers, launchd and the service they watch |
| `PersonalMemoryInvariant` | - | the invariants that `PersonalMemoryProofs` proves and argues from |
| `VoiceConsentStoreProofs`, `VoiceCallProofs`, `CanonicalStateProofs`, `InstallationProofs`, `ContinuityProofs`, `WorkDeliveryProofs`, `PersonalMemoryProofs`, `EngagementProofs` | - | TLAPS proofs about the module they are named for; `VoiceCallProofs` has those about `VoiceSession` too |
| `MC*` | - | the instances TLC checks |

Operators whose name says what is wrong with them (`LoadDespiteMarker`,
`StopsWhenPresent`, `ReplyBeforeSync`, `RefusedDropsReceipt`, ...) belong to no
specification. Each is a plausible mistake in the definition that follows it; `mutants`
in `PROJECT.json` names the property that tells the two apart.

### VoiceConsentStore

State: `ledger`, `revision`, `saved_revision`, `available` are the fields under the
state mutex; `waiting`, `writer`, `flushed` are the blocking jobs before, in and
after `flush`; `disk` is the directory as the process sees it and `survives` what a
power loss may make of each name, since only `sync_dir` makes a rename or an unlink
certain. An action of the flush loop is what it does between two lock sections:
`Snapshot`, `Mark`, `SyncMark`, `Replace`, `SyncReplace`, `Unlink`, `SyncUnlink`,
`Settle`, and after an error `Poison`, `Invalidate`. `Kill` and `PowerLoss` end in
`Load`. `withdrawn` and `floor` are history: the latest durably marked withdrawal per
member, and the event ids of earlier processes (Discord's ids grow).

It implements `VoiceConsentPromise`, in which there is no disk: `choices` is the
ledger, `usable` the members whose agreement authorises audio, `withdrawn` itself.
The refinement (`KeepsPromise`) says that a choice makes everything unusable until
it is saved, that withdrawals only become binding, and that a restart finds some
ledger that honours the binding ones.

Two things a reader might not expect, both in the code: an invalidation that removes
the old ledger leaves, after a restart, an empty ledger that accepts choices; and a
job the draining service refuses leaves the old file without a marker, so a
withdrawal the member was not told is saved may be gone after the restart.

### VoiceSession and VoiceCall

`VoiceRuntime`'s methods change its state in one critical section of
`activation_gate` each, so `VoiceSession` has one action per method and lets anyone
call any method at any time. `epoch` stands for counters that move together.
The conventions the methods rely on are in the guards of `Starting`, `Closing`,
`Stopping` and `Choosing`.

`VoiceCall` has the tasks. A start is a task with a program counter
(`requested`, `preparing`, `locked`, ... `activating`, `returning`): an action is a
stretch between two awaits. The registry's reservation, the transition lock, the
Songbird call (its name is the attempt that joined), the receive handler's tick, the
pausers that handlers spawn, the actor of each epoch, leave and mode switch are
state of their own. `KeepsSession` is the refinement to `VoiceSession`: the callers
keep the conventions, so what is proved of the runtime holds of every call. A behaviour
is bounded by a member of `Bounds`, fixed in its initial state (`events.bound`), which
lets one run check several small instances.

Abstracted: the transition lock is taken by any waiter, not in order of arrival;
adverse payloads about the bot may be of any of its sessions and late (this also
covers a call left on Discord's side, and, by not happening, the grace window around
unmuting); `/voice leave` starts one task. Left out: music's use of the call, the
window in which verification is armed, replacing a runtime on new configuration,
presence at startup.

`voice_session.rs:263` keeps the ids of retired Discord sessions in a bounded list: a
late event of the oldest is no longer known as retired. The list and its bound are
modelled; that no event arrives later than the bound allows is Discord's affair.

The comment at `voice_session/activation.rs:152-155` argues that a mode switch may read
`phase` outside its lock because every phase transition takes `transition`. An actor
that fails (`actor_stop_to`, `voice_session.rs:146`) moves the phase without it. What the
comment is there to support still holds, since only a step under `transition` takes an
idle phase to a live one; `HeardAsAnnounced` says so and is proved.

### CanonicalState

A document is what it holds: `work`, the committed changes, and `notes`, what
handlers put into memory. `base` is `canonical_base`, the document memory descends
from. An operation holds `preparation` from `Prepare` until it has published;
`Compose` builds its snapshot, `Submit` queues it with the base, and the writer
takes it through `Take`, `Rename`, `Sync`, `Project` or one of the failures, of which
`FailSync` leaves the new document on disk and reports failure. `disk` is what a
process reads, `durable` what survives a crash. `PublishCommit`, `ObserveSnapshot` and
`CompleteErasure` are the three ways of taking the answer; the last reads the file
back, and promises nothing when the reading fails or finds another document. Shutdown is `root`:
`reaping`, `joined` or `timed_out`, `final`, `writing`, `ended`. `Crash` is also the
exit after a shutdown; operations under way are lost with it.

Left out: the personal-memory marker and lease the writer also checks (they are in
`PersonalMemory`), the durability of the projection files, the substitution the
checkpoint gate may make.

### WorkDelivery

`store` is the `WorkStore` of one scope; a task is its status, revisions, reminder
and snooze. Planning (`NextBatch`, `Coverage`, `Changes`, `BriefingDue`, `Occurrence`,
`Quiet`) is translated as operators over the store. A run of `deliver_work` is
`Start`, `Authorize`, `Reserve`, `Send`, `Settle`, with a `commit` in progress between
them; members edit by the same commits. `CommitFails` and `diverged` say of the disk what
`CanonicalState` shows of it: a failed write may have changed the file, after which
every write is refused. `Send` may deliver and lose the answer; `Crash` reloads with
`mark_interrupted_deliveries`.

Left out: decisions (their content never changes), several projects in a scope,
learned preferences, time zones, delivery by private message. Receipts are never
removed, and after 10,000 of them every reservation is refused and automation stops
silently (`work/schedule.rs:513`); that bound is out of reach of any instance and left out.

### PersonalMemory

`revision` and `consent_epoch` of the code only move together and are one counter; the
digest `canonical_base` is the document it stands for; a member has one fact, stored or
not, proven to be the member's own or not. `tx` is the transaction that holds the
preparation: `StartReplay`, `StartFresh`, `StartMark` and `RefuseFresh` are its
beginnings, then `PublishMark`, `WriteCandidate`, `Project`, `Check`, `Retire`, `Install`,
`Finish`, each with a failure before or after it took effect. `AdmitWithdrawal` closes the
use of facts in memory (`Fence`, `denials`) while another transaction is under way;
`FoldDenials` and `Merged` carry the fence into what that transaction publishes.
`Crash` is the death of the process; `RecoverDocument`, `RecoverJournal` and
`RecoveryFails` are the next start. `turn` is a reply: `Capture` takes its permits,
`Deliver` uses them if they still validate.

`acked` is what the member was told of the last change, and it ends with the member's next
one. `latest` is the change of each kind that the member has begun last, and only its
confirmation counts: the replay of an older change is answered with the result recorded
then, although a newer change may have gone through since, so that answer says nothing of
the present.
An edit by the memory service (`Learn`, `Unlearn`) counts as such for an activation,
because the code lets one pair of failures through: an activation that is fully published
may fail to empty the journal and then to record its denial; an edit by the memory service
then moves the member's record in memory, where the use is off; and a replay of the
activation rebases onto that record, which keeps the use off
(`runtime/personal_memory_commit/reconciliation.rs:107-131`), while it still answers with
the recorded "on". The member is told that the use is on and it is off. No fact is used
against a choice, and `WithdrawnIsUnused` and `PermitsEnd` are not concerned.

Left out: cutoffs, exposure receipts, callers that join a request under way, limits of the
tables, digests, `memory_receipts`. Only the death of the process is modelled, not a power
loss. An action under way dies with the process unless a file recorded it.

### Engagement

Contact of three kinds: a follow-up to a member on an unresolved exchange, a public
question nobody answered, and an introduction of two members which both approve. All
commits hold one lock, and only steps that do not write the store come between the
document a commit is computed from and its publication, so a commit is one step
(`Commits`, `Fails`). `engine` is a pass of `deliver_engagement`: `Gather`, `Propose`,
`BeginPass`, `Pick`, `Authorize`, `Reserve`, `Prove`, `Sent` or `Unsent`, `Settle`. Sending
is `Ready`, the last check under the lock, together with Discord's acceptance. Time counts
parts of a day and passes only while no exchange is being assessed; a contact counts for the
day of its charge. `posts`, `withdrawn`, `shown`, `agreed` and `forgotten` are history.

Left out: weekly check-ins and limits, invitations, starters, welcomes, project check-ins,
task-linked follow-ups, private destinations, pruning, feedback, the caps of the ledger, the
cursor of the community pass, direct messages, several guilds. "rejected" stands for
rejected and for cancelled by the end of the process.

### Continuity

The card of one team scope; a card is the proposal it was confirmed from. `safety` is
`ContinuitySafety`: `generation`, `blocked` (the fence), `pending`, `orphan`, `forgets`.
`memory`, `base` and `disk` are the document, `ledger` and `gated` the external ledger and
whether this process is configured to ask it, `receipts` the cards that carry a receipt.
`job` is the owner of the preparation; a step of it is a stretch between two awaits:
`ConfirmStart` ... `ConfirmFinal`, `ReconcileStart`, `OrphanStart`, `TargetStart`,
`AdmitForgotten` or `AdmitForget`, `RemoveOrphan` or `RemoveCard`, `Publish`, `ClearReport`,
`EraseUnfence`, `EraseReport`. `Publish` writes, reads the file back and settles if it holds
exactly the snapshot, whatever the writer reported. `reader` is a reply: `Capture`,
`ReadVerify`, `Admit`, `CaptureAgain` and both again before output. `Write` is any other
canonical write, which carries the pending change (`Snapshot` is `overlay_continuity`).

Abstracted: access checks, cancelled proofs and the ledger's refusals are nondeterministic
(`GivesUp`, `ConfirmRefused`, `ReadEnds`); the end of a lifetime and the change of a source
are one `Lapse`. Left out: other scopes, which only move the shared generation; the limits of
256; the pruning of proposals; changes of task owners; late effects of a gate call whose
answer was given up; who may see a reply. A superseded receipt still verifies as live,
which is the ledger's affair.

Two things a reader might not expect, both in the code: a clear that finds no card reports
that there was none while a lapsed card that memory has pruned may stay in the file until the
next write; and a reconciliation whose write reported failure but whose file matches settles
and unfences the scope, then returns the error.

### Installation

An installer is a program counter over `install-launchd.sh` and its phases in
`service_transaction.py` (`Acquire`, `WriteOwner`, `Prepare`, `Capture`, `Stop`, `Publish`,
`Start`, `TakesPid`, `Poll`, `Commit`, `Restore`, `Uninstall`, `Release`, ...); `undoing` is
the shell's cleanup running phases to put things back. `Fails`, `Retains` and `Killed` may
happen at any phase. The service runs through `Spawn`, `Begin`, `BootstrapFailure`,
`PublishReadiness` and `Exit`, and launchd respawns it. A run stands for a process id with
its nonce, a version for a file's content and digest.

Abstracted: the two reads of `capture` and each poll are one step, as is the backup of
`prepare`; the check of a known pid is subsumed by launchd's record going only when the
process has ended. Left out: the journal `transaction.json`, which is written and never read,
the environment check, building and validating a candidate, reuse of pids, the age of a
document (30 s), `service_status.py`, the other install scripts, an owner who removes a
retained lock by hand, power loss (the script syncs what it writes).

Three things a reader might not expect, all in the code: an interrupted or failed `stop`
leaves the prior service unloaded and does not start it again; a rollback whose `capture`
finds three distinct runs fails and retains the lock; and `bootstrap()`
(`deploy/service_transaction.py:475`) blames any failed bootstrap document of the installed
digest whose nonce is not excluded, without comparing its pid as `current_document` does
(line 490): a run of a crash-looping service that starts after `capture` and fails before
`bootout` is blamed on the new start, which is rolled back for it. The test at
`deploy/test-install-launchd.py:408` has the failure before `prepare`, where the nonce is
excluded. The model has this behaviour (`Blames`); it makes an installation fail that could
have succeeded, and no report untrue.

## 3. What the runs show

| Run | Instance | Question |
|---|---|---|
| `consent_store` | 2 members, 3 event ids, 2 choices per process, 1 fault, 2 restarts | Does an ended agreement ever authorise audio again, is a usable agreement durable, does "saved" bind, does the store implement `VoiceConsentPromise`, and does every choice get an answer? |
| `voice_session` | 2 members, 1 Discord session, 3 epochs, 3 start generations, any method at any time | Is the gate open only for the current, announced, still agreeing epoch, and does no revoked epoch come back? |
| `voice_call` | 2 members, 2 starts; in one bound 2 events of choices, spoken withdrawals, leave and a failing store; in the other 3 events of members and the bot moving, mode switches, leave, draining and failures around an auto-listen upgrade | Is anyone heard who was not announced, or in another mode, or through another call; does a stop outlive the starts it overtook and spare newer calls; do the tasks keep the runtime's conventions (`KeepsSession`), such as to install no control once the call has left `connecting`? |
| `voice_call_live` | 1 member, 1 start, 2 events of every kind | Is a closed gate followed by teardown, of the epoch and of its actor, and does every start end? |
| `canonical_state` | 1 commit, 1 snapshot, 1 erasure, 1 handler that may hang, 2 faults, 1 crash | Does anything acknowledged get lost or anything erased come back; is a clean shutdown complete, the projection claim true, an uncertain write kept; does every write get its answer and the shutdown its end? |
| `work_delivery` | 2 tasks of which a batch holds 1, 2 overlapping invocations, two policies, days of 3 hours up to hour 9, 1 edit, 1 fault, 1 restart | Is anything told twice or against the policy, are receipts true and loadable, and is every attempt settled? |
| `work_delivery_current` | 1 task, 2 edits, no faults | Violation: see Findings |
| `personal_memory` | 2 members, 2 requests of any of 5 kinds, 1 reply, 2 events | Is a member who withdrew ever used, does a permit outlive a withdrawal, does a restart load what was confirmed? |
| `engagement` | 2 members, 1 channel, days of 2 hours, in six bounds of what members do | Is anybody contacted twice about the same thing, above the budget or against a choice; does anything erased remain; can the store be loaded? |
| `installation` | 2 installers of three modes, 2 versions, 3 runs of the service | Can what was there always be put back, and are reports of success true? |
| `continuity` | 2 cards, 2 members, 3 events, 1 other change | Is a removed card quoted again, and is an admitted receipt always within reach of a later clear? |
| `continuity_fence` | the same | Violation: see Findings |

Deadlock is not checked: every instance is bounded (events, edits, faults run out)
and the service itself stops.

### Bounds, and why they are enough

* Two actors of a kind. What goes wrong here is one actor overtaking another: two
  starts, two members, two requests, two invocations, two installers. A third repeats
  one of the two roles. The theorems of section 4 do not depend on it.
* Failures. `canonical_state` allows two faults and a crash, so that a failure can
  meet the consequences of an earlier one, at any pair of steps; `personal_memory` and
  `continuity` count failures among their events, with the same effect; work delivery
  allows one fault and a restart, since it refuses every write after the first. The
  consent store has two restarts because a marker of the first process is what the
  third may wrongly ignore. An installer's failures and kills are not bounded at all.
* `MaxEpoch`, `MaxGeneration` in `VoiceCall` are above what the events of the
  instance consume: no reachable state attains them, so the bound cuts off nothing. In
  `voice_session`, where methods are called for ever, they are real bounds; the
  theorems lift them.
* `events` of a bound of `VoiceCall` counts what members, moderators, Discord and
  failing calls do besides the starts, which `Attempts` bounds. Two of them are what it
  takes to overtake a start and then meet the teardown; the bound of the gateway has
  three, so that a member's move, a mode switch and a stop can meet.
* Work delivery: a day of three hours (one to brief, one to remind, one quiet) keeps
  every comparison of hours; `MaxItems` 1 for the code's 8 makes the overflow of a
  batch happen with two tasks; hour 9 is in the fourth day, so a briefing deferred
  by quiet hours, the next day's and a snooze that ends in between all happen.
* Engagement: a bound names the kinds of changes, how many changes, failures and restarts
  there are, how many messages, the last hour, and the pairs that may be introduced.
  Each of the six makes one of the properties hard: members who edit between approval
  and sending, who are erased and come back, whose contacts meet a lost answer and a
  restart.
* Personal memory: two events are, for instance, a failed write and a death of the
  process on top of two interleaved requests. One member and two requests pass
  with four events of every kind, five of the choices alone and six of the edits alone, and
  three requests with three events of the edits; four events pass in `continuity`. All of
  these take too long to be kept.
* Installation: three runs of the service are those before, during and after the start
  that an installer watches. One installer has them all; two share fewer.
* Power: in the consent store a power loss is distinguished from a kill; in
  `CanonicalState` a crash may or may not keep an unsynced rename; `WorkDelivery`,
  `Engagement` and `Continuity` take the durable document `CanonicalState` justifies.
* Symmetry is used in runs of safety properties only.

### Fairness, and why the code justifies it

* `VoiceConsentStore`: a blocking job, once started, runs to its end, and the
  writer mutex is served (weak fairness of the flush steps together).
* `VoiceCall`: tasks that are under way are polled; every REST call and the Songbird
  join have a deadline, so `StartStep` and the handlers' steps come to an end; the
  actor's loop looks at its cancellation first. Members, moderators, the gateway and
  shutdown have no fairness.
* `CanonicalState`: operations that write are retained through shutdown and the
  writer is a thread of its own; the stages of shutdown have deadlines. Handlers that
  only change memory may hang for ever.
* `WorkDelivery`: a commit is answered, and calls have deadlines. The clock, members
  and the scheduler have no fairness.
* `PersonalMemory`, `Engagement`, `Continuity` and `Installation` state no liveness: a
  refusal or a retry by a person is a legal end of everything they do.

### Findings

* `work_delivery_current` (code). `runtime/work_delivery.rs:104-105` says that source
  revisions are compared again after the reservation. Those compared
  (`work/schedule.rs:402`) leave out tasks that are done, cancelled or snoozed, which are
  just those a Changes message is about: a task reopened while Discord is asked is
  still reported as done.
* `continuity_fence` (documentation and code diverge).
  `docs/superpowers/plans/2026-10-01-mlai-continuity.md:348-349` says that a scope is
  unfenced only when all its targets are settled. `unfence_continuity`
  (`runtime/continuity_commit.rs:525`) looks at pending changes and orphans only. In the
  trace one member's erasure fences a card and fails at the ledger; the erasure of another
  member removes an orphan of the same scope and lifts the fence, although the first
  deletion is not done. That deletion had been reported as failed, so `ErasedIsUnused`
  holds all the same.

### Mutants

Every property of a passing run is paired with a definition changed the way a
plausible mistake would change it, under which TLC finds the property violated;
`mutants` in `PROJECT.json` lists them. They are written next to the definition they
change and are otherwise unused.

## 4. What is proved

TLAPS proves the following for every value of the constants that the named assumption of
the module allows: any number of members, sessions, operations, faults and crashes, and
any bounds.

### Consent to audio

`VoiceConsentStoreProofs`, from `BoundAssumption` (bounds are numbers, `NoFile` is no
ledger): `NothingRevived`, `UsedWhenDurable`, `SavedIsBinding`, `PromiseKept`, the
refinement, and `LiveAgreementsOnly`: the promise never relies on an agreement that a binding
withdrawal ended (`PromiseIsSafe`), and through the refinement neither does the store. `Inv` says what the file operations keep true: memory honours every binding
withdrawal (`MemoryIsSound`); so does every file a kill or a power loss may leave, if it is
one that can be loaded (`DirectoryIsSound`); the document being written is older than memory
in no choice but those made since (`WriteIsSound`); each step of the flush knows whether its
marker and its ledger are durable (`PlaceIsSound`); and a job that waits for its answer
knows the place of its choice (`JobsAreSound`). `NoRevivedConsent` is not inductive without
the directory: what a restart revives is decided three file operations earlier.

### Voice

`VoiceCallProofs`, from `CallAssumption` (the bounds are numbers, `RetiredKept` is positive,
nobody and the two other holders of the lock are not attempts). The runtime comes first, for
any caller: `S!Spec` is `VoiceSession` with the ids of attempts for its session ids.
`SessionIsInvariant` is induction on `Session`. `ConsentGate` alone is not inductive: `Activate` opens the gate of an
epoch that has been live since `Begin`, and that its attested members are its participants
must be known by then; the last conjunct of `Session` says so of every live phase, gate open
or not. One lemma
per group of methods (`Starting`, `Closing`, `Stopping`, `Choosing`), one step per method.
`RevokedEpochIsNeverReopened` is the action property from the same invariant;
`GateKeepsDisclosedMode`, `ControlIsReachable` (a stop reaches the actor that hears) and
`StartsDoNotReturn` are parts of it the runs do not check.

Then the tasks. `CallKeepsSession` is the refinement to
`VoiceSession`, so the theorems above hold of every call (`CallNeedsConsent`).
`EverybodyIsAnnounced`, `OpenCallIsBound`, `ModeIsAnnounced`, `StopsOutliveStarts` and
`TeardownIsSparing` relate the tasks to the gate. `Inv` adds to the session's invariant who
holds the transition lock (`LockIsHeld`), what a start knows of the runtime between its
awaits (`StartIsSound`: while its epoch serves, its roster is attested, its mode selected, its
call bound; from its generation it knows whether it was overtaken), which epoch each call,
pauser and actor belongs to (`CallIsSound`, `StopsAreSound`, `ActorsAreSound`), and the two
gate properties. The lemmas are grouped by what an action does to the runtime.

### Canonical state

`CanonicalStateProofs`, from `CanonicalAssumption` (the kinds of operations are disjoint,
`Nobody` and `FinalWrite` are none of them). `Inv` is inductive, and its parts are the
reasons the design works:

| Part | Says | Needed because |
|---|---|---|
| `OneHolder` | whoever is between `Prepare` and leaving holds the preparation | no two snapshots are under way, so none is stale |
| `OneRequest` | at most one write is queued: the holder's own snapshot, or the final one of a frozen service, which is memory as it is | what the writer writes is as good as memory |
| `FrozenIsQuiet` | a frozen service has nobody at work, and only a joined one freezes | the final snapshot stays equal to memory until it is reported |
| `WriterIsIn` | after the rename the document on disk is the request, after the sync the durable one is too; an operation told "written" finds both equal to its snapshot | publication follows durability |
| `NothingLost` | acknowledged work is in memory; memory's work is on disk, durable and in every snapshot | an old snapshot cannot take a commit away |
| `NothingRevived` | every note anywhere was made by a handler that is done, and none is erased | a note made once and erased has no way back |
| `CleanEnd` | a reported final write is the durable document and all of memory | the shutdown property, before and after the report |

From it: `CanonicalTypes`, `AcknowledgedSurvives`, `NothingErasedReturns`,
`CleanShutdownIsComplete`, `ShownSurvives` (memory shows no change a crash could undo),
`NotesStay`, and `ClaimHolds` (the projection claim). `UncertainWriteStays` needs a second
invariant, `BaseIsMemory` (`BaseIsInvariant`): the base holds nothing that memory lacks except
between a write and its publication, every queued snapshot holds all work of its own base,
and a writer past its check has found the file equal to that base. So the document that
replaces another one holds all its work, also when that document came from a write that
reported failure.

### Continuity

`ContinuityProofs`, from `ContinuityAssumption`. `ReceiptsAreKnown` and `ErasedIsUnused` rest
on where a card can be. `Proposed`: whatever is in memory, on disk, pending or orphaned has
been confirmed, so its links no longer change. `Steps` and `Confirmation`: what each stretch
of a job may still assume after its awaits. `PendingFits`: memory is one of the two ends of a
pending change, which is fenced. `Deletion`: what a clear or an erasure has already found to
be settled. `DiskFits`: the file holds what memory holds, an end of a pending change, or a card
that a load prunes. `ErasedIsDead`: a card reported as removed is in none of these places, and
its grants are of an older generation. `ReaderIsFenced`: a reader that read before a fence has
an older generation and cannot pass its second check. `OverlayFits` says that any other write
in between carries the pending change.

### Installation

`InstallationProofs`, from `InstallationAssumption`. `RecoverableHolds` by `IInv`: the
installer at work owns the lock (`Locked`, hence `OneInstaller`); nothing differs before
artifacts are written and after they are restored (`Untouched`); what an installer may write is
in its backup (`Backed`); artifacts are restored in order (`Progress`). `ReportsAreTrueHolds`
by `RInv` besides: documents speak of runs that were started, of those before the last start
none counts (`NoneLeft`), and what was seen ready is tracked to the run expected (`Tracked`).

### Work delivery

`WorkDeliveryProofs`, from `DeliveryAssumption` (tasks are numbers, as batches take the lowest
first; a day has hours and the terms name hours of it). `ToldOnce`, `Reloadable`,
`ReceiptsAreTrue` and the action property `SentAsAllowed` all follow from one inductive
invariant, `Inv`:

| Part | Says | Needed because |
|---|---|---|
| `DocumentsAreSound` | in the document in memory, on disk and being committed, each receipt is well-formed and recorded (what it told and is still current is covered), any two are apart (the later tells nothing the earlier told), and a receipt that says sent is true; the disk and the commit hold at least the attempts of memory | a plan made from any of the three may not repeat what another has told, also after a failed write |
| `InboxIsRecorded` | what Discord accepted is on record, in the order of the attempts | turns a fact about receipts into one about messages |
| `CommitIsOwned` | a commit under way leaves the receipts alone or belongs to the runner that reserves or settles | a member's edit cannot drop an attempt |
| `RunIsSound` | what a runner between two awaits may still assume: its reservation is the last receipt, within the limit of its day, unsent; its settlement touches only its own | members and a restart come between planning and sending |
| `OpenIsHeld` | an attempt is open only while a runner has it or after a fault | a crash closes the attempts of the process that died |

That two messages never tell the same thing comes from their receipts being `Apart` and
from ascending identifiers; that a day keeps its limit comes from an injection of its messages
into its attempts (`SentAreAttempts`).

### Personal memory

`PersonalMemoryProofs`, from `PersonalMemoryAssumption` (`Nobody` is not a request, the
kinds are the five of the code). `MemoryIsSound` is induction on `IInv`, and
`WithdrawnHolds` (`WithdrawnIsUnused`) and `MemoryIsTyped` follow from it:

| Part | Says | Needed because |
|---|---|---|
| `WithdrawalsAreKept` | a withdrawn member has a fence in memory or is off in what a restart would load; a secured one is off there | the property after a restart, and after the fence is retired |
| `MemoryIsFenced` | memory allows nobody that its base does not; a fence closes the barrier; while it is open no withdrawn member is on | the property while the process serves |
| `RecoveryIsFirst` | before it serves, the process does nothing else and is blocked | a failed recovery serves what it loaded, blocked |
| `SnapshotIsBehind` | a held snapshot is between its base and memory | an ordinary write cannot turn a use on |
| `EverythingIsDated` | every document, candidate and journal entry that knows an activation has passed the epoch at which it was asked | whatever of these is loaded, replayed or installed later, the stamp of that activation is old |
| `RequestIsDated` | an activation that was overtaken by a withdrawal has been passed by memory's epoch or by one the files keep | it can never be permitted again, not even by a process that forgot the withdrawal |
| `TransactionIsSound` | at each step, what candidate, journal and disk have in common; only an activation turns a use on, and only for its member | the candidate is published two file operations before it becomes memory |
| `ActivationIsSound` | an activation has the journal to itself until it retires its entry, and is still wanted or fenced | it is the only step that ends a withdrawal |

`PermitsHold` (`PermitsEnd`) needs a second invariant, `PInv`, relative to the first. A permit
is compared with the revision and the epoch of memory alone, so what must be excluded is that
some other document, which becomes memory later, matches by accident. `PermitsAreHonest` says
of every document at hand (memory, the disk, the candidate, a snapshot) that if it allows the
member's use at the permit's revision and at no later epoch, it holds the fact and the
context is still current; `MayCapture` says the same in advance, while permits may be
captured; `MemoryLeads` says that between transactions no file is ahead of memory, so an edit
of the memory service outruns all of them. The lemmas on operators show that what
`FoldDenials`, `Recovered`, `Rebase` and `CompleteOutcomes` return `Follows` the document they
started from: nobody is allowed who was not, at the same revision and with the same facts. A
new candidate is then `Familiar` (it follows one at hand, is of a later epoch, or allows
nobody), which is all a step has to show. The set of documents does not change at a
withdrawal or an edit, but their epochs are passed (`PermitsPass`).

`ConfirmedHolds` (`AckedHolds`) rests on `AInv`, also relative to `IInv`. What was promised need
not be what the two files say: they are written one at a time, an activation is written as
pending and counts only once its journal entry is gone, and what a restart loads is computed
from both. So the invariant follows what documents know instead of what they say:

| Part | Says | Needed because |
|---|---|---|
| `StoresAreTrue` | memory and disk `Bear` the newest change of each member (where they know that request, they show its effect) and `Redeem` every promise; the disk knows every request memory knows, and memory every one its base knows (`Recalls`); the journal names a member whose newest choice is an activation for that activation only; a pending choice is in the journal | a later change, replay or restart may build on any of them |
| `PublicationIsTrue` | memory still knows what it knew when a document was published over it, the disk what was published, and memory has not moved since where the newest change is concerned | a rebase mixes memory with a document that memory does not show yet |
| `ChangeIsUnderWay` | of the change under way nothing is promised yet, and it is its member's newest choice or none is; only a replay stands for an aborted change; a finishing change is in memory | a promise is made only when it ends |
| `CandidateIsTrue` | the candidate bears, redeems, recalls the disk and knows its own request | it becomes the document on disk two file operations before it becomes memory |
| `MemoryIsAwaited` | while it is on its way memory has moved only where no activation is newest | memory is then replaced by the candidate |
| `SnapshotIsTrue` | a held snapshot bears, redeems and knows what memory knows | an ordinary write makes it the document |

`Folds` is what folding denials and completing outcomes have in common, and does to a document
what keeps `Bears`, `Redeems` and `Recalls` (`FoldsBear`, `FoldsRedeem`, `FoldsRecall`);
`RestartIs` says the same of what a restart would load, from which the property is immediate.

### Engagement

`EngagementProofs`, from `EngagementAssumption` (pairs are of two members, words are positive
numbers and there is one, limits are 1 to 4, the hours of terms are hours of the day). All five
properties the run checks follow from one inductive invariant, `IInv` (`EngagementInvariant`):
`NobodyIsContactedTwice`, `ErasureIsKept`, `DocumentsAreReloadable`, and the action properties
`NobodyIsContactedTooOften` and `SentIsAgreed`.

| Part | Says | Needed because |
|---|---|---|
| `Documented` | memory and disk are `Sound`: introductions go with their candidates, a charge belongs to a candidate, all members of an attempt are charged at one time or none is, no identity is there twice or also among the erased, and every message on record is its author's | `Reloadable` says it of the disk only, but a restart or a commit makes either document of the other |
| `Recorded` | each message has a candidate and a reason of its own, and in both documents it is `Spent`: that candidate is no longer pending and is charged, or its identity and its charges are among the erased | what was sent is not proposed or sent again, whichever document the process goes on with |
| `Reserving` | so is the attempt under way, which no message was sent for yet | the next message will be as new as it is charged |
| `Checked` | what the attempt holds is what memory has, or a revision has passed it (`Held`); as long as the settings are those of the reservation there is room in the day (`Budgeted`); a ground that was taken away leaves a trace the last check sees (`Stale`) | members move, erase and change their time zone between the reservation and the sending |
| `Agreed`, `Presented` | an approval in a document is of the words that member was shown; a version that was shown is the current one or has an older revision | an approval of an old version, or one that was edited since, cannot pass |
| `Forgotten` | besides what the property says: erased messages are older than the author's entry in the erasure ledger, and erased pairs are among the erased identities | what waited for the lock is refused on that account when it commits |

The argument has three layers. Every operation on a document is shown, without mention of
states, to make a `Sound` document that `Follows` the one it started from: identities and charges
stay or move to the erased ones, states and revisions only go on, and nothing but an approval
approves. `Spent`, `Presents`, `Attested` and `Forgets` are each shown to survive such a step.
An action then only has to say which operation it commits (`Ventured`: memory and disk are the
old document or the new one), and what it does to the attempt. That a document of today can be
on disk while memory has yesterday's, after a commit that failed in an uncertain way, is why
each part speaks of both. `WithinBudget` is not inductive: the messages of a day are counted by
the settings at the time of sending, so the invariant has to count them for the attempt under
way, by the settings it was reserved under, and `charges` and `erased_charges` together have to
bound that count (`Capacity`).

### What is only model-checked

What is out of the prover's reach: liveness under fairness (`EveryChoiceAnswered`,
`RevokedIsTornDown`, `StartsEnd`, `AdmittedEnds`, `ShutdownEnds`, `AttemptsSettle`), `ENABLED`,
and what recursive definitions compute for every input.

## 5. What is not modelled, and why

* Adapters, rendering, parsing, signal processing, floating-point learning, vector search,
  the Activity web application, the vendored Discord library: I/O, or sequential code whose
  unit tests reach it. `PROJECT.json` lists every component with its reason. The vendored
  library in particular is most of the repository's lines.
* Small sequential machines under one lock: the provider circuit, action approval, community
  policies, server plans, the music player's owner. Their actions are one lock section each,
  so there is no interleaving to explore.
* Replacing a voice runtime on a new configuration (`voice_registry.rs:296`): it needs two
  `VoiceSession` instances under one Discord call. A leave queued on the old runtime can
  pause the call of the new one.
* An auto-listen upgrade that returns early after `begin` (`commands_voice/auto_listen.rs:384`)
  leaves the phase at "connecting" with no task to move it. Nothing is heard meanwhile
  (`ConsentGate`), the next join or leave resets the phase, and no text promises more.
* Summaries (`runtime/scheduler.rs:66`): the message count is taken after the summary's await,
  so messages that arrived meanwhile count as summarised. Only the wording of a later summary
  depends on it.
* The external memory ledger and its gates: the repository has only the client, whose
  answers are nondeterministic in `Continuity`.
* The rest is named per module in section 2 ("Left out").
