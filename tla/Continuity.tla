------------------------------ MODULE Continuity ------------------------------
(***************************************************************************)
(* The continuity card of one team scope: a short text that members        *)
(* propose, are shown, confirm and clear, and that replies then quote.     *)
(* work/continuity.rs keeps the cards, commands_work/continuity.rs the     *)
(* proposals, runtime/continuity_commit.rs changes a card in two places:   *)
(* an external ledger, which admits and forgets it by receipt, and the     *)
(* canonical document.  What a failed change leaves undone is kept in      *)
(* ContinuitySafety until the scope is reconciled, and readers             *)
(* (runtime/continuity_context.rs) are fenced off meanwhile.               *)
(*                                                                         *)
(* A card is the proposal it was confirmed from.  The job is the owner of  *)
(* persistence_preparation; a step of it is a stretch between two awaits.  *)
(***************************************************************************)
EXTENDS Naturals, FiniteSets

CONSTANTS
  Cards,      \* proposals, each of which may become a card
  Members,    \* members of the scope
  NoCard,     \* no card
  MaxEvents,  \* clears, erasures, faults, restarts and changes from outside
  MaxNotes    \* changes of the rest of the document

ASSUME ContinuityAssumption == NoCard \notin Cards /\ {MaxEvents, MaxNotes} \subseteq Nat

VARIABLES
  memory,    \* Stores: the scope's card, and the rest as a counter
  base,      \* canonical_base: the document memory descends from
  disk,      \* the canonical document
  proposal,  \* HumanContinuity's registry, and what a card keeps of its proposal
  lapsed,    \* cards whose lifetime has ended or whose sources have changed
  receipts,  \* cards that carry an episode_receipt
  safety,    \* ContinuitySafety
  gated,     \* the gate covers the scope
  ledger,    \* the ledger's entry for each card
  job,       \* the holder of persistence_preparation
  reader,    \* a reply or a show that quotes the card
  events,
  held,      \* history: admitted receipts this process has to account for
  gone,      \* history: cards a clear or an erasure reported as removed
  unsettled  \* history: cards whose deletion was begun and is not done

kept == <<memory, base, disk>>
outside == <<gated, ledger>>
history == <<held, gone, unsettled>>
vars == <<memory, base, disk, proposal, lapsed, receipts, safety, gated, ledger,
          job, reader, events, held, gone, unsettled>>

Documents == [card : Cards \cup {NoCard}, notes : 0 .. MaxNotes]
NoPending == [expected |-> NoCard, desired |-> NoCard]
NewSafety ==
  [generation |-> 1, blocked |-> FALSE, pending |-> NoPending, orphan |-> NoCard, forgets |-> {}]
NoJob ==
  [kind |-> "none", at |-> "idle", who |-> {}, card |-> NoCard, of |-> "card",
   doc |-> [card |-> NoCard, notes |-> 0], aimed |-> {}, released |-> FALSE]
NoReader == [at |-> "idle", card |-> NoCard, generation |-> 0, again |-> FALSE]
NoProposal == [at |-> "none", links |-> {}, revision |-> 0, generation |-> 0]

Init ==
  /\ memory = [card |-> NoCard, notes |-> 0] /\ base = memory /\ disk = memory
  /\ proposal = [c \in Cards |-> NoProposal]
  /\ lapsed = {} /\ receipts = {} /\ safety = NewSafety
  /\ gated \in BOOLEAN /\ ledger = [c \in Cards |-> "absent"]
  /\ job = NoJob /\ reader = NoReader /\ events = 0
  /\ held = {} /\ gone = {} /\ unsettled = {}

\* What is bounded: an event, or a step that is one only if `bad`.
Event == events < MaxEvents /\ events' = events + 1
EventIf(bad) == IF bad THEN Event ELSE UNCHANGED events

\* continuity_generation: none while the scope is fenced.
Current(generation) == ~safety.blocked /\ safety.generation = generation

Revision(c) == IF c = NoCard THEN 0 ELSE proposal[c].revision
LinkedTo(c, m) == c # NoCard /\ m \in proposal[c].links
Pending == safety.pending # NoPending

\* overlay_continuity: every snapshot of memory carries the change under way.  That memory
\* holds a third card, which would stop every write, is not possible (ContinuityProofs).
Snapshot == IF Pending THEN [memory EXCEPT !.card = safety.pending.desired] ELSE memory

\* unfence_continuity
Unfenced(s) == [s EXCEPT !.blocked = s.blocked /\ ~(s.pending = NoPending /\ s.orphan = NoCard)]

\* A fence that does not advance the generation: what was granted before stays valid.
FencesScopeOnly(s, c) == [s EXCEPT !.blocked = s.blocked \/ c # NoCard]

\* fence_continuity, for a card or for none
Fenced(s, c) ==
  [s EXCEPT !.generation = @ + 1, !.blocked = s.blocked \/ c # NoCard]

\* stage_continuity
Staged(s, expected, desired) ==
  [s EXCEPT !.generation = @ + 1, !.blocked = TRUE,
            !.pending = [expected |-> expected, desired |-> desired]]

----------------------------------------------------------------------------
(* Members: proposing, previewing and confirming                           *)

\* /work continuity propose, up to its second access check
Propose(c, links) ==
  /\ proposal[c].at = "none" /\ ~safety.blocked
  /\ proposal' = [proposal EXCEPT ![c] =
       [at |-> "drafted", links |-> links, revision |-> Revision(memory.card) + 1,
        generation |-> safety.generation]]
  /\ UNCHANGED <<kept, lapsed, receipts, safety, outside, job, reader, events, history>>

\* The preview is sent if nothing moved since.
Preview(c) ==
  /\ proposal[c].at = "drafted"
  /\ c \notin lapsed /\ Revision(memory.card) + 1 = proposal[c].revision
  /\ Current(proposal[c].generation)
  /\ proposal' = [proposal EXCEPT ![c].at = "sent"]
  /\ UNCHANGED <<kept, lapsed, receipts, safety, outside, job, reader, events, history>>

\* mark_presented: only now can it be confirmed.
MarkPresented(c) ==
  /\ proposal[c].at = "sent" /\ Current(proposal[c].generation)
  /\ proposal' = [proposal EXCEPT ![c].at = "presented"]
  /\ UNCHANGED <<kept, lapsed, receipts, safety, outside, job, reader, events, history>>

\* discard, after a preview that failed, was denied or came too late
Discard(c) ==
  /\ proposal[c].at \in {"drafted", "sent"}
  /\ proposal' = [proposal EXCEPT ![c].at = "used"]
  /\ UNCHANGED <<kept, lapsed, receipts, safety, outside, job, reader, events, history>>

\* resolve: the grant goes to a task that waits for persistence_preparation.
Resolve(c) ==
  /\ proposal[c].at = "presented" /\ Current(proposal[c].generation)
  /\ proposal' = [proposal EXCEPT ![c].at = "granted"]
  /\ UNCHANGED <<kept, lapsed, receipts, safety, outside, job, reader, events, history>>

----------------------------------------------------------------------------
(* Jobs                                                                    *)

\* The job returns an error: nothing is told but that it failed.
Fails == job' = NoJob

\* What a write of the document may come to: it is refused when the file is not
\* the one memory descends from, and a failed one may have changed the file.
Writes(doc) ==
  {[disk |-> disk, committed |-> FALSE]} \cup
  IF disk = base THEN [disk : {doc}, committed : BOOLEAN] ELSE {}

\* confirm_continuity: reserve_continuity_recovery and the first look at the generation
ConfirmStart(c) ==
  /\ job.kind = "none" /\ proposal[c].at = "granted"
  /\ proposal' = [proposal EXCEPT ![c].at = "used"]
  /\ IF ~Pending /\ safety.orphan = NoCard /\ Current(proposal[c].generation)
     THEN job' = [NoJob EXCEPT !.kind = "confirm", !.at = "prepare", !.card = c]
     ELSE Fails
  /\ UNCHANGED <<kept, lapsed, receipts, safety, outside, reader, events, history>>

\* What each access check of a confirmation is followed by; `old` is the card it replaces.
StillConfirmable(c) == Current(proposal[c].generation) /\ c \notin lapsed

ConfirmPrepare ==
  /\ job.kind = "confirm" /\ job.at = "prepare"
  /\ StillConfirmable(job.card) /\ Revision(memory.card) + 1 = proposal[job.card].revision
  /\ gated \/ memory.card \notin receipts
  /\ job' = [job EXCEPT
       !.at = IF ~gated THEN "final" ELSE IF memory.card \in receipts THEN "verify" ELSE "record",
       !.doc = [memory EXCEPT !.card = job.card]]
  /\ UNCHANGED <<kept, proposal, lapsed, receipts, safety, outside, reader, events, history>>

\* verify_memory says Live of the receipt to be superseded.
ConfirmVerify ==
  /\ job.kind = "confirm" /\ job.at = "verify" /\ ledger[memory.card] = "live"
  /\ job' = [job EXCEPT !.at = "again"]
  /\ UNCHANGED <<kept, proposal, lapsed, receipts, safety, outside, reader, events, history>>

ConfirmAgain ==
  /\ job.kind = "confirm" /\ job.at = "again" /\ StillConfirmable(job.card)
  /\ job' = [job EXCEPT !.at = "record"]
  /\ UNCHANGED <<kept, proposal, lapsed, receipts, safety, outside, reader, events, history>>

\* record_memory_candidate: appended and answered, so the card carries its receipt,
\* which supersedes that of the card it replaces
ConfirmRecord ==
  /\ job.kind = "confirm" /\ job.at = "record"
  /\ ledger' = [ledger EXCEPT ![job.card] = "live"]
  /\ receipts' = receipts \cup {job.card}
  /\ held' = (held \ {memory.card}) \cup {job.card}
  /\ job' = [job EXCEPT !.at = "final"]
  /\ UNCHANGED <<kept, proposal, lapsed, safety, gated, reader, events, gone, unsettled>>

\* The answer is lost: the candidate is admitted, the card is not.
ConfirmUnanswered ==
  /\ job.kind = "confirm" /\ job.at = "record" /\ Event
  /\ ledger' = [ledger EXCEPT ![job.card] = "live"]
  /\ Fails
  /\ UNCHANGED <<kept, proposal, lapsed, receipts, safety, gated, reader, history>>

ConfirmFinal ==
  /\ job.kind = "confirm" /\ job.at = "final" /\ StillConfirmable(job.card)
  /\ safety' = Staged(safety, memory.card, job.card)
  /\ job' = [job EXCEPT !.at = "publish"]
  /\ UNCHANGED <<kept, proposal, lapsed, receipts, outside, reader, events, history>>

\* The last check refuses and the admitted receipt is left to the ledger.
RefusedDropsReceipt ==
  /\ job.kind = "confirm" /\ job.at = "final"
  /\ Fails
  /\ UNCHANGED <<kept, proposal, lapsed, receipts, safety, outside, reader, events, history>>

\* The last check refuses: a receipt that was admitted becomes an orphan.
ConfirmRefused ==
  /\ job.kind = "confirm" /\ job.at = "final"
  /\ safety' = IF job.card \in receipts
               THEN [Fenced(safety, job.card) EXCEPT !.orphan = job.card] ELSE safety
  /\ Fails
  /\ UNCHANGED <<kept, proposal, lapsed, receipts, outside, reader, events, history>>

\* Any earlier check refuses, access is denied, or the ledger's answer is no, unknown
\* or does not come.  A deletion stops with its fence and its memo as they are.
GivesUp ==
  /\ \/ job.at \in {"prepare", "verify", "again", "record"}
     \/ job.at = "admit" /\ job.card \in receipts
     \/ job.kind = "clear" /\ job.at \in {"remove", "target"}
  /\ Fails
  /\ UNCHANGED <<kept, proposal, lapsed, receipts, safety, outside, reader, events, history>>

\* clear_continuity: a manager's clear starts with what is pending.
ClearStart ==
  /\ job.kind = "none" /\ Event
  /\ job' = [NoJob EXCEPT !.kind = "clear", !.at = "reconcile", !.who = Members]
  /\ UNCHANGED <<kept, proposal, lapsed, receipts, safety, outside, reader, history>>

\* erase_continuity_owned: the erasure of a member, or the reset of everybody's learning,
\* starts with the orphan, if it is linked.
EraseStart(who) ==
  /\ job.kind = "none" /\ Event
  /\ LET mine == \E m \in who : LinkedTo(safety.orphan, m)
     IN job' = [NoJob EXCEPT !.kind = "erase", !.at = IF mine THEN "admit" ELSE "reconcile",
                             !.who = who, !.card = IF mine THEN safety.orphan ELSE NoCard,
                             !.of = "orphan", !.released = mine]
  /\ UNCHANGED <<kept, proposal, lapsed, receipts, safety, outside, reader, history>>

\* What a clear or an erasure is about: a clear is everybody's.
Aimed(c) == job.kind = "clear" \/ \E m \in job.who : LinkedTo(c, m)

\* reconcile_continuity: publish what is pending, or nothing is.
ReconcileStart ==
  /\ job.at = "reconcile"
  /\ IF Pending /\ (Aimed(safety.pending.expected) \/ Aimed(safety.pending.desired))
     THEN job' = [job EXCEPT !.at = "republish", !.doc = Snapshot]
     ELSE job' = [job EXCEPT !.at = IF job.kind = "clear" THEN "orphan" ELSE "target"]
  /\ UNCHANGED <<kept, proposal, lapsed, receipts, safety, outside, reader, events, history>>

\* erase_continuity_orphan of a clear
OrphanStart ==
  /\ job.at = "orphan"
  /\ job' = IF safety.orphan = NoCard THEN [job EXCEPT !.at = "target"]
            ELSE [job EXCEPT !.at = "admit", !.card = safety.orphan, !.of = "orphan"]
  /\ UNCHANGED <<kept, proposal, lapsed, receipts, safety, outside, reader, events, history>>

\* erase_continuity_targets: fence what there is to delete before the ledger is asked.
TargetStart ==
  /\ job.at = "target"
  /\ LET c == IF memory.card # NoCard /\ Aimed(memory.card) THEN memory.card ELSE NoCard
         known == {d \in Cards : proposal[d].at # "none" /\ Aimed(d)}
     IN /\ safety' = Fenced(safety, c)
        /\ unsettled' = IF c = NoCard THEN unsettled ELSE {c}
        /\ job' = [job EXCEPT !.at = IF c = NoCard THEN "report" ELSE "admit",
                              !.card = c, !.of = "card", !.aimed = known]
  /\ UNCHANGED <<kept, proposal, lapsed, receipts, outside, reader, events, held, gone>>

\* admit_continuity_forget: nothing to forget, remembered as forgotten, or verified as such
AdmitForgotten ==
  /\ job.at = "admit"
  /\ \/ job.card \notin receipts
     \/ gated /\ job.card \in safety.forgets
     \/ gated /\ ledger[job.card] = "forgotten"
  /\ held' = held \ {job.card}
  /\ job' = [job EXCEPT !.at = "remove"]
  /\ UNCHANGED <<kept, proposal, lapsed, receipts, safety, outside, reader, events, gone, unsettled>>

\* ... or asked to be forgotten now; the answer may be lost.
AdmitForget ==
  /\ job.at = "admit" /\ gated /\ job.card \in receipts \ safety.forgets
  /\ ledger[job.card] = "live"
  /\ ledger' = [ledger EXCEPT ![job.card] = "forgotten"]
  /\ \/ /\ safety' = [safety EXCEPT !.forgets = @ \cup {job.card}]
        /\ held' = held \ {job.card}
        /\ job' = [job EXCEPT !.at = "remove"]
        /\ UNCHANGED events
     \/ Event /\ Fails /\ UNCHANGED <<safety, held>>
  /\ UNCHANGED <<kept, proposal, lapsed, receipts, gated, reader, gone, unsettled>>

\* The admitted orphan is dropped.
RemoveOrphan ==
  /\ job.at = "remove" /\ job.of = "orphan"
  /\ safety' = [safety EXCEPT !.orphan = NoCard, !.forgets = @ \ {job.card}]
  /\ job' = [job EXCEPT !.at = IF job.kind = "clear" THEN "target" ELSE "reconcile"]
  /\ UNCHANGED <<kept, proposal, lapsed, receipts, outside, reader, events, history>>

\* The admitted card is staged for deletion from the document.
RemoveCard ==
  /\ job.at = "remove" /\ job.of = "card"
  /\ safety' = Staged(safety, job.card, NoCard)
  /\ job' = [job EXCEPT !.at = "publish", !.doc = [Snapshot EXCEPT !.card = NoCard]]
  /\ UNCHANGED <<kept, proposal, lapsed, receipts, outside, reader, events, history>>

\* Where a job goes when its publication is committed.
AfterPublish ==
  IF job.kind = "confirm" THEN NoJob
  ELSE IF job.at = "publish" THEN [job EXCEPT !.at = "report"]
  ELSE [job EXCEPT !.at = IF job.kind = "clear" THEN "orphan" ELSE "target"]

\* publish_continuity: write, read back, and settle the pending change if the file holds
\* exactly the snapshot, whatever the writer reported.
Publish ==
  /\ job.at \in {"publish", "republish"}
  /\ \E w \in Writes(job.doc), readable \in BOOLEAN :
       /\ EventIf((disk = base /\ ~w.committed) \/ ~readable)
       /\ disk' = w.disk
       /\ IF readable /\ w.disk = job.doc
          THEN /\ memory' = [memory EXCEPT !.card = job.doc.card]
               /\ base' = w.disk
               /\ safety' = Unfenced([safety EXCEPT !.pending = NoPending,
                                                    !.forgets = IF job.doc.card = NoCard
                                                      THEN @ \ {safety.pending.expected} ELSE @])
               /\ unsettled' = unsettled \cap {job.doc.card}
               /\ job' = IF w.committed THEN AfterPublish ELSE NoJob
          ELSE /\ base' = IF w.committed THEN w.disk ELSE base
               /\ Fails
               /\ UNCHANGED <<memory, safety, unsettled>>
  /\ UNCHANGED <<proposal, lapsed, receipts, outside, reader, held, gone>>

\* A clear ends here.
ClearReport ==
  /\ job.kind = "clear" /\ job.at = "report"
  /\ safety' = Unfenced(safety)
  /\ gone' = gone \cup job.aimed
  /\ job' = NoJob
  /\ UNCHANGED <<kept, proposal, lapsed, receipts, outside, reader, events, held, unsettled>>

\* An erasure unfences a scope whose orphan it removed, and has the document written
\* once more by commit_learning_erasure.
EraseUnfence ==
  /\ job.kind = "erase" /\ job.at = "report"
  /\ safety' = IF job.released THEN Unfenced(safety) ELSE safety
  /\ job' = [job EXCEPT !.at = "rewrite", !.doc = Snapshot]
  /\ UNCHANGED <<kept, proposal, lapsed, receipts, outside, reader, events, history>>

EraseReport ==
  /\ job.kind = "erase" /\ job.at = "rewrite"
  /\ \E w \in Writes(job.doc) :
       /\ EventIf(disk = base /\ ~w.committed)
       /\ disk' = w.disk
       /\ base' = IF w.disk = job.doc THEN w.disk ELSE base
       /\ gone' = IF w.committed THEN gone \cup job.aimed ELSE gone
  /\ job' = NoJob
  /\ UNCHANGED <<memory, proposal, lapsed, receipts, safety, outside, reader, held, unsettled>>

----------------------------------------------------------------------------
(* The rest of the process                                                 *)

\* An ordinary canonical write: work commits, scheduled snapshots, personal memory.
Write ==
  /\ job.kind = "none" /\ Snapshot # disk
  /\ \E w \in Writes(Snapshot) :
       /\ w.disk # disk /\ EventIf(~w.committed)
       /\ disk' = w.disk
       /\ base' = IF w.committed THEN w.disk ELSE base
  /\ UNCHANGED <<memory, proposal, lapsed, receipts, safety, outside, job, reader, history>>

\* A handler changes something else in memory.
Note ==
  /\ memory.notes < MaxNotes /\ Event
  /\ memory' = [memory EXCEPT !.notes = @ + 1]
  /\ UNCHANGED <<base, disk, proposal, lapsed, receipts, safety, outside, job, reader, history>>

\* A lifetime ends or a source is edited.
Lapse(c) ==
  /\ proposal[c].at # "none" /\ c \notin lapsed /\ Event
  /\ lapsed' = lapsed \cup {c}
  /\ UNCHANGED <<kept, proposal, receipts, safety, outside, job, reader, history>>

\* prune_current: what is dropped when the document is loaded
Pruned(doc) ==
  IF doc.card \in lapsed \ receipts THEN [doc EXCEPT !.card = NoCard] ELSE doc

\* The process dies and another one starts, with the gate configured or not.
Restart ==
  /\ Event
  /\ memory' = Pruned(disk) /\ base' = disk
  /\ safety' = NewSafety
  /\ gated' \in BOOLEAN
  /\ proposal' = [c \in Cards |->
       IF proposal[c].at = "none" THEN proposal[c] ELSE [proposal[c] EXCEPT !.at = "used"]]
  /\ job' = NoJob /\ reader' = NoReader
  /\ held' = held \cap {disk.card} /\ unsettled' = {}
  /\ UNCHANGED <<disk, lapsed, receipts, ledger, gone>>

----------------------------------------------------------------------------
(* Readers                                                                 *)

\* AuthorizedContinuity::current and AdmittedContinuity::current
ReaderCurrent == Current(reader.generation) /\ memory.card = reader.card /\ reader.card \notin lapsed

\* prepare_continuity_context, up to its first await
Capture ==
  /\ reader.at = "idle" /\ ~safety.blocked /\ memory.card \notin lapsed \cup {NoCard}
  /\ reader' = [NoReader EXCEPT
       !.at = IF memory.card \in receipts THEN "verify" ELSE "access",
       !.card = memory.card, !.generation = safety.generation]
  /\ UNCHANGED <<kept, proposal, lapsed, receipts, safety, outside, job, events, history>>

\* AdmittedContinuity::fresh: the same again before output, by what was admitted
CaptureAgain ==
  /\ reader.at = "admitted" /\ ReaderCurrent
  /\ reader' = [reader EXCEPT
       !.at = IF reader.card \in receipts THEN "verify" ELSE "access", !.again = TRUE]
  /\ UNCHANGED <<kept, proposal, lapsed, receipts, safety, outside, job, events, history>>

\* verify_memory says Live.
ReadVerify ==
  /\ reader.at = "verify" /\ gated /\ ledger[reader.card] = "live"
  /\ reader' = [reader EXCEPT !.at = "access"]
  /\ UNCHANGED <<kept, proposal, lapsed, receipts, safety, outside, job, events, history>>

\* Access is proved: the first time the card is admitted, the second time it is quoted.
Admit ==
  /\ reader.at = "access" /\ ReaderCurrent
  /\ reader' = [reader EXCEPT !.at = IF reader.again THEN "quoted" ELSE "admitted"]
  /\ UNCHANGED <<kept, proposal, lapsed, receipts, safety, outside, job, events, history>>

\* The reply is done, or refused at any of its checks.
ReadEnds ==
  /\ reader.at # "idle"
  /\ reader' = NoReader
  /\ UNCHANGED <<kept, proposal, lapsed, receipts, safety, outside, job, events, history>>

----------------------------------------------------------------------------
Proposing(c) ==
  \/ \E links \in SUBSET Members \ {{}} : Propose(c, links)
  \/ Preview(c) \/ MarkPresented(c) \/ Discard(c) \/ Resolve(c) \/ Lapse(c)
Confirming ==
  \/ \E c \in Cards : ConfirmStart(c)
  \/ ConfirmPrepare \/ ConfirmVerify \/ ConfirmAgain \/ ConfirmRecord \/ ConfirmUnanswered
  \/ ConfirmFinal \/ ConfirmRefused
Deleting ==
  \/ ClearStart \/ (\E who \in {{m} : m \in Members} \cup {Members} : EraseStart(who))
  \/ ReconcileStart \/ OrphanStart \/ TargetStart \/ AdmitForgotten \/ AdmitForget
  \/ RemoveOrphan \/ RemoveCard \/ ClearReport \/ EraseUnfence \/ EraseReport
Reading == Capture \/ CaptureAgain \/ ReadVerify \/ Admit \/ ReadEnds

Next ==
  \/ \E c \in Cards : Proposing(c)
  \/ Confirming \/ Deleting \/ GivesUp \/ Publish
  \/ Write \/ Note \/ Restart
  \/ Reading

Spec == Init /\ [][Next]_vars

----------------------------------------------------------------------------
(* What is checked                                                         *)

\* Once a clear or an erasure is reported as done, nothing that was proposed, pending,
\* orphaned or confirmed when it began is quoted again, nor is a card whose receipt the
\* ledger has forgotten: not by a reply that read it before, not by a confirmation that
\* was granted before, not after a restart.
ErasedIsUnused ==
  [][reader'.at = "quoted" /\ reader.at # "quoted" =>
       /\ reader'.card \notin gone
       /\ reader'.card \notin receipts \/ ledger[reader'.card] # "forgotten"]_vars

\* An admitted receipt stays within reach of a later clear: it is that of the card in
\* memory, of a change that is pending, of an orphan or of the confirmation under way,
\* until it is superseded or forgotten, whatever fails; a restart keeps those on disk.
ReceiptsAreKnown ==
  held \subseteq {memory.card, safety.orphan, safety.pending.expected, safety.pending.desired}
                 \cup (IF job.kind = "confirm" THEN {job.card} ELSE {})

\* "A scope is unfenced only when all canonical/pending/orphan targets in it are settled"
\* (docs/superpowers/plans/2026-10-01-mlai-continuity.md:348-349).
UnfencedWhenSettled == memory.card \in unsettled => safety.blocked
=============================================================================
