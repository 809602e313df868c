---------------------------- MODULE PersonalMemory ----------------------------
(***************************************************************************)
(* Consent to the use of personal facts in generated replies, and the      *)
(* commit of every change of a member's own memory                         *)
(* (personal_memory.rs, runtime/personal_memory_commit.rs and its          *)
(* submodules, persist/personal_memory.rs).                                *)
(*                                                                         *)
(* A change is a transaction over three files: a journal of withdrawals    *)
(* and activations beside the canonical document, the document itself,     *)
(* written twice, and the projection of the facts.  A withdrawal closes    *)
(* the use of facts in memory as soon as it is admitted, while another     *)
(* transaction may be between any two of its files.  Any file operation    *)
(* may fail before or after it took effect, and the process may die        *)
(* between any two.                                                        *)
(*                                                                         *)
(* revision and consent_epoch only ever move together and are one counter. *)
(* The digest canonical_base of a memory image is the document it stands   *)
(* for.  A member has one fact, which is stored or not and proven to be    *)
(* the member's own or not.  Cutoffs and exposure receipts are left out.   *)
(***************************************************************************)
EXTENDS Naturals, FiniteSets

CONSTANTS
  Users,       \* members
  Requests,    \* request ids
  Turns,       \* replies being generated
  Nobody,      \* no member, no request
  Kinds,       \* the changes members ask for
  MaxEvents    \* bound on edits by the memory service, requests asked again,
               \* failing file operations and deaths of the process, together

ASSUME PersonalMemoryAssumption ==
  /\ Nobody \notin Requests
  /\ Kinds \subseteq {"on", "off", "remember", "confirm", "forget"}
  /\ MaxEvents \in Nat

VARIABLES
  live, base,     \* the Stores in memory and their canonical_base
  blocked,        \* personal_memory_blocked
  denials,        \* ReconciliationState: the fences no commit has covered yet
  publication,    \* ... and the publication memory does not show yet
  disk, marker,   \* the canonical document and the journal
  boot,           \* the process: up, or recovering before it serves
  req,            \* per request id, the member's action and its answer
  tx,             \* the transaction that holds persistence_preparation
  snap,           \* the ordinary snapshot that holds it
  turn,           \* per reply, the permits captured with its context
  withdrawn,      \* history: members whose last admitted choice is to withdraw
  secured,        \* history: ... and whose withdrawal must outlive the process
  acked,          \* history: what a member's last confirmed change promises
  latest,         \* history: the change of each kind a member has begun last
  events          \* how many of the bounded events there were

memory == <<live, base, blocked, denials, publication>>
files == <<disk, marker>>
history == <<withdrawn, secured, acked, latest>>
vars == <<memory, files, boot, req, tx, snap, turn, history, events>>

Larger(a, b) == IF a > b THEN a ELSE b

-----------------------------------------------------------------------------
(* Documents and the journal *)

NoMark == [rev |-> 0, epoch |-> 0, by |-> Nobody]
EmptyMarker == [off |-> [u \in Users |-> NoMark], on |-> [u \in Users |-> NoMark]]
NoDenial == NoMark

Subject(on) ==
  [rev |-> IF on THEN 1 ELSE 0, on |-> on, pending |-> FALSE, proof |-> on,
   out |-> [r \in Requests |-> "none"]]
Document(S) == [facts |-> S, subj |-> [u \in Users |-> Subject(u \in S)], epoch |-> 1]
NoPublication == [known |-> FALSE, doc |-> Document({}), base |-> Document({}), id |-> Document({})]

\* ConsentStamp
Stamp(d, u) == <<d.subj[u].rev, d.epoch>>

\* MemoryUsePermitSet::for_subject: the subject's own state allows the use
Authorizes(d, u) ==
  /\ d.subj[u].on /\ ~d.subj[u].pending
  /\ \A r \in Requests : d.subj[u].out[r] # "open"

\* The in-memory fence of an admitted withdrawal.
Fence(d, u) ==
  [d EXCEPT !.epoch = @ + 1, !.subj[u].on = FALSE, !.subj[u].pending = FALSE,
            !.subj[u].rev = @ + 1]

\* fold_denials, for one entry of the journal
FoldEntry(s, w) ==
  IF w = NoMark THEN s
  ELSE [s EXCEPT !.on = FALSE, !.pending = FALSE,
                 !.rev = Larger(@, w.rev) + (IF s.on \/ s.pending THEN 1 ELSE 0),
                 !.out = [r \in Requests |->
                            IF r = w.by /\ req[r].kind = "on" THEN "none" ELSE @[r]]]

Entries(m) == {m.off[u] : u \in Users} \cup {m.on[u] : u \in Users}
IsEmpty(m) == Entries(m) = {NoMark}

\* A mutant: only the withdrawals of the journal are folded, the activations are forgotten.
FoldOnlyEpochs(d, m) ==
  [d EXCEPT !.epoch = CHOOSE e \in {@} \cup {w.epoch : w \in Entries(m)} :
                        \A w \in Entries(m) : e >= w.epoch /\ e >= d.epoch]

\* fold_denials
FoldDenials(d, m) ==
  [d EXCEPT
    !.subj = [u \in Users |-> FoldEntry(FoldEntry(@[u], m.off[u]), m.on[u])],
    !.epoch = CHOOSE e \in {@} \cup {w.epoch : w \in Entries(m)} :
                \A w \in Entries(m) : e >= w.epoch /\ e >= d.epoch]

\* add_withdrawal keeps the larger minima of an earlier entry.
AddWithdrawal(m, u, w) ==
  [m EXCEPT !.off[u] = [rev |-> Larger(@.rev, w.rev), epoch |-> Larger(@.epoch, w.epoch),
                        by |-> w.by]]

\* complete_qualified_outcomes
Completed(s) ==
  [s EXCEPT !.out = [r \in Requests |-> IF @[r] = "none" THEN "none" ELSE "done"]]
CompleteOutcomes(d) == [d EXCEPT !.subj = [u \in Users |-> Completed(@[u])]]

\* recover_owned closes a change of choice that is still under way.
Closed(s) ==
  [s EXCEPT !.on = FALSE, !.pending = FALSE, !.rev = @ + 1,
            !.out = [r \in Requests |->
                       IF req[r].kind = "on" /\ @[r] = "open" THEN "none" ELSE @[r]]]

\* recover_owned: what a restart makes of the two files
Recovered(d, m) ==
  LET folded == FoldDenials(d, m)
      unresolved == {u \in Users : folded.subj[u].pending}
  IN  CompleteOutcomes(
        [folded EXCEPT
          !.subj = [u \in Users |-> IF u \in unresolved THEN Closed(@[u]) ELSE @[u]],
          !.epoch = IF unresolved = {} THEN @ ELSE @ + 1])

\* merge_map and merge_rows, for one key: a newer change in memory wins.
Merged(mine, before, after) == IF mine = before THEN after ELSE mine

RebasedFacts(l, before, d) == (l.facts \ (before.facts \ d.facts)) \cup (d.facts \ before.facts)

RebasedSubject(l, before, d, u) ==
  LET mine == l.subj[u]  old == before.subj[u]  new == d.subj[u]
  IN  IF mine = old THEN new
      ELSE [rev |-> Larger(mine.rev, new.rev),
            on |-> mine.on /\ new.on,
            pending |-> mine.on /\ new.on /\ (mine.pending \/ new.pending),
            proof |-> Merged(mine.proof, old.proof, new.proof),
            out |-> [r \in Requests |-> Merged(mine.out[r], old.out[r], new.out[r])]]

\* UninstalledPublication::rebase
Rebase(l, before, d) ==
  LET facts == RebasedFacts(l, before, d)
  IN  [facts |-> facts,
       subj |-> [u \in Users |->
                   [RebasedSubject(l, before, d, u) EXCEPT !.proof = @ /\ u \in facts]],
       epoch |-> Larger(l.epoch, d.epoch)]

PublicationMatches == publication.known /\ publication.id = disk /\ publication.base = base

-----------------------------------------------------------------------------

NotAsked == [at |-> "new", user |-> Nobody, kind |-> "on", stamp |-> <<0, 0>>,
             allowed |-> <<0, 0>>, fresh |-> FALSE]
Idle == [at |-> "idle", by |-> Nobody, cand |-> Document({}), live |-> Document({}),
         base |-> Document({}), journal |-> EmptyMarker, mark |-> NoMark,
         replay |-> FALSE, aborted |-> FALSE]
NoSnapshot == [held |-> FALSE, doc |-> Document({}), base |-> Document({})]
Silent == [at |-> "idle", user |-> Nobody, stamp |-> <<0, 0>>, fresh |-> FALSE]
Fields == {"choice", "fact"}
NothingAcked == [u \in Users |-> [field \in Fields |-> "none"]]
NothingBegun == [u \in Users |-> [field \in Fields |-> Nobody]]

\* Some members have already allowed the use of a fact of theirs.
Init ==
  /\ \E S \in SUBSET Users : live = Document(S)
  /\ disk = live /\ base = live /\ marker = EmptyMarker
  /\ blocked = FALSE /\ denials = [u \in Users |-> NoDenial] /\ publication = NoPublication
  /\ boot = "up" /\ req = [r \in Requests |-> NotAsked] /\ tx = Idle /\ snap = NoSnapshot
  /\ turn = [t \in Turns |-> Silent]
  /\ withdrawn = {} /\ secured = {} /\ acked = NothingAcked /\ latest = NothingBegun
  /\ events = 0

Another == events < MaxEvents /\ events' = events + 1
NoDenials == \A u \in Users : denials[u] = NoDenial
Settled(r, at) == req' = [req EXCEPT ![r].at = at]
Kind(r) == req[r].kind
Member(r) == req[r].user

\* What a member was promised ends with the member's next change.
Unpromised(u, field) == [acked EXCEPT ![u][field] = "none"]
ChoiceField(r) == IF Kind(r) \in {"on", "off"} THEN "choice" ELSE "fact"

\* A change begins: what an older one asked no longer counts, even if it is replayed.
NewChange(r) ==
  /\ acked' = Unpromised(Member(r), ChoiceField(r))
  /\ latest' = IF Kind(r) = "confirm" THEN latest
               ELSE [latest EXCEPT ![Member(r)][ChoiceField(r)] = r]

\* A newer choice of the member: an older request to allow the use no longer stands.
Overtaken(q, u) ==
  IF Member(q) = u /\ Kind(q) = "on" THEN [req[q] EXCEPT !.fresh = FALSE] ELSE req[q]

\* The context of a reply is out of date once its member's use is off or its fact gone.
Lost(d, u) == (live.subj[u].on /\ ~d.subj[u].on) \/ (u \in live.facts /\ u \notin d.facts)
Outdate(d) ==
  turn' = [t \in Turns |-> IF turn[t].at = "held" /\ Lost(d, turn[t].user)
                              THEN [turn[t] EXCEPT !.fresh = FALSE] ELSE turn[t]]

-----------------------------------------------------------------------------
(* Admission: authenticated_action and commit_personal_request *)

Ask(r, u, k) ==
  /\ boot = "up" /\ req[r].at = "new"
  /\ req' = [req EXCEPT ![r] = [at |-> "asked", user |-> u, kind |-> k, stamp |-> Stamp(live, u),
                                allowed |-> Stamp(live, u), fresh |-> TRUE]]
  /\ UNCHANGED <<memory, files, boot, tx, snap, turn, history, events>>

Answered(r) == live.subj[Member(r)].out[r] = "done"

\* An id that has completed is answered with its recorded result.
AdmitKnown(r) ==
  /\ boot = "up" /\ req[r].at = "asked" /\ Answered(r) /\ Settled(r, "ok")
  /\ UNCHANGED <<memory, files, boot, tx, snap, turn, history, events>>

FencesNow(r) == Kind(r) = "off" /\ Stamp(live, Member(r)) = req[r].stamp

\* A withdrawal by a member who saw the current state takes effect in memory.
AdmitWithdrawal(r) ==
  /\ boot = "up" /\ req[r].at = "asked" /\ ~Answered(r) /\ FencesNow(r)
  /\ LET u == Member(r)
         fenced == Fence(live, u)
     IN  /\ live' = fenced /\ blocked' = TRUE
         /\ denials' = [denials EXCEPT ![u] = [rev |-> fenced.subj[u].rev,
                                               epoch |-> fenced.epoch, by |-> r]]
         /\ req' = [q \in Requests |->
                      IF q = r THEN [req[q] EXCEPT !.at = "queued", !.allowed = Stamp(fenced, u)]
                      ELSE Overtaken(q, u)]
         /\ withdrawn' = withdrawn \cup {u}
         /\ secured' = IF marker.off[u] = NoMark THEN secured \ {u} ELSE secured
         /\ acked' = Unpromised(u, "choice") /\ latest' = [latest EXCEPT ![u]["choice"] = Nobody]
         /\ Outdate(fenced)
  /\ UNCHANGED <<base, publication, files, boot, tx, snap, events>>

AdmitOther(r) ==
  /\ boot = "up" /\ req[r].at = "asked" /\ ~Answered(r) /\ ~FencesNow(r)
  /\ Settled(r, "queued")
  /\ UNCHANGED <<memory, files, boot, tx, snap, turn, history, events>>

\* The same action is presented again after its answer was lost or a refusal.
Retry(r) ==
  /\ boot = "up" /\ req[r].at = "refused" /\ Another
  /\ req' = [req EXCEPT ![r].at = "asked", ![r].allowed = req[r].stamp]
  /\ UNCHANGED <<memory, files, boot, tx, snap, turn, history>>

-----------------------------------------------------------------------------
(* The transaction, under persistence_preparation and the mutation lock *)

Free == boot = "up" /\ tx.at = "idle" /\ ~snap.held

Refused(r) == Settled(r, "refused") /\ UNCHANGED tx

\* The two files know the request: it was published and not confirmed.
Known(r) ==
  \/ disk.subj[Member(r)].out[r] # "none"
  \/ marker.off[Member(r)].by = r \/ marker.on[Member(r)].by = r

CanApply(r, d) == Kind(r) \in {"confirm", "forget"} => Member(r) \in d.facts

AppliedFacts(r, d) ==
  CASE Kind(r) = "remember" -> d.facts \cup {Member(r)}
    [] Kind(r) = "forget" -> d.facts \ {Member(r)}
    [] OTHER -> d.facts

\* apply_mutation and what every change moves with it
Apply(r, d) ==
  LET s == d.subj[Member(r)]
      proof == IF Kind(r) \in {"remember", "confirm"} THEN TRUE
               ELSE IF Kind(r) = "forget" THEN FALSE ELSE s.proof
      on == IF Kind(r) \in {"on", "off"} THEN Kind(r) = "on" ELSE s.on
  IN  [facts |-> AppliedFacts(r, d),
       epoch |-> d.epoch + 1,
       subj |-> [d.subj EXCEPT ![Member(r)] =
                   [s EXCEPT !.on = on, !.proof = proof, !.rev = @ + 1, !.out[r] = "open"]]]

\* A replay repairs only its own publication.
Repairable(r) ==
  /\ \A u \in Users : denials[u] = NoDenial \/ (u = Member(r) /\ denials[u].by = r)
  /\ IF publication.known THEN PublicationMatches
     ELSE \/ base = disk
          \/ live.facts = disk.facts
          \/ CanApply(r, live) /\ AppliedFacts(r, live) = disk.facts

Repaired(r) ==
  FoldDenials(IF publication.known THEN Rebase(live, publication.doc, disk) ELSE disk, marker)

AbortedOn(r) ==
  \/ marker.on[Member(r)].by = r
  \/ Kind(r) = "on" /\ marker.off[Member(r)].by = r

StartReplay(r) ==
  /\ Free /\ req[r].at = "queued" /\ Known(r)
  /\ blocked' = TRUE
  /\ LET repaired == Repaired(r)
         recorded == repaired.subj[Member(r)].out[r] # "none"
     IN  IF Repairable(r) /\ (AbortedOn(r) \/ recorded \/ Kind(r) = "off")
           THEN /\ tx' = [Idle EXCEPT
                     !.at = "write", !.by = r, !.live = live, !.base = base,
                     !.journal = marker, !.replay = TRUE, !.aborted = AbortedOn(r),
                     !.cand = IF recorded \/ AbortedOn(r) THEN repaired
                              ELSE [repaired EXCEPT !.subj[Member(r)].out[r] = "open"]]
                /\ Settled(r, "running")
                /\ acked' = Unpromised(Member(r), ChoiceField(r))
           ELSE Refused(r) /\ UNCHANGED acked
  /\ UNCHANGED <<live, base, denials, publication, files, boot, snap, turn, withdrawn, secured,
                 latest, events>>

\* Memory descends from the document, or from what we published over it.
Current == base = disk
Behind(r) == ~Current /\ Kind(r) = "off" /\ PublicationMatches
Source(r) == IF Current THEN live ELSE Rebase(live, publication.doc, disk)

Permitted(r) ==
  /\ Stamp(live, Member(r)) = req[r].allowed
  /\ Current \/ Behind(r)
  /\ Kind(r) = "off" \/ (IsEmpty(marker) /\ NoDenials)
  /\ CanApply(r, Source(r))

Mark(r, d) == [rev |-> d.subj[Member(r)].rev, epoch |-> d.epoch, by |-> r]

\* The candidate and the journal that go first; a withdrawal folds the whole journal.
Prepared(r) ==
  LET u == Member(r)
      applied == Apply(r, Source(r))
      mark == Mark(r, applied)
      journal == CASE Kind(r) = "off" -> AddWithdrawal(marker, u, mark)
                   [] Kind(r) = "on" -> [marker EXCEPT !.on[u] = mark]
                   [] OTHER -> marker
      cand == CASE Kind(r) = "off" -> FoldDenials(applied, journal)
                [] Kind(r) = "on" -> [applied EXCEPT !.subj[u].pending = TRUE]
                [] OTHER -> applied
  IN  [Idle EXCEPT !.at = IF Kind(r) \in {"on", "off"} THEN "mark" ELSE "write", !.by = r,
                   !.cand = cand, !.live = live, !.base = base, !.journal = journal,
                   !.mark = mark]

StartFresh(r) ==
  /\ Free /\ req[r].at = "queued" /\ ~Known(r) /\ Permitted(r)
  /\ tx' = Prepared(r) /\ Settled(r, "running") /\ NewChange(r)
  /\ UNCHANGED <<memory, files, boot, snap, turn, withdrawn, secured, events>>

\* A withdrawal that memory cannot build on is at least put on record.
OnlyMarks(r) ==
  /\ Kind(r) = "off" /\ Stamp(live, Member(r)) = req[r].allowed /\ ~Current /\ ~Behind(r)

StartMark(r) ==
  /\ Free /\ req[r].at = "queued" /\ ~Known(r) /\ OnlyMarks(r)
  /\ tx' = [Idle EXCEPT !.at = "mark only", !.by = r,
                        !.journal = AddWithdrawal(marker, Member(r), Mark(r, live))]
  /\ Settled(r, "running") /\ NewChange(r)
  /\ UNCHANGED <<memory, files, boot, snap, turn, withdrawn, secured, events>>

RefuseFresh(r) ==
  /\ Free /\ req[r].at = "queued" /\ ~Known(r) /\ ~Permitted(r) /\ ~OnlyMarks(r)
  /\ Refused(r)
  /\ UNCHANGED <<memory, files, boot, snap, turn, history, events>>

-----------------------------------------------------------------------------
(* Its steps: one file operation each *)

Goto(step) == tx' = [tx EXCEPT !.at = step]
Settles(ok) ==
  /\ tx' = Idle
  /\ Settled(tx.by, IF ok THEN "ok" ELSE "refused")

\* publish_owned: a withdrawal in the journal must outlive the process.
Journal(m) ==
  /\ marker' = m
  /\ secured' = secured \cup {u \in withdrawn : m.off[u] # NoMark}

\* Off and On name the subject in the journal before anything else is written.
PublishMark ==
  /\ tx.at = "mark" /\ Goto("write") /\ Journal(tx.journal)
  /\ UNCHANGED <<memory, disk, boot, req, snap, turn, withdrawn, acked, latest, events>>

PublishMarkOnly ==
  /\ tx.at = "mark only" /\ Settles(FALSE) /\ Journal(tx.journal)
  /\ UNCHANGED <<memory, disk, boot, snap, turn, withdrawn, acked, latest, events>>

MarkFails ==
  /\ tx.at \in {"mark", "mark only"} /\ Another /\ Settles(FALSE)
  /\ \E m \in {marker, tx.journal} : Journal(m)
  /\ UNCHANGED <<memory, disk, boot, snap, turn, withdrawn, acked, latest>>

\* persist_canonical_owned, exact_readback and ReconciliationState::published
WriteCandidate ==
  /\ tx.at \in {"write", "settle"}
  /\ disk' = tx.cand
  /\ publication' = [known |-> TRUE, doc |-> tx.live, base |-> tx.base, id |-> tx.cand]
  /\ Goto(IF tx.at = "write" THEN "project" ELSE IF tx.replay THEN "retire" ELSE "check")
  /\ UNCHANGED <<live, base, blocked, denials, marker, boot, req, snap, turn, history, events>>

\* qualify_personal_projection; then the outcomes are complete.
Project ==
  /\ tx.at = "project"
  /\ tx' = [tx EXCEPT !.at = "settle",
                      !.cand = CompleteOutcomes(IF tx.replay THEN @
                                 ELSE [@ EXCEPT !.subj[Member(tx.by)].pending = FALSE])]
  /\ UNCHANGED <<memory, files, boot, req, snap, turn, history, events>>

\* A failure: a fresh change of choice leaves a withdrawal in the journal.
Fails ==
  IF tx.replay THEN Settles(FALSE) /\ UNCHANGED blocked
  ELSE /\ blocked' = TRUE
       /\ IF Kind(tx.by) \in {"on", "off"} THEN Goto("deny") /\ UNCHANGED req ELSE Settles(FALSE)

WriteFails ==
  /\ tx.at \in {"write", "settle"} /\ Another /\ Fails
  /\ disk' \in {disk, tx.cand}
  /\ UNCHANGED <<live, base, denials, publication, marker, boot, snap, turn, history>>

ProjectFails ==
  /\ tx.at = "project" /\ Another /\ Fails
  /\ UNCHANGED <<live, base, denials, publication, files, boot, snap, turn, history>>

\* Was the member's choice changed meanwhile?
Check ==
  /\ tx.at = "check"
  /\ IF Stamp(live, Member(tx.by)) # req[tx.by].allowed THEN Fails
     ELSE /\ Goto(IF Kind(tx.by) \in {"on", "off"} THEN "retire" ELSE "install")
          /\ UNCHANGED <<blocked, req>>
  /\ UNCHANGED <<live, base, denials, publication, files, boot, snap, turn, history, events>>

\* A mutant: an activation that went through leaves its entry in the journal.
RetireWithdrawals ==
  [tx.journal EXCEPT !.off[Member(tx.by)] = IF Kind(tx.by) = "off" THEN NoMark ELSE @]

Retired ==
  IF tx.replay THEN EmptyMarker
  ELSE [off |-> IF Kind(tx.by) = "off" THEN [tx.journal.off EXCEPT ![Member(tx.by)] = NoMark]
                ELSE tx.journal.off,
        on |-> [tx.journal.on EXCEPT ![Member(tx.by)] = NoMark]]

\* With the journal empty the document speaks for itself: an activation has happened.
Retires(m) ==
  /\ marker' = m
  /\ IF m # marker /\ ~tx.replay /\ Kind(tx.by) = "on" /\ req[tx.by].fresh
       THEN withdrawn' = withdrawn \ {Member(tx.by)} /\ secured' = secured \ {Member(tx.by)}
       ELSE UNCHANGED <<withdrawn, secured>>

Retire ==
  /\ tx.at = "retire" /\ Retires(Retired)
  /\ tx' = [tx EXCEPT !.at = "install", !.journal = Retired]
  /\ UNCHANGED <<memory, disk, boot, req, snap, turn, acked, latest, events>>

RetireFails ==
  /\ tx.at = "retire" /\ ~(tx.replay /\ IsEmpty(tx.journal)) /\ Another /\ Fails
  /\ \E m \in {marker, Retired} : Retires(m)
  /\ UNCHANGED <<live, base, denials, publication, disk, boot, snap, turn, acked, latest>>

\* retire_denials: the fences the installed document covers
Covered(u) ==
  /\ ~tx.cand.subj[u].on /\ ~tx.cand.subj[u].pending
  /\ tx.cand.subj[u].rev >= denials[u].rev /\ tx.cand.epoch >= denials[u].epoch
Outstanding == [u \in Users |-> IF Covered(u) THEN NoDenial ELSE denials[u]]

Unmoved == live.subj = tx.live.subj /\ live.epoch = tx.live.epoch /\ tx.cand.epoch >= live.epoch

\* What the member is told now holds across restarts.
Promise(r) ==
  acked' = IF latest[Member(r)][ChoiceField(r)] # r THEN acked
           ELSE [acked EXCEPT ![Member(r)][ChoiceField(r)] = Kind(r)]

\* install_personal_candidate
Install ==
  /\ tx.at = "install"
  /\ IF ~Unmoved THEN Fails /\ UNCHANGED <<live, base, denials, publication, turn, acked>>
     ELSE /\ live' = tx.cand /\ base' = tx.cand
          /\ denials' = Outstanding /\ publication' = NoPublication
          /\ Outdate(tx.cand)
          /\ IF tx.replay
               THEN /\ blocked' = (blocked /\ Outstanding # [u \in Users |-> NoDenial])
                    /\ Settles(~tx.aborted)
                    /\ IF tx.aborted THEN UNCHANGED acked ELSE Promise(tx.by)
               ELSE Goto("finish") /\ UNCHANGED <<blocked, req, acked>>
  /\ UNCHANGED <<files, boot, snap, withdrawn, secured, latest, events>>

\* The barrier opens when nothing is left in the journal and nobody moved.
Finish ==
  /\ tx.at = "finish" /\ Settles(TRUE) /\ Promise(tx.by)
  /\ blocked' = (blocked /\ ~(IsEmpty(tx.journal) /\ NoDenials /\ live.epoch = tx.cand.epoch))
  /\ UNCHANGED <<live, base, denials, publication, files, boot, snap, turn, withdrawn, secured,
                 latest, events>>

Denied == AddWithdrawal(marker, Member(tx.by), tx.mark)

Deny ==
  /\ tx.at = "deny" /\ Journal(Denied) /\ Settles(FALSE)
  /\ UNCHANGED <<memory, disk, boot, snap, turn, withdrawn, acked, latest, events>>

DenyFails ==
  /\ tx.at = "deny" /\ Another /\ Settles(FALSE)
  /\ \E m \in {marker, Denied} : Journal(m)
  /\ UNCHANGED <<memory, disk, boot, snap, turn, withdrawn, acked, latest>>

-----------------------------------------------------------------------------
(* The memory service, the ordinary writer, replies *)

\* invalidate_subject: a member who never chose has no record to advance.
Invalidated(d, u) ==
  [d EXCEPT !.epoch = @ + 1, !.subj[u].rev = IF @ = 0 THEN 0 ELSE @ + 1]

\* A change by the service is newer than what the member asked of the fact, and than
\* an activation under way.
Overtakes(u) ==
  /\ req' = [q \in Requests |-> Overtaken(q, u)]
  /\ acked' = Unpromised(u, "fact")
  /\ latest' = [latest EXCEPT
       ![u]["choice"] = IF @ \in Requests /\ Kind(@) = "on" THEN Nobody ELSE @,
       ![u]["fact"] = Nobody]

\* MemoryService::remember: a fact without the member's proof.  Rebased onto the
\* record it changes, an activation that is not installed yet leaves the use off.
Learn(u) ==
  /\ boot = "up" /\ tx.at = "idle" /\ u \notin live.facts
  /\ Another
  /\ Overtakes(u)
  /\ live' = [Invalidated(live, u) EXCEPT !.facts = @ \cup {u}]
  /\ UNCHANGED <<base, blocked, denials, publication, files, boot, tx, snap, turn, withdrawn, secured>>

\* MemoryService::forget; reconcile_projection drops the proof with the fact.
Unlearn(u) ==
  /\ boot = "up" /\ tx.at = "idle" /\ u \in live.facts
  /\ Another
  /\ Overtakes(u)
  /\ LET forgot == [Invalidated(live, u) EXCEPT !.facts = @ \ {u}, !.subj[u].proof = FALSE]
     IN  live' = IF live.subj[u].proof THEN Invalidated(forgot, u) ELSE forgot
  /\ Outdate(live')
  /\ UNCHANGED <<base, blocked, denials, publication, files, boot, tx, snap, withdrawn, secured>>

\* A scheduled snapshot or a work commit, up to its write.
TakeSnapshot ==
  /\ Free /\ live # disk
  /\ snap' = [held |-> TRUE, doc |-> live, base |-> base]
  /\ UNCHANGED <<memory, files, boot, req, tx, turn, history, events>>

\* The writer refuses while the journal holds anything, or over another's document.
Writable == IsEmpty(marker) /\ snap.base = disk

WriteSnapshot ==
  /\ snap.held /\ snap' = NoSnapshot
  /\ IF Writable THEN disk' = snap.doc /\ base' = snap.doc ELSE UNCHANGED <<disk, base>>
  /\ UNCHANGED <<live, blocked, denials, publication, marker, boot, req, tx, turn, history, events>>

SnapshotFails ==
  /\ snap.held /\ Writable /\ Another /\ snap' = NoSnapshot
  /\ disk' \in {disk, snap.doc}
  /\ UNCHANGED <<memory, marker, boot, req, tx, turn, history>>

\* context_for: the facts of a reply and the permits sealed with them
Capture(t, u) ==
  /\ boot = "up" /\ turn[t].at = "idle"
  /\ ~blocked /\ Authorizes(live, u) /\ live.subj[u].proof
  /\ turn' = [turn EXCEPT ![t] = [at |-> "held", user |-> u, stamp |-> Stamp(live, u), fresh |-> TRUE]]
  /\ UNCHANGED <<memory, files, boot, req, tx, snap, history, events>>

\* A mutant: permits are checked by what the subject allows now.
ValidIfAllowed(t) == turn[t].at = "held" /\ ~blocked /\ Authorizes(live, turn[t].user)

\* validate_personal_memory_permits
Valid(t) ==
  /\ turn[t].at = "held" /\ ~blocked
  /\ Authorizes(live, turn[t].user) /\ Stamp(live, turn[t].user) = turn[t].stamp

Deliver(t) ==
  /\ boot = "up" /\ Valid(t) /\ turn' = [turn EXCEPT ![t] = Silent]
  /\ UNCHANGED <<memory, files, boot, req, tx, snap, history, events>>

-----------------------------------------------------------------------------
(* The process dies and starts again *)

\* An action lives in its handler: only what the files know of can be asked again.
Crash ==
  /\ Another
  /\ boot' = "write" /\ live' = disk /\ base' = disk /\ blocked' = TRUE
  /\ denials' = [u \in Users |-> NoDenial] /\ publication' = NoPublication
  /\ req' = [r \in Requests |->
               IF req[r].at \in {"new", "ok"} THEN req[r]
               ELSE [req[r] EXCEPT !.at = IF Known(r) THEN "refused" ELSE "lost"]]
  /\ tx' = Idle /\ snap' = NoSnapshot /\ turn' = [t \in Turns |-> Silent]
  /\ withdrawn' = withdrawn \cap secured
  /\ UNCHANGED <<files, secured, acked, latest>>

Serve(d) == boot' = "up" /\ live' = d /\ base' = d /\ blocked' = FALSE

\* recover_owned writes the repaired document, then empties the journal.
RecoverDocument ==
  /\ boot = "write" /\ disk' = Recovered(disk, marker)
  /\ IF IsEmpty(marker) THEN Serve(Recovered(disk, marker))
     ELSE boot' = "clear" /\ UNCHANGED <<live, base, blocked>>
  /\ UNCHANGED <<denials, publication, marker, req, tx, snap, turn, history, events>>

RecoverJournal ==
  /\ boot = "clear" /\ marker' = EmptyMarker /\ Serve(disk)
  /\ UNCHANGED <<denials, publication, disk, req, tx, snap, turn, history, events>>

\* After a failed recovery the stores as loaded are served, blocked.
RecoveryFails ==
  /\ boot \in {"write", "clear"} /\ Another /\ boot' = "up"
  /\ IF boot = "write" THEN disk' \in {disk, Recovered(disk, marker)} /\ UNCHANGED marker
     ELSE marker' \in {marker, EmptyMarker} /\ UNCHANGED disk
  /\ UNCHANGED <<memory, req, tx, snap, turn, history>>

-----------------------------------------------------------------------------

Step ==
  \/ PublishMark \/ PublishMarkOnly \/ MarkFails \/ WriteCandidate \/ WriteFails
  \/ Project \/ ProjectFails \/ Check \/ Retire \/ RetireFails \/ Install \/ Finish
  \/ Deny \/ DenyFails

Start(r) == StartReplay(r) \/ StartFresh(r) \/ StartMark(r) \/ RefuseFresh(r)
Recover == RecoverDocument \/ RecoverJournal \/ RecoveryFails

Next ==
  \/ \E r \in Requests : \/ \E u \in Users, k \in Kinds : Ask(r, u, k)
                         \/ AdmitKnown(r) \/ AdmitWithdrawal(r) \/ AdmitOther(r)
                         \/ Retry(r) \/ Start(r)
  \/ Step
  \/ \E u \in Users : Learn(u) \/ Unlearn(u)
  \/ TakeSnapshot \/ WriteSnapshot \/ SnapshotFails
  \/ \E t \in Turns : Deliver(t) \/ \E u \in Users : Capture(t, u)
  \/ Crash \/ Recover

Spec == Init /\ [][Next]_vars

-----------------------------------------------------------------------------
(* Properties *)

Usable(u) == boot = "up" /\ ~blocked /\ Authorizes(live, u)

\* A member who has withdrawn, and has not asked again since, is not used: not
\* through a transaction that was under way, a replay, a merge or a failed
\* recovery; and not after a restart once the journal has held the withdrawal.
WithdrawnIsUnused == \A u \in withdrawn : ~Usable(u)

\* Permits captured with a context do not outlive it: once the member has
\* withdrawn or forgotten the fact, they never validate again, not even after
\* the member allows the use anew (MemoryUsePermitSet::validate).
PermitsEnd == \A t \in Turns : Valid(t) => turn[t].fresh

\* What a confirmed change promised is what a restart would load, whatever
\* failed since, until the member's next change.
AckedHolds ==
  LET restarted == Recovered(disk, marker)
  IN  \A u \in Users :
        /\ acked[u]["choice"] = "on" => restarted.subj[u].on
        /\ acked[u]["choice"] = "off" => ~restarted.subj[u].on
        /\ acked[u]["fact"] = "remember" => u \in restarted.facts
        /\ acked[u]["fact"] = "forget" => u \notin restarted.facts
=============================================================================
