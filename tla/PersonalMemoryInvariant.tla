---------------------- MODULE PersonalMemoryInvariant ----------------------
(***************************************************************************)
(* The invariants behind the theorems about PersonalMemory.  IInv is       *)
(* inductive: a member who has withdrawn is not used.  PInv, of permits,   *)
(* and AInv, of confirmed changes, are relative to it.                     *)
(***************************************************************************)
EXTENDS PersonalMemory

Outcome == {"none", "open", "done"}
Subjects ==
  [rev : Nat, on : BOOLEAN, pending : BOOLEAN, proof : BOOLEAN, out : [Requests -> Outcome]]
Documents == [facts : SUBSET Users, subj : [Users -> Subjects], epoch : Nat]
Marks == [rev : Nat, epoch : Nat, by : Requests \cup {Nobody}]
Journals == [off : [Users -> Marks], on : [Users -> Marks]]
Stamps == Nat \X Nat
Requested ==
  [at : {"new", "asked", "queued", "running", "ok", "refused", "lost"}, user : Users \cup {Nobody},
   kind : {"on", "off", "remember", "confirm", "forget"}, stamp : Stamps, allowed : Stamps,
   fresh : BOOLEAN]

Publishing == {"write", "project", "settle", "check", "retire", "install", "finish"}
Written == {"check", "retire", "install", "finish"}
Transaction ==
  [at : {"idle", "mark", "mark only", "deny"} \cup Publishing, by : Requests \cup {Nobody},
   cand : Documents, live : Documents, base : Documents, journal : Journals, mark : Marks,
   replay : BOOLEAN, aborted : BOOLEAN]

Types ==
  /\ live \in Documents /\ base \in Documents /\ disk \in Documents
  /\ blocked \in BOOLEAN /\ denials \in [Users -> Marks]
  /\ publication \in [known : BOOLEAN, doc : Documents, base : Documents, id : Documents]
  /\ marker \in Journals /\ boot \in {"up", "write", "clear"}
  /\ req \in [Requests -> Requested] /\ tx \in Transaction
  /\ snap \in [held : BOOLEAN, doc : Documents, base : Documents]
  /\ withdrawn \in SUBSET Users /\ secured \in SUBSET Users

-----------------------------------------------------------------------------
(* The invariant *)

\* The members a journal names.
Marked(m, u) == m.off[u] # NoMark \/ m.on[u] # NoMark
\* A restart would not find the use of u's facts allowed.
Off(u) == Marked(marker, u) \/ ~disk.subj[u].on

\* e allows nobody's use that d does not allow.
Below(e, d) == \A u \in Users : e.subj[u].on => d.subj[u].on
Covers(n, m) == \A u \in Users : m.off[u].epoch <= n /\ m.on[u].epoch <= n
\* What is in journal m is in k, at least as late.
Continues(k, m) ==
  \A u \in Users : /\ k.off[u].epoch >= m.off[u].epoch /\ k.on[u].epoch >= m.on[u].epoch
                   /\ m.off[u] # NoMark => k.off[u] # NoMark
                   /\ m.on[u] # NoMark => k.on[u] # NoMark

\* What the files say of a withdrawal.
WithdrawalsAreKept ==
  /\ \A u \in withdrawn : denials[u] # NoDenial \/ Off(u)
  /\ \A u \in withdrawn \cap secured : Off(u)
  /\ \E n \in Nat : Covers(n, marker)

\* What memory says of it.
MemoryIsFenced ==
  /\ Below(live, base) /\ live.epoch >= base.epoch
  /\ \A u \in Users : denials[u] # NoDenial => blocked /\ boot = "up"
  /\ boot = "up" /\ ~blocked => \A u \in withdrawn : ~live.subj[u].on

\* Before the process serves it does nothing else.
RecoveryIsFirst ==
  /\ boot # "up" => /\ tx = Idle /\ ~snap.held /\ blocked
                    /\ live = base /\ live.epoch <= disk.epoch
  /\ boot = "clear" => /\ \A u \in Users : Marked(marker, u) => ~disk.subj[u].on
                       /\ Covers(disk.epoch, marker)

SnapshotIsBehind ==
  snap.held => /\ boot = "up" /\ tx.at = "idle"
               /\ Below(live, snap.doc) /\ Below(snap.doc, snap.base)
               /\ live.epoch >= snap.doc.epoch /\ snap.doc.epoch >= snap.base.epoch

\* The consent epoch is past a request's in every document or entry that knows the request.
Past(r, epoch) == req[r].kind = "on" => epoch > req[r].stamp[2]
Dated(d) ==
  \A u \in Users, r \in Requests :
    d.subj[u].out[r] # "none" => req[r].at # "new" /\ Past(r, d.epoch)
MarkDated(w) == w.by \in Requests => req[w.by].at # "new" /\ Past(w.by, w.epoch)
JournalDated(m) == \A u \in Users : MarkDated(m.off[u]) /\ MarkDated(m.on[u])
EverythingIsDated ==
  /\ Dated(live) /\ Dated(disk) /\ Dated(snap.doc) /\ Dated(tx.cand)
  /\ JournalDated(marker) /\ JournalDated(tx.journal) /\ MarkDated(tx.mark)

\* The files will not forget that the epoch was passed.
Kept(epoch) ==
  \/ disk.epoch > epoch
  \/ \E u \in Users : marker.off[u].epoch > epoch \/ marker.on[u].epoch > epoch

\* An activation that was overtaken can no longer be permitted.
RequestIsDated(r) ==
  LET asked == req[r].stamp[2]
  IN  /\ req[r].at # "new" => /\ req[r].user \in Users
                              /\ req[r].kind = "on" => req[r].allowed = req[r].stamp
      /\ req[r].kind = "on" /\ req[r].at \in {"asked", "queued", "running", "refused"} =>
           /\ live.epoch >= asked \/ Kept(asked)
           /\ req[r].fresh \/ live.epoch > asked \/ Kept(asked)

Activation == ~tx.replay /\ Kind(tx.by) = "on"
Activates(u) == Activation /\ u = Member(tx.by)

\* The transaction and what it is about to publish.
TransactionIsSound ==
  /\ tx.at # "idle" => /\ boot = "up" /\ ~snap.held
                       /\ tx.by \in Requests /\ req[tx.by].at = "running"
  /\ tx.replay => tx.at \in Publishing /\ blocked
  /\ \E n \in Nat : Covers(n, tx.journal)
  /\ tx.at \in {"mark", "mark only"} => Continues(tx.journal, marker)
  /\ ~tx.replay /\ tx.at \in {"mark", "deny"} \cup Publishing /\ Kind(tx.by) \in {"on", "off"} =>
       tx.mark.by = tx.by
  /\ tx.at = "deny" => Kind(tx.by) \in {"on", "off"}
  /\ tx.at \in {"mark"} \cup Publishing =>
       /\ tx.cand.epoch >= disk.epoch /\ Covers(tx.cand.epoch, tx.journal)
       /\ \A u \in Users : tx.cand.subj[u].on => disk.subj[u].on \/ Activates(u)
       /\ \A u \in Users : Marked(tx.journal, u) =>
            ~tx.cand.subj[u].on \/ (Activates(u) /\ tx.at \notin {"install", "finish"})
  /\ tx.at \in Publishing => marker = tx.journal
  /\ tx.at \in Written => disk = tx.cand
  /\ tx.at = "finish" => base = tx.cand

\* An activation has the journal to itself until it retires its entry.
ActivationIsSound ==
  tx.at \in {"mark", "write", "project", "settle", "check", "retire"} /\ Activation =>
    /\ \A u \in Users : /\ marker.off[u] = NoMark /\ tx.journal.off[u] = NoMark
                        /\ u # Member(tx.by) => tx.journal.on[u] = NoMark
    /\ tx.journal.on[Member(tx.by)].by = tx.by
    /\ req[tx.by].fresh \/ (denials[Member(tx.by)] # NoDenial /\ Member(tx.by) \notin secured)

\* What holds of withdrawals, on its own.
IInv ==
  /\ Types /\ WithdrawalsAreKept /\ MemoryIsFenced /\ RecoveryIsFirst /\ SnapshotIsBehind
  /\ EverythingIsDated /\ (\A r \in Requests : RequestIsDated(r))
  /\ TransactionIsSound /\ ActivationIsSound

-----------------------------------------------------------------------------
(* What is done to a document                                              *)

\* e knows of no request that d does not know.
Forgets(e, d) ==
  \A u \in Users, r \in Requests : e.subj[u].out[r] # "none" => d.subj[u].out[r] # "none"

\* The use is allowed only of a choice that was made, a proof is of a stored fact.
Sane(d) ==
  \A u \in Users : (d.subj[u].on => d.subj[u].rev > 0) /\ (d.subj[u].proof => u \in d.facts)

\* Who is still allowed in e is allowed in d since the same change, with the same facts.
Follows(e, d) ==
  /\ e.facts = d.facts /\ e.epoch >= d.epoch
  /\ \A u \in Users : /\ e.subj[u].proof = d.subj[u].proof
                      /\ e.subj[u].on => d.subj[u].on /\ e.subj[u].rev = d.subj[u].rev

-----------------------------------------------------------------------------
(* Permits end with the context they were captured with.                   *)
(*                                                                         *)
(* A permit is compared with the revision and the epoch of memory alone,   *)
(* so nothing that may become memory again, the document on disk, a        *)
(* candidate or a snapshot, may show its member's use allowed at the same  *)
(* revision, at no later epoch, and without the fact.                      *)

Unwritten == {"idle", "mark", "mark only"}
InPlay == {"mark", "write", "project", "settle", "check", "retire", "install"}

\* The documents that may become memory or reach the disk.
InHand(d) == d = live \/ d = disk \/ d = tx.cand \/ (snap.held /\ d = snap.doc)

\* d shows u's use allowed since revision n, at epoch e at the latest.
Matches(d, u, n, e) == d.epoch <= e /\ d.subj[u].rev >= n /\ d.subj[u].on

\* Memory is still what the publication and the transaction were made from.
Fixed ==
  /\ publication.known => publication.doc = live
  /\ tx.at \in InPlay => tx.live = live

TurnsAreTyped ==
  /\ turn \in [Turns -> [at : {"idle", "held"}, user : Users \cup {Nobody}, stamp : Stamps,
                         fresh : BOOLEAN]]
  /\ \A t \in Turns : turn[t].at = "held" => turn[t].user \in Users

EverythingIsSane == Sane(live) /\ Sane(disk) /\ Sane(snap.doc) /\ Sane(tx.cand)

\* Where the files and memory stand when nothing of a transaction is written.
MemoryLeads ==
  /\ ~blocked /\ tx.at \in Unwritten =>
       /\ ~publication.known /\ disk.epoch <= live.epoch
       /\ \A u \in Users : disk.subj[u].rev <= live.subj[u].rev
  /\ snap.held => \A u \in Users : snap.doc.subj[u].rev <= live.subj[u].rev
  /\ tx.at = "finish" =>
       ~publication.known /\ (live = tx.cand \/ (blocked /\ live.epoch > tx.cand.epoch))
  /\ tx.at = "deny" => blocked
  /\ tx.at = "idle" => tx.cand = Document({})
  /\ boot # "up" => ~publication.known /\ \A t \in Turns : turn[t].at # "held"

\* A permit may be captured: a document that would match it holds the fact.
MayCapture ==
  ~blocked =>
    /\ Fixed
    /\ \A u \in Users : \A d :
         InHand(d) /\ Matches(d, u, live.subj[u].rev, live.epoch) /\ u \in live.facts => u \in d.facts

\* A document that matches a captured permit holds its fact, and its context stands.
Honours(d, t) ==
  Matches(d, turn[t].user, turn[t].stamp[1], turn[t].stamp[2]) =>
    turn[t].fresh /\ turn[t].user \in d.facts
PermitsAreHonest ==
  \A t \in Turns : turn[t].at = "held" =>
    /\ turn[t].stamp[2] <= live.epoch
    /\ turn[t].stamp[2] = live.epoch => Fixed /\ \A d : InHand(d) => Honours(d, t)

\* What permits rest on, relative to IInv.
PInv == TurnsAreTyped /\ EverythingIsSane /\ MemoryLeads /\ MayCapture /\ PermitsAreHonest

\* d brings nothing that the documents at hand did not have.
Familiar(d) ==
  \/ \E c : InHand(c) /\ Follows(d, c)
  \/ d.epoch > live.epoch
  \/ \A u \in Users : ~d.subj[u].on

-----------------------------------------------------------------------------
(* Confirmed changes                                                       *)

\* The steps before the journal is written, and those that hold a candidate.
Marking == {"mark", "mark only"}
Building == {"mark"} \cup Publishing

\* e knows every request that d knows, except activations, which a denial takes out again.
Recalls(e, d, asked) ==
  \A u \in Users, q \in Requests :
    d.subj[u].out[q] # "none" =>
      e.subj[u].out[q] # "none" \/ (asked[q].kind = "on" /\ asked[q].at # "new")

\* Where d knows the newest change of a member, d shows it.
Bears(d, last, asked) ==
  \A u \in Users, r \in Requests :
    d.subj[u].out[r] # "none" =>
      /\ last[u]["choice"] = r => d.subj[u].on = (asked[r].kind = "on")
      /\ last[u]["fact"] = r => (u \in d.facts) = (asked[r].kind = "remember")

\* d shows what members were told.
Redeems(d, told) ==
  \A u \in Users :
    /\ told[u]["choice"] = "on" => d.subj[u].on /\ ~d.subj[u].pending
    /\ told[u]["choice"] = "off" => ~d.subj[u].on
    /\ told[u]["fact"] = "remember" => u \in d.facts
    /\ told[u]["fact"] = "forget" => u \notin d.facts

\* Entry w is nobody's or request r's.
By(w, r) == w = NoMark \/ w.by = r
\* The journal names u, if it does, for request r only.
Names(m, u, r) == By(m.off[u], r) /\ By(m.on[u], r)

\* e is d with journal m folded in, or completed, or both.
Folds(e, d, m, asked) ==
  /\ e.facts = d.facts
  /\ \A u \in Users :
       /\ ~Marked(m, u) => e.subj[u].on = d.subj[u].on
       /\ Marked(m, u) => ~e.subj[u].on
       /\ e.subj[u].pending => d.subj[u].pending /\ ~Marked(m, u)
       /\ \A r \in Requests :
            /\ e.subj[u].out[r] # "none" => d.subj[u].out[r] # "none"
            /\ d.subj[u].out[r] # "none" =>
                 \/ e.subj[u].out[r] # "none"
                 \/ asked[r].kind = "on" /\ (m.off[u].by = r \/ m.on[u].by = r)
            /\ asked[r].kind = "on" /\ Marked(m, u) /\ Names(m, u, r) => e.subj[u].out[r] = "none"

\* What members were told and what they last asked.
HistoryIsTyped ==
  /\ acked \in [Users -> [Fields -> {"none", "on", "off", "remember", "forget"}]]
  /\ latest \in [Users -> [Fields -> Requests \cup {Nobody}]]

\* The newest changes were asked, by their members.
NewestIsAsked ==
  \A u \in Users, r \in Requests :
    /\ latest[u]["choice"] = r =>
         req[r].at # "new" /\ req[r].user = u /\ req[r].kind \in {"on", "off"}
    /\ latest[u]["fact"] = r =>
         req[r].at # "new" /\ req[r].user = u /\ req[r].kind \in {"remember", "forget"}

\* While an activation is a member's newest choice, a journal names the member for it only.
NamedByNewest(m, last, asked) ==
  \A u \in Users, r \in Requests : last[u]["choice"] = r /\ asked[r].kind = "on" => Names(m, u, r)

\* Where the newest change was published as p, memory has not moved since.
MemoryStands(l, p, last, asked) ==
  \A u \in Users, r \in Requests :
    /\ last[u]["choice"] = r /\ asked[r].kind = "on"
         /\ (l.subj[u].out[r] # "none" \/ p.id.subj[u].out[r] # "none") => l.subj[u] = p.doc.subj[u]
    /\ last[u]["fact"] = r /\ p.id.subj[u].out[r] # "none" => (u \in l.facts) = (u \in p.doc.facts)

\* Memory and the files.  A choice that is pending is in the journal.
StoresAreTrue ==
  /\ Bears(live, latest, req) /\ Bears(disk, latest, req)
  /\ Redeems(live, acked) /\ Redeems(disk, acked)
  /\ Recalls(disk, live, req) /\ Recalls(live, base, req)
  /\ NamedByNewest(marker, latest, req)
  /\ \A u \in Users :
       /\ acked[u]["choice"] = "on" => ~Marked(marker, u)
       /\ disk.subj[u].pending => marker.on[u] # NoMark
       /\ live.subj[u].pending /\ disk.subj[u].on => disk.subj[u].pending
       /\ live.subj[u].pending => base.subj[u].pending
       /\ boot = "clear" => ~disk.subj[u].pending

\* A publication that memory does not show yet.
PublicationIsTrue ==
  /\ Recalls(live, publication.doc, req) /\ Recalls(disk, publication.id, req)
  /\ boot # "up" => ~publication.known
  /\ publication.known => /\ Dated(publication.id) /\ publication.id.epoch <= disk.epoch
                          /\ MemoryStands(live, publication, latest, req)

\* The transaction is of the newest change, or promises nothing.
ChangeIsUnderWay ==
  tx.at # "idle" =>
    /\ acked[Member(tx.by)][ChoiceField(tx.by)] = "none"
    /\ ~tx.replay /\ Kind(tx.by) \in {"on", "off"} => latest[Member(tx.by)]["choice"] \in {Nobody, tx.by}
    /\ tx.aborted => tx.replay
    /\ NamedByNewest(tx.journal, latest, req)
    /\ tx.at \in Marking => \A u \in Users : acked[u]["choice"] = "on" => ~Marked(tx.journal, u)
    /\ tx.at = "finish" => ~tx.replay /\ live.subj[Member(tx.by)].out[tx.by] # "none"

\* What it is about to publish.
CandidateIsTrue ==
  tx.at \in Building =>
    /\ Bears(tx.cand, latest, req) /\ Redeems(tx.cand, acked) /\ Recalls(tx.cand, disk, req)
    /\ ~tx.aborted => tx.cand.subj[Member(tx.by)].out[tx.by] # "none"
    /\ \A u \in Users :
         tx.cand.subj[u].pending => Activates(u) /\ tx.at \in {"mark", "write", "project"}

\* Until it is installed, memory has moved only where no newest change is concerned.
MemoryIsAwaited ==
  tx.at \in InPlay =>
    /\ Recalls(live, tx.live, req) /\ tx.live.facts = live.facts
    /\ \A u \in Users : live.subj[u].pending => ~tx.cand.subj[u].on
    /\ \A u \in Users, r \in Requests :
         latest[u]["choice"] = r /\ req[r].kind = "on" => tx.live.subj[u] = live.subj[u]

\* A held snapshot is over the base and knows the requests that memory knows.
SnapshotIsTrue ==
  snap.held =>
    /\ snap.base = base /\ Bears(snap.doc, latest, req) /\ Redeems(snap.doc, acked)
    /\ Recalls(snap.doc, live, req) /\ Recalls(live, snap.doc, req) /\ Recalls(snap.doc, snap.base, req)
    /\ \A u \in Users : snap.doc.subj[u].pending => snap.base.subj[u].pending

\* What confirmed changes rest on, relative to IInv.
AInv ==
  /\ HistoryIsTyped /\ NewestIsAsked /\ StoresAreTrue /\ PublicationIsTrue /\ ChangeIsUnderWay
  /\ CandidateIsTrue /\ MemoryIsAwaited /\ SnapshotIsTrue
=============================================================================
