----------------------------- MODULE Engagement -----------------------------
(***************************************************************************)
(* Unsolicited contact with the members of one guild: what may be sent,    *)
(* reserved in the canonical state, sent to Discord and settled            *)
(* (engagement.rs and its submodules, runtime/engagement_delivery.rs,      *)
(* runtime/engagement_candidates.rs), against members who stop, change     *)
(* their settings, approve and withdraw introductions or have their        *)
(* learning erased meanwhile, messages that are answered, edited or        *)
(* deleted, a disk that fails, answers that are lost and restarts.         *)
(*                                                                         *)
(* Three kinds of contact are modelled: a follow-up to a member on an      *)
(* unresolved exchange, a public question nobody answered, and an          *)
(* introduction of two members, which both approve.  An introduction and   *)
(* its candidate have one id.  Time counts parts of a day; what happens in *)
(* the part of an erasure happens within its 300 seconds.                  *)
(*                                                                         *)
(* A commit is one step.  All commits hold one lock, so that only steps    *)
(* which do not write the store come between the document a commit is      *)
(* computed from and its publication, and those may as well come before.   *)
(***************************************************************************)
EXTENDS Naturals, Sequences, FiniteSets, Functions, SequencesExt

CONSTANTS
  Members,      \* members of the guild
  Channels,     \* its channels
  Everywhere,   \* the scope of a stop of all contact
  Pairs,        \* the pairs of members who may be introduced
  Words,        \* descriptions a member gives of himself, positive numbers
  Terms,        \* settings to choose from: limit, time zone and quiet hours
  FirstTerms,   \* those members begin with
  Day,          \* parts of a day
  Bounds        \* a behaviour is bounded in one of these ways: the changes that are made, how
                \* many of them, of failing commits and of restarts together, the messages
                \* said, the time, and the pairs that have described themselves at first

ASSUME EngagementAssumption ==
  /\ Everywhere \notin Channels /\ Day \in Nat \ {0}
  /\ \A p \in Pairs : \E a, b \in Members : a # b /\ p = {a, b}
  /\ Words \subseteq Nat \ {0} /\ Words # {}
  /\ Terms \subseteq [daily_limit : 1..4, offset : 0..Day - 1,
                      quiet_start : 0..Day - 1, quiet_end : 0..Day - 1]
  /\ FirstTerms \subseteq Terms
  /\ \A b \in Bounds : /\ b.pairs \in {{}} \cup {{p} : p \in Pairs}
                       /\ {b.now, b.messages, b.events} \subseteq Nat

VARIABLES
  store,      \* the EngagementStore in memory, and the erasure ledger
  durable,    \* the same on disk
  diverged,   \* the disk holds a document memory does not descend from
  healthy,    \* engagement_events_healthy
  engine,     \* the pass of deliver_engagement, and what it holds
  reply,      \* the assessment of an exchange Abbey has answered
  said,       \* messages of members in the guild, numbered in order
  gone,       \* the messages that were edited or deleted
  now,        \* the time
  posts,      \* history: what Discord accepted, in order
  withdrawn,  \* history: the attempt's ground was changed since it was reserved
  shown,      \* history: versions of introductions members could review
  agreed,     \* history: what a member saw when approving
  forgotten,  \* history: messages and pairs that were confirmed to be erased
  bound,      \* the member of Bounds that bounds this behaviour
  choices,    \* changes and edits of messages so far
  mishaps     \* failed commits and restarts so far

files == <<store, durable, diverged>>
discord == <<said, gone, now>>
consent == <<shown, agreed, forgotten>>
bounds == <<bound, choices, mishaps>>
vars == <<files, healthy, engine, reply, discord, posts, withdrawn, consent, bounds>>

None == 0
Eventful == choices + mishaps < bound.events
NoIntroduction == [revision |-> 0]
NoPlan == [revision |-> 0]
AtRest == [at |-> "idle", left |-> <<>>, id |-> None, plan |-> NoPlan, r |-> [at |-> 0],
           outcome |-> "none"]
NoReply == [at |-> "idle"]

Larger(a, b) == IF a > b THEN a ELSE b
Put(f, k, v) == [x \in DOMAIN f \cup {k} |-> IF x = k THEN v ELSE f[x]]

FirstWord == CHOOSE w \in Words : \A v \in Words : w <= v

IntroductionCandidate(pair, channel, due_at, policy_revision) ==
  [kind |-> "introduction", who |-> pair, source |-> None, channel |-> channel,
   due_at |-> due_at, revision |-> 1, policy_revision |-> policy_revision, state |-> "pending"]
Introduction(pair, words, channel) ==
  [revision |-> 1, channel |-> channel, words |-> words,
   approvals |-> [m \in pair |-> 0], state |-> "pending"]

\* Members have saved settings.  In a channel the manager has switched on introductions, and a
\* pair may have described itself there; then one of the pair has approved, or both.  Otherwise
\* questions are on as well.
FirstStore(terms, home, pairs, approved) ==
  [sequence |-> Cardinality(pairs),
   candidates |-> [id \in 1..Cardinality(pairs) |->
     [IntroductionCandidate(CHOOSE p \in pairs : TRUE, home, 1, 1) EXCEPT !.revision = 2]],
   introductions |-> [id \in 1..Cardinality(pairs) |->
     LET pair == CHOOSE p \in pairs : TRUE
     IN  [revision |-> 2, channel |-> home, words |-> [m \in pair |-> FirstWord],
          approvals |-> [m \in pair |-> IF m \in approved THEN 2 ELSE 0],
          state |-> IF pair \subseteq approved THEN "ready" ELSE "pending"]],
   charges |-> {}, erased_charges |-> {}, erased_identities |-> {},
   policies |-> [m \in Members |-> [revision |-> 1, terms |-> terms, stopped |-> {},
                                    snoozed_until |-> 0]],
   guild |-> [revision |-> 1, channels |->
     [f \in {"question", "introduction"} |-> IF f = "question" /\ pairs # {} THEN {} ELSE {home}]],
   observations |-> [m \in Members |-> [c \in Channels |-> [message |-> None, edited |-> FALSE]]],
   eligibility |-> [m \in Members |-> {}],
   ledger |-> [m \in Members |-> 0]]

Version(d, id) == [id |-> id, revision |-> d.introductions[id].revision,
                   channel |-> d.introductions[id].channel, words |-> d.introductions[id].words]
Versions(d) == {Version(d, id) : id \in DOMAIN d.introductions}

Init ==
  /\ now = 1
  /\ bound \in Bounds
  /\ \E home \in Channels :
       LET pairs == bound.pairs IN
       \E approved \in {UNION pairs} \cup {{m} : m \in UNION pairs}, terms \in FirstTerms :
         /\ store = FirstStore(terms, home, pairs, approved)
         /\ agreed = {[id |-> 1, member |-> m, word |-> FirstWord, channel |-> home] : m \in approved}
  /\ durable = store /\ diverged = FALSE /\ healthy = TRUE
  /\ engine = AtRest /\ reply = NoReply /\ said = <<>> /\ gone = {}
  /\ posts = <<>> /\ withdrawn = FALSE /\ shown = Versions(store)
  /\ forgotten = [sources |-> {}, pairs |-> {}] /\ choices = 0 /\ mishaps = 0

-----------------------------------------------------------------------------
(* What a member and the guild allow *)

Open(c) == c.state \in {"pending", "reserved"}
Consumed(c) == c.state \in {"reserved", "sent", "review_required"}

\* introduction_member_enabled, and enabled of the candidates
MemberEnabled(d, m, channel) == d.policies[m].stopped \cap {Everywhere, channel} = {}
Enabled(d, kind, channel) == channel \in d.guild.channels[kind]

LocalDay(terms, t) == (t + terms.offset) \div Day
Quiet(terms, t) ==
  LET hour == (t + terms.offset) % Day
  IN  \/ terms.quiet_start < terms.quiet_end /\ hour \in terms.quiet_start..terms.quiet_end - 1
      \/ terms.quiet_start > terms.quiet_end /\ (hour >= terms.quiet_start \/ hour < terms.quiet_end)

Allowed(d, c, m) ==
  /\ MemberEnabled(d, m, c.channel)
  /\ d.policies[m].snoozed_until <= now
  /\ ~Quiet(d.policies[m].terms, now)

\* A mutant: only the days saved with the charges count.
CapacityBySavedDay(d, m) ==
  Cardinality({x \in d.charges \cup d.erased_charges :
                 x.member = m /\ x.day = LocalDay(d.policies[m].terms, now)})
    < d.policies[m].terms.daily_limit

\* A charge counts for the day saved with it and for its day in the time zone of now.
Capacity(d, m) ==
  LET terms == d.policies[m].terms
      rows == {x \in d.charges \cup d.erased_charges : x.member = m}
      today == LocalDay(terms, now)
  IN  Larger(Cardinality({x \in rows : x.day = today}),
             Cardinality({x \in rows : LocalDay(terms, x.at) = today})) < terms.daily_limit

\* introduction_receipt_current
IntroductionCurrent(d, id) ==
  LET c == d.candidates[id]  i == d.introductions[id]
  IN  /\ Enabled(d, "introduction", c.channel)
      /\ i.channel = c.channel /\ i.revision = c.revision
      /\ \A m \in c.who : i.approvals[m] = i.revision /\ i.words[m] # None
      /\ <<i.state, c.state>> \in {<<"ready", "pending">>, <<"consumed", "reserved">>}
      /\ d.guild.revision = c.policy_revision
      /\ \A m \in c.who : MemberEnabled(d, m, i.channel)

\* community_receipt_current
QuestionCurrent(d, c) ==
  Enabled(d, "question", c.channel) /\ d.guild.revision = c.policy_revision

\* What a candidate of its kind stands on.
Grounded(d, id) ==
  LET c == d.candidates[id]
  IN  /\ c.kind = "introduction" => IntroductionCurrent(d, id)
      /\ c.kind = "question" => QuestionCurrent(d, c)
      /\ c.kind = "follow_up" => \A m \in c.who : c.source \in d.eligibility[m]

\* EngagementStore::reserve would succeed.
Reservable(d, id, revision) ==
  LET c == d.candidates[id]
  IN  /\ id \in DOMAIN d.candidates
      /\ c.revision = revision /\ c.state = "pending" /\ c.due_at <= now
      /\ Grounded(d, id)
      /\ \A m \in c.who : Allowed(d, c, m) /\ Capacity(d, m)

Snapshot(d, id) ==
  IF id \in DOMAIN d.introductions
    THEN [d.introductions[id] EXCEPT !.state = "consumed"] ELSE NoIntroduction

\* reserve and reserve_introduction: the document and the reservation
Reserved(d, id) ==
  LET c == d.candidates[id]
  IN  [d EXCEPT
        !.candidates[id].state = "reserved",
        !.introductions = [i \in DOMAIN @ |-> IF i = id THEN Snapshot(d, id) ELSE @[i]],
        !.charges = @ \cup {[id |-> id, member |-> m, at |-> now,
                             day |-> LocalDay(d.policies[m].terms, now)] : m \in c.who}]
Reservation(d, id) ==
  LET c == d.candidates[id]
  IN  [revision |-> c.revision, policy_revision |-> c.policy_revision, at |-> now,
       policies |-> [m \in c.who |-> d.policies[m].revision], introduction |-> Snapshot(d, id)]

\* A mutant: the settings are read again but their revision is not compared.
ValidateAllowedOnly(d, id, r) ==
  LET c == d.candidates[id]
  IN  /\ id \in DOMAIN d.candidates /\ c.state = "reserved"
      /\ Grounded(d, id)
      /\ \A m \in c.who : Allowed(d, c, m)

\* validate_reserved and validate_introduction_reservation
ValidateReserved(d, id, r) ==
  LET c == d.candidates[id]
  IN  /\ id \in DOMAIN d.candidates
      /\ c.state = "reserved" /\ c.revision = r.revision
      /\ c.policy_revision = r.policy_revision
      /\ Grounded(d, id)
      /\ id \in DOMAIN d.introductions => d.introductions[id] = r.introduction
      /\ \A m \in c.who : d.policies[m].revision = r.policies[m] /\ Allowed(d, c, m)

-----------------------------------------------------------------------------
(* What becomes of the store *)

Cancelled(d, ids) ==
  [d EXCEPT !.candidates = [id \in DOMAIN @ |->
     IF id \in ids THEN [@[id] EXCEPT !.state = "cancelled"] ELSE @[id]]]

\* An introduction that ends clears both approvals.
Closed(i) == [i EXCEPT !.state = "cancelled", !.approvals = [m \in DOMAIN i.approvals |-> 0]]
CancelledIntroductions(d, ids) ==
  [d EXCEPT !.introductions =
     [id \in DOMAIN @ |-> IF id \in ids THEN Closed(@[id]) ELSE @[id]]]

\* A choice that cancels candidates, and introductions with them, also raises revisions.
Raised(x) == [x EXCEPT !.revision = @ + 1]
Revised(d, ids) ==
  [d EXCEPT
    !.candidates = [id \in DOMAIN @ |-> IF id \in ids THEN Raised(@[id]) ELSE @[id]],
    !.introductions = [id \in DOMAIN @ |-> IF id \in ids THEN Raised(@[id]) ELSE @[id]]]
Ended(d, ids) == Revised(CancelledIntroductions(Cancelled(d, ids), ids), ids)

Identity(c) == [kind |-> c.kind, who |-> c.who, source |-> c.source]
Candidates(d) == {d.candidates[id] : id \in DOMAIN d.candidates}

\* A mutant: the introduction keeps its state when the delivery is refused.
SettledCandidate(d, id, outcome) == [d EXCEPT !.candidates[id].state = outcome]

\* EngagementStore::settle and reject_pending; an attempt given up because the process stops ends
\* as a rejected one.
Settled(d, id, outcome) ==
  [(IF outcome = "rejected" THEN CancelledIntroductions(d, {id}) ELSE d)
     EXCEPT !.candidates[id].state = outcome]

\* propose, after the checks of its callers
Proposed(d, c) ==
  [d EXCEPT !.sequence = @ + 1, !.candidates = Put(@, d.sequence + 1, c)]
Known(d, c) ==
  \/ Identity(c) \in d.erased_identities
  \/ \E old \in Candidates(d) : Identity(old) = Identity(c)

Candidate(kind, who, k, due_at, policy_revision) ==
  [kind |-> kind, who |-> who, source |-> k, channel |-> said[k].channel, due_at |-> due_at,
   revision |-> 1, policy_revision |-> policy_revision, state |-> "pending"]

\* The candidates observe_engagement cancels: questions of the channel and follow-ups of the author.
Outdated(d, k) ==
  {id \in DOMAIN d.candidates :
     LET c == d.candidates[id]
     IN  /\ Open(c) /\ c.source # None
         /\ c.channel = said[k].channel /\ said[c.source].at <= said[k].at
         /\ c.kind = "question" \/ c.who = {said[k].author}}

Current(d, k) ==
  d.observations[said[k].author][said[k].channel] = [message |-> k, edited |-> FALSE]

\* The candidates of a set of members: theirs, on their messages, or an introduction of theirs.
OwnedBy(d, own) ==
  {id \in DOMAIN d.candidates :
     LET c == d.candidates[id]
     IN  c.who \cap own # {} \/ (c.source # None /\ said[c.source].author \in own)}

\* Charges of erased candidates keep limiting contact, without saying what it was.
ErasedCharges(d, ids) == d.erased_charges \cup {x \in d.charges : x.id \in ids}

\* A mutant: the identity of what was erased is not kept.
KeptIdentities(d, ids) == d.erased_identities

ErasedIdentities(d, ids) ==
  d.erased_identities \cup {Identity(d.candidates[id]) : id \in ids}

\* erase_learning, and the tombstone of brain/erasure.rs
EraseLearning(d, own) ==
  LET ids == OwnedBy(d, own)
  IN  [d EXCEPT
        !.candidates = Restrict(@, DOMAIN @ \ ids),
        !.introductions = Restrict(@, DOMAIN @ \ ids),
        !.charges = {x \in @ : x.id \notin ids},
        !.erased_charges = ErasedCharges(d, ids),
        !.erased_identities = ErasedIdentities(d, ids),
        !.observations = [m \in Members |->
           IF m \in own THEN [c \in Channels |-> [message |-> None, edited |-> FALSE]] ELSE @[m]],
        !.eligibility = [m \in Members |-> IF m \in own THEN {} ELSE @[m]],
        !.ledger = [m \in Members |-> IF m \in own THEN now ELSE @[m]]]

Permitted(d, k) == said[k].at > d.ledger[said[k].author]
Observed(d) == {d.observations[m][c] : m \in Members, c \in Channels}

\* A mutant: candidates are not looked at.
AdmittedSources(new, old) ==
  /\ \A o \in Observed(new) \ Observed(old) : o.message # None => Permitted(new, o.message)
  /\ \A m \in Members : \A k \in new.eligibility[m] \ old.eligibility[m] : Permitted(new, k)

\* erasure_admitted: nothing new of what an erasure covers
Admitted(new, old) ==
  /\ \A o \in Observed(new) \ Observed(old) : o.message # None => Permitted(new, o.message)
  /\ \A m \in Members : \A k \in new.eligibility[m] \ old.eligibility[m] : Permitted(new, k)
  /\ \A id \in DOMAIN new.candidates :
       LET c == new.candidates[id]
       IN  \/ id \in DOMAIN old.candidates /\ old.candidates[id] = c
           \/ /\ c.source # None => Permitted(new, c.source)
              /\ c.kind = "introduction" => \A m \in c.who : c.due_at > new.ledger[m]

-----------------------------------------------------------------------------
(* Commits *)

Saved(d) == ~diverged /\ store' = d /\ durable' = d /\ UNCHANGED <<diverged, mishaps>>

\* A commit that fails may have reached the disk, and then memory does not know.
NotSaved(d) ==
  /\ UNCHANGED store
  /\ IF diverged THEN UNCHANGED <<durable, diverged, mishaps>>
     ELSE /\ Eventful /\ mishaps' = mishaps + 1
          /\ \/ UNCHANGED <<durable, diverged>>
             \/ durable' = d /\ diverged' = (d # store)

\* commit_work: the erasures admitted meanwhile decide whether there is a document.
Commits(d) == Admitted(d, store) /\ Saved(d)
Fails(d) == Admitted(d, store) /\ NotSaved(d)

\* What a confirmed change takes from the attempt that is under way.
Withdraws(ids) == withdrawn' = (withdrawn \/ engine.id \in ids)

-----------------------------------------------------------------------------
(* Discord *)

Say ==
  /\ Len(said) < bound.messages
  /\ \E m \in Members, c \in Channels :
       said' = Append(said, [author |-> m, channel |-> c, at |-> now])
  /\ UNCHANGED <<files, healthy, engine, reply, gone, now, posts, withdrawn, consent, bounds>>

EditOrDelete ==
  /\ "delete" \in bound.changes /\ Eventful /\ choices' = choices + 1
  /\ \E k \in DOMAIN said \ gone : gone' = gone \cup {k}
  /\ UNCHANGED <<files, healthy, engine, reply, said, now, posts, withdrawn, consent, bound, mishaps>>

Tick ==
  /\ now < bound.now /\ now' = now + 1
  /\ reply.at = "idle"  \* an assessment takes minutes, and does not depend on the time
  /\ UNCHANGED <<files, healthy, engine, reply, said, gone, posts, withdrawn, consent, bounds>>

-----------------------------------------------------------------------------
(* Events: commit_engagement_invalidation *)

\* An event whose commit failed stops all contact until a restart.
Event(d, ids) ==
  /\ \/ Commits(d) /\ Withdraws(ids) /\ UNCHANGED healthy
     \/ Fails(d) /\ healthy' = FALSE /\ withdrawn' = TRUE
  /\ UNCHANGED <<engine, reply, discord, posts, consent, bound, choices>>

Observation(d, k) ==
  [Cancelled(d, Outdated(d, k)) EXCEPT
     !.observations[said[k].author][said[k].channel] = [message |-> k, edited |-> FALSE]]

\* observe_engagement: events may come late and out of order; an old one changes nothing.
Observe ==
  \E k \in DOMAIN said :
    /\ store.observations[said[k].author][said[k].channel].message < k
    /\ Event(Observation(store, k), Outdated(store, k))

\* delete_engagement_source
DeletedSource(d, k, ids) ==
  LET m == said[k].author  c == said[k].channel  o == d.observations[m][c]
  IN  [Cancelled(d, ids) EXCEPT
         !.observations[m][c] = [message |-> o.message, edited |-> o.edited \/ o.message = k],
         !.eligibility[m] = @ \ {k}]
DeleteSource ==
  \E k \in gone :
    LET ids == {id \in DOMAIN store.candidates :
                  store.candidates[id].source = k /\ Open(store.candidates[id])}
        d == DeletedSource(store, k, ids)
    IN  d # store /\ Event(d, ids)

-----------------------------------------------------------------------------
(* Exchanges: complete_engagement and assess_engagement *)

Sources(d, k) == {s \in d.eligibility[said[k].author] : said[s].channel = said[k].channel}
Latest(ks) == CHOOSE k \in ks : \A o \in ks : o <= k

\* assess_engagement's guard, before the model is asked and again in the commit
Assessable(d, m, c, ks) ==
  /\ ks # {} /\ ks \subseteq d.eligibility[m]
  /\ MemberEnabled(d, m, c)
  /\ Current(d, Latest(ks))

Answered(d, m, k) == [d EXCEPT !.eligibility[m] = @ \cup {k}]

\* Abbey has answered a message: its source and answer are recorded together, and the member's
\* exchanges in this channel are assessed.
Complete ==
  /\ reply.at = "idle"
  /\ \E k \in DOMAIN said :
       LET m == said[k].author
           d == Answered(store, m, k)
           ks == Sources(d, k)
       IN  /\ Current(store, k) /\ k \notin store.eligibility[m]
           /\ \/ /\ Commits(d)
                 /\ reply' = IF Assessable(d, m, said[k].channel, ks)
                      THEN [at |-> "assessing", k |-> k, sources |-> ks,
                            policy |-> d.policies[m].revision]
                      ELSE NoReply
              \/ Fails(d) /\ UNCHANGED reply
  /\ UNCHANGED <<healthy, engine, discord, posts, withdrawn, consent, bound, choices>>

\* The model is unclear, or fails, or what it was asked about has changed.
Unassessed ==
  /\ reply.at = "assessing" /\ reply' = NoReply
  /\ UNCHANGED <<files, healthy, engine, discord, posts, withdrawn, consent, bounds>>

Assessed(m) ==
  /\ reply.at = "assessing" /\ reply.sources \cap gone = {}
  /\ m = said[reply.k].author
  /\ Assessable(store, m, said[reply.k].channel, reply.sources)
  /\ store.policies[m].revision = reply.policy
  /\ reply' = NoReply
  /\ UNCHANGED <<healthy, engine, discord, posts, consent, bound, choices>>

\* Unresolved: a follow-up a day after the latest message, unless it had one before.
Unresolved ==
  \E m \in Members :
    LET k == Latest(reply.sources)
        c == Candidate("follow_up", {m}, k, said[k].at + Day, 0)
        d == Proposed(store, c)
    IN  Assessed(m) /\ ~Known(store, c) /\ (Commits(d) \/ Fails(d)) /\ UNCHANGED withdrawn

\* Resolved: the member's follow-ups of this channel up to now are cancelled.
Resolved ==
  \E m \in Members :
    LET k == Latest(reply.sources)
        ids == {id \in DOMAIN store.candidates :
                  LET c == store.candidates[id]
                  IN  Open(c) /\ c.kind = "follow_up" /\ c.who = {m}
                      /\ c.channel = said[k].channel /\ said[c.source].at <= said[k].at}
        d == Cancelled(store, ids)
    IN  /\ Assessed(m)
        /\ \/ Commits(d) /\ Withdraws(ids)
           \/ Fails(d) /\ UNCHANGED withdrawn

-----------------------------------------------------------------------------
(* What members and managers change: commit_engagement *)

\* A choice is confirmed, or the member is told that it may not have been saved.
Choose(kind, d, ids) ==
  /\ kind \in bound.changes /\ Eventful /\ choices' = choices + 1
  /\ \/ Commits(d) /\ Withdraws(ids)
     \/ choices' + mishaps < bound.events /\ Fails(d) /\ UNCHANGED withdrawn
  /\ shown' = shown \cup Versions(store')
  /\ UNCHANGED <<healthy, engine, reply, discord, posts, bound>>

\* The attempts that a change of a member's settings ends.
PartyTo(m) == {id \in DOMAIN store.candidates : m \in store.candidates[id].who}

Settings(d, m, p) == [d EXCEPT !.policies[m] = Raised(p)]

\* stop_store: what matches and is unfinished is cancelled.
Stop ==
  /\ \E m \in Members, scope \in {Everywhere} \cup Channels :
       LET p == store.policies[m]
           ids == {id \in PartyTo(m) : LET c == store.candidates[id]
                                       IN  Open(c) /\ scope \in {Everywhere, c.channel}}
       IN  Choose("stop", Ended(Settings(store, m, [p EXCEPT !.stopped = @ \cup {scope}]), ids),
                  PartyTo(m))
  /\ UNCHANGED <<agreed, forgotten>>

Resume ==
  /\ \E m \in Members, scope \in {Everywhere} \cup Channels :
       LET p == store.policies[m]
       IN  /\ scope \in p.stopped
           /\ Choose("resume", Settings(store, m, [p EXCEPT !.stopped = @ \ {scope}]), PartyTo(m))
  /\ UNCHANGED <<agreed, forgotten>>

Configure ==
  /\ \E m \in Members, terms \in Terms :
       LET p == store.policies[m]
       IN  Choose("configure", Settings(store, m, [p EXCEPT !.terms = terms]), PartyTo(m))
  /\ UNCHANGED <<agreed, forgotten>>

Snooze ==
  /\ \E m \in Members, until \in now + 1..bound.now :
       LET p == store.policies[m]
       IN  Choose("snooze", Settings(store, m, [p EXCEPT !.snoozed_until = until]), PartyTo(m))
  /\ UNCHANGED <<agreed, forgotten>>

Dismiss ==
  /\ \E id \in DOMAIN store.candidates :
       LET c == store.candidates[id]
       IN  /\ c.kind = "follow_up" /\ Open(c)
           /\ Choose("dismiss", Ended(store, {id}), {id})
  /\ UNCHANGED <<agreed, forgotten>>

\* set_community: a manager switches questions or introductions on in a channel, or off.
Community(d, f, on) ==
  [d EXCEPT !.guild = [revision |-> @.revision + 1, channels |-> [@.channels EXCEPT ![f] = on]]]
SetCommunity ==
  /\ \E f \in {"question", "introduction"}, on \in {{}} \cup {{c} : c \in Channels} :
       Choose("community", Community(store, f, on),
              {id \in DOMAIN store.candidates : store.candidates[id].kind # "follow_up"})
  /\ UNCHANGED <<agreed, forgotten>>

\* create_introduction: once per pair, by one of them, who describes himself
Created(d, c, i) ==
  [Proposed(d, c) EXCEPT !.introductions = Put(@, d.sequence + 1, i)]
CreateIntroduction ==
  /\ \E pair \in Pairs, channel \in Channels, word \in Words : \E m \in pair :
       LET c == IntroductionCandidate(pair, channel, now, store.guild.revision)
           i == Introduction(pair, [x \in pair |-> IF x = m THEN word ELSE None], channel)
       IN  /\ Enabled(store, "introduction", channel)
           /\ \A x \in pair : MemberEnabled(store, x, channel)
           /\ ~Known(store, c)
           /\ Choose("create", Created(store, c, i), {})
  /\ UNCHANGED <<agreed, forgotten>>

\* edit_introduction: the revision reviewed must be the saved one, both approvals are cleared.
Edited(d, id, m, channel, word) ==
  LET i == d.introductions[id]
      revision == i.revision + 1
  IN  [d EXCEPT
        !.introductions[id] =
          [revision |-> revision, channel |-> channel, words |-> [i.words EXCEPT ![m] = word],
           approvals |-> [x \in DOMAIN i.approvals |-> 0], state |-> "pending"],
        !.candidates[id] = [@ EXCEPT !.revision = revision, !.channel = channel,
                                     !.policy_revision = d.guild.revision]]
EditIntroduction ==
  /\ \E id \in DOMAIN store.introductions, channel \in Channels, word \in Words :
       LET i == store.introductions[id]
       IN  /\ i.state \in {"pending", "ready"} /\ store.candidates[id].state = "pending"
           /\ Enabled(store, "introduction", channel)
           /\ \E m \in DOMAIN i.words :
                Choose("edit", Edited(store, id, m, channel, word), {id})
  /\ UNCHANGED <<agreed, forgotten>>

\* approve_introduction's checks
Approvable(id, m, revision) ==
  LET i == store.introductions[id]  c == store.candidates[id]
  IN  /\ i.revision = revision
      /\ i.state \in {"pending", "ready"} /\ c.state = "pending"
      /\ i.words[m] # None /\ Enabled(store, "introduction", i.channel)
      /\ \A x \in c.who : MemberEnabled(store, x, i.channel)
      /\ c.policy_revision = store.guild.revision

Approved(d, id, m) ==
  LET i == d.introductions[id]
      approvals == [i.approvals EXCEPT ![m] = i.revision]
      all == \A x \in DOMAIN approvals : approvals[x] = i.revision
  IN  [d EXCEPT !.introductions[id] =
         [i EXCEPT !.approvals = approvals, !.state = IF all THEN "ready" ELSE i.state]]

\* A member presses the button under a version shown to him earlier.
Approve ==
  /\ \E v \in shown :
       /\ v.id \in DOMAIN store.introductions
       /\ \E m \in DOMAIN v.words :
            /\ Approvable(v.id, m, v.revision)
            /\ agreed' = agreed \cup {[id |-> v.id, member |-> m, word |-> v.words[m],
                                       channel |-> v.channel]}
            /\ Choose("approve", Approved(store, v.id, m), {})
  /\ UNCHANGED forgotten

\* withdraw_introduction: possible until the introduction is settled
WithdrawIntroduction ==
  /\ \E v \in shown :
       /\ v.id \in DOMAIN store.introductions
       /\ store.introductions[v.id].revision = v.revision /\ Open(store.candidates[v.id])
       /\ Choose("withdraw", Ended(store, {v.id}), {v.id})
  /\ UNCHANGED agreed /\ UNCHANGED forgotten

\* commit_learning_erasure: memory forgets at once, and keeps to it when the disk fails.
Erase ==
  /\ "erase" \in bound.changes /\ Eventful /\ choices' = choices + 1
  /\ \E own \in {Members} \cup {{m} : m \in Members} :
       LET d == EraseLearning(store, own)
           pairs == {store.candidates[id].who : id \in OwnedBy(store, own)} \cap Pairs
           ids == OwnedBy(store, own)
           sources == {k \in DOMAIN said : said[k].author \in own}
       IN  /\ store' = d /\ Withdraws(ids)
           /\ \/ /\ ~diverged /\ durable' = d /\ UNCHANGED mishaps
                 /\ forgotten' = [sources |-> forgotten.sources \cup sources,
                                  pairs |-> forgotten.pairs \cup pairs]
              \/ /\ diverged /\ UNCHANGED <<durable, mishaps, forgotten>>
              \/ /\ ~diverged /\ choices' + mishaps < bound.events /\ mishaps' = mishaps + 1
                 /\ durable' \in {durable, d} /\ UNCHANGED forgotten
  /\ UNCHANGED <<diverged, healthy, engine, reply, discord, posts, shown, agreed, bound>>

-----------------------------------------------------------------------------
(* The pass: deliver_engagement *)

PassUnchanged == UNCHANGED <<healthy, reply, discord, posts, consent, bound, choices>>
Turn(at) == engine' = [engine EXCEPT !.at = at]
Skip == engine' = [AtRest EXCEPT !.at = "choosing", !.left = engine.left]

\* community_candidates: an observed message a day old, in a channel where questions are on
Unanswered(k) ==
  LET c == Candidate("question", {}, k, now, store.guild.revision)
  IN  /\ said[k].at + Day <= now /\ Enabled(store, "question", c.channel) /\ ~Known(store, c)

\* Discord is asked for the messages after it: nobody has spoken since.
PublicCurrent(k) ==
  k \notin gone /\ \A o \in DOMAIN said : o > k => said[o].channel # said[k].channel
ExchangeCurrent(k) ==
  /\ k \notin gone
  /\ \A o \in DOMAIN said : o > k =>
       said[o].channel # said[k].channel \/ said[o].author # said[k].author

\* due: in the order of due_at and id
Due(d) ==
  LET before(a, b) == \/ d.candidates[a].due_at < d.candidates[b].due_at
                      \/ d.candidates[a].due_at = d.candidates[b].due_at /\ a < b
  IN  SetToSortSeq({id \in DOMAIN d.candidates :
                      d.candidates[id].state = "pending" /\ d.candidates[id].due_at <= now}, before)

\* plan_community gathers what Discord says before its commit.
Gather ==
  /\ engine.at = "idle"
  /\ \E k \in DOMAIN said :
       /\ \E o \in Observed(store) : o.message = k
       /\ Unanswered(k) /\ PublicCurrent(k)
       /\ engine' = [AtRest EXCEPT !.at = "planning", !.id = k]
  /\ PassUnchanged /\ UNCHANGED <<files, withdrawn, mishaps>>

\* propose_community, under the policy of the commit
Propose ==
  /\ engine.at = "planning"
  /\ LET k == engine.id
         d == IF Unanswered(k)
                THEN Proposed(store, Candidate("question", {}, k, now, store.guild.revision))
                ELSE store
     IN  \/ Commits(d) /\ engine' = [AtRest EXCEPT !.at = "choosing", !.left = Due(d)]
         \/ Fails(d) /\ engine' = AtRest
         \/ ~Admitted(d, store) /\ engine' = AtRest /\ UNCHANGED <<files, mishaps>>
  /\ PassUnchanged /\ UNCHANGED withdrawn

\* The store is cloned for each that is due and its reservation tried: the first that succeeds
\* is taken up.  One that is missing by now ends the pass.
FirstReservable(left) ==
  {i \in DOMAIN left :
     \A j \in 1..i : /\ left[j] \in DOMAIN store.candidates
                     /\ Reservable(store, left[j], store.candidates[left[j]].revision) <=> j = i}
Takes(left) ==
  \E i \in FirstReservable(left) :
    engine' = [AtRest EXCEPT !.at = "picked", !.id = left[i],
                 !.left = SubSeq(left, i + 1, Len(left)),
                 !.plan = [revision |-> store.candidates[left[i]].revision,
                           introduction |-> Snapshot(store, left[i])]]

BeginPass ==
  /\ engine.at = "idle" /\ Takes(Due(store))
  /\ PassUnchanged /\ UNCHANGED <<files, withdrawn, mishaps>>

Pick ==
  /\ engine.at = "choosing"
  /\ \/ Takes(engine.left)
     \/ FirstReservable(engine.left) = {} /\ engine' = AtRest
  /\ PassUnchanged /\ UNCHANGED <<files, withdrawn, mishaps>>

\* preflight::authorize finds the destination open, and the guild's gate lets it pass.
Authorize ==
  /\ engine.at = "picked" /\ healthy /\ Turn("authorized")
  /\ PassUnchanged /\ UNCHANGED <<files, withdrawn, mishaps>>

\* No proof, a timeout, or the gate is shut: nothing was charged.
Unavailable ==
  /\ engine.at = "picked" /\ Skip
  /\ PassUnchanged /\ UNCHANGED <<files, withdrawn, mishaps>>

\* The destination is closed to a member or to Abbey: reject_pending.
RejectPending ==
  /\ engine.at = "picked"
  /\ LET id == engine.id
         c == store.candidates[id]
         rejects == c.state = "pending" /\ c.revision = engine.plan.revision
         d == IF rejects THEN Settled(store, id, "rejected") ELSE store
     IN  IF id \notin DOMAIN store.candidates
           THEN engine' = AtRest /\ UNCHANGED <<files, mishaps>>
           ELSE \/ Commits(d) /\ Skip
                \/ Fails(d) /\ engine' = AtRest
  /\ PassUnchanged /\ UNCHANGED withdrawn

\* SourceEvidence: the exchange that was resolved is still on record.
EvidenceCurrent(id) ==
  /\ id \in DOMAIN store.candidates
  /\ store.candidates[id].kind # "introduction" => Grounded(store, id)

\* The contact is charged and on disk before anything is generated or sent.
Reserve ==
  /\ engine.at = "authorized"
  /\ LET id == engine.id  d == Reserved(store, id)
     IN  IF EvidenceCurrent(id) /\ Reservable(store, id, engine.plan.revision)
              /\ Admitted(d, store)
           THEN \/ /\ Saved(d) /\ withdrawn' = FALSE
                   /\ engine' = [engine EXCEPT !.at = "reserved", !.r = Reservation(store, id)]
                \/ NotSaved(d) /\ engine' = AtRest /\ UNCHANGED withdrawn
           ELSE Skip /\ UNCHANGED <<files, withdrawn, mishaps>>
  /\ PassUnchanged

\* body and prove: the message is written, then Discord is asked about its source again.
Prove ==
  /\ engine.at = "reserved" /\ Turn("proven")
  /\ engine.id \in DOMAIN store.candidates
  /\ LET c == store.candidates[engine.id]
     IN  /\ c.kind = "follow_up" => ExchangeCurrent(c.source)
         /\ c.kind = "question" => PublicCurrent(c.source)
         /\ c.kind = "introduction" =>
              /\ IntroductionCurrent(store, engine.id)
              /\ store.introductions[engine.id] = engine.plan.introduction
  /\ PassUnchanged /\ UNCHANGED <<files, withdrawn, mishaps>>

\* No text, or no proof.
Unproven ==
  /\ engine.at = "reserved" /\ engine' = [engine EXCEPT !.at = "settling", !.outcome = "rejected"]
  /\ PassUnchanged /\ UNCHANGED <<files, withdrawn, mishaps>>

\* The last check under the lock, with no await between it and the request.
Ready ==
  /\ healthy /\ EvidenceCurrent(engine.id)
  /\ ValidateReserved(store, engine.id, engine.r)

Post(c) ==
  [what |-> Identity(c), id |-> engine.id, at |-> engine.r.at, channel |-> c.channel,
   to |-> c.who, words |-> IF c.kind = "introduction" THEN engine.plan.introduction.words ELSE <<>>]

\* The message is accepted, and Abbey may or may not learn of it.
Sent ==
  /\ engine.at = "proven" /\ Ready
  /\ \E o \in {"sent", "review_required"} :
       engine' = [engine EXCEPT !.at = "settling", !.outcome = o]
  /\ posts' = Append(posts, Post(store.candidates[engine.id]))
  /\ UNCHANGED <<files, healthy, reply, discord, withdrawn, consent, bounds>>

\* The message is refused, or lost on its way, or the last check fails.
Unsent ==
  /\ engine.at = "proven"
  /\ \E o \in {"rejected"} \cup IF Ready THEN {"review_required"} ELSE {} :
       engine' = [engine EXCEPT !.at = "settling", !.outcome = o]
  /\ PassUnchanged /\ UNCHANGED <<files, withdrawn, mishaps>>

\* A contact that was cancelled meanwhile but sent is put on record; a cancelled one that
\* was not sent is left; one that was erased ends the pass.
Settle ==
  /\ engine.at = "settling" /\ withdrawn' = FALSE
  /\ LET id == engine.id
         c == store.candidates[id]
         late == c.state = "cancelled" /\ engine.outcome = "rejected"
         d == IF late THEN store ELSE Settled(store, id, engine.outcome)
     IN  IF id \notin DOMAIN store.candidates \/ c.state \notin {"reserved", "cancelled"}
              \/ ~Admitted(d, store)
           THEN engine' = AtRest /\ UNCHANGED <<files, mishaps>>
           ELSE \/ Commits(d) /\ Skip
                \/ Fails(d) /\ engine' = AtRest
  /\ PassUnchanged

-----------------------------------------------------------------------------
(* Restart *)

\* recover_reserved: what was under way is never sent again.
Recovered(d) ==
  [d EXCEPT !.candidates = [id \in DOMAIN @ |->
     IF @[id].state = "reserved" THEN [@[id] EXCEPT !.state = "review_required"] ELSE @[id]]]

Restart ==
  /\ Eventful /\ mishaps' = mishaps + 1
  /\ store' = Recovered(durable) /\ durable' = durable /\ diverged' = FALSE
  /\ healthy' = TRUE /\ engine' = AtRest /\ reply' = NoReply /\ withdrawn' = FALSE
  /\ shown' = shown \cup Versions(store')
  /\ UNCHANGED <<discord, posts, agreed, forgotten, bound, choices>>

EngineNext ==
  \/ Gather \/ Propose \/ BeginPass \/ Pick \/ Authorize \/ Unavailable \/ RejectPending
  \/ Reserve \/ Prove \/ Unproven \/ Sent \/ Unsent \/ Settle
MemberNext ==
  \/ Stop \/ Resume \/ Configure \/ Snooze \/ Dismiss \/ SetCommunity \/ CreateIntroduction
  \/ EditIntroduction \/ Approve \/ WithdrawIntroduction \/ Erase
Next ==
  \/ Say \/ EditOrDelete \/ Tick \/ Observe \/ DeleteSource
  \/ Complete \/ Unassessed \/ Unresolved \/ Resolved
  \/ MemberNext \/ EngineNext \/ Restart

Spec == Init /\ [][Next]_vars

-----------------------------------------------------------------------------
(* Properties *)

\* No message, and no pair of members, is ever the reason of two contacts of one kind: not after
\* a lost answer, a restart between sending and settling, an erasure, or both (recover_reserved,
\* erased_identities, the dedupe of propose).
ContactedOnce ==
  \A i, j \in DOMAIN posts : posts[i].what = posts[j].what => i = j

NewPost == Len(posts') > Len(posts)
LastPost == posts'[Len(posts')]

\* Contact stays within the daily limit of everyone it is addressed to, as the limit and the
\* local day are set when it is sent, whatever was erased and however the time zone was changed
\* in between (capacity, erased_contact_charges).  A contact counts for the day of its charge.
WithinBudget ==
  [][NewPost => \A m \in LastPost.to :
       LET terms == store.policies[m].terms
           today == LocalDay(terms, LastPost.at)
       IN  Cardinality({i \in DOMAIN posts' : m \in posts'[i].to
                                              /\ LocalDay(terms, posts'[i].at) = today})
             <= terms.daily_limit]_vars

\* Nothing is sent once a stop, a change of settings, a withdrawal, a dismissal, a change of the
\* guild's policy, an erasure, an edit, a deletion or a newer message that concerns the attempt
\* has been confirmed, or such an event could not be saved; and an introduction publishes, where
\* each member agreed to it, the very words this member was shown when approving
\* (validate_reserved, validate_introduction_reservation, engagement_events_healthy).
SentAsAgreed ==
  [][NewPost =>
       /\ ~withdrawn
       /\ LastPost.what.kind = "introduction" =>
            \A m \in LastPost.to :
              [id |-> LastPost.id, member |-> m, word |-> LastPost.words[m],
               channel |-> LastPost.channel] \in agreed]_vars

\* What a member was told is erased is in neither memory nor on disk, whatever late events,
\* exchanges, plans and answers were waiting for the lock (erase_learning, erasure_admitted).
ForgottenIsGone ==
  \A d \in {store, durable} :
    /\ \A c \in Candidates(d) : c.source \notin forgotten.sources /\ c.who \notin forgotten.pairs
    /\ \A o \in Observed(d) : o.message \notin forgotten.sources
    /\ \A m \in Members : d.eligibility[m] \cap forgotten.sources = {}

\* EngagementStore::validate: how introductions and charges go with candidates
Valid(d) ==
  /\ DOMAIN d.candidates \subseteq 1..d.sequence
  /\ \A a, b \in DOMAIN d.candidates :
       Identity(d.candidates[a]) = Identity(d.candidates[b]) => a = b
  /\ DOMAIN d.introductions = {id \in DOMAIN d.candidates : d.candidates[id].kind = "introduction"}
  /\ \A id \in DOMAIN d.introductions :
       LET i == d.introductions[id]  c == d.candidates[id]
           charged == {x \in d.charges : x.id = id}
       IN  /\ i.channel = c.channel /\ i.revision = c.revision
           /\ \A m \in c.who : i.approvals[m] \in {0, i.revision}
           /\ i.state \in {"ready", "consumed"} =>
                \A m \in c.who : i.approvals[m] = i.revision /\ i.words[m] # None
           /\ i.state \in {"pending", "ready"} => c.state = "pending"
           /\ i.state = "consumed" => Consumed(c)
           /\ i.state = "cancelled" =>
                c.state \in {"cancelled", "rejected", "sent", "review_required"}
           /\ Cardinality(charged) \in {0, 2}
  /\ \A x \in d.charges : x.id \in DOMAIN d.candidates /\ x.member \in d.candidates[x.id].who
  /\ \A id \in DOMAIN d.candidates : Consumed(d.candidates[id]) =>
       \A m \in d.candidates[id].who : \E x \in d.charges : x.id = id /\ x.member = m

\* No document the bot writes is refused when it starts again: passes write theirs without
\* validating it, and loading validates (LoadedEngagementStore, EngagementStore::validate).
Reloadable == Valid(durable)

=============================================================================
