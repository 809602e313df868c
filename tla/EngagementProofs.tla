-------------------------- MODULE EngagementProofs --------------------------
(* What TLAPS proves of Engagement for any members, channels, pairs, settings *)
(* and bounds: nobody is contacted twice for one reason or beyond his daily   *)
(* limit, what was stopped, withdrawn or erased stays so, introductions say   *)
(* what both members approved, and every document can be loaded again.  Each  *)
(* operation makes of a sound document a sound one that follows it; memory    *)
(* and disk only ever hold documents that follow one of theirs, and what is   *)
(* known of messages sent, approvals and erasures is inherited by followers.  *)
EXTENDS Engagement, FiniteSetTheorems, NaturalsInduction, WellFoundedInduction, TLAPS

-----------------------------------------------------------------------------
(* Documents *)

Kinds == {"follow_up", "question", "introduction"}
Scopes == {Everywhere} \cup Channels
Tables(S) == UNION {[D -> S] : D \in SUBSET Nat}
Wordings == UNION {[p -> Nat] : p \in SUBSET Members}

CandidateRecords ==
  [kind : Kinds, who : SUBSET Members, source : Nat, channel : Channels, due_at : Nat,
   revision : Nat, policy_revision : Nat,
   state : {"pending", "reserved", "sent", "review_required", "cancelled", "rejected"}]
IntroductionRecords ==
  [revision : Nat, channel : Channels, words : Wordings, approvals : Wordings,
   state : {"pending", "ready", "consumed", "cancelled"}]
Charges == [id : Nat, member : Members, at : Nat, day : Nat]
Identities == [kind : Kinds, who : SUBSET Members, source : Nat]
Policies == [revision : Nat, terms : Terms, stopped : SUBSET Scopes, snoozed_until : Nat]

Documents ==
  [sequence : Nat, candidates : Tables(CandidateRecords),
   introductions : Tables(IntroductionRecords),
   charges : SUBSET Charges, erased_charges : SUBSET Charges,
   erased_identities : SUBSET Identities,
   policies : [Members -> Policies],
   guild : [revision : Nat, channels : [{"question", "introduction"} -> SUBSET Channels]],
   observations : [Members -> [Channels -> [message : Nat, edited : BOOLEAN]]],
   eligibility : [Members -> SUBSET Nat],
   ledger : [Members -> Nat]]

\* Whom a candidate of its kind is for, and whether it stands on a message.
Addressed(c) ==
  /\ c.kind = "introduction" <=> c.source = None
  /\ c.kind = "introduction" => c.who \in Pairs
  /\ c.kind = "question" => c.who = {}
  /\ c.kind = "follow_up" => \E m \in Members : c.who = {m}

\* An introduction goes with its candidate.
Paired(c, i) ==
  /\ DOMAIN i.words = c.who /\ DOMAIN i.approvals = c.who
  /\ i.channel = c.channel /\ i.revision = c.revision /\ i.revision > 0
  /\ \A m \in c.who : i.approvals[m] \in {0, i.revision}
  /\ \A m \in c.who : i.approvals[m] # 0 => i.words[m] # None
  /\ i.state \in {"ready", "consumed"} => \A m \in c.who : i.approvals[m] = i.revision
  /\ i.state \in {"pending", "ready"} => c.state = "pending"
  /\ i.state = "consumed" => Consumed(c)
  /\ i.state = "cancelled" => c.state \in {"cancelled", "rejected", "sent", "review_required"}

\* What was charged for a candidate: nothing, or each of its members once.
ChargedFor(d, id) == {x \in d.charges : x.id = id}
Charged(d, id) ==
  LET c == d.candidates[id]  xs == ChargedFor(d, id)
  IN  /\ xs = {} \/ \E at \in Nat, f \in [c.who -> Charges] :
                      /\ xs = {f[m] : m \in c.who}
                      /\ \A m \in c.who : f[m].member = m /\ f[m].at = at
      /\ c.state = "pending" => xs = {}
      /\ Consumed(c) => \A m \in c.who : \E x \in xs : x.member = m

Booked(d) ==
  /\ \A id \in DOMAIN d.candidates : id \in 1..d.sequence /\ Addressed(d.candidates[id])
  /\ \A a, b \in DOMAIN d.candidates :
       Identity(d.candidates[a]) = Identity(d.candidates[b]) => a = b
  /\ \A id \in DOMAIN d.candidates : Identity(d.candidates[id]) \notin d.erased_identities
  /\ DOMAIN d.introductions = {id \in DOMAIN d.candidates : d.candidates[id].kind = "introduction"}
  /\ \A id \in DOMAIN d.introductions : Paired(d.candidates[id], d.introductions[id])
  /\ \A x \in d.charges : x.id \in DOMAIN d.candidates
  /\ \A id \in DOMAIN d.candidates : Charged(d, id)
  /\ IsFiniteSet(d.charges) /\ IsFiniteSet(d.erased_charges)

\* What is on record of messages is on record of their author.
Attributed(d, messages) ==
  /\ \A id \in DOMAIN d.candidates :
       d.candidates[id].source # None => d.candidates[id].source \in DOMAIN messages
  /\ \A m \in Members, c \in Channels :
       LET k == d.observations[m][c].message
       IN  k # None => k \in DOMAIN messages /\ messages[k].author = m
  /\ \A m \in Members : \A k \in d.eligibility[m] :
       k \in DOMAIN messages /\ messages[k].author = m

Sound(d, messages) == d \in Documents /\ Booked(d) /\ Attributed(d, messages)

-----------------------------------------------------------------------------
(* What an operation leaves behind *)

\* A candidate that is kept stays what it is, and is never pending or open again; its charges
\* stay, with it or with those of the erased.
Keeps(d, e, id) ==
  LET c == d.candidates[id]
  IN  IF id \in DOMAIN e.candidates
        THEN /\ Identity(e.candidates[id]) = Identity(c)
             /\ e.candidates[id].revision >= c.revision
             /\ e.candidates[id].state = "pending" => c.state = "pending"
             /\ Open(e.candidates[id]) => Open(c)
             /\ ChargedFor(d, id) \subseteq e.charges
        ELSE /\ Identity(c) \in e.erased_identities
             /\ ChargedFor(d, id) \subseteq e.erased_charges

KeepsIntroduction(d, e, id) ==
  LET i == d.introductions[id]  j == e.introductions[id]
  IN  /\ j.revision >= i.revision
      /\ j.revision = i.revision => j.words = i.words /\ j.channel = i.channel

FollowsBook(d, e) ==
  /\ e.sequence >= d.sequence
  /\ \A id \in DOMAIN e.candidates \ DOMAIN d.candidates : id > d.sequence
  /\ \A id \in DOMAIN d.candidates : Keeps(d, e, id)
  /\ \A id \in DOMAIN d.introductions \cap DOMAIN e.introductions : KeepsIntroduction(d, e, id)
  /\ d.erased_identities \subseteq e.erased_identities
  /\ d.erased_charges \subseteq e.erased_charges
FollowsRules(d, e) ==
  /\ \A m \in Members :
       /\ e.policies[m].revision >= d.policies[m].revision
       /\ e.policies[m].revision = d.policies[m].revision => e.policies[m] = d.policies[m]
       /\ e.ledger[m] >= d.ledger[m] \/ e.ledger[m] = now
  /\ e.guild.revision >= d.guild.revision
Follows(d, e) == FollowsBook(d, e) /\ FollowsRules(d, e)

\* No operation but an approval approves anything.
ApprovesNothing(d, e) ==
  \A id \in DOMAIN e.introductions : \A m \in DOMAIN e.introductions[id].approvals :
    e.introductions[id].approvals[m] # 0 =>
      /\ id \in DOMAIN d.introductions /\ d.introductions[id].approvals[m] # 0
      /\ m \in DOMAIN d.introductions[id].approvals
      /\ d.introductions[id].words[m] = e.introductions[id].words[m]
      /\ d.introductions[id].channel = e.introductions[id].channel

-----------------------------------------------------------------------------
(* What a document knows of the past *)

\* A contact for the reason it was for: never proposed or sent again, and charged.
Spent(d, id, what, at) ==
  /\ id \in Nat /\ id <= d.sequence
  /\ IF id \in DOMAIN d.candidates
       THEN /\ Identity(d.candidates[id]) = what /\ d.candidates[id].state # "pending"
            /\ \A m \in what.who : \E x \in d.charges : x.id = id /\ x.member = m /\ x.at = at
       ELSE /\ what \in d.erased_identities
            /\ \A m \in what.who :
                 \E x \in d.erased_charges : x.id = id /\ x.member = m /\ x.at = at

\* What was approved is what a member agreed to.
Attested(d, consents) ==
  \A id \in DOMAIN d.introductions : \A m \in DOMAIN d.introductions[id].approvals :
    LET i == d.introductions[id]
    IN  i.approvals[m] # 0 =>
          [id |-> id, member |-> m, word |-> i.words[m], channel |-> i.channel] \in consents

\* A version that was shown is the current one, or an earlier one.
Presents(d, v) ==
  /\ v.id <= d.sequence
  /\ v.id \in DOMAIN d.introductions =>
       LET i == d.introductions[v.id]
       IN  /\ v.revision <= i.revision
           /\ v.revision = i.revision => v.words = i.words /\ v.channel = i.channel

\* Erased messages are older than the author's erasure, and erased pairs are not proposed again.
Forgets(d, erased, messages) ==
  /\ \A k \in erased.sources : k \in DOMAIN messages /\ messages[k].at <= d.ledger[messages[k].author]
  /\ \A p \in erased.pairs :
       [kind |-> "introduction", who |-> p, source |-> None] \in d.erased_identities
  /\ \A c \in Candidates(d) : c.source \notin erased.sources
  /\ \A o \in Observed(d) : o.message \notin erased.sources
  /\ \A m \in Members : d.eligibility[m] \cap erased.sources = {}

-----------------------------------------------------------------------------
(* The inductive invariant *)

EngineStages ==
  {"idle", "choosing", "planning", "picked", "authorized", "reserved", "proven", "settling"}
Attempting == engine.at \in {"reserved", "proven"}
Messages == [author : Members, channel : Channels, at : Nat]
Posts ==
  [what : Identities, id : Nat, at : Nat, channel : Channels, to : SUBSET Members,
   words : Wordings \cup {<<>>}]

EngineTyped ==
  /\ engine = [at |-> engine.at, left |-> engine.left, id |-> engine.id, plan |-> engine.plan,
               r |-> engine.r, outcome |-> engine.outcome]
  /\ engine.at \in EngineStages
  /\ engine.at = "planning" => engine.id \in DOMAIN said
  /\ Attempting => engine.r.at \in Nat
  /\ engine.at = "settling" => engine.outcome \in {"sent", "rejected", "review_required"}
ReplyTyped == reply.at = "assessing" => reply.k \in DOMAIN said /\ reply.sources \subseteq DOMAIN said
ShownTyped ==
  \A v \in shown : /\ v.id \in Nat /\ v.revision \in Nat
                   /\ v = [id |-> v.id, revision |-> v.revision, channel |-> v.channel,
                           words |-> v.words]

Types ==
  /\ now \in Nat /\ bound \in Bounds /\ diverged \in BOOLEAN /\ withdrawn \in BOOLEAN
  /\ said \in Seq(Messages) /\ gone \subseteq DOMAIN said
  /\ \A k \in DOMAIN said : said[k].at <= now
  /\ posts \in Seq(Posts)
  /\ EngineTyped /\ ReplyTyped /\ ShownTyped

Documented == \A d \in {store, durable} : Sound(d, said)

\* Every message has its own candidate and reason, and each document knows it.
Recorded ==
  /\ \A i \in DOMAIN posts : \A d \in {store, durable} :
       Spent(d, posts[i].id, posts[i].what, posts[i].at)
  /\ \A i \in DOMAIN posts : posts[i].to = posts[i].what.who
  /\ \A i, j \in DOMAIN posts : posts[i].id = posts[j].id => i = j
  /\ \A i, j \in DOMAIN posts : posts[i].what = posts[j].what => i = j

\* So is what an attempt is charged for, which has no message before it is sent.
Reserving ==
  /\ engine.at \in {"reserved", "proven", "settling"} =>
       \E what \in Identities : \A d \in {store, durable} : Spent(d, engine.id, what, engine.r.at)
  /\ Attempting => \A i \in DOMAIN posts : posts[i].id # engine.id

\* What a reservation was made of is what there is, or revisions tell.
Held(d, e) ==
  LET c == d.candidates[e.id]  i == d.introductions[e.id]
  IN  /\ e.id \in DOMAIN d.candidates =>
           /\ e.r.revision \in 0..c.revision
           /\ c.kind # "follow_up" => e.r.policy_revision \in 0..d.guild.revision
           /\ \A m \in c.who : e.r.policies[m] \in 0..d.policies[m].revision
      /\ e.id \in DOMAIN d.introductions =>
           /\ e.r.introduction.revision \in 0..i.revision
           /\ e.at = "proven" /\ i.revision = e.r.introduction.revision =>
                i.words = e.plan.introduction.words

PostsTo(ps, m, terms, day) ==
  {i \in DOMAIN ps : m \in ps[i].to /\ LocalDay(terms, ps[i].at) = day}

\* There is room for the contact as long as the settings are those it was reserved under.
Budgeted(d, e, ps) ==
  e.id \in DOMAIN d.candidates =>
    \A m \in d.candidates[e.id].who :
      d.policies[m].revision = e.r.policies[m] =>
        LET terms == d.policies[m].terms
        IN  Cardinality(PostsTo(ps, m, terms, LocalDay(terms, e.r.at))) < terms.daily_limit

\* The last check will notice.
Stale(d, e) ==
  \/ e.id \notin DOMAIN d.candidates
  \/ LET c == d.candidates[e.id]
     IN  \/ ~Open(c) \/ c.revision > e.r.revision
         \/ \E m \in c.who : d.policies[m].revision > e.r.policies[m]
         \/ c.kind # "follow_up" /\ d.guild.revision > e.r.policy_revision

Checked ==
  Attempting =>
    /\ Held(store, engine) /\ Budgeted(store, engine, posts)
    /\ withdrawn => ~healthy \/ Stale(store, engine)

Agreed == \A d \in {store, durable} : Attested(d, agreed)
Presented == \A d \in {store, durable}, v \in shown \cup Versions(store) : Presents(d, v)
Forgotten ==
  forgotten.pairs \subseteq Pairs /\ \A d \in {store, durable} : Forgets(d, forgotten, said)

IInv ==
  /\ Types /\ Documented /\ Recorded /\ Reserving /\ Checked /\ Agreed /\ Presented /\ Forgotten

-----------------------------------------------------------------------------
(* Documents that are alike *)

SameBook(d, e) ==
  /\ e.sequence = d.sequence /\ e.candidates = d.candidates /\ e.introductions = d.introductions
  /\ e.charges = d.charges /\ e.erased_charges = d.erased_charges
  /\ e.erased_identities = d.erased_identities
SameRules(d, e) == e.policies = d.policies /\ e.guild = d.guild /\ e.ledger = d.ledger
SameSight(d, e) == e.observations = d.observations /\ e.eligibility = d.eligibility

\* A candidate whose state or revision an operation changes.
Restates(c, b) ==
  /\ Identity(b) = Identity(c) /\ b.revision >= c.revision
  /\ b.state = "pending" => c.state = "pending"
  /\ Open(b) => Open(c)

\* No candidate or introduction comes or goes.
SameEntries(d, e) ==
  /\ e.sequence = d.sequence
  /\ DOMAIN e.candidates = DOMAIN d.candidates /\ DOMAIN e.introductions = DOMAIN d.introductions
  /\ e.charges = d.charges /\ e.erased_charges = d.erased_charges
  /\ e.erased_identities = d.erased_identities

LEMMA Tabled ==
  ASSUME NEW S, NEW f
  PROVE  f \in Tables(S) <=> DOMAIN f \subseteq Nat /\ f \in [DOMAIN f -> S]
BY DEF Tables

LEMMA Worded ==
  ASSUME NEW f
  PROVE  f \in Wordings <=> DOMAIN f \subseteq Members /\ f \in [DOMAIN f -> Nat]
BY DEF Wordings

LEMMA Fields ==
  ASSUME NEW d \in Documents
  PROVE  /\ d.sequence \in Nat
         /\ d.candidates \in [DOMAIN d.candidates -> CandidateRecords]
         /\ DOMAIN d.candidates \subseteq Nat
         /\ d.introductions \in [DOMAIN d.introductions -> IntroductionRecords]
         /\ DOMAIN d.introductions \subseteq Nat
         /\ d.charges \subseteq Charges /\ d.erased_charges \subseteq Charges
         /\ d.erased_identities \subseteq Identities
         /\ d.policies \in [Members -> Policies]
         /\ d.guild \in [revision : Nat, channels : [{"question", "introduction"} -> SUBSET Channels]]
         /\ d.observations \in [Members -> [Channels -> [message : Nat, edited : BOOLEAN]]]
         /\ d.eligibility \in [Members -> SUBSET Nat]
         /\ d.ledger \in [Members -> Nat]
<1>1. d.candidates \in Tables(CandidateRecords) /\ d.introductions \in Tables(IntroductionRecords)
  BY DEF Documents
<1>2. DOMAIN d.candidates \subseteq Nat /\ d.candidates \in [DOMAIN d.candidates -> CandidateRecords]
  BY <1>1, Tabled
<1>3. /\ DOMAIN d.introductions \subseteq Nat
      /\ d.introductions \in [DOMAIN d.introductions -> IntroductionRecords]
  BY <1>1, Tabled
<1> QED
  BY <1>2, <1>3 DEF Documents

\* Nothing in the book depends on the rest of a document.
LEMMA SameBooked ==
  ASSUME NEW d, NEW e, SameBook(d, e), Booked(d)
  PROVE  Booked(e) /\ ApprovesNothing(d, e)
BY DEF SameBook, Booked, Charged, ChargedFor, ApprovesNothing

LEMMA FollowsItself ==
  ASSUME NEW d \in Documents, Booked(d)
  PROVE  Follows(d, d) /\ ApprovesNothing(d, d)
<1>1. FollowsRules(d, d)
  BY Fields DEF FollowsRules, Policies
<1>2. \A id \in DOMAIN d.candidates : Keeps(d, d, id)
  BY Fields DEF Keeps, ChargedFor, CandidateRecords
<1>3. \A id \in DOMAIN d.introductions : KeepsIntroduction(d, d, id)
  BY Fields DEF KeepsIntroduction, IntroductionRecords
<1>4. FollowsBook(d, d)
  BY <1>2, <1>3, Fields DEF FollowsBook
<1> QED
  BY <1>1, <1>4 DEF Follows, ApprovesNothing

\* A book with the same entries, each introduction still with its candidate, is sound.
LEMMA Restated ==
  ASSUME NEW d \in Documents, NEW e \in Documents, Booked(d), SameEntries(d, e),
         \A id \in DOMAIN d.candidates :
           /\ Restates(d.candidates[id], e.candidates[id])
           /\ Consumed(e.candidates[id]) =>
                \/ Consumed(d.candidates[id])
                \/ \A m \in d.candidates[id].who : \E x \in ChargedFor(d, id) : x.member = m,
         \A id \in DOMAIN d.introductions :
           Paired(e.candidates[id], e.introductions[id]) /\ KeepsIntroduction(d, e, id)
  PROVE  Booked(e) /\ FollowsBook(d, e)
<1>1. \A id \in DOMAIN d.candidates :
        /\ e.candidates[id].who = d.candidates[id].who /\ e.candidates[id].kind = d.candidates[id].kind
        /\ e.candidates[id].source = d.candidates[id].source
        /\ Identity(e.candidates[id]) = Identity(d.candidates[id])
  BY DEF Restates, Identity
<1>2. \A id \in DOMAIN d.candidates : Addressed(e.candidates[id])
  BY <1>1 DEF Addressed, Booked
<1>3. ASSUME NEW id \in DOMAIN d.candidates
      PROVE  Charged(e, id)
  <2>1. ChargedFor(e, id) = ChargedFor(d, id)
    BY DEF ChargedFor, SameEntries
  <2>2. Charged(d, id)
    BY DEF Booked
  <2> QED
    BY <1>1, <2>1, <2>2 DEF Charged, Restates
<1>4. DOMAIN e.introductions = {id \in DOMAIN e.candidates : e.candidates[id].kind = "introduction"}
  BY <1>1 DEF Booked, SameEntries
<1>5. \A a, b \in DOMAIN e.candidates :
        Identity(e.candidates[a]) = Identity(e.candidates[b]) => a = b
  BY <1>1 DEF Booked, SameEntries
<1>6. \A id \in DOMAIN e.candidates : Identity(e.candidates[id]) \notin e.erased_identities
  BY <1>1 DEF Booked, SameEntries
<1>7. Booked(e)
  BY <1>2, <1>3, <1>4, <1>5, <1>6 DEF Booked, SameEntries
<1>8. \A id \in DOMAIN d.candidates : Keeps(d, e, id)
  BY DEF Keeps, Restates, SameEntries, ChargedFor
<1>9. FollowsBook(d, e)
  BY <1>8, Fields DEF FollowsBook, SameEntries
<1> QED
  BY <1>7, <1>9

LEMMA SameFollows ==
  ASSUME NEW d \in Documents, NEW e \in Documents, Booked(d), SameBook(d, e)
  PROVE  FollowsBook(d, e)
<1>1. FollowsBook(d, d)
  BY FollowsItself DEF Follows
<1> QED
  BY <1>1 DEF FollowsBook, SameBook, Keeps, KeepsIntroduction, ChargedFor

LEMMA SameRulesFollow ==
  ASSUME NEW d \in Documents, NEW e, SameRules(d, e)
  PROVE  FollowsRules(d, e)
BY Fields DEF FollowsRules, SameRules, Policies

\* What is on record of messages stays attributed when candidates keep their sources.
LEMMA StaysAttributed ==
  ASSUME NEW d, NEW e, NEW messages, Attributed(d, messages), SameSight(d, e),
         DOMAIN e.candidates \subseteq DOMAIN d.candidates,
         \A id \in DOMAIN e.candidates : Identity(e.candidates[id]) = Identity(d.candidates[id])
  PROVE  Attributed(e, messages)
<1>1. \A id \in DOMAIN e.candidates : e.candidates[id].source = d.candidates[id].source
  BY DEF Identity
<1> QED
  BY <1>1 DEF Attributed, SameSight

-----------------------------------------------------------------------------
(* What each operation makes of a document *)

\* A sound document makes a sound one that follows it, and approves nothing.
Descends(d, e, messages) == Sound(e, messages) /\ Follows(d, e) /\ ApprovesNothing(d, e)

LEMMA DescendsFrom ==
  ASSUME NEW d, NEW messages, Sound(d, messages)
  PROVE  Descends(d, d, messages)
BY FollowsItself DEF Descends, Sound

\* What becomes of single entries.
LEMMA EntryChanges ==
  /\ \A c \in CandidateRecords :
       \A s \in {"pending", "reserved", "sent", "review_required", "cancelled", "rejected"} :
         LET b == [c EXCEPT !.state = s]
         IN  /\ b \in CandidateRecords /\ Identity(b) = Identity(c) /\ b.state = s
             /\ b.revision = c.revision /\ b.channel = c.channel /\ b.who = c.who
             /\ b.kind = c.kind /\ b.source = c.source /\ b.due_at = c.due_at
             /\ b.policy_revision = c.policy_revision
BY DEF CandidateRecords, Identity

LEMMA CancelledFields ==
  ASSUME NEW d \in Documents, NEW ids
  PROVE  LET e == Cancelled(d, ids)
         IN  /\ e \in Documents
             /\ SameEntries(d, e) /\ SameRules(d, e) /\ SameSight(d, e)
             /\ e.introductions = d.introductions
             /\ \A id \in DOMAIN d.candidates :
                  e.candidates[id] = IF id \in ids THEN [d.candidates[id] EXCEPT !.state = "cancelled"]
                                     ELSE d.candidates[id]
<1> DEFINE t == [id \in DOMAIN d.candidates |->
     IF id \in ids THEN [d.candidates[id] EXCEPT !.state = "cancelled"] ELSE d.candidates[id]]
<1>1. \A id \in DOMAIN d.candidates : d.candidates[id] \in CandidateRecords
  BY Fields
<1>2. t \in Tables(CandidateRecords)
  <2>1. \A id \in DOMAIN t : t[id] \in CandidateRecords
    BY <1>1, EntryChanges
  <2>2. DOMAIN t \subseteq Nat
    BY Fields
  <2> QED
    BY <2>1, <2>2, Tabled
<1>3. Cancelled(d, ids) = [d EXCEPT !.candidates = t]
  BY DEF Cancelled
<1>4. DOMAIN t = DOMAIN d.candidates
  OBVIOUS
<1> HIDE DEF t
<1>5. LET e == [d EXCEPT !.candidates = t]
      IN  e \in Documents /\ e.candidates = t /\ e.introductions = d.introductions
          /\ SameEntries(d, e) /\ SameRules(d, e) /\ SameSight(d, e)
  BY <1>2, <1>4 DEF Documents, SameEntries, SameRules, SameSight
<1> QED
  BY <1>3, <1>5 DEF t

\* Candidates that are no introductions may be cancelled.
LEMMA CancelledDescends ==
  ASSUME NEW d, NEW messages, Sound(d, messages), NEW ids,
         \A id \in ids \cap DOMAIN d.candidates : d.candidates[id].kind # "introduction"
  PROVE  LET e == Cancelled(d, ids)
         IN  /\ Descends(d, e, messages)
             /\ \A id \in ids \cap DOMAIN d.candidates : ~Open(e.candidates[id])
<1> DEFINE e == Cancelled(d, ids)
<1>1. d \in Documents /\ Booked(d) /\ Attributed(d, messages)
  BY DEF Sound
<1>2. /\ e \in Documents /\ e.introductions = d.introductions
      /\ SameEntries(d, e) /\ SameRules(d, e) /\ SameSight(d, e)
      /\ \A id \in DOMAIN d.candidates :
           e.candidates[id] = IF id \in ids THEN [d.candidates[id] EXCEPT !.state = "cancelled"]
                              ELSE d.candidates[id]
  BY <1>1, CancelledFields
<1> HIDE DEF e
<1>3. ASSUME NEW id \in DOMAIN d.candidates
      PROVE  Restates(d.candidates[id], e.candidates[id])
             /\ (Consumed(e.candidates[id]) => Consumed(d.candidates[id]))
  <2>1. d.candidates[id] \in CandidateRecords
    BY <1>1, Fields
  <2>2. d.candidates[id].revision \in Nat
    BY <2>1 DEF CandidateRecords
  <2>3. e.candidates[id] = d.candidates[id]
        \/ /\ Identity(e.candidates[id]) = Identity(d.candidates[id])
           /\ e.candidates[id].state = "cancelled"
           /\ e.candidates[id].revision = d.candidates[id].revision
    <3>1. CASE id \in ids
      <4>1. e.candidates[id] = [d.candidates[id] EXCEPT !.state = "cancelled"]
        BY <1>2, <3>1
      <4> QED
        BY <2>1, <4>1 DEF CandidateRecords, Identity
    <3>2. CASE id \notin ids
      BY <1>2, <3>2
    <3> QED
      BY <3>1, <3>2
  <2> QED
    BY <2>2, <2>3 DEF Restates, Consumed, Open
<1>4. ASSUME NEW id \in DOMAIN d.introductions
      PROVE  Paired(e.candidates[id], e.introductions[id]) /\ KeepsIntroduction(d, e, id)
  <2>1. id \in DOMAIN d.candidates /\ d.candidates[id].kind = "introduction"
    BY <1>1 DEF Booked
  <2>2. e.candidates[id] = d.candidates[id]
    BY <1>2, <2>1
  <2>3. d.introductions[id].revision \in Nat
    BY <1>1, Fields DEF IntroductionRecords
  <2> QED
    BY <1>1, <1>2, <2>2, <2>3 DEF Booked, KeepsIntroduction
<1>5. Booked(e) /\ FollowsBook(d, e)
  BY <1>1, <1>2, <1>3, <1>4, Restated
<1>6. Attributed(e, messages)
  BY <1>1, <1>2, <1>3, StaysAttributed DEF SameEntries, Restates
<1>7. FollowsRules(d, e)
  BY <1>1, <1>2, SameRulesFollow
<1>8. ApprovesNothing(d, e)
  BY <1>2 DEF ApprovesNothing
<1>9. ASSUME NEW id \in ids \cap DOMAIN d.candidates
      PROVE  ~Open(e.candidates[id])
  <2>1. /\ d.candidates[id] \in CandidateRecords
        /\ e.candidates[id] = [d.candidates[id] EXCEPT !.state = "cancelled"]
    BY <1>1, <1>2, Fields
  <2> QED
    BY <2>1 DEF CandidateRecords, Open
<1> QED
  BY <1>2, <1>5, <1>6, <1>7, <1>8, <1>9 DEF Descends, Sound, Follows, e

\* A document whose book and rules are those of another descends as the other does.
LEMMA DescendsAlike ==
  ASSUME NEW d, NEW e, NEW f, NEW messages, Descends(d, e, messages), f \in Documents,
         SameBook(e, f), Attributed(f, messages), SameRules(e, f)
  PROVE  Descends(d, f, messages)
<1>1. e \in Documents /\ Booked(e) /\ FollowsBook(d, e) /\ FollowsRules(d, e) /\ ApprovesNothing(d, e)
  BY DEF Descends, Sound, Follows
<1>2. Booked(f)
  BY <1>1, SameBooked
<1>3. FollowsBook(d, f)
  BY <1>1 DEF FollowsBook, SameBook, Keeps, KeepsIntroduction
<1>4. FollowsRules(d, f)
  BY <1>1 DEF FollowsRules, SameRules
<1>5. ApprovesNothing(d, f)
  BY <1>1 DEF ApprovesNothing, SameBook
<1> QED
  BY <1>2, <1>3, <1>4, <1>5 DEF Descends, Sound, Follows

\* Candidates of messages are no introductions.
LEMMA SourcesAreNotIntroductions ==
  ASSUME NEW d, Booked(d), NEW id \in DOMAIN d.candidates, d.candidates[id].source # None
  PROVE  d.candidates[id].kind # "introduction"
BY DEF Booked, Addressed

LEMMA MessageFields ==
  ASSUME NEW messages \in Seq(Messages), NEW k \in DOMAIN messages
  PROVE  /\ k \in Nat \ {0} /\ messages[k].author \in Members
         /\ messages[k].channel \in Channels /\ messages[k].at \in Nat
<1>1. k \in Nat \ {0}
  OBVIOUS
<1>2. messages[k] \in Messages
  OBVIOUS
<1> QED
  BY <1>1, <1>2 DEF Messages

LEMMA AttributedAlike ==
  ASSUME NEW d, NEW e, NEW messages, Attributed(d, messages), SameBook(d, e),
         \A m \in Members, c \in Channels :
           \/ e.observations[m][c].message = d.observations[m][c].message
           \/ /\ e.observations[m][c].message \in DOMAIN messages
              /\ messages[e.observations[m][c].message].author = m,
         \A m \in Members : e.eligibility[m] \subseteq d.eligibility[m]
  PROVE  Attributed(e, messages)
<1>1. ASSUME NEW id \in DOMAIN e.candidates, e.candidates[id].source # None
      PROVE  e.candidates[id].source \in DOMAIN messages
  BY <1>1 DEF Attributed, SameBook
<1>2. ASSUME NEW m \in Members, NEW c \in Channels, e.observations[m][c].message # None
      PROVE  /\ e.observations[m][c].message \in DOMAIN messages
             /\ messages[e.observations[m][c].message].author = m
  BY <1>2 DEF Attributed
<1>3. ASSUME NEW m \in Members, NEW k \in e.eligibility[m]
      PROVE  k \in DOMAIN messages /\ messages[k].author = m
  BY <1>3 DEF Attributed
<1> QED
  BY <1>1, <1>2, <1>3 DEF Attributed

LEMMA ObservationDescends ==
  ASSUME Sound(store, said), said \in Seq(Messages), NEW k \in DOMAIN said
  PROVE  LET e == Observation(store, k)
         IN  /\ Descends(store, e, said)
             /\ \A id \in Outdated(store, k) \cap DOMAIN store.candidates : ~Open(e.candidates[id])
<1> DEFINE ids == Outdated(store, k)
           e == Cancelled(store, ids)
           f == Observation(store, k)
           m == said[k].author
           c == said[k].channel
<1>1. store \in Documents /\ Booked(store) /\ Attributed(store, said)
  BY DEF Sound
<1>2. \A id \in ids \cap DOMAIN store.candidates : store.candidates[id].kind # "introduction"
  BY <1>1, SourcesAreNotIntroductions DEF Outdated
<1>3. /\ Descends(store, e, said)
      /\ \A id \in ids \cap DOMAIN store.candidates : ~Open(e.candidates[id])
  BY <1>2, CancelledDescends
<1>4. e \in Documents /\ SameSight(store, e)
  BY <1>1, CancelledFields
<1>5. m \in Members /\ c \in Channels /\ k \in Nat
  BY MessageFields
<1>6. f = [e EXCEPT !.observations[m][c] = [message |-> k, edited |-> FALSE]]
  BY DEF Observation
<1> HIDE DEF ids, e, f
<1>7. /\ f \in Documents /\ SameBook(e, f) /\ SameRules(e, f) /\ f.eligibility = e.eligibility
      /\ f.observations = [e.observations EXCEPT ![m][c] = [message |-> k, edited |-> FALSE]]
  BY <1>4, <1>5, <1>6 DEF Documents, SameBook, SameRules
<1>8. Attributed(e, said)
  BY <1>3 DEF Descends, Sound
<1>9. ASSUME NEW n \in Members, NEW a \in Channels
      PROVE  f.observations[n][a].message = IF n = m /\ a = c THEN k ELSE e.observations[n][a].message
  BY <1>4, <1>5, <1>7, Fields
<1>10. Attributed(f, said)
  <2>1. ASSUME NEW n \in Members, NEW a \in Channels
        PROVE  \/ f.observations[n][a].message = e.observations[n][a].message
               \/ /\ f.observations[n][a].message \in DOMAIN said
                  /\ said[f.observations[n][a].message].author = n
    <3>1. CASE n = m /\ a = c
      BY <1>9, <3>1
    <3>2. CASE ~(n = m /\ a = c)
      BY <1>9, <3>2
    <3> QED
      BY <3>1, <3>2
  <2> QED
    <3>1. \A n \in Members : f.eligibility[n] \subseteq e.eligibility[n]
      BY <1>7
    <3>2. SameBook(e, f)
      BY <1>7
    <3> QED
      BY <1>8, <2>1, <3>1, <3>2, AttributedAlike
<1>11. Descends(store, f, said)
  BY <1>3, <1>7, <1>10, DescendsAlike
<1>12. \A id \in ids \cap DOMAIN store.candidates : ~Open(f.candidates[id])
  BY <1>3, <1>7 DEF SameBook
<1> QED
  BY <1>11, <1>12 DEF f, ids

LEMMA DeletedSourceDescends ==
  ASSUME Sound(store, said), said \in Seq(Messages), NEW k \in DOMAIN said, NEW ids,
         \A id \in ids \cap DOMAIN store.candidates : store.candidates[id].source # None
  PROVE  LET e == DeletedSource(store, k, ids)
         IN  /\ Descends(store, e, said)
             /\ \A id \in ids \cap DOMAIN store.candidates : ~Open(e.candidates[id])
<1> DEFINE e == Cancelled(store, ids)
           f == DeletedSource(store, k, ids)
           m == said[k].author
           c == said[k].channel
           before == store.observations[m][c]
           o == [message |-> before.message, edited |-> before.edited \/ before.message = k]
<1>1. store \in Documents /\ Booked(store) /\ Attributed(store, said)
  BY DEF Sound
<1>2. \A id \in ids \cap DOMAIN store.candidates : store.candidates[id].kind # "introduction"
  BY <1>1, SourcesAreNotIntroductions
<1>3. /\ Descends(store, e, said)
      /\ \A id \in ids \cap DOMAIN store.candidates : ~Open(e.candidates[id])
  BY <1>2, CancelledDescends
<1>4. e \in Documents /\ SameSight(store, e)
  BY <1>1, CancelledFields
<1>5. m \in Members /\ c \in Channels /\ k \in Nat
  BY MessageFields
<1>6. f = [e EXCEPT !.observations[m][c] = o, !.eligibility[m] = @ \ {k}]
  BY DEF DeletedSource
<1>7. /\ e.observations[m][c] = before /\ before \in [message : Nat, edited : BOOLEAN]
      /\ e.observations \in [Members -> [Channels -> [message : Nat, edited : BOOLEAN]]]
      /\ e.eligibility \in [Members -> SUBSET Nat]
  BY <1>1, <1>4, <1>5, Fields DEF SameSight
<1>8. /\ o \in [message : Nat, edited : BOOLEAN]
      /\ o.message = e.observations[m][c].message
  BY <1>7
<1> HIDE DEF e, f, o, before
<1>10. /\ [e.observations EXCEPT ![m][c] = o] \in [Members -> [Channels -> [message : Nat, edited : BOOLEAN]]]
       /\ [e.eligibility EXCEPT ![m] = @ \ {k}] \in [Members -> SUBSET Nat]
  BY <1>5, <1>7, <1>8
<1>11. /\ f \in Documents /\ SameBook(e, f) /\ SameRules(e, f)
       /\ f.observations = [e.observations EXCEPT ![m][c] = o]
       /\ f.eligibility = [e.eligibility EXCEPT ![m] = @ \ {k}]
  BY <1>4, <1>6, <1>10 DEF Documents, SameBook, SameRules
<1>12. Attributed(e, said)
  BY <1>3 DEF Descends, Sound
<1>13. \A n \in Members, a \in Channels : f.observations[n][a].message = e.observations[n][a].message
  BY <1>5, <1>7, <1>8, <1>11
<1>14. \A n \in Members : f.eligibility[n] \subseteq e.eligibility[n]
  BY <1>5, <1>7, <1>11
<1>15. Attributed(f, said)
  <2>1. SameBook(e, f)
    BY <1>11
  <2>2. \A n \in Members, a \in Channels :
          \/ f.observations[n][a].message = e.observations[n][a].message
          \/ /\ f.observations[n][a].message \in DOMAIN said
             /\ said[f.observations[n][a].message].author = n
    BY <1>13
  <2> QED
    BY <1>12, <1>14, <2>1, <2>2, AttributedAlike
<1>16. Descends(store, f, said)
  BY <1>3, <1>11, <1>15, DescendsAlike
<1>17. \A id \in ids \cap DOMAIN store.candidates : ~Open(f.candidates[id])
  BY <1>3, <1>11 DEF SameBook
<1> QED
  BY <1>16, <1>17 DEF f

LEMMA AnsweredDescends ==
  ASSUME NEW d, NEW messages, Sound(d, messages), messages \in Seq(Messages),
         NEW k \in DOMAIN messages, NEW m \in Members, messages[k].author = m
  PROVE  Descends(d, Answered(d, m, k), messages)
<1> DEFINE f == Answered(d, m, k)
<1>1. d \in Documents /\ Booked(d) /\ Attributed(d, messages)
  BY DEF Sound
<1>2. k \in Nat /\ d.eligibility \in [Members -> SUBSET Nat]
  BY <1>1, Fields
<1>3. [d.eligibility EXCEPT ![m] = @ \cup {k}] \in [Members -> SUBSET Nat]
  BY <1>2
<1>4. /\ f \in Documents /\ SameBook(d, f) /\ SameRules(d, f) /\ f.observations = d.observations
      /\ f.eligibility = [d.eligibility EXCEPT ![m] = @ \cup {k}]
  BY <1>1, <1>3 DEF Answered, Documents, SameBook, SameRules
<1>5. Attributed(f, messages)
  BY <1>1, <1>2, <1>4 DEF Attributed, SameBook
<1> QED
  BY <1>4, <1>5, DescendsAlike, DescendsFrom

\* An introduction that has ended approves nothing.
LEMMA ClosedFields ==
  ASSUME NEW i \in IntroductionRecords
  PROVE  LET j == Closed(i)
         IN  /\ j \in IntroductionRecords /\ j.state = "cancelled"
             /\ j.revision = i.revision /\ j.channel = i.channel /\ j.words = i.words
             /\ DOMAIN j.approvals = DOMAIN i.approvals
             /\ \A m \in DOMAIN i.approvals : j.approvals[m] = 0
<1> DEFINE none == [m \in DOMAIN i.approvals |-> 0]
<1>1. i.approvals \in Wordings
  BY DEF IntroductionRecords
<1>2. none \in Wordings
  BY <1>1, Worded
<1>3. DOMAIN none = DOMAIN i.approvals /\ \A m \in DOMAIN i.approvals : none[m] = 0
  OBVIOUS
<1>4. Closed(i) = [i EXCEPT !.state = "cancelled", !.approvals = none]
  BY DEF Closed
<1> HIDE DEF none
<1>5. LET j == [i EXCEPT !.state = "cancelled", !.approvals = none]
      IN  /\ j \in IntroductionRecords /\ j.state = "cancelled" /\ j.approvals = none
          /\ j.revision = i.revision /\ j.channel = i.channel /\ j.words = i.words
  BY <1>2 DEF IntroductionRecords
<1> QED
  BY <1>3, <1>4, <1>5

LEMMA CancelledIntroductionsFields ==
  ASSUME NEW d \in Documents, NEW ids
  PROVE  LET e == CancelledIntroductions(d, ids)
         IN  /\ e \in Documents
             /\ SameEntries(d, e) /\ SameRules(d, e) /\ SameSight(d, e)
             /\ e.candidates = d.candidates
             /\ \A id \in DOMAIN d.introductions :
                  e.introductions[id] = IF id \in ids THEN Closed(d.introductions[id])
                                        ELSE d.introductions[id]
<1> DEFINE u == [id \in DOMAIN d.introductions |->
     IF id \in ids THEN Closed(d.introductions[id]) ELSE d.introductions[id]]
<1>1. \A id \in DOMAIN d.introductions : d.introductions[id] \in IntroductionRecords
  BY Fields
<1>2. u \in Tables(IntroductionRecords)
  <2>1. \A id \in DOMAIN u : u[id] \in IntroductionRecords
    BY <1>1, ClosedFields
  <2>2. DOMAIN u \subseteq Nat
    BY Fields
  <2> QED
    BY <2>1, <2>2, Tabled
<1>4. CancelledIntroductions(d, ids) = [d EXCEPT !.introductions = u]
  BY DEF CancelledIntroductions
<1>5. DOMAIN u = DOMAIN d.introductions
  OBVIOUS
<1> HIDE DEF u
<1>6. LET e == [d EXCEPT !.introductions = u]
      IN  e \in Documents /\ e.introductions = u /\ e.candidates = d.candidates
          /\ SameEntries(d, e) /\ SameRules(d, e) /\ SameSight(d, e)
  BY <1>2, <1>5 DEF Documents, SameEntries, SameRules, SameSight
<1> QED
  BY <1>4, <1>6 DEF u

LEMMA RaisedIntroduction ==
  ASSUME NEW i \in IntroductionRecords
  PROVE  LET j == Raised(i)
         IN  /\ j \in IntroductionRecords /\ j.revision = i.revision + 1
             /\ j.channel = i.channel /\ j.words = i.words /\ j.approvals = i.approvals
             /\ j.state = i.state
BY DEF Raised, IntroductionRecords

LEMMA RevisedFields ==
  ASSUME NEW d \in Documents, NEW ids
  PROVE  LET e == Revised(d, ids)
         IN  /\ e \in Documents
             /\ SameEntries(d, e) /\ SameRules(d, e) /\ SameSight(d, e)
             /\ \A id \in DOMAIN d.candidates :
                  e.candidates[id] = IF id \in ids THEN Raised(d.candidates[id])
                                     ELSE d.candidates[id]
             /\ \A id \in DOMAIN d.introductions :
                  e.introductions[id] =
                    IF id \in ids THEN Raised(d.introductions[id])
                    ELSE d.introductions[id]
<1> DEFINE t == [id \in DOMAIN d.candidates |->
     IF id \in ids THEN Raised(d.candidates[id]) ELSE d.candidates[id]]
           u == [id \in DOMAIN d.introductions |->
     IF id \in ids THEN Raised(d.introductions[id]) ELSE d.introductions[id]]
<1>1. /\ \A id \in DOMAIN d.candidates : d.candidates[id] \in CandidateRecords
      /\ \A id \in DOMAIN d.introductions : d.introductions[id] \in IntroductionRecords
  BY Fields
<1>2. t \in Tables(CandidateRecords)
  <2>1. \A c \in CandidateRecords : Raised(c) \in CandidateRecords
    BY DEF CandidateRecords, Raised
  <2>2. \A id \in DOMAIN t : t[id] \in CandidateRecords
    BY <1>1, <2>1
  <2>3. DOMAIN t \subseteq Nat
    BY Fields
  <2> QED
    BY <2>2, <2>3, Tabled
<1>3. u \in Tables(IntroductionRecords)
  <2>1. \A i \in IntroductionRecords : Raised(i) \in IntroductionRecords
    BY RaisedIntroduction
  <2>2. \A id \in DOMAIN u : u[id] \in IntroductionRecords
    BY <1>1, <2>1
  <2>3. DOMAIN u \subseteq Nat
    BY Fields
  <2> QED
    BY <2>2, <2>3, Tabled
<1>4. Revised(d, ids) = [d EXCEPT !.candidates = t, !.introductions = u]
  BY DEF Revised
<1>5. DOMAIN t = DOMAIN d.candidates /\ DOMAIN u = DOMAIN d.introductions
  OBVIOUS
<1> HIDE DEF t, u
<1>6. LET e == [d EXCEPT !.candidates = t, !.introductions = u]
      IN  e \in Documents /\ e.introductions = u /\ e.candidates = t
          /\ SameEntries(d, e) /\ SameRules(d, e) /\ SameSight(d, e)
  BY <1>2, <1>3, <1>5 DEF Documents, SameEntries, SameRules, SameSight
<1> QED
  BY <1>4, <1>6 DEF t, u

\* What a choice ends is cancelled, with its introduction, under the next revision.
LEMMA EndedDescends ==
  ASSUME NEW d, NEW messages, Sound(d, messages), NEW ids
  PROVE  LET e == Ended(d, ids)
         IN  /\ Descends(d, e, messages) /\ SameEntries(d, e) /\ SameRules(d, e)
             /\ \A id \in DOMAIN d.candidates \cap ids : ~Open(e.candidates[id])
<1> DEFINE f == Cancelled(d, ids)
           g == CancelledIntroductions(f, ids)
           e == Ended(d, ids)
<1>1. d \in Documents /\ Booked(d) /\ Attributed(d, messages)
  BY DEF Sound
<1>2. /\ f \in Documents /\ f.introductions = d.introductions
      /\ SameEntries(d, f) /\ SameRules(d, f) /\ SameSight(d, f)
      /\ \A id \in DOMAIN d.candidates :
           f.candidates[id] = IF id \in ids THEN [d.candidates[id] EXCEPT !.state = "cancelled"]
                              ELSE d.candidates[id]
  BY <1>1, CancelledFields
<1>3. /\ g \in Documents /\ g.candidates = f.candidates
      /\ SameEntries(f, g) /\ SameRules(f, g) /\ SameSight(f, g)
      /\ \A id \in DOMAIN f.introductions :
           g.introductions[id] = IF id \in ids THEN Closed(f.introductions[id])
                                 ELSE f.introductions[id]
  BY <1>2, CancelledIntroductionsFields
<1>4. /\ e \in Documents
      /\ SameEntries(g, e) /\ SameRules(g, e) /\ SameSight(g, e)
      /\ \A id \in DOMAIN g.candidates :
           e.candidates[id] = IF id \in ids THEN Raised(g.candidates[id])
                              ELSE g.candidates[id]
      /\ \A id \in DOMAIN g.introductions :
           e.introductions[id] =
             IF id \in ids THEN Raised(g.introductions[id])
             ELSE g.introductions[id]
  BY <1>3, RevisedFields DEF Ended
<1> HIDE DEF e, f, g
<1>5. SameEntries(d, e) /\ SameRules(d, e) /\ SameSight(d, e)
  BY <1>2, <1>3, <1>4 DEF SameEntries, SameRules, SameSight
<1>6. ASSUME NEW id \in DOMAIN d.candidates
      PROVE  IF id \in ids
               THEN /\ Identity(e.candidates[id]) = Identity(d.candidates[id])
                    /\ e.candidates[id].state = "cancelled"
                    /\ e.candidates[id].revision = d.candidates[id].revision + 1
                    /\ e.candidates[id].channel = d.candidates[id].channel
                    /\ e.candidates[id].who = d.candidates[id].who
               ELSE e.candidates[id] = d.candidates[id]
  <2>1. d.candidates[id] \in CandidateRecords
    BY <1>1, Fields
  <2>2. CASE id \in ids
    <3>1. e.candidates[id] = Raised([d.candidates[id] EXCEPT !.state = "cancelled"])
      BY <1>2, <1>3, <1>4, <2>2 DEF SameEntries
    <3> QED
      BY <2>1, <2>2, <3>1 DEF CandidateRecords, Identity, Raised
  <2>3. CASE id \notin ids
    <3>1. f.candidates[id] = d.candidates[id] /\ id \in DOMAIN g.candidates
      BY <1>2, <1>3, <2>3 DEF SameEntries
    <3> QED
      BY <1>3, <1>4, <2>3, <3>1
  <2> QED
    BY <2>2, <2>3
<1>7. ASSUME NEW id \in DOMAIN d.introductions
      PROVE  IF id \in ids
               THEN /\ e.introductions[id].revision = d.introductions[id].revision + 1
                    /\ e.introductions[id].channel = d.introductions[id].channel
                    /\ e.introductions[id].words = d.introductions[id].words
                    /\ e.introductions[id].state = "cancelled"
                    /\ DOMAIN e.introductions[id].approvals = DOMAIN d.introductions[id].approvals
                    /\ \A m \in DOMAIN e.introductions[id].approvals :
                         e.introductions[id].approvals[m] = 0
               ELSE e.introductions[id] = d.introductions[id]
  <2>1. d.introductions[id] \in IntroductionRecords
    BY <1>1, Fields
  <2>2. CASE id \in ids
    <3>1. e.introductions[id] = Raised(Closed(d.introductions[id]))
      BY <1>2, <1>3, <1>4, <2>2 DEF SameEntries
    <3>2. /\ Closed(d.introductions[id]) \in IntroductionRecords
          /\ Closed(d.introductions[id]).state = "cancelled"
          /\ Closed(d.introductions[id]).revision = d.introductions[id].revision
          /\ Closed(d.introductions[id]).channel = d.introductions[id].channel
          /\ Closed(d.introductions[id]).words = d.introductions[id].words
          /\ DOMAIN Closed(d.introductions[id]).approvals = DOMAIN d.introductions[id].approvals
          /\ \A m \in DOMAIN d.introductions[id].approvals :
               Closed(d.introductions[id]).approvals[m] = 0
      BY <2>1, ClosedFields
    <3> QED
      BY <2>2, <3>1, <3>2, RaisedIntroduction
  <2>3. CASE id \notin ids
    <3>1. g.introductions[id] = f.introductions[id] /\ id \in DOMAIN g.introductions
      BY <1>2, <1>3, <2>3 DEF SameEntries
    <3> QED
      BY <1>2, <1>4, <2>3, <3>1
  <2> QED
    BY <2>2, <2>3
<1>8. ASSUME NEW id \in DOMAIN d.candidates
      PROVE  Restates(d.candidates[id], e.candidates[id])
             /\ (Consumed(e.candidates[id]) => Consumed(d.candidates[id]))
  <2>1. d.candidates[id].revision \in Nat
    BY <1>1, Fields DEF CandidateRecords
  <2> QED
    BY <1>6, <2>1 DEF Restates, Consumed, Open
<1>9. ASSUME NEW id \in DOMAIN d.introductions
      PROVE  Paired(e.candidates[id], e.introductions[id]) /\ KeepsIntroduction(d, e, id)
  <2>1. id \in DOMAIN d.candidates /\ Paired(d.candidates[id], d.introductions[id])
    BY <1>1 DEF Booked
  <2>2. d.introductions[id].revision \in Nat /\ d.candidates[id].revision \in Nat
    BY <1>1, <2>1, Fields DEF IntroductionRecords, CandidateRecords
  <2>3. CASE id \in ids
    <3>1. Paired(e.candidates[id], e.introductions[id])
      BY <1>6, <1>7, <2>1, <2>2, <2>3 DEF Paired
    <3> QED
      BY <1>7, <2>2, <2>3, <3>1 DEF KeepsIntroduction
  <2>4. CASE id \notin ids
    BY <1>6, <1>7, <2>1, <2>2, <2>4 DEF KeepsIntroduction
  <2> QED
    BY <2>3, <2>4
<1>10. Booked(e) /\ FollowsBook(d, e)
  BY <1>1, <1>4, <1>5, <1>8, <1>9, Restated
<1>11. Attributed(e, messages)
  BY <1>1, <1>5, <1>8, StaysAttributed DEF SameEntries, Restates
<1>12. FollowsRules(d, e)
  BY <1>1, <1>5, SameRulesFollow
<1>13. ApprovesNothing(d, e)
  BY <1>5, <1>7 DEF ApprovesNothing, SameEntries
<1>14. \A id \in DOMAIN d.candidates \cap ids : ~Open(e.candidates[id])
  BY <1>6 DEF Open
<1> QED
  BY <1>4, <1>5, <1>10, <1>11, <1>12, <1>13, <1>14 DEF Descends, Sound, Follows, e

\* Settings leave everything but a member's policy alone.
LEMMA SettingsDescends ==
  ASSUME NEW d, NEW messages, Sound(d, messages), NEW m \in Members, NEW p \in Policies,
         p.revision = d.policies[m].revision
  PROVE  LET e == Settings(d, m, p)
         IN  /\ Descends(d, e, messages) /\ SameBook(d, e)
             /\ e.policies[m].revision > d.policies[m].revision
<1> DEFINE e == Settings(d, m, p)
<1>1. d \in Documents /\ Booked(d) /\ Attributed(d, messages)
  BY DEF Sound
<1>2. d.policies \in [Members -> Policies] /\ \A n \in Members : d.policies[n].revision \in Nat
  BY <1>1, Fields DEF Policies
<1>3. Raised(p) \in Policies /\ Raised(p).revision = p.revision + 1
  BY DEF Policies, Raised
<1>4. [d.policies EXCEPT ![m] = Raised(p)] \in [Members -> Policies]
  BY <1>2, <1>3
<1>5. /\ e \in Documents /\ SameBook(d, e) /\ SameSight(d, e) /\ e.guild = d.guild
      /\ e.ledger = d.ledger /\ e.policies = [d.policies EXCEPT ![m] = Raised(p)]
  BY <1>1, <1>4 DEF Settings, Documents, SameBook, SameSight
<1> HIDE DEF e
<1>6. \A n \in Members :
        e.policies[n] = IF n = m THEN Raised(p) ELSE d.policies[n]
  BY <1>2, <1>5
<1>7. FollowsRules(d, e)
  <2>1. d.guild.revision \in Nat /\ \A n \in Members : d.ledger[n] \in Nat
    BY <1>1, Fields
  <2> QED
    BY <1>2, <1>3, <1>5, <1>6, <2>1 DEF FollowsRules
<1>8. Attributed(e, messages)
  BY <1>1, <1>5 DEF Attributed, SameBook, SameSight
<1>9. Booked(e) /\ ApprovesNothing(d, e) /\ FollowsBook(d, e)
  BY <1>1, <1>5, SameBooked, SameFollows
<1>10. e.policies[m].revision > d.policies[m].revision
  BY <1>2, <1>3, <1>6
<1> QED
  BY <1>5, <1>7, <1>8, <1>9, <1>10 DEF Descends, Sound, Follows, e

LEMMA DescendsThrough ==
  ASSUME NEW d, NEW e, NEW f, NEW messages, Descends(d, e, messages), SameBook(d, e),
         Descends(e, f, messages), SameRules(e, f)
  PROVE  Descends(d, f, messages)
<1>1. Sound(f, messages) /\ FollowsBook(e, f) /\ ApprovesNothing(e, f) /\ FollowsRules(d, e)
  BY DEF Descends, Follows
<1>2. FollowsBook(d, f)
  BY <1>1 DEF FollowsBook, SameBook, Keeps, KeepsIntroduction, ChargedFor
<1>3. FollowsRules(d, f)
  BY <1>1 DEF FollowsRules, SameRules
<1>4. ApprovesNothing(d, f)
  BY <1>1 DEF ApprovesNothing, SameBook
<1> QED
  BY <1>1, <1>2, <1>3, <1>4 DEF Descends, Follows

\* A stop changes the settings and ends what matches.
LEMMA StoppedDescends ==
  ASSUME NEW d, NEW messages, Sound(d, messages), NEW m \in Members, NEW p \in Policies,
         p.revision = d.policies[m].revision, NEW ids
  PROVE  LET e == Ended(Settings(d, m, p), ids)
         IN  /\ Descends(d, e, messages)
             /\ e.policies[m].revision > d.policies[m].revision
<1> DEFINE f == Settings(d, m, p)
           e == Ended(f, ids)
<1>1. /\ Descends(d, f, messages) /\ SameBook(d, f)
      /\ f.policies[m].revision > d.policies[m].revision
  BY SettingsDescends
<1>2. Sound(f, messages)
  BY <1>1 DEF Descends
<1> HIDE DEF f
<1>3. Descends(f, e, messages) /\ SameRules(f, e)
  BY <1>2, EndedDescends
<1>4. Descends(d, e, messages)
  BY <1>1, <1>3, DescendsThrough
<1>5. e.policies = f.policies
  BY <1>3 DEF SameRules
<1> HIDE DEF e
<1>6. e.policies[m].revision > d.policies[m].revision
  BY <1>1, <1>5
<1> QED
  BY <1>4, <1>6 DEF e, f

LEMMA CommunityDescends ==
  ASSUME NEW d, NEW messages, Sound(d, messages), NEW f \in {"question", "introduction"},
         NEW on \in SUBSET Channels
  PROVE  LET e == Community(d, f, on)
         IN  /\ Descends(d, e, messages) /\ SameBook(d, e)
             /\ e.guild.revision > d.guild.revision
<1> DEFINE e == Community(d, f, on)
           g == [revision |-> d.guild.revision + 1,
                 channels |-> [d.guild.channels EXCEPT ![f] = on]]
<1>1. d \in Documents /\ Booked(d) /\ Attributed(d, messages)
  BY DEF Sound
<1>2. /\ d.guild.revision \in Nat
      /\ d.guild.channels \in [{"question", "introduction"} -> SUBSET Channels]
  BY <1>1, Fields
<1>3. g \in [revision : Nat, channels : [{"question", "introduction"} -> SUBSET Channels]]
      /\ g.revision = d.guild.revision + 1
  BY <1>2
<1>4. e = [d EXCEPT !.guild = g]
  BY DEF Community
<1> HIDE DEF g, e
<1>5. /\ e \in Documents /\ SameBook(d, e) /\ SameSight(d, e) /\ e.policies = d.policies
      /\ e.ledger = d.ledger /\ e.guild = g
  BY <1>1, <1>3, <1>4 DEF Documents, SameBook, SameSight
<1>6. FollowsRules(d, e)
  <2>1. (\A n \in Members : d.ledger[n] \in Nat) /\ \A n \in Members : d.policies[n].revision \in Nat
    BY <1>1, Fields DEF Policies
  <2> QED
    BY <1>2, <1>3, <1>5, <2>1 DEF FollowsRules
<1>7. Attributed(e, messages)
  BY <1>1, <1>5 DEF Attributed, SameBook, SameSight
<1>8. Booked(e) /\ ApprovesNothing(d, e) /\ FollowsBook(d, e)
  BY <1>1, <1>5, SameBooked, SameFollows
<1>9. e.guild.revision > d.guild.revision
  BY <1>2, <1>3, <1>5
<1> QED
  BY <1>5, <1>6, <1>7, <1>8, <1>9 DEF Descends, Sound, Follows, e

\* What is proposed is new: its reason is neither on record nor among the erased.
LEMMA Added ==
  ASSUME NEW d \in Documents, NEW e \in Documents, Booked(d), NEW c \in CandidateRecords,
         Addressed(c), c.state = "pending", ~Known(d, c),
         e.sequence = d.sequence + 1, e.charges = d.charges, e.erased_charges = d.erased_charges,
         e.erased_identities = d.erased_identities,
         DOMAIN e.candidates = DOMAIN d.candidates \cup {d.sequence + 1},
         \A id \in DOMAIN d.candidates : e.candidates[id] = d.candidates[id],
         e.candidates[d.sequence + 1] = c,
         DOMAIN e.introductions =
           DOMAIN d.introductions \cup (IF c.kind = "introduction" THEN {d.sequence + 1} ELSE {}),
         \A id \in DOMAIN d.introductions : e.introductions[id] = d.introductions[id],
         c.kind = "introduction" =>
           /\ Paired(c, e.introductions[d.sequence + 1])
           /\ \A m \in DOMAIN e.introductions[d.sequence + 1].approvals :
                e.introductions[d.sequence + 1].approvals[m] = 0
  PROVE  Booked(e) /\ FollowsBook(d, e) /\ ApprovesNothing(d, e)
<1> DEFINE n == d.sequence + 1
<1>1. d.sequence \in Nat /\ n \in Nat /\ n > d.sequence /\ n \notin DOMAIN d.candidates
  BY Fields DEF Booked
<1>2. \A id \in DOMAIN d.candidates : id # n /\ id \in 1..d.sequence
  BY <1>1 DEF Booked
<1>3. DOMAIN d.introductions = {id \in DOMAIN d.candidates : d.candidates[id].kind = "introduction"}
  BY DEF Booked
<1>4. Booked(e)
  <2>1. \A id \in DOMAIN e.candidates : id \in 1..e.sequence /\ Addressed(e.candidates[id])
    BY <1>1, <1>2 DEF Booked
  <2>2. \A a \in DOMAIN d.candidates : Identity(d.candidates[a]) # Identity(c)
    BY DEF Known, Candidates
  <2>3. \A a, b \in DOMAIN e.candidates :
          Identity(e.candidates[a]) = Identity(e.candidates[b]) => a = b
    BY <2>2 DEF Booked
  <2>4. \A id \in DOMAIN e.candidates : Identity(e.candidates[id]) \notin e.erased_identities
    BY DEF Booked, Known
  <2>5. DOMAIN e.introductions = {id \in DOMAIN e.candidates : e.candidates[id].kind = "introduction"}
    BY <1>2, <1>3
  <2>6. \A id \in DOMAIN e.introductions : Paired(e.candidates[id], e.introductions[id])
    BY <1>2, <1>3 DEF Booked
  <2>7. \A x \in e.charges : x.id \in DOMAIN d.candidates
    BY DEF Booked
  <2>8. ASSUME NEW id \in DOMAIN e.candidates
        PROVE  Charged(e, id)
    <3>1. CASE id \in DOMAIN d.candidates
      <4>1. Charged(d, id) /\ ChargedFor(e, id) = ChargedFor(d, id)
        BY <3>1 DEF Booked, ChargedFor
      <4> QED
        BY <3>1, <4>1 DEF Charged
    <3>2. CASE id = n
      <4>1. ChargedFor(e, id) = {}
        BY <1>2, <2>7, <3>2 DEF ChargedFor
      <4>2. ~Consumed(c)
        BY DEF Consumed
      <4> QED
        BY <3>2, <4>1, <4>2 DEF Charged
    <3> QED
      BY <3>1, <3>2
  <2>9. /\ \A x \in e.charges : x.id \in DOMAIN e.candidates
        /\ IsFiniteSet(e.charges) /\ IsFiniteSet(e.erased_charges)
    BY <2>7 DEF Booked
  <2> QED
    BY <2>1, <2>3, <2>4, <2>5, <2>6, <2>8, <2>9 DEF Booked
<1>5. FollowsBook(d, e)
  <2>1. FollowsBook(d, d)
    BY FollowsItself DEF Follows
  <2>2. \A id \in DOMAIN d.candidates : Keeps(d, e, id)
    BY <2>1 DEF FollowsBook, Keeps
  <2>3. \A id \in DOMAIN d.introductions \cap DOMAIN e.introductions : KeepsIntroduction(d, e, id)
    BY <2>1 DEF FollowsBook, KeepsIntroduction
  <2> QED
    BY <1>1, <2>2, <2>3 DEF FollowsBook
<1>6. ApprovesNothing(d, e)
  <2>1. SUFFICES ASSUME NEW id \in DOMAIN e.introductions,
                        NEW m \in DOMAIN e.introductions[id].approvals,
                        e.introductions[id].approvals[m] # 0
                 PROVE  id \in DOMAIN d.introductions
    BY DEF ApprovesNothing
  <2> QED
    BY <2>1
<1> QED
  BY <1>4, <1>5, <1>6

LEMMA ProposedFields ==
  ASSUME NEW d \in Documents, NEW c \in CandidateRecords
  PROVE  LET e == Proposed(d, c)
         IN  /\ e \in Documents /\ e.sequence = d.sequence + 1 /\ SameRules(d, e) /\ SameSight(d, e)
             /\ e.introductions = d.introductions
             /\ e.charges = d.charges /\ e.erased_charges = d.erased_charges
             /\ e.erased_identities = d.erased_identities
             /\ DOMAIN e.candidates = DOMAIN d.candidates \cup {d.sequence + 1}
             /\ \A id \in DOMAIN e.candidates :
                  e.candidates[id] = IF id = d.sequence + 1 THEN c ELSE d.candidates[id]
<1> DEFINE t == Put(d.candidates, d.sequence + 1, c)
<1>1. d.sequence + 1 \in Nat
  BY Fields
<1>2. /\ DOMAIN t = DOMAIN d.candidates \cup {d.sequence + 1}
      /\ \A id \in DOMAIN t : t[id] = IF id = d.sequence + 1 THEN c ELSE d.candidates[id]
  BY DEF Put
<1>3. t \in Tables(CandidateRecords)
  <2>1. \A id \in DOMAIN t : t[id] \in CandidateRecords
    BY <1>2, Fields
  <2>2. DOMAIN t \subseteq Nat
    BY <1>1, <1>2, Fields
  <2>3. t \in [DOMAIN t -> CandidateRecords]
    BY <2>1 DEF Put
  <2> QED
    BY <2>2, <2>3, Tabled
<1>4. Proposed(d, c) = [d EXCEPT !.sequence = d.sequence + 1, !.candidates = t]
  BY DEF Proposed
<1> HIDE DEF t
<1>5. LET e == [d EXCEPT !.sequence = d.sequence + 1, !.candidates = t]
      IN  /\ e \in Documents /\ e.sequence = d.sequence + 1 /\ SameRules(d, e) /\ SameSight(d, e)
          /\ e.introductions = d.introductions /\ e.candidates = t
          /\ e.charges = d.charges /\ e.erased_charges = d.erased_charges
          /\ e.erased_identities = d.erased_identities
  BY <1>1, <1>3 DEF Documents, SameRules, SameSight
<1> QED
  BY <1>2, <1>4, <1>5

\* A follow-up or a question
LEMMA ProposedDescends ==
  ASSUME NEW d, NEW messages, Sound(d, messages), NEW c \in CandidateRecords, Addressed(c),
         c.state = "pending", ~Known(d, c), c.kind # "introduction", c.source \in DOMAIN messages
  PROVE  Descends(d, Proposed(d, c), messages)
<1> DEFINE e == Proposed(d, c)
<1>1. d \in Documents /\ Booked(d) /\ Attributed(d, messages)
  BY DEF Sound
<1>2. /\ e \in Documents /\ e.sequence = d.sequence + 1 /\ SameRules(d, e) /\ SameSight(d, e)
      /\ e.introductions = d.introductions
      /\ e.charges = d.charges /\ e.erased_charges = d.erased_charges
      /\ e.erased_identities = d.erased_identities
      /\ DOMAIN e.candidates = DOMAIN d.candidates \cup {d.sequence + 1}
      /\ \A id \in DOMAIN e.candidates :
           e.candidates[id] = IF id = d.sequence + 1 THEN c ELSE d.candidates[id]
  BY <1>1, ProposedFields
<1> HIDE DEF e
<1>3. d.sequence \in Nat /\ d.sequence + 1 \notin DOMAIN d.candidates
  BY <1>1, Fields DEF Booked
<1>4. Booked(e) /\ FollowsBook(d, e) /\ ApprovesNothing(d, e)
  BY <1>1, <1>2, <1>3, Added
<1>5. FollowsRules(d, e)
  BY <1>1, <1>2, SameRulesFollow
<1>6. Attributed(e, messages)
  BY <1>1, <1>2, <1>3 DEF Attributed, SameSight
<1> QED
  BY <1>2, <1>4, <1>5, <1>6 DEF Descends, Sound, Follows, e

LEMMA CreatedDescends ==
  ASSUME NEW d, NEW messages, Sound(d, messages), NEW c \in CandidateRecords, Addressed(c),
         c.state = "pending", ~Known(d, c), c.kind = "introduction",
         NEW i \in IntroductionRecords, Paired(c, i), \A m \in DOMAIN i.approvals : i.approvals[m] = 0
  PROVE  Descends(d, Created(d, c, i), messages)
<1> DEFINE f == Proposed(d, c)
           t == Put(f.introductions, d.sequence + 1, i)
           e == Created(d, c, i)
<1>1. d \in Documents /\ Booked(d) /\ Attributed(d, messages)
  BY DEF Sound
<1>2. /\ f \in Documents /\ f.sequence = d.sequence + 1 /\ SameRules(d, f) /\ SameSight(d, f)
      /\ f.introductions = d.introductions
      /\ f.charges = d.charges /\ f.erased_charges = d.erased_charges
      /\ f.erased_identities = d.erased_identities
      /\ DOMAIN f.candidates = DOMAIN d.candidates \cup {d.sequence + 1}
      /\ \A id \in DOMAIN f.candidates :
           f.candidates[id] = IF id = d.sequence + 1 THEN c ELSE d.candidates[id]
  BY <1>1, ProposedFields
<1>3. e = [f EXCEPT !.introductions = t]
  BY DEF Created
<1> HIDE DEF e, f
<1>4. d.sequence \in Nat /\ d.sequence + 1 \notin DOMAIN d.candidates
  BY <1>1, Fields DEF Booked
<1>5. DOMAIN d.introductions \subseteq DOMAIN d.candidates
  BY <1>1 DEF Booked
<1>6. /\ DOMAIN t = DOMAIN d.introductions \cup {d.sequence + 1} /\ t[d.sequence + 1] = i
      /\ \A id \in DOMAIN d.introductions : t[id] = d.introductions[id]
  BY <1>2, <1>4, <1>5 DEF Put
<1>7. t \in Tables(IntroductionRecords)
  <2>1. \A id \in DOMAIN t : t[id] \in IntroductionRecords
    BY <1>1, <1>6, Fields
  <2>2. DOMAIN t \subseteq Nat
    BY <1>1, <1>4, <1>6, Fields
  <2>3. t \in [DOMAIN t -> IntroductionRecords]
    BY <2>1 DEF Put
  <2> QED
    BY <2>2, <2>3, Tabled
<1> HIDE DEF t
<1>8. /\ e \in Documents /\ e.introductions = t /\ e.candidates = f.candidates
      /\ e.sequence = f.sequence /\ e.charges = f.charges /\ e.erased_charges = f.erased_charges
      /\ e.erased_identities = f.erased_identities /\ SameRules(f, e) /\ SameSight(f, e)
  BY <1>2, <1>3, <1>7 DEF Documents, SameRules, SameSight
<1>9. Booked(e) /\ FollowsBook(d, e) /\ ApprovesNothing(d, e)
  BY <1>1, <1>2, <1>4, <1>6, <1>8, Added
<1>10. SameRules(d, e) /\ SameSight(d, e)
  BY <1>2, <1>8 DEF SameRules, SameSight
<1>11. FollowsRules(d, e)
  BY <1>1, <1>10, SameRulesFollow
<1>12. c.source = None
  BY DEF Addressed
<1>13. Attributed(e, messages)
  BY <1>1, <1>2, <1>4, <1>8, <1>10, <1>12 DEF Attributed, SameSight
<1> QED
  BY <1>8, <1>9, <1>11, <1>13 DEF Descends, Sound, Follows, e

\* One entry that changes with its introduction.
LEMMA OneChanged ==
  ASSUME NEW d \in Documents, NEW id \in DOMAIN d.candidates, NEW c \in CandidateRecords
  PROVE  LET e == [d EXCEPT !.candidates[id] = c]
         IN  /\ e \in Documents /\ SameEntries(d, e) /\ SameRules(d, e) /\ SameSight(d, e)
             /\ e.introductions = d.introductions
             /\ \A a \in DOMAIN d.candidates :
                  e.candidates[a] = IF a = id THEN c ELSE d.candidates[a]
<1> DEFINE t == [d.candidates EXCEPT ![id] = c]
<1>1. DOMAIN t = DOMAIN d.candidates
      /\ \A a \in DOMAIN d.candidates : t[a] = IF a = id THEN c ELSE d.candidates[a]
  BY Fields
<1>2. t \in Tables(CandidateRecords)
  <2>1. t \in [DOMAIN d.candidates -> CandidateRecords]
    BY Fields
  <2> QED
    BY <1>1, <2>1, Fields, Tabled
<1>3. [d EXCEPT !.candidates[id] = c] = [d EXCEPT !.candidates = t]
  BY DEF Documents
<1> HIDE DEF t
<1>4. LET e == [d EXCEPT !.candidates = t]
      IN  /\ e \in Documents /\ SameEntries(d, e) /\ SameRules(d, e) /\ SameSight(d, e)
          /\ e.introductions = d.introductions /\ e.candidates = t
  BY <1>1, <1>2 DEF Documents, SameEntries, SameRules, SameSight
<1> QED
  BY <1>1, <1>3, <1>4

LEMMA OneIntroductionChanged ==
  ASSUME NEW d \in Documents, NEW id \in DOMAIN d.introductions, NEW i \in IntroductionRecords
  PROVE  LET e == [d EXCEPT !.introductions[id] = i]
         IN  /\ e \in Documents /\ SameEntries(d, e) /\ SameRules(d, e) /\ SameSight(d, e)
             /\ e.candidates = d.candidates
             /\ \A a \in DOMAIN d.introductions :
                  e.introductions[a] = IF a = id THEN i ELSE d.introductions[a]
<1> DEFINE t == [d.introductions EXCEPT ![id] = i]
<1>1. DOMAIN t = DOMAIN d.introductions
      /\ \A a \in DOMAIN d.introductions : t[a] = IF a = id THEN i ELSE d.introductions[a]
  BY Fields
<1>2. t \in Tables(IntroductionRecords)
  <2>1. t \in [DOMAIN d.introductions -> IntroductionRecords]
    BY Fields
  <2> QED
    BY <1>1, <2>1, Fields, Tabled
<1>3. [d EXCEPT !.introductions[id] = i] = [d EXCEPT !.introductions = t]
  BY DEF Documents
<1> HIDE DEF t
<1>4. LET e == [d EXCEPT !.introductions = t]
      IN  /\ e \in Documents /\ SameEntries(d, e) /\ SameRules(d, e) /\ SameSight(d, e)
          /\ e.candidates = d.candidates /\ e.introductions = t
  BY <1>1, <1>2 DEF Documents, SameEntries, SameRules, SameSight
<1> QED
  BY <1>1, <1>3, <1>4

LEMMA EditedDescends ==
  ASSUME NEW d, NEW messages, Sound(d, messages), NEW id \in DOMAIN d.introductions,
         d.candidates[id].state = "pending", NEW m \in DOMAIN d.introductions[id].words,
         NEW channel \in Channels, NEW word \in Nat
  PROVE  Descends(d, Edited(d, id, m, channel, word), messages)
<1> DEFINE i == d.introductions[id]
           words == [i.words EXCEPT ![m] = word]
           none == [x \in DOMAIN i.approvals |-> 0]
           j == [revision |-> i.revision + 1, channel |-> channel, words |-> words,
                 approvals |-> none, state |-> "pending"]
           c == d.candidates[id]
           b == [c EXCEPT !.revision = i.revision + 1, !.channel = channel,
                          !.policy_revision = d.guild.revision]
           f == [d EXCEPT !.introductions[id] = j]
           e == Edited(d, id, m, channel, word)
<1>1. d \in Documents /\ Booked(d) /\ Attributed(d, messages)
  BY DEF Sound
<1>2. id \in DOMAIN d.candidates /\ Paired(c, i)
  BY <1>1 DEF Booked
<1>3. i \in IntroductionRecords /\ c \in CandidateRecords /\ d.guild.revision \in Nat
  BY <1>1, <1>2, Fields
<1>4. i.words \in Wordings /\ i.approvals \in Wordings /\ i.revision \in Nat
  BY <1>3 DEF IntroductionRecords
<1>5. words \in Wordings /\ none \in Wordings
  BY <1>4, Worded
<1>6. DOMAIN words = DOMAIN i.words /\ DOMAIN none = DOMAIN i.approvals
  OBVIOUS
<1>7. \A x \in DOMAIN none : none[x] = 0
  OBVIOUS
<1>8. j \in IntroductionRecords
  BY <1>4, <1>5 DEF IntroductionRecords
<1>9. /\ b \in CandidateRecords /\ Identity(b) = Identity(c) /\ b.who = c.who /\ b.state = "pending"
      /\ b.revision = i.revision + 1 /\ b.channel = channel
  <2>1. i.revision + 1 \in Nat
    BY <1>4
  <2>2. c.state = "pending"
    OBVIOUS
  <2>3. i.revision + 1 = j.revision
    OBVIOUS
  <2> DEFINE r == i.revision + 1  p == d.guild.revision
  <2>4. c \in CandidateRecords /\ r \in Nat /\ channel \in Channels /\ p \in Nat
    BY <1>3, <2>1
  <2> HIDE DEF c, r, p
  <2>5. LET x == [c EXCEPT !.revision = r, !.channel = channel, !.policy_revision = p]
        IN  /\ x \in CandidateRecords /\ Identity(x) = Identity(c) /\ x.who = c.who
            /\ x.state = c.state /\ x.revision = r /\ x.channel = channel
    BY ONLY <2>4 DEF CandidateRecords, Identity
  <2> QED
    BY <2>2, <2>5 DEF r, p
<1>10. /\ j.revision = i.revision + 1 /\ j.channel = channel /\ j.words = words
       /\ j.approvals = none /\ j.state = "pending"
  OBVIOUS
<1>11. e = [f EXCEPT !.candidates[id] = b]
  <2>1. e = [d EXCEPT !.introductions[id] = j, !.candidates[id] = b]
    BY DEF Edited
  <2> HIDE DEF j, b, e
  <2> QED
    BY <1>1, <2>1 DEF Documents
<1>12. /\ f \in Documents /\ SameEntries(d, f) /\ SameRules(d, f) /\ SameSight(d, f)
       /\ f.candidates = d.candidates
       /\ \A a \in DOMAIN d.introductions :
            f.introductions[a] = IF a = id THEN j ELSE d.introductions[a]
  BY <1>1, <1>8, OneIntroductionChanged
<1> HIDE DEF f, j, b, e
<1>13. /\ e \in Documents /\ SameEntries(f, e) /\ SameRules(f, e) /\ SameSight(f, e)
       /\ e.introductions = f.introductions
       /\ \A a \in DOMAIN d.candidates :
            e.candidates[a] = IF a = id THEN b ELSE d.candidates[a]
  BY <1>2, <1>9, <1>11, <1>12, OneChanged
<1>14. SameEntries(d, e) /\ SameRules(d, e) /\ SameSight(d, e)
  BY <1>12, <1>13 DEF SameEntries, SameRules, SameSight
<1>15. c.revision \in Nat /\ c.revision = i.revision
  BY <1>2, <1>3 DEF CandidateRecords, Paired
<1>16. ASSUME NEW a \in DOMAIN d.candidates
       PROVE  Restates(d.candidates[a], e.candidates[a])
              /\ (Consumed(e.candidates[a]) => Consumed(d.candidates[a]))
  <2>1. d.candidates[a].revision \in Nat
    BY <1>1, Fields DEF CandidateRecords
  <2> QED
    BY <1>9, <1>13, <1>15, <2>1 DEF Restates, Consumed, Open
<1>17. ASSUME NEW a \in DOMAIN d.introductions
       PROVE  Paired(e.candidates[a], e.introductions[a]) /\ KeepsIntroduction(d, e, a)
  <2>1. CASE a = id
    <3>1. e.introductions[a] = j /\ e.candidates[a] = b
      BY <1>2, <1>12, <1>13, <2>1
    <3>2. Paired(b, j)
      BY <1>2, <1>4, <1>6, <1>7, <1>9, <1>10 DEF Paired
    <3> QED
      BY <1>4, <1>10, <2>1, <3>1, <3>2 DEF KeepsIntroduction
  <2>2. CASE a # id
    <3>1. a \in DOMAIN d.candidates /\ Paired(d.candidates[a], d.introductions[a])
      BY <1>1 DEF Booked
    <3>2. e.introductions[a] = d.introductions[a] /\ e.candidates[a] = d.candidates[a]
      BY <1>12, <1>13, <2>2, <3>1
    <3>3. d.introductions[a].revision \in Nat
      BY <1>1, Fields DEF IntroductionRecords
    <3> QED
      BY <3>1, <3>2, <3>3 DEF KeepsIntroduction
  <2> QED
    BY <2>1, <2>2
<1>18. Booked(e) /\ FollowsBook(d, e)
  BY <1>1, <1>13, <1>14, <1>16, <1>17, Restated
<1>19. Attributed(e, messages)
  BY <1>1, <1>14, <1>16, StaysAttributed DEF SameEntries, Restates
<1>20. FollowsRules(d, e)
  BY <1>1, <1>14, SameRulesFollow
<1>21. ApprovesNothing(d, e)
  BY <1>6, <1>7, <1>10, <1>12, <1>13, <1>14 DEF ApprovesNothing, SameEntries
<1> QED
  BY <1>13, <1>18, <1>19, <1>20, <1>21 DEF Descends, Sound, Follows, e

\* An approval is of the words and the channel as they are.
LEMMA ApprovedDescends ==
  ASSUME NEW d, NEW messages, Sound(d, messages), NEW id \in DOMAIN d.introductions,
         d.introductions[id].state \in {"pending", "ready"}, d.candidates[id].state = "pending",
         NEW m \in DOMAIN d.introductions[id].words, d.introductions[id].words[m] # None
  PROVE  LET e == Approved(d, id, m)
         IN  /\ Sound(e, messages) /\ Follows(d, e) /\ DOMAIN e.introductions = DOMAIN d.introductions
             /\ \A a \in DOMAIN d.introductions :
                  /\ e.introductions[a].words = d.introductions[a].words
                  /\ e.introductions[a].channel = d.introductions[a].channel
                  /\ e.introductions[a].revision = d.introductions[a].revision
                  /\ DOMAIN e.introductions[a].approvals = DOMAIN d.introductions[a].approvals
                  /\ \A x \in DOMAIN d.introductions[a].approvals :
                       (a = id /\ x = m)
                       \/ e.introductions[a].approvals[x] = d.introductions[a].approvals[x]
<1> DEFINE i == d.introductions[id]
           approvals == [i.approvals EXCEPT ![m] = i.revision]
           state == IF \A x \in DOMAIN approvals : approvals[x] = i.revision THEN "ready" ELSE i.state
           j == [i EXCEPT !.approvals = approvals, !.state = state]
           c == d.candidates[id]
           e == Approved(d, id, m)
<1>1. d \in Documents /\ Booked(d) /\ Attributed(d, messages)
  BY DEF Sound
<1>2. id \in DOMAIN d.candidates /\ Paired(c, i)
  BY <1>1 DEF Booked
<1>3. i \in IntroductionRecords
  BY <1>1, Fields
<1>4. i.words \in Wordings /\ i.approvals \in Wordings /\ i.revision \in Nat
      /\ m \in DOMAIN i.approvals
  BY <1>2, <1>3 DEF IntroductionRecords, Paired
<1>5. /\ DOMAIN approvals = DOMAIN i.approvals /\ approvals[m] = i.revision
      /\ \A x \in DOMAIN i.approvals \ {m} : approvals[x] = i.approvals[x]
  BY <1>4
<1>6. approvals \in Wordings
  BY <1>4, Worded
<1>7. state \in {"pending", "ready"}
  OBVIOUS
<1>8. state = "ready" => \A x \in DOMAIN approvals : approvals[x] = i.revision
  <2>1. CASE i.state = "ready"
    <3>1. \A x \in DOMAIN i.approvals : i.approvals[x] = i.revision
      BY <1>2, <2>1 DEF Paired
    <3> QED
      BY <1>5, <3>1
  <2>2. CASE i.state = "pending"
    BY <2>2
  <2> QED
    BY <2>1, <2>2
<1>9. e = [d EXCEPT !.introductions[id] = j]
  BY DEF Approved
<1> HIDE DEF approvals, state
<1>10. /\ j \in IntroductionRecords /\ j.revision = i.revision /\ j.channel = i.channel
       /\ j.words = i.words /\ j.approvals = approvals /\ j.state = state
  BY <1>3, <1>6, <1>7 DEF IntroductionRecords
<1> HIDE DEF j, e
<1>11. /\ e \in Documents /\ SameEntries(d, e) /\ SameRules(d, e) /\ SameSight(d, e)
       /\ e.candidates = d.candidates
       /\ \A a \in DOMAIN d.introductions :
            e.introductions[a] = IF a = id THEN j ELSE d.introductions[a]
  BY <1>1, <1>9, <1>10, OneIntroductionChanged
<1>12. ASSUME NEW a \in DOMAIN d.candidates
       PROVE  Restates(d.candidates[a], e.candidates[a])
              /\ (Consumed(e.candidates[a]) => Consumed(d.candidates[a]))
  <2>1. d.candidates[a].revision \in Nat
    BY <1>1, Fields DEF CandidateRecords
  <2> QED
    BY <1>11, <2>1 DEF Restates
<1>13. Paired(c, j)
  BY <1>2, <1>4, <1>5, <1>7, <1>8, <1>10 DEF Paired
<1>14. ASSUME NEW a \in DOMAIN d.introductions
       PROVE  Paired(e.candidates[a], e.introductions[a]) /\ KeepsIntroduction(d, e, a)
  <2>1. /\ Paired(d.candidates[a], d.introductions[a])
        /\ d.introductions[a].revision \in Nat
    BY <1>1, Fields DEF Booked, IntroductionRecords
  <2> QED
    BY <1>10, <1>11, <1>13, <2>1 DEF KeepsIntroduction
<1>15. Booked(e) /\ FollowsBook(d, e)
  BY <1>1, <1>11, <1>12, <1>14, Restated
<1>16. Attributed(e, messages)
  BY <1>1, <1>11, <1>12, StaysAttributed DEF SameEntries, Restates
<1>17. FollowsRules(d, e)
  BY <1>1, <1>11, SameRulesFollow
<1>18. \A a \in DOMAIN d.introductions :
         /\ e.introductions[a].words = d.introductions[a].words
         /\ e.introductions[a].channel = d.introductions[a].channel
         /\ e.introductions[a].revision = d.introductions[a].revision
         /\ DOMAIN e.introductions[a].approvals = DOMAIN d.introductions[a].approvals
         /\ \A x \in DOMAIN d.introductions[a].approvals :
              (a = id /\ x = m)
              \/ e.introductions[a].approvals[x] = d.introductions[a].approvals[x]
  BY <1>5, <1>10, <1>11
<1> QED
  BY <1>11, <1>15, <1>16, <1>17, <1>18 DEF Sound, Follows, SameEntries, e

\* A candidate is settled once it is no longer pending; what was sent, or may have been, was charged.
LEMMA SettledDescends ==
  ASSUME NEW d, NEW messages, Sound(d, messages), NEW id \in DOMAIN d.candidates,
         NEW outcome \in {"rejected", "sent", "review_required"},
         outcome # "rejected" =>
           /\ d.candidates[id].state \in {"reserved", "cancelled"}
           /\ \A m \in d.candidates[id].who : \E x \in ChargedFor(d, id) : x.member = m
  PROVE  Descends(d, Settled(d, id, outcome), messages)
<1> DEFINE f == IF outcome = "rejected" THEN CancelledIntroductions(d, {id}) ELSE d
           c == d.candidates[id]
           b == [c EXCEPT !.state = outcome]
           e == Settled(d, id, outcome)
<1>1. d \in Documents /\ Booked(d) /\ Attributed(d, messages)
  BY DEF Sound
<1>2. /\ f \in Documents /\ SameEntries(d, f) /\ SameRules(d, f) /\ SameSight(d, f)
      /\ f.candidates = d.candidates
      /\ \A a \in DOMAIN d.introductions :
           f.introductions[a] = IF outcome = "rejected" /\ a = id THEN Closed(d.introductions[a])
                                ELSE d.introductions[a]
  <2>1. CASE outcome = "rejected"
    BY <1>1, <2>1, CancelledIntroductionsFields
  <2>2. CASE outcome # "rejected"
    BY <1>1, <2>2 DEF SameEntries, SameRules, SameSight
  <2> QED
    BY <2>1, <2>2
<1>3. c \in CandidateRecords
  BY <1>1, Fields
<1>4. /\ b \in CandidateRecords /\ Identity(b) = Identity(c) /\ b.who = c.who /\ b.state = outcome
      /\ b.revision = c.revision /\ b.channel = c.channel
  BY ONLY <1>3, outcome \in {"rejected", "sent", "review_required"} DEF CandidateRecords, Identity
<1>5. e = [f EXCEPT !.candidates[id] = [f.candidates[id] EXCEPT !.state = outcome]]
  BY DEF Settled
<1>6. e = [f EXCEPT !.candidates[id] = b]
  BY <1>2, <1>5
<1> HIDE DEF e, f, b
<1>7. /\ e \in Documents /\ SameEntries(f, e) /\ SameRules(f, e) /\ SameSight(f, e)
      /\ e.introductions = f.introductions
      /\ \A a \in DOMAIN d.candidates :
           e.candidates[a] = IF a = id THEN b ELSE d.candidates[a]
  BY <1>2, <1>4, <1>6, OneChanged
<1>8. SameEntries(d, e) /\ SameRules(d, e) /\ SameSight(d, e)
  BY <1>2, <1>7 DEF SameEntries, SameRules, SameSight
<1>9. ASSUME NEW a \in DOMAIN d.candidates
      PROVE  /\ Restates(d.candidates[a], e.candidates[a])
             /\ Consumed(e.candidates[a]) =>
                  \/ Consumed(d.candidates[a])
                  \/ \A m \in d.candidates[a].who : \E x \in ChargedFor(d, a) : x.member = m
  <2>1. d.candidates[a].revision \in Nat
    BY <1>1, Fields DEF CandidateRecords
  <2>2. CASE a = id
    BY <1>4, <1>7, <2>1, <2>2 DEF Restates, Consumed, Open
  <2>3. CASE a # id
    BY <1>7, <2>1, <2>3 DEF Restates
  <2> QED
    BY <2>2, <2>3
<1>10. ASSUME NEW a \in DOMAIN d.introductions
       PROVE  Paired(e.candidates[a], e.introductions[a]) /\ KeepsIntroduction(d, e, a)
  <2> DEFINE i == d.introductions[a]
  <2>1. /\ a \in DOMAIN d.candidates /\ Paired(d.candidates[a], i)
        /\ i \in IntroductionRecords /\ i.revision \in Nat
    BY <1>1, Fields DEF Booked, IntroductionRecords
  <2>2. CASE a # id
    <3>1. e.introductions[a] = i /\ e.candidates[a] = d.candidates[a]
      BY <1>2, <1>7, <2>1, <2>2
    <3> QED
      BY <2>1, <3>1 DEF KeepsIntroduction
  <2>3. CASE a = id /\ outcome = "rejected"
    <3>1. e.introductions[a] = Closed(i) /\ e.candidates[a] = b
      BY <1>2, <1>7, <2>1, <2>3
    <3>2. /\ Closed(i).state = "cancelled"
          /\ Closed(i).revision = i.revision /\ Closed(i).channel = i.channel
          /\ Closed(i).words = i.words /\ DOMAIN Closed(i).approvals = DOMAIN i.approvals
          /\ \A m \in DOMAIN i.approvals : Closed(i).approvals[m] = 0
      BY <2>1, ClosedFields
    <3>3. Paired(b, Closed(i))
      BY <1>4, <2>1, <2>3, <3>2 DEF Paired
    <3> QED
      BY <2>1, <3>1, <3>2, <3>3 DEF KeepsIntroduction
  <2>4. CASE a = id /\ outcome # "rejected"
    <3>1. e.introductions[a] = i /\ e.candidates[a] = b
      BY <1>2, <1>7, <2>1, <2>4
    <3>2. Paired(b, i)
      BY <1>4, <2>1, <2>4 DEF Paired, Consumed
    <3> QED
      BY <2>1, <3>1, <3>2 DEF KeepsIntroduction
  <2> QED
    BY <2>2, <2>3, <2>4
<1>11. Booked(e) /\ FollowsBook(d, e)
  BY <1>1, <1>7, <1>8, <1>9, <1>10, Restated
<1>12. Attributed(e, messages)
  BY <1>1, <1>8, <1>9, StaysAttributed DEF SameEntries, Restates
<1>13. FollowsRules(d, e)
  BY <1>1, <1>8, SameRulesFollow
<1>14. ApprovesNothing(d, e)
  <2>1. SUFFICES ASSUME NEW a \in DOMAIN d.introductions, NEW m \in DOMAIN e.introductions[a].approvals,
                        e.introductions[a].approvals[m] # 0
                 PROVE  e.introductions[a] = d.introductions[a]
    BY <1>8 DEF ApprovesNothing, SameEntries
  <2>2. d.introductions[a] \in IntroductionRecords
    BY <1>1, Fields
  <2>3. e.introductions[a] # Closed(d.introductions[a])
    BY <2>1, <2>2, ClosedFields
  <2> QED
    BY <1>2, <1>7, <2>3
<1> QED
  BY <1>7, <1>11, <1>12, <1>13, <1>14 DEF Descends, Sound, Follows, e

\* At a start, what was reserved is put on record as possibly sent.
LEMMA RecoveredDescends ==
  ASSUME NEW d, NEW messages, Sound(d, messages)
  PROVE  LET e == Recovered(d)
         IN  /\ Descends(d, e, messages) /\ e.introductions = d.introductions
             /\ SameEntries(d, e) /\ SameRules(d, e) /\ SameSight(d, e)
             /\ \A id \in DOMAIN d.candidates : Identity(e.candidates[id]) = Identity(d.candidates[id])
<1> DEFINE t == [id \in DOMAIN d.candidates |->
                   IF d.candidates[id].state = "reserved"
                     THEN [d.candidates[id] EXCEPT !.state = "review_required"]
                     ELSE d.candidates[id]]
           e == Recovered(d)
<1>1. d \in Documents /\ Booked(d) /\ Attributed(d, messages)
  BY DEF Sound
<1>2. \A id \in DOMAIN d.candidates : d.candidates[id] \in CandidateRecords
  BY <1>1, Fields
<1>3. ASSUME NEW id \in DOMAIN d.candidates
      PROVE  /\ t[id] \in CandidateRecords /\ Identity(t[id]) = Identity(d.candidates[id])
             /\ t[id].revision = d.candidates[id].revision
             /\ t[id].channel = d.candidates[id].channel /\ t[id].who = d.candidates[id].who
             /\ t[id].state = IF d.candidates[id].state = "reserved" THEN "review_required"
                              ELSE d.candidates[id].state
  <2> DEFINE c == d.candidates[id]
  <2>1. c \in CandidateRecords
    BY <1>2
  <2>2. LET b == [c EXCEPT !.state = "review_required"]
        IN  /\ b \in CandidateRecords /\ Identity(b) = Identity(c) /\ b.revision = c.revision
            /\ b.channel = c.channel /\ b.who = c.who /\ b.state = "review_required"
    BY ONLY <2>1 DEF CandidateRecords, Identity
  <2>3. t[id] = IF c.state = "reserved" THEN [c EXCEPT !.state = "review_required"] ELSE c
    OBVIOUS
  <2> HIDE DEF t, c
  <2> QED
    BY <2>1, <2>2, <2>3 DEF c
<1>4. DOMAIN t = DOMAIN d.candidates
  OBVIOUS
<1>5. t \in Tables(CandidateRecords)
  <2>1. \A id \in DOMAIN t : t[id] \in CandidateRecords
    BY <1>3
  <2>2. DOMAIN t \subseteq Nat
    BY <1>1, Fields
  <2> QED
    BY <2>1, <2>2, Tabled
<1>6. e = [d EXCEPT !.candidates = t]
  BY DEF Recovered
<1> HIDE DEF t, e
<1>7. /\ e \in Documents /\ e.candidates = t /\ e.introductions = d.introductions
      /\ SameEntries(d, e) /\ SameRules(d, e) /\ SameSight(d, e)
  BY <1>1, <1>4, <1>5, <1>6 DEF Documents, SameEntries, SameRules, SameSight
<1>8. ASSUME NEW a \in DOMAIN d.candidates
      PROVE  Restates(d.candidates[a], e.candidates[a])
             /\ (Consumed(e.candidates[a]) => Consumed(d.candidates[a]))
  <2>1. d.candidates[a].revision \in Nat
    BY <1>2 DEF CandidateRecords
  <2> QED
    BY <1>3, <1>7, <2>1 DEF Restates, Consumed, Open
<1>9. ASSUME NEW a \in DOMAIN d.introductions
      PROVE  Paired(e.candidates[a], e.introductions[a]) /\ KeepsIntroduction(d, e, a)
  <2>1. /\ a \in DOMAIN d.candidates /\ Paired(d.candidates[a], d.introductions[a])
        /\ d.introductions[a].revision \in Nat
        /\ d.introductions[a].state \in {"pending", "ready", "consumed", "cancelled"}
    BY <1>1, Fields DEF Booked, IntroductionRecords
  <2>2. Paired(e.candidates[a], d.introductions[a])
    BY <1>3, <1>7, <2>1 DEF Paired, Consumed
  <2> QED
    BY <1>7, <2>1, <2>2 DEF KeepsIntroduction
<1>10. Booked(e) /\ FollowsBook(d, e)
  BY <1>1, <1>7, <1>8, <1>9, Restated
<1>11. Attributed(e, messages)
  BY <1>1, <1>7, <1>8, StaysAttributed DEF SameEntries, Restates
<1>12. FollowsRules(d, e)
  BY <1>1, <1>7, SameRulesFollow
<1>13. ApprovesNothing(d, e)
  BY <1>7 DEF ApprovesNothing
<1>14. \A id \in DOMAIN d.candidates : Identity(e.candidates[id]) = Identity(d.candidates[id])
  BY <1>8 DEF Restates
<1> QED
  BY <1>7, <1>10, <1>11, <1>12, <1>13, <1>14 DEF Descends, Sound, Follows, e

LEMMA DaysAreNumbers ==
  ASSUME NEW terms \in Terms, NEW t \in Nat
  PROVE  LocalDay(terms, t) \in Nat
<1>1. terms.offset \in Nat /\ Day \in Nat \ {0}
  BY EngagementAssumption
<1>2. t + terms.offset \in Nat
  BY <1>1
<1> QED
  BY <1>1, <1>2 DEF LocalDay

\* A reservation charges everyone the contact is for, and consumes the introduction.
LEMMA ReservedDescends ==
  ASSUME NEW messages, now \in Nat, NEW d, Sound(d, messages), NEW id \in DOMAIN d.candidates,
         d.candidates[id].state = "pending",
         id \in DOMAIN d.introductions => d.introductions[id].state = "ready"
  PROVE  LET e == Reserved(d, id)
         IN  /\ Descends(d, e, messages)
             /\ id \in DOMAIN e.candidates /\ SameRules(d, e)
             /\ Identity(e.candidates[id]) = Identity(d.candidates[id])
             /\ e.candidates[id].state = "reserved"
             /\ e.candidates[id].revision = d.candidates[id].revision
             /\ \A m \in d.candidates[id].who :
                  \E x \in e.charges : x.id = id /\ x.member = m /\ x.at = now
             /\ DOMAIN e.introductions = DOMAIN d.introductions
             /\ id \in DOMAIN d.introductions => e.introductions[id] = Snapshot(d, id)
<1> DEFINE c == d.candidates[id]
           row(m) == [id |-> id, member |-> m, at |-> now, day |-> LocalDay(d.policies[m].terms, now)]
           rows == {row(m) : m \in c.who}
           b == [c EXCEPT !.state = "reserved"]
           t == [a \in DOMAIN d.introductions |->
                   IF a = id THEN Snapshot(d, id) ELSE d.introductions[a]]
           e == Reserved(d, id)
<1>1. d \in Documents /\ Booked(d) /\ Attributed(d, messages)
  BY DEF Sound
<1>2. c \in CandidateRecords /\ id \in Nat /\ c.who \subseteq Members /\ c.revision \in Nat
  BY <1>1, Fields DEF CandidateRecords
<1>3. /\ b \in CandidateRecords /\ Identity(b) = Identity(c) /\ b.who = c.who /\ b.kind = c.kind
      /\ b.source = c.source /\ b.state = "reserved" /\ b.revision = c.revision
      /\ b.channel = c.channel
  BY ONLY <1>2 DEF CandidateRecords, Identity
<1>4. \A m \in c.who : row(m) \in Charges
  <2>1. SUFFICES ASSUME NEW m \in c.who PROVE row(m) \in Charges
    OBVIOUS
  <2>2. m \in Members /\ d.policies[m].terms \in Terms
    BY <1>1, <1>2, Fields DEF Policies
  <2>3. LocalDay(d.policies[m].terms, now) \in Nat
    BY <2>2, DaysAreNumbers
  <2> QED
    BY <1>2, <2>2, <2>3 DEF Charges
<1>5. Addressed(c)
  BY <1>1 DEF Booked
<1>6. IsFiniteSet(rows)
  <2>1. CASE c.kind = "question"
    <3>1. rows = {}
      BY <1>5, <2>1 DEF Addressed
    <3> QED
      BY <3>1, FS_EmptySet
  <2>2. CASE c.kind = "follow_up"
    <3>1. PICK m \in Members : c.who = {m}
      BY <1>5, <2>2 DEF Addressed
    <3>2. rows = {row(m)}
      BY <3>1
    <3> QED
      BY <3>2, FS_Singleton
  <2>3. CASE c.kind = "introduction"
    <3>1. PICK m, n \in Members : c.who = {m, n}
      BY <1>5, <2>3, EngagementAssumption DEF Addressed
    <3>2. rows = {row(m)} \cup {row(n)}
      BY <3>1
    <3> HIDE DEF rows, row
    <3> QED
      BY <3>2, FS_Singleton, FS_AddElement
  <2> QED
    BY <1>2, <2>1, <2>2, <2>3 DEF CandidateRecords, Kinds
<1>7. /\ DOMAIN t = DOMAIN d.introductions
      /\ \A a \in DOMAIN d.introductions \ {id} : t[a] = d.introductions[a]
      /\ id \in DOMAIN d.introductions =>
           t[id] = Snapshot(d, id) /\ Snapshot(d, id) = [d.introductions[id] EXCEPT !.state = "consumed"]
  BY DEF Snapshot
<1>8. id \in DOMAIN d.introductions =>
        /\ t[id] \in IntroductionRecords /\ t[id].state = "consumed"
        /\ t[id].revision = d.introductions[id].revision
        /\ t[id].channel = d.introductions[id].channel
        /\ t[id].words = d.introductions[id].words
        /\ t[id].approvals = d.introductions[id].approvals
  <2>1. SUFFICES ASSUME id \in DOMAIN d.introductions
                 PROVE  LET i == d.introductions[id]  j == [i EXCEPT !.state = "consumed"]
                        IN  /\ j \in IntroductionRecords /\ j.state = "consumed"
                            /\ j.revision = i.revision /\ j.channel = i.channel
                            /\ j.words = i.words /\ j.approvals = i.approvals
    BY <1>7
  <2>2. d.introductions[id] \in IntroductionRecords
    BY <1>1, <2>1, Fields
  <2> QED
    BY ONLY <2>2 DEF IntroductionRecords
<1>9. t \in Tables(IntroductionRecords)
  <2>1. \A a \in DOMAIN t : t[a] \in IntroductionRecords
    BY <1>1, <1>7, <1>8, Fields
  <2>2. DOMAIN t \subseteq Nat
    BY <1>1, Fields
  <2> QED
    BY <2>1, <2>2, Tabled
<1> DEFINE f == [d EXCEPT !.introductions = t, !.charges = @ \cup rows]
<1>10. e = [f EXCEPT !.candidates[id] = b]
  <2>1. e = [d EXCEPT !.candidates[id] = b, !.introductions = t, !.charges = @ \cup rows]
    BY DEF Reserved
  <2> HIDE DEF e, b, t, rows
  <2> QED
    BY <1>1, <2>1 DEF Documents
<1>11. rows \subseteq Charges
  BY <1>4
<1> HIDE DEF rows, t, b, e
<1>12. /\ f \in Documents /\ f.sequence = d.sequence /\ f.candidates = d.candidates
       /\ f.introductions = t /\ f.charges = d.charges \cup rows
       /\ f.erased_charges = d.erased_charges /\ f.erased_identities = d.erased_identities
       /\ SameRules(d, f) /\ SameSight(d, f)
  BY <1>1, <1>9, <1>11, Fields DEF Documents, SameRules, SameSight
<1> HIDE DEF f
<1>13. /\ e \in Documents /\ e.sequence = d.sequence
       /\ DOMAIN e.candidates = DOMAIN d.candidates
       /\ e.introductions = t /\ e.charges = d.charges \cup rows
       /\ e.erased_charges = d.erased_charges /\ e.erased_identities = d.erased_identities
       /\ SameRules(d, e) /\ SameSight(d, e)
       /\ \A a \in DOMAIN d.candidates :
            e.candidates[a] = IF a = id THEN b ELSE d.candidates[a]
  BY <1>3, <1>10, <1>12, OneChanged DEF SameEntries, SameRules, SameSight
<1>14. \A a \in DOMAIN d.candidates :
         /\ Identity(e.candidates[a]) = Identity(d.candidates[a])
         /\ e.candidates[a].who = d.candidates[a].who /\ e.candidates[a].kind = d.candidates[a].kind
         /\ e.candidates[a].source = d.candidates[a].source
  BY <1>3, <1>13
<1>15. \A x \in rows : x.id = id /\ x.member \in c.who /\ x.at = now
  BY DEF rows
<1>16. \A m \in c.who : row(m) \in rows /\ row(m).id = id /\ row(m).member = m /\ row(m).at = now
  BY DEF rows
<1>17. ASSUME NEW a \in DOMAIN d.candidates
       PROVE  Charged(e, a)
  <2>1. Charged(d, a)
    BY <1>1 DEF Booked
  <2>2. CASE a # id
    <3>1. ChargedFor(e, a) = ChargedFor(d, a)
      BY <1>13, <1>15, <2>2 DEF ChargedFor
    <3> QED
      BY <1>13, <2>1, <2>2, <3>1 DEF Charged
  <2>3. CASE a = id
    <3>1. ChargedFor(d, id) = {}
      BY <2>1, <2>3 DEF Charged
    <3>2. ChargedFor(e, id) = rows
      BY <1>13, <1>15, <3>1 DEF ChargedFor
    <3>3. e.candidates[id] = b /\ b.who = c.who /\ b.state = "reserved"
      BY <1>3, <1>13
    <3> DEFINE g == [m \in c.who |-> row(m)]
    <3>4. /\ g \in [c.who -> Charges] /\ rows = {g[m] : m \in c.who}
          /\ \A m \in c.who : g[m].member = m /\ g[m].at = now
      BY <1>4 DEF rows
    <3> HIDE DEF g, row
    <3>5. \A m \in c.who : \E x \in rows : x.member = m
      BY <1>16
    <3> QED
      BY <2>3, <3>2, <3>3, <3>4, <3>5 DEF Charged
  <2> QED
    BY <2>2, <2>3
<1>18. \A a \in DOMAIN e.introductions : Paired(e.candidates[a], e.introductions[a])
  <2>1. SUFFICES ASSUME NEW a \in DOMAIN d.introductions
                 PROVE  Paired(e.candidates[a], t[a])
    BY <1>7, <1>13
  <2>2. a \in DOMAIN d.candidates /\ Paired(d.candidates[a], d.introductions[a])
    BY <1>1 DEF Booked
  <2>3. CASE a = id
    BY <1>3, <1>8, <1>13, <2>2, <2>3 DEF Paired, Consumed
  <2>4. CASE a # id
    BY <1>7, <1>13, <2>2, <2>4
  <2> QED
    BY <2>3, <2>4
<1>19. Booked(e)
  <2>1. \A a \in DOMAIN e.candidates : a \in 1..e.sequence /\ Addressed(e.candidates[a])
    BY <1>1, <1>13, <1>14 DEF Booked, Addressed
  <2>2. \A a, a2 \in DOMAIN e.candidates :
          Identity(e.candidates[a]) = Identity(e.candidates[a2]) => a = a2
    BY <1>1, <1>13, <1>14 DEF Booked
  <2>3. \A a \in DOMAIN e.candidates : Identity(e.candidates[a]) \notin e.erased_identities
    BY <1>1, <1>13, <1>14 DEF Booked
  <2>4. DOMAIN e.introductions = {a \in DOMAIN e.candidates : e.candidates[a].kind = "introduction"}
    BY <1>1, <1>7, <1>13, <1>14 DEF Booked
  <2>5. \A x \in e.charges : x.id \in DOMAIN e.candidates
    BY <1>1, <1>13, <1>15 DEF Booked
  <2>6. IsFiniteSet(e.charges) /\ IsFiniteSet(e.erased_charges)
    <3>1. IsFiniteSet(d.charges) /\ IsFiniteSet(d.erased_charges)
      BY <1>1 DEF Booked
    <3>2. IsFiniteSet(d.charges \cup rows)
      BY ONLY <1>6, <3>1, FS_Union
    <3> QED
      BY <1>13, <3>1, <3>2
  <2> QED
    BY <1>13, <1>17, <1>18, <2>1, <2>2, <2>3, <2>4, <2>5, <2>6 DEF Booked
<1>20. FollowsBook(d, e)
  <2>1. ASSUME NEW a \in DOMAIN d.candidates
        PROVE  Keeps(d, e, a)
    <3>1. d.candidates[a].revision \in Nat
      BY <1>1, Fields DEF CandidateRecords
    <3> QED
      BY <1>3, <1>13, <1>14, <3>1 DEF Keeps, ChargedFor, Open
  <2>2. ASSUME NEW a \in DOMAIN d.introductions
        PROVE  KeepsIntroduction(d, e, a)
    <3>1. d.introductions[a].revision \in Nat
      BY <1>1, Fields DEF IntroductionRecords
    <3> QED
      BY <1>7, <1>8, <1>13, <3>1 DEF KeepsIntroduction
  <2> QED
    BY <1>1, <1>13, <2>1, <2>2, Fields DEF FollowsBook
<1>21. Attributed(e, messages)
  BY <1>1, <1>13, <1>14, StaysAttributed
<1>22. FollowsRules(d, e)
  BY <1>1, <1>13, SameRulesFollow
<1>23. ApprovesNothing(d, e)
  <2>1. \A a \in DOMAIN d.introductions :
          /\ e.introductions[a].approvals = d.introductions[a].approvals
          /\ e.introductions[a].words = d.introductions[a].words
          /\ e.introductions[a].channel = d.introductions[a].channel
    BY <1>7, <1>8, <1>13
  <2> QED
    BY <1>7, <1>13, <2>1 DEF ApprovesNothing
<1>24. Descends(d, e, messages)
  BY <1>13, <1>19, <1>20, <1>21, <1>22, <1>23 DEF Descends, Sound, Follows
<1>25. \A m \in c.who : \E x \in e.charges : x.id = id /\ x.member = m /\ x.at = now
  <2> HIDE DEF row
  <2> QED
    BY <1>13, <1>16
<1> QED
  BY <1>3, <1>7, <1>13, <1>24, <1>25 DEF e

\* What an erasure leaves is sound; what it takes, it keeps the reasons and the charges of.
LEMMA ErasedDescends ==
  ASSUME now \in Nat, NEW d, Sound(d, said), NEW own \in SUBSET Members
  PROVE  LET e == EraseLearning(d, own)
         IN  /\ Descends(d, e, said)
             /\ DOMAIN e.candidates = DOMAIN d.candidates \ OwnedBy(d, own)
             /\ \A id \in DOMAIN e.candidates : e.candidates[id] = d.candidates[id]
             /\ \A m \in Members : e.ledger[m] = IF m \in own THEN now ELSE d.ledger[m]
             /\ \A m \in Members : e.eligibility[m] = IF m \in own THEN {} ELSE d.eligibility[m]
             /\ \A m \in Members, c \in Channels : e.observations[m][c].message =
                  IF m \in own THEN None ELSE d.observations[m][c].message
             /\ Versions(e) \subseteq Versions(d)
             /\ \A id \in OwnedBy(d, own) : Identity(d.candidates[id]) \in e.erased_identities
<1> DEFINE ids == OwnedBy(d, own)
           t == Restrict(d.candidates, DOMAIN d.candidates \ ids)
           u == Restrict(d.introductions, DOMAIN d.introductions \ ids)
           charges == {x \in d.charges : x.id \notin ids}
           erased == ErasedCharges(d, ids)
           identities == ErasedIdentities(d, ids)
           observations ==
             [m \in Members |-> IF m \in own THEN [c \in Channels |-> [message |-> None, edited |-> FALSE]]
                                ELSE d.observations[m]]
           eligibility == [m \in Members |-> IF m \in own THEN {} ELSE d.eligibility[m]]
           ledger == [m \in Members |-> IF m \in own THEN now ELSE d.ledger[m]]
           e == EraseLearning(d, own)
<1>1. d \in Documents /\ Booked(d) /\ Attributed(d, said)
  BY DEF Sound
<1>2. ids \subseteq DOMAIN d.candidates
  BY DEF OwnedBy
<1>3. e = [d EXCEPT !.candidates = t, !.introductions = u, !.charges = charges,
             !.erased_charges = erased, !.erased_identities = identities,
             !.observations = observations, !.eligibility = eligibility, !.ledger = ledger]
  BY DEF EraseLearning
<1>4. /\ DOMAIN t = DOMAIN d.candidates \ ids /\ \A id \in DOMAIN t : t[id] = d.candidates[id]
      /\ DOMAIN u = DOMAIN d.introductions \ ids
      /\ \A id \in DOMAIN u : u[id] = d.introductions[id]
  BY DEF Restrict
<1>5. t \in Tables(CandidateRecords)
  <2>1. DOMAIN t \subseteq Nat /\ \A id \in DOMAIN t : t[id] \in CandidateRecords
    <3>1. /\ DOMAIN d.candidates \subseteq Nat
          /\ \A id \in DOMAIN d.candidates : d.candidates[id] \in CandidateRecords
      BY <1>1, Fields
    <3> QED
      BY <1>4, <3>1
  <2>2. t \in [DOMAIN t -> CandidateRecords]
    BY <2>1 DEF Restrict
  <2> QED
    BY <2>1, <2>2, Tabled
<1>6. u \in Tables(IntroductionRecords)
  <2>1. DOMAIN u \subseteq Nat /\ \A id \in DOMAIN u : u[id] \in IntroductionRecords
    <3>1. /\ DOMAIN d.introductions \subseteq Nat
          /\ \A id \in DOMAIN d.introductions : d.introductions[id] \in IntroductionRecords
      BY <1>1, Fields
    <3> QED
      BY <1>4, <3>1
  <2>2. u \in [DOMAIN u -> IntroductionRecords]
    BY <2>1 DEF Restrict
  <2> QED
    BY <2>1, <2>2, Tabled
<1>7. charges \subseteq Charges /\ erased = d.erased_charges \cup {x \in d.charges : x.id \in ids}
      /\ erased \subseteq Charges
  BY <1>1, Fields DEF ErasedCharges
<1>8. identities = d.erased_identities \cup {Identity(d.candidates[id]) : id \in ids}
  BY DEF ErasedIdentities
<1>9. identities \subseteq Identities
  <2>1. \A id \in ids : Identity(d.candidates[id]) \in Identities
    BY <1>1, <1>2, Fields DEF Identity, Identities, CandidateRecords
  <2> QED
    BY <1>1, <1>8, <2>1, Fields
<1>10. /\ observations \in [Members -> [Channels -> [message : Nat, edited : BOOLEAN]]]
       /\ eligibility \in [Members -> SUBSET Nat] /\ ledger \in [Members -> Nat]
  BY <1>1, Fields DEF None
<1>11. \A m \in Members, c \in Channels :
         observations[m][c].message = IF m \in own THEN None ELSE d.observations[m][c].message
  OBVIOUS
<1>12. \A m \in Members : /\ eligibility[m] = IF m \in own THEN {} ELSE d.eligibility[m]
                          /\ ledger[m] = IF m \in own THEN now ELSE d.ledger[m]
  OBVIOUS
<1> HIDE DEF t, u, charges, erased, identities, observations, eligibility, ledger, e
<1>13. /\ e \in Documents /\ e.sequence = d.sequence /\ e.candidates = t /\ e.introductions = u
       /\ e.charges = charges /\ e.erased_charges = erased /\ e.erased_identities = identities
       /\ e.policies = d.policies /\ e.guild = d.guild
       /\ e.observations = observations /\ e.eligibility = eligibility /\ e.ledger = ledger
  BY <1>1, <1>3, <1>5, <1>6, <1>7, <1>9, <1>10 DEF Documents
<1>14. \A x \in d.charges : IF x.id \in ids THEN x \in erased ELSE x \in charges
  BY <1>7 DEF charges
<1>15. charges \subseteq d.charges /\ \A x \in charges : x.id \notin ids
  BY DEF charges
<1> HIDE DEF ids
<1>16. ASSUME NEW id \in DOMAIN t
       PROVE  Charged(e, id)
  <2>1. Charged(d, id) /\ id \notin ids
    BY <1>1, <1>4 DEF Booked
  <2>2. ChargedFor(e, id) = ChargedFor(d, id)
    BY <1>13, <1>14, <1>15, <2>1 DEF ChargedFor
  <2> QED
    BY <1>4, <1>13, <2>1, <2>2 DEF Charged
<1>17. Booked(e)
  <2>1. \A a \in DOMAIN t : a \in 1..e.sequence /\ Addressed(t[a])
    BY <1>1, <1>4, <1>13 DEF Booked
  <2>2. \A a, b \in DOMAIN t : Identity(t[a]) = Identity(t[b]) => a = b
    BY <1>1, <1>4 DEF Booked
  <2>3. \A a \in DOMAIN t : Identity(t[a]) \notin identities
    BY <1>1, <1>2, <1>4, <1>8 DEF Booked
  <2>4. DOMAIN u = {a \in DOMAIN t : t[a].kind = "introduction"}
    BY <1>1, <1>4 DEF Booked
  <2>5. \A a \in DOMAIN u : Paired(t[a], u[a])
    BY <1>1, <1>4, <2>4 DEF Booked
  <2>6. \A x \in charges : x.id \in DOMAIN t
    BY <1>1, <1>4, <1>15 DEF Booked
  <2>7. IsFiniteSet(charges) /\ IsFiniteSet(erased)
    <3>1. IsFiniteSet(d.charges) /\ IsFiniteSet(d.erased_charges)
      BY <1>1 DEF Booked
    <3>2. IsFiniteSet(charges)
      BY ONLY <1>15, <3>1, FS_Subset
    <3>3. {x \in d.charges : x.id \in ids} \in SUBSET d.charges
      OBVIOUS
    <3>4. IsFiniteSet({x \in d.charges : x.id \in ids})
      BY ONLY <3>1, <3>3, FS_Subset
    <3>5. IsFiniteSet(erased)
      BY ONLY <1>7, <3>1, <3>4, FS_Union
    <3> QED
      BY <3>2, <3>5
  <2> QED
    BY <1>13, <1>16, <2>1, <2>2, <2>3, <2>4, <2>5, <2>6, <2>7 DEF Booked
<1>18. FollowsBook(d, e)
  <2>1. ASSUME NEW a \in DOMAIN d.candidates
        PROVE  Keeps(d, e, a)
    <3>1. d.candidates[a].revision \in Nat
      BY <1>1, Fields DEF CandidateRecords
    <3> QED
      BY <1>4, <1>8, <1>13, <1>14, <3>1 DEF Keeps, ChargedFor
  <2>2. ASSUME NEW a \in DOMAIN d.introductions \cap DOMAIN e.introductions
        PROVE  KeepsIntroduction(d, e, a)
    <3>1. d.introductions[a].revision \in Nat
      BY <1>1, Fields DEF IntroductionRecords
    <3> QED
      BY <1>4, <1>13, <3>1 DEF KeepsIntroduction
  <2> QED
    BY <1>1, <1>4, <1>7, <1>8, <1>13, <2>1, <2>2, Fields DEF FollowsBook
<1>19. Attributed(e, said)
  BY <1>1, <1>4, <1>11, <1>12, <1>13 DEF Attributed
<1>20. FollowsRules(d, e)
  <2>1. /\ d.guild.revision \in Nat /\ \A m \in Members : d.ledger[m] \in Nat
        /\ \A m \in Members : d.policies[m].revision \in Nat
    BY <1>1, Fields DEF Policies
  <2> QED
    BY <1>12, <1>13, <2>1 DEF FollowsRules
<1>21. ApprovesNothing(d, e)
  BY <1>4, <1>13 DEF ApprovesNothing
<1>22. Descends(d, e, said)
  BY <1>13, <1>17, <1>18, <1>19, <1>20, <1>21 DEF Descends, Sound, Follows
<1>23. \A id \in ids : Identity(d.candidates[id]) \in e.erased_identities
  BY <1>8, <1>13
<1>24. Versions(e) \subseteq Versions(d)
  BY <1>4, <1>13 DEF Versions, Version
<1> QED
  BY <1>4, <1>11, <1>12, <1>13, <1>22, <1>23, <1>24 DEF e, ids

-----------------------------------------------------------------------------
(* What followers inherit *)

LEMMA SpentStays ==
  ASSUME NEW d \in Documents, NEW e \in Documents, FollowsBook(d, e), NEW id, NEW what, NEW at,
         Spent(d, id, what, at)
  PROVE  Spent(e, id, what, at)
<1>1. id \in Nat /\ d.sequence \in Nat /\ e.sequence \in Nat /\ id <= e.sequence
  BY Fields DEF Spent, FollowsBook
<1>2. CASE id \in DOMAIN d.candidates
  <2>1. /\ Identity(d.candidates[id]) = what /\ d.candidates[id].state # "pending"
        /\ \A m \in what.who : \E x \in ChargedFor(d, id) : x.id = id /\ x.member = m /\ x.at = at
    BY <1>2 DEF Spent, ChargedFor
  <2>2. Keeps(d, e, id)
    BY <1>2 DEF FollowsBook
  <2>3. CASE id \in DOMAIN e.candidates
    BY <1>1, <2>1, <2>2, <2>3 DEF Spent, Keeps
  <2>4. CASE id \notin DOMAIN e.candidates
    BY <1>1, <2>1, <2>2, <2>4 DEF Spent, Keeps
  <2> QED
    BY <2>3, <2>4
<1>3. CASE id \notin DOMAIN d.candidates
  <2>1. /\ what \in d.erased_identities
        /\ \A m \in what.who : \E x \in d.erased_charges : x.id = id /\ x.member = m /\ x.at = at
        /\ id <= d.sequence
    BY <1>3 DEF Spent
  <2>2. id \notin DOMAIN e.candidates
    BY <1>1, <1>3, <2>1 DEF FollowsBook
  <2> QED
    BY <1>1, <2>1, <2>2 DEF Spent, FollowsBook
<1> QED
  BY <1>2, <1>3

LEMMA PresentsStays ==
  ASSUME NEW d \in Documents, NEW e \in Documents, Booked(d), Booked(e), FollowsBook(d, e),
         NEW v, v.id \in Nat, v.revision \in Nat, Presents(d, v)
  PROVE  Presents(e, v)
<1>1. v.id <= d.sequence /\ d.sequence \in Nat /\ e.sequence \in Nat /\ v.id <= e.sequence
  BY Fields DEF Presents, FollowsBook
<1>2. SUFFICES ASSUME v.id \in DOMAIN e.introductions
               PROVE  /\ v.revision <= e.introductions[v.id].revision
                      /\ v.revision = e.introductions[v.id].revision =>
                           /\ v.words = e.introductions[v.id].words
                           /\ v.channel = e.introductions[v.id].channel
  BY <1>1 DEF Presents
<1>3. v.id \in DOMAIN e.candidates /\ e.candidates[v.id].kind = "introduction"
  BY <1>2 DEF Booked
<1>4. v.id \in DOMAIN d.candidates
  BY <1>1, <1>3 DEF FollowsBook
<1>5. d.candidates[v.id].kind = "introduction"
  BY <1>3, <1>4 DEF FollowsBook, Keeps, Identity
<1>6. v.id \in DOMAIN d.introductions
  BY <1>4, <1>5 DEF Booked
<1>7. /\ v.revision <= d.introductions[v.id].revision
      /\ v.revision = d.introductions[v.id].revision =>
           /\ v.words = d.introductions[v.id].words
           /\ v.channel = d.introductions[v.id].channel
  BY <1>6 DEF Presents
<1>8. KeepsIntroduction(d, e, v.id)
  BY <1>2, <1>6 DEF FollowsBook
<1>9. d.introductions[v.id].revision \in Nat /\ e.introductions[v.id].revision \in Nat
  BY <1>2, <1>6, Fields DEF IntroductionRecords
<1> QED
  BY <1>7, <1>8, <1>9 DEF KeepsIntroduction

LEMMA PresentsItself ==
  ASSUME NEW d, NEW messages, Sound(d, messages), NEW v \in Versions(d)
  PROVE  /\ Presents(d, v) /\ v.id \in Nat /\ v.revision \in Nat
         /\ v = [id |-> v.id, revision |-> v.revision, channel |-> v.channel, words |-> v.words]
<1>1. d \in Documents /\ Booked(d)
  BY DEF Sound
<1>2. PICK id \in DOMAIN d.introductions : v = Version(d, id)
  BY DEF Versions
<1>3. d.introductions[id].revision \in Nat /\ id \in Nat
  BY <1>1, Fields DEF IntroductionRecords
<1>4. id \in 1..d.sequence /\ d.sequence \in Nat
  BY <1>1, Fields DEF Booked
<1>5. v = [id |-> id, revision |-> d.introductions[id].revision,
           channel |-> d.introductions[id].channel, words |-> d.introductions[id].words]
  BY <1>2 DEF Version
<1> QED
  BY <1>3, <1>4, <1>5 DEF Presents

LEMMA AttestedStays ==
  ASSUME NEW d, NEW e, NEW consents, ApprovesNothing(d, e), Attested(d, consents)
  PROVE  Attested(e, consents)
<1>1. SUFFICES ASSUME NEW id \in DOMAIN e.introductions, NEW m \in DOMAIN e.introductions[id].approvals,
                      e.introductions[id].approvals[m] # 0
               PROVE  [id |-> id, member |-> m, word |-> e.introductions[id].words[m],
                       channel |-> e.introductions[id].channel] \in consents
  BY DEF Attested
<1> QED
  BY <1>1 DEF Attested, ApprovesNothing

\* A document that an erasure admits brings nothing back that was erased.
LEMMA ForgetsStays ==
  ASSUME NEW d, NEW e, Sound(d, said), Sound(e, said), Follows(d, e), Admitted(e, d), NEW erased,
         said \in Seq(Messages), now \in Nat, \A k \in DOMAIN said : said[k].at <= now,
         Forgets(d, erased, said)
  PROVE  Forgets(e, erased, said)
<1>1. d \in Documents /\ e \in Documents /\ Booked(d) /\ Booked(e)
  BY DEF Sound
<1>2. ASSUME NEW k \in erased.sources
      PROVE  /\ k \in DOMAIN said /\ k # None /\ said[k].at <= e.ledger[said[k].author]
             /\ ~Permitted(e, k)
  <2>1. k \in DOMAIN said /\ said[k].at <= d.ledger[said[k].author]
    BY DEF Forgets
  <2>2. k \in Nat \ {0} /\ said[k].author \in Members /\ said[k].at \in Nat
    BY <2>1, MessageFields
  <2>3. d.ledger[said[k].author] \in Nat /\ e.ledger[said[k].author] \in Nat
    BY <1>1, <2>2, Fields
  <2>4. \/ e.ledger[said[k].author] >= d.ledger[said[k].author]
        \/ e.ledger[said[k].author] = now
    BY <2>2 DEF Follows, FollowsRules
  <2>5. said[k].at <= now
    BY <2>1
  <2>6. said[k].at <= e.ledger[said[k].author]
    BY <2>1, <2>2, <2>3, <2>4, <2>5
  <2>7. ~Permitted(e, k)
    BY <2>2, <2>3, <2>6 DEF Permitted
  <2> QED
    BY <2>1, <2>2, <2>6, <2>7 DEF None
<1>3. \A p \in erased.pairs :
        [kind |-> "introduction", who |-> p, source |-> None] \in e.erased_identities
  BY DEF Forgets, Follows, FollowsBook
<1>4. ASSUME NEW id \in DOMAIN e.candidates
      PROVE  e.candidates[id].source \notin erased.sources
  <2>1. CASE id \in DOMAIN d.candidates /\ d.candidates[id] = e.candidates[id]
    BY <2>1 DEF Forgets, Candidates
  <2>2. CASE ~(id \in DOMAIN d.candidates /\ d.candidates[id] = e.candidates[id])
    <3>1. e.candidates[id].source # None => Permitted(e, e.candidates[id].source)
      BY <2>2 DEF Admitted
    <3> QED
      BY <1>2, <3>1
  <2> QED
    BY <2>1, <2>2
<1>5. ASSUME NEW o \in Observed(e)
      PROVE  o.message \notin erased.sources
  <2>1. CASE o \in Observed(d)
    BY <2>1 DEF Forgets
  <2>2. CASE o \notin Observed(d)
    <3>1. o.message # None => Permitted(e, o.message)
      BY <2>2 DEF Admitted
    <3> QED
      BY <1>2, <3>1
  <2> QED
    BY <2>1, <2>2
<1>6. ASSUME NEW m \in Members, NEW k \in e.eligibility[m]
      PROVE  k \notin erased.sources
  <2>1. CASE k \in d.eligibility[m]
    BY <2>1 DEF Forgets
  <2>2. CASE k \notin d.eligibility[m]
    <3>1. Permitted(e, k)
      BY <2>2 DEF Admitted
    <3> QED
      BY <1>2, <3>1
  <2> QED
    BY <2>1, <2>2
<1> QED
  BY <1>2, <1>3, <1>4, <1>5, <1>6 DEF Forgets, Candidates

\* What was reserved stays held, whatever follows.
LEMMA HeldStays ==
  ASSUME NEW d, NEW e, Sound(d, said), Sound(e, said), Follows(d, e), NEW x,
         x.id \in DOMAIN e.candidates => x.id \in DOMAIN d.candidates, Held(d, x)
  PROVE  Held(e, x)
<1>1. d \in Documents /\ e \in Documents /\ Booked(d) /\ Booked(e) /\ FollowsBook(d, e)
      /\ FollowsRules(d, e)
  BY DEF Sound, Follows
<1>2. ASSUME x.id \in DOMAIN e.candidates, e.candidates[x.id].kind # "follow_up"
      PROVE  x.r.policy_revision \in 0..e.guild.revision
  <2>1. x.id \in DOMAIN d.candidates /\ d.candidates[x.id].kind # "follow_up"
    BY <1>1, <1>2 DEF FollowsBook, Keeps, Identity
  <2>2. x.r.policy_revision \in 0..d.guild.revision /\ d.guild.revision \in Nat
        /\ e.guild.revision \in Nat /\ e.guild.revision >= d.guild.revision
    BY <1>1, <2>1, Fields DEF Held, FollowsRules
  <2> QED
    BY <2>2
<1>3. ASSUME x.id \in DOMAIN e.candidates
      PROVE  /\ x.r.revision \in 0..e.candidates[x.id].revision
             /\ \A m \in e.candidates[x.id].who : x.r.policies[m] \in 0..e.policies[m].revision
  <2>1. /\ x.r.revision \in 0..d.candidates[x.id].revision
        /\ \A m \in d.candidates[x.id].who : x.r.policies[m] \in 0..d.policies[m].revision
    BY <1>3 DEF Held
  <2>2. /\ e.candidates[x.id].revision >= d.candidates[x.id].revision
        /\ e.candidates[x.id].who = d.candidates[x.id].who
    BY <1>1, <1>3 DEF FollowsBook, Keeps, Identity
  <2>3. /\ d.candidates[x.id].revision \in Nat /\ e.candidates[x.id].revision \in Nat
        /\ d.candidates[x.id].who \subseteq Members
    BY <1>1, <1>3, Fields DEF CandidateRecords
  <2>4. \A m \in Members : /\ d.policies[m].revision \in Nat /\ e.policies[m].revision \in Nat
                           /\ e.policies[m].revision >= d.policies[m].revision
    BY <1>1, Fields DEF Policies, FollowsRules
  <2>5. x.r.revision \in 0..e.candidates[x.id].revision
    BY <2>1, <2>2, <2>3
  <2>6. ASSUME NEW m \in e.candidates[x.id].who
        PROVE  x.r.policies[m] \in 0..e.policies[m].revision
    <3>1. m \in Members /\ x.r.policies[m] \in 0..d.policies[m].revision
      BY <2>1, <2>2, <2>3
    <3> QED
      BY <2>4, <3>1
  <2> QED
    BY <2>5, <2>6
<1>4. ASSUME x.id \in DOMAIN e.introductions
      PROVE  /\ x.r.introduction.revision \in 0..e.introductions[x.id].revision
             /\ x.at = "proven" /\ e.introductions[x.id].revision = x.r.introduction.revision =>
                  e.introductions[x.id].words = x.plan.introduction.words
  <2>1. x.id \in DOMAIN e.candidates /\ e.candidates[x.id].kind = "introduction"
    BY <1>1, <1>4 DEF Booked
  <2>2. x.id \in DOMAIN d.candidates /\ d.candidates[x.id].kind = "introduction"
    BY <1>1, <2>1 DEF FollowsBook, Keeps, Identity
  <2>3. x.id \in DOMAIN d.introductions
    BY <1>1, <2>2 DEF Booked
  <2>4. /\ x.r.introduction.revision \in 0..d.introductions[x.id].revision
        /\ x.at = "proven" /\ d.introductions[x.id].revision = x.r.introduction.revision =>
             d.introductions[x.id].words = x.plan.introduction.words
    BY <2>3 DEF Held
  <2>5. KeepsIntroduction(d, e, x.id)
    BY <1>1, <1>4, <2>3 DEF FollowsBook
  <2>6. d.introductions[x.id].revision \in Nat /\ e.introductions[x.id].revision \in Nat
    BY <1>1, <1>4, <2>3, Fields DEF IntroductionRecords
  <2> QED
    BY <2>4, <2>5, <2>6 DEF KeepsIntroduction
<1> QED
  BY <1>2, <1>3, <1>4 DEF Held

LEMMA BudgetedStays ==
  ASSUME NEW d, NEW e, Sound(d, said), Sound(e, said), Follows(d, e), NEW x, NEW ps,
         x.id \in DOMAIN e.candidates => x.id \in DOMAIN d.candidates,
         Held(d, x), Budgeted(d, x, ps)
  PROVE  Budgeted(e, x, ps)
<1>1. d \in Documents /\ e \in Documents /\ FollowsBook(d, e) /\ FollowsRules(d, e)
  BY DEF Sound, Follows
<1>2. SUFFICES ASSUME x.id \in DOMAIN e.candidates, NEW m \in e.candidates[x.id].who,
                      e.policies[m].revision = x.r.policies[m]
               PROVE  Cardinality(PostsTo(ps, m, e.policies[m].terms,
                                          LocalDay(e.policies[m].terms, x.r.at)))
                        < e.policies[m].terms.daily_limit
  BY DEF Budgeted
<1>3. m \in d.candidates[x.id].who /\ m \in Members
  <2>1. e.candidates[x.id].who = d.candidates[x.id].who
    BY <1>1, <1>2 DEF FollowsBook, Keeps, Identity
  <2> QED
    BY <1>1, <1>2, <2>1, Fields DEF CandidateRecords
<1>4. x.r.policies[m] \in 0..d.policies[m].revision
  BY <1>2, <1>3 DEF Held
<1>5. d.policies[m].revision \in Nat /\ e.policies[m].revision \in Nat
      /\ e.policies[m].revision >= d.policies[m].revision
  BY <1>1, <1>3, Fields DEF Policies, FollowsRules
<1>6. e.policies[m].revision = d.policies[m].revision
  BY <1>2, <1>4, <1>5
<1>7. e.policies[m] = d.policies[m]
  BY <1>1, <1>3, <1>6 DEF FollowsRules
<1> QED
  BY <1>2, <1>3, <1>7 DEF Budgeted

LEMMA StaleStays ==
  ASSUME NEW d, NEW e, Sound(d, said), Sound(e, said), Follows(d, e), NEW x,
         x.id \in DOMAIN e.candidates => x.id \in DOMAIN d.candidates,
         Held(d, x), Stale(d, x)
  PROVE  Stale(e, x)
<1>1. d \in Documents /\ e \in Documents /\ FollowsBook(d, e) /\ FollowsRules(d, e)
  BY DEF Sound, Follows
<1>2. SUFFICES ASSUME x.id \in DOMAIN e.candidates
               PROVE  Stale(e, x)
  BY DEF Stale
<1> DEFINE c == d.candidates[x.id]  b == e.candidates[x.id]
<1>3. /\ Identity(b) = Identity(c) /\ b.revision >= c.revision /\ (Open(b) => Open(c))
      /\ b.who = c.who /\ b.kind = c.kind
  BY <1>1, <1>2 DEF FollowsBook, Keeps, Identity
<1>4. /\ c.revision \in Nat /\ b.revision \in Nat /\ c.who \subseteq Members
      /\ d.guild.revision \in Nat /\ e.guild.revision \in Nat
      /\ c.kind # "follow_up" => x.r.policy_revision \in 0..d.guild.revision
      /\ x.r.revision \in 0..c.revision
      /\ \A m \in c.who : x.r.policies[m] \in 0..d.policies[m].revision
  BY <1>1, <1>2, Fields DEF CandidateRecords, Held
<1>5. \A m \in Members : /\ d.policies[m].revision \in Nat /\ e.policies[m].revision \in Nat
                         /\ e.policies[m].revision >= d.policies[m].revision
  BY <1>1, Fields DEF Policies, FollowsRules
<1>6. CASE ~Open(c)
  BY <1>3, <1>6 DEF Stale
<1>7. CASE c.revision > x.r.revision
  <2>1. b.revision > x.r.revision
    BY <1>3, <1>4, <1>7
  <2> QED
    BY <2>1 DEF Stale
<1>8. ASSUME NEW m \in c.who, d.policies[m].revision > x.r.policies[m]
      PROVE  Stale(e, x)
  <2>1. m \in Members /\ x.r.policies[m] \in 0..d.policies[m].revision
    BY <1>4
  <2>2. e.policies[m].revision > x.r.policies[m]
    BY <1>5, <1>8, <2>1
  <2> QED
    BY <1>3, <2>2 DEF Stale
<1>9. CASE c.kind # "follow_up" /\ d.guild.revision > x.r.policy_revision
  <2>1. e.guild.revision > x.r.policy_revision
    BY <1>1, <1>4, <1>9 DEF FollowsRules
  <2> QED
    BY <1>3, <1>9, <2>1 DEF Stale
<1> QED
  BY <1>2, <1>6, <1>7, <1>8, <1>9 DEF Stale

-----------------------------------------------------------------------------
(* What a step leaves of the invariant *)

\* Memory and disk hold sound documents which follow one of those they held.
Inherited == \A e \in {store', durable'} : Sound(e, said) /\ \E d \in {store, durable} : Follows(d, e)

\* What memory and disk hold after the commit of e, saved or not.
Ventured(e) ==
  /\ store' \in {store, e} /\ durable' \in {durable, e}
  /\ store' = e => durable' = e \/ Versions(e) \subseteq Versions(store)

LEMMA CommitsVenture ==
  ASSUME IInv, NEW e, Saved(e) \/ NotSaved(e)
  PROVE  Ventured(e) /\ diverged' \in BOOLEAN /\ store' \in {store, e}
<1>1. CASE Saved(e)
  BY <1>1 DEF IInv, Types, Saved, Ventured
<1>2. CASE NotSaved(e)
  <2>1. store' = store /\ durable' \in {durable, e} /\ diverged' \in BOOLEAN
    BY <1>2 DEF IInv, Types, NotSaved
  <2>2. store' = e => Versions(e) \subseteq Versions(store)
    BY <2>1
  <2> QED
    BY <2>1, <2>2 DEF Ventured
<1> QED
  BY <1>1, <1>2

LEMMA RecordedStays ==
  ASSUME IInv, Inherited, posts' = posts
  PROVE  Recorded'
<1>1. ASSUME NEW i \in DOMAIN posts, NEW e \in {store', durable'}
      PROVE  Spent(e, posts[i].id, posts[i].what, posts[i].at)
  <2>1. PICK d \in {store, durable} : Follows(d, e)
    BY DEF Inherited
  <2>2. Sound(d, said) /\ Sound(e, said)
    BY DEF IInv, Documented, Inherited
  <2>3. d \in Documents /\ e \in Documents /\ FollowsBook(d, e)
    BY <2>1, <2>2 DEF Sound, Follows
  <2>4. Spent(d, posts[i].id, posts[i].what, posts[i].at)
    BY DEF IInv, Recorded
  <2> QED
    BY <2>3, <2>4, SpentStays
<1> QED
  BY <1>1 DEF IInv, Recorded

LEMMA ReservingStays ==
  ASSUME IInv, Inherited, posts' = posts, engine'.id = engine.id, engine'.r = engine.r,
         engine'.at \in {"reserved", "proven", "settling"} =>
           engine.at \in {"reserved", "proven", "settling"},
         Attempting' => Attempting
  PROVE  Reserving'
<1>1. ASSUME engine'.at \in {"reserved", "proven", "settling"}
      PROVE  \E what \in Identities :
               \A e \in {store', durable'} : Spent(e, engine.id, what, engine.r.at)
  <2>1. PICK what \in Identities :
          \A d \in {store, durable} : Spent(d, engine.id, what, engine.r.at)
    BY <1>1 DEF IInv, Reserving
  <2>2. ASSUME NEW e \in {store', durable'}
        PROVE  Spent(e, engine.id, what, engine.r.at)
    <3>1. PICK d \in {store, durable} : Follows(d, e)
      BY DEF Inherited
    <3>2. Sound(d, said) /\ Sound(e, said)
      BY DEF IInv, Documented, Inherited
    <3>3. d \in Documents /\ e \in Documents /\ FollowsBook(d, e)
      BY <3>1, <3>2 DEF Sound, Follows
    <3> QED
      BY <2>1, <3>3, SpentStays
  <2> QED
    BY <2>2
<1>2. Attempting' => \A i \in DOMAIN posts : posts[i].id # engine.id
  BY DEF IInv, Reserving
<1> QED
  BY <1>1, <1>2 DEF Reserving

\* What is reserved was charged: it is pending no more, and comes back under no id.
LEMMA AttemptedIsSpent ==
  ASSUME IInv, Attempting
  PROVE  /\ engine.id \in DOMAIN store.candidates => store.candidates[engine.id].state # "pending"
         /\ \A e : FollowsBook(store, e) /\ e \in Documents /\ engine.id \in DOMAIN e.candidates =>
              engine.id \in DOMAIN store.candidates
<1>1. PICK what \in Identities :
        \A d \in {store, durable} : Spent(d, engine.id, what, engine.r.at)
  BY DEF IInv, Reserving, Attempting
<1>2. Spent(store, engine.id, what, engine.r.at)
  BY <1>1
<1>3. engine.id \in DOMAIN store.candidates => store.candidates[engine.id].state # "pending"
  BY <1>2 DEF Spent
<1>4. ASSUME NEW e \in Documents, FollowsBook(store, e), engine.id \in DOMAIN e.candidates,
             engine.id \notin DOMAIN store.candidates
      PROVE  FALSE
  <2>1. store \in Documents
    BY DEF IInv, Documented, Sound
  <2>2. engine.id \in Nat /\ store.sequence \in Nat /\ engine.id <= store.sequence
    BY <1>2, <2>1, Fields DEF Spent
  <2>3. engine.id > store.sequence
    BY <1>4 DEF FollowsBook
  <2> QED
    BY <2>2, <2>3
<1> QED
  BY <1>3, <1>4

LEMMA CheckedStays ==
  ASSUME IInv, Sound(store', said), Follows(store, store'), posts' = posts,
         engine' = engine, healthy' => healthy,
         withdrawn' => withdrawn \/ ~healthy' \/ (Attempting => Stale(store', engine))
  PROVE  Checked'
<1>1. SUFFICES ASSUME Attempting
               PROVE  /\ Held(store', engine) /\ Budgeted(store', engine, posts)
                      /\ withdrawn' => ~healthy' \/ Stale(store', engine)
  BY DEF Checked, Attempting
<1>2. Held(store, engine) /\ Budgeted(store, engine, posts)
      /\ (withdrawn => ~healthy \/ Stale(store, engine))
  BY <1>1 DEF IInv, Checked
<1>3. Sound(store, said) /\ FollowsBook(store, store') /\ store' \in Documents
  BY DEF IInv, Documented, Follows, Sound
<1>4. engine.id \in DOMAIN (store').candidates => engine.id \in DOMAIN store.candidates
  BY <1>1, <1>3, AttemptedIsSpent
<1>5. Held(store', engine) /\ Budgeted(store', engine, posts)
  BY <1>2, <1>3, <1>4, HeldStays, BudgetedStays
<1>6. Stale(store, engine) => Stale(store', engine)
  BY <1>2, <1>3, <1>4, StaleStays
<1> QED
  BY <1>1, <1>2, <1>5, <1>6

LEMMA NoAttempt ==
  ASSUME engine'.at \notin {"reserved", "proven", "settling"}
  PROVE  Reserving' /\ Checked'
BY DEF Reserving, Checked, Attempting

\* The versions shown, and those to be shown.
LEMMA PresentedStays ==
  ASSUME IInv, NEW e, Sound(e, said), Follows(store, e), Ventured(e),
         shown' \in {shown, shown \cup Versions(store')}
  PROVE  Presented'
<1>1. SUFFICES ASSUME NEW d \in {store', durable'}, NEW v \in shown' \cup Versions(store')
               PROVE  Presents(d, v)
  BY DEF Presented
<1>2. /\ store \in Documents /\ Booked(store) /\ durable \in Documents /\ Booked(durable)
      /\ e \in Documents /\ Booked(e) /\ FollowsBook(store, e) /\ Sound(store, said)
  BY DEF IInv, Documented, Sound, Follows
<1>3. CASE v \in shown \cup Versions(store)
  <2>1. v.id \in Nat /\ v.revision \in Nat
    BY <1>2, <1>3, PresentsItself DEF IInv, Types, ShownTyped
  <2>2. Presents(store, v) /\ Presents(durable, v)
    BY <1>3 DEF IInv, Presented
  <2>3. Presents(e, v)
    BY <1>2, <2>1, <2>2, PresentsStays
  <2> QED
    BY <2>2, <2>3 DEF Ventured
<1>4. CASE v \notin shown \cup Versions(store)
  <2>1. v \in Versions(store')
    BY <1>1, <1>4
  <2>2. store' # store
    BY <1>4, <2>1
  <2>3. store' = e /\ durable' = e
    BY <1>4, <2>1, <2>2 DEF Ventured
  <2>4. v \in Versions(e)
    BY <2>1, <2>3
  <2> QED
    BY <2>3, <2>4, PresentsItself
<1> QED
  BY <1>3, <1>4

LEMMA ForgottenStays ==
  ASSUME IInv, NEW e, Sound(e, said), Follows(store, e), Admitted(e, store), Ventured(e),
         said' = said, forgotten' = forgotten
  PROVE  Forgotten'
<1>1. Sound(store, said) /\ Forgets(store, forgotten, said) /\ Forgets(durable, forgotten, said)
  BY DEF IInv, Documented, Forgotten
<1>2. said \in Seq(Messages) /\ now \in Nat /\ \A k \in DOMAIN said : said[k].at <= now
  BY DEF IInv, Types
<1>3. Forgets(e, forgotten, said)
  BY <1>1, <1>2, ForgetsStays
<1>4. forgotten.pairs \subseteq Pairs
  BY DEF IInv, Forgotten
<1> QED
  BY <1>1, <1>3, <1>4 DEF Forgotten, Ventured

LEMMA FilesFollow ==
  ASSUME IInv, NEW e, Sound(e, said), Follows(store, e), Ventured(e),
         said' = said, posts' = posts, shown' \in {shown, shown \cup Versions(store')}
  PROVE  /\ Documented' /\ Recorded' /\ Presented' /\ Inherited
         /\ Sound(store', said) /\ Follows(store, store')
<1>1. Sound(store, said) /\ Sound(durable, said)
  BY DEF IInv, Documented
<1>2. Follows(store, store) /\ Follows(durable, durable)
  BY <1>1, FollowsItself DEF Sound
<1>3. Inherited /\ Documented'
  BY <1>1, <1>2 DEF Inherited, Ventured, Documented
<1>4. Sound(store', said) /\ Follows(store, store')
  BY <1>1, <1>2 DEF Ventured
<1> QED
  BY <1>3, <1>4, RecordedStays, PresentedStays

LEMMA FilesStay ==
  ASSUME IInv, NEW e, Sound(e, said), Follows(store, e), Admitted(e, store), Ventured(e),
         said' = said, posts' = posts, forgotten' = forgotten,
         shown' \in {shown, shown \cup Versions(store')}
  PROVE  /\ Documented' /\ Recorded' /\ Presented' /\ Forgotten' /\ Inherited
         /\ Sound(store', said) /\ Follows(store, store')
BY FilesFollow, ForgottenStays

LEMMA AgreedStays ==
  ASSUME IInv, NEW e, ApprovesNothing(store, e), Ventured(e), agreed' = agreed
  PROVE  Agreed'
<1>1. Attested(store, agreed) /\ Attested(durable, agreed)
  BY DEF IInv, Agreed
<1>2. Attested(e, agreed)
  BY <1>1, AttestedStays
<1> QED
  BY <1>1, <1>2 DEF Agreed, Ventured

LEMMA ShownStays ==
  ASSUME IInv, Sound(store', said), shown' \in {shown, shown \cup Versions(store')}
  PROVE  ShownTyped'
BY PresentsItself DEF IInv, Types, ShownTyped

LEMMA TypesStay ==
  ASSUME IInv, Sound(store', said), shown' \in {shown, shown \cup Versions(store')},
         diverged' \in BOOLEAN, withdrawn' \in BOOLEAN, EngineTyped', ReplyTyped',
         UNCHANGED <<now, bound, said, gone, posts>>
  PROVE  Types'
<1>1. ShownTyped'
  BY ShownStays
<1> QED
  BY <1>1 DEF IInv, Types

LEMMA EngineStays ==
  ASSUME IInv, engine' = engine, said' = said
  PROVE  EngineTyped' /\ (Attempting' <=> Attempting)
BY DEF IInv, Types, EngineTyped, Attempting

LEMMA ReplyStays ==
  ASSUME IInv, reply' \in {reply, NoReply}, said' = said
  PROVE  ReplyTyped'
BY DEF IInv, Types, ReplyTyped, NoReply

-----------------------------------------------------------------------------
(* Members, managers and events *)

LEMMA ChoiceKeeps ==
  ASSUME IInv, NEW kind, NEW e, NEW ids, Sound(e, said), Follows(store, e),
         Choose(kind, e, ids), forgotten' = forgotten,
         Attempting /\ engine.id \in ids => Stale(e, engine),
         Ventured(e) => Agreed'
  PROVE  IInv'
<1>1. Admitted(e, store) /\ (Saved(e) \/ NotSaved(e))
  BY DEF Choose, Commits, Fails
<1>2. Ventured(e) /\ diverged' \in BOOLEAN
  BY <1>1, CommitsVenture
<1>3. /\ UNCHANGED <<now, bound, said, gone, posts>> /\ engine' = engine /\ reply' = reply
      /\ healthy' = healthy /\ shown' = shown \cup Versions(store')
  BY DEF Choose, discord
<1>4. /\ Documented' /\ Recorded' /\ Presented' /\ Forgotten' /\ Inherited
      /\ Sound(store', said) /\ Follows(store, store')
  BY <1>1, <1>2, <1>3, FilesStay DEF discord
<1>5. \/ withdrawn' = (withdrawn \/ engine.id \in ids) /\ store' = e
      \/ withdrawn' = withdrawn
  BY DEF Choose, Commits, Withdraws, Saved
<1>6. withdrawn' \in BOOLEAN
  BY <1>5 DEF IInv, Types
<1>7. withdrawn' => withdrawn \/ ~healthy' \/ (Attempting => Stale(store', engine))
  BY <1>5
<1>8. EngineTyped' /\ (Attempting' <=> Attempting) /\ ReplyTyped'
  BY <1>3, EngineStays, ReplyStays
<1>9. Types'
  BY <1>2, <1>3, <1>4, <1>6, <1>8, TypesStay
<1>10. Reserving'
  BY <1>3, <1>4, <1>8, ReservingStays
<1>11. Checked'
  BY <1>3, <1>4, <1>7, CheckedStays
<1> QED
  BY <1>2, <1>4, <1>9, <1>10, <1>11 DEF IInv

\* A choice that approves nothing.
LEMMA ChoiceDescends ==
  ASSUME IInv, NEW kind, NEW e, NEW ids, Descends(store, e, said),
         Choose(kind, e, ids), agreed' = agreed, forgotten' = forgotten,
         Attempting /\ engine.id \in ids => Stale(e, engine)
  PROVE  IInv'
<1>1. Sound(e, said) /\ Follows(store, e) /\ ApprovesNothing(store, e)
  BY DEF Descends
<1>2. Ventured(e) => Agreed'
  BY <1>1, AgreedStays
<1> QED
  BY <1>1, <1>2, ChoiceKeeps

LEMMA EventDescends ==
  ASSUME IInv, NEW e, NEW ids, Descends(store, e, said), Event(e, ids),
         Attempting /\ engine.id \in ids => Stale(e, engine)
  PROVE  IInv'
<1>1. Sound(e, said) /\ Follows(store, e) /\ ApprovesNothing(store, e)
  BY DEF Descends
<1>2. Admitted(e, store) /\ (Saved(e) \/ NotSaved(e))
  BY DEF Event, Commits, Fails
<1>3. Ventured(e) /\ diverged' \in BOOLEAN
  BY <1>2, CommitsVenture
<1>4. /\ UNCHANGED <<now, bound, said, gone, posts>> /\ engine' = engine /\ reply' = reply
      /\ shown' = shown /\ forgotten' = forgotten /\ agreed' = agreed
  BY DEF Event, discord, consent
<1>5. /\ Documented' /\ Recorded' /\ Presented' /\ Forgotten' /\ Inherited
      /\ Sound(store', said) /\ Follows(store, store')
  BY <1>1, <1>2, <1>3, <1>4, FilesStay
<1>6. \/ Withdraws(ids) /\ healthy' = healthy /\ store' = e
      \/ healthy' = FALSE /\ withdrawn' = TRUE
  BY Zenon DEF Event, Commits, Saved
<1>7. withdrawn' \in BOOLEAN
  BY <1>6 DEF Withdraws, IInv, Types
<1>8. /\ withdrawn' => withdrawn \/ ~healthy' \/ (Attempting => Stale(store', engine))
      /\ healthy' => healthy
  <2>1. CASE Withdraws(ids) /\ healthy' = healthy /\ store' = e
    <3>1. withdrawn' = (withdrawn \/ engine.id \in ids)
      BY <2>1, Zenon DEF Withdraws
    <3>2. engine.id \in ids => (Attempting => Stale(store', engine))
      BY <2>1, Zenon
    <3> QED
      BY <2>1, <3>1, <3>2, Zenon
  <2>2. CASE healthy' = FALSE /\ withdrawn' = TRUE
    BY <2>2, Zenon
  <2> QED
    BY <1>6, <2>1, <2>2
<1>9. EngineTyped' /\ (Attempting' <=> Attempting) /\ ReplyTyped'
  BY <1>4, EngineStays, ReplyStays
<1>10. Types'
  BY <1>3, <1>4, <1>5, <1>7, <1>9, TypesStay
<1>11. Reserving'
  BY <1>4, <1>5, <1>9, ReservingStays
<1>12. Checked'
  BY <1>4, <1>5, <1>8, CheckedStays
<1>13. Agreed'
  BY <1>1, <1>3, <1>4, AgreedStays
<1> QED
  BY <1>5, <1>10, <1>11, <1>12, <1>13 DEF IInv

\* An attempt at what is open no more is stale.
LEMMA ClosedIsStale ==
  ASSUME NEW e, NEW x, x.id \in DOMAIN e.candidates => ~Open(e.candidates[x.id])
  PROVE  Stale(e, x)
BY DEF Stale

\* An attempt at a member whose settings were changed is stale.
LEMMA ChangedSettingsAreStale ==
  ASSUME IInv, Attempting, NEW m \in Members, NEW e, Sound(e, said), Follows(store, e),
         engine.id \in PartyTo(m), e.policies[m].revision > store.policies[m].revision
  PROVE  Stale(e, engine)
<1>1. SUFFICES ASSUME engine.id \in DOMAIN e.candidates
               PROVE  \E x \in e.candidates[engine.id].who :
                        e.policies[x].revision > engine.r.policies[x]
  BY DEF Stale
<1>2. engine.id \in DOMAIN store.candidates /\ m \in store.candidates[engine.id].who
  BY DEF PartyTo
<1>3. m \in e.candidates[engine.id].who
  BY <1>1, <1>2 DEF Follows, FollowsBook, Keeps, Identity
<1>4. engine.r.policies[m] \in 0..store.policies[m].revision
  BY <1>2 DEF IInv, Checked, Held
<1>5. store.policies[m].revision \in Nat /\ e.policies[m].revision \in Nat
  BY Fields DEF IInv, Documented, Sound, Policies
<1> QED
  BY <1>3, <1>4, <1>5

LEMMA StopKeeps == ASSUME IInv, Stop PROVE IInv'
<1>1. PICK m \in Members, scope \in {Everywhere} \cup Channels :
        LET p == store.policies[m]
            ids == {id \in PartyTo(m) : LET c == store.candidates[id]
                                        IN  Open(c) /\ scope \in {Everywhere, c.channel}}
        IN  Choose("stop", Ended(Settings(store, m, [p EXCEPT !.stopped = @ \cup {scope}]), ids),
                   PartyTo(m))
  BY DEF Stop
<1> DEFINE p == store.policies[m]
           q == [p EXCEPT !.stopped = @ \cup {scope}]
           ids == {id \in PartyTo(m) : LET c == store.candidates[id]
                                       IN  Open(c) /\ scope \in {Everywhere, c.channel}}
           e == Ended(Settings(store, m, q), ids)
<1>2. Sound(store, said) /\ store \in Documents
  BY DEF IInv, Documented, Sound
<1>3. p \in Policies
  BY <1>2, Fields
<1>4. q \in Policies /\ q.revision = p.revision
  BY <1>3 DEF Policies, Scopes
<1>5. Descends(store, e, said) /\ e.policies[m].revision > store.policies[m].revision
  BY <1>2, <1>4, StoppedDescends
<1>6. Choose("stop", e, PartyTo(m)) /\ agreed' = agreed /\ forgotten' = forgotten
  BY <1>1 DEF Stop
<1> HIDE DEF e
<1>7. Attempting /\ engine.id \in PartyTo(m) => Stale(e, engine)
  BY <1>5, ChangedSettingsAreStale DEF Descends
<1> QED
  BY <1>5, <1>6, <1>7, ChoiceDescends

\* The changes that only touch a member's settings.
LEMMA SettingsKeep ==
  ASSUME IInv, NEW kind, NEW m \in Members, NEW q \in Policies,
         q.revision = store.policies[m].revision,
         Choose(kind, Settings(store, m, q), PartyTo(m)), UNCHANGED <<agreed, forgotten>>
  PROVE  IInv'
<1> DEFINE e == Settings(store, m, q)
<1>1. Sound(store, said)
  BY DEF IInv, Documented
<1>2. Descends(store, e, said) /\ e.policies[m].revision > store.policies[m].revision
  BY <1>1, SettingsDescends
<1>3. Choose(kind, e, PartyTo(m))
  OBVIOUS
<1> HIDE DEF e
<1>4. Attempting /\ engine.id \in PartyTo(m) => Stale(e, engine)
  BY <1>2, ChangedSettingsAreStale DEF Descends
<1> QED
  BY <1>2, <1>3, <1>4, ChoiceDescends

LEMMA SettingsChoices == ASSUME IInv, Resume \/ Configure \/ Snooze PROVE IInv'
<1>1. \A m \in Members : store.policies[m] \in Policies
  BY Fields DEF IInv, Documented, Sound
<1>2. CASE Resume
  <2>1. PICK m \in Members, scope \in {Everywhere} \cup Channels :
          LET p == store.policies[m]
          IN  Choose("resume", Settings(store, m, [p EXCEPT !.stopped = @ \ {scope}]), PartyTo(m))
    BY <1>2 DEF Resume
  <2> DEFINE p == store.policies[m]
             q == [p EXCEPT !.stopped = @ \ {scope}]
  <2>2. q \in Policies /\ q.revision = p.revision
    BY <1>1 DEF Policies, Scopes
  <2>3. Choose("resume", Settings(store, m, q), PartyTo(m)) /\ UNCHANGED <<agreed, forgotten>>
    BY <1>2, <2>1 DEF Resume
  <2> HIDE DEF q
  <2> QED
    BY <2>2, <2>3, SettingsKeep
<1>3. CASE Configure
  <2>1. PICK m \in Members, terms \in Terms :
          LET p == store.policies[m]
          IN  Choose("configure", Settings(store, m, [p EXCEPT !.terms = terms]), PartyTo(m))
    BY <1>3 DEF Configure
  <2> DEFINE p == store.policies[m]
             q == [p EXCEPT !.terms = terms]
  <2>2. q \in Policies /\ q.revision = p.revision
    BY <1>1 DEF Policies
  <2>3. Choose("configure", Settings(store, m, q), PartyTo(m)) /\ UNCHANGED <<agreed, forgotten>>
    BY <1>3, <2>1 DEF Configure
  <2> HIDE DEF q
  <2> QED
    BY <2>2, <2>3, SettingsKeep
<1>4. CASE Snooze
  <2>1. PICK m \in Members, until \in now + 1..bound.now :
          LET p == store.policies[m]
          IN  Choose("snooze", Settings(store, m, [p EXCEPT !.snoozed_until = until]), PartyTo(m))
    BY <1>4 DEF Snooze
  <2> DEFINE p == store.policies[m]
             q == [p EXCEPT !.snoozed_until = until]
  <2>2. now \in Nat /\ bound.now \in Nat
    BY EngagementAssumption DEF IInv, Types
  <2>3. until \in Nat
    BY <2>2
  <2>4. q \in Policies /\ q.revision = p.revision
    BY <1>1, <2>3 DEF Policies
  <2>5. Choose("snooze", Settings(store, m, q), PartyTo(m)) /\ UNCHANGED <<agreed, forgotten>>
    BY <1>4, <2>1 DEF Snooze
  <2> HIDE DEF q
  <2> QED
    BY <2>4, <2>5, SettingsKeep
<1> QED
  BY <1>2, <1>3, <1>4

LEMMA DismissKeeps == ASSUME IInv, Dismiss PROVE IInv'
<1>1. PICK id \in DOMAIN store.candidates : Choose("dismiss", Ended(store, {id}), {id})
  BY DEF Dismiss
<1> DEFINE e == Ended(store, {id})
<1>2. Sound(store, said)
  BY DEF IInv, Documented
<1>3. /\ Descends(store, e, said) /\ SameEntries(store, e)
      /\ \A i \in DOMAIN store.candidates \cap {id} : ~Open(e.candidates[i])
  BY <1>2, EndedDescends
<1>4. Choose("dismiss", e, {id}) /\ agreed' = agreed /\ forgotten' = forgotten
  BY <1>1 DEF Dismiss
<1> HIDE DEF e
<1>5. Attempting /\ engine.id \in {id} => Stale(e, engine)
  BY <1>3, ClosedIsStale
<1> QED
  BY <1>3, <1>4, <1>5, ChoiceDescends

LEMMA WithdrawIntroductionKeeps == ASSUME IInv, WithdrawIntroduction PROVE IInv'
<1>1. PICK v \in shown : /\ v.id \in DOMAIN store.introductions
                         /\ Choose("withdraw", Ended(store, {v.id}), {v.id})
  BY DEF WithdrawIntroduction
<1> DEFINE e == Ended(store, {v.id})
<1>2. Sound(store, said) /\ v.id \in DOMAIN store.candidates
  BY <1>1 DEF IInv, Documented, Sound, Booked
<1>3. /\ Descends(store, e, said) /\ SameEntries(store, e)
      /\ \A i \in DOMAIN store.candidates \cap {v.id} : ~Open(e.candidates[i])
  BY <1>2, EndedDescends
<1>4. Choose("withdraw", e, {v.id}) /\ agreed' = agreed /\ forgotten' = forgotten
  BY <1>1 DEF WithdrawIntroduction
<1> HIDE DEF e
<1>5. Attempting /\ engine.id \in {v.id} => Stale(e, engine)
  BY <1>2, <1>3, ClosedIsStale
<1> QED
  BY <1>3, <1>4, <1>5, ChoiceDescends

LEMMA SetCommunityKeeps == ASSUME IInv, SetCommunity PROVE IInv'
<1> DEFINE ids == {id \in DOMAIN store.candidates : store.candidates[id].kind # "follow_up"}
<1>1. PICK f \in {"question", "introduction"}, on \in {{}} \cup {{c} : c \in Channels} :
        Choose("community", Community(store, f, on), ids)
  BY DEF SetCommunity
<1> DEFINE e == Community(store, f, on)
<1>2. Sound(store, said) /\ on \in SUBSET Channels
  BY DEF IInv, Documented
<1>3. /\ Descends(store, e, said) /\ SameBook(store, e)
      /\ e.guild.revision > store.guild.revision
  BY <1>2, CommunityDescends
<1>4. Choose("community", e, ids) /\ agreed' = agreed /\ forgotten' = forgotten
  BY <1>1 DEF SetCommunity
<1> HIDE DEF e
<1>5. ASSUME Attempting, engine.id \in ids
      PROVE  Stale(e, engine)
  <2>1. engine.r.policy_revision \in 0..store.guild.revision
    BY <1>5 DEF IInv, Checked, Held
  <2>2. store.guild.revision \in Nat /\ e.guild.revision \in Nat
    BY <1>2, <1>3, Fields DEF Sound, Descends
  <2>3. e.guild.revision > engine.r.policy_revision
    BY <1>3, <2>1, <2>2
  <2> QED
    BY <1>3, <1>5, <2>3 DEF Stale, SameBook
<1> HIDE DEF ids
<1> QED
  BY <1>3, <1>4, <1>5, ChoiceDescends

LEMMA CreateIntroductionKeeps == ASSUME IInv, CreateIntroduction PROVE IInv'
<1>1. PICK pair \in Pairs, channel \in Channels, word \in Words :
        \E m \in pair :
          LET c == IntroductionCandidate(pair, channel, now, store.guild.revision)
              i == Introduction(pair, [x \in pair |-> IF x = m THEN word ELSE None], channel)
          IN  ~Known(store, c) /\ Choose("create", Created(store, c, i), {})
  BY DEF CreateIntroduction
<1>1a. PICK m \in pair :
        LET c == IntroductionCandidate(pair, channel, now, store.guild.revision)
            i == Introduction(pair, [x \in pair |-> IF x = m THEN word ELSE None], channel)
        IN  ~Known(store, c) /\ Choose("create", Created(store, c, i), {})
  BY <1>1
<1> DEFINE c == IntroductionCandidate(pair, channel, now, store.guild.revision)
           words == [x \in pair |-> IF x = m THEN word ELSE None]
           i == Introduction(pair, words, channel)
           e == Created(store, c, i)
<1>2. Sound(store, said) /\ store \in Documents /\ now \in Nat
  BY DEF IInv, Documented, Sound, Types
<1>3. store.guild.revision \in Nat
  BY <1>2, Fields
<1>4. pair \subseteq Members /\ word \in Nat
  BY EngagementAssumption
<1>5. /\ c \in CandidateRecords /\ Addressed(c) /\ c.state = "pending" /\ c.kind = "introduction"
      /\ c.who = pair /\ c.revision = 1 /\ c.channel = channel
  BY <1>2, <1>3, <1>4 DEF IntroductionCandidate, CandidateRecords, Kinds, Addressed, None
<1>6. words \in Wordings /\ DOMAIN words = pair
  BY <1>4, Worded DEF None
<1> HIDE DEF words
<1> DEFINE nobody == [x \in pair |-> 0]
<1>7. nobody \in Wordings /\ DOMAIN nobody = pair /\ \A x \in pair : nobody[x] = 0
  BY <1>4, Worded
<1>8. i = [revision |-> 1, channel |-> channel, words |-> words, approvals |-> nobody, state |-> "pending"]
  BY DEF Introduction
<1> HIDE DEF nobody, i, c
<1>9. /\ i \in IntroductionRecords /\ i.words = words /\ i.approvals = nobody /\ i.revision = 1
      /\ i.channel = channel /\ i.state = "pending"
  BY <1>6, <1>7, <1>8 DEF IntroductionRecords
<1>10. Paired(c, i) /\ \A x \in DOMAIN i.approvals : i.approvals[x] = 0
  BY <1>5, <1>6, <1>7, <1>9 DEF Paired, None
<1>11. ~Known(store, c) /\ Choose("create", e, {})
  BY <1>1a DEF c, i, words
<1>12. Descends(store, e, said)
  BY <1>2, <1>5, <1>9, <1>10, <1>11, CreatedDescends
<1> HIDE DEF e
<1>13. agreed' = agreed /\ forgotten' = forgotten
  BY DEF CreateIntroduction
<1> QED
  BY <1>11, <1>12, <1>13, ChoiceDescends

LEMMA EditIntroductionKeeps == ASSUME IInv, EditIntroduction PROVE IInv'
<1>1. PICK id \in DOMAIN store.introductions, channel \in Channels, word \in Words :
        LET i == store.introductions[id]
        IN  /\ store.candidates[id].state = "pending"
            /\ \E m \in DOMAIN i.words :
                 Choose("edit", Edited(store, id, m, channel, word), {id})
  BY DEF EditIntroduction
<1>2. PICK m \in DOMAIN store.introductions[id].words :
        Choose("edit", Edited(store, id, m, channel, word), {id})
  BY <1>1
<1> DEFINE e == Edited(store, id, m, channel, word)
<1>3. Sound(store, said) /\ word \in Nat
  BY EngagementAssumption DEF IInv, Documented
<1>4. Descends(store, e, said)
  BY <1>1, <1>3, EditedDescends
<1>5. Choose("edit", e, {id}) /\ agreed' = agreed /\ forgotten' = forgotten
  BY <1>2 DEF EditIntroduction
<1> HIDE DEF e
<1>6. id \in DOMAIN store.candidates
  BY <1>3 DEF Sound, Booked
<1>7. Attempting /\ engine.id \in {id} => Stale(e, engine)
  BY <1>1, <1>6, AttemptedIsSpent
<1> QED
  BY <1>4, <1>5, <1>7, ChoiceDescends

LEMMA ApproveKeeps == ASSUME IInv, Approve PROVE IInv'
<1>1. PICK v \in shown : /\ v.id \in DOMAIN store.introductions
                         /\ \E m \in DOMAIN v.words :
                              /\ Approvable(v.id, m, v.revision)
                              /\ agreed' = agreed \cup {[id |-> v.id, member |-> m,
                                             word |-> v.words[m], channel |-> v.channel]}
                              /\ Choose("approve", Approved(store, v.id, m), {})
  BY DEF Approve
<1>2. PICK m \in DOMAIN v.words :
        /\ Approvable(v.id, m, v.revision)
        /\ agreed' = agreed \cup {[id |-> v.id, member |-> m,
                       word |-> v.words[m], channel |-> v.channel]}
        /\ Choose("approve", Approved(store, v.id, m), {})
  BY <1>1
<1> DEFINE i == store.introductions[v.id]
           e == Approved(store, v.id, m)
<1>3. Sound(store, said) /\ Presents(store, v)
  BY DEF IInv, Documented, Presented
<1>4. /\ i.revision = v.revision /\ i.state \in {"pending", "ready"}
      /\ store.candidates[v.id].state = "pending" /\ i.words[m] # None
  BY <1>2 DEF Approvable
<1>5. v.words = i.words /\ v.channel = i.channel
  BY <1>1, <1>3, <1>4 DEF Presents
<1>6. m \in DOMAIN i.words
  BY <1>5
<1>7. /\ Sound(e, said) /\ Follows(store, e) /\ DOMAIN e.introductions = DOMAIN store.introductions
      /\ \A a \in DOMAIN store.introductions :
           /\ e.introductions[a].words = store.introductions[a].words
           /\ e.introductions[a].channel = store.introductions[a].channel
           /\ DOMAIN e.introductions[a].approvals = DOMAIN store.introductions[a].approvals
           /\ \A x \in DOMAIN store.introductions[a].approvals :
                (a = v.id /\ x = m)
                \/ e.introductions[a].approvals[x] = store.introductions[a].approvals[x]
  BY <1>1, <1>3, <1>4, <1>6, ApprovedDescends
<1>8. Choose("approve", e, {}) /\ forgotten' = forgotten
  BY <1>2 DEF Approve
<1> HIDE DEF e
<1>9. Attested(store, agreed) /\ Attested(durable, agreed)
  BY DEF IInv, Agreed
<1>10. Attested(e, agreed')
  BY <1>2, <1>5, <1>7, <1>9 DEF Attested
<1>11. Attested(store, agreed') /\ Attested(durable, agreed')
  BY <1>2, <1>9 DEF Attested
<1>12. Ventured(e) => Agreed'
  BY <1>10, <1>11 DEF Agreed, Ventured
<1> QED
  BY <1>7, <1>8, <1>12, ChoiceKeeps

-----------------------------------------------------------------------------

LEMMA ObserveKeeps == ASSUME IInv, Observe PROVE IInv'
<1>1. PICK k \in DOMAIN said : Event(Observation(store, k), Outdated(store, k))
  BY DEF Observe
<1> DEFINE e == Observation(store, k)
<1>2. Sound(store, said) /\ said \in Seq(Messages)
  BY DEF IInv, Documented, Types
<1>3. /\ Descends(store, e, said)
      /\ \A id \in Outdated(store, k) \cap DOMAIN store.candidates : ~Open(e.candidates[id])
  BY <1>2, ObservationDescends
<1>4. Event(e, Outdated(store, k))
  BY <1>1
<1>5. Outdated(store, k) \subseteq DOMAIN store.candidates
  BY DEF Outdated
<1> HIDE DEF e
<1>6. Attempting /\ engine.id \in Outdated(store, k) => Stale(e, engine)
  BY <1>3, <1>5, ClosedIsStale
<1> QED
  BY <1>3, <1>4, <1>6, EventDescends

LEMMA DeleteSourceKeeps == ASSUME IInv, DeleteSource PROVE IInv'
<1>1. PICK k \in gone :
        LET ids == {id \in DOMAIN store.candidates :
                      store.candidates[id].source = k /\ Open(store.candidates[id])}
        IN  Event(DeletedSource(store, k, ids), ids)
  BY DEF DeleteSource
<1> DEFINE ids == {id \in DOMAIN store.candidates :
                     store.candidates[id].source = k /\ Open(store.candidates[id])}
           e == DeletedSource(store, k, ids)
<1>2. Sound(store, said) /\ said \in Seq(Messages) /\ k \in DOMAIN said
  BY DEF IInv, Documented, Types
<1>3. \A id \in ids \cap DOMAIN store.candidates : store.candidates[id].source # None
  BY <1>2, MessageFields DEF None
<1>4. Event(e, ids) /\ ids \subseteq DOMAIN store.candidates
  BY <1>1
<1> HIDE DEF ids
<1>5. /\ Descends(store, e, said)
      /\ \A id \in ids \cap DOMAIN store.candidates : ~Open(e.candidates[id])
  BY <1>2, <1>3, DeletedSourceDescends
<1> HIDE DEF e
<1>6. Attempting /\ engine.id \in ids => Stale(e, engine)
  BY <1>4, <1>5, ClosedIsStale
<1> QED
  BY <1>4, <1>5, <1>6, EventDescends

-----------------------------------------------------------------------------
(* Exchanges *)

LEMMA ExchangeDescends ==
  ASSUME IInv, NEW e, NEW ids, Descends(store, e, said), Commits(e) \/ Fails(e), ReplyTyped',
         UNCHANGED <<healthy, engine, discord, posts, consent, bound>>,
         (Withdraws(ids) /\ store' = e) \/ withdrawn' = withdrawn,
         Attempting /\ engine.id \in ids => Stale(e, engine)
  PROVE  IInv'
<1>1. Sound(e, said) /\ Follows(store, e) /\ ApprovesNothing(store, e)
  BY DEF Descends
<1>2. Admitted(e, store) /\ (Saved(e) \/ NotSaved(e))
  BY DEF Commits, Fails
<1>3. Ventured(e) /\ diverged' \in BOOLEAN
  BY <1>2, CommitsVenture
<1>4. /\ UNCHANGED <<now, bound, said, gone, posts>> /\ engine' = engine /\ healthy' = healthy
      /\ shown' = shown /\ forgotten' = forgotten /\ agreed' = agreed
  BY DEF discord, consent
<1>5. /\ Documented' /\ Recorded' /\ Presented' /\ Forgotten' /\ Inherited
      /\ Sound(store', said) /\ Follows(store, store')
  BY <1>1, <1>2, <1>3, <1>4, FilesStay
<1>6. withdrawn' \in BOOLEAN
  BY DEF Withdraws, IInv, Types
<1>7. withdrawn' => withdrawn \/ ~healthy' \/ (Attempting => Stale(store', engine))
  <2>1. CASE Withdraws(ids) /\ store' = e
    <3>1. withdrawn' = (withdrawn \/ engine.id \in ids)
      BY <2>1, Zenon DEF Withdraws
    <3> QED
      BY <2>1, <3>1, Zenon
  <2>2. CASE withdrawn' = withdrawn
    BY <2>2, Zenon
  <2> QED
    BY <2>1, <2>2
<1>8. EngineTyped' /\ (Attempting' <=> Attempting)
  BY <1>4, EngineStays
<1>9. Types'
  BY <1>3, <1>4, <1>5, <1>6, <1>8, TypesStay
<1>10. Reserving'
  BY <1>4, <1>5, <1>8, ReservingStays
<1>11. Checked'
  BY <1>4, <1>5, <1>7, CheckedStays
<1>12. Agreed'
  BY <1>1, <1>3, <1>4, AgreedStays
<1> QED
  BY <1>5, <1>9, <1>10, <1>11, <1>12 DEF IInv

LEMMA CompleteKeeps == ASSUME IInv, Complete PROVE IInv'
<1>1. PICK k \in DOMAIN said :
        LET m == said[k].author
            d == Answered(store, m, k)
            ks == Sources(d, k)
        IN  \/ /\ Commits(d)
               /\ reply' = IF Assessable(d, m, said[k].channel, ks)
                    THEN [at |-> "assessing", k |-> k, sources |-> ks,
                          policy |-> d.policies[m].revision]
                    ELSE NoReply
            \/ Fails(d) /\ UNCHANGED reply
  BY DEF Complete
<1> DEFINE m == said[k].author
           e == Answered(store, m, k)
<1>2. Sound(store, said) /\ said \in Seq(Messages)
  BY DEF IInv, Documented, Types
<1>3. m \in Members
  BY <1>2, MessageFields
<1>4. Descends(store, e, said)
  BY <1>2, <1>3, AnsweredDescends
<1>5. Sources(e, k) \subseteq DOMAIN said
  BY <1>3, <1>4 DEF Sources, Descends, Sound, Attributed
<1>6. /\ Commits(e) \/ Fails(e)
      /\ \/ reply' = [at |-> "assessing", k |-> k, sources |-> Sources(e, k),
                      policy |-> e.policies[m].revision]
         \/ reply' \in {reply, NoReply}
  BY <1>1
<1>7. /\ UNCHANGED <<healthy, engine, discord, posts, consent, bound>> /\ withdrawn' = withdrawn
      /\ said' = said
  BY DEF Complete, discord
<1>8. ReplyTyped'
  <2>1. CASE reply' = [at |-> "assessing", k |-> k, sources |-> Sources(e, k),
                       policy |-> e.policies[m].revision]
    BY <1>5, <1>7, <2>1 DEF ReplyTyped
  <2> QED
    BY <1>6, <1>7, <2>1, ReplyStays
<1> HIDE DEF e
<1> DEFINE ids == {}
<1>9. Attempting /\ engine.id \in ids => Stale(e, engine)
  OBVIOUS
<1> HIDE DEF ids
<1> QED
  BY <1>4, <1>6, <1>7, <1>8, <1>9, ExchangeDescends

LEMMA ResolvedKeeps == ASSUME IInv, Resolved PROVE IInv'
<1> DEFINE k == Latest(reply.sources)
           Ids(m) == {id \in DOMAIN store.candidates :
                        LET c == store.candidates[id]
                        IN  Open(c) /\ c.kind = "follow_up" /\ c.who = {m}
                            /\ c.channel = said[k].channel /\ said[c.source].at <= said[k].at}
<1>1. PICK m \in Members :
        /\ Assessed(m)
        /\ \/ Commits(Cancelled(store, Ids(m))) /\ Withdraws(Ids(m))
           \/ Fails(Cancelled(store, Ids(m))) /\ UNCHANGED withdrawn
  BY DEF Resolved
<1> DEFINE ids == Ids(m)
           e == Cancelled(store, ids)
<1>2. Sound(store, said)
  BY DEF IInv, Documented
<1>3. /\ ids \subseteq DOMAIN store.candidates
      /\ \A id \in ids \cap DOMAIN store.candidates : store.candidates[id].kind # "introduction"
  OBVIOUS
<1>4. /\ Commits(e) \/ Fails(e)
      /\ (Withdraws(ids) /\ Commits(e)) \/ withdrawn' = withdrawn
  BY <1>1
<1> HIDE DEF ids
<1>5. /\ Descends(store, e, said)
      /\ \A id \in ids \cap DOMAIN store.candidates : ~Open(e.candidates[id])
  BY <1>2, <1>3, CancelledDescends
<1> HIDE DEF e
<1>6. (Withdraws(ids) /\ store' = e) \/ withdrawn' = withdrawn
  BY <1>4 DEF Commits, Saved
<1>7. Attempting /\ engine.id \in ids => Stale(e, engine)
  BY <1>3, <1>5, ClosedIsStale
<1>8. UNCHANGED <<healthy, engine, discord, posts, consent, bound>> /\ reply' = NoReply /\ said' = said
  BY <1>1 DEF Assessed, discord
<1>9. ReplyTyped'
  BY <1>8, ReplyStays
<1> QED
  BY <1>4, <1>5, <1>6, <1>7, <1>8, <1>9, ExchangeDescends

\* Of several messages one is the latest.
LEMMA LatestIsOneOf ==
  ASSUME NEW messages \in Seq(Messages), NEW ks \in SUBSET (DOMAIN messages), ks # {}
  PROVE  Latest(ks) \in ks
<1>1. PICK n \in Nat : n = Len(messages) /\ DOMAIN messages = 1..n
  OBVIOUS
<1> DEFINE R == OpToRel(<, Nat)
           back == {n - k : k \in ks}
<1>2. IsWellFoundedOn(R, Nat)
  BY NatLessThanWellFounded
<1>3. back \subseteq Nat /\ back # {}
  BY <1>1
<1>4. PICK x \in back : \A y \in back : ~(<<y, x>> \in R)
  BY <1>2, <1>3, WFMin
<1>5. PICK k \in ks : x = n - k
  BY <1>4
<1>6. ASSUME NEW o \in ks
      PROVE  o <= k
  <2>1. n - o \in back /\ n - o \in Nat /\ x \in Nat
    BY <1>3, <1>4
  <2>2. ~(<<n - o, x>> \in R)
    BY <1>4, <2>1
  <2>3. ~(n - o < x)
    BY <2>1, <2>2 DEF OpToRel
  <2> QED
    BY <1>1, <1>5, <2>3
<1> QED
  BY <1>5, <1>6 DEF Latest

LEMMA UnresolvedKeeps == ASSUME IInv, Unresolved PROVE IInv'
<1> DEFINE k == Latest(reply.sources)
<1>1. PICK m \in Members :
        LET c == Candidate("follow_up", {m}, k, said[k].at + Day, 0)
            d == Proposed(store, c)
        IN  Assessed(m) /\ ~Known(store, c) /\ (Commits(d) \/ Fails(d)) /\ UNCHANGED withdrawn
  BY DEF Unresolved
<1> DEFINE c == Candidate("follow_up", {m}, k, said[k].at + Day, 0)
           e == Proposed(store, c)
<1>2. Sound(store, said) /\ said \in Seq(Messages)
  BY DEF IInv, Documented, Types
<1>3. reply.sources \subseteq DOMAIN said /\ reply.sources # {}
  BY <1>1 DEF IInv, Types, ReplyTyped, Assessed, Assessable
<1>4. k \in DOMAIN said
  BY <1>2, <1>3, LatestIsOneOf
<1>5. k \in Nat \ {0} /\ said[k].channel \in Channels /\ said[k].at \in Nat
  BY <1>2, <1>4, MessageFields
<1>6. ~Known(store, c) /\ (Commits(e) \/ Fails(e)) /\ withdrawn' = withdrawn
  BY <1>1
<1>7. UNCHANGED <<healthy, engine, discord, posts, consent, bound>> /\ reply' = NoReply /\ said' = said
  BY <1>1 DEF Assessed, discord
<1> HIDE DEF k
<1>8. /\ c \in CandidateRecords /\ Addressed(c) /\ c.state = "pending"
      /\ c.kind # "introduction" /\ c.source = k
  BY <1>5, EngagementAssumption DEF Candidate, CandidateRecords, Kinds, Addressed, None
<1> HIDE DEF c
<1>9. Descends(store, e, said)
  BY <1>2, <1>4, <1>6, <1>8, ProposedDescends
<1> HIDE DEF e
<1>10. ReplyTyped'
  BY <1>7, ReplyStays
<1> DEFINE ids == {}
<1>11. Attempting /\ engine.id \in ids => Stale(e, engine)
  OBVIOUS
<1> HIDE DEF ids
<1> QED
  BY <1>6, <1>7, <1>9, <1>10, <1>11, ExchangeDescends

LEMMA UnassessedKeeps == ASSUME IInv, Unassessed PROVE IInv'
<1>1. /\ UNCHANGED <<store, durable, diverged, healthy, engine, said, gone, now, posts, withdrawn,
                     shown, agreed, forgotten, bound>>
      /\ reply' = NoReply
  BY DEF Unassessed, files, discord, consent, bounds
<1>2. ReplyTyped' /\ EngineTyped'
  BY <1>1, ReplyStays, EngineStays
<1>3. Types'
  BY <1>1, <1>2 DEF IInv, Types, ShownTyped
<1> QED
  BY <1>1, <1>3 DEF IInv, Documented, Recorded, Reserving, Checked, Attempting, Agreed, Presented,
     Forgotten

-----------------------------------------------------------------------------
(* Discord, erasures and restarts *)

LEMMA SayKeeps == ASSUME IInv, Say PROVE IInv'
<1>1. PICK x \in [author : Members, channel : Channels, at : {now}] : said' = Append(said, x)
  BY DEF Say
<1>2. /\ UNCHANGED <<store, durable, diverged, healthy, engine, reply, gone, now, posts, withdrawn,
                     shown, agreed, forgotten, bound>>
  BY DEF Say, files, consent, bounds
<1>3. x \in Messages /\ x.at = now /\ now \in Nat /\ said \in Seq(Messages)
  BY <1>1 DEF IInv, Types, Messages
<1>4. /\ said' \in Seq(Messages) /\ DOMAIN said \subseteq DOMAIN said'
      /\ \A k \in DOMAIN said : said'[k] = said[k]
      /\ \A k \in DOMAIN said' : k \in DOMAIN said \/ said'[k] = x
  BY <1>1, <1>3
<1>5. Types'
  <2>1. \A k \in DOMAIN said' : said'[k].at <= now'
    BY <1>2, <1>3, <1>4 DEF IInv, Types
  <2>2. EngineTyped' /\ ReplyTyped' /\ ShownTyped'
    BY <1>2, <1>4 DEF IInv, Types, EngineTyped, ReplyTyped, ShownTyped, Attempting
  <2> QED
    BY <1>2, <1>4, <2>1, <2>2 DEF IInv, Types
<1>6. Documented'
  <2>1. \A d : Attributed(d, said) => Attributed(d, said')
    BY <1>4 DEF Attributed
  <2> QED
    BY <1>2, <2>1 DEF IInv, Documented, Sound
<1>7. Forgotten'
  <2>1. \A d : Forgets(d, forgotten, said) => Forgets(d, forgotten, said')
    BY <1>4 DEF Forgets
  <2> QED
    BY <1>2, <2>1 DEF IInv, Forgotten
<1> QED
  BY <1>2, <1>5, <1>6, <1>7 DEF IInv, Recorded, Reserving, Checked, Attempting, Agreed, Presented

LEMMA EditOrDeleteKeeps == ASSUME IInv, EditOrDelete PROVE IInv'
<1>1. /\ UNCHANGED <<store, durable, diverged, healthy, engine, reply, said, now, posts, withdrawn,
                     shown, agreed, forgotten, bound>>
  BY DEF EditOrDelete, files, consent
<1>2. gone' \subseteq DOMAIN said
  BY DEF EditOrDelete, IInv, Types
<1>3. Types'
  BY <1>1, <1>2 DEF IInv, Types, EngineTyped, ReplyTyped, ShownTyped, Attempting
<1> QED
  BY <1>1, <1>3 DEF IInv, Documented, Recorded, Reserving, Checked, Attempting, Agreed, Presented,
     Forgotten

LEMMA TickKeeps == ASSUME IInv, Tick PROVE IInv'
<1>1. /\ UNCHANGED <<store, durable, diverged, healthy, engine, reply, said, gone, posts, withdrawn,
                     shown, agreed, forgotten, bound>>
      /\ now' = now + 1 /\ now \in Nat
  BY DEF Tick, files, consent, bounds, IInv, Types
<1>2. \A k \in DOMAIN said' : said'[k].at <= now'
  <2>1. \A k \in DOMAIN said : said[k].at \in Nat /\ said[k].at <= now
    BY MessageFields DEF IInv, Types
  <2> QED
    BY <1>1, <2>1
<1>3. Types'
  BY <1>1, <1>2 DEF IInv, Types, EngineTyped, ReplyTyped, ShownTyped, Attempting
<1> QED
  BY <1>1, <1>3 DEF IInv, Documented, Recorded, Reserving, Checked, Attempting, Agreed, Presented,
     Forgotten

LEMMA ErasureIsAdmitted ==
  ASSUME IInv, NEW own \in SUBSET Members
  PROVE  Admitted(EraseLearning(store, own), store)
<1> DEFINE e == EraseLearning(store, own)
<1>1. Sound(store, said) /\ now \in Nat
  BY DEF IInv, Documented, Types
<1>2. /\ DOMAIN e.candidates = DOMAIN store.candidates \ OwnedBy(store, own)
      /\ \A id \in DOMAIN e.candidates : e.candidates[id] = store.candidates[id]
      /\ \A m \in Members : e.eligibility[m] = IF m \in own THEN {} ELSE store.eligibility[m]
  BY <1>1, ErasedDescends
<1>3. ASSUME NEW o \in Observed(e) \ Observed(store)
      PROVE  o.message = None
  <2>1. PICK m \in Members, c \in Channels : o = e.observations[m][c]
    BY DEF Observed
  <2>2. e.observations[m][c] =
          IF m \in own THEN [message |-> None, edited |-> FALSE] ELSE store.observations[m][c]
    BY <1>1, Fields DEF EraseLearning, Sound
  <2>3. store.observations[m][c] \in Observed(store)
    BY DEF Observed
  <2> QED
    BY <2>1, <2>2, <2>3
<1> HIDE DEF e
<1>4. \A m \in Members : e.eligibility[m] \ store.eligibility[m] = {}
  BY <1>2
<1> QED
  BY <1>2, <1>3, <1>4 DEF Admitted, e

LEMMA ErasedForgets ==
  ASSUME IInv, NEW own \in SUBSET Members,
         NEW erased, erased = [sources |-> forgotten.sources \cup {k \in DOMAIN said : said[k].author \in own},
                               pairs |-> forgotten.pairs
                                  \cup ({store.candidates[id].who : id \in OwnedBy(store, own)} \cap Pairs)]
  PROVE  Forgets(EraseLearning(store, own), erased, said)
<1> DEFINE e == EraseLearning(store, own)
           sources == {k \in DOMAIN said : said[k].author \in own}
<1>1. /\ Sound(store, said) /\ Forgets(store, forgotten, said)
      /\ said \in Seq(Messages) /\ now \in Nat /\ \A k \in DOMAIN said : said[k].at <= now
  BY DEF IInv, Documented, Forgotten, Types
<1>2. /\ Descends(store, e, said)
      /\ DOMAIN e.candidates = DOMAIN store.candidates \ OwnedBy(store, own)
      /\ \A id \in DOMAIN e.candidates : e.candidates[id] = store.candidates[id]
      /\ \A m \in Members : e.ledger[m] = IF m \in own THEN now ELSE store.ledger[m]
      /\ \A m \in Members : e.eligibility[m] = IF m \in own THEN {} ELSE store.eligibility[m]
      /\ \A m \in Members, c \in Channels : e.observations[m][c].message =
           IF m \in own THEN None ELSE store.observations[m][c].message
      /\ \A id \in OwnedBy(store, own) : Identity(store.candidates[id]) \in e.erased_identities
  BY <1>1, ErasedDescends
<1>3. Forgets(e, forgotten, said)
  BY <1>1, <1>2, ErasureIsAdmitted, ForgetsStays DEF Descends
<1> HIDE DEF e
<1>4. ASSUME NEW k \in sources
      PROVE  k \in DOMAIN said /\ said[k].at <= e.ledger[said[k].author]
  BY <1>1, <1>2, MessageFields
<1>5. ASSUME NEW id \in OwnedBy(store, own), store.candidates[id].who \in Pairs
      PROVE  [kind |-> "introduction", who |-> store.candidates[id].who, source |-> None]
               \in e.erased_identities
  <2> DEFINE c == store.candidates[id]
  <2>1. id \in DOMAIN store.candidates
    BY DEF OwnedBy
  <2>2. c \in CandidateRecords /\ Addressed(c)
    BY <1>1, <2>1, Fields DEF Sound, Booked
  <2>3. PICK a, b \in Members : a # b /\ c.who = {a, b}
    BY <1>5, EngagementAssumption
  <2>4. c.kind = "introduction" /\ c.source = None
    BY <2>2, <2>3 DEF Addressed, CandidateRecords, Kinds
  <2> QED
    BY <1>2, <2>4 DEF Identity
<1>6. ASSUME NEW id \in DOMAIN e.candidates
      PROVE  e.candidates[id].source \notin sources
  <2>1. id \in DOMAIN store.candidates /\ id \notin OwnedBy(store, own)
        /\ e.candidates[id] = store.candidates[id]
    BY <1>2
  <2>2. None \notin sources
    BY <1>1, MessageFields DEF None
  <2> QED
    BY <2>1, <2>2 DEF OwnedBy
<1>7. ASSUME NEW m \in Members, NEW c \in Channels
      PROVE  e.observations[m][c].message \notin sources
  <2>1. None \notin sources
    BY <1>1, MessageFields DEF None
  <2>2. store.observations[m][c].message # None => said[store.observations[m][c].message].author = m
    BY <1>1 DEF Sound, Attributed
  <2> QED
    BY <1>2, <2>1, <2>2
<1>8. ASSUME NEW m \in Members
      PROVE  e.eligibility[m] \cap sources = {}
  <2>1. \A k \in store.eligibility[m] : said[k].author = m
    BY <1>1 DEF Sound, Attributed
  <2> QED
    BY <1>2, <2>1
<1>9. /\ \A k \in sources : k \in DOMAIN said /\ said[k].at <= e.ledger[said[k].author]
      /\ \A c \in Candidates(e) : c.source \notin sources
      /\ \A o \in Observed(e) : o.message \notin sources
      /\ \A m \in Members : e.eligibility[m] \cap sources = {}
  BY <1>4, <1>6, <1>7, <1>8 DEF Candidates, Observed
<1> HIDE DEF sources
<1>10. /\ erased.sources = forgotten.sources \cup sources
       /\ \A p \in erased.pairs : p \in forgotten.pairs
            \/ \E id \in OwnedBy(store, own) : p = store.candidates[id].who /\ p \in Pairs
  BY DEF sources
<1>11. \A p \in erased.pairs :
         [kind |-> "introduction", who |-> p, source |-> None] \in e.erased_identities
  BY <1>3, <1>5, <1>10 DEF Forgets
<1>12. Forgets(e, erased, said)
  BY <1>3, <1>9, <1>10, <1>11 DEF Forgets
<1> QED
  BY <1>12 DEF e

LEMMA EraseKeeps == ASSUME IInv, Erase PROVE IInv'
<1>1. PICK own \in {Members} \cup {{m} : m \in Members} :
        LET d == EraseLearning(store, own)
            pairs == {store.candidates[id].who : id \in OwnedBy(store, own)} \cap Pairs
            ids == OwnedBy(store, own)
            sources == {k \in DOMAIN said : said[k].author \in own}
        IN  /\ store' = d /\ Withdraws(ids)
            /\ \/ /\ ~diverged /\ durable' = d /\ UNCHANGED mishaps
                  /\ forgotten' = [sources |-> forgotten.sources \cup sources,
                                   pairs |-> forgotten.pairs \cup pairs]
               \/ /\ diverged /\ UNCHANGED <<durable, mishaps, forgotten>>
               \/ /\ ~diverged /\ choices' + mishaps < bound.events /\ mishaps' = mishaps + 1
                  /\ durable' \in {durable, d} /\ UNCHANGED forgotten
  BY DEF Erase
<1> DEFINE e == EraseLearning(store, own)
           ids == OwnedBy(store, own)
           erased == [sources |-> forgotten.sources \cup {k \in DOMAIN said : said[k].author \in own},
                      pairs |-> forgotten.pairs
                         \cup ({store.candidates[id].who : id \in OwnedBy(store, own)} \cap Pairs)]
<1>2. own \in SUBSET Members
  OBVIOUS
<1>3. Sound(store, said) /\ now \in Nat /\ withdrawn \in BOOLEAN
  BY DEF IInv, Documented, Types
<1>4. /\ Descends(store, e, said) /\ DOMAIN e.candidates = DOMAIN store.candidates \ ids
      /\ Versions(e) \subseteq Versions(store)
  BY <1>2, <1>3, ErasedDescends
<1>5. Sound(e, said) /\ Follows(store, e) /\ ApprovesNothing(store, e)
  BY <1>4 DEF Descends
<1>6. Admitted(e, store) /\ Forgets(e, erased, said)
  BY <1>2, ErasureIsAdmitted, ErasedForgets
<1>7. /\ store' = e /\ Withdraws(ids) /\ durable' \in {durable, e}
      /\ (durable' = e /\ forgotten' = erased) \/ forgotten' = forgotten
  BY <1>1
<1>8. UNCHANGED <<diverged, healthy, engine, reply, said, gone, now, posts, shown, agreed, bound>>
  BY DEF Erase, discord
<1> HIDE DEF e, ids, erased
<1>9. Ventured(e)
  BY <1>4, <1>7 DEF Ventured
<1>10. /\ Documented' /\ Recorded' /\ Presented' /\ Inherited
       /\ Sound(store', said) /\ Follows(store, store')
  BY <1>5, <1>8, <1>9, FilesFollow
<1>11. Forgotten'
  <2>1. CASE durable' = e /\ forgotten' = erased
    <3>1. erased.pairs \subseteq Pairs
      BY DEF erased, IInv, Forgotten
    <3> QED
      BY <1>6, <1>7, <1>8, <2>1, <3>1 DEF Forgotten
  <2>2. CASE forgotten' = forgotten
    BY <1>5, <1>6, <1>8, <1>9, <2>2, ForgottenStays
  <2> QED
    BY <1>7, <2>1, <2>2
<1>12. withdrawn' = (withdrawn \/ engine.id \in ids)
  BY <1>7, Zenon DEF Withdraws
<1>13. withdrawn' \in BOOLEAN
  BY <1>3, <1>12
<1>14. engine.id \in ids => Stale(store', engine)
  BY <1>4, <1>7 DEF Stale
<1>15. withdrawn' => withdrawn \/ ~healthy' \/ (Attempting => Stale(store', engine))
  BY <1>12, <1>14, Zenon
<1>16. EngineTyped' /\ (Attempting' <=> Attempting) /\ ReplyTyped'
  BY <1>8, EngineStays, ReplyStays
<1>17. diverged' \in BOOLEAN
  BY <1>8 DEF IInv, Types
<1>18. Types'
  BY <1>8, <1>10, <1>13, <1>16, <1>17, TypesStay
<1>19. Reserving'
  BY <1>8, <1>10, <1>16, ReservingStays
<1>20. Checked'
  BY <1>8, <1>10, <1>15, CheckedStays
<1>21. Agreed'
  BY <1>5, <1>8, <1>9, AgreedStays
<1> QED
  BY <1>10, <1>11, <1>18, <1>19, <1>20, <1>21 DEF IInv

LEMMA RestartKeeps == ASSUME IInv, Restart PROVE IInv'
<1> DEFINE e == Recovered(durable)
<1>1. /\ store' = e /\ durable' = durable /\ diverged' = FALSE /\ engine' = AtRest
      /\ reply' = NoReply /\ withdrawn' = FALSE /\ shown' = shown \cup Versions(store')
      /\ UNCHANGED <<said, gone, now, posts, agreed, forgotten, bound>>
  BY DEF Restart, discord
<1>2. Sound(durable, said)
  BY DEF IInv, Documented
<1>3. /\ Descends(durable, e, said) /\ e.introductions = durable.introductions
      /\ SameEntries(durable, e) /\ SameRules(durable, e) /\ SameSight(durable, e)
      /\ \A id \in DOMAIN durable.candidates :
           Identity(e.candidates[id]) = Identity(durable.candidates[id])
  BY <1>2, RecoveredDescends
<1> HIDE DEF e
<1>4. Sound(e, said) /\ Follows(durable, e) /\ ApprovesNothing(durable, e)
  BY <1>3 DEF Descends
<1>5. Follows(durable, durable)
  BY <1>2, FollowsItself DEF Sound
<1>6. Inherited /\ Documented'
  BY <1>1, <1>2, <1>4, <1>5 DEF Inherited, Documented
<1>7. Recorded'
  BY <1>1, <1>6, RecordedStays
<1>8. Sound(store', said) /\ engine'.at = "idle"
  BY <1>1, <1>4 DEF AtRest
<1>9. Reserving' /\ Checked'
  BY <1>8, NoAttempt
<1>10. EngineTyped' /\ ReplyTyped'
  BY <1>1, ReplyStays DEF EngineTyped, EngineStages, Attempting, AtRest
<1>11. Types'
  BY <1>1, <1>8, <1>10, TypesStay
<1>12. Agreed'
  BY <1>1, <1>4, AttestedStays DEF IInv, Agreed
<1>13. Presented'
  <2>1. Versions(store') = Versions(durable)
    BY <1>1, <1>3 DEF Versions, Version
  <2>2. ASSUME NEW v \in shown \cup Versions(durable)
        PROVE  Presents(durable, v) /\ Presents(e, v)
    <3>1. Presents(durable, v) /\ v.id \in Nat /\ v.revision \in Nat
      BY <1>2, PresentsItself DEF IInv, Presented, Types, ShownTyped
    <3>2. Presents(e, v)
      BY <1>2, <1>4, <3>1, PresentsStays DEF Sound, Follows
    <3> QED
      BY <3>1, <3>2
  <2> QED
    BY <1>1, <2>1, <2>2 DEF Presented
<1>14. Forgotten'
  <2>1. Forgets(durable, forgotten, said) /\ forgotten.pairs \subseteq Pairs
    BY DEF IInv, Forgotten
  <2>2. \A id \in DOMAIN e.candidates : id \in DOMAIN durable.candidates
          /\ e.candidates[id].source = durable.candidates[id].source
    BY <1>3 DEF SameEntries, Identity
  <2>3. Forgets(e, forgotten, said)
    BY <1>3, <2>1, <2>2 DEF Forgets, Candidates, Observed, SameEntries, SameRules, SameSight
  <2> QED
    BY <1>1, <2>1, <2>3 DEF Forgotten
<1> QED
  BY <1>6, <1>7, <1>9, <1>11, <1>12, <1>13, <1>14 DEF IInv

-----------------------------------------------------------------------------
(* The pass *)

Waiting == {"idle", "choosing", "planning", "picked", "authorized"}

EngineOf(at, left, id, plan, r, outcome) ==
  [at |-> at, left |-> left, id |-> id, plan |-> plan, r |-> r, outcome |-> outcome]

\* The ways a pass changes it.
Turned(x, at) == [x EXCEPT !.at = at]
Holding(x, at, r) == [x EXCEPT !.at = at, !.r = r]
Ending(x, at, outcome) == [x EXCEPT !.at = at, !.outcome = outcome]
Choosing(x, at, left) == [x EXCEPT !.at = at, !.left = left]
Planning(x, at, id) == [x EXCEPT !.at = at, !.id = id]
Picking(x, at, id, left, plan) == [x EXCEPT !.at = at, !.id = id, !.left = left, !.plan = plan]

LEMMA TurnedEngine ==
  ASSUME NEW at, NEW left, NEW id, NEW plan, NEW r, NEW outcome, NEW v,
         NEW x, x = EngineOf(at, left, id, plan, r, outcome)
  PROVE  Turned(x, v) = EngineOf(v, left, id, plan, r, outcome)
BY DEF Turned, EngineOf

LEMMA HoldingEngine ==
  ASSUME NEW at, NEW left, NEW id, NEW plan, NEW r, NEW outcome, NEW v, NEW w,
         NEW x, x = EngineOf(at, left, id, plan, r, outcome)
  PROVE  Holding(x, v, w) = EngineOf(v, left, id, plan, w, outcome)
<1> DEFINE y == [x EXCEPT !.at = v]
<1>1. Holding(x, v, w) = [y EXCEPT !.r = w]
  BY Zenon DEF Holding
<1>2. y = EngineOf(v, left, id, plan, r, outcome)
  BY DEF EngineOf
<1> HIDE DEF y
<1>3. [y EXCEPT !.r = w] = EngineOf(v, left, id, plan, w, outcome)
  BY <1>2 DEF EngineOf
<1> QED
  BY <1>1, <1>3

LEMMA EndingEngine ==
  ASSUME NEW at, NEW left, NEW id, NEW plan, NEW r, NEW outcome, NEW v, NEW w,
         NEW x, x = EngineOf(at, left, id, plan, r, outcome)
  PROVE  Ending(x, v, w) = EngineOf(v, left, id, plan, r, w)
<1> DEFINE y == [x EXCEPT !.at = v]
<1>1. Ending(x, v, w) = [y EXCEPT !.outcome = w]
  BY Zenon DEF Ending
<1>2. y = EngineOf(v, left, id, plan, r, outcome)
  BY DEF EngineOf
<1> HIDE DEF y
<1>3. [y EXCEPT !.outcome = w] = EngineOf(v, left, id, plan, r, w)
  BY <1>2 DEF EngineOf
<1> QED
  BY <1>1, <1>3

LEMMA ChoosingEngine ==
  ASSUME NEW at, NEW left, NEW id, NEW plan, NEW r, NEW outcome, NEW v, NEW w,
         NEW x, x = EngineOf(at, left, id, plan, r, outcome)
  PROVE  Choosing(x, v, w) = EngineOf(v, w, id, plan, r, outcome)
<1> DEFINE y == [x EXCEPT !.at = v]
<1>1. Choosing(x, v, w) = [y EXCEPT !.left = w]
  BY Zenon DEF Choosing
<1>2. y = EngineOf(v, left, id, plan, r, outcome)
  BY DEF EngineOf
<1> HIDE DEF y
<1>3. [y EXCEPT !.left = w] = EngineOf(v, w, id, plan, r, outcome)
  BY <1>2 DEF EngineOf
<1> QED
  BY <1>1, <1>3

LEMMA PlanningEngine ==
  ASSUME NEW at, NEW left, NEW id, NEW plan, NEW r, NEW outcome, NEW v, NEW w,
         NEW x, x = EngineOf(at, left, id, plan, r, outcome)
  PROVE  Planning(x, v, w) = EngineOf(v, left, w, plan, r, outcome)
<1> DEFINE y == [x EXCEPT !.at = v]
<1>1. Planning(x, v, w) = [y EXCEPT !.id = w]
  BY Zenon DEF Planning
<1>2. y = EngineOf(v, left, id, plan, r, outcome)
  BY DEF EngineOf
<1> HIDE DEF y
<1>3. [y EXCEPT !.id = w] = EngineOf(v, left, w, plan, r, outcome)
  BY <1>2 DEF EngineOf
<1> QED
  BY <1>1, <1>3

LEMMA PickingEngine ==
  ASSUME NEW at, NEW left, NEW id, NEW plan, NEW r, NEW outcome, NEW v, NEW w, NEW l, NEW p,
         NEW x, x = EngineOf(at, left, id, plan, r, outcome)
  PROVE  Picking(x, v, w, l, p) = EngineOf(v, l, w, p, r, outcome)
<1> DEFINE y == [x EXCEPT !.at = v]
           z == [y EXCEPT !.id = w]
           u == [z EXCEPT !.left = l]
<1>1. Picking(x, v, w, l, p) = [u EXCEPT !.plan = p]
  BY Zenon DEF Picking
<1>2. y = EngineOf(v, left, id, plan, r, outcome)
  BY DEF EngineOf
<1> HIDE DEF y
<1>3. z = EngineOf(v, left, w, plan, r, outcome)
  BY <1>2 DEF EngineOf
<1> HIDE DEF z
<1>4. u = EngineOf(v, l, w, plan, r, outcome)
  BY <1>3 DEF EngineOf
<1> HIDE DEF u
<1>5. [u EXCEPT !.plan = p] = EngineOf(v, l, w, p, r, outcome)
  BY <1>4 DEF EngineOf
<1> QED
  BY <1>1, <1>5

LEMMA EngineIsRecord ==
  ASSUME IInv
  PROVE  engine = EngineOf(engine.at, engine.left, engine.id, engine.plan, engine.r, engine.outcome)
BY DEF IInv, Types, EngineTyped, EngineOf

\* An engine that attempts nothing.
Waits(x) ==
  /\ x = [at |-> x.at, left |-> x.left, id |-> x.id, plan |-> x.plan, r |-> x.r, outcome |-> x.outcome]
  /\ x.at \in Waiting
  /\ x.at = "planning" => x.id \in DOMAIN said

LEMMA WaitingIsTyped ==
  ASSUME Waits(engine'), said' = said
  PROVE  EngineTyped' /\ Reserving' /\ Checked'
<1>1. engine'.at \in Waiting /\ engine'.at \notin {"reserved", "proven", "settling"}
  BY DEF Waits, Waiting
<1>2. EngineTyped'
  BY <1>1 DEF Waits, Waiting, EngineTyped, EngineStages, Attempting
<1> QED
  BY <1>1, <1>2, NoAttempt

LEMMA RestWaits ==
  /\ Waits(AtRest)
  /\ \A left : Waits(Choosing(AtRest, "choosing", left))
  /\ \A k \in DOMAIN said : Waits(Planning(AtRest, "planning", k))
  /\ \A id, left, plan : Waits(Picking(AtRest, "picked", id, left, plan))
<1>1. AtRest = EngineOf("idle", <<>>, None, NoPlan, [at |-> 0], "none")
  BY DEF AtRest, EngineOf
<1>2. \A left : Choosing(AtRest, "choosing", left)
                 = EngineOf("choosing", left, None, NoPlan, [at |-> 0], "none")
  BY <1>1, ChoosingEngine
<1>3. \A k : Planning(AtRest, "planning", k) = EngineOf("planning", <<>>, k, NoPlan, [at |-> 0], "none")
  BY <1>1, PlanningEngine
<1>4. \A id, left, plan : Picking(AtRest, "picked", id, left, plan)
                           = EngineOf("picked", left, id, plan, [at |-> 0], "none")
  BY <1>1, PickingEngine
<1>5. \A left, id, plan, r, o :
        /\ \A at \in {"idle", "choosing", "picked"} : Waits(EngineOf(at, left, id, plan, r, o))
        /\ id \in DOMAIN said => Waits(EngineOf("planning", left, id, plan, r, o))
  BY DEF EngineOf, Waits, Waiting
<1> QED
  BY <1>1, <1>2, <1>3, <1>4, <1>5

LEMMA SkipWaits == ASSUME Skip PROVE Waits(engine')
<1>1. engine' = Choosing(AtRest, "choosing", engine.left)
  BY DEF Skip, Choosing
<1> QED
  BY <1>1, RestWaits

\* What a pass leaves alone, and what it makes of memory and disk.
LEMMA PassVentures ==
  ASSUME IInv, NEW e, Descends(store, e, said), Admitted(e, store), Ventured(e),
         diverged' \in BOOLEAN, withdrawn' \in BOOLEAN, EngineTyped',
         UNCHANGED <<reply, discord, posts, consent, bound>>
  PROVE  /\ Types' /\ Documented' /\ Recorded' /\ Agreed' /\ Presented' /\ Forgotten'
         /\ Inherited /\ Sound(store', said) /\ Follows(store, store')
<1>1. Sound(e, said) /\ Follows(store, e) /\ ApprovesNothing(store, e)
  BY DEF Descends
<1>2. /\ UNCHANGED <<now, bound, said, gone, posts>>
      /\ reply' = reply /\ shown' = shown /\ forgotten' = forgotten /\ agreed' = agreed
  BY DEF discord, consent
<1>3. /\ Documented' /\ Recorded' /\ Presented' /\ Forgotten' /\ Inherited
      /\ Sound(store', said) /\ Follows(store, store')
  BY <1>1, <1>2, FilesStay
<1>4. ReplyTyped'
  BY <1>2, ReplyStays
<1>5. Types'
  BY <1>2, <1>3, <1>4, TypesStay
<1>6. Agreed'
  BY <1>1, <1>2, AgreedStays
<1> QED
  BY <1>3, <1>5, <1>6

LEMMA PassCommits ==
  ASSUME IInv, NEW e, Descends(store, e, said), Commits(e) \/ Fails(e), Waits(engine'),
         withdrawn' \in BOOLEAN, UNCHANGED <<reply, discord, posts, consent, bound>>
  PROVE  IInv'
<1>1. Admitted(e, store) /\ (Saved(e) \/ NotSaved(e))
  BY DEF Commits, Fails
<1>2. Ventured(e) /\ diverged' \in BOOLEAN
  BY <1>1, CommitsVenture
<1>3. EngineTyped' /\ Reserving' /\ Checked'
  BY WaitingIsTyped DEF discord
<1>4. Types' /\ Documented' /\ Recorded' /\ Agreed' /\ Presented' /\ Forgotten'
  BY <1>1, <1>2, <1>3, PassVentures
<1> QED
  BY <1>3, <1>4 DEF IInv

LEMMA PassTurns ==
  ASSUME IInv, EngineTyped', withdrawn' \in BOOLEAN,
         UNCHANGED <<files, reply, discord, posts, consent, bound>>
  PROVE  /\ Types' /\ Documented' /\ Recorded' /\ Agreed' /\ Presented' /\ Forgotten' /\ Inherited
<1>1. Sound(store, said) /\ diverged \in BOOLEAN
  BY DEF IInv, Documented, Types
<1>2. Descends(store, store, said)
  BY <1>1, DescendsFrom
<1>3. Admitted(store, store)
  BY DEF Admitted
<1>4. Ventured(store) /\ diverged' \in BOOLEAN
  BY <1>1 DEF Ventured, files
<1> QED
  BY <1>2, <1>3, <1>4, PassVentures

LEMMA PassWaits ==
  ASSUME IInv, Waits(engine'), withdrawn' \in BOOLEAN,
         UNCHANGED <<files, reply, discord, posts, consent, bound>>
  PROVE  IInv'
<1>1. EngineTyped' /\ Reserving' /\ Checked'
  BY WaitingIsTyped DEF discord
<1>2. Types' /\ Documented' /\ Recorded' /\ Agreed' /\ Presented' /\ Forgotten'
  BY <1>1, PassTurns
<1> QED
  BY <1>1, <1>2 DEF IInv

LEMMA ChoosingKeeps ==
  ASSUME IInv, Gather \/ BeginPass \/ Pick \/ Authorize \/ Unavailable
  PROVE  IInv'
<1>1. /\ UNCHANGED <<files, reply, discord, posts, consent, bound>> /\ withdrawn' = withdrawn
      /\ withdrawn \in BOOLEAN
  BY DEF Gather, BeginPass, Pick, Authorize, Unavailable, PassUnchanged, IInv, Types
<1>2. ASSUME NEW left, Takes(left)
      PROVE  Waits(engine')
  <2>1. PICK i \in FirstReservable(left) :
          engine' = Picking(AtRest, "picked", left[i], SubSeq(left, i + 1, Len(left)),
                            [revision |-> store.candidates[left[i]].revision,
                             introduction |-> Snapshot(store, left[i])])
    BY <1>2 DEF Takes, Picking
  <2> QED
    BY <2>1, RestWaits
<1>3. Gather => Waits(engine')
  <2>1. Gather => \E k \in DOMAIN said : engine' = Planning(AtRest, "planning", k)
    BY DEF Gather, Planning
  <2> QED
    BY <2>1, RestWaits
<1>4. BeginPass => Waits(engine')
  BY <1>2 DEF BeginPass
<1>5. Pick => Waits(engine')
  BY <1>2, RestWaits DEF Pick
<1>6. Authorize => Waits(engine')
  <2>1. Authorize => engine' = Turned(engine, "authorized")
    BY DEF Authorize, Turn, Turned
  <2>2. Turned(engine, "authorized")
          = EngineOf("authorized", engine.left, engine.id, engine.plan, engine.r, engine.outcome)
    BY EngineIsRecord, TurnedEngine
  <2> QED
    BY <2>1, <2>2 DEF Waits, Waiting, EngineOf
<1>7. Unavailable => Waits(engine')
  BY SkipWaits DEF Unavailable
<1> QED
  BY <1>1, <1>3, <1>4, <1>5, <1>6, <1>7, PassWaits

LEMMA ProposeKeeps == ASSUME IInv, Propose PROVE IInv'
<1> DEFINE k == engine.id
           c == Candidate("question", {}, k, now, store.guild.revision)
           e == IF Unanswered(k) THEN Proposed(store, c) ELSE store
<1>1. /\ UNCHANGED <<reply, discord, posts, consent, bound>> /\ withdrawn' = withdrawn
      /\ withdrawn \in BOOLEAN
  BY DEF Propose, PassUnchanged, IInv, Types
<1>2. k \in DOMAIN said /\ said \in Seq(Messages) /\ now \in Nat
  BY DEF Propose, IInv, Types, EngineTyped
<1>3. k \in Nat \ {0} /\ said[k].channel \in Channels
  BY <1>2, MessageFields
<1>4. Sound(store, said) /\ store.guild.revision \in Nat
  BY Fields DEF IInv, Documented, Sound
<1>5. Waits(engine')
  <2>1. engine' = Choosing(AtRest, "choosing", Due(e)) \/ engine' = AtRest
    BY DEF Propose, Choosing
  <2> QED
    BY <2>1, RestWaits
<1>6. Commits(e) \/ Fails(e) \/ UNCHANGED files
  BY DEF Propose, files
<1>7. Descends(store, e, said)
  <2>1. CASE Unanswered(k)
    <3>1. ~Known(store, c)
      BY <2>1 DEF Unanswered
    <3> HIDE DEF k
    <3>2. /\ c \in CandidateRecords /\ Addressed(c) /\ c.state = "pending"
          /\ c.kind # "introduction" /\ c.source = k
      BY <1>2, <1>3, <1>4 DEF Candidate, CandidateRecords, Kinds, Addressed, None
    <3> HIDE DEF c
    <3>3. Descends(store, Proposed(store, c), said)
      BY <1>2, <1>4, <3>1, <3>2, ProposedDescends
    <3> QED
      BY <2>1, <3>3
  <2>2. CASE ~Unanswered(k)
    BY <1>4, <2>2, DescendsFrom
  <2> QED
    BY <2>1, <2>2
<1> HIDE DEF e
<1>8. CASE Commits(e) \/ Fails(e)
  BY <1>1, <1>5, <1>7, <1>8, PassCommits
<1>9. CASE UNCHANGED files
  BY <1>1, <1>5, <1>9, PassWaits
<1> QED
  BY <1>6, <1>8, <1>9

LEMMA RejectPendingKeeps == ASSUME IInv, RejectPending PROVE IInv'
<1> DEFINE id == engine.id
           c == store.candidates[id]
           rejects == c.state = "pending" /\ c.revision = engine.plan.revision
           e == IF rejects THEN Settled(store, id, "rejected") ELSE store
<1>1. /\ UNCHANGED <<reply, discord, posts, consent, bound>> /\ withdrawn' = withdrawn
      /\ withdrawn \in BOOLEAN
  BY DEF RejectPending, PassUnchanged, IInv, Types
<1>2. Sound(store, said)
  BY DEF IInv, Documented
<1>3. Waits(engine')
  BY RestWaits, SkipWaits DEF RejectPending
<1>4. UNCHANGED files \/ (id \in DOMAIN store.candidates /\ (Commits(e) \/ Fails(e)))
  <2>1. CASE id \notin DOMAIN store.candidates
    <3>1. engine' = AtRest /\ UNCHANGED <<files, mishaps>>
      BY <2>1, Zenon DEF RejectPending
    <3> QED
      BY <3>1
  <2>2. CASE id \in DOMAIN store.candidates
    BY <2>2 DEF RejectPending
  <2> QED
    BY <2>1, <2>2
<1>5. id \in DOMAIN store.candidates => Descends(store, e, said)
  BY <1>2, DescendsFrom, SettledDescends
<1> HIDE DEF e
<1>6. CASE UNCHANGED files
  BY <1>1, <1>3, <1>6, PassWaits
<1>7. CASE id \in DOMAIN store.candidates /\ (Commits(e) \/ Fails(e))
  BY <1>1, <1>3, <1>5, <1>7, PassCommits
<1> QED
  BY <1>4, <1>6, <1>7

LEMMA SettleKeeps == ASSUME IInv, Settle PROVE IInv'
<1> DEFINE id == engine.id
           c == store.candidates[id]
           late == c.state = "cancelled" /\ engine.outcome = "rejected"
           e == IF late THEN store ELSE Settled(store, id, engine.outcome)
<1>1. /\ UNCHANGED <<reply, discord, posts, consent, bound>> /\ withdrawn' \in BOOLEAN
  BY DEF Settle, PassUnchanged
<1>2. Sound(store, said) /\ engine.outcome \in {"rejected", "sent", "review_required"}
  BY DEF IInv, Documented, Types, EngineTyped, Settle
<1>3. Waits(engine')
  BY RestWaits, SkipWaits DEF Settle
<1>4. \/ UNCHANGED files
      \/ /\ id \in DOMAIN store.candidates /\ c.state \in {"reserved", "cancelled"}
         /\ Commits(e) \/ Fails(e)
  BY DEF Settle, files
<1>5. ASSUME id \in DOMAIN store.candidates, c.state \in {"reserved", "cancelled"}
      PROVE  Descends(store, e, said)
  <2>1. PICK what \in Identities :
          \A d \in {store, durable} : Spent(d, engine.id, what, engine.r.at)
    BY DEF Settle, IInv, Reserving
  <2>2. Spent(store, id, what, engine.r.at)
    BY <2>1
  <2>3. Identity(c) = what
    BY <1>5, <2>2 DEF Spent
  <2>4. what.who = c.who
    BY <2>3 DEF Identity
  <2>5. \A m \in c.who : \E x \in ChargedFor(store, id) : x.member = m
    BY <1>5, <2>2, <2>4 DEF Spent, ChargedFor
  <2> HIDE DEF c
  <2>6. Descends(store, Settled(store, id, engine.outcome), said)
    BY <1>2, <1>5, <2>5, SettledDescends DEF c
  <2> QED
    BY <1>2, <2>6, DescendsFrom
<1> HIDE DEF e
<1>6. CASE UNCHANGED files
  BY <1>1, <1>3, <1>6, PassWaits
<1>7. CASE /\ id \in DOMAIN store.candidates /\ c.state \in {"reserved", "cancelled"}
           /\ Commits(e) \/ Fails(e)
  BY <1>1, <1>3, <1>5, <1>7, PassCommits
<1> QED
  BY <1>4, <1>6, <1>7

-----------------------------------------------------------------------------
(* Reserving and sending *)

\* The charges of a member include one for every message he was sent.
LEMMA RoomIsLeft ==
  ASSUME IInv, NEW m \in Members, Capacity(store, m)
  PROVE  LET terms == store.policies[m].terms
         IN  Cardinality(PostsTo(posts, m, terms, LocalDay(terms, now))) < terms.daily_limit
<1> DEFINE terms == store.policies[m].terms
           today == LocalDay(terms, now)
           rows == {x \in store.charges \cup store.erased_charges : x.member = m}
           saved == {x \in rows : x.day = today}
           counted == {x \in rows : LocalDay(terms, x.at) = today}
           mine == PostsTo(posts, m, terms, today)
           row == [i \in mine |-> CHOOSE x \in counted : x.id = posts[i].id]
<1>1. Sound(store, said) /\ IsFiniteSet(store.charges) /\ IsFiniteSet(store.erased_charges)
      /\ posts \in Seq(Posts)
  BY DEF IInv, Documented, Sound, Booked, Types
<1>2. terms.daily_limit \in Nat
  <2>1. store.policies[m] \in Policies
    BY <1>1, Fields DEF Sound
  <2>2. terms \in Terms
    BY <2>1 DEF Policies
  <2> HIDE DEF terms
  <2>3. terms.daily_limit \in 1..4
    BY <2>2, EngagementAssumption
  <2> QED
    BY <2>3
<1>3. IsFiniteSet(counted) /\ IsFiniteSet(saved)
  <2>1. IsFiniteSet(store.charges \cup store.erased_charges)
    BY <1>1, FS_Union
  <2>2. counted \subseteq store.charges \cup store.erased_charges
        /\ saved \subseteq store.charges \cup store.erased_charges
    OBVIOUS
  <2> HIDE DEF counted, saved
  <2> QED
    BY <2>1, <2>2, FS_Subset
<1>4. Cardinality(counted) < terms.daily_limit
  <2>1. Larger(Cardinality(saved), Cardinality(counted)) < terms.daily_limit
    BY DEF Capacity
  <2> HIDE DEF counted, saved, terms
  <2>2. Cardinality(saved) \in Nat /\ Cardinality(counted) \in Nat
    BY <1>3, FS_CardinalityType
  <2> QED
    BY <1>2, <2>1, <2>2 DEF Larger
<1>5. ASSUME NEW i \in mine
      PROVE  /\ i \in DOMAIN posts /\ \E x \in counted : x.id = posts[i].id
             /\ row[i] \in counted /\ row[i].id = posts[i].id
  <2>1. i \in DOMAIN posts /\ m \in posts[i].to /\ LocalDay(terms, posts[i].at) = today
    BY DEF PostsTo
  <2>2. Spent(store, posts[i].id, posts[i].what, posts[i].at) /\ m \in posts[i].what.who
    BY <2>1 DEF IInv, Recorded
  <2>3. PICK x \in store.charges \cup store.erased_charges :
          x.id = posts[i].id /\ x.member = m /\ x.at = posts[i].at
    BY <2>2 DEF Spent
  <2>4. x \in counted
    BY <2>1, <2>3
  <2> HIDE DEF counted, mine
  <2>5. row[i] = CHOOSE y \in counted : y.id = posts[i].id
    OBVIOUS
  <2> HIDE DEF row
  <2> QED
    BY <2>1, <2>3, <2>4, <2>5
<1>6. row \in Injection(mine, counted)
  <2>1. row \in [mine -> counted]
    BY <1>5
  <2>2. \A i, j \in mine : row[i] = row[j] => i = j
    BY <1>5 DEF IInv, Recorded
  <2> HIDE DEF row, mine, counted
  <2> QED
    BY <2>1, <2>2 DEF Injection, IsInjective
<1> HIDE DEF row, mine, counted, terms
<1>7. /\ Cardinality(mine) <= Cardinality(counted) /\ Cardinality(mine) \in Nat
      /\ Cardinality(counted) \in Nat
  BY <1>3, <1>6, FS_Injection, FS_CardinalityType
<1>8. Cardinality(mine) < terms.daily_limit
  BY <1>2, <1>4, <1>7
<1> QED
  BY <1>8 DEF mine, terms

\* A reservation is of something that was not contacted before.
LEMMA ReservationIsNew ==
  ASSUME IInv, NEW id \in DOMAIN store.candidates, store.candidates[id].state = "pending"
  PROVE  \A i \in DOMAIN posts : posts[i].id # id
<1>1. SUFFICES ASSUME NEW i \in DOMAIN posts, posts[i].id = id
               PROVE  FALSE
  OBVIOUS
<1>2. Spent(store, posts[i].id, posts[i].what, posts[i].at)
  BY DEF IInv, Recorded
<1> QED
  BY <1>1, <1>2 DEF Spent


LEMMA ReserveKeeps == ASSUME IInv, Reserve PROVE IInv'
<1> DEFINE id == engine.id
           c == store.candidates[id]
           e == Reserved(store, id)
           r == Reservation(store, id)
           charged == Holding(engine, "reserved", r)
<1>1. /\ UNCHANGED <<reply, discord, posts, consent, bound>> /\ said' = said /\ posts' = posts
  BY DEF Reserve, PassUnchanged, discord
<1>2. withdrawn \in BOOLEAN /\ Sound(store, said) /\ now \in Nat
  BY DEF IInv, Types, Documented
<1>3. \/ /\ EvidenceCurrent(id) /\ Reservable(store, id, engine.plan.revision) /\ Admitted(e, store)
         /\ \/ Saved(e) /\ withdrawn' = FALSE /\ engine' = charged
            \/ NotSaved(e) /\ engine' = AtRest /\ withdrawn' = withdrawn
      \/ Skip /\ UNCHANGED files /\ withdrawn' = withdrawn
  BY DEF Reserve, Holding
<1>4. CASE Skip /\ UNCHANGED files /\ withdrawn' = withdrawn
  BY <1>1, <1>2, <1>4, SkipWaits, PassWaits
<1>5. ASSUME EvidenceCurrent(id), Reservable(store, id, engine.plan.revision), Admitted(e, store),
             \/ Saved(e) /\ withdrawn' = FALSE /\ engine' = charged
             \/ NotSaved(e) /\ engine' = AtRest /\ withdrawn' = withdrawn
      PROVE  IInv'
  <2>1. /\ id \in DOMAIN store.candidates /\ c.state = "pending" /\ Grounded(store, id)
        /\ \A m \in c.who : Capacity(store, m)
    BY <1>5 DEF Reservable
  <2>2. /\ c \in CandidateRecords /\ c.who \subseteq Members
        /\ id \in DOMAIN store.introductions => c.kind = "introduction"
    BY <1>2, <2>1, Fields DEF Sound, Booked, CandidateRecords
  <2>3. id \in DOMAIN store.introductions => store.introductions[id].state = "ready"
    BY <2>1, <2>2 DEF Grounded, IntroductionCurrent
  <2>4. /\ Descends(store, e, said) /\ id \in DOMAIN e.candidates /\ SameRules(store, e)
        /\ Identity(e.candidates[id]) = Identity(c) /\ e.candidates[id].state = "reserved"
        /\ e.candidates[id].revision = c.revision
        /\ \A m \in c.who : \E x \in e.charges : x.id = id /\ x.member = m /\ x.at = now
        /\ DOMAIN e.introductions = DOMAIN store.introductions
        /\ id \in DOMAIN store.introductions => e.introductions[id] = Snapshot(store, id)
    BY <1>2, <2>1, <2>3, ReservedDescends
  <2> HIDE DEF e
  <2>5. Ventured(e) /\ diverged' \in BOOLEAN
    BY <1>5, CommitsVenture
  <2>6. CASE NotSaved(e) /\ engine' = AtRest /\ withdrawn' = withdrawn
    <3>1. Waits(engine') /\ Fails(e) /\ withdrawn' \in BOOLEAN
      BY <1>2, <1>5, <2>6, RestWaits DEF Fails
    <3> QED
      BY <1>1, <2>4, <3>1, PassCommits
  <2>7. CASE Saved(e) /\ withdrawn' = FALSE /\ engine' = charged
    <3>1. store' = e /\ durable' = e
      BY <2>7 DEF Saved
    <3>2. engine' = EngineOf("reserved", engine.left, id, engine.plan, r, engine.outcome)
      BY <2>7, EngineIsRecord, HoldingEngine
    <3> HIDE DEF r
    <3>3. engine'.at = "reserved" /\ engine'.id = id /\ engine'.r = r
      BY <3>2 DEF EngineOf
    <3>4. /\ r.revision = c.revision /\ r.policy_revision = c.policy_revision /\ r.at = now
          /\ \A m \in c.who : r.policies[m] = store.policies[m].revision
          /\ r.introduction = Snapshot(store, id)
      BY DEF Reservation, r
    <3>5. EngineTyped' /\ withdrawn' \in BOOLEAN
      <4>1. withdrawn' \in BOOLEAN
        BY <2>7
      <4>2. engine'.r.at \in Nat
        BY <1>2, <3>3, <3>4
      <4>3. engine' = [at |-> engine'.at, left |-> engine'.left, id |-> engine'.id,
                       plan |-> engine'.plan, r |-> engine'.r, outcome |-> engine'.outcome]
        BY <3>2 DEF EngineOf
      <4> QED
        BY <3>3, <4>1, <4>2, <4>3 DEF EngineTyped, EngineStages
    <3>6. Types' /\ Documented' /\ Recorded' /\ Agreed' /\ Presented' /\ Forgotten'
      BY <1>1, <1>5, <2>4, <2>5, <3>5, PassVentures
    <3>7. Reserving'
      <4>1. Identity(c) \in Identities
        BY <2>2 DEF Identity, Identities, CandidateRecords
      <4>2. id \in Nat /\ id <= e.sequence
        <5>1. Sound(e, said)
          BY <2>4 DEF Descends
        <5>2. id \in 1..e.sequence /\ e.sequence \in Nat
          BY <2>4, <5>1, Fields DEF Sound, Booked
        <5> QED
          BY <5>2
      <4>3. Spent(e, id, Identity(c), now)
        BY <2>4, <4>2 DEF Spent, Identity
      <4>4. \A i \in DOMAIN posts : posts[i].id # id
        BY <2>1, ReservationIsNew
      <4> QED
        BY <1>1, <3>1, <3>3, <3>4, <4>1, <4>3, <4>4 DEF Reserving
    <3>8. /\ e.candidates[id].who = c.who /\ e.candidates[id].kind = c.kind
          /\ c.revision \in Nat /\ e.guild = store.guild /\ e.policies = store.policies
          /\ \A m \in Members : store.policies[m].revision \in Nat
          /\ store.guild.revision \in Nat
      BY <1>2, <2>2, <2>4, Fields DEF Identity, SameRules, CandidateRecords, Sound, Policies
    <3>9. Held(e, engine')
      <4>1. c.kind # "follow_up" => c.policy_revision = store.guild.revision
        BY <2>1, <2>2 DEF Grounded, IntroductionCurrent, QuestionCurrent, CandidateRecords, Kinds
      <4>2. id \in DOMAIN e.introductions =>
              r.introduction = e.introductions[id] /\ e.introductions[id].revision \in Nat
        BY <2>4, <3>4, Fields DEF Descends, Sound, IntroductionRecords
      <4> HIDE DEF c
      <4> QED
        BY <2>2, <2>4, <3>3, <3>4, <3>8, <4>1, <4>2 DEF Held
    <3>10. Budgeted(e, engine', posts)
      <4>1. \A m \in c.who :
              LET terms == store.policies[m].terms
              IN  Cardinality(PostsTo(posts, m, terms, LocalDay(terms, now))) < terms.daily_limit
        BY <2>1, <2>2, RoomIsLeft
      <4> HIDE DEF c
      <4> QED
        BY <3>3, <3>4, <3>8, <4>1 DEF Budgeted
    <3>11. Checked'
      BY <1>1, <2>7, <3>1, <3>9, <3>10 DEF Checked
    <3> QED
      BY <3>6, <3>7, <3>11 DEF IInv
  <2> QED
    BY <1>5, <2>6, <2>7
<1> QED
  BY <1>3, <1>4, <1>5

\* An introduction has its own document entries.
LEMMA IntroductionsAreTheirs ==
  ASSUME IInv, NEW id \in DOMAIN store.candidates
  PROVE  id \in DOMAIN store.introductions <=> store.candidates[id].kind = "introduction"
BY DEF IInv, Documented, Sound, Booked

LEMMA ProveKeeps == ASSUME IInv, Prove PROVE IInv'
<1>1. /\ UNCHANGED <<files, reply, discord, posts, consent, bound>> /\ withdrawn' = withdrawn
      /\ said' = said /\ posts' = posts /\ store' = store /\ durable' = durable
      /\ healthy' = healthy
  BY DEF Prove, PassUnchanged, discord, files
<1>2. withdrawn \in BOOLEAN /\ engine.at = "reserved" /\ Attempting
  BY DEF IInv, Types, Prove, Attempting
<1>3. engine' = Turned(engine, "proven")
  BY DEF Prove, Turn, Turned
<1>4. engine' = EngineOf("proven", engine.left, engine.id, engine.plan, engine.r, engine.outcome)
  BY <1>3, EngineIsRecord, TurnedEngine
<1>5. /\ engine'.at = "proven" /\ engine'.id = engine.id /\ engine'.r = engine.r
      /\ engine'.plan = engine.plan
      /\ engine' = [at |-> engine'.at, left |-> engine'.left, id |-> engine'.id,
                    plan |-> engine'.plan, r |-> engine'.r, outcome |-> engine'.outcome]
  BY <1>4 DEF EngineOf
<1>6. EngineTyped'
  BY <1>2, <1>5 DEF EngineTyped, EngineStages, Attempting, IInv, Types
<1>7. Types' /\ Documented' /\ Recorded' /\ Agreed' /\ Presented' /\ Forgotten' /\ Inherited
  BY <1>1, <1>2, <1>6, PassTurns
<1>8. Reserving'
  BY <1>1, <1>2, <1>5, <1>7, ReservingStays
<1>9. /\ Held(store, engine) /\ Budgeted(store, engine, posts)
      /\ withdrawn => ~healthy \/ Stale(store, engine)
  BY <1>2 DEF IInv, Checked
<1>10. Held(store, engine')
  <2>1. engine.id \in DOMAIN store.introductions =>
          store.introductions[engine.id] = engine.plan.introduction
    BY IntroductionsAreTheirs DEF Prove
  <2> QED
    BY <1>5, <1>9, <2>1 DEF Held
<1>11. Budgeted(store, engine', posts) /\ (Stale(store, engine) => Stale(store, engine'))
  BY <1>5, <1>9 DEF Budgeted, Stale
<1>12. withdrawn' => ~healthy' \/ Stale(store', engine')
  BY <1>1, <1>9, <1>11, Zenon
<1>13. Checked'
  BY <1>1, <1>10, <1>11, <1>12 DEF Checked
<1> QED
  BY <1>7, <1>8, <1>13 DEF IInv

\* An attempt that ends without a message.
LEMMA EndingKeeps == ASSUME IInv, Unproven \/ Unsent PROVE IInv'
<1>1. /\ UNCHANGED <<files, reply, discord, posts, consent, bound>> /\ withdrawn' = withdrawn
      /\ said' = said /\ posts' = posts
  BY DEF Unproven, Unsent, PassUnchanged, discord
<1>2. withdrawn \in BOOLEAN /\ Attempting
  BY DEF IInv, Types, Unproven, Unsent, Attempting
<1>3. PICK o \in {"sent", "rejected", "review_required"} : engine' = Ending(engine, "settling", o)
  BY DEF Unproven, Unsent, Ending
<1>4. engine' = EngineOf("settling", engine.left, engine.id, engine.plan, engine.r, o)
  BY <1>3, EngineIsRecord, EndingEngine
<1>5. /\ engine'.at = "settling" /\ engine'.id = engine.id /\ engine'.r = engine.r
      /\ engine'.outcome = o
      /\ engine' = [at |-> engine'.at, left |-> engine'.left, id |-> engine'.id,
                    plan |-> engine'.plan, r |-> engine'.r, outcome |-> engine'.outcome]
  BY <1>4 DEF EngineOf
<1>6. EngineTyped'
  BY <1>5 DEF EngineTyped, EngineStages, Attempting
<1>7. Types' /\ Documented' /\ Recorded' /\ Agreed' /\ Presented' /\ Forgotten' /\ Inherited
  BY <1>1, <1>2, <1>6, PassTurns
<1>8. Reserving'
  BY <1>1, <1>2, <1>5, <1>7, ReservingStays DEF Attempting
<1>9. Checked'
  BY <1>5 DEF Checked, Attempting
<1> QED
  BY <1>7, <1>8, <1>9 DEF IInv

\* What the last check establishes of the message that is sent.
LEMMA ReadyFacts ==
  ASSUME IInv, engine.at = "proven", Ready
  PROVE  LET id == engine.id  c == store.candidates[id]  i == store.introductions[id]
         IN  /\ id \in DOMAIN store.candidates /\ ~withdrawn /\ healthy
             /\ \A m \in c.who :
                  /\ m \in Members /\ store.policies[m].revision = engine.r.policies[m]
                  /\ Cardinality(PostsTo(posts, m, store.policies[m].terms,
                                         LocalDay(store.policies[m].terms, engine.r.at)))
                       < store.policies[m].terms.daily_limit
             /\ c.kind = "introduction" =>
                  /\ id \in DOMAIN store.introductions /\ i.words = engine.plan.introduction.words
                  /\ i.channel = c.channel /\ DOMAIN i.words = c.who
                  /\ \A m \in c.who : [id |-> id, member |-> m, word |-> i.words[m],
                                        channel |-> c.channel] \in agreed
<1> DEFINE id == engine.id
           c == store.candidates[id]
           i == store.introductions[id]
<1>1. /\ healthy /\ EvidenceCurrent(id) /\ ValidateReserved(store, id, engine.r)
  BY DEF Ready
<1>2. /\ id \in DOMAIN store.candidates /\ c.state = "reserved" /\ c.revision = engine.r.revision
      /\ c.policy_revision = engine.r.policy_revision /\ Grounded(store, id)
      /\ id \in DOMAIN store.introductions => i = engine.r.introduction
      /\ \A m \in c.who : store.policies[m].revision = engine.r.policies[m]
  BY <1>1 DEF ValidateReserved
<1>3. Sound(store, said) /\ store \in Documents /\ Booked(store) /\ Attempting
  BY DEF IInv, Documented, Sound, Attempting
<1>4. c \in CandidateRecords /\ c.who \subseteq Members /\ c.revision \in Nat
  BY <1>2, <1>3, Fields DEF CandidateRecords
<1>5. /\ Held(store, engine) /\ Budgeted(store, engine, posts)
      /\ withdrawn => ~healthy \/ Stale(store, engine)
  BY <1>3 DEF IInv, Checked
<1>6. ~Stale(store, engine)
  <2>1. Open(c) /\ ~(c.revision > engine.r.revision)
    BY <1>2, <1>4 DEF Open
  <2>2. \A m \in c.who : ~(store.policies[m].revision > engine.r.policies[m])
    <3>1. \A m \in Members : store.policies[m].revision \in Nat
      BY <1>3, Fields DEF Policies
    <3> QED
      BY <1>2, <1>4, <3>1
  <2>3. c.kind # "follow_up" => ~(store.guild.revision > engine.r.policy_revision)
    <3>1. c.kind # "follow_up" => store.guild.revision = c.policy_revision
      BY <1>2, <1>4 DEF Grounded, IntroductionCurrent, QuestionCurrent, CandidateRecords, Kinds
    <3>2. store.guild.revision \in Nat
      BY <1>3, Fields
    <3> QED
      BY <1>2, <3>1, <3>2
  <2> QED
    BY <1>2, <2>1, <2>2, <2>3 DEF Stale
<1>7. ~withdrawn /\ healthy
  BY <1>1, <1>5, <1>6, Zenon
<1>8. ASSUME c.kind = "introduction"
      PROVE  /\ id \in DOMAIN store.introductions /\ i.words = engine.plan.introduction.words
             /\ i.channel = c.channel /\ DOMAIN i.words = c.who
             /\ \A m \in c.who : [id |-> id, member |-> m, word |-> i.words[m],
                                   channel |-> c.channel] \in agreed
  <2>1. id \in DOMAIN store.introductions
    BY <1>2, <1>8, IntroductionsAreTheirs
  <2>2. Paired(c, i)
    BY <1>3, <2>1 DEF Booked
  <2>3. i.words = engine.plan.introduction.words
    BY <1>2, <1>5, <2>1 DEF Held
  <2>4. \A m \in c.who : m \in DOMAIN i.approvals /\ i.approvals[m] # 0
    <3>1. \A m \in c.who : i.approvals[m] = i.revision
      BY <1>2, <1>8 DEF Grounded, IntroductionCurrent
    <3>2. i.revision \in Nat
      BY <1>3, <2>1, Fields DEF IntroductionRecords
    <3> QED
      BY <2>2, <3>1, <3>2 DEF Paired
  <2>5. Attested(store, agreed)
    BY DEF IInv, Agreed
  <2>6. i.channel = c.channel /\ DOMAIN i.words = c.who
    BY <2>2 DEF Paired
  <2>7. ASSUME NEW m \in c.who
        PROVE  [id |-> id, member |-> m, word |-> i.words[m], channel |-> i.channel] \in agreed
    BY <2>1, <2>4, <2>5 DEF Attested
  <2> QED
    BY <2>1, <2>3, <2>6, <2>7
<1>9. ASSUME NEW m \in c.who
      PROVE  Cardinality(PostsTo(posts, m, store.policies[m].terms,
                                 LocalDay(store.policies[m].terms, engine.r.at)))
               < store.policies[m].terms.daily_limit
  BY <1>2, <1>5 DEF Budgeted
<1> QED
  BY <1>2, <1>4, <1>7, <1>8, <1>9

LEMMA PostIsTyped ==
  ASSUME IInv, engine.at = "proven", Ready
  PROVE  /\ Post(store.candidates[engine.id]) \in Posts
         /\ Identity(store.candidates[engine.id]) \in Identities
<1> DEFINE c == store.candidates[engine.id]
           words == IF c.kind = "introduction" THEN engine.plan.introduction.words ELSE <<>>
<1>1. /\ engine.id \in DOMAIN store.candidates
      /\ c.kind = "introduction" =>
           /\ engine.id \in DOMAIN store.introductions
           /\ store.introductions[engine.id].words = engine.plan.introduction.words
  BY ReadyFacts
<1>2. store \in Documents /\ engine.r.at \in Nat
  BY DEF IInv, Documented, Sound, Types, EngineTyped, Attempting
<1>3. c \in CandidateRecords /\ engine.id \in Nat
  BY <1>1, <1>2, Fields
<1>4. Identity(c) \in Identities
  BY <1>3 DEF Identity, Identities, CandidateRecords
<1>5. words \in Wordings \cup {<<>>}
  BY <1>1, <1>2, Fields DEF IntroductionRecords
<1>6. c.channel \in Channels /\ c.who \subseteq Members
  BY <1>3 DEF CandidateRecords
<1>7. Posts = [what : Identities, id : Nat, at : Nat, channel : Channels, to : SUBSET Members,
               words : Wordings \cup {<<>>}]
  BY DEF Posts
<1>8. Post(c) = [what |-> Identity(c), id |-> engine.id, at |-> engine.r.at, channel |-> c.channel,
                 to |-> c.who, words |-> words]
  BY DEF Post
<1> HIDE DEF words, c
<1>9. Post(c) \in Posts
  BY <1>2, <1>3, <1>4, <1>5, <1>6, <1>7, <1>8
<1> QED
  BY <1>4, <1>9 DEF c

\* The message is new: of a candidate, and for a reason, that had none.
LEMMA PostIsNew ==
  ASSUME IInv, engine.at = "proven", Ready, NEW i \in DOMAIN posts
  PROVE  posts[i].id # engine.id /\ posts[i].what # Identity(store.candidates[engine.id])
<1>1. Attempting /\ engine.id \in DOMAIN store.candidates
  BY ReadyFacts DEF Attempting
<1>2. posts[i].id # engine.id
  BY <1>1 DEF IInv, Reserving
<1>3. Spent(store, posts[i].id, posts[i].what, posts[i].at) /\ Booked(store)
  BY DEF IInv, Recorded, Documented, Sound
<1>4. ASSUME posts[i].what = Identity(store.candidates[engine.id])
      PROVE  FALSE
  <2>1. CASE posts[i].id \in DOMAIN store.candidates
    BY <1>1, <1>2, <1>3, <1>4, <2>1 DEF Spent, Booked
  <2>2. CASE posts[i].id \notin DOMAIN store.candidates
    BY <1>1, <1>3, <1>4, <2>2 DEF Spent, Booked
  <2> QED
    BY <2>1, <2>2
<1> QED
  BY <1>2, <1>4

LEMMA SentKeeps == ASSUME IInv, Sent PROVE IInv'
<1> DEFINE c == store.candidates[engine.id]
           p == Post(c)
<1>1. /\ UNCHANGED <<store, durable, diverged, healthy, reply, said, gone, now, withdrawn,
                     shown, agreed, forgotten, bound>>
      /\ posts' = Append(posts, p) /\ engine.at = "proven" /\ Ready
  BY DEF Sent, files, discord, consent, bounds
<1>2. PICK o \in {"sent", "review_required"} : engine' = Ending(engine, "settling", o)
  BY DEF Sent, Ending
<1>3. engine' = EngineOf("settling", engine.left, engine.id, engine.plan, engine.r, o)
  BY <1>2, EngineIsRecord, EndingEngine
<1>4. /\ engine'.at = "settling" /\ engine'.id = engine.id /\ engine'.r = engine.r
      /\ engine'.outcome = o
      /\ engine' = [at |-> engine'.at, left |-> engine'.left, id |-> engine'.id,
                    plan |-> engine'.plan, r |-> engine'.r, outcome |-> engine'.outcome]
  BY <1>3 DEF EngineOf
<1>5. EngineTyped'
  BY <1>4 DEF EngineTyped, EngineStages, Attempting
<1>6. /\ p \in Posts /\ Identity(c) \in Identities
      /\ p.what = Identity(c) /\ p.id = engine.id /\ p.at = engine.r.at /\ p.to = c.who
  BY <1>1, PostIsTyped DEF Post
<1>7. /\ posts \in Seq(Posts) /\ engine.id \in DOMAIN store.candidates
      /\ \A i \in DOMAIN posts : posts[i].id # engine.id /\ posts[i].what # Identity(c)
  BY <1>1, PostIsNew, ReadyFacts DEF IInv, Types
<1>8. \A d \in {store, durable} : Spent(d, engine.id, Identity(c), engine.r.at)
  <2>1. PICK what \in Identities : \A d \in {store, durable} : Spent(d, engine.id, what, engine.r.at)
    BY <1>1 DEF IInv, Reserving
  <2>2. what = Identity(c)
    BY <1>7, <2>1 DEF Spent
  <2> QED
    BY <2>1, <2>2
<1> HIDE DEF p
<1>9. /\ posts' \in Seq(Posts) /\ DOMAIN posts' = DOMAIN posts \cup {Len(posts) + 1}
      /\ posts'[Len(posts) + 1] = p /\ Len(posts) + 1 \notin DOMAIN posts
      /\ \A i \in DOMAIN posts : posts'[i] = posts[i]
  BY <1>1, <1>6, <1>7
<1>10. Types'
  <2>1. ReplyTyped' /\ ShownTyped'
    BY <1>1 DEF IInv, Types, ReplyTyped, ShownTyped
  <2> QED
    BY <1>1, <1>5, <1>9, <2>1 DEF IInv, Types
<1>11. Recorded'
  <2>1. \A i \in DOMAIN posts' : \A d \in {store, durable} :
          Spent(d, posts'[i].id, posts'[i].what, posts'[i].at)
    BY <1>6, <1>8, <1>9 DEF IInv, Recorded
  <2>2. \A i \in DOMAIN posts' : posts'[i].to = posts'[i].what.who
    <3>1. p.to = p.what.who
      BY <1>6 DEF Identity
    <3> QED
      BY <1>9, <3>1 DEF IInv, Recorded
  <2>3. \A i, j \in DOMAIN posts' : posts'[i].id = posts'[j].id => i = j
    BY <1>6, <1>7, <1>9 DEF IInv, Recorded
  <2>4. \A i, j \in DOMAIN posts' : posts'[i].what = posts'[j].what => i = j
    BY <1>6, <1>7, <1>9 DEF IInv, Recorded
  <2> QED
    BY <1>1, <2>1, <2>2, <2>3, <2>4 DEF Recorded
<1>12. Reserving'
  BY <1>1, <1>4, <1>6, <1>8 DEF Reserving, Attempting
<1>13. Checked'
  BY <1>4 DEF Checked, Attempting
<1> QED
  BY <1>1, <1>10, <1>11, <1>12, <1>13 DEF IInv, Documented, Agreed, Presented, Forgotten

-----------------------------------------------------------------------------
(* The first document *)

\* Among descriptions there is a first one.
LEMMA FirstWordIsWord == FirstWord \in Words
<1> DEFINE R == OpToRel(<, Nat)
<1>1. IsWellFoundedOn(R, Nat) /\ Words \subseteq Nat /\ Words # {}
  BY NatLessThanWellFounded, EngagementAssumption
<1>2. PICK w \in Words : \A v \in Words : ~(<<v, w>> \in R)
  BY <1>1, WFMin
<1>3. ASSUME NEW v \in Words
      PROVE  w <= v
  <2>1. v \in Nat /\ w \in Nat
    BY <1>1
  <2>2. ~(<<v, w>> \in R)
    BY <1>2
  <2>3. ~(v < w)
    BY <2>1, <2>2 DEF OpToRel
  <2> QED
    BY <2>1, <2>3
<1> QED
  BY <1>3 DEF FirstWord

LEMMA FirstIsSound ==
  ASSUME NEW home \in Channels, NEW pairs \in {{}} \cup {{p} : p \in Pairs},
         NEW approved \in SUBSET (UNION pairs), NEW terms \in FirstTerms
  PROVE  LET d == FirstStore(terms, home, pairs, approved)
         IN  /\ Sound(d, <<>>)
             /\ Attested(d, {[id |-> 1, member |-> m, word |-> FirstWord, channel |-> home]
                               : m \in approved})
<1> DEFINE n == Cardinality(pairs)
           pair == CHOOSE p \in pairs : TRUE
           c == [IntroductionCandidate(pair, home, 1, 1) EXCEPT !.revision = 2]
           words == [m \in pair |-> FirstWord]
           approvals == [m \in pair |-> IF m \in approved THEN 2 ELSE 0]
           i == [revision |-> 2, channel |-> home, words |-> words, approvals |-> approvals,
                 state |-> IF pair \subseteq approved THEN "ready" ELSE "pending"]
           d == FirstStore(terms, home, pairs, approved)
           entries == 1..n
<1>1. FirstWord \in Nat /\ FirstWord # None
  BY FirstWordIsWord, EngagementAssumption DEF None
<1>2. n \in {0, 1} /\ (n = 1 => pair \in Pairs)
  <2>1. CASE pairs = {}
    BY <2>1, FS_EmptySet
  <2>2. CASE pairs # {}
    <3>1. PICK p \in Pairs : pairs = {p}
      BY <2>2
    <3>2. Cardinality({p}) = 1
      BY FS_Singleton
    <3>3. Cardinality(pairs) = 1
      BY <3>1, <3>2
    <3>4. pair = p
      BY <3>1
    <3> QED
      BY <3>3, <3>4
  <2> QED
    BY <2>1, <2>2
<1>3. d = [sequence |-> n, candidates |-> [id \in entries |-> c],
           introductions |-> [id \in entries |-> i],
           charges |-> {}, erased_charges |-> {}, erased_identities |-> {},
           policies |-> [m \in Members |-> [revision |-> 1, terms |-> terms, stopped |-> {},
                                            snoozed_until |-> 0]],
           guild |-> [revision |-> 1, channels |->
             [f \in {"question", "introduction"} |->
               IF f = "question" /\ pairs # {} THEN {} ELSE {home}]],
           observations |-> [m \in Members |-> [k \in Channels |-> [message |-> None, edited |-> FALSE]]],
           eligibility |-> [m \in Members |-> {}],
           ledger |-> [m \in Members |-> 0]]
  BY Zenon DEF FirstStore
<1>4. entries \in SUBSET Nat /\ (\A id \in entries : id = 1 /\ n = 1)
  BY <1>2
<1> HIDE DEF entries, d, n, pair
<1>5. ASSUME n = 1
      PROVE  pair \subseteq Members /\ pair \in Pairs
  <2>1. pair \in Pairs
    BY <1>2, <1>5
  <2>2. PICK a, b \in Members : pair = {a, b}
    BY <2>1, EngagementAssumption
  <2> QED
    BY <2>1, <2>2
<1>6. /\ c = [kind |-> "introduction", who |-> pair, source |-> None, channel |-> home,
              due_at |-> 1, revision |-> 2, policy_revision |-> 1, state |-> "pending"]
  <2> DEFINE b == IntroductionCandidate(pair, home, 1, 1)
  <2>1. b = [kind |-> "introduction", who |-> pair, source |-> None, channel |-> home,
             due_at |-> 1, revision |-> 1, policy_revision |-> 1, state |-> "pending"]
    BY DEF IntroductionCandidate
  <2> HIDE DEF b
  <2>2. [b EXCEPT !.revision = 2]
          = [kind |-> "introduction", who |-> pair, source |-> None, channel |-> home,
             due_at |-> 1, revision |-> 2, policy_revision |-> 1, state |-> "pending"]
    BY <2>1
  <2> QED
    BY <2>2 DEF b
<1> HIDE DEF c
<1>7. ASSUME n = 1
      PROVE  /\ c \in CandidateRecords /\ Addressed(c) /\ i \in IntroductionRecords /\ Paired(c, i)
             /\ words \in Wordings /\ approvals \in Wordings
  <2>1. words \in Wordings /\ approvals \in Wordings
        /\ DOMAIN words = pair /\ DOMAIN approvals = pair
    BY <1>1, <1>5, <1>7, Worded
  <2>2. c \in CandidateRecords /\ Addressed(c)
    BY <1>5, <1>6, <1>7 DEF CandidateRecords, Kinds, Addressed, None
  <2>3. \A m \in pair : words[m] # None /\ approvals[m] = IF m \in approved THEN 2 ELSE 0
    BY <1>1
  <2> HIDE DEF words, approvals
  <2>4. i \in IntroductionRecords
    BY <2>1 DEF IntroductionRecords
  <2>5. Paired(c, i)
    BY <1>6, <2>1, <2>3 DEF Paired
  <2> QED
    BY <2>1, <2>2, <2>4, <2>5
<1>8. d \in Documents
  <2>1. d.sequence \in Nat
    BY <1>2, <1>3
  <2>2. [id \in entries |-> c] \in Tables(CandidateRecords)
    BY <1>4, <1>7, Tabled
  <2>3. [id \in entries |-> i] \in Tables(IntroductionRecords)
    <3> HIDE DEF i
    <3> QED
      BY <1>4, <1>7, Tabled
  <2>4. terms \in Terms
    BY EngagementAssumption
  <2>5. [m \in Members |-> [revision |-> 1, terms |-> terms, stopped |-> {}, snoozed_until |-> 0]]
          \in [Members -> Policies]
    BY <2>4 DEF Policies
  <2>6. [revision |-> 1, channels |->
          [f \in {"question", "introduction"} |->
            IF f = "question" /\ pairs # {} THEN {} ELSE {home}]]
          \in [revision : Nat, channels : [{"question", "introduction"} -> SUBSET Channels]]
    OBVIOUS
  <2>7. [m \in Members |-> [k \in Channels |-> [message |-> None, edited |-> FALSE]]]
          \in [Members -> [Channels -> [message : Nat, edited : BOOLEAN]]]
    BY DEF None
  <2> DEFINE cs == [id \in entries |-> c]
             is == [id \in entries |-> i]
             ps == [m \in Members |-> [revision |-> 1, terms |-> terms, stopped |-> {},
                                        snoozed_until |-> 0]]
             g == [revision |-> 1, channels |->
                    [f \in {"question", "introduction"} |->
                      IF f = "question" /\ pairs # {} THEN {} ELSE {home}]]
             os == [m \in Members |-> [k \in Channels |-> [message |-> None, edited |-> FALSE]]]
             es == [m \in Members |-> {}]
             l == [m \in Members |-> 0]
  <2>8. es \in [Members -> SUBSET Nat] /\ l \in [Members -> Nat] /\ n \in Nat
    BY <1>2
  <2>9. d = [sequence |-> n, candidates |-> cs, introductions |-> is,
             charges |-> {}, erased_charges |-> {}, erased_identities |-> {},
             policies |-> ps, guild |-> g, observations |-> os, eligibility |-> es, ledger |-> l]
    BY <1>3
  <2> HIDE DEF i, cs, is, ps, g, os, es, l
  <2> QED
    BY <2>2, <2>3, <2>5, <2>6, <2>7, <2>8, <2>9 DEF Documents, cs, is, ps, g, os
<1>9. /\ d.sequence = n /\ DOMAIN d.candidates = entries /\ DOMAIN d.introductions = entries
      /\ \A id \in entries : d.candidates[id] = c /\ d.introductions[id] = i
      /\ d.charges = {} /\ d.erased_charges = {} /\ d.erased_identities = {}
      /\ \A m \in Members : d.eligibility[m] = {}
      /\ \A m \in Members, k \in Channels : d.observations[m][k].message = None
  <2> HIDE DEF i
  <2> QED
    BY <1>3
<1>10. /\ c.kind = "introduction" /\ c.state = "pending" /\ c.source = None
       /\ i.approvals = approvals /\ i.words = words /\ i.channel = home
       /\ \A m \in pair : words[m] = FirstWord /\ (approvals[m] # 0 => m \in approved)
       /\ DOMAIN approvals = pair
  BY <1>6
<1> HIDE DEF i, words, approvals
<1>11. Booked(d)
  <2>1. \A id \in DOMAIN d.candidates : id \in 1..d.sequence /\ Addressed(d.candidates[id])
    <3>1. \A id \in entries : d.candidates[id] = c
      BY <1>9
    <3>2. \A id \in entries : Addressed(c)
      BY <1>4, <1>7
    <3>3. \A id \in entries : id \in 1..n
      BY <1>4
    <3> QED
      BY <1>9, <3>1, <3>2, <3>3
  <2>2. \A a, b \in DOMAIN d.candidates : a = b
    <3>1. \A a \in entries : a = 1
      BY <1>4
    <3>2. DOMAIN d.candidates = entries
      BY <1>9
    <3> QED
      BY <3>1, <3>2
  <2>3. DOMAIN d.introductions = {id \in DOMAIN d.candidates : d.candidates[id].kind = "introduction"}
    BY <1>9, <1>10
  <2>4. \A id \in DOMAIN d.introductions : Paired(d.candidates[id], d.introductions[id])
    BY <1>4, <1>7, <1>9
  <2>5. \A id \in DOMAIN d.candidates : Charged(d, id)
    BY <1>9, <1>10 DEF Charged, ChargedFor, Consumed
  <2> QED
    BY <1>9, <2>1, <2>2, <2>3, <2>4, <2>5, FS_EmptySet DEF Booked
<1>12. Attributed(d, <<>>)
  BY <1>9, <1>10 DEF Attributed
<1>13. Attested(d, {[id |-> 1, member |-> m, word |-> FirstWord, channel |-> home] : m \in approved})
  <2>1. ASSUME NEW id \in DOMAIN d.introductions, NEW m \in DOMAIN d.introductions[id].approvals,
               d.introductions[id].approvals[m] # 0
        PROVE  /\ m \in approved /\ id = 1 /\ d.introductions[id].words[m] = FirstWord
               /\ d.introductions[id].channel = home
    <3>1. id \in entries
      BY <1>9
    <3>2. d.introductions[id] = i /\ id = 1
      BY <1>4, <1>9, <3>1
    <3> QED
      BY <1>10, <2>1, <3>2
  <2> QED
    BY <2>1 DEF Attested
<1> QED
  BY <1>8, <1>11, <1>12, <1>13 DEF Sound, d

LEMMA InitSatisfies == Init => IInv
<1> SUFFICES ASSUME Init PROVE IInv
  OBVIOUS
<1>1. PICK home \in Channels, approved \in {UNION bound.pairs} \cup {{m} : m \in UNION bound.pairs},
           terms \in FirstTerms :
        /\ store = FirstStore(terms, home, bound.pairs, approved)
        /\ agreed = {[id |-> 1, member |-> m, word |-> FirstWord, channel |-> home] : m \in approved}
  BY DEF Init
<1>2. /\ now = 1 /\ bound \in Bounds /\ durable = store /\ diverged = FALSE /\ engine = AtRest
      /\ reply = NoReply /\ said = <<>> /\ gone = {} /\ posts = <<>> /\ withdrawn = FALSE
      /\ shown = Versions(store) /\ forgotten = [sources |-> {}, pairs |-> {}]
  BY DEF Init
<1>3. bound.pairs \in {{}} \cup {{p} : p \in Pairs} /\ approved \in SUBSET (UNION bound.pairs)
  BY <1>1, <1>2, EngagementAssumption
<1>4. Sound(store, said) /\ Attested(store, agreed)
  BY <1>1, <1>2, <1>3, FirstIsSound
<1>5. ShownTyped /\ \A v \in shown : Presents(store, v)
  BY <1>2, <1>4, PresentsItself DEF ShownTyped
<1>6. EngineTyped /\ ReplyTyped
  BY <1>2 DEF EngineTyped, ReplyTyped, AtRest, NoReply, EngineStages, Attempting
<1>7. Types
  <2>1. now \in Nat /\ bound \in Bounds /\ diverged \in BOOLEAN /\ withdrawn \in BOOLEAN
    BY <1>2
  <2>2. said \in Seq(Messages) /\ DOMAIN said = {} /\ gone \subseteq DOMAIN said
    BY <1>2
  <2>3. posts \in Seq(Posts)
    BY <1>2
  <2> QED
    BY <1>5, <1>6, <2>1, <2>2, <2>3 DEF Types
<1>8. Recorded /\ Reserving /\ Checked
  BY <1>2 DEF Recorded, Reserving, Checked, Attempting, AtRest
<1>9. Presented /\ Agreed /\ Documented
  BY <1>2, <1>4, <1>5 DEF Presented, Agreed, Documented
<1>10. Forgotten
  BY <1>2 DEF Forgotten, Forgets
<1> QED
  BY <1>7, <1>8, <1>9, <1>10 DEF IInv

-----------------------------------------------------------------------------
(* Theorems *)

LEMMA StutterKeeps == ASSUME IInv, UNCHANGED vars PROVE IInv'
<1>1. UNCHANGED <<store, durable, diverged, healthy, engine, reply, said, gone, now, posts,
                  withdrawn, shown, agreed, forgotten, bound>>
  BY DEF vars, files, discord, consent, bounds
<1>2. Types'
  BY <1>1 DEF IInv, Types, EngineTyped, ReplyTyped, ShownTyped, Attempting
<1>3. Documented' /\ Recorded' /\ Reserving'
  BY <1>1 DEF IInv, Documented, Recorded, Reserving, Attempting
<1>4. Checked' /\ Agreed' /\ Presented' /\ Forgotten'
  BY <1>1 DEF IInv, Checked, Attempting, Agreed, Presented, Forgotten
<1> QED
  BY <1>2, <1>3, <1>4 DEF IInv

LEMMA StepKeeps == ASSUME IInv, [Next]_vars PROVE IInv'
<1>1. CASE Say \/ EditOrDelete \/ Tick
  BY <1>1, SayKeeps, EditOrDeleteKeeps, TickKeeps
<1>2. CASE Observe \/ DeleteSource
  BY <1>2, ObserveKeeps, DeleteSourceKeeps
<1>3. CASE Complete \/ Unassessed \/ Unresolved \/ Resolved
  BY <1>3, CompleteKeeps, UnassessedKeeps, UnresolvedKeeps, ResolvedKeeps
<1>4. CASE Stop \/ Resume \/ Configure \/ Snooze \/ Dismiss \/ SetCommunity
  BY <1>4, StopKeeps, SettingsChoices, DismissKeeps, SetCommunityKeeps
<1>5. CASE CreateIntroduction \/ EditIntroduction \/ Approve \/ WithdrawIntroduction \/ Erase
  BY <1>5, CreateIntroductionKeeps, EditIntroductionKeeps, ApproveKeeps, WithdrawIntroductionKeeps,
     EraseKeeps
<1>6. CASE Gather \/ BeginPass \/ Pick \/ Authorize \/ Unavailable
  BY <1>6, ChoosingKeeps
<1>7. CASE Propose \/ RejectPending \/ Reserve \/ Prove
  BY <1>7, ProposeKeeps, RejectPendingKeeps, ReserveKeeps, ProveKeeps
<1>8. CASE Unproven \/ Unsent \/ Sent \/ Settle
  BY <1>8, EndingKeeps, SentKeeps, SettleKeeps
<1>9. CASE Restart
  BY <1>9, RestartKeeps
<1>10. CASE UNCHANGED vars
  BY <1>10, StutterKeeps
<1> QED
  BY <1>1, <1>2, <1>3, <1>4, <1>5, <1>6, <1>7, <1>8, <1>9, <1>10 DEF Next, MemberNext, EngineNext

\* Every document in memory and on disk is sound and follows from what was; what was sent,
\* approved, shown and forgotten is on record in it (the state of engagement.rs as a whole).
THEOREM EngagementInvariant == Spec => []IInv
<1>1. Init => IInv
  BY InitSatisfies
<1>2. IInv /\ [Next]_vars => IInv'
  BY StepKeeps
<1> QED
  BY <1>1, <1>2, PTL DEF Spec

\* No message and no pair is the reason of two contacts of one kind, after lost answers, restarts
\* and erasures (recover_reserved, erased_identities, the dedupe of propose).
THEOREM NobodyIsContactedTwice == Spec => []ContactedOnce
<1>1. IInv => ContactedOnce
  BY DEF IInv, Recorded, ContactedOnce
<1> QED
  BY <1>1, EngagementInvariant, PTL

\* The identity of a forgotten pair is among the erased ones, and no entry has one of those.
LEMMA ForgottenPairs ==
  ASSUME IInv, NEW d \in {store, durable}, NEW id \in DOMAIN d.candidates
  PROVE  d.candidates[id].who \notin forgotten.pairs
<1> DEFINE c == d.candidates[id]
<1>1. SUFFICES ASSUME c.who \in forgotten.pairs
               PROVE  FALSE
  OBVIOUS
<1>2. Sound(d, said) /\ Forgets(d, forgotten, said) /\ c.who \in Pairs
  BY <1>1 DEF IInv, Documented, Forgotten
<1>3. c \in CandidateRecords /\ Addressed(c) /\ Identity(c) \notin d.erased_identities
  BY <1>2, Fields DEF Sound, Booked
<1>4. PICK a, b \in Members : a # b /\ c.who = {a, b}
  BY <1>2, EngagementAssumption
<1>5. c.kind = "introduction" /\ c.source = None
  BY <1>3, <1>4 DEF Addressed, CandidateRecords, Kinds
<1>6. Identity(c) = [kind |-> "introduction", who |-> c.who, source |-> None]
  BY <1>5 DEF Identity
<1> QED
  BY <1>1, <1>2, <1>3, <1>6 DEF Forgets

\* What a member was told is erased is in neither memory nor on disk, whatever was waiting for
\* the lock at the time (erase_learning, erasure_admitted).
THEOREM ErasureIsKept == Spec => []ForgottenIsGone
<1>1. ASSUME IInv
      PROVE  ForgottenIsGone
  <2>1. SUFFICES ASSUME NEW d \in {store, durable}
                 PROVE  /\ \A c \in Candidates(d) :
                             c.source \notin forgotten.sources /\ c.who \notin forgotten.pairs
                        /\ \A o \in Observed(d) : o.message \notin forgotten.sources
                        /\ \A m \in Members : d.eligibility[m] \cap forgotten.sources = {}
    BY DEF ForgottenIsGone
  <2>2. Forgets(d, forgotten, said)
    BY <1>1 DEF IInv, Forgotten
  <2>3. \A c \in Candidates(d) : c.who \notin forgotten.pairs
    BY <1>1, ForgottenPairs DEF Candidates
  <2> QED
    BY <2>2, <2>3 DEF Forgets
<1> QED
  BY <1>1, EngagementInvariant, PTL

\* An introduction is charged to nobody or to both of its pair.
LEMMA PairsAreCharged ==
  ASSUME NEW d, NEW messages, Sound(d, messages), NEW id \in DOMAIN d.introductions
  PROVE  Cardinality(ChargedFor(d, id)) \in {0, 2}
<1> DEFINE c == d.candidates[id]  xs == ChargedFor(d, id)
<1>1. /\ id \in DOMAIN d.candidates /\ c.kind = "introduction" /\ Addressed(c) /\ Charged(d, id)
  BY DEF Sound, Booked
<1>2. PICK a, b \in Members : a # b /\ c.who = {a, b}
  BY <1>1, EngagementAssumption DEF Addressed
<1>3. CASE xs = {}
  BY <1>3, FS_EmptySet
<1>4. CASE xs # {}
  <2>1. PICK at \in Nat, f \in [c.who -> Charges] :
          /\ xs = {f[m] : m \in c.who}
          /\ \A m \in c.who : f[m].member = m /\ f[m].at = at
    BY <1>1, <1>4 DEF Charged
  <2>2. xs = {f[a], f[b]} /\ f[a] # f[b]
    BY <1>2, <2>1
  <2>3. IsFiniteSet({f[a]}) /\ Cardinality({f[a]}) = 1 /\ f[b] \notin {f[a]}
    BY <2>2, FS_Singleton
  <2>4. Cardinality({f[a]} \cup {f[b]}) = 2
    BY <2>3, FS_AddElement
  <2>5. xs = {f[a]} \cup {f[b]}
    BY <2>2
  <2> QED
    BY <2>4, <2>5
<1> QED
  BY <1>3, <1>4

\* A charge is one of a member the contact is for.
LEMMA ChargesAreTheirs ==
  ASSUME NEW d, NEW messages, Sound(d, messages), NEW x \in d.charges
  PROVE  x.id \in DOMAIN d.candidates /\ x.member \in d.candidates[x.id].who
<1>1. x.id \in DOMAIN d.candidates /\ Charged(d, x.id)
  BY DEF Sound, Booked
<1>2. x \in ChargedFor(d, x.id)
  BY DEF ChargedFor
<1>3. PICK at \in Nat, f \in [d.candidates[x.id].who -> Charges] :
        /\ ChargedFor(d, x.id) = {f[m] : m \in d.candidates[x.id].who}
        /\ \A m \in d.candidates[x.id].who : f[m].member = m /\ f[m].at = at
  BY <1>1, <1>2 DEF Charged
<1> QED
  BY <1>1, <1>2, <1>3

\* Every document on disk passes the validation of a start (LoadedEngagementStore,
\* EngagementStore::validate), though a pass writes its documents without validating them.
THEOREM DocumentsAreReloadable == Spec => []Reloadable
<1>1. ASSUME IInv
      PROVE  Valid(durable)
  <2> DEFINE d == durable
  <2>1. Sound(d, said) /\ d \in Documents /\ Booked(d)
    BY <1>1 DEF IInv, Documented, Sound
  <2>2. DOMAIN d.candidates \subseteq 1..d.sequence
    BY <2>1 DEF Booked
  <2>3. ASSUME NEW id \in DOMAIN d.introductions
        PROVE  LET i == d.introductions[id]  c == d.candidates[id]
                   charged == {x \in d.charges : x.id = id}
               IN  /\ i.channel = c.channel /\ i.revision = c.revision
                   /\ \A m \in c.who : i.approvals[m] \in {0, i.revision}
                   /\ i.state \in {"ready", "consumed"} =>
                        \A m \in c.who : i.approvals[m] = i.revision /\ i.words[m] # None
                   /\ i.state \in {"pending", "ready"} => c.state = "pending"
                   /\ i.state = "consumed" => Consumed(c)
                   /\ i.state = "cancelled" =>
                        c.state \in {"cancelled", "rejected", "sent", "review_required"}
                   /\ Cardinality(charged) \in {0, 2}
    <3>1. Paired(d.candidates[id], d.introductions[id])
      BY <2>1 DEF Booked
    <3>2. d.introductions[id].revision \in Nat
      BY <2>1, Fields DEF IntroductionRecords
    <3>3. Cardinality({x \in d.charges : x.id = id}) \in {0, 2}
      BY <2>1, PairsAreCharged DEF ChargedFor
    <3>4. d.introductions[id].state \in {"ready", "consumed"} =>
            \A m \in d.candidates[id].who : /\ d.introductions[id].approvals[m] = d.introductions[id].revision
                                            /\ d.introductions[id].words[m] # None
      BY <3>1, <3>2 DEF Paired
    <3> QED
      BY <3>1, <3>3, <3>4 DEF Paired
  <2>4. \A x \in d.charges : x.id \in DOMAIN d.candidates /\ x.member \in d.candidates[x.id].who
    BY <2>1, ChargesAreTheirs
  <2>5. ASSUME NEW id \in DOMAIN d.candidates, Consumed(d.candidates[id]),
               NEW m \in d.candidates[id].who
        PROVE  \E x \in d.charges : x.id = id /\ x.member = m
    BY <2>1, <2>5 DEF Booked, Charged, ChargedFor
  <2>6. /\ \A a, b \in DOMAIN d.candidates :
             Identity(d.candidates[a]) = Identity(d.candidates[b]) => a = b
        /\ DOMAIN d.introductions =
             {id \in DOMAIN d.candidates : d.candidates[id].kind = "introduction"}
    BY <2>1 DEF Booked
  <2> QED
    BY <2>2, <2>3, <2>4, <2>5, <2>6 DEF Valid
<1> QED
  BY <1>1, EngagementInvariant, PTL DEF Reloadable

\* Only a message that is sent is new, and only when the last check lets it.
LEMMA OnlySentPosts ==
  ASSUME IInv, [Next]_vars, NewPost
  PROVE  Sent
<1>1. posts' # posts
  BY DEF NewPost, IInv, Types
<1>2. ~(Say \/ EditOrDelete \/ Tick \/ Observe \/ DeleteSource \/ UNCHANGED vars)
  BY <1>1 DEF Say, EditOrDelete, Tick, Observe, DeleteSource, Event, vars
<1>3. ~(Complete \/ Unassessed \/ Unresolved \/ Resolved)
  BY <1>1 DEF Complete, Unassessed, Unresolved, Resolved, Assessed
<1>4. ~(\E kind, d, ids : Choose(kind, d, ids))
  BY <1>1 DEF Choose
<1>5. ~MemberNext
  BY <1>1, <1>4 DEF MemberNext, Stop, Resume, Configure, Snooze, Dismiss, SetCommunity,
     CreateIntroduction, EditIntroduction, Approve, WithdrawIntroduction, Erase
<1>6. ~PassUnchanged
  BY <1>1 DEF PassUnchanged
<1>7. EngineNext => Sent
  BY <1>6 DEF EngineNext, Gather, Propose, BeginPass, Pick, Authorize, Unavailable, RejectPending,
     Reserve, Prove, Unproven, Unsent, Settle
<1>8. ~Restart
  BY <1>1 DEF Restart
<1> QED
  BY <1>2, <1>3, <1>5, <1>7, <1>8 DEF Next

\* The message: the candidate's, at its place in what was sent.
LEMMA SentPost ==
  ASSUME IInv, Sent
  PROVE  LET c == store.candidates[engine.id]
         IN  /\ engine.at = "proven" /\ Ready
             /\ Len(posts') = Len(posts) + 1 /\ LastPost = Post(c)
             /\ DOMAIN posts' = DOMAIN posts \cup {Len(posts) + 1}
             /\ \A i \in DOMAIN posts : posts'[i] = posts[i]
             /\ Len(posts) + 1 \notin DOMAIN posts /\ posts'[Len(posts) + 1] = Post(c)
<1> DEFINE p == Post(store.candidates[engine.id])
<1>1. /\ engine.at = "proven" /\ Ready /\ posts' = Append(posts, p) /\ posts \in Seq(Posts)
  BY DEF Sent, IInv, Types
<1>2. p \in Posts
  BY <1>1, PostIsTyped
<1> HIDE DEF p
<1>3. /\ Len(posts') = Len(posts) + 1 /\ posts'[Len(posts')] = p
      /\ DOMAIN posts' = DOMAIN posts \cup {Len(posts) + 1}
      /\ \A i \in DOMAIN posts : posts'[i] = posts[i]
      /\ Len(posts) + 1 \notin DOMAIN posts /\ posts'[Len(posts) + 1] = p
  BY <1>1, <1>2
<1> QED
  BY <1>1, <1>3 DEF LastPost, p

\* Contact stays within everyone's daily limit as it is set when it is sent, whatever was erased
\* and however the time zone was changed in between (capacity, erased_contact_charges).
THEOREM NobodyIsContactedTooOften == Spec => WithinBudget
<1>1. ASSUME IInv, [Next]_vars, NewPost
      PROVE  \A m \in LastPost.to :
               LET terms == store.policies[m].terms
                   today == LocalDay(terms, LastPost.at)
               IN  Cardinality({i \in DOMAIN posts' : m \in posts'[i].to
                                                      /\ LocalDay(terms, posts'[i].at) = today})
                     <= terms.daily_limit
  <2> DEFINE c == store.candidates[engine.id]
             p == Post(c)
  <2>1. Sent
    BY <1>1, OnlySentPosts
  <2>2. /\ engine.at = "proven" /\ Ready
        /\ Len(posts') = Len(posts) + 1 /\ LastPost = p
        /\ DOMAIN posts' = DOMAIN posts \cup {Len(posts) + 1}
        /\ \A i \in DOMAIN posts : posts'[i] = posts[i]
        /\ Len(posts) + 1 \notin DOMAIN posts /\ posts'[Len(posts) + 1] = p
    BY <1>1, <2>1, SentPost
  <2>3. p.to = c.who /\ p.at = engine.r.at
    BY DEF Post
  <2> SUFFICES ASSUME NEW m \in LastPost.to
               PROVE  LET terms == store.policies[m].terms
                          today == LocalDay(terms, LastPost.at)
                      IN  Cardinality({i \in DOMAIN posts' : m \in posts'[i].to
                                                             /\ LocalDay(terms, posts'[i].at) = today})
                            <= terms.daily_limit
    OBVIOUS
  <2> DEFINE terms == store.policies[m].terms
             today == LocalDay(terms, LastPost.at)
             old == PostsTo(posts, m, terms, today)
             new == {i \in DOMAIN posts' : m \in posts'[i].to
                                           /\ LocalDay(terms, posts'[i].at) = today}
  <2>4. m \in c.who
    BY <2>2, <2>3
  <2>5. /\ m \in Members
        /\ Cardinality(PostsTo(posts, m, terms, LocalDay(terms, engine.r.at))) < terms.daily_limit
    BY <1>1, <2>2, <2>4, ReadyFacts
  <2>6. Cardinality(old) < terms.daily_limit
    BY <2>2, <2>3, <2>5
  <2>7. new \subseteq old \cup {Len(posts) + 1}
    BY <2>2 DEF PostsTo
  <2>8. IsFiniteSet(old)
    <3>1. posts \in Seq(Posts)
      BY <1>1 DEF IInv, Types
    <3>2. old \subseteq 1..Len(posts)
      BY <3>1 DEF PostsTo
    <3>3. 1 \in Int /\ Len(posts) \in Int
      BY <3>1
    <3>4. IsFiniteSet(1..Len(posts))
      BY <3>3, FS_Interval
    <3> QED
      BY <3>2, <3>4, FS_Subset
  <2>9. terms.daily_limit \in Nat
    <3>1. store \in Documents
      BY <1>1 DEF IInv, Documented, Sound
    <3>2. store.policies[m] \in Policies
      BY <2>5, <3>1, Fields
    <3>3. terms \in Terms
      BY <3>2 DEF Policies
    <3> HIDE DEF terms
    <3>4. terms.daily_limit \in 1..4
      BY <3>3, EngagementAssumption
    <3> QED
      BY <3>4
  <2> HIDE DEF old, new, terms, today
  <2>10. /\ IsFiniteSet(old \cup {Len(posts) + 1})
         /\ Cardinality(old \cup {Len(posts) + 1}) <= Cardinality(old) + 1
         /\ Cardinality(old) \in Nat /\ Cardinality(old \cup {Len(posts) + 1}) \in Nat
    <3> DEFINE x == Len(posts) + 1
    <3> HIDE DEF x
    <3>1. /\ IsFiniteSet(old \cup {x})
          /\ \/ Cardinality(old \cup {x}) = Cardinality(old)
             \/ Cardinality(old \cup {x}) = Cardinality(old) + 1
      BY <2>8, FS_AddElement
    <3>2. Cardinality(old) \in Nat /\ Cardinality(old \cup {x}) \in Nat
      BY <2>8, <3>1, FS_CardinalityType
    <3> QED
      BY <3>1, <3>2 DEF x
  <2>11. Cardinality(new) <= Cardinality(old \cup {Len(posts) + 1}) /\ Cardinality(new) \in Nat
    BY <2>7, <2>10, FS_Subset, FS_CardinalityType
  <2>12. Cardinality(new) <= terms.daily_limit
    BY <2>6, <2>9, <2>10, <2>11
  <2> QED
    BY <2>12 DEF new, terms, today
<1>2. IInv /\ [Next]_vars =>
        [NewPost => \A m \in LastPost.to :
           LET terms == store.policies[m].terms
               today == LocalDay(terms, LastPost.at)
           IN  Cardinality({i \in DOMAIN posts' : m \in posts'[i].to
                                                  /\ LocalDay(terms, posts'[i].at) = today})
                 <= terms.daily_limit]_vars
  BY <1>1
<1> QED
  BY <1>2, EngagementInvariant, PTL DEF Spec, WithinBudget

\* Nothing is sent once a confirmed choice or event has taken its ground away, and an introduction
\* says what each of the two saw when approving it (validate_reserved,
\* validate_introduction_reservation, engagement_events_healthy).
THEOREM SentIsAgreed == Spec => SentAsAgreed
<1>1. ASSUME IInv, [Next]_vars, NewPost
      PROVE  /\ ~withdrawn
             /\ LastPost.what.kind = "introduction" =>
                  \A m \in LastPost.to :
                    [id |-> LastPost.id, member |-> m, word |-> LastPost.words[m],
                     channel |-> LastPost.channel] \in agreed
  <2> DEFINE id == engine.id
             c == store.candidates[id]
  <2>1. engine.at = "proven" /\ Ready /\ LastPost = Post(c)
    BY <1>1, OnlySentPosts, SentPost
  <2>2. /\ ~withdrawn
        /\ c.kind = "introduction" =>
             /\ store.introductions[id].words = engine.plan.introduction.words
             /\ \A m \in c.who : [id |-> id, member |-> m, word |-> store.introductions[id].words[m],
                                   channel |-> c.channel] \in agreed
    BY <1>1, <2>1, ReadyFacts
  <2>3. /\ LastPost.what.kind = c.kind /\ LastPost.id = id /\ LastPost.channel = c.channel
        /\ LastPost.to = c.who
        /\ c.kind = "introduction" => LastPost.words = engine.plan.introduction.words
    BY <2>1 DEF Post, Identity
  <2> QED
    BY <2>2, <2>3
<1>2. IInv /\ [Next]_vars =>
        [NewPost =>
           /\ ~withdrawn
           /\ LastPost.what.kind = "introduction" =>
                \A m \in LastPost.to :
                  [id |-> LastPost.id, member |-> m, word |-> LastPost.words[m],
                   channel |-> LastPost.channel] \in agreed]_vars
  BY <1>1
<1> QED
  BY <1>2, EngagementInvariant, PTL DEF Spec, SentAsAgreed
=============================================================================
